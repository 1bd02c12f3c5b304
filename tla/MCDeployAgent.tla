--------------------------- MODULE MCDeployAgent ---------------------------
(* DeployAgent on a small instance: each call is one request to the agent, *)
(* each task the loop of one accepted goal.                                *)
EXTENDS DeployAgent, TLC

CONSTANTS r1, r2, r3

To(env) == [environment |-> env, service |-> "api", commit |-> "a1"]

\* Two receipts for the target that is allowed, one for one that is not.
MCClaim == r1 :> To("staging") @@ r2 :> To("staging") @@ r3 :> To("production")
MCGoals == {To("staging"), To("production")}

Symmetry ==
    Permutations(Calls) \cup Permutations(Tasks) \cup Permutations({r1, r2})
        \cup Permutations(Delegations)
=============================================================================
