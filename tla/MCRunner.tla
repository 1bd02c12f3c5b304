------------------------------ MODULE MCRunner ------------------------------
(* Runner on small instances.                                              *)
EXTENDS Runner, TLC

CONSTANTS r1, r2, r3

To(env, sha) == [environment |-> env, service |-> "api", commit |-> sha]

\* A receipt the runner may honour, one for an environment that is not on
\* the allow-list, and one with a foreign descriptor.
MCClaim ==
    r1 :> To("staging", "a1") @@ r2 :> To("production", "a1") @@ r3 :> NoClaim

RequestSymmetry == Permutations(Requests)
=============================================================================
