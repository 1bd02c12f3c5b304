------------------------------ MODULE MCMailer ------------------------------
(* Mailer on small instances.                                              *)
EXTENDS Mailer, TLC

CONSTANTS ann, bob, eve, r1, r2, hello, spam

\* The two orders of a pair, one of the pair twice, a recipient outside the
\* allow-list, and nobody at all.
MCLists == {<<ann, bob>>, <<bob, ann>>, <<ann, ann, bob>>, <<eve>>, << >>}

MCHashes == {"h1", "h2"}
MCHashOf == hello :> "h1" @@ spam :> "h2"

To(list) == [recipients |-> list, hash |-> "h1"]

\* One receipt the mailer may honour, one for a recipient it may not mail.
MCClaim == r1 :> To(<<ann, bob>>) @@ r2 :> To(<<eve>>)

RequestSymmetry == Permutations(Requests)
=============================================================================
