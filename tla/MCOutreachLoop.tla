--------------------------- MODULE MCOutreachLoop ---------------------------
(* OutreachLoop on a small instance.                                       *)
EXTENDS OutreachLoop, TLC

CONSTANTS ann, bob, eve, typo, r1, r2, r3, r4, hello

MCLists == {<<a>> : a \in {ann, bob, eve, typo}}
MCHashOf == hello :> "h"

\* Two receipts for ann, one for bob, one for eve, who is in a domain that the
\* mailer does not serve.
MCClaim ==
    LET To(a) == [recipients |-> <<a>>, hash |-> "h"] IN
    r1 :> To(ann) @@ r2 :> To(ann) @@ r3 :> To(bob) @@ r4 :> To(eve)

\* One who is named twice, and one who cannot be mailed, between others.
MCGoals ==
    {[recipients |-> list, body |-> hello] :
        list \in {<<ann, bob, ann>>, <<eve, typo, ann>>}}
=============================================================================
