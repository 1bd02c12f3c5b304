---------------------------- MODULE ReceiptLedger ----------------------------
(***************************************************************************)
(* What a resource that honours Maat receipts promises, whatever the       *)
(* resource is: a receipt is consumed once, an effect takes effect only    *)
(* under a consumed receipt that authorises exactly that effect, and no    *)
(* receipt ever stands behind two effects.                                 *)
(*                                                                         *)
(* commerce/store, deploy/runner and email-outreach/mailer each put their  *)
(* own handler behind this promise; their modules implement this one.      *)
(***************************************************************************)

CONSTANTS
    Attempts,    \* the requests that may present a receipt
    Receipts,    \* receipt ids
    Authorises   \* set of <<receipt, what>>: what each receipt commits to

VARIABLES
    consumed,    \* receipts that can never be presented again
    effects      \* [by, receipt, what]: what happened, and on whose behalf

ledger == <<consumed, effects>>

Init ==
    /\ consumed = {}
    /\ effects = {}

\* A receipt is used up, with or without an effect to follow.
Consume(r) ==
    /\ r \notin consumed
    /\ consumed' = consumed \cup {r}
    /\ UNCHANGED effects

\* The one effect that a consumed receipt may have.
Redeem(a, r, w) ==
    /\ r \in consumed
    /\ <<r, w>> \in Authorises
    /\ \A e \in effects : e.receipt # r
    /\ effects' = effects \cup {[by |-> a, receipt |-> r, what |-> w]}
    /\ UNCHANGED consumed

Next ==
    \E r \in Receipts :
        \/ Consume(r)
        \/ \E a \in Attempts : \E pair \in Authorises :
              pair[1] = r /\ Redeem(a, r, pair[2])

Spec == Init /\ [][Next]_ledger
=============================================================================
