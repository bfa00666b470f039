---------------------------- MODULE SalePromise ----------------------------
(***************************************************************************)
(* What a paid endpoint promises those who call it, without saying how it   *)
(* settles, what it writes down or when it fails: an authorization pays     *)
(* once, for one good, which is fixed before the money can move; it is sold *)
(* only when the money has moved, and from then on every call that is       *)
(* answered with a good gets the one its authorization has bought.          *)
(* VerificationPayments.tla and X402Payments.tla are shown to implement it. *)
(***************************************************************************)

CONSTANTS Customers, Authorizations, Goods

VARIABLES
  reserved,   \* the good that each authorization is to pay for, if any: {good} or {}
  charged,    \* authorizations whose money has moved
  sold,       \* those that have bought what was reserved
  served      \* what each call was answered with, if with a good: {[auth, good]} or {}

vars == <<reserved, charged, sold, served>>

Init ==
  /\ reserved = [a \in Authorizations |-> {}]
  /\ charged = {}
  /\ sold = {}
  /\ served = [c \in Customers |-> {}]

Reserve(a, good) ==
  /\ reserved[a] = {}
  /\ reserved' = [reserved EXCEPT ![a] = {good}]
  /\ UNCHANGED <<charged, sold, served>>

Charge(a) ==
  /\ reserved[a] # {}
  /\ a \notin charged
  /\ charged' = charged \cup {a}
  /\ UNCHANGED <<reserved, sold, served>>

Sell(a) ==
  /\ a \in charged
  /\ sold' = sold \cup {a}
  /\ UNCHANGED <<reserved, charged, served>>

\* The call that settles a payment is answered in the same step.
Serve(c, a) ==
  /\ a \in charged
  /\ served[c] = {}
  /\ \E good \in reserved[a] : served' = [served EXCEPT ![c] = {[auth |-> a, good |-> good]}]
  /\ sold' = sold \cup {a}
  /\ UNCHANGED <<reserved, charged>>

Next ==
  \E a \in Authorizations :
    \/ \E good \in Goods : Reserve(a, good)
    \/ Charge(a)
    \/ Sell(a)
    \/ \E c \in Customers : Serve(c, a)

Spec == Init /\ [][Next]_vars
=============================================================================
