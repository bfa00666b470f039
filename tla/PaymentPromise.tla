--------------------------- MODULE PaymentPromise ---------------------------
(***************************************************************************)
(* What an escrow promises its users, without saying who decides or when:   *)
(* the terms of a payment may be negotiated until the money is held; held   *)
(* money goes, exactly once, whole, either to the payee or back to the      *)
(* payer; and nobody's wallet changes in any other way, except that its     *)
(* owner may spend from it.  Escrow.tla is shown to implement this.         *)
(***************************************************************************)
EXTENDS Naturals

CONSTANTS Payments, Parties, Terms

VARIABLES
  phase,    \* "negotiating", "held" or "closed", for each payment
  terms,    \* [payer, payee, amount] of each payment
  wallet    \* what each party owns

vars == <<phase, terms, wallet>>

Init ==
  /\ phase = [p \in Payments |-> "negotiating"]
  /\ terms \in [Payments -> Terms]
  /\ wallet \in [Parties -> Nat]

Negotiate(p) ==
  /\ phase[p] = "negotiating"
  /\ \E t \in Terms : terms' = [terms EXCEPT ![p] = t]
  /\ UNCHANGED <<phase, wallet>>

Abandon(p) ==
  /\ phase[p] = "negotiating"
  /\ phase' = [phase EXCEPT ![p] = "closed"]
  /\ UNCHANGED <<terms, wallet>>

Hold(p) ==
  /\ phase[p] = "negotiating"
  /\ terms[p].payer \in Parties
  /\ wallet[terms[p].payer] >= terms[p].amount
  /\ phase' = [phase EXCEPT ![p] = "held"]
  /\ wallet' = [wallet EXCEPT ![terms[p].payer] = @ - terms[p].amount]
  /\ UNCHANGED terms

CloseTo(p, party) ==
  /\ phase[p] = "held"
  /\ party \in Parties
  /\ phase' = [phase EXCEPT ![p] = "closed"]
  /\ wallet' = [wallet EXCEPT ![party] = @ + terms[p].amount]
  /\ UNCHANGED terms

Pay(p) == CloseTo(p, terms[p].payee)

Return(p) == CloseTo(p, terms[p].payer)

Spend(a) ==
  /\ \E rest \in 0 .. wallet[a] : wallet' = [wallet EXCEPT ![a] = rest]
  /\ UNCHANGED <<phase, terms>>

Next ==
  \/ \E p \in Payments :
       Negotiate(p) \/ Abandon(p) \/ Hold(p) \/ Pay(p) \/ Return(p)
  \/ \E a \in Parties : Spend(a)

Spec == Init /\ [][Next]_vars
=============================================================================
