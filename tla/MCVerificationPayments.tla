----------------------- MODULE MCVerificationPayments -----------------------
\* Symmetry for the run of VerificationPayments.
EXTENDS VerificationPayments, TLC

\* Authorizations, what they are bound to and reports are interchangeable.  No
\* fairness condition and no temporal property names one of them, so a fair
\* cycle of the reduced graph is one of the full graph; calls, which fairness
\* does name, are kept apart.
PaymentSymmetry ==
  Permutations(Authorizations) \cup Permutations(Bindings) \cup Permutations(Reports)
=============================================================================
