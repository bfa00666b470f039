--------------------------- MODULE MCX402Payments ---------------------------
\* Symmetry for the runs of X402Payments.
EXTENDS X402Payments, TLC

\* Calls, authorizations and what they are bound to are interchangeable.
PaymentSymmetry ==
  Permutations(Calls) \cup Permutations(Authorizations) \cup Permutations(Bindings)
=============================================================================
