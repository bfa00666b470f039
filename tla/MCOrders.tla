------------------------------ MODULE MCOrders ------------------------------
\* Symmetry for the safety runs of Orders.
EXTENDS Orders, TLC

\* Intents, and overlapping calls of a handler, are interchangeable.
OrderSymmetry ==
  Permutations(Intents) \cup Permutations(Syncs) \cup Permutations(Deliveries)
=============================================================================
