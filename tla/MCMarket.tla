------------------------------ MODULE MCMarket ------------------------------
\* Symmetry for the runs of Market.
EXTENDS Market, TLC

\* Users, nonces and requests are interchangeable.
MarketSymmetry ==
  Permutations(Users) \cup Permutations(Nonces) \cup Permutations(Requests)
=============================================================================
