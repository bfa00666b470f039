------------------------------ MODULE MCEscrow ------------------------------
\* Model values and symmetry for the runs of Escrow.
EXTENDS Escrow, TLC

\* Accounts are interchangeable: every account may take every role.
AccountSymmetry == Permutations(Accounts)
=============================================================================
