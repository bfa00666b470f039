SPECIFICATION Spec
CONSTANTS
  Calls = {c1, c2, c3}
  Authorizations = {a1, a2}
  Bindings = {b1, b2}
  Nothing = Nothing
  MaxTxs = 3
  MaxHeight = 3
  MaxCrashes = 1
  MaxLost = 1
  MaxOutside = 1
SYMMETRY PaymentSymmetry
INVARIANTS TypeOK BroadcastsJournalled RecoverableIfAnswered
PROPERTIES SaleKept
\* The system stops when every call has ended and every transaction is mined.
CHECK_DEADLOCK FALSE
