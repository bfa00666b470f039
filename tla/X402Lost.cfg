SPECIFICATION Spec
CONSTANTS
  Calls = {c1, c2, c3}
  Authorizations = {a1}
  Bindings = {b1}
  Nothing = Nothing
  MaxTxs = 2
  MaxHeight = 4
  MaxCrashes = 0
  MaxLost = 1
  MaxOutside = 0
SYMMETRY PaymentSymmetry
INVARIANTS PaymentRecoverable
\* The system stops when every call has ended and every transaction is mined.
CHECK_DEADLOCK FALSE
