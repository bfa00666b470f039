SPECIFICATION FairSpec
CONSTANTS
  Calls = {c1, c2, c3}
  Authorizations = {a1, a2, a3}
  Bindings = {b1, b2}
  Reports = {r1, r2}
  Nothing = Nothing
  Capacity = 2
  MaxCrashes = 1
SYMMETRY PaymentSymmetry
INVARIANTS TypeOK AskedOnce AskedIsRecorded ReportIsPaid WithinCapacity
PROPERTIES SaleKept EveryCallAnswered
\* The system stops when every call has been answered.
CHECK_DEADLOCK FALSE
