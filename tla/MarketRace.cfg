SPECIFICATION Spec
CONSTANTS
  Users = {alice, bob}
  Tasks = {task}
  Nonces = {n1, n2}
  Requests = {q1, q2, q3}
  Nothing = Nothing
  Window = 1
  Margin = 1
  MaxTime = 2
  MaxApps = 2
SYMMETRY MarketSymmetry
INVARIANTS OthersInvalid
\* The system stops when every request is done and the clock is at its bound.
CHECK_DEADLOCK FALSE
