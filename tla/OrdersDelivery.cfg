SPECIFICATION Spec
CONSTANTS
  Intents = {i1, i2, i3}
  Actions = {"create", "submit"}
  Syncs = {}
  Deliveries = {d1, d2}
  NoIntent = NoIntent
  Window = 2
  MaxJobs = 2
  MaxOutside = 2
  MaxCrashes = 0
SYMMETRY OrderSymmetry
INVARIANTS SubmitsTheDelivery
\* The run stops when every intent is used up.
CHECK_DEADLOCK FALSE
