SPECIFICATION FairSpec
CONSTANTS
  Intents = {i1, i2}
  Actions = {"create", "submit", "cancel", "fund", "refund"}
  Syncs = {s1}
  Deliveries = {d1}
  NoIntent = NoIntent
  Window = 1
  MaxJobs = 2
  MaxOutside = 2
  MaxCrashes = 1
INVARIANTS TypeOK LinkedIsOurs NeverAhead
PROPERTIES OutcomeKept CatchesUp

