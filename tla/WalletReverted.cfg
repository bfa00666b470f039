SPECIFICATION FairSpec
CONSTANTS
  Tabs = {t1}
  Operations = {"budget", "approve"}
  MaxIntents = 2
  MaxTxs = 2
  MaxReverts = 1
  MaxMismatches = 0
  MaxFailures = 0
  MaxLost = 0
PROPERTIES PendingReleased
\* The run stops at the bounds of the model.
CHECK_DEADLOCK FALSE
