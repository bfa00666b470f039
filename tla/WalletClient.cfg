SPECIFICATION FairSpec
CONSTANTS
  Tabs = {t1}
  Operations = {"budget", "approve"}
  MaxIntents = 3
  MaxTxs = 4
  MaxReverts = 1
  MaxMismatches = 1
  MaxFailures = 2
  MaxLost = 1
INVARIANTS TypeOK OpenIsResumable
PROPERTIES ReleasedIfConfirmable
\* The run stops at the bounds of the model.
CHECK_DEADLOCK FALSE
