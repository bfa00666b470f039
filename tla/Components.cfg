SPECIFICATION Spec
CONSTANTS
  Readers = {r1, r2}
  TailBlocks = 1
  MaxBlocks = 2
  Calls = {c1, c2}
  Capacity = 1
  \* a payment with its allowance, and a delivery against a digest
  Requests = {{"payment", "allowance"}, {"job", "manifest", "digest"}}
  Clients = {m1, m2, m3}
  Checks = {k1, k2}
  Enabled = TRUE
  Tabs = {t1, t2}
  Addresses = {a, b}
  Nobody = nobody
  Limit = 1
  Window = 1
  NonceTTL = 0
  SessionTTL = 0
  Reviewed = 101
  Other = 102
  RunSteps = 3
  Funded = 1
  Agents = 2
  DeployCommands = 3
  DeployFaults = 1
  DeployTxs = 6
  ScriptCommands = 4
  MaxProofTxs = 16
  MaxSigned = 5
  MaxSubmits = 3
  MaxOutside = 1
  MaxSwaps = 3
  MoveCommands = 5
  MaxMoves = 5
  MaxBalance = 3
  Funds = 3
  ScanHeight = 3
  VerifiedHeight = 2
  MaxForks = 2
  MaxLag = 1
  MaxReads = 2
  MaxReplies = 2
  MaxModes = 1
  MaxVersion = 3
  MaxVisits = 3
  MaxNonces = 2
  MaxTime = 1
  MaxChanges = 1
SYMMETRY Symmetry
INVARIANTS TypeOK DeploymentSound ScriptsSound ScanSound VerifiedIsTrue AnalysisSound ChatSound MarketPageSound SignInSound
\* Every component may reach its bounds and stop.
CHECK_DEADLOCK FALSE
