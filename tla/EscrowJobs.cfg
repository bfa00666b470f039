SPECIFICATION FairSpec
CONSTANTS
  Accounts = {alice, bob}
  EscrowAddr = EscrowAddr
  NoAddress = NoAddress
  Agents = {}
  NoAgent = NoAgent
  Deliverables = {}
  ZeroHash = ZeroHash
  Mint = 1
  Capped = TRUE
  MaxBudget = 1
  MaxTotalEscrowed = 1
  MaxJobs = 2
  MaxTime = 1
  MaxAmount = 1
INVARIANTS Solvent CounterExact CapsHold
PROPERTIES PromiseKept EscrowedIsSettled
\* A behaviour may end at the clock's bound, with every job settled.
CHECK_DEADLOCK FALSE
