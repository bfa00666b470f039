SPECIFICATION Spec
CONSTANTS
  Accounts = {alice, bob}
  EscrowAddr = EscrowAddr
  NoAddress = NoAddress
  Agents = {agent}
  NoAgent = NoAgent
  Deliverables = {doc}
  ZeroHash = ZeroHash
  Mint = 2
  Capped = TRUE
  MaxBudget = 1
  MaxTotalEscrowed = 1
  MaxJobs = 1
  MaxTime = 2
  MaxAmount = 2
SYMMETRY AccountSymmetry
INVARIANTS TypeOK
PROPERTIES TermsFrozen ChargedAsSigned
