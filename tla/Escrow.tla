------------------------------- MODULE Escrow -------------------------------
(***************************************************************************)
(* The ERC-8183 task escrow: contracts/src/MainnetCanaryEscrow.sol, and     *)
(* contracts/src/TaskEscrow.sol, which is the same contract without the     *)
(* caps (Capped = FALSE).  One action per external function; a transaction  *)
(* is atomic, and a call whose `require` fails changes nothing, so it is    *)
(* simply not a step.  Around the contract: the block clock, the ERC-20     *)
(* balances, the ERC-721 identity registry, and the funding transactions    *)
(* that clients have signed and that wait to be mined while others act.     *)
(*                                                                         *)
(* Abstracted: descriptions, reasons, URIs and events (no property depends  *)
(* on them); the ERC-20 allowance (too small an allowance reverts fund, as  *)
(* if the signed transaction had not been mined).                           *)
(***************************************************************************)
EXTENDS Naturals, PartialSums

CONSTANTS
  Accounts,          \* externally owned accounts; any of them may take any role
  EscrowAddr,        \* the address of the contract itself
  NoAddress,         \* address(0)
  Agents, NoAgent,   \* identities of the registry; "no linked agent"
  Deliverables, ZeroHash,
  Mint,              \* tokens each account starts with
  Capped,            \* TRUE: MainnetCanaryEscrow, FALSE: TaskEscrow
  MaxBudget, MaxTotalEscrowed,   \* the constructor's immutable limits
  MaxJobs, MaxTime, MaxAmount    \* bounds of the model, not of the code

ASSUME EscrowAssumption ==
  /\ EscrowAddr \notin Accounts
  /\ NoAddress \notin Accounts \cup {EscrowAddr}
  /\ NoAgent \notin Agents
  /\ Mint \in Nat
  /\ Capped \in BOOLEAN
  /\ MaxBudget \in Nat \ {0}
  /\ MaxTotalEscrowed \in Nat
  /\ MaxTotalEscrowed >= MaxBudget
  /\ MaxJobs \in Nat /\ MaxTime \in Nat /\ MaxAmount \in Nat

VARIABLES
  now,            \* block.timestamp
  jobCount,
  jobs,           \* _jobs: a slot that was never written is EmptyJob
  totalEscrowed,
  balance,        \* paymentToken.balanceOf
  owner,          \* identityRegistry.ownerOf
  signed,         \* expectedBudget of a signed, unmined fund(id, .); 0: none
  stray           \* tokens sent to the contract outside of any job (history)

vars == <<now, jobCount, jobs, totalEscrowed, balance, owner, signed, stray>>

JobIds == 1 .. MaxJobs
Times == 0 .. MaxTime
Amounts == 0 .. MaxAmount
Addresses == Accounts \cup {EscrowAddr}
Statuses == {"Open", "Funded", "Submitted", "Completed", "Rejected", "Expired"}

JobRecords ==
  [client : Accounts \cup {NoAddress}, provider : Addresses \cup {NoAddress},
   evaluator : Addresses \cup {NoAddress}, budget : Amounts, expiredAt : Times,
   status : Statuses, deliverable : Deliverables \cup {ZeroHash},
   agent : Agents \cup {NoAgent}]

EmptyJob ==
  [client |-> NoAddress, provider |-> NoAddress, evaluator |-> NoAddress,
   budget |-> 0, expiredAt |-> 0, status |-> "Open", deliverable |-> ZeroHash,
   agent |-> NoAgent]

Init ==
  /\ now = 0
  /\ jobCount = 0
  /\ jobs = [id \in JobIds |-> EmptyJob]
  /\ totalEscrowed = 0
  /\ balance = [a \in Addresses |-> IF a = EscrowAddr THEN 0 ELSE Mint]
  /\ owner \in [Agents -> Accounts]
  /\ signed = [id \in JobIds |-> 0]
  /\ stray = 0

-----------------------------------------------------------------------------
(* The conditions of the contract.                                          *)

Known(id) == id <= jobCount

IsOpen(id) ==
  /\ Known(id)
  /\ jobs[id].status = "Open"
  /\ now < jobs[id].expiredAt

\* The job's budget is held by the contract (the `funded` flag of reject).
Escrowed(id) == jobs[id].status \in {"Funded", "Submitted"}

BudgetAllowed(amount) == Capped => amount > 0 /\ amount <= MaxBudget

\* Operators named Definition_Bug are plausible bugs, never part of Spec: the
\* mutants of PROJECT.json put one in the place of Definition and expect a violation.
HasRoom_ThisJobOnly(amount) == Capped => amount <= MaxBudget

HasRoom(amount) ==
  Capped => amount <= MaxBudget /\ totalEscrowed + amount <= MaxTotalEscrowed

\* The balances after an ERC-20 transfer.
Moved(from, to, amount) ==
  [a \in Addresses |-> IF from = to THEN balance[a]
                       ELSE IF a = from THEN balance[a] - amount
                       ELSE IF a = to THEN balance[a] + amount ELSE balance[a]]

-----------------------------------------------------------------------------
(* Opening a job and agreeing on its terms.                                 *)

NewJob(caller, provider, evaluator, expiry, agent) ==
  /\ jobCount < MaxJobs
  /\ expiry > now
  /\ jobCount' = jobCount + 1
  /\ jobs' = [jobs EXCEPT ![jobCount + 1] =
                [client |-> caller, provider |-> provider, evaluator |-> evaluator,
                 budget |-> 0, expiredAt |-> expiry, status |-> "Open",
                 deliverable |-> ZeroHash, agent |-> agent]]
  /\ UNCHANGED <<now, totalEscrowed, balance, owner, signed, stray>>

CreateJob(caller) ==
  \E provider \in Addresses \cup {NoAddress}, evaluator \in Addresses, expiry \in Times :
     NewJob(caller, provider, evaluator, expiry, NoAgent)

CreateAgentJob(caller) ==
  \E agent \in Agents, evaluator \in Addresses, expiry \in Times :
     NewJob(caller, owner[agent], evaluator, expiry, agent)

Assign(caller, id, provider, agent) ==
  /\ IsOpen(id)
  /\ caller = jobs[id].client
  /\ jobs[id].provider = NoAddress
  /\ jobs' = [jobs EXCEPT ![id].provider = provider, ![id].agent = agent]
  /\ UNCHANGED <<now, jobCount, totalEscrowed, balance, owner, signed, stray>>

SetProvider(caller, id) ==
  \E provider \in Addresses : Assign(caller, id, provider, jobs[id].agent)

SetAgentProvider(caller, id) ==
  \E agent \in Agents : Assign(caller, id, owner[agent], agent)

SetBudget(caller, id, amount) ==
  /\ IsOpen(id)
  /\ caller \in {jobs[id].client, jobs[id].provider}
  /\ BudgetAllowed(amount)
  /\ jobs' = [jobs EXCEPT ![id].budget = amount]
  /\ UNCHANGED <<now, jobCount, totalEscrowed, balance, owner, signed, stray>>

-----------------------------------------------------------------------------
(* Money in.  The client signs fund(id, expectedBudget); until it is mined  *)
(* the provider may still change the budget.                                *)

SignFund(id, expectedBudget) ==
  /\ Known(id)
  /\ jobs[id].status = "Open"
  /\ signed[id] = 0
  /\ signed' = [signed EXCEPT ![id] = expectedBudget]
  /\ UNCHANGED <<now, jobCount, jobs, totalEscrowed, balance, owner, stray>>

CanFund_AnyBudget(id) ==
  /\ IsOpen(id)
  /\ jobs[id].provider # NoAddress
  /\ jobs[id].budget > 0
  /\ HasRoom(jobs[id].budget)
  /\ balance[jobs[id].client] >= jobs[id].budget

CanFund_NoBalance(id) ==
  /\ IsOpen(id)
  /\ jobs[id].provider # NoAddress
  /\ jobs[id].budget > 0
  /\ jobs[id].budget = signed[id]
  /\ HasRoom(jobs[id].budget)

CanFund(id) ==
  /\ IsOpen(id)
  /\ jobs[id].provider # NoAddress
  /\ jobs[id].budget > 0
  /\ jobs[id].budget = signed[id]
  /\ HasRoom(jobs[id].budget)
  /\ balance[jobs[id].client] >= jobs[id].budget

Fund(id) ==
  /\ signed[id] > 0
  /\ CanFund(id)
  /\ jobs' = [jobs EXCEPT ![id].status = "Funded"]
  /\ totalEscrowed' = IF Capped THEN totalEscrowed + jobs[id].budget ELSE totalEscrowed
  /\ balance' = Moved(jobs[id].client, EscrowAddr, jobs[id].budget)
  /\ signed' = [signed EXCEPT ![id] = 0]
  /\ UNCHANGED <<now, jobCount, owner, stray>>

FundReverts(id) ==
  /\ signed[id] > 0
  /\ ~CanFund(id)
  /\ signed' = [signed EXCEPT ![id] = 0]
  /\ UNCHANGED <<now, jobCount, jobs, totalEscrowed, balance, owner, stray>>

-----------------------------------------------------------------------------
(* submit and submitWithURI: the latter only adds conditions on its         *)
(* arguments (a non-zero hash, a CIDv1 URI) and one more event.             *)

Submit(caller, id, deliverable) ==
  /\ Known(id)
  /\ jobs[id].status = "Funded"
  /\ now < jobs[id].expiredAt
  /\ caller = jobs[id].provider
  /\ jobs' = [jobs EXCEPT ![id].status = "Submitted", ![id].deliverable = deliverable]
  /\ UNCHANGED <<now, jobCount, totalEscrowed, balance, owner, signed, stray>>

-----------------------------------------------------------------------------
(* Money out.  Both the checked subtraction of totalEscrowed and a transfer *)
(* beyond the contract's balance revert the whole call.                     *)

Settle_StatusKept(id, status, payee) ==
  /\ balance[EscrowAddr] >= jobs[id].budget
  /\ balance' = Moved(EscrowAddr, payee, jobs[id].budget)
  /\ UNCHANGED <<now, jobCount, jobs, totalEscrowed, owner, signed, stray>>

Settle_CounterKept(id, status, payee) ==
  /\ balance[EscrowAddr] >= jobs[id].budget
  /\ jobs' = [jobs EXCEPT ![id].status = status]
  /\ balance' = Moved(EscrowAddr, payee, jobs[id].budget)
  /\ UNCHANGED <<now, jobCount, totalEscrowed, owner, signed, stray>>

Settle(id, status, payee) ==
  LET amount == jobs[id].budget IN
  /\ Capped => totalEscrowed >= amount
  /\ balance[EscrowAddr] >= amount
  /\ jobs' = [jobs EXCEPT ![id].status = status]
  /\ totalEscrowed' = IF Capped THEN totalEscrowed - amount ELSE totalEscrowed
  /\ balance' = Moved(EscrowAddr, payee, amount)
  /\ UNCHANGED <<now, jobCount, owner, signed, stray>>

Complete_PaysCaller(caller, id) ==
  /\ Known(id)
  /\ jobs[id].status = "Submitted"
  /\ now < jobs[id].expiredAt
  /\ caller = jobs[id].evaluator
  /\ Settle(id, "Completed", caller)

Complete_AnyTime(caller, id) ==
  /\ Known(id)
  /\ jobs[id].status = "Submitted"
  /\ caller = jobs[id].evaluator
  /\ Settle(id, "Completed", jobs[id].provider)

Complete(caller, id) ==
  /\ Known(id)
  /\ jobs[id].status = "Submitted"
  /\ now < jobs[id].expiredAt
  /\ caller = jobs[id].evaluator
  /\ Settle(id, "Completed", jobs[id].provider)

RejectOpen(caller, id) ==
  /\ Known(id)
  /\ jobs[id].status = "Open"
  /\ caller = jobs[id].client
  /\ jobs' = [jobs EXCEPT ![id].status = "Rejected"]
  /\ UNCHANGED <<now, jobCount, totalEscrowed, balance, owner, signed, stray>>

RejectEscrowed(caller, id) ==
  /\ Known(id)
  /\ Escrowed(id)
  /\ caller = jobs[id].evaluator
  /\ Settle(id, "Rejected", jobs[id].client)

Reject(caller, id) == RejectOpen(caller, id) \/ RejectEscrowed(caller, id)

ClaimRefund_OnlyFunded(id) ==
  /\ Known(id)
  /\ jobs[id].status = "Funded"
  /\ now >= jobs[id].expiredAt
  /\ Settle(id, "Expired", jobs[id].client)

\* Anyone may call it.
ClaimRefund(id) ==
  /\ Known(id)
  /\ Escrowed(id)
  /\ now >= jobs[id].expiredAt
  /\ Settle(id, "Expired", jobs[id].client)

-----------------------------------------------------------------------------
(* The world around the contract.                                           *)

Tick ==
  /\ now < MaxTime
  /\ now' = now + 1
  /\ UNCHANGED <<jobCount, jobs, totalEscrowed, balance, owner, signed, stray>>

\* The ERC-721 identity changes hands; jobs that link it do not follow.
TransferAgent(agent, to) ==
  /\ owner' = [owner EXCEPT ![agent] = to]
  /\ UNCHANGED <<now, jobCount, jobs, totalEscrowed, balance, signed, stray>>

\* A plain ERC-20 transfer to the contract's address.
DirectTransfer(from, amount) ==
  /\ amount > 0
  /\ balance[from] >= amount
  /\ balance' = Moved(from, EscrowAddr, amount)
  /\ stray' = stray + amount
  /\ UNCHANGED <<now, jobCount, jobs, totalEscrowed, owner, signed>>

Next ==
  \/ \E caller \in Accounts : CreateJob(caller) \/ CreateAgentJob(caller)
  \/ \E caller \in Accounts, id \in JobIds :
       \/ SetProvider(caller, id)
       \/ SetAgentProvider(caller, id)
       \/ \E amount \in Amounts : SetBudget(caller, id, amount)
       \/ \E d \in Deliverables \cup {ZeroHash} : Submit(caller, id, d)
       \/ Complete(caller, id)
       \/ Reject(caller, id)
  \/ \E id \in JobIds :
       \/ \E amount \in Amounts : SignFund(id, amount)
       \/ Fund(id)
       \/ FundReverts(id)
       \/ ClaimRefund(id)
  \/ Tick
  \/ \E agent \in Agents, to \in Accounts : TransferAgent(agent, to)
  \/ \E from \in Accounts, amount \in Amounts : DirectTransfer(from, amount)

Spec == Init /\ [][Next]_vars

\* Time passes, and once a job has expired somebody uses the permissionless
\* claimRefund: the client has the money to gain and the call needs no role.
FairSpec ==
  /\ Spec
  /\ WF_vars(Tick)
  /\ \A id \in JobIds : WF_vars(ClaimRefund(id))

-----------------------------------------------------------------------------
(* Properties.                                                              *)

\* Every variable keeps its type; balances never go negative.
TypeOK ==
  /\ now \in Times
  /\ jobCount \in 0 .. MaxJobs
  /\ jobs \in [JobIds -> JobRecords]
  /\ totalEscrowed \in Nat
  /\ balance \in [Addresses -> Nat]
  /\ owner \in [Agents -> Accounts]
  /\ signed \in [JobIds -> Amounts]
  /\ stray \in Nat

\* What the contract owes for each job, and for all of them.
Held == [id \in JobIds |-> IF Escrowed(id) THEN jobs[id].budget ELSE 0]

TotalHeld == SumTo(Held, MaxJobs)

\* The contract's token balance is exactly what its funded and submitted jobs
\* are owed plus what was sent to it outside of any job, whatever the callers
\* interleave: no job is ever paid out of another job's money.
Solvent == balance[EscrowAddr] = TotalHeld + stray

\* The canary's counter of escrowed funds is the sum of the escrowed budgets,
\* so its caps limit what is really held, and no settlement can underflow it.
CounterExact == totalEscrowed = IF Capped THEN TotalHeld ELSE 0

\* MainnetCanaryEscrow.sol:10: the caps limit each escrowed job and the
\* aggregate amount held, however often funds come and go.
CapsHold ==
  Capped => /\ TotalHeld <= MaxTotalEscrowed
            /\ \A id \in JobIds : Escrowed(id) => jobs[id].budget <= MaxBudget

InTime(id) ==
  jobs'[id] # jobs[id] =>
    /\ jobs'[id].status \in {"Submitted", "Completed"} => now < jobs[id].expiredAt
    /\ jobs'[id].status = "Expired" => now >= jobs[id].expiredAt

\* From funding on the terms of a job are frozen (who pays, who is paid, who
\* judges, how much, until when), from submission on its deliverable too; a
\* settled job never changes again; and its deadline separates delivery and
\* payment from the refund, so that complete and claimRefund never compete.
TermsFrozen ==
  [][\A id \in JobIds :
       LET before == jobs[id]
           after == jobs'[id]
       IN before.status # "Open" =>
            /\ [after EXCEPT !.status = before.status, !.deliverable = before.deliverable] = before
            /\ before.status # "Funded" => after.deliverable = before.deliverable
            /\ ~Escrowed(id) => after = before
            /\ InTime(id)]_vars

\* An account loses tokens only to a funding it signed, for the amount it
\* signed and to its own job, or to its own direct transfer: a budget changed
\* between signing and mining is never charged.
ChargedAsSigned ==
  [][\A a \in Accounts :
       balance'[a] < balance[a] =>
         LET paid == balance[a] - balance'[a] IN
         \/ stray' = stray + paid
         \/ \E id \in JobIds : /\ jobs[id].client = a
                               /\ signed[id] = paid
                               /\ jobs'[id] = [jobs[id] EXCEPT !.status = "Funded"]]_vars

\* Each job is one promised payment: open while its terms are negotiated, held
\* while it is escrowed, closed once settled or abandoned.
PromisePhase ==
  [id \in JobIds |-> IF jobs[id].status = "Open" THEN "negotiating"
                     ELSE IF Escrowed(id) THEN "held" ELSE "closed"]

PromiseTerms ==
  [id \in JobIds |-> [payer |-> jobs[id].client, payee |-> jobs[id].provider,
                      amount |-> jobs[id].budget]]

PromiseWallet == [a \in Accounts |-> balance[a]]

Promise ==
  INSTANCE PaymentPromise WITH
    Payments <- JobIds,
    Parties <- Accounts,
    Terms <- [payer : Accounts \cup {NoAddress}, payee : Addresses \cup {NoAddress},
              amount : Amounts],
    phase <- PromisePhase,
    terms <- PromiseTerms,
    wallet <- PromiseWallet

\* The contract implements the abstract promise: a held budget is paid once,
\* whole, to the provider or back to the client, and no account's tokens move
\* for any other reason than its own funding or spending.
PromiseKept == Promise!Spec

\* Money put into a job leaves it again: nothing stays escrowed forever.
EscrowedIsSettled ==
  \A id \in JobIds : Escrowed(id) ~> ~Escrowed(id)
=============================================================================
