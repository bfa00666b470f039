----------------------------- MODULE CanaryProof -----------------------------
(***************************************************************************)
(* The script that carries one paid order through the mainnet escrow       *)
(* (scripts/run-mainnet-canary-proof.mjs), and the event cache that the    *)
(* chain client seeds from its evidence (seedMainnetCanaryCache).  The     *)
(* script records a transaction after its confirmation, so a stop leaves   *)
(* transactions that no file knows; the next command goes by the files and *)
(* by the state of the contract.                                           *)
(***************************************************************************)
EXTENDS Naturals, Sequences, FiniteSets

CONSTANTS MaxCommands,   \* bound: commands started
          MaxTxs         \* bound: transactions sent

BoundsAreNumbers == {MaxCommands, MaxTxs} \subseteq Nat

VARIABLES txs,        \* transactions in the order they were sent
          jobs,       \* the escrow's jobs
          wallet,     \* gas of the roles funded, allowance, amounts paid and received
          progress,   \* the progress file
          evidence,   \* the evidence file
          command,    \* the stage the command is at and the transaction it waits for
          lost,       \* history: transactions whose command stopped before recording them
          commands
vars == <<txs, jobs, wallet, progress, evidence, command, lost, commands>>

Stages == <<"fund-gas", "publish-metadata", "register-agent", "create-agent-job", "set-budget",
            "approve-exact-usdc", "fund-job", "publish-delivery", "submit-delivery", "complete-job">>
CANARY_PROOF_STEPS == {"create-agent-job", "set-budget", "fund-job", "submit-delivery", "complete-job"}
Sender(step) == IF step = "fund-gas" THEN "deployer"
                ELSE IF step \in {"register-agent", "submit-delivery"} THEN "provider"
                ELSE IF step = "complete-job" THEN "facilitator" ELSE "buyer"

NoFile == [exists |-> FALSE, txs |-> {}, agent |-> 0, job |-> 0, ipfs |-> {}]
Idle == [stage |-> 0, tx |-> 0, adopt |-> FALSE]
Init == /\ txs = <<>> /\ jobs = <<>> /\ progress = NoFile /\ evidence = NoFile
        /\ wallet = [gas |-> FALSE, allowance |-> 0, paid |-> 0, received |-> 0]
        /\ command = Idle /\ lost = {} /\ commands = 0

-----------------------------------------------------------------------------
(* The chain: one sender's transactions are mined in their order, and one   *)
(* the escrow refuses is mined as reverted.                                 *)

Accepted(tx) ==
  CASE tx.step = "set-budget" -> jobs[tx.job].status = "Created"
    [] tx.step = "fund-job" -> jobs[tx.job].status = "Created" /\ jobs[tx.job].budget = 1
                               /\ wallet.allowance = 1
    [] tx.step = "submit-delivery" -> jobs[tx.job].status = "Funded"
    [] tx.step = "complete-job" -> jobs[tx.job].status = "Submitted"
    [] OTHER -> TRUE

JobsAfter(tx) ==
  CASE tx.step = "create-agent-job" -> Append(jobs, [status |-> "Created", budget |-> 0])
    [] tx.step = "set-budget" -> [jobs EXCEPT ![tx.job].budget = 1]
    [] tx.step = "fund-job" -> [jobs EXCEPT ![tx.job].status = "Funded"]
    [] tx.step = "submit-delivery" -> [jobs EXCEPT ![tx.job].status = "Submitted"]
    [] tx.step = "complete-job" -> [jobs EXCEPT ![tx.job].status = "Completed"]
    [] OTHER -> jobs

WalletAfter(tx) ==
  CASE tx.step = "fund-gas" -> [wallet EXCEPT !.gas = TRUE]
    [] tx.step = "approve-exact-usdc" -> [wallet EXCEPT !.allowance = 1]
    [] tx.step = "fund-job" -> [wallet EXCEPT !.allowance = 0, !.paid = @ + 1]
    [] tx.step = "complete-job" -> [wallet EXCEPT !.received = @ + 1]
    [] OTHER -> wallet

Mine(i) ==
  LET tx == txs[i] IN
  /\ tx.st = "pending"
  /\ \A j \in 1..(i - 1) : Sender(txs[j].step) = Sender(tx.step) => txs[j].st # "pending"
  /\ IF Accepted(tx)
     THEN /\ txs' = [txs EXCEPT ![i].st = "ok",
                                ![i].job = IF tx.step = "create-agent-job" THEN Len(jobs) + 1 ELSE @]
          /\ jobs' = JobsAfter(tx) /\ wallet' = WalletAfter(tx)
     ELSE txs' = [txs EXCEPT ![i].st = "reverted"] /\ UNCHANGED <<jobs, wallet>>
  /\ UNCHANGED <<progress, evidence, command, lost, commands>>

-----------------------------------------------------------------------------
(* The command.                                                             *)

Stage == Stages[command.stage]
Job == jobs[progress.job]
NextStage == [stage |-> command.stage + 1, tx |-> 0, adopt |-> FALSE]

\* A mutant: every command starts with fresh progress.
Starts_Afresh ==
  /\ command = Idle /\ commands < MaxCommands
  /\ ~evidence.exists
  /\ progress' = [NoFile EXCEPT !.exists = TRUE]
  /\ command' = [Idle EXCEPT !.stage = 1]
  /\ commands' = commands + 1
  /\ UNCHANGED <<txs, jobs, wallet, evidence, lost>>

\* main refuses to run again once the evidence exists; the first checkpoint is immediate.
Starts ==
  /\ command = Idle /\ commands < MaxCommands
  /\ ~evidence.exists
  /\ progress' = [progress EXCEPT !.exists = TRUE]
  /\ command' = [Idle EXCEPT !.stage = 1]
  /\ commands' = commands + 1
  /\ UNCHANGED <<txs, jobs, wallet, evidence, lost>>

\* pinRaw, bundlePair, verifyPublic: objects pinned under the identifiers of
\* their own bytes and read back from the public gateway.
Published(objects) ==
  /\ progress' = [progress EXCEPT !.ipfs = @ \cup objects]
  /\ command' = NextStage
  /\ UNCHANGED <<txs, jobs, wallet, evidence, lost, commands>>

\* The agent's metadata, before its registration; each checkpoint comes after the reading back.
PublishMetadata ==
  /\ command.stage \in DOMAIN Stages /\ Stage = "publish-metadata"
  /\ Published({"metadata"})

\* The delivery of a job that is funded or further.
DeliveryObjects == {"document", "manifest", "bundle"}
PublishDelivery ==
  /\ command.stage \in DOMAIN Stages /\ Stage = "publish-delivery"
  /\ Job.status # "Created"
  /\ Published(DeliveryObjects)

\* The condition each transaction is sent under.
Needed ==
  CASE Stage = "fund-gas" -> ~wallet.gas
    [] Stage = "register-agent" -> progress.agent = 0
    [] Stage = "create-agent-job" -> progress.job = 0
    [] Stage = "set-budget" -> Job.budget = 0
    [] Stage = "approve-exact-usdc" -> Job.status = "Created" /\ wallet.allowance < 1
    [] Stage = "fund-job" -> Job.status = "Created"
    [] Stage = "submit-delivery" -> Job.status = "Funded"
    [] Stage = "complete-job" -> Job.status = "Submitted"
    [] OTHER -> FALSE

AtTransaction == command.stage \in DOMAIN Stages /\ command.tx = 0
                 /\ Stage \notin {"publish-metadata", "publish-delivery"}
Recorded(step) == {h \in progress.txs : txs[h].step = step}
Adopts(step) == step \in {"register-agent", "create-agent-job"}

NotNeeded ==
  /\ AtTransaction /\ ~Needed
  /\ command' = NextStage
  /\ UNCHANGED <<txs, jobs, wallet, progress, evidence, lost, commands>>

\* sent, with a record of an earlier command.
Known ==
  /\ AtTransaction /\ Needed
  /\ \E h \in Recorded(Stage) :
       /\ txs[h].st = "ok"
       /\ command' = IF Adopts(Stage) THEN [command EXCEPT !.tx = h, !.adopt = TRUE] ELSE NextStage
  /\ UNCHANGED <<txs, jobs, wallet, progress, evidence, lost, commands>>

\* sent, without a record: the transaction is sent ...
Send ==
  /\ AtTransaction /\ Needed /\ Recorded(Stage) = {} /\ Len(txs) < MaxTxs
  /\ txs' = Append(txs, [step |-> Stage, job |-> progress.job, st |-> "pending"])
  /\ command' = [command EXCEPT !.tx = Len(txs) + 1]
  /\ UNCHANGED <<jobs, wallet, progress, evidence, lost, commands>>

\* ... and recorded when wait returns a receipt of status 1.
Record ==
  /\ command.tx # 0 /\ ~command.adopt /\ txs[command.tx].st = "ok"
  /\ progress' = [progress EXCEPT !.txs = @ \cup {command.tx}]
  /\ command' = IF Adopts(Stage) THEN [command EXCEPT !.adopt = TRUE] ELSE NextStage
  /\ UNCHANGED <<txs, jobs, wallet, evidence, lost, commands>>

\* The agent or job that the receipt's event names; agents are numbered by their transaction.
Adopt ==
  /\ command.adopt
  /\ progress' = IF Stage = "register-agent" THEN [progress EXCEPT !.agent = command.tx]
                 ELSE [progress EXCEPT !.job = txs[command.tx].job]
  /\ command' = NextStage
  /\ UNCHANGED <<txs, jobs, wallet, evidence, lost, commands>>

\* The final invariants; the balances count from those of the first checkpoint.
Finish ==
  /\ command.stage = Len(Stages) + 1 /\ command.tx = 0
  /\ Job.status = "Completed" /\ wallet.paid = 1 /\ wallet.received = 1 /\ wallet.allowance = 0
  /\ evidence' = progress
  /\ command' = [command EXCEPT !.stage = @ + 1]
  /\ UNCHANGED <<txs, jobs, wallet, progress, lost, commands>>

UnlinkProgress ==
  /\ command.stage = Len(Stages) + 2
  /\ progress' = NoFile /\ command' = Idle
  /\ UNCHANGED <<txs, jobs, wallet, evidence, lost, commands>>

\* A failed read or pin, a failed transaction, a wrong final state, or a crash.
Stops ==
  /\ command # Idle
  /\ lost' = IF command.tx # 0 /\ ~command.adopt THEN lost \cup {command.tx} ELSE lost
  /\ command' = Idle
  /\ UNCHANGED <<txs, jobs, wallet, progress, evidence, commands>>

Next == \/ Starts \/ PublishMetadata \/ PublishDelivery \/ NotNeeded \/ Known \/ Send \/ Record \/ Adopt
        \/ Finish \/ UnlinkProgress \/ Stops
        \/ \E i \in DOMAIN txs : Mine(i)
Spec == Init /\ [][Next]_vars

-----------------------------------------------------------------------------
(* seedMainnetCanaryCache: accepted while the escrow has as many jobs as    *)
(* the evidence's job id says; one receipt is read for each step.           *)

SeedAccepted == evidence.exists /\ Len(jobs) = evidence.job
SeedReceipt(step) == \E h \in evidence.txs : txs[h].step = step /\ txs[h].st = "ok" /\ txs[h].job = evidence.job
Seeded == SeedAccepted /\ \A step \in CANARY_PROOF_STEPS : SeedReceipt(step)
EscrowEvents == {i \in DOMAIN txs : txs[i].st = "ok" /\ txs[i].step \in CANARY_PROOF_STEPS}
SeededEvents == evidence.txs \cap EscrowEvents

TypeOK ==
  /\ \A i \in DOMAIN txs : txs[i].st \in {"pending", "ok", "reverted"} /\ txs[i].job \in 0..Len(jobs)
  /\ \A f \in {progress, evidence} : f.txs \subseteq DOMAIN txs /\ f.job \in 0..Len(jobs)
  /\ \A i \in DOMAIN jobs : jobs[i].status \in {"Created", "Funded", "Submitted", "Completed"}
  /\ wallet.allowance \in 0..1 /\ wallet.paid \in Nat /\ wallet.received \in Nat
  /\ command.stage \in 0..(Len(Stages) + 2) /\ command.tx \in 0..Len(txs) /\ lost \subseteq DOMAIN txs

\* However often the script stops and is run again, also with transactions of
\* an earlier command still unmined, the buyer pays for one job
\* (run-mainnet-canary-proof.mjs:233-240).
ChargedOnce == wallet.paid <= 1 /\ wallet.received <= wallet.paid

\* The evidence, and so the seeded event history, is wrong only by what a
\* stopped command left unrecorded: its transactions succeeded and are those of
\* its job, a step it lacks was sent by a command that stopped (readState then
\* refuses it, chain.mjs:211), and so was every event the seeded history lacks.
SeedMissesOnlyLost ==
  evidence.exists =>
    /\ jobs[evidence.job].status = "Completed"
    /\ \A h \in evidence.txs : txs[h].st = "ok" /\ (txs[h].step \in CANARY_PROOF_STEPS => txs[h].job = evidence.job)
    /\ \A step \in CANARY_PROOF_STEPS : SeedReceipt(step) \/ \E h \in lost : txs[h].step = step
    /\ Seeded => EscrowEvents \ SeededEvents \subseteq lost

\* Whatever is stopped and run again, what a transaction points to is public
\* before it is sent: the metadata of an agent, the delivery of a submission
\* (run-mainnet-canary-proof.mjs:213-218, 266-277).
PublicBeforeSent ==
  LET public == progress.ipfs \cup evidence.ipfs IN
  \A i \in DOMAIN txs :
    /\ txs[i].step = "register-agent" => "metadata" \in public
    /\ txs[i].step = "submit-delivery" => DeliveryObjects \subseteq public
=============================================================================
