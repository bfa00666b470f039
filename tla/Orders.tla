------------------------------- MODULE Orders -------------------------------
(***************************************************************************)
(* One order of the marketplace after its selection: the rows of orders,    *)
(* tx_intents and deliveries (backend/marketplace/mvp.py, mvp_store.py)     *)
(* that follow a job of the escrow contract.  The users' wallets send the   *)
(* transactions that the backend prepares; the backend learns of the chain  *)
(* by reconciling the intents it is asked about and by snapshots of all     *)
(* jobs.  A handler is one action up to its next await; chain facts it      *)
(* awaits may be stale when it uses them.                                   *)
(*                                                                         *)
(* A transaction is named by the intent it was prepared for: its calldata   *)
(* is the intent's.  The buyer's reject of an unfunded order is "cancel";   *)
(* "budget" stands for approve too, which no status depends on.  Amounts    *)
(* and the deadline are those of Escrow and left out.                       *)
(***************************************************************************)
EXTENDS Naturals, Sequences, FiniteSets

CONSTANTS
  Intents,            \* idempotency keys, each for one prepared transaction
  Actions,            \* the actions the users prepare
  Syncs, Deliveries,  \* overlapping invocations of sync_chain, create_delivery
  NoIntent,
  Window,             \* 100 in the code: how many of the latest jobs /state lists
  MaxJobs, MaxOutside, MaxCrashes   \* bounds of the model

ASSUME OrdersAssumption ==
  /\ NoIntent \notin Intents
  /\ Actions \subseteq {"create", "budget", "cancel", "fund", "submit", "complete",
                        "reject", "refund"}
  /\ Window \in Nat \ {0}
  /\ MaxJobs \in Nat /\ MaxOutside \in Nat /\ MaxCrashes \in Nat

VARIABLES
  order,         \* the row: linked job, status, chain_status
  intents,       \* the rows of tx_intents, with the calldata that matters
  delivery,      \* the row, and the manifest on disk
  runs,          \* what each create_delivery is doing
  snapshots,     \* the state each sync_chain has read
  jobs,          \* the escrow's jobs
  mined,         \* what became of each transaction
  seen,          \* every status each job has had (history)
  outside, crashes

vars == <<order, intents, delivery, runs, snapshots, jobs, mined, seen, outside, crashes>>
chain == <<jobs, mined, seen, outside>>

JobIds == 1 .. MaxJobs
NoJob == 0
ChainStatuses == {"Created", "Funded", "Submitted", "Completed", "Rejected", "Expired"}
OrderStatuses ==
  {"selected", "creating", "creation_mismatch", "created", "funded", "delivery_ready",
   "submitted", "completed", "rejected", "expired"}

Init ==
  /\ order = [job |-> NoJob, status |-> "selected", chain |-> "none"]
  /\ intents = [i \in Intents |-> [state |-> "none", action |-> "none", job |-> NoJob,
                                   manifest |-> NoJob, hash |-> NoIntent]]
  /\ delivery = [stage |-> "none", manifest |-> NoJob, disk |-> NoJob]
  /\ runs = [d \in Deliveries |-> [step |-> "idle", job |-> NoJob]]
  /\ snapshots = [s \in Syncs |-> <<>>]
  /\ jobs = <<>>
  /\ mined = [i \in Intents |-> [result |-> "no", job |-> NoJob]]
  /\ seen = [j \in JobIds |-> {}]
  /\ outside = 0
  /\ crashes = 0

-----------------------------------------------------------------------------
(* The escrow contract, as these transactions use it.                       *)

\* <<action, status it needs, status it leads to>>
Transitions ==
  { <<"budget", "Created", "Created">>,     <<"cancel", "Created", "Rejected">>,
    <<"fund", "Created", "Funded">>,        <<"submit", "Funded", "Submitted">>,
    <<"complete", "Submitted", "Completed">>,
    <<"reject", "Funded", "Rejected">>,     <<"reject", "Submitted", "Rejected">>,
    <<"refund", "Funded", "Expired">>,      <<"refund", "Submitted", "Expired">> }

Allowed(action, j) == \E t \in Transitions : t[1] = action /\ t[2] = jobs[j].status

JobBecomes(j, status) ==
  /\ jobs' = [jobs EXCEPT ![j].status = status]
  /\ seen' = [seen EXCEPT ![j] = @ \cup {status}]

NewJob(ours) ==
  /\ Len(jobs) < MaxJobs
  /\ jobs' = Append(jobs, [status |-> "Created", ours |-> ours])
  /\ seen' = [seen EXCEPT ![Len(jobs) + 1] = {"Created"}]

\* Another user's job, or a call to the contract that went around the backend.
OutsideStep ==
  /\ outside < MaxOutside
  /\ outside' = outside + 1
  /\ \/ NewJob(FALSE)
     \/ \E j \in DOMAIN jobs, t \in Transitions :
          /\ jobs[j].ours
          /\ t[2] = jobs[j].status
          /\ JobBecomes(j, t[3])
  /\ UNCHANGED <<order, intents, delivery, runs, snapshots, mined, crashes>>

\* A user's wallet sends the prepared transaction and it is mined.  The job of
\* a "create" is not the order's when the agent identity has a new owner by then.
MineCreate(i) ==
  /\ intents[i].action = "create"
  /\ mined[i].result = "no"
  /\ \E ours \in BOOLEAN : NewJob(ours)
  /\ mined' = [mined EXCEPT ![i] = [result |-> "ok", job |-> Len(jobs) + 1]]
  /\ UNCHANGED <<order, intents, delivery, runs, snapshots, outside, crashes>>

MineAction(i) ==
  LET j == intents[i].job IN
  /\ j # NoJob
  /\ mined[i].result = "no"
  /\ \E t \in Transitions : /\ t[1] = intents[i].action
                            /\ t[2] = jobs[j].status
                            /\ JobBecomes(j, t[3])
  /\ mined' = [mined EXCEPT ![i] = [result |-> "ok", job |-> j]]
  /\ UNCHANGED <<order, intents, delivery, runs, snapshots, outside, crashes>>

MineReverts(i) ==
  /\ intents[i].state # "none"
  /\ mined[i].result = "no"
  /\ intents[i].job = NoJob \/ ~ Allowed(intents[i].action, intents[i].job)
  /\ mined' = [mined EXCEPT ![i].result = "reverted"]
  /\ UNCHANGED <<order, intents, delivery, runs, snapshots, jobs, seen, outside, crashes>>

-----------------------------------------------------------------------------
(* create_intent and broadcast_intent.  What an intent is bound to was read *)
(* before its row is written; it may be used at any later time anyway.      *)

\* /state lists the latest jobs only.
Listed(j, list) == j \in DOMAIN list /\ j > Len(list) - Window

CreateIntent(i, action) ==
  LET j == IF action = "create" THEN NoJob ELSE order.job IN
  /\ intents[i].state = "none"
  /\ action # "create" => Listed(j, jobs) /\ Allowed(action, j)
  /\ action = "submit" => delivery.stage = "ready"
  /\ intents' = [intents EXCEPT ![i] =
       [state |-> "prepared", action |-> action, job |-> j, hash |-> NoIntent,
        manifest |-> IF action = "submit" THEN delivery.manifest ELSE NoJob]]
  /\ UNCHANGED <<order, delivery, runs, snapshots, chain, crashes>>

Final == {"confirmed", "failed", "mismatch"}

Bound(i, hash) == intents' = [intents EXCEPT ![i].hash = hash, ![i].state = "broadcast"]

\* The hash is what the client says it sent.
BroadcastEffect(i, hash) ==
  /\ Bound(i, hash)
  /\ order' = IF intents[i].action = "create" THEN [order EXCEPT !.status = "creating"]
                                              ELSE order
  /\ UNCHANGED <<delivery, runs, snapshots, chain, crashes>>

Broadcast_AnyState(i, hash) ==
  /\ intents[i].state # "none"
  /\ intents[hash].state # "none"
  /\ intents[i].hash \in {NoIntent, hash}
  /\ BroadcastEffect(i, hash)

CanBroadcast(i, hash) ==
  /\ intents[i].state \notin Final \cup {"none"}
  /\ intents[hash].state # "none"
  /\ intents[i].hash \in {NoIntent, hash}

Broadcast(i, hash) == CanBroadcast(i, hash) /\ BroadcastEffect(i, hash)

-----------------------------------------------------------------------------
(* reconcile_intent, from the receipt on.                                   *)

Calldata(i) == [intents[i] EXCEPT !.state = "none", !.hash = NoIntent]

\* What the receipt of the intent's transaction says of the intent.
Outcome_AnyReceipt(i) ==
  IF Calldata(intents[i].hash) # Calldata(i) THEN "mismatch" ELSE "confirmed"

Outcome_AnyTerms(i) ==
  IF mined[intents[i].hash].result = "reverted" THEN "failed"
  ELSE IF Calldata(intents[i].hash) # Calldata(i) THEN "mismatch"
  ELSE "confirmed"

Outcome(i) ==
  LET receipt == mined[intents[i].hash] IN
  IF receipt.result = "reverted" THEN "failed"
  ELSE IF Calldata(intents[i].hash) # Calldata(i) THEN "mismatch"
  ELSE IF intents[i].action = "create" /\ ~ jobs[receipt.job].ours THEN "mismatch"
  ELSE "confirmed"

\* status_map
StatusMap ==
  [ Created |-> "created", Funded |-> "funded", Submitted |-> "submitted",
    Completed |-> "completed", Rejected |-> "rejected", Expired |-> "expired" ]

\* The chain status that a confirmed action implies; budget and approve: none.
Implies ==
  [ fund |-> "Funded", submit |-> "Submitted", complete |-> "Completed",
    cancel |-> "Rejected", reject |-> "Rejected", refund |-> "Expired" ]

OrderAfter(i) ==
  LET action == intents[i].action
      confirmed == Outcome(i) = "confirmed"
  IN
  IF action = "create"
  THEN IF confirmed
       THEN [job |-> mined[intents[i].hash].job, status |-> "created", chain |-> "Created"]
       ELSE IF Outcome(i) = "mismatch" THEN [order EXCEPT !.status = "creation_mismatch"]
       ELSE order
  ELSE IF confirmed /\ action \in DOMAIN Implies
  THEN [order EXCEPT !.status = StatusMap[Implies[action]], !.chain = Implies[action]]
  ELSE order

DeliveryAfter(i) ==
  IF intents[i].action = "submit" /\ Outcome(i) = "confirmed"
  THEN [delivery EXCEPT !.stage = "submitted"] ELSE delivery

HasReceipt(i) == intents[i].hash # NoIntent /\ mined[intents[i].hash].result # "no"

Reconcile(i) ==
  /\ HasReceipt(i)
  /\ delivery' = DeliveryAfter(i)
  /\ order' = OrderAfter(i)
  /\ intents' = [intents EXCEPT ![i].state = Outcome(i)]
  /\ UNCHANGED <<runs, snapshots, chain, crashes>>

-----------------------------------------------------------------------------
(* sync_chain: /state is awaited, then applied in one transaction.          *)

SyncReads(s) ==
  /\ snapshots[s] = <<>>
  /\ jobs # <<>>
  /\ snapshots' = [snapshots EXCEPT ![s] = jobs]
  /\ UNCHANGED <<order, intents, delivery, runs, chain, crashes>>

\* apply_chain_snapshot, for the order's row.
Applied_ChainName(list) ==
  IF ~ Listed(order.job, list) THEN order
  ELSE [order EXCEPT !.chain = list[order.job].status, !.status = list[order.job].status]

Applied_KeepsReady(list) ==
  IF ~ Listed(order.job, list) THEN order
  ELSE LET status == list[order.job].status IN
       [order EXCEPT !.chain = status,
                     !.status = IF @ = "delivery_ready" THEN @ ELSE StatusMap[status]]

Applied(list) ==
  IF ~ Listed(order.job, list) THEN order
  ELSE LET status == list[order.job].status IN
       [order EXCEPT !.chain = status,
                     !.status = IF @ = "delivery_ready" /\ status = "Funded" THEN @
                                ELSE StatusMap[status]]

SyncApplies(s) ==
  /\ snapshots[s] # <<>>
  /\ order' = Applied(snapshots[s])
  /\ snapshots' = [snapshots EXCEPT ![s] = <<>>]
  /\ UNCHANGED <<intents, delivery, runs, chain, crashes>>

-----------------------------------------------------------------------------
(* create_delivery, one action per await; persist_raw refuses other bytes.  *)

DeliveryStarts(d) ==
  /\ runs[d].step = "idle"
  /\ Listed(order.job, jobs)
  /\ jobs[order.job].status = "Funded"
  /\ runs' = [runs EXCEPT ![d] = [step |-> "pinning", job |-> order.job]]
  /\ delivery' = IF delivery.stage = "none" THEN [delivery EXCEPT !.stage = "uploaded"]
                                            ELSE delivery
  /\ UNCHANGED <<order, intents, snapshots, chain, crashes>>

DeliveryPinned_Overwrites(d) ==
  /\ runs[d].step = "pinning"
  /\ runs' = [runs EXCEPT ![d].step = "exporting"]
  /\ delivery' = [delivery EXCEPT !.stage = "pinned_file", !.disk = runs[d].job]
  /\ UNCHANGED <<order, intents, snapshots, chain, crashes>>

DeliveryPinned(d) ==
  /\ runs[d].step = "pinning"
  /\ delivery.disk \in {NoJob, runs[d].job}
  /\ runs' = [runs EXCEPT ![d].step = "exporting"]
  /\ delivery' = [delivery EXCEPT !.stage = "pinned_file", !.disk = runs[d].job]
  /\ UNCHANGED <<order, intents, snapshots, chain, crashes>>

DeliveryReady(d) ==
  /\ runs[d].step = "exporting"
  /\ runs' = [runs EXCEPT ![d] = [step |-> "idle", job |-> NoJob]]
  /\ delivery' = [delivery EXCEPT !.stage = "ready", !.manifest = runs[d].job]
  /\ order' = [order EXCEPT !.status = "delivery_ready"]
  /\ UNCHANGED <<intents, snapshots, chain, crashes>>

\* The pin service or the disk fails, or the bytes differ; a first failure may
\* come after the file was pinned.
DeliveryFails(d) ==
  /\ runs[d].step # "idle"
  /\ runs' = [runs EXCEPT ![d] = [step |-> "idle", job |-> NoJob]]
  /\ \/ UNCHANGED delivery
     \/ /\ runs[d].step = "pinning"
        /\ delivery' = [delivery EXCEPT !.stage = "pinned_file"]
  /\ UNCHANGED <<order, intents, snapshots, chain, crashes>>

-----------------------------------------------------------------------------
(* The process dies and takes the handlers in flight with it.  It matters    *)
(* between two transactions of one handler: anywhere else a crash only ends *)
(* handlers, which may stop between any two of their steps as it is.        *)

Dies ==
  /\ crashes < MaxCrashes
  /\ crashes' = crashes + 1
  /\ runs' = [d \in Deliveries |-> [step |-> "idle", job |-> NoJob]]
  /\ snapshots' = [s \in Syncs |-> <<>>]
  /\ UNCHANGED chain

\* The intent is bound; the order is not yet "creating".
CrashInBroadcast(i, hash) ==
  /\ Dies
  /\ CanBroadcast(i, hash)
  /\ intents[i].action = "create"
  /\ Bound(i, hash)
  /\ UNCHANGED <<order, delivery>>

\* The delivery's stage is written, or the order's row after it; the intent's is not.
CrashInReconcile(i) ==
  /\ Dies
  /\ HasReceipt(i)
  /\ delivery' = DeliveryAfter(i)
  /\ order' \in {order, OrderAfter(i)}
  /\ UNCHANGED intents

\* The delivery is ready; the order does not say so.
CrashInDelivery(d) ==
  /\ Dies
  /\ runs[d].step = "exporting"
  /\ delivery' = [delivery EXCEPT !.stage = "ready", !.manifest = runs[d].job]
  /\ UNCHANGED <<order, intents>>

-----------------------------------------------------------------------------

Next ==
  \/ OutsideStep
  \/ \E i \in Intents :
       \/ \E action \in Actions : CreateIntent(i, action)
       \/ \E hash \in Intents : Broadcast(i, hash) \/ CrashInBroadcast(i, hash)
       \/ MineCreate(i) \/ MineAction(i) \/ MineReverts(i)
       \/ Reconcile(i) \/ CrashInReconcile(i)
  \/ \E s \in Syncs : SyncReads(s) \/ SyncApplies(s)
  \/ \E d \in Deliveries :
       \/ DeliveryStarts(d) \/ DeliveryPinned(d) \/ DeliveryReady(d) \/ DeliveryFails(d)
       \/ CrashInDelivery(d)

Spec == Init /\ [][Next]_vars

\* An open page polls /chain every 30 s, and the call ends (25 s timeout).
FairSpec ==
  Spec /\ \A s \in Syncs : WF_vars(SyncReads(s)) /\ WF_vars(SyncApplies(s))

-----------------------------------------------------------------------------
(* Properties.                                                              *)

OrderRecords == [job : JobIds \cup {NoJob}, status : OrderStatuses, chain : ChainStatuses \cup {"none"}]
IntentRecords ==
  [state : {"none", "prepared", "broadcast"} \cup Final, action : Actions \cup {"none"},
   job : JobIds \cup {NoJob}, manifest : JobIds \cup {NoJob}, hash : Intents \cup {NoIntent}]
DeliveryRecords ==
  [stage : {"none", "uploaded", "pinned_file", "ready", "submitted"},
   manifest : JobIds \cup {NoJob}, disk : JobIds \cup {NoJob}]
RunRecords == [step : {"idle", "pinning", "exporting"}, job : JobIds \cup {NoJob}]
JobRecords == [status : ChainStatuses, ours : BOOLEAN]
MinedRecords == [result : {"no", "ok", "reverted"}, job : JobIds \cup {NoJob}]

TypeOK ==
  /\ order \in OrderRecords
  /\ intents \in [Intents -> IntentRecords]
  /\ delivery \in DeliveryRecords
  /\ runs \in [Deliveries -> RunRecords]
  /\ jobs \in Seq(JobRecords) /\ Len(jobs) <= MaxJobs
  /\ snapshots \in [Syncs -> Seq(JobRecords)]
  /\ \A s \in Syncs : Len(snapshots[s]) <= Len(jobs)
  /\ mined \in [Intents -> MinedRecords]
  /\ seen \in [JobIds -> SUBSET ChainStatuses]
  /\ outside \in 0 .. MaxOutside
  /\ crashes \in 0 .. MaxCrashes

\* The job linked to the order is one that a "create" of this order made, with
\* the terms that the buyer and the provider agreed on.
LinkedIsOurs ==
  order.job # NoJob =>
    /\ jobs[order.job].ours
    /\ \E i \in Intents : intents[i].action = "create" /\ mined[i].job = order.job

OurJobs == {mined[i].job : i \in {k \in Intents : intents[k].action = "create"}} \ {NoJob}

\* The order never shows more than happened: the status shown is one that the
\* linked job has had, as long as only one job was created for the order.
NeverAhead ==
  Cardinality(OurJobs) <= 1 /\ order.chain # "none" =>
    order.job # NoJob /\ order.chain \in seen[order.job]

\* A submission is prepared only with a manifest that is pinned and exported,
\* and the delivery keeps that manifest, whatever uploads overlap.
SubmitsTheDelivery ==
  \A i \in Intents :
    intents[i].action = "submit" =>
      intents[i].manifest # NoJob /\ intents[i].manifest = delivery.manifest

\* An intent stays bound to the transaction it was first broadcast with, and
\* its outcome is final.
OutcomeKept ==
  [][\A i \in Intents :
       /\ intents[i].hash # NoIntent => intents'[i].hash = intents[i].hash
       /\ intents[i].state \in Final => intents'[i].state = intents[i].state]_vars

Agrees ==
  LET status == jobs[order.job].status IN
  /\ order.chain = status
  /\ order.status = StatusMap[status] \/ (order.status = "delivery_ready" /\ status = "Funded")

\* Whatever was reconciled late, twice or from a stale snapshot, the order comes
\* back to the state of its job, as long as the job is among those listed.
CatchesUp == []<>(Listed(order.job, jobs) => Agrees)
=============================================================================
