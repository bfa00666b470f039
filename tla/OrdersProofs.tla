----------------------------- MODULE OrdersProofs -----------------------------
(***************************************************************************)
(* What TLAPS proves of an order, for every set of intents, synchronisation *)
(* and delivery runs and any number of jobs: the linked job is the order's, *)
(* its row never shows more than happened, an intent's outcome is final,    *)
(* and a submission names the delivered manifest.                           *)
(***************************************************************************)
EXTENDS Orders, FiniteSetTheorems, TLAPS

\* The status of a job is one it has had.
ChainKnown == \A j \in DOMAIN jobs : jobs[j].status \in seen[j]

\* What became of an intent's transaction: its job, and the status that gave it.
MinedKnows(i) ==
  LET action == intents[i].action
      j == mined[i].job
  IN
  /\ (j # NoJob) <=> (mined[i].result = "ok")
  /\ intents[i].state = "none" => mined[i].result = "no"
  /\ mined[i].result = "ok" =>
       /\ j \in DOMAIN jobs
       /\ action = "create" => "Created" \in seen[j]
       /\ action # "create" => j = intents[i].job
       /\ action \in DOMAIN Implies => Implies[action] \in seen[j]

\* What an intent is bound to, and its outcome.
IntentKnows(i) ==
  LET intent == intents[i] IN
  /\ intent.state = "none" => intent.action = "none" /\ intent.job = NoJob /\ intent.hash = NoIntent
  /\ intent.state # "none" => ((intent.action = "create") <=> (intent.job = NoJob))
  /\ intent.job # NoJob => intent.job \in OurJobs /\ order.job # NoJob
  /\ intent.hash # NoIntent => intents[intent.hash].state # "none"
  /\ intent.state \in Final =>
       /\ intent.hash # NoIntent
       /\ mined[intent.hash].result # "no"
       /\ intent.state = Outcome(i)
  /\ intent.action = "submit" => intent.manifest # NoJob /\ intent.manifest = delivery.manifest

OrderKnows == order.job # NoJob => order.job \in OurJobs /\ jobs[order.job].ours

SnapshotKnows(s) == \A j \in DOMAIN snapshots[s] : snapshots[s][j].status \in seen[j]

\* The manifest on disk is written once.
DeliveryKnows ==
  /\ delivery.manifest # NoJob => delivery.manifest = delivery.disk
  /\ delivery.stage = "ready" => delivery.manifest # NoJob
  /\ \A d \in Deliveries :
       /\ runs[d].step # "idle" => runs[d].job # NoJob
       /\ runs[d].step = "exporting" => runs[d].job = delivery.disk

OrdersInv ==
  /\ TypeOK
  /\ ChainKnown
  /\ \A i \in Intents : MinedKnows(i) /\ IntentKnows(i)
  /\ \A s \in Syncs : SnapshotKnows(s)
  /\ OrderKnows
  /\ DeliveryKnows
  /\ NeverAhead

LEMMA InitOrders == Init => OrdersInv
<1> SUFFICES ASSUME Init PROVE OrdersInv
  OBVIOUS
<1>1. TypeOK
  <2>1. order \in OrderRecords
    BY DEF Init, OrderRecords, OrderStatuses, NoJob
  <2>2. intents \in [Intents -> IntentRecords]
    BY DEF Init, IntentRecords, NoJob
  <2>3. delivery \in DeliveryRecords /\ runs \in [Deliveries -> RunRecords]
    BY DEF Init, DeliveryRecords, RunRecords, NoJob
  <2>4. mined \in [Intents -> MinedRecords] /\ seen \in [JobIds -> SUBSET ChainStatuses]
    BY DEF Init, MinedRecords, NoJob
  <2>5. /\ jobs \in Seq(JobRecords) /\ Len(jobs) <= MaxJobs
        /\ snapshots \in [Syncs -> Seq(JobRecords)]
        /\ \A t \in Syncs : Len(snapshots[t]) <= Len(jobs)
    BY OrdersAssumption DEF Init
  <2>6. outside \in 0 .. MaxOutside /\ crashes \in 0 .. MaxCrashes
    BY OrdersAssumption DEF Init
  <2> QED BY <2>1, <2>2, <2>3, <2>4, <2>5, <2>6 DEF TypeOK
<1>2. ChainKnown
  BY DEF Init, ChainKnown
<1>3. \A i \in Intents : MinedKnows(i) /\ IntentKnows(i)
  BY DEF Init, MinedKnows, IntentKnows, Final, NoJob
<1>4. \A t \in Syncs : SnapshotKnows(t)
  BY DEF Init, SnapshotKnows
<1>5. OrderKnows /\ DeliveryKnows /\ NeverAhead
  BY DEF Init, OrderKnows, DeliveryKnows, NeverAhead, NoJob
<1> QED BY <1>1, <1>2, <1>3, <1>4, <1>5 DEF OrdersInv

-----------------------------------------------------------------------------
(* The jobs that were created for the order.                                *)

LEMMA Ranges ==
  ASSUME OrdersInv
  PROVE /\ Len(jobs) \in Nat /\ DOMAIN jobs = 1 .. Len(jobs)
        /\ DOMAIN jobs \subseteq JobIds /\ NoJob \notin DOMAIN jobs
        /\ OurJobs \subseteq DOMAIN jobs
<1>1. Len(jobs) \in Nat /\ DOMAIN jobs = 1 .. Len(jobs) /\ Len(jobs) <= MaxJobs
  BY DEF OrdersInv, TypeOK
<1>2. DOMAIN jobs \subseteq JobIds /\ NoJob \notin DOMAIN jobs
  BY <1>1, OrdersAssumption DEF JobIds, NoJob
<1>3. \A i \in Intents : mined[i].job # NoJob => mined[i].job \in DOMAIN jobs
  BY DEF OrdersInv, MinedKnows
<1> QED BY <1>1, <1>2, <1>3 DEF OurJobs

LEMMA OneJob ==
  ASSUME OrdersInv, Cardinality(OurJobs) <= 1, NEW x \in OurJobs, NEW y \in OurJobs
  PROVE x = y
<1>1. IsFiniteSet(OurJobs)
  <2>1. IsFiniteSet(DOMAIN jobs)
    BY Ranges, FS_Interval
  <2> QED BY <2>1, Ranges, FS_Subset
<1>2. Cardinality(OurJobs) \in Nat /\ Cardinality(OurJobs) # 0
  BY <1>1, FS_CardinalityType, FS_EmptySet
<1>3. Cardinality(OurJobs) = 1
  BY <1>2
<1> QED BY <1>1, <1>3, FS_Singleton

LEMMA OneJobBefore ==
  ASSUME OurJobs \subseteq OurJobs', mined' \in [Intents -> MinedRecords], Cardinality(OurJobs') <= 1
  PROVE Cardinality(OurJobs) <= 1
<1>1. OurJobs' \subseteq JobIds
  BY DEF OurJobs, MinedRecords
<1>2. IsFiniteSet(JobIds)
  BY FS_Interval, OrdersAssumption DEF JobIds
<1>3. IsFiniteSet(OurJobs')
  BY <1>1, <1>2, FS_Subset
<1>4. Cardinality(OurJobs) <= Cardinality(OurJobs') /\ IsFiniteSet(OurJobs)
  BY <1>3, FS_Subset
<1> QED BY <1>3, <1>4, FS_CardinalityType

LEMMA OurJobsKept ==
  ASSUME \A i \in Intents : intents[i].action = "create" => intents'[i].action = "create",
         \A i \in Intents : mined[i].job # NoJob => mined'[i].job = mined[i].job
  PROVE OurJobs \subseteq OurJobs'
  BY DEF OurJobs

\* Two intents with the same calldata agree on all but state and hash.
LEMMA CalldataFields ==
  ASSUME NEW i \in Intents, NEW h \in Intents, TypeOK, Calldata(h) = Calldata(i)
  PROVE /\ intents[h].action = intents[i].action /\ intents[h].job = intents[i].job
        /\ intents[h].manifest = intents[i].manifest
<1>1. intents[i] \in IntentRecords /\ intents[h] \in IntentRecords
  BY DEF TypeOK
<1>2. /\ Calldata(i).action = intents[i].action /\ Calldata(h).action = intents[h].action
      /\ Calldata(i).job = intents[i].job /\ Calldata(h).job = intents[h].job
      /\ Calldata(i).manifest = intents[i].manifest /\ Calldata(h).manifest = intents[h].manifest
  BY <1>1 DEF Calldata, IntentRecords
<1> QED BY <1>2

-----------------------------------------------------------------------------
(* The chain: jobs are added and change status, and keep their terms.       *)

JobsGrow ==
  /\ jobs' \in Seq(JobRecords) /\ Len(jobs') <= MaxJobs /\ Len(jobs) <= Len(jobs')
  /\ seen' \in [JobIds -> SUBSET ChainStatuses]
  /\ \A j \in DOMAIN jobs :
       j \in DOMAIN jobs' /\ jobs'[j].ours = jobs[j].ours /\ seen[j] \subseteq seen'[j]
  /\ ChainKnown'

LEMMA NewJobGrows ==
  ASSUME OrdersInv, NEW ours \in BOOLEAN, NewJob(ours)
  PROVE LET n == Len(jobs) + 1 IN
        JobsGrow /\ n \in DOMAIN jobs' /\ n \in JobIds /\ n # NoJob /\ "Created" \in seen'[n]
<1> DEFINE n == Len(jobs) + 1
           new == [status |-> "Created", ours |-> ours]
<1>1. /\ Len(jobs) < MaxJobs /\ jobs' = Append(jobs, new)
      /\ seen' = [seen EXCEPT ![n] = {"Created"}]
  BY DEF NewJob
<1>2. /\ jobs \in Seq(JobRecords) /\ seen \in [JobIds -> SUBSET ChainStatuses]
      /\ \A j \in DOMAIN jobs : jobs[j].status \in seen[j]
  BY DEF OrdersInv, TypeOK, ChainKnown
<1>3. new \in JobRecords /\ new.status = "Created"
  BY DEF JobRecords, ChainStatuses
<1> HIDE DEF new
<1>4. /\ jobs' \in Seq(JobRecords) /\ Len(jobs') = n /\ DOMAIN jobs' = 1 .. n
      /\ jobs'[n] = new /\ \A j \in DOMAIN jobs : jobs'[j] = jobs[j]
  BY <1>1, <1>2, <1>3
<1>5. /\ n \in JobIds /\ n # NoJob /\ n \notin DOMAIN jobs /\ DOMAIN jobs' = DOMAIN jobs \cup {n}
      /\ n <= MaxJobs /\ Len(jobs) <= n
  BY <1>1, <1>4, Ranges, OrdersAssumption DEF JobIds, NoJob
<1> HIDE DEF n
<1>6. /\ seen' \in [JobIds -> SUBSET ChainStatuses] /\ seen'[n] = {"Created"}
      /\ \A j \in DOMAIN jobs : seen'[j] = seen[j]
  BY <1>1, <1>2, <1>5, Ranges DEF n, ChainStatuses
<1>7. ChainKnown'
  BY <1>2, <1>3, <1>4, <1>5, <1>6 DEF ChainKnown
<1> QED BY <1>4, <1>5, <1>6, <1>7 DEF JobsGrow, n

LEMMA JobBecomesGrows ==
  ASSUME OrdersInv, NEW j \in DOMAIN jobs, NEW status \in ChainStatuses, JobBecomes(j, status)
  PROVE JobsGrow /\ status \in seen'[j]
<1> DEFINE r == [jobs[j] EXCEPT !.status = status]
<1>1. jobs' = [jobs EXCEPT ![j] = r] /\ seen' = [seen EXCEPT ![j] = @ \cup {status}]
  BY DEF JobBecomes
<1>2. /\ jobs \in Seq(JobRecords) /\ seen \in [JobIds -> SUBSET ChainStatuses]
      /\ j \in JobIds /\ jobs[j] \in JobRecords /\ Len(jobs) <= MaxJobs
      /\ \A k \in DOMAIN jobs : jobs[k].status \in seen[k]
  BY Ranges DEF OrdersInv, TypeOK, ChainKnown
<1>3. r \in JobRecords /\ r.status = status /\ r.ours = jobs[j].ours
  BY <1>2 DEF JobRecords
<1> HIDE DEF r
<1>4. /\ jobs' \in Seq(JobRecords) /\ Len(jobs') = Len(jobs) /\ DOMAIN jobs' = DOMAIN jobs
      /\ jobs'[j] = r /\ \A k \in DOMAIN jobs : k # j => jobs'[k] = jobs[k]
  BY <1>1, <1>2, <1>3
<1>5. /\ seen' \in [JobIds -> SUBSET ChainStatuses] /\ seen'[j] = seen[j] \cup {status}
      /\ \A k \in JobIds : k # j => seen'[k] = seen[k]
  BY <1>1, <1>2
<1>6. ChainKnown'
  BY <1>2, <1>3, <1>4, <1>5, Ranges DEF ChainKnown
<1>7. Len(jobs') <= MaxJobs /\ Len(jobs) <= Len(jobs')
  BY <1>2, <1>4
<1>8. \A k \in DOMAIN jobs : jobs'[k].ours = jobs[k].ours /\ seen[k] \subseteq seen'[k]
  BY <1>3, <1>4, <1>5, Ranges
<1> QED BY <1>4, <1>5, <1>6, <1>7, <1>8 DEF JobsGrow

LEMMA MinedKept ==
  ASSUME OrdersInv, JobsGrow, NEW i \in Intents, intents' = intents, mined'[i] = mined[i]
  PROVE MinedKnows(i)'
<1>1. MinedKnows(i) /\ \A j \in DOMAIN jobs : j \in DOMAIN jobs' /\ seen[j] \subseteq seen'[j]
  BY DEF OrdersInv, JobsGrow
<1> QED BY <1>1 DEF MinedKnows

\* A transaction that is mined stays as it is, so that outcomes are final.
LEMMA ChainStep ==
  ASSUME OrdersInv, JobsGrow, UNCHANGED <<order, intents, delivery, runs, snapshots, crashes>>,
         mined' \in [Intents -> MinedRecords], outside' \in 0 .. MaxOutside,
         \A i \in Intents : mined[i].result # "no" => mined'[i] = mined[i],
         \A i \in Intents : mined'[i] = mined[i] \/ MinedKnows(i)'
  PROVE OrdersInv'
<1>1. TypeOK'
  <2>1. \A s \in Syncs : Len(snapshots[s]) <= Len(jobs')
    <3>1. Len(jobs) \in Nat /\ Len(jobs') \in Nat /\ Len(jobs) <= Len(jobs')
      BY Ranges DEF JobsGrow
    <3>2. \A s \in Syncs : Len(snapshots[s]) \in Nat /\ Len(snapshots[s]) <= Len(jobs)
      BY DEF OrdersInv, TypeOK
    <3> QED BY <3>1, <3>2
  <2> QED BY <2>1 DEF OrdersInv, TypeOK, JobsGrow
<1>2. \A i \in Intents : MinedKnows(i)'
  BY MinedKept
<1>3. OurJobs \subseteq OurJobs'
  <2>1. \A i \in Intents : mined[i].job # NoJob => mined'[i].job = mined[i].job
    BY DEF OrdersInv, MinedKnows
  <2> QED BY <2>1, OurJobsKept
<1>4. ASSUME NEW i \in Intents PROVE IntentKnows(i)'
  <2>1. IntentKnows(i)
    BY DEF OrdersInv
  <2>2. ASSUME intents[i].state \in Final
        PROVE mined'[intents[i].hash] = mined[intents[i].hash] /\ Outcome(i)' = Outcome(i)
    <3>1. PICK h \in Intents : h = intents[i].hash
      BY <2>1, <2>2 DEF IntentKnows, OrdersInv, TypeOK, IntentRecords
    <3>2. mined'[h] = mined[h]
      BY <2>1, <2>2, <3>1 DEF IntentKnows
    <3>3. Calldata(h)' = Calldata(h) /\ Calldata(i)' = Calldata(i)
      BY DEF Calldata
    <3>4. mined[h].result = "ok" => jobs'[mined[h].job].ours = jobs[mined[h].job].ours
      BY DEF OrdersInv, MinedKnows, JobsGrow
    <3>5. mined[h].result \in {"ok", "reverted"}
      BY <2>1, <2>2, <3>1 DEF IntentKnows, OrdersInv, TypeOK, MinedRecords
    <3> QED BY <3>1, <3>2, <3>3, <3>4, <3>5 DEF Outcome
  <2> QED BY <1>3, <2>1, <2>2 DEF IntentKnows
<1>5. ASSUME NEW s \in Syncs PROVE SnapshotKnows(s)'
  <2>1. \A j \in DOMAIN snapshots[s] : j \in DOMAIN jobs
    <3>1. snapshots[s] \in Seq(JobRecords) /\ Len(snapshots[s]) <= Len(jobs)
      BY DEF OrdersInv, TypeOK
    <3> QED BY <3>1, Ranges
  <2> QED BY <2>1 DEF OrdersInv, SnapshotKnows, JobsGrow
<1>6. OrderKnows'
  BY <1>3, Ranges DEF OrdersInv, OrderKnows, JobsGrow
<1>7. DeliveryKnows'
  BY DEF OrdersInv, DeliveryKnows
<1>8. NeverAhead'
  <2> SUFFICES ASSUME Cardinality(OurJobs') <= 1, order.chain # "none"
               PROVE order.job # NoJob /\ order.chain \in seen'[order.job]
    BY DEF NeverAhead
  <2>1. order.job # NoJob /\ order.chain \in seen[order.job]
    BY <1>3, OneJobBefore DEF OrdersInv, NeverAhead
  <2>2. order.job \in DOMAIN jobs
    BY <2>1, Ranges DEF OrdersInv, OrderKnows
  <2> QED BY <2>1, <2>2 DEF JobsGrow
<1> QED BY <1>1, <1>2, <1>4, <1>5, <1>6, <1>7, <1>8 DEF OrdersInv, JobsGrow

LEMMA OutsideKept == ASSUME OrdersInv, OutsideStep PROVE OrdersInv'
<1>1. /\ outside' \in 0 .. MaxOutside /\ mined' = mined
      /\ UNCHANGED <<order, intents, delivery, runs, snapshots, crashes>>
  BY OrdersAssumption DEF OutsideStep, OrdersInv, TypeOK
<1>2. JobsGrow
  <2>1. CASE NewJob(FALSE)
    BY <2>1, NewJobGrows
  <2>2. ASSUME NEW j \in DOMAIN jobs, NEW t \in Transitions, JobBecomes(j, t[3])
        PROVE JobsGrow
    <3>1. t[3] \in ChainStatuses
      BY DEF Transitions, ChainStatuses
    <3> QED BY <2>2, <3>1, JobBecomesGrows
  <2> QED BY <2>1, <2>2 DEF OutsideStep
<1>3. mined' \in [Intents -> MinedRecords]
  BY <1>1 DEF OrdersInv, TypeOK
<1> QED BY <1>1, <1>2, <1>3, ChainStep

LEMMA MineCreateKept == ASSUME OrdersInv, NEW i \in Intents, MineCreate(i) PROVE OrdersInv'
<1> DEFINE n == Len(jobs) + 1
<1>1. /\ intents[i].action = "create" /\ mined[i].result = "no"
      /\ mined' = [mined EXCEPT ![i] = [result |-> "ok", job |-> n]]
      /\ UNCHANGED <<order, intents, delivery, runs, snapshots, outside, crashes>>
      /\ \E ours \in BOOLEAN : NewJob(ours)
  BY DEF MineCreate
<1>2. JobsGrow /\ n \in DOMAIN jobs' /\ n \in JobIds /\ n # NoJob /\ "Created" \in seen'[n]
  BY <1>1, NewJobGrows
<1> HIDE DEF n
<1>3. mined' \in [Intents -> MinedRecords] /\ mined'[i] = [result |-> "ok", job |-> n]
      /\ \A k \in Intents : k # i => mined'[k] = mined[k]
  BY <1>1, <1>2 DEF OrdersInv, TypeOK, MinedRecords
<1>4. MinedKnows(i)'
  <2>1. "create" \notin DOMAIN Implies
    BY DEF Implies
  <2>2. intents[i].state # "none"
    BY <1>1 DEF OrdersInv, IntentKnows
  <2> QED BY <1>1, <1>2, <1>3, <2>1, <2>2 DEF MinedKnows
<1>5. outside' \in 0 .. MaxOutside
  BY <1>1 DEF OrdersInv, TypeOK
<1>6. \A k \in Intents : mined[k].result # "no" => mined'[k] = mined[k]
  BY <1>1, <1>3
<1> QED BY <1>1, <1>2, <1>3, <1>4, <1>5, <1>6, ChainStep

LEMMA MineActionKept == ASSUME OrdersInv, NEW i \in Intents, MineAction(i) PROVE OrdersInv'
<1>1. PICK j : j = intents[i].job
  OBVIOUS
<1>2. /\ j # NoJob /\ mined[i].result = "no"
      /\ mined' = [mined EXCEPT ![i] = [result |-> "ok", job |-> j]]
      /\ UNCHANGED <<order, intents, delivery, runs, snapshots, outside, crashes>>
  BY <1>1 DEF MineAction
<1>3. PICK t \in Transitions : t[1] = intents[i].action /\ JobBecomes(j, t[3])
  BY <1>1 DEF MineAction
<1>4. j \in DOMAIN jobs /\ j \in JobIds
  BY <1>1, <1>2, Ranges DEF OrdersInv, IntentKnows
<1>5. /\ t[3] \in ChainStatuses
      /\ t[1] \in DOMAIN Implies => Implies[t[1]] = t[3]
      /\ t[1] \notin {"none", "create"}
  BY DEF Transitions, ChainStatuses, Implies
<1>6. JobsGrow /\ t[3] \in seen'[j]
  BY <1>3, <1>4, <1>5, JobBecomesGrows
<1>7. mined' \in [Intents -> MinedRecords] /\ mined'[i] = [result |-> "ok", job |-> j]
      /\ \A k \in Intents : k # i => mined'[k] = mined[k]
  BY <1>2, <1>4 DEF OrdersInv, TypeOK, MinedRecords
<1>8. MinedKnows(i)'
  <2>1. intents[i].state # "none"
    BY <1>3, <1>5 DEF OrdersInv, IntentKnows
  <2>2. j \in DOMAIN jobs'
    BY <1>4, <1>6 DEF JobsGrow
  <2> QED BY <1>1, <1>2, <1>3, <1>5, <1>6, <1>7, <2>1, <2>2 DEF MinedKnows
<1>9. outside' \in 0 .. MaxOutside
  BY <1>2 DEF OrdersInv, TypeOK
<1>10. \A k \in Intents : mined[k].result # "no" => mined'[k] = mined[k]
  BY <1>2, <1>7
<1> QED BY <1>2, <1>6, <1>7, <1>8, <1>9, <1>10, ChainStep

LEMMA MineRevertsKept == ASSUME OrdersInv, NEW i \in Intents, MineReverts(i) PROVE OrdersInv'
<1> DEFINE r == [mined[i] EXCEPT !.result = "reverted"]
<1>1. /\ intents[i].state # "none" /\ mined[i].result = "no"
      /\ mined' = [mined EXCEPT ![i] = r]
      /\ UNCHANGED <<order, intents, delivery, runs, snapshots, jobs, seen, outside, crashes>>
  BY DEF MineReverts
<1>2. mined[i] \in MinedRecords /\ mined[i].job = NoJob
  BY <1>1 DEF OrdersInv, TypeOK, MinedKnows
<1>3. r \in MinedRecords /\ r.result = "reverted" /\ r.job = NoJob
  BY <1>2 DEF MinedRecords
<1> HIDE DEF r
<1>4. mined' \in [Intents -> MinedRecords] /\ mined'[i] = r
      /\ \A k \in Intents : k # i => mined'[k] = mined[k]
  BY <1>1, <1>3 DEF OrdersInv, TypeOK
<1>5. MinedKnows(i)'
  BY <1>1, <1>3, <1>4 DEF MinedKnows
<1>6. JobsGrow
  BY <1>1, Ranges DEF JobsGrow, OrdersInv, TypeOK, ChainKnown
<1>7. outside' \in 0 .. MaxOutside
  BY <1>1 DEF OrdersInv, TypeOK
<1>8. \A k \in Intents : mined[k].result # "no" => mined'[k] = mined[k]
  BY <1>1, <1>4
<1> QED BY <1>1, <1>4, <1>5, <1>6, <1>7, <1>8, ChainStep

-----------------------------------------------------------------------------
(* The rows: what a step that leaves the chain alone has to show.           *)

\* The binding of an intent that has one is kept.
BindingsKept ==
  \A i \in Intents :
    intents[i].state # "none" =>
      /\ intents'[i].state # "none"
      /\ intents'[i].action = intents[i].action
      /\ intents'[i].job = intents[i].job
      /\ intents'[i].manifest = intents[i].manifest

LEMMA RowsStep ==
  ASSUME OrdersInv, UNCHANGED chain, TypeOK', BindingsKept,
         \A i \in Intents : IntentKnows(i)',
         \A s \in Syncs : snapshots'[s] \in {snapshots[s], <<>>, jobs},
         OrderKnows', DeliveryKnows', NeverAhead'
  PROVE OrdersInv'
<1>1. UNCHANGED <<jobs, mined, seen, outside>>
  BY DEF chain
<1>2. ASSUME NEW i \in Intents PROVE MinedKnows(i)'
  <2>1. MinedKnows(i)
    BY DEF OrdersInv
  <2>2. CASE intents[i].state = "none"
    <3>1. mined[i].result = "no"
      BY <2>1, <2>2 DEF MinedKnows
    <3> QED BY <1>1, <2>1, <3>1 DEF MinedKnows
  <2>3. CASE intents[i].state # "none"
    BY <1>1, <2>1, <2>3 DEF MinedKnows, BindingsKept
  <2> QED BY <2>2, <2>3
<1>3. ChainKnown'
  BY <1>1 DEF OrdersInv, ChainKnown
<1>4. ASSUME NEW s \in Syncs PROVE SnapshotKnows(s)'
  BY <1>1, <1>4 DEF OrdersInv, SnapshotKnows, ChainKnown
<1> QED BY <1>2, <1>3, <1>4 DEF OrdersInv

\* The jobs created for the order are those they were.
LEMMA SameJobs ==
  ASSUME OrdersInv, UNCHANGED chain, BindingsKept
  PROVE OurJobs' = OurJobs
<1>1. mined' = mined
  BY DEF chain
<1>2. ASSUME NEW i \in Intents, mined[i].job # NoJob
      PROVE (intents'[i].action = "create") <=> (intents[i].action = "create")
  <2>1. intents[i].state # "none"
    BY <1>2 DEF OrdersInv, MinedKnows
  <2> QED BY <2>1 DEF BindingsKept
<1> QED BY <1>1, <1>2 DEF OurJobs

\* The outcome of a mined transaction depends on bindings alone.
LEMMA SameOutcome ==
  ASSUME OrdersInv, UNCHANGED chain, BindingsKept, TypeOK', NEW i \in Intents,
         intents[i].state # "none", intents[i].hash # NoIntent, intents'[i].hash = intents[i].hash
  PROVE Outcome(i)' = Outcome(i)
<1>1. PICK h \in Intents : h = intents[i].hash
  BY DEF OrdersInv, TypeOK, IntentRecords
<1>2. intents[h].state # "none"
  BY <1>1 DEF OrdersInv, IntentKnows
<1>3. ASSUME NEW k \in Intents, intents[k].state # "none" PROVE Calldata(k)' = Calldata(k)
  <2>1. intents[k] \in IntentRecords /\ intents'[k] \in IntentRecords
    BY DEF OrdersInv, TypeOK
  <2>2. /\ intents'[k].action = intents[k].action /\ intents'[k].job = intents[k].job
        /\ intents'[k].manifest = intents[k].manifest
    BY <1>3 DEF BindingsKept
  <2> QED BY <2>1, <2>2 DEF Calldata, IntentRecords
<1>4. jobs' = jobs /\ mined' = mined
  BY DEF chain
<1>5. intents'[i].action = intents[i].action
  BY DEF BindingsKept
<1> QED BY <1>1, <1>2, <1>3, <1>4, <1>5 DEF Outcome

\* A step keeps what an intent knows if it keeps its row, and the job and the
\* manifest that the order has.
LEMMA IntentKept ==
  ASSUME OrdersInv, UNCHANGED chain, BindingsKept, TypeOK', NEW i \in Intents,
         intents'[i] = intents[i],
         order.job # NoJob => order'.job # NoJob,
         delivery.manifest # NoJob => delivery'.manifest = delivery.manifest
  PROVE IntentKnows(i)'
<1>1. IntentKnows(i) /\ mined' = mined
  BY DEF OrdersInv, chain
<1>2. OurJobs' = OurJobs
  BY SameJobs
<1>3. intents[i].state \in Final => Outcome(i)' = Outcome(i)
  BY <1>1, SameOutcome DEF IntentKnows, Final
<1>4. ASSUME intents[i].hash # NoIntent PROVE intents'[intents[i].hash].state # "none"
  <2>1. PICK h \in Intents : h = intents[i].hash
    BY <1>4 DEF OrdersInv, TypeOK, IntentRecords
  <2>2. intents[h].state # "none"
    BY <1>1, <1>4, <2>1 DEF IntentKnows
  <2> QED BY <2>1, <2>2 DEF BindingsKept
<1> QED BY <1>1, <1>2, <1>3, <1>4 DEF IntentKnows

\* The order's row keeps what it says when its job and chain status are kept.
LEMMA OrderKept ==
  ASSUME OrdersInv, UNCHANGED chain, BindingsKept, order'.job = order.job,
         order'.chain = order.chain
  PROVE OrderKnows' /\ NeverAhead'
<1>1. UNCHANGED <<jobs, seen>> /\ OurJobs' = OurJobs
  BY SameJobs DEF chain
<1> QED BY <1>1 DEF OrdersInv, OrderKnows, NeverAhead

LEMMA CreateIntentKept ==
  ASSUME OrdersInv, NEW i \in Intents, NEW action \in Actions, CreateIntent(i, action)
  PROVE OrdersInv'
<1> DEFINE j == IF action = "create" THEN NoJob ELSE order.job
           r == [state |-> "prepared", action |-> action, job |-> j, hash |-> NoIntent,
                 manifest |-> IF action = "submit" THEN delivery.manifest ELSE NoJob]
<1>1. /\ intents[i].state = "none" /\ intents' = [intents EXCEPT ![i] = r]
      /\ action # "create" => Listed(j, jobs)
      /\ action = "submit" => delivery.stage = "ready"
      /\ UNCHANGED <<order, delivery, runs, snapshots, chain, crashes>>
  BY DEF CreateIntent
<1>2. /\ order \in OrderRecords /\ delivery \in DeliveryRecords
      /\ intents \in [Intents -> IntentRecords]
  BY DEF OrdersInv, TypeOK
<1>3. action # "none"
  BY OrdersAssumption
<1>4. action # "create" => order.job # NoJob /\ order.job \in OurJobs
  BY <1>1, Ranges DEF Listed, OrdersInv, OrderKnows
<1>5. /\ r \in IntentRecords /\ r.state = "prepared" /\ r.action = action /\ r.job = j
      /\ r.hash = NoIntent
      /\ action = "submit" => r.manifest = delivery.manifest /\ delivery.manifest # NoJob
  BY <1>1, <1>2 DEF IntentRecords, OrderRecords, DeliveryRecords, OrdersInv, DeliveryKnows
<1>6. (r.action = "create") <=> (r.job = NoJob)
  BY <1>4, <1>5
<1>7. r.job # NoJob => r.job \in OurJobs /\ order.job # NoJob
  BY <1>4, <1>5
<1> HIDE DEF r, j
<1>8. /\ intents' \in [Intents -> IntentRecords] /\ intents'[i] = r
      /\ \A k \in Intents : k # i => intents'[k] = intents[k]
  BY <1>1, <1>2, <1>5
<1>9. BindingsKept
  BY <1>1, <1>8 DEF BindingsKept
<1>10. TypeOK'
  BY <1>1, <1>8 DEF OrdersInv, TypeOK, chain
<1>11. OurJobs' = OurJobs
  BY <1>1, <1>9, SameJobs
<1>12. IntentKnows(i)'
  BY <1>1, <1>3, <1>5, <1>6, <1>7, <1>8, <1>11 DEF IntentKnows, Final
<1>13. ASSUME NEW k \in Intents PROVE IntentKnows(k)'
  BY <1>1, <1>8, <1>9, <1>10, <1>12, IntentKept
<1>14. OrderKnows' /\ NeverAhead'
  BY <1>1, <1>9, OrderKept
<1>15. DeliveryKnows'
  BY <1>1 DEF OrdersInv, DeliveryKnows
<1> QED BY <1>1, <1>9, <1>10, <1>13, <1>14, <1>15, RowsStep

\* What broadcast_intent writes to the intent, whether or not its second
\* transaction follows.
LEMMA BoundFacts ==
  ASSUME OrdersInv, NEW i \in Intents, NEW hash \in Intents, CanBroadcast(i, hash), Bound(i, hash)
  PROVE /\ intents' \in [Intents -> IntentRecords] /\ BindingsKept
        /\ \A k \in Intents : k # i => intents'[k] = intents[k]
        /\ intents'[i].state = "broadcast" /\ intents'[i].hash = hash
        /\ intents'[i].action = intents[i].action /\ intents'[i].job = intents[i].job
        /\ intents'[i].manifest = intents[i].manifest
<1> DEFINE r == [intents[i] EXCEPT !.hash = hash, !.state = "broadcast"]
<1>1. intents[i].state \notin Final \cup {"none"} /\ intents[i].hash \in {NoIntent, hash}
  BY DEF CanBroadcast
<1>2. intents \in [Intents -> IntentRecords]
  BY DEF OrdersInv, TypeOK
<1>3. /\ r \in IntentRecords /\ r.state = "broadcast" /\ r.hash = hash
      /\ r.action = intents[i].action /\ r.job = intents[i].job
      /\ r.manifest = intents[i].manifest
  BY <1>2 DEF IntentRecords
<1>4. intents' = [intents EXCEPT ![i] = r]
  BY <1>2 DEF Bound, IntentRecords
<1> HIDE DEF r
<1>5. /\ intents' \in [Intents -> IntentRecords] /\ intents'[i] = r
      /\ \A k \in Intents : k # i => intents'[k] = intents[k]
  BY <1>2, <1>3, <1>4
<1>6. BindingsKept
  BY <1>1, <1>3, <1>5 DEF BindingsKept
<1> QED BY <1>3, <1>5, <1>6

LEMMA BoundKnows ==
  ASSUME OrdersInv, NEW i \in Intents, NEW hash \in Intents, CanBroadcast(i, hash),
         Bound(i, hash), TypeOK', UNCHANGED <<delivery, chain>>, order'.job = order.job
  PROVE \A k \in Intents : IntentKnows(k)'
<1>1. BindingsKept /\ UNCHANGED chain
  BY BoundFacts
<1>2. OurJobs' = OurJobs
  BY <1>1, SameJobs
<1>3. IntentKnows(i)'
  <2>1. IntentKnows(i) /\ intents[i].state # "none"
    BY DEF OrdersInv, CanBroadcast
  <2>2. intents'[hash].state # "none"
    BY <1>1 DEF BindingsKept, CanBroadcast
  <2> QED BY <1>2, <2>1, <2>2, BoundFacts DEF IntentKnows, Final
<1>4. ASSUME NEW k \in Intents PROVE IntentKnows(k)'
  BY <1>1, <1>3, <1>4, BoundFacts, IntentKept
<1> QED BY <1>4

LEMMA BroadcastKept ==
  ASSUME OrdersInv, NEW i \in Intents, NEW hash \in Intents, Broadcast(i, hash)
  PROVE OrdersInv'
<1>1. /\ CanBroadcast(i, hash) /\ Bound(i, hash)
      /\ order' = IF intents[i].action = "create" THEN [order EXCEPT !.status = "creating"]
                                                  ELSE order
      /\ UNCHANGED <<delivery, runs, snapshots, chain, crashes>>
  BY DEF Broadcast, BroadcastEffect
<1>2. order \in OrderRecords
  BY DEF OrdersInv, TypeOK
<1>3. /\ order' \in OrderRecords /\ order'.job = order.job /\ order'.chain = order.chain
  BY <1>1, <1>2 DEF OrderRecords, OrderStatuses
<1>4. intents' \in [Intents -> IntentRecords] /\ BindingsKept
  BY <1>1, BoundFacts
<1>5. TypeOK'
  BY <1>1, <1>3, <1>4 DEF OrdersInv, TypeOK, chain
<1>6. \A k \in Intents : IntentKnows(k)'
  BY <1>1, <1>3, <1>5, BoundKnows
<1>7. OrderKnows' /\ NeverAhead'
  BY <1>1, <1>3, <1>4, OrderKept
<1>8. DeliveryKnows'
  BY <1>1 DEF OrdersInv, DeliveryKnows
<1> QED BY <1>1, <1>4, <1>5, <1>6, <1>7, <1>8, RowsStep

-----------------------------------------------------------------------------
(* Reconciliation: what the receipt of an intent lets the order say.        *)

\* A confirmed intent's transaction is one with its calldata that went through.
LEMMA ConfirmedFacts ==
  ASSUME OrdersInv, NEW i \in Intents, intents[i].hash # NoIntent,
         mined[intents[i].hash].result # "no", Outcome(i) = "confirmed"
  PROVE LET j == mined[intents[i].hash].job IN
        /\ j # NoJob /\ j \in DOMAIN jobs
        /\ intents[i].action = "create" => j \in OurJobs /\ jobs[j].ours /\ "Created" \in seen[j]
        /\ intents[i].action \in DOMAIN Implies =>
             j = intents[i].job /\ j \in OurJobs /\ order.job # NoJob
             /\ Implies[intents[i].action] \in seen[j]
<1>1. PICK h \in Intents : h = intents[i].hash
  BY DEF OrdersInv, TypeOK, IntentRecords
<1>2. mined[h].result = "ok" /\ Calldata(h) = Calldata(i)
      /\ (intents[i].action = "create" => jobs[mined[h].job].ours)
  <2>1. mined[h].result \in {"ok", "reverted"}
    BY <1>1 DEF OrdersInv, TypeOK, MinedRecords
  <2> QED BY <1>1, <2>1 DEF Outcome
<1>3. intents[h].action = intents[i].action /\ intents[h].job = intents[i].job
  BY <1>2, CalldataFields DEF OrdersInv
<1>4. MinedKnows(h) /\ IntentKnows(h)
  BY DEF OrdersInv
<1>5. mined[h].job # NoJob /\ mined[h].job \in DOMAIN jobs
  BY <1>2, <1>4 DEF MinedKnows
<1>6. ASSUME intents[i].action = "create"
      PROVE mined[h].job \in OurJobs /\ jobs[mined[h].job].ours /\ "Created" \in seen[mined[h].job]
  BY <1>2, <1>3, <1>4, <1>5, <1>6 DEF MinedKnows, OurJobs
<1>7. ASSUME intents[i].action \in DOMAIN Implies
      PROVE /\ mined[h].job = intents[i].job /\ mined[h].job \in OurJobs /\ order.job # NoJob
            /\ Implies[intents[i].action] \in seen[mined[h].job]
  <2>1. intents[i].action # "create"
    BY <1>7 DEF Implies
  <2>2. mined[h].job = intents[h].job /\ Implies[intents[h].action] \in seen[mined[h].job]
    BY <1>2, <1>3, <1>4, <1>7, <2>1 DEF MinedKnows
  <2> QED BY <1>3, <1>4, <1>5, <2>2 DEF IntentKnows
<1> QED BY <1>1, <1>5, <1>6, <1>7

LEMMA OrderAfterFacts ==
  ASSUME OrdersInv, NEW i \in Intents, HasReceipt(i), order' = OrderAfter(i),
         UNCHANGED chain, BindingsKept
  PROVE /\ order' \in OrderRecords /\ OrderKnows' /\ NeverAhead'
        /\ order.job # NoJob => order'.job # NoJob
<1>1. /\ intents[i].hash # NoIntent /\ mined[intents[i].hash].result # "no"
      /\ order' = OrderAfter(i)
  BY DEF HasReceipt
<1>2. UNCHANGED <<jobs, seen>> /\ OurJobs' = OurJobs
  BY SameJobs DEF chain
<1>3. order \in OrderRecords
  BY DEF OrdersInv, TypeOK
<1>4. CASE intents[i].action = "create" /\ Outcome(i) = "confirmed"
  <2>1. PICK j : j = mined[intents[i].hash].job
    OBVIOUS
  <2>2. order' = [job |-> j, status |-> "created", chain |-> "Created"]
    BY <1>1, <1>4, <2>1 DEF OrderAfter
  <2>3. j # NoJob /\ j \in DOMAIN jobs /\ j \in OurJobs /\ jobs[j].ours /\ "Created" \in seen[j]
    BY <1>1, <1>4, <2>1, ConfirmedFacts
  <2>4. order' \in OrderRecords
    BY <2>2, <2>3, Ranges DEF OrderRecords, OrderStatuses, ChainStatuses
  <2> QED BY <1>2, <2>2, <2>3, <2>4 DEF OrderKnows, NeverAhead
<1>5. CASE intents[i].action # "create" /\ Outcome(i) = "confirmed"
           /\ intents[i].action \in DOMAIN Implies
  <2> DEFINE status == Implies[intents[i].action]
  <2>1. order' = [order EXCEPT !.status = StatusMap[status], !.chain = status]
    BY <1>1, <1>5 DEF OrderAfter
  <2>2. status \in ChainStatuses /\ StatusMap[status] \in OrderStatuses
    BY <1>5 DEF Implies, ChainStatuses, StatusMap, OrderStatuses
  <2>3. order.job # NoJob /\ intents[i].job \in OurJobs /\ status \in seen[intents[i].job]
    BY <1>1, <1>5, ConfirmedFacts
  <2> HIDE DEF status
  <2>4. /\ order' \in OrderRecords /\ order'.job = order.job /\ order'.chain = status
    BY <1>3, <2>1, <2>2 DEF OrderRecords
  <2>5. order.job \in OurJobs /\ jobs[order.job].ours
    BY <2>3 DEF OrdersInv, OrderKnows
  <2>6. NeverAhead'
    BY <1>2, <2>3, <2>4, <2>5, OneJob DEF NeverAhead
  <2> QED BY <1>2, <2>3, <2>4, <2>5, <2>6 DEF OrderKnows
<1>6. CASE ~ (Outcome(i) = "confirmed" /\ (intents[i].action = "create" \/ intents[i].action \in DOMAIN Implies))
  <2>1. order' = order \/ order' = [order EXCEPT !.status = "creation_mismatch"]
    BY <1>1, <1>6 DEF OrderAfter
  <2>2. order' \in OrderRecords /\ order'.job = order.job /\ order'.chain = order.chain
    BY <1>3, <2>1 DEF OrderRecords, OrderStatuses
  <2> QED BY <2>2, OrderKept
<1> QED BY <1>4, <1>5, <1>6

LEMMA DeliveryAfterFacts ==
  ASSUME OrdersInv, NEW i \in Intents, delivery' = DeliveryAfter(i)
  PROVE /\ delivery' \in DeliveryRecords /\ delivery'.manifest = delivery.manifest
        /\ delivery'.disk = delivery.disk
        /\ delivery'.stage \in {delivery.stage, "submitted"}
<1>1. delivery' = delivery \/ delivery' = [delivery EXCEPT !.stage = "submitted"]
  BY DEF DeliveryAfter
<1>2. delivery \in DeliveryRecords
  BY DEF OrdersInv, TypeOK
<1> QED BY <1>1, <1>2 DEF DeliveryRecords

LEMMA ReconcileKept ==
  ASSUME OrdersInv, NEW i \in Intents, Reconcile(i)
  PROVE OrdersInv'
<1> DEFINE r == [intents[i] EXCEPT !.state = Outcome(i)]
<1>1. /\ HasReceipt(i) /\ order' = OrderAfter(i) /\ delivery' = DeliveryAfter(i)
      /\ intents' = [intents EXCEPT ![i] = r]
      /\ UNCHANGED <<runs, snapshots, chain, crashes>>
  BY DEF Reconcile
<1>2. intents \in [Intents -> IntentRecords] /\ Outcome(i) \in Final /\ IntentKnows(i)
  BY DEF OrdersInv, TypeOK, Outcome, Final
<1>3. /\ r \in IntentRecords /\ r.state = Outcome(i) /\ r.hash = intents[i].hash
      /\ r.action = intents[i].action /\ r.job = intents[i].job
      /\ r.manifest = intents[i].manifest
  BY <1>2 DEF IntentRecords
<1> HIDE DEF r
<1>4. /\ intents' \in [Intents -> IntentRecords] /\ intents'[i] = r
      /\ \A k \in Intents : k # i => intents'[k] = intents[k]
  BY <1>1, <1>2, <1>3
<1>5. BindingsKept
  <2>1. Outcome(i) # "none"
    BY <1>2 DEF Final
  <2> QED BY <1>3, <1>4, <2>1 DEF BindingsKept
<1>6. /\ order' \in OrderRecords /\ OrderKnows' /\ NeverAhead'
      /\ order.job # NoJob => order'.job # NoJob
  BY <1>1, <1>5, OrderAfterFacts
<1>7. /\ delivery' \in DeliveryRecords /\ delivery'.manifest = delivery.manifest
      /\ delivery'.disk = delivery.disk /\ delivery'.stage \in {delivery.stage, "submitted"}
  BY <1>1, DeliveryAfterFacts
<1>8. TypeOK'
  BY <1>1, <1>4, <1>6, <1>7 DEF OrdersInv, TypeOK, chain
<1>9. IntentKnows(i)'
  <2>1. intents[i].hash # NoIntent /\ mined[intents[i].hash].result # "no" /\ mined' = mined
    BY <1>1 DEF HasReceipt, chain
  <2>2. intents[i].state # "none"
    BY <1>2, <2>1 DEF IntentKnows
  <2>3. Outcome(i)' = Outcome(i)
    BY <1>1, <1>3, <1>4, <1>5, <1>8, <2>1, <2>2, SameOutcome
  <2>4. OurJobs' = OurJobs
    BY <1>1, <1>5, SameJobs
  <2>5. intents'[intents[i].hash].state # "none"
    <3>1. PICK h \in Intents : h = intents[i].hash
      BY <2>1 DEF OrdersInv, TypeOK, IntentRecords
    <3>2. intents[h].state # "none"
      BY <1>2, <2>1, <3>1 DEF IntentKnows
    <3> QED BY <1>5, <3>1, <3>2 DEF BindingsKept
  <2>6. Outcome(i) # "none"
    BY <1>2 DEF Final
  <2> QED BY <1>2, <1>3, <1>4, <1>6, <1>7, <2>1, <2>2, <2>3, <2>4, <2>5, <2>6 DEF IntentKnows
<1>10. ASSUME NEW k \in Intents PROVE IntentKnows(k)'
  BY <1>1, <1>4, <1>5, <1>6, <1>7, <1>8, <1>9, IntentKept
<1>11. DeliveryKnows'
  BY <1>1, <1>7 DEF OrdersInv, DeliveryKnows
<1> QED BY <1>1, <1>5, <1>6, <1>8, <1>10, <1>11, RowsStep

-----------------------------------------------------------------------------
(* Synchronisation and delivery.                                            *)

LEMMA SyncReadsKept == ASSUME OrdersInv, NEW s \in Syncs, SyncReads(s) PROVE OrdersInv'
<1>1. /\ snapshots' = [snapshots EXCEPT ![s] = jobs]
      /\ UNCHANGED <<order, intents, delivery, runs, chain, crashes>>
  BY DEF SyncReads
<1>2. /\ snapshots' \in [Syncs -> Seq(JobRecords)]
      /\ \A t \in Syncs : snapshots'[t] \in {snapshots[t], jobs}
      /\ \A t \in Syncs : Len(snapshots[t]) <= Len(jobs)
  BY <1>1 DEF OrdersInv, TypeOK
<1>3. \A t \in Syncs : Len(snapshots'[t]) <= Len(jobs)
  BY <1>2, Ranges
<1>4. TypeOK'
  BY <1>1, <1>2, <1>3 DEF OrdersInv, TypeOK, chain
<1>5. BindingsKept
  BY <1>1 DEF BindingsKept
<1>6. ASSUME NEW i \in Intents PROVE IntentKnows(i)'
  BY <1>1, <1>4, <1>5, IntentKept
<1>7. OrderKnows' /\ NeverAhead'
  BY <1>1, <1>5, OrderKept
<1>8. DeliveryKnows'
  BY <1>1 DEF OrdersInv, DeliveryKnows
<1> QED BY <1>1, <1>2, <1>4, <1>5, <1>6, <1>7, <1>8, RowsStep

LEMMA SyncAppliesKept == ASSUME OrdersInv, NEW s \in Syncs, SyncApplies(s) PROVE OrdersInv'
<1>1. /\ order' = Applied(snapshots[s])
      /\ snapshots' = [snapshots EXCEPT ![s] = <<>>]
      /\ UNCHANGED <<intents, delivery, runs, chain, crashes>>
  BY DEF SyncApplies
<1>2. /\ snapshots' \in [Syncs -> Seq(JobRecords)]
      /\ \A t \in Syncs : snapshots'[t] \in {snapshots[t], <<>>}
      /\ \A t \in Syncs : Len(snapshots[t]) <= Len(jobs)
      /\ snapshots[s] \in Seq(JobRecords) /\ order \in OrderRecords
  BY <1>1 DEF OrdersInv, TypeOK
<1>3. \A t \in Syncs : Len(snapshots'[t]) <= Len(jobs)
  BY <1>2, Ranges
<1>4. BindingsKept
  BY <1>1 DEF BindingsKept
<1>5. order' \in OrderRecords /\ order'.job = order.job /\ OrderKnows' /\ NeverAhead'
  <2>1. CASE ~ Listed(order.job, snapshots[s])
    <3>1. order' = order
      BY <1>1, <2>1 DEF Applied
    <3> QED BY <1>1, <1>2, <1>4, <3>1, OrderKept
  <2>2. CASE Listed(order.job, snapshots[s])
    <3>1. PICK status : status = snapshots[s][order.job].status
      OBVIOUS
    <3>2. /\ order.job \in DOMAIN snapshots[s] /\ snapshots[s][order.job] \in JobRecords
          /\ status \in ChainStatuses /\ status \in seen[order.job]
      <4>1. order.job \in DOMAIN snapshots[s]
        BY <2>2 DEF Listed
      <4>2. snapshots[s][order.job] \in JobRecords
        BY <1>2, <4>1
      <4>3. status \in seen[order.job]
        BY <3>1, <4>1 DEF OrdersInv, SnapshotKnows
      <4> QED BY <3>1, <4>1, <4>2, <4>3 DEF JobRecords
    <3>3. StatusMap[status] \in OrderStatuses
      BY <3>2 DEF ChainStatuses, StatusMap, OrderStatuses
    <3>4. order' = [order EXCEPT !.chain = status,
                                 !.status = IF @ = "delivery_ready" /\ status = "Funded" THEN @
                                            ELSE StatusMap[status]]
      BY <1>1, <2>2, <3>1 DEF Applied
    <3>5. order' \in OrderRecords /\ order'.job = order.job /\ order'.chain = status
      BY <1>2, <3>2, <3>3, <3>4 DEF OrderRecords
    <3>6. order.job # NoJob
      BY <1>2, <3>2 DEF NoJob
    <3>7. OurJobs' = OurJobs /\ jobs' = jobs /\ seen' = seen
      BY <1>1, <1>4, SameJobs DEF chain
    <3> QED BY <3>2, <3>5, <3>6, <3>7 DEF OrdersInv, OrderKnows, NeverAhead
  <2> QED BY <2>1, <2>2
<1>6. TypeOK'
  BY <1>1, <1>2, <1>3, <1>5 DEF OrdersInv, TypeOK, chain
<1>7. ASSUME NEW i \in Intents PROVE IntentKnows(i)'
  BY <1>1, <1>4, <1>5, <1>6, IntentKept
<1>8. DeliveryKnows'
  BY <1>1 DEF OrdersInv, DeliveryKnows
<1> QED BY <1>1, <1>2, <1>4, <1>5, <1>6, <1>7, <1>8, RowsStep

\* A step that writes the delivery, the run of one invocation, and the status.
LEMMA DeliveryStep ==
  ASSUME OrdersInv, NEW d \in Deliveries, NEW r \in RunRecords,
         runs' = [runs EXCEPT ![d] = r],
         r.step # "idle" => r.job # NoJob,
         r.step = "exporting" => r.job = delivery'.disk,
         delivery' \in DeliveryRecords,
         delivery.disk # NoJob => delivery'.disk = delivery.disk,
         delivery.manifest # NoJob => delivery'.manifest = delivery.manifest,
         delivery'.manifest # NoJob => delivery'.manifest = delivery'.disk,
         delivery'.stage = "ready" => delivery'.manifest # NoJob,
         order' \in OrderRecords, order'.job = order.job, order'.chain = order.chain,
         UNCHANGED <<intents, snapshots, chain, crashes>>
  PROVE OrdersInv'
<1>1. /\ runs' \in [Deliveries -> RunRecords] /\ runs'[d] = r
      /\ \A e \in Deliveries : e # d => runs'[e] = runs[e]
  BY DEF OrdersInv, TypeOK
<1>2. TypeOK'
  BY <1>1 DEF OrdersInv, TypeOK, chain
<1>3. BindingsKept
  BY DEF BindingsKept
<1>4. ASSUME NEW i \in Intents PROVE IntentKnows(i)'
  BY <1>2, <1>3, IntentKept
<1>5. OrderKnows' /\ NeverAhead'
  BY <1>3, OrderKept
<1>6. DeliveryKnows'
  <2>1. ASSUME NEW e \in Deliveries
        PROVE /\ runs'[e].step # "idle" => runs'[e].job # NoJob
              /\ runs'[e].step = "exporting" => runs'[e].job = delivery'.disk
    BY <1>1 DEF OrdersInv, DeliveryKnows
  <2> QED BY <2>1 DEF DeliveryKnows
<1> QED BY <1>2, <1>3, <1>4, <1>5, <1>6, RowsStep

LEMMA DeliveryStartsKept ==
  ASSUME OrdersInv, NEW d \in Deliveries, DeliveryStarts(d)
  PROVE OrdersInv'
<1> DEFINE r == [step |-> "pinning", job |-> order.job]
<1>1. /\ Listed(order.job, jobs) /\ runs' = [runs EXCEPT ![d] = r]
      /\ UNCHANGED <<order, intents, snapshots, chain, crashes>>
      /\ delivery' = delivery \/ delivery' = [delivery EXCEPT !.stage = "uploaded"]
  BY DEF DeliveryStarts
<1>2. order.job \in JobIds /\ order.job # NoJob
  BY <1>1, Ranges DEF Listed
<1>3. r \in RunRecords /\ r.step = "pinning" /\ r.job # NoJob
  BY <1>2 DEF RunRecords
<1>4. order \in OrderRecords /\ delivery \in DeliveryRecords
  BY DEF OrdersInv, TypeOK
<1>5. /\ delivery' \in DeliveryRecords /\ delivery'.disk = delivery.disk
      /\ delivery'.manifest = delivery.manifest
      /\ delivery'.stage \in {delivery.stage, "uploaded"}
  BY <1>1, <1>4 DEF DeliveryRecords
<1> HIDE DEF r
<1> QED BY <1>1, <1>3, <1>4, <1>5, DeliveryStep DEF OrdersInv, DeliveryKnows

LEMMA DeliveryPinnedKept ==
  ASSUME OrdersInv, NEW d \in Deliveries, DeliveryPinned(d)
  PROVE OrdersInv'
<1> DEFINE r == [runs[d] EXCEPT !.step = "exporting"]
           new == [delivery EXCEPT !.stage = "pinned_file", !.disk = runs[d].job]
<1>1. /\ runs[d].step = "pinning" /\ delivery.disk \in {NoJob, runs[d].job}
      /\ runs' = [runs EXCEPT ![d] = r] /\ delivery' = new
      /\ UNCHANGED <<order, intents, snapshots, chain, crashes>>
  BY DEF DeliveryPinned
<1>2. runs[d] \in RunRecords /\ delivery \in DeliveryRecords /\ order \in OrderRecords
  BY DEF OrdersInv, TypeOK
<1>3. r \in RunRecords /\ r.step = "exporting" /\ r.job = runs[d].job
  BY <1>2 DEF RunRecords
<1>4. /\ new \in DeliveryRecords /\ new.disk = runs[d].job /\ new.stage = "pinned_file"
      /\ new.manifest = delivery.manifest
  BY <1>2 DEF DeliveryRecords, RunRecords
<1>5. runs[d].job # NoJob
  BY <1>1 DEF OrdersInv, DeliveryKnows
<1>6. delivery.manifest # NoJob => delivery.manifest = runs[d].job
  BY <1>1 DEF OrdersInv, DeliveryKnows
<1> HIDE DEF r, new
<1> QED BY <1>1, <1>2, <1>3, <1>4, <1>5, <1>6, DeliveryStep

LEMMA DeliveryReadyKept ==
  ASSUME OrdersInv, NEW d \in Deliveries, DeliveryReady(d)
  PROVE OrdersInv'
<1> DEFINE r == [step |-> "idle", job |-> NoJob]
           new == [delivery EXCEPT !.stage = "ready", !.manifest = runs[d].job]
           shown == [order EXCEPT !.status = "delivery_ready"]
<1>1. /\ runs[d].step = "exporting" /\ runs' = [runs EXCEPT ![d] = r]
      /\ delivery' = new /\ order' = shown
      /\ UNCHANGED <<intents, snapshots, chain, crashes>>
  BY DEF DeliveryReady
<1>2. runs[d] \in RunRecords /\ delivery \in DeliveryRecords /\ order \in OrderRecords
  BY DEF OrdersInv, TypeOK
<1>3. r \in RunRecords /\ r.step = "idle"
  BY DEF RunRecords
<1>4. /\ new \in DeliveryRecords /\ new.disk = delivery.disk /\ new.manifest = runs[d].job
  BY <1>2 DEF DeliveryRecords, RunRecords
<1>5. shown \in OrderRecords /\ shown.job = order.job /\ shown.chain = order.chain
  BY <1>2 DEF OrderRecords, OrderStatuses
<1>6. /\ runs[d].job # NoJob /\ runs[d].job = delivery.disk
      /\ delivery.manifest # NoJob => delivery.manifest = runs[d].job
  BY <1>1 DEF OrdersInv, DeliveryKnows
<1> HIDE DEF r, new, shown
<1> QED BY <1>1, <1>3, <1>4, <1>5, <1>6, DeliveryStep

LEMMA DeliveryFailsKept ==
  ASSUME OrdersInv, NEW d \in Deliveries, DeliveryFails(d)
  PROVE OrdersInv'
<1> DEFINE r == [step |-> "idle", job |-> NoJob]
<1>1. /\ runs' = [runs EXCEPT ![d] = r]
      /\ delivery' = delivery \/ delivery' = [delivery EXCEPT !.stage = "pinned_file"]
      /\ UNCHANGED <<order, intents, snapshots, chain, crashes>>
  BY DEF DeliveryFails
<1>2. delivery \in DeliveryRecords /\ order \in OrderRecords
  BY DEF OrdersInv, TypeOK
<1>3. r \in RunRecords /\ r.step = "idle"
  BY DEF RunRecords
<1>4. /\ delivery' \in DeliveryRecords /\ delivery'.disk = delivery.disk
      /\ delivery'.manifest = delivery.manifest
      /\ delivery'.stage \in {delivery.stage, "pinned_file"}
  BY <1>1, <1>2 DEF DeliveryRecords
<1> HIDE DEF r
<1> QED BY <1>1, <1>2, <1>3, <1>4, DeliveryStep DEF OrdersInv, DeliveryKnows

-----------------------------------------------------------------------------
(* Crashes.                                                                 *)

LEMMA DiesFacts ==
  ASSUME OrdersInv, Dies
  PROVE /\ runs' \in [Deliveries -> RunRecords]
        /\ \A d \in Deliveries : runs'[d].step = "idle"
        /\ snapshots' \in [Syncs -> Seq(JobRecords)]
        /\ \A s \in Syncs : snapshots'[s] = <<>> /\ Len(snapshots'[s]) <= Len(jobs)
        /\ crashes' \in 0 .. MaxCrashes /\ UNCHANGED chain
<1>1. /\ crashes < MaxCrashes /\ crashes' = crashes + 1 /\ UNCHANGED chain
      /\ runs' = [d \in Deliveries |-> [step |-> "idle", job |-> NoJob]]
      /\ snapshots' = [s \in Syncs |-> <<>>]
  BY DEF Dies
<1>2. runs' \in [Deliveries -> RunRecords]
  BY <1>1 DEF RunRecords
<1>3. snapshots' \in [Syncs -> Seq(JobRecords)] /\ \A s \in Syncs : Len(snapshots'[s]) = 0
  BY <1>1
<1>4. Len(jobs) \in Nat /\ crashes' \in 0 .. MaxCrashes
  BY <1>1, Ranges, OrdersAssumption DEF OrdersInv, TypeOK
<1>5. \A s \in Syncs : Len(snapshots'[s]) <= Len(jobs)
  BY <1>3, <1>4
<1> QED BY <1>1, <1>2, <1>3, <1>4, <1>5

LEMMA CrashInBroadcastKept ==
  ASSUME OrdersInv, NEW i \in Intents, NEW hash \in Intents, CrashInBroadcast(i, hash)
  PROVE OrdersInv'
<1>1. Dies /\ CanBroadcast(i, hash) /\ Bound(i, hash) /\ UNCHANGED <<order, delivery>>
  BY DEF CrashInBroadcast
<1>2. intents' \in [Intents -> IntentRecords] /\ BindingsKept
  BY <1>1, BoundFacts
<1>3. TypeOK'
  BY <1>1, <1>2, DiesFacts DEF OrdersInv, TypeOK, chain
<1>4. UNCHANGED chain /\ \A s \in Syncs : snapshots'[s] = <<>>
  BY <1>1, DiesFacts
<1>5. \A k \in Intents : IntentKnows(k)'
  BY <1>1, <1>3, <1>4, BoundKnows
<1>6. OrderKnows' /\ NeverAhead'
  BY <1>1, <1>2, <1>4, OrderKept DEF OrdersInv, TypeOK
<1>7. DeliveryKnows'
  BY <1>1, DiesFacts DEF OrdersInv, DeliveryKnows
<1> QED BY <1>2, <1>3, <1>4, <1>5, <1>6, <1>7, RowsStep

LEMMA CrashInReconcileKept ==
  ASSUME OrdersInv, NEW i \in Intents, CrashInReconcile(i)
  PROVE OrdersInv'
<1>1. /\ Dies /\ HasReceipt(i) /\ delivery' = DeliveryAfter(i) /\ intents' = intents
      /\ order' = order \/ order' = OrderAfter(i)
  BY DEF CrashInReconcile
<1>2. UNCHANGED chain /\ BindingsKept /\ \A s \in Syncs : snapshots'[s] = <<>>
  BY <1>1, DiesFacts DEF BindingsKept
<1>3. /\ order' \in OrderRecords /\ OrderKnows' /\ NeverAhead'
      /\ order.job # NoJob => order'.job # NoJob
  <2>1. CASE order' = order
    BY <1>2, <2>1, OrderKept DEF OrdersInv, TypeOK
  <2>2. CASE order' = OrderAfter(i)
    BY <1>1, <1>2, <2>2, OrderAfterFacts
  <2> QED BY <1>1, <2>1, <2>2
<1>4. /\ delivery' \in DeliveryRecords /\ delivery'.manifest = delivery.manifest
      /\ delivery'.disk = delivery.disk /\ delivery'.stage \in {delivery.stage, "submitted"}
  BY <1>1, DeliveryAfterFacts
<1>5. TypeOK'
  BY <1>1, <1>3, <1>4, DiesFacts DEF OrdersInv, TypeOK, chain
<1>6. ASSUME NEW k \in Intents PROVE IntentKnows(k)'
  BY <1>1, <1>2, <1>3, <1>4, <1>5, IntentKept
<1>7. DeliveryKnows'
  BY <1>1, <1>4, DiesFacts DEF OrdersInv, DeliveryKnows
<1> QED BY <1>2, <1>3, <1>5, <1>6, <1>7, RowsStep

LEMMA CrashInDeliveryKept ==
  ASSUME OrdersInv, NEW d \in Deliveries, CrashInDelivery(d)
  PROVE OrdersInv'
<1> DEFINE new == [delivery EXCEPT !.stage = "ready", !.manifest = runs[d].job]
<1>1. /\ Dies /\ runs[d].step = "exporting" /\ delivery' = new /\ UNCHANGED <<order, intents>>
  BY DEF CrashInDelivery
<1>2. UNCHANGED chain /\ BindingsKept /\ \A s \in Syncs : snapshots'[s] = <<>>
  BY <1>1, DiesFacts DEF BindingsKept
<1>3. runs[d] \in RunRecords /\ delivery \in DeliveryRecords
  BY DEF OrdersInv, TypeOK
<1>4. /\ new \in DeliveryRecords /\ new.disk = delivery.disk /\ new.manifest = runs[d].job
  BY <1>3 DEF DeliveryRecords, RunRecords
<1>5. /\ runs[d].job # NoJob /\ runs[d].job = delivery.disk
      /\ delivery.manifest # NoJob => delivery.manifest = runs[d].job
  BY <1>1 DEF OrdersInv, DeliveryKnows
<1> HIDE DEF new
<1>6. TypeOK'
  BY <1>1, <1>4, DiesFacts DEF OrdersInv, TypeOK, chain
<1>7. ASSUME NEW k \in Intents PROVE IntentKnows(k)'
  BY <1>1, <1>2, <1>4, <1>5, <1>6, IntentKept
<1>8. OrderKnows' /\ NeverAhead'
  BY <1>1, <1>2, OrderKept DEF OrdersInv, TypeOK
<1>9. DeliveryKnows'
  BY <1>1, <1>4, <1>5, DiesFacts DEF DeliveryKnows
<1> QED BY <1>2, <1>6, <1>7, <1>8, <1>9, RowsStep

-----------------------------------------------------------------------------
(* The inductive invariant, and what follows from it.                       *)

LEMMA OrdersInvKept == OrdersInv /\ [Next]_vars => OrdersInv'
<1> SUFFICES ASSUME OrdersInv, [Next]_vars PROVE OrdersInv'
  OBVIOUS
<1>1. CASE OutsideStep
  BY <1>1, OutsideKept
<1>2. ASSUME NEW i \in Intents, NEW action \in Actions, CreateIntent(i, action) PROVE OrdersInv'
  BY <1>2, CreateIntentKept
<1>3. ASSUME NEW i \in Intents, NEW hash \in Intents,
             Broadcast(i, hash) \/ CrashInBroadcast(i, hash)
      PROVE  OrdersInv'
  BY <1>3, BroadcastKept, CrashInBroadcastKept
<1>4. ASSUME NEW i \in Intents, MineCreate(i) \/ MineAction(i) \/ MineReverts(i) PROVE OrdersInv'
  BY <1>4, MineCreateKept, MineActionKept, MineRevertsKept
<1>5. ASSUME NEW i \in Intents, Reconcile(i) \/ CrashInReconcile(i) PROVE OrdersInv'
  BY <1>5, ReconcileKept, CrashInReconcileKept
<1>6. ASSUME NEW s \in Syncs, SyncReads(s) \/ SyncApplies(s) PROVE OrdersInv'
  BY <1>6, SyncReadsKept, SyncAppliesKept
<1>7. ASSUME NEW d \in Deliveries,
             \/ DeliveryStarts(d) \/ DeliveryPinned(d) \/ DeliveryReady(d) \/ DeliveryFails(d)
             \/ CrashInDelivery(d)
      PROVE OrdersInv'
  BY <1>7, DeliveryStartsKept, DeliveryPinnedKept, DeliveryReadyKept, DeliveryFailsKept,
     CrashInDeliveryKept
<1>8. CASE UNCHANGED vars
  <2>1. UNCHANGED chain /\ BindingsKept /\ TypeOK' /\ OrderKnows' /\ DeliveryKnows' /\ NeverAhead'
    BY <1>8 DEF vars, chain, BindingsKept, OrdersInv, TypeOK, OrderKnows, DeliveryKnows,
                NeverAhead, OurJobs
  <2>2. \A i \in Intents : IntentKnows(i)'
    BY <1>8, <2>1, IntentKept DEF vars
  <2> QED BY <1>8, <2>1, <2>2, RowsStep DEF vars
<1> QED BY <1>1, <1>2, <1>3, <1>4, <1>5, <1>6, <1>7, <1>8 DEF Next

LEMMA OrdersInvAlways == Spec => []OrdersInv
  BY InitOrders, OrdersInvKept, PTL DEF Spec

\* Every variable keeps its type: the rows of the order, its intents and delivery,
\* the handlers in flight and the jobs of the escrow.
THEOREM OrdersTypes == Spec => []TypeOK
<1>1. OrdersInv => TypeOK
  BY DEF OrdersInv
<1> QED BY <1>1, OrdersInvAlways, PTL

\* reconcile_intent links the order only to a job that one of its own "create"
\* transactions made, with the agreed terms.
THEOREM LinkedIsOursAlways == Spec => []LinkedIsOurs
<1>1. OrdersInv => LinkedIsOurs
  BY DEF OrdersInv, OrderKnows, LinkedIsOurs, OurJobs
<1> QED BY <1>1, OrdersInvAlways, PTL

\* A status that reconcile_intent or apply_chain_snapshot shows is one that the
\* linked job has had, from however stale a snapshot or late a receipt.
THEOREM NeverAheadAlways == Spec => []NeverAhead
<1>1. OrdersInv => NeverAhead
  BY DEF OrdersInv
<1> QED BY <1>1, OrdersInvAlways, PTL

\* A submission is prepared only with the manifest that create_delivery wrote, and
\* overlapping runs of it never change that manifest.
THEOREM SubmitsTheDeliveryAlways == Spec => []SubmitsTheDelivery
<1>1. OrdersInv => SubmitsTheDelivery
  BY DEF OrdersInv, IntentKnows, SubmitsTheDelivery
<1> QED BY <1>1, OrdersInvAlways, PTL

\* broadcast_intent binds an intent once, and reconcile_intent, however often it is
\* repeated, reaches the same outcome.
THEOREM OutcomeKeptAlways == Spec => OutcomeKept
<1> DEFINE Kept == \A i \in Intents :
                     /\ intents[i].hash # NoIntent => intents'[i].hash = intents[i].hash
                     /\ intents[i].state \in Final => intents'[i].state = intents[i].state
<1>1. ASSUME OrdersInv, [Next]_vars PROVE Kept
  <2>1. intents \in [Intents -> IntentRecords] /\ \A i \in Intents : IntentKnows(i)
    BY <1>1 DEF OrdersInv, TypeOK
  <2>2. CASE intents' = intents
    BY <2>2
  <2>3. ASSUME NEW i \in Intents, NEW action \in Actions, CreateIntent(i, action) PROVE Kept
    BY <2>1, <2>3 DEF CreateIntent, IntentKnows, Final
  <2>4. ASSUME NEW i \in Intents, NEW hash \in Intents,
               Broadcast(i, hash) \/ CrashInBroadcast(i, hash)
        PROVE Kept
    <3>1. CanBroadcast(i, hash) /\ Bound(i, hash)
      BY <2>4 DEF Broadcast, BroadcastEffect, CrashInBroadcast
    <3> QED BY <2>1, <3>1 DEF CanBroadcast, Bound, IntentRecords
  <2>5. ASSUME NEW i \in Intents, Reconcile(i) PROVE Kept
    <3>1. intents[i].state \in Final => intents[i].state = Outcome(i)
      BY <2>1 DEF IntentKnows
    <3> QED BY <2>1, <2>5, <3>1 DEF Reconcile, IntentRecords
  <2>6. CASE UNCHANGED vars \/ OutsideStep
    BY <2>2, <2>6 DEF vars, OutsideStep
  <2>7. ASSUME NEW i \in Intents,
               MineCreate(i) \/ MineAction(i) \/ MineReverts(i) \/ CrashInReconcile(i)
        PROVE Kept
    BY <2>2, <2>7 DEF MineCreate, MineAction, MineReverts, CrashInReconcile
  <2>8. ASSUME NEW s \in Syncs, SyncReads(s) \/ SyncApplies(s) PROVE Kept
    BY <2>2, <2>8 DEF SyncReads, SyncApplies
  <2>9. ASSUME NEW d \in Deliveries,
               \/ DeliveryStarts(d) \/ DeliveryPinned(d) \/ DeliveryReady(d) \/ DeliveryFails(d)
               \/ CrashInDelivery(d)
        PROVE Kept
    BY <2>2, <2>9 DEF DeliveryStarts, DeliveryPinned, DeliveryReady, DeliveryFails, CrashInDelivery
  <2> HIDE DEF Kept
  <2> QED BY <1>1, <2>3, <2>4, <2>5, <2>6, <2>7, <2>8, <2>9 DEF Next
<1>2. OrdersInv /\ [Next]_vars => [Kept]_vars
  BY <1>1
<1> QED BY <1>2, OrdersInvAlways, PTL DEF Spec, OutcomeKept
=============================================================================
