----------------------------- MODULE MarketProofs -----------------------------
(***************************************************************************)
(* What TLAPS proves of the market, for every set of users, tasks and       *)
(* requests: the tables of tasks, applications and orders agree however the *)
(* handlers interleave, and an order is made only from an offer that        *)
(* stands.                                                                  *)
(***************************************************************************)
EXTENDS Market, TLAPS

\* What a handler holds between its reads and its writes.
RequestKnows(q) ==
  LET r == requests[q] IN
  /\ r.step \in {"applying", "signed"} => r.user \in Users /\ r.task \in Tasks /\ r.nonce \in Nonces
  /\ r.step = "selecting" => /\ r.user \in Users
                             /\ r.app \in DOMAIN apps
                             /\ r.task = apps[r.app].task

\* UNIQUE(task_uid, provider, application_nonce).
SignedOnce ==
  \A i, j \in DOMAIN apps :
    i # j => <<apps[i].task, apps[i].provider, apps[i].nonce>> #
             <<apps[j].task, apps[j].provider, apps[j].nonce>>

\* An order names a row of the applications.
OrdersOfRows == \A o \in orders : o.app \in DOMAIN apps

MarketInv ==
  /\ TypeOK
  /\ TablesAgree
  /\ SignedOnce
  /\ OrdersOfRows
  /\ \A q \in Requests : RequestKnows(q)

Steps == {"idle", "applying", "signed", "selecting", "done"}

LEMMA InitMarket == Init => MarketInv
<1> SUFFICES ASSUME Init PROVE MarketInv
  OBVIOUS
<1>1. TypeOK
  <2>1. now \in Times
    BY MarketAssumption DEF Init, Times
  <2>2. tasks \in [Tasks -> TaskRecords]
    BY MarketAssumption DEF Init, TaskRecords, Times, NoApp
  <2>3. apps \in Seq(AppRecords) /\ Len(apps) <= MaxApps
    BY MarketAssumption DEF Init
  <2>4. requests \in [Requests -> RequestRecords]
    BY MarketAssumption DEF Init, RequestRecords, Times, NoApp
  <2> QED BY <2>1, <2>2, <2>3, <2>4 DEF TypeOK, Init
<1>2. DOMAIN apps = {} /\ orders = {}
  BY DEF Init
<1>3. TablesAgree
  BY <1>2 DEF TablesAgree, Init
<1>4. \A q \in Requests : RequestKnows(q)
  BY DEF RequestKnows, Init
<1> QED BY <1>1, <1>2, <1>3, <1>4 DEF MarketInv, SignedOnce, OrdersOfRows

-----------------------------------------------------------------------------
(* What an update of one row leaves of the others.                          *)

LEMMA RequestUpdates ==
  ASSUME NEW r \in RequestRecords, NEW s \in Steps
  PROVE /\ [r EXCEPT !.step = s] \in RequestRecords
        /\ \A u \in Users, t \in Tasks, n \in Nonces, v \in Times :
             [r EXCEPT !.step = s, !.user = u, !.task = t, !.nonce = n, !.until = v] \in RequestRecords
        /\ \A u \in Users, t \in Tasks, i \in AppIds :
             [r EXCEPT !.step = s, !.user = u, !.task = t, !.app = i] \in RequestRecords
  BY DEF RequestRecords, Steps

LEMMA TaskUpdates ==
  ASSUME NEW r \in TaskRecords
  PROVE /\ [r EXCEPT !.state = "closed"] \in TaskRecords
        /\ \A u \in Users, v \in Times :
             [r EXCEPT !.state = "open", !.buyer = u, !.expiry = v] \in TaskRecords
        /\ \A i \in AppIds : [r EXCEPT !.state = "selected", !.chosen = i] \in TaskRecords
  BY DEF TaskRecords

LEMMA AppUpdates ==
  ASSUME NEW r \in AppRecords, NEW s \in {"active", "withdrawn", "selected", "invalid"}
  PROVE /\ [r EXCEPT !.status = s] \in AppRecords
        /\ [r EXCEPT !.status = s].status = s
        /\ [r EXCEPT !.status = s].task = r.task
        /\ [r EXCEPT !.status = s].provider = r.provider
        /\ [r EXCEPT !.status = s].nonce = r.nonce
  BY DEF AppRecords

LEMMA RowsInRange ==
  ASSUME TypeOK
  PROVE /\ DOMAIN apps \subseteq AppIds
        /\ \A i \in DOMAIN apps : apps[i] \in AppRecords
  BY MarketAssumption DEF TypeOK, AppIds

\* A handler keeps what it knows when its request and the rows it has read are kept.
LEMMA KnowsKept ==
  ASSUME NEW q \in Requests, RequestKnows(q), requests'[q] = requests[q],
         DOMAIN apps \subseteq DOMAIN apps',
         \A i \in DOMAIN apps : apps'[i].task = apps[i].task
  PROVE RequestKnows(q)'
  BY DEF RequestKnows

-----------------------------------------------------------------------------
(* One lemma for each kind of step.                                         *)

\* A step that writes at most one request.
LEMMA RequestStep ==
  ASSUME MarketInv, UNCHANGED <<tasks, apps, orders>>, now' \in Times,
         requests' \in [Requests -> RequestRecords],
         \A q \in Requests : requests'[q] = requests[q] \/ RequestKnows(q)'
  PROVE MarketInv'
<1>1. TypeOK'
  BY DEF MarketInv, TypeOK
<1>2. TablesAgree' /\ SignedOnce' /\ OrdersOfRows'
  BY DEF MarketInv, TablesAgree, SignedOnce, OrdersOfRows
<1>3. ASSUME NEW q \in Requests PROVE RequestKnows(q)'
  BY <1>3, KnowsKept DEF MarketInv
<1> QED BY <1>1, <1>2, <1>3 DEF MarketInv

LEMMA ApplyReadsStep ==
  ASSUME MarketInv, NEW q \in Requests, NEW user \in Users, NEW t \in Tasks,
         NEW nonce \in Nonces, NEW until \in Times, ApplyReads(q, user, t, nonce, until)
  PROVE MarketInv'
<1> DEFINE r == [requests[q] EXCEPT !.step = "applying", !.user = user, !.task = t,
                                    !.nonce = nonce, !.until = until]
<1>1. r \in RequestRecords
  BY RequestUpdates DEF MarketInv, TypeOK, Steps
<1>2. r.step = "applying" /\ r.user = user /\ r.task = t /\ r.nonce = nonce
  BY DEF MarketInv, TypeOK, RequestRecords
<1>3. requests' = [requests EXCEPT ![q] = r]
  BY DEF ApplyReads
<1> HIDE DEF r
<1>4. requests' \in [Requests -> RequestRecords] /\ requests'[q] = r
  BY <1>1, <1>3 DEF MarketInv, TypeOK
<1>5. RequestKnows(q)'
  BY <1>2, <1>4 DEF RequestKnows
<1>6. \A p \in Requests : p # q => requests'[p] = requests[p]
  BY <1>3 DEF MarketInv, TypeOK
<1>7. now' \in Times /\ UNCHANGED <<tasks, apps, orders>>
  BY DEF ApplyReads, MarketInv, TypeOK
<1> QED BY <1>4, <1>5, <1>6, <1>7, RequestStep

LEMMA SelectReadsStep ==
  ASSUME MarketInv, NEW q \in Requests, NEW user \in Users, NEW i \in DOMAIN apps,
         SelectReads(q, user, i)
  PROVE MarketInv'
<1> DEFINE r == [requests[q] EXCEPT !.step = "selecting", !.user = user,
                                    !.task = apps[i].task, !.app = i]
<1>0. i \in AppIds /\ apps[i].task \in Tasks
  BY RowsInRange DEF MarketInv, AppRecords
<1>1. r \in RequestRecords
  BY <1>0, RequestUpdates DEF MarketInv, TypeOK, Steps
<1>2. r.step = "selecting" /\ r.user = user /\ r.task = apps[i].task /\ r.app = i
  BY DEF MarketInv, TypeOK, RequestRecords
<1>3. requests' = [requests EXCEPT ![q] = r] /\ apps' = apps
  BY DEF SelectReads
<1> HIDE DEF r
<1>4. requests' \in [Requests -> RequestRecords] /\ requests'[q] = r
  BY <1>1, <1>3 DEF MarketInv, TypeOK
<1>5. RequestKnows(q)'
  BY <1>2, <1>3, <1>4 DEF RequestKnows
<1>6. \A p \in Requests : p # q => requests'[p] = requests[p]
  BY <1>3 DEF MarketInv, TypeOK
<1>7. now' \in Times /\ UNCHANGED <<tasks, apps, orders>>
  BY DEF SelectReads, MarketInv, TypeOK
<1> QED BY <1>4, <1>5, <1>6, <1>7, RequestStep

LEMMA StepOfRequest ==
  ASSUME MarketInv, NEW q \in Requests, NEW s \in Steps,
         requests' = [requests EXCEPT ![q].step = s]
  PROVE /\ requests' \in [Requests -> RequestRecords]
        /\ \A p \in Requests : p # q => requests'[p] = requests[p]
        /\ requests'[q].step = s
        /\ requests'[q].user = requests[q].user /\ requests'[q].task = requests[q].task
        /\ requests'[q].nonce = requests[q].nonce
<1> DEFINE r == [requests[q] EXCEPT !.step = s]
<1>1. r \in RequestRecords
  BY RequestUpdates DEF MarketInv, TypeOK
<1>2. /\ r.step = s /\ r.user = requests[q].user
      /\ r.task = requests[q].task /\ r.nonce = requests[q].nonce
  BY DEF MarketInv, TypeOK, RequestRecords
<1>3. requests' = [requests EXCEPT ![q] = r]
  OBVIOUS
<1> HIDE DEF r
<1> QED BY <1>1, <1>2, <1>3 DEF MarketInv, TypeOK

LEMMA ApplyChecksStep ==
  ASSUME MarketInv, NEW q \in Requests, ApplyChecks(q)
  PROVE MarketInv'
<1>1. /\ requests[q].step = "applying" /\ requests' = [requests EXCEPT ![q].step = "signed"]
      /\ UNCHANGED <<tasks, apps, orders>> /\ now' = now
  BY DEF ApplyChecks
<1>2. RequestKnows(q)'
  BY <1>1, StepOfRequest DEF MarketInv, RequestKnows, Steps
<1> QED BY <1>1, <1>2, StepOfRequest, RequestStep DEF MarketInv, TypeOK, Steps

LEMMA RequestFailsStep ==
  ASSUME MarketInv, NEW q \in Requests, RequestFails(q)
  PROVE MarketInv'
<1>1. /\ requests' = [requests EXCEPT ![q].step = "done"]
      /\ UNCHANGED <<tasks, apps, orders>> /\ now' = now
  BY DEF RequestFails
<1>2. RequestKnows(q)'
  BY <1>1, StepOfRequest DEF RequestKnows, Steps
<1> QED BY <1>1, <1>2, StepOfRequest, RequestStep DEF MarketInv, TypeOK, Steps

LEMMA TickStep == ASSUME MarketInv, Tick PROVE MarketInv'
<1>1. now' \in Times
  BY MarketAssumption DEF Tick, MarketInv, TypeOK, Times
<1> QED BY <1>1, RequestStep DEF Tick, MarketInv, TypeOK

\* A step that writes a task which has no order, and neither becomes selected nor
\* was.
LEMMA TaskStep ==
  ASSUME MarketInv, NEW t \in Tasks, NEW r \in TaskRecords,
         tasks[t].state # "selected", r.state # "selected",
         tasks' = [tasks EXCEPT ![t] = r], UNCHANGED <<now, apps, orders, requests>>
  PROVE MarketInv'
<1>1. TypeOK'
  BY DEF MarketInv, TypeOK
<1>2. tasks'[t] = r /\ \A u \in Tasks : u # t => tasks'[u] = tasks[u]
  BY DEF MarketInv, TypeOK
<1>3. \A o \in orders : o.task \in Tasks /\ o.task # t
  BY DEF MarketInv, TablesAgree, TypeOK, OrderRecords
<1>4. TablesAgree'
  BY <1>2, <1>3 DEF MarketInv, TablesAgree
<1>5. SignedOnce' /\ OrdersOfRows'
  BY DEF MarketInv, SignedOnce, OrdersOfRows
<1>6. ASSUME NEW q \in Requests PROVE RequestKnows(q)'
  BY <1>6, KnowsKept DEF MarketInv
<1> QED BY <1>1, <1>4, <1>5, <1>6 DEF MarketInv

LEMMA CreateTaskStep ==
  ASSUME MarketInv, NEW user \in Users, NEW t \in Tasks, NEW expiry \in Times,
         CreateTask(user, t, expiry)
  PROVE MarketInv'
<1> DEFINE r == [tasks[t] EXCEPT !.state = "open", !.buyer = user, !.expiry = expiry]
<1>1. r \in TaskRecords
  BY TaskUpdates DEF MarketInv, TypeOK
<1>2. r.state = "open"
  BY DEF MarketInv, TypeOK, TaskRecords
<1>3. tasks' = [tasks EXCEPT ![t] = r]
  <2>1. \A x : [tasks EXCEPT ![t].state = "open", ![t].buyer = user, ![t].expiry = expiry][x]
              = [tasks EXCEPT ![t] = r][x] \/ x \notin Tasks
    BY DEF MarketInv, TypeOK, TaskRecords
  <2> QED BY <2>1 DEF CreateTask, MarketInv, TypeOK
<1> HIDE DEF r
<1> QED BY <1>1, <1>2, <1>3, TaskStep DEF CreateTask

LEMMA CloseTaskStep ==
  ASSUME MarketInv, NEW user \in Users, NEW t \in Tasks, CloseTask(user, t)
  PROVE MarketInv'
<1> DEFINE r == [tasks[t] EXCEPT !.state = "closed"]
<1>1. r \in TaskRecords
  BY TaskUpdates DEF MarketInv, TypeOK
<1>2. r.state = "closed"
  BY DEF MarketInv, TypeOK, TaskRecords
<1>3. tasks' = [tasks EXCEPT ![t] = r]
  BY DEF CloseTask
<1> HIDE DEF r
<1> QED BY <1>1, <1>2, <1>3, TaskStep DEF CloseTask

LEMMA WithdrawStep ==
  ASSUME MarketInv, NEW user \in Users, NEW i \in DOMAIN apps, Withdraw(user, i)
  PROVE MarketInv'
<1> DEFINE r == [apps[i] EXCEPT !.status = "withdrawn"]
<1>1. /\ r \in AppRecords /\ r.status = "withdrawn" /\ r.task = apps[i].task
      /\ r.provider = apps[i].provider /\ r.nonce = apps[i].nonce
  BY AppUpdates, RowsInRange DEF MarketInv
<1>2. apps' = [apps EXCEPT ![i] = r] /\ apps[i].status = "active"
      /\ UNCHANGED <<now, tasks, orders, requests>>
  BY DEF Withdraw
<1> HIDE DEF r
<1>3. /\ DOMAIN apps' = DOMAIN apps /\ Len(apps') = Len(apps) /\ apps'[i] = r
      /\ \A j \in DOMAIN apps : j # i => apps'[j] = apps[j]
  BY <1>2 DEF MarketInv, TypeOK
<1>4. TypeOK'
  BY <1>1, <1>2, <1>3 DEF MarketInv, TypeOK
<1>5. \A j \in DOMAIN apps : /\ apps'[j].task = apps[j].task
                             /\ apps'[j].provider = apps[j].provider
                             /\ apps'[j].nonce = apps[j].nonce
  BY <1>1, <1>3
<1>6. SignedOnce'
  BY <1>3, <1>5 DEF MarketInv, SignedOnce
<1>7. OrdersOfRows'
  BY <1>2, <1>3 DEF MarketInv, OrdersOfRows
<1>8. TablesAgree'
  <2>1. \A o \in orders : /\ tasks[o.task].chosen = o.app /\ tasks[o.task].buyer = o.buyer
                          /\ apps'[o.app].task = o.task /\ apps'[o.app].provider = o.provider
    BY <1>5 DEF MarketInv, TablesAgree, OrdersOfRows
  <2>2. \A j \in DOMAIN apps : (apps'[j].status = "selected") <=> (\E o \in orders : o.app = j)
    BY <1>1, <1>2, <1>3 DEF MarketInv, TablesAgree
  <2>3. \A j, k \in DOMAIN apps' :
          apps'[j].status = "withdrawn" /\ apps'[k].status = "selected" =>
            <<apps'[j].task, apps'[j].provider, apps'[j].nonce>> #
            <<apps'[k].task, apps'[k].provider, apps'[k].nonce>>
    BY <1>6 DEF SignedOnce
  <2>4. \A t \in Tasks : (tasks[t].state = "selected") <=> (\E o \in orders : o.task = t)
    BY DEF MarketInv, TablesAgree
  <2> QED BY <1>2, <1>3, <2>1, <2>2, <2>3, <2>4 DEF TablesAgree
<1>9. ASSUME NEW q \in Requests PROVE RequestKnows(q)'
  BY <1>2, <1>3, <1>5, <1>9, KnowsKept DEF MarketInv
<1> QED BY <1>4, <1>6, <1>7, <1>8, <1>9 DEF MarketInv

LEMMA ApplyInsertsStep ==
  ASSUME MarketInv, NEW q \in Requests, ApplyInserts(q)
  PROVE MarketInv'
<1> DEFINE r == requests[q]
           new == [task |-> r.task, provider |-> r.user, nonce |-> r.nonce,
                   until |-> r.until, status |-> "active"]
           n == Len(apps) + 1
<1>1. /\ r.step = "signed" /\ ~ Taken(r) /\ Len(apps) < MaxApps
      /\ apps' = Append(apps, new) /\ requests' = [requests EXCEPT ![q].step = "done"]
      /\ UNCHANGED <<now, tasks, orders>>
  BY DEF ApplyInserts
<1>2. r.user \in Users /\ r.task \in Tasks /\ r.nonce \in Nonces /\ r.until \in Times
  BY <1>1 DEF MarketInv, RequestKnows, TypeOK, RequestRecords
<1>3. /\ new \in AppRecords /\ new.status = "active" /\ new.task = r.task
      /\ new.provider = r.user /\ new.nonce = r.nonce
  BY <1>2 DEF AppRecords
<1>4. /\ Len(apps) \in Nat /\ DOMAIN apps = 1 .. Len(apps) /\ DOMAIN apps' = 1 .. n
      /\ apps' \in Seq(AppRecords) /\ Len(apps') = n /\ apps'[n] = new
      /\ \A i \in DOMAIN apps : apps'[i] = apps[i]
  <2> HIDE DEF new
  <2> QED BY <1>1, <1>3 DEF MarketInv, TypeOK
<1> HIDE DEF new
<1>5. TypeOK'
  <2>1. n <= MaxApps
    BY <1>1, <1>4, MarketAssumption
  <2>2. requests' \in [Requests -> RequestRecords]
    BY <1>1, StepOfRequest DEF Steps
  <2> QED BY <1>1, <1>4, <2>1, <2>2 DEF MarketInv, TypeOK
<1>6. SignedOnce'
  <2>1. \A i \in DOMAIN apps : <<apps[i].task, apps[i].provider, apps[i].nonce>> #
                                <<new.task, new.provider, new.nonce>>
    BY <1>1, <1>3 DEF Taken
  <2>2. \A i \in DOMAIN apps' : i = n \/ i \in DOMAIN apps
    BY <1>4
  <2> HIDE DEF n
  <2> QED BY <1>4, <2>1, <2>2 DEF MarketInv, SignedOnce
<1>7. OrdersOfRows'
  BY <1>1, <1>4 DEF MarketInv, OrdersOfRows
<1>8. TablesAgree'
  <2>1. \A o \in orders : /\ tasks[o.task].chosen = o.app /\ tasks[o.task].buyer = o.buyer
                          /\ apps'[o.app].task = o.task /\ apps'[o.app].provider = o.provider
    BY <1>4 DEF MarketInv, TablesAgree, OrdersOfRows
  <2>2. \A j \in DOMAIN apps' : (apps'[j].status = "selected") <=> (\E o \in orders : o.app = j)
    <3>1. n \notin DOMAIN apps
      BY <1>4
    <3>2. \A j \in DOMAIN apps' : j = n \/ j \in DOMAIN apps
      BY <1>4
    <3> HIDE DEF n
    <3> QED BY <1>3, <1>4, <3>1, <3>2 DEF MarketInv, TablesAgree, OrdersOfRows
  <2>3. \A j, k \in DOMAIN apps' :
          apps'[j].status = "withdrawn" /\ apps'[k].status = "selected" =>
            <<apps'[j].task, apps'[j].provider, apps'[j].nonce>> #
            <<apps'[k].task, apps'[k].provider, apps'[k].nonce>>
    BY <1>6 DEF SignedOnce
  <2>4. \A t \in Tasks : (tasks[t].state = "selected") <=> (\E o \in orders : o.task = t)
    BY DEF MarketInv, TablesAgree
  <2> QED BY <1>1, <2>1, <2>2, <2>3, <2>4 DEF TablesAgree
<1>9. ASSUME NEW p \in Requests PROVE RequestKnows(p)'
  <2>1. CASE p = q
    BY <1>1, <2>1, StepOfRequest DEF RequestKnows, Steps
  <2>2. CASE p # q
    <3>1. requests'[p] = requests[p]
      BY <1>1, <2>2, StepOfRequest DEF Steps
    <3>2. DOMAIN apps \subseteq DOMAIN apps'
      BY <1>4
    <3> QED BY <1>4, <3>1, <3>2, KnowsKept DEF MarketInv
  <2> QED BY <2>1, <2>2
<1> QED BY <1>5, <1>6, <1>7, <1>8, <1>9 DEF MarketInv

\* What the one transaction of a selection leaves in the three tables.
LEMMA ChooseFacts ==
  ASSUME MarketInv, NEW q \in Requests, SelectCommits(q)
  PROVE LET r == requests[q] IN
        /\ r.user \in Users /\ r.app \in DOMAIN apps /\ r.task = apps[r.app].task /\ r.task \in Tasks
        /\ apps[r.app].status = "active"
        /\ apps' \in Seq(AppRecords) /\ Len(apps') = Len(apps) /\ DOMAIN apps' = DOMAIN apps
        /\ \A i \in DOMAIN apps : /\ apps'[i].task = apps[i].task
                                  /\ apps'[i].provider = apps[i].provider
                                  /\ apps'[i].nonce = apps[i].nonce
                                  /\ (apps'[i].status = "selected") <=>
                                        (i = r.app \/ apps[i].status = "selected")
        /\ tasks' \in [Tasks -> TaskRecords]
        /\ tasks'[r.task].state = "selected" /\ tasks'[r.task].chosen = r.app
        /\ tasks'[r.task].buyer = r.user
        /\ \A t \in Tasks : t # r.task => tasks'[t] = tasks[t]
<1> DEFINE r == requests[q]
           row(i) == IF i = r.app THEN [apps[i] EXCEPT !.status = "selected"]
                     ELSE IF apps[i].task = r.task /\ apps[i].status = "active"
                     THEN [apps[i] EXCEPT !.status = "invalid"]
                     ELSE apps[i]
           task == [tasks[r.task] EXCEPT !.state = "selected", !.chosen = r.app]
<1>1. /\ r.step = "selecting" /\ tasks[r.task].state = "open" /\ tasks[r.task].buyer = r.user
      /\ apps[r.app].status = "active" /\ Choose(r)
  BY DEF SelectCommits
<1>2. r.user \in Users /\ r.app \in DOMAIN apps /\ r.task = apps[r.app].task
  BY <1>1 DEF MarketInv, RequestKnows
<1>3. /\ \A i \in DOMAIN apps : apps[i] \in AppRecords
      /\ r.task \in Tasks /\ r.app \in AppIds
  BY <1>2, RowsInRange DEF MarketInv, AppRecords
<1>4. \A i \in DOMAIN apps : /\ row(i) \in AppRecords /\ row(i).task = apps[i].task
                             /\ row(i).provider = apps[i].provider /\ row(i).nonce = apps[i].nonce
                             /\ (row(i).status = "selected") <=> (i = r.app \/ apps[i].status = "selected")
  BY <1>3, AppUpdates
<1>5. task \in TaskRecords
  BY <1>3, TaskUpdates DEF MarketInv, TypeOK
<1>6. task.state = "selected" /\ task.chosen = r.app /\ task.buyer = r.user
  BY <1>1, <1>3 DEF MarketInv, TypeOK, TaskRecords
<1>7. apps' = [i \in DOMAIN apps |-> row(i)]
  BY <1>1 DEF Choose
<1>8. tasks' = [tasks EXCEPT ![r.task] = task]
  BY <1>1, <1>3 DEF Choose, MarketInv, TypeOK, TaskRecords
<1> HIDE DEF row, task
<1>9. /\ apps' \in Seq(AppRecords) /\ Len(apps') = Len(apps) /\ DOMAIN apps' = DOMAIN apps
      /\ \A i \in DOMAIN apps : apps'[i] = row(i)
  <2>1. apps \in Seq(AppRecords)
    BY DEF MarketInv, TypeOK
  <2>2. Len(apps) \in Nat /\ DOMAIN apps = 1 .. Len(apps)
    BY <2>1
  <2>3. /\ apps' = [i \in 1 .. Len(apps) |-> row(i)]
        /\ \A i \in 1 .. Len(apps) : row(i) \in AppRecords
    <3>1. \A i \in DOMAIN apps : row(i) \in AppRecords
      BY <1>4
    <3> QED BY <1>7, <2>2, <3>1
  <2>4. apps' \in [1 .. Len(apps) -> AppRecords]
    BY <2>3
  <2>5. apps' \in Seq(AppRecords) /\ Len(apps') = Len(apps)
    BY <2>2, <2>4
  <2> QED BY <2>2, <2>3, <2>5
<1>10. /\ tasks' \in [Tasks -> TaskRecords] /\ tasks'[r.task] = task
       /\ \A t \in Tasks : t # r.task => tasks'[t] = tasks[t]
  BY <1>3, <1>5, <1>8 DEF MarketInv, TypeOK
<1> QED BY <1>1, <1>2, <1>3, <1>4, <1>6, <1>9, <1>10

LEMMA SelectCommitsStep ==
  ASSUME MarketInv, NEW q \in Requests, SelectCommits(q)
  PROVE MarketInv'
<1> DEFINE r == requests[q]
           new == [task |-> r.task, app |-> r.app, buyer |-> r.user,
                   provider |-> apps[r.app].provider, at |-> now]
<1>1. /\ r.user \in Users /\ r.app \in DOMAIN apps /\ r.task = apps[r.app].task /\ r.task \in Tasks
      /\ apps[r.app].status = "active"
  BY ChooseFacts
<1>12. /\ apps' \in Seq(AppRecords) /\ Len(apps') = Len(apps) /\ DOMAIN apps' = DOMAIN apps
       /\ tasks' \in [Tasks -> TaskRecords]
  BY ChooseFacts
<1>13. /\ DOMAIN apps' = DOMAIN apps
       /\ \A i \in DOMAIN apps : /\ apps'[i].task = apps[i].task
                                 /\ apps'[i].provider = apps[i].provider
                                 /\ apps'[i].nonce = apps[i].nonce
  BY ChooseFacts
<1>14. \A i \in DOMAIN apps : (apps'[i].status = "selected") <=>
                               (i = r.app \/ apps[i].status = "selected")
  BY ChooseFacts
<1>15. /\ tasks'[r.task].state = "selected" /\ tasks'[r.task].chosen = r.app
       /\ tasks'[r.task].buyer = r.user
       /\ \A t \in Tasks : t # r.task => tasks'[t] = tasks[t]
  BY ChooseFacts
<1>2. /\ tasks[r.task].state = "open" /\ orders' = orders \cup {new}
      /\ requests' = [requests EXCEPT ![q].step = "done"] /\ now' = now
  BY DEF SelectCommits, Choose
<1>3. new \in OrderRecords
  BY <1>1, RowsInRange DEF MarketInv, TypeOK, AppRecords, OrderRecords
<1>4. new.task = r.task /\ new.app = r.app /\ new.buyer = r.user /\ new.provider = apps[r.app].provider
  OBVIOUS
<1>5. requests' \in [Requests -> RequestRecords] /\ requests'[q].step = "done"
      /\ \A p \in Requests : p # q => requests'[p] = requests[p]
  BY <1>2, StepOfRequest DEF Steps
<1> HIDE DEF new, r
<1>6. TypeOK'
  BY <1>12, <1>2, <1>3, <1>5 DEF MarketInv, TypeOK
<1>7. SignedOnce'
  BY <1>13 DEF MarketInv, SignedOnce
<1>8. OrdersOfRows'
  BY <1>1, <1>2, <1>4, <1>13 DEF MarketInv, OrdersOfRows
<1>9. \A o \in orders : o.task \in Tasks /\ o.task # r.task /\ o.app # r.app
  BY <1>1, <1>2 DEF MarketInv, TypeOK, OrderRecords, TablesAgree
<1>10. TablesAgree'
  <2>1. ASSUME NEW t \in Tasks
        PROVE (tasks'[t].state = "selected") <=> (\E o \in orders' : o.task = t)
    <3>1. CASE t = r.task
      BY <1>15, <1>2, <1>4, <3>1
    <3>2. CASE t # r.task
      <4>1. tasks'[t] = tasks[t]
        BY <1>15, <3>2
      <4>2. (tasks[t].state = "selected") <=> (\E o \in orders : o.task = t)
        BY DEF MarketInv, TablesAgree
      <4>3. new.task # t
        BY <1>4, <3>2
      <4> QED BY <1>2, <4>1, <4>2, <4>3
    <3> QED BY <3>1, <3>2
  <2>2. ASSUME NEW o \in orders'
        PROVE /\ tasks'[o.task].chosen = o.app /\ tasks'[o.task].buyer = o.buyer
              /\ apps'[o.app].task = o.task /\ apps'[o.app].provider = o.provider
    <3>1. CASE o = new
      BY <1>1, <1>4, <1>13, <1>15, <3>1
    <3>2. CASE o \in orders
      BY <1>9, <1>13, <1>15, <3>2 DEF MarketInv, TablesAgree, OrdersOfRows
    <3> QED BY <1>2, <3>1, <3>2
  <2>3. ASSUME NEW i \in DOMAIN apps'
        PROVE (apps'[i].status = "selected") <=> (\E o \in orders' : o.app = i)
    <3>0. i \in DOMAIN apps
      BY <1>13
    <3>1. CASE i = r.app
      BY <1>2, <1>4, <1>14, <3>0, <3>1
    <3>2. CASE i # r.app
      <4>1. (apps'[i].status = "selected") <=> (apps[i].status = "selected")
        BY <1>14, <3>0, <3>2
      <4>2. (apps[i].status = "selected") <=> (\E o \in orders : o.app = i)
        BY <3>0 DEF MarketInv, TablesAgree
      <4>3. new.app # i
        BY <1>4, <3>2
      <4> QED BY <1>2, <4>1, <4>2, <4>3
    <3> QED BY <3>1, <3>2
  <2>4. \A i, j \in DOMAIN apps' :
          apps'[i].status = "withdrawn" /\ apps'[j].status = "selected" =>
            <<apps'[i].task, apps'[i].provider, apps'[i].nonce>> #
            <<apps'[j].task, apps'[j].provider, apps'[j].nonce>>
    BY <1>7 DEF SignedOnce
  <2> QED BY <2>1, <2>2, <2>3, <2>4 DEF TablesAgree
<1>11. ASSUME NEW p \in Requests PROVE RequestKnows(p)'
  <2>1. CASE p = q
    BY <1>5, <2>1 DEF RequestKnows
  <2>2. CASE p # q
    <3>1. DOMAIN apps' = DOMAIN apps /\ \A i \in DOMAIN apps : apps'[i].task = apps[i].task
      BY <1>13
    <3>2. requests'[p] = requests[p] /\ RequestKnows(p)
      BY <1>5, <2>2 DEF MarketInv
    <3> QED BY <3>1, <3>2, KnowsKept
  <2> QED BY <2>1, <2>2
<1> QED BY <1>6, <1>7, <1>8, <1>10, <1>11 DEF MarketInv

LEMMA MarketInvKept == MarketInv /\ [Next]_vars => MarketInv'
<1> SUFFICES ASSUME MarketInv, [Next]_vars PROVE MarketInv'
  OBVIOUS
<1>1. ASSUME NEW user \in Users, NEW t \in Tasks, NEW expiry \in Times, CreateTask(user, t, expiry)
      PROVE MarketInv'
  BY <1>1, CreateTaskStep
<1>2. ASSUME NEW user \in Users, NEW t \in Tasks, CloseTask(user, t)
      PROVE MarketInv'
  BY <1>2, CloseTaskStep
<1>3. ASSUME NEW user \in Users, NEW t \in Tasks, NEW q \in Requests, NEW nonce \in Nonces,
             NEW until \in Times, ApplyReads(q, user, t, nonce, until)
      PROVE MarketInv'
  BY <1>3, ApplyReadsStep
<1>4. ASSUME NEW user \in Users, NEW i \in DOMAIN apps, Withdraw(user, i)
      PROVE MarketInv'
  BY <1>4, WithdrawStep
<1>5. ASSUME NEW user \in Users, NEW i \in DOMAIN apps, NEW q \in Requests, SelectReads(q, user, i)
      PROVE MarketInv'
  BY <1>5, SelectReadsStep
<1>6. ASSUME NEW q \in Requests, ApplyChecks(q) PROVE MarketInv'
  BY <1>6, ApplyChecksStep
<1>7. ASSUME NEW q \in Requests, ApplyInserts(q) PROVE MarketInv'
  BY <1>7, ApplyInsertsStep
<1>8. ASSUME NEW q \in Requests, SelectCommits(q) PROVE MarketInv'
  BY <1>8, SelectCommitsStep
<1>9. ASSUME NEW q \in Requests, RequestFails(q) PROVE MarketInv'
  BY <1>9, RequestFailsStep
<1>10. CASE Tick
  BY <1>10, TickStep
<1>11. CASE UNCHANGED vars
  BY <1>11, RequestStep DEF vars, MarketInv, TypeOK
<1> QED BY <1>1, <1>2, <1>3, <1>4, <1>5, <1>6, <1>7, <1>8, <1>9, <1>10, <1>11 DEF Next

-----------------------------------------------------------------------------
(* Theorems.                                                                *)

LEMMA MarketInvAlways == Spec => []MarketInv
BY InitMarket, MarketInvKept, PTL DEF Spec

\* Every step of the market keeps the types of its tables.
THEOREM MarketTypes == Spec => []TypeOK
BY MarketInvAlways, PTL DEF MarketInv

\* The tables of tasks, applications and orders agree, for any number of users,
\* tasks and overlapping requests (mvp_store.py:360-402).
THEOREM TablesAgreeAlways == Spec => []TablesAgree
BY MarketInvAlways, PTL DEF MarketInv

\* An order is made only from an offer that stands, and a task that was selected or
\* closed is never written again (mvp.py:541-560, mvp_store.py:385-402).
THEOREM OfferStandsAlways == Spec => OfferStands
<1> DEFINE A == /\ \A o \in orders' \ orders :
                     apps[o.app].status = "active" /\ apps[o.app].until >= now
                /\ \A t \in Tasks : tasks[t].state \in {"selected", "closed"} => tasks'[t] = tasks[t]
<1>1. MarketInv /\ [Next]_vars => [A]_vars
  <2> SUFFICES ASSUME MarketInv, Next PROVE A
    OBVIOUS
  <2>1. ASSUME NEW user \in Users, NEW t \in Tasks, NEW expiry \in Times, CreateTask(user, t, expiry)
        PROVE A
    BY <2>1 DEF CreateTask, MarketInv, TypeOK
  <2>2. ASSUME NEW user \in Users, NEW t \in Tasks, CloseTask(user, t)
        PROVE A
    BY <2>2 DEF CloseTask, MarketInv, TypeOK
  <2>3. ASSUME NEW q \in Requests, SelectCommits(q)
        PROVE A
    <3>1. \A o \in orders' \ orders : o.app = requests[q].app
      BY <2>3 DEF SelectCommits, Choose
    <3>2. apps[requests[q].app].status = "active" /\ apps[requests[q].app].until >= now
          /\ tasks[requests[q].task].state = "open"
      BY <2>3 DEF SelectCommits
    <3>3. \A t \in Tasks : t # requests[q].task => tasks'[t] = tasks[t]
      BY <2>3, ChooseFacts
    <3> QED BY <3>1, <3>2, <3>3
  <2>4. CASE UNCHANGED <<tasks, orders>>
    BY <2>4
  <2> QED BY <2>1, <2>2, <2>3, <2>4
      DEF Next, ApplyReads, Withdraw, SelectReads, ApplyChecks, ApplyInserts, RequestFails, Tick
<1> QED BY <1>1, MarketInvAlways, PTL DEF Spec, OfferStands, A
=============================================================================
