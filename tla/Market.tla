------------------------------- MODULE Market -------------------------------
(***************************************************************************)
(* Tasks, applications and the selection that turns one application into an *)
(* order: the handlers of backend/marketplace/mvp.py over the SQLite tables *)
(* of mvp_store.py.  Each store operation is one transaction; a handler     *)
(* reads the tables, awaits the chain, and writes, so other requests run    *)
(* between its steps.  Terms that are copied and never change (amount,      *)
(* evaluator, texts, hashes) are left out; agent identity checks            *)
(* (verified_provider) may fail at any time and change nothing.             *)
(***************************************************************************)
EXTENDS Naturals, Sequences, FiniteSets

CONSTANTS
  Users, Tasks, Nonces,
  Requests,           \* handler invocations that await something
  Nothing,
  Window,             \* 3600 s: how far ahead an application may be valid
  Margin,             \* 1800 s: what must remain before the deadline
  MaxTime, MaxApps    \* bounds of the model

ASSUME MarketAssumption ==
  /\ Nothing \notin Users \cup Tasks \cup Nonces
  /\ Window \in Nat /\ Margin \in Nat /\ MaxTime \in Nat /\ MaxApps \in Nat

VARIABLES
  now,
  tasks,        \* table tasks; state "none" before the row is inserted
  apps,         \* table applications, in the order of insertion
  orders,       \* table orders
  requests      \* what each handler invocation is doing

vars == <<now, tasks, apps, orders, requests>>

Times == 0 .. MaxTime
AppIds == 1 .. MaxApps
NoApp == 0

Init ==
  /\ now = 0
  /\ tasks = [t \in Tasks |-> [state |-> "none", buyer |-> Nothing, expiry |-> 0,
                               chosen |-> NoApp]]
  /\ apps = <<>>
  /\ orders = {}
  /\ requests = [q \in Requests |-> [step |-> "idle", user |-> Nothing, task |-> Nothing,
                                     nonce |-> Nothing, until |-> 0, app |-> NoApp]]

-----------------------------------------------------------------------------
(* Handlers without an await between their reads and their writes.          *)

\* The deadline is checked before the manifest is hashed and pinned, so a row
\* may be inserted with less time left than the check allows.
CreateTask(user, t, expiry) ==
  /\ tasks[t].state = "none"
  /\ expiry >= now
  /\ tasks' = [tasks EXCEPT ![t].state = "open", ![t].buyer = user, ![t].expiry = expiry]
  /\ UNCHANGED <<now, apps, orders, requests>>

CloseTask(user, t) ==
  /\ tasks[t].state = "open"
  /\ tasks[t].buyer = user
  /\ tasks' = [tasks EXCEPT ![t].state = "closed"]
  /\ UNCHANGED <<now, apps, orders, requests>>

Withdraw(user, i) ==
  /\ apps[i].status = "active"
  /\ apps[i].provider = user
  /\ apps' = [apps EXCEPT ![i].status = "withdrawn"]
  /\ UNCHANGED <<now, tasks, orders, requests>>

-----------------------------------------------------------------------------
(* apply: the task is read, the identity is awaited, the validity window is *)
(* checked, the signature is awaited, the row is inserted.                  *)

ApplyReads(q, user, t, nonce, until) ==
  /\ requests[q].step = "idle"
  /\ tasks[t].state = "open"
  /\ requests' = [requests EXCEPT ![q] = [@ EXCEPT !.step = "applying", !.user = user,
                                            !.task = t, !.nonce = nonce, !.until = until]]
  /\ UNCHANGED <<now, tasks, apps, orders>>

ApplyChecks(q) ==
  LET r == requests[q] IN
  /\ r.step = "applying"
  /\ r.until > now
  /\ r.until <= now + Window
  /\ r.until <= tasks[r.task].expiry
  /\ requests' = [requests EXCEPT ![q].step = "signed"]
  /\ UNCHANGED <<now, tasks, apps, orders>>

\* UNIQUE(task_uid, provider, application_nonce), whatever became of the row.
Taken_Active(r) ==
  \E i \in DOMAIN apps : /\ apps[i].task = r.task
                         /\ apps[i].provider = r.user
                         /\ apps[i].nonce = r.nonce
                         /\ apps[i].status = "active"

Taken(r) ==
  \E i \in DOMAIN apps : /\ apps[i].task = r.task
                         /\ apps[i].provider = r.user
                         /\ apps[i].nonce = r.nonce

ApplyInserts_Unread(q) ==
  LET r == requests[q] IN
  /\ r.step \in {"idle", "signed"}
  /\ ~ Taken(r)
  /\ Len(apps) < MaxApps
  /\ apps' = Append(apps, [task |-> r.task, provider |-> r.user, nonce |-> r.nonce,
                           until |-> r.until, status |-> "active"])
  /\ requests' = [requests EXCEPT ![q].step = "done"]
  /\ UNCHANGED <<now, tasks, orders>>

ApplyInserts(q) ==
  LET r == requests[q] IN
  /\ r.step = "signed"
  /\ ~ Taken(r)
  /\ Len(apps) < MaxApps
  /\ apps' = Append(apps, [task |-> r.task, provider |-> r.user, nonce |-> r.nonce,
                           until |-> r.until, status |-> "active"])
  /\ requests' = [requests EXCEPT ![q].step = "done"]
  /\ UNCHANGED <<now, tasks, orders>>

-----------------------------------------------------------------------------
(* select: task and application are read, the identity is awaited, then one *)
(* transaction checks both again and writes the three tables.               *)

SelectReads(q, user, i) ==
  /\ requests[q].step = "idle"
  /\ requests' = [requests EXCEPT ![q] = [@ EXCEPT !.step = "selecting", !.user = user,
                                            !.task = apps[i].task, !.app = i]]
  /\ UNCHANGED <<now, tasks, apps, orders>>

Choose(r) ==
  /\ apps' = [i \in DOMAIN apps |->
                IF i = r.app THEN [apps[i] EXCEPT !.status = "selected"]
                ELSE IF apps[i].task = r.task /\ apps[i].status = "active"
                THEN [apps[i] EXCEPT !.status = "invalid"]
                ELSE apps[i]]
  /\ tasks' = [tasks EXCEPT ![r.task].state = "selected", ![r.task].chosen = r.app]
  /\ orders' = orders \cup {[task |-> r.task, app |-> r.app, buyer |-> r.user,
                             provider |-> apps[r.app].provider, at |-> now]}

SelectCommits_AppAsRead(q) ==
  LET r == requests[q] IN
  /\ r.step = "selecting"
  /\ tasks[r.task].expiry > now + Margin
  /\ tasks[r.task].buyer = r.user
  /\ tasks[r.task].state = "open"
  /\ Choose(r)
  /\ requests' = [requests EXCEPT ![q].step = "done"]
  /\ UNCHANGED now

SelectCommits(q) ==
  LET r == requests[q] IN
  /\ r.step = "selecting"
  /\ tasks[r.task].expiry > now + Margin
  /\ tasks[r.task].buyer = r.user
  /\ tasks[r.task].state = "open"
  /\ apps[r.app].status = "active"
  /\ apps[r.app].until >= now
  /\ Choose(r)
  /\ requests' = [requests EXCEPT ![q].step = "done"]
  /\ UNCHANGED now

\* An await fails, or a check refuses: nothing is written.
RequestFails(q) ==
  /\ requests[q].step \in {"applying", "signed", "selecting"}
  /\ requests' = [requests EXCEPT ![q].step = "done"]
  /\ UNCHANGED <<now, tasks, apps, orders>>

Tick ==
  /\ now < MaxTime
  /\ now' = now + 1
  /\ UNCHANGED <<tasks, apps, orders, requests>>

Next ==
  \/ \E user \in Users, t \in Tasks :
       \/ \E expiry \in Times : CreateTask(user, t, expiry)
       \/ CloseTask(user, t)
       \/ \E q \in Requests, nonce \in Nonces, until \in Times :
            ApplyReads(q, user, t, nonce, until)
  \/ \E user \in Users, i \in DOMAIN apps :
       \/ Withdraw(user, i)
       \/ \E q \in Requests : SelectReads(q, user, i)
  \/ \E q \in Requests :
       ApplyChecks(q) \/ ApplyInserts(q) \/ SelectCommits(q) \/ RequestFails(q)
  \/ Tick

Spec == Init /\ [][Next]_vars

-----------------------------------------------------------------------------
(* Properties.                                                              *)

AppRecords ==
  [task : Tasks, provider : Users, nonce : Nonces, until : Times,
   status : {"active", "withdrawn", "selected", "invalid"}]

TaskRecords ==
  [state : {"none", "open", "selected", "closed"}, buyer : Users \cup {Nothing},
   expiry : Times, chosen : AppIds \cup {NoApp}]
OrderRecords == [task : Tasks, app : AppIds, buyer : Users, provider : Users, at : Times]
RequestRecords ==
  [step : {"idle", "applying", "signed", "selecting", "done"}, user : Users \cup {Nothing},
   task : Tasks \cup {Nothing}, nonce : Nonces \cup {Nothing}, until : Times,
   app : AppIds \cup {NoApp}]

\* Every variable keeps its type.
TypeOK ==
  /\ now \in Times
  /\ tasks \in [Tasks -> TaskRecords]
  /\ apps \in Seq(AppRecords) /\ Len(apps) <= MaxApps
  /\ orders \subseteq OrderRecords
  /\ requests \in [Requests -> RequestRecords]

\* The three tables agree: a task is selected exactly when it has an order, of
\* its own buyer and the provider who applied; it has one order, for the one
\* application that is marked selected, and that is not an application its
\* provider took back and signed only once: a withdrawn one cannot be presented
\* again (mvp_store.py:142, 390).
TablesAgree ==
  /\ \A t \in Tasks : (tasks[t].state = "selected") <=> (\E o \in orders : o.task = t)
  /\ \A o \in orders : /\ tasks[o.task].chosen = o.app
                       /\ tasks[o.task].buyer = o.buyer
                       /\ apps[o.app].task = o.task
                       /\ apps[o.app].provider = o.provider
  /\ \A i \in DOMAIN apps :
       (apps[i].status = "selected") <=> (\E o \in orders : o.app = i)
  /\ \A i, j \in DOMAIN apps :
       apps[i].status = "withdrawn" /\ apps[j].status = "selected" =>
         <<apps[i].task, apps[i].provider, apps[i].nonce>> #
         <<apps[j].task, apps[j].provider, apps[j].nonce>>

\* An order is made only while the provider's offer stands, not taken back and
\* with a signature that has not expired, and a task leaves the open state once:
\* what was closed is never sold, what was sold never closed or sold again
\* (mvp.py:559, mvp_store.py:390).
OfferStands ==
  [][/\ \A o \in orders' \ orders :
          apps[o.app].status = "active" /\ apps[o.app].until >= now
     /\ \A t \in Tasks : tasks[t].state \in {"selected", "closed"} => tasks'[t] = tasks[t]]_vars

\* test_mvp_store.py:76: once a task is selected its other applications are
\* withdrawn or invalid.
OthersInvalid ==
  \A i \in DOMAIN apps :
    tasks[apps[i].task].state = "selected" => apps[i].status # "active"
=============================================================================
