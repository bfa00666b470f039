---------------------------- MODULE ServiceProofs ----------------------------
(***************************************************************************)
(* What TLAPS proves of the services, of the pages and of the readers of    *)
(* the chain that stand side by side in MCComponents, for every value of    *)
(* their constants.  A component keeps its variables to itself, so each is  *)
(* proved about on its own: a step of the whole is one of its steps or      *)
(* leaves its variables alone.  The last theorem is about the types of all  *)
(* components, the operators' included.                                     *)
(***************************************************************************)
EXTENDS OperatorProofs

-----------------------------------------------------------------------------
(* The analysis service.                                                    *)

AnalysisRecords ==
  [at : {"idle", "sent", "sending", "waiting", "gone", "explained", "unexplained"},
   failed : SUBSET Checks, cited : SUBSET Checks]

\* The inductive invariant: the slot is taken exactly while one process runs.
AnalysisInv ==
  /\ client \in [Clients -> AnalysisRecords]
  /\ active \in BOOLEAN /\ running \subseteq Clients
  /\ active <=> running # {}
  /\ \A c, d \in running : c = d
  /\ Analysis!Grounded

LEMMA AnalysisInit == Analysis!Init => AnalysisInv
<1> SUFFICES ASSUME Analysis!Init PROVE AnalysisInv
  OBVIOUS
<1>1. Analysis!Idle \in AnalysisRecords /\ Analysis!Idle.at = "idle"
  BY DEF Analysis!Idle, AnalysisRecords
<1> QED BY <1>1 DEF Analysis!Init, AnalysisInv, Analysis!Grounded

\* A client moves on without an explanation.
LEMMA AnalysisMoves ==
  ASSUME AnalysisInv, NEW c \in Clients, NEW r \in AnalysisRecords, Analysis!Becomes(c, r),
         r.at = "explained" => r.failed \subseteq r.cited
  PROVE client' \in [Clients -> AnalysisRecords] /\ Analysis!Grounded'
  BY DEF AnalysisInv, Analysis!Becomes, Analysis!Grounded

LEMMA AnalysisStep == AnalysisInv /\ [Analysis!Next]_analysisVars => AnalysisInv'
<1> SUFFICES ASSUME AnalysisInv, [Analysis!Next]_analysisVars PROVE AnalysisInv'
  OBVIOUS
<1> DEFINE Sound == client' \in [Clients -> AnalysisRecords] /\ Analysis!Grounded'
           Slot == /\ active' \in BOOLEAN /\ running' \subseteq Clients
                   /\ active' <=> running' # {}
                   /\ \A c, d \in running' : c = d
<1>1. Sound /\ Slot => AnalysisInv'
  BY DEF AnalysisInv
<1>2. /\ UNCHANGED client => Sound
      /\ UNCHANGED <<active, running>> => Slot
  BY DEF AnalysisInv, Analysis!Grounded
<1>3. ASSUME NEW c \in Clients PROVE Analysis!Unavailable(c) => Sound
  <2>1. Analysis!Idle \in AnalysisRecords /\ Analysis!Idle.at = "idle"
    BY DEF Analysis!Idle, AnalysisRecords
  <2> QED BY <2>1, AnalysisMoves DEF Analysis!Unavailable
<1>4. ASSUME NEW c \in Clients, NEW at \in {"sending", "waiting", "gone"}
      PROVE Analysis!Moves(c, at) => Sound
  <2>1. PICK r \in AnalysisRecords : r = [client[c] EXCEPT !.at = at]
    BY DEF AnalysisInv, AnalysisRecords
  <2>2. r.at = at
    BY <2>1 DEF AnalysisInv, AnalysisRecords
  <2> QED BY <2>1, <2>2, AnalysisMoves DEF Analysis!Moves
<1>5. ASSUME NEW c \in Clients, NEW failed \in SUBSET Checks, NEW required \in BOOLEAN,
             Analysis!ExplainReport(c, failed, required)
      PROVE  AnalysisInv'
  <2>1. PICK r : r = IF Enabled THEN [Analysis!Idle EXCEPT !.at = "sent", !.failed = failed]
                     ELSE [Analysis!Idle EXCEPT !.at = IF required THEN "idle" ELSE "unexplained"]
    OBVIOUS
  <2>2. r \in AnalysisRecords /\ r.at # "explained"
    BY <2>1 DEF Analysis!Idle, AnalysisRecords
  <2>3. Analysis!Becomes(c, r) /\ UNCHANGED <<active, running>>
    BY <1>5, <2>1 DEF Analysis!ExplainReport
  <2> QED BY <1>1, <1>2, <2>2, <2>3, AnalysisMoves
<1>6. ASSUME NEW c \in Clients, Analysis!Arrives(c) PROVE AnalysisInv'
  BY <1>1, <1>2, <1>3, <1>4, <1>6 DEF Analysis!Arrives
<1>7. ASSUME NEW c \in Clients, Analysis!BodyReceived(c) PROVE AnalysisInv'
  <2>1. CASE active
    BY <1>1, <1>2, <1>3, <1>7, <2>1 DEF Analysis!BodyReceived
  <2>2. CASE ~ active
    <3>1. running = {} /\ active' = TRUE /\ running' = {c}
      BY <1>7, <2>2 DEF Analysis!BodyReceived, AnalysisInv
    <3>2. Sound
      BY <1>4, <1>7, <2>2 DEF Analysis!BodyReceived
    <3> QED BY <1>1, <3>1, <3>2
  <2> QED BY <2>1, <2>2
<1>8. ASSUME NEW c \in running, running' = running \ {c}, active' = FALSE PROVE Slot
  BY <1>8 DEF AnalysisInv
<1>9. ASSUME NEW c \in Clients, Analysis!Inferred(c) PROVE AnalysisInv'
  <2>1. Slot
    BY <1>8, <1>9 DEF Analysis!Inferred
  <2>2. ASSUME NEW cited \in SUBSET Checks, Analysis!ValidateAnalysis(client[c].failed, cited),
               Analysis!Becomes(c, [client[c] EXCEPT !.at = "explained", !.cited = cited])
        PROVE  Sound
    <3>1. PICK r \in AnalysisRecords : r = [client[c] EXCEPT !.at = "explained", !.cited = cited]
      BY DEF AnalysisInv, AnalysisRecords
    <3>2. r.failed = client[c].failed /\ r.cited = cited
      BY <3>1 DEF AnalysisInv, AnalysisRecords
    <3> QED BY <2>2, <3>1, <3>2, AnalysisMoves DEF Analysis!ValidateAnalysis
  <2>3. Sound
    BY <1>2, <1>3, <1>9, <2>2 DEF Analysis!Inferred
  <2> QED BY <1>1, <2>1, <2>3
<1>10. ASSUME NEW c \in Clients, Analysis!InferenceFails(c) PROVE AnalysisInv'
  <2>1. Slot
    BY <1>8, <1>10 DEF Analysis!InferenceFails
  <2>2. Sound
    BY <1>2, <1>3, <1>10 DEF Analysis!InferenceFails
  <2> QED BY <1>1, <2>1, <2>2
<1>11. ASSUME NEW c \in Clients, Analysis!ClientGivesUp(c) \/ Analysis!Forgotten(c)
       PROVE  AnalysisInv'
  BY <1>1, <1>2, <1>3, <1>4, <1>11 DEF Analysis!ClientGivesUp, Analysis!Forgotten
<1>12. CASE UNCHANGED analysisVars
  BY <1>1, <1>2, <1>12 DEF analysisVars
<1> QED
  BY <1>5, <1>6, <1>7, <1>9, <1>10, <1>11, <1>12 DEF Analysis!Next

LEMMA AnalysisCardinality == \A S : Analysis!Cardinality(S) = Cardinality(S)
  BY DEF Cardinality, Analysis!Cardinality

\* deploy/analysis/server.mjs:61-71, analysis-contract.mjs:25-42: for any number of
\* requests, however their bodies, answers and failures interleave, at most one
\* model process runs and holds the slot, and what is published cites every failed
\* check of its report.
THEOREM AnalysisSoundAlways == Spec => []AnalysisSound
<1>1. Init => AnalysisInv
  BY AnalysisInit DEF Init
<1>2. AnalysisInv /\ [Next]_vars => AnalysisInv'
  BY AnalysisStep DEF Next, vars
<1>3. AnalysisInv => AnalysisSound
  <2> SUFFICES ASSUME AnalysisInv PROVE Analysis!OneInference /\ Analysis!Grounded
    BY DEF AnalysisSound
  <2>1. running = {} \/ \E c \in running : running = {c}
    BY DEF AnalysisInv
  <2>2. Cardinality(running) <= 1
    BY <2>1, FS_EmptySet, FS_Singleton
  <2> QED BY <2>2, AnalysisCardinality DEF AnalysisInv, Analysis!OneInference
<1> QED BY <1>1, <1>2, <1>3, PTL DEF Spec

LEMMA AnalysisTypesInit == Analysis!Init => Analysis!TypeOK
<1> SUFFICES ASSUME Analysis!Init PROVE Analysis!TypeOK
  OBVIOUS
<1>1. AnalysisInv
  BY AnalysisInit
<1>2. \A c \in Clients : client[c].at = "idle"
  BY DEF Analysis!Init, Analysis!Idle
<1> QED BY <1>1, <1>2 DEF AnalysisInv, AnalysisRecords, Analysis!TypeOK

\* Without a service no request leaves the two places where it waits for nothing.
LEMMA AnalysisTypesStep ==
  ASSUME AnalysisInv, AnalysisInv', Analysis!TypeOK, UNCHANGED analysisVars \/ Analysis!Next
  PROVE Analysis!TypeOK'
<1>1. /\ active' \in BOOLEAN /\ running' \subseteq Clients
      /\ \A c \in Clients : client'[c].failed \subseteq Checks /\ client'[c].cited \subseteq Checks
  BY DEF AnalysisInv, AnalysisRecords
<1>2. ASSUME ~Enabled, NEW d \in Clients PROVE client'[d].at \in {"idle", "unexplained"}
  <2>1. \A c \in Clients : client[c].at \in {"idle", "unexplained"}
    BY <1>2 DEF Analysis!TypeOK
  <2>2. client \in [Clients -> AnalysisRecords]
    BY DEF AnalysisInv
  <2>3. ASSUME NEW c \in Clients, NEW failed \in SUBSET Checks, NEW required \in BOOLEAN,
               Analysis!ExplainReport(c, failed, required)
        PROVE  client'[d].at \in {"idle", "unexplained"}
    BY <1>2, <2>1, <2>2, <2>3 DEF Analysis!ExplainReport, Analysis!Becomes, Analysis!Idle
  <2>4. ASSUME NEW c \in Clients,
               \/ Analysis!Arrives(c) \/ Analysis!BodyReceived(c) \/ Analysis!Inferred(c)
               \/ Analysis!InferenceFails(c) \/ Analysis!ClientGivesUp(c) \/ Analysis!Forgotten(c)
        PROVE  client' = client
    BY <2>1, <2>4 DEF Analysis!Arrives, Analysis!BodyReceived, Analysis!Inferred,
      Analysis!InferenceFails, Analysis!ClientGivesUp, Analysis!Forgotten
  <2>5. CASE UNCHANGED analysisVars
    BY <2>1, <2>5 DEF analysisVars
  <2> QED BY <2>1, <2>3, <2>4, <2>5 DEF Analysis!Next
<1> QED BY <1>1, <1>2 DEF Analysis!TypeOK

-----------------------------------------------------------------------------
(* The market page.                                                         *)

Refreshes ==
  [at : {"no", "sync", "read", "balance"}, forced : BOOLEAN, read : Nat, before : Nat]

PageTypes ==
  /\ pageServer \in Nat /\ loaded \in Nat /\ painted \in Nat /\ acted \in 0..pageServer
  /\ poll \in BOOLEAN /\ timers = IF poll THEN 1 ELSE 0
  /\ dataReady \in BOOLEAN /\ refreshPending \in Refreshes
  /\ action \in {"none", "working", "waiting", "refreshing"}

\* Until the first load is painted nothing else begins, and its visit paints once.
BeforePainted ==
  /\ dataReady => initialLoad = "read" /\ epoch \notin visits
  /\ ~dataReady => ~poll /\ action = "none" /\ note = "none" /\ refreshPending = Page!NoRefresh

\* A forced refresh is the action's own, and it reads what the action has made.
ForcedIsTheActions ==
  /\ refreshPending.forced <=> action = "refreshing"
  /\ refreshPending.forced /\ refreshPending.at = "read" => refreshPending.read >= acted
  /\ refreshPending.forced /\ refreshPending.at = "balance" => loaded >= acted

\* A refresh knows what the page holds until it replaces it.
BeforeIsLoaded == refreshPending.at \in {"sync", "read"} => refreshPending.before = loaded

PageInv == /\ PageTypes /\ BeforePainted /\ ForcedIsTheActions /\ BeforeIsLoaded
           /\ Page!FreshAfterAction /\ Page!PaintedIsLoaded

LEMMA PageInit == Page!Init => PageInv
<1> SUFFICES ASSUME Page!Init PROVE PageInv
  OBVIOUS
<1>1. Page!NoRefresh \in Refreshes /\ ~Page!NoRefresh.forced
  BY DEF Refreshes, Page!NoRefresh
<1>2. PageTypes
  <2>1. poll \in BOOLEAN /\ dataReady \in BOOLEAN /\ timers = IF poll THEN 1 ELSE 0
    BY DEF Page!Init
  <2>2. /\ pageServer \in Nat /\ loaded \in Nat /\ painted \in Nat /\ acted \in 0..pageServer
        /\ refreshPending = Page!NoRefresh /\ action = "none"
    BY DEF Page!Init
  <2> QED BY <1>1, <2>1, <2>2 DEF PageTypes
<1>3. BeforePainted /\ ForcedIsTheActions /\ BeforeIsLoaded
  BY <1>1 DEF Page!Init, BeforePainted, ForcedIsTheActions, BeforeIsLoaded, Page!NoRefresh
<1>4. Page!FreshAfterAction /\ Page!PaintedIsLoaded
  BY DEF Page!Init, Page!FreshAfterAction, Page!PaintedIsLoaded
<1> QED BY <1>2, <1>3, <1>4 DEF PageInv

\* How a refresh that ends leaves the page: painted from what it holds, or untouched.
LEMMA PageEnded ==
  ASSUME PageInv, NEW ok \in BOOLEAN, Page!Ended(ok), refreshPending # Page!NoRefresh,
         UNCHANGED <<pageServer, editing, arriving, epoch, visits, initialLoad, dataReady, poll, timers,
                     acted, loaded>>,
         \/ /\ ok /\ refreshPending.at = "balance"
            /\ painted' = IF Page!Paints THEN loaded ELSE painted
         \/ ~ok /\ refreshPending.at \in {"sync", "read"} /\ UNCHANGED painted
  PROVE PageInv'
<1> USE DEF PageInv, PageTypes
<1> DEFINE start == [at |-> "sync", forced |-> TRUE, read |-> 0, before |-> loaded]
<1>1. start \in Refreshes /\ Page!NoRefresh \in Refreshes
  BY DEF Refreshes, Page!NoRefresh
<1>2. dataReady
  BY DEF BeforePainted
<1>3. BeforePainted'
  BY <1>2 DEF BeforePainted
<1>4. loaded' \in Nat /\ painted' \in Nat
  BY DEF Refreshes
<1>5. Page!PaintedIsLoaded'
  <2>1. dataReady /\ ~editing /\ ~arriving => painted' = loaded
    BY DEF Page!PaintedIsLoaded, Page!Paints
  <2> QED BY <2>1 DEF Page!PaintedIsLoaded
<1>6. CASE action = "waiting" /\ ok
  <2>1. refreshPending' = start /\ action' = "refreshing"
    BY <1>6 DEF Page!Ended, Page!Starts
  <2>2. ForcedIsTheActions' /\ BeforeIsLoaded' /\ Page!FreshAfterAction'
    BY <2>1 DEF ForcedIsTheActions, BeforeIsLoaded, Page!FreshAfterAction, Page!busy
  <2> QED BY <1>1, <1>3, <1>4, <1>5, <2>1, <2>2
<1>7. CASE ~(action = "waiting" /\ ok)
  <2>1. /\ refreshPending' = Page!NoRefresh
        /\ IF action = "waiting" \/ refreshPending.forced
           THEN action' = "none" /\ note' = IF ok THEN "ok" ELSE "bad"
           ELSE UNCHANGED action /\ note' = IF Page!Paints THEN "none" ELSE note
    BY <1>7 DEF Page!Ended
  <2>2. /\ ForcedIsTheActions' /\ BeforeIsLoaded'
        /\ action' \in {"none", "working", "waiting", "refreshing"}
    BY <2>1 DEF ForcedIsTheActions, BeforeIsLoaded, Page!NoRefresh
  <2>3. Page!FreshAfterAction'
    <3>1. CASE action = "waiting" \/ refreshPending.forced
      BY <1>7, <2>1, <3>1 DEF ForcedIsTheActions, Page!FreshAfterAction, Page!busy, Page!Paints
    <3>2. CASE ~(action = "waiting" \/ refreshPending.forced)
      BY <2>1, <3>2 DEF Page!FreshAfterAction, Page!busy, Page!Paints
    <3> QED BY <3>1, <3>2
  <2> QED BY <1>1, <1>3, <1>4, <1>5, <2>1, <2>2, <2>3
<1> QED BY <1>6, <1>7

LEMMA PageStep == PageInv /\ [Page!Next]_pageVars => PageInv'
<1> SUFFICES ASSUME PageInv, [Page!Next]_pageVars PROVE PageInv'
  OBVIOUS
<1> USE DEF PageInv, PageTypes, Page!page, Page!clock, Page!work
<1> DEFINE start(forced) == [at |-> "sync", forced |-> forced, read |-> 0, before |-> loaded]
<1>1. /\ Page!NoRefresh \in Refreshes /\ ~Page!NoRefresh.forced
      /\ \A forced \in BOOLEAN : /\ start(forced) \in Refreshes
                                 /\ start(forced).forced = forced /\ start(forced).at = "sync"
                                 /\ start(forced).before = loaded
  <2>1. Page!NoRefresh \in Refreshes /\ ~Page!NoRefresh.forced
    BY DEF Refreshes, Page!NoRefresh
  <2>2. ASSUME NEW forced \in BOOLEAN
        PROVE  /\ start(forced) \in Refreshes
               /\ start(forced).forced = forced /\ start(forced).at = "sync"
               /\ start(forced).before = loaded
    BY DEF Refreshes
  <2> QED BY <2>1, <2>2
<1>2. CASE Page!OthersAct
  BY <1>2 DEF Page!OthersAct, BeforePainted, ForcedIsTheActions, BeforeIsLoaded, Page!FreshAfterAction, Page!busy,
              Page!PaintedIsLoaded
<1>3. CASE Page!Navigate
  BY <1>3 DEF Page!Navigate, BeforePainted, ForcedIsTheActions, BeforeIsLoaded, Page!FreshAfterAction, Page!busy,
              Page!PaintedIsLoaded
<1>4. CASE Page!Render
  <2>1. \/ UNCHANGED refreshPending
        \/ refreshPending = Page!NoRefresh /\ refreshPending' = start(FALSE)
    BY <1>4 DEF Page!Render, Page!Starts
  <2>2. refreshPending' \in Refreshes /\ ForcedIsTheActions' /\ BeforeIsLoaded'
    BY <1>1, <1>4, <2>1 DEF Page!Render, ForcedIsTheActions, BeforeIsLoaded
  <2>3. PageTypes' /\ BeforePainted' /\ Page!FreshAfterAction' /\ Page!PaintedIsLoaded'
    BY <1>4, <2>2 DEF Page!Render, Page!Paint, BeforePainted, Page!FreshAfterAction,
                      Page!PaintedIsLoaded
  <2> QED BY <2>2, <2>3
<1>5. CASE Page!RenderFirst
  BY <1>5 DEF Page!RenderFirst, BeforePainted, ForcedIsTheActions, BeforeIsLoaded, Page!FreshAfterAction, Page!busy,
              Page!PaintedIsLoaded
<1>6. CASE Page!InitialRead
  <2>1. ~dataReady /\ refreshPending.at = "no" /\ ~refreshPending.forced
    BY <1>6 DEF Page!InitialRead, BeforePainted, Page!NoRefresh
  <2> QED BY <1>6, <2>1 DEF Page!InitialRead, BeforePainted, ForcedIsTheActions, BeforeIsLoaded,
                            Page!FreshAfterAction, Page!busy, Page!PaintedIsLoaded
<1>7. CASE Page!InitialLoadFails
  BY <1>7 DEF Page!InitialLoadFails, BeforePainted, ForcedIsTheActions, BeforeIsLoaded, Page!FreshAfterAction,
              Page!busy, Page!PaintedIsLoaded
<1>8. ASSUME NEW v \in visits, Page!FirstPaint(v) PROVE PageInv'
  <2>1. CASE v = epoch
    <3>1. ~dataReady /\ timers = 0 /\ refreshPending = Page!NoRefresh
      BY <2>1 DEF BeforePainted
    <3>2. refreshPending' = start(FALSE)
      BY <1>1, <1>8, <2>1, <3>1 DEF Page!FirstPaint, Page!Starts
    <3>3. refreshPending' \in Refreshes /\ ForcedIsTheActions' /\ BeforeIsLoaded'
      BY <1>1, <1>8, <3>1, <3>2 DEF Page!FirstPaint, ForcedIsTheActions, BeforeIsLoaded
    <3>4. PageTypes' /\ BeforePainted' /\ Page!FreshAfterAction' /\ Page!PaintedIsLoaded'
      BY <1>8, <2>1, <3>1, <3>3 DEF Page!FirstPaint, Page!Paint, BeforePainted,
                                    Page!FreshAfterAction, Page!PaintedIsLoaded
    <3> QED BY <3>3, <3>4
  <2>2. CASE v # epoch
    BY <1>8, <2>2 DEF Page!FirstPaint, BeforePainted, ForcedIsTheActions, BeforeIsLoaded, Page!FreshAfterAction,
                      Page!busy, Page!PaintedIsLoaded
  <2> QED BY <2>1, <2>2
<1>9. CASE Page!Poll
  <2>1. refreshPending = Page!NoRefresh /\ refreshPending' = start(FALSE)
    BY <1>9 DEF Page!Poll, Page!Starts
  <2>2. refreshPending' \in Refreshes /\ ForcedIsTheActions' /\ BeforeIsLoaded'
    BY <1>1, <1>9, <2>1 DEF Page!Poll, ForcedIsTheActions, BeforeIsLoaded
  <2>3. refreshPending.at = "no" /\ dataReady
    BY <2>1, <1>9 DEF Page!Poll, BeforePainted, Page!NoRefresh
  <2> QED BY <1>9, <2>2, <2>3 DEF Page!Poll, BeforePainted, Page!FreshAfterAction, Page!busy,
                                  Page!PaintedIsLoaded
<1>10. CASE Page!RefreshRead
  <2>1. PICK r \in Refreshes : r = [refreshPending EXCEPT !.at = "read", !.read = pageServer]
    BY DEF Refreshes
  <2>2. /\ r.forced = refreshPending.forced /\ r.read = pageServer /\ refreshPending' = r
        /\ r.at = "read" /\ r.before = refreshPending.before
    BY <1>10, <2>1 DEF Page!RefreshRead, Refreshes
  <2>3. refreshPending # Page!NoRefresh
    BY <1>10 DEF Page!RefreshRead, Page!NoRefresh
  <2>4. refreshPending.at = "sync" /\ dataReady
    BY <1>10, <2>3 DEF Page!RefreshRead, BeforePainted
  <2>5. PageTypes' /\ BeforePainted' /\ ForcedIsTheActions' /\ BeforeIsLoaded'
    BY <1>10, <2>2, <2>4 DEF Page!RefreshRead, BeforePainted, ForcedIsTheActions, BeforeIsLoaded
  <2>6. Page!FreshAfterAction' /\ Page!PaintedIsLoaded'
    BY <1>10, <2>4 DEF Page!RefreshRead, Page!FreshAfterAction, Page!busy, Page!PaintedIsLoaded
  <2> QED BY <2>5, <2>6
<1>11. CASE Page!RefreshDone
  <2>1. refreshPending # Page!NoRefresh
    BY <1>11 DEF Page!RefreshDone, Page!NoRefresh
  <2>2. painted' = IF Page!Paints THEN loaded ELSE painted
    BY <1>11 DEF Page!RefreshDone, Page!Paint
  <2> QED BY <1>11, <2>1, <2>2, PageEnded DEF Page!RefreshDone
<1>12. CASE Page!RefreshFails
  <2>1. refreshPending # Page!NoRefresh
    BY <1>12 DEF Page!RefreshFails, Page!NoRefresh
  <2> QED BY <1>12, <2>1, PageEnded DEF Page!RefreshFails
<1>13. CASE Page!Perform
  BY <1>13 DEF Page!Perform, BeforePainted, ForcedIsTheActions, BeforeIsLoaded, Page!FreshAfterAction, Page!busy,
               Page!PaintedIsLoaded
<1>14. CASE Page!WorkDone
  <2>1. \/ refreshPending = Page!NoRefresh /\ action' = "refreshing" /\ refreshPending' = start(TRUE)
        \/ action' = "waiting" /\ UNCHANGED refreshPending
    BY <1>14 DEF Page!WorkDone, Page!Starts
  <2>2. dataReady /\ ~refreshPending.forced
    BY <1>14 DEF Page!WorkDone, BeforePainted, ForcedIsTheActions
  <2>3. refreshPending' \in Refreshes /\ ForcedIsTheActions' /\ BeforeIsLoaded'
    BY <1>1, <1>14, <2>1, <2>2 DEF Page!WorkDone, ForcedIsTheActions, BeforeIsLoaded
  <2>4. PageTypes' /\ BeforePainted' /\ Page!FreshAfterAction'
    BY <1>14, <2>1, <2>2, <2>3 DEF Page!WorkDone, BeforePainted, Page!FreshAfterAction, Page!busy
  <2>5. Page!PaintedIsLoaded'
    BY <1>14, <2>1 DEF Page!WorkDone, Page!PaintedIsLoaded, Page!NoRefresh
  <2> QED BY <2>3, <2>4, <2>5
<1>15. CASE Page!WorkFails
  BY <1>15 DEF Page!WorkFails, BeforePainted, ForcedIsTheActions, BeforeIsLoaded, Page!FreshAfterAction, Page!busy,
               Page!PaintedIsLoaded
<1>16. CASE UNCHANGED pageVars
  BY <1>16 DEF pageVars, BeforePainted, ForcedIsTheActions, BeforeIsLoaded, Page!FreshAfterAction, Page!busy,
               Page!PaintedIsLoaded
<1>17. CASE Page!RefreshLoaded
  <2>1. PICK r \in Refreshes : r = [refreshPending EXCEPT !.at = "balance"]
    BY DEF Refreshes
  <2>2. /\ r.forced = refreshPending.forced /\ refreshPending' = r /\ r.at = "balance"
        /\ r.before = loaded
    BY <1>17, <2>1 DEF Page!RefreshLoaded, BeforeIsLoaded, Refreshes
  <2>3. refreshPending # Page!NoRefresh /\ loaded' = refreshPending.read
    BY <1>17 DEF Page!RefreshLoaded, Page!NoRefresh
  <2>4. PageTypes' /\ BeforePainted' /\ ForcedIsTheActions' /\ BeforeIsLoaded'
    BY <1>17, <2>2, <2>3 DEF Page!RefreshLoaded, BeforePainted, ForcedIsTheActions, BeforeIsLoaded,
                             Refreshes
  <2>5. Page!FreshAfterAction' /\ Page!PaintedIsLoaded'
    BY <1>17, <2>2 DEF Page!RefreshLoaded, Page!FreshAfterAction, Page!busy, Page!PaintedIsLoaded
  <2> QED BY <2>4, <2>5
<1> QED
  BY <1>2, <1>3, <1>4, <1>5, <1>6, <1>7, <1>8, <1>9, <1>10, <1>11, <1>12, <1>13, <1>14, <1>15, <1>16,
     <1>17
  DEF Page!Next

\* xlayer.js:137-163, 405-429: whatever the number of visits and versions, the page
\* that says an action is confirmed shows what was read after it, a page that is
\* no editor shows what was loaded, but for a refresh that has replaced it and has
\* yet to paint, and one timer polls.
THEOREM MarketPageSoundAlways == Spec => []MarketPageSound
<1>1. Init => PageInv
  BY PageInit DEF Init
<1>2. PageInv /\ [Next]_vars => PageInv'
  BY PageStep DEF Next, vars
<1>3. PageInv => MarketPageSound
  <2> SUFFICES ASSUME PageInv PROVE Page!FreshAfterAction /\ Page!PaintedIsLoaded /\ Page!OnePoll
    BY DEF MarketPageSound, Page!MarketPageSound
  <2>1. Page!OnePoll
    BY DEF PageInv, PageTypes, Page!OnePoll
  <2> QED BY <2>1 DEF PageInv
<1> QED BY <1>1, <1>2, <1>3, PTL DEF Spec

PageTyped == Page!TypeOK /\ refreshPending.read <= pageServer

LEMMA PageTypedInit == Page!Init => PageTyped
<1>1. MaxVersion \in Nat /\ MaxVisits \in Nat
  BY ComponentsAssumption DEF Page!BoundsAreNumbers
<1> QED BY <1>1 DEF Page!Init, PageTyped, Page!TypeOK, Page!NoRefresh

\* What is read and shown is a version the server has had.
LEMMA PageTypedStep ==
  ASSUME PageInv, PageInv', PageTyped, UNCHANGED pageVars \/ Page!Next
  PROVE PageTyped'
<1>1. MaxVersion \in Nat /\ MaxVisits \in Nat
  BY ComponentsAssumption DEF Page!BoundsAreNumbers
<1>2. /\ pageServer \in Nat /\ loaded \in Nat /\ painted \in Nat /\ acted \in Nat /\ epoch \in Nat
      /\ pageServer <= MaxVersion /\ loaded <= pageServer /\ painted <= pageServer /\ acted <= pageServer
      /\ epoch <= MaxVisits /\ visits \subseteq 1..epoch /\ initialLoad \in {"none", "reading", "read"}
      /\ note \in {"none", "ok", "bad"} /\ refreshPending \in Refreshes /\ refreshPending.read <= pageServer
  BY <1>1 DEF PageInv, PageTypes, PageTyped, Page!TypeOK
<1>3. /\ pageServer' \in Nat /\ loaded' \in Nat /\ painted' \in Nat /\ acted' \in 0..pageServer'
      /\ refreshPending'.at \in {"no", "sync", "read", "balance"} /\ refreshPending'.forced \in BOOLEAN
      /\ refreshPending'.read \in Nat
      /\ action' \in {"none", "working", "waiting", "refreshing"}
  BY DEF PageInv, PageTypes, Refreshes
<1> DEFINE Shown == /\ pageServer' <= MaxVersion /\ loaded' <= pageServer' /\ painted' <= pageServer'
                    /\ refreshPending'.read <= pageServer'
           Visited == epoch' \in Nat /\ epoch' <= MaxVisits /\ visits' \subseteq 1..epoch'
           Named == initialLoad' \in {"none", "reading", "read"} /\ note' \in {"none", "ok", "bad"}
<1>4. Named
  <2>1. CASE Page!OthersAct \/ Page!Navigate \/ Page!Render \/ Page!RenderFirst \/ Page!InitialRead
             \/ Page!InitialLoadFails \/ Page!Poll \/ Page!RefreshRead \/ Page!RefreshLoaded \/ Page!Perform
             \/ Page!WorkDone \/ Page!WorkFails
    BY <1>2, <2>1 DEF Page!OthersAct, Page!Navigate, Page!Render, Page!RenderFirst, Page!InitialRead,
      Page!InitialLoadFails, Page!Poll, Page!RefreshRead, Page!RefreshLoaded, Page!Perform, Page!WorkDone, Page!WorkFails,
      Page!page, Page!work
  <2>2. CASE Page!RefreshDone \/ Page!RefreshFails
    BY <1>2, <2>2 DEF Page!RefreshDone, Page!RefreshFails, Page!Ended, Page!page
  <2>3. ASSUME NEW v \in visits, Page!FirstPaint(v) PROVE Named
    BY <1>2, <2>3 DEF Page!FirstPaint, Page!work
  <2>4. CASE UNCHANGED pageVars
    BY <1>2, <2>4 DEF pageVars
  <2> QED BY <2>1, <2>2, <2>3, <2>4 DEF Page!Next
<1>5. Visited
  <2>1. CASE Page!OthersAct \/ Page!Navigate \/ Page!Render \/ Page!InitialRead
             \/ Page!Poll \/ Page!RefreshRead \/ Page!RefreshLoaded \/ Page!Perform \/ Page!RefreshDone \/ Page!RefreshFails
             \/ Page!WorkDone \/ Page!WorkFails \/ UNCHANGED pageVars
    BY <1>2, <2>1 DEF Page!OthersAct, Page!Navigate, Page!Render, Page!InitialRead, Page!RefreshDone,
      Page!RefreshFails, Page!Poll, Page!RefreshRead, Page!RefreshLoaded, Page!Perform, Page!WorkDone, Page!WorkFails,
      Page!page, pageVars
  <2>2. CASE Page!RenderFirst
    <3>1. /\ epoch < MaxVisits /\ epoch' = epoch + 1 /\ visits' = visits \cup {epoch + 1}
      BY <2>2 DEF Page!RenderFirst
    <3> QED BY <1>1, <1>2, <3>1
  <2>3. CASE Page!InitialLoadFails
    BY <1>2, <2>3 DEF Page!InitialLoadFails
  <2>4. ASSUME NEW v \in visits, Page!FirstPaint(v) PROVE Visited
    BY <1>2, <2>4 DEF Page!FirstPaint
  <2> QED BY <2>1, <2>2, <2>3, <2>4 DEF Page!Next
<1>6. Shown
  <2>1. CASE Page!OthersAct \/ Page!WorkFails
    <3>1. /\ pageServer' \in {pageServer, pageServer + 1} /\ pageServer' <= MaxVersion
          /\ UNCHANGED <<loaded, painted, refreshPending>>
      BY <1>1, <1>2, <2>1 DEF Page!OthersAct, Page!WorkFails
    <3> QED BY <1>1, <1>2, <1>3, <3>1
  <2>2. CASE Page!WorkDone
    <3>1. /\ pageServer' = pageServer + 1 /\ pageServer < MaxVersion /\ UNCHANGED <<loaded, painted>>
          /\ refreshPending'.read = 0 \/ refreshPending' = refreshPending
      BY <2>2 DEF Page!WorkDone, Page!Starts
    <3> QED BY <1>1, <1>2, <1>3, <3>1
  <2>3. CASE Page!Navigate \/ Page!RenderFirst \/ Page!InitialLoadFails \/ Page!Perform \/ UNCHANGED pageVars
    BY <1>2, <2>3 DEF Page!Navigate, Page!RenderFirst, Page!InitialLoadFails, Page!Perform, pageVars
  <2>4. CASE Page!Poll \/ Page!Render \/ Page!RefreshFails
    <3>1. /\ UNCHANGED <<pageServer, loaded>> /\ painted' \in {painted, loaded}
          /\ refreshPending'.read = 0 \/ refreshPending' = refreshPending
      BY <2>4 DEF Page!Poll, Page!Render, Page!Paint, Page!Starts, Page!RefreshFails, Page!Ended, Page!NoRefresh
    <3> QED BY <1>2, <3>1
  <2>5. CASE Page!InitialRead
    BY <1>2, <2>5 DEF Page!InitialRead
  <2>6. CASE Page!RefreshRead
    <3>1. UNCHANGED <<pageServer, loaded, painted>> /\ refreshPending'.read = pageServer
      BY <1>2, <2>6 DEF Page!RefreshRead, Refreshes
    <3> QED BY <1>2, <3>1
  <2>7. CASE Page!RefreshDone
    <3>1. /\ UNCHANGED <<pageServer, loaded>> /\ painted' \in {painted, loaded}
          /\ refreshPending'.read = 0
      BY <2>7 DEF Page!RefreshDone, Page!Paint, Page!Ended, Page!Starts, Page!NoRefresh
    <3> QED BY <1>2, <3>1
  <2>8. ASSUME NEW v \in visits, Page!FirstPaint(v) PROVE Shown
    <3>1. /\ UNCHANGED <<pageServer, loaded>> /\ painted' \in {painted, loaded}
          /\ refreshPending'.read = 0 \/ refreshPending' = refreshPending
      BY <2>8 DEF Page!FirstPaint, Page!Paint, Page!Starts
    <3> QED BY <1>2, <3>1
  <2>9. CASE Page!RefreshLoaded
    <3>1. UNCHANGED <<pageServer, painted>> /\ loaded' = refreshPending.read
      BY <2>9 DEF Page!RefreshLoaded
    <3>2. refreshPending'.read = refreshPending.read
      BY <1>2, <2>9 DEF Page!RefreshLoaded, Refreshes
    <3> QED BY <1>2, <3>1, <3>2
  <2> QED BY <2>1, <2>2, <2>3, <2>4, <2>5, <2>6, <2>7, <2>8, <2>9 DEF Page!Next
<1> QED BY <1>3, <1>4, <1>5, <1>6 DEF PageTyped, Page!TypeOK

-----------------------------------------------------------------------------
(* Signing in.                                                              *)

TabSteps == {"idle", "session", "challenge", "signing", "verifying", "connected"}
TabStates == [at : TabSteps, as : Addresses \cup {Nobody}, account : Addresses \cup {Nobody}, nonce : Nat]
NonceRecords == [address : Addresses, at : Nat, consumed : BOOLEAN]
PostRecords == [tab : Tabs, nonce : Nat, signer : Addresses]
SessionRecords == [address : Addresses, nonce : Nat, revoked : BOOLEAN, expires : Nat]

SignInTypes ==
  /\ now \in Nat /\ signInWallet \in Addresses
  /\ tabs \in [Tabs -> TabStates] /\ cookie \in 0..Len(sessions)
  /\ nonces \in Seq(NonceRecords) /\ sessions \in Seq(SessionRecords)
  /\ posted \in SUBSET PostRecords /\ recovering \in SUBSET posted

\* A tab that nothing has overtaken asks, signs and acts for the account it connected.
TabGood(s, free) ==
  /\ s.at # "idle" => s.account \in Addresses
  /\ s.at \in {"signing", "verifying"} => s.nonce \in DOMAIN nonces
  /\ free /\ s.at # "idle" => s.account = s.as
  /\ free /\ s.at \in {"signing", "verifying"} => nonces[s.nonce].address = s.as
  /\ free /\ s.at = "connected" => cookie # 0 /\ sessions[cookie].address = s.as
EveryTabGood == \A t \in Tabs : TabGood(tabs[t], t \notin overtaken)

\* Of the requests that a challenge allows, one consumes it; it is then recovered or
\* has its session.
UsedOnce ==
  /\ \A r \in posted : r.nonce \in DOMAIN nonces
  /\ \A r \in recovering : nonces[r.nonce].consumed
  /\ \A r, s \in recovering : r.nonce = s.nonce => r = s
  /\ \A i \in DOMAIN sessions :
       /\ sessions[i].nonce \in DOMAIN nonces /\ nonces[sessions[i].nonce].consumed
       /\ \A r \in recovering : r.nonce # sessions[i].nonce
SessionsSound == UsedOnce /\ SignIn!OneSessionPerChallenge

SignInInv == SignInTypes /\ EveryTabGood /\ SessionsSound /\ SignIn!WithinRate

LEMMA SignInConstants ==
  /\ Limit \in Nat /\ Window \in Nat /\ NonceTTL \in Nat /\ SessionTTL \in Nat
  /\ Nobody \notin Addresses
  BY ComponentsAssumption DEF SignIn!BackendConstants

LEMMA IdleTab ==
  /\ SignIn!Idle \in TabStates /\ SignIn!Idle.at = "idle"
  /\ \A free \in BOOLEAN : TabGood(SignIn!Idle, free)
<1>1. SignIn!Idle \in TabStates /\ SignIn!Idle.at = "idle"
  BY DEF SignIn!Idle, TabStates, TabSteps
<1> QED BY <1>1 DEF TabGood

LEMMA SignInCardinality ==
  \A S : SignIn!Cardinality(S) = Cardinality(S)
  BY DEF Cardinality, SignIn!Cardinality

LEMMA SignInInit == SignIn!Init => SignInInv
<1> SUFFICES ASSUME SignIn!Init PROVE SignInInv
  OBVIOUS
<1>1. /\ nonces = <<>> /\ sessions = <<>> /\ posted = {} /\ recovering = {} /\ cookie = 0
      /\ now = 0 /\ signInWallet \in Addresses /\ tabs = [t \in Tabs |-> SignIn!Idle]
  BY DEF SignIn!Init
<1>2. SignInTypes
  BY <1>1, IdleTab DEF SignInTypes
<1>3. EveryTabGood
  BY <1>1, IdleTab DEF EveryTabGood, TabGood
<1>4. SessionsSound
  BY <1>1 DEF SessionsSound, UsedOnce, SignIn!OneSessionPerChallenge
<1>5. SignIn!WithinRate
  <2> DEFINE given(a, from) ==
        {i \in DOMAIN nonces : nonces[i].address = a /\ nonces[i].at \in from..(from + Window)}
  <2> SUFFICES ASSUME NEW a \in Addresses, NEW from \in 0..MaxTime
               PROVE SignIn!Cardinality(given(a, from)) <= Limit
    BY DEF SignIn!WithinRate
  <2>1. given(a, from) = {}
    BY <1>1
  <2>2. SignIn!Cardinality(given(a, from)) = 0
    BY <2>1, FS_EmptySet, SignInCardinality
  <2> HIDE DEF given
  <2> QED BY <2>2, SignInConstants
<1> QED BY <1>2, <1>3, <1>4, <1>5 DEF SignInInv

\* What a step leaves of the challenges and of the session of the cookie.
NoncesKept ==
  \A i \in DOMAIN nonces : /\ i \in DOMAIN nonces'
                           /\ nonces'[i].address = nonces[i].address
                           /\ nonces[i].consumed => nonces'[i].consumed
CookieKept ==
  /\ cookie' = cookie
  /\ cookie # 0 => sessions'[cookie].address = sessions[cookie].address

LEMMA GoodStays ==
  ASSUME NoncesKept, NEW s, NEW free \in BOOLEAN, TabGood(s, free),
         CookieKept \/ ~free \/ s.at # "connected"
  PROVE TabGood(s, free)' /\ TabGood(s, FALSE)'
  BY DEF NoncesKept, CookieKept, TabGood

LEMMA TabsStay ==
  ASSUME EveryTabGood, NoncesKept, CookieKept, UNCHANGED <<tabs, overtaken>>
  PROVE EveryTabGood'
<1> SUFFICES ASSUME NEW t \in Tabs PROVE TabGood(tabs[t], t \notin overtaken)'
  BY DEF EveryTabGood
<1>1. PICK s : s = tabs[t]
  OBVIOUS
<1>2. PICK free \in BOOLEAN : free = (t \notin overtaken)
  OBVIOUS
<1>3. TabGood(s, free)
  BY <1>1, <1>2 DEF EveryTabGood
<1>4. TabGood(s, free)'
  BY <1>3, GoodStays
<1> QED BY <1>1, <1>2, <1>4

\* One tab moves; what has overtaken the others may have overtaken more of them.
LEMMA TabChanges ==
  ASSUME SignInInv, NoncesKept, NEW t \in Tabs, NEW s \in TabStates, tabs' = [tabs EXCEPT ![t] = s],
         \A u \in Tabs \ {t} : u \in overtaken => u \in overtaken',
         CookieKept \/ \A u \in Tabs \ {t} : tabs[u].at # "connected" \/ u \in overtaken',
         TabGood(s, t \notin overtaken)'
  PROVE tabs' \in [Tabs -> TabStates] /\ EveryTabGood'
<1>1. tabs \in [Tabs -> TabStates] /\ EveryTabGood
  BY DEF SignInInv, SignInTypes
<1>2. tabs' \in [Tabs -> TabStates] /\ tabs'[t] = s /\ \A u \in Tabs \ {t} : tabs'[u] = tabs[u]
  BY <1>1
<1>3. ASSUME NEW u \in Tabs \ {t} PROVE TabGood(tabs[u], u \notin overtaken)'
  <2>1. PICK r : r = tabs[u]
    OBVIOUS
  <2>2. PICK free \in BOOLEAN, later \in BOOLEAN :
          free = (u \notin overtaken) /\ later = (u \notin overtaken')
    OBVIOUS
  <2>3. TabGood(r, free)
    BY <1>1, <2>1, <2>2 DEF EveryTabGood
  <2>4. CASE later
    <3>1. free /\ (CookieKept \/ r.at # "connected")
      BY <2>1, <2>2, <2>4
    <3> QED BY <1>2, <2>1, <2>2, <2>3, <2>4, <3>1, GoodStays
  <2>5. CASE ~later
    <3>1. TabGood(r, FALSE)
      BY <2>3 DEF TabGood
    <3>2. TabGood(r, FALSE)'
      BY <3>1, GoodStays
    <3> QED BY <1>2, <2>1, <2>2, <2>5, <3>2
  <2> QED BY <2>4, <2>5
<1> QED BY <1>2, <1>3 DEF EveryTabGood

LEMMA SessionsKept ==
  ASSUME SessionsSound, recovering \subseteq posted, NoncesKept,
         recovering' \subseteq recovering, posted \subseteq posted',
         \A r \in posted' \ posted : r.nonce \in DOMAIN nonces',
         DOMAIN sessions' = DOMAIN sessions,
         \A i \in DOMAIN sessions : /\ sessions'[i].nonce = sessions[i].nonce
                                    /\ sessions'[i].address = sessions[i].address
  PROVE SessionsSound'
<1> USE DEF SessionsSound
<1>1. (\A r \in posted : r.nonce \in DOMAIN nonces)'
  BY DEF UsedOnce, NoncesKept
<1>2. (\A r \in recovering : nonces[r.nonce].consumed)'
  BY DEF UsedOnce, NoncesKept
<1>3. UsedOnce'
  BY <1>1, <1>2 DEF UsedOnce, NoncesKept
<1>4. SignIn!OneSessionPerChallenge'
  BY DEF UsedOnce, NoncesKept, SignIn!OneSessionPerChallenge
<1> QED BY <1>3, <1>4

LEMMA RateKept ==
  ASSUME SignIn!WithinRate, DOMAIN nonces' = DOMAIN nonces,
         \A i \in DOMAIN nonces : /\ nonces'[i].address = nonces[i].address
                                  /\ nonces'[i].at = nonces[i].at
  PROVE SignIn!WithinRate'
<1> DEFINE given(a, from) ==
      {i \in DOMAIN nonces : nonces[i].address = a /\ nonces[i].at \in from..(from + Window)}
<1>1. ASSUME NEW a \in Addresses, NEW from \in 0..MaxTime
      PROVE SignIn!Cardinality(given(a, from)') <= Limit
  <2>1. given(a, from)' = given(a, from)
    OBVIOUS
  <2>2. SignIn!Cardinality(given(a, from)) <= Limit
    BY DEF SignIn!WithinRate
  <2> QED BY <2>1, <2>2
<1> QED BY <1>1 DEF SignIn!WithinRate

\* What an address got in a window that holds the new challenge is recent.
LEMMA RateChallenged ==
  ASSUME SignInInv, NEW address \in Addresses, NEW e \in NonceRecords,
         e.address = address, e.at = now, nonces' = Append(nonces, e),
         SignIn!Cardinality(SignIn!Recent(address)) < Limit
  PROVE SignIn!WithinRate'
<1> DEFINE given(a, from) ==
      {i \in DOMAIN nonces : nonces[i].address = a /\ nonces[i].at \in from..(from + Window)}
           last == Len(nonces) + 1
<1>1. nonces \in Seq(NonceRecords) /\ now \in Nat /\ Len(nonces) \in Nat /\ DOMAIN nonces = 1..Len(nonces)
  BY DEF SignInInv, SignInTypes
<1>2. DOMAIN nonces' = DOMAIN nonces \cup {last} /\ nonces'[last] = e
      /\ \A i \in DOMAIN nonces : nonces'[i] = nonces[i]
  BY <1>1, AppendProperties
<1> SUFFICES ASSUME NEW a \in Addresses, NEW from \in 0..MaxTime
             PROVE SignIn!Cardinality(given(a, from)') <= Limit
  BY DEF SignIn!WithinRate
<1>3. SignIn!Cardinality(given(a, from)) <= Limit
  BY DEF SignInInv, SignIn!WithinRate
<1>4. CASE ~(a = address /\ now \in from..(from + Window))
  <2>1. given(a, from)' = given(a, from)
    BY <1>2, <1>4
  <2> QED BY <1>3, <2>1
<1>5. CASE a = address /\ now \in from..(from + Window)
  <2>1. given(a, from)' = given(a, from) \cup {last}
    BY <1>2, <1>5
  <2>2. given(a, from) \subseteq SignIn!Recent(address)
    <3>1. SUFFICES ASSUME NEW i \in given(a, from) PROVE nonces[i].at + Window >= now
      BY <1>5 DEF SignIn!Recent
    <3>2. nonces[i].at \in Nat /\ nonces[i].at >= from /\ now <= from + Window
      BY <1>1, <1>5 DEF NonceRecords
    <3> QED BY <1>1, <3>2, SignInConstants
  <2>3. SignIn!Recent(address) \subseteq 1..Len(nonces)
    BY <1>1 DEF SignIn!Recent
  <2>4. IsFiniteSet(SignIn!Recent(address))
    <3>1. IsFiniteSet(1..Len(nonces))
      BY <1>1, FS_Interval
    <3> QED BY <2>3, <3>1, FS_Subset
  <2>5. IsFiniteSet(given(a, from)) /\ Cardinality(given(a, from)) <= Cardinality(SignIn!Recent(address))
    BY <2>2, <2>4, FS_Subset
  <2>6. Cardinality(given(a, from)) \in Nat /\ Cardinality(SignIn!Recent(address)) \in Nat
    BY <2>4, <2>5, FS_CardinalityType
  <2>7. Cardinality(given(a, from) \cup {last}) <= Cardinality(given(a, from)) + 1
    <3>1. Cardinality(given(a, from) \cup {last}) =
            IF last \in given(a, from) THEN Cardinality(given(a, from)) ELSE Cardinality(given(a, from)) + 1
      BY <2>5, FS_AddElement
    <3> HIDE DEF given, last
    <3> QED BY <2>6, <3>1
  <2>8. Cardinality(SignIn!Recent(address)) < Limit
    BY SignInCardinality
  <2>9. Cardinality(given(a, from) \cup {last}) \in Nat
    BY <2>5, FS_AddElement, FS_CardinalityType
  <2>10. Cardinality(given(a, from)') <= Limit
    <3>1. Cardinality(given(a, from)') = Cardinality(given(a, from) \cup {last})
      BY <2>1
    <3> HIDE DEF given, last
    <3> QED BY <2>5, <2>6, <2>7, <2>8, <2>9, <3>1, SignInConstants
  <2> QED BY <2>10, SignInCardinality
<1> QED BY <1>4, <1>5

LEMMA BackendStays ==
  ASSUME SignInInv, UNCHANGED <<nonces, sessions, recovering>>, posted \subseteq posted',
         \A r \in posted' \ posted : r.nonce \in DOMAIN nonces
  PROVE NoncesKept /\ SessionsSound' /\ SignIn!WithinRate'
<1>1. NoncesKept
  BY DEF NoncesKept
<1>2. SessionsSound'
  BY <1>1, SessionsKept DEF SignInInv, SignInTypes
<1>3. SignIn!WithinRate'
  BY RateKept DEF SignInInv
<1> QED BY <1>1, <1>2, <1>3

\* One tab moves, and at most its answer is posted.
LEMMA TabMoves ==
  ASSUME SignInInv, NEW t \in Tabs, NEW s \in TabStates, tabs' = [tabs EXCEPT ![t] = s],
         \A u \in Tabs \ {t} : u \in overtaken => u \in overtaken',
         TabGood(s, t \notin overtaken'), posted \subseteq posted', posted' \subseteq PostRecords,
         \A r \in posted' \ posted : r.nonce \in DOMAIN nonces,
         UNCHANGED <<now, signInWallet, cookie, nonces, sessions, recovering>>
  PROVE SignInInv'
<1>1. NoncesKept /\ CookieKept /\ SessionsSound' /\ SignIn!WithinRate'
  BY BackendStays DEF CookieKept
<1>2. TabGood(s, t \notin overtaken)'
  BY DEF TabGood
<1>3. tabs' \in [Tabs -> TabStates] /\ EveryTabGood'
  BY <1>1, <1>2, TabChanges
<1>4. SignInTypes'
  BY <1>3 DEF SignInInv, SignInTypes
<1> QED BY <1>1, <1>3, <1>4 DEF SignInInv

LEMMA TabEnds ==
  ASSUME SignInInv, NEW t \in Tabs, SignIn!Ends(t),
         UNCHANGED <<now, signInWallet, cookie, nonces, sessions, recovering, posted>>
  PROVE SignInInv'
<1>1. \A u \in Tabs \ {t} : u \in overtaken => u \in overtaken'
  BY DEF SignIn!Ends
<1>2. TabGood(SignIn!Idle, t \notin overtaken')
  BY IdleTab
<1> QED BY <1>1, <1>2, IdleTab, TabMoves DEF SignIn!Ends, SignInInv, SignInTypes

LEMMA NonceRecorded ==
  ASSUME SignInInv
  PROVE /\ tabs \in [Tabs -> TabStates]
        /\ \A t \in Tabs : TabGood(tabs[t], t \notin overtaken)
        /\ nonces \in Seq(NonceRecords) /\ sessions \in Seq(SessionRecords)
        /\ DOMAIN nonces = 1..Len(nonces) /\ DOMAIN sessions = 1..Len(sessions)
        /\ Len(nonces) \in Nat /\ Len(sessions) \in Nat
        /\ posted \in SUBSET PostRecords /\ recovering \in SUBSET posted
        /\ now \in Nat /\ signInWallet \in Addresses
  BY DEF SignInInv, SignInTypes, EveryTabGood

LEMMA SignInConnects ==
  ASSUME SignInInv, NEW t \in Tabs, SignIn!ConnectNetwork(t) \/ SignIn!ReadSession(t)
  PROVE SignInInv'
<1>1. CASE SignIn!ConnectNetwork(t)
  <2>1. PICK s \in TabStates : /\ s = [at |-> "session", as |-> signInWallet,
                                       account |-> signInWallet, nonce |-> 0]
                               /\ s.at = "session" /\ s.as = s.account /\ s.account \in Addresses
    <3>1. signInWallet \in Addresses
      BY NonceRecorded
    <3>2. [at |-> "session", as |-> signInWallet, account |-> signInWallet, nonce |-> 0] \in TabStates
      BY <3>1 DEF TabStates, TabSteps
    <3> QED BY <3>1, <3>2
  <2>2. TabGood(s, t \notin overtaken')
    BY <2>1 DEF TabGood
  <2> QED BY <1>1, <2>1, <2>2, TabMoves, NonceRecorded DEF SignIn!ConnectNetwork, SignIn!backend
<1>2. CASE SignIn!ReadSession(t)
  <2>1. PICK at \in {"connected", "challenge"} :
          at = IF SignIn!SessionAddress = tabs[t].account THEN "connected" ELSE "challenge"
    OBVIOUS
  <2>2. PICK s \in TabStates : s = [tabs[t] EXCEPT !.at = at]
    <3>1. tabs[t] \in TabStates
      BY NonceRecorded
    <3>2. [tabs[t] EXCEPT !.at = at] \in TabStates
      BY <3>1 DEF TabStates, TabSteps
    <3> QED BY <3>2
  <2>3. s.at = at /\ s.as = tabs[t].as /\ s.account = tabs[t].account
    BY <2>2, NonceRecorded DEF TabStates
  <2>4. tabs' = [tabs EXCEPT ![t] = s] /\ UNCHANGED overtaken
    BY <1>2, <2>1, <2>2 DEF SignIn!ReadSession, SignIn!Goes
  <2>5. tabs[t].account \in Addresses /\ (t \notin overtaken => tabs[t].account = tabs[t].as)
    BY <1>2, NonceRecorded DEF SignIn!ReadSession, SignIn!At, TabGood
  <2>6. at = "connected" => cookie # 0 /\ sessions[cookie].address = tabs[t].account
    BY <2>1, <2>5, SignInConstants DEF SignIn!SessionAddress
  <2>7. TabGood(s, t \notin overtaken')
    BY <2>1, <2>3, <2>4, <2>5, <2>6 DEF TabGood
  <2> QED BY <1>2, <2>4, <2>7, TabMoves, NonceRecorded DEF SignIn!ReadSession, SignIn!backend
<1> QED BY <1>1, <1>2

LEMMA SignInChallenged ==
  ASSUME SignInInv, NEW t \in Tabs, SignIn!Challenge(t)
  PROVE SignInInv'
<1> DEFINE address == tabs[t].account
           n == Len(nonces) + 1
<1>1. CASE ~(SignIn!Cardinality(SignIn!Recent(address)) < Limit)
  BY <1>1, TabEnds DEF SignIn!Challenge
<1>2. CASE SignIn!Cardinality(SignIn!Recent(address)) < Limit
  <2>1. address \in Addresses /\ (t \notin overtaken => address = tabs[t].as)
    BY NonceRecorded DEF SignIn!Challenge, SignIn!At, TabGood
  <2>2. PICK e \in NonceRecords : /\ e = [address |-> address, at |-> now, consumed |-> FALSE]
                                  /\ e.address = address /\ e.at = now
    <3>1. now \in Nat
      BY NonceRecorded
    <3>2. [address |-> address, at |-> now, consumed |-> FALSE] \in NonceRecords
      BY <2>1, <3>1 DEF NonceRecords
    <3> HIDE DEF address
    <3> QED BY <3>2
  <2>3. PICK s \in TabStates : s = [tabs[t] EXCEPT !.at = "signing", !.nonce = n]
    <3>1. tabs[t] \in TabStates /\ n \in Nat
      BY NonceRecorded
    <3>2. [tabs[t] EXCEPT !.at = "signing", !.nonce = n] \in TabStates
      BY <3>1 DEF TabStates, TabSteps
    <3> QED BY <3>2
  <2>4. s.at = "signing" /\ s.nonce = n /\ s.account = address /\ s.as = tabs[t].as
    BY <2>3, NonceRecorded DEF TabStates
  <2>5. /\ nonces' = Append(nonces, e) /\ tabs' = [tabs EXCEPT ![t] = s]
        /\ UNCHANGED <<overtaken, now, signInWallet, cookie, posted, recovering, sessions>>
    BY <1>2, <2>2, <2>3 DEF SignIn!Challenge
  <2>6. nonces' \in Seq(NonceRecords) /\ DOMAIN nonces' = DOMAIN nonces \cup {n} /\ nonces'[n] = e
        /\ \A i \in DOMAIN nonces : nonces'[i] = nonces[i]
    BY <2>5, NonceRecorded, AppendProperties
  <2>7. NoncesKept /\ CookieKept
    BY <2>5, <2>6 DEF NoncesKept, CookieKept
  <2>8. TabGood(s, t \notin overtaken)'
    BY <2>1, <2>2, <2>4, <2>5, <2>6 DEF TabGood
  <2>9. tabs' \in [Tabs -> TabStates] /\ EveryTabGood'
    BY <2>5, <2>7, <2>8, TabChanges
  <2>10. SessionsSound'
    BY <2>5, <2>7, NonceRecorded, SessionsKept DEF SignInInv
  <2>11. SignIn!WithinRate'
    BY <1>2, <2>1, <2>2, <2>5, RateChallenged
  <2>12. SignInTypes'
    BY <2>5, <2>6, <2>9 DEF SignInInv, SignInTypes
  <2> QED BY <2>9, <2>10, <2>11, <2>12 DEF SignInInv
<1> QED BY <1>1, <1>2

LEMMA SignInSigned ==
  ASSUME SignInInv, NEW t \in Tabs, SignIn!SignLogin(t)
  PROVE SignInInv'
<1>1. PICK s \in TabStates : s = [tabs[t] EXCEPT !.at = "verifying"]
  BY NonceRecorded DEF TabStates, TabSteps
<1>2. s.at = "verifying" /\ s.as = tabs[t].as /\ s.account = tabs[t].account /\ s.nonce = tabs[t].nonce
  BY <1>1, NonceRecorded DEF TabStates
<1>3. tabs' = [tabs EXCEPT ![t] = s]
  BY <1>1 DEF SignIn!SignLogin, SignIn!Goes
<1>4. TabGood(s, t \notin overtaken')
  BY <1>2, NonceRecorded DEF SignIn!SignLogin, SignIn!At, TabGood
<1>5. tabs[t].account \in Addresses /\ tabs[t].nonce \in DOMAIN nonces
  BY NonceRecorded DEF SignIn!SignLogin, SignIn!At, TabGood
<1>6. PICK signer \in {tabs[t].account, signInWallet} :
        posted' = posted \cup {[tab |-> t, nonce |-> tabs[t].nonce, signer |-> signer]}
  BY DEF SignIn!SignLogin
<1>7. PICK r \in PostRecords : /\ r = [tab |-> t, nonce |-> tabs[t].nonce, signer |-> signer]
                               /\ r.nonce = tabs[t].nonce
  <2>1. tabs[t].nonce \in Nat /\ signer \in Addresses
    BY <1>5, <1>6, NonceRecorded
  <2>2. [tab |-> t, nonce |-> tabs[t].nonce, signer |-> signer] \in PostRecords
    BY <2>1 DEF PostRecords
  <2> QED BY <2>2
<1>8. posted' = posted \cup {r}
  BY <1>6, <1>7
<1>9. UNCHANGED <<overtaken, now, signInWallet, cookie, nonces, sessions, recovering>>
  BY DEF SignIn!SignLogin, SignIn!backend
<1> QED BY <1>3, <1>4, <1>5, <1>7, <1>8, <1>9, TabMoves, NonceRecorded

LEMMA SignInConsumed ==
  ASSUME SignInInv, NEW r \in posted, SignIn!ConsumeNonce(r)
  PROVE SignInInv'
<1>1. r.nonce \in DOMAIN nonces /\ ~nonces[r.nonce].consumed
  BY DEF SignInInv, SessionsSound, UsedOnce, SignIn!ConsumeNonce, SignIn!Consumable
<1>2. PICK e \in NonceRecords : e = [nonces[r.nonce] EXCEPT !.consumed = TRUE]
  <2>1. nonces[r.nonce] \in NonceRecords
    BY <1>1, NonceRecorded
  <2>2. [nonces[r.nonce] EXCEPT !.consumed = TRUE] \in NonceRecords
    BY <2>1 DEF NonceRecords
  <2> QED BY <2>2
<1>3. e.address = nonces[r.nonce].address /\ e.at = nonces[r.nonce].at /\ e.consumed
  BY <1>1, <1>2, NonceRecorded DEF NonceRecords
<1>4. /\ nonces' = [nonces EXCEPT ![r.nonce] = e] /\ recovering' = recovering \cup {r}
      /\ UNCHANGED <<now, signInWallet, tabs, cookie, posted, sessions, overtaken>>
  BY <1>2 DEF SignIn!ConsumeNonce
<1>5. /\ nonces' \in Seq(NonceRecords) /\ DOMAIN nonces' = DOMAIN nonces
      /\ nonces'[r.nonce] = e /\ \A i \in DOMAIN nonces \ {r.nonce} : nonces'[i] = nonces[i]
  BY <1>1, <1>4, NonceRecorded, ExceptSeq
<1>6. NoncesKept /\ CookieKept
  BY <1>3, <1>4, <1>5 DEF NoncesKept, CookieKept
<1>7. SignIn!WithinRate'
  BY <1>3, <1>5, RateKept DEF SignInInv
<1>8. EveryTabGood'
  BY <1>4, <1>6, TabsStay DEF SignInInv
<1>9. UsedOnce'
  <2>1. UsedOnce /\ recovering \subseteq posted
    BY NonceRecorded DEF SignInInv, SessionsSound
  <2>2. \A q \in recovering : q.nonce # r.nonce
    BY <1>1, <2>1 DEF UsedOnce
  <2>3. \A i \in DOMAIN sessions : sessions[i].nonce # r.nonce
    BY <1>1, <2>1 DEF UsedOnce
  <2>4. nonces'[r.nonce].consumed
    BY <1>3, <1>5
  <2>5. (\A q \in recovering : nonces[q.nonce].consumed)'
    BY <1>4, <1>5, <2>1, <2>2, <2>4 DEF UsedOnce
  <2>6. (\A q, s \in recovering : q.nonce = s.nonce => q = s)'
    BY <1>4, <2>1, <2>2 DEF UsedOnce
  <2>7. (\A i \in DOMAIN sessions : \A q \in recovering : q.nonce # sessions[i].nonce)'
    BY <1>4, <2>1, <2>3 DEF UsedOnce
  <2>8. (\A i \in DOMAIN sessions : /\ sessions[i].nonce \in DOMAIN nonces
                                    /\ nonces[sessions[i].nonce].consumed)'
    BY <1>4, <1>6, <2>1 DEF UsedOnce, NoncesKept
  <2> QED BY <1>4, <1>5, <2>1, <2>5, <2>6, <2>7, <2>8 DEF UsedOnce
<1>10. SignIn!OneSessionPerChallenge'
  <2>1. UsedOnce /\ SignIn!OneSessionPerChallenge
    BY DEF SignInInv, SessionsSound
  <2> QED BY <1>4, <1>6, <2>1 DEF SignIn!OneSessionPerChallenge, UsedOnce, NoncesKept
<1>11. SignInTypes'
  BY <1>4, <1>5 DEF SignInInv, SignInTypes
<1> QED BY <1>7, <1>8, <1>9, <1>10, <1>11 DEF SignInInv, SessionsSound

LEMMA SignInRecovered ==
  ASSUME SignInInv, NEW r \in recovering, NEW answered \in BOOLEAN, SignIn!Recovered(r, answered)
  PROVE SignInInv'
<1> DEFINE awaited == SignIn!At(r.tab, "verifying") /\ tabs[r.tab].nonce = r.nonce
           valid == answered /\ r.signer = nonces[r.nonce].address
           last == Len(sessions) + 1
<1>1. /\ UsedOnce /\ SignIn!OneSessionPerChallenge /\ r \in posted
      /\ r.tab \in Tabs /\ r.nonce \in Nat /\ r.signer \in Addresses /\ r.nonce \in DOMAIN nonces
  <2>1. UsedOnce /\ SignIn!OneSessionPerChallenge /\ r \in posted /\ r \in PostRecords
    BY NonceRecorded DEF SignInInv, SessionsSound
  <2> QED BY <2>1 DEF UsedOnce, PostRecords
<1>2. UNCHANGED <<now, signInWallet, nonces, posted>> /\ recovering' = recovering \ {r}
  BY DEF SignIn!Recovered
<1>3. NoncesKept /\ SignIn!WithinRate'
  BY <1>2, RateKept DEF NoncesKept, SignInInv
<1>4. CASE ~valid
  <2>1. /\ UNCHANGED <<sessions, cookie>>
        /\ IF awaited THEN SignIn!Ends(r.tab) ELSE UNCHANGED <<tabs, overtaken>>
    BY <1>4 DEF SignIn!Recovered
  <2>2. SessionsSound'
    BY <1>2, <1>3, <2>1, NonceRecorded, SessionsKept DEF SignInInv
  <2>3. CookieKept
    BY <2>1 DEF CookieKept
  <2>4. tabs' \in [Tabs -> TabStates] /\ EveryTabGood'
    <3>1. CASE awaited
      <4>1. /\ tabs' = [tabs EXCEPT ![r.tab] = SignIn!Idle]
            /\ \A u \in Tabs \ {r.tab} : u \in overtaken => u \in overtaken'
        BY <2>1, <3>1 DEF SignIn!Ends
      <4>2. TabGood(SignIn!Idle, r.tab \notin overtaken)'
        BY IdleTab DEF TabGood
      <4> QED BY <1>1, <1>3, <2>3, <4>1, <4>2, IdleTab, TabChanges
    <3>2. CASE ~awaited
      BY <1>3, <2>1, <2>3, <3>2, NonceRecorded, TabsStay DEF SignInInv
    <3> QED BY <3>1, <3>2
  <2>5. SignInTypes'
    BY <1>2, <2>1, <2>4 DEF SignInInv, SignInTypes
  <2> QED BY <1>3, <2>2, <2>4, <2>5 DEF SignInInv
<1>5. CASE valid
  <2>1. PICK e \in SessionRecords :
          e = [address |-> r.signer, nonce |-> r.nonce, revoked |-> FALSE, expires |-> now + SessionTTL]
    <3>1. now + SessionTTL \in Nat
      BY NonceRecorded, SignInConstants
    <3>2. [address |-> r.signer, nonce |-> r.nonce, revoked |-> FALSE, expires |-> now + SessionTTL]
            \in SessionRecords
      BY <1>1, <3>1 DEF SessionRecords
    <3> QED BY <3>2
  <2>2. e.address = nonces[r.nonce].address /\ e.address = r.signer /\ e.nonce = r.nonce
    BY <1>5, <2>1
  <2>3. /\ sessions' = Append(sessions, e)
        /\ IF awaited
           THEN /\ tabs' = [tabs EXCEPT ![r.tab].at = "connected"] /\ cookie' = last
                /\ overtaken' = overtaken \cup SignIn!Others(r.tab)
           ELSE UNCHANGED <<cookie, tabs, overtaken>>
    BY <1>5, <2>1 DEF SignIn!Recovered, SignIn!Goes
  <2>4. /\ sessions' \in Seq(SessionRecords) /\ DOMAIN sessions' = DOMAIN sessions \cup {last}
        /\ Len(sessions') = last /\ sessions'[last] = e
        /\ \A i \in DOMAIN sessions : sessions'[i] = sessions[i] /\ i # last
    BY <2>3, NonceRecorded, AppendProperties
  <2>5. UsedOnce'
    <3>1. (\A q \in posted : q.nonce \in DOMAIN nonces)' /\ (\A q \in recovering : nonces[q.nonce].consumed)'
          /\ (\A q, s \in recovering : q.nonce = s.nonce => q = s)'
      BY <1>1, <1>2 DEF UsedOnce
    <3>2. ASSUME NEW i \in DOMAIN sessions'
          PROVE  /\ sessions'[i].nonce \in DOMAIN nonces' /\ nonces'[sessions'[i].nonce].consumed
                 /\ \A q \in recovering' : q.nonce # sessions'[i].nonce
      <4>1. CASE i \in DOMAIN sessions
        BY <1>1, <1>2, <2>4, <4>1 DEF UsedOnce
      <4>2. CASE i = last
        BY <1>1, <1>2, <2>2, <2>4, <4>2 DEF UsedOnce
      <4> QED BY <2>4, <4>1, <4>2
    <3> QED BY <3>1, <3>2 DEF UsedOnce
  <2>6. SignIn!OneSessionPerChallenge'
    <3>1. \A i \in DOMAIN sessions : sessions[i].nonce # r.nonce
      BY <1>1 DEF UsedOnce
    <3>2. ASSUME NEW i \in DOMAIN sessions', NEW j \in DOMAIN sessions',
                 sessions'[i].nonce = sessions'[j].nonce
          PROVE  i = j
      BY <1>1, <2>2, <2>4, <3>1, <3>2 DEF SignIn!OneSessionPerChallenge
    <3>3. ASSUME NEW i \in DOMAIN sessions'
          PROVE  /\ sessions'[i].address = nonces'[sessions'[i].nonce].address
                 /\ \E q \in posted' : q.nonce = sessions'[i].nonce /\ q.signer = sessions'[i].address
      <4>1. CASE i \in DOMAIN sessions
        BY <1>1, <1>2, <2>4, <4>1 DEF SignIn!OneSessionPerChallenge
      <4>2. CASE i = last
        BY <1>1, <1>2, <2>2, <2>4, <4>2
      <4> QED BY <2>4, <4>1, <4>2
    <3> QED BY <3>2, <3>3 DEF SignIn!OneSessionPerChallenge
  <2>7. CASE awaited
    <3> DEFINE t == r.tab
    <3>1. tabs[t] \in TabStates /\ tabs[t].at = "verifying" /\ tabs[t].nonce = r.nonce
          /\ TabGood(tabs[t], t \notin overtaken)
      BY <1>1, <2>7, NonceRecorded DEF SignIn!At
    <3>2. PICK s \in TabStates : s = [tabs[t] EXCEPT !.at = "connected"]
      <4>1. [tabs[t] EXCEPT !.at = "connected"] \in TabStates
        BY <3>1 DEF TabStates, TabSteps
      <4> QED BY <4>1
    <3>3. s.at = "connected" /\ s.as = tabs[t].as /\ s.account = tabs[t].account
      BY <3>1, <3>2 DEF TabStates
    <3>4. /\ tabs' = [tabs EXCEPT ![t] = s] /\ cookie' = last
          /\ overtaken' = overtaken \cup SignIn!Others(t)
      BY <2>3, <2>7, <3>2
    <3>5. \A u \in Tabs \ {t} : /\ u \in overtaken => u \in overtaken'
                                /\ tabs[u].at # "connected" \/ u \in overtaken'
      BY <3>4 DEF SignIn!Others
    <3>6. t \notin overtaken' => t \notin overtaken
      BY <3>4
    <3>7. last # 0
      BY NonceRecorded
    <3>8. cookie' # 0 /\ sessions'[cookie'] = e
      BY <2>4, <3>4, <3>7
    <3>9. TabGood(s, t \notin overtaken)'
      BY <2>2, <3>1, <3>3, <3>6, <3>8 DEF TabGood
    <3>10. tabs' \in [Tabs -> TabStates] /\ EveryTabGood'
      BY <1>1, <1>3, <3>4, <3>5, <3>9, TabChanges
    <3>11. cookie' \in 0..Len(sessions')
      BY <2>4, <3>4, NonceRecorded
    <3>12. SignInTypes'
      BY <1>2, <2>4, <3>10, <3>11 DEF SignInInv, SignInTypes
    <3> QED BY <1>3, <2>5, <2>6, <3>10, <3>12 DEF SignInInv, SessionsSound
  <2>8. CASE ~awaited
    <3>1. UNCHANGED <<cookie, tabs, overtaken>>
      BY <2>3, <2>8
    <3>2. cookie \in 0..Len(sessions) /\ cookie' \in 0..Len(sessions')
          /\ (cookie # 0 => cookie \in DOMAIN sessions)
      BY <2>4, <3>1, NonceRecorded DEF SignInInv, SignInTypes
    <3>3. CookieKept
      BY <2>4, <3>1, <3>2 DEF CookieKept
    <3>4. EveryTabGood'
      BY <1>3, <3>1, <3>3, TabsStay DEF SignInInv
    <3>5. SignInTypes'
      BY <1>2, <2>4, <3>1, <3>2 DEF SignInInv, SignInTypes
    <3> QED BY <1>3, <2>5, <2>6, <3>4, <3>5 DEF SignInInv, SessionsSound
  <2> QED BY <2>7, <2>8
<1> QED BY <1>4, <1>5

LEMMA SignInLogout ==
  ASSUME SignInInv, SignIn!Logout
  PROVE SignInInv'
<1>1. cookie \in 1..Len(sessions)
  BY NonceRecorded DEF SignInInv, SignInTypes, SignIn!Logout
<1>2. PICK e \in SessionRecords : e = [sessions[cookie] EXCEPT !.revoked = TRUE]
  <2>1. sessions[cookie] \in SessionRecords
    BY <1>1, NonceRecorded
  <2>2. [sessions[cookie] EXCEPT !.revoked = TRUE] \in SessionRecords
    BY <2>1 DEF SessionRecords
  <2> QED BY <2>2
<1>3. e.address = sessions[cookie].address /\ e.nonce = sessions[cookie].nonce
  <2>1. sessions[cookie] \in SessionRecords
    BY <1>1, NonceRecorded
  <2> QED BY <1>2, <2>1 DEF SessionRecords
<1>4. /\ sessions' = [sessions EXCEPT ![cookie] = e] /\ cookie' = 0
      /\ overtaken' = overtaken \cup {t \in Tabs : tabs[t].at # "idle"}
      /\ UNCHANGED <<now, signInWallet, tabs, nonces, posted, recovering>>
  BY <1>2 DEF SignIn!Logout
<1>5. /\ sessions' \in Seq(SessionRecords) /\ Len(sessions') = Len(sessions)
      /\ DOMAIN sessions' = DOMAIN sessions /\ sessions'[cookie] = e
      /\ \A i \in DOMAIN sessions \ {cookie} : sessions'[i] = sessions[i]
  BY <1>1, <1>4, NonceRecorded, ExceptSeq
<1>6. NoncesKept /\ SignIn!WithinRate'
  BY <1>4, RateKept DEF NoncesKept, SignInInv
<1>7. SessionsSound'
  BY <1>3, <1>4, <1>5, <1>6, NonceRecorded, SessionsKept DEF SignInInv
<1>8. EveryTabGood'
  <2> SUFFICES ASSUME NEW t \in Tabs PROVE TabGood(tabs[t], t \notin overtaken)'
    BY DEF EveryTabGood
  <2>1. tabs'[t] = tabs[t] /\ (tabs[t].at # "idle" => t \in overtaken')
    BY <1>4
  <2>2. TabGood(tabs[t], FALSE)
    BY NonceRecorded DEF TabGood
  <2>3. TabGood(tabs[t], t \notin overtaken')
    BY <2>1, <2>2 DEF TabGood
  <2> QED BY <1>4, <2>1, <2>3 DEF TabGood
<1>9. SignInTypes'
  BY <1>4, <1>5, NonceRecorded DEF SignInInv, SignInTypes
<1> QED BY <1>6, <1>7, <1>8, <1>9 DEF SignInInv

LEMMA SignInRefreshed ==
  ASSUME SignInInv, NEW t \in Tabs, SignIn!RefreshEnds(t),
         ~SignIn!At(t, "idle"), refreshing[t] \notin {Nobody, tabs[t].account}
  PROVE SignInInv'
<1>1. PICK account \in Addresses : account = refreshing[t]
  BY DEF SignIn!RefreshEnds
<1>2. PICK s \in TabStates : s = [tabs[t] EXCEPT !.account = account]
  <2>1. tabs[t] \in TabStates
    BY NonceRecorded
  <2>2. [tabs[t] EXCEPT !.account = account] \in TabStates
    BY <2>1 DEF TabStates
  <2> QED BY <2>2
<1>3. s.at = tabs[t].at /\ s.nonce = tabs[t].nonce /\ s.account = account
  BY <1>2, NonceRecorded DEF TabStates
<1>4. tabs' = [tabs EXCEPT ![t] = s] /\ overtaken' = overtaken \cup {t}
  BY <1>1, <1>2 DEF SignIn!RefreshEnds
<1>5. TabGood(s, t \notin overtaken')
  BY <1>3, <1>4, NonceRecorded DEF TabGood
<1> QED BY <1>4, <1>5, TabMoves, NonceRecorded DEF SignIn!RefreshEnds, SignIn!backend

LEMMA SignInStep == SignInInv /\ [SignIn!Next]_signinVars => SignInInv'
<1> SUFFICES ASSUME SignInInv, [SignIn!Next]_signinVars PROVE SignInInv'
  OBVIOUS
<1>1. ASSUME UNCHANGED <<tabs, cookie, nonces, sessions, posted, recovering, overtaken>>,
             now' \in Nat, signInWallet' \in Addresses
      PROVE  SignInInv'
  <2>1. NoncesKept /\ CookieKept /\ SessionsSound' /\ SignIn!WithinRate'
    BY <1>1, BackendStays DEF CookieKept
  <2>2. EveryTabGood'
    BY <1>1, <2>1, TabsStay DEF SignInInv
  <2>3. SignInTypes'
    BY <1>1 DEF SignInInv, SignInTypes
  <2> QED BY <2>1, <2>2, <2>3 DEF SignInInv
<1>2. CASE SignIn!Tick
  BY <1>1, <1>2, NonceRecorded DEF SignIn!Tick, SignIn!backend
<1>3. CASE SignIn!WalletChanges
  BY <1>1, <1>3, NonceRecorded DEF SignIn!WalletChanges, SignIn!backend
<1>4. CASE SignIn!Logout
  BY <1>4, SignInLogout
<1>5. ASSUME NEW t \in Tabs,
             \/ SignIn!ConnectNetwork(t) \/ SignIn!ReadSession(t) \/ SignIn!Challenge(t)
             \/ SignIn!SignLogin(t)
      PROVE  SignInInv'
  BY <1>5, SignInConnects, SignInChallenged, SignInSigned
<1>6. ASSUME NEW t \in Tabs, SignIn!Leaves(t) PROVE SignInInv'
  BY <1>6, TabEnds DEF SignIn!Leaves, SignIn!backend
<1>7. ASSUME NEW t \in Tabs, SignIn!RefreshStarts(t) PROVE SignInInv'
  BY <1>1, <1>7, NonceRecorded DEF SignIn!RefreshStarts, SignIn!backend
<1>8. ASSUME NEW t \in Tabs, SignIn!RefreshEnds(t) PROVE SignInInv'
  <2>1. CASE ~SignIn!At(t, "idle") /\ refreshing[t] \notin {Nobody, tabs[t].account}
    BY <1>8, <2>1, SignInRefreshed
  <2>2. CASE ~(~SignIn!At(t, "idle") /\ refreshing[t] \notin {Nobody, tabs[t].account})
    BY <1>1, <1>8, <2>2, NonceRecorded DEF SignIn!RefreshEnds, SignIn!backend
  <2> QED BY <2>1, <2>2
<1>9. ASSUME NEW r \in posted, SignIn!ConsumeNonce(r) PROVE SignInInv'
  BY <1>9, SignInConsumed
<1>10. ASSUME NEW r \in posted, SignIn!Refused(r) PROVE SignInInv'
  <2>1. r.tab \in Tabs
    BY NonceRecorded DEF PostRecords
  <2> QED BY <1>10, <2>1, TabEnds DEF SignIn!Refused, SignIn!backend
<1>11. ASSUME NEW r \in recovering, NEW answered \in BOOLEAN, SignIn!Recovered(r, answered)
       PROVE  SignInInv'
  BY <1>11, SignInRecovered
<1>12. CASE UNCHANGED signinVars
  BY <1>1, <1>12, NonceRecorded DEF signinVars
<1> QED
  BY <1>2, <1>3, <1>4, <1>5, <1>6, <1>7, <1>8, <1>9, <1>10, <1>11, <1>12 DEF SignIn!Next

\* xlayer_auth.py:75-83, mvp_store.py:240-246, xlayer.js:77-88: whatever the tabs,
\* accounts, lifetimes and limit, a challenge makes one session, of an address that
\* signed it; no address gets more than its share of challenges in a window; and a
\* tab that nothing has overtaken is signed in as the account it connected.
THEOREM SignInSoundAlways == Spec => []SignInSound
<1>1. Init => SignInInv
  BY SignInInit DEF Init
<1>2. SignInInv /\ [Next]_vars => SignInInv'
  BY SignInStep DEF Next, vars
<1>3. SignInInv => SignInSound
  <2> SUFFICES ASSUME SignInInv
               PROVE SignIn!OneSessionPerChallenge /\ SignIn!WithinRate /\ SignIn!ConnectedAs
    BY DEF SignInSound, SignIn!SignInSound
  <2>1. SignIn!ConnectedAs
    BY NonceRecorded DEF TabGood, SignIn!ConnectedAs, SignIn!At
  <2> QED BY <2>1 DEF SignInInv, SessionsSound
<1> QED BY <1>1, <1>2, <1>3, PTL DEF Spec

\* What signing in counts and keeps: tabs and challenges of the past.
SignInTyped ==
  /\ now <= MaxTime /\ changes \in 0..MaxChanges /\ overtaken \subseteq Tabs
  /\ refreshing \in [Tabs -> Addresses \cup {Nobody, "no"}]
  /\ \A t \in Tabs : tabs[t].nonce <= Len(nonces)
  /\ \A i \in DOMAIN nonces : nonces[i].at <= now

LEMMA SignInTypedInit == SignIn!Init => SignInTyped
<1> SUFFICES ASSUME SignIn!Init PROVE SignInTyped
  OBVIOUS
<1>1. MaxTime \in Nat /\ MaxChanges \in Nat
  BY ComponentsAssumption DEF SignIn!BoundsAreNumbers
<1>2. /\ now = 0 /\ changes = 0 /\ overtaken = {} /\ nonces = <<>>
      /\ tabs = [t \in Tabs |-> SignIn!Idle] /\ refreshing = [t \in Tabs |-> "no"]
  BY DEF SignIn!Init
<1>3. \A t \in Tabs : tabs[t].nonce = 0
  BY <1>2 DEF SignIn!Idle
<1> QED BY <1>1, <1>2, <1>3 DEF SignInTyped

LEMMA ChallengeRecorded ==
  SignInInv => \A i \in DOMAIN nonces : nonces[i].address \in Addresses /\ nonces[i].at \in Nat
<1> SUFFICES ASSUME SignInInv, NEW i \in DOMAIN nonces
             PROVE  nonces[i].address \in Addresses /\ nonces[i].at \in Nat
  OBVIOUS
<1>1. nonces[i] \in NonceRecords
  BY NonceRecorded
<1> QED BY <1>1 DEF NonceRecords

LEMMA SignInTypeOK == SignInInv /\ SignInTyped => SignIn!TypeOK
<1> SUFFICES ASSUME SignInInv, SignInTyped PROVE SignIn!TypeOK
  OBVIOUS
<1>1. MaxTime \in Nat /\ MaxChanges \in Nat
  BY ComponentsAssumption DEF SignIn!BoundsAreNumbers
<1>2. now \in 0..MaxTime /\ cookie \in 0..Len(sessions)
  BY <1>1 DEF SignInInv, SignInTypes, SignInTyped
<1>3. ASSUME NEW t \in Tabs
      PROVE  /\ tabs[t].at \in TabSteps /\ {tabs[t].as, tabs[t].account} \subseteq Addresses \cup {Nobody}
             /\ tabs[t].nonce \in 0..Len(nonces) /\ refreshing[t] \in Addresses \cup {Nobody, "no"}
  BY NonceRecorded DEF SignInTyped, TabStates
<1>4. ASSUME NEW i \in DOMAIN nonces PROVE nonces[i].address \in Addresses /\ nonces[i].at \in 0..now
  BY <1>2, <1>4, ChallengeRecorded DEF SignInTyped
<1> QED BY <1>2, <1>3, <1>4, NonceRecorded DEF SignInTyped, SignIn!TypeOK, TabSteps

\* The session that a cookie names is of an account.
LEMMA SessionAccount == SignInInv => SignIn!SessionAddress \in Addresses \cup {Nobody}
<1> SUFFICES ASSUME SignInInv, cookie # 0 PROVE sessions[cookie].address \in Addresses
  BY DEF SignIn!SessionAddress
<1>1. cookie \in DOMAIN sessions
  BY NonceRecorded DEF SignInInv, SignInTypes
<1>2. sessions[cookie] \in SessionRecords
  BY <1>1, NonceRecorded
<1> QED BY <1>2 DEF SessionRecords

\* What a tab has asked for has been given: its challenge is one of those recorded.
LEMMA SignInTypedStep ==
  ASSUME SignInInv, SignInInv', SignInTyped, UNCHANGED signinVars \/ SignIn!Next
  PROVE  SignInTyped'
<1>1. MaxTime \in Nat /\ MaxChanges \in Nat
  BY ComponentsAssumption DEF SignIn!BoundsAreNumbers
<1>2. /\ now \in Nat /\ now <= MaxTime /\ changes \in Nat /\ changes <= MaxChanges /\ overtaken \subseteq Tabs
      /\ refreshing \in [Tabs -> Addresses \cup {Nobody, "no"}]
      /\ \A t \in Tabs : tabs[t] \in TabStates /\ tabs[t].nonce \in Nat /\ tabs[t].nonce <= Len(nonces)
      /\ \A i \in DOMAIN nonces : nonces[i].at \in Nat /\ nonces[i].at <= now
      /\ tabs \in [Tabs -> TabStates] /\ Len(nonces) \in Nat /\ nonces \in Seq(NonceRecords)
  BY <1>1, NonceRecorded, ChallengeRecorded DEF SignInTyped, TabStates
<1>3. Len(nonces') \in Nat /\ DOMAIN nonces' = 1..Len(nonces')
  BY DEF SignInInv, SignInTypes
<1> DEFINE TimesGo == now' \in Nat /\ now <= now' /\ now' <= MaxTime /\ changes' \in 0..MaxChanges
           Overtakes == overtaken' \subseteq Tabs /\ refreshing' \in [Tabs -> Addresses \cup {Nobody, "no"}]
           TabsKnow == \A t \in Tabs : tabs'[t].nonce <= Len(nonces')
           Past == \A i \in DOMAIN nonces' : nonces'[i].at <= now
<1>4. TimesGo
  <2>1. CASE SignIn!Tick
    BY <1>1, <1>2, <2>1 DEF SignIn!Tick
  <2>2. CASE SignIn!WalletChanges
    BY <1>1, <1>2, <2>2 DEF SignIn!WalletChanges
  <2>3. CASE SignIn!Logout \/ UNCHANGED signinVars
    BY <1>1, <1>2, <2>3 DEF SignIn!Logout, signinVars
  <2>4. ASSUME NEW t \in Tabs, \/ SignIn!ConnectNetwork(t) \/ SignIn!ReadSession(t) \/ SignIn!Challenge(t)
                               \/ SignIn!SignLogin(t) \/ SignIn!Leaves(t) \/ SignIn!RefreshStarts(t)
                               \/ SignIn!RefreshEnds(t)
        PROVE  TimesGo
    BY <1>1, <1>2, <2>4 DEF SignIn!ConnectNetwork, SignIn!ReadSession, SignIn!Challenge, SignIn!SignLogin,
      SignIn!Leaves, SignIn!RefreshStarts, SignIn!RefreshEnds
  <2>5. ASSUME NEW r, \/ SignIn!ConsumeNonce(r) \/ SignIn!Refused(r)
                      \/ \E answered \in BOOLEAN : SignIn!Recovered(r, answered)
        PROVE  TimesGo
    BY <1>1, <1>2, <2>5 DEF SignIn!ConsumeNonce, SignIn!Refused, SignIn!Recovered
  <2> QED BY <2>1, <2>2, <2>3, <2>4, <2>5 DEF SignIn!Next
<1>5. Overtakes
  <2>1. CASE SignIn!Tick \/ SignIn!WalletChanges \/ UNCHANGED signinVars
    BY <1>2, <2>1 DEF SignIn!Tick, SignIn!WalletChanges, signinVars
  <2>2. CASE SignIn!Logout
    BY <1>2, <2>2 DEF SignIn!Logout
  <2>3. ASSUME NEW t \in Tabs, \/ SignIn!ConnectNetwork(t) \/ SignIn!ReadSession(t) \/ SignIn!Challenge(t)
                               \/ SignIn!SignLogin(t) \/ SignIn!Leaves(t)
        PROVE  Overtakes
    BY <1>2, <2>3 DEF SignIn!ConnectNetwork, SignIn!ReadSession, SignIn!Challenge, SignIn!SignLogin,
      SignIn!Leaves, SignIn!Ends
  <2>4. ASSUME NEW t \in Tabs, SignIn!RefreshStarts(t) PROVE Overtakes
    BY <1>2, <2>4, SessionAccount DEF SignIn!RefreshStarts
  <2>5. ASSUME NEW t \in Tabs, SignIn!RefreshEnds(t) PROVE Overtakes
    BY <1>2, <2>5 DEF SignIn!RefreshEnds
  <2>6. ASSUME NEW r, \/ SignIn!ConsumeNonce(r) \/ SignIn!Refused(r)
                      \/ \E answered \in BOOLEAN : SignIn!Recovered(r, answered)
        PROVE  Overtakes
    BY <1>2, <2>6 DEF SignIn!ConsumeNonce, SignIn!Refused, SignIn!Recovered, SignIn!Others, SignIn!Ends
  <2> QED BY <2>1, <2>2, <2>3, <2>4, <2>5, <2>6 DEF SignIn!Next
<1>6. TabsKnow /\ Past
  <2>1. ASSUME UNCHANGED <<tabs, nonces>> PROVE TabsKnow /\ Past
    BY <1>2, <2>1
  <2>2. ASSUME UNCHANGED nonces, NEW t \in Tabs, NEW s \in TabStates, tabs' = [tabs EXCEPT ![t] = s],
               s.nonce <= Len(nonces)
        PROVE  TabsKnow /\ Past
    BY <1>2, <2>2
  <2>3. ASSUME UNCHANGED nonces, NEW t \in Tabs, SignIn!Ends(t) PROVE TabsKnow /\ Past
    <3>1. SignIn!Idle \in TabStates /\ SignIn!Idle.nonce <= Len(nonces)
      BY <1>2, IdleTab DEF SignIn!Idle
    <3> QED BY <2>2, <2>3, <3>1 DEF SignIn!Ends
  <2>4. ASSUME UNCHANGED nonces, NEW t \in Tabs, NEW at \in TabSteps, SignIn!Goes(t, at)
        PROVE  TabsKnow /\ Past
    <3>1. PICK s : s = [tabs[t] EXCEPT !.at = at]
      OBVIOUS
    <3>2. s \in TabStates /\ s.nonce = tabs[t].nonce
      BY <1>2, <3>1 DEF TabStates
    <3>3. tabs' = [tabs EXCEPT ![t] = s]
      BY <2>4, <3>1 DEF SignIn!Goes
    <3>4. s.nonce <= Len(nonces)
      BY <1>2, <3>2
    <3> HIDE DEF TabsKnow, Past
    <3> QED BY <2>2, <2>4, <3>2, <3>3, <3>4
  <2>5. CASE SignIn!Tick \/ SignIn!WalletChanges \/ SignIn!Logout \/ UNCHANGED signinVars
    BY <2>1, <2>5 DEF SignIn!Tick, SignIn!WalletChanges, SignIn!Logout, SignIn!backend, signinVars
  <2>6. ASSUME NEW t \in Tabs, SignIn!ConnectNetwork(t) PROVE TabsKnow /\ Past
    <3>1. PICK s : s = [at |-> "session", as |-> signInWallet, account |-> signInWallet, nonce |-> 0]
      OBVIOUS
    <3>2. s \in TabStates /\ s.nonce <= Len(nonces)
      BY <1>2, <3>1, NonceRecorded DEF TabStates, TabSteps
    <3> HIDE DEF TabsKnow, Past
    <3> QED BY <2>2, <2>6, <3>1, <3>2 DEF SignIn!ConnectNetwork, SignIn!backend
  <2>7. ASSUME NEW t \in Tabs, SignIn!ReadSession(t) \/ SignIn!SignLogin(t) PROVE TabsKnow /\ Past
    <3>1. \E at \in TabSteps : SignIn!Goes(t, at)
      BY <2>7 DEF SignIn!ReadSession, SignIn!SignLogin, TabSteps
    <3>2. UNCHANGED nonces
      BY <2>7 DEF SignIn!ReadSession, SignIn!SignLogin, SignIn!backend
    <3> HIDE DEF TabsKnow, Past
    <3> QED BY <2>4, <3>1, <3>2
  <2>8. ASSUME NEW t \in Tabs, SignIn!Challenge(t) PROVE TabsKnow /\ Past
    <3>1. CASE SignIn!Ends(t) /\ UNCHANGED nonces
      BY <2>3, <3>1
    <3>2. CASE /\ nonces' = Append(nonces, [address |-> tabs[t].account, at |-> now, consumed |-> FALSE])
               /\ tabs' = [tabs EXCEPT ![t].at = "signing", ![t].nonce = Len(nonces) + 1]
      <4>1. PICK e : e = [address |-> tabs[t].account, at |-> now, consumed |-> FALSE]
        OBVIOUS
      <4>2. /\ Len(nonces') = Len(nonces) + 1 /\ nonces'[Len(nonces) + 1] = e
            /\ \A i \in 1..Len(nonces) : nonces'[i] = nonces[i]
        BY <1>2, <3>2, <4>1, AppendProperties DEF SignInInv, SignInTypes
      <4>3. Past
        BY <1>2, <1>3, <4>1, <4>2
      <4>4. tabs'[t].nonce = Len(nonces) + 1 /\ \A u \in Tabs \ {t} : tabs'[u] = tabs[u]
        BY <1>2, <3>2 DEF TabStates
      <4> QED BY <1>2, <4>2, <4>3, <4>4
    <3> HIDE DEF TabsKnow, Past
    <3> QED BY <2>8, <3>1, <3>2 DEF SignIn!Challenge
  <2>9. ASSUME NEW t \in Tabs, SignIn!Leaves(t) PROVE TabsKnow /\ Past
    BY <2>3, <2>9 DEF SignIn!Leaves, SignIn!backend
  <2>10. ASSUME NEW t \in Tabs, SignIn!RefreshStarts(t) PROVE TabsKnow /\ Past
    BY <2>1, <2>10 DEF SignIn!RefreshStarts, SignIn!backend
  <2>11. ASSUME NEW t \in Tabs, SignIn!RefreshEnds(t) PROVE TabsKnow /\ Past
    <3>1. UNCHANGED nonces
      BY <2>11 DEF SignIn!RefreshEnds, SignIn!backend
    <3>2. CASE UNCHANGED tabs
      BY <2>1, <3>1, <3>2
    <3>3. CASE tabs' = [tabs EXCEPT ![t].account = refreshing[t]]
      <4>1. \A u \in Tabs : tabs'[u].nonce = tabs[u].nonce
        BY <1>2, <3>3 DEF TabStates
      <4> QED BY <1>2, <3>1, <4>1
    <3> QED BY <2>11, <3>2, <3>3 DEF SignIn!RefreshEnds
  <2>12. ASSUME NEW r \in posted, SignIn!ConsumeNonce(r) PROVE TabsKnow /\ Past
    <3>1. nonces' = [nonces EXCEPT ![r.nonce].consumed = TRUE] /\ UNCHANGED tabs
      BY <2>12 DEF SignIn!ConsumeNonce
    <3>2. DOMAIN nonces' = DOMAIN nonces /\ \A i \in DOMAIN nonces : nonces'[i].at = nonces[i].at
      BY <1>2, <3>1 DEF NonceRecords
    <3>3. Len(nonces') = Len(nonces)
      BY <1>2, <1>3, <3>2, LenProperties
    <3> QED BY <1>2, <3>1, <3>2, <3>3
  <2>13. ASSUME NEW r \in posted, SignIn!Refused(r) PROVE TabsKnow /\ Past
    <3>1. r.tab \in Tabs
      BY <2>13, NonceRecorded DEF PostRecords
    <3> HIDE DEF TabsKnow, Past
    <3> QED BY <2>3, <2>13, <3>1 DEF SignIn!Refused, SignIn!backend
  <2>14. ASSUME NEW r \in recovering, NEW answered \in BOOLEAN, SignIn!Recovered(r, answered)
         PROVE TabsKnow /\ Past
    <3>1. r.tab \in Tabs
      BY <2>14, NonceRecorded DEF PostRecords
    <3>2. UNCHANGED nonces /\ "connected" \in TabSteps
      BY <2>14 DEF SignIn!Recovered, TabSteps
    <3>3. SignIn!Goes(r.tab, "connected") \/ SignIn!Ends(r.tab) \/ UNCHANGED tabs
      BY <2>14 DEF SignIn!Recovered
    <3> HIDE DEF TabsKnow, Past
    <3> QED BY <2>1, <2>3, <2>4, <3>1, <3>2, <3>3
  <2> HIDE DEF TabsKnow, Past
  <2> QED BY <2>5, <2>6, <2>7, <2>8, <2>9, <2>10, <2>11, <2>12, <2>13, <2>14 DEF SignIn!Next
<1>7. \A i \in DOMAIN nonces' : nonces'[i].at <= now'
  <2>1. \A i \in DOMAIN nonces' : nonces'[i].at \in Nat
    <3>1. \A i \in DOMAIN nonces' : nonces'[i] \in NonceRecords
      BY DEF SignInInv, SignInTypes
    <3> QED BY <3>1 DEF NonceRecords
  <2> QED BY <1>2, <1>4, <1>6, <2>1
<1> QED BY <1>4, <1>5, <1>6, <1>7 DEF SignInTyped

-----------------------------------------------------------------------------
(* The chat page.                                                           *)

Keys == {"none", "personal", "public-readonly"}
ReplyRecords ==
  [at : {"unused", "fetching", "reading", "over"}, session : Keys, aborted : BOOLEAN,
   text : BOOLEAN, row : {"none", "streaming", "stopped", "complete", "error"}]
CheckRecords == [at : {"no", "status", "history", "resolved"}, key : Keys, enabled : BOOLEAN]
Numbers == 1..MaxReplies

ChatTypes ==
  /\ chatServer \in Chat!Modes /\ contextKey \in Keys /\ checking \in CheckRecords
  /\ waiting \in SUBSET ({0} \cup Numbers) /\ replies \in [Numbers -> ReplyRecords]
  /\ controller \in {0} \cup Numbers

Streams(r) == r.at \in {"fetching", "reading"}

\* The stream the page knows is the one there is.
OneStream ==
  /\ \A i \in Numbers : Streams(replies[i]) <=> i = controller
  /\ sending <=> controller # 0
  /\ composer = "sending" <=> sending

\* What streams on after its session has gone is aborted.
SameSession ==
  /\ context.key = contextKey
  /\ \A i \in Numbers : Streams(replies[i]) /\ ~replies[i].aborted => replies[i].session = contextKey
  /\ Chat!TranscriptBelongs

ChatInv == ChatTypes /\ OneStream /\ SameSession

LEMMA ChatInit == Chat!Init => ChatInv
<1> SUFFICES ASSUME Chat!Init PROVE ChatInv
  OBVIOUS
<1>1. /\ Chat!Unused \in ReplyRecords /\ ~Streams(Chat!Unused) /\ Chat!NotChecking \in CheckRecords
      /\ Chat!NoContext.key = "none"
  BY DEF Chat!Unused, ReplyRecords, Streams, Chat!NotChecking, CheckRecords, Keys, Chat!NoContext
<1>2. /\ chatServer \in Chat!Modes /\ context = Chat!NoContext /\ contextKey = "none"
      /\ checking = Chat!NotChecking /\ waiting = {} /\ log = {} /\ controller = 0
      /\ replies = [i \in Numbers |-> Chat!Unused] /\ ~sending /\ composer = "idle"
  BY DEF Chat!Init, Numbers
<1>3. 0 \notin Numbers
  BY DEF Numbers
<1>4. ChatTypes
  BY <1>1, <1>2 DEF ChatTypes, Keys
<1>5. OneStream
  BY <1>1, <1>2, <1>3 DEF OneStream
<1>6. SameSession
  BY <1>1, <1>2 DEF SameSession, Chat!TranscriptBelongs
<1> QED BY <1>4, <1>5, <1>6 DEF ChatInv

\* A reply that starts is of the session that is shown, and the only one.
LEMMA ChatStarts ==
  ASSUME ChatInv, NEW i \in Numbers, Chat!CanSend, Chat!Starts(i), UNCHANGED <<context, contextKey>>
  PROVE /\ replies' \in [Numbers -> ReplyRecords] /\ controller' \in {0} \cup Numbers
        /\ OneStream' /\ SameSession'
<1> USE DEF ChatInv
<1>1. controller = 0 /\ context.key = contextKey /\ contextKey \in Keys
  BY DEF Chat!CanSend, OneStream, SameSession, ChatTypes
<1>2. PICK r \in ReplyRecords :
        r = [Chat!Unused EXCEPT !.at = "fetching", !.session = context.key, !.row = "streaming"]
  <2>1. Chat!Unused \in ReplyRecords
    BY DEF Chat!Unused, ReplyRecords, Keys
  <2>2. [Chat!Unused EXCEPT !.at = "fetching", !.session = context.key, !.row = "streaming"]
          \in ReplyRecords
    BY <1>1, <2>1 DEF ReplyRecords
  <2> QED BY <2>2
<1>3. Streams(r) /\ r.session = contextKey
  BY <1>1, <1>2 DEF Chat!Unused, Streams
<1>4. /\ replies' = [replies EXCEPT ![i] = r] /\ sending' = TRUE /\ controller' = i
      /\ composer' = "sending" /\ log' = log \cup {Chat!Row(context.key, i)}
  BY <1>2 DEF Chat!Starts, Chat!SendMode
<1>5. /\ replies' \in [Numbers -> ReplyRecords] /\ replies'[i] = r
      /\ \A j \in Numbers \ {i} : replies'[j] = replies[j]
  BY <1>4 DEF ChatTypes
<1>6. 0 \notin Numbers
  BY DEF Numbers
<1>7. OneStream'
  BY <1>1, <1>3, <1>4, <1>5, <1>6 DEF OneStream
<1>8. Chat!TranscriptBelongs'
  BY <1>1, <1>4 DEF SameSession, Chat!TranscriptBelongs, Chat!Row
<1>9. SameSession'
  BY <1>1, <1>3, <1>5, <1>8 DEF SameSession
<1> QED BY <1>4, <1>5, <1>7, <1>9

\* Aborting stops what streams and changes nothing else.
LEMMA ChatAborts ==
  ASSUME ChatInv
  PROVE /\ Chat!Aborted(replies) \in [Numbers -> ReplyRecords]
        /\ \A i \in Numbers : /\ Streams(Chat!Aborted(replies)[i]) <=> Streams(replies[i])
                              /\ Streams(replies[i]) => Chat!Aborted(replies)[i].aborted
                              /\ Chat!Aborted(replies)[i].session = replies[i].session
<1> USE DEF ChatInv
<1>1. replies \in [Numbers -> ReplyRecords] /\ controller \in {0} \cup Numbers
  BY DEF ChatTypes
<1>2. CASE controller = 0
  <2>1. Chat!Aborted(replies) = replies
    BY <1>2 DEF Chat!Aborted
  <2>2. 0 \notin Numbers
    BY DEF Numbers
  <2>3. \A i \in Numbers : ~Streams(replies[i])
    BY <1>2, <2>2 DEF OneStream
  <2> QED BY <1>1, <2>1, <2>3
<1>3. CASE controller # 0
  <2>1. controller \in Numbers /\ replies[controller] \in ReplyRecords
    BY <1>1, <1>3
  <2>2. PICK r \in ReplyRecords : r = [replies[controller] EXCEPT !.aborted = TRUE]
    <3>1. [replies[controller] EXCEPT !.aborted = TRUE] \in ReplyRecords
      BY <2>1 DEF ReplyRecords
    <3> QED BY <3>1
  <2>3. r.at = replies[controller].at /\ r.session = replies[controller].session /\ r.aborted
    BY <2>1, <2>2 DEF ReplyRecords
  <2>4. Chat!Aborted(replies) = [replies EXCEPT ![controller] = r]
    BY <1>3, <2>2 DEF Chat!Aborted
  <2>5. /\ [replies EXCEPT ![controller] = r] \in [Numbers -> ReplyRecords]
        /\ [replies EXCEPT ![controller] = r][controller] = r
        /\ \A i \in Numbers \ {controller} : [replies EXCEPT ![controller] = r][i] = replies[i]
    BY <1>1, <2>1
  <2>6. \A i \in Numbers \ {controller} : ~Streams(replies[i])
    BY DEF OneStream
  <2> QED BY <2>3, <2>4, <2>5, <2>6 DEF Streams
<1> QED BY <1>2, <1>3

\* The check of the session leaves the streams alone.
LEMMA ChatChecks ==
  ASSUME ChatInv, UNCHANGED <<sending, replies, controller>>,
         Chat!Check \/ Chat!SendMode("idle") \/ UNCHANGED composer
  PROVE OneStream'
<1>1. composer' = "sending" <=> sending
  BY DEF ChatInv, OneStream, Chat!Check, Chat!SendMode
<1> QED BY <1>1 DEF ChatInv, OneStream

LEMMA ChatShown ==
  ASSUME ChatInv, UNCHANGED <<context, contextKey, replies, log>>
  PROVE SameSession'
  BY DEF ChatInv, SameSession, Chat!TranscriptBelongs

\* The transcript is replaced: what streams is aborted.
LEMMA ChatReplaced ==
  ASSUME ChatInv, replies' = Chat!Aborted(replies), UNCHANGED <<sending, controller>>,
         Chat!SendMode("idle"), context'.key = contextKey',
         \A row \in log' : row.session = contextKey'
  PROVE replies' \in [Numbers -> ReplyRecords] /\ OneStream' /\ SameSession'
<1>1. replies' \in [Numbers -> ReplyRecords]
  BY ChatAborts
<1>2. \A i \in Numbers : /\ Streams(replies'[i]) <=> Streams(replies[i])
                         /\ Streams(replies[i]) => replies'[i].aborted
  BY ChatAborts
<1>3. composer' = "sending" <=> sending
  BY DEF Chat!SendMode
<1>4. OneStream'
  BY <1>2, <1>3 DEF ChatInv, OneStream
<1>5. SameSession'
  BY <1>2 DEF SameSession, Chat!TranscriptBelongs
<1> QED BY <1>1, <1>4, <1>5

\* A check begins, or goes on.
LEMMA ChatCheckTypes ==
  ASSUME ChatInv, Chat!Check
  PROVE UNCHANGED sending /\ checking' \in CheckRecords
<1>1. [checking EXCEPT !.at = "status"] \in CheckRecords
  BY DEF ChatInv, ChatTypes, CheckRecords
<1> QED BY <1>1 DEF Chat!Check, ChatInv, ChatTypes

LEMMA ChatResumes == ASSUME ChatInv, Chat!Resumes PROVE ChatInv'
<1> USE DEF ChatInv
<1>1. PICK w \in waiting : IF w = 0 THEN Chat!Rendered ELSE Chat!Retried(w)
  BY DEF Chat!Resumes
<1>2. w \in {0} \cup Numbers /\ waiting \in SUBSET ({0} \cup Numbers)
  BY DEF ChatTypes
<1>3. /\ UNCHANGED <<chatServer, context, contextKey, checking>>
      /\ waiting' = waiting \ {w}
      /\ \/ Chat!CanSend /\ \E i \in Numbers : Chat!Starts(i)
         \/ UNCHANGED <<log, replies, sending, controller, composer>>
  <2>1. CASE w = 0
    BY <1>1, <2>1 DEF Chat!Rendered, Chat!stream, Chat!Fresh, Numbers
  <2>2. CASE w # 0
    BY <1>1, <1>2, <2>2 DEF Chat!Retried, Chat!stream
  <2> QED BY <2>1, <2>2
<1>4. CASE Chat!CanSend /\ \E i \in Numbers : Chat!Starts(i)
  <2>1. PICK i \in Numbers : Chat!Starts(i)
    BY <1>4
  <2>2. /\ replies' \in [Numbers -> ReplyRecords] /\ controller' \in {0} \cup Numbers
        /\ OneStream' /\ SameSession'
    BY <1>3, <1>4, <2>1, ChatStarts
  <2>3. ChatTypes'
    BY <1>2, <1>3, <2>2 DEF ChatTypes
  <2> QED BY <2>2, <2>3
<1>5. CASE UNCHANGED <<log, replies, sending, controller, composer>>
  BY <1>2, <1>3, <1>5, ChatChecks, ChatShown DEF ChatTypes
<1> QED BY <1>3, <1>4, <1>5

\* The steps that leave the streams and the transcript as they are.
LEMMA ChatContext ==
  ASSUME ChatInv,
         Chat!ServerChanges \/ Chat!Ask \/ Chat!RefreshContext \/ Chat!ReadStatus \/ Chat!ReadHistory
           \/ Chat!Edit
  PROVE ChatInv'
<1> USE DEF ChatInv
<1>1. /\ UNCHANGED <<context, contextKey, replies, log, sending, controller>>
      /\ Chat!Check \/ UNCHANGED composer
  BY DEF Chat!ServerChanges, Chat!Ask, Chat!RefreshContext, Chat!ReadStatus, Chat!ReadHistory, Chat!Edit,
         Chat!session, Chat!stream, Chat!Check
<1>2. OneStream' /\ SameSession'
  BY <1>1, ChatChecks, ChatShown
<1>3. chatServer' \in Chat!Modes
  BY DEF ChatTypes, Chat!ServerChanges, Chat!Ask, Chat!RefreshContext, Chat!ReadStatus, Chat!ReadHistory,
         Chat!Edit
<1>4. waiting' \in SUBSET ({0} \cup Numbers)
  BY DEF ChatTypes, Chat!ServerChanges, Chat!Ask, Chat!RefreshContext, Chat!ReadStatus, Chat!ReadHistory,
         Chat!Edit, Chat!session
<1>5. checking' \in CheckRecords
  <2>1. CASE Chat!ReadStatus
    <3>1. [at |-> "resolved", key |-> "public-readonly", enabled |-> FALSE] \in CheckRecords
      BY DEF CheckRecords, Keys
    <3>2. chatServer.configured \in BOOLEAN
      BY DEF ChatTypes, Chat!Modes
    <3>3. [at |-> "history", key |-> "personal", enabled |-> chatServer.configured] \in CheckRecords
      BY <3>2 DEF CheckRecords, Keys
    <3> QED BY <2>1, <3>1, <3>3 DEF Chat!ReadStatus
  <2>2. CASE Chat!ReadHistory
    <3>1. [checking EXCEPT !.at = "resolved"] \in CheckRecords
      BY DEF ChatTypes, CheckRecords
    <3> QED BY <2>2, <3>1 DEF Chat!ReadHistory
  <2>3. CASE Chat!Ask \/ Chat!RefreshContext
    BY <2>3, ChatCheckTypes DEF Chat!Ask, Chat!RefreshContext
  <2>4. CASE Chat!ServerChanges \/ Chat!Edit
    BY <2>4 DEF ChatTypes, Chat!ServerChanges, Chat!Edit, Chat!session
  <2> QED BY <2>1, <2>2, <2>3, <2>4
<1> QED BY <1>1, <1>2, <1>3, <1>4, <1>5 DEF ChatTypes

LEMMA ChatCheckEnds ==
  ASSUME ChatInv, Chat!Checked \/ Chat!CheckFails
  PROVE ChatInv'
<1> USE DEF ChatInv
<1>1. Chat!NotChecking \in CheckRecords
  BY DEF Chat!NotChecking, CheckRecords, Keys
<1>2. checking.key \in Keys
  BY DEF ChatTypes, CheckRecords
<1>3. /\ checking' = Chat!NotChecking /\ Chat!SendMode("idle")
      /\ UNCHANGED <<chatServer, waiting, sending, controller>>
  BY DEF Chat!Checked, Chat!CheckFails
<1>4. CASE Chat!Checked
  <2>1. context'.key = contextKey' /\ contextKey' = checking.key
    BY <1>4 DEF Chat!Checked
  <2>2. CASE contextKey = checking.key
    <3>1. UNCHANGED <<replies, log, contextKey>> /\ context'.key = contextKey
      BY <1>4, <2>1, <2>2 DEF Chat!Checked
    <3>2. OneStream'
      BY <1>3, <3>1, ChatChecks
    <3>3. SameSession'
      BY <3>1 DEF SameSession, Chat!TranscriptBelongs
    <3> QED BY <1>1, <1>3, <3>1, <3>2, <3>3 DEF ChatTypes
  <2>3. CASE contextKey # checking.key
    <3>1. replies' = Chat!Aborted(replies) /\ \A row \in log' : row.session = contextKey'
      <4>1. /\ replies' = Chat!Aborted(replies)
            /\ log' \in IF checking.key = "personal" THEN {{}, {Chat!Row("personal", 0)}} ELSE {{}}
        BY <1>4, <2>3 DEF Chat!Checked
      <4>2. log' = {} \/ (checking.key = "personal" /\ log' = {Chat!Row("personal", 0)})
        BY <4>1
      <4> QED BY <2>1, <4>1, <4>2 DEF Chat!Row
    <3>2. replies' \in [Numbers -> ReplyRecords] /\ OneStream' /\ SameSession'
      BY <1>3, <2>1, <3>1, ChatReplaced
    <3> QED BY <1>1, <1>2, <1>3, <2>1, <3>2 DEF ChatTypes
  <2> QED BY <2>2, <2>3
<1>5. CASE Chat!CheckFails
  <2>1. /\ context'.key = contextKey' /\ contextKey' = "none"
        /\ replies' = Chat!Aborted(replies) /\ \A row \in log' : row.session = contextKey'
    BY <1>5 DEF Chat!CheckFails, Chat!NoContext
  <2>2. replies' \in [Numbers -> ReplyRecords] /\ OneStream' /\ SameSession'
    BY <1>3, <2>1, ChatReplaced
  <2> QED BY <1>1, <1>3, <2>1, <2>2 DEF ChatTypes, Keys
<1> QED BY <1>4, <1>5

\* A reply goes on without ending.
LEMMA ChatGoesOn ==
  ASSUME ChatInv, NEW i \in Numbers, NEW r \in ReplyRecords, replies' = [replies EXCEPT ![i] = r],
         Streams(r) <=> Streams(replies[i]), r.session = replies[i].session,
         r.aborted = replies[i].aborted,
         UNCHANGED <<chatServer, context, contextKey, checking, waiting, log, sending, controller, composer>>
  PROVE ChatInv'
<1> USE DEF ChatInv
<1>1. /\ replies' \in [Numbers -> ReplyRecords] /\ replies'[i] = r
      /\ \A j \in Numbers \ {i} : replies'[j] = replies[j]
  BY DEF ChatTypes
<1>2. ChatTypes'
  BY <1>1 DEF ChatTypes
<1>3. OneStream'
  BY <1>1 DEF OneStream
<1>4. SameSession'
  BY <1>1 DEF SameSession, Chat!TranscriptBelongs
<1> QED BY <1>2, <1>3, <1>4

LEMMA ChatReplies ==
  ASSUME ChatInv, NEW i \in Numbers,
         Chat!Retry(i) \/ Chat!Responds(i) \/ Chat!Token(i) \/ Chat!FactLine(i)
  PROVE ChatInv'
<1> USE DEF ChatInv
<1>1. replies[i] \in ReplyRecords
  BY DEF ChatTypes
<1>2. CASE Chat!Retry(i)
  <2>1. /\ UNCHANGED <<context, contextKey, replies, log, controller, chatServer>>
        /\ waiting' = waiting \cup {i} /\ Chat!Check
    BY <1>2 DEF Chat!Retry
  <2>2. OneStream' /\ SameSession' /\ checking' \in CheckRecords
    BY <2>1, ChatChecks, ChatShown, ChatCheckTypes
  <2> QED BY <2>1, <2>2 DEF ChatTypes
<1>3. CASE Chat!Responds(i)
  <2>1. PICK r \in ReplyRecords : r = [replies[i] EXCEPT !.at = "reading"]
    <3>1. [replies[i] EXCEPT !.at = "reading"] \in ReplyRecords
      BY <1>1 DEF ReplyRecords
    <3> QED BY <3>1
  <2>2. /\ Streams(r) /\ Streams(replies[i]) /\ r.session = replies[i].session
        /\ r.aborted = replies[i].aborted
    BY <1>1, <1>3, <2>1 DEF Chat!Responds, Streams, ReplyRecords
  <2> QED BY <1>3, <2>1, <2>2, ChatGoesOn DEF Chat!Responds, Chat!session
<1>4. CASE Chat!Token(i)
  <2>1. PICK r \in ReplyRecords : r = [replies[i] EXCEPT !.text = TRUE]
    <3>1. [replies[i] EXCEPT !.text = TRUE] \in ReplyRecords
      BY <1>1 DEF ReplyRecords
    <3> QED BY <3>1
  <2>2. /\ r.at = replies[i].at /\ r.session = replies[i].session
        /\ r.aborted = replies[i].aborted
    BY <1>1, <2>1 DEF ReplyRecords
  <2> QED BY <1>4, <2>1, <2>2, ChatGoesOn DEF Chat!Token, Chat!session, Streams
<1>5. CASE Chat!FactLine(i)
  <2>1. /\ log' = log \cup {Chat!Row(replies[i].session, i)}
        /\ UNCHANGED <<chatServer, context, contextKey, checking, waiting, replies, sending, controller,
                       composer>>
    BY <1>5 DEF Chat!FactLine, Chat!session, Chat!stream
  <2>2. replies[i].session = contextKey
    BY <1>5 DEF Chat!FactLine, SameSession, Streams
  <2>3. Chat!TranscriptBelongs'
    BY <2>1, <2>2 DEF SameSession, Chat!TranscriptBelongs, Chat!Row
  <2>4. OneStream' /\ ChatTypes'
    BY <2>1 DEF OneStream, ChatTypes
  <2> QED BY <2>1, <2>3, <2>4 DEF SameSession
<1> QED BY <1>2, <1>3, <1>4, <1>5

LEMMA ChatStreamEnds ==
  ASSUME ChatInv, NEW i \in Numbers, NEW done \in BOOLEAN, Chat!StreamEnds(i, done)
  PROVE ChatInv'
<1> USE DEF ChatInv
<1>1. replies[i] \in ReplyRecords /\ Streams(replies[i]) /\ controller = i
  BY DEF ChatTypes, OneStream, Chat!StreamEnds, Chat!Live, Streams
<1>2. PICK row \in {"none", "streaming", "stopped", "complete", "error"} :
        replies' = [replies EXCEPT ![i].at = "over", ![i].aborted = FALSE, ![i].text = FALSE, ![i].row = row]
  <2> DEFINE result == Chat!Result(replies[i], done)
             row == IF contextKey # replies[i].session THEN replies[i].row
                    ELSE IF result = "aborted" THEN "stopped"
                    ELSE IF result = "done" /\ replies[i].text THEN "complete" ELSE "error"
  <2>1. row \in {"none", "streaming", "stopped", "complete", "error"}
    BY <1>1 DEF ReplyRecords
  <2>2. replies' = [replies EXCEPT ![i].at = "over", ![i].aborted = FALSE, ![i].text = FALSE,
                                   ![i].row = row]
    BY DEF Chat!StreamEnds, ChatTypes
  <2> QED BY <2>1, <2>2
<1>3. PICK r \in ReplyRecords :
        r = [replies[i] EXCEPT !.at = "over", !.aborted = FALSE, !.text = FALSE, !.row = row]
  <2>1. [replies[i] EXCEPT !.at = "over", !.aborted = FALSE, !.text = FALSE, !.row = row] \in ReplyRecords
    BY <1>1 DEF ReplyRecords
  <2> QED BY <2>1
<1>4. r.at = "over"
  BY <1>1, <1>3 DEF ReplyRecords
<1>5. replies' = [replies EXCEPT ![i] = r]
  BY <1>2, <1>3 DEF ChatTypes
<1>6. /\ replies' \in [Numbers -> ReplyRecords] /\ replies'[i] = r
      /\ \A j \in Numbers \ {i} : replies'[j] = replies[j]
  BY <1>5 DEF ChatTypes
<1>7. /\ sending' = FALSE /\ controller' = 0 /\ composer' = "idle"
      /\ UNCHANGED <<chatServer, context, contextKey, checking, waiting, log>>
  BY <1>1 DEF Chat!StreamEnds, Chat!SendMode, Chat!session
<1>8. OneStream'
  <2>1. 0 \notin Numbers
    BY DEF Numbers
  <2> QED BY <1>1, <1>4, <1>6, <1>7, <2>1 DEF OneStream, Streams
<1>9. SameSession'
  BY <1>4, <1>6, <1>7 DEF SameSession, Streams, Chat!TranscriptBelongs
<1> QED BY <1>6, <1>7, <1>8, <1>9 DEF ChatTypes

LEMMA ChatStep == ChatInv /\ [Chat!Next]_chatVars => ChatInv'
<1> SUFFICES ASSUME ChatInv, [Chat!Next]_chatVars PROVE ChatInv'
  OBVIOUS
<1>1. CASE Chat!Resumes
  BY <1>1, ChatResumes
<1>2. CASE Chat!ServerChanges \/ Chat!Ask \/ Chat!RefreshContext \/ Chat!ReadStatus
             \/ Chat!ReadHistory \/ Chat!Edit
  BY <1>2, ChatContext
<1>3. CASE Chat!Checked \/ Chat!CheckFails
  BY <1>3, ChatCheckEnds
<1>4. CASE Chat!Send
  <2>1. PICK i \in Numbers : Chat!CanSend /\ Chat!Starts(i)
    BY <1>4 DEF Chat!Send, Chat!Fresh, Numbers
  <2>2. UNCHANGED <<chatServer, context, contextKey, checking, waiting>>
    BY <1>4 DEF Chat!Send, Chat!session
  <2>3. /\ replies' \in [Numbers -> ReplyRecords] /\ controller' \in {0} \cup Numbers
        /\ OneStream' /\ SameSession'
    BY <2>1, <2>2, ChatStarts
  <2> QED BY <2>2, <2>3 DEF ChatInv, ChatTypes
<1>5. CASE Chat!StopReply
  <2>1. /\ replies' = Chat!Aborted(replies)
        /\ UNCHANGED <<chatServer, context, contextKey, checking, waiting, log, sending, controller,
                       composer>>
    BY <1>5 DEF Chat!StopReply, Chat!session
  <2>2. replies' \in [Numbers -> ReplyRecords]
        /\ \A i \in Numbers : /\ Streams(replies'[i]) <=> Streams(replies[i])
                              /\ Streams(replies[i]) => replies'[i].aborted
    BY <2>1, ChatAborts
  <2>3. OneStream' /\ SameSession'
    BY <2>1, <2>2 DEF ChatInv, OneStream, SameSession, Chat!TranscriptBelongs
  <2> QED BY <2>1, <2>2, <2>3 DEF ChatInv, ChatTypes
<1>6. ASSUME NEW i \in Numbers,
             Chat!Retry(i) \/ Chat!Responds(i) \/ Chat!Token(i) \/ Chat!FactLine(i)
      PROVE  ChatInv'
  BY <1>6, ChatReplies
<1>7. ASSUME NEW i \in Numbers, NEW done \in BOOLEAN, Chat!StreamEnds(i, done) PROVE ChatInv'
  BY <1>7, ChatStreamEnds
<1>8. CASE UNCHANGED chatVars
  BY <1>8, ChatChecks, ChatShown DEF chatVars, ChatInv, ChatTypes
<1> QED
  BY <1>1, <1>2, <1>3, <1>4, <1>5, <1>6, <1>7, <1>8 DEF Chat!Next, Chat!Event, Numbers

LEMMA ChatCardinality ==
  \A S : Chat!Cardinality(S) = Cardinality(S)
  BY DEF Cardinality, Chat!Cardinality

\* chat.js:101-142, 184-196, 257-308: for any number of messages, the transcript is
\* of the session checked last although replies of an earlier one still stream, and
\* the composer is held by the one reply that streams.
THEOREM ChatSoundAlways == Spec => []ChatSound
<1>1. Init => ChatInv
  BY ChatInit DEF Init
<1>2. ChatInv /\ [Next]_vars => ChatInv'
  BY ChatStep DEF Next, vars
<1>3. ChatInv => ChatSound
  <2> SUFFICES ASSUME ChatInv PROVE Chat!TranscriptBelongs /\ Chat!OneReply
    BY DEF ChatSound, Chat!ChatSound
  <2>1. Chat!Live = {i \in Numbers : i = controller}
    BY DEF Chat!Live, Numbers, ChatInv, OneStream, Streams
  <2>2. 0 \notin Numbers /\ controller \in {0} \cup Numbers
    BY DEF Numbers, ChatInv, ChatTypes
  <2>3. Chat!Live = (IF controller = 0 THEN {} ELSE {controller})
    BY <2>1, <2>2
  <2>4. Cardinality(Chat!Live) <= 1
    BY <2>3, FS_EmptySet, FS_Singleton
  <2>5. Chat!OneReply
    BY <2>1, <2>3, <2>4, ChatCardinality DEF Chat!OneReply, ChatInv, OneStream
  <2> QED BY <2>5 DEF ChatInv, SameSession
<1> QED BY <1>1, <1>2, <1>3, PTL DEF Spec

\* Nothing is sent, checked or streamed for "none", the session of no transcript.
Sessions == {"personal", "public-readonly"}
LogRows == [session : Sessions, of : 0..MaxReplies]
ContextTyped == context.enabled \in BOOLEAN /\ (context.enabled => contextKey \in Sessions)
CheckTyped == checking.at \in {"history", "resolved"} => checking.key \in Sessions
RepliesTyped == \A i \in Numbers : Streams(replies[i]) => replies[i].session \in Sessions
ComposerTyped == sending \in BOOLEAN /\ composer \in {"idle", "checking", "sending"}
BoxTyped == chatPending \in BOOLEAN /\ input \in {"", "asked", "draft"} /\ modes \in 0..MaxModes
ChatTyped == /\ ContextTyped /\ CheckTyped /\ RepliesTyped /\ ComposerTyped /\ BoxTyped
             /\ log \in SUBSET LogRows

LEMMA ChatNumbers == MaxReplies \in Nat /\ MaxModes \in Nat /\ {0} \cup Numbers = 0..MaxReplies
<1>1. MaxReplies \in Nat /\ MaxModes \in Nat
  BY ComponentsAssumption DEF Chat!BoundsAreNumbers
<1> QED BY <1>1 DEF Numbers

LEMMA ChatTypeOK == ChatInv /\ ChatTyped => Chat!TypeOK
<1> SUFFICES ASSUME ChatInv, ChatTyped PROVE Chat!TypeOK
  OBVIOUS
<1>1. context.key \in Keys /\ checking.at \in {"no", "status", "history", "resolved"}
  BY DEF ChatInv, SameSession, ChatTypes, CheckRecords
<1>2. chatServer \in Chat!Modes /\ waiting \subseteq 0..MaxReplies /\ controller \in 0..MaxReplies
  BY ChatNumbers DEF ChatInv, ChatTypes
<1>3. log \subseteq [session : {"personal", "public-readonly"}, of : 0..MaxReplies]
  BY DEF ChatTyped, LogRows, Sessions
<1> QED BY <1>1, <1>2, <1>3 DEF ChatTyped, ContextTyped, ComposerTyped, BoxTyped, Keys, Chat!TypeOK

LEMMA ChatTypedInit == Chat!Init => ChatTyped
<1> SUFFICES ASSUME Chat!Init PROVE ChatTyped
  OBVIOUS
<1>1. \A i \in Numbers : ~Streams(replies[i])
  BY DEF Chat!Init, Numbers, Chat!Unused, Streams
<1>2. modes \in 0..MaxModes
  <2>1. modes = 0 /\ MaxModes \in Nat
    BY ChatNumbers DEF Chat!Init
  <2> QED BY <2>1
<1> QED BY <1>1, <1>2 DEF Chat!Init, Chat!NoContext, Chat!NotChecking, ChatTyped, ContextTyped, CheckTyped,
                          RepliesTyped, ComposerTyped, BoxTyped

LEMMA ChatStartsTyped ==
  ASSUME ChatInv, ChatTyped, NEW i \in Numbers, Chat!CanSend, Chat!Starts(i)
  PROVE RepliesTyped' /\ ComposerTyped' /\ log' \in SUBSET LogRows
<1>1. context.key \in Sessions /\ i \in 0..MaxReplies
  BY ChatNumbers DEF Chat!CanSend, ChatTyped, ContextTyped, ChatInv, SameSession
<1>2. replies'[i].session = context.key /\ \A j \in Numbers \ {i} : replies'[j] = replies[j]
  BY DEF Chat!Starts, Chat!Unused, ChatInv, ChatTypes
<1>3. RepliesTyped'
  BY <1>1, <1>2 DEF ChatTyped, RepliesTyped
<1>4. sending' = TRUE /\ composer' = "sending" /\ log' = log \cup {Chat!Row(context.key, i)}
  BY DEF Chat!Starts, Chat!SendMode
<1>5. Chat!Row(context.key, i) \in LogRows
  BY <1>1 DEF Chat!Row, LogRows
<1> QED BY <1>3, <1>4, <1>5 DEF ChatTyped, ComposerTyped

LEMMA ChatCheckTyped ==
  ASSUME ChatInv, ChatTyped, Chat!Check
  PROVE CheckTyped' /\ ComposerTyped'
<1>1. CASE checking.at = "no"
  <2>1. checking' = [checking EXCEPT !.at = "status"] /\ UNCHANGED sending /\ Chat!SendMode("checking")
    BY <1>1 DEF Chat!Check
  <2>2. checking'.at = "status"
    BY <2>1 DEF ChatInv, ChatTypes, CheckRecords
  <2> QED BY <2>1, <2>2 DEF ChatTyped, CheckTyped, ComposerTyped, Chat!SendMode
<1>2. CASE checking.at # "no"
  BY <1>2 DEF Chat!Check, ChatTyped, CheckTyped, ComposerTyped
<1> QED BY <1>1, <1>2

LEMMA ChatResumesTyped == ASSUME ChatInv, ChatTyped, Chat!Resumes PROVE ChatTyped'
<1>1. PICK w \in waiting : IF w = 0 THEN Chat!Rendered ELSE Chat!Retried(w)
  BY DEF Chat!Resumes
<1>2. w \in {0} \cup Numbers
  BY DEF ChatInv, ChatTypes
<1>3. /\ UNCHANGED <<context, contextKey, checking, modes>>
      /\ chatPending' \in BOOLEAN /\ input' \in {"", "asked", "draft"}
      /\ \/ Chat!CanSend /\ \E i \in Numbers : Chat!Starts(i)
         \/ UNCHANGED <<log, replies, sending, controller, composer>>
  <2>1. CASE w = 0
    BY <1>1, <2>1 DEF Chat!Rendered, Chat!stream, Chat!Fresh, Numbers, ChatTyped, BoxTyped
  <2>2. CASE w # 0
    BY <1>1, <1>2, <2>2 DEF Chat!Retried, Chat!stream, ChatTyped, BoxTyped
  <2> QED BY <2>1, <2>2
<1>4. RepliesTyped' /\ ComposerTyped' /\ log' \in SUBSET LogRows
  <2>1. CASE Chat!CanSend /\ \E i \in Numbers : Chat!Starts(i)
    BY <2>1, ChatStartsTyped
  <2>2. CASE UNCHANGED <<log, replies, sending, controller, composer>>
    BY <2>2 DEF ChatTyped, RepliesTyped, ComposerTyped
  <2> QED BY <1>3, <2>1, <2>2
<1> QED BY <1>3, <1>4 DEF ChatTyped, ContextTyped, CheckTyped, BoxTyped

LEMMA ChatAbortsTyped ==
  ASSUME ChatInv, ChatTyped, replies' \in {replies, Chat!Aborted(replies)}
  PROVE RepliesTyped'
  BY ChatAborts DEF ChatTyped, RepliesTyped

LEMMA ChatTypedStep ==
  ASSUME ChatInv, ChatInv', ChatTyped, UNCHANGED chatVars \/ Chat!Next
  PROVE ChatTyped'
<1> USE DEF ChatTyped
<1>1. CASE Chat!Resumes
  BY <1>1, ChatResumesTyped
<1>2. CASE Chat!ServerChanges
  <2>1. modes' \in 0..MaxModes
    <3>1. modes \in 0..MaxModes /\ modes < MaxModes /\ modes' = modes + 1 /\ MaxModes \in Nat
      BY <1>2, ChatNumbers DEF Chat!ServerChanges, BoxTyped
    <3> QED BY <3>1
  <2> QED BY <1>2, <2>1 DEF Chat!ServerChanges, Chat!session, Chat!stream, ContextTyped, CheckTyped,
                            RepliesTyped, ComposerTyped, BoxTyped
<1>3. CASE Chat!Ask \/ Chat!RefreshContext \/ \E i \in Numbers : Chat!Retry(i)
  <2>1. /\ Chat!Check /\ UNCHANGED <<modes, context, contextKey, log, replies, input>>
        /\ chatPending' \in BOOLEAN
    BY <1>3 DEF Chat!Ask, Chat!RefreshContext, Chat!Retry, BoxTyped
  <2> QED BY <2>1, ChatCheckTyped DEF ContextTyped, RepliesTyped, BoxTyped
<1>4. CASE Chat!ReadStatus \/ Chat!ReadHistory
  <2>1. CheckTyped'
    BY <1>4 DEF Chat!ReadStatus, Chat!ReadHistory, CheckTyped, Sessions, ChatInv, ChatTypes, CheckRecords
  <2> QED BY <1>4, <2>1 DEF Chat!ReadStatus, Chat!ReadHistory, Chat!stream, ContextTyped, RepliesTyped,
                            ComposerTyped, BoxTyped
<1>5. CASE Chat!Checked
  <2>1. /\ checking.at = "resolved" /\ checking' = Chat!NotChecking
        /\ context' = [key |-> checking.key, enabled |-> checking.enabled] /\ contextKey' = checking.key
        /\ UNCHANGED <<modes, sending, chatPending>> /\ Chat!SendMode("idle")
    BY <1>5 DEF Chat!Checked
  <2>2. checking.key \in Sessions /\ checking.enabled \in BOOLEAN
    BY <2>1 DEF CheckTyped, ChatInv, ChatTypes, CheckRecords
  <2>3. ContextTyped' /\ CheckTyped' /\ ComposerTyped'
    BY <2>1, <2>2 DEF ContextTyped, CheckTyped, Chat!NotChecking, ComposerTyped, Chat!SendMode
  <2>4. replies' \in {replies, Chat!Aborted(replies)} /\ input' \in {"", "asked", "draft"}
        /\ log' \in {log, {}, {Chat!Row("personal", 0)}}
    BY <1>5 DEF Chat!Checked, BoxTyped
  <2>5. Chat!Row("personal", 0) \in LogRows
    BY ChatNumbers DEF Chat!Row, LogRows, Sessions
  <2>6. RepliesTyped' /\ log' \in SUBSET LogRows
    BY <2>4, <2>5, ChatAbortsTyped
  <2> QED BY <2>1, <2>3, <2>4, <2>6 DEF BoxTyped
<1>6. CASE Chat!CheckFails
  <2>1. /\ checking' = Chat!NotChecking /\ context' = Chat!NoContext /\ log' = {}
        /\ replies' = Chat!Aborted(replies) /\ Chat!SendMode("idle")
        /\ UNCHANGED <<modes, sending, chatPending, input>>
    BY <1>6 DEF Chat!CheckFails
  <2>2. RepliesTyped'
    BY <2>1, ChatAbortsTyped
  <2> QED BY <2>1, <2>2 DEF Chat!NotChecking, Chat!NoContext, Chat!SendMode, ContextTyped, CheckTyped,
                            ComposerTyped, BoxTyped
<1>7. CASE Chat!Send
  <2>1. PICK i \in Numbers : Chat!CanSend /\ Chat!Starts(i)
    BY <1>7 DEF Chat!Send, Chat!Fresh, Numbers
  <2>2. RepliesTyped' /\ ComposerTyped' /\ log' \in SUBSET LogRows
    BY <2>1, ChatStartsTyped
  <2> QED BY <1>7, <2>2 DEF Chat!Send, Chat!session, ContextTyped, CheckTyped, BoxTyped
<1>8. CASE Chat!StopReply
  BY <1>8, ChatAbortsTyped DEF Chat!StopReply, Chat!session, ContextTyped, CheckTyped, ComposerTyped, BoxTyped
<1>9. CASE Chat!Edit
  BY <1>9 DEF Chat!Edit, Chat!session, Chat!stream, ContextTyped, CheckTyped, RepliesTyped, ComposerTyped,
              BoxTyped
<1>10. ASSUME NEW i \in Numbers, Chat!Responds(i) \/ Chat!Token(i) PROVE ChatTyped'
  <2>1. /\ Streams(replies[i]) /\ replies'[i].session = replies[i].session
        /\ \A j \in Numbers \ {i} : replies'[j] = replies[j]
    <3>1. replies \in [Numbers -> ReplyRecords] /\ replies[i] \in ReplyRecords
      BY DEF ChatInv, ChatTypes
    <3> QED BY <1>10, <3>1 DEF Chat!Responds, Chat!Token, Streams, ReplyRecords
  <2>2. RepliesTyped'
    BY <2>1 DEF RepliesTyped
  <2> QED BY <1>10, <2>2 DEF Chat!Responds, Chat!Token, Chat!session, ContextTyped, CheckTyped,
                             ComposerTyped, BoxTyped
<1>11. ASSUME NEW i \in Numbers, Chat!FactLine(i) PROVE ChatTyped'
  <2>1. replies[i].session \in Sessions /\ i \in 0..MaxReplies
    BY <1>11, ChatNumbers DEF Chat!FactLine, RepliesTyped, Streams
  <2>2. Chat!Row(replies[i].session, i) \in LogRows
    BY <2>1 DEF Chat!Row, LogRows
  <2> QED BY <1>11, <2>2 DEF Chat!FactLine, Chat!session, Chat!stream, ContextTyped, CheckTyped,
                             RepliesTyped, ComposerTyped, BoxTyped
<1>12. ASSUME NEW i \in Numbers, NEW done \in BOOLEAN, Chat!StreamEnds(i, done) PROVE ChatTyped'
  <2>1. ~Streams(replies'[i]) /\ \A j \in Numbers \ {i} : replies'[j] = replies[j]
    <3>1. replies \in [Numbers -> ReplyRecords] /\ replies[i] \in ReplyRecords
      BY DEF ChatInv, ChatTypes
    <3>2. replies'[i].at = "over" /\ \A j \in Numbers \ {i} : replies'[j] = replies[j]
      BY <1>12, <3>1 DEF Chat!StreamEnds, ReplyRecords
    <3> QED BY <3>2 DEF Streams
  <2>2. RepliesTyped'
    BY <2>1 DEF RepliesTyped
  <2>3. ComposerTyped'
    BY <1>12 DEF Chat!StreamEnds, Chat!SendMode, ComposerTyped
  <2> QED BY <1>12, <2>2, <2>3 DEF Chat!StreamEnds, Chat!session, ContextTyped, CheckTyped, BoxTyped
<1>13. CASE UNCHANGED chatVars
  BY <1>13 DEF chatVars, ContextTyped, CheckTyped, RepliesTyped, ComposerTyped, BoxTyped
<1> QED BY <1>1, <1>2, <1>3, <1>4, <1>5, <1>6, <1>7, <1>8, <1>9, <1>10, <1>11, <1>12, <1>13
        DEF Chat!Next, Chat!Event, Numbers

-----------------------------------------------------------------------------
(* The evidence verifier.                                                   *)

BlockRecords == [fork : Nat, tx : {"none", "succeeded", "reverted"}, deliverable : BOOLEAN]
ReceiptRecords == [height : Nat \ {0}, fork : Nat, status : {"succeeded", "reverted"}]
CheckNames ==
  {"receiptFound", "executionSucceeded", "canonicalBlock", "includedAtSnapshot", "expectedPayment",
   "transactionJob", "manifestCID", "expectedDigest", "jobDeliveryDigest", "manifestJob", "document"}
Reading == {"receipt", "receipt after head", "head", "block"}
Judged == {"job", "manifest", "manifest of the job", "verdict"}
CallRecords ==
  [at : {"idle", "reported"} \cup Reading \cup Judged, asked : Requests \cup {{}},
   receipt : {Verifying!NoReceipt} \cup ReceiptRecords, head : Nat, failed : SUBSET CheckNames,
   warned : BOOLEAN, verdict : {"none", "PASS", "WARNING", "FAIL"}, calm : BOOLEAN]

VerifyTypes ==
  /\ verifiedChain \in Seq(BlockRecords) /\ verifiedForks \in Nat
  /\ \A n \in DOMAIN verifiedChain : verifiedChain[n].fork <= verifiedForks
  /\ call \in [Calls -> CallRecords]

\* A receipt's block is the chain's or belongs to an earlier fork: a height and a
\* fork name one block.
ReceiptTrue(r) ==
  r = Verifying!NoReceipt
  \/ /\ r.height \in DOMAIN verifiedChain /\ verifiedChain[r.height].fork = r.fork
     /\ verifiedChain[r.height].tx = r.status
  \/ /\ r.fork < verifiedForks
     /\ r.height \in DOMAIN verifiedChain => verifiedChain[r.height].fork # r.fork

\* What a call has established by each of its steps.
Included(s) ==
  /\ \E n \in DOMAIN verifiedChain : n <= s.head /\ verifiedChain[n].tx = "succeeded"
  /\ "payment" \in s.asked => "pays" \in facts
Bound(s) == "job" \in s.asked => "bound" \in facts
DeliveryNamed(s) == s.head \in DOMAIN verifiedChain /\ verifiedChain[s.head].deliverable
Complete(s) ==
  {"job", "manifest"} \subseteq s.asked => DeliveryNamed(s) /\ "manifest names the job" \in facts

\* No check has failed so far, or none did in what was reported.
Standing(s) ==
  \/ s.at \in Judged /\ s.failed = {}
  \/ s.verdict \in {"PASS", "WARNING"}

CallTrue(s) ==
  /\ ReceiptTrue(s.receipt)
  /\ s.at # "reported" => s.verdict = "none"
  /\ s.calm /\ Standing(s) =>
       /\ Included(s)
       /\ s.at # "job" => Bound(s)
       /\ s.at = "manifest of the job" => DeliveryNamed(s)
       /\ s.at \in {"verdict", "reported"} => Complete(s)

VerifyInv == VerifyTypes /\ \A c \in Calls : CallTrue(call[c])

LEMMA IdleCall == Verifying!Idle \in CallRecords /\ CallTrue(Verifying!Idle)
  BY DEF Verifying!Idle, CallRecords, CallTrue, ReceiptTrue, Standing, Judged

LEMMA VerifyInit == Verifying!Init => VerifyInv
<1> SUFFICES ASSUME Verifying!Init PROVE VerifyInv
  OBVIOUS
<1>1. Verifying!Block(1, "none", FALSE) \in BlockRecords
      /\ Verifying!Block(1, "none", FALSE).fork = 1
  BY DEF Verifying!Block, BlockRecords
<1>2. verifiedChain = <<Verifying!Block(1, "none", FALSE)>> /\ verifiedForks = 1
      /\ call = [c \in Calls |-> Verifying!Idle]
  BY DEF Verifying!Init
<1>3. /\ verifiedChain \in Seq(BlockRecords) /\ DOMAIN verifiedChain = {1}
      /\ verifiedChain[1].fork <= verifiedForks
  <2>1. PICK b \in BlockRecords : b = Verifying!Block(1, "none", FALSE) /\ b.fork = 1
    BY <1>1
  <2>2. <<b>> \in Seq(BlockRecords) /\ Len(<<b>>) = 1 /\ <<b>>[1] = b
    OBVIOUS
  <2>3. PICK blocks \in Seq(BlockRecords) : blocks = <<b>> /\ Len(blocks) = 1 /\ blocks[1] = b
    BY <2>2
  <2>4. verifiedChain = blocks
    BY <1>2, <2>1, <2>3
  <2>5. DOMAIN blocks = {1}
    BY <2>3
  <2>6. verifiedForks = 1
    BY <1>2
  <2>7. verifiedChain \in Seq(BlockRecords)
    BY <2>3, <2>4
  <2>8. DOMAIN verifiedChain = {1}
    BY <2>4, <2>5
  <2>9. verifiedChain[1].fork = 1
    BY <2>1, <2>3, <2>4
  <2> QED BY <2>6, <2>7, <2>8, <2>9
<1> QED BY <1>2, <1>3, IdleCall DEF VerifyInv, VerifyTypes

LEMMA VerifyBecomes ==
  ASSUME VerifyInv, NEW c \in Calls, NEW s \in CallRecords, Verifying!Becomes(c, s), CallTrue(s)
  PROVE VerifyInv'
<1>1. /\ call' \in [Calls -> CallRecords] /\ call'[c] = s
      /\ \A d \in Calls \ {c} : call'[d] = call[d]
  BY DEF Verifying!Becomes, VerifyInv, VerifyTypes
<1>2. UNCHANGED <<verifiedChain, verifiedForks, facts>>
  BY DEF Verifying!Becomes
<1>3. VerifyTypes'
  BY <1>1, <1>2 DEF VerifyInv, VerifyTypes
<1>4. ASSUME NEW d \in Calls PROVE CallTrue(call[d])'
  <2>1. CallTrue(call'[d])
    BY <1>1 DEF VerifyInv
  <2> QED BY <1>2, <2>1 DEF CallTrue, ReceiptTrue, Included, Bound, DeliveryNamed, Complete
<1> QED BY <1>3, <1>4 DEF VerifyInv

LEMMA VerifyGrows ==
  ASSUME VerifyInv, Verifying!Grow
  PROVE VerifyInv'
<1>1. PICK b \in Verifying!NewBlocks(verifiedForks) : verifiedChain' = Append(verifiedChain, b)
  BY DEF Verifying!Grow
<1>2. b \in BlockRecords /\ b.fork = verifiedForks
  BY <1>1 DEF Verifying!NewBlocks, Verifying!Block, BlockRecords, VerifyInv, VerifyTypes
<1>3. UNCHANGED <<verifiedForks, facts, call>>
  BY DEF Verifying!Grow
<1>4. verifiedChain \in Seq(BlockRecords) /\ Len(verifiedChain) \in Nat /\ verifiedForks \in Nat
      /\ DOMAIN verifiedChain = 1..Len(verifiedChain)
  BY DEF VerifyInv, VerifyTypes
<1> DEFINE last == Len(verifiedChain) + 1
<1>5. /\ verifiedChain' \in Seq(BlockRecords) /\ DOMAIN verifiedChain' = DOMAIN verifiedChain \cup {last}
      /\ verifiedChain'[last] = b /\ last \notin DOMAIN verifiedChain
      /\ \A n \in DOMAIN verifiedChain : verifiedChain'[n] = verifiedChain[n]
  BY <1>1, <1>2, <1>4, AppendProperties
<1> HIDE DEF last
<1>6. VerifyTypes'
  BY <1>2, <1>3, <1>4, <1>5 DEF VerifyInv, VerifyTypes
<1>7. ASSUME NEW c \in Calls PROVE CallTrue(call[c])'
  <2>1. PICK s \in CallRecords : s = call[c] /\ CallTrue(s)
    BY DEF VerifyInv, VerifyTypes
  <2>2. ReceiptTrue(s.receipt)'
    <3>1. ReceiptTrue(s.receipt) /\ (s.receipt = Verifying!NoReceipt \/ s.receipt \in ReceiptRecords)
      BY <2>1 DEF CallTrue, CallRecords
    <3> QED BY <1>2, <1>3, <1>4, <1>5, <3>1 DEF ReceiptTrue, ReceiptRecords
  <2>3. /\ Included(s) => Included(s)'
        /\ Bound(s) => Bound(s)'
        /\ DeliveryNamed(s) => DeliveryNamed(s)'
        /\ Complete(s) => Complete(s)'
    BY <1>3, <1>5 DEF Included, Bound, DeliveryNamed, Complete
  <2>4. CallTrue(s)'
    BY <2>1, <2>2, <2>3 DEF CallTrue, Standing
  <2> QED BY <1>3, <2>1, <2>4
<1> QED BY <1>6, <1>7 DEF VerifyInv

LEMMA VerifyReorganises ==
  ASSUME VerifyInv, Verifying!Reorganise
  PROVE VerifyInv'
<1>1. PICK n \in 2..Len(verifiedChain), b \in Verifying!NewBlocks(verifiedForks + 1) :
        verifiedChain' = [k \in 1..n |-> IF k < n THEN verifiedChain[k] ELSE b]
  BY DEF Verifying!Reorganise
<1>2. verifiedForks' = verifiedForks + 1 /\ UNCHANGED facts
      /\ call' = [c \in Calls |-> [call[c] EXCEPT !.calm = @ /\ ~Verifying!Compared(call[c])]]
  BY DEF Verifying!Reorganise
<1>3. /\ verifiedChain \in Seq(BlockRecords) /\ Len(verifiedChain) \in Nat /\ verifiedForks \in Nat
      /\ DOMAIN verifiedChain = 1..Len(verifiedChain)
      /\ \A k \in DOMAIN verifiedChain : verifiedChain[k].fork <= verifiedForks
      /\ \A k \in DOMAIN verifiedChain : verifiedChain[k] \in BlockRecords
  BY DEF VerifyInv, VerifyTypes
<1>4. b \in BlockRecords /\ b.fork = verifiedForks + 1
  BY <1>1, <1>3 DEF Verifying!NewBlocks, Verifying!Block, BlockRecords
<1>5. n \in Nat /\ n >= 2 /\ n <= Len(verifiedChain)
  BY <1>1, <1>3
<1>6. /\ verifiedChain' \in Seq(BlockRecords) /\ DOMAIN verifiedChain' = 1..n
      /\ verifiedChain'[n] = b /\ \A k \in 1..n : k < n => verifiedChain'[k] = verifiedChain[k]
  <2>1. verifiedChain' \in [1..n -> BlockRecords]
    BY <1>1, <1>3, <1>4, <1>5
  <2> QED BY <1>1, <1>5, <2>1
<1>7. ASSUME NEW c \in Calls PROVE call'[c] \in CallRecords /\ CallTrue(call[c])'
  <2>1. PICK s \in CallRecords : s = call[c] /\ CallTrue(s)
    BY DEF VerifyInv, VerifyTypes
  <2>2. PICK r \in CallRecords : r = [s EXCEPT !.calm = @ /\ ~Verifying!Compared(s)]
    <3>1. [s EXCEPT !.calm = @ /\ ~Verifying!Compared(s)] \in CallRecords
      BY DEF CallRecords
    <3> QED BY <3>1
  <2>3. /\ r.at = s.at /\ r.receipt = s.receipt /\ r.verdict = s.verdict
        /\ r.calm => ~Verifying!Compared(s)
    BY <2>2 DEF CallRecords
  <2>4. ReceiptTrue(s.receipt)'
    <3>1. ReceiptTrue(s.receipt) /\ (s.receipt = Verifying!NoReceipt \/ s.receipt \in ReceiptRecords)
      BY <2>1 DEF CallTrue, CallRecords
    <3>2. CASE s.receipt \in ReceiptRecords
      <4> DEFINE h == s.receipt.height
      <4>1. h \in Nat \ {0} /\ s.receipt.fork \in Nat
        BY <3>2 DEF ReceiptRecords
      <4>2. h \in DOMAIN verifiedChain' => h \in DOMAIN verifiedChain
        BY <1>3, <1>5, <1>6
      <4>3. CASE h < n
        <5>1. h \in DOMAIN verifiedChain' /\ verifiedChain'[h] = verifiedChain[h]
          BY <1>5, <1>6, <4>1, <4>3
        <5>2. h \in DOMAIN verifiedChain
          BY <4>2, <5>1
        <5> QED BY <1>2, <1>3, <3>1, <4>1, <5>1, <5>2 DEF ReceiptTrue
      <4>4. CASE ~(h < n)
        <5>1. s.receipt.fork <= verifiedForks
          BY <1>3, <3>1, <3>2, <4>1 DEF ReceiptTrue, ReceiptRecords, Verifying!NoReceipt
        <5>2. h \in DOMAIN verifiedChain' => h = n
          BY <1>5, <1>6, <4>1, <4>4
        <5>3. h \in DOMAIN verifiedChain' => verifiedChain'[h].fork = verifiedForks + 1
          BY <1>4, <1>6, <5>2
        <5> QED BY <1>2, <1>3, <4>1, <5>1, <5>3 DEF ReceiptTrue
      <4> QED BY <4>3, <4>4
    <3> QED BY <3>1, <3>2 DEF ReceiptTrue
  <2>5. ~Verifying!Compared(s) => s.at \notin Judged /\ s.verdict = "none"
    BY <2>1 DEF CallTrue, Verifying!Compared, Judged, CallRecords
  <2>6. CallTrue(r)'
    BY <2>1, <2>3, <2>4, <2>5 DEF CallTrue, Standing
  <2>7. call'[c] = r
    BY <1>2, <2>1, <2>2
  <2> QED BY <2>6, <2>7
<1>8. \A k \in DOMAIN verifiedChain' : verifiedChain'[k].fork <= verifiedForks'
  <2> SUFFICES ASSUME NEW k \in 1..n PROVE verifiedChain'[k].fork <= verifiedForks + 1
    BY <1>2, <1>6
  <2>1. CASE k = n
    BY <1>3, <1>4, <1>6, <2>1
  <2>2. CASE k < n
    <3>1. k \in DOMAIN verifiedChain /\ verifiedChain'[k] = verifiedChain[k]
      BY <1>3, <1>5, <1>6, <2>2
    <3>2. verifiedChain[k].fork \in Nat
      BY <1>3, <3>1 DEF BlockRecords
    <3> QED BY <1>3, <3>1, <3>2
  <2> QED BY <1>5, <2>1, <2>2
<1>9. call' \in [Calls -> CallRecords]
  BY <1>2, <1>7
<1>10. VerifyTypes'
  BY <1>2, <1>3, <1>6, <1>8, <1>9 DEF VerifyTypes
<1> QED BY <1>7, <1>10 DEF VerifyInv

LEMMA CallRecorded ==
  ASSUME VerifyInv, NEW c \in Calls
  PROVE call[c] \in CallRecords /\ CallTrue(call[c])
  BY DEF VerifyInv, VerifyTypes

LEMMA VerifyBegins ==
  ASSUME VerifyInv, NEW c \in Calls, NEW asked \in Requests, Verifying!VerifyDelivery(c, asked)
  PROVE VerifyInv'
<1>1. PICK s \in CallRecords : s = [Verifying!Idle EXCEPT !.at = "receipt", !.asked = asked]
  <2>1. [Verifying!Idle EXCEPT !.at = "receipt", !.asked = asked] \in CallRecords
    BY IdleCall DEF CallRecords, Reading
  <2> QED BY <2>1
<1>2. /\ s.at = "receipt" /\ s.receipt = Verifying!NoReceipt /\ s.verdict = "none"
  BY <1>1 DEF Verifying!Idle
<1>3. CallTrue(s)
  BY <1>2 DEF CallTrue, ReceiptTrue, Standing, Judged
<1> QED BY <1>1, <1>3, VerifyBecomes DEF Verifying!VerifyDelivery

LEMMA ReceiptRead ==
  ASSUME VerifyInv
  PROVE /\ Verifying!Receipt \in {Verifying!NoReceipt} \cup ReceiptRecords
        /\ ReceiptTrue(Verifying!Receipt)
<1>1. CASE Verifying!Including(verifiedChain) = {}
  BY <1>1 DEF Verifying!Receipt, ReceiptTrue
<1>2. CASE Verifying!Including(verifiedChain) # {}
  <2>1. PICK n \in Verifying!Including(verifiedChain) :
          Verifying!Receipt = [height |-> n, fork |-> verifiedChain[n].fork,
                               status |-> verifiedChain[n].tx]
    BY <1>2 DEF Verifying!Receipt
  <2>2. n \in DOMAIN verifiedChain /\ n \in Nat \ {0} /\ verifiedChain[n] \in BlockRecords
        /\ verifiedChain[n].tx # "none"
    BY DEF Verifying!Including, VerifyInv, VerifyTypes
  <2>3. verifiedChain[n].fork \in Nat /\ verifiedChain[n].tx \in {"succeeded", "reverted"}
    BY <2>2 DEF BlockRecords
  <2>4. PICK r \in ReceiptRecords : /\ r = [height |-> n, fork |-> verifiedChain[n].fork,
                                            status |-> verifiedChain[n].tx]
                                    /\ r.height = n /\ r.fork = verifiedChain[n].fork
                                    /\ r.status = verifiedChain[n].tx
    <3>1. [height |-> n, fork |-> verifiedChain[n].fork, status |-> verifiedChain[n].tx]
            \in ReceiptRecords
      BY <2>2, <2>3 DEF ReceiptRecords
    <3> QED BY <3>1
  <2> QED BY <2>1, <2>2, <2>4 DEF ReceiptTrue
<1> QED BY <1>1, <1>2

LEMMA VerifyReadsReceipt ==
  ASSUME VerifyInv, NEW c \in Calls, Verifying!ReadReceipt(c)
  PROVE VerifyInv'
<1>1. PICK r \in {Verifying!Receipt, Verifying!NoReceipt} :
        Verifying!Becomes(c, [call[c] EXCEPT !.receipt = r, !.at = IF @ = "receipt" THEN "head" ELSE "block"])
  BY DEF Verifying!ReadReceipt
<1>2. r \in {Verifying!NoReceipt} \cup ReceiptRecords /\ ReceiptTrue(r)
  BY <1>1, ReceiptRead DEF ReceiptTrue
<1>3. PICK at \in {"head", "block"} : at = IF call[c].at = "receipt" THEN "head" ELSE "block"
  OBVIOUS
<1>4. PICK s \in CallRecords : s = [call[c] EXCEPT !.receipt = r, !.at = at]
  <2>1. call[c] \in CallRecords
    BY CallRecorded
  <2>2. [call[c] EXCEPT !.receipt = r, !.at = at] \in CallRecords
    BY <1>2, <2>1 DEF CallRecords, Reading
  <2> QED BY <2>2
<1>5. Verifying!Becomes(c, s)
  <2>1. [call[c] EXCEPT !.receipt = r, !.at = IF @ = "receipt" THEN "head" ELSE "block"] = s
    BY <1>3, <1>4, CallRecorded DEF CallRecords
  <2> QED BY <1>1, <2>1
<1>6. s.at = at /\ s.receipt = r /\ s.verdict = call[c].verdict
  BY <1>4, CallRecorded DEF CallRecords
<1>7. call[c].verdict = "none"
  BY CallRecorded DEF CallTrue, Verifying!ReadReceipt
<1>8. CallTrue(s)
  BY <1>2, <1>6, <1>7 DEF CallTrue, Standing, Judged
<1> QED BY <1>5, <1>8, VerifyBecomes

LEMMA VerifyReadsHead ==
  ASSUME VerifyInv, NEW c \in Calls, Verifying!ReadHead(c)
  PROVE VerifyInv'
<1>1. PICK lag \in 0..MaxLag :
        /\ Len(verifiedChain) > lag
        /\ Verifying!Becomes(c, [call[c] EXCEPT !.head = Len(verifiedChain) - lag,
                                   !.at = IF @ = "receipt" THEN "receipt after head" ELSE "block"])
  BY DEF Verifying!ReadHead
<1>2. Len(verifiedChain) - lag \in Nat
  BY <1>1 DEF VerifyInv, VerifyTypes
<1>3. PICK head \in Nat : head = Len(verifiedChain) - lag
  BY <1>2
<1>4. PICK at \in {"receipt after head", "block"} :
        at = IF call[c].at = "receipt" THEN "receipt after head" ELSE "block"
  OBVIOUS
<1>5. PICK s \in CallRecords : s = [call[c] EXCEPT !.head = head, !.at = at]
  <2>1. call[c] \in CallRecords
    BY CallRecorded
  <2>2. [call[c] EXCEPT !.head = head, !.at = at] \in CallRecords
    BY <2>1 DEF CallRecords, Reading
  <2> QED BY <2>2
<1>6. Verifying!Becomes(c, s)
  <2>1. [call[c] EXCEPT !.head = Len(verifiedChain) - lag,
                        !.at = IF @ = "receipt" THEN "receipt after head" ELSE "block"] = s
    BY <1>3, <1>4, <1>5, CallRecorded DEF CallRecords
  <2> QED BY <1>1, <2>1
<1>7. s.at = at /\ s.receipt = call[c].receipt /\ s.verdict = call[c].verdict
  BY <1>5, CallRecorded DEF CallRecords
<1>8. call[c].verdict = "none" /\ ReceiptTrue(call[c].receipt)
  BY CallRecorded DEF CallTrue, Verifying!ReadHead
<1>9. CallTrue(s)
  BY <1>7, <1>8 DEF CallTrue, Standing, Judged
<1> QED BY <1>6, <1>9, VerifyBecomes

\* Reading the receipt's block, the call learns that it is the chain's.
LEMMA VerifyReadsBlock ==
  ASSUME VerifyInv, NEW c \in Calls, Verifying!ReadBlock(c)
  PROVE VerifyInv'
<1> DEFINE old == call[c]
<1>1. old \in CallRecords /\ CallTrue(old) /\ old.at = "block" /\ old.verdict = "none"
  BY CallRecorded DEF CallTrue, Verifying!ReadBlock
<1>2. CASE old.receipt = Verifying!NoReceipt
  <2>1. PICK s \in CallRecords : s = [old EXCEPT !.failed = {"receiptFound"}, !.at = "verdict"]
    <3>1. [old EXCEPT !.failed = {"receiptFound"}, !.at = "verdict"] \in CallRecords
      BY <1>1 DEF CallRecords, Judged, CheckNames
    <3> QED BY <3>1
  <2>2. /\ s.at = "verdict" /\ s.failed # {} /\ s.receipt = Verifying!NoReceipt /\ s.verdict = "none"
    BY <1>1, <1>2, <2>1 DEF CallRecords
  <2>3. CallTrue(s)
    BY <2>2 DEF CallTrue, ReceiptTrue, Standing
  <2> QED BY <1>2, <2>1, <2>3, VerifyBecomes DEF Verifying!ReadBlock
<1>3. CASE old.receipt # Verifying!NoReceipt
  <2> DEFINE checks == Verifying!ReceiptChecks(old)
  <2>1. PICK unread \in BOOLEAN :
          Verifying!Becomes(c, [old EXCEPT !.failed = Verifying!Failing(checks),
                                  !.receipt = Verifying!NoReceipt, !.warned = unread, !.at = "job"])
    BY <1>3 DEF Verifying!ReadBlock
  <2>2. PICK failed \in SUBSET CheckNames : failed = Verifying!Failing(checks)
    BY DEF Verifying!Failing, Verifying!ReceiptChecks, CheckNames
  <2>3. PICK s \in CallRecords :
          s = [old EXCEPT !.failed = failed, !.receipt = Verifying!NoReceipt, !.warned = unread, !.at = "job"]
    <3>1. [old EXCEPT !.failed = failed, !.receipt = Verifying!NoReceipt, !.warned = unread, !.at = "job"]
            \in CallRecords
      BY <1>1 DEF CallRecords, Judged
    <3> QED BY <3>1
  <2>4. /\ s.at = "job" /\ s.failed = failed /\ s.receipt = Verifying!NoReceipt /\ s.verdict = "none"
        /\ s.head = old.head /\ s.asked = old.asked
    BY <1>1, <2>3 DEF CallRecords
  <2>5. ASSUME failed = {} PROVE Included(s)
    <3> DEFINE r == old.receipt
    <3>1. /\ r.status = "succeeded" /\ r.height <= Len(verifiedChain)
          /\ verifiedChain[r.height].fork = r.fork /\ r.height <= old.head
          /\ "payment" \in old.asked => "pays" \in facts
      <4>1. \A name \in DOMAIN checks : checks[name]
        BY <2>2, <2>5 DEF Verifying!Failing
      <4>2. checks.executionSucceeded /\ checks.canonicalBlock /\ checks.includedAtSnapshot
            /\ checks.expectedPayment
        BY <4>1 DEF Verifying!ReceiptChecks
      <4> QED BY <4>2 DEF Verifying!ReceiptChecks
    <3>2. r \in ReceiptRecords /\ ReceiptTrue(r)
      BY <1>1, <1>3 DEF CallRecords, CallTrue
    <3>3. r.height \in DOMAIN verifiedChain
      BY <3>1, <3>2 DEF ReceiptRecords, VerifyInv, VerifyTypes
    <3>4. verifiedChain[r.height].tx = "succeeded"
      BY <1>3, <3>1, <3>2, <3>3 DEF ReceiptTrue
    <3> QED BY <2>4, <3>1, <3>3, <3>4 DEF Included
  <2>6. CallTrue(s)
    BY <2>4, <2>5 DEF CallTrue, ReceiptTrue, Standing
  <2> QED BY <2>1, <2>2, <2>3, <2>6, VerifyBecomes
<1> QED BY <1>2, <1>3

\* A judged call moves on with what it has found and what has failed.
LEMMA VerifyMoves ==
  ASSUME VerifyInv, NEW c \in Calls, call[c].at \in Judged, NEW at \in Judged,
         NEW failed \in SUBSET CheckNames, NEW warned \in BOOLEAN,
         Verifying!Becomes(c, [call[c] EXCEPT !.at = at, !.failed = call[c].failed \cup failed,
                                              !.warned = warned]),
         call[c].calm /\ failed = {} /\ call[c].failed = {} /\ Included(call[c]) =>
           /\ at # "job" => Bound(call[c])
           /\ at = "manifest of the job" => DeliveryNamed(call[c])
           /\ at = "verdict" => Complete(call[c])
  PROVE VerifyInv'
<1> DEFINE old == call[c]
<1>1. old \in CallRecords /\ CallTrue(old) /\ old.verdict = "none"
  BY CallRecorded DEF CallTrue, Judged
<1>2. PICK s \in CallRecords :
        s = [old EXCEPT !.at = at, !.failed = old.failed \cup failed, !.warned = warned]
  <2>1. [old EXCEPT !.at = at, !.failed = old.failed \cup failed, !.warned = warned] \in CallRecords
    BY <1>1 DEF CallRecords
  <2> QED BY <2>1
<1>3. /\ s.at = at /\ s.failed = old.failed \cup failed /\ s.receipt = old.receipt
      /\ s.verdict = "none" /\ s.head = old.head /\ s.asked = old.asked /\ s.calm = old.calm
  BY <1>1, <1>2 DEF CallRecords
<1>4. /\ Included(s) <=> Included(old)
      /\ Bound(s) <=> Bound(old)
      /\ DeliveryNamed(s) <=> DeliveryNamed(old)
      /\ Complete(s) <=> Complete(old)
  BY <1>3 DEF Included, Bound, DeliveryNamed, Complete
<1>5. s.calm /\ Standing(s) => Included(s) /\ failed = {} /\ old.calm /\ old.failed = {}
  BY <1>1, <1>3, <1>4 DEF CallTrue, Standing
<1>6. CallTrue(s)
  BY <1>1, <1>3, <1>4, <1>5 DEF CallTrue, Judged
<1> QED BY <1>2, <1>6, VerifyBecomes

LEMMA HeadInChain ==
  ASSUME VerifyInv, NEW head \in Nat, head <= Len(verifiedChain),
         NEW n \in DOMAIN verifiedChain, n <= head
  PROVE head \in DOMAIN verifiedChain
<1>1. verifiedChain \in Seq(BlockRecords)
  BY DEF VerifyInv, VerifyTypes
<1>2. DOMAIN verifiedChain = 1..Len(verifiedChain) /\ Len(verifiedChain) \in Nat
  BY <1>1
<1> QED BY <1>2

LEMMA VerifyReadsJob ==
  ASSUME VerifyInv, NEW c \in Calls, Verifying!ReadJob(c)
  PROVE VerifyInv'
<1> DEFINE s == call[c]
<1>1. s \in CallRecords /\ s.at = "job" /\ s.at \in Judged
  BY CallRecorded DEF Verifying!ReadJob, Judged
<1>2. CASE "job" \in s.asked /\ "bound" \in facts
  <2>1. PICK at \in {"manifest of the job", "manifest"} :
          at = IF verifiedChain[s.head].deliverable THEN "manifest of the job" ELSE "manifest"
    OBVIOUS
  <2>2. at \in Judged
    BY <2>1 DEF Judged
  <2>3. PICK failed \in SUBSET CheckNames : failed = {}
    OBVIOUS
  <2>4. PICK warned \in BOOLEAN : warned = s.warned
    BY <1>1 DEF CallRecords
  <2>5. [s EXCEPT !.at = at] = [s EXCEPT !.at = at, !.failed = s.failed \cup failed, !.warned = warned]
    BY <1>1, <2>3, <2>4 DEF CallRecords
  <2>6. Verifying!Becomes(c, [s EXCEPT !.at = at, !.failed = s.failed \cup failed, !.warned = warned])
    BY <1>2, <2>1, <2>5 DEF Verifying!ReadJob
  <2>7. at = "manifest of the job" /\ Included(s) => DeliveryNamed(s)
    <3>1. s.head <= Len(verifiedChain)
      BY <1>2 DEF Verifying!ReadJob
    <3>2. Included(s) => s.head \in DOMAIN verifiedChain
      <4> SUFFICES ASSUME Included(s) PROVE s.head \in DOMAIN verifiedChain
        OBVIOUS
      <4>1. PICK n \in DOMAIN verifiedChain : n <= s.head
        BY DEF Included
      <4>2. s.head \in Nat
        BY <1>1 DEF CallRecords
      <4> QED BY <3>1, <4>1, <4>2, HeadInChain
    <3> QED BY <2>1, <3>2 DEF DeliveryNamed
  <2>8. Bound(s) /\ at # "verdict"
    BY <1>2, <2>1 DEF Bound
  <2> QED BY <1>1, <2>2, <2>6, <2>7, <2>8, VerifyMoves
<1>3. CASE ~("job" \in s.asked /\ "bound" \in facts)
  <2>1. PICK failed \in SUBSET CheckNames : failed = IF "job" \in s.asked THEN {"transactionJob"} ELSE {}
    BY DEF CheckNames
  <2>2. Verifying!Becomes(c, [s EXCEPT !.at = "manifest", !.failed = s.failed \cup failed])
    BY <1>3, <2>1 DEF Verifying!ReadJob
  <2>3. PICK warned \in BOOLEAN : warned = s.warned
    BY <1>1 DEF CallRecords
  <2>4. [s EXCEPT !.at = "manifest", !.failed = s.failed \cup failed]
          = [s EXCEPT !.at = "manifest", !.failed = s.failed \cup failed, !.warned = warned]
    BY <1>1, <2>3 DEF CallRecords
  <2>5. Verifying!Becomes(c, [s EXCEPT !.at = "manifest", !.failed = s.failed \cup failed,
                                      !.warned = warned])
    BY <2>2, <2>4
  <2>6. failed = {} => Bound(s)
    BY <2>1 DEF Bound
  <2>7. "manifest" \in Judged
    BY DEF Judged
  <2> QED BY <1>1, <2>5, <2>6, <2>7, VerifyMoves
<1> QED BY <1>2, <1>3

\* The checks of a delivery pass only for the one that the job names.
LEMMA VerifyReadsDelivery ==
  ASSUME VerifyInv, NEW c \in Calls, Verifying!ReadDelivery(c)
  PROVE VerifyInv'
<1> DEFINE s == call[c]
<1>1. /\ s \in CallRecords /\ CallTrue(s) /\ s.at \in {"manifest", "manifest of the job"}
      /\ s.at \in Judged /\ s.at \notin {"job", "verdict", "reported"} /\ s.verdict = "none"
  BY CallRecorded DEF Verifying!ReadDelivery, Judged, CallTrue
<1>2. "verdict" \in Judged
  BY DEF Judged
<1>3. s.failed = {} /\ s.calm => Bound(s) /\ (s.at = "manifest of the job" => DeliveryNamed(s))
  BY <1>1 DEF CallTrue, Standing
<1>4. CASE "manifest" \in s.asked
  <2>1. PICK m \in BOOLEAN, d \in BOOLEAN :
          Verifying!Becomes(c, [s EXCEPT !.failed = @ \cup Verifying!Failing(Verifying!DeliveryChecks(s, m, d)),
                                  !.at = "verdict", !.warned = @ \/ "job" \notin s.asked])
    BY <1>4 DEF Verifying!ReadDelivery
  <2> DEFINE checks == Verifying!DeliveryChecks(s, m, d)
  <2>2. PICK failed \in SUBSET CheckNames : failed = Verifying!Failing(checks)
    BY DEF Verifying!Failing, Verifying!DeliveryChecks, CheckNames
  <2>3. PICK warned \in BOOLEAN : warned = (s.warned \/ "job" \notin s.asked)
    OBVIOUS
  <2>4. Verifying!Becomes(c, [s EXCEPT !.at = "verdict", !.failed = s.failed \cup failed, !.warned = warned])
    <3>1. [s EXCEPT !.failed = @ \cup Verifying!Failing(checks), !.at = "verdict",
                    !.warned = @ \/ "job" \notin s.asked]
            = [s EXCEPT !.at = "verdict", !.failed = s.failed \cup failed, !.warned = warned]
      BY <1>1, <2>2, <2>3 DEF CallRecords
    <3> QED BY <2>1, <3>1
  <2>5. ASSUME failed = {}, "job" \in s.asked
        PROVE  s.at = "manifest of the job" /\ "manifest names the job" \in facts
    <3>1. \A name \in DOMAIN checks : checks[name]
      BY <2>2, <2>5 DEF Verifying!Failing
    <3>2. checks.jobDeliveryDigest /\ checks.manifestJob
      BY <3>1 DEF Verifying!DeliveryChecks
    <3> QED BY <2>5, <3>2 DEF Verifying!DeliveryChecks
  <2>6. failed = {} /\ s.failed = {} /\ s.calm => Bound(s) /\ Complete(s)
    BY <1>3, <2>5 DEF Complete
  <2> QED BY <1>1, <1>2, <2>4, <2>6, VerifyMoves
<1>5. CASE "manifest" \notin s.asked
  <2>1. Verifying!Becomes(c, [s EXCEPT !.at = "verdict"])
    BY <1>5 DEF Verifying!ReadDelivery
  <2>2. PICK failed \in SUBSET CheckNames : failed = {}
    OBVIOUS
  <2>3. PICK warned \in BOOLEAN : warned = s.warned
    BY <1>1 DEF CallRecords
  <2>4. Verifying!Becomes(c, [s EXCEPT !.at = "verdict", !.failed = s.failed \cup failed, !.warned = warned])
    <3>1. [s EXCEPT !.at = "verdict"]
            = [s EXCEPT !.at = "verdict", !.failed = s.failed \cup failed, !.warned = warned]
      BY <1>1, <2>2, <2>3 DEF CallRecords
    <3> QED BY <2>1, <3>1
  <2>5. Complete(s)
    BY <1>5 DEF Complete
  <2> QED BY <1>1, <1>2, <1>3, <2>4, <2>5, VerifyMoves
<1> QED BY <1>4, <1>5

LEMMA VerifyReports ==
  ASSUME VerifyInv, NEW c \in Calls, Verifying!Report(c)
  PROVE VerifyInv'
<1> DEFINE old == call[c]
<1>1. old \in CallRecords /\ CallTrue(old) /\ old.at = "verdict"
  BY CallRecorded DEF Verifying!Report
<1>2. PICK verdict \in {"FAIL", "WARNING", "PASS"} :
        verdict = IF old.failed # {} THEN "FAIL" ELSE IF old.warned THEN "WARNING" ELSE "PASS"
  OBVIOUS
<1>3. PICK s \in CallRecords :
        s = [old EXCEPT !.at = "reported", !.failed = {}, !.warned = FALSE, !.verdict = verdict]
  <2>1. [old EXCEPT !.at = "reported", !.failed = {}, !.warned = FALSE, !.verdict = verdict] \in CallRecords
    BY <1>1 DEF CallRecords
  <2> QED BY <2>1
<1>4. /\ s.at = "reported" /\ s.receipt = old.receipt /\ s.verdict = verdict /\ s.head = old.head
      /\ s.asked = old.asked /\ s.calm = old.calm
  BY <1>1, <1>3 DEF CallRecords
<1>5. verdict \in {"PASS", "WARNING"} => old.failed = {}
  BY <1>2
<1>6. s.calm /\ Standing(s) => Included(old) /\ Bound(old) /\ Complete(old)
  BY <1>1, <1>4, <1>5 DEF CallTrue, Standing, Judged
<1>7. CallTrue(s)
  BY <1>1, <1>4, <1>6 DEF CallTrue, Included, Bound, DeliveryNamed, Complete
<1>8. Verifying!Becomes(c, s)
  BY <1>2, <1>3 DEF Verifying!Report
<1> QED BY <1>7, <1>8, VerifyBecomes

LEMMA VerifyStep == VerifyInv /\ [Verifying!Next]_verifyingVars => VerifyInv'
<1> SUFFICES ASSUME VerifyInv, [Verifying!Next]_verifyingVars PROVE VerifyInv'
  OBVIOUS
<1>1. CASE Verifying!Grow
  BY <1>1, VerifyGrows
<1>2. CASE Verifying!Reorganise
  BY <1>2, VerifyReorganises
<1>3. ASSUME NEW c \in Calls, NEW asked \in Requests, Verifying!VerifyDelivery(c, asked) PROVE VerifyInv'
  BY <1>3, VerifyBegins
<1>4. ASSUME NEW c \in Calls, Verifying!ReadReceipt(c) PROVE VerifyInv'
  BY <1>4, VerifyReadsReceipt
<1>5. ASSUME NEW c \in Calls, Verifying!ReadHead(c) PROVE VerifyInv'
  BY <1>5, VerifyReadsHead
<1>6. ASSUME NEW c \in Calls, Verifying!ReadBlock(c) PROVE VerifyInv'
  BY <1>6, VerifyReadsBlock
<1>7. ASSUME NEW c \in Calls, Verifying!ReadJob(c) PROVE VerifyInv'
  BY <1>7, VerifyReadsJob
<1>8. ASSUME NEW c \in Calls, Verifying!ReadDelivery(c) PROVE VerifyInv'
  BY <1>8, VerifyReadsDelivery
<1>9. ASSUME NEW c \in Calls, Verifying!Report(c) PROVE VerifyInv'
  BY <1>9, VerifyReports
<1>10. ASSUME NEW c \in Calls, Verifying!Unavailable(c) PROVE VerifyInv'
  BY <1>10, IdleCall, VerifyBecomes DEF Verifying!Unavailable
<1>11. CASE UNCHANGED verifyingVars
  BY <1>11 DEF verifyingVars, VerifyInv, VerifyTypes, CallTrue, ReceiptTrue, Included, Bound,
               DeliveryNamed, Complete
<1> QED
  BY <1>1, <1>2, <1>3, <1>4, <1>5, <1>6, <1>7, <1>8, <1>9, <1>10, <1>11 DEF Verifying!Next

\* verification.mjs:132-290: for any number of calls, blocks and forks and any lag
\* of the replicas, a report that does not fail is true of the chain, unless blocks
\* were replaced after the receipt was compared with its block.
THEOREM VerifiedIsTrueAlways == Spec => []VerifiedIsTrue
<1>1. Init => VerifyInv
  BY VerifyInit DEF Init
<1>2. VerifyInv /\ [Next]_vars => VerifyInv'
  BY VerifyStep DEF Next, vars
<1>3. VerifyInv => VerifiedIsTrue
  <2> SUFFICES ASSUME VerifyInv PROVE Verifying!VerifiedIsTrue
    BY DEF VerifiedIsTrue
  <2> SUFFICES ASSUME NEW c \in Calls, call[c].verdict \in {"PASS", "WARNING"}, call[c].calm
               PROVE  /\ \E n \in Verifying!Including(verifiedChain) :
                           n <= call[c].head /\ verifiedChain[n].tx = "succeeded"
                      /\ "payment" \in call[c].asked => "pays" \in facts
                      /\ "job" \in call[c].asked => "bound" \in facts
                      /\ {"job", "manifest"} \subseteq call[c].asked =>
                           verifiedChain[call[c].head].deliverable /\ "manifest names the job" \in facts
    BY DEF Verifying!VerifiedIsTrue
  <2>1. CallTrue(call[c]) /\ Standing(call[c]) /\ call[c].at = "reported"
    BY CallRecorded DEF CallTrue, Standing
  <2>2. Included(call[c]) /\ Bound(call[c]) /\ Complete(call[c])
    BY <2>1 DEF CallTrue
  <2> QED BY <2>2 DEF Included, Bound, Complete, DeliveryNamed, Verifying!Including
<1> QED BY <1>1, <1>2, <1>3, PTL DEF Spec

\* What bounds the chain and the calls, which no more of run than there are slots.
VerifyTyped ==
  /\ Len(verifiedChain) \in 1..VerifiedHeight /\ Verifying!Possible(verifiedChain)
  /\ verifiedForks \in 1..MaxForks
  /\ IsFiniteSet(Verifying!Active) /\ Cardinality(Verifying!Active) <= Capacity
  /\ \A c \in Calls : call[c].head <= VerifiedHeight

LEMMA VerifyNumbers ==
  VerifiedHeight \in Nat /\ 1 <= VerifiedHeight /\ MaxForks \in Nat /\ 1 <= MaxForks /\ Capacity \in Nat
<1>1. {VerifiedHeight, MaxForks} \subseteq Nat \ {0} /\ Capacity \in Nat
  BY ComponentsAssumption DEF Verifying!BoundsAreNumbers
<1> QED BY <1>1

LEMMA VerifyCardinality == \A S : Verifying!Cardinality(S) = Cardinality(S)
  BY DEF Cardinality, Verifying!Cardinality

LEMMA VerifyTypeOK == VerifyInv /\ VerifyTyped => Verifying!TypeOK
<1> SUFFICES ASSUME VerifyInv, VerifyTyped PROVE Verifying!TypeOK
  OBVIOUS
<1>1. Verifying!Cardinality(Verifying!Active) <= Capacity
  BY VerifyCardinality DEF VerifyTyped
<1>2. ASSUME NEW c \in Calls
      PROVE  /\ call[c].asked \in Requests \cup {{}} /\ call[c].head \in 0..VerifiedHeight
             /\ call[c].verdict \in {"none", "PASS", "WARNING", "FAIL"}
  <2>1. call[c] \in CallRecords
    BY DEF VerifyInv, VerifyTypes
  <2>2. call[c].head \in Nat /\ call[c].head <= VerifiedHeight
    BY <2>1 DEF CallRecords, VerifyTyped
  <2> QED BY <2>1, <2>2, VerifyNumbers DEF CallRecords
<1> QED BY <1>1, <1>2 DEF VerifyTyped, Verifying!TypeOK

LEMMA VerifyTypedInit == Verifying!Init => VerifyTyped
<1> SUFFICES ASSUME Verifying!Init PROVE VerifyTyped
  OBVIOUS
<1>1. /\ verifiedChain = <<Verifying!Block(1, "none", FALSE)>> /\ verifiedForks = 1
      /\ call = [c \in Calls |-> Verifying!Idle]
  BY DEF Verifying!Init
<1>2. Len(verifiedChain) = 1 /\ DOMAIN verifiedChain = {1} /\ verifiedChain[1].tx = "none"
  BY <1>1 DEF Verifying!Block
<1>3. Verifying!Including(verifiedChain) = {}
  BY <1>2 DEF Verifying!Including
<1>4. Cardinality({}) = 0 /\ IsFiniteSet({})
  BY FS_EmptySet
<1>5. Verifying!Cardinality(Verifying!Including(verifiedChain)) <= 1
  BY <1>3, <1>4, VerifyCardinality
<1>6. Verifying!Possible(verifiedChain)
  BY <1>2, <1>5 DEF Verifying!Possible
<1>7. Verifying!Active = {}
  BY <1>1 DEF Verifying!Active, Verifying!Idle
<1>8. \A c \in Calls : call[c].head = 0
  BY <1>1 DEF Verifying!Idle
<1> QED BY <1>1, <1>2, <1>4, <1>6, <1>7, <1>8, VerifyNumbers DEF VerifyTyped

\* A call that goes on, or ends, takes no slot of another.
LEMMA VerifyGoesOn ==
  ASSUME VerifyInv, VerifyTyped, NEW c \in Calls, NEW s \in CallRecords, Verifying!Becomes(c, s),
         s.head <= VerifiedHeight, c \in Verifying!Active \/ s.at \in {"idle", "reported"}
  PROVE VerifyTyped'
<1>1. /\ UNCHANGED <<verifiedChain, verifiedForks>> /\ call'[c] = s
      /\ \A d \in Calls \ {c} : call'[d] = call[d]
  BY DEF Verifying!Becomes, VerifyInv, VerifyTypes
<1>2. Verifying!Active' \subseteq Verifying!Active
  BY <1>1 DEF Verifying!Active
<1>3. /\ IsFiniteSet(Verifying!Active') /\ Cardinality(Verifying!Active') <= Cardinality(Verifying!Active)
      /\ Cardinality(Verifying!Active') \in Nat /\ Cardinality(Verifying!Active) \in Nat
  BY <1>2, FS_Subset, FS_CardinalityType DEF VerifyTyped
<1>4. Cardinality(Verifying!Active') <= Capacity
  BY <1>3, VerifyNumbers DEF VerifyTyped
<1>5. Verifying!Possible(verifiedChain)'
  BY <1>1 DEF VerifyTyped, Verifying!Possible, Verifying!Including
<1> QED BY <1>1, <1>3, <1>4, <1>5 DEF VerifyTyped

LEMMA VerifyTypedStep ==
  ASSUME VerifyInv, VerifyInv', VerifyTyped, UNCHANGED verifyingVars \/ Verifying!Next
  PROVE VerifyTyped'
<1>1. Len(verifiedChain) \in 1..VerifiedHeight /\ DOMAIN verifiedChain = 1..Len(verifiedChain)
  BY VerifyNumbers DEF VerifyInv, VerifyTypes, VerifyTyped
<1>2. CASE Verifying!Grow
  <2>1. PICK b : /\ Verifying!Possible(Append(verifiedChain, b)) /\ verifiedChain' = Append(verifiedChain, b)
                 /\ Len(verifiedChain) < VerifiedHeight /\ UNCHANGED <<verifiedForks, call>>
    BY <1>2 DEF Verifying!Grow
  <2>2. Len(verifiedChain') = Len(verifiedChain) + 1
    BY <2>1 DEF VerifyInv, VerifyTypes
  <2>3. Len(verifiedChain') \in 1..VerifiedHeight
    BY <1>1, <2>1, <2>2, VerifyNumbers
  <2>4. Verifying!Possible(verifiedChain)'
    BY <2>1
  <2> QED BY <2>1, <2>3, <2>4 DEF VerifyTyped, Verifying!Active
<1>3. CASE Verifying!Reorganise
  <2>1. PICK n \in 2..Len(verifiedChain), b \in Verifying!NewBlocks(verifiedForks + 1) :
          LET blocks == [k \in 1..n |-> IF k < n THEN verifiedChain[k] ELSE b] IN
          Verifying!Possible(blocks) /\ verifiedChain' = blocks
    BY <1>3 DEF Verifying!Reorganise
  <2>2. /\ verifiedForks' = verifiedForks + 1 /\ verifiedForks < MaxForks
        /\ call' = [c \in Calls |-> [call[c] EXCEPT !.calm = @ /\ ~Verifying!Compared(call[c])]]
    BY <1>3 DEF Verifying!Reorganise
  <2>3. verifiedForks' \in 1..MaxForks
    BY <2>2, VerifyNumbers DEF VerifyTyped
  <2>4. Verifying!Possible(verifiedChain)'
    BY <2>1
  <2>5. Len(verifiedChain') \in 1..VerifiedHeight
    <3>1. DOMAIN verifiedChain' = 1..n /\ verifiedChain' \in Seq(BlockRecords)
      BY <2>1 DEF VerifyInv, VerifyTypes
    <3>2. Len(verifiedChain') = n
      BY <1>1, <3>1, LenProperties
    <3> QED BY <1>1, <3>2, VerifyNumbers
  <2>6. ASSUME NEW c \in Calls PROVE call'[c].at = call[c].at /\ call'[c].head = call[c].head
    <3>1. call[c] \in CallRecords
      BY DEF VerifyInv, VerifyTypes
    <3> QED BY <2>2, <3>1 DEF CallRecords
  <2>7. Verifying!Active' = Verifying!Active
    BY <2>6 DEF Verifying!Active
  <2> QED BY <2>3, <2>4, <2>5, <2>6, <2>7 DEF VerifyTyped
<1>4. ASSUME NEW c \in Calls, NEW asked \in Requests, Verifying!VerifyDelivery(c, asked) PROVE VerifyTyped'
  <2>1. /\ c \notin Verifying!Active /\ Verifying!Cardinality(Verifying!Active) < Capacity
        /\ UNCHANGED <<verifiedChain, verifiedForks>>
        /\ call' = [call EXCEPT ![c] = [Verifying!Idle EXCEPT !.at = "receipt", !.asked = asked]]
    BY <1>4 DEF Verifying!VerifyDelivery, Verifying!Becomes
  <2>2. call'[c].at = "receipt" /\ call'[c].head = 0 /\ \A d \in Calls \ {c} : call'[d] = call[d]
    BY <2>1 DEF VerifyInv, VerifyTypes, Verifying!Idle
  <2>3. Verifying!Active' = Verifying!Active \cup {c}
    BY <2>2 DEF Verifying!Active
  <2>4. /\ IsFiniteSet(Verifying!Active') /\ Cardinality(Verifying!Active') = Cardinality(Verifying!Active) + 1
        /\ Cardinality(Verifying!Active) \in Nat
    BY <2>1, <2>3, FS_AddElement, FS_CardinalityType DEF VerifyTyped
  <2>5. Cardinality(Verifying!Active) < Capacity
    BY <2>1, VerifyCardinality
  <2>6. Cardinality(Verifying!Active') <= Capacity
    BY <2>4, <2>5, VerifyNumbers
  <2>7. Verifying!Possible(verifiedChain)'
    BY <2>1 DEF VerifyTyped, Verifying!Possible, Verifying!Including
  <2> QED BY <2>1, <2>2, <2>4, <2>6, <2>7, VerifyNumbers DEF VerifyTyped
<1>5. ASSUME NEW c \in Calls, NEW s, Verifying!Becomes(c, s),
             c \in Verifying!Active \/ s.at \in {"idle", "reported"},
             s.head = call[c].head \/ s.head \in 1..Len(verifiedChain) \/ s.head = 0
      PROVE  VerifyTyped'
  <2>1. call'[c] = s /\ call' \in [Calls -> CallRecords]
    BY <1>5 DEF Verifying!Becomes, VerifyInv, VerifyTypes
  <2>2. s.head <= VerifiedHeight
    BY <1>1, <1>5, VerifyNumbers DEF VerifyTyped
  <2> QED BY <1>5, <2>1, <2>2, VerifyGoesOn
<1>6. ASSUME NEW c \in Calls, Verifying!ReadReceipt(c) PROVE VerifyTyped'
  <2>1. c \in Verifying!Active /\ call[c] \in CallRecords
    BY <1>6 DEF Verifying!ReadReceipt, Verifying!Active, VerifyInv, VerifyTypes
  <2>2. PICK r : Verifying!Becomes(c, [call[c] EXCEPT !.receipt = r, !.at = IF @ = "receipt" THEN "head" ELSE "block"])
    BY <1>6 DEF Verifying!ReadReceipt
  <2>3. [call[c] EXCEPT !.receipt = r, !.at = IF @ = "receipt" THEN "head" ELSE "block"].head = call[c].head
    BY <2>1 DEF CallRecords
  <2> QED BY <1>5, <2>1, <2>2, <2>3
<1>7. ASSUME NEW c \in Calls, Verifying!ReadHead(c) PROVE VerifyTyped'
  <2>1. c \in Verifying!Active /\ call[c] \in CallRecords
    BY <1>7 DEF Verifying!ReadHead, Verifying!Active, VerifyInv, VerifyTypes
  <2>2. PICK lag \in 0..MaxLag : /\ Len(verifiedChain) > lag
          /\ Verifying!Becomes(c, [call[c] EXCEPT !.head = Len(verifiedChain) - lag,
                                   !.at = IF @ = "receipt" THEN "receipt after head" ELSE "block"])
    BY <1>7 DEF Verifying!ReadHead
  <2>3. [call[c] EXCEPT !.head = Len(verifiedChain) - lag,
                        !.at = IF @ = "receipt" THEN "receipt after head" ELSE "block"].head
          = Len(verifiedChain) - lag
    BY <2>1 DEF CallRecords
  <2>4. Len(verifiedChain) - lag \in 1..Len(verifiedChain)
    BY <1>1, <2>2
  <2> QED BY <1>5, <2>1, <2>2, <2>3, <2>4
<1>8. ASSUME NEW c \in Calls,
             Verifying!ReadBlock(c) \/ Verifying!ReadJob(c) \/ Verifying!ReadDelivery(c) \/ Verifying!Report(c)
      PROVE  VerifyTyped'
  <2>1. c \in Verifying!Active /\ call[c] \in CallRecords
    BY <1>8 DEF Verifying!ReadBlock, Verifying!ReadJob, Verifying!ReadDelivery, Verifying!Report,
      Verifying!Active, VerifyInv, VerifyTypes
  <2>2. ASSUME NEW s, s.head = call[c].head, Verifying!Becomes(c, s) PROVE VerifyTyped'
    BY <1>5, <2>1, <2>2
  <2>3. CASE Verifying!ReadBlock(c)
    <3>1. CASE call[c].receipt = Verifying!NoReceipt
      <4>1. Verifying!Becomes(c, [call[c] EXCEPT !.failed = {"receiptFound"}, !.at = "verdict"])
        BY <2>3, <3>1 DEF Verifying!ReadBlock
      <4>2. [call[c] EXCEPT !.failed = {"receiptFound"}, !.at = "verdict"].head = call[c].head
        BY <2>1 DEF CallRecords
      <4> QED BY <2>2, <4>1, <4>2
    <3>2. CASE call[c].receipt # Verifying!NoReceipt
      <4>1. PICK unread \in BOOLEAN :
              Verifying!Becomes(c, [call[c] EXCEPT !.failed = Verifying!Failing(Verifying!ReceiptChecks(call[c])),
                                    !.receipt = Verifying!NoReceipt, !.warned = unread, !.at = "job"])
        BY <2>3, <3>2 DEF Verifying!ReadBlock
      <4>2. [call[c] EXCEPT !.failed = Verifying!Failing(Verifying!ReceiptChecks(call[c])),
                            !.receipt = Verifying!NoReceipt, !.warned = unread, !.at = "job"].head
              = call[c].head
        BY <2>1 DEF CallRecords
      <4> QED BY <2>2, <4>1, <4>2
    <3> QED BY <3>1, <3>2
  <2>4. CASE Verifying!ReadJob(c)
    <3>1. \/ Verifying!Becomes(c, [call[c] EXCEPT !.at = "manifest of the job"])
          \/ Verifying!Becomes(c, [call[c] EXCEPT !.at = "manifest"])
          \/ \E more : Verifying!Becomes(c, [call[c] EXCEPT !.at = "manifest", !.failed = @ \cup more])
      BY <2>4 DEF Verifying!ReadJob
    <3>2. /\ [call[c] EXCEPT !.at = "manifest of the job"].head = call[c].head
          /\ [call[c] EXCEPT !.at = "manifest"].head = call[c].head
          /\ \A more : [call[c] EXCEPT !.at = "manifest", !.failed = @ \cup more].head = call[c].head
      BY <2>1 DEF CallRecords
    <3> QED BY <2>2, <3>1, <3>2
  <2>5. CASE Verifying!ReadDelivery(c)
    <3>1. \/ Verifying!Becomes(c, [call[c] EXCEPT !.at = "verdict"])
          \/ \E more, doubt : Verifying!Becomes(c, [call[c] EXCEPT !.failed = @ \cup more, !.at = "verdict",
                                                   !.warned = @ \/ doubt])
      BY <2>5 DEF Verifying!ReadDelivery
    <3>2. /\ [call[c] EXCEPT !.at = "verdict"].head = call[c].head
          /\ \A more, doubt : [call[c] EXCEPT !.failed = @ \cup more, !.at = "verdict",
                                             !.warned = @ \/ doubt].head = call[c].head
      BY <2>1 DEF CallRecords
    <3> QED BY <2>2, <3>1, <3>2
  <2>6. CASE Verifying!Report(c)
    <3>1. \E word : Verifying!Becomes(c, [call[c] EXCEPT !.at = "reported", !.failed = {}, !.warned = FALSE,
                                         !.verdict = word])
      BY <2>6 DEF Verifying!Report
    <3>2. \A word : [call[c] EXCEPT !.at = "reported", !.failed = {}, !.warned = FALSE,
                                    !.verdict = word].head = call[c].head
      BY <2>1 DEF CallRecords
    <3> QED BY <2>2, <3>1, <3>2
  <2> QED BY <1>8, <2>3, <2>4, <2>5, <2>6
<1>9. ASSUME NEW c \in Calls, Verifying!Unavailable(c) PROVE VerifyTyped'
  <2>1. Verifying!Becomes(c, Verifying!Idle) /\ Verifying!Idle.head = 0 /\ Verifying!Idle.at = "idle"
    BY <1>9 DEF Verifying!Unavailable, Verifying!Idle
  <2> QED BY <1>5, <2>1
<1>10. CASE UNCHANGED verifyingVars
  BY <1>10 DEF verifyingVars, VerifyTyped, Verifying!Possible, Verifying!Including, Verifying!Active
<1> QED BY <1>2, <1>3, <1>4, <1>6, <1>7, <1>8, <1>9, <1>10 DEF Verifying!Next

-----------------------------------------------------------------------------
(* The event scan.                                                          *)

ScanBlocks == [fork : Nat, event : BOOLEAN]
EventNames == Nat \X Nat
CacheRecords == [toBlock : Nat, anchorNumber : Nat, anchorFork : Nat, transactions : SUBSET EventNames]
ReaderRecords ==
  [at : {"idle", "head", "logs", "done"}, jobs : SUBSET EventNames, head : Nat, from : Nat,
   pages : SUBSET (Nat \X Nat), transactions : SUBSET EventNames, calm : BOOLEAN]

ScanTypes ==
  /\ scanChain \in Seq(ScanBlocks) /\ Len(scanChain) >= 1 /\ ~scanChain[1].event
  /\ scanForks \in Nat /\ \A n \in DOMAIN scanChain : scanChain[n].fork <= scanForks
  /\ cache \in CacheRecords /\ reader \in [Readers -> ReaderRecords]

\* The cache: its anchor was a block of the chain, and its history is the chain's
\* while it still is.
CacheTrue ==
  /\ cache = Scan!NoCache \/ (cache.anchorNumber \in DOMAIN scanChain /\ cache.anchorFork <= scanForks)
  /\ \A t \in cache.transactions : t[1] >= 1
  /\ Scan!CachedHistoryIsTheChains

\* Up to a block, a call has the chain's events but for those of the pages it still reads.
Covers(s, b) ==
  /\ \A t \in s.transactions : t[1] <= b => t \in Scan!Events(1, b)
  /\ \A t \in Scan!Events(1, b) : t \in s.transactions \/ \E p \in s.pages : t[1] \in p[1]..p[2]

\* Every call covers its future anchor, below which nothing is replaced while it
\* reads; a calm one covers all it has been asked for.
ReaderTrue(s) ==
  /\ s.at = "head" /\ s.calm => s.jobs \subseteq Scan!Events(1, Len(scanChain))
  /\ s.at \in {"logs", "done"} => /\ s.head \in DOMAIN scanChain
                                  /\ \A t \in s.transactions : t[1] \in 1..s.head
  /\ s.at = "logs" => /\ \A p \in s.pages : p[1] >= 1 /\ p[2] <= s.head
                      /\ Covers(s, Scan!AnchorNumber(s.head))
  /\ s.at \in {"logs", "done"} /\ s.calm => Covers(s, s.head) /\ s.jobs \subseteq Scan!Events(1, s.head)
  /\ s.at = "done" => s.pages = {}

ScanInv == ScanTypes /\ CacheTrue /\ \A r \in Readers : ReaderTrue(reader[r])

LEMMA ScanConstants == TailBlocks \in Nat /\ MaxBlocks \in Nat \ {0} /\ MaxLag \in 0..TailBlocks
  BY ComponentsAssumption DEF Scan!TailCoversLag

LEMMA ScanIdle == Scan!Idle \in ReaderRecords /\ ReaderTrue(Scan!Idle)
  BY DEF Scan!Idle, ReaderRecords, ReaderTrue

LEMMA EventOf ==
  ASSUME NEW from, NEW to, NEW t
  PROVE t \in Scan!Events(from, to) <=>
          \E n \in DOMAIN scanChain : n \in from..to /\ scanChain[n].event /\ t = <<n, scanChain[n].fork>>
  BY DEF Scan!Events

LEMMA ScanInit == Scan!Init => ScanInv
<1> SUFFICES ASSUME Scan!Init PROVE ScanInv
  OBVIOUS
<1> DEFINE b == [fork |-> 1, event |-> FALSE]
<1>1. b \in ScanBlocks /\ b.fork = 1 /\ ~b.event
  BY DEF ScanBlocks
<1>2. scanChain = <<b>> /\ scanForks = 1 /\ cache = Scan!NoCache
      /\ reader = [r \in Readers |-> Scan!Idle]
  BY DEF Scan!Init
<1>3. <<b>> \in Seq(ScanBlocks) /\ Len(<<b>>) = 1 /\ <<b>>[1] = b
  BY <1>1
<1> HIDE DEF b
<1>4. /\ scanChain \in Seq(ScanBlocks) /\ Len(scanChain) = 1 /\ scanChain[1] = b
  BY <1>2, <1>3
<1>5. DOMAIN scanChain = {1}
  BY <1>4
<1>6. Scan!NoCache \in CacheRecords /\ Scan!NoCache.transactions = {}
  BY DEF Scan!NoCache, CacheRecords
<1>7. ScanTypes
  BY <1>1, <1>2, <1>4, <1>5, <1>6, ScanIdle DEF ScanTypes
<1>8. CacheTrue
  BY <1>2, <1>6 DEF CacheTrue, Scan!CachedHistoryIsTheChains
<1> QED BY <1>2, <1>7, <1>8, ScanIdle DEF ScanInv

LEMMA ChainDomain ==
  ASSUME ScanInv
  PROVE /\ scanChain \in Seq(ScanBlocks) /\ Len(scanChain) \in Nat /\ Len(scanChain) >= 1
        /\ DOMAIN scanChain = 1..Len(scanChain) /\ ~scanChain[1].event
        /\ \A n \in DOMAIN scanChain : scanChain[n] \in ScanBlocks /\ scanChain[n].fork \in Nat
<1>1. scanChain \in Seq(ScanBlocks) /\ Len(scanChain) >= 1 /\ ~scanChain[1].event
  BY DEF ScanInv, ScanTypes
<1>2. /\ Len(scanChain) \in Nat /\ DOMAIN scanChain = 1..Len(scanChain)
      /\ \A n \in DOMAIN scanChain : scanChain[n] \in ScanBlocks
  BY <1>1
<1>3. \A block \in ScanBlocks : block.fork \in Nat
  BY DEF ScanBlocks
<1> QED BY <1>1, <1>2, <1>3

\* Events of blocks that stay are the same.
LEMMA EventsStay ==
  ASSUME ScanInv, NEW b \in Nat, b <= Len(scanChain),
         \A n \in 1..b : n \in DOMAIN scanChain' /\ scanChain'[n] = scanChain[n]
  PROVE Scan!Events(1, b)' = Scan!Events(1, b)
<1>1. \A n \in 1..b : n \in DOMAIN scanChain
  BY ChainDomain
<1>2. {k \in DOMAIN scanChain' : k \in 1..b /\ scanChain'[k].event}
        = {k \in DOMAIN scanChain : k \in 1..b /\ scanChain[k].event}
  BY <1>1
<1> QED BY <1>1, <1>2 DEF Scan!Events

LEMMA AnchorBelow ==
  ASSUME NEW head \in Nat, head >= 1
  PROVE /\ Scan!AnchorNumber(head) \in Nat /\ Scan!AnchorNumber(head) >= 1
        /\ Scan!AnchorNumber(head) <= head
        /\ Scan!AnchorNumber(head) = 1 \/ Scan!AnchorNumber(head) = head - TailBlocks
  BY ScanConstants DEF Scan!AnchorNumber, Scan!First

LEMMA LeastOfTwo ==
  ASSUME NEW a \in Int, NEW b \in Int
  PROVE Scan!Min({a, b}) = IF a <= b THEN a ELSE b
  BY DEF Scan!Min

LEMMA Division ==
  ASSUME NEW a \in Nat, NEW m \in Nat \ {0}
  PROVE a \div m \in Nat /\ m * (a \div m) <= a /\ a < m * (a \div m) + m
  OBVIOUS

LEMMA DivisionGrows ==
  ASSUME NEW a \in Nat, NEW b \in Nat, a <= b, NEW m \in Nat \ {0}
  PROVE a \div m <= b \div m
  OBVIOUS

\* The pages of a range lie in it and cover it.
LEMMA PagesCover ==
  ASSUME NEW from \in Nat, from >= 1, NEW to \in Nat, from <= to
  PROVE /\ \A p \in Scan!Pages(from, to) : p \in Nat \X Nat /\ p[1] >= from /\ p[2] <= to
        /\ \A k \in from..to : \E p \in Scan!Pages(from, to) : k \in p[1]..p[2]
<1> DEFINE last == (to - from) \div MaxBlocks
           page(start) == <<start, Scan!Min({start + MaxBlocks - 1, to})>>
<1>1. MaxBlocks \in Nat /\ MaxBlocks >= 1 /\ last \in Nat
  <2>1. MaxBlocks \in Nat \ {0} /\ to - from \in Nat
    BY ScanConstants
  <2> QED BY <2>1, Division
<1>2. Scan!Pages(from, to) = {page(start) : start \in {from + MaxBlocks * k : k \in 0..last}}
  BY DEF Scan!Pages
<1>3. ASSUME NEW k \in 0..last
      PROVE  LET start == from + MaxBlocks * k IN
             page(start) \in Nat \X Nat /\ page(start)[1] = start /\ start >= from /\ page(start)[2] <= to
  <2>1. MaxBlocks * k \in Nat
    BY <1>1
  <2>2. PICK start \in Nat : start = from + MaxBlocks * k /\ start >= from
    BY <2>1
  <2>3. start + MaxBlocks - 1 \in Int /\ start + MaxBlocks - 1 >= 0
    BY <1>1, <2>2
  <2>4. Scan!Min({start + MaxBlocks - 1, to}) = IF start + MaxBlocks - 1 <= to THEN start + MaxBlocks - 1 ELSE to
    BY <2>3, LeastOfTwo
  <2>5. Scan!Min({start + MaxBlocks - 1, to}) \in Nat /\ Scan!Min({start + MaxBlocks - 1, to}) <= to
    BY <2>3, <2>4
  <2> QED BY <2>2, <2>5
<1>4. ASSUME NEW k \in from..to PROVE \E p \in Scan!Pages(from, to) : k \in p[1]..p[2]
  <2> DEFINE n == (k - from) \div MaxBlocks
             start == from + MaxBlocks * n
  <2>1. k - from \in Nat /\ to - from \in Nat /\ k - from <= to - from /\ MaxBlocks \in Nat \ {0}
    BY <1>1
  <2>2. n \in Nat /\ MaxBlocks * n <= k - from /\ k - from < MaxBlocks * n + MaxBlocks
    BY <2>1, Division
  <2>3. n <= last
    BY <2>1, DivisionGrows
  <2>4. n \in 0..last
    BY <1>1, <2>2, <2>3
  <2>5. start \in Nat /\ start <= k /\ k <= start + MaxBlocks - 1
    <3>1. MaxBlocks * n \in Nat
      BY <1>1, <2>2
    <3> HIDE DEF n
    <3> QED BY <1>1, <2>2, <3>1
  <2>6. page(start) \in Scan!Pages(from, to)
    BY <1>2, <2>4
  <2>7. k <= Scan!Min({start + MaxBlocks - 1, to}) /\ Scan!Min({start + MaxBlocks - 1, to}) \in Int
    <3>1. start + MaxBlocks - 1 \in Int
      BY <1>1, <2>5
    <3>2. Scan!Min({start + MaxBlocks - 1, to}) = IF start + MaxBlocks - 1 <= to THEN start + MaxBlocks - 1 ELSE to
      BY <3>1, LeastOfTwo
    <3> HIDE DEF start
    <3> QED BY <2>5, <3>1, <3>2
  <2>8. page(start)[1] = start /\ page(start)[2] = Scan!Min({start + MaxBlocks - 1, to})
    OBVIOUS
  <2>9. k \in page(start)[1]..page(start)[2]
    <3> HIDE DEF start
    <3> QED BY <2>5, <2>7
  <2> QED BY <2>6, <2>9
<1> QED BY <1>2, <1>3, <1>4

LEMMA ReaderRecorded ==
  ASSUME ScanInv, NEW r \in Readers
  PROVE reader[r] \in ReaderRecords /\ ReaderTrue(reader[r])
  BY DEF ScanInv, ScanTypes

LEMMA ScanBecomes ==
  ASSUME ScanInv, NEW r \in Readers, NEW s \in ReaderRecords, Scan!Becomes(r, s), ReaderTrue(s),
         UNCHANGED <<scanChain, scanForks, cache>>
  PROVE ScanInv'
<1>1. /\ reader' \in [Readers -> ReaderRecords] /\ reader'[r] = s
      /\ \A q \in Readers \ {r} : reader'[q] = reader[q]
  BY DEF Scan!Becomes, ScanInv, ScanTypes
<1>2. ScanTypes' /\ CacheTrue'
  BY <1>1 DEF ScanInv, ScanTypes, CacheTrue, Scan!CachedHistoryIsTheChains, Scan!AnchorHolds, Scan!Events
<1>3. ASSUME NEW q \in Readers PROVE ReaderTrue(reader[q])'
  <2>1. ReaderTrue(reader'[q])
    BY <1>1 DEF ScanInv
  <2> QED BY <2>1 DEF ReaderTrue, Covers, Scan!Events
<1> QED BY <1>2, <1>3 DEF ScanInv

LEMMA EventNamed ==
  ASSUME ScanInv, NEW from, NEW to
  PROVE Scan!Events(from, to) \in SUBSET EventNames
<1> SUFFICES ASSUME NEW t \in Scan!Events(from, to) PROVE t \in EventNames
  OBVIOUS
<1>1. PICK n \in DOMAIN scanChain : t = <<n, scanChain[n].fork>>
  BY EventOf
<1>2. n \in Nat /\ scanChain[n].fork \in Nat
  BY ChainDomain
<1> QED BY <1>1, <1>2 DEF EventNames

LEMMA ScanReadsJobs ==
  ASSUME ScanInv, NEW r \in Readers, Scan!ReadJobs(r)
  PROVE ScanInv'
<1>1. PICK events \in SUBSET EventNames : events = Scan!Events(1, Len(scanChain))
  BY EventNamed
<1>2. PICK s \in ReaderRecords : s = [Scan!Idle EXCEPT !.at = "head", !.jobs = events]
  <2>1. [Scan!Idle EXCEPT !.at = "head", !.jobs = events] \in ReaderRecords
    BY ScanIdle DEF ReaderRecords
  <2> QED BY <2>1
<1>3. s.at = "head" /\ s.jobs = Scan!Events(1, Len(scanChain))
  BY <1>1, <1>2 DEF Scan!Idle
<1>4. ReaderTrue(s)
  BY <1>3 DEF ReaderTrue
<1>5. Scan!Becomes(r, s) /\ UNCHANGED <<scanChain, scanForks, cache>>
  BY <1>1, <1>2 DEF Scan!ReadJobs, Scan!First
<1> QED BY <1>4, <1>5, ScanBecomes

LEMMA CoversStay ==
  ASSUME NEW s, NEW b, Scan!Events(1, b)' = Scan!Events(1, b), Covers(s, b)
  PROVE Covers(s, b)'
  BY DEF Covers

\* The chain grows at its end: what was read stays true.
LEMMA ScanGrows ==
  ASSUME ScanInv, Scan!Grow
  PROVE ScanInv'
<1>1. PICK e \in BOOLEAN : scanChain' = Append(scanChain, [fork |-> scanForks, event |-> e])
  BY DEF Scan!Grow
<1>2. PICK b \in ScanBlocks : b = [fork |-> scanForks, event |-> e] /\ b.fork = scanForks
  <2>1. scanForks \in Nat
    BY DEF ScanInv, ScanTypes
  <2>2. [fork |-> scanForks, event |-> e] \in ScanBlocks
    BY <2>1 DEF ScanBlocks
  <2> QED BY <2>2
<1>3. UNCHANGED <<scanForks, cache, reader>> /\ scanForks \in Nat
  BY DEF Scan!Grow, ScanInv, ScanTypes
<1> DEFINE last == Len(scanChain) + 1
<1>4. /\ scanChain' \in Seq(ScanBlocks) /\ Len(scanChain') = last
      /\ DOMAIN scanChain' = DOMAIN scanChain \cup {last} /\ scanChain'[last] = b
      /\ \A n \in DOMAIN scanChain : scanChain'[n] = scanChain[n]
  BY <1>1, <1>2, ChainDomain, AppendProperties
<1>5. ASSUME NEW b1 \in Nat, b1 <= Len(scanChain)
      PROVE  Scan!Events(1, b1)' = Scan!Events(1, b1)
  BY <1>4, <1>5, ChainDomain, EventsStay
<1>6. ScanTypes'
  BY <1>2, <1>3, <1>4, ChainDomain DEF ScanInv, ScanTypes
<1>7. CacheTrue'
  <2>1. CacheTrue
    BY DEF ScanInv
  <2>2. CASE cache = Scan!NoCache
    BY <1>3, <2>1, <2>2 DEF CacheTrue, Scan!CachedHistoryIsTheChains
  <2>3. CASE cache # Scan!NoCache
    <3>1. cache.anchorNumber \in DOMAIN scanChain /\ cache.anchorNumber \in Nat
          /\ cache.anchorNumber <= Len(scanChain)
      BY <2>1, <2>3, ChainDomain DEF CacheTrue
    <3>2. Scan!Events(1, cache.anchorNumber)' = Scan!Events(1, cache.anchorNumber)
      BY <1>3, <1>5, <3>1 DEF Scan!Events
    <3>3. Scan!AnchorHolds' => Scan!AnchorHolds
      BY <1>3, <1>4, <3>1 DEF Scan!AnchorHolds
    <3> QED BY <1>3, <1>4, <2>1, <3>1, <3>2, <3>3
            DEF CacheTrue, Scan!CachedHistoryIsTheChains, Scan!First
  <2> QED BY <2>2, <2>3
<1>8. ASSUME NEW r \in Readers PROVE ReaderTrue(reader[r])'
  <2>1. PICK s \in ReaderRecords : s = reader[r] /\ ReaderTrue(s)
    BY ReaderRecorded
  <2>2. Scan!Events(1, Len(scanChain)) \subseteq Scan!Events(1, Len(scanChain))'
    <3>1. {n \in DOMAIN scanChain : n \in 1..Len(scanChain) /\ scanChain[n].event}
            \subseteq {n \in DOMAIN scanChain' : n \in 1..Len(scanChain') /\ scanChain'[n].event}
      BY <1>4, ChainDomain
    <3> QED BY <1>4, <3>1 DEF Scan!Events
  <2>3. CASE s.at \in {"logs", "done"}
    <3>1. s.head \in DOMAIN scanChain /\ s.head \in Nat /\ s.head >= 1 /\ s.head <= Len(scanChain)
      BY <2>1, <2>3, ChainDomain DEF ReaderTrue
    <3>2. Scan!AnchorNumber(s.head) \in Nat /\ Scan!AnchorNumber(s.head) <= Len(scanChain)
      BY <3>1, AnchorBelow, ChainDomain
    <3>3. PICK a \in Nat : a = Scan!AnchorNumber(s.head)
      BY <3>2
    <3>4. /\ Scan!Events(1, a)' = Scan!Events(1, a)
          /\ Scan!Events(1, s.head)' = Scan!Events(1, s.head)
      BY <1>5, <3>1, <3>2, <3>3
    <3>5. /\ Covers(s, a) => Covers(s, a)'
          /\ Covers(s, s.head) => Covers(s, s.head)'
      BY <3>4, CoversStay
    <3>6. ReaderTrue(s)'
      BY <1>4, <2>1, <2>3, <3>1, <3>3, <3>4, <3>5 DEF ReaderTrue
    <3> QED BY <1>3, <2>1, <3>6
  <2>4. CASE s.at \notin {"logs", "done"}
    <3>1. ReaderTrue(s)'
      BY <2>1, <2>2, <2>4 DEF ReaderTrue
    <3> QED BY <1>3, <2>1, <3>1
  <2> QED BY <2>3, <2>4
<1> QED BY <1>6, <1>7, <1>8 DEF ScanInv

\* Blocks are replaced, but none that a call's anchor covers.
LEMMA ScanReorganises ==
  ASSUME ScanInv, NEW n \in DOMAIN scanChain, Scan!Reorganise(n)
  PROVE ScanInv'
<1>1. PICK e \in [n..Len(scanChain) -> BOOLEAN] :
        scanChain' = [k \in DOMAIN scanChain |->
                        IF k < n THEN scanChain[k] ELSE [fork |-> scanForks + 1, event |-> e[k]]]
  BY DEF Scan!Reorganise
<1>2. /\ n \in 2..Len(scanChain) /\ scanForks' = scanForks + 1 /\ UNCHANGED cache
      /\ (\E r \in Readers : reader[r].at \notin {"idle", "done"}) => n > Len(scanChain) - TailBlocks
      /\ reader' = [r \in Readers |-> IF reader[r].at = "idle" THEN Scan!Idle
                                      ELSE [reader[r] EXCEPT !.calm = FALSE]]
  BY DEF Scan!Reorganise
<1>3. n \in Nat /\ n >= 2 /\ n <= Len(scanChain) /\ scanForks \in Nat
      /\ \A k \in DOMAIN scanChain : scanChain[k].fork <= scanForks
  BY <1>2, ChainDomain DEF ScanInv, ScanTypes
<1>4. ASSUME NEW k \in DOMAIN scanChain
      PROVE  /\ scanChain'[k] \in ScanBlocks /\ scanChain'[k].fork <= scanForks + 1
             /\ k < n => scanChain'[k] = scanChain[k]
             /\ ~(k < n) => scanChain'[k].fork = scanForks + 1
  <2>1. CASE k < n
    <3>1. scanChain'[k] = scanChain[k] /\ scanChain[k] \in ScanBlocks /\ scanChain[k].fork \in Nat
      BY <1>1, <2>1, ChainDomain
    <3> QED BY <1>3, <2>1, <3>1
  <2>2. CASE ~(k < n)
    <3>1. k \in n..Len(scanChain)
      BY <1>3, <2>2, ChainDomain
    <3>2. PICK event \in BOOLEAN : event = e[k]
      BY <3>1
    <3>3. [fork |-> scanForks + 1, event |-> event] \in ScanBlocks
      BY <1>3 DEF ScanBlocks
    <3>4. scanChain'[k] = [fork |-> scanForks + 1, event |-> event]
      BY <1>1, <2>2, <3>2
    <3> QED BY <1>3, <2>2, <3>3, <3>4
  <2> QED BY <2>1, <2>2
<1>5. DOMAIN scanChain' = DOMAIN scanChain /\ DOMAIN scanChain = 1..Len(scanChain)
  BY <1>1, ChainDomain
<1>6. scanChain' \in Seq(ScanBlocks) /\ Len(scanChain') = Len(scanChain)
  <2>1. PICK size \in Nat : size = Len(scanChain)
    BY ChainDomain
  <2>2. scanChain' \in [1..size -> ScanBlocks]
    BY <1>1, <1>4, <1>5, <2>1
  <2>3. scanChain' \in Seq(ScanBlocks) /\ Len(scanChain') = size
    BY <2>2
  <2> QED BY <2>1, <2>3
<1>7. ASSUME NEW b \in Nat, b < n
      PROVE  Scan!Events(1, b)' = Scan!Events(1, b)
  <2>1. b <= Len(scanChain) /\ \A k \in 1..b : k \in DOMAIN scanChain /\ k < n
    BY <1>3, <1>5, <1>7, ChainDomain
  <2> QED BY <1>4, <1>5, <2>1, EventsStay
<1>8. ASSUME NEW r \in Readers PROVE reader'[r] \in ReaderRecords /\ ReaderTrue(reader[r])'
  <2>1. PICK old \in ReaderRecords : old = reader[r] /\ ReaderTrue(old)
    BY ReaderRecorded
  <2>2. CASE old.at = "idle"
    <3>1. reader'[r] = Scan!Idle
      BY <1>2, <2>1, <2>2
    <3>2. ReaderTrue(Scan!Idle)'
      BY DEF Scan!Idle, ReaderTrue
    <3> QED BY <3>1, <3>2, ScanIdle
  <2>3. CASE old.at # "idle"
    <3>1. PICK s \in ReaderRecords : s = [old EXCEPT !.calm = FALSE]
      <4>1. [old EXCEPT !.calm = FALSE] \in ReaderRecords
        BY DEF ReaderRecords
      <4> QED BY <4>1
    <3>2. /\ s.at = old.at /\ s.jobs = old.jobs /\ s.head = old.head /\ s.pages = old.pages
          /\ s.transactions = old.transactions /\ ~s.calm
      BY <3>1 DEF ReaderRecords
    <3>3. reader'[r] = s
      BY <1>2, <2>1, <2>3, <3>1
    <3>4. CASE old.at = "logs"
      <4>1. n > Len(scanChain) - TailBlocks
        BY <1>2, <2>1, <3>4
      <4>2. old.head \in Nat /\ old.head >= 1 /\ old.head <= Len(scanChain)
        BY <2>1, <3>4, ChainDomain DEF ReaderTrue
      <4>3. PICK a \in Nat : /\ a = Scan!AnchorNumber(old.head)
                             /\ a = 1 \/ a = old.head - TailBlocks
        BY <4>2, AnchorBelow
      <4>4. a < n
        BY <1>3, <4>1, <4>2, <4>3, ScanConstants, ChainDomain
      <4>5. Scan!Events(1, a)' = Scan!Events(1, a)
        BY <1>7, <4>4
      <4>6. Covers(s, a)
        BY <2>1, <3>2, <3>4, <4>3 DEF ReaderTrue, Covers
      <4>7. Covers(s, a)'
        BY <4>5, <4>6, CoversStay
      <4>8. ReaderTrue(s)'
        BY <1>5, <2>1, <3>2, <3>4, <4>3, <4>7 DEF ReaderTrue
      <4> QED BY <3>3, <4>8
    <3>5. CASE old.at # "logs"
      <4>1. ReaderTrue(s)'
        BY <1>5, <2>1, <3>2, <3>5 DEF ReaderTrue
      <4> QED BY <3>3, <4>1
    <3> QED BY <3>4, <3>5
  <2> QED BY <2>2, <2>3
<1>9. reader' \in [Readers -> ReaderRecords]
  BY <1>2, <1>8
<1>10. ScanTypes'
  <2>1. ~scanChain'[1].event
    BY <1>3, <1>4, <1>5, ChainDomain
  <2>2. \A k \in DOMAIN scanChain' : scanChain'[k].fork <= scanForks'
    BY <1>2, <1>4, <1>5
  <2> QED BY <1>2, <1>3, <1>6, <1>9, <2>1, <2>2, ChainDomain DEF ScanInv, ScanTypes
<1>11. CacheTrue'
  <2>1. CacheTrue /\ cache \in CacheRecords
    BY DEF ScanInv, ScanTypes
  <2>2. CASE cache = Scan!NoCache
    BY <1>2, <2>1, <2>2 DEF CacheTrue, Scan!CachedHistoryIsTheChains
  <2>3. CASE cache # Scan!NoCache
    <3>1. cache.anchorNumber \in DOMAIN scanChain /\ cache.anchorNumber \in Nat
          /\ cache.anchorFork \in Nat /\ cache.anchorFork <= scanForks
      BY <2>1, <2>3 DEF CacheTrue, CacheRecords
    <3>2. ASSUME Scan!AnchorHolds'
          PROVE  cache.anchorNumber < n /\ Scan!AnchorHolds
      <4>1. scanChain'[cache.anchorNumber].fork = cache.anchorFork
        BY <1>2, <3>2 DEF Scan!AnchorHolds
      <4>2. cache.anchorNumber < n
        BY <1>3, <1>4, <3>1, <4>1
      <4>3. scanChain[cache.anchorNumber].fork = cache.anchorFork
        BY <1>4, <3>1, <4>1, <4>2
      <4> QED BY <3>1, <4>2, <4>3 DEF Scan!AnchorHolds
    <3>3. Scan!CachedHistoryIsTheChains'
      <4> SUFFICES ASSUME Scan!AnchorHolds'
                   PROVE {t \in cache.transactions : t[1] <= cache.anchorNumber}
                           = Scan!Events(1, cache.anchorNumber)'
        BY <1>2 DEF Scan!CachedHistoryIsTheChains, Scan!First, Scan!Events
      <4>1. cache.anchorNumber < n /\ Scan!AnchorHolds
        BY <3>2
      <4>2. {t \in cache.transactions : t[1] <= cache.anchorNumber} = Scan!Events(1, cache.anchorNumber)
        BY <2>1, <2>3, <4>1 DEF CacheTrue, Scan!CachedHistoryIsTheChains, Scan!First
      <4>3. PICK a \in Nat : a = cache.anchorNumber
        BY <3>1
      <4>4. Scan!Events(1, a)' = Scan!Events(1, a)
        BY <1>7, <4>1, <4>3
      <4>5. cache'.anchorNumber = a
        BY <1>2, <4>3
      <4> QED BY <4>2, <4>3, <4>4, <4>5 DEF Scan!Events
    <3>4. cache'.anchorNumber \in DOMAIN scanChain' /\ cache'.anchorFork <= scanForks'
      BY <1>2, <1>3, <1>5, <3>1
    <3> QED BY <1>2, <2>1, <3>3, <3>4 DEF CacheTrue
  <2> QED BY <2>2, <2>3
<1> QED BY <1>8, <1>10, <1>11 DEF ScanInv

\* Where a scan begins: the transactions kept are the chain's events below it.
LEMMA ScanStarts ==
  ASSUME ScanInv, NEW head \in Nat, head >= 1, head <= Len(scanChain)
  PROVE /\ Scan!LogScanStart(head) \in Nat /\ Scan!LogScanStart(head) >= 1
        /\ Scan!LogScanStart(head) <= head + 1
        /\ {t \in cache.transactions : t[1] < Scan!LogScanStart(head)}
             = Scan!Events(1, Scan!LogScanStart(head) - 1)
<1>1. /\ cache.transactions \in SUBSET EventNames /\ cache.anchorNumber \in Nat /\ cache.toBlock \in Nat
      /\ \A t \in cache.transactions : t[1] >= 1 /\ t[1] \in Nat
  BY DEF ScanInv, ScanTypes, CacheTrue, CacheRecords, EventNames
<1> DEFINE fresh == cache = Scan!NoCache \/ cache.toBlock > head
                    \/ ~(cache.anchorNumber \in 1..cache.toBlock) \/ ~Scan!AnchorHolds
<1>2. Scan!LogScanStart(head) = IF fresh THEN 1 ELSE cache.anchorNumber + 1
  BY DEF Scan!LogScanStart, Scan!First
<1>3. CASE fresh
  <2>1. Scan!Events(1, 0) = {}
    BY EventOf, ChainDomain
  <2>2. {t \in cache.transactions : t[1] < 1} = {}
    BY <1>1
  <2> HIDE DEF fresh
  <2>3. Scan!LogScanStart(head) = 1 /\ 1 - 1 = 0
    BY <1>2, <1>3
  <2> QED BY <2>1, <2>2, <2>3
<1>4. CASE ~fresh
  <2>1. PICK a \in Nat : a = cache.anchorNumber /\ a >= 1 /\ a <= head
    BY <1>1, <1>4
  <2>2. {t \in cache.transactions : t[1] <= a} = Scan!Events(1, a)
    BY <1>4, <2>1 DEF ScanInv, CacheTrue, Scan!CachedHistoryIsTheChains, Scan!First
  <2>3. {t \in cache.transactions : t[1] < a + 1} = {t \in cache.transactions : t[1] <= a}
    BY <1>1
  <2> HIDE DEF fresh
  <2>4. Scan!LogScanStart(head) = a + 1 /\ a + 1 - 1 = a
    BY <1>2, <1>4, <2>1
  <2> QED BY <2>1, <2>2, <2>3, <2>4
<1> QED BY <1>3, <1>4

\* A scan that keeps the events below its start and reads pages up to the head
\* covers every block up to the head.
LEMMA ScanCovers ==
  ASSUME ScanInv, NEW start \in Nat, start >= 1, NEW head \in Nat, start <= head + 1,
         NEW s, s.transactions = Scan!Events(1, start - 1),
         \A k \in start..head : \E p \in s.pages : k \in p[1]..p[2],
         NEW b \in Nat, b <= head
  PROVE Covers(s, b)
<1>1. ASSUME NEW t \in s.transactions, t[1] <= b PROVE t \in Scan!Events(1, b)
  <2>1. PICK n \in DOMAIN scanChain : n \in 1..(start - 1) /\ scanChain[n].event /\ t = <<n, scanChain[n].fork>>
    BY EventOf
  <2>2. n \in 1..b
    BY <1>1, <2>1
  <2> QED BY <2>1, <2>2, EventOf
<1>2. ASSUME NEW t \in Scan!Events(1, b)
      PROVE  t \in s.transactions \/ \E p \in s.pages : t[1] \in p[1]..p[2]
  <2>1. PICK n \in DOMAIN scanChain : n \in 1..b /\ scanChain[n].event /\ t = <<n, scanChain[n].fork>>
    BY EventOf
  <2>2. CASE n < start
    <3>1. n \in 1..(start - 1)
      BY <2>1, <2>2
    <3> QED BY <2>1, <3>1, EventOf
  <2>3. CASE ~(n < start)
    <3>1. n \in start..head /\ t[1] = n
      BY <2>1, <2>3
    <3> QED BY <3>1
  <2> QED BY <2>2, <2>3
<1> QED BY <1>1, <1>2 DEF Covers

LEMMA ScanReadsHead ==
  ASSUME ScanInv, NEW r \in Readers, Scan!ReadHead(r)
  PROVE ScanInv'
<1>1. PICK old \in ReaderRecords : old = reader[r] /\ ReaderTrue(old) /\ old.at = "head"
  BY ReaderRecorded DEF Scan!ReadHead
<1> DEFINE next(lag, head) ==
      [old EXCEPT !.at = "logs", !.head = head, !.from = Scan!LogScanStart(head),
         !.pages = IF Scan!LogScanStart(head) > head THEN {} ELSE Scan!Pages(Scan!LogScanStart(head), head),
         !.transactions = {t \in cache.transactions : t[1] < Scan!LogScanStart(head)},
         !.calm = @ /\ lag = 0]
<1>2. PICK lag \in 0..MaxLag : /\ Len(scanChain) - lag >= 1
                               /\ Scan!Becomes(r, next(lag, Len(scanChain) - lag))
  BY <1>1 DEF Scan!ReadHead, Scan!First
<1>3. PICK head \in Nat : head = Len(scanChain) - lag /\ head >= 1 /\ head <= Len(scanChain)
  BY <1>2, ScanConstants, ChainDomain
<1>4. PICK start \in Nat :
        /\ start = Scan!LogScanStart(head) /\ start >= 1 /\ start <= head + 1
        /\ {t \in cache.transactions : t[1] < start} = Scan!Events(1, start - 1)
  BY <1>3, ScanStarts
<1> DEFINE range == IF start > head THEN {} ELSE Scan!Pages(start, head)
<1>5. PICK pages \in SUBSET (Nat \X Nat) :
        /\ pages = range
        /\ \A p \in pages : p[1] >= 1 /\ p[2] <= head
        /\ \A k \in start..head : \E p \in pages : k \in p[1]..p[2]
  <2>1. CASE start > head
    <3>1. range = {}
      BY <2>1
    <3>2. start..head = {}
      BY <1>3, <1>4, <2>1
    <3> QED BY <3>1, <3>2
  <2>2. CASE ~(start > head)
    <3>1. range = Scan!Pages(start, head)
      BY <2>2
    <3>2. start <= head
      BY <1>3, <1>4, <2>2
    <3>3. /\ \A p \in Scan!Pages(start, head) : p \in Nat \X Nat /\ p[1] >= start /\ p[2] <= head
          /\ \A k \in start..head : \E p \in Scan!Pages(start, head) : k \in p[1]..p[2]
      BY <1>3, <1>4, <3>2, PagesCover
    <3> HIDE DEF range
    <3>4. ASSUME NEW p \in range PROVE p \in Nat \X Nat /\ p[1] >= 1 /\ p[2] <= head
      <4>1. p \in Nat \X Nat /\ p[1] >= start /\ p[2] <= head
        BY <3>1, <3>3
      <4> QED BY <1>4, <4>1
    <3> QED BY <3>1, <3>3, <3>4
  <2> QED BY <2>1, <2>2
<1>6. PICK events \in SUBSET EventNames : events = Scan!Events(1, start - 1)
  BY EventNamed
<1>7. PICK calm \in BOOLEAN : calm = (old.calm /\ lag = 0)
  OBVIOUS
<1>8. PICK s \in ReaderRecords :
        s = [old EXCEPT !.at = "logs", !.head = head, !.from = start, !.pages = pages,
                        !.transactions = events, !.calm = calm]
  <2>1. [old EXCEPT !.at = "logs", !.head = head, !.from = start, !.pages = pages,
                        !.transactions = events, !.calm = calm] \in ReaderRecords
    BY DEF ReaderRecords
  <2> QED BY <2>1
<1>9. /\ s.at = "logs" /\ s.head = head /\ s.pages = pages /\ s.transactions = events
      /\ s.calm = calm /\ s.jobs = old.jobs
  BY <1>8 DEF ReaderRecords
<1>10. s = next(lag, head)
  BY <1>4, <1>5, <1>6, <1>7, <1>8
<1>11. Scan!Becomes(r, s) /\ UNCHANGED <<scanChain, scanForks, cache>>
  BY <1>2, <1>3, <1>10 DEF Scan!ReadHead
<1>12. ASSUME NEW b \in Nat, b <= head PROVE Covers(s, b)
  <2>1. s.transactions = Scan!Events(1, start - 1)
    BY <1>6, <1>9
  <2>2. \A k \in start..head : \E p \in s.pages : k \in p[1]..p[2]
    BY <1>5, <1>9
  <2> QED BY <1>4, <1>12, <2>1, <2>2, ScanCovers
<1>13. Covers(s, Scan!AnchorNumber(head))
  BY <1>3, <1>12, AnchorBelow
<1>14. \A t \in s.transactions : t[1] \in 1..head
  <2> SUFFICES ASSUME NEW t \in s.transactions PROVE t[1] \in 1..head
    OBVIOUS
  <2>1. PICK n \in DOMAIN scanChain : n \in 1..(start - 1) /\ t = <<n, scanChain[n].fork>>
    BY <1>6, <1>9, EventOf
  <2> QED BY <1>4, <2>1
<1>15. s.calm => Covers(s, head) /\ s.jobs \subseteq Scan!Events(1, head)
  <2> SUFFICES ASSUME s.calm PROVE s.jobs \subseteq Scan!Events(1, head)
    BY <1>12
  <2>1. old.calm /\ lag = 0
    BY <1>7, <1>9
  <2>2. head = Len(scanChain)
    BY <1>3, <2>1, ChainDomain
  <2> QED BY <1>1, <1>9, <2>1, <2>2 DEF ReaderTrue
<1>16. head \in DOMAIN scanChain
  BY <1>3, ChainDomain
<1>17. ReaderTrue(s)
  BY <1>5, <1>9, <1>13, <1>14, <1>15, <1>16 DEF ReaderTrue
<1> QED BY <1>11, <1>17, ScanBecomes

\* A page that holds every event of its blocks up to b keeps the call covered up to b.
LEMMA CoversPage ==
  ASSUME ScanInv, NEW old, NEW b \in Nat, Covers(old, b), NEW page, page[1] >= 1, page[1] \in Nat,
         NEW to, \A k \in 1..b : k \in page[1]..page[2] /\ scanChain[k].event => k \in page[1]..to,
         NEW s, s.transactions = old.transactions \cup Scan!Events(page[1], to),
         s.pages = old.pages \ {page}
  PROVE Covers(s, b)
<1>1. ASSUME NEW t \in s.transactions, t[1] <= b PROVE t \in Scan!Events(1, b)
  <2>1. CASE t \in old.transactions
    BY <1>1, <2>1 DEF Covers
  <2>2. CASE t \in Scan!Events(page[1], to)
    <3>1. PICK n \in DOMAIN scanChain : n \in page[1]..to /\ scanChain[n].event /\ t = <<n, scanChain[n].fork>>
      BY <2>2, EventOf
    <3>2. n \in Nat /\ n >= 1
      BY ChainDomain
    <3>3. n \in 1..b
      BY <1>1, <3>1, <3>2
    <3> QED BY <3>1, <3>3, EventOf
  <2> QED BY <2>1, <2>2
<1>2. ASSUME NEW t \in Scan!Events(1, b)
      PROVE  t \in s.transactions \/ \E p \in s.pages : t[1] \in p[1]..p[2]
  <2>1. PICK n \in DOMAIN scanChain : n \in 1..b /\ scanChain[n].event /\ t = <<n, scanChain[n].fork>>
    BY EventOf
  <2>2. t[1] = n
    BY <2>1
  <2>3. t \in old.transactions \/ \E p \in old.pages : n \in p[1]..p[2]
    BY <2>2 DEF Covers
  <2>4. CASE n \in page[1]..page[2]
    <3>1. n \in page[1]..to
      BY <2>1, <2>4
    <3>2. t \in Scan!Events(page[1], to)
      BY <2>1, <3>1, EventOf
    <3> QED BY <3>2
  <2>5. CASE ~(n \in page[1]..page[2])
    BY <2>2, <2>3, <2>5
  <2> QED BY <2>4, <2>5
<1> QED BY <1>1, <1>2 DEF Covers

\* A replica that lags lacks no event of the blocks up to the call's anchor.
LEMMA ScanReadsPage ==
  ASSUME ScanInv, NEW r \in Readers, Scan!ReadPage(r)
  PROVE ScanInv'
<1>1. PICK old \in ReaderRecords : old = reader[r] /\ ReaderTrue(old) /\ old.at = "logs"
  BY ReaderRecorded DEF Scan!ReadPage
<1> DEFINE next(page, lag, to) ==
      [old EXCEPT !.pages = @ \ {page}, !.calm = @ /\ lag = 0,
                  !.transactions = @ \cup Scan!Events(page[1], to)]
<1>2. PICK page \in old.pages, lag \in 0..MaxLag :
        Scan!Becomes(r, next(page, lag, Scan!Min({page[2], Len(scanChain) - lag})))
  BY <1>1 DEF Scan!ReadPage
<1>3. /\ old.pages \in SUBSET (Nat \X Nat) /\ old.transactions \in SUBSET EventNames
      /\ old.head \in Nat /\ old.calm \in BOOLEAN
  BY DEF ReaderRecords
<1>4. page[1] \in Nat /\ page[2] \in Nat /\ page[1] >= 1 /\ page[2] <= old.head
  BY <1>1, <1>2, <1>3 DEF ReaderTrue
<1>5. old.head >= 1 /\ old.head <= Len(scanChain) /\ old.head \in DOMAIN scanChain
  BY <1>1, ChainDomain DEF ReaderTrue
<1>6. lag \in Nat /\ Len(scanChain) - lag \in Int
  BY ScanConstants, ChainDomain
<1>7. PICK to \in Int : /\ to = Scan!Min({page[2], Len(scanChain) - lag})
                        /\ to <= page[2]
                        /\ to = page[2] \/ to = Len(scanChain) - lag
  BY <1>4, <1>6, LeastOfTwo
<1>8. PICK events \in SUBSET EventNames : events = old.transactions \cup Scan!Events(page[1], to)
  BY <1>3, EventNamed
<1>9. PICK calm \in BOOLEAN : calm = (old.calm /\ lag = 0)
  OBVIOUS
<1>10. PICK s \in ReaderRecords :
         s = [old EXCEPT !.pages = old.pages \ {page}, !.calm = calm, !.transactions = events]
  <2>1. [old EXCEPT !.pages = old.pages \ {page}, !.calm = calm, !.transactions = events] \in ReaderRecords
    BY <1>3 DEF ReaderRecords
  <2> QED BY <2>1
<1>11. /\ s.at = "logs" /\ s.head = old.head /\ s.pages = old.pages \ {page}
       /\ s.transactions = events /\ s.calm = calm /\ s.jobs = old.jobs
  BY <1>1, <1>10 DEF ReaderRecords
<1>12. s = next(page, lag, to)
  BY <1>8, <1>9, <1>10
<1>13. Scan!Becomes(r, s) /\ UNCHANGED <<scanChain, scanForks, cache>>
  BY <1>2, <1>7, <1>12 DEF Scan!ReadPage
<1>14. ASSUME NEW b \in Nat, Covers(old, b), b <= Len(scanChain) - lag \/ b = 1
       PROVE  Covers(s, b)
  <2>1. ASSUME NEW k \in 1..b, k \in page[1]..page[2], scanChain[k].event
        PROVE  k \in page[1]..to
    <3>1. k # 1
      BY <2>1, ChainDomain
    <3>2. b <= Len(scanChain) - lag
      BY <1>14, <3>1
    <3>3. k \in Nat /\ k >= page[1] /\ k <= page[2] /\ k <= b
      BY <1>4, <2>1
    <3>4. k <= to
      BY <1>4, <1>6, <1>7, <3>2, <3>3
    <3> QED BY <1>4, <1>7, <3>3, <3>4
  <2>2. s.transactions = old.transactions \cup Scan!Events(page[1], to) /\ s.pages = old.pages \ {page}
    BY <1>8, <1>11
  <2> QED BY <1>4, <1>14, <2>1, <2>2, CoversPage
<1>15. Covers(s, Scan!AnchorNumber(s.head))
  <2>1. PICK a \in Nat : a = Scan!AnchorNumber(old.head) /\ (a = 1 \/ a = old.head - TailBlocks)
    BY <1>3, <1>5, AnchorBelow
  <2>2. Covers(old, a)
    BY <1>1, <2>1 DEF ReaderTrue
  <2>3. a <= Len(scanChain) - lag \/ a = 1
    BY <1>3, <1>5, <2>1, ScanConstants, ChainDomain
  <2> QED BY <1>11, <1>14, <2>1, <2>2, <2>3
<1>16. s.calm => Covers(s, s.head) /\ s.jobs \subseteq Scan!Events(1, s.head)
  <2> SUFFICES ASSUME s.calm PROVE Covers(s, s.head) /\ s.jobs \subseteq Scan!Events(1, s.head)
    OBVIOUS
  <2>1. old.calm /\ lag = 0
    BY <1>9, <1>11
  <2>2. Covers(old, old.head) /\ old.jobs \subseteq Scan!Events(1, old.head)
    BY <1>1, <2>1 DEF ReaderTrue
  <2>3. old.head <= Len(scanChain) - lag
    BY <1>5, <2>1, ChainDomain
  <2>4. Covers(s, old.head)
    BY <1>3, <1>14, <2>2, <2>3
  <2> QED BY <1>11, <2>2, <2>4
<1>17. ASSUME NEW t \in s.transactions PROVE t[1] \in 1..s.head
  <2>1. CASE t \in old.transactions
    BY <1>1, <1>11, <2>1 DEF ReaderTrue
  <2>2. CASE t \in Scan!Events(page[1], to)
    <3>1. PICK n \in DOMAIN scanChain : n \in page[1]..to /\ t = <<n, scanChain[n].fork>>
      BY <2>2, EventOf
    <3>2. n \in 1..old.head
      <4>1. n \in Int /\ page[1] <= n /\ n <= to
        BY <1>4, <1>7, <3>1
      <4> QED BY <1>3, <1>4, <1>7, <4>1
    <3> QED BY <1>11, <3>1, <3>2
  <2> QED BY <1>8, <1>11, <2>1, <2>2
<1>18. \A p \in s.pages : p[1] >= 1 /\ p[2] <= s.head
  BY <1>1, <1>11 DEF ReaderTrue
<1>19. ReaderTrue(s)
  BY <1>5, <1>11, <1>15, <1>16, <1>17, <1>18 DEF ReaderTrue
<1> QED BY <1>13, <1>19, ScanBecomes

\* The cache is written with what the call covers up to its anchor.
LEMMA ScanReadsAnchor ==
  ASSUME ScanInv, NEW r \in Readers, Scan!ReadAnchor(r)
  PROVE ScanInv'
<1>1. PICK old \in ReaderRecords : /\ old = reader[r] /\ ReaderTrue(old) /\ old.at = "logs"
                                   /\ old.pages = {}
  BY ReaderRecorded DEF Scan!ReadAnchor
<1>2. /\ old.transactions \in SUBSET EventNames /\ old.head \in Nat
      /\ old.head >= 1 /\ old.head <= Len(scanChain)
  BY <1>1, ChainDomain DEF ReaderTrue, ReaderRecords
<1>3. PICK n \in Nat : n = Scan!AnchorNumber(old.head) /\ n \in DOMAIN scanChain
  BY <1>2, AnchorBelow, ChainDomain
<1>4. PICK fork \in Nat : fork = scanChain[n].fork /\ fork <= scanForks
  BY <1>3, ChainDomain DEF ScanInv, ScanTypes
<1>5. PICK new \in CacheRecords :
        /\ new = [toBlock |-> old.head, anchorNumber |-> n, anchorFork |-> fork,
                  transactions |-> old.transactions]
        /\ new.anchorNumber = n /\ new.anchorFork = fork /\ new.transactions = old.transactions
  <2>1. [toBlock |-> old.head, anchorNumber |-> n, anchorFork |-> fork,
                  transactions |-> old.transactions] \in CacheRecords
    BY <1>2 DEF CacheRecords
  <2> QED BY <2>1
<1>6. PICK s \in ReaderRecords : s = [old EXCEPT !.at = "done"]
  <2>1. [old EXCEPT !.at = "done"] \in ReaderRecords
    BY DEF ReaderRecords
  <2> QED BY <2>1
<1>7. /\ s.at = "done" /\ s.head = old.head /\ s.pages = {} /\ s.transactions = old.transactions
      /\ s.calm = old.calm /\ s.jobs = old.jobs
  BY <1>1, <1>6 DEF ReaderRecords
<1>8. cache' = new /\ reader' = [reader EXCEPT ![r] = s] /\ UNCHANGED <<scanChain, scanForks>>
  BY <1>1, <1>3, <1>4, <1>5, <1>6 DEF Scan!ReadAnchor, Scan!Becomes
<1>9. ReaderTrue(s)
  BY <1>1, <1>7 DEF ReaderTrue, Covers
<1>10. {t \in new.transactions : t[1] <= n} = Scan!Events(1, n)
  <2>1. Covers(old, n)
    BY <1>1, <1>3 DEF ReaderTrue
  <2>2. ASSUME NEW t \in Scan!Events(1, n) PROVE t[1] <= n
    <3>1. PICK k \in DOMAIN scanChain : k \in 1..n /\ t = <<k, scanChain[k].fork>>
      BY EventOf
    <3> QED BY <3>1
  <2> QED BY <1>1, <1>5, <2>1, <2>2 DEF Covers
<1>11. \A t \in new.transactions : t[1] >= 1
  <2>1. \A t \in old.transactions : t[1] \in 1..old.head
    BY <1>1 DEF ReaderTrue
  <2> QED BY <1>5, <2>1
<1>12. CacheTrue'
  <2>1. Scan!CachedHistoryIsTheChains'
    BY <1>5, <1>8, <1>10 DEF Scan!CachedHistoryIsTheChains, Scan!Events, Scan!First
  <2> QED BY <1>3, <1>4, <1>5, <1>8, <1>11, <2>1 DEF CacheTrue
<1>13. /\ reader' \in [Readers -> ReaderRecords] /\ reader'[r] = s
       /\ \A q \in Readers \ {r} : reader'[q] = reader[q]
  BY <1>8 DEF ScanInv, ScanTypes
<1>14. ScanTypes'
  BY <1>8, <1>13 DEF ScanInv, ScanTypes
<1>15. ASSUME NEW q \in Readers PROVE ReaderTrue(reader[q])'
  <2>1. ReaderTrue(reader'[q])
    BY <1>9, <1>13 DEF ScanInv
  <2> QED BY <1>8, <2>1 DEF ReaderTrue, Covers, Scan!Events
<1> QED BY <1>12, <1>14, <1>15 DEF ScanInv

LEMMA ScanStep == ScanInv /\ (UNCHANGED scanVars \/ Scan!Next) => ScanInv'
<1> SUFFICES ASSUME ScanInv, UNCHANGED scanVars \/ Scan!Next PROVE ScanInv'
  OBVIOUS
<1>1. CASE Scan!Grow
  BY <1>1, ScanGrows
<1>2. ASSUME NEW n \in DOMAIN scanChain, Scan!Reorganise(n) PROVE ScanInv'
  BY <1>2, ScanReorganises
<1>3. ASSUME NEW r \in Readers, Scan!ReadJobs(r) PROVE ScanInv'
  BY <1>3, ScanReadsJobs
<1>4. ASSUME NEW r \in Readers, Scan!ReadHead(r) PROVE ScanInv'
  BY <1>4, ScanReadsHead
<1>5. ASSUME NEW r \in Readers, Scan!ReadPage(r) PROVE ScanInv'
  BY <1>5, ScanReadsPage
<1>6. ASSUME NEW r \in Readers, Scan!ReadAnchor(r) PROVE ScanInv'
  BY <1>6, ScanReadsAnchor
<1>7. ASSUME NEW r \in Readers, Scan!Fails(r) PROVE ScanInv'
  BY <1>7, ScanIdle, ScanBecomes DEF Scan!Fails
<1>8. CASE UNCHANGED scanVars
  BY <1>8 DEF scanVars, ScanInv, ScanTypes, CacheTrue, ReaderTrue, Covers, Scan!Events,
              Scan!CachedHistoryIsTheChains, Scan!AnchorHolds
<1> QED BY <1>1, <1>2, <1>3, <1>4, <1>5, <1>6, <1>7, <1>8 DEF Scan!Next

\* chain.mjs:162-271: for any number of overlapping calls, any page size, any tail
\* and any lag within it, the cached history up to the cached anchor is the chain's
\* while the anchor is, and a call that nothing disturbed returns every event up to
\* its block and no job without its events.
THEOREM ScanSoundAlways == Spec => []ScanSound
<1>1. Init => ScanInv
  BY ScanInit DEF Init
<1>2. ScanInv /\ [Next]_vars => ScanInv'
  BY ScanStep DEF Next, vars
<1>3. ScanInv => ScanSound
  <2> SUFFICES ASSUME ScanInv PROVE Scan!CachedHistoryIsTheChains /\ Scan!SnapshotComplete
    BY DEF ScanSound
  <2>1. Scan!CachedHistoryIsTheChains
    BY DEF ScanInv, CacheTrue
  <2>2. ASSUME NEW r \in Readers, reader[r].at = "done", reader[r].calm
        PROVE  /\ reader[r].transactions = Scan!Events(1, reader[r].head)
               /\ reader[r].jobs \subseteq reader[r].transactions
    <3>1. PICK s \in ReaderRecords : s = reader[r] /\ ReaderTrue(s)
      BY ReaderRecorded
    <3>2. /\ s.pages = {} /\ Covers(s, s.head) /\ s.jobs \subseteq Scan!Events(1, s.head)
          /\ \A t \in s.transactions : t[1] \in 1..s.head
      BY <2>2, <3>1 DEF ReaderTrue
    <3>3. \A t \in s.transactions : t[1] <= s.head
      BY <3>2 DEF ReaderRecords
    <3>4. s.transactions = Scan!Events(1, s.head)
      BY <3>2, <3>3 DEF Covers
    <3> QED BY <3>1, <3>2, <3>4
  <2> QED BY <2>1, <2>2 DEF Scan!SnapshotComplete, Scan!First
<1> QED BY <1>1, <1>2, <1>3, PTL DEF Spec

\* What bounds the chain, the cache and the calls.
ReaderTyped(s) ==
  /\ s.head <= Len(scanChain)
  /\ \A page \in s.pages : page[1] >= s.from /\ page[1] <= page[2] /\ page[2] <= s.head
ScanTyped ==
  /\ Len(scanChain) <= ScanHeight /\ \A n \in DOMAIN scanChain : scanChain[n].fork >= 1
  /\ scanForks \in 1..MaxForks /\ reads \in 0..MaxReads
  /\ cache.anchorNumber <= cache.toBlock
  /\ \A r \in Readers : ReaderTyped(reader[r])

LEMMA ScanNumbers ==
  /\ ScanHeight \in Nat /\ 1 <= ScanHeight /\ MaxForks \in Nat /\ 1 <= MaxForks /\ MaxReads \in Nat
<1>1. {ScanHeight, MaxForks} \subseteq Nat \ {0} /\ MaxReads \in Nat
  BY ComponentsAssumption DEF Scan!BoundsAreNumbers
<1> QED BY <1>1

LEMMA ScanTypeOK == ScanInv /\ ScanTyped => Scan!TypeOK
<1> SUFFICES ASSUME ScanInv, ScanTyped PROVE Scan!TypeOK
  OBVIOUS
<1>1. Len(scanChain) \in 1..ScanHeight
  BY ChainDomain, ScanNumbers DEF ScanTyped
<1>2. ASSUME NEW n \in DOMAIN scanChain PROVE scanChain[n].fork \in 1..scanForks
  <2>1. scanChain[n].fork \in Nat /\ scanForks \in Nat
    BY ChainDomain DEF ScanInv, ScanTypes
  <2> QED BY <2>1 DEF ScanInv, ScanTypes, ScanTyped
<1>3. ASSUME NEW r \in Readers
      PROVE  LET s == reader[r] IN
             /\ s.at \in {"idle", "head", "logs", "done"} /\ s.head \in 0..Len(scanChain) /\ s.calm \in BOOLEAN
             /\ \A page \in s.pages : page[1] >= s.from /\ page[1] <= page[2] /\ page[2] <= s.head
  <2>1. PICK s \in ReaderRecords : s = reader[r] /\ ReaderTyped(s)
    BY ReaderRecorded DEF ScanTyped
  <2>2. s.head \in 0..Len(scanChain)
    <3>1. s.head \in Nat /\ s.head <= Len(scanChain)
      BY <2>1 DEF ReaderTyped, ReaderRecords
    <3> QED BY <3>1, ChainDomain
  <2> QED BY <2>1, <2>2 DEF ReaderTyped, ReaderRecords
<1> QED BY <1>1, <1>2, <1>3 DEF ScanTyped, Scan!TypeOK

LEMMA ScanTypedIdle ==
  ASSUME ScanInv PROVE ReaderTyped(Scan!Idle)
  BY ChainDomain DEF ReaderTyped, Scan!Idle

LEMMA ScanTypedInit == Scan!Init => ScanTyped
<1> SUFFICES ASSUME Scan!Init PROVE ScanTyped
  OBVIOUS
<1>1. ScanInv
  BY ScanInit
<1>2. /\ scanChain = <<[fork |-> 1, event |-> FALSE]>> /\ scanForks = 1 /\ reads = 0
      /\ cache = Scan!NoCache /\ reader = [r \in Readers |-> Scan!Idle]
  BY DEF Scan!Init
<1>3. Len(scanChain) = 1 /\ DOMAIN scanChain = {1} /\ scanChain[1].fork = 1
  BY <1>2
<1>4. cache.anchorNumber <= cache.toBlock
  BY <1>2 DEF Scan!NoCache
<1>5. scanForks \in 1..MaxForks /\ reads \in 0..MaxReads
  BY <1>2, ScanNumbers
<1> QED BY <1>1, <1>2, <1>3, <1>4, <1>5, ScanTypedIdle, ScanNumbers DEF ScanTyped

\* A page begins where it ends or before.
LEMMA PagesOrdered ==
  ASSUME NEW from \in Nat, NEW to \in Nat, from <= to, NEW p \in Scan!Pages(from, to)
  PROVE p[1] <= p[2]
<1>1. MaxBlocks \in Nat /\ MaxBlocks >= 1 /\ to - from \in Nat
  BY ScanConstants
<1>2. PICK last \in Nat : last = (to - from) \div MaxBlocks /\ MaxBlocks * last <= to - from
  <2>1. MaxBlocks \in Nat \ {0}
    BY ScanConstants
  <2> QED BY <1>1, <2>1, Division
<1>3. PICK k \in 0..last : LET start == from + MaxBlocks * k IN p = <<start, Scan!Min({start + MaxBlocks - 1, to})>>
  BY <1>2 DEF Scan!Pages
<1>4. MaxBlocks * k \in Nat /\ MaxBlocks * k <= MaxBlocks * last
  BY <1>1, <1>2, <1>3
<1>5. PICK start \in Nat : start = from + MaxBlocks * k /\ start <= to
  <2>1. from + MaxBlocks * k \in Nat /\ from + MaxBlocks * k <= to
    <3>1. PICK m \in Nat, n \in Nat : m = MaxBlocks * k /\ n = MaxBlocks * last
      BY <1>1, <1>2, <1>4
    <3>2. m <= n /\ n <= to - from
      BY <1>2, <1>4, <3>1
    <3>3. from + m \in Nat /\ from + m <= to
      BY <3>2
    <3> QED BY <3>1, <3>3
  <2> QED BY <2>1
<1>6. start <= start + MaxBlocks - 1 /\ start + MaxBlocks - 1 \in Int
  BY <1>1
<1>7. start <= Scan!Min({start + MaxBlocks - 1, to})
  BY <1>5, <1>6, LeastOfTwo
<1> QED BY <1>3, <1>5, <1>7

\* A call is the only one that changes, and what it becomes is in bounds.
LEMMA ScanBecomesTyped ==
  ASSUME ScanInv, ScanTyped, NEW r \in Readers, NEW s, Scan!Becomes(r, s), ReaderTyped(s),
         UNCHANGED <<scanChain, scanForks>>, reads' \in 0..MaxReads, cache'.anchorNumber <= cache'.toBlock
  PROVE ScanTyped'
<1>1. reader'[r] = s /\ \A q \in Readers \ {r} : reader'[q] = reader[q]
  BY DEF Scan!Becomes, ScanInv, ScanTypes
<1>2. \A q \in Readers : ReaderTyped(reader'[q])
  BY <1>1 DEF ScanTyped
<1>3. \A q \in Readers : ReaderTyped(reader[q])'
  BY <1>2 DEF ReaderTyped
<1> QED BY <1>3 DEF ScanTyped

LEMMA ScanReadsHeadTyped ==
  ASSUME ScanInv, ScanTyped, NEW r \in Readers, Scan!ReadHead(r)
  PROVE ScanTyped'
<1>1. PICK old \in ReaderRecords : old = reader[r]
  BY ReaderRecorded
<1> DEFINE next(lag, head) ==
      [old EXCEPT !.at = "logs", !.head = head, !.from = Scan!LogScanStart(head),
         !.pages = IF Scan!LogScanStart(head) > head THEN {} ELSE Scan!Pages(Scan!LogScanStart(head), head),
         !.transactions = {t \in cache.transactions : t[1] < Scan!LogScanStart(head)},
         !.calm = @ /\ lag = 0]
<1>2. PICK lag \in 0..MaxLag : /\ Len(scanChain) - lag >= 1
                               /\ Scan!Becomes(r, next(lag, Len(scanChain) - lag))
                               /\ UNCHANGED <<scanChain, scanForks, reads, cache>>
  BY <1>1 DEF Scan!ReadHead, Scan!First
<1>3. PICK head \in Nat : head = Len(scanChain) - lag /\ head >= 1 /\ head <= Len(scanChain)
  BY <1>2, ScanConstants, ChainDomain
<1>4. PICK start \in Nat : start = Scan!LogScanStart(head) /\ start >= 1
  BY <1>3, ScanStarts
<1>5. /\ next(lag, head).head = head /\ next(lag, head).from = start
      /\ next(lag, head).pages = IF start > head THEN {} ELSE Scan!Pages(start, head)
  BY <1>1, <1>4 DEF ReaderRecords
<1>6. ASSUME NEW p \in IF start > head THEN {} ELSE Scan!Pages(start, head)
      PROVE  p[1] >= start /\ p[1] <= p[2] /\ p[2] <= head
  <2>1. start <= head /\ p \in Scan!Pages(start, head)
    BY <1>6
  <2> QED BY <1>4, <2>1, PagesCover, PagesOrdered
<1>7. Scan!Becomes(r, next(lag, head))
  BY <1>2, <1>3
<1> HIDE DEF next
<1>8. ReaderTyped(next(lag, head))
  BY <1>3, <1>5, <1>6 DEF ReaderTyped
<1> QED BY <1>2, <1>7, <1>8, ScanBecomesTyped DEF ScanTyped

LEMMA ScanTypedStep ==
  ASSUME ScanInv, ScanInv', ScanTyped, UNCHANGED scanVars \/ Scan!Next
  PROVE ScanTyped'
<1>1. CASE Scan!Grow
  <2>1. PICK e \in BOOLEAN : scanChain' = Append(scanChain, [fork |-> scanForks, event |-> e])
    BY <1>1 DEF Scan!Grow
  <2>2. /\ Len(scanChain') = Len(scanChain) + 1 /\ scanChain'[Len(scanChain) + 1].fork = scanForks
        /\ \A n \in DOMAIN scanChain : scanChain'[n] = scanChain[n]
        /\ DOMAIN scanChain' = DOMAIN scanChain \cup {Len(scanChain) + 1}
    <3>1. [fork |-> scanForks, event |-> e] \in ScanBlocks
      BY DEF ScanInv, ScanTypes, ScanBlocks
    <3> QED BY <2>1, <3>1, ChainDomain, AppendProperties
  <2>3. Len(scanChain) < ScanHeight /\ UNCHANGED <<scanForks, reads, cache, reader>>
    BY <1>1 DEF Scan!Grow
  <2>4. Len(scanChain') <= ScanHeight
    BY <2>2, <2>3, ChainDomain, ScanNumbers
  <2>5. \A n \in DOMAIN scanChain' : scanChain'[n].fork >= 1
    BY <2>2, ScanNumbers DEF ScanTyped
  <2>6. ASSUME NEW r \in Readers PROVE ReaderTyped(reader[r])'
    <3>1. ReaderTyped(reader[r]) /\ reader[r].head \in Nat
      BY ReaderRecorded DEF ScanTyped, ReaderRecords
    <3>2. reader[r].head <= Len(scanChain')
      BY <2>2, <3>1, ChainDomain DEF ReaderTyped
    <3> QED BY <2>3, <3>1, <3>2 DEF ReaderTyped
  <2> QED BY <2>3, <2>4, <2>5, <2>6 DEF ScanTyped
<1>2. ASSUME NEW n \in DOMAIN scanChain, Scan!Reorganise(n) PROVE ScanTyped'
  <2>1. PICK e \in [n..Len(scanChain) -> BOOLEAN] :
          scanChain' = [k \in DOMAIN scanChain |->
                          IF k < n THEN scanChain[k] ELSE [fork |-> scanForks + 1, event |-> e[k]]]
    BY <1>2 DEF Scan!Reorganise
  <2>2. /\ scanForks < MaxForks /\ scanForks' = scanForks + 1 /\ UNCHANGED <<reads, cache>>
        /\ reader' = [r \in Readers |-> IF reader[r].at = "idle" THEN Scan!Idle
                                        ELSE [reader[r] EXCEPT !.calm = FALSE]]
    BY <1>2 DEF Scan!Reorganise
  <2>3. Len(scanChain') = Len(scanChain)
    <3>1. DOMAIN scanChain' = 1..Len(scanChain) /\ scanChain' \in Seq(ScanBlocks)
      BY <2>1, ChainDomain DEF ScanInv, ScanTypes
    <3> QED BY <3>1, ChainDomain, LenProperties
  <2>4. scanForks' \in 1..MaxForks /\ scanForks + 1 >= 1
    BY <2>2, ScanNumbers DEF ScanTyped
  <2>5. \A k \in DOMAIN scanChain' : scanChain'[k].fork >= 1
    BY <2>1, <2>4 DEF ScanTyped
  <2>6. ASSUME NEW r \in Readers PROVE ReaderTyped(reader[r])'
    <3>1. PICK old \in ReaderRecords : old = reader[r] /\ ReaderTyped(old)
      BY ReaderRecorded DEF ScanTyped
    <3>2. CASE old.at = "idle"
      <4>1. ReaderTyped(reader'[r])
        BY <2>2, <3>1, <3>2, ScanTypedIdle
      <4> QED BY <2>3, <4>1 DEF ReaderTyped
    <3>3. CASE old.at # "idle"
      <4>1. reader'[r] = [old EXCEPT !.calm = FALSE]
        BY <2>2, <3>1, <3>3
      <4>2. reader'[r].head = old.head /\ reader'[r].pages = old.pages /\ reader'[r].from = old.from
        BY <4>1 DEF ReaderRecords
      <4> QED BY <2>3, <3>1, <4>2 DEF ReaderTyped
    <3> QED BY <3>2, <3>3
  <2> QED BY <2>2, <2>3, <2>4, <2>5, <2>6 DEF ScanTyped
<1>3. ASSUME NEW r \in Readers, Scan!ReadJobs(r) PROVE ScanTyped'
  <2>1. /\ reads < MaxReads /\ reads' = reads + 1 /\ UNCHANGED <<scanChain, scanForks, cache>>
        /\ Scan!Becomes(r, [Scan!Idle EXCEPT !.at = "head", !.jobs = Scan!Events(Scan!First, Len(scanChain))])
    BY <1>3 DEF Scan!ReadJobs
  <2>2. ReaderTyped([Scan!Idle EXCEPT !.at = "head", !.jobs = Scan!Events(Scan!First, Len(scanChain))])
    BY ChainDomain DEF ReaderTyped, Scan!Idle
  <2>3. reads' \in 0..MaxReads
    BY <2>1, ScanNumbers DEF ScanTyped
  <2> QED BY <2>1, <2>2, <2>3, ScanBecomesTyped DEF ScanTyped
<1>4. ASSUME NEW r \in Readers, Scan!ReadHead(r) PROVE ScanTyped'
  BY <1>4, ScanReadsHeadTyped
<1>5. ASSUME NEW r \in Readers, Scan!ReadPage(r) PROVE ScanTyped'
  <2>1. PICK old \in ReaderRecords : old = reader[r] /\ ReaderTyped(old)
    BY ReaderRecorded DEF ScanTyped
  <2> DEFINE next(page, lag, to) ==
        [old EXCEPT !.pages = @ \ {page}, !.calm = @ /\ lag = 0,
                    !.transactions = @ \cup Scan!Events(page[1], to)]
  <2>2. PICK page \in old.pages, lag \in 0..MaxLag :
          Scan!Becomes(r, next(page, lag, Scan!Min({page[2], Len(scanChain) - lag})))
    BY <1>5, <2>1 DEF Scan!ReadPage
  <2>3. ASSUME NEW to
        PROVE  /\ next(page, lag, to).head = old.head /\ next(page, lag, to).from = old.from
               /\ next(page, lag, to).pages = old.pages \ {page}
    BY DEF ReaderRecords
  <2> HIDE DEF next
  <2>4. \A to : ReaderTyped(next(page, lag, to))
    BY <2>1, <2>3 DEF ReaderTyped
  <2>5. UNCHANGED <<scanChain, scanForks, reads, cache>>
    BY <1>5 DEF Scan!ReadPage
  <2> QED BY <2>2, <2>4, <2>5, ScanBecomesTyped DEF ScanTyped
<1>6. ASSUME NEW r \in Readers, Scan!ReadAnchor(r) PROVE ScanTyped'
  <2>1. PICK old \in ReaderRecords : old = reader[r] /\ ReaderTyped(old) /\ ReaderTrue(old) /\ old.at = "logs"
    BY <1>6, ReaderRecorded DEF ScanTyped, Scan!ReadAnchor
  <2>2. /\ cache'.toBlock = old.head /\ cache'.anchorNumber = Scan!AnchorNumber(old.head)
        /\ Scan!Becomes(r, [old EXCEPT !.at = "done"]) /\ UNCHANGED <<scanChain, scanForks, reads>>
    BY <1>6, <2>1 DEF Scan!ReadAnchor
  <2>3. old.head \in Nat /\ old.head >= 1
    BY <2>1, ChainDomain DEF ReaderTrue
  <2>4. cache'.anchorNumber <= cache'.toBlock
    BY <2>2, <2>3, AnchorBelow
  <2>5. ReaderTyped([old EXCEPT !.at = "done"])
    BY <2>1 DEF ReaderTyped, ReaderRecords
  <2> QED BY <2>2, <2>4, <2>5, ScanBecomesTyped DEF ScanTyped
<1>7. ASSUME NEW r \in Readers, Scan!Fails(r) PROVE ScanTyped'
  BY <1>7, ScanTypedIdle, ScanBecomesTyped DEF Scan!Fails, ScanTyped
<1>8. CASE UNCHANGED scanVars
  BY <1>8 DEF scanVars, ScanTyped, ReaderTyped
<1> QED BY <1>1, <1>2, <1>3, <1>4, <1>5, <1>6, <1>7, <1>8 DEF Scan!Next

-----------------------------------------------------------------------------
(* The types of all components.                                             *)

ServicesInv == AnalysisInv /\ PageInv /\ SignInInv /\ ChatInv /\ VerifyInv /\ ScanInv
ServicesTyped == Analysis!TypeOK /\ PageTyped /\ SignInTyped /\ ChatTyped /\ VerifyTyped /\ ScanTyped

LEMMA ServicesGo ==
  ASSUME [Next]_vars
  PROVE  /\ UNCHANGED analysisVars \/ Analysis!Next
         /\ UNCHANGED pageVars \/ Page!Next
         /\ UNCHANGED signinVars \/ SignIn!Next
         /\ UNCHANGED chatVars \/ Chat!Next
         /\ UNCHANGED verifyingVars \/ Verifying!Next
         /\ UNCHANGED scanVars \/ Scan!Next
<1>1. UNCHANGED analysisVars \/ Analysis!Next
  BY DEF Next, vars
<1>2. UNCHANGED pageVars \/ Page!Next
  BY DEF Next, vars
<1>3. UNCHANGED signinVars \/ SignIn!Next
  BY DEF Next, vars
<1>4. UNCHANGED chatVars \/ Chat!Next
  BY DEF Next, vars
<1>5. UNCHANGED verifyingVars \/ Verifying!Next
  BY DEF Next, vars
<1>6. UNCHANGED scanVars \/ Scan!Next
  BY DEF Next, vars
<1> QED BY <1>1, <1>2, <1>3, <1>4, <1>5, <1>6

LEMMA ServicesTypedInit == Init => ServicesInv /\ ServicesTyped
<1>1. Init => ServicesInv
  BY AnalysisInit, PageInit, SignInInit, ChatInit, VerifyInit, ScanInit DEF Init, ServicesInv
<1>2. Init => ServicesTyped
  BY AnalysisTypesInit, PageTypedInit, SignInTypedInit, ChatTypedInit, VerifyTypedInit, ScanTypedInit
     DEF Init, ServicesTyped
<1> QED BY <1>1, <1>2

LEMMA ServicesTypedStep ==
  ASSUME ServicesInv, ServicesTyped, [Next]_vars
  PROVE  ServicesInv' /\ ServicesTyped'
<1>1. AnalysisInv' /\ Analysis!TypeOK'
  BY ServicesGo, AnalysisStep, AnalysisTypesStep DEF ServicesInv, ServicesTyped
<1>2. PageInv' /\ PageTyped'
  BY ServicesGo, PageStep, PageTypedStep DEF ServicesInv, ServicesTyped
<1>3. SignInInv' /\ SignInTyped'
  BY ServicesGo, SignInStep, SignInTypedStep DEF ServicesInv, ServicesTyped
<1>4. ChatInv' /\ ChatTyped'
  BY ServicesGo, ChatStep, ChatTypedStep DEF ServicesInv, ServicesTyped
<1>5. VerifyInv' /\ VerifyTyped'
  BY ServicesGo, VerifyStep, VerifyTypedStep DEF ServicesInv, ServicesTyped
<1>6. ScanInv' /\ ScanTyped'
  BY ServicesGo, ScanStep, ScanTypedStep DEF ServicesInv, ServicesTyped
<1> QED BY <1>1, <1>2, <1>3, <1>4, <1>5, <1>6 DEF ServicesInv, ServicesTyped

\* Every component keeps its type, for every value of the constants: counters stay
\* within what bounds them, and a number or an index that one piece of state keeps
\* of another - a transaction, a job or a journal entry of a script
\* (demo-testnet.mjs:64-107, run-mainnet-canary-proof.mjs:177-277), a block of the
\* scan (chain.mjs:162-271), a session of sign-in (xlayer_auth.py:75-83), a reply of
\* the chat (chat.js:101-142), a version of the page (xlayer.js:137-163) - is of
\* something that exists.
THEOREM ComponentTypesAlways == Spec => []TypeOK
<1> DEFINE IInv == OperatorsInv /\ OperatorsBounded /\ ServicesInv /\ ServicesTyped
<1>1. Init => IInv
  BY OperatorsTypedInit, ServicesTypedInit
<1>2. IInv /\ [Next]_vars => IInv'
  BY OperatorsTypedStep, ServicesTypedStep
<1>3. IInv => TypeOK
  <2> SUFFICES ASSUME IInv PROVE TypeOK
    OBVIOUS
  <2>1. /\ Deploy!TypeOK /\ Proof!TypeOK /\ Scripts!TypeOK /\ Funding!TypeOK /\ Endpoints!TypeOK
        /\ Test!TypeOK /\ Swap!TypeOK
    BY OperatorsTypeOK
  <2>2. /\ Analysis!TypeOK /\ Page!TypeOK /\ SignIn!TypeOK /\ Chat!TypeOK /\ Verifying!TypeOK
        /\ Scan!TypeOK
    BY SignInTypeOK, ChatTypeOK, VerifyTypeOK, ScanTypeOK DEF ServicesInv, ServicesTyped, PageTyped
  <2> QED BY <2>1, <2>2 DEF TypeOK
<1> QED BY <1>1, <1>2, <1>3, PTL DEF Spec
=============================================================================
