----------------------------- MODULE MarketPage -----------------------------
(***************************************************************************)
(* The market view (frontend/js/views/xlayer.js): its first load, the       *)
(* refresh that a timer, a visit and an action share, and when it paints.   *)
(* The server's data is a version; an action of the user makes a new one.   *)
(***************************************************************************)
EXTENDS Naturals

CONSTANTS MaxVersion, MaxVisits   \* bounds

BoundsAreNumbers == {MaxVersion, MaxVisits} \subseteq Nat

VARIABLES server,      \* version of the data at the server
          editing,     \* the route of the tab is an editor
          arriving,    \* a change of the route is not handled yet
          epoch, visits,  \* the last visit, and the visits that wait for the first load
          initialLoad, \* "none", "reading", or the version it read
          dataReady, loaded, painted,
          poll, timers,   \* the timer the page knows, and how many run
          refreshPending, \* the refresh under way, or NoRefresh
          action,      \* the button at work: none, working, waiting for a refresh, refreshing
          acted,       \* the version the last action that was done has made
          note         \* the message under the title
vars == <<server, editing, arriving, epoch, visits, initialLoad, dataReady, loaded, painted,
          poll, timers, refreshPending, action, acted, note>>
page == <<epoch, visits, initialLoad, dataReady>>
clock == <<poll, timers>>
work == <<action, acted, note>>

NoRefresh == [at |-> "no", forced |-> FALSE, read |-> 0, before |-> 0]
busy == action # "none"

Init == /\ server = 0 /\ editing \in BOOLEAN /\ arriving = TRUE
        /\ epoch = 0 /\ visits = {} /\ initialLoad = "none" /\ dataReady = FALSE
        /\ loaded = 0 /\ painted = 0 /\ poll = FALSE /\ timers = 0
        /\ refreshPending = NoRefresh /\ action = "none" /\ acted = 0 /\ note = "none"

\* Another participant changes the data.
OthersAct ==
  /\ server < MaxVersion /\ server' = server + 1
  /\ UNCHANGED <<editing, arriving, page, loaded, painted, clock, refreshPending, work>>

\* The hash changes; its event comes later.
Navigate ==
  /\ editing' \in BOOLEAN /\ arriving' = TRUE
  /\ UNCHANGED <<server, page, loaded, painted, clock, refreshPending, work>>

\* It remembers what the page held before.
Starts(forced) ==
  refreshPending' = [at |-> "sync", forced |-> forced, read |-> 0, before |-> loaded]

\* The workspace of the route, from the data there is.
Paint == painted' = loaded'

\* renderXLayer with data: painted at once, and refreshed when it is old.
Render ==
  /\ arriving /\ dataReady /\ arriving' = FALSE
  /\ UNCHANGED loaded /\ Paint
  /\ timers' = (IF poll THEN timers ELSE timers + 1) /\ poll' = TRUE
  /\ \/ UNCHANGED refreshPending
     \/ ~editing /\ refreshPending = NoRefresh /\ Starts(FALSE)
  /\ note' = "none"
  /\ UNCHANGED <<server, editing, page, action, acted>>
\* Without data it shares the first load.
RenderFirst ==
  /\ arriving /\ ~dataReady /\ epoch < MaxVisits /\ arriving' = FALSE
  /\ epoch' = epoch + 1 /\ visits' = visits \cup {epoch + 1}
  /\ timers' = (IF poll THEN timers - 1 ELSE timers) /\ poll' = FALSE
  /\ initialLoad' = IF initialLoad = "none" THEN "reading" ELSE initialLoad
  /\ UNCHANGED <<server, editing, dataReady, loaded, painted, refreshPending, work>>
InitialRead ==
  /\ initialLoad = "reading" /\ initialLoad' = "read" /\ loaded' = server
  /\ UNCHANGED <<server, editing, arriving, epoch, visits, dataReady, painted, clock, refreshPending, work>>

\* The load is in: of the visits that waited only the last paints and starts the
\* timer; then the chain is synchronised and the data refreshed.
FirstPaint(v) ==
  /\ v \in visits /\ initialLoad = "read" /\ visits' = visits \ {v} /\ UNCHANGED loaded
  /\ IF v = epoch
     THEN /\ dataReady' = TRUE /\ Paint /\ poll' = TRUE /\ timers' = timers + 1
          /\ IF refreshPending = NoRefresh THEN Starts(FALSE) ELSE UNCHANGED refreshPending
     ELSE UNCHANGED <<dataReady, painted, clock, refreshPending>>
  /\ UNCHANGED <<server, editing, arriving, epoch, initialLoad, work>>

\* It fails: the page says so, with a button that visits again.
InitialLoadFails ==
  /\ initialLoad = "reading" /\ initialLoad' = "none" /\ visits' = {} /\ arriving' = TRUE
  /\ UNCHANGED <<server, editing, epoch, dataReady, loaded, painted, clock, refreshPending, work>>

-----------------------------------------------------------------------------
(* refresh: one at a time.  A forced one waits for the one under way and     *)
(* then loads again; the others are content with it.                        *)

Poll ==
  /\ timers > 0 /\ ~busy /\ ~editing /\ refreshPending = NoRefresh /\ Starts(FALSE)
  /\ UNCHANGED <<server, editing, arriving, page, loaded, painted, clock, work>>

\* The chain is synchronised or its error kept; then everything is read.
RefreshRead ==
  /\ refreshPending.at = "sync"
  /\ refreshPending' = [refreshPending EXCEPT !.at = "read", !.read = server]
  /\ UNCHANGED <<server, editing, arriving, page, loaded, painted, clock, work>>

\* The data is replaced as a whole; then the wallet is asked for the balance, for
\* as long as it takes: the page holds the new data and still shows the old.
RefreshLoaded ==
  /\ refreshPending.at = "read" /\ loaded' = refreshPending.read
  /\ refreshPending' = [refreshPending EXCEPT !.at = "balance"]
  /\ UNCHANGED <<server, editing, arriving, page, painted, clock, work>>

\* An editor is repainted only by its own action, other pages when something changed
\* since the refresh began; painting removes the message.
Paints == /\ refreshPending.at = "balance"
          /\ refreshPending.forced \/ (refreshPending.before # loaded /\ ~editing)

\* A mutant: an action is content with the refresh that was under way.
Ended_NotForced(ok) ==
  /\ refreshPending' = NoRefresh
  /\ IF action = "waiting" \/ refreshPending.forced
     THEN action' = "none" /\ note' = IF ok THEN "ok" ELSE "bad"
     ELSE UNCHANGED action /\ note' = IF Paints THEN "none" ELSE note

\* An action that waited goes on to its own refresh; one that ran it is done.
Ended(ok) ==
  IF action = "waiting" /\ ok
  THEN Starts(TRUE) /\ action' = "refreshing" /\ note' = IF Paints THEN "none" ELSE note
  ELSE /\ refreshPending' = NoRefresh
       /\ IF action = "waiting" \/ refreshPending.forced
          THEN action' = "none" /\ note' = IF ok THEN "ok" ELSE "bad"
          ELSE UNCHANGED action /\ note' = IF Paints THEN "none" ELSE note

RefreshDone ==
  /\ refreshPending.at = "balance" /\ UNCHANGED loaded
  /\ IF Paints THEN Paint ELSE UNCHANGED painted
  /\ Ended(TRUE)
  /\ UNCHANGED <<server, editing, arriving, page, clock, acted>>
\* A read fails; the balance may fail without harm.
RefreshFails ==
  /\ refreshPending.at \in {"sync", "read"}
  /\ UNCHANGED <<server, editing, arriving, page, loaded, painted, clock, acted>>
  /\ Ended(FALSE)

-----------------------------------------------------------------------------
(* perform: one button at a time.                                           *)

Perform ==
  /\ dataReady /\ ~busy /\ action' = "working" /\ UNCHANGED <<acted, note>>
  /\ UNCHANGED <<server, editing, arriving, page, loaded, painted, clock, refreshPending>>

\* The work is done (its steps are WalletClient's); the data is loaded again
\* before the user is told.
WorkDone ==
  /\ action = "working" /\ server < MaxVersion
  /\ server' = server + 1 /\ acted' = server + 1 /\ UNCHANGED note
  /\ IF refreshPending = NoRefresh THEN action' = "refreshing" /\ Starts(TRUE)
     ELSE action' = "waiting" /\ UNCHANGED refreshPending
  /\ \/ UNCHANGED <<editing, arriving>>
     \/ editing' = FALSE /\ arriving' = TRUE   \* "select" goes to the orders
  /\ UNCHANGED <<page, loaded, painted, clock>>
\* It fails, perhaps after it has changed the server.
WorkFails ==
  /\ action = "working" /\ action' = "none" /\ note' = "bad"
  /\ server' \in {server, server + 1} /\ server' <= MaxVersion
  /\ UNCHANGED <<editing, arriving, page, loaded, painted, clock, refreshPending, acted>>

Next == \/ OthersAct \/ Navigate \/ Render \/ RenderFirst \/ InitialRead \/ InitialLoadFails
        \/ \E v \in visits : FirstPaint(v)
        \/ Poll \/ RefreshRead \/ RefreshLoaded \/ RefreshDone \/ RefreshFails
        \/ Perform \/ WorkDone \/ WorkFails
Spec == Init /\ [][Next]_vars

-----------------------------------------------------------------------------
TypeOK ==
  /\ server \in 0..MaxVersion /\ {loaded, painted, acted} \subseteq 0..server
  /\ epoch \in 0..MaxVisits /\ visits \subseteq 1..epoch
  /\ initialLoad \in {"none", "reading", "read"}
  /\ refreshPending.at \in {"no", "sync", "read", "balance"} /\ refreshPending.forced \in BOOLEAN
  /\ action \in {"none", "working", "waiting", "refreshing"} /\ note \in {"none", "ok", "bad"}

\* "Action confirmed and current state reloaded": the page that says so shows data
\* read after the action, although a refresh that read before it may have been
\* under way (xlayer.js:137-153, 154-163, 356).
FreshAfterAction == note = "ok" /\ ~busy => painted >= acted

\* Outside an editor the page shows what it holds, or shows what it held when the
\* refresh that is about to paint began: the data is replaced before the wallet is
\* asked for the balance, and painted after (xlayer.js:109, 143-147, 417-421).
\* Whichever of a visit, the timer and an action loads, no data stays unpainted once
\* that refresh is done, although the route may change in between.
PaintedIsLoaded ==
  dataReady /\ ~editing /\ ~arriving =>
    \/ painted = loaded
    \/ refreshPending.at = "balance" /\ painted = refreshPending.before

\* At most one timer polls, whatever the order of visits and loads.
OnePoll == timers <= 1
MarketPageSound == FreshAfterAction /\ PaintedIsLoaded /\ OnePoll
=============================================================================
