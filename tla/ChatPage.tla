------------------------------ MODULE ChatPage ------------------------------
(***************************************************************************)
(* The chat view (frontend/js/views/chat.js, stream.js) with the ask box    *)
(* that opens it (main.js): the check of the session, the transcript, the   *)
(* streams of replies, and everything that can happen between their awaits. *)
(***************************************************************************)
EXTENDS Naturals, FiniteSets

CONSTANTS MaxReplies, MaxModes   \* bounds: messages sent, changes of the server's mode

BoundsAreNumbers == {MaxReplies, MaxModes} \subseteq Nat

VARIABLES server,      \* what the server answers: read-only, model configured
          modes,
          context,     \* the last checked context, or NoContext
          contextKey,  \* of the transcript shown, or "none"
          checking,    \* the check of the session that is under way
          waiting,     \* what goes on when that check ends: a visit of the view (0), the retry of a message
          log,         \* rows of the transcript: whose session they are from, of which message
          replies,     \* messages sent and their streams
          sending, controller,
          composer,    \* what setSendMode has made of the composer
          pending, input   \* the asked question: in session storage, in the composer
vars == <<server, modes, context, contextKey, checking, waiting, log, replies, sending,
          controller, composer, pending, input>>
session == <<context, contextKey, checking, waiting>>
stream == <<replies, sending, controller, composer>>

NoContext == [key |-> "none", enabled |-> FALSE]
NotChecking == [at |-> "no", key |-> "none", enabled |-> FALSE]
Unused == [at |-> "unused", session |-> "none", aborted |-> FALSE, text |-> FALSE, row |-> "none"]
Modes == [readonly : BOOLEAN, configured : BOOLEAN]
Live == {i \in 1..MaxReplies : replies[i].at \in {"fetching", "reading"}}

Init == /\ server \in Modes /\ modes = 0
        /\ context = NoContext /\ contextKey = "none" /\ checking = NotChecking /\ waiting = {}
        /\ log = {} /\ replies = [i \in 1..MaxReplies |-> Unused]
        /\ sending = FALSE /\ controller = 0 /\ composer = "idle" /\ pending = FALSE /\ input = ""

ServerChanges ==
  /\ modes < MaxModes /\ modes' = modes + 1 /\ server' \in Modes \ {server}
  /\ UNCHANGED <<session, log, stream, pending, input>>

Row(key, of) == [session |-> key, of |-> of]
Aborted(rs) == IF controller = 0 THEN rs ELSE [rs EXCEPT ![controller].aborted = TRUE]

-----------------------------------------------------------------------------
(* The session check.  Callers while one runs share it.                     *)

\* "sending" shows "Stop"; in the others the context says whether there is an input.
SendMode(mode) == composer' = IF sending' THEN "sending" ELSE mode

\* The composer is closed while the check runs, unless a reply streams.
Check ==
  /\ UNCHANGED sending
  /\ IF checking.at = "no" THEN checking' = [checking EXCEPT !.at = "status"] /\ SendMode("checking")
     ELSE UNCHANGED <<checking, composer>>

\* A question of the ask box goes by session storage to the chat view.
Ask ==
  /\ pending' = TRUE /\ waiting' = waiting \cup {0} /\ Check
  /\ UNCHANGED <<server, modes, context, contextKey, log, replies, controller, input>>
\* The view is opened, or "Check again" is pressed.
RefreshContext ==
  /\ Check /\ waiting' \in {waiting, waiting \cup {0}}
  /\ UNCHANGED <<server, modes, context, contextKey, log, replies, controller, pending, input>>

\* resolveContext: a read-only server has no conversation; another one is asked for it.
ReadStatus ==
  /\ checking.at = "status"
  /\ checking' = IF server.readonly
                 THEN [at |-> "resolved", key |-> "public-readonly", enabled |-> FALSE]
                 ELSE [at |-> "history", key |-> "personal", enabled |-> server.configured]
  /\ UNCHANGED <<server, modes, context, contextKey, waiting, log, stream, pending, input>>
ReadHistory ==
  /\ checking.at = "history" /\ ~server.readonly
  /\ checking' = [checking EXCEPT !.at = "resolved"]
  /\ UNCHANGED <<server, modes, context, contextKey, waiting, log, stream, pending, input>>

\* A mutant: the transcript is replaced and the reply that streams goes on.
Checked_WithoutAbort ==
  /\ checking.at = "resolved" /\ checking' = NotChecking
  /\ context' = [key |-> checking.key, enabled |-> checking.enabled] /\ contextKey' = checking.key
  /\ IF contextKey # checking.key
     THEN /\ log' = {} /\ replies' = replies
          /\ input' = IF contextKey = "none" THEN input ELSE ""
     ELSE UNCHANGED <<log, replies, input>>
  /\ UNCHANGED <<server, modes, waiting, sending, controller, pending>> /\ SendMode("idle")

\* Another session: its reply stops, its transcript and its draft go.
Checked ==
  /\ checking.at = "resolved" /\ checking' = NotChecking
  /\ context' = [key |-> checking.key, enabled |-> checking.enabled] /\ contextKey' = checking.key
  /\ IF contextKey # checking.key
     THEN /\ replies' = Aborted(replies)
          /\ log' \in IF checking.key = "personal" THEN {{}, {Row("personal", 0)}} ELSE {{}}
          /\ input' = IF contextKey = "none" THEN input ELSE ""
     ELSE UNCHANGED <<log, replies, input>>
  /\ UNCHANGED <<server, modes, waiting, sending, controller, pending>> /\ SendMode("idle")

\* "Never retain another account's transcript on a failed session check."
CheckFails ==
  /\ checking.at # "no" /\ checking' = NotChecking
  /\ context' = NoContext /\ contextKey' = "none" /\ log' = {}
  /\ replies' = Aborted(replies)
  /\ UNCHANGED <<server, modes, waiting, sending, controller, pending, input>> /\ SendMode("idle")

-----------------------------------------------------------------------------
(* Messages and replies.                                                    *)

CanSend == ~sending /\ context.enabled
Fresh == {i \in 1..MaxReplies : replies[i].at = "unused"}
Starts(i) ==
  /\ replies' = [replies EXCEPT ![i] = [Unused EXCEPT !.at = "fetching", !.session = context.key, !.row = "streaming"]]
  /\ sending' = TRUE /\ controller' = i /\ SendMode("idle")
  /\ log' = log \cup {Row(context.key, i)}

\* A message typed, picked from the suggestions or spoken, which the check of
\* the session does not hold up.
Send ==
  /\ CanSend /\ \E i \in Fresh : Starts(i) /\ \A k \in Fresh : i <= k
  /\ input' \in {input, ""}
  /\ UNCHANGED <<server, modes, session, pending>>

\* The visit takes the asked question into the composer and, if it can, sends it.
Rendered ==
  /\ waiting' = waiting \ {0} /\ pending' = FALSE
  /\ IF pending /\ CanSend
     THEN /\ \E i \in Fresh : Starts(i) /\ \A k \in Fresh : i <= k
          /\ input' = ""
     ELSE input' = (IF pending THEN "asked" ELSE input) /\ UNCHANGED <<log, stream>>
  /\ UNCHANGED <<server, modes, context, contextKey, checking>>

\* "Retry message" checks the session first; the reply goes into the same row.
Retry(i) ==
  /\ ~sending /\ replies[i].row \in {"stopped", "error"} /\ Row(contextKey, i) \in log
  /\ waiting' = waiting \cup {i} /\ Check
  /\ UNCHANGED <<server, modes, context, contextKey, log, replies, controller, pending, input>>
Retried(i) ==
  /\ waiting' = waiting \ {i}
  /\ IF CanSend /\ context.key = replies[i].session THEN Starts(i) ELSE UNCHANGED <<log, stream>>
  /\ UNCHANGED <<server, modes, context, contextKey, checking, pending, input>>

Responds(i) ==
  /\ replies[i].at = "fetching" /\ ~replies[i].aborted
  /\ replies' = [replies EXCEPT ![i].at = "reading"]
  /\ UNCHANGED <<server, modes, session, log, sending, controller, composer, pending, input>>

\* The stream of events: tokens go to the row of the reply, wherever it is ...
Token(i) ==
  /\ replies[i].at = "reading" /\ ~replies[i].aborted
  /\ replies' = [replies EXCEPT ![i].text = TRUE]
  /\ UNCHANGED <<server, modes, session, log, sending, controller, composer, pending, input>>
\* ... and a learned fact becomes a line at the end of the transcript there is.
FactLine(i) ==
  /\ replies[i].at = "reading" /\ ~replies[i].aborted
  /\ log' = log \cup {Row(replies[i].session, i)}
  /\ UNCHANGED <<server, modes, session, stream, pending, input>>

\* How a stream ends: aborted, done, or an error.
Result(r, done) == IF r.aborted THEN "aborted" ELSE IF done THEN "done" ELSE "error"

\* Exactly one terminal result: done, an error or a cut, or aborted; the reply
\* is released also when its session has gone.
StreamEnds(i, done) ==
  LET r == replies[i] IN
  /\ i \in Live
  /\ replies' = [replies EXCEPT ![i].at = "over", ![i].aborted = FALSE, ![i].text = FALSE,
       ![i].row = IF contextKey # r.session THEN @ ELSE IF Result(r, done) = "aborted" THEN "stopped"
                  ELSE IF Result(r, done) = "done" /\ r.text THEN "complete" ELSE "error"]
  /\ IF controller = i THEN sending' = FALSE /\ controller' = 0 /\ SendMode("idle")
     ELSE UNCHANGED <<sending, controller, composer>>
  /\ UNCHANGED <<server, modes, session, log, pending, input>>

StopReply ==
  /\ sending /\ controller # 0 /\ replies' = Aborted(replies)
  /\ UNCHANGED <<server, modes, session, log, sending, controller, composer, pending, input>>

Edit ==
  /\ input' \in {"", "draft"} /\ context.enabled /\ composer # "checking"
  /\ UNCHANGED <<server, modes, session, log, stream, pending>>

\* What waited for the check goes on before any other event is taken.
Resumes == /\ checking.at = "no"
           /\ \E w \in waiting : IF w = 0 THEN Rendered ELSE Retried(w)
Event == \/ ServerChanges \/ Ask \/ RefreshContext \/ ReadStatus \/ ReadHistory \/ Checked \/ CheckFails
         \/ Send \/ StopReply \/ Edit
         \/ \E i \in 1..MaxReplies :
              \/ Retry(i) \/ Responds(i) \/ Token(i) \/ FactLine(i)
              \/ \E done \in BOOLEAN : StreamEnds(i, done)
Next == Resumes \/ ((checking.at = "no" => waiting = {}) /\ Event)
Spec == Init /\ [][Next]_vars

-----------------------------------------------------------------------------
TypeOK ==
  /\ server \in Modes /\ modes \in 0..MaxModes
  /\ context.key \in {"none", "personal", "public-readonly"} /\ context.enabled \in BOOLEAN
  /\ checking.at \in {"no", "status", "history", "resolved"} /\ waiting \subseteq 0..MaxReplies
  /\ log \subseteq [session : {"personal", "public-readonly"}, of : 0..MaxReplies]
  /\ controller \in 0..MaxReplies /\ sending \in BOOLEAN
  /\ composer \in {"idle", "checking", "sending"} /\ pending \in BOOLEAN
  /\ input \in {"", "asked", "draft"}

\* The transcript shows only the session that was checked last, and nothing when
\* the check failed, although the reply of an earlier session may still stream
\* and append the facts it learned (chat.js:105, 132-134, 184-196).
TranscriptBelongs == \A row \in log : row.session = contextKey

\* The composer is held for exactly as long as one reply streams: no second reply
\* starts beside it, and none that ends, fails or is stopped, in its session or
\* after it, leaves the composer on "Stop" (chat.js:258-265, 304-306).
OneReply == /\ Cardinality(Live) <= 1
            /\ sending <=> Live # {}
            /\ composer = "sending" <=> sending
            /\ \A i \in Live : controller = i
ChatSound == TranscriptBelongs /\ OneReply
=============================================================================
