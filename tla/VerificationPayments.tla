------------------------ MODULE VerificationPayments ------------------------
(***************************************************************************)
(* Paid verification, protocol/verification-payments.mjs: a buyer's signed  *)
(* payment authorization pays for one verification report.  The process is  *)
(* single-threaded: an action is what runs between two awaits.  The journal *)
(* (one file per authorization, replaced atomically) survives a crash, the  *)
(* map of pending runs and the calls do not, and the facilitator may settle *)
(* a payment long after its caller stopped waiting for it.                  *)
(*                                                                         *)
(* A binding stands for the pair <<signatureHash, requestHash>>; a report   *)
(* for what verifyAndExplain returned.  Each call is used once: a retry is  *)
(* another call with the same authorization.                                *)
(***************************************************************************)
EXTENDS Naturals, FiniteSets

CONSTANTS
  Calls,               \* HTTP requests
  Authorizations,      \* (asset, payer, nonce): the identity of a payment
  Bindings, Reports,
  Nothing,             \* no call, no binding, no report
  Capacity,            \* 8 in the code
  MaxCrashes           \* bound of the model

ASSUME VerificationAssumption ==
  /\ Nothing \notin Calls \cup Bindings \cup Reports
  /\ Capacity \in Nat \ {0}
  /\ MaxCrashes \in Nat

VARIABLES
  ready,         \* initialize() has resolved
  journal,       \* the record on disk of each authorization
  pending,       \* the call whose run is in this.pending, or Nothing
  calls,
  settlement,    \* the facilitator's side of each authorization
  asked,         \* how often settlePayment was called (history)
  crashes

vars == <<ready, journal, pending, calls, settlement, asked, crashes>>

NoRecord == [state |-> "none", binding |-> Nothing, report |-> Nothing]

Phases == {"idle", "waiting", "verifying", "checking", "settling", "done"}
Running == {"verifying", "checking", "settling"}

\* The HTTP answers, by what the buyer may conclude from them.
Answers == {"challenge", "unavailable", "capacity", "reuse", "uncertain", "retry",
            "error", "report", "lost"}

Init ==
  /\ ready = FALSE
  /\ journal = [a \in Authorizations |-> NoRecord]
  /\ pending = [a \in Authorizations |-> Nothing]
  /\ calls = [c \in Calls |-> [phase |-> "idle", auth |-> Nothing, binding |-> Nothing,
                               leader |-> Nothing, answer |-> "pending", report |-> Nothing]]
  /\ settlement = [a \in Authorizations |-> "none"]
  /\ asked = [a \in Authorizations |-> 0]
  /\ crashes = 0

-----------------------------------------------------------------------------
(* Helpers.                                                                 *)

Answer(c, answer) == calls' = [calls EXCEPT ![c].phase = "done", ![c].answer = answer]

\* cached(): the answer that the journal alone gives, or "none".
Cached_RunsUncertainAgain(a, binding) ==
  IF journal[a].state # "complete" THEN "none"
  ELSE IF journal[a].binding # binding THEN "reuse"
  ELSE "report"

Cached(a, binding) ==
  IF journal[a].state = "none" THEN "none"
  ELSE IF journal[a].binding # binding THEN "reuse"
  ELSE IF journal[a].state = "complete" THEN "report"
  ELSE "uncertain"

AnswerCached_NoFallback(c, call, otherwise) ==
  Answer(c, Cached(call.auth, call.binding))

\* The response built from cached(), with the report it carries.
AnswerCached(c, call, otherwise) ==
  LET answer == Cached(call.auth, call.binding) IN
  calls' = [calls EXCEPT ![c] =
    [call EXCEPT !.phase = "done",
                 !.answer = IF answer = "none" THEN otherwise ELSE answer,
                 !.report = IF answer = "report" THEN journal[call.auth].report ELSE Nothing]]

PendingRuns == {a \in Authorizations : pending[a] # Nothing}

\* A call with a well-formed payment header for this resource.
Paying(c, a, binding) == [calls[c] EXCEPT !.auth = a, !.binding = binding]

-----------------------------------------------------------------------------
(* initialize(): the first call starts it, a failure lets a later one retry.*)

Initialize ==
  /\ ~ ready
  /\ ready' = TRUE
  /\ UNCHANGED <<journal, pending, calls, settlement, asked, crashes>>

CallUnready(c) ==
  /\ ~ ready
  /\ calls[c].phase = "idle"
  /\ Answer(c, "unavailable")
  /\ UNCHANGED <<ready, journal, pending, settlement, asked, crashes>>

-----------------------------------------------------------------------------
(* call(), up to its first await that depends on the payment.               *)

CallChallenged(c) ==
  /\ ready
  /\ calls[c].phase = "idle"
  /\ Answer(c, "challenge")
  /\ UNCHANGED <<ready, journal, pending, settlement, asked, crashes>>

CallCached(c, a, binding) ==
  /\ ready
  /\ calls[c].phase = "idle"
  /\ Cached(a, binding) # "none"
  /\ AnswerCached(c, Paying(c, a, binding), "retry")
  /\ UNCHANGED <<ready, journal, pending, settlement, asked, crashes>>

CallWaits(c, a, binding) ==
  /\ ready
  /\ calls[c].phase = "idle"
  /\ Cached(a, binding) = "none"
  /\ pending[a] # Nothing
  /\ calls' = [calls EXCEPT ![c] = [Paying(c, a, binding) EXCEPT !.phase = "waiting",
                                                                !.leader = pending[a]]]
  /\ UNCHANGED <<ready, journal, pending, settlement, asked, crashes>>

CallOverCapacity(c, a, binding) ==
  /\ ready
  /\ calls[c].phase = "idle"
  /\ Cached(a, binding) = "none"
  /\ pending[a] = Nothing
  /\ Cardinality(PendingRuns) >= Capacity
  /\ Answer(c, "capacity")
  /\ UNCHANGED <<ready, journal, pending, settlement, asked, crashes>>

Lead(c, a, binding) ==
  /\ calls' = [calls EXCEPT ![c] = [Paying(c, a, binding) EXCEPT !.phase = "verifying"]]
  /\ pending' = [pending EXCEPT ![a] = c]
  /\ UNCHANGED <<ready, journal, settlement, asked, crashes>>

CallLeads_OneTooMany(c, a, binding) ==
  /\ ready
  /\ calls[c].phase = "idle"
  /\ Cached(a, binding) = "none"
  /\ pending[a] = Nothing
  /\ Cardinality(PendingRuns) <= Capacity
  /\ Lead(c, a, binding)

CallLeads_NoPendingCheck(c, a, binding) ==
  /\ ready
  /\ calls[c].phase = "idle"
  /\ Cached(a, binding) = "none"
  /\ Cardinality(PendingRuns) < Capacity
  /\ Lead(c, a, binding)

CallLeads(c, a, binding) ==
  /\ ready
  /\ calls[c].phase = "idle"
  /\ Cached(a, binding) = "none"
  /\ pending[a] = Nothing
  /\ Cardinality(PendingRuns) < Capacity
  /\ Lead(c, a, binding)

-----------------------------------------------------------------------------
(* run(), one action per await, and `finally {this.pending.delete(id)}`.    *)

Leave(c) == pending' = [pending EXCEPT ![calls[c].auth] = Nothing]

\* verifyPayment timed out or failed (503), or the facilitator rejected (402).
VerifyFails_KeepsPending(c) ==
  /\ calls[c].phase = "verifying"
  /\ \E answer \in {"unavailable", "challenge"} : Answer(c, answer)
  /\ UNCHANGED <<ready, journal, pending, settlement, asked, crashes>>

VerifyFails(c) ==
  /\ calls[c].phase = "verifying"
  /\ \E answer \in {"unavailable", "challenge"} : Answer(c, answer)
  /\ Leave(c)
  /\ UNCHANGED <<ready, journal, settlement, asked, crashes>>

VerifySucceeds(c) ==
  /\ calls[c].phase = "verifying"
  /\ calls' = [calls EXCEPT ![c].phase = "checking"]
  /\ UNCHANGED <<ready, journal, pending, settlement, asked, crashes>>

\* The journal with the record of this run; the rename makes it visible.
Recorded(c, report) ==
  [journal EXCEPT ![calls[c].auth] =
     [state |-> "settling", binding |-> calls[c].binding, report |-> report]]

\* verifyAndExplain, or the first write of the record, throws; a write that
\* throws after its rename has replaced the file all the same.
CheckFails(c) ==
  /\ calls[c].phase = "checking"
  /\ Answer(c, "error")
  /\ journal' \in {journal} \cup {Recorded(c, report) : report \in Reports}
  /\ Leave(c)
  /\ UNCHANGED <<ready, settlement, asked, crashes>>

AskToSettle(c) ==
  LET a == calls[c].auth IN
  /\ calls' = [calls EXCEPT ![c].phase = "settling"]
  /\ asked' = [asked EXCEPT ![a] = @ + 1]
  /\ settlement' = [settlement EXCEPT ![a] = IF @ = "none" THEN "asked" ELSE @]

CheckSucceeds_SettlesFirst(c, report) ==
  /\ calls[c].phase = "checking"
  /\ AskToSettle(c)
  /\ UNCHANGED <<ready, journal, pending, crashes>>

\* The record is on disk before the facilitator is asked.
CheckSucceeds(c, report) ==
  /\ calls[c].phase = "checking"
  /\ journal' = Recorded(c, report)
  /\ AskToSettle(c)
  /\ UNCHANGED <<ready, pending, crashes>>

SettleSucceeds(c) ==
  LET a == calls[c].auth
      record == [journal[a] EXCEPT !.state = "complete"]
  IN
  /\ calls[c].phase = "settling"
  /\ settlement[a] = "granted"
  /\ journal' = [journal EXCEPT ![a] = record]
  /\ calls' = [calls EXCEPT ![c].phase = "done", ![c].answer = "report",
                            ![c].report = record.report]
  /\ Leave(c)
  /\ UNCHANGED <<ready, settlement, asked, crashes>>

\* The facilitator did not answer in time, failed, or did not clearly succeed:
\* the record is written back as it was.
SettleUnclear_Completes(c) ==
  /\ calls[c].phase = "settling"
  /\ journal' = [journal EXCEPT ![calls[c].auth].state = "complete"]
  /\ calls' = [calls EXCEPT ![c].phase = "done", ![c].answer = "report",
                            ![c].report = journal[calls[c].auth].report]
  /\ Leave(c)
  /\ UNCHANGED <<ready, settlement, asked, crashes>>

SettleUnclear(c) ==
  /\ calls[c].phase = "settling"
  /\ Answer(c, "uncertain")
  /\ Leave(c)
  /\ UNCHANGED <<ready, journal, settlement, asked, crashes>>

\* The second write of the record throws, before its rename or after it.
SettleNotWritten(c) ==
  LET a == calls[c].auth IN
  /\ calls[c].phase = "settling"
  /\ Answer(c, "error")
  /\ \/ UNCHANGED journal
     \/ /\ settlement[a] = "granted"
        /\ journal' = [journal EXCEPT ![a].state = "complete"]
  /\ Leave(c)
  /\ UNCHANGED <<ready, settlement, asked, crashes>>

\* A call that waited for the run of another resumes after it: a rejected run
\* rejects its waiters too.
WaiterResumes(c) ==
  LET leader == calls[c].leader IN
  /\ calls[c].phase = "waiting"
  /\ pending[calls[c].auth] # leader
  /\ IF calls[leader].answer = "error"
     THEN Answer(c, "error")
     ELSE AnswerCached(c, calls[c], "retry")
  /\ UNCHANGED <<ready, journal, pending, settlement, asked, crashes>>

-----------------------------------------------------------------------------
(* The process and the facilitator.                                         *)

Crash ==
  /\ crashes < MaxCrashes
  /\ crashes' = crashes + 1
  /\ ready' = FALSE
  /\ pending' = [a \in Authorizations |-> Nothing]
  /\ calls' = [c \in Calls |-> IF calls[c].phase \in {"idle", "done"} THEN calls[c]
                               ELSE [calls[c] EXCEPT !.phase = "done", !.answer = "lost"]]
  /\ UNCHANGED <<journal, settlement, asked>>

\* The facilitator settles, or refuses, in its own time; a call that was lost
\* on the way stays "asked".
FacilitatorDecides(a) ==
  /\ settlement[a] = "asked"
  /\ \E outcome \in {"granted", "refused"} : settlement' = [settlement EXCEPT ![a] = outcome]
  /\ UNCHANGED <<ready, journal, pending, calls, asked, crashes>>

RunStep(c) ==
  \/ VerifyFails(c) \/ VerifySucceeds(c)
  \/ CheckFails(c) \/ (\E report \in Reports : CheckSucceeds(c, report))
  \/ SettleSucceeds(c) \/ SettleUnclear(c) \/ SettleNotWritten(c)

Next ==
  \/ Initialize
  \/ \E c \in Calls : CallUnready(c) \/ CallChallenged(c)
  \/ \E c \in Calls, a \in Authorizations, binding \in Bindings :
       \/ CallCached(c, a, binding)
       \/ CallWaits(c, a, binding)
       \/ CallOverCapacity(c, a, binding)
       \/ CallLeads(c, a, binding)
  \/ \E c \in Calls : RunStep(c) \/ WaiterResumes(c)
  \/ Crash
  \/ \E a \in Authorizations : FacilitatorDecides(a)

Spec == Init /\ [][Next]_vars

\* Every await of a run is bounded: the facilitator's by waitBounded (20 s),
\* verifyAndExplain's by the timeouts of its RPC and IPFS requests; and a
\* promise that settled resumes its waiters.
FairSpec ==
  /\ Spec
  /\ \A c \in Calls : WF_vars(RunStep(c)) /\ WF_vars(WaiterResumes(c))

-----------------------------------------------------------------------------
(* Properties.                                                              *)

CallRecords ==
  [phase : Phases, auth : Authorizations \cup {Nothing}, binding : Bindings \cup {Nothing},
   leader : Calls \cup {Nothing}, answer : Answers \cup {"pending"},
   report : Reports \cup {Nothing}]

JournalRecords ==
  [state : {"none", "settling", "complete"}, binding : Bindings \cup {Nothing},
   report : Reports \cup {Nothing}]

\* Every variable keeps its type.
TypeOK ==
  /\ ready \in BOOLEAN
  /\ journal \in [Authorizations -> JournalRecords]
  /\ pending \in [Authorizations -> Calls \cup {Nothing}]
  /\ calls \in [Calls -> CallRecords]
  /\ settlement \in [Authorizations -> {"none", "asked", "granted", "refused"}]
  /\ asked \in [Authorizations -> Nat]
  /\ crashes \in 0 .. MaxCrashes

\* verification-payments.mjs:30-31, "never blindly repeat an uncertain settle":
\* the facilitator is asked at most once per authorization, over all retries,
\* concurrent calls and restarts.
AskedOnce == \A a \in Authorizations : asked[a] <= 1

\* "Write before settlement": once the facilitator may have taken the buyer's
\* money, the report it pays for is on disk, whatever crashes.
AskedIsRecorded ==
  \A a \in Authorizations : asked[a] > 0 => journal[a].state # "none"

\* A report is handed out only for a payment that the facilitator granted, to a
\* call with the signature and the request that the payment is bound to, and it
\* is the one on disk: an authorization buys one report, however often replayed.
ReportIsPaid ==
  \A c \in Calls :
    calls[c].answer = "report" =>
      /\ settlement[calls[c].auth] = "granted"
      /\ journal[calls[c].auth] = [state |-> "complete", binding |-> calls[c].binding,
                                   report |-> calls[c].report]

\* At most Capacity runs talk to the facilitator at a time, counted by the runs
\* themselves and not by the map the code counts.
WithinCapacity == Cardinality({c \in Calls : calls[c].phase \in Running}) <= Capacity

\* Each authorization buys a report for its binding: reserved once the record is
\* on disk, sold once the record is complete.
SaleReserved ==
  [a \in Authorizations |->
     IF journal[a].state = "none" THEN {}
     ELSE {[binding |-> journal[a].binding, report |-> journal[a].report]}]

SaleCharged == {a \in Authorizations : settlement[a] = "granted"}

SaleSold == {a \in Authorizations : journal[a].state = "complete"}

SaleServed ==
  [c \in Calls |->
     IF calls[c].answer # "report" THEN {}
     ELSE {[auth |-> calls[c].auth,
            good |-> [binding |-> calls[c].binding, report |-> calls[c].report]]}]

Sale ==
  INSTANCE SalePromise WITH
    Customers <- Calls,
    Goods <- [binding : Bindings, report : Reports],
    reserved <- SaleReserved, charged <- SaleCharged, sold <- SaleSold, served <- SaleServed

\* The service implements the abstract promise (verification-payments.mjs:76-127):
\* the report is fixed before the money can move, what it is and what it is bound to
\* are never rewritten, a completed payment stays complete, and every answer with a
\* report, the first, a waiter's or a replay's, is of the report that was paid for.
SaleKept == Sale!Spec

\* Every call that was accepted is answered, those waiting for another's run
\* included, or lost with the process.
EveryCallAnswered ==
  \A c \in Calls : calls[c].phase # "idle" ~> calls[c].phase = "done"
=============================================================================
