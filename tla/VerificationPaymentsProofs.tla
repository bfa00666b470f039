--------------------- MODULE VerificationPaymentsProofs ---------------------
(***************************************************************************)
(* What TLAPS proves of paid verification, for every set of calls,          *)
(* authorizations and requests and any number of crashes: the facilitator   *)
(* is asked at most once per authorization, always after the report is on   *)
(* disk, a report is handed out only for a granted payment, no more runs    *)
(* than the capacity are ever under way, and SalePromise is kept.           *)
(***************************************************************************)
EXTENDS VerificationPayments, FiniteSetTheorems, TLAPS

\* What a call knows while it is under way.
CallKnows(c) ==
  /\ calls[c].phase # "done" => calls[c].answer = "pending"
  /\ calls[c].phase \in Running \cup {"waiting"} =>
       calls[c].auth \in Authorizations /\ calls[c].binding \in Bindings
  /\ calls[c].phase \in Running => pending[calls[c].auth] = c
  /\ calls[c].phase \in {"verifying", "checking"} => journal[calls[c].auth].state = "none"
  /\ calls[c].phase = "settling" => /\ journal[calls[c].auth].state = "settling"
                                    /\ journal[calls[c].auth].binding = calls[c].binding

ReportPaid(c) ==
  calls[c].answer = "report" =>
    /\ calls[c].auth \in Authorizations
    /\ settlement[calls[c].auth] = "granted"
    /\ journal[calls[c].auth] = [state |-> "complete", binding |-> calls[c].binding,
                                 report |-> calls[c].report]

\* What the journal says of the facilitator.
JournalKnows(a) ==
  /\ journal[a].state = "none" => asked[a] = 0
  /\ journal[a].state = "complete" => settlement[a] = "granted"
  /\ asked[a] <= 1

\* The inductive invariant: the run of an authorization is unique because its
\* call is the one in pending, and it starts only when nothing is on disk.
PaymentInv ==
  /\ TypeOK
  /\ \A c \in Calls : CallKnows(c) /\ ReportPaid(c)
  /\ \A a \in Authorizations : JournalKnows(a)

LEMMA InitPayment == Init => PaymentInv
<1> SUFFICES ASSUME Init PROVE PaymentInv
  OBVIOUS
<1>1. TypeOK
  <2>1. NoRecord \in JournalRecords
    BY DEF NoRecord, JournalRecords
  <2>2. calls \in [Calls -> CallRecords]
    BY DEF Init, CallRecords, Phases
  <2>3. ready \in BOOLEAN
    BY DEF Init
  <2>4. crashes \in 0 .. MaxCrashes
    BY VerificationAssumption DEF Init
  <2> QED BY <2>1, <2>2, <2>3, <2>4 DEF Init, TypeOK
<1>2. ASSUME NEW c \in Calls PROVE CallKnows(c) /\ ReportPaid(c)
  BY DEF Init, CallKnows, ReportPaid, Running
<1>3. ASSUME NEW a \in Authorizations PROVE JournalKnows(a)
  BY DEF Init, JournalKnows, NoRecord
<1> QED BY <1>1, <1>2, <1>3 DEF PaymentInv

-----------------------------------------------------------------------------
(* Calls.                                                                   *)

LEMMA CallUpdates ==
  ASSUME NEW r \in CallRecords
  PROVE /\ \A p \in Phases : [r EXCEPT !.phase = p] \in CallRecords
        /\ \A p \in Phases, w \in Answers : [r EXCEPT !.phase = p, !.answer = w] \in CallRecords
        /\ \A p \in Phases, w \in Answers, d \in Reports \cup {Nothing} :
             [r EXCEPT !.phase = p, !.answer = w, !.report = d] \in CallRecords
        /\ \A a \in Authorizations, b \in Bindings :
             [r EXCEPT !.auth = a, !.binding = b] \in CallRecords
        /\ \A p \in Phases, l \in Calls : [r EXCEPT !.phase = p, !.leader = l] \in CallRecords
  BY DEF CallRecords

LEMMA AnswerFacts ==
  ASSUME TypeOK, NEW c \in Calls, NEW w \in Answers, Answer(c, w)
  PROVE /\ calls' \in [Calls -> CallRecords]
        /\ \A d \in Calls : d # c => calls'[d] = calls[d]
        /\ calls'[c].phase = "done" /\ calls'[c].answer = w
<1>1. calls'= [calls EXCEPT ![c] = [calls[c] EXCEPT !.phase = "done", !.answer = w]]
  BY DEF Answer, TypeOK, CallRecords
<1>2. [calls[c] EXCEPT !.phase = "done", !.answer = w] \in CallRecords
  BY CallUpdates DEF TypeOK, Phases
<1>3. [calls[c] EXCEPT !.phase = "done", !.answer = w].phase = "done"
      /\ [calls[c] EXCEPT !.phase = "done", !.answer = w].answer = w
  BY DEF TypeOK, CallRecords
<1> DEFINE r == [calls[c] EXCEPT !.phase = "done", !.answer = w]
<1> HIDE DEF r
<1> QED BY <1>1, <1>2, <1>3 DEF TypeOK, r

LEMMA CachedFacts ==
  ASSUME TypeOK, NEW c \in Calls, NEW r \in CallRecords, r.auth \in Authorizations,
         r.binding \in Bindings, NEW otherwise \in Answers \ {"report"},
         AnswerCached(c, r, otherwise)
  PROVE /\ calls' \in [Calls -> CallRecords]
        /\ \A d \in Calls : d # c => calls'[d] = calls[d]
        /\ calls'[c].phase = "done"
        /\ calls'[c].auth = r.auth /\ calls'[c].binding = r.binding
        /\ calls'[c].answer = "report" =>
             /\ journal[r.auth].state = "complete"
             /\ journal[r.auth].binding = r.binding
             /\ journal[r.auth].report = calls'[c].report
<1>1. PICK w \in {"none", "reuse", "report", "uncertain"} :
        w = Cached(r.auth, r.binding)
  BY DEF Cached
<1>2. journal[r.auth] \in JournalRecords
  BY DEF TypeOK
<1>3. w = "report" => journal[r.auth].state = "complete" /\ journal[r.auth].binding = r.binding
  BY <1>1 DEF Cached
<1>4. PICK w2 \in Answers : w2 = IF w = "none" THEN otherwise ELSE w
  BY DEF Answers
<1>5. PICK d2 \in Reports \cup {Nothing} :
        d2 = IF w = "report" THEN journal[r.auth].report ELSE Nothing
  BY <1>2 DEF JournalRecords
<1>6. PICK s \in CallRecords :
        s = [r EXCEPT !.phase = "done", !.answer = w2, !.report = d2]
  BY <1>4, <1>5, CallUpdates DEF Phases
<1>7. /\ s.phase = "done" /\ s.auth = r.auth /\ s.binding = r.binding
      /\ s.answer = w2 /\ s.report = d2
  BY <1>6 DEF CallRecords
<1>8. calls' = [calls EXCEPT ![c] = s]
  BY <1>1, <1>4, <1>5, <1>6 DEF AnswerCached
<1>9. calls'[c] = s
  BY <1>8 DEF TypeOK
<1> QED BY <1>3, <1>4, <1>5, <1>7, <1>8, <1>9 DEF TypeOK

-----------------------------------------------------------------------------
(* Steps.                                                                   *)

\* A step of call c keeps the invariant when it leaves the other calls, the
\* runs of other calls in pending and their records alone.
LEMMA CallStep ==
  ASSUME PaymentInv, NEW c \in Calls,
         TypeOK',
         \A d \in Calls : d # c => calls'[d] = calls[d],
         CallKnows(c)', ReportPaid(c)',
         \A a \in Authorizations : pending'[a] = pending[a] \/ pending[a] \in {c, Nothing},
         \A a \in Authorizations :
           \/ journal'[a] = journal[a]
           \/ journal[a].state # "complete" /\ pending[a] = c,
         \A a \in Authorizations : settlement[a] = "granted" => settlement'[a] = "granted",
         \A a \in Authorizations : JournalKnows(a)'
  PROVE  PaymentInv'
<1> SUFFICES ASSUME NEW d \in Calls, d # c
             PROVE  CallKnows(d)' /\ ReportPaid(d)'
  BY DEF PaymentInv
<1>1. calls'[d] = calls[d] /\ CallKnows(d) /\ ReportPaid(d) /\ d # Nothing
  BY VerificationAssumption DEF PaymentInv
<1>2. CallKnows(d)'
  BY <1>1 DEF CallKnows, Running
<1>3. ReportPaid(d)'
  BY <1>1 DEF ReportPaid
<1> QED BY <1>2, <1>3

\* A call that ends, with its run or before it had one.
LEMMA CallEnds ==
  ASSUME PaymentInv, NEW c \in Calls, NEW w \in Answers \ {"report"}, Answer(c, w),
         (Leave(c) /\ calls[c].phase \in Running) \/ UNCHANGED pending,
         journal' \in [Authorizations -> JournalRecords],
         \A a \in Authorizations :
           \/ journal'[a] = journal[a]
           \/ journal[a].state # "complete" /\ pending[a] = c,
         \A a \in Authorizations : JournalKnows(a)',
         UNCHANGED <<ready, settlement, asked, crashes>>
  PROVE  PaymentInv'
<1>1. /\ calls' \in [Calls -> CallRecords]
      /\ \A d \in Calls : d # c => calls'[d] = calls[d]
      /\ calls'[c].phase = "done" /\ calls'[c].answer = w
  BY AnswerFacts DEF PaymentInv
<1>2. pending' \in [Authorizations -> Calls \cup {Nothing}]
  BY DEF PaymentInv, TypeOK, Leave
<1>3. \A a \in Authorizations : pending'[a] = pending[a] \/ pending[a] \in {c, Nothing}
  BY DEF PaymentInv, TypeOK, Leave, CallKnows
<1>4. TypeOK'
  BY <1>1, <1>2 DEF PaymentInv, TypeOK
<1>5. CallKnows(c)' /\ ReportPaid(c)'
  BY <1>1 DEF CallKnows, ReportPaid, Running
<1> QED BY <1>1, <1>3, <1>4, <1>5, CallStep

\* ... and leaves the journal alone.
LEMMA CallEndsOnly ==
  ASSUME PaymentInv, NEW c \in Calls, NEW w \in Answers \ {"report"}, Answer(c, w),
         (Leave(c) /\ calls[c].phase \in Running) \/ UNCHANGED pending,
         UNCHANGED <<ready, journal, settlement, asked, crashes>>
  PROVE  PaymentInv'
<1>1. journal' \in [Authorizations -> JournalRecords]
  BY DEF PaymentInv, TypeOK
<1>2. \A a \in Authorizations : JournalKnows(a)'
  BY DEF PaymentInv, JournalKnows
<1> QED BY <1>1, <1>2, CallEnds

LEMMA AnswersCachedKeeps ==
  ASSUME PaymentInv, NEW c \in Calls, NEW r \in CallRecords, r.auth \in Authorizations,
         r.binding \in Bindings, NEW otherwise \in Answers \ {"report"},
         AnswerCached(c, r, otherwise),
         UNCHANGED <<ready, journal, pending, settlement, asked, crashes>>
  PROVE  PaymentInv'
<1>1. /\ calls' \in [Calls -> CallRecords]
      /\ \A d \in Calls : d # c => calls'[d] = calls[d]
      /\ calls'[c].phase = "done"
      /\ calls'[c].auth = r.auth /\ calls'[c].binding = r.binding
      /\ calls'[c].answer = "report" =>
           /\ journal[r.auth].state = "complete"
           /\ journal[r.auth].binding = r.binding
           /\ journal[r.auth].report = calls'[c].report
  BY CachedFacts DEF PaymentInv
<1>2. TypeOK'
  BY <1>1 DEF PaymentInv, TypeOK
<1>3. CallKnows(c)'
  BY <1>1 DEF CallKnows, Running
<1>4. ReportPaid(c)'
  <2> SUFFICES ASSUME calls'[c].answer = "report"
               PROVE  /\ settlement[r.auth] = "granted"
                      /\ journal[r.auth] = [state |-> "complete", binding |-> r.binding,
                                           report |-> calls'[c].report]
    BY <1>1 DEF ReportPaid
  <2>1. journal[r.auth] \in JournalRecords
    BY DEF PaymentInv, TypeOK
  <2>2. journal[r.auth] = [state |-> "complete", binding |-> r.binding,
                           report |-> calls'[c].report]
    BY <1>1, <2>1 DEF JournalRecords
  <2>3. settlement[r.auth] = "granted"
    BY <1>1 DEF PaymentInv, JournalKnows
  <2> QED BY <2>2, <2>3
<1>5. \A a \in Authorizations : JournalKnows(a)'
  BY DEF PaymentInv, JournalKnows
<1> QED BY <1>1, <1>2, <1>3, <1>4, <1>5, CallStep

LEMMA CallKeeps ==
  ASSUME PaymentInv, NEW c \in Calls, NEW a \in Authorizations, NEW binding \in Bindings,
         \/ CallCached(c, a, binding) \/ CallWaits(c, a, binding)
         \/ CallOverCapacity(c, a, binding) \/ CallLeads(c, a, binding)
  PROVE  PaymentInv'
<1>1. PICK r \in CallRecords : r = Paying(c, a, binding)
  BY CallUpdates DEF Paying, PaymentInv, TypeOK
<1>2. r.auth = a /\ r.binding = binding /\ r.answer = calls[c].answer
  BY <1>1 DEF Paying, PaymentInv, TypeOK, CallRecords
<1>3. CASE CallCached(c, a, binding)
  BY <1>1, <1>2, <1>3, AnswersCachedKeeps DEF CallCached, Answers
<1>4. CASE CallOverCapacity(c, a, binding)
  BY <1>4, CallEndsOnly DEF CallOverCapacity, Answers
<1>5. CASE CallWaits(c, a, binding)
  <2>1. pending[a] \in Calls
    BY <1>5 DEF CallWaits, PaymentInv, TypeOK
  <2>2. PICK s \in CallRecords : s = [r EXCEPT !.phase = "waiting", !.leader = pending[a]]
    BY <2>1, CallUpdates DEF Phases
  <2>3. s.phase = "waiting" /\ s.auth = a /\ s.binding = binding /\ s.answer = calls[c].answer
    BY <1>2, <2>2 DEF CallRecords
  <2>4. calls' = [calls EXCEPT ![c] = s]
    BY <1>1, <1>5, <2>2 DEF CallWaits
  <2>5. /\ calls'[c] = s /\ calls' \in [Calls -> CallRecords]
        /\ \A d \in Calls : d # c => calls'[d] = calls[d]
    BY <2>4 DEF PaymentInv, TypeOK
  <2>6. calls[c].answer = "pending" /\ UNCHANGED <<ready, journal, pending, settlement, asked, crashes>>
    BY <1>5 DEF CallWaits, PaymentInv, CallKnows
  <2>7. TypeOK'
    BY <2>5, <2>6 DEF PaymentInv, TypeOK
  <2>8. CallKnows(c)' /\ ReportPaid(c)'
    BY <2>3, <2>5, <2>6 DEF CallKnows, ReportPaid, Running
  <2>9. \A b \in Authorizations : JournalKnows(b)'
    BY <2>6 DEF PaymentInv, JournalKnows
  <2> QED BY <2>5, <2>6, <2>7, <2>8, <2>9, CallStep
<1>6. CASE CallLeads(c, a, binding)
  <2>1. journal[a].state = "none" /\ pending[a] = Nothing /\ calls[c].answer = "pending"
    BY <1>6 DEF CallLeads, Cached, PaymentInv, CallKnows
  <2>2. PICK s \in CallRecords : s = [r EXCEPT !.phase = "verifying"]
    BY CallUpdates DEF Phases
  <2>3. s.phase = "verifying" /\ s.auth = a /\ s.binding = binding /\ s.answer = "pending"
    BY <1>2, <2>1, <2>2 DEF CallRecords
  <2>4. calls' = [calls EXCEPT ![c] = s]
    BY <1>1, <1>6, <2>2 DEF CallLeads, Lead
  <2>5. /\ calls'[c] = s /\ calls' \in [Calls -> CallRecords]
        /\ \A d \in Calls : d # c => calls'[d] = calls[d]
    BY <2>4 DEF PaymentInv, TypeOK
  <2>6. UNCHANGED <<ready, journal, settlement, asked, crashes>>
        /\ pending' = [pending EXCEPT ![a] = c]
    BY <1>6 DEF CallLeads, Lead
  <2>7. TypeOK'
    BY <2>5, <2>6 DEF PaymentInv, TypeOK
  <2>8. pending'[a] = c /\ \A b \in Authorizations : b # a => pending'[b] = pending[b]
    BY <2>6 DEF PaymentInv, TypeOK
  <2>9. CallKnows(c)' /\ ReportPaid(c)'
    BY <2>1, <2>3, <2>5, <2>6, <2>8 DEF CallKnows, ReportPaid, Running
  <2>10. \A b \in Authorizations : JournalKnows(b)'
    BY <2>6 DEF PaymentInv, JournalKnows
  <2> QED BY <2>1, <2>5, <2>6, <2>7, <2>8, <2>9, <2>10, CallStep
<1> QED BY <1>3, <1>4, <1>5, <1>6

\* What holds of a call that leads a run.
LEMMA RunningFacts ==
  ASSUME PaymentInv, NEW c \in Calls, calls[c].phase \in Running
  PROVE  /\ calls[c] \in CallRecords
         /\ calls[c].auth \in Authorizations /\ calls[c].binding \in Bindings
         /\ pending[calls[c].auth] = c /\ calls[c].answer = "pending"
         /\ journal[calls[c].auth] \in JournalRecords
         /\ JournalKnows(calls[c].auth)
         /\ asked[calls[c].auth] \in Nat
BY DEF PaymentInv, TypeOK, CallKnows, Running

LEMMA CheckSucceedsKeeps ==
  ASSUME PaymentInv, NEW c \in Calls, NEW report \in Reports, CheckSucceeds(c, report)
  PROVE  PaymentInv'
<1> DEFINE a == calls[c].auth
<1>1. calls[c].phase = "checking"
  BY DEF CheckSucceeds
<1>2. /\ calls[c] \in CallRecords
      /\ a \in Authorizations /\ calls[c].binding \in Bindings
      /\ pending[a] = c /\ calls[c].answer = "pending"
      /\ JournalKnows(a) /\ journal[a].state = "none" /\ asked[a] = 0
  BY <1>1, RunningFacts DEF Running, PaymentInv, CallKnows, JournalKnows
<1>3. PICK s \in CallRecords : s = [calls[c] EXCEPT !.phase = "settling"]
  BY <1>2, CallUpdates DEF Phases
<1>4. s.phase = "settling" /\ s.auth = a /\ s.binding = calls[c].binding /\ s.answer = "pending"
  BY <1>2, <1>3 DEF CallRecords
<1>5. calls' = [calls EXCEPT ![c] = s]
  BY <1>3 DEF CheckSucceeds, AskToSettle
<1>6. /\ calls'[c] = s /\ calls' \in [Calls -> CallRecords]
      /\ \A d \in Calls : d # c => calls'[d] = calls[d]
  BY <1>5 DEF PaymentInv, TypeOK
<1>7. PICK t \in JournalRecords :
        t = [state |-> "settling", binding |-> calls[c].binding, report |-> report]
  BY <1>2 DEF JournalRecords
<1>8. t.state = "settling" /\ t.binding = calls[c].binding
  BY <1>7
<1>9. journal' = [journal EXCEPT ![a] = t]
  BY <1>7 DEF CheckSucceeds, Recorded
<1>10. UNCHANGED <<ready, pending, crashes>>
       /\ asked' = [asked EXCEPT ![a] = @ + 1]
       /\ settlement' = [settlement EXCEPT ![a] = IF @ = "none" THEN "asked" ELSE @]
  BY DEF CheckSucceeds, AskToSettle
<1> HIDE DEF a
<1>11. /\ journal'[a] = t /\ journal' \in [Authorizations -> JournalRecords]
       /\ \A b \in Authorizations : b # a => journal'[b] = journal[b]
  BY <1>2, <1>9 DEF PaymentInv, TypeOK
<1>12. /\ asked'[a] = 1 /\ asked' \in [Authorizations -> Nat]
       /\ \A b \in Authorizations : b # a => asked'[b] = asked[b]
  BY <1>2, <1>10 DEF PaymentInv, TypeOK
<1>13. /\ settlement' \in [Authorizations -> {"none", "asked", "granted", "refused"}]
       /\ \A b \in Authorizations : b # a => settlement'[b] = settlement[b]
       /\ settlement[a] = "granted" => settlement'[a] = "granted"
  BY <1>2, <1>10 DEF PaymentInv, TypeOK
<1>14. TypeOK'
  BY <1>6, <1>10, <1>11, <1>12, <1>13 DEF PaymentInv, TypeOK
<1>15. CallKnows(c)' /\ ReportPaid(c)'
  BY <1>2, <1>4, <1>6, <1>8, <1>10, <1>11 DEF CallKnows, ReportPaid, Running
<1>16. \A b \in Authorizations : JournalKnows(b)'
  BY <1>8, <1>11, <1>12, <1>13 DEF PaymentInv, JournalKnows
<1> QED BY <1>2, <1>6, <1>10, <1>11, <1>13, <1>14, <1>15, <1>16, CallStep

LEMMA SettleSucceedsKeeps ==
  ASSUME PaymentInv, NEW c \in Calls, SettleSucceeds(c)
  PROVE  PaymentInv'
<1> DEFINE a == calls[c].auth
<1>1. calls[c].phase = "settling" /\ settlement[a] = "granted"
  BY DEF SettleSucceeds
<1>2. /\ calls[c] \in CallRecords
      /\ a \in Authorizations /\ calls[c].binding \in Bindings
      /\ pending[a] = c /\ JournalKnows(a) /\ journal[a] \in JournalRecords
      /\ journal[a].state = "settling" /\ journal[a].binding = calls[c].binding
  BY <1>1, RunningFacts DEF Running, PaymentInv, CallKnows
<1>3. PICK t \in JournalRecords : t = [journal[a] EXCEPT !.state = "complete"]
  BY <1>2 DEF JournalRecords
<1>4. t.state = "complete" /\ t.binding = calls[c].binding
      /\ t = [state |-> "complete", binding |-> calls[c].binding, report |-> t.report]
      /\ t.report \in Reports \cup {Nothing}
  BY <1>2, <1>3 DEF JournalRecords
<1>5. PICK s \in CallRecords :
        s = [calls[c] EXCEPT !.phase = "done", !.answer = "report", !.report = t.report]
  BY <1>2, <1>4, CallUpdates DEF Phases, Answers
<1>6. s.phase = "done" /\ s.auth = a /\ s.binding = calls[c].binding /\ s.report = t.report
  BY <1>2, <1>5 DEF CallRecords
<1>7. /\ calls' = [calls EXCEPT ![c].phase = "done", ![c].answer = "report",
                                ![c].report = t.report]
      /\ journal' = [journal EXCEPT ![a] = t]
      /\ pending' = [pending EXCEPT ![a] = Nothing]
      /\ UNCHANGED <<ready, settlement, asked, crashes>>
  BY <1>3 DEF SettleSucceeds, Leave
<1>8. calls' = [calls EXCEPT ![c] = s]
  BY <1>2, <1>5, <1>7 DEF PaymentInv, TypeOK, CallRecords
<1>9. /\ calls'[c] = s /\ calls' \in [Calls -> CallRecords]
      /\ \A d \in Calls : d # c => calls'[d] = calls[d]
  BY <1>8 DEF PaymentInv, TypeOK
<1> HIDE DEF a
<1>10. /\ journal'[a] = t /\ journal' \in [Authorizations -> JournalRecords]
       /\ \A b \in Authorizations : b # a => journal'[b] = journal[b]
  BY <1>2, <1>7 DEF PaymentInv, TypeOK
<1>11. TypeOK'
  BY <1>7, <1>9, <1>10 DEF PaymentInv, TypeOK
<1>12. CallKnows(c)'
  BY <1>6, <1>9 DEF CallKnows, Running
<1>13. ReportPaid(c)'
  <2>1. /\ calls'[c].auth = a /\ calls'[c].binding = calls[c].binding
        /\ calls'[c].report = t.report
    BY <1>6, <1>9
  <2>2. settlement'[a] = "granted" /\ journal'[a] = t
    BY <1>1, <1>7, <1>10
  <2> QED BY <1>2, <1>4, <2>1, <2>2 DEF ReportPaid
<1>14. \A b \in Authorizations : JournalKnows(b)'
  BY <1>1, <1>2, <1>4, <1>7, <1>10 DEF PaymentInv, JournalKnows
<1>15. \A b \in Authorizations : pending'[b] = pending[b] \/ pending[b] = c
  BY <1>2, <1>7 DEF PaymentInv, TypeOK
<1> QED BY <1>2, <1>7, <1>9, <1>10, <1>11, <1>12, <1>13, <1>14, <1>15, CallStep

LEMMA RunKeeps ==
  ASSUME PaymentInv, NEW c \in Calls, RunStep(c)
  PROVE  PaymentInv'
<1>1. CASE VerifyFails(c)
  BY <1>1, CallEndsOnly DEF VerifyFails, Answers, Running
<1>2. CASE SettleUnclear(c)
  BY <1>2, CallEndsOnly DEF SettleUnclear, Answers, Running
<1>3. CASE VerifySucceeds(c)
  <2>1. /\ calls[c].phase = "verifying"
        /\ UNCHANGED <<ready, journal, pending, settlement, asked, crashes>>
    BY <1>3 DEF VerifySucceeds
  <2>2. /\ calls[c] \in CallRecords /\ CallKnows(c)
        /\ calls[c].answer = "pending"
    BY <2>1, RunningFacts DEF Running, PaymentInv
  <2>3. PICK s \in CallRecords : s = [calls[c] EXCEPT !.phase = "checking"]
    BY <2>2, CallUpdates DEF Phases
  <2>4. /\ s.phase = "checking" /\ s.auth = calls[c].auth
        /\ s.binding = calls[c].binding /\ s.answer = "pending"
    BY <2>2, <2>3 DEF CallRecords
  <2>5. calls' = [calls EXCEPT ![c] = s]
    BY <1>3, <2>3 DEF VerifySucceeds
  <2>6. /\ calls'[c] = s /\ calls' \in [Calls -> CallRecords]
        /\ \A d \in Calls : d # c => calls'[d] = calls[d]
    BY <2>5 DEF PaymentInv, TypeOK
  <2>7. TypeOK'
    BY <2>1, <2>6 DEF PaymentInv, TypeOK
  <2>8. CallKnows(c)' /\ ReportPaid(c)'
    BY <2>1, <2>2, <2>4, <2>6 DEF CallKnows, ReportPaid, Running
  <2>9. \A a \in Authorizations : JournalKnows(a)'
    BY <2>1 DEF PaymentInv, JournalKnows
  <2> QED BY <2>1, <2>6, <2>7, <2>8, <2>9, CallStep
<1>4. CASE CheckFails(c)
  <2>1. calls[c].phase = "checking" /\ UNCHANGED <<ready, settlement, asked, crashes>>
    BY <1>4 DEF CheckFails
  <2>2. /\ pending[calls[c].auth] = c /\ journal[calls[c].auth].state = "none"
        /\ calls[c].auth \in Authorizations /\ calls[c].binding \in Bindings
    BY <2>1, RunningFacts DEF Running, PaymentInv, CallKnows
  <2>3. \A report \in Reports :
          [state |-> "settling", binding |-> calls[c].binding, report |-> report] \in JournalRecords
    BY <2>2 DEF JournalRecords
  <2>4. CASE journal' = journal
    BY <1>4, <2>4, CallEndsOnly DEF CheckFails, Answers, Running
  <2>5. ASSUME NEW report \in Reports, journal' = Recorded(c, report)
        PROVE  PaymentInv'
    <3>1. PICK t \in JournalRecords :
            t = [state |-> "settling", binding |-> calls[c].binding, report |-> report]
      BY <2>3
    <3>2. /\ journal' \in [Authorizations -> JournalRecords]
          /\ journal'[calls[c].auth] = t /\ t.state = "settling"
          /\ \A a \in Authorizations : a # calls[c].auth => journal'[a] = journal[a]
      BY <2>2, <2>5, <3>1 DEF Recorded, PaymentInv, TypeOK
    <3>3. \A a \in Authorizations : JournalKnows(a)'
      BY <2>1, <3>2 DEF PaymentInv, JournalKnows
    <3>4. \A a \in Authorizations :
            \/ journal'[a] = journal[a]
            \/ journal[a].state # "complete" /\ pending[a] = c
      BY <2>2, <3>2
    <3>5. Answer(c, "error") /\ Leave(c) /\ calls[c].phase \in Running
      BY <1>4 DEF CheckFails, Running
    <3> QED BY <2>1, <3>2, <3>3, <3>4, <3>5, CallEnds DEF Answers
  <2> QED BY <1>4, <2>4, <2>5 DEF CheckFails
<1>5. CASE SettleNotWritten(c)
  <2> DEFINE a == calls[c].auth
  <2>1. calls[c].phase = "settling" /\ UNCHANGED <<ready, settlement, asked, crashes>>
        /\ Answer(c, "error") /\ Leave(c) /\ calls[c].phase \in Running
    BY <1>5 DEF SettleNotWritten, Running
  <2>2. /\ pending[a] = c /\ journal[a].state = "settling"
        /\ a \in Authorizations /\ journal[a] \in JournalRecords
    BY <2>1, RunningFacts DEF Running, PaymentInv, CallKnows
  <2>3. CASE journal' = journal
    BY <2>1, <2>3, CallEndsOnly DEF Answers
  <2>4. CASE settlement[a] = "granted" /\ journal' = [journal EXCEPT ![a].state = "complete"]
    <3>1. PICK t \in JournalRecords : t = [journal[a] EXCEPT !.state = "complete"]
      BY <2>2 DEF JournalRecords
    <3>2. t.state = "complete"
      BY <2>2, <3>1 DEF JournalRecords
    <3>3. journal' = [journal EXCEPT ![a] = t]
      BY <2>4, <3>1
    <3> HIDE DEF a
    <3>4. /\ journal' \in [Authorizations -> JournalRecords] /\ journal'[a] = t
          /\ \A b \in Authorizations : b # a => journal'[b] = journal[b]
      BY <2>2, <3>3 DEF PaymentInv, TypeOK
    <3>5. \A b \in Authorizations : JournalKnows(b)'
      BY <2>1, <2>2, <2>4, <3>2, <3>4 DEF PaymentInv, JournalKnows
    <3>6. \A b \in Authorizations :
            \/ journal'[b] = journal[b]
            \/ journal[b].state # "complete" /\ pending[b] = c
      BY <2>2, <3>4
    <3> QED BY <2>1, <3>4, <3>5, <3>6, CallEnds DEF Answers
  <2> QED BY <1>5, <2>3, <2>4 DEF SettleNotWritten
<1> QED
  BY <1>1, <1>2, <1>3, <1>4, <1>5, CheckSucceedsKeeps, SettleSucceedsKeeps DEF RunStep

-----------------------------------------------------------------------------
(* The process and the facilitator.                                         *)

LEMMA CrashKeeps == PaymentInv /\ Crash => PaymentInv'
<1> SUFFICES ASSUME PaymentInv, Crash PROVE PaymentInv'
  OBVIOUS
<1>1. UNCHANGED <<journal, settlement, asked>> /\ crashes' = crashes + 1
      /\ crashes < MaxCrashes /\ ready' = FALSE
      /\ pending' = [a \in Authorizations |-> Nothing]
  BY DEF Crash
<1>2. ASSUME NEW c \in Calls
      PROVE  /\ calls'[c] \in CallRecords
             /\ \/ calls'[c] = calls[c] /\ calls[c].phase \in {"idle", "done"}
                \/ calls'[c].phase = "done" /\ calls'[c].answer = "lost"
  <2>1. calls[c] \in CallRecords
    BY DEF PaymentInv, TypeOK
  <2>2. PICK s \in CallRecords : s = [calls[c] EXCEPT !.phase = "done", !.answer = "lost"]
    BY <2>1, CallUpdates DEF Phases, Answers
  <2>3. s.phase = "done" /\ s.answer = "lost"
    BY <2>1, <2>2 DEF CallRecords
  <2>4. calls'[c] = IF calls[c].phase \in {"idle", "done"} THEN calls[c] ELSE s
    BY <2>2 DEF Crash
  <2> QED BY <2>1, <2>3, <2>4
<1>3. calls' \in [Calls -> CallRecords]
  <2>1. calls' = [c \in Calls |-> calls'[c]]
    BY DEF Crash
  <2> QED BY <1>2, <2>1
<1>4. crashes' \in 0 .. MaxCrashes
  BY <1>1, VerificationAssumption DEF PaymentInv, TypeOK
<1>5. TypeOK'
  BY <1>1, <1>3, <1>4 DEF PaymentInv, TypeOK
<1>6. ASSUME NEW c \in Calls PROVE CallKnows(c)' /\ ReportPaid(c)'
  BY <1>1, <1>2 DEF PaymentInv, CallKnows, ReportPaid, Running
<1>7. \A a \in Authorizations : JournalKnows(a)'
  BY <1>1 DEF PaymentInv, JournalKnows
<1> QED BY <1>5, <1>6, <1>7 DEF PaymentInv

LEMMA FacilitatorKeeps ==
  ASSUME PaymentInv, NEW a \in Authorizations, FacilitatorDecides(a)
  PROVE  PaymentInv'
<1>1. UNCHANGED <<ready, journal, pending, calls, asked, crashes>>
  BY DEF FacilitatorDecides
<1>2. /\ settlement' \in [Authorizations -> {"none", "asked", "granted", "refused"}]
      /\ \A b \in Authorizations : settlement[b] = "granted" => settlement'[b] = "granted"
  BY DEF FacilitatorDecides, PaymentInv, TypeOK
<1>3. TypeOK'
  BY <1>1, <1>2 DEF PaymentInv, TypeOK
<1>4. ASSUME NEW c \in Calls PROVE CallKnows(c)' /\ ReportPaid(c)'
  BY <1>1, <1>2 DEF PaymentInv, CallKnows, ReportPaid
<1>5. \A b \in Authorizations : JournalKnows(b)'
  BY <1>1, <1>2 DEF PaymentInv, JournalKnows
<1> QED BY <1>3, <1>4, <1>5 DEF PaymentInv

-----------------------------------------------------------------------------

LEMMA StepPayment == PaymentInv /\ [Next]_vars => PaymentInv'
<1> SUFFICES ASSUME PaymentInv, [Next]_vars PROVE PaymentInv'
  OBVIOUS
<1>1. CASE Initialize
  <2>1. ready' = TRUE /\ UNCHANGED <<journal, pending, calls, settlement, asked, crashes>>
    BY <1>1 DEF Initialize
  <2>2. TypeOK'
    BY <2>1 DEF PaymentInv, TypeOK
  <2> QED BY <2>1, <2>2 DEF PaymentInv, CallKnows, ReportPaid, JournalKnows
<1>2. ASSUME NEW c \in Calls, CallUnready(c) \/ CallChallenged(c) PROVE PaymentInv'
  BY <1>2, CallEndsOnly DEF CallUnready, CallChallenged, Answers
<1>3. ASSUME NEW c \in Calls, WaiterResumes(c) PROVE PaymentInv'
  <2>1. /\ calls[c] \in CallRecords
        /\ calls[c].auth \in Authorizations /\ calls[c].binding \in Bindings
    BY <1>3 DEF WaiterResumes, PaymentInv, TypeOK, CallKnows
  <2>2. /\ UNCHANGED <<ready, journal, pending, settlement, asked, crashes>>
        /\ Answer(c, "error") \/ AnswerCached(c, calls[c], "retry")
    BY <1>3 DEF WaiterResumes
  <2> QED BY <2>1, <2>2, CallEndsOnly, AnswersCachedKeeps DEF Answers
<1>4. CASE UNCHANGED vars
  BY <1>4 DEF vars, PaymentInv, TypeOK, CallKnows, ReportPaid, JournalKnows
<1> QED
  BY <1>1, <1>2, <1>3, <1>4, CallKeeps, RunKeeps, CrashKeeps, FacilitatorKeeps DEF Next

LEMMA PaymentInvariant == Spec => []PaymentInv
BY InitPayment, StepPayment, PTL DEF Spec

\* Every variable keeps its type.
THEOREM PaymentTypes == Spec => []TypeOK
<1>1. PaymentInv => TypeOK
  BY DEF PaymentInv
<1> QED BY <1>1, PaymentInvariant, PTL

\* verification-payments.mjs:30-31, "never blindly repeat an uncertain settle":
\* whatever interleaving of calls, crashes and late answers, settlePayment is
\* called at most once per authorization.
THEOREM AskedOnceAlways == Spec => []AskedOnce
<1>1. PaymentInv => AskedOnce
  BY DEF PaymentInv, JournalKnows, AskedOnce
<1> QED BY <1>1, PaymentInvariant, PTL

\* The report is on disk before the facilitator can have taken the money.
THEOREM AskedIsRecordedAlways == Spec => []AskedIsRecorded
<1>1. PaymentInv => AskedIsRecorded
  BY DEF PaymentInv, TypeOK, JournalKnows, AskedIsRecorded
<1> QED BY <1>1, PaymentInvariant, PTL

\* A report that was handed out is the one on disk, for the request it was
\* paid for, and the facilitator granted the payment.
THEOREM ReportIsPaidAlways == Spec => []ReportIsPaid
<1>1. PaymentInv => ReportIsPaid
  BY DEF PaymentInv, ReportPaid, ReportIsPaid
<1> QED BY <1>1, PaymentInvariant, PTL

\* A record never goes away, and what it says of the purchase is never rewritten.
LEMMA StepKeepsRecord ==
  ASSUME PaymentInv, [Next]_vars, NEW a \in Authorizations, journal[a].state # "none"
  PROVE  /\ journal'[a].binding = journal[a].binding
         /\ journal'[a].report = journal[a].report
         /\ journal[a].state = "complete" => journal'[a] = journal[a]
         /\ journal'[a].state # "none"
<1> USE DEF PaymentInv
<1>1. journal[a] \in JournalRecords
  BY DEF TypeOK
<1>2. \A c \in Calls, report \in Reports :
        CheckSucceeds(c, report) \/ CheckFails(c) => journal'[a] = journal[a]
  <2> SUFFICES ASSUME NEW c \in Calls, NEW report \in Reports,
                      CheckSucceeds(c, report) \/ CheckFails(c)
               PROVE  journal'[a] = journal[a]
    OBVIOUS
  <2>1. journal[calls[c].auth].state = "none"
    BY DEF CheckSucceeds, CheckFails, CallKnows
  <2> QED BY <2>1 DEF CheckSucceeds, CheckFails, Recorded, TypeOK
<1>3. \A c \in Calls :
        SettleSucceeds(c) \/ SettleNotWritten(c) =>
          /\ journal'[a] \in {journal[a], [journal[a] EXCEPT !.state = "complete"]}
          /\ journal[a].state = "complete" => journal'[a] = journal[a]
  <2> SUFFICES ASSUME NEW c \in Calls, SettleSucceeds(c) \/ SettleNotWritten(c)
               PROVE  /\ journal'[a] \in {journal[a], [journal[a] EXCEPT !.state = "complete"]}
                      /\ journal[a].state = "complete" => journal'[a] = journal[a]
    OBVIOUS
  <2>1. journal[calls[c].auth].state = "settling"
    BY DEF SettleSucceeds, SettleNotWritten, CallKnows
  <2> QED BY <2>1 DEF SettleSucceeds, SettleNotWritten, TypeOK
<1>4. \/ UNCHANGED journal
      \/ \E c \in Calls : \/ \E report \in Reports : CheckSucceeds(c, report)
                          \/ CheckFails(c) \/ SettleSucceeds(c) \/ SettleNotWritten(c)
  BY DEF Next, RunStep, vars, Initialize, CallUnready, CallChallenged, CallCached, CallWaits,
     CallOverCapacity, CallLeads, Lead, VerifyFails, VerifySucceeds, SettleUnclear,
     WaiterResumes, Crash, FacilitatorDecides
<1>5. \/ journal'[a] = journal[a]
      \/ /\ journal'[a] = [journal[a] EXCEPT !.state = "complete"]
         /\ journal[a].state # "complete"
  <2>1. ASSUME NEW c \in Calls, CheckFails(c) PROVE journal'[a] = journal[a]
    <3>1. journal[calls[c].auth].state = "none"
      BY <2>1 DEF CheckFails, CallKnows
    <3> QED BY <2>1, <3>1 DEF CheckFails, Recorded, TypeOK
  <2> QED BY <1>2, <1>3, <1>4, <2>1
<1> QED BY <1>1, <1>5 DEF JournalRecords

-----------------------------------------------------------------------------
(* The capacity.                                                            *)

\* The code counts the map of pending runs.  What makes that enough is that the
\* runs under way and the entries of the map go together (CallKnows).
MapWithinCapacity == IsFiniteSet(PendingRuns) /\ Cardinality(PendingRuns) <= Capacity

\* What any step does to the map: it adds one run to it where there is room, or
\* adds none.
LEMMA StepPending ==
  ASSUME PaymentInv, [Next]_vars
  PROVE \/ PendingRuns' \subseteq PendingRuns
        \/ /\ Cardinality(PendingRuns) < Capacity
           /\ \E a \in Authorizations : PendingRuns' \subseteq PendingRuns \cup {a}
<1>1. pending \in [Authorizations -> Calls \cup {Nothing}]
  BY DEF PaymentInv, TypeOK
<1>2. ASSUME NEW c \in Calls, NEW a \in Authorizations, NEW binding \in Bindings,
             CallLeads(c, a, binding)
      PROVE /\ Cardinality(PendingRuns) < Capacity
            /\ PendingRuns' \subseteq PendingRuns \cup {a}
  BY <1>1, <1>2 DEF CallLeads, Lead, PendingRuns
<1>3. ASSUME NEW c \in Calls, Leave(c) PROVE PendingRuns' \subseteq PendingRuns
  BY <1>1, <1>3 DEF Leave, PendingRuns
<1>4. ASSUME NEW c \in Calls, RunStep(c) PROVE Leave(c) \/ pending' = pending
  BY <1>4 DEF RunStep, VerifyFails, VerifySucceeds, CheckFails, CheckSucceeds, SettleSucceeds,
     SettleUnclear, SettleNotWritten
<1>5. ASSUME pending' = pending PROVE PendingRuns' \subseteq PendingRuns
  BY <1>5 DEF PendingRuns
<1>6. CASE Crash
  BY <1>6 DEF Crash, PendingRuns
<1>7. \/ pending' = pending
      \/ \E c \in Calls, a \in Authorizations, binding \in Bindings : CallLeads(c, a, binding)
      \/ \E c \in Calls : RunStep(c)
      \/ Crash
  BY DEF Next, vars, Initialize, CallUnready, CallChallenged, CallCached, CallWaits,
     CallOverCapacity, WaiterResumes, FacilitatorDecides
<1> QED BY <1>2, <1>3, <1>4, <1>5, <1>6, <1>7

LEMMA CapacityInvariant == Spec => [](PaymentInv /\ MapWithinCapacity)
<1>1. Init => MapWithinCapacity
  <2> SUFFICES ASSUME Init PROVE MapWithinCapacity
    OBVIOUS
  <2>1. PendingRuns = {}
    BY DEF Init, PendingRuns
  <2> QED BY <2>1, FS_EmptySet, VerificationAssumption DEF MapWithinCapacity
<1>2. PaymentInv /\ MapWithinCapacity /\ [Next]_vars => MapWithinCapacity'
  <2> SUFFICES ASSUME PaymentInv, MapWithinCapacity, [Next]_vars PROVE MapWithinCapacity'
    OBVIOUS
  <2>1. /\ IsFiniteSet(PendingRuns) /\ Cardinality(PendingRuns) \in Nat
        /\ Cardinality(PendingRuns) <= Capacity /\ Capacity \in Nat
    BY FS_CardinalityType, VerificationAssumption DEF MapWithinCapacity
  <2>2. CASE PendingRuns' \subseteq PendingRuns
    <3>1. /\ IsFiniteSet(PendingRuns') /\ Cardinality(PendingRuns') <= Cardinality(PendingRuns)
          /\ Cardinality(PendingRuns') \in Nat
      BY <2>1, <2>2, FS_Subset, FS_CardinalityType
    <3> QED BY <2>1, <3>1 DEF MapWithinCapacity
  <2>3. ASSUME Cardinality(PendingRuns) < Capacity, NEW a \in Authorizations,
               PendingRuns' \subseteq PendingRuns \cup {a}
        PROVE  MapWithinCapacity'
    <3>1. /\ IsFiniteSet(PendingRuns \cup {a})
          /\ Cardinality(PendingRuns \cup {a}) <= Cardinality(PendingRuns) + 1
          /\ Cardinality(PendingRuns \cup {a}) \in Nat
      <4>1. /\ IsFiniteSet(PendingRuns \cup {a})
            /\ Cardinality(PendingRuns \cup {a}) =
                 IF a \in PendingRuns THEN Cardinality(PendingRuns) ELSE Cardinality(PendingRuns) + 1
        BY <2>1, FS_AddElement, Zenon
      <4> QED BY <2>1, <4>1
    <3>2. /\ IsFiniteSet(PendingRuns')
          /\ Cardinality(PendingRuns') <= Cardinality(PendingRuns \cup {a})
          /\ Cardinality(PendingRuns') \in Nat
      BY <2>3, <3>1, FS_Subset, FS_CardinalityType
    <3> QED BY <2>1, <2>3, <3>1, <3>2 DEF MapWithinCapacity
  <2> QED BY <2>2, <2>3, StepPending
<1> QED BY <1>1, <1>2, InitPayment, StepPayment, PTL DEF Spec

\* verification-payments.mjs:88: at most Capacity runs talk to the facilitator at
\* a time, counted by the runs themselves and not by the map the code counts,
\* however calls, failures and crashes interleave.
THEOREM WithinCapacityAlways == Spec => []WithinCapacity
<1>1. PaymentInv /\ MapWithinCapacity => WithinCapacity
  <2> SUFFICES ASSUME PaymentInv, MapWithinCapacity PROVE WithinCapacity
    OBVIOUS
  <2> DEFINE Runs == {c \in Calls : calls[c].phase \in Running}
             f == [c \in Runs |-> calls[c].auth]
  <2>1. f \in Injection(Runs, PendingRuns)
    <3>1. ASSUME NEW c \in Runs
          PROVE  calls[c].auth \in PendingRuns /\ pending[calls[c].auth] = c
      BY VerificationAssumption DEF PaymentInv, CallKnows, PendingRuns
    <3> QED BY <3>1 DEF Injection, IsInjective
  <2>2. /\ IsFiniteSet(PendingRuns) /\ Cardinality(PendingRuns) \in Nat
        /\ Cardinality(PendingRuns) <= Capacity /\ Capacity \in Nat
    BY FS_CardinalityType, VerificationAssumption DEF MapWithinCapacity
  <2>3. /\ IsFiniteSet(Runs) /\ Cardinality(Runs) <= Cardinality(PendingRuns)
        /\ Cardinality(Runs) \in Nat
    BY <2>1, <2>2, FS_Injection, FS_CardinalityType
  <2> QED BY <2>2, <2>3 DEF WithinCapacity
<1> QED BY <1>1, CapacityInvariant, PTL

-----------------------------------------------------------------------------
(* The sale: the service implements SalePromise.                            *)

\* The facilitator has been asked only for what is on disk.
SaleInv ==
  /\ PaymentInv
  /\ \A a \in Authorizations : journal[a].state = "none" => settlement[a] = "none"

LEMMA SaleInvInit == Init => SaleInv
  BY InitPayment DEF Init, SaleInv

LEMMA SaleInvStep ==
  ASSUME SaleInv, [Next]_vars
  PROVE  SaleInv'
<1>1. PaymentInv /\ PaymentInv'
  BY StepPayment DEF SaleInv
<1>2. ASSUME NEW a \in Authorizations, journal'[a].state = "none"
      PROVE  settlement'[a] = "none"
  <2>1. journal[a].state = "none" /\ settlement[a] = "none"
    <3>1. journal[a].state # "none" => journal'[a].state # "none"
      BY <1>1, <1>2, StepKeepsRecord
    <3> QED BY <1>2, <3>1 DEF SaleInv
  <2>2. ASSUME NEW c \in Calls, NEW report \in Reports, CheckSucceeds(c, report)
        PROVE  settlement'[a] = settlement[a]
    <3>1. /\ calls[c].phase = "checking" /\ journal' = Recorded(c, report)
          /\ settlement' = [settlement EXCEPT ![calls[c].auth] = IF @ = "none" THEN "asked" ELSE @]
      BY <2>2 DEF CheckSucceeds, AskToSettle
    <3>2. a # calls[c].auth
      BY <1>1, <1>2, <3>1 DEF Recorded, PaymentInv, TypeOK
    <3> QED BY <1>1, <3>1, <3>2 DEF PaymentInv, TypeOK
  <2>3. ASSUME NEW b \in Authorizations, FacilitatorDecides(b) PROVE settlement'[a] = settlement[a]
    <3>1. settlement[b] = "asked" /\ \E w : settlement' = [settlement EXCEPT ![b] = w]
      BY <2>3 DEF FacilitatorDecides
    <3> QED BY <1>1, <2>1, <3>1 DEF PaymentInv, TypeOK
  <2>4. \/ UNCHANGED settlement
        \/ \E c \in Calls, report \in Reports : CheckSucceeds(c, report)
        \/ \E b \in Authorizations : FacilitatorDecides(b)
    BY DEF Next, RunStep, vars, Initialize, CallUnready, CallChallenged, CallCached, CallWaits,
       CallOverCapacity, CallLeads, Lead, VerifyFails, VerifySucceeds, CheckFails, SettleSucceeds,
       SettleUnclear, SettleNotWritten, WaiterResumes, Crash
  <2> QED BY <2>1, <2>2, <2>3, <2>4
<1> QED BY <1>1, <1>2 DEF SaleInv

\* Nothing is sold where the journal stays, and nothing served where no call gets a report.
LEMMA JournalStays ==
  ASSUME UNCHANGED journal
  PROVE  UNCHANGED <<SaleReserved, SaleSold>>
  BY DEF SaleReserved, SaleSold

LEMMA NoneServed ==
  ASSUME \A d \in Calls : calls'[d] = calls[d] \/ "report" \notin {calls[d].answer, calls'[d].answer}
  PROVE  UNCHANGED SaleServed
<1>1. \A d \in Calls : /\ calls'[d].answer # "report" <=> calls[d].answer # "report"
                       /\ calls[d].answer = "report" => calls'[d] = calls[d]
  OBVIOUS
<1> QED BY <1>1 DEF SaleServed

LEMMA ChargesStay == ASSUME UNCHANGED settlement PROVE UNCHANGED SaleCharged
  BY DEF SaleCharged

LEMMA AnswersNothing ==
  ASSUME PaymentInv, NEW c \in Calls, calls[c].phase # "done", NEW w \in Answers \ {"report"}, Answer(c, w)
  PROVE  UNCHANGED SaleServed
<1>1. calls[c].answer = "pending"
  BY DEF PaymentInv, CallKnows
<1>2. calls'[c].answer = w /\ \A d \in Calls : d # c => calls'[d] = calls[d]
  BY AnswerFacts DEF PaymentInv
<1> QED BY <1>1, <1>2, NoneServed

\* A call that ends with a report is served what its authorization has bought.
LEMMA SaleServes ==
  ASSUME PaymentInv, PaymentInv', NEW c \in Calls, calls[c].answer # "report",
         \A d \in Calls : d # c => calls'[d] = calls[d],
         calls'[c].answer = "report",
         UNCHANGED <<settlement, SaleReserved>>, SaleSold' = SaleSold \cup {calls'[c].auth}
  PROVE  Sale!Next
<1>1. PICK a, good : a = calls'[c].auth /\ good = [binding |-> calls'[c].binding, report |-> calls'[c].report]
  OBVIOUS
<1>2. /\ a \in Authorizations /\ settlement[a] = "granted"
      /\ journal'[a] = [state |-> "complete", binding |-> calls'[c].binding, report |-> calls'[c].report]
  BY <1>1 DEF PaymentInv, ReportPaid
<1>3. SaleReserved'[a] = {good}
  BY <1>1, <1>2 DEF SaleReserved
<1>4. SaleServed[c] = {} /\ SaleServed' = [SaleServed EXCEPT ![c] = {[auth |-> a, good |-> good]}]
  <2>1. SaleServed'[c] = {[auth |-> a, good |-> good]}
    BY <1>1 DEF SaleServed
  <2>2. \A d \in Calls : d # c => SaleServed'[d] = SaleServed[d]
    BY DEF SaleServed
  <2> QED BY <2>1, <2>2 DEF SaleServed
<1>5. a \in SaleCharged /\ UNCHANGED SaleCharged
  BY <1>2 DEF SaleCharged
<1>6. Sale!Serve(c, a)
  BY <1>1, <1>3, <1>4, <1>5 DEF Sale!Serve
<1> QED BY <1>2, <1>6 DEF Sale!Next

LEMMA SaleServesCached ==
  ASSUME PaymentInv, PaymentInv', NEW c \in Calls, calls[c].phase # "done",
         NEW r \in CallRecords, r.auth \in Authorizations, r.binding \in Bindings,
         NEW otherwise \in Answers \ {"report"}, AnswerCached(c, r, otherwise),
         UNCHANGED <<journal, settlement>>
  PROVE  [Sale!Next]_(Sale!vars)
<1>1. /\ \A d \in Calls : d # c => calls'[d] = calls[d]
      /\ calls'[c].auth = r.auth
      /\ calls'[c].answer = "report" => journal[r.auth].state = "complete"
  BY CachedFacts DEF PaymentInv
<1>2. calls[c].answer # "report"
  BY DEF PaymentInv, CallKnows
<1>3. UNCHANGED <<SaleReserved, SaleSold, SaleCharged>>
  BY JournalStays, ChargesStay
<1>4. CASE calls'[c].answer = "report"
  <2>1. r.auth \in SaleSold
    BY <1>1, <1>4 DEF SaleSold
  <2>2. Sale!Next
    BY <1>1, <1>2, <1>3, <1>4, <2>1, SaleServes
  <2> QED BY <2>2
<1>5. CASE calls'[c].answer # "report"
  <2>1. UNCHANGED SaleServed
    BY <1>1, <1>2, <1>5, NoneServed
  <2> QED BY <1>3, <2>1 DEF Sale!vars
<1> QED BY <1>4, <1>5

\* A record that is written for the first time reserves its report.
LEMMA SaleReserves ==
  ASSUME PaymentInv, NEW c \in Calls, calls[c].phase = "checking", NEW report \in Reports,
         journal' = Recorded(c, report), UNCHANGED <<SaleServed, SaleCharged>>
  PROVE  Sale!Next
<1>1. PICK a, good : a = calls[c].auth /\ good = [binding |-> calls[c].binding, report |-> report]
  OBVIOUS
<1>2. a \in Authorizations /\ journal[a].state = "none" /\ good \in [binding : Bindings, report : Reports]
  BY <1>1, RunningFacts DEF Running, PaymentInv, CallKnows
<1>3. /\ journal'[a] = [state |-> "settling", binding |-> calls[c].binding, report |-> report]
      /\ \A b \in Authorizations : b # a => journal'[b] = journal[b]
  BY <1>1, <1>2 DEF Recorded, PaymentInv, TypeOK
<1>4. SaleReserved[a] = {} /\ SaleReserved' = [SaleReserved EXCEPT ![a] = {good}]
  <2>1. SaleReserved'[a] = {good}
    BY <1>1, <1>2, <1>3 DEF SaleReserved
  <2>2. \A b \in Authorizations : b # a => SaleReserved'[b] = SaleReserved[b]
    BY <1>3 DEF SaleReserved
  <2> QED BY <1>2, <2>1, <2>2 DEF SaleReserved
<1>5. SaleSold' = SaleSold
  BY <1>2, <1>3 DEF SaleSold
<1>6. Sale!Reserve(a, good)
  BY <1>4, <1>5 DEF Sale!Reserve
<1> QED BY <1>2, <1>6 DEF Sale!Next

\* The second write of the record sells it.
LEMMA SaleCompletes ==
  ASSUME PaymentInv, NEW c \in Calls, calls[c].phase = "settling",
         journal' = [journal EXCEPT ![calls[c].auth] = [journal[calls[c].auth] EXCEPT !.state = "complete"]]
  PROVE  SaleReserved' = SaleReserved /\ SaleSold' = SaleSold \cup {calls[c].auth}
<1>1. PICK a : a = calls[c].auth
  OBVIOUS
<1>2. a \in Authorizations /\ journal[a].state = "settling" /\ journal[a] \in JournalRecords
  BY <1>1, RunningFacts DEF Running, PaymentInv, CallKnows
<1>3. PICK t : t = [journal[a] EXCEPT !.state = "complete"]
  OBVIOUS
<1>4. t.state = "complete" /\ t.binding = journal[a].binding /\ t.report = journal[a].report
  BY <1>2, <1>3 DEF JournalRecords
<1>5. journal'[a] = t /\ \A b \in Authorizations : b # a => journal'[b] = journal[b]
  BY <1>1, <1>2, <1>3 DEF PaymentInv, TypeOK
<1>6. \A b \in Authorizations : /\ journal'[b].binding = journal[b].binding
                                /\ journal'[b].report = journal[b].report
                                /\ journal'[b].state = "none" <=> journal[b].state = "none"
  BY <1>2, <1>4, <1>5
<1>7. SaleReserved' = SaleReserved
  BY <1>6 DEF SaleReserved
<1>8. SaleSold' = SaleSold \cup {a}
  BY <1>2, <1>4, <1>5 DEF SaleSold
<1> QED BY <1>1, <1>7, <1>8

LEMMA RunSells ==
  ASSUME PaymentInv, PaymentInv', NEW c \in Calls, RunStep(c)
  PROVE  [Sale!Next]_(Sale!vars)
<1>1. CASE VerifyFails(c) \/ SettleUnclear(c)
  <2>1. calls[c].phase # "done" /\ UNCHANGED <<journal, settlement>>
        /\ \E w \in Answers \ {"report"} : Answer(c, w)
    BY <1>1 DEF VerifyFails, SettleUnclear, Answers
  <2> QED BY <2>1, AnswersNothing, JournalStays, ChargesStay DEF Sale!vars
<1>2. ASSUME NEW p, p # "done", calls' = [calls EXCEPT ![c].phase = p], calls[c].phase \in Running
      PROVE  UNCHANGED SaleServed
  <2>1. calls[c] \in CallRecords /\ calls[c].answer = "pending"
    BY <1>2, RunningFacts
  <2>2. calls'[c].answer = "pending"
    BY <1>2, <2>1 DEF CallRecords, PaymentInv, TypeOK
  <2>3. \A d \in Calls : d # c => calls'[d] = calls[d]
    BY <1>2 DEF PaymentInv, TypeOK
  <2> QED BY <2>1, <2>2, <2>3, NoneServed
<1>3. CASE VerifySucceeds(c)
  <2>1. UNCHANGED <<journal, settlement>> /\ UNCHANGED SaleServed
    BY <1>2, <1>3 DEF VerifySucceeds, Running
  <2> QED BY <2>1, JournalStays, ChargesStay DEF Sale!vars
<1>4. CASE CheckFails(c)
  <2>1. calls[c].phase = "checking" /\ UNCHANGED settlement /\ Answer(c, "error")
    BY <1>4 DEF CheckFails
  <2>2. UNCHANGED <<SaleServed, SaleCharged>>
    BY <2>1, AnswersNothing, ChargesStay DEF Answers
  <2>3. CASE UNCHANGED journal
    BY <2>2, <2>3, JournalStays DEF Sale!vars
  <2>4. ASSUME NEW report \in Reports, journal' = Recorded(c, report) PROVE Sale!Next
    BY <2>1, <2>2, <2>4, SaleReserves
  <2> QED BY <1>4, <2>3, <2>4 DEF CheckFails
<1>5. ASSUME NEW report \in Reports, CheckSucceeds(c, report) PROVE Sale!Next
  <2>1. /\ calls[c].phase = "checking" /\ journal' = Recorded(c, report)
        /\ calls' = [calls EXCEPT ![c].phase = "settling"]
        /\ settlement' = [settlement EXCEPT ![calls[c].auth] = IF @ = "none" THEN "asked" ELSE @]
    BY <1>5 DEF CheckSucceeds, AskToSettle
  <2>2. UNCHANGED SaleServed
    BY <1>2, <2>1 DEF Running
  <2>3. \A b \in Authorizations : settlement'[b] = "granted" <=> settlement[b] = "granted"
    BY <2>1 DEF PaymentInv, TypeOK
  <2>4. UNCHANGED SaleCharged
    BY <2>3 DEF SaleCharged
  <2> QED BY <2>1, <2>2, <2>4, SaleReserves
<1>6. CASE SettleSucceeds(c)
  <2>1. PICK t : t = [journal[calls[c].auth] EXCEPT !.state = "complete"]
    OBVIOUS
  <2>2. /\ calls[c].phase = "settling" /\ UNCHANGED settlement
        /\ journal' = [journal EXCEPT ![calls[c].auth] = t]
        /\ calls' = [calls EXCEPT ![c].phase = "done", ![c].answer = "report", ![c].report = t.report]
    BY <1>6, <2>1 DEF SettleSucceeds
  <2>3. calls[c] \in CallRecords /\ calls[c].answer = "pending"
    BY <2>2, RunningFacts DEF Running
  <2>4. calls'[c].answer = "report" /\ calls'[c].auth = calls[c].auth
        /\ \A d \in Calls : d # c => calls'[d] = calls[d]
    BY <2>2, <2>3 DEF CallRecords, PaymentInv, TypeOK
  <2>5. SaleReserved' = SaleReserved /\ SaleSold' = SaleSold \cup {calls[c].auth}
    BY <2>1, <2>2, SaleCompletes
  <2> QED BY <2>2, <2>3, <2>4, <2>5, SaleServes
<1>7. CASE SettleNotWritten(c)
  <2>1. calls[c].phase = "settling" /\ UNCHANGED settlement /\ Answer(c, "error")
    BY <1>7 DEF SettleNotWritten
  <2>2. UNCHANGED <<SaleServed, SaleCharged>>
    BY <2>1, AnswersNothing, ChargesStay DEF Answers
  <2>3. CASE UNCHANGED journal
    BY <2>2, <2>3, JournalStays DEF Sale!vars
  <2>4. CASE /\ settlement[calls[c].auth] = "granted"
             /\ journal' = [journal EXCEPT ![calls[c].auth].state = "complete"]
    <3>1. calls[c].auth \in SaleCharged /\ calls[c].auth \in Authorizations
      BY <2>1, <2>4, RunningFacts DEF Running, SaleCharged
    <3>2. SaleReserved' = SaleReserved /\ SaleSold' = SaleSold \cup {calls[c].auth}
      BY <2>1, <2>4, SaleCompletes
    <3>3. Sale!Sell(calls[c].auth)
      BY <2>2, <3>1, <3>2 DEF Sale!Sell
    <3> QED BY <3>1, <3>3 DEF Sale!Next
  <2> QED BY <1>7, <2>3, <2>4 DEF SettleNotWritten
<1> QED BY <1>1, <1>3, <1>4, <1>5, <1>6, <1>7 DEF RunStep

LEMMA CallSells ==
  ASSUME PaymentInv, PaymentInv', NEW c \in Calls, NEW a \in Authorizations, NEW binding \in Bindings,
         \/ CallCached(c, a, binding) \/ CallWaits(c, a, binding)
         \/ CallOverCapacity(c, a, binding) \/ CallLeads(c, a, binding)
  PROVE  [Sale!Next]_(Sale!vars)
<1>1. PICK r \in CallRecords : r = Paying(c, a, binding)
  BY CallUpdates DEF Paying, PaymentInv, TypeOK
<1>2. r.auth = a /\ r.binding = binding /\ r.answer = calls[c].answer
  BY <1>1 DEF Paying, PaymentInv, TypeOK, CallRecords
<1>3. calls[c].phase = "idle" /\ calls[c].answer = "pending" /\ UNCHANGED <<journal, settlement>>
  BY DEF CallCached, CallWaits, CallOverCapacity, CallLeads, Lead, PaymentInv, CallKnows
<1>4. CASE CallCached(c, a, binding)
  BY <1>1, <1>2, <1>3, <1>4, SaleServesCached DEF CallCached, Answers
<1>5. CASE CallOverCapacity(c, a, binding)
  BY <1>3, <1>5, AnswersNothing, JournalStays, ChargesStay DEF CallOverCapacity, Answers, Sale!vars
<1>6. CASE CallWaits(c, a, binding) \/ CallLeads(c, a, binding)
  <2>1. \E s : s.answer = r.answer /\ calls' = [calls EXCEPT ![c] = s]
    <3>1. CASE CallWaits(c, a, binding)
      <4>1. PICK s : s = [r EXCEPT !.phase = "waiting", !.leader = pending[a]]
        OBVIOUS
      <4>2. s.answer = r.answer
        BY <4>1 DEF CallRecords
      <4>3. calls' = [calls EXCEPT ![c] = s]
        BY <1>1, <3>1, <4>1 DEF CallWaits
      <4> QED BY <4>2, <4>3
    <3>2. CASE CallLeads(c, a, binding)
      <4>1. PICK s : s = [r EXCEPT !.phase = "verifying"]
        OBVIOUS
      <4>2. s.answer = r.answer
        BY <4>1 DEF CallRecords
      <4>3. calls' = [calls EXCEPT ![c] = s]
        BY <1>1, <3>2, <4>1 DEF CallLeads, Lead
      <4> QED BY <4>2, <4>3
    <3> QED BY <1>6, <3>1, <3>2
  <2>2. calls'[c].answer = "pending" /\ \A d \in Calls : d # c => calls'[d] = calls[d]
    BY <1>2, <1>3, <2>1 DEF PaymentInv, TypeOK
  <2>3. UNCHANGED SaleServed
    BY <1>3, <2>2, NoneServed
  <2> QED BY <1>3, <2>3, JournalStays, ChargesStay DEF Sale!vars
<1> QED BY <1>4, <1>5, <1>6

LEMMA CrashSells == ASSUME PaymentInv, Crash PROVE UNCHANGED Sale!vars
<1>1. ASSUME NEW d \in Calls
      PROVE  calls'[d] = calls[d] \/ "report" \notin {calls[d].answer, calls'[d].answer}
  <2>1. calls[d] \in CallRecords /\ (calls[d].phase # "done" => calls[d].answer = "pending")
    BY DEF PaymentInv, TypeOK, CallKnows
  <2>2. calls'[d] = IF calls[d].phase \in {"idle", "done"} THEN calls[d]
                    ELSE [calls[d] EXCEPT !.phase = "done", !.answer = "lost"]
    BY DEF Crash
  <2>3. [calls[d] EXCEPT !.phase = "done", !.answer = "lost"].answer = "lost"
    BY <2>1 DEF CallRecords
  <2> QED BY <2>1, <2>2, <2>3
<1>2. UNCHANGED <<journal, settlement>>
  BY DEF Crash
<1> QED BY <1>1, <1>2, NoneServed, JournalStays, ChargesStay DEF Sale!vars

LEMMA FacilitatorSells ==
  ASSUME SaleInv, NEW a \in Authorizations, FacilitatorDecides(a)
  PROVE  [Sale!Next]_(Sale!vars)
<1>1. UNCHANGED <<journal, calls>> /\ settlement[a] = "asked"
  BY DEF FacilitatorDecides
<1>2. UNCHANGED <<SaleReserved, SaleSold, SaleServed>>
  BY <1>1, JournalStays DEF SaleServed
<1>3. PICK w \in {"granted", "refused"} : settlement' = [settlement EXCEPT ![a] = w]
  BY DEF FacilitatorDecides
<1>4. settlement'[a] = w /\ \A b \in Authorizations : b # a => settlement'[b] = settlement[b]
  BY <1>3 DEF SaleInv, PaymentInv, TypeOK
<1>5. CASE w = "refused"
  <2>1. UNCHANGED SaleCharged
    BY <1>1, <1>4, <1>5 DEF SaleCharged
  <2> QED BY <1>2, <2>1 DEF Sale!vars
<1>6. CASE w = "granted"
  <2>1. a \notin SaleCharged /\ SaleCharged' = SaleCharged \cup {a}
    BY <1>1, <1>4, <1>6 DEF SaleCharged
  <2>2. SaleReserved[a] # {}
    BY <1>1 DEF SaleInv, SaleReserved
  <2>3. Sale!Charge(a)
    BY <1>2, <2>1, <2>2 DEF Sale!Charge
  <2> QED BY <2>3 DEF Sale!Next
<1> QED BY <1>5, <1>6

LEMMA StepSells ==
  ASSUME SaleInv, [Next]_vars
  PROVE  [Sale!Next]_(Sale!vars)
<1>1. PaymentInv /\ PaymentInv'
  BY StepPayment DEF SaleInv
<1>2. CASE Initialize \/ UNCHANGED vars
  <2>1. UNCHANGED <<journal, calls, settlement>>
    BY <1>2 DEF Initialize, vars
  <2> QED BY <2>1, JournalStays, ChargesStay DEF SaleServed, Sale!vars
<1>3. ASSUME NEW c \in Calls, CallUnready(c) \/ CallChallenged(c) PROVE [Sale!Next]_(Sale!vars)
  <2>1. calls[c].phase # "done" /\ UNCHANGED <<journal, settlement>>
        /\ \E w \in Answers \ {"report"} : Answer(c, w)
    BY <1>3 DEF CallUnready, CallChallenged, Answers
  <2> QED BY <1>1, <2>1, AnswersNothing, JournalStays, ChargesStay DEF Sale!vars
<1>4. ASSUME NEW c \in Calls, WaiterResumes(c) PROVE [Sale!Next]_(Sale!vars)
  <2>1. /\ calls[c] \in CallRecords /\ calls[c].phase # "done"
        /\ calls[c].auth \in Authorizations /\ calls[c].binding \in Bindings
    BY <1>1, <1>4 DEF WaiterResumes, PaymentInv, TypeOK, CallKnows
  <2>2. UNCHANGED <<journal, settlement>> /\ (Answer(c, "error") \/ AnswerCached(c, calls[c], "retry"))
    BY <1>4 DEF WaiterResumes
  <2>3. CASE Answer(c, "error")
    BY <1>1, <2>1, <2>2, <2>3, AnswersNothing, JournalStays, ChargesStay DEF Sale!vars, Answers
  <2>4. CASE AnswerCached(c, calls[c], "retry")
    BY <1>1, <2>1, <2>2, <2>4, SaleServesCached DEF Answers
  <2> QED BY <2>2, <2>3, <2>4
<1> QED BY <1>1, <1>2, <1>3, <1>4, CallSells, RunSells, CrashSells, FacilitatorSells DEF Next

LEMMA SaleStarts == Init => Sale!Init
<1> SUFFICES ASSUME Init PROVE Sale!Init
  OBVIOUS
<1>1. SaleReserved = [a \in Authorizations |-> {}] /\ SaleSold = {}
  BY DEF Init, NoRecord, SaleReserved, SaleSold
<1>2. SaleCharged = {}
  BY DEF Init, SaleCharged
<1>3. SaleServed = [c \in Calls |-> {}]
  BY DEF Init, SaleServed
<1> QED BY <1>1, <1>2, <1>3 DEF Sale!Init

\* Paid verification implements SalePromise (verification-payments.mjs:76-127): for any
\* number of calls, crashes and retries, an authorization is charged only after its
\* report is fixed, the report stays fixed, and each call answered with a report
\* gets that one.
THEOREM SaleKeptAlways == Spec => SaleKept
<1>1. Spec => []SaleInv
  BY SaleInvInit, SaleInvStep, PTL DEF Spec
<1>2. SaleInv /\ [Next]_vars => [Sale!Next]_(Sale!vars)
  BY StepSells
<1> QED BY <1>1, <1>2, SaleStarts, PTL DEF Spec, SaleKept, Sale!Spec
=============================================================================
