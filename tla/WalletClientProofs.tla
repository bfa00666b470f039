------------------------- MODULE WalletClientProofs -------------------------
(***************************************************************************)
(* What TLAPS proves of the page that sends wallet transactions: for any    *)
(* number of tabs, operations, failures and lost hashes that every variable *)
(* keeps its type, and for a browser with one such page that an open        *)
(* transaction can always be resumed.                                       *)
(***************************************************************************)
EXTENDS WalletClient, SequenceTheorems, TLAPS

-----------------------------------------------------------------------------
(* Type correctness, which needs that a page under way has an intent, and   *)
(* that a stored transaction has one too.                                   *)

HasIntent(t) == tabs[t].step # "idle" => tabs[t].intent \in Ids

PendingRecorded == pending # NothingPending => pending.intent \in Ids

TypeInv == TypeOK /\ (\A t \in Tabs : HasIntent(t)) /\ PendingRecorded

LEMMA TabUpdates ==
  ASSUME TypeOK, NEW t \in Tabs
  PROVE /\ tabs[t] \in TabRecords /\ Idle \in TabRecords
        /\ \A s \in {"idle", "preparing", "asking", "broadcasting", "waiting", "reconciling"} :
             /\ [tabs EXCEPT ![t].step = s] = [tabs EXCEPT ![t] = [tabs[t] EXCEPT !.step = s]]
             /\ [tabs[t] EXCEPT !.step = s] \in TabRecords
             /\ [tabs[t] EXCEPT !.step = s].intent = tabs[t].intent
             /\ [tabs[t] EXCEPT !.step = s].hash = tabs[t].hash
             /\ [tabs[t] EXCEPT !.step = s].step = s
  BY DEF TypeOK, TabRecords, Idle

LEMMA HashUpdates ==
  ASSUME NEW r \in TabRecords, NEW h \in Hashes \cup {None}
  PROVE LET u == [r EXCEPT !.step = "broadcasting", !.hash = h]
        IN  /\ u \in TabRecords
            /\ u.step = "broadcasting" /\ u.intent = r.intent /\ u.hash = h
  BY DEF TabRecords

LEMMA HashWritten ==
  ASSUME TypeOK, NEW t \in Tabs, NEW h
  PROVE [tabs EXCEPT ![t].step = "broadcasting", ![t].hash = h] =
          [tabs EXCEPT ![t] = [tabs[t] EXCEPT !.step = "broadcasting", !.hash = h]]
  BY DEF TypeOK, TabRecords

\* A step in which one page changes, to a record that has an intent or is idle,
\* and that stores nothing new.
LEMMA OnePage ==
  ASSUME TypeInv, NEW t \in Tabs, NEW r \in TabRecords, tabs' = [tabs EXCEPT ![t] = r],
         r.step # "idle" => r.intent \in Ids
  PROVE tabs' \in [Tabs -> TabRecords] /\ \A u \in Tabs : HasIntent(u)'
  BY DEF TypeInv, TypeOK, HasIntent

LEMMA PageGoes ==
  ASSUME TypeInv, NEW t \in Tabs, tabs[t].step # "idle",
         NEW s \in {"asking", "broadcasting", "waiting", "reconciling"}, Goes(t, s)
  PROVE tabs' \in [Tabs -> TabRecords] /\ \A u \in Tabs : HasIntent(u)'
<1>1. PICK r \in TabRecords : r = [tabs[t] EXCEPT !.step = s]
  BY TabUpdates DEF TypeInv
<1>2. r.intent = tabs[t].intent /\ tabs' = [tabs EXCEPT ![t] = r]
  BY <1>1, TabUpdates DEF TypeInv, Goes
<1> QED BY <1>1, <1>2, OnePage DEF TypeInv, HasIntent

LEMMA PageStops ==
  ASSUME TypeInv, NEW t \in Tabs, Stops(t)
  PROVE tabs' \in [Tabs -> TabRecords] /\ \A u \in Tabs : HasIntent(u)'
  BY TabUpdates, OnePage DEF TypeInv, Stops, Idle

LEMMA NewTxFacts ==
  ASSUME TypeInv, NEW t \in Tabs, At(t, "asking"), Len(txs) < MaxTxs, NewTx(t)
  PROVE /\ txs' \in Seq(TxRecords) /\ Len(txs') = Len(txs) + 1 /\ Len(txs') <= MaxTxs
        /\ DOMAIN txs = 1 .. Len(txs) /\ DOMAIN txs' = 1 .. Len(txs) + 1
        /\ Len(txs) + 1 \in Hashes
        /\ txs'[Len(txs) + 1].intent = tabs[t].intent
        /\ \A h \in DOMAIN txs : txs'[h] = txs[h]
<1>1. txs \in Seq(TxRecords) /\ Len(txs) \in Nat /\ MaxTxs \in Nat /\ tabs[t].intent \in Ids
  BY WalletAssumption DEF TypeInv, TypeOK, HasIntent, At
<1>2. PICK e \in TxRecords : e = [intent |-> tabs[t].intent, result |-> "open"]
  BY <1>1 DEF TxRecords
<1>3. txs' = Append(txs, e) /\ e.intent = tabs[t].intent
  BY <1>2 DEF NewTx
<1> QED BY <1>1, <1>3 DEF Hashes

LEMMA InitTypes == Init => TypeInv
<1> SUFFICES ASSUME Init PROVE TypeInv
  OBVIOUS
<1>1. Idle \in TabRecords
  BY DEF Idle, TabRecords
<1>2. tabs \in [Tabs -> TabRecords] /\ \A t \in Tabs : HasIntent(t)
  BY <1>1 DEF Init, HasIntent, Idle
<1>3. intents \in [Ids -> IntentRecords] /\ keys \in [Operations -> Ids \cup {None}]
  BY DEF Init, IntentRecords
<1>4. txs \in Seq(TxRecords) /\ Len(txs) = 0 /\ lost \subseteq DOMAIN txs
  BY DEF Init
<1>5. used \in 0 .. MaxIntents /\ failures \in 0 .. MaxFailures /\ Len(txs) <= MaxTxs
  BY <1>4, WalletAssumption DEF Init
<1> QED BY <1>2, <1>3, <1>4, <1>5 DEF Init, TypeInv, TypeOK, PendingRecorded, NothingPending

IntentStates == {"none", "prepared", "broadcast", "confirmed", "failed", "mismatch"}

\* The backend may give one intent another state, or another hash.
LEMMA IntentUpdates ==
  ASSUME TypeInv, NEW k
  PROVE /\ Reconciled(k) => intents' \in [Ids -> IntentRecords]
        /\ \A h \in Hashes \cup {None} :
             intents' = [intents EXCEPT ![k] =
               IF @.state = "confirmed" THEN @ ELSE [state |-> "broadcast", hash |-> h]]
               => intents' \in [Ids -> IntentRecords]
        /\ intents' = [intents EXCEPT ![k].state = IF @ = "none" THEN "prepared" ELSE @]
             => intents' \in [Ids -> IntentRecords]
<1>1. \A i \in Ids : intents[i] \in IntentRecords
  BY DEF TypeInv, TypeOK
<1>2. \A j \in IntentRecords, s \in IntentStates : [j EXCEPT !.state = s] \in IntentRecords
  BY DEF IntentRecords, IntentStates
<1>3. ASSUME Reconciled(k) PROVE intents' \in [Ids -> IntentRecords]
  <2>1. PICK s : s = Outcome(k)
    OBVIOUS
  <2>2. s \in IntentStates
    BY <2>1 DEF Outcome, IntentStates
  <2>3. intents' = [intents EXCEPT ![k].state = s]
    BY <1>3, <2>1 DEF Reconciled
  <2> QED BY <1>1, <1>2, <2>2, <2>3 DEF TypeInv, TypeOK
<1>4. ASSUME NEW h \in Hashes \cup {None},
             intents' = [intents EXCEPT ![k] =
               IF @.state = "confirmed" THEN @ ELSE [state |-> "broadcast", hash |-> h]]
      PROVE  intents' \in [Ids -> IntentRecords]
  <2>1. [state |-> "broadcast", hash |-> h] \in IntentRecords
    BY DEF IntentRecords
  <2> QED BY <1>1, <1>4, <2>1 DEF TypeInv, TypeOK
<1>5. ASSUME intents' = [intents EXCEPT ![k].state = IF @ = "none" THEN "prepared" ELSE @]
      PROVE  intents' \in [Ids -> IntentRecords]
  <2>1. \A i \in Ids : intents[i].state \in IntentStates
    BY <1>1 DEF IntentRecords, IntentStates
  <2> QED BY <1>1, <1>2, <1>5, <2>1 DEF TypeInv, TypeOK, IntentStates
<1> QED BY <1>3, <1>4, <1>5

LEMMA MineFacts ==
  ASSUME TypeInv, NEW h \in DOMAIN txs, Mine(h)
  PROVE /\ txs' \in Seq(TxRecords) /\ Len(txs') = Len(txs) /\ DOMAIN txs' = DOMAIN txs
        /\ txs[h].result = "open" /\ txs'[h].result # "open"
        /\ \A g \in DOMAIN txs : /\ g # h => txs'[g] = txs[g]
                                 /\ txs'[g].intent = txs[g].intent
<1>1. txs \in Seq(TxRecords) /\ DOMAIN txs = 1 .. Len(txs) /\ txs[h] \in TxRecords
  BY DEF TypeInv, TypeOK
<1>2. PICK r \in {"ok", "mismatched", "reverted"} : txs' = [txs EXCEPT ![h].result = r]
  BY DEF Mine
<1>3. PICK e \in TxRecords : e = [txs[h] EXCEPT !.result = r]
  BY <1>1 DEF TxRecords
<1>4. e.result = r /\ e.intent = txs[h].intent
  BY <1>1, <1>3 DEF TxRecords
<1>5. txs' = [txs EXCEPT ![h] = e]
  BY <1>2, <1>3
<1>6. txs' \in Seq(TxRecords) /\ Len(txs') = Len(txs)
      /\ \A j \in 1 .. Len(txs) : txs'[j] = IF j = h THEN e ELSE txs[j]
  BY <1>1, <1>5, ExceptSeq
<1>7. txs[h].result = "open"
  BY DEF Mine
<1> QED BY <1>1, <1>4, <1>6, <1>7

LEMMA StepTypes == TypeInv /\ [Next]_vars => TypeInv'
<1> SUFFICES ASSUME TypeInv, [Next]_vars PROVE TypeInv'
  OBVIOUS
<1> DEFINE Pages == tabs' \in [Tabs -> TabRecords] /\ \A u \in Tabs : HasIntent(u)'
           Stored == /\ keys' \in [Operations -> Ids \cup {None}]
                     /\ pending' \in [intent : Ids \cup {None}, hash : Hashes \cup {None}]
                     /\ used' \in 0 .. MaxIntents /\ PendingRecorded'
           Sent == /\ txs' \in Seq(TxRecords) /\ Len(txs') <= MaxTxs
                   /\ lost' \subseteq DOMAIN txs'
           Saved == intents' \in [Ids -> IntentRecords]
           Counted == failures' \in 0 .. MaxFailures
<1>1. Pages /\ Stored /\ Sent /\ Saved /\ Counted => TypeInv'
  BY DEF TypeInv, TypeOK
<1>2. /\ UNCHANGED tabs => Pages
      /\ UNCHANGED local => Stored
      /\ UNCHANGED <<txs, lost>> => Sent
      /\ UNCHANGED intents => Saved
      /\ UNCHANGED failures => Counted
  BY DEF TypeInv, TypeOK, HasIntent, PendingRecorded, local
<1>3. \A t \in Tabs : Stops(t) => Pages
  BY PageStops
<1>4. \A t \in Tabs, s \in {"asking", "broadcasting", "waiting", "reconciling"} :
        tabs[t].step # "idle" /\ Goes(t, s) => Pages
  BY PageGoes
<1>5. pending = NothingPending \/ (pending.intent \in Ids /\ pending.hash \in Hashes \cup {None})
  BY DEF TypeInv, TypeOK, PendingRecorded
<1> HIDE DEF Pages
<1>6. ASSUME NEW t \in Tabs, NEW op \in Operations, Begin(t, op) PROVE TypeInv'
  <2>1. PICK k \in Ids : k = IF keys[op] = None THEN used + 1 ELSE keys[op]
    BY <1>6, WalletAssumption DEF Begin, TypeInv, TypeOK, Ids, None
  <2>2. keys' = [keys EXCEPT ![op] = k] /\ keys'[op] = k
    BY <1>6, <2>1 DEF Begin, TypeInv, TypeOK
  <2>3. used' \in 0 .. MaxIntents
    BY <1>6, WalletAssumption DEF Begin, TypeInv, TypeOK
  <2>4. keys' \in [Operations -> Ids \cup {None}]
    BY <2>2 DEF TypeInv, TypeOK
  <2>5. pending' = pending
    BY <1>6 DEF Begin
  <2>6. Stored
    BY <2>3, <2>4, <2>5 DEF TypeInv, TypeOK, PendingRecorded
  <2>7. PICK r \in TabRecords :
          r = [step |-> "preparing", op |-> op, intent |-> k, hash |-> None]
    BY <2>1 DEF TabRecords
  <2>8. tabs' = [tabs EXCEPT ![t] = r] /\ r.intent \in Ids
    BY <1>6, <2>2, <2>7 DEF Begin
  <2>9. Pages
    BY <2>8, OnePage DEF Pages
  <2> QED BY <1>1, <1>2, <1>6, <2>6, <2>9 DEF Begin
<1>7. ASSUME NEW t \in Tabs, Prepare(t) PROVE TypeInv'
  <2>1. Saved
    BY <1>7, IntentUpdates DEF Prepare
  <2>2. Pages
    <3>1. CASE Goes(t, "asking") \/ Stops(t)
      BY <1>3, <1>4, <1>7, <3>1 DEF Prepare, At
    <3>2. CASE /\ pending # NothingPending /\ pending.intent = tabs[t].intent
               /\ tabs' = [tabs EXCEPT ![t].step = "broadcasting", ![t].hash = pending.hash]
      <4>1. PICK r \in TabRecords : r = [tabs[t] EXCEPT !.step = "broadcasting", !.hash = pending.hash]
        BY <1>5, <3>2, TabUpdates, HashUpdates DEF TypeInv, None, NothingPending
      <4>2. tabs' = [tabs EXCEPT ![t] = r]
        BY <3>2, <4>1, HashWritten DEF TypeInv
      <4>3. r.intent = tabs[t].intent /\ tabs[t].intent \in Ids
        BY <1>5, <3>2, <4>1, TabUpdates DEF TypeInv, TabRecords
      <4> QED BY <4>2, <4>3, OnePage DEF Pages
    <3> QED BY <1>7, <3>1, <3>2 DEF Prepare
  <2> QED BY <1>1, <1>2, <1>7, <2>1, <2>2 DEF Prepare
<1>8. ASSUME NEW t \in Tabs, Send(t) PROVE TypeInv'
  <2>1. /\ At(t, "asking") /\ Len(txs) < MaxTxs /\ NewTx(t)
        /\ pending' = [intent |-> tabs[t].intent, hash |-> Len(txs) + 1]
        /\ tabs' = [tabs EXCEPT ![t].step = "broadcasting", ![t].hash = Len(txs) + 1]
        /\ UNCHANGED <<keys, used, intents, lost, failures>>
    BY <1>8 DEF Send
  <2>2. tabs[t].intent \in Ids
    BY <2>1 DEF At, TypeInv, HasIntent
  <2>3. PICK h \in Hashes : h = Len(txs) + 1
    BY <2>1, NewTxFacts
  <2>4. PICK r \in TabRecords : r = [tabs[t] EXCEPT !.step = "broadcasting", !.hash = h]
    BY TabUpdates, HashUpdates DEF TypeInv
  <2>5. r.intent = tabs[t].intent /\ tabs' = [tabs EXCEPT ![t] = r]
    <3>1. tabs[t] \in TabRecords
      BY DEF TypeInv, TypeOK
    <3>2. r.intent = tabs[t].intent
      BY <2>4, <3>1, HashUpdates
    <3>3. tabs' = [tabs EXCEPT ![t] = r]
      BY <2>1, <2>3, <2>4, HashWritten DEF TypeInv
    <3> QED BY <3>2, <3>3
  <2>6. Pages
    BY <2>2, <2>5, OnePage DEF Pages
  <2>7. Stored
    BY <2>1, <2>2, <2>3 DEF TypeInv, TypeOK, PendingRecorded
  <2>8. Sent
    BY <2>1, NewTxFacts DEF TypeInv, TypeOK
  <2> QED BY <1>1, <1>2, <2>1, <2>6, <2>7, <2>8
<1>9. ASSUME NEW t \in Tabs, SendLost(t) PROVE TypeInv'
  <2>1. At(t, "asking") /\ Len(txs) < MaxTxs /\ NewTx(t) /\ lost' = lost \cup {Len(txs) + 1}
    BY <1>9 DEF SendLost
  <2>2. Sent
    BY <2>1, NewTxFacts DEF TypeInv, TypeOK
  <2> QED BY <1>1, <1>2, <1>3, <1>9, <2>2 DEF SendLost
<1>10. ASSUME NEW t \in Tabs, SendRejected(t) \/ BroadcastRefused(t) PROVE TypeInv'
  BY <1>1, <1>2, <1>3, <1>10 DEF SendRejected, BroadcastRefused
<1>11. ASSUME NEW t \in Tabs, ResumeBegins(t) PROVE TypeInv'
  <2>1. pending.intent \in Ids /\ pending.hash \in Hashes \cup {None}
    BY <1>5, <1>11 DEF ResumeBegins
  <2>2. PICK r \in TabRecords :
          r = [step |-> "broadcasting", op |-> "resume", intent |-> pending.intent,
               hash |-> pending.hash]
    BY <2>1 DEF TabRecords
  <2>3. Pages
    BY <1>11, <2>1, <2>2, OnePage DEF ResumeBegins, Pages
  <2> QED BY <1>1, <1>2, <1>11, <2>3 DEF ResumeBegins
<1>12. ASSUME NEW t \in Tabs, Broadcast(t) PROVE TypeInv'
  <2>1. tabs[t].hash \in Hashes \cup {None}
    BY TabUpdates DEF TypeInv, TabRecords
  <2>2. Saved
    BY <1>12, <2>1, IntentUpdates DEF Broadcast
  <2>3. Pages
    BY <1>4, <1>12 DEF Broadcast, At
  <2> QED BY <1>1, <1>2, <1>12, <2>2, <2>3 DEF Broadcast
<1>13. ASSUME NEW t \in Tabs, ReceiptSeen(t) PROVE TypeInv'
  <2>1. Pages
    BY <1>3, <1>4, <1>13 DEF ReceiptSeen, At
  <2> QED BY <1>1, <1>2, <1>13, <2>1 DEF ReceiptSeen
<1>14. ASSUME NEW t \in Tabs, Reconcile(t) PROVE TypeInv'
  <2>1. Saved
    BY <1>14, IntentUpdates DEF Reconcile
  <2>2. keys' \in [Operations -> Ids \cup {None}]
    BY <1>14 DEF Reconcile, TypeInv, TypeOK
  <2>3. Stored
    BY <1>14, <2>2 DEF Reconcile, TypeInv, TypeOK, PendingRecorded, NothingPending
  <2> QED BY <1>1, <1>2, <1>3, <1>14, <2>1, <2>3 DEF Reconcile
<1>15. ASSUME NEW t \in Tabs, ReconcileRefused(t) PROVE TypeInv'
  <2>1. Saved
    BY <1>15, IntentUpdates DEF ReconcileRefused
  <2> QED BY <1>1, <1>2, <1>3, <1>15, <2>1 DEF ReconcileRefused
<1>16. ASSUME NEW t \in Tabs, Fails(t) PROVE TypeInv'
  <2>1. Saved
    BY <1>2, <1>16, IntentUpdates DEF Fails
  <2>2. Counted
    BY <1>16, WalletAssumption DEF Fails, TypeInv, TypeOK
  <2> QED BY <1>1, <1>2, <1>3, <1>16, <2>1, <2>2 DEF Fails
<1>17. ASSUME NEW h \in DOMAIN txs, Mine(h) PROVE TypeInv'
  <2>1. UNCHANGED <<tabs, local, intents, lost, failures>>
    BY <1>17 DEF Mine
  <2>2. Sent
    BY <1>17, <2>1, MineFacts DEF TypeInv, TypeOK
  <2> QED BY <1>1, <1>2, <2>1, <2>2
<1>18. CASE UNCHANGED vars
  BY <1>1, <1>2, <1>18 DEF vars, local
<1> QED
  BY <1>6, <1>7, <1>8, <1>9, <1>10, <1>11, <1>12, <1>13, <1>14, <1>15, <1>16, <1>17, <1>18
  DEF Next, TabStep

LEMMA TypeInvariant == Spec => []TypeInv
  BY InitTypes, StepTypes, PTL DEF Spec

\* Every variable keeps its type, for any number of tabs that share one
\* localStorage and any number of operations and failures.
THEOREM WalletTypes == Spec => []TypeOK
<1>1. TypeInv => TypeOK
  BY DEF TypeInv
<1> QED BY <1>1, TypeInvariant, PTL
-----------------------------------------------------------------------------
(* An open transaction can be resumed, in a browser with one such page.     *)

OneTab == \A t, u \in Tabs : t = u

\* The page asks the wallet only while nothing is stored, follows what is stored
\* from then on, and reconciles only what it has seen mined.
PageKnows(t) ==
  /\ At(t, "asking") => pending = NothingPending
  /\ tabs[t].step \in {"broadcasting", "waiting", "reconciling"} =>
       /\ pending = [intent |-> tabs[t].intent, hash |-> tabs[t].hash]
       /\ pending.hash \in DOMAIN txs
  /\ At(t, "reconciling") => txs[tabs[t].hash].result # "open"

PendingSent == pending # NothingPending => pending.hash \in DOMAIN txs

\* The inductive invariant.
ResumeInv ==
  /\ OneTab
  /\ TypeInv
  /\ \A t \in Tabs : PageKnows(t)
  /\ PendingSent
  /\ OpenIsResumable
LEMMA InitResume == OneTab /\ Init => ResumeInv
<1> SUFFICES ASSUME OneTab, Init PROVE ResumeInv
  OBVIOUS
<1>1. TypeInv
  BY InitTypes
<1>2. ASSUME NEW t \in Tabs PROVE PageKnows(t)
  BY DEF Init, PageKnows, At, Idle
<1>3. PendingSent /\ OpenIsResumable
  BY DEF Init, PendingSent, OpenIsResumable
<1> QED BY <1>1, <1>2, <1>3 DEF ResumeInv

Follows == {"broadcasting", "waiting", "reconciling"}

\* A step that changes the page alone: what is stored and what was sent stay.
LEMMA PageOnly ==
  ASSUME ResumeInv, TypeInv', NEW t \in Tabs, NEW r, tabs' = [tabs EXCEPT ![t] = r],
         UNCHANGED <<pending, txs, lost>>,
         r.step = "asking" => pending = NothingPending,
         r.step \in Follows => /\ pending = [intent |-> r.intent, hash |-> r.hash]
                               /\ pending.hash \in DOMAIN txs,
         r.step = "reconciling" => txs[r.hash].result # "open"
  PROVE ResumeInv'
<1>1. tabs'[t] = r /\ \A u \in Tabs : u = t
  BY DEF ResumeInv, OneTab, TypeInv, TypeOK
<1>2. ASSUME NEW u \in Tabs PROVE PageKnows(u)'
  BY <1>1 DEF PageKnows, At, Follows
<1>3. OneTab' /\ PendingSent' /\ OpenIsResumable'
  BY DEF ResumeInv, OneTab, PendingSent, OpenIsResumable
<1> QED BY <1>2, <1>3 DEF ResumeInv

LEMMA StopsKeeps ==
  ASSUME ResumeInv, TypeInv', NEW t \in Tabs, Stops(t), UNCHANGED <<pending, txs, lost>>
  PROVE ResumeInv'
<1>1. tabs' = [tabs EXCEPT ![t] = Idle] /\ Idle.step = "idle"
  BY DEF Stops, Idle
<1> QED BY <1>1, PageOnly DEF Follows

LEMMA PreparesKeeps ==
  ASSUME ResumeInv, TypeInv', NEW t \in Tabs, Prepare(t)
  PROVE ResumeInv'
<1>1. UNCHANGED <<pending, txs, lost>> /\ TypeInv /\ tabs[t] \in TabRecords
  BY DEF Prepare, local, ResumeInv, TypeInv, TypeOK
<1>2. CASE pending = NothingPending /\ Goes(t, "asking")
  <2>1. PICK r : r = [tabs[t] EXCEPT !.step = "asking"]
    OBVIOUS
  <2>2. r.step = "asking" /\ tabs' = [tabs EXCEPT ![t] = r]
    BY <1>1, <1>2, <2>1, TabUpdates DEF Goes, TypeInv
  <2> QED BY <1>1, <1>2, <2>2, PageOnly DEF Follows
<1>3. CASE /\ pending # NothingPending /\ pending.intent = tabs[t].intent
           /\ tabs' = [tabs EXCEPT ![t].step = "broadcasting", ![t].hash = pending.hash]
  <2>1. pending \in [intent : Ids \cup {None}, hash : Hashes \cup {None}]
    BY <1>1 DEF TypeInv, TypeOK
  <2>2. PICK r : r = [tabs[t] EXCEPT !.step = "broadcasting", !.hash = pending.hash]
    OBVIOUS
  <2>3. /\ r.step = "broadcasting" /\ r.intent = pending.intent /\ r.hash = pending.hash
        /\ tabs' = [tabs EXCEPT ![t] = r]
    <3>1. tabs' = [tabs EXCEPT ![t] = r]
      BY <1>1, <1>3, <2>2, HashWritten DEF TypeInv
    <3>2. pending.hash \in Hashes \cup {None}
      BY <2>1
    <3> QED BY <1>1, <1>3, <2>2, <3>1, <3>2, HashUpdates
  <2>4. pending = [intent |-> r.intent, hash |-> r.hash] /\ pending.hash \in DOMAIN txs
    BY <1>3, <2>1, <2>3 DEF ResumeInv, PendingSent
  <2> QED BY <1>1, <2>3, <2>4, PageOnly
<1> QED BY <1>1, <1>2, <1>3, StopsKeeps DEF Prepare

LEMMA SendKeeps ==
  ASSUME ResumeInv, TypeInv', NEW t \in Tabs, Send(t)
  PROVE ResumeInv'
<1>1. /\ At(t, "asking") /\ Len(txs) < MaxTxs /\ NewTx(t)
      /\ pending' = [intent |-> tabs[t].intent, hash |-> Len(txs) + 1]
      /\ tabs' = [tabs EXCEPT ![t].step = "broadcasting", ![t].hash = Len(txs) + 1]
      /\ lost' = lost
  BY DEF Send
<1>2. TypeInv /\ \A u \in Tabs : u = t
  BY DEF ResumeInv, OneTab
<1>3. pending = NothingPending
  BY <1>1 DEF ResumeInv, PageKnows
<1>4. \A h \in DOMAIN txs \ lost : txs[h].result # "open"
  <2>1. DOMAIN txs = 1 .. Len(txs) /\ Len(txs) \in Nat
    BY <1>2 DEF TypeInv, TypeOK
  <2>2. ASSUME NEW h \in DOMAIN txs \ lost, txs[h].result = "open" PROVE FALSE
    <3>1. pending.hash = h /\ pending.hash = 0
      BY <1>3, <2>2 DEF ResumeInv, OpenIsResumable, NothingPending, None
    <3> QED BY <2>1, <3>1
  <2> QED BY <2>2
<1>5. PICK h \in Hashes : h = Len(txs) + 1
  BY <1>1, <1>2, NewTxFacts
<1>6. /\ h \in DOMAIN txs' /\ DOMAIN txs' = DOMAIN txs \cup {h}
      /\ txs'[h].intent = tabs[t].intent
      /\ \A g \in DOMAIN txs : txs'[g] = txs[g]
  <2>1. Len(txs) \in Nat
    BY <1>2 DEF TypeInv, TypeOK
  <2>2. /\ DOMAIN txs = 1 .. Len(txs) /\ DOMAIN txs' = 1 .. Len(txs) + 1
        /\ txs'[Len(txs) + 1].intent = tabs[t].intent
        /\ \A g \in DOMAIN txs : txs'[g] = txs[g]
    BY <1>1, <1>2, NewTxFacts
  <2>3. DOMAIN txs' = DOMAIN txs \cup {h}
    BY <1>5, <2>1, <2>2
  <2> QED BY <1>5, <2>2, <2>3
<1>7. PICK r : r = [tabs[t] EXCEPT !.step = "broadcasting", !.hash = h]
  OBVIOUS
<1>8. /\ r.step = "broadcasting" /\ r.intent = tabs[t].intent /\ r.hash = h
      /\ tabs'[t] = r
  <2>1. tabs' = [tabs EXCEPT ![t] = r]
    BY <1>1, <1>2, <1>5, <1>7, HashWritten DEF TypeInv
  <2>2. tabs[t] \in TabRecords /\ tabs'[t] = r
    BY <1>2, <2>1 DEF TypeInv, TypeOK
  <2>3. r.step = "broadcasting" /\ r.intent = tabs[t].intent /\ r.hash = h
    BY <1>7, <2>2 DEF TabRecords
  <2> QED BY <2>2, <2>3
<1>9. pending' = [intent |-> r.intent, hash |-> r.hash] /\ pending'.hash = h
  BY <1>1, <1>5, <1>8
<1>10. ASSUME NEW u \in Tabs PROVE PageKnows(u)'
  BY <1>2, <1>6, <1>8, <1>9 DEF PageKnows, At
<1>11. PendingSent'
  BY <1>6, <1>9 DEF PendingSent
<1>12. OpenIsResumable'
  BY <1>1, <1>4, <1>6, <1>8, <1>9 DEF OpenIsResumable
<1> QED BY <1>10, <1>11, <1>12 DEF ResumeInv, OneTab

LEMMA SendLostKeeps ==
  ASSUME ResumeInv, TypeInv', NEW t \in Tabs, SendLost(t)
  PROVE ResumeInv'
<1>1. /\ At(t, "asking") /\ Len(txs) < MaxTxs /\ NewTx(t)
      /\ lost' = lost \cup {Len(txs) + 1} /\ pending' = pending
      /\ tabs' = [tabs EXCEPT ![t] = Idle]
  BY DEF SendLost, Stops, local
<1>2. TypeInv /\ \A u \in Tabs : u = t
  BY DEF ResumeInv, OneTab
<1>3. /\ DOMAIN txs' \ lost' \subseteq DOMAIN txs \ lost
      /\ DOMAIN txs \subseteq DOMAIN txs'
      /\ \A g \in DOMAIN txs : txs'[g] = txs[g]
  <2>1. Len(txs) \in Nat
    BY <1>2 DEF TypeInv, TypeOK
  <2> QED BY <1>1, <1>2, <2>1, NewTxFacts
<1>4. ASSUME NEW u \in Tabs PROVE PageKnows(u)'
  BY <1>1, <1>2 DEF PageKnows, At, Idle, TypeInv, TypeOK
<1>5. PendingSent' /\ OpenIsResumable'
  BY <1>1, <1>3 DEF ResumeInv, PendingSent, OpenIsResumable
<1> QED BY <1>4, <1>5 DEF ResumeInv, OneTab

LEMMA MineKeeps ==
  ASSUME ResumeInv, TypeInv', NEW h \in DOMAIN txs, Mine(h)
  PROVE ResumeInv'
<1>1. UNCHANGED <<tabs, pending, lost>>
  BY DEF Mine, local
<1>2. /\ DOMAIN txs' = DOMAIN txs /\ txs'[h].result # "open" /\ txs[h].result = "open"
      /\ \A g \in DOMAIN txs : /\ g # h => txs'[g] = txs[g]
                               /\ txs'[g].intent = txs[g].intent
  BY MineFacts DEF ResumeInv
<1>3. ASSUME NEW u \in Tabs PROVE PageKnows(u)'
  <2>1. tabs[u].step \in Follows => tabs[u].hash \in DOMAIN txs
    BY DEF ResumeInv, PageKnows, Follows
  <2> QED BY <1>1, <1>2, <2>1 DEF ResumeInv, PageKnows, At, Follows
<1>4. PendingSent' /\ OpenIsResumable'
  BY <1>1, <1>2 DEF ResumeInv, PendingSent, OpenIsResumable
<1> QED BY <1>3, <1>4 DEF ResumeInv, OneTab

LEMMA ReconcileKeeps ==
  ASSUME ResumeInv, TypeInv', NEW t \in Tabs, Reconcile(t)
  PROVE ResumeInv'
<1>1. /\ At(t, "reconciling") /\ pending' = NothingPending
      /\ UNCHANGED <<txs, lost>> /\ tabs' = [tabs EXCEPT ![t] = Idle]
  BY DEF Reconcile, Stops
<1>2. TypeInv /\ \A u \in Tabs : u = t
  BY DEF ResumeInv, OneTab
<1>3. /\ pending = [intent |-> tabs[t].intent, hash |-> tabs[t].hash]
      /\ txs[tabs[t].hash].result # "open"
  BY <1>1 DEF ResumeInv, PageKnows, At
<1>4. \A h \in DOMAIN txs \ lost : txs[h].result # "open"
  BY <1>3 DEF ResumeInv, OpenIsResumable
<1>5. ASSUME NEW u \in Tabs PROVE PageKnows(u)'
  BY <1>1, <1>2 DEF PageKnows, At, Idle, TypeInv, TypeOK
<1>6. PendingSent' /\ OpenIsResumable'
  BY <1>1, <1>4 DEF PendingSent, OpenIsResumable
<1> QED BY <1>5, <1>6 DEF ResumeInv, OneTab

\* Broadcast and ReceiptSeen move the page on, with what it follows.
LEMMA FollowsOn ==
  ASSUME ResumeInv, TypeInv', NEW t \in Tabs, tabs[t].step \in Follows,
         NEW s \in Follows, Goes(t, s), UNCHANGED <<pending, txs, lost>>,
         s = "reconciling" => txs[tabs[t].hash].result # "open"
  PROVE ResumeInv'
<1>1. PICK r : r = [tabs[t] EXCEPT !.step = s]
  OBVIOUS
<1>2. /\ tabs' = [tabs EXCEPT ![t] = r] /\ r.step = s
      /\ r.intent = tabs[t].intent /\ r.hash = tabs[t].hash
  BY <1>1, TabUpdates DEF ResumeInv, TypeInv, Goes, Follows
<1>3. /\ pending = [intent |-> r.intent, hash |-> r.hash]
      /\ pending.hash \in DOMAIN txs
  BY <1>2 DEF ResumeInv, PageKnows, Follows
<1> QED BY <1>2, <1>3, PageOnly DEF Follows

LEMMA StepResume == ResumeInv /\ [Next]_vars => ResumeInv'
<1> SUFFICES ASSUME ResumeInv, [Next]_vars PROVE ResumeInv'
  OBVIOUS
<1>1. TypeInv /\ TypeInv'
  BY StepTypes DEF ResumeInv
<1>2. ASSUME NEW t \in Tabs, NEW op \in Operations, Begin(t, op) PROVE ResumeInv'
  <2>1. PICK r : r = [step |-> "preparing", op |-> op, intent |-> keys'[op], hash |-> None]
    OBVIOUS
  <2>2. r.step = "preparing" /\ tabs' = [tabs EXCEPT ![t] = r] /\ UNCHANGED <<pending, txs, lost>>
    BY <1>2, <2>1 DEF Begin
  <2> QED BY <1>1, <2>2, PageOnly DEF Follows
<1>3. ASSUME NEW t \in Tabs, ResumeBegins(t) PROVE ResumeInv'
  <2>1. PICK r : r = [step |-> "broadcasting", op |-> "resume", intent |-> pending.intent,
                      hash |-> pending.hash]
    OBVIOUS
  <2>2. /\ r.step = "broadcasting" /\ tabs' = [tabs EXCEPT ![t] = r]
        /\ r.intent = pending.intent /\ r.hash = pending.hash
        /\ UNCHANGED <<pending, txs, lost>> /\ pending # NothingPending
    BY <1>3, <2>1 DEF ResumeBegins, local
  <2>3. pending = [intent |-> r.intent, hash |-> r.hash] /\ pending.hash \in DOMAIN txs
    BY <1>1, <2>2 DEF ResumeInv, PendingSent, TypeInv, TypeOK
  <2> QED BY <1>1, <2>2, <2>3, PageOnly
<1>4. ASSUME NEW t \in Tabs,
             \/ SendRejected(t) \/ BroadcastRefused(t)
             \/ ReconcileRefused(t) \/ Fails(t)
      PROVE  ResumeInv'
  BY <1>1, <1>4, StopsKeeps DEF SendRejected, BroadcastRefused, ReconcileRefused, Fails, local
<1>5. ASSUME NEW t \in Tabs, Broadcast(t) PROVE ResumeInv'
  BY <1>1, <1>5, FollowsOn DEF Broadcast, local, At, Follows
<1>6. ASSUME NEW t \in Tabs, ReceiptSeen(t) PROVE ResumeInv'
  BY <1>1, <1>6, FollowsOn, StopsKeeps DEF ReceiptSeen, local, At, Follows
<1>7. CASE UNCHANGED vars
  <2>1. UNCHANGED <<tabs, pending, txs, lost>>
    BY <1>7 DEF vars
  <2> QED BY <1>1, <2>1 DEF ResumeInv, OneTab, PageKnows, At, PendingSent, OpenIsResumable
<1> QED
  BY <1>1, <1>2, <1>3, <1>4, <1>5, <1>6, <1>7, PreparesKeeps, SendKeeps, SendLostKeeps,
     ReconcileKeeps, MineKeeps
  DEF Next, TabStep

\* xlayer.js:181-182: in a browser with one such page, a transaction whose hash the
\* page was given stays the one to resume until it is mined, whatever requests
\* fail and tabs close in between.  (With two tabs it does not: both find nothing
\* pending, ask the wallet, and the second to send overwrites the first's hash.)
THEOREM OpenIsResumableInOneTab == OneTab /\ Spec => []OpenIsResumable
<1>1. OneTab /\ Spec => []ResumeInv
  BY InitResume, StepResume, PTL DEF Spec
<1>2. ResumeInv => OpenIsResumable
  BY DEF ResumeInv
<1> QED BY <1>1, <1>2, PTL
=============================================================================
