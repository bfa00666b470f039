-------------------------- MODULE X402PaymentsProofs --------------------------
(***************************************************************************)
(* What TLAPS proves of the x402 seller, for every set of calls and         *)
(* authorizations and any number of blocks, crashes, lost answers and       *)
(* transactions of others: what is served is paid, the seller repeats a     *)
(* transfer only after a lost answer, without one every buyer it charged is *)
(* served by a retry, and SalePromise is kept.                              *)
(***************************************************************************)
EXTENDS X402Payments, FiniteSetTheorems, TLAPS

OneAtATime ==
  \A c, d \in Calls : calls[c].phase \in InProgress /\ calls[d].phase \in InProgress => c = d

\* What a call knows of the entry of its authorization.
CallKnows(c) ==
  LET call == calls[c]
      entry == journal[call.auth]
  IN
  /\ call.phase \in InProgress =>
       call.auth \in Authorizations /\ call.binding \in Bindings /\ ~ entry.served
  /\ call.phase \in {"recovering", "scanning", "receipt", "settling", "confirming"} =>
       entry.binding = call.binding
  /\ call.phase \in {"recovering", "scanning", "verifying", "numbering", "settling"} => entry.tx = NoTx
  /\ call.phase = "receipt" => entry.tx # NoTx
  /\ call.phase = "settling" => current = call.auth
  /\ call.phase = "confirming" => /\ call.tx \in DOMAIN txs /\ txs[call.tx].auth = call.auth
                                  /\ txs[call.tx].kind = "settlement"
  /\ call.phase = "served" => /\ call.auth \in Authorizations
                              /\ entry.served /\ entry.binding = call.binding

\* The entry names one of the seller's own broadcasts.
Recorded(a) == journal[a].tx # NoTx /\ txs[journal[a].tx].kind = "settlement"

\* What an entry says of the chain, and of the broadcasts that were recorded.
EntryKnows(a) ==
  /\ journal[a].served => /\ journal[a].tx # NoTx /\ used[a].tx = journal[a].tx
                         /\ txs[used[a].tx].kind # "diverted"
  /\ journal[a].tx # NoTx => /\ journal[a].tx \in DOMAIN txs /\ txs[journal[a].tx].auth = a
                             /\ journal[a].binding # Nothing
                             /\ \/ txs[journal[a].tx].kind = "settlement"
                                \/ used[a].tx = journal[a].tx
  /\ used[a].tx # NoTx => used[a].tx \in DOMAIN txs /\ txs[used[a].tx].auth = a
  /\ Cardinality(Broadcasts(a)) <= IF Recorded(a) THEN 1 + lost ELSE lost

\* The inductive invariant: a call that has not ended is alone, and its entry has
\* a transaction only where the call relies on it.
X402Inv ==
  /\ TypeOK
  /\ OneAtATime
  /\ \A c \in Calls : CallKnows(c)
  /\ \A a \in Authorizations : EntryKnows(a)
  /\ \A tx \in DOMAIN txs : txs[tx].state = "success" => used[txs[tx].auth].tx = tx

Phases == Finished \cup InProgress \cup {"idle"}

LEMMA InitX402 == Init => X402Inv
<1> SUFFICES ASSUME Init PROVE X402Inv
  OBVIOUS
<1>1. TypeOK
  <2>1. calls \in [Calls -> CallRecords]
    BY X402Assumption DEF Init, IdleCall, CallRecords, NoTx
  <2>2. journal \in [Authorizations -> EntryRecords]
    BY X402Assumption DEF Init, NoEntry, EntryRecords, NoTx
  <2>3. txs \in Seq(TxRecords) /\ Len(txs) <= MaxTxs
    BY X402Assumption DEF Init
  <2>4. used \in [Authorizations -> UseRecords]
    BY X402Assumption DEF Init, UseRecords, NoTx
  <2>5. height \in 1 .. MaxHeight /\ crashes \in 0 .. MaxCrashes /\ lost \in 0 .. MaxLost
    BY X402Assumption DEF Init
  <2> QED BY <2>1, <2>2, <2>3, <2>4, <2>5 DEF TypeOK, Init
<1>2. \A c \in Calls : calls[c].phase = "idle"
  BY DEF Init, IdleCall
<1>3. \A c \in Calls : CallKnows(c)
  BY <1>2 DEF CallKnows, InProgress
<1>4. OneAtATime
  BY <1>2 DEF OneAtATime, InProgress
<1>5. DOMAIN txs = {}
  BY DEF Init
<1>6. ASSUME NEW a \in Authorizations PROVE EntryKnows(a)
  <2>1. ~ journal[a].served /\ journal[a].tx = NoTx /\ used[a].tx = NoTx /\ lost = 0
    BY DEF Init, NoEntry
  <2>2. Cardinality(Broadcasts(a)) = 0
    BY <1>5, FS_EmptySet DEF Broadcasts
  <2> QED BY <2>1, <2>2 DEF EntryKnows, Recorded
<1> QED BY <1>1, <1>3, <1>4, <1>5, <1>6 DEF X402Inv

-----------------------------------------------------------------------------
\* Moves, as the assignment of a record.
LEMMA Moved ==
  ASSUME TypeOK, NEW c \in Calls, NEW p \in Phases, Moves(c, p)
  PROVE \E r \in CallRecords :
          /\ r.phase = p /\ r.auth = calls[c].auth /\ r.binding = calls[c].binding
          /\ r.tx = calls[c].tx
          /\ calls' = [calls EXCEPT ![c] = r]
<1> DEFINE r == [calls[c] EXCEPT !.phase = p]
<1>1. r \in CallRecords /\ r.phase = p /\ r.auth = calls[c].auth
      /\ r.binding = calls[c].binding /\ r.tx = calls[c].tx
  BY DEF TypeOK, CallRecords, Phases
<1>2. calls' = [calls EXCEPT ![c] = r]
  BY DEF Moves
<1> HIDE DEF r
<1> QED BY <1>1, <1>2

-----------------------------------------------------------------------------
(* What the steps of one call have in common.                               *)

Alone(c) == \A d \in Calls : d # c => calls[d].phase \notin InProgress

\* The entries that were served keep what the served calls rely on.
ServedKept ==
  \A a \in Authorizations :
    journal[a].served => journal'[a].served /\ journal'[a].binding = journal[a].binding

LEMMA AloneInProgress ==
  ASSUME X402Inv, NEW c \in Calls, calls[c].phase \in InProgress
  PROVE Alone(c)
  BY DEF Alone, X402Inv, OneAtATime

\* The other calls have ended, so that a step of c leaves what they know.
LEMMA OthersKept ==
  ASSUME X402Inv, NEW c \in Calls, Alone(c), NEW r \in CallRecords,
         calls' = [calls EXCEPT ![c] = r], ServedKept, CallKnows(c)'
  PROVE /\ calls' \in [Calls -> CallRecords]
        /\ OneAtATime'
        /\ \A d \in Calls : CallKnows(d)'
<1>1. calls' \in [Calls -> CallRecords] /\ \A d \in Calls : d # c => calls'[d] = calls[d]
  BY DEF X402Inv, TypeOK
<1>2. OneAtATime'
  BY <1>1 DEF OneAtATime, Alone
<1>3. ASSUME NEW d \in Calls, d # c PROVE CallKnows(d)'
  <2>1. calls'[d] = calls[d] /\ calls[d].phase \notin InProgress
    BY <1>1, <1>3 DEF Alone
  <2>2. CallKnows(d)
    BY DEF X402Inv
  <2> QED BY <2>1, <2>2 DEF CallKnows, ServedKept, InProgress
<1> QED BY <1>1, <1>2, <1>3

LEMMA BroadcastsFinite ==
  ASSUME X402Inv, NEW a \in Authorizations
  PROVE /\ IsFiniteSet(Broadcasts(a)) /\ Cardinality(Broadcasts(a)) \in Nat
        /\ lost \in Nat /\ Len(txs) \in Nat /\ DOMAIN txs = 1 .. Len(txs)
<1>1. lost \in Nat /\ Len(txs) \in Nat /\ DOMAIN txs = 1 .. Len(txs)
  BY DEF X402Inv, TypeOK
<1>2. IsFiniteSet(DOMAIN txs)
  BY <1>1, FS_Interval
<1>3. IsFiniteSet(Broadcasts(a))
  BY <1>2, FS_Subset DEF Broadcasts
<1> QED BY <1>1, <1>3, FS_CardinalityType

\* A step that writes a call and this.current, and nothing else.
LEMMA CallOnly ==
  ASSUME X402Inv, NEW c \in Calls, Alone(c), NEW r \in CallRecords,
         calls' = [calls EXCEPT ![c] = r], CallKnows(c)',
         UNCHANGED <<journal, chain, crashes, lost>>, current' \in Authorizations \cup {Nothing}
  PROVE X402Inv'
<1>0. UNCHANGED <<journal, txs, used, height, crashes, lost>>
  BY DEF chain
<1>1. ServedKept
  BY <1>0 DEF ServedKept
<1>2. calls' \in [Calls -> CallRecords] /\ OneAtATime' /\ \A d \in Calls : CallKnows(d)'
  BY <1>1, OthersKept
<1>3. TypeOK'
  BY <1>0, <1>2 DEF X402Inv, TypeOK
<1>4. \A a \in Authorizations : EntryKnows(a)'
  BY <1>0 DEF X402Inv, EntryKnows, Recorded, Broadcasts
<1> QED BY <1>0, <1>2, <1>3, <1>4 DEF X402Inv

\* A step that writes a call and the entry of an authorization.
LEMMA CallAndEntry ==
  ASSUME X402Inv, NEW c \in Calls, Alone(c), NEW r \in CallRecords,
         calls' = [calls EXCEPT ![c] = r], CallKnows(c)',
         NEW a \in Authorizations, NEW e \in EntryRecords,
         journal' = [journal EXCEPT ![a] = e], EntryKnows(a)',
         journal[a].served => e.served /\ e.binding = journal[a].binding,
         UNCHANGED <<chain, crashes, lost>>, current' \in Authorizations \cup {Nothing}
  PROVE X402Inv'
<1>0. UNCHANGED <<txs, used, height, crashes, lost>>
  BY DEF chain
<1>1. /\ journal' \in [Authorizations -> EntryRecords] /\ journal'[a] = e
      /\ \A b \in Authorizations : b # a => journal'[b] = journal[b]
  BY DEF X402Inv, TypeOK
<1>2. ServedKept
  BY <1>1 DEF ServedKept
<1>3. calls' \in [Calls -> CallRecords] /\ OneAtATime' /\ \A d \in Calls : CallKnows(d)'
  BY <1>2, OthersKept
<1>4. TypeOK'
  BY <1>0, <1>1, <1>3 DEF X402Inv, TypeOK
<1>5. ASSUME NEW b \in Authorizations, b # a PROVE EntryKnows(b)'
  <2>1. journal'[b] = journal[b] /\ EntryKnows(b)
    BY <1>1, <1>5 DEF X402Inv
  <2> QED BY <1>0, <2>1 DEF EntryKnows, Recorded, Broadcasts
<1>6. \A b \in Authorizations : EntryKnows(b)'
  BY <1>5
<1>7. (\A tx \in DOMAIN txs : txs[tx].state = "success" => used[txs[tx].auth].tx = tx)'
  BY <1>0 DEF X402Inv
<1> QED BY <1>3, <1>4, <1>6, <1>7 DEF X402Inv

\* Where a call in progress stands.
LEMMA InProgressKnows ==
  ASSUME X402Inv, NEW c \in Calls, calls[c].phase \in InProgress
  PROVE /\ Alone(c) /\ CallKnows(c)
        /\ calls[c] \in CallRecords
        /\ calls[c].auth \in Authorizations /\ calls[c].binding \in Bindings
        /\ journal[calls[c].auth] \in EntryRecords /\ ~ journal[calls[c].auth].served
        /\ EntryKnows(calls[c].auth)
<1>1. CallKnows(c) /\ TypeOK
  BY DEF X402Inv
<1>2. calls[c].auth \in Authorizations /\ calls[c].binding \in Bindings
      /\ ~ journal[calls[c].auth].served
  BY <1>1 DEF CallKnows
<1> QED BY <1>1, <1>2, AloneInProgress DEF X402Inv, TypeOK

-----------------------------------------------------------------------------
(* One lemma for each action.                                               *)

LEMMA StartStep ==
  ASSUME X402Inv, NEW c \in Calls, NEW a \in Authorizations, NEW binding \in Bindings,
         Start(c, a, binding)
  PROVE X402Inv'
<1> DEFINE r == [phase |-> AfterEntry(a, binding), auth |-> a, binding |-> binding,
                 head |-> 0, tx |-> NoTx]
<1>1. /\ calls' = [calls EXCEPT ![c] = r]
      /\ UNCHANGED <<journal, current, chain, crashes, lost>>
  BY DEF Start
<1>2. Alone(c)
  BY DEF Start, Serial, Alone
<1>3. AfterEntry(a, binding) \in {"error", "served", "receipt", "verifying", "recovering"}
  BY DEF AfterEntry
<1>4. r \in CallRecords
  BY <1>3, X402Assumption DEF CallRecords, NoTx, Finished, InProgress
<1>5. calls'[c] = r
  BY <1>1 DEF X402Inv, TypeOK
<1>6. CallKnows(c)'
  <2>1. r.phase = AfterEntry(a, binding) /\ r.auth = a /\ r.binding = binding
    OBVIOUS
  <2> HIDE DEF r
  <2>2. journal' = journal /\ binding # Nothing
    BY <1>1, X402Assumption
  <2>3. r.phase \in InProgress => ~ journal[a].served
    BY <2>1 DEF AfterEntry, InProgress
  <2>4. r.phase = "served" => journal[a].served /\ journal[a].binding \in {binding, Nothing}
    BY <2>1 DEF AfterEntry
  <2>5. journal[a].served => journal[a].binding # Nothing
    BY DEF X402Inv, EntryKnows
  <2>6. r.phase = "receipt" => journal[a].tx # NoTx /\ journal[a].binding \in {binding, Nothing}
    BY <2>1 DEF AfterEntry
  <2>7. journal[a].tx # NoTx => journal[a].binding # Nothing
    BY DEF X402Inv, EntryKnows
  <2>8. r.phase \in {"verifying", "recovering"} => journal[a].tx = NoTx
    BY <2>1 DEF AfterEntry
  <2>9. r.phase = "recovering" => journal[a].binding = binding
    BY <2>1 DEF AfterEntry
  <2> QED BY <1>3, <1>5, <2>1, <2>2, <2>3, <2>4, <2>5, <2>6, <2>7, <2>8, <2>9 DEF CallKnows
<1> HIDE DEF r
<1>7. current' \in Authorizations \cup {Nothing}
  BY <1>1 DEF X402Inv, TypeOK
<1> QED BY <1>1, <1>2, <1>4, <1>6, <1>7, CallOnly

\* A call that ends without an answer to serve.
LEMMA EndsStep ==
  ASSUME X402Inv, NEW c \in Calls, calls[c].phase \in InProgress,
         NEW p \in {"error", "refused", "pending"}, Moves(c, p),
         UNCHANGED <<journal, chain, crashes, lost>>, current' \in {current, Nothing}
  PROVE X402Inv'
<1>1. PICK r \in CallRecords : r.phase = p /\ calls' = [calls EXCEPT ![c] = r]
  BY Moved DEF X402Inv, Phases, Finished
<1>2. calls'[c] = r
  BY <1>1 DEF X402Inv, TypeOK
<1>3. CallKnows(c)'
  BY <1>1, <1>2 DEF CallKnows, InProgress
<1>4. current' \in Authorizations \cup {Nothing}
  BY DEF X402Inv, TypeOK
<1> QED BY <1>1, <1>3, <1>4, AloneInProgress, CallOnly

LEMMA ReadFailsStep == ASSUME X402Inv, NEW c \in Calls, ReadFails(c) PROVE X402Inv'
  BY EndsStep DEF ReadFails, InProgress

LEMMA NotVerifiedStep == ASSUME X402Inv, NEW c \in Calls, NotVerified(c) PROVE X402Inv'
  BY EndsStep DEF NotVerified, InProgress

LEMMA SettleRefusedStep == ASSUME X402Inv, NEW c \in Calls, SettleRefused(c) PROVE X402Inv'
  BY EndsStep DEF SettleRefused, InProgress

LEMMA NotConfirmedStep == ASSUME X402Inv, NEW c \in Calls, NotConfirmed(c) PROVE X402Inv'
  BY EndsStep DEF NotConfirmed, InProgress

LEMMA ReadHeadStep ==
  ASSUME X402Inv, NEW c \in Calls, ReadHead(c)
  PROVE X402Inv'
<1> DEFINE r == [calls[c] EXCEPT !.phase = "scanning", !.head = height]
<1>1. /\ calls[c].phase = "recovering"
      /\ calls' = [calls EXCEPT ![c].phase = "scanning", ![c].head = height]
      /\ UNCHANGED <<journal, current, chain, crashes, lost>>
  BY DEF ReadHead
<1>2. /\ Alone(c) /\ CallKnows(c) /\ calls[c] \in CallRecords
      /\ calls[c].auth \in Authorizations /\ calls[c].binding \in Bindings
  BY <1>1, InProgressKnows DEF InProgress
<1>3. height \in 0 .. MaxHeight
  BY X402Assumption DEF X402Inv, TypeOK
<1>4. r \in CallRecords /\ r.phase = "scanning" /\ r.auth = calls[c].auth
      /\ r.binding = calls[c].binding
  BY <1>2, <1>3 DEF CallRecords, InProgress
<1>5. calls' = [calls EXCEPT ![c] = r]
  BY <1>1 DEF X402Inv, TypeOK
<1> HIDE DEF r
<1>6. calls'[c] = r
  BY <1>5 DEF X402Inv, TypeOK
<1>7. CallKnows(c)'
  BY <1>1, <1>2, <1>4, <1>6 DEF CallKnows, InProgress
<1>8. current' \in Authorizations \cup {Nothing}
  BY <1>1 DEF X402Inv, TypeOK
<1> QED BY <1>1, <1>2, <1>4, <1>5, <1>7, <1>8, CallOnly

LEMMA VerifiedStep ==
  ASSUME X402Inv, NEW c \in Calls, Verified(c)
  PROVE X402Inv'
<1>1. /\ calls[c].phase = "verifying" /\ Moves(c, "numbering")
      /\ UNCHANGED <<journal, current, chain, crashes, lost>>
  BY DEF Verified
<1>2. /\ Alone(c) /\ CallKnows(c)
      /\ calls[c].auth \in Authorizations /\ calls[c].binding \in Bindings
  BY <1>1, InProgressKnows DEF InProgress
<1>3. PICK r \in CallRecords : /\ r.phase = "numbering" /\ r.auth = calls[c].auth
                               /\ r.binding = calls[c].binding
                               /\ calls' = [calls EXCEPT ![c] = r]
  BY <1>1, Moved DEF X402Inv, Phases, InProgress
<1>4. calls'[c] = r
  BY <1>3 DEF X402Inv, TypeOK
<1>5. CallKnows(c)'
  BY <1>1, <1>2, <1>3, <1>4 DEF CallKnows, InProgress
<1>6. current' \in Authorizations \cup {Nothing}
  BY <1>1 DEF X402Inv, TypeOK
<1> QED BY <1>1, <1>2, <1>3, <1>5, <1>6, CallOnly

LEMMA ScanLogsStep ==
  ASSUME X402Inv, NEW c \in Calls, NEW a \in Authorizations, a = calls[c].auth, ScanLogs(c)
  PROVE X402Inv'
<1> DEFINE found == /\ used[a].tx # NoTx
                    /\ used[a].block \in journal[a].block .. calls[c].head
           e == [journal[a] EXCEPT !.tx = used[a].tx]
<1>1. /\ calls[c].phase = "scanning" /\ Moves(c, IF found THEN "receipt" ELSE "verifying")
      /\ journal' = IF found THEN [journal EXCEPT ![a].tx = used[a].tx] ELSE journal
      /\ UNCHANGED <<current, chain, crashes, lost>>
  BY DEF ScanLogs
<1>2. /\ Alone(c) /\ CallKnows(c) /\ a \in Authorizations /\ calls[c].binding \in Bindings
      /\ journal[a] \in EntryRecords /\ ~ journal[a].served /\ EntryKnows(a)
  BY <1>1, InProgressKnows DEF InProgress
<1>3. /\ journal[a].binding = calls[c].binding /\ journal[a].tx = NoTx
  BY <1>1, <1>2 DEF CallKnows
<1>4. current' \in Authorizations \cup {Nothing}
  BY <1>1 DEF X402Inv, TypeOK
<1>5. CASE found
  <2>1. PICK r \in CallRecords : /\ r.phase = "receipt" /\ r.auth = a
                                 /\ r.binding = calls[c].binding
                                 /\ calls' = [calls EXCEPT ![c] = r]
    BY <1>1, <1>5, Moved DEF X402Inv, Phases, InProgress
  <2>2. used[a].tx \in TxIds /\ used[a].tx \in DOMAIN txs /\ txs[used[a].tx].auth = a
        /\ used[a].tx # NoTx
    BY <1>2, <1>5 DEF X402Inv, TypeOK, UseRecords, EntryKnows
  <2>3. /\ e \in EntryRecords /\ e.tx = used[a].tx /\ e.binding = calls[c].binding
        /\ ~ e.served
    BY <1>2, <1>3, <2>2 DEF EntryRecords
  <2>4. journal' = [journal EXCEPT ![a] = e]
    BY <1>1, <1>5
  <2>5. txs' = txs /\ used' = used /\ lost' = lost
    BY <1>1 DEF chain
  <2> HIDE DEF e, found
  <2>6. calls'[c] = r /\ journal'[a] = e
    BY <1>2, <2>1, <2>4 DEF X402Inv, TypeOK
  <2>7. CallKnows(c)'
    BY <1>2, <2>1, <2>2, <2>3, <2>6 DEF CallKnows, InProgress
  <2>8. EntryKnows(a)'
    <3>1. Cardinality(Broadcasts(a)) <= lost
      BY <1>2, <1>3 DEF EntryKnows, Recorded
    <3>2. Broadcasts(a)' = Broadcasts(a)
      BY <2>5 DEF Broadcasts
    <3>3. Cardinality(Broadcasts(a)') <= lost /\ Cardinality(Broadcasts(a)') <= 1 + lost
      BY <3>1, <3>2, BroadcastsFinite
    <3>4. e.binding # Nothing
      BY <1>2, <2>3, X402Assumption
    <3> QED BY <1>2, <2>2, <2>3, <2>5, <2>6, <3>3, <3>4 DEF EntryKnows
  <2> QED BY <1>1, <1>2, <1>4, <2>1, <2>3, <2>4, <2>7, <2>8, CallAndEntry
<1>6. CASE ~ found
  <2>1. PICK r \in CallRecords : /\ r.phase = "verifying" /\ r.auth = a
                                 /\ r.binding = calls[c].binding
                                 /\ calls' = [calls EXCEPT ![c] = r]
    BY <1>1, <1>6, Moved DEF X402Inv, Phases, InProgress
  <2>2. journal' = journal
    BY <1>1, <1>6
  <2>3. calls'[c] = r
    BY <2>1 DEF X402Inv, TypeOK
  <2>4. CallKnows(c)'
    BY <1>2, <1>3, <2>1, <2>2, <2>3 DEF CallKnows, InProgress
  <2> QED BY <1>1, <1>2, <1>4, <2>1, <2>2, <2>4, CallOnly
<1> QED BY <1>5, <1>6

LEMMA ReceiptSucceededStep ==
  ASSUME X402Inv, NEW c \in Calls, NEW a \in Authorizations, a = calls[c].auth,
         NEW t, \/ calls[c].phase = "receipt" /\ t = journal[a].tx
                \/ calls[c].phase = "confirming" /\ t = calls[c].tx,
         t \in DOMAIN txs, txs[t].state = "success", txs[t].auth = a,
         txs[t].kind # "diverted", Finish(c, t),
         UNCHANGED <<chain, crashes, lost>>, current' \in {current, Nothing}
  PROVE X402Inv'
<1> DEFINE e == [journal[a] EXCEPT !.tx = t, !.served = TRUE]
<1>1. /\ Alone(c) /\ CallKnows(c) /\ calls[c].binding \in Bindings
      /\ journal[a] \in EntryRecords /\ ~ journal[a].served /\ EntryKnows(a)
  BY InProgressKnows DEF InProgress
<1>2. journal[a].binding = calls[c].binding
  BY DEF CallKnows, X402Inv
<1>3. t \in TxIds /\ t # NoTx
  BY X402Assumption, BroadcastsFinite DEF X402Inv, TypeOK, TxIds, NoTx
<1>4. e \in EntryRecords /\ e.tx = t /\ e.binding = calls[c].binding /\ e.served
  BY <1>1, <1>2, <1>3 DEF EntryRecords
<1>5. journal' = [journal EXCEPT ![a] = e] /\ Moves(c, "served")
  BY DEF Finish, X402Inv, TypeOK
<1>6. PICK r \in CallRecords : /\ r.phase = "served" /\ r.auth = a
                               /\ r.binding = calls[c].binding
                               /\ calls' = [calls EXCEPT ![c] = r]
  BY <1>5, Moved DEF X402Inv, Phases, Finished
<1> HIDE DEF e
<1>7. calls'[c] = r /\ journal'[a] = e
  BY <1>5, <1>6 DEF X402Inv, TypeOK
<1>8. CallKnows(c)'
  BY <1>4, <1>6, <1>7 DEF CallKnows, InProgress
<1>9. EntryKnows(a)'
  <2>1. txs' = txs /\ used' = used /\ lost' = lost
    BY DEF chain
  <2>2. used[a].tx = t
    BY DEF X402Inv
  <2>3. Broadcasts(a)' = Broadcasts(a)
    BY <2>1 DEF Broadcasts
  <2>4. Cardinality(Broadcasts(a)') <= IF Recorded(a)' THEN 1 + lost ELSE lost
    <3>1. CASE calls[c].phase = "receipt"
      <4>1. t = journal[a].tx
        BY <3>1
      <4> QED BY <1>1, <1>4, <1>7, <2>1, <2>3, <4>1 DEF EntryKnows, Recorded
    <3>2. CASE calls[c].phase = "confirming"
      <4>1. txs[t].kind = "settlement"
        BY <1>1, <3>2 DEF CallKnows
      <4>2. Recorded(a)'
        BY <1>3, <1>4, <1>7, <2>1, <4>1 DEF Recorded
      <4>3. Cardinality(Broadcasts(a)) <= 1 + lost
        BY <1>1, BroadcastsFinite DEF EntryKnows
      <4> QED BY <2>3, <4>2, <4>3
    <3> QED BY <3>1, <3>2
  <2>5. calls[c].binding # Nothing
    BY <1>1, X402Assumption
  <2> QED BY <1>3, <1>4, <1>7, <2>1, <2>2, <2>4, <2>5 DEF EntryKnows
<1>10. current' \in Authorizations \cup {Nothing}
  BY DEF X402Inv, TypeOK
<1> QED BY <1>1, <1>4, <1>5, <1>6, <1>8, <1>9, <1>10, CallAndEntry

LEMMA ReceiptRevertedStep ==
  ASSUME X402Inv, NEW c \in Calls, NEW a \in Authorizations, a = calls[c].auth,
         ReceiptReverted(c)
  PROVE X402Inv'
<1> DEFINE e == [journal[a] EXCEPT !.failed = TRUE]
<1>1. /\ calls[c].phase = "receipt" /\ Moves(c, "refused")
      /\ journal' = [journal EXCEPT ![a].failed = TRUE]
      /\ UNCHANGED <<current, chain, crashes, lost>>
  BY DEF ReceiptReverted
<1>2. Alone(c) /\ journal[a] \in EntryRecords /\ ~ journal[a].served /\ EntryKnows(a)
  BY <1>1, InProgressKnows DEF InProgress
<1>3. /\ e \in EntryRecords /\ e.tx = journal[a].tx /\ e.binding = journal[a].binding
      /\ e.served = journal[a].served
  BY <1>2 DEF EntryRecords
<1>4. journal' = [journal EXCEPT ![a] = e]
  BY <1>1
<1>5. PICK r \in CallRecords : r.phase = "refused" /\ calls' = [calls EXCEPT ![c] = r]
  BY <1>1, Moved DEF X402Inv, Phases, Finished
<1> HIDE DEF e
<1>6. calls'[c] = r /\ journal'[a] = e
  BY <1>4, <1>5 DEF X402Inv, TypeOK
<1>7. CallKnows(c)'
  BY <1>5, <1>6 DEF CallKnows, InProgress
<1>8. EntryKnows(a)'
  <2>1. txs' = txs /\ used' = used /\ lost' = lost
    BY <1>1 DEF chain
  <2> QED BY <1>2, <1>3, <1>6, <2>1 DEF EntryKnows, Recorded, Broadcasts
<1>9. current' \in Authorizations \cup {Nothing}
  BY <1>1 DEF X402Inv, TypeOK
<1> QED BY <1>1, <1>2, <1>3, <1>4, <1>5, <1>7, <1>8, <1>9, CallAndEntry

LEMMA JournalStep ==
  ASSUME X402Inv, NEW c \in Calls, NEW a \in Authorizations, a = calls[c].auth, Journal(c)
  PROVE X402Inv'
<1> DEFINE e == [NoEntry EXCEPT !.binding = calls[c].binding, !.block = height]
<1>1. /\ calls[c].phase = "numbering" /\ Moves(c, "settling") /\ current' = a
      /\ journal' = [journal EXCEPT ![a] = e]
      /\ UNCHANGED <<chain, crashes, lost>>
  BY DEF Journal
<1>2. /\ Alone(c) /\ CallKnows(c) /\ calls[c].binding \in Bindings
      /\ journal[a] \in EntryRecords /\ ~ journal[a].served /\ EntryKnows(a)
  BY <1>1, InProgressKnows DEF InProgress
<1>3. /\ e \in EntryRecords /\ e.tx = NoTx /\ e.binding = calls[c].binding /\ ~ e.served
  <2>1. height \in 0 .. MaxHeight
    BY X402Assumption DEF X402Inv, TypeOK
  <2> QED BY <1>2, <2>1 DEF EntryRecords, NoEntry
<1>4. PICK r \in CallRecords : /\ r.phase = "settling" /\ r.auth = a
                               /\ r.binding = calls[c].binding
                               /\ calls' = [calls EXCEPT ![c] = r]
  BY <1>1, Moved DEF X402Inv, Phases, InProgress
<1> HIDE DEF e
<1>5. calls'[c] = r /\ journal'[a] = e
  BY <1>1, <1>4 DEF X402Inv, TypeOK
<1>6. CallKnows(c)'
  BY <1>1, <1>2, <1>3, <1>4, <1>5 DEF CallKnows, InProgress
<1>7. EntryKnows(a)'
  <2>1. txs' = txs /\ used' = used /\ lost' = lost
    BY <1>1 DEF chain
  <2>2. journal[a].tx = NoTx
    BY <1>1, <1>2 DEF CallKnows
  <2>3. Cardinality(Broadcasts(a)) <= lost /\ Broadcasts(a)' = Broadcasts(a)
    BY <1>2, <2>1, <2>2 DEF EntryKnows, Recorded, Broadcasts
  <2> QED BY <1>2, <1>3, <1>5, <2>1, <2>3 DEF EntryKnows, Recorded
<1> QED BY <1>1, <1>2, <1>3, <1>4, <1>6, <1>7, CallAndEntry

-----------------------------------------------------------------------------
(* A broadcast appends a transaction; its answer arrives or is lost.        *)

LEMMA AppendFacts ==
  ASSUME X402Inv, NEW a \in Authorizations, NEW kind \in Kinds, Len(txs) < MaxTxs,
         txs' = Append(txs, [auth |-> a, kind |-> kind, state |-> "pending"])
  PROVE LET n == Len(txs) + 1 IN
        /\ n \in TxIds /\ n # NoTx /\ n \notin DOMAIN txs
        /\ txs' \in Seq(TxRecords) /\ Len(txs') <= MaxTxs
        /\ DOMAIN txs' = DOMAIN txs \cup {n}
        /\ txs'[n].auth = a /\ txs'[n].kind = kind /\ txs'[n].state = "pending"
        /\ \A t \in DOMAIN txs : txs'[t] = txs[t]
        /\ kind = "settlement" =>
             Cardinality(Broadcasts(a))' = Cardinality(Broadcasts(a)) + 1
        /\ \A b \in Authorizations :
             b # a \/ kind # "settlement" => Broadcasts(b)' = Broadcasts(b)
<1> DEFINE n == Len(txs) + 1
           new == [auth |-> a, kind |-> kind, state |-> "pending"]
<1>1. txs' = Append(txs, new)
  OBVIOUS
<1>2. new \in TxRecords /\ new.auth = a /\ new.kind = kind /\ new.state = "pending"
  BY DEF TxRecords
<1>3. Len(txs) \in Nat /\ DOMAIN txs = 1 .. Len(txs) /\ txs \in Seq(TxRecords)
  BY DEF X402Inv, TypeOK
<1> HIDE DEF new
<1>4. /\ txs' \in Seq(TxRecords) /\ Len(txs') = n /\ DOMAIN txs' = 1 .. n
      /\ txs'[n] = new /\ \A t \in DOMAIN txs : txs'[t] = txs[t]
  BY <1>1, <1>2, <1>3
<1>5. /\ n \in TxIds /\ n # NoTx /\ n \notin DOMAIN txs /\ n <= MaxTxs
      /\ DOMAIN txs' = DOMAIN txs \cup {n}
  BY <1>1, <1>3, <1>4, X402Assumption DEF TxIds, NoTx
<1> HIDE DEF n
<1>6. ASSUME kind = "settlement"
      PROVE Cardinality(Broadcasts(a))' = Cardinality(Broadcasts(a)) + 1
  <2>1. Broadcasts(a)' = Broadcasts(a) \cup {n} /\ n \notin Broadcasts(a)
    BY <1>2, <1>4, <1>5, <1>6 DEF Broadcasts
  <2>2. Cardinality(Broadcasts(a) \cup {n}) = Cardinality(Broadcasts(a)) + 1
    BY <2>1, BroadcastsFinite, FS_AddElement
  <2> QED BY <2>1, <2>2
<1>7. \A b \in Authorizations : b # a \/ kind # "settlement" => Broadcasts(b)' = Broadcasts(b)
  BY <1>2, <1>4, <1>5 DEF Broadcasts
<1> QED BY <1>2, <1>4, <1>5, <1>6, <1>7 DEF n

LEMMA SendFacts ==
  ASSUME X402Inv, NEW c \in Calls, NEW a \in Authorizations, a = calls[c].auth, Send(c)
  PROVE LET n == Len(txs) + 1 IN
        /\ n \in TxIds /\ n # NoTx /\ n \notin DOMAIN txs
        /\ txs' \in Seq(TxRecords) /\ Len(txs') <= MaxTxs
        /\ DOMAIN txs' = DOMAIN txs \cup {n}
        /\ txs'[n].auth = a /\ txs'[n].kind = "settlement" /\ txs'[n].state = "pending"
        /\ \A t \in DOMAIN txs : txs'[t] = txs[t]
        /\ Cardinality(Broadcasts(a))' = Cardinality(Broadcasts(a)) + 1
        /\ \A b \in Authorizations : b # a => Broadcasts(b)' = Broadcasts(b)
<1>1. "settlement" \in Kinds
  BY DEF Kinds
<1> QED BY <1>1, AppendFacts DEF Send

\* What the entries of the other authorizations, and the effective transfers, keep.
LEMMA SentKeeps ==
  ASSUME X402Inv, NEW c \in Calls, NEW a \in Authorizations, a = calls[c].auth, Send(c),
         used' = used, lost' \in {lost, lost + 1}
  PROVE /\ \A b \in Authorizations : b # a /\ journal'[b] = journal[b] => EntryKnows(b)'
        /\ (\A tx \in DOMAIN txs : txs[tx].state = "success" => used[txs[tx].auth].tx = tx)'
<1>1. ASSUME NEW b \in Authorizations, b # a, journal'[b] = journal[b] PROVE EntryKnows(b)'
  <2>1. EntryKnows(b)
    BY DEF X402Inv
  <2>2. Broadcasts(b)' = Broadcasts(b) /\ DOMAIN txs \subseteq DOMAIN txs'
        /\ \A t \in DOMAIN txs : txs'[t] = txs[t]
    BY <1>1, SendFacts
  <2>3. Recorded(b)' <=> Recorded(b)
    BY <1>1, <2>1, <2>2 DEF EntryKnows, Recorded
  <2>4. Cardinality(Broadcasts(b)') <= IF Recorded(b)' THEN 1 + lost' ELSE lost'
    BY <1>1, <2>1, <2>2, <2>3, BroadcastsFinite DEF EntryKnows
  <2> QED BY <1>1, <2>1, <2>2, <2>4 DEF EntryKnows
<1>2. ASSUME NEW tx \in DOMAIN txs', txs'[tx].state = "success"
      PROVE used'[txs'[tx].auth].tx = tx
  <2>1. tx \in DOMAIN txs /\ txs'[tx] = txs[tx]
    BY <1>2, SendFacts
  <2> QED BY <1>2, <2>1 DEF X402Inv
<1> QED BY <1>1, <1>2

LEMMA BroadcastStep ==
  ASSUME X402Inv, NEW c \in Calls, NEW a \in Authorizations, a = calls[c].auth, Broadcast(c)
  PROVE X402Inv'
<1> DEFINE n == Len(txs) + 1
           e == [journal[a] EXCEPT !.tx = n]
           r == [calls[c] EXCEPT !.phase = "confirming", !.tx = n]
<1>1. /\ calls[c].phase = "settling" /\ Send(c) /\ Confirming(c)
      /\ UNCHANGED <<current, used, height, crashes, lost>>
  BY DEF Broadcast
<1>2. /\ Alone(c) /\ CallKnows(c) /\ calls[c] \in CallRecords /\ calls[c].binding \in Bindings
      /\ journal[a] \in EntryRecords /\ ~ journal[a].served /\ EntryKnows(a)
  BY <1>1, InProgressKnows DEF InProgress
<1>3. current = a /\ journal[a].binding = calls[c].binding /\ journal[a].tx = NoTx
  BY <1>1, <1>2 DEF CallKnows
<1>4. journal' = [journal EXCEPT ![a] = e]
  BY <1>3, X402Assumption DEF Broadcast
<1>5. n \in TxIds /\ n # NoTx /\ n \in DOMAIN txs' /\ txs'[n].auth = a
      /\ txs'[n].kind = "settlement"
      /\ \A t \in DOMAIN txs : t \in DOMAIN txs' /\ txs'[t] = txs[t]
  BY <1>1, SendFacts
<1>6. calls' = [calls EXCEPT ![c] = r]
  BY <1>1 DEF Confirming, X402Inv, TypeOK
<1> HIDE DEF n
<1>7. /\ e \in EntryRecords /\ e.tx = n /\ e.binding = calls[c].binding /\ ~ e.served
  BY <1>2, <1>3, <1>5 DEF EntryRecords
<1>8. /\ r \in CallRecords /\ r.phase = "confirming" /\ r.auth = a /\ r.tx = n
      /\ r.binding = calls[c].binding
  BY <1>2, <1>5 DEF CallRecords, InProgress
<1> HIDE DEF e, r
<1>9. /\ calls'[c] = r /\ journal'[a] = e /\ journal' \in [Authorizations -> EntryRecords]
      /\ \A b \in Authorizations : b # a => journal'[b] = journal[b]
  BY <1>4, <1>6, <1>7 DEF X402Inv, TypeOK
<1>10. ServedKept
  BY <1>2, <1>9 DEF ServedKept
<1>11. CallKnows(c)'
  BY <1>2, <1>5, <1>7, <1>8, <1>9 DEF CallKnows, InProgress
<1>12. calls' \in [Calls -> CallRecords] /\ OneAtATime' /\ \A d \in Calls : CallKnows(d)'
  BY <1>2, <1>6, <1>8, <1>10, <1>11, OthersKept
<1>13. TypeOK'
  BY <1>1, <1>9, <1>12, SendFacts DEF X402Inv, TypeOK
<1>14. EntryKnows(a)'
  <2>1. Cardinality(Broadcasts(a)) <= lost /\ lost' = lost /\ used' = used
    BY <1>1, <1>2, <1>3 DEF EntryKnows, Recorded
  <2>2. Cardinality(Broadcasts(a))' = Cardinality(Broadcasts(a)) + 1
    BY <1>1, SendFacts
  <2>3. Cardinality(Broadcasts(a))' <= 1 + lost'
    BY <2>1, <2>2, BroadcastsFinite
  <2>4. calls[c].binding # Nothing
    BY <1>2, X402Assumption
  <2>5. used[a].tx # NoTx => used[a].tx \in DOMAIN txs' /\ txs'[used[a].tx].auth = a
    BY <1>2, <1>5 DEF EntryKnows
  <2> QED BY <1>5, <1>7, <1>9, <2>1, <2>3, <2>4, <2>5 DEF EntryKnows, Recorded
<1>15. ASSUME NEW b \in Authorizations PROVE EntryKnows(b)'
  BY <1>1, <1>9, <1>14, SentKeeps
<1> QED BY <1>1, <1>12, <1>13, <1>15, SentKeeps DEF X402Inv

LEMMA BroadcastLostStep ==
  ASSUME X402Inv, NEW c \in Calls, NEW a \in Authorizations, a = calls[c].auth,
         BroadcastLost(c)
  PROVE X402Inv'
<1>1. /\ calls[c].phase = "settling" /\ Send(c) /\ Moves(c, "error") /\ current' = Nothing
      /\ lost < MaxLost /\ lost' = lost + 1
      /\ UNCHANGED <<journal, used, height, crashes>>
  BY DEF BroadcastLost
<1>2. Alone(c) /\ EntryKnows(a) /\ CallKnows(c)
  BY <1>1, InProgressKnows DEF InProgress
<1>3. PICK r \in CallRecords : r.phase = "error" /\ calls' = [calls EXCEPT ![c] = r]
  BY <1>1, Moved DEF X402Inv, Phases, Finished
<1>4. calls'[c] = r
  BY <1>3 DEF X402Inv, TypeOK
<1>5. ServedKept
  BY <1>1 DEF ServedKept
<1>6. CallKnows(c)'
  BY <1>3, <1>4 DEF CallKnows, InProgress
<1>7. calls' \in [Calls -> CallRecords] /\ OneAtATime' /\ \A d \in Calls : CallKnows(d)'
  BY <1>2, <1>3, <1>5, <1>6, OthersKept
<1>8. lost \in Nat /\ lost' \in 0 .. MaxLost
  BY <1>1, X402Assumption DEF X402Inv, TypeOK
<1>9. TypeOK'
  BY <1>1, <1>7, <1>8, SendFacts DEF X402Inv, TypeOK
<1>10. EntryKnows(a)'
  <2>1. \A t \in DOMAIN txs : t \in DOMAIN txs' /\ txs'[t] = txs[t]
    BY <1>1, SendFacts
  <2>2. journal[a].tx = NoTx
    BY <1>1, <1>2 DEF CallKnows
  <2>3. Cardinality(Broadcasts(a))' = Cardinality(Broadcasts(a)) + 1
        /\ Cardinality(Broadcasts(a)) <= lost
    BY <1>1, <1>2, <2>2, SendFacts DEF EntryKnows, Recorded
  <2>4. Cardinality(Broadcasts(a))' <= lost'
    BY <1>1, <1>8, <2>3, BroadcastsFinite
  <2> QED BY <1>1, <1>2, <2>1, <2>2, <2>4 DEF EntryKnows, Recorded
<1>11. ASSUME NEW b \in Authorizations PROVE EntryKnows(b)'
  BY <1>1, <1>10, SentKeeps
<1> QED BY <1>1, <1>7, <1>9, <1>11, SentKeeps DEF X402Inv

-----------------------------------------------------------------------------
(* The process and the chain.                                               *)

LEMMA CrashStep == ASSUME X402Inv, Crash PROVE X402Inv'
<1>1. /\ crashes < MaxCrashes /\ crashes' = crashes + 1 /\ current' = Nothing
      /\ calls' = [c \in Calls |-> IF calls[c].phase \in InProgress
                                   THEN [calls[c] EXCEPT !.phase = "lost"] ELSE calls[c]]
      /\ UNCHANGED <<journal, txs, used, height, lost>>
  BY DEF Crash, chain
<1>2. ASSUME NEW c \in Calls
      PROVE /\ calls'[c] \in CallRecords /\ calls'[c].phase \notin InProgress
            /\ calls'[c] = calls[c] \/ calls'[c].phase = "lost"
  <2>1. calls[c] \in CallRecords
    BY DEF X402Inv, TypeOK
  <2>2. CASE calls[c].phase \in InProgress
    <3>1. calls'[c] = [calls[c] EXCEPT !.phase = "lost"]
      BY <1>1, <2>2
    <3> QED BY <2>1, <3>1 DEF CallRecords, Finished, InProgress
  <2>3. CASE calls[c].phase \notin InProgress
    BY <1>1, <2>1, <2>3
  <2> QED BY <2>2, <2>3
<1>3. TypeOK'
  <2>1. calls' \in [Calls -> CallRecords]
    BY <1>1, <1>2
  <2>2. crashes' \in 0 .. MaxCrashes
    BY <1>1, X402Assumption DEF X402Inv, TypeOK
  <2> QED BY <1>1, <2>1, <2>2 DEF X402Inv, TypeOK
<1>4. OneAtATime'
  BY <1>2 DEF OneAtATime
<1>5. ASSUME NEW c \in Calls PROVE CallKnows(c)'
  <2>1. CASE calls'[c].phase = "lost"
    BY <2>1 DEF CallKnows, InProgress
  <2>2. CASE calls'[c] = calls[c]
    <3>1. calls[c].phase \notin InProgress /\ CallKnows(c)
      BY <1>2, <2>2 DEF X402Inv
    <3> QED BY <1>1, <2>2, <3>1 DEF CallKnows, InProgress
  <2> QED BY <1>2, <2>1, <2>2
<1>6. \A a \in Authorizations : EntryKnows(a)'
  BY <1>1 DEF X402Inv, EntryKnows, Recorded, Broadcasts
<1> QED BY <1>1, <1>3, <1>4, <1>5, <1>6 DEF X402Inv

LEMMA MineStep == ASSUME X402Inv, NEW tx \in DOMAIN txs, Mine(tx) PROVE X402Inv'
<1>1. PICK a : a = txs[tx].auth
  OBVIOUS
<1>2. /\ height < MaxHeight /\ txs[tx].state = "pending" /\ height' = height + 1
      /\ UNCHANGED <<calls, journal, current, crashes, lost>>
  BY DEF Mine
<1>3. /\ txs \in Seq(TxRecords) /\ txs[tx] \in TxRecords /\ a \in Authorizations
      /\ tx \in TxIds /\ tx # NoTx /\ height + 1 \in 1 .. MaxHeight
  <2>1. txs \in Seq(TxRecords) /\ txs[tx] \in TxRecords
    BY DEF X402Inv, TypeOK
  <2>2. tx \in TxIds /\ tx # NoTx
    BY BroadcastsFinite, X402Assumption DEF X402Inv, TypeOK, TxIds, NoTx
  <2>3. height + 1 \in 1 .. MaxHeight
    BY <1>2, X402Assumption DEF X402Inv, TypeOK
  <2> QED BY <1>1, <2>1, <2>2, <2>3 DEF TxRecords
<1>4. PICK r \in TxRecords :
        /\ r.auth = a /\ r.kind = txs[tx].kind /\ txs' = [txs EXCEPT ![tx] = r]
        /\ \/ /\ r.state = "success" /\ used[a].tx = NoTx
              /\ used' = [used EXCEPT ![a] = [tx |-> tx, block |-> height + 1]]
           \/ r.state = "reverted" /\ used' = used
  <2>1. /\ [txs[tx] EXCEPT !.state = "success"] \in TxRecords
        /\ [txs[tx] EXCEPT !.state = "success"].auth = a
        /\ [txs[tx] EXCEPT !.state = "success"].kind = txs[tx].kind
        /\ [txs[tx] EXCEPT !.state = "success"].state = "success"
        /\ [txs[tx] EXCEPT !.state = "reverted"] \in TxRecords
        /\ [txs[tx] EXCEPT !.state = "reverted"].auth = a
        /\ [txs[tx] EXCEPT !.state = "reverted"].kind = txs[tx].kind
        /\ [txs[tx] EXCEPT !.state = "reverted"].state = "reverted"
    BY <1>1, <1>3 DEF TxRecords
  <2>2. CASE /\ used[a].tx = NoTx /\ txs' = [txs EXCEPT ![tx].state = "success"]
             /\ used' = [used EXCEPT ![a] = [tx |-> tx, block |-> height + 1]]
    <3>1. txs' = [txs EXCEPT ![tx] = [txs[tx] EXCEPT !.state = "success"]]
      BY <2>2
    <3> QED BY <2>1, <2>2, <3>1
  <2>3. CASE txs' = [txs EXCEPT ![tx].state = "reverted"] /\ used' = used
    <3>1. txs' = [txs EXCEPT ![tx] = [txs[tx] EXCEPT !.state = "reverted"]]
      BY <2>3
    <3> QED BY <2>1, <2>3, <3>1
  <2> QED BY <1>1, <2>2, <2>3 DEF Mine
<1>5. /\ txs' \in Seq(TxRecords) /\ Len(txs') = Len(txs) /\ DOMAIN txs' = DOMAIN txs
      /\ txs'[tx] = r /\ \A t \in DOMAIN txs : t # tx => txs'[t] = txs[t]
  BY <1>3, <1>4
<1>6. \A t \in DOMAIN txs : txs'[t].auth = txs[t].auth /\ txs'[t].kind = txs[t].kind
  BY <1>1, <1>4, <1>5
<1>7. used' \in [Authorizations -> UseRecords]
  <2>1. [tx |-> tx, block |-> height + 1] \in UseRecords
    BY <1>3, X402Assumption DEF UseRecords
  <2> QED BY <1>3, <1>4, <2>1 DEF X402Inv, TypeOK
<1>8. TypeOK'
  BY <1>2, <1>3, <1>5, <1>7 DEF X402Inv, TypeOK
<1>9. \A b \in Authorizations : used[b].tx # NoTx => used'[b] = used[b]
  BY <1>4 DEF X402Inv, TypeOK
<1>10. \A b \in Authorizations :
         used'[b] = used[b] \/ (b = a /\ used'[b].tx = tx /\ r.state = "success" /\ used[b].tx = NoTx)
  BY <1>4 DEF X402Inv, TypeOK
<1>11. OneAtATime'
  BY <1>2 DEF X402Inv, OneAtATime
<1>12. ASSUME NEW c \in Calls PROVE CallKnows(c)'
  BY <1>2, <1>5, <1>6 DEF X402Inv, CallKnows
<1>13. ASSUME NEW b \in Authorizations PROVE EntryKnows(b)'
  <2>1. EntryKnows(b)
    BY DEF X402Inv
  <2>2. Broadcasts(b)' = Broadcasts(b)
    BY <1>5, <1>6 DEF Broadcasts
  <2>3. journal[b].served => /\ journal[b].tx # NoTx /\ used'[b].tx = journal[b].tx
                             /\ txs'[used'[b].tx].kind # "diverted"
    BY <1>6, <1>9, <2>1 DEF EntryKnows
  <2>4. used'[b].tx # NoTx => used'[b].tx \in DOMAIN txs' /\ txs'[used'[b].tx].auth = b
    BY <1>1, <1>5, <1>6, <1>10, <2>1 DEF EntryKnows
  <2>5. Recorded(b)' <=> Recorded(b)
    BY <1>2, <1>6, <2>1 DEF EntryKnows, Recorded
  <2>6. journal[b].tx # NoTx => \/ txs'[journal[b].tx].kind = "settlement"
                                \/ used'[b].tx = journal[b].tx
    BY <1>6, <1>9, <2>1 DEF EntryKnows
  <2> QED BY <1>2, <1>5, <1>6, <2>1, <2>2, <2>3, <2>4, <2>5, <2>6 DEF EntryKnows
<1>14. ASSUME NEW t \in DOMAIN txs', txs'[t].state = "success"
       PROVE used'[txs'[t].auth].tx = t
  <2>1. CASE t = tx
    <3>1. used' = [used EXCEPT ![a] = [tx |-> tx, block |-> height + 1]]
      BY <1>4, <1>5, <1>14, <2>1
    <3>2. used'[a] = [tx |-> tx, block |-> height + 1]
      BY <1>3, <3>1 DEF X402Inv, TypeOK
    <3> QED BY <1>4, <1>5, <2>1, <3>2
  <2>2. CASE t # tx
    <3>1. t \in DOMAIN txs /\ txs'[t] = txs[t]
      BY <1>5, <1>14, <2>2
    <3>2. used[txs[t].auth].tx = t /\ t # NoTx /\ txs[t].auth \in Authorizations
      <4>1. t \in Nat \ {0}
        BY <3>1, BroadcastsFinite
      <4>2. txs[t] \in TxRecords
        BY <1>3, <3>1
      <4> QED BY <1>14, <3>1, <4>1, <4>2 DEF X402Inv, TxRecords, NoTx
    <3> QED BY <1>9, <3>1, <3>2
  <2> QED BY <2>1, <2>2
<1> QED BY <1>8, <1>11, <1>12, <1>13, <1>14 DEF X402Inv

\* Somebody else's transaction is pending: no entry, call or use knows of it yet.
LEMMA UseOutsideStep ==
  ASSUME X402Inv, NEW a \in Authorizations, NEW kind \in Kinds \ {"settlement"},
         UseOutside(a, kind)
  PROVE X402Inv'
<1>1. /\ Len(txs) < MaxTxs
      /\ txs' = Append(txs, [auth |-> a, kind |-> kind, state |-> "pending"])
      /\ UNCHANGED <<calls, journal, current, used, height, crashes, lost>>
  BY DEF UseOutside
<1>2. /\ txs' \in Seq(TxRecords) /\ Len(txs') <= MaxTxs
      /\ \A t \in DOMAIN txs : t \in DOMAIN txs' /\ txs'[t] = txs[t]
      /\ \A b \in Authorizations : Broadcasts(b)' = Broadcasts(b)
      /\ \A t \in DOMAIN txs' : t \in DOMAIN txs \/ txs'[t].state = "pending"
  BY <1>1, AppendFacts
<1>3. TypeOK'
  BY <1>1, <1>2 DEF X402Inv, TypeOK
<1>4. OneAtATime'
  BY <1>1 DEF X402Inv, OneAtATime
<1>5. ASSUME NEW c \in Calls PROVE CallKnows(c)'
  BY <1>1, <1>2 DEF X402Inv, CallKnows
<1>6. ASSUME NEW b \in Authorizations PROVE EntryKnows(b)'
  <2>1. EntryKnows(b)
    BY DEF X402Inv
  <2>2. journal[b].served => used[b].tx \in DOMAIN txs
    BY <2>1 DEF EntryKnows
  <2> QED BY <1>1, <1>2, <2>1, <2>2 DEF EntryKnows, Recorded
<1>7. (\A t \in DOMAIN txs : txs[t].state = "success" => used[txs[t].auth].tx = t)'
  BY <1>1, <1>2 DEF X402Inv
<1> QED BY <1>3, <1>4, <1>5, <1>6, <1>7 DEF X402Inv

-----------------------------------------------------------------------------
(* The inductive invariant, and what follows from it.                       *)

LEMMA CallStepKept ==
  ASSUME X402Inv, NEW c \in Calls, CallStep(c)
  PROVE X402Inv'
<1>1. CASE ReadHead(c)
  BY <1>1, ReadHeadStep
<1>2. CASE ReadFails(c)
  BY <1>2, ReadFailsStep
<1>3. CASE Verified(c)
  BY <1>3, VerifiedStep
<1>4. CASE NotVerified(c)
  BY <1>4, NotVerifiedStep
<1>5. CASE SettleRefused(c)
  BY <1>5, SettleRefusedStep
<1>6. CASE NotConfirmed(c)
  BY <1>6, NotConfirmedStep
<1>7. CASE \/ ScanLogs(c) \/ ReceiptSucceeded(c) \/ ReceiptReverted(c) \/ Journal(c)
           \/ Broadcast(c) \/ BroadcastLost(c) \/ Confirmed(c)
  <2>1. calls[c].phase \in InProgress
    BY <1>7 DEF ScanLogs, ReceiptSucceeded, ReceiptReverted, Journal, Broadcast,
                BroadcastLost, Confirmed, InProgress
  <2>2. PICK a \in Authorizations : a = calls[c].auth
    BY <2>1, InProgressKnows
  <2>3. CASE ScanLogs(c)
    BY <2>2, <2>3, ScanLogsStep
  <2>4. CASE ReceiptReverted(c)
    BY <2>2, <2>4, ReceiptRevertedStep
  <2>5. CASE Journal(c)
    BY <2>2, <2>5, JournalStep
  <2>6. CASE Broadcast(c)
    BY <2>2, <2>6, BroadcastStep
  <2>7. CASE BroadcastLost(c)
    BY <2>2, <2>7, BroadcastLostStep
  <2>8. CASE ReceiptSucceeded(c)
    <3>1. PICK t : t = journal[a].tx
      OBVIOUS
    <3>2. /\ calls[c].phase = "receipt" /\ txs[t].state = "success" /\ txs[t].auth = a
          /\ txs[t].kind # "diverted"
          /\ Finish(c, t) /\ current' = current /\ UNCHANGED <<chain, crashes, lost>>
      BY <2>2, <2>8, <3>1 DEF ReceiptSucceeded
    <3>3. t \in DOMAIN txs
      BY <2>2, <3>1, <3>2 DEF X402Inv, CallKnows, EntryKnows
    <3> QED BY <2>2, <3>1, <3>2, <3>3, ReceiptSucceededStep
  <2>9. CASE Confirmed(c)
    <3>1. PICK t : t = calls[c].tx
      OBVIOUS
    <3>2. /\ calls[c].phase = "confirming" /\ txs[t].state = "success"
          /\ Finish(c, t) /\ current' = Nothing /\ UNCHANGED <<chain, crashes, lost>>
      BY <2>9, <3>1 DEF Confirmed
    <3>3. t \in DOMAIN txs /\ txs[t].auth = a /\ txs[t].kind # "diverted"
      BY <2>2, <3>1, <3>2 DEF X402Inv, CallKnows
    <3> QED BY <2>2, <3>1, <3>2, <3>3, ReceiptSucceededStep
  <2> QED BY <1>7, <2>3, <2>4, <2>5, <2>6, <2>7, <2>8, <2>9
<1> QED BY <1>1, <1>2, <1>3, <1>4, <1>5, <1>6, <1>7 DEF CallStep

LEMMA X402InvKept == X402Inv /\ [Next]_vars => X402Inv'
<1> SUFFICES ASSUME X402Inv, [Next]_vars PROVE X402Inv'
  OBVIOUS
<1>1. ASSUME NEW c \in Calls, NEW a \in Authorizations, NEW binding \in Bindings,
             Start(c, a, binding)
      PROVE X402Inv'
  BY <1>1, StartStep
<1>2. ASSUME NEW c \in Calls, CallStep(c) PROVE X402Inv'
  BY <1>2, CallStepKept
<1>3. CASE Crash
  BY <1>3, CrashStep
<1>4. ASSUME NEW tx \in DOMAIN txs, Mine(tx) PROVE X402Inv'
  BY <1>4, MineStep
<1>5. CASE UNCHANGED vars
  BY <1>5 DEF vars, X402Inv, TypeOK, OneAtATime, CallKnows, EntryKnows, Recorded, Broadcasts
<1>6. ASSUME NEW a \in Authorizations, NEW kind \in Kinds \ {"settlement"}, UseOutside(a, kind)
      PROVE X402Inv'
  BY <1>6, UseOutsideStep
<1> QED BY <1>1, <1>2, <1>3, <1>4, <1>5, <1>6 DEF Next

LEMMA X402InvAlways == Spec => []X402Inv
  BY InitX402, X402InvKept, PTL DEF Spec

\* Every variable keeps its type: the calls of server.mjs, payments.json and the
\* facilitator's transactions.
THEOREM X402Types == Spec => []TypeOK
<1>1. X402Inv => TypeOK
  BY DEF X402Inv
<1> QED BY <1>1, X402InvAlways, PTL

\* A request is served only against a mined transfer, for the request and signature
\* its authorization was first presented with (payments.mjs, call).
THEOREM ServedIsPaidAlways == Spec => []ServedIsPaid
<1>1. ASSUME X402Inv, NEW a \in Authorizations, journal[a].served
      PROVE Paid(a) /\ used[a].tx = journal[a].tx
  <2>1. EntryKnows(a) /\ used[a].tx \in DOMAIN txs
    BY <1>1 DEF X402Inv, EntryKnows
  <2>2. txs[used[a].tx] \in TxRecords
    <3>1. txs \in Seq(TxRecords)
      BY <1>1 DEF X402Inv, TypeOK
    <3> QED BY <2>1, <3>1
  <2> QED BY <1>1, <2>1, <2>2 DEF EntryKnows, Paid, UsedBy, TxRecords
<1>2. X402Inv => ServedIsPaid
  BY <1>1 DEF X402Inv, CallKnows, ServedIsPaid
<1> QED BY <1>2, X402InvAlways, PTL

\* this.current never attributes a transaction to another authorization, and a
\* restart or a retry repeats a transfer only if an answer was lost.
THEOREM BroadcastsJournalledAlways == Spec => []BroadcastsJournalled
<1>1. ASSUME X402Inv PROVE BroadcastsJournalled
  <2>1. ASSUME NEW a \in Authorizations
        PROVE /\ journal[a].tx # NoTx => txs[journal[a].tx].auth = a
              /\ Cardinality(Broadcasts(a)) <= 1 + lost
    <3>1. EntryKnows(a)
      BY <1>1 DEF X402Inv
    <3>2. Cardinality(Broadcasts(a)) \in Nat /\ lost \in Nat
      BY <1>1, BroadcastsFinite
    <3> QED BY <3>1, <3>2 DEF EntryKnows
  <2> QED BY <2>1 DEF BroadcastsJournalled, Broadcasts
<1> QED BY <1>1, X402InvAlways, PTL

\* While no answer to a broadcast was lost, the entry of every buyer whom the seller's
\* own transfer charged names that transfer, so that a retry is served (payments.mjs,
\* call), even if others send transactions with the buyer's authorizations.
THEOREM RecoverableAlways == Spec => []RecoverableIfAnswered
<1>1. ASSUME X402Inv, lost = 0, NEW a \in Authorizations, UsedBy(a, {"settlement"})
      PROVE journal[a].binding # Nothing /\ journal[a].tx = used[a].tx
  <2>1. /\ EntryKnows(a) /\ IsFiniteSet(Broadcasts(a)) /\ used[a].tx # NoTx
        /\ txs[used[a].tx].kind = "settlement"
    BY <1>1, BroadcastsFinite DEF X402Inv, UsedBy
  <2>2. used[a].tx \in Broadcasts(a)
    BY <1>1, <2>1 DEF EntryKnows, Broadcasts
  <2>3. Cardinality(Broadcasts(a)) # 0 /\ Cardinality(Broadcasts(a)) \in Nat
    BY <2>1, <2>2, FS_EmptySet, FS_CardinalityType, <1>1, BroadcastsFinite
  <2>4. journal[a].tx # NoTx /\ Cardinality(Broadcasts(a)) = 1
    BY <1>1, <2>1, <2>3 DEF EntryKnows, Recorded
  <2>5. journal[a].tx \in Broadcasts(a) /\ journal[a].binding # Nothing
    BY <1>1, <2>1, <2>3 DEF EntryKnows, Recorded, Broadcasts
  <2>6. PICK x : Broadcasts(a) = {x}
    BY <2>1, <2>4, FS_Singleton
  <2> QED BY <2>2, <2>5, <2>6
<1>2. X402Inv => RecoverableIfAnswered
  BY <1>1 DEF RecoverableIfAnswered, Recoverable
<1> QED BY <1>2, X402InvAlways, PTL

-----------------------------------------------------------------------------
(* The sale: the seller implements SalePromise.                             *)

\* A request that is about to be written in an entry is the one the entry names
\* already, if it names one, and the seller broadcasts a transfer for an entry only.
SaleInv ==
  /\ X402Inv
  /\ \A c \in Calls :
       calls[c].phase \in {"verifying", "numbering"} =>
         journal[calls[c].auth].binding \in {Nothing, calls[c].binding}
  /\ \A tx \in DOMAIN txs :
       txs[tx].kind = "settlement" => journal[txs[tx].auth].binding # Nothing

LEMMA SaleInvInit == Init => SaleInv
<1> SUFFICES ASSUME Init PROVE SaleInv
  OBVIOUS
<1>1. \A c \in Calls : calls[c].phase = "idle"
  BY DEF Init, IdleCall
<1>2. DOMAIN txs = {}
  BY DEF Init
<1> QED BY <1>1, <1>2, InitX402 DEF SaleInv

\* The steps of a call that sell nothing, and those that answer it with a good.
Quiet(c) ==
  \/ ReadHead(c) \/ ScanLogs(c) \/ ReadFails(c) \/ ReceiptReverted(c) \/ Verified(c)
  \/ NotVerified(c) \/ SettleRefused(c) \/ Broadcast(c) \/ BroadcastLost(c) \/ NotConfirmed(c)

Serving(c) == ReceiptSucceeded(c) \/ Confirmed(c)

LEMMA QuietEntries ==
  ASSUME X402Inv, NEW c \in Calls, Quiet(c), NEW b \in Authorizations
  PROVE  journal'[b].binding = journal[b].binding /\ journal'[b].served = journal[b].served
<1>1. journal \in [Authorizations -> EntryRecords] /\ current \in Authorizations \cup {Nothing}
  BY DEF X402Inv, TypeOK
<1>2. ASSUME NEW x, NEW v, journal' = [journal EXCEPT ![x].tx = v]
      PROVE journal'[b].binding = journal[b].binding /\ journal'[b].served = journal[b].served
  BY <1>1, <1>2 DEF EntryRecords
<1>3. ASSUME NEW x, NEW v, journal' = [journal EXCEPT ![x].failed = v]
      PROVE journal'[b].binding = journal[b].binding /\ journal'[b].served = journal[b].served
  BY <1>1, <1>3 DEF EntryRecords
<1>4. \/ journal' = journal
      \/ \E x, v : journal' = [journal EXCEPT ![x].tx = v]
      \/ \E x, v : journal' = [journal EXCEPT ![x].failed = v]
  <2>1. CASE ScanLogs(c) \/ Broadcast(c)
    BY <2>1 DEF ScanLogs, Broadcast
  <2>2. CASE ReceiptReverted(c)
    BY <2>2 DEF ReceiptReverted
  <2>3. CASE \/ ReadHead(c) \/ ReadFails(c) \/ Verified(c) \/ NotVerified(c)
             \/ SettleRefused(c) \/ BroadcastLost(c) \/ NotConfirmed(c)
    BY <2>3 DEF ReadHead, ReadFails, Verified, NotVerified, SettleRefused, BroadcastLost,
       NotConfirmed
  <2> QED BY <2>1, <2>2, <2>3 DEF Quiet
<1> QED BY <1>2, <1>3, <1>4

LEMMA QuietCalls ==
  ASSUME X402Inv, NEW c \in Calls, Quiet(c)
  PROVE  /\ calls[c].phase \in InProgress
         /\ \A d \in Calls : d # c => calls'[d] = calls[d]
         /\ calls'[c].auth = calls[c].auth /\ calls'[c].binding = calls[c].binding
         /\ calls'[c].phase # "served"
         /\ calls'[c].phase \in {"verifying", "numbering"} =>
              calls[c].phase \in {"verifying", "scanning"}
<1>1. calls[c].phase \in InProgress
  BY DEF Quiet, ReadHead, ScanLogs, ReadFails, ReceiptReverted, Verified, NotVerified,
     SettleRefused, Broadcast, BroadcastLost, NotConfirmed, InProgress
<1>2. calls \in [Calls -> CallRecords] /\ calls[c] \in CallRecords
  BY DEF X402Inv, TypeOK
<1>3. CASE ReadHead(c)
  <2>1. PICK r : r = [calls[c] EXCEPT !.phase = "scanning", !.head = height]
    OBVIOUS
  <2>2. r.phase = "scanning" /\ r.auth = calls[c].auth /\ r.binding = calls[c].binding
    BY <1>2, <2>1 DEF CallRecords
  <2>3. calls' = [calls EXCEPT ![c] = r]
    BY <1>2, <1>3, <2>1 DEF ReadHead
  <2> QED BY <1>1, <1>2, <2>2, <2>3
<1>4. CASE Broadcast(c)
  <2>1. PICK r : r = [calls[c] EXCEPT !.phase = "confirming", !.tx = Len(txs) + 1]
    OBVIOUS
  <2>2. r.phase = "confirming" /\ r.auth = calls[c].auth /\ r.binding = calls[c].binding
    BY <1>2, <2>1 DEF CallRecords
  <2>3. calls' = [calls EXCEPT ![c] = r]
    BY <1>2, <1>4, <2>1 DEF Broadcast, Confirming
  <2> QED BY <1>1, <1>2, <2>2, <2>3
<1>5. ASSUME NEW p \in Phases \ {"served"}, Moves(c, p),
             p \in {"verifying", "numbering"} => calls[c].phase \in {"verifying", "scanning"}
      PROVE /\ \A d \in Calls : d # c => calls'[d] = calls[d]
            /\ calls'[c].auth = calls[c].auth /\ calls'[c].binding = calls[c].binding
            /\ calls'[c].phase = p
  <2>1. PICK r \in CallRecords : /\ r.phase = p /\ r.auth = calls[c].auth
                                 /\ r.binding = calls[c].binding /\ calls' = [calls EXCEPT ![c] = r]
    BY <1>5, Moved DEF X402Inv
  <2> QED BY <1>2, <2>1
<1>6. CASE ScanLogs(c)
  <2>1. calls[c].phase = "scanning" /\ (Moves(c, "receipt") \/ Moves(c, "verifying"))
    BY <1>6 DEF ScanLogs
  <2> QED BY <1>1, <1>5, <2>1 DEF Phases, InProgress
<1>7. CASE Verified(c)
  <2>1. calls[c].phase = "verifying" /\ Moves(c, "numbering")
    BY <1>7 DEF Verified
  <2> QED BY <1>1, <1>5, <2>1 DEF Phases, InProgress
<1>8. CASE \/ ReadFails(c) \/ ReceiptReverted(c) \/ NotVerified(c) \/ SettleRefused(c)
           \/ BroadcastLost(c) \/ NotConfirmed(c)
  <2>1. \E p \in {"error", "refused", "pending"} : Moves(c, p)
    BY <1>8 DEF ReadFails, ReceiptReverted, NotVerified, SettleRefused, BroadcastLost,
       NotConfirmed
  <2> QED BY <1>1, <1>5, <2>1 DEF Phases, Finished
<1> QED BY <1>3, <1>4, <1>6, <1>7, <1>8 DEF Quiet

\* The payment of a call that is served succeeded.
LEMMA ServingFacts ==
  ASSUME X402Inv, NEW c \in Calls, Serving(c)
  PROVE  /\ calls[c].phase \in InProgress
         /\ calls'[c].phase = "served"
         /\ calls'[c].auth = calls[c].auth /\ calls'[c].binding = calls[c].binding
         /\ \A d \in Calls : d # c => calls'[d] = calls[d]
         /\ journal[calls[c].auth].binding = calls[c].binding
         /\ \A b \in Authorizations :
              /\ journal'[b].binding = journal[b].binding
              /\ journal'[b].served <=> journal[b].served \/ b = calls[c].auth
         /\ used[calls[c].auth].tx # NoTx
         /\ txs[used[calls[c].auth].tx].kind # "diverted"
         /\ \/ txs[used[calls[c].auth].tx].kind = "settlement"
            \/ journal[calls[c].auth].tx = used[calls[c].auth].tx
         /\ \A b \in Authorizations :
              \/ journal'[b].tx = journal[b].tx
              \/ txs[used[b].tx].kind = "settlement"
         /\ UNCHANGED <<txs, used>>
<1>1. /\ calls[c].phase \in {"receipt", "confirming"} /\ UNCHANGED <<txs, used>>
      /\ \E t : /\ Finish(c, t) /\ txs[t].state = "success"
                /\ \/ calls[c].phase = "receipt" /\ t = journal[calls[c].auth].tx
                                                 /\ txs[t].auth = calls[c].auth
                                                 /\ txs[t].kind # "diverted"
                   \/ calls[c].phase = "confirming" /\ t = calls[c].tx
  BY DEF Serving, ReceiptSucceeded, Confirmed, chain
<1>2. PICK t : /\ Finish(c, t) /\ txs[t].state = "success"
               /\ \/ calls[c].phase = "receipt" /\ t = journal[calls[c].auth].tx
                                                /\ txs[t].auth = calls[c].auth
                                                /\ txs[t].kind # "diverted"
                  \/ calls[c].phase = "confirming" /\ t = calls[c].tx
  BY <1>1
<1>3. PICK a : a = calls[c].auth
  OBVIOUS
<1>4. /\ calls[c].phase \in InProgress /\ a \in Authorizations /\ CallKnows(c) /\ EntryKnows(a)
      /\ journal[a] \in EntryRecords /\ journal[a].binding = calls[c].binding
  <2>1. calls[c].phase \in InProgress
    BY <1>1 DEF InProgress
  <2>2. a \in Authorizations /\ CallKnows(c) /\ EntryKnows(a) /\ journal[a] \in EntryRecords
    BY <1>3, <2>1, InProgressKnows
  <2> QED BY <1>1, <1>3, <2>1, <2>2 DEF CallKnows
<1>5. /\ used[a].tx # NoTx /\ used[a].tx = t
      /\ txs[t].kind # "diverted" /\ (txs[t].kind = "settlement" \/ t = journal[a].tx)
  <2>1. /\ t \in DOMAIN txs /\ txs[t].auth = a /\ txs[t].kind # "diverted"
        /\ txs[t].kind = "settlement" \/ t = journal[a].tx
    BY <1>2, <1>3, <1>4 DEF CallKnows, EntryKnows
  <2>2. used[a].tx = t
    BY <1>2, <2>1 DEF X402Inv
  <2>3. DOMAIN txs = 1 .. Len(txs)
    BY <1>4, BroadcastsFinite
  <2>4. t # 0
    BY <2>1, <2>3 DEF X402Inv, TypeOK
  <2> QED BY <2>1, <2>2, <2>4 DEF NoTx
<1>6. PICK r \in CallRecords : /\ r.phase = "served" /\ r.auth = a
                               /\ r.binding = calls[c].binding /\ calls' = [calls EXCEPT ![c] = r]
  BY <1>2, <1>3, Moved DEF Finish, X402Inv, Phases, Finished
<1>7. PICK e : e = [journal[a] EXCEPT !.tx = t, !.served = TRUE]
  OBVIOUS
<1>8. e.binding = journal[a].binding /\ e.served = TRUE /\ e.tx = t
  BY <1>4, <1>7 DEF EntryRecords
<1>9. journal' = [journal EXCEPT ![a] = e]
  BY <1>2, <1>3, <1>4, <1>7 DEF Finish, X402Inv, TypeOK
<1>10. journal'[a] = e /\ \A b \in Authorizations : b # a => journal'[b] = journal[b]
  BY <1>4, <1>9 DEF X402Inv, TypeOK
<1>11. calls'[c] = r /\ \A d \in Calls : d # c => calls'[d] = calls[d]
  BY <1>6 DEF X402Inv, TypeOK
<1>12. \A b \in Authorizations : /\ journal'[b].binding = journal[b].binding
                                 /\ journal'[b].served <=> journal[b].served \/ b = a
                                 /\ \/ journal'[b].tx = journal[b].tx
                                    \/ txs[used[b].tx].kind = "settlement"
  BY <1>5, <1>8, <1>10
<1> QED BY <1>1, <1>3, <1>4, <1>5, <1>6, <1>11, <1>12

LEMMA JournalFacts ==
  ASSUME X402Inv, NEW c \in Calls, Journal(c)
  PROVE  /\ calls[c].phase = "numbering" /\ calls'[c].phase = "settling"
         /\ calls[c].auth \in Authorizations /\ calls[c].binding \in Bindings
         /\ \A d \in Calls : d # c => calls'[d] = calls[d]
         /\ ~ journal[calls[c].auth].served /\ ~ journal'[calls[c].auth].served
         /\ journal'[calls[c].auth].binding = calls[c].binding
         /\ journal'[calls[c].auth].tx = journal[calls[c].auth].tx
         /\ \A b \in Authorizations : b # calls[c].auth => journal'[b] = journal[b]
         /\ UNCHANGED <<txs, used>>
<1>1. PICK a : a = calls[c].auth
  OBVIOUS
<1>2. PICK e : e = [NoEntry EXCEPT !.binding = calls[c].binding, !.block = height]
  OBVIOUS
<1>3. e.binding = calls[c].binding /\ e.served = FALSE /\ e.tx = NoTx
  BY <1>2 DEF NoEntry
<1>4. /\ calls[c].phase = "numbering" /\ Moves(c, "settling")
      /\ journal' = [journal EXCEPT ![a] = e] /\ UNCHANGED <<txs, used>>
  BY <1>1, <1>2 DEF Journal, chain
<1>5. /\ a \in Authorizations /\ calls[c].binding \in Bindings /\ ~ journal[a].served
      /\ journal[a].tx = NoTx
  <2>1. /\ a \in Authorizations /\ calls[c].binding \in Bindings /\ ~ journal[a].served
        /\ CallKnows(c)
    BY <1>1, <1>4, InProgressKnows DEF InProgress
  <2> QED BY <1>1, <1>4, <2>1 DEF CallKnows
<1>6. PICK r \in CallRecords : r.phase = "settling" /\ calls' = [calls EXCEPT ![c] = r]
  BY <1>4, Moved DEF X402Inv, Phases, InProgress
<1>7. calls'[c] = r /\ \A d \in Calls : d # c => calls'[d] = calls[d]
  BY <1>6 DEF X402Inv, TypeOK
<1>8. journal'[a] = e /\ \A b \in Authorizations : b # a => journal'[b] = journal[b]
  BY <1>4, <1>5 DEF X402Inv, TypeOK
<1> QED BY <1>1, <1>3, <1>4, <1>5, <1>6, <1>7, <1>8

\* A block changes no entry, and neither the authorization nor the sender of a transfer.
LEMMA MineFacts ==
  ASSUME X402Inv, NEW tx \in DOMAIN txs, Mine(tx)
  PROVE  /\ UNCHANGED <<calls, journal>>
         /\ DOMAIN txs' = DOMAIN txs
         /\ \A t \in DOMAIN txs : txs'[t].auth = txs[t].auth /\ txs'[t].kind = txs[t].kind
<1>1. txs \in Seq(TxRecords)
  BY DEF X402Inv, TypeOK
<1>2. \A t \in DOMAIN txs : txs[t] \in TxRecords
  BY <1>1
<1>3. PICK w : txs' = [txs EXCEPT ![tx].state = w]
  BY DEF Mine
<1>4. DOMAIN txs' = DOMAIN txs
  BY <1>3
<1>5. \A t \in DOMAIN txs : txs'[t] = IF t = tx THEN [txs[t] EXCEPT !.state = w] ELSE txs[t]
  BY <1>1, <1>3
<1>6. \A t \in DOMAIN txs : txs'[t].auth = txs[t].auth /\ txs'[t].kind = txs[t].kind
  BY <1>2, <1>5 DEF TxRecords
<1> QED BY <1>4, <1>6 DEF Mine

LEMMA CrashFacts ==
  ASSUME X402Inv, Crash, NEW d \in Calls
  PROVE  /\ UNCHANGED <<journal, txs, used>>
         /\ calls'[d] = calls[d] \/ (calls[d].phase \in InProgress /\ calls'[d].phase = "lost")
         /\ calls'[d].phase \notin InProgress
<1>1. calls[d] \in CallRecords
  BY DEF X402Inv, TypeOK
<1>2. calls'[d] = IF calls[d].phase \in InProgress
                  THEN [calls[d] EXCEPT !.phase = "lost"] ELSE calls[d]
  BY DEF Crash
<1>3. [calls[d] EXCEPT !.phase = "lost"].phase = "lost" /\ "lost" \notin InProgress
  BY <1>1 DEF CallRecords, InProgress
<1> QED BY <1>2, <1>3 DEF Crash, chain

LEMMA SaleInvStep ==
  ASSUME SaleInv, [Next]_vars
  PROVE  SaleInv'
<1>1. X402Inv /\ X402Inv'
  BY X402InvKept DEF SaleInv
<1>2. \/ \E c \in Calls, a \in Authorizations, binding \in Bindings : Start(c, a, binding)
      \/ \E c \in Calls : Quiet(c) \/ Serving(c) \/ Journal(c)
      \/ Crash
      \/ \E tx \in DOMAIN txs : Mine(tx)
      \/ \E a \in Authorizations, kind \in Kinds \ {"settlement"} : UseOutside(a, kind)
      \/ UNCHANGED vars
  BY DEF Next, CallStep, Quiet, Serving
<1> DEFINE Names(d) == calls[d].phase \in {"verifying", "numbering"} =>
                         journal[calls[d].auth].binding \in {Nothing, calls[d].binding}
<1>3. \A d \in Calls : Names(d)
  BY DEF SaleInv
<1>4. ASSUME NEW d \in Calls PROVE calls[d].phase \in InProgress => calls[d].auth \in Authorizations
  BY <1>1, InProgressKnows
<1>5. ASSUME NEW d \in Calls, UNCHANGED <<calls, journal>> PROVE Names(d)'
  BY <1>3, <1>5
<1>6. ASSUME NEW d \in Calls PROVE Names(d)'
  <2>1. ASSUME NEW c \in Calls, NEW a \in Authorizations, NEW binding \in Bindings,
               Start(c, a, binding)
        PROVE  Names(d)'
    <3>1. PICK r : r = [phase |-> AfterEntry(a, binding), auth |-> a, binding |-> binding,
                        head |-> 0, tx |-> NoTx]
      OBVIOUS
    <3>2. calls' = [calls EXCEPT ![c] = r] /\ journal' = journal
      BY <2>1, <3>1 DEF Start
    <3>3. calls'[c] = r /\ (d # c => calls'[d] = calls[d])
      BY <1>1, <3>2 DEF X402Inv, TypeOK
    <3>4. AfterEntry(a, binding) \in {"verifying", "numbering"} => journal[a].binding = Nothing
      BY DEF AfterEntry
    <3> QED BY <1>3, <3>1, <3>2, <3>3, <3>4
  <2>2. ASSUME NEW c \in Calls, Quiet(c) PROVE Names(d)'
    <3>1. /\ calls[c].phase \in InProgress
          /\ d # c => calls'[d] = calls[d]
          /\ calls'[c].auth = calls[c].auth /\ calls'[c].binding = calls[c].binding
          /\ calls'[c].phase \in {"verifying", "numbering"} =>
               calls[c].phase \in {"verifying", "scanning"}
      BY <1>1, <2>2, QuietCalls
    <3>2. \A b \in Authorizations : journal'[b].binding = journal[b].binding
      BY <1>1, <2>2, QuietEntries
    <3>3. calls[c].phase = "scanning" => journal[calls[c].auth].binding = calls[c].binding
      BY <1>1 DEF X402Inv, CallKnows
    <3>4. CASE d = c
      BY <1>3, <1>4, <3>1, <3>2, <3>3, <3>4
    <3>5. CASE d # c
      BY <1>3, <1>4, <3>1, <3>2, <3>5 DEF InProgress
    <3> QED BY <3>4, <3>5
  <2>3. ASSUME NEW c \in Calls, Serving(c) PROVE Names(d)'
    <3>1. /\ calls'[c].phase = "served" /\ (d # c => calls'[d] = calls[d])
          /\ \A b \in Authorizations : journal'[b].binding = journal[b].binding
      BY <1>1, <2>3, ServingFacts
    <3>2. CASE d = c
      BY <3>1, <3>2
    <3>3. CASE d # c
      BY <1>3, <1>4, <3>1, <3>3 DEF InProgress
    <3> QED BY <3>2, <3>3
  <2>4. ASSUME NEW c \in Calls, Journal(c) PROVE Names(d)'
    <3>1. /\ calls[c].phase = "numbering" /\ calls'[c].phase = "settling"
          /\ (d # c => calls'[d] = calls[d])
      BY <1>1, <2>4, JournalFacts
    <3>2. d # c => calls[d].phase \notin InProgress
      BY <1>1, <3>1, AloneInProgress DEF Alone, InProgress
    <3> QED BY <3>1, <3>2 DEF InProgress
  <2>5. CASE Crash
    <3>1. calls'[d].phase \notin InProgress
      BY <1>1, <2>5, CrashFacts
    <3> QED BY <3>1 DEF InProgress
  <2>6. ASSUME NEW tx \in DOMAIN txs, Mine(tx) PROVE Names(d)'
    BY <1>1, <1>5, <2>6, MineFacts
  <2>7. CASE UNCHANGED vars
    BY <1>5, <2>7 DEF vars
  <2>8. ASSUME NEW a \in Authorizations, NEW kind \in Kinds \ {"settlement"}, UseOutside(a, kind)
        PROVE  Names(d)'
    BY <1>5, <2>8 DEF UseOutside
  <2> QED BY <1>2, <2>1, <2>2, <2>3, <2>4, <2>5, <2>6, <2>7, <2>8
<1>7. \A t \in DOMAIN txs : txs[t].auth \in Authorizations
  <2>1. txs \in Seq(TxRecords)
    BY <1>1 DEF X402Inv, TypeOK
  <2>2. \A t \in DOMAIN txs : txs[t] \in TxRecords
    BY <2>1
  <2> QED BY <2>2 DEF TxRecords
<1>8. ASSUME NEW t \in DOMAIN txs', txs'[t].kind = "settlement"
      PROVE  journal'[txs'[t].auth].binding # Nothing
  <2>1. ASSUME UNCHANGED txs,
               \A b \in Authorizations :
                 journal[b].binding # Nothing => journal'[b].binding # Nothing
        PROVE  journal'[txs'[t].auth].binding # Nothing
    BY <1>7, <1>8, <2>1 DEF SaleInv
  <2>2. ASSUME NEW c \in Calls, Quiet(c) PROVE journal'[txs'[t].auth].binding # Nothing
    <3>1. \A b \in Authorizations : journal'[b].binding = journal[b].binding
      BY <1>1, <2>2, QuietEntries
    <3>2. UNCHANGED txs \/ (calls[c].phase = "settling" /\ Send(c))
      BY <2>2 DEF Quiet, ReadHead, ScanLogs, ReadFails, ReceiptReverted, Verified, NotVerified,
         SettleRefused, Broadcast, BroadcastLost, NotConfirmed, chain
    <3>3. CASE calls[c].phase = "settling" /\ Send(c)
      <4>1. PICK a : a = calls[c].auth
        OBVIOUS
      <4>2. a \in Authorizations /\ journal[a].binding # Nothing
        <5>1. a \in Authorizations /\ calls[c].binding \in Bindings /\ CallKnows(c)
          BY <1>1, <3>3, <4>1, InProgressKnows DEF InProgress
        <5> QED BY <3>3, <4>1, <5>1, X402Assumption DEF CallKnows
      <4>3. txs'[t].auth = a \/ (t \in DOMAIN txs /\ txs'[t] = txs[t])
        BY <1>1, <3>3, <4>1, <4>2, SendFacts
      <4> QED BY <1>7, <1>8, <3>1, <4>2, <4>3 DEF SaleInv
    <3> QED BY <2>1, <3>1, <3>2, <3>3
  <2>3. ASSUME NEW c \in Calls, Serving(c) PROVE journal'[txs'[t].auth].binding # Nothing
    BY <1>1, <2>1, <2>3, ServingFacts
  <2>4. ASSUME NEW c \in Calls, Journal(c) PROVE journal'[txs'[t].auth].binding # Nothing
    <3>1. /\ calls[c].binding \in Bindings /\ UNCHANGED txs
          /\ journal'[calls[c].auth].binding = calls[c].binding
          /\ \A b \in Authorizations : b # calls[c].auth => journal'[b] = journal[b]
      BY <1>1, <2>4, JournalFacts
    <3> QED BY <2>1, <3>1, X402Assumption
  <2>5. ASSUME NEW tx \in DOMAIN txs, Mine(tx) PROVE journal'[txs'[t].auth].binding # Nothing
    <3>1. /\ journal' = journal /\ t \in DOMAIN txs /\ txs'[t].auth = txs[t].auth
          /\ txs'[t].kind = txs[t].kind
      BY <1>1, <1>8, <2>5, MineFacts
    <3> QED BY <1>8, <3>1 DEF SaleInv
  <2>6. CASE UNCHANGED <<txs, journal>>
    BY <2>1, <2>6
  <2>7. ASSUME NEW c \in Calls, NEW a \in Authorizations, NEW binding \in Bindings,
               Start(c, a, binding)
        PROVE  UNCHANGED <<txs, journal>>
    BY <2>7 DEF Start, chain
  <2>8. Crash \/ UNCHANGED vars => UNCHANGED <<txs, journal>>
    BY DEF Crash, vars, chain
  <2>9. ASSUME NEW a \in Authorizations, NEW kind \in Kinds \ {"settlement"}, UseOutside(a, kind)
        PROVE  journal'[txs'[t].auth].binding # Nothing
    <3>1. t \in DOMAIN txs /\ txs'[t] = txs[t] /\ journal' = journal
      BY <1>1, <1>8, <2>9, AppendFacts DEF UseOutside
    <3> QED BY <1>8, <3>1 DEF SaleInv
  <2> QED BY <1>2, <2>2, <2>3, <2>4, <2>5, <2>6, <2>7, <2>8, <2>9
<1> QED BY <1>1, <1>6, <1>8 DEF SaleInv

\* What the mapped variables depend on.
LEMMA ReservedStays ==
  ASSUME \A b \in Authorizations : journal'[b].binding = journal[b].binding
  PROVE  UNCHANGED SaleReserved
  BY DEF SaleReserved

LEMMA SoldStays ==
  ASSUME \A b \in Authorizations : journal'[b].served = journal[b].served
  PROVE  UNCHANGED SaleSold
  BY DEF SaleSold

\* A charge depends on the kind of the transaction that used the authorization, and
\* on the entry only if that was somebody else's.
LEMMA ChargesStay ==
  ASSUME X402Inv, UNCHANGED used,
         \A t \in DOMAIN txs : txs'[t].kind = txs[t].kind,
         \A b \in Authorizations :
           used[b].tx # NoTx /\ txs[used[b].tx].kind = "relayed" =>
             (journal'[b].tx = used[b].tx <=> journal[b].tx = used[b].tx)
  PROVE  UNCHANGED SaleCharged
<1>1. ASSUME NEW b \in Authorizations
      PROVE  /\ UsedBy(b, {"settlement"})' <=> UsedBy(b, {"settlement"})
             /\ UsedBy(b, {"relayed"})' <=> UsedBy(b, {"relayed"})
  <2>1. used[b].tx # NoTx => used[b].tx \in DOMAIN txs
    BY DEF X402Inv, EntryKnows
  <2> QED BY <2>1 DEF UsedBy
<1>2. ASSUME NEW b \in Authorizations
      PROVE  UsedBy(b, {"relayed"}) => (journal'[b].tx = used[b].tx <=> journal[b].tx = used[b].tx)
  BY DEF UsedBy
<1> QED BY <1>1, <1>2 DEF SaleCharged

LEMMA ChargesStayStill ==
  ASSUME X402Inv, UNCHANGED <<journal, txs, used>>
  PROVE  UNCHANGED SaleCharged
  BY ChargesStay

\* Where the entry names the use, and this pays the seller, the buyer was charged.
LEMMA NamedIsCharged ==
  ASSUME X402Inv, NEW a \in Authorizations, used[a].tx # NoTx,
         txs[used[a].tx].kind # "diverted",
         txs[used[a].tx].kind = "settlement" \/ journal[a].tx = used[a].tx
  PROVE  a \in SaleCharged
<1>1. used[a].tx \in DOMAIN txs
  BY DEF X402Inv, EntryKnows
<1>2. txs[used[a].tx] \in TxRecords
  <2>1. txs \in Seq(TxRecords)
    BY DEF X402Inv, TypeOK
  <2> QED BY <1>1, <2>1
<1> QED BY <1>2 DEF SaleCharged, UsedBy, TxRecords, Kinds

\* A step that sells nothing charges nobody, unless it credits another's payment.
LEMMA QuietCharges ==
  ASSUME X402Inv, NEW c \in Calls, Quiet(c)
  PROVE  \/ UNCHANGED SaleCharged
         \/ \E a \in Authorizations : /\ journal[a].binding # Nothing /\ a \notin SaleCharged
                                      /\ SaleCharged' = SaleCharged \cup {a}
<1>1. calls[c].phase \in InProgress /\ UNCHANGED used
  BY DEF Quiet, ReadHead, ScanLogs, ReadFails, ReceiptReverted, Verified, NotVerified,
     SettleRefused, Broadcast, BroadcastLost, NotConfirmed, chain, InProgress
<1>2. PICK a \in Authorizations : a = calls[c].auth
  BY <1>1, InProgressKnows
<1>3. /\ CallKnows(c) /\ EntryKnows(a) /\ journal[a] \in EntryRecords
      /\ calls[c].binding \in Bindings
  BY <1>1, <1>2, InProgressKnows
<1>4. journal \in [Authorizations -> EntryRecords]
  BY DEF X402Inv, TypeOK
<1>5. CASE Broadcast(c) \/ BroadcastLost(c)
  <2>1. Send(c) /\ calls[c].phase = "settling"
    BY <1>5 DEF Broadcast, BroadcastLost
  <2>2. /\ \A t \in DOMAIN txs : txs'[t] = txs[t]
        /\ Len(txs) + 1 \notin DOMAIN txs /\ Len(txs) + 1 # NoTx
    BY <1>2, <2>1, SendFacts
  <2>3. journal[a].tx = NoTx /\ current = a
    BY <1>2, <1>3, <2>1 DEF CallKnows
  <2>4. used[a].tx # NoTx => used[a].tx \in DOMAIN txs
    BY <1>3 DEF EntryKnows
  <2>5. journal' = journal \/ journal' = [journal EXCEPT ![a].tx = Len(txs) + 1]
    BY <1>5, <2>3, X402Assumption DEF Broadcast, BroadcastLost
  <2>6. /\ journal'[a].tx = journal[a].tx \/ journal'[a].tx = Len(txs) + 1
        /\ \A b \in Authorizations : b # a => journal'[b] = journal[b]
    BY <1>3, <1>4, <2>5 DEF EntryRecords
  <2>7. \A b \in Authorizations :
          used[b].tx # NoTx => (journal'[b].tx = used[b].tx <=> journal[b].tx = used[b].tx)
    BY <2>2, <2>3, <2>4, <2>6
  <2> QED BY <1>1, <2>2, <2>7, ChargesStay
<1>6. CASE ScanLogs(c)
  <2>1. /\ calls[c].phase = "scanning" /\ UNCHANGED txs
        /\ journal' = journal \/ (used[a].tx # NoTx /\ journal' = [journal EXCEPT ![a].tx = used[a].tx])
    BY <1>2, <1>6 DEF ScanLogs, chain
  <2>2. CASE journal' = journal
    BY <1>1, <2>1, <2>2, ChargesStayStill
  <2>3. CASE used[a].tx # NoTx /\ journal' = [journal EXCEPT ![a].tx = used[a].tx]
    <3>1. /\ journal'[a].tx = used[a].tx
          /\ \A b \in Authorizations : b # a => journal'[b] = journal[b]
      BY <1>3, <1>4, <2>3 DEF EntryRecords
    <3>2. journal[a].binding # Nothing /\ journal[a].tx = NoTx
      BY <1>2, <1>3, <2>1, X402Assumption DEF CallKnows
    <3>3. CASE txs[used[a].tx].kind = "relayed"
      <4>1. UsedBy(a, {"relayed"}) /\ ~ UsedBy(a, {"settlement"})
        BY <2>3, <3>3 DEF UsedBy
      <4>2. a \notin SaleCharged
        BY <2>3, <3>2, <4>1 DEF SaleCharged
      <4>3. \A b \in Authorizations : /\ UsedBy(b, {"settlement"})' <=> UsedBy(b, {"settlement"})
                                      /\ UsedBy(b, {"relayed"})' <=> UsedBy(b, {"relayed"})
        BY <1>1, <2>1 DEF UsedBy
      <4>4. SaleCharged' = SaleCharged \cup {a}
        BY <1>1, <3>1, <4>1, <4>3 DEF SaleCharged
      <4> QED BY <3>2, <4>2, <4>4
    <3>4. CASE txs[used[a].tx].kind # "relayed"
      BY <1>1, <2>1, <3>1, <3>4, ChargesStay
    <3> QED BY <3>3, <3>4
  <2> QED BY <2>1, <2>2, <2>3
<1>7. CASE ReceiptReverted(c)
  <2>1. journal' = [journal EXCEPT ![a].failed = TRUE] /\ UNCHANGED txs
    BY <1>2, <1>7 DEF ReceiptReverted, chain
  <2>2. \A b \in Authorizations : journal'[b].tx = journal[b].tx
    BY <1>4, <2>1 DEF EntryRecords
  <2> QED BY <1>1, <2>1, <2>2, ChargesStay
<1>8. CASE \/ ReadHead(c) \/ ReadFails(c) \/ Verified(c) \/ NotVerified(c)
           \/ SettleRefused(c) \/ NotConfirmed(c)
  <2>1. UNCHANGED <<journal, txs, used>>
    BY <1>8 DEF ReadHead, ReadFails, Verified, NotVerified, SettleRefused, NotConfirmed, chain
  <2> QED BY <2>1, ChargesStayStill
<1> QED BY <1>5, <1>6, <1>7, <1>8 DEF Quiet

LEMMA NoneServed ==
  ASSUME \A d \in Calls : calls'[d] = calls[d] \/ "served" \notin {calls[d].phase, calls'[d].phase}
  PROVE  UNCHANGED SaleServed
<1>1. \A d \in Calls : /\ calls'[d].phase # "served" <=> calls[d].phase # "served"
                       /\ calls[d].phase = "served" => calls'[d] = calls[d]
  OBVIOUS
<1> QED BY <1>1 DEF SaleServed

\* A call that is served gets what its authorization was charged for.
LEMMA SaleServes ==
  ASSUME NEW c \in Calls, NEW a \in Authorizations, a = calls'[c].auth,
         calls[c].phase # "served", calls'[c].phase = "served",
         \A d \in Calls : d # c => calls'[d] = calls[d],
         calls'[c].binding \in Bindings, journal[a].binding = calls'[c].binding,
         a \in SaleCharged, UNCHANGED <<SaleCharged, SaleReserved>>, SaleSold' = SaleSold \cup {a}
  PROVE  Sale!Next
<1>1. PICK good : good = calls'[c].binding
  OBVIOUS
<1>2. SaleReserved[a] = {good}
  BY <1>1, X402Assumption DEF SaleReserved
<1>3. SaleServed[c] = {} /\ SaleServed' = [SaleServed EXCEPT ![c] = {[auth |-> a, good |-> good]}]
  <2>1. SaleServed'[c] = {[auth |-> a, good |-> good]}
    BY <1>1 DEF SaleServed
  <2>2. \A d \in Calls : d # c => SaleServed'[d] = SaleServed[d]
    BY DEF SaleServed
  <2> QED BY <2>1, <2>2 DEF SaleServed
<1>4. Sale!Serve(c, a)
  BY <1>2, <1>3 DEF Sale!Serve
<1> QED BY <1>4 DEF Sale!Next

LEMMA StartSells ==
  ASSUME X402Inv, X402Inv', NEW c \in Calls, NEW a \in Authorizations, NEW binding \in Bindings,
         Start(c, a, binding)
  PROVE  [Sale!Next]_(Sale!vars)
<1>1. PICK r : r = [phase |-> AfterEntry(a, binding), auth |-> a, binding |-> binding,
                    head |-> 0, tx |-> NoTx]
  OBVIOUS
<1>2. calls[c].phase = "idle" /\ calls' = [calls EXCEPT ![c] = r] /\ UNCHANGED <<journal, txs, used>>
  BY <1>1 DEF Start, chain
<1>3. calls'[c] = r /\ \A d \in Calls : d # c => calls'[d] = calls[d]
  BY <1>2 DEF X402Inv, TypeOK
<1>4. UNCHANGED <<SaleReserved, SaleSold, SaleCharged>>
  BY <1>2, ReservedStays, SoldStays, ChargesStayStill
<1>5. CASE AfterEntry(a, binding) = "served"
  <2>1. calls'[c].phase = "served" /\ calls'[c].auth = a /\ calls'[c].binding = binding
    BY <1>1, <1>3, <1>5
  <2>2. journal[a].served /\ journal[a].binding = binding
    BY <1>2, <2>1 DEF X402Inv, CallKnows
  <2>3. a \in SaleCharged
    BY <2>2, NamedIsCharged DEF X402Inv, EntryKnows
  <2>4. SaleSold' = SaleSold \cup {a}
    BY <1>4, <2>2 DEF SaleSold
  <2> QED BY <1>2, <1>3, <1>4, <2>1, <2>2, <2>3, <2>4, SaleServes
<1>6. CASE AfterEntry(a, binding) # "served"
  <2>1. UNCHANGED SaleServed
    BY <1>1, <1>2, <1>3, <1>6, NoneServed
  <2> QED BY <1>4, <2>1 DEF Sale!vars
<1> QED BY <1>5, <1>6

LEMMA MineSells ==
  ASSUME SaleInv, NEW tx \in DOMAIN txs, Mine(tx)
  PROVE  [Sale!Next]_(Sale!vars)
<1>1. X402Inv
  BY DEF SaleInv
<1>2. UNCHANGED <<journal, calls>>
  BY <1>1, MineFacts
<1>3. UNCHANGED <<SaleReserved, SaleSold, SaleServed>>
  BY <1>2, ReservedStays, SoldStays, NoneServed
<1>4. /\ DOMAIN txs' = DOMAIN txs
      /\ \A t \in DOMAIN txs : txs'[t].auth = txs[t].auth /\ txs'[t].kind = txs[t].kind
  BY <1>1, MineFacts
<1>5. CASE UNCHANGED used
  BY <1>1, <1>2, <1>3, <1>4, <1>5, ChargesStay DEF Sale!vars
<1>6. ASSUME NEW a, a = txs[tx].auth, used[a].tx = NoTx,
             used' = [used EXCEPT ![a] = [tx |-> tx, block |-> height + 1]]
      PROVE  [Sale!Next]_(Sale!vars)
  <2>1. a \in Authorizations /\ tx # NoTx
    <3>1. txs \in Seq(TxRecords) /\ DOMAIN txs = 1 .. Len(txs) /\ Len(txs) \in Nat
      BY <1>1 DEF X402Inv, TypeOK
    <3>2. txs[tx] \in TxRecords /\ tx # 0
      BY <3>1
    <3> QED BY <1>6, <3>2 DEF TxRecords, NoTx
  <2>2. used'[a].tx = tx /\ \A b \in Authorizations : b # a => used'[b] = used[b]
    BY <1>1, <1>6, <2>1 DEF X402Inv, TypeOK
  <2>3. ASSUME NEW b \in Authorizations, b # a
        PROVE  /\ UsedBy(b, {"settlement"})' <=> UsedBy(b, {"settlement"})
               /\ UsedBy(b, {"relayed"})' <=> UsedBy(b, {"relayed"})
               /\ used'[b].tx = used[b].tx /\ journal'[b].tx = journal[b].tx
    <3>1. used[b].tx # NoTx => used[b].tx \in DOMAIN txs
      BY <1>1 DEF X402Inv, EntryKnows
    <3> QED BY <1>2, <1>4, <2>2, <2>3, <3>1 DEF UsedBy
  <2>4. ~ UsedBy(a, {"settlement"}) /\ ~ UsedBy(a, {"relayed"})
    BY <1>6 DEF UsedBy
  <2>5. CASE txs[tx].kind = "settlement"
    <3>1. UsedBy(a, {"settlement"})'
      BY <1>4, <2>1, <2>2, <2>5 DEF UsedBy
    <3>2. a \notin SaleCharged /\ SaleCharged' = SaleCharged \cup {a}
      BY <2>1, <2>3, <2>4, <3>1 DEF SaleCharged
    <3>3. SaleReserved[a] # {}
      BY <1>6, <2>1, <2>5 DEF SaleInv, SaleReserved
    <3>4. Sale!Charge(a)
      BY <1>3, <3>2, <3>3 DEF Sale!Charge
    <3> QED BY <2>1, <3>4 DEF Sale!Next
  <2>6. CASE txs[tx].kind # "settlement"
    <3>1. ~ UsedBy(a, {"settlement"})'
      BY <1>4, <2>2, <2>6 DEF UsedBy
    <3>2. journal'[a].tx # used'[a].tx
      BY <1>1, <1>2, <1>6, <2>1, <2>2, <2>6 DEF X402Inv, EntryKnows
    <3>3. UNCHANGED SaleCharged
      BY <2>1, <2>3, <2>4, <3>1, <3>2 DEF SaleCharged
    <3> QED BY <1>3, <3>3 DEF Sale!vars
  <2> QED BY <2>5, <2>6
<1> QED BY <1>5, <1>6 DEF Mine

LEMMA StepSells ==
  ASSUME SaleInv, [Next]_vars
  PROVE  [Sale!Next]_(Sale!vars)
<1>1. X402Inv /\ X402Inv'
  BY X402InvKept DEF SaleInv
<1>2. ASSUME NEW c \in Calls, Quiet(c) PROVE [Sale!Next]_(Sale!vars)
  <2>1. UNCHANGED <<SaleReserved, SaleSold>>
    BY <1>1, <1>2, QuietEntries, ReservedStays, SoldStays
  <2>2. UNCHANGED SaleServed
    <3>1. /\ calls[c].phase # "served" /\ calls'[c].phase # "served"
          /\ \A d \in Calls : d # c => calls'[d] = calls[d]
      BY <1>1, <1>2, QuietCalls DEF InProgress
    <3> QED BY <3>1, NoneServed
  <2>3. CASE UNCHANGED SaleCharged
    BY <2>1, <2>2, <2>3 DEF Sale!vars
  <2>4. ASSUME NEW a \in Authorizations, journal[a].binding # Nothing, a \notin SaleCharged,
               SaleCharged' = SaleCharged \cup {a}
        PROVE  Sale!Next
    <3>1. SaleReserved[a] # {}
      BY <2>4 DEF SaleReserved
    <3>2. Sale!Charge(a)
      BY <2>1, <2>2, <2>4, <3>1 DEF Sale!Charge
    <3> QED BY <3>2 DEF Sale!Next
  <2> QED BY <1>1, <1>2, <2>3, <2>4, QuietCharges
<1>3. ASSUME NEW c \in Calls, Serving(c) PROVE [Sale!Next]_(Sale!vars)
  <2>1. PICK a : a = calls[c].auth
    OBVIOUS
  <2>2. /\ calls[c].phase \in InProgress /\ calls'[c].phase = "served"
        /\ calls'[c].auth = a /\ calls'[c].binding = calls[c].binding
        /\ \A d \in Calls : d # c => calls'[d] = calls[d]
        /\ journal[a].binding = calls[c].binding
        /\ \A b \in Authorizations : /\ journal'[b].binding = journal[b].binding
                                     /\ journal'[b].served <=> journal[b].served \/ b = a
    BY <1>1, <1>3, <2>1, ServingFacts
  <2>3. a \in Authorizations /\ calls[c].binding \in Bindings
    BY <1>1, <2>1, <2>2, InProgressKnows
  <2>4. UNCHANGED SaleReserved
    BY <2>2, ReservedStays
  <2>5. SaleSold' = SaleSold \cup {a}
    BY <2>2, <2>3 DEF SaleSold
  <2>6. calls[c].phase # "served"
    BY <2>2 DEF InProgress
  <2>7. a \in SaleCharged
    BY <1>1, <1>3, <2>1, <2>3, ServingFacts, NamedIsCharged
  <2>8. UNCHANGED SaleCharged
    <3>1. /\ UNCHANGED <<txs, used>>
          /\ \A b \in Authorizations :
               journal'[b].tx = journal[b].tx \/ txs[used[b].tx].kind = "settlement"
      BY <1>1, <1>3, ServingFacts
    <3> QED BY <1>1, <3>1, ChargesStay
  <2>9. Sale!Next
    BY <2>2, <2>3, <2>4, <2>5, <2>6, <2>7, <2>8, SaleServes
  <2> QED BY <2>9
<1>4. ASSUME NEW c \in Calls, Journal(c) PROVE [Sale!Next]_(Sale!vars)
  <2>1. PICK a : a = calls[c].auth
    OBVIOUS
  <2>2. PICK good : good = calls[c].binding
    OBVIOUS
  <2>3. /\ calls[c].phase = "numbering" /\ calls'[c].phase = "settling"
        /\ a \in Authorizations /\ good \in Bindings
        /\ \A d \in Calls : d # c => calls'[d] = calls[d]
        /\ ~ journal[a].served /\ ~ journal'[a].served /\ journal'[a].binding = good
        /\ journal'[a].tx = journal[a].tx
        /\ \A b \in Authorizations : b # a => journal'[b] = journal[b]
        /\ UNCHANGED <<txs, used>>
    BY <1>1, <1>4, <2>1, <2>2, JournalFacts
  <2>4. journal[a].binding \in {Nothing, good}
    BY <2>1, <2>2, <2>3 DEF SaleInv
  <2>5. UNCHANGED <<SaleServed, SaleSold, SaleCharged>>
    <3>1. UNCHANGED SaleServed
      BY <2>3, NoneServed
    <3>2. \A b \in Authorizations : journal'[b].served <=> journal[b].served
      BY <2>3
    <3>3. UNCHANGED SaleSold
      BY <3>2 DEF SaleSold
    <3>4. UNCHANGED SaleCharged
      BY <1>1, <2>3, ChargesStay
    <3> QED BY <3>1, <3>3, <3>4
  <2>6. CASE journal[a].binding = good
    <3>1. UNCHANGED SaleReserved
      BY <2>3, <2>6, ReservedStays
    <3> QED BY <2>5, <3>1 DEF Sale!vars
  <2>7. CASE journal[a].binding = Nothing
    <3>1. SaleReserved'[a] = {good} /\ SaleReserved[a] = {}
      BY <2>3, <2>7, X402Assumption DEF SaleReserved
    <3>2. \A b \in Authorizations : b # a => SaleReserved'[b] = SaleReserved[b]
      BY <2>3 DEF SaleReserved
    <3>3. SaleReserved' = [SaleReserved EXCEPT ![a] = {good}]
      BY <2>3, <3>1, <3>2 DEF SaleReserved
    <3>4. Sale!Reserve(a, good)
      BY <2>5, <3>1, <3>3 DEF Sale!Reserve
    <3> QED BY <2>3, <3>4 DEF Sale!Next
  <2> QED BY <2>4, <2>6, <2>7
<1>5. CASE Crash
  <2>1. UNCHANGED <<journal, txs, used>>
    BY <1>5 DEF Crash, chain
  <2>2. \A d \in Calls : calls'[d] = calls[d] \/ "served" \notin {calls[d].phase, calls'[d].phase}
    BY <1>1, <1>5, CrashFacts DEF InProgress
  <2> QED BY <1>1, <2>1, <2>2, NoneServed, ReservedStays, SoldStays, ChargesStayStill
          DEF Sale!vars
<1>6. CASE UNCHANGED vars
  <2>1. UNCHANGED <<journal, txs, used, calls>>
    BY <1>6 DEF vars
  <2> QED BY <1>1, <2>1, NoneServed, ReservedStays, SoldStays, ChargesStayStill DEF Sale!vars
<1>7. ASSUME NEW c \in Calls, NEW a \in Authorizations, NEW binding \in Bindings,
             Start(c, a, binding)
      PROVE  [Sale!Next]_(Sale!vars)
  BY <1>1, <1>7, StartSells
<1>8. ASSUME NEW tx \in DOMAIN txs, Mine(tx) PROVE [Sale!Next]_(Sale!vars)
  BY <1>8, MineSells
<1>9. ASSUME NEW c \in Calls, CallStep(c) PROVE Quiet(c) \/ Serving(c) \/ Journal(c)
  BY <1>9 DEF CallStep, Quiet, Serving
<1>10. ASSUME NEW a \in Authorizations, NEW kind \in Kinds \ {"settlement"}, UseOutside(a, kind)
       PROVE  [Sale!Next]_(Sale!vars)
  <2>1. UNCHANGED <<journal, used, calls>> /\ \A t \in DOMAIN txs : txs'[t] = txs[t]
    BY <1>1, <1>10, AppendFacts DEF UseOutside
  <2>2. UNCHANGED SaleCharged
    BY <1>1, <2>1, ChargesStay
  <2> QED BY <2>1, <2>2, NoneServed, ReservedStays, SoldStays DEF Sale!vars
<1> QED BY <1>2, <1>3, <1>4, <1>5, <1>6, <1>7, <1>8, <1>9, <1>10 DEF Next

LEMMA SaleStarts == Init => Sale!Init
<1> SUFFICES ASSUME Init PROVE Sale!Init
  OBVIOUS
<1>1. SaleReserved = [a \in Authorizations |-> {}] /\ SaleSold = {}
  BY DEF Init, NoEntry, SaleReserved, SaleSold
<1>2. SaleCharged = {}
  BY DEF Init, SaleCharged, UsedBy
<1>3. \A c \in Calls : calls[c].phase = "idle"
  BY DEF Init, IdleCall
<1>4. SaleServed = [c \in Calls |-> {}]
  BY <1>3 DEF SaleServed
<1> QED BY <1>1, <1>2, <1>4 DEF Sale!Init

\* The x402 seller implements SalePromise (payments.mjs:55-141): for any number of
\* calls, blocks, crashes, lost answers and transactions of others, the entry names a
\* request before the seller charges the buyer or credits another's payment, names it
\* for good however often it is written over, and only this request is ever served,
\* once it is paid to the seller.
THEOREM SaleKeptAlways == Spec => SaleKept
<1>1. Spec => []SaleInv
  BY SaleInvInit, SaleInvStep, PTL DEF Spec
<1>2. SaleInv /\ [Next]_vars => [Sale!Next]_(Sale!vars)
  BY StepSells
<1> QED BY <1>1, <1>2, SaleStarts, PTL DEF Spec, SaleKept, Sale!Spec
=============================================================================
