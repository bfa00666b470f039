---------------------------- MODULE WalletClient ----------------------------
(***************************************************************************)
(* How a page sends a wallet transaction: runIntent and resumePending of    *)
(* frontend/js/views/xlayer.js with waitForReceipt of protocol/wallet.mjs,  *)
(* between the browser's localStorage (one pending transaction, one         *)
(* idempotency key per operation), the backend's intents and the chain.     *)
(* Every request may fail, the tab may be closed while the wallet asks its  *)
(* user, and a transaction may revert, or be mined with something else in   *)
(* it than the backend prepared.                                            *)
(*                                                                         *)
(* An operation is an action on one order that the backend prepares as      *)
(* often as it is asked to (budget, approve, create, register).  An         *)
(* idempotency key and the intent saved under it are the same number; a     *)
(* hash is the position of the transaction in txs.                          *)
(***************************************************************************)
EXTENDS Naturals, Sequences, FiniteSets

CONSTANTS
  Tabs, Operations,
  MaxIntents, MaxTxs,                  \* bounds of the model
  MaxReverts, MaxMismatches,           \* and of the trouble in it
  MaxFailures, MaxLost

ASSUME WalletAssumption ==
  {MaxIntents, MaxTxs, MaxReverts, MaxMismatches, MaxFailures, MaxLost} \subseteq Nat

VARIABLES
  tabs,        \* what each tab is doing
  keys,        \* localStorage: the idempotency key of each operation
  pending,     \* localStorage: the transaction that may be under way
  used,        \* how many idempotency keys were made
  intents,     \* the backend's tx_intents
  txs,         \* the transactions sent, in order, each with what became of it
  lost,        \* the transactions whose hash no tab has seen (history)
  failures

vars == <<tabs, keys, pending, used, intents, txs, lost, failures>>
local == <<keys, pending, used>>

None == 0
Ids == 1 .. MaxIntents
Hashes == 1 .. MaxTxs
NothingPending == [intent |-> None, hash |-> None]
Idle == [step |-> "idle", op |-> "none", intent |-> None, hash |-> None]

Init ==
  /\ tabs = [t \in Tabs |-> Idle]
  /\ keys = [op \in Operations |-> None]
  /\ pending = NothingPending
  /\ used = 0
  /\ intents = [k \in Ids |-> [state |-> "none", hash |-> None]]
  /\ txs = <<>>
  /\ lost = {}
  /\ failures = 0

At(t, step) == tabs[t].step = step
Goes(t, step) == tabs' = [tabs EXCEPT ![t].step = step]
Stops(t) == tabs' = [tabs EXCEPT ![t] = Idle]

-----------------------------------------------------------------------------
(* runIntent.                                                               *)

Begin_AlwaysNewKey(t, op) ==
  /\ At(t, "idle")
  /\ keys[op] # None \/ used < MaxIntents
  /\ keys' = [keys EXCEPT ![op] = used + 1]
  /\ used' = used + 1
  /\ tabs' = [tabs EXCEPT ![t] = [step |-> "preparing", op |-> op, intent |-> keys'[op],
                                  hash |-> None]]
  /\ UNCHANGED <<pending, intents, txs, lost, failures>>

\* The key of an earlier attempt is used again.
Begin(t, op) ==
  /\ At(t, "idle")
  /\ keys[op] # None \/ used < MaxIntents
  /\ keys' = [keys EXCEPT ![op] = IF @ = None THEN used + 1 ELSE @]
  /\ used' = IF keys[op] = None THEN used + 1 ELSE used
  /\ tabs' = [tabs EXCEPT ![t] = [step |-> "preparing", op |-> op, intent |-> keys'[op],
                                  hash |-> None]]
  /\ UNCHANGED <<pending, intents, txs, lost, failures>>

\* The backend saves the intent, or returns the one saved under this key.
Prepare(t) ==
  LET k == tabs[t].intent IN
  /\ At(t, "preparing")
  /\ intents' = [intents EXCEPT ![k].state = IF @ = "none" THEN "prepared" ELSE @]
  /\ IF pending = NothingPending THEN Goes(t, "asking")
     ELSE IF pending.intent = k
     THEN tabs' = [tabs EXCEPT ![t].step = "broadcasting", ![t].hash = pending.hash]
     ELSE Stops(t)
  /\ UNCHANGED <<local, txs, lost, failures>>

NewTx(t) == txs' = Append(txs, [intent |-> tabs[t].intent, result |-> "open"])

Send_NotRecorded(t) ==
  /\ At(t, "asking")
  /\ Len(txs) < MaxTxs
  /\ NewTx(t)
  /\ tabs' = [tabs EXCEPT ![t].step = "broadcasting", ![t].hash = Len(txs) + 1]
  /\ UNCHANGED <<local, intents, lost, failures>>

\* eth_sendTransaction returns, and the hash is stored before anything else.
Send(t) ==
  /\ At(t, "asking")
  /\ Len(txs) < MaxTxs
  /\ NewTx(t)
  /\ pending' = [intent |-> tabs[t].intent, hash |-> Len(txs) + 1]
  /\ tabs' = [tabs EXCEPT ![t].step = "broadcasting", ![t].hash = Len(txs) + 1]
  /\ UNCHANGED <<keys, used, intents, lost, failures>>

SendRejected(t) ==
  /\ At(t, "asking")
  /\ Stops(t)
  /\ UNCHANGED <<local, intents, txs, lost, failures>>

\* The user approves in the wallet after the tab was closed.
SendLost(t) ==
  /\ At(t, "asking")
  /\ Cardinality(lost) < MaxLost
  /\ Len(txs) < MaxTxs
  /\ NewTx(t)
  /\ lost' = lost \cup {Len(txs) + 1}
  /\ Stops(t)
  /\ UNCHANGED <<local, intents, failures>>

-----------------------------------------------------------------------------
(* From the hash on, runIntent and resumePending do the same.               *)

ResumeBegins(t) ==
  /\ At(t, "idle")
  /\ pending # NothingPending
  /\ tabs' = [tabs EXCEPT ![t] = [step |-> "broadcasting", op |-> "resume",
                                 intent |-> pending.intent, hash |-> pending.hash]]
  /\ UNCHANGED <<local, intents, txs, lost, failures>>

\* broadcast_intent binds the intent to its first hash, and answers not ok for
\* one that failed or did not match; the page throws.
BroadcastRefused(t) ==
  LET intent == intents[tabs[t].intent] IN
  /\ At(t, "broadcasting")
  /\ intent.hash \notin {None, tabs[t].hash} \/ intent.state \in {"failed", "mismatch"}
  /\ Stops(t)
  /\ UNCHANGED <<local, intents, txs, lost, failures>>

Broadcast_OnlyOnce(t) ==
  LET k == tabs[t].intent IN
  /\ At(t, "broadcasting")
  /\ IF intents[k].hash = None
     THEN /\ intents' = [intents EXCEPT ![k] = [state |-> "broadcast", hash |-> tabs[t].hash]]
          /\ Goes(t, "waiting")
     ELSE UNCHANGED intents /\ Stops(t)
  /\ UNCHANGED <<local, txs, lost, failures>>

Broadcast(t) ==
  LET k == tabs[t].intent IN
  /\ At(t, "broadcasting")
  /\ intents[k].hash \in {None, tabs[t].hash}
  /\ intents[k].state \notin {"failed", "mismatch"}
  /\ intents' = [intents EXCEPT ![k] =
       IF @.state = "confirmed" THEN @ ELSE [state |-> "broadcast", hash |-> tabs[t].hash]]
  /\ Goes(t, "waiting")
  /\ UNCHANGED <<local, txs, lost, failures>>

\* waitForReceipt, called without onMined: a reverted transaction throws.
ReceiptSeen(t) ==
  LET result == txs[tabs[t].hash].result IN
  /\ At(t, "waiting")
  /\ result # "open"
  /\ IF result = "reverted" THEN Stops(t) ELSE Goes(t, "reconciling")
  /\ UNCHANGED <<local, intents, txs, lost, failures>>

\* reconcile_intent, by the receipt of the hash that the intent is bound to.
Outcome(k) ==
  LET result == txs[intents[k].hash].result
  IN  CASE result = "ok" -> "confirmed"
        [] result = "mismatched" -> "mismatch"
        [] OTHER -> "failed"

Reconciled(k) == intents' = [intents EXCEPT ![k].state = Outcome(k)]

\* A page that was told "confirmed" forgets the transaction; runIntent forgets
\* the key too, resumePending does not.
Reconcile(t) ==
  /\ At(t, "reconciling")
  /\ Reconciled(tabs[t].intent)
  /\ Outcome(tabs[t].intent) = "confirmed"
  /\ pending' = NothingPending
  /\ keys' = IF tabs[t].op = "resume" THEN keys ELSE [keys EXCEPT ![tabs[t].op] = None]
  /\ Stops(t)
  /\ UNCHANGED <<used, txs, lost, failures>>

\* Any other outcome is saved and answered not ok: the page throws before it
\* forgets anything.
ReconcileRefused(t) ==
  /\ At(t, "reconciling")
  /\ Reconciled(tabs[t].intent)
  /\ Outcome(tabs[t].intent) # "confirmed"
  /\ Stops(t)
  /\ UNCHANGED <<local, txs, lost, failures>>

\* A request fails, the wait times out, or the tab is closed; a reconcile may
\* have been served all the same.
Fails(t) ==
  /\ tabs[t].step \in {"preparing", "broadcasting", "waiting", "reconciling"}
  /\ failures < MaxFailures
  /\ failures' = failures + 1
  /\ Stops(t)
  /\ \/ UNCHANGED intents
     \/ At(t, "reconciling") /\ Reconciled(tabs[t].intent)
  /\ UNCHANGED <<local, txs, lost>>

Ended(result) == {h \in DOMAIN txs : txs[h].result = result}

\* A transaction is mined as it was prepared, or reverts, or succeeds with other
\* contents than those prepared (a wallet lets its user edit an approval), or
\* creates a job that is not the frozen order's.
Mine(h) ==
  /\ txs[h].result = "open"
  /\ \E result \in {"ok", "mismatched", "reverted"} :
       /\ result = "reverted" => Cardinality(Ended("reverted")) < MaxReverts
       /\ result = "mismatched" => Cardinality(Ended("mismatched")) < MaxMismatches
       /\ txs' = [txs EXCEPT ![h].result = result]
  /\ UNCHANGED <<tabs, local, intents, lost, failures>>

-----------------------------------------------------------------------------

TabStep(t) ==
  \/ Prepare(t) \/ Send(t) \/ SendRejected(t) \/ SendLost(t)
  \/ Broadcast(t) \/ BroadcastRefused(t) \/ ReceiptSeen(t)
  \/ Reconcile(t) \/ ReconcileRefused(t)

Next ==
  \/ \E t \in Tabs : \/ \E op \in Operations : Begin(t, op)
                    \/ TabStep(t) \/ ResumeBegins(t) \/ Fails(t)
  \/ \E h \in DOMAIN txs : Mine(h)

Spec == Init /\ [][Next]_vars

\* Transactions are mined, requests end (they may fail only so often), and a
\* user who sees "Resume pending" presses it.
FairSpec ==
  /\ Spec
  /\ \A t \in Tabs : WF_vars(TabStep(t)) /\ SF_vars(ResumeBegins(t))
  /\ \A h \in Hashes : WF_vars(h \in DOMAIN txs /\ Mine(h))

-----------------------------------------------------------------------------
(* Properties.                                                              *)

TabRecords ==
  [step : {"idle", "preparing", "asking", "broadcasting", "waiting", "reconciling"},
   op : Operations \cup {"none", "resume"}, intent : Ids \cup {None}, hash : Hashes \cup {None}]

IntentRecords ==
  [state : {"none", "prepared", "broadcast", "confirmed", "failed", "mismatch"},
   hash : Hashes \cup {None}]

TxRecords == [intent : Ids, result : {"open", "ok", "mismatched", "reverted"}]

\* Every variable keeps its type.
TypeOK ==
  /\ tabs \in [Tabs -> TabRecords]
  /\ keys \in [Operations -> Ids \cup {None}]
  /\ pending \in [intent : Ids \cup {None}, hash : Hashes \cup {None}]
  /\ used \in 0 .. MaxIntents
  /\ intents \in [Ids -> IntentRecords]
  /\ txs \in Seq(TxRecords) /\ Len(txs) <= MaxTxs
  /\ lost \subseteq DOMAIN txs
  /\ failures \in 0 .. MaxFailures

\* xlayer.js:181-182, "A timeout after this point remains unknown": until it is
\* mined, a transaction whose hash the page was given can be resumed, and so no
\* other one is under way.
OpenIsResumable ==
  \A h \in DOMAIN txs \ lost :
    txs[h].result = "open" => pending = [intent |-> txs[h].intent, hash |-> h]

\* wallet.test.mjs:22, "mined failed transactions release the pending lock": a
\* page is not stuck with a transaction; once it is mined, whatever its status,
\* "Resume pending" gives the page back.
PendingReleased ==
  \A h \in Hashes : pending.hash = h ~> pending.hash # h

\* The backend can still confirm transaction h for its intent: it matches what
\* was prepared and did not revert, and the intent is bound to no other one.
CanBeConfirmed(h) ==
  /\ txs[h].result \in {"open", "ok"}
  /\ intents[txs[h].intent].hash \in {None, h}

\* What does hold, whatever requests fail, waits time out and tabs close on the
\* way: a page is given back unless its transaction reverts, mismatches, or was
\* sent for an intent that is bound to another one (a resume keeps the key, so
\* the next use of the key prepares the intent that was confirmed).
ReleasedIfConfirmable ==
  \A h \in Hashes :
    pending.hash = h ~> pending.hash # h \/ ~CanBeConfirmed(h)
=============================================================================
