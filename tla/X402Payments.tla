---------------------------- MODULE X402Payments ----------------------------
(***************************************************************************)
(* The seller's side of an x402 payment, protocol/payments.mjs: each call   *)
(* carries an EIP-3009 authorization; the seller journals it, broadcasts    *)
(* the transfer and, once it is mined, serves the request.  server.mjs runs *)
(* the calls one at a time (serial), but a call takes many steps, during    *)
(* which blocks are mined, RPC answers are lost and the process may crash.  *)
(* An action is what runs between two awaits.                               *)
(*                                                                         *)
(* A binding stands for the pair <<requestHash, signatureHash>>.  The chain *)
(* is external: transactions, each mined at most once, and the single use   *)
(* of an authorization that DemoUSD enforces.  DemoUSD does not ask who     *)
(* sends a transfer: the buyer, or whoever sees a pending one, can use the  *)
(* authorization as well as the seller.                                     *)
(***************************************************************************)
EXTENDS Naturals, Sequences, FiniteSets

CONSTANTS
  Calls, Authorizations, Bindings,
  Nothing,                     \* no binding, no authorization
  MaxTxs, MaxHeight, MaxCrashes, MaxLost, MaxOutside     \* bounds of the model

ASSUME X402Assumption ==
  /\ Nothing \notin Bindings \cup Authorizations
  /\ MaxTxs \in Nat /\ MaxHeight \in Nat \ {0} /\ MaxCrashes \in Nat /\ MaxLost \in Nat
  /\ MaxOutside \in Nat

VARIABLES
  calls,       \* each call: phase, auth, binding, the block it scans to, what it sent
  journal,     \* payments.json, saved after every change
  current,     \* this.current: whose broadcast writeContract records
  txs,         \* the transactions that carry an authorization, in the order of broadcast
  used,        \* AuthorizationUsed: the transaction and its block
  height,
  crashes, lost

vars == <<calls, journal, current, txs, used, height, crashes, lost>>
chain == <<txs, used, height>>

\* Who uses an authorization: the seller's facilitator, somebody else with the very
\* transfer, or the buyer with another transfer signed with the same nonce.
Kinds == {"settlement", "relayed", "diverted"}

TxIds == 1 .. MaxTxs
NoTx == 0
NoEntry == [binding |-> Nothing, tx |-> NoTx, block |-> 0, failed |-> FALSE, served |-> FALSE]
IdleCall == [phase |-> "idle", auth |-> Nothing, binding |-> Nothing, head |-> 0,
             tx |-> NoTx]

Finished == {"served", "refused", "pending", "error", "lost"}
InProgress ==
  {"recovering", "scanning", "receipt", "verifying", "numbering", "settling", "confirming"}

Init ==
  /\ calls = [c \in Calls |-> IdleCall]
  /\ journal = [a \in Authorizations |-> NoEntry]
  /\ current = Nothing
  /\ txs = <<>>
  /\ used = [a \in Authorizations |-> [tx |-> NoTx, block |-> 0]]
  /\ height = 1
  /\ crashes = 0
  /\ lost = 0

-----------------------------------------------------------------------------
(* Helpers.                                                                 *)

\* server.mjs: a call starts when the one before it has ended.
Serial_Concurrent == TRUE

Serial == \A c \in Calls : calls[c].phase \notin InProgress

Moves(c, phase) == calls' = [calls EXCEPT ![c].phase = phase]

\* What the entry of the authorization, read once the call starts, leads to.
AfterEntry(a, binding) ==
  LET entry == journal[a] IN
  IF entry.binding \notin {binding, Nothing} THEN "error"
  ELSE IF entry.served THEN "served"
  ELSE IF entry.tx # NoTx THEN "receipt"
  ELSE IF entry.binding = Nothing THEN "verifying"
  ELSE "recovering"

-----------------------------------------------------------------------------
(* Payments.call, await by await.                                           *)

Start(c, a, binding) ==
  /\ Serial
  /\ calls[c].phase = "idle"
  /\ calls' = [calls EXCEPT ![c] = [phase |-> AfterEntry(a, binding), auth |-> a,
                                    binding |-> binding, head |-> 0, tx |-> NoTx]]
  /\ UNCHANGED <<journal, current, chain, crashes, lost>>

\* A read throws, or does not say what it should: the identity's owner changed,
\* or the receipt's events are not this payment's.
ReadFails(c) ==
  /\ calls[c].phase \in {"recovering", "scanning", "receipt", "verifying", "numbering"}
  /\ Moves(c, "error")
  /\ UNCHANGED <<journal, current, chain, crashes, lost>>

\* An entry without a transaction: look for its AuthorizationUsed event.
ReadHead(c) ==
  /\ calls[c].phase = "recovering"
  /\ calls' = [calls EXCEPT ![c].phase = "scanning", ![c].head = height]
  /\ UNCHANGED <<journal, current, chain, crashes, lost>>

ScanLogs(c) ==
  LET a == calls[c].auth
      found == /\ used[a].tx # NoTx
               /\ used[a].block \in journal[a].block .. calls[c].head
  IN
  /\ calls[c].phase = "scanning"
  /\ Moves(c, IF found THEN "receipt" ELSE "verifying")
  /\ journal' = IF found THEN [journal EXCEPT ![a].tx = used[a].tx] ELSE journal
  /\ UNCHANGED <<current, chain, crashes, lost>>

\* A known transaction: its receipt decides.
Finish(c, tx) ==
  /\ Moves(c, "served")
  /\ journal' = [journal EXCEPT ![calls[c].auth].tx = tx, ![calls[c].auth].served = TRUE]

ReceiptSucceeded_AnyStatus(c) ==
  LET tx == journal[calls[c].auth].tx IN
  /\ calls[c].phase = "receipt"
  /\ txs[tx].state \in {"success", "reverted"}
  /\ Finish(c, tx)
  /\ UNCHANGED <<current, chain, crashes, lost>>

ReceiptSucceeded(c) ==
  LET tx == journal[calls[c].auth].tx IN
  /\ calls[c].phase = "receipt"
  /\ txs[tx].state = "success"
  /\ txs[tx].auth = calls[c].auth /\ txs[tx].kind # "diverted"
  /\ Finish(c, tx)
  /\ UNCHANGED <<current, chain, crashes, lost>>

ReceiptReverted(c) ==
  /\ calls[c].phase = "receipt"
  /\ txs[journal[calls[c].auth].tx].state = "reverted"
  /\ Moves(c, "refused")
  /\ journal' = [journal EXCEPT ![calls[c].auth].failed = TRUE]
  /\ UNCHANGED <<current, chain, crashes, lost>>

\* facilitator.verify reads the chain; it may also refuse for other reasons.
Verified(c) ==
  /\ calls[c].phase = "verifying"
  /\ used[calls[c].auth].tx = NoTx
  /\ Moves(c, "numbering")
  /\ UNCHANGED <<journal, current, chain, crashes, lost>>

NotVerified(c) ==
  /\ calls[c].phase = "verifying"
  /\ Moves(c, "refused")
  /\ UNCHANGED <<journal, current, chain, crashes, lost>>

\* The entry is written, over an older one if there is one, before settling.
Journal_NextBlock(c) ==
  /\ calls[c].phase = "numbering"
  /\ journal' = [journal EXCEPT ![calls[c].auth] =
                   [NoEntry EXCEPT !.binding = calls[c].binding, !.block = height + 1]]
  /\ current' = calls[c].auth
  /\ Moves(c, "settling")
  /\ UNCHANGED <<chain, crashes, lost>>

Journal(c) ==
  /\ calls[c].phase = "numbering"
  /\ journal' = [journal EXCEPT ![calls[c].auth] =
                   [NoEntry EXCEPT !.binding = calls[c].binding, !.block = height]]
  /\ current' = calls[c].auth
  /\ Moves(c, "settling")
  /\ UNCHANGED <<chain, crashes, lost>>

-----------------------------------------------------------------------------
(* facilitator.settle, and the writeContract hook that the seller gave it.  *)

Send(c) ==
  /\ Len(txs) < MaxTxs
  /\ txs' = Append(txs, [auth |-> calls[c].auth, kind |-> "settlement", state |-> "pending"])

Confirming(c) == calls' = [calls EXCEPT ![c].phase = "confirming", ![c].tx = Len(txs) + 1]

SettleRefused(c) ==
  /\ calls[c].phase = "settling"
  /\ Moves(c, "refused")
  /\ current' = Nothing
  /\ UNCHANGED <<journal, chain, crashes, lost>>

Broadcast_NotSaved(c) ==
  /\ calls[c].phase = "settling"
  /\ Send(c)
  /\ Confirming(c)
  /\ UNCHANGED <<journal, current, used, height, crashes, lost>>

Broadcast(c) ==
  /\ calls[c].phase = "settling"
  /\ Send(c)
  /\ journal' = IF current = Nothing THEN journal
                ELSE [journal EXCEPT ![current].tx = Len(txs) + 1]
  /\ Confirming(c)
  /\ UNCHANGED <<current, used, height, crashes, lost>>

\* The transaction reaches the network, its hash does not reach the seller.
BroadcastLost(c) ==
  /\ calls[c].phase = "settling"
  /\ lost < MaxLost
  /\ lost' = lost + 1
  /\ Send(c)
  /\ Moves(c, "error")
  /\ current' = Nothing
  /\ UNCHANGED <<journal, used, height, crashes>>

Confirmed(c) ==
  /\ calls[c].phase = "confirming"
  /\ txs[calls[c].tx].state = "success"
  /\ Finish(c, calls[c].tx)
  /\ current' = Nothing
  /\ UNCHANGED <<chain, crashes, lost>>

\* It reverted, or its receipt did not come in time: 202, retry the same payment.
NotConfirmed(c) ==
  /\ calls[c].phase = "confirming"
  /\ Moves(c, "pending")
  /\ current' = Nothing
  /\ UNCHANGED <<journal, chain, crashes, lost>>

-----------------------------------------------------------------------------
(* The process and the chain.                                               *)

Crash ==
  /\ crashes < MaxCrashes
  /\ crashes' = crashes + 1
  /\ calls' = [c \in Calls |-> IF calls[c].phase \in InProgress
                               THEN [calls[c] EXCEPT !.phase = "lost"] ELSE calls[c]]
  /\ current' = Nothing
  /\ UNCHANGED <<journal, chain, lost>>

\* A mined transfer uses its authorization, unless that was used, or expired.
Mine(tx) ==
  LET a == txs[tx].auth
      effective == [txs EXCEPT ![tx].state = "success"]
      reverted == [txs EXCEPT ![tx].state = "reverted"]
  IN
  /\ height < MaxHeight
  /\ txs[tx].state = "pending"
  /\ height' = height + 1
  /\ \/ /\ used[a].tx = NoTx
        /\ txs' = effective
        /\ used' = [used EXCEPT ![a] = [tx |-> tx, block |-> height + 1]]
     \/ /\ txs' = reverted
        /\ UNCHANGED used
  /\ UNCHANGED <<calls, journal, current, crashes, lost>>

\* DemoUSD.transferWithAuthorization has no check on its sender.
UseOutside(a, kind) ==
  /\ Len(txs) < MaxTxs
  /\ Cardinality({tx \in DOMAIN txs : txs[tx].kind # "settlement"}) < MaxOutside
  /\ txs' = Append(txs, [auth |-> a, kind |-> kind, state |-> "pending"])
  /\ UNCHANGED <<calls, journal, current, used, height, crashes, lost>>

CallStep(c) ==
  \/ ReadHead(c) \/ ScanLogs(c) \/ ReadFails(c)
  \/ ReceiptSucceeded(c) \/ ReceiptReverted(c)
  \/ Verified(c) \/ NotVerified(c) \/ Journal(c)
  \/ SettleRefused(c) \/ Broadcast(c) \/ BroadcastLost(c)
  \/ Confirmed(c) \/ NotConfirmed(c)

Next ==
  \/ \E c \in Calls, a \in Authorizations, binding \in Bindings : Start(c, a, binding)
  \/ \E c \in Calls : CallStep(c)
  \/ Crash
  \/ \E tx \in DOMAIN txs : Mine(tx)
  \/ \E a \in Authorizations, kind \in Kinds \ {"settlement"} : UseOutside(a, kind)

Spec == Init /\ [][Next]_vars

-----------------------------------------------------------------------------
(* Properties.                                                              *)

CallRecords ==
  [phase : Finished \cup InProgress \cup {"idle"}, auth : Authorizations \cup {Nothing},
   binding : Bindings \cup {Nothing}, head : 0 .. MaxHeight, tx : TxIds \cup {NoTx}]
EntryRecords ==
  [binding : Bindings \cup {Nothing}, tx : TxIds \cup {NoTx}, block : 0 .. MaxHeight,
   failed : BOOLEAN, served : BOOLEAN]
TxRecords == [auth : Authorizations, kind : Kinds, state : {"pending", "success", "reverted"}]
UseRecords == [tx : TxIds \cup {NoTx}, block : 0 .. MaxHeight]

\* Every variable keeps its type.
TypeOK ==
  /\ calls \in [Calls -> CallRecords]
  /\ journal \in [Authorizations -> EntryRecords]
  /\ current \in Authorizations \cup {Nothing}
  /\ txs \in Seq(TxRecords) /\ Len(txs) <= MaxTxs
  /\ used \in [Authorizations -> UseRecords]
  /\ height \in 1 .. MaxHeight
  /\ crashes \in 0 .. MaxCrashes
  /\ lost \in 0 .. MaxLost

\* The transaction that used an authorization is of one of these kinds.
UsedBy(a, kinds) == used[a].tx # NoTx /\ txs[used[a].tx].kind \in kinds

\* The buyer has paid the seller, through the seller's transaction or another's.
Paid(a) == UsedBy(a, Kinds \ {"diverted"})

\* A request is served only against a transfer to the seller that was mined, for the
\* very request and signature the authorization was first presented with.
ServedIsPaid ==
  /\ \A a \in Authorizations :
       journal[a].served => Paid(a) /\ used[a].tx = journal[a].tx
  /\ \A c \in Calls :
       calls[c].phase = "served" => /\ journal[calls[c].auth].served
                                    /\ journal[calls[c].auth].binding = calls[c].binding

\* Each authorization buys the answer to the request it was first presented with:
\* reserved by its entry, charged by the seller's transfer, or by another's from the
\* moment the entry names it, sold once the entry says that it was served.
SaleReserved ==
  [a \in Authorizations |-> IF journal[a].binding = Nothing THEN {} ELSE {journal[a].binding}]

SaleCharged ==
  {a \in Authorizations : \/ UsedBy(a, {"settlement"})
                          \/ UsedBy(a, {"relayed"}) /\ journal[a].tx = used[a].tx}

SaleSold == {a \in Authorizations : journal[a].served}

SaleServed ==
  [c \in Calls |-> IF calls[c].phase # "served" THEN {}
                   ELSE {[auth |-> calls[c].auth, good |-> calls[c].binding]}]

Sale ==
  INSTANCE SalePromise WITH
    Customers <- Calls,
    Goods <- Bindings,
    reserved <- SaleReserved, charged <- SaleCharged, sold <- SaleSold, served <- SaleServed

\* The seller implements the abstract promise (payments.mjs:55-141): the entry
\* names a request before the seller charges the buyer, or credits a payment that
\* somebody else sent; it names it for good, however often it is written over, and
\* only this request is ever served, once paid to the seller.
SaleKept == Sale!Spec

\* What the seller itself has sent for an authorization.
Broadcasts(a) == {tx \in DOMAIN txs : txs[tx].auth = a /\ txs[tx].kind = "settlement"}

\* The transaction recorded for an authorization is a transfer of that
\* authorization, although this.current alone names the call that is broadcasting
\* (payments.mjs:56), and "a restart must never charge this nonce twice"
\* (payments.mjs:55): the seller broadcasts another transfer of the same
\* authorization only if the answer to an earlier broadcast was lost.
BroadcastsJournalled ==
  \A a \in Authorizations :
    /\ journal[a].tx # NoTx => txs[journal[a].tx].auth = a
    /\ Cardinality(Broadcasts(a)) <= 1 + lost

\* What a retry needs, once no call is under way: an entry that says for what the
\* buyer has paid, and that names the transaction which used the authorization, or
\* names none and starts the scan of AuthorizationUsed before it.
Recoverable(a) ==
  (\A c \in Calls : calls[c].auth = a => calls[c].phase \notin InProgress)
    => /\ journal[a].binding # Nothing
       /\ \/ journal[a].tx = used[a].tx
          \/ journal[a].tx = NoTx /\ journal[a].block <= used[a].block

\* payments.mjs:85, "recover a broadcast whose RPC response was lost": a buyer who
\* has paid is served by a retry.
PaymentRecoverable == \A a \in Authorizations : Paid(a) => Recoverable(a)

\* What does hold: as long as no answer to a broadcast was lost, every buyer whom
\* the seller's own transfer has charged is served by a retry, whatever crashes and
\* reverts, and whatever others send.  (One whose authorization somebody else used
\* first is not: see payments.mjs:90-92 and the README.)
RecoverableIfAnswered ==
  lost = 0 => \A a \in Authorizations : UsedBy(a, {"settlement"}) => Recoverable(a)
=============================================================================
