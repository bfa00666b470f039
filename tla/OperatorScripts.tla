--------------------------- MODULE OperatorScripts ---------------------------
(***************************************************************************)
(* The acceptance run on the test network (scripts/demo-testnet.mjs): a     *)
(* payment, transactions of the buyer and a delivery by the service.  The   *)
(* command may stop anywhere and is run again with its journal; each signed *)
(* transaction is in the journal before it is sent.                         *)
(***************************************************************************)
EXTENDS Naturals, FiniteSets

CONSTANTS Steps,        \* transactions of the buyer; the delivery comes after step Funded
          Funded,
          MaxCommands, MaxTxs, MaxSubmits, MaxOutside   \* bounds

DeliveryAfterAStep ==
  Steps \in Nat /\ Funded \in 1..Steps /\ {MaxCommands, MaxTxs, MaxSubmits, MaxOutside} \subseteq Nat

VARIABLES file, journal,   \* the journal on disk, and in the command's memory
          at, step,        \* where the command is
          commands,
          txs,             \* the buyer's transactions by number: their step, nonce and fate
          nonce,           \* of the buyer on chain
          outside,         \* transactions of the same account by others
          signatures, charged,   \* payment signatures made, and charged by the service
          submits, waits   \* the service's submit transactions, and the one the command waits for
vars == <<file, journal, at, step, commands, txs, nonce, outside, signatures, charged, submits, waits>>
chain == <<txs, nonce, outside>>
service == <<charged, submits>>

Empty == [entry |-> [k \in 1..Steps |-> 0], signature |-> 0, payment |-> FALSE, submission |-> 0, completed |-> FALSE]
NoTx == [step |-> 0, nonce |-> 0, is |-> "unused"]
Init == /\ file = Empty /\ journal = Empty /\ at = "off" /\ step = 1 /\ commands = 0
        /\ txs = [t \in 1..MaxTxs |-> NoTx] /\ nonce = 0 /\ outside = 0
        /\ signatures = 0 /\ charged = {} /\ submits = [s \in 1..MaxSubmits |-> "unused"] /\ waits = 0

Save(j) == journal' = j /\ file' = j
Goes(there) == at' = there

-----------------------------------------------------------------------------
(* The chain: the account's nonces in order; the pool may forget.            *)

Mine(t) ==
  /\ txs[t].is = "pool" /\ txs[t].nonce = nonce /\ nonce' = nonce + 1
  /\ txs' = [txs EXCEPT ![t].is = "mined"]
  /\ UNCHANGED <<file, journal, at, step, commands, outside, signatures, service, waits>>
Forget(t) ==
  /\ txs[t].is = "pool" /\ txs' = [txs EXCEPT ![t].is = "signed"]
  /\ UNCHANGED <<file, journal, at, step, commands, nonce, outside, signatures, service, waits>>
OutsideTx ==
  /\ outside < MaxOutside /\ outside' = outside + 1 /\ nonce' = nonce + 1
  /\ UNCHANGED <<file, journal, at, step, commands, txs, signatures, service, waits>>
SubmitMined(s) ==
  /\ submits[s] = "pending"
  /\ submits' = [submits EXCEPT ![s] = IF \E k \in DOMAIN submits : submits[k] = "mined" THEN "reverted" ELSE "mined"]
  /\ UNCHANGED <<file, journal, at, step, commands, chain, signatures, charged, waits>>

-----------------------------------------------------------------------------
(* The command.                                                              *)

Start ==
  /\ at = "off" /\ commands < MaxCommands /\ commands' = commands + 1
  /\ ~file.completed /\ journal' = file /\ Goes("payment") /\ step' = 1 /\ waits' = 0
  /\ UNCHANGED <<file, chain, signatures, service>>
Stop ==
  /\ at # "off" /\ Goes("off")
  /\ UNCHANGED <<file, journal, step, commands, chain, signatures, service, waits>>

\* The signature is in the journal before the paid request, and used again.
SignPayment ==
  /\ at = "payment" /\ ~journal.payment /\ journal.signature = 0
  /\ signatures' = signatures + 1 /\ Save([journal EXCEPT !.signature = signatures + 1])
  /\ UNCHANGED <<at, step, commands, chain, service, waits>>
\* The service charges a signature once, whether or not its answer arrives.
Charge ==
  /\ at = "payment" /\ ~journal.payment /\ journal.signature # 0
  /\ charged' = charged \cup {journal.signature} /\ Goes("charged")
  /\ UNCHANGED <<file, journal, step, commands, chain, signatures, submits, waits>>
Paid ==
  \/ /\ at = "charged" /\ Save([journal EXCEPT !.payment = TRUE]) /\ Goes("replay")
     /\ UNCHANGED <<step, commands, chain, signatures, service, waits>>
  \/ /\ at = "payment" /\ journal.payment /\ Goes("replay")
     /\ UNCHANGED <<file, journal, step, commands, chain, signatures, service, waits>>
\* The paid request is sent again, and recovered by a copy of the service's
\* journal, in every command that gets this far.
Replay ==
  /\ at = "replay" /\ charged' = charged \cup {journal.signature} /\ Goes("write")
  /\ UNCHANGED <<file, journal, step, commands, chain, signatures, submits, waits>>

Used == {txs[journal.entry[k]].nonce + 1 : k \in {k \in 1..Steps : journal.entry[k] # 0}}
Largest(S) == CHOOSE n \in S : \A m \in S : m <= n
Unused(t) == txs[t].is = "unused" /\ \A u \in 1..(t - 1) : txs[u].is # "unused"
Signs(t, count) == txs' = [txs EXCEPT ![t] = [step |-> step, nonce |-> Largest({count} \cup Used), is |-> "signed"]]

\* A mutant: the signed transaction is saved with its receipt.
Sign_NotSaved(t, count) ==
  /\ at = "write" /\ journal.entry[step] = 0 /\ Unused(t) /\ count \in 0..nonce
  /\ Signs(t, count) /\ journal' = [journal EXCEPT !.entry[step] = t]
  /\ UNCHANGED <<file, at, step, commands, nonce, outside, signatures, service, waits>>

\* A step without an entry is signed, with a nonce above those of the journal
\* whatever a lagging node counts, and saved.
Sign(t, count) ==
  /\ at = "write" /\ journal.entry[step] = 0 /\ Unused(t) /\ count \in 0..nonce
  /\ Signs(t, count) /\ Save([journal EXCEPT !.entry[step] = t])
  /\ UNCHANGED <<at, step, commands, nonce, outside, signatures, service, waits>>

\* The saved transaction is sent unless the node knows it; an error is fatal
\* unless the node knows it then.
Broadcast ==
  LET t == journal.entry[step] IN
  /\ at = "write" /\ t # 0
  /\ IF txs[t].is # "signed" THEN Goes("receipt") /\ UNCHANGED txs
     ELSE \/ txs[t].nonce >= nonce /\ txs' = [txs EXCEPT ![t].is = "pool"] /\ at' \in {"receipt", "off"}
          \/ Goes("off") /\ UNCHANGED txs
  /\ UNCHANGED <<file, journal, step, commands, nonce, outside, signatures, service, waits>>

\* The order of the script: the delivery comes after the step that funds its job.
After(k) == IF k = Funded THEN "delivery" ELSE IF k = Steps THEN "evidence" ELSE "write"

Receipt ==
  /\ at = "receipt" /\ txs[journal.entry[step]].is = "mined" /\ Save(journal)
  /\ step' = (IF step < Steps THEN step + 1 ELSE step)
  /\ Goes(After(step))
  /\ UNCHANGED <<commands, chain, signatures, service, waits>>

Submitted == {s \in DOMAIN submits : submits[s] = "mined"}
\* A funded job is executed by the service, which submits; of one submitted
\* already the original submission is recovered from the chain.
ExecuteJob(s) ==
  /\ at = "delivery" /\ journal.submission = 0 /\ Submitted = {} /\ submits[s] = "unused"
  /\ submits' = [submits EXCEPT ![s] = "pending"] /\ waits' = s /\ Goes("executing")
  /\ UNCHANGED <<file, journal, step, commands, chain, signatures, charged>>
Executed ==
  /\ at = "executing" /\ submits[waits] # "pending" /\ waits' = 0
  /\ IF submits[waits] = "mined" THEN Save([journal EXCEPT !.submission = waits]) /\ Goes("delivery")
     ELSE Goes("off") /\ UNCHANGED <<file, journal>>
  /\ UNCHANGED <<step, commands, chain, signatures, service>>
RecoverSubmission(s) ==
  /\ at = "delivery" /\ journal.submission = 0 /\ s \in Submitted
  /\ Save([journal EXCEPT !.submission = s])
  /\ UNCHANGED <<at, step, commands, chain, signatures, service, waits>>
Delivered ==
  /\ at = "delivery" /\ journal.submission # 0 /\ Goes(IF step = Funded THEN "evidence" ELSE "write")
  /\ UNCHANGED <<file, journal, step, commands, chain, signatures, service, waits>>

\* Every receipt is read again before the evidence and the end are written.
Complete ==
  /\ at = "evidence" /\ \A k \in 1..Steps : txs[journal.entry[k]].is = "mined"
  /\ Save([journal EXCEPT !.completed = TRUE]) /\ Goes("off")
  /\ UNCHANGED <<step, commands, chain, signatures, service, waits>>

Next == \/ \E t \in 1..MaxTxs : Mine(t) \/ Forget(t) \/ \E count \in 0..nonce : Sign(t, count)
        \/ OutsideTx \/ Start \/ Stop \/ SignPayment \/ Charge \/ Paid \/ Replay \/ Broadcast \/ Receipt
        \/ \E s \in 1..MaxSubmits : SubmitMined(s) \/ ExecuteJob(s) \/ RecoverSubmission(s)
        \/ Executed \/ Delivered \/ Complete
Spec == Init /\ [][Next]_vars

-----------------------------------------------------------------------------
TypeOK ==
  /\ \A k \in 1..Steps : file.entry[k] \in 0..MaxTxs /\ journal.entry[k] \in 0..MaxTxs
  /\ at \in {"off", "payment", "charged", "replay", "write", "receipt", "delivery", "executing", "evidence"}
  /\ step \in 1..Steps /\ waits \in 0..MaxSubmits /\ commands \in 0..MaxCommands
  /\ \A t \in 1..MaxTxs : txs[t].is \in {"unused", "signed", "pool", "mined"}

\* "A retry resumes the same payment and transaction hashes": over all commands,
\* each step is mined once at most, one payment is charged, the submission of the
\* journal is the one the chain has, and evidence is written of a run all of
\* which happened (demo-testnet.mjs:12-13, 64-107, 151-162, 183-199).
ScriptsSound ==
  /\ \A t, u \in 1..MaxTxs : txs[t].is = "mined" /\ txs[u].is = "mined" /\ txs[t].step = txs[u].step => t = u
  /\ Cardinality(charged) <= 1
  /\ file.submission # 0 => submits[file.submission] = "mined"
  /\ file.completed => /\ \A k \in 1..Steps : \E t \in 1..MaxTxs : txs[t].step = k /\ txs[t].is = "mined"
                       /\ charged # {} /\ Submitted # {}
=============================================================================
