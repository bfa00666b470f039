------------------------ MODULE DeliveryVerification ------------------------
(***************************************************************************)
(* The evidence verifier (protocol/verification.mjs): a call reads a        *)
(* receipt and the head, then the receipt's block, the escrow's job and the *)
(* delivery, each at another time, from a chain that grows and reorganises, *)
(* from replicas that lag and from gateways that may answer other bytes.    *)
(***************************************************************************)
EXTENDS Naturals, Sequences, FiniteSets

CONSTANTS Calls, Capacity,              \* calls, and how many run at once (8 in the code)
          Requests,                     \* what calls ask for
          MaxHeight, MaxForks, MaxLag   \* bounds

BoundsAreNumbers == {MaxHeight, MaxForks} \subseteq Nat \ {0} /\ Capacity \in Nat

VARIABLES chain,   \* blocks: their fork, the transaction in question, the job's deliverable
          forks,
          facts,   \* what the transaction's logs and the delivery's content are
          call
vars == <<chain, forks, facts, call>>

Options == {"payment", "allowance", "job", "manifest", "digest"}
\* verificationInput: an expected digest requires the manifest it is the digest of.
ValidInput(asked) == "digest" \in asked => "manifest" \in asked

NoReceipt == [height |-> 0]
Idle == [at |-> "idle", asked |-> {}, receipt |-> NoReceipt, head |-> 0, failed |-> {},
         warned |-> FALSE, verdict |-> "none", calm |-> TRUE]
Block(fork, tx, deliverable) == [fork |-> fork, tx |-> tx, deliverable |-> deliverable]
Including(blocks) == {n \in DOMAIN blocks : blocks[n].tx # "none"}

\* Chains the escrow can have: the transaction is in at most one block, and a
\* deliverable, once submitted, stays.
Possible(blocks) ==
  /\ Cardinality(Including(blocks)) <= 1
  /\ \A n \in 1..(Len(blocks) - 1) : blocks[n].deliverable => blocks[n + 1].deliverable
NewBlocks(fork) == {Block(fork, tx, d) : tx \in {"none", "succeeded", "reverted"}, d \in BOOLEAN}

Init == /\ chain = <<Block(1, "none", FALSE)>> /\ forks = 1
        /\ facts \in SUBSET {"pays", "bound", "manifest names the job"}
        /\ call = [c \in Calls |-> Idle]

Grow ==
  /\ Len(chain) < MaxHeight
  /\ \E b \in NewBlocks(forks) : Possible(Append(chain, b)) /\ chain' = Append(chain, b)
  /\ UNCHANGED <<forks, facts, call>>

\* Blocks are replaced; a call that has compared its receipt with its block is
\* not told ("Confirmations are observations, not a finality guarantee").
Compared(s) == s.at \in {"job", "manifest", "manifest of the job", "verdict", "reported"}
Reorganise ==
  /\ forks < MaxForks /\ forks' = forks + 1
  /\ \E n \in 2..Len(chain), b \in NewBlocks(forks + 1) :
       LET blocks == [k \in 1..n |-> IF k < n THEN chain[k] ELSE b] IN
       Possible(blocks) /\ chain' = blocks
  /\ call' = [c \in Calls |-> [call[c] EXCEPT !.calm = @ /\ ~Compared(call[c])]]
  /\ UNCHANGED facts

-----------------------------------------------------------------------------
Becomes(c, s) == call' = [call EXCEPT ![c] = s] /\ UNCHANGED <<chain, forks, facts>>
Active == {c \in Calls : call[c].at \notin {"idle", "reported"}}

\* A mutant: one call more than the capacity.
VerifyDelivery_OneTooMany(c, asked) ==
  /\ ValidInput(asked) /\ c \notin Active /\ Cardinality(Active) <= Capacity
  /\ Becomes(c, [Idle EXCEPT !.at = "receipt", !.asked = asked])

\* Busy beyond the capacity; the slot is given back in every case.
VerifyDelivery(c, asked) ==
  /\ ValidInput(asked) /\ c \notin Active /\ Cardinality(Active) < Capacity
  /\ Becomes(c, [Idle EXCEPT !.at = "receipt", !.asked = asked])

\* The receipt and the head are read in parallel, here in either order.
Receipt == IF Including(chain) = {} THEN NoReceipt
           ELSE LET n == CHOOSE k \in Including(chain) : TRUE
                IN [height |-> n, fork |-> chain[n].fork, status |-> chain[n].tx]
ReadReceipt(c) ==
  /\ call[c].at \in {"receipt", "receipt after head"}
  /\ \E r \in {Receipt, NoReceipt} :
       Becomes(c, [call[c] EXCEPT !.receipt = r, !.at = IF @ = "receipt" THEN "head" ELSE "block"])
ReadHead(c) ==
  /\ call[c].at \in {"receipt", "head"}
  /\ \E lag \in 0..MaxLag :
       /\ Len(chain) > lag
       /\ Becomes(c, [call[c] EXCEPT !.head = Len(chain) - lag,
                      !.at = IF @ = "receipt" THEN "receipt after head" ELSE "block"])

Failing(checks) == {name \in DOMAIN checks : ~checks[name]}
\* A mutant: the receipt's block is not compared with the chain's.
ReceiptChecks_AnyBlock(s) ==
  [executionSucceeded |-> s.receipt.status = "succeeded",
   includedAtSnapshot |-> s.receipt.height <= s.head,
   expectedPayment |-> "payment" \in s.asked => "pays" \in facts]

\* The checks of a receipt against the block that has its number now.
ReceiptChecks(s) ==
  [executionSucceeded |-> s.receipt.status = "succeeded",
   canonicalBlock |-> s.receipt.height <= Len(chain) /\ chain[s.receipt.height].fork = s.receipt.fork,
   includedAtSnapshot |-> s.receipt.height <= s.head,
   expectedPayment |-> "payment" \in s.asked => "pays" \in facts]

\* Without a receipt the report is final; an allowance that cannot be read is a warning.
ReadBlock(c) ==
  /\ call[c].at = "block"
  /\ IF call[c].receipt = NoReceipt
     THEN Becomes(c, [call[c] EXCEPT !.failed = {"receiptFound"}, !.at = "verdict"])
     ELSE \E unread \in IF "allowance" \in call[c].asked THEN BOOLEAN ELSE {FALSE} :
            Becomes(c, [call[c] EXCEPT !.failed = Failing(ReceiptChecks(call[c])),
                        !.receipt = NoReceipt, !.warned = unread, !.at = "job"])

\* The bound job at the snapshot block; without a binding event it is not read.
ReadJob(c) ==
  LET s == call[c] IN
  /\ s.at = "job"
  /\ IF "job" \in s.asked /\ "bound" \in facts
     THEN /\ s.head <= Len(chain)
          /\ Becomes(c, [s EXCEPT !.at = IF chain[s.head].deliverable THEN "manifest of the job" ELSE "manifest"])
     ELSE Becomes(c, [s EXCEPT !.at = "manifest",
                      !.failed = @ \cup IF "job" \in s.asked THEN {"transactionJob"} ELSE {}])

\* Gateways answer with the named bytes or with others.
DeliveryChecks(s, manifestBytes, documentBytes) ==
  [manifestCID |-> manifestBytes, expectedDigest |-> "digest" \in s.asked => manifestBytes,
   jobDeliveryDigest |-> "job" \in s.asked => s.at = "manifest of the job" /\ manifestBytes,
   manifestJob |-> "job" \in s.asked => "manifest names the job" \in facts,
   document |-> documentBytes]
ReadDelivery(c) ==
  LET s == call[c] IN
  /\ s.at \in {"manifest", "manifest of the job"}
  /\ IF "manifest" \in s.asked
     THEN \E m, d \in BOOLEAN :
            Becomes(c, [s EXCEPT !.failed = @ \cup Failing(DeliveryChecks(s, m, d)), !.at = "verdict",
                        !.warned = @ \/ "job" \notin s.asked])
     ELSE Becomes(c, [s EXCEPT !.at = "verdict"])

Report(c) ==
  /\ call[c].at = "verdict"
  /\ Becomes(c, [call[c] EXCEPT !.at = "reported", !.failed = {}, !.warned = FALSE,
       !.verdict = IF call[c].failed # {} THEN "FAIL" ELSE IF call[c].warned THEN "WARNING" ELSE "PASS"])

\* An RPC or gateway error, or the 40 second limit: the call is answered "unavailable".
Unavailable(c) == c \in Active /\ Becomes(c, Idle)

Next == \/ Grow \/ Reorganise
        \/ \E c \in Calls :
             \/ \E asked \in Requests : VerifyDelivery(c, asked)
             \/ ReadReceipt(c) \/ ReadHead(c) \/ ReadBlock(c) \/ ReadJob(c) \/ ReadDelivery(c)
             \/ Report(c) \/ Unavailable(c)
Spec == Init /\ [][Next]_vars

-----------------------------------------------------------------------------
TypeOK ==
  /\ Len(chain) \in 1..MaxHeight /\ Possible(chain) /\ forks \in 1..MaxForks
  /\ Cardinality(Active) <= Capacity
  /\ \A c \in Calls : /\ call[c].asked \in Requests \cup {{}} /\ call[c].head \in 0..MaxHeight
                      /\ call[c].verdict \in {"none", "PASS", "WARNING", "FAIL"}

\* A report that does not fail is true of the chain, although each of its facts
\* was read at another time and perhaps from another replica: unless blocks were
\* replaced after the receipt was compared with its block, the chain holds the
\* successful transaction at or before the snapshot block, its logs the payment
\* and the job's event, and the job of that block the digest of a delivery whose
\* manifest names the job (verification.mjs:148-262).
VerifiedIsTrue ==
  \A c \in Calls : LET s == call[c] IN
    s.verdict \in {"PASS", "WARNING"} /\ s.calm =>
      /\ \E n \in Including(chain) : n <= s.head /\ chain[n].tx = "succeeded"
      /\ "payment" \in s.asked => "pays" \in facts
      /\ "job" \in s.asked => "bound" \in facts
      /\ {"job", "manifest"} \subseteq s.asked => chain[s.head].deliverable /\ "manifest names the job" \in facts
=============================================================================
