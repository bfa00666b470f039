---------------------------- MODULE PaidSelfTest ----------------------------
(***************************************************************************)
(* The paid self-test of the public service (scripts/verify-mcp-paid.mjs):  *)
(* one call of the MCP tool is paid from the test buyer's account, and its  *)
(* replay must not be charged.  The service (protocol/mcp.mjs) promises     *)
(* what VerificationPayments shows: a payment once, and the same answer to  *)
(* the same authorization.                                                  *)
(***************************************************************************)
EXTENDS Naturals, FiniteSets

CONSTANTS MaxCommands, MaxBalance   \* bounds

BoundsAreNumbers == {MaxCommands, MaxBalance} \subseteq Nat

VARIABLES state,      \* authorization.json: the authorization signed, its settlement
          evidence,   \* result.json is there
          at, commands,
          balance,    \* the buyer's, in fees
          afterFirst, \* what the command read of it after the payment
          signed,     \* authorizations signed
          posted,     \* those the service has been sent
          record,     \* the service's record of each
          charged     \* those whose transfer is on chain
vars == <<state, evidence, at, commands, balance, afterFirst, signed, posted, record, charged>>
files == <<state, evidence>>
service == <<posted, record, charged>>

NoState == [auth |-> 0, transaction |-> FALSE]
Init == /\ state = NoState /\ evidence = FALSE /\ at = "off" /\ commands = 0
        /\ balance \in 0..MaxBalance /\ afterFirst = 0 /\ signed = 0
        /\ posted = {} /\ record = [i \in 1..MaxCommands |-> "none"] /\ charged = {}

-----------------------------------------------------------------------------
(* The service and the buyer's other payments.                              *)

\* A valid call of the tool is answered by what the payment says: refused, it
\* leaves no record; settled, or of an outcome unknown, it is never asked again.
HandleMcp(auth) ==
  /\ auth \in posted /\ record[auth] = "none"
  /\ \/ posted' = posted \ {auth} /\ UNCHANGED <<record, charged, balance>>
     \/ /\ balance > 0 /\ record' = [record EXCEPT ![auth] = "complete"]
        /\ balance' = balance - 1 /\ charged' = charged \cup {auth} /\ UNCHANGED posted
     \/ /\ record' = [record EXCEPT ![auth] = "uncertain"] /\ UNCHANGED posted
        /\ \/ UNCHANGED <<balance, charged>>
           \/ balance > 0 /\ balance' = balance - 1 /\ charged' = charged \cup {auth}
  /\ UNCHANGED <<files, at, commands, afterFirst, signed>>
\* Another use of the buyer's account.
Spent == /\ balance > 0 /\ balance' = balance - 1
         /\ UNCHANGED <<files, at, commands, afterFirst, signed, service>>

-----------------------------------------------------------------------------
(* The command.                                                             *)

Goes(there) == at' = there

\* A completed test is only reported again.
Start ==
  /\ at = "off" /\ commands < MaxCommands /\ commands' = commands + 1
  /\ Goes(IF evidence THEN "off" ELSE "unsigned")
  /\ UNCHANGED <<files, balance, afterFirst, signed, service>>
\* The call without a payment must be answered by the challenge there is to sign.
Challenge ==
  /\ at = "unsigned" /\ Goes(IF state.auth # 0 THEN "pay" ELSE IF balance > 0 THEN "sign" ELSE "off")
  /\ UNCHANGED <<files, commands, balance, afterFirst, signed, service>>

\* "Persist before submission; retries reuse the same authorization."
Sign ==
  /\ at = "sign" /\ signed' = signed + 1 /\ state' = [NoState EXCEPT !.auth = signed + 1]
  /\ Goes("pay")
  /\ UNCHANGED <<evidence, commands, balance, afterFirst, service>>

Invoke == posted' = posted \cup {state.auth} /\ UNCHANGED <<record, charged>>
Pay ==
  /\ at = "pay" /\ Invoke /\ Goes("answer")
  /\ UNCHANGED <<files, commands, balance, afterFirst, signed>>
\* Any other status ends the command.
Paid ==
  /\ at = "answer"
  /\ IF record[state.auth] = "complete" THEN Goes("receipt") /\ state' = [state EXCEPT !.transaction = TRUE]
     ELSE (state.auth \notin posted \/ record[state.auth] = "uncertain") /\ Goes("off") /\ UNCHANGED state
  /\ UNCHANGED <<evidence, commands, balance, afterFirst, signed, service>>
\* The transfer is on chain; the balance after it.
Receipt ==
  /\ at = "receipt" /\ state.auth \in charged /\ Goes("replay") /\ afterFirst' = balance
  /\ UNCHANGED <<files, commands, balance, signed, service>>
\* The same authorization again: the cached answer, and no other charge.
Replay ==
  /\ at = "replay" /\ Invoke /\ record[state.auth] = "complete" /\ Goes("off")
  /\ evidence' = (balance = afterFirst)
  /\ UNCHANGED <<state, commands, balance, afterFirst, signed>>
\* The command is stopped, times out or fails.
Stop == /\ at # "off" /\ Goes("off")
        /\ UNCHANGED <<files, commands, balance, afterFirst, signed, service>>

Next == \/ \E auth \in posted : HandleMcp(auth)
        \/ Spent \/ Start \/ Challenge \/ Sign \/ Pay \/ Paid \/ Receipt \/ Replay \/ Stop
Spec == Init /\ [][Next]_vars

-----------------------------------------------------------------------------
TypeOK ==
  /\ state.auth \in 0..signed /\ {state.transaction, evidence} \subseteq BOOLEAN
  /\ at \in {"off", "unsigned", "sign", "pay", "answer", "receipt", "replay"}
  /\ balance \in 0..MaxBalance /\ afterFirst \in 0..MaxBalance /\ commands \in 0..MaxCommands
  /\ posted \subseteq 1..signed /\ record \in [1..MaxCommands -> {"none", "complete", "uncertain"}]

\* However often the test is cut off, timed out and run again, the buyer is
\* charged for one authorization, and the evidence says so only of a charge that
\* the service has recorded as settled (verify-mcp-paid.mjs:67-80, 89-107).
PaidOnce == /\ Cardinality(charged) <= 1
            /\ evidence => state.transaction /\ charged = {state.auth} /\ record[state.auth] = "complete"
=============================================================================
