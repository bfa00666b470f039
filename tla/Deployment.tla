----------------------------- MODULE Deployment -----------------------------
(***************************************************************************)
(* The deployment commands of an operator: deploy and resume of the       *)
(* mainnet canary (protocol/mainnet-canary.mjs) and of the testnet         *)
(* (protocol/chain.mjs), and the registration of the testnet agents.  A    *)
(* command keeps its records in memory and checkpoints them in a progress  *)
(* file; it may stop anywhere, and the next command continues from the     *)
(* files.  The chain mines, reverts, reorganises and drops transactions.   *)
(***************************************************************************)
EXTENDS Naturals, Sequences, FiniteSets

CONSTANTS Reviewed, Other,   \* addresses of two tokens deployed by others
          MaxCommands,       \* bound: commands started
          MaxFaults,         \* bound: reorganisations and dropped transactions
          MaxTxs             \* bound: transactions of the deployer

\* The addresses this deployer creates are its nonces.
TokensAreOutside ==
  {Reviewed, Other, MaxTxs} \subseteq Nat /\ Reviewed # Other /\ {Reviewed, Other} \cap 0..MaxTxs = {}

VARIABLES network,   \* the profile the operator works with
          token,     \* PAYMENT_TOKEN_ADDRESS, or Unset
          txs,       \* the deployer's transactions, in the order they were sent
          progress,  \* the records of the progress file; <<>>: no such file
          manifest,  \* the deployment manifest; its records are <<>>: no such file
          command,   \* the command that runs, with the records it has in memory
          lost,      \* history: transactions whose command stopped before recording them
          commands, faults
vars == <<network, token, txs, progress, manifest, command, lost, commands, faults>>

Unset == 0
Identity == "IdentityRegistryUpgradeable"
Proxy == "ERC1967Proxy"
Escrow == "Escrow"
Slugs == <<"buyer", "text-analysis">>
CanarySteps == <<Identity, Proxy, Escrow>>
Steps(t) == IF network = "xlayer-mainnet" THEN CanarySteps
            ELSE <<Identity, Proxy>> \o (IF t = Unset THEN <<"DemoUSD">> ELSE <<>>) \o <<Escrow>>

NoManifest == [records |-> <<>>, token |-> Unset, agents |-> <<>>]
Idle == [at |-> "idle", token |-> Unset, done |-> 0, records |-> <<>>, tx |-> 0]
Hashes(records) == {records[i].hash : i \in DOMAIN records}
AddressOf(records, step) == LET i == CHOOSE n \in DOMAIN records : records[n].step = step
                            IN records[i].address

Init == /\ network \in {"xlayer-mainnet", "xlayer-testnet"}
        /\ token \in {Unset, Reviewed}
        /\ txs = <<>> /\ progress = <<>> /\ manifest = NoManifest /\ command = Idle
        /\ lost = {} /\ commands = 0 /\ faults = 0

-----------------------------------------------------------------------------
(* The chain.  An address is created from the sender's nonce, so a         *)
(* transaction sent after a dropped one takes the address of that one.     *)

Live == {i \in DOMAIN txs : txs[i].st # "dropped"}
Nonce == Cardinality(Live) + 1

Sent(step, args) ==
  /\ Len(txs) < MaxTxs
  /\ \E ok \in BOOLEAN :
       txs' = Append(txs, [step |-> step, args |-> args, address |-> Nonce, ok |-> ok, st |-> "pending"])

Mine(i) ==
  /\ i \in Live /\ txs[i].st = "pending"
  /\ \A j \in Live : j < i => txs[j].st = "mined"
  /\ txs' = [txs EXCEPT ![i].st = "mined"]
  /\ UNCHANGED <<network, token, progress, manifest, command, lost, commands, faults>>

Reorganised(i) ==
  /\ faults < MaxFaults /\ i \in Live /\ txs[i].st = "mined"
  /\ \A j \in Live : j > i => txs[j].st = "pending"
  /\ txs' = [txs EXCEPT ![i].st = "pending"]
  /\ faults' = faults + 1
  /\ UNCHANGED <<network, token, progress, manifest, command, lost, commands>>

Dropped(i) ==
  /\ faults < MaxFaults /\ i \in Live /\ txs[i].st = "pending" /\ \A j \in Live : j <= i
  /\ txs' = [txs EXCEPT ![i].st = "dropped"]
  /\ faults' = faults + 1
  /\ UNCHANGED <<network, token, progress, manifest, command, lost, commands>>

-----------------------------------------------------------------------------
(* deploy and resume.  deploy refuses a progress file and resume needs one,*)
(* so the command that is not refused starts from the file's records.      *)

Configure(t) ==
  /\ command = Idle /\ token # t /\ token' = t
  /\ UNCHANGED <<network, txs, progress, manifest, command, lost, commands, faults>>

\* requireCanaryEnvironment, readToken and checkedLimits accept only the reviewed token.
CanaryEnvironment == token = Reviewed
IsPrefix(records, steps) == Len(records) <= Len(steps)
                            /\ \A i \in DOMAIN records : records[i].step = steps[i]

Starts(accepted) ==
  /\ command = Idle /\ commands < MaxCommands
  /\ manifest = NoManifest
  /\ accepted
  /\ IsPrefix(progress, Steps(token))
  /\ command' = [Idle EXCEPT !.at = "make", !.token = token, !.records = progress]
  /\ commands' = commands + 1
  /\ UNCHANGED <<network, token, txs, progress, manifest, lost, faults>>

CanaryStarts == network = "xlayer-mainnet" /\ Starts(CanaryEnvironment)
TestnetStarts == network = "xlayer-testnet" /\ Starts(TRUE)

Next0 == command.done + 1
Step == Steps(command.token)[Next0]
Args == IF Step = Proxy THEN <<AddressOf(command.records, Identity)>>
        ELSE IF Step = Escrow
        THEN <<IF command.token = Unset THEN AddressOf(command.records, "DemoUSD") ELSE command.token,
               AddressOf(command.records, Proxy)>>
        ELSE <<>>

\* make, with a record of an earlier command: the transaction must be the one
\* this command would send, mined, successful, and at the recorded address.
VerifyDeploymentRecord(record) ==
  LET tx == txs[record.hash] IN
  tx.args = Args /\ tx.st = "mined" /\ tx.ok /\ tx.address = record.address

Reuse ==
  /\ command.at = "make" /\ Next0 <= Len(command.records)
  /\ VerifyDeploymentRecord(command.records[Next0])
  /\ progress' = command.records
  /\ command' = [command EXCEPT !.done = Next0]
  /\ UNCHANGED <<network, token, txs, manifest, lost, commands, faults>>

\* make, without a record: factory.deploy sends ...
Deploy ==
  /\ command.at = "make" /\ command.done = Len(command.records) /\ Next0 <= Len(Steps(command.token))
  /\ Sent(Step, Args)
  /\ command' = [command EXCEPT !.at = "sent", !.tx = Len(txs) + 1]
  /\ UNCHANGED <<network, token, progress, manifest, lost, commands, faults>>

\* A mutant: the record is written only with its receipt.
Checkpoint_AfterTheReceipt ==
  /\ command.at = "sent"
  /\ progress' = progress
  /\ command' = [command EXCEPT !.at = "wait",
       !.records = Append(@, [step |-> Step, address |-> txs[command.tx].address, hash |-> command.tx])]
  /\ UNCHANGED <<network, token, txs, manifest, lost, commands, faults>>

\* ... the record is pushed and checkpointed ...
Checkpoint ==
  /\ command.at = "sent"
  /\ progress' = Append(command.records,
                        [step |-> Step, address |-> txs[command.tx].address, hash |-> command.tx])
  /\ command' = [command EXCEPT !.at = "wait", !.records = progress']
  /\ UNCHANGED <<network, token, txs, manifest, lost, commands, faults>>

\* ... and confirmed waits for a receipt of status 1.
Succeeded(tx) == txs[tx].st = "mined" /\ txs[tx].ok
Confirmed ==
  /\ command.at = "wait" /\ Succeeded(command.tx)
  /\ progress' = command.records
  /\ command' = [command EXCEPT !.at = "make", !.done = Next0]
  /\ UNCHANGED <<network, token, txs, manifest, lost, commands, faults>>

WriteManifest ==
  /\ command.at = "make" /\ command.done = Len(Steps(command.token))
  /\ manifest' = [records |-> command.records, agents |-> <<>>,
                  token |-> IF command.token = Unset THEN AddressOf(command.records, "DemoUSD")
                            ELSE command.token]
  /\ command' = [command EXCEPT !.at = "unlink"]
  /\ UNCHANGED <<network, token, txs, progress, lost, commands, faults>>

UnlinkProgress ==
  /\ command.at = "unlink"
  /\ progress' = <<>> /\ command' = Idle
  /\ UNCHANGED <<network, token, txs, manifest, lost, commands, faults>>

\* A read that stays empty (visibleRead), a refused send, a missing or failed receipt, or a crash.
Stops ==
  /\ command # Idle
  /\ lost' = IF command.at \in {"sent", "registering"} THEN lost \cup {command.tx} ELSE lost
  /\ command' = Idle
  /\ UNCHANGED <<network, token, txs, progress, manifest, commands, faults>>

-----------------------------------------------------------------------------
(* What a reader checks of a manifest: checkedDeployment, and the receipts  *)
(* as verifyMainnetCanary does.                                             *)

CodeAt(address) == \E i \in Live : txs[i].address = address /\ txs[i].st = "mined" /\ txs[i].ok
EscrowTx == txs[CHOOSE i \in Live : txs[i].address = AddressOf(manifest.records, Escrow)]
CheckedDeployment ==
  /\ \A step \in {Identity, Proxy, Escrow} : CodeAt(AddressOf(manifest.records, step))
  /\ EscrowTx.args = <<manifest.token, AddressOf(manifest.records, Proxy)>>
VerifyMainnetCanary ==
  /\ CheckedDeployment
  /\ \A i \in DOMAIN manifest.records : LET record == manifest.records[i] IN
       txs[record.hash].st = "mined" /\ txs[record.hash].ok /\ txs[record.hash].address = record.address

\* registerAgents: one registration for each agent the manifest does not list yet.
RegisterStarts ==
  /\ network = "xlayer-testnet" /\ command = Idle /\ commands < MaxCommands
  /\ manifest # NoManifest /\ CheckedDeployment
  /\ command' = [Idle EXCEPT !.at = "register"]
  /\ commands' = commands + 1
  /\ UNCHANGED <<network, token, txs, progress, manifest, lost, faults>>

Register ==
  /\ command.at = "register" /\ Len(manifest.agents) < Len(Slugs)
  /\ Sent(Slugs[Len(manifest.agents) + 1], <<>>)
  /\ command' = [command EXCEPT !.at = "registering", !.tx = Len(txs) + 1]
  /\ UNCHANGED <<network, token, progress, manifest, lost, commands, faults>>

Registered ==
  /\ command.at = "registering" /\ Succeeded(command.tx)
  /\ manifest' = [manifest EXCEPT !.agents =
                    Append(@, [step |-> txs[command.tx].step, hash |-> command.tx])]
  /\ command' = IF Len(manifest'.agents) = Len(Slugs) THEN Idle ELSE [command EXCEPT !.at = "register"]
  /\ UNCHANGED <<network, token, txs, progress, lost, commands, faults>>

Next == \/ CanaryStarts \/ TestnetStarts \/ Reuse \/ Deploy \/ Checkpoint \/ Confirmed
        \/ WriteManifest \/ UnlinkProgress \/ Stops
        \/ RegisterStarts \/ Register \/ Registered
        \/ \E t \in {Unset, Reviewed, Other} : Configure(t)
        \/ \E i \in DOMAIN txs : Mine(i) \/ Reorganised(i) \/ Dropped(i)
Spec == Init /\ [][Next]_vars

-----------------------------------------------------------------------------
TypeOK ==
  /\ network \in {"xlayer-mainnet", "xlayer-testnet"} /\ token \in {Unset, Reviewed, Other}
  /\ \A i \in DOMAIN txs : txs[i].address \in 1..MaxTxs /\ txs[i].st \in {"pending", "mined", "dropped"}
  /\ \A r \in {progress, manifest.records, command.records} : \A i \in DOMAIN r :
       r[i].hash \in DOMAIN txs /\ r[i].address = txs[r[i].hash].address
  /\ command.at \in {"idle", "make", "sent", "wait", "unlink", "register", "registering"}
  /\ command.done <= Len(command.records) /\ command.tx \in 0..Len(txs) /\ lost \subseteq DOMAIN txs

\* A manifest describes one deployment, whatever stops, resumptions and changes
\* of configuration led to it: when none of its transactions is unmined, every
\* recorded contract exists at its recorded address, the proxy runs the recorded
\* implementation and the escrow holds the recorded token and registry.
ManifestVerifies ==
  manifest # NoManifest /\ (\A h \in Hashes(manifest.records) : txs[h].st = "mined") =>
    /\ VerifyMainnetCanary
    /\ txs[manifest.records[2].hash].args = <<AddressOf(manifest.records, Identity)>>
    /\ network = "xlayer-mainnet" => manifest.token = Reviewed

\* A contract is created, or an agent registered, a second time only after a
\* command stopped between the sending of the first transaction and its record
\* (chain.mjs:124, mainnet-canary.mjs:252): a resumption never repeats a recorded one.
SentOnceUnlessLost ==
  \A i, j \in DOMAIN txs : txs[i].step = txs[j].step /\ i # j => i \in lost \/ j \in lost
=============================================================================
