--------------------------- MODULE OperatorProofs ---------------------------
(***************************************************************************)
(* What TLAPS proves of the commands of the operators that stand side by    *)
(* side in MCComponents: the deployment commands, for any number of         *)
(* commands, transactions, reorganisations and drops, and the scripts that  *)
(* pay, fund, swap, update and test, for any number of commands and stops;  *)
(* and the types of both.                                                   *)
(***************************************************************************)
EXTENDS MCComponents, Integers, Sequences, FiniteSetTheorems, SequenceTheorems, TLAPS

-----------------------------------------------------------------------------
(* Deployment: what the transactions, the records and the manifest know of   *)
(* one another.                                                              *)

Tokens == {Deploy!Unset, Reviewed, Other}
Contracts == {Deploy!Identity, Deploy!Proxy, "DemoUSD", Deploy!Escrow}
StepNames == Contracts \cup {"buyer", "text-analysis"}
DeployTxTypes == [step : StepNames, args : Seq(Nat), address : Nat, ok : BOOLEAN,
                  st : {"pending", "mined", "dropped"}]
Entries == [step : StepNames, address : Nat, hash : Nat]
Registrations == [step : StepNames, hash : Nat]
ManifestTypes == [records : Seq(Entries), token : Nat, agents : Seq(Registrations)]
DeployCommandTypes ==
  [at : {"idle", "make", "sent", "wait", "unlink", "register", "registering"}, token : Tokens,
   done : Nat, records : Seq(Entries), tx : Nat]

DeployTypes ==
  /\ network \in {"xlayer-mainnet", "xlayer-testnet"} /\ token \in Tokens
  /\ deployTxs \in Seq(DeployTxTypes) /\ deployProgress \in Seq(Entries)
  /\ manifest \in ManifestTypes /\ deployCommand \in DeployCommandTypes

\* The live transactions take the addresses of the nonces in their order.
AddressesInOrder ==
  /\ \A i \in Deploy!Live : deployTxs[i].address \in 1..Cardinality(Deploy!Live)
  /\ \A i, j \in Deploy!Live : i < j => deployTxs[i].address < deployTxs[j].address

\* A record names a transaction of its step and address.
Recorded(records) ==
  \A i \in DOMAIN records :
    /\ records[i].hash \in DOMAIN deployTxs
    /\ deployTxs[records[i].hash].step = records[i].step
    /\ deployTxs[records[i].hash].address = records[i].address

\* The arguments of the i-th contract of a plan, from the records before it.
Wanted(records, t, i) ==
  IF i = 2 THEN <<records[1].address>>
  ELSE IF i = Len(Deploy!Steps(t))
  THEN <<IF t = Deploy!Unset THEN records[3].address ELSE t, records[2].address>>
  ELSE <<>>

\* The first n records are of contracts created as the plan wants them.
Created(records, t, n) ==
  \A i \in 1..n : /\ deployTxs[records[i].hash].ok
                  /\ deployTxs[records[i].hash].args = Wanted(records, t, i)

Accepted(t) == network = "xlayer-mainnet" => t = Reviewed

CommandKnows ==
  LET c == deployCommand IN
  /\ c.at \in {"make", "sent", "wait"} =>
       /\ manifest = Deploy!NoManifest /\ c.records = deployProgress
       /\ Deploy!IsPrefix(c.records, Deploy!Steps(c.token)) /\ Accepted(c.token)
       /\ c.done <= Len(c.records) /\ Created(c.records, c.token, c.done)
  /\ c.at = "sent" => /\ c.done = Len(c.records) /\ c.done < Len(Deploy!Steps(c.token))
                      /\ deployTxs[c.tx].step = Deploy!Steps(c.token)[c.done + 1]
                      /\ deployTxs[c.tx].args = Wanted(c.records, c.token, c.done + 1)
  /\ c.at = "wait" => /\ Len(c.records) = c.done + 1 /\ c.records[c.done + 1].hash = c.tx
                      /\ deployTxs[c.tx].args = Wanted(c.records, c.token, c.done + 1)
  /\ c.at \in {"unlink", "register", "registering"} => manifest # Deploy!NoManifest
  /\ c.at = "registering" => /\ Len(manifest.agents) < Len(Deploy!Slugs)
                             /\ deployTxs[c.tx].step = Deploy!Slugs[Len(manifest.agents) + 1]
  /\ c.at \in {"sent", "wait", "registering"} => c.tx \in DOMAIN deployTxs

\* The manifest is of a whole plan, each of whose contracts was created as it wants.
PlanOf(t) ==
  /\ Deploy!IsPrefix(manifest.records, Deploy!Steps(t)) /\ Len(manifest.records) = Len(Deploy!Steps(t))
  /\ Created(manifest.records, t, Len(manifest.records)) /\ Accepted(t)
  /\ manifest.token = IF t = Deploy!Unset THEN manifest.records[3].address ELSE t
ManifestKnows ==
  /\ Recorded(deployProgress) /\ Recorded(manifest.records)
  /\ manifest = Deploy!NoManifest => \E t \in Tokens : Deploy!IsPrefix(deployProgress, Deploy!Steps(t))
  /\ manifest # Deploy!NoManifest => /\ deployProgress \in {<<>>, manifest.records}
                                     /\ \E t \in Tokens : PlanOf(t)
  /\ Len(manifest.agents) <= Len(Deploy!Slugs)
  /\ \A i \in DOMAIN manifest.agents : LET a == manifest.agents[i] IN
       /\ a.step = Deploy!Slugs[i]
       /\ a.hash \in DOMAIN deployTxs /\ deployTxs[a.hash].step = a.step

\* Every transaction is recorded, lost or waited for.
InFlight == IF deployCommand.at \in {"sent", "registering"} THEN {deployCommand.tx} ELSE {}
NoneForgotten ==
  DOMAIN deployTxs \subseteq
    deployLost \cup Deploy!Hashes(deployProgress) \cup Deploy!Hashes(manifest.records)
      \cup Deploy!Hashes(manifest.agents) \cup InFlight

DeployInv == DeployTypes /\ AddressesInOrder /\ CommandKnows /\ ManifestKnows /\ NoneForgotten

LEMMA Joined ==
  ASSUME NEW S, NEW a \in Seq(S), NEW b \in Seq(S)
  PROVE /\ a \o b \in Seq(S) /\ Len(a \o b) = Len(a) + Len(b)
        /\ \A i \in 1..(Len(a) + Len(b)) : (a \o b)[i] = IF i <= Len(a) THEN a[i] ELSE b[i - Len(a)]
  BY ConcatProperties

\* The plan of a deployment: the escrow is its last contract, and none comes twice.
LEMMA PlanIs ==
  ASSUME NEW t
  PROVE LET plan == Deploy!Steps(t)
            demo == network # "xlayer-mainnet" /\ t = Deploy!Unset IN
        /\ plan \in Seq(Contracts) /\ Len(plan) = IF demo THEN 4 ELSE 3
        /\ plan[1] = Deploy!Identity /\ plan[2] = Deploy!Proxy /\ plan[Len(plan)] = Deploy!Escrow
        /\ demo => plan[3] = "DemoUSD"
<1> DEFINE two == <<Deploy!Identity, Deploy!Proxy>>
           one == <<"DemoUSD">>
           none == <<>>
           last == <<Deploy!Escrow>>
           three == <<Deploy!Identity, Deploy!Proxy, Deploy!Escrow>>
<1>1. /\ two \in Seq(Contracts) /\ Len(two) = 2 /\ two[1] = Deploy!Identity /\ two[2] = Deploy!Proxy
      /\ one \in Seq(Contracts) /\ Len(one) = 1 /\ one[1] = "DemoUSD"
      /\ none \in Seq(Contracts) /\ Len(none) = 0
      /\ last \in Seq(Contracts) /\ Len(last) = 1 /\ last[1] = Deploy!Escrow
      /\ three \in Seq(Contracts) /\ Len(three) = 3 /\ three[1] = Deploy!Identity /\ three[2] = Deploy!Proxy
      /\ three[3] = Deploy!Escrow
  BY DEF Contracts
<1>2. Deploy!Steps(t) = IF network = "xlayer-mainnet" THEN three
                        ELSE two \o (IF t = Deploy!Unset THEN one ELSE none) \o last
  BY DEF Deploy!Steps, Deploy!CanarySteps
<1> HIDE DEF two, one, none, last, three
<1>3. CASE network = "xlayer-mainnet"
  BY <1>1, <1>2, <1>3
<1>4. CASE network # "xlayer-mainnet" /\ t = Deploy!Unset
  <2>1. two \o one \in Seq(Contracts) /\ Len(two \o one) = 3
        /\ \A i \in 1..3 : (two \o one)[i] = IF i <= 2 THEN two[i] ELSE one[i - 2]
    BY <1>1, Joined, SMTT(30)
  <2>2. (two \o one) \o last \in Seq(Contracts) /\ Len((two \o one) \o last) = 4
        /\ \A i \in 1..4 : ((two \o one) \o last)[i] = IF i <= 3 THEN (two \o one)[i] ELSE last[i - 3]
    BY <1>1, <2>1, Joined
  <2>3. Deploy!Steps(t) = (two \o one) \o last
    BY <1>2, <1>4
  <2> QED BY <1>1, <1>4, <2>1, <2>2, <2>3
<1>5. CASE network # "xlayer-mainnet" /\ t # Deploy!Unset
  <2>1. two \o none = two
    BY <1>1, ConcatEmptySeq DEF none
  <2>2. two \o last \in Seq(Contracts) /\ Len(two \o last) = 3
        /\ (two \o last)[1] = two[1] /\ (two \o last)[2] = two[2] /\ (two \o last)[3] = last[1]
    BY <1>1, Joined, SMTT(30)
  <2>3. Deploy!Steps(t) = two \o last
    BY <1>2, <1>5, <2>1
  <2> QED BY <1>1, <1>5, <2>1, <2>2, <2>3
<1> QED BY <1>3, <1>4, <1>5

LEMMA PlanSize ==
  ASSUME NEW t
  PROVE /\ Deploy!Steps(t) \in Seq(Contracts) /\ Len(Deploy!Steps(t)) \in {3, 4}
        /\ DOMAIN Deploy!Steps(t) = 1..Len(Deploy!Steps(t))
        /\ \A i \in 1..Len(Deploy!Steps(t)) : Deploy!Steps(t)[i] \in Contracts
  BY PlanIs

LEMMA PlanInjective ==
  ASSUME NEW t, NEW i \in 1..Len(Deploy!Steps(t)), NEW j \in 1..Len(Deploy!Steps(t)),
         Deploy!Steps(t)[i] = Deploy!Steps(t)[j]
  PROVE i = j
<1>1. Deploy!Identity # Deploy!Proxy /\ Deploy!Identity # "DemoUSD" /\ Deploy!Identity # Deploy!Escrow
      /\ Deploy!Proxy # "DemoUSD" /\ Deploy!Proxy # Deploy!Escrow /\ Deploy!Escrow # "DemoUSD"
  BY DEF Deploy!Identity, Deploy!Proxy, Deploy!Escrow
<1>2. PICK plan \in Seq(Contracts) : plan = Deploy!Steps(t)
  BY PlanIs
<1>3. /\ Len(plan) = 3 \/ Len(plan) = 4
      /\ plan[1] = Deploy!Identity /\ plan[2] = Deploy!Proxy /\ plan[Len(plan)] = Deploy!Escrow
      /\ Len(plan) = 4 => plan[3] = "DemoUSD"
  <2>1. PICK demo \in BOOLEAN : demo = (network # "xlayer-mainnet" /\ t = Deploy!Unset)
    OBVIOUS
  <2>2. /\ Len(plan) = IF demo THEN 4 ELSE 3
        /\ plan[1] = Deploy!Identity /\ plan[2] = Deploy!Proxy /\ plan[Len(plan)] = Deploy!Escrow
        /\ demo => plan[3] = "DemoUSD"
    BY <1>2, <2>1, PlanIs
  <2> QED BY <2>2
<1>4. i \in 1..Len(plan) /\ j \in 1..Len(plan) /\ plan[i] = plan[j]
  BY <1>2
<1>5. CASE Len(plan) = 3
  <2>1. i \in {1, 2, 3} /\ j \in {1, 2, 3}
    BY <1>4, <1>5
  <2> QED BY <1>1, <1>3, <1>4, <1>5, <2>1
<1>6. CASE Len(plan) = 4
  <2>1. i \in {1, 2, 3, 4} /\ j \in {1, 2, 3, 4}
    BY <1>4, <1>6
  <2> QED BY <1>1, <1>3, <1>4, <1>6, <2>1
<1> QED BY <1>3, <1>5, <1>6

\* A record that follows a plan has the address of its step.
LEMMA AddressAt ==
  ASSUME NEW t, NEW records \in Seq(Entries), Deploy!IsPrefix(records, Deploy!Steps(t)),
         NEW n \in 1..Len(records)
  PROVE Deploy!AddressOf(records, Deploy!Steps(t)[n]) = records[n].address
<1> DEFINE s == Deploy!Steps(t)[n]
<1>1. /\ Len(records) \in Nat /\ Len(records) <= Len(Deploy!Steps(t)) /\ Len(Deploy!Steps(t)) \in Nat
      /\ DOMAIN records = 1..Len(records)
      /\ \A i \in DOMAIN records : records[i].step = Deploy!Steps(t)[i]
  BY PlanSize DEF Deploy!IsPrefix
<1>2. n \in DOMAIN records /\ records[n].step = s
  BY <1>1
<1>3. ASSUME NEW i \in DOMAIN records, records[i].step = s PROVE i = n
  <2>1. i \in 1..Len(Deploy!Steps(t)) /\ n \in 1..Len(Deploy!Steps(t))
        /\ Deploy!Steps(t)[i] = Deploy!Steps(t)[n]
    BY <1>1, <1>3
  <2> QED BY <2>1, PlanInjective
<1> HIDE DEF s
<1>4. (CHOOSE i \in DOMAIN records : records[i].step = s) = n
  BY <1>2, <1>3
<1>5. Deploy!AddressOf(records, s) = records[n].address
  BY <1>4 DEF Deploy!AddressOf
<1> QED BY <1>5 DEF s

\* What the command sends is what the plan wants.
LEMMA ArgsWanted ==
  ASSUME DeployInv, deployCommand.at \in {"make", "sent", "wait"},
         deployCommand.done + 1 <= Len(Deploy!Steps(deployCommand.token))
  PROVE Deploy!Args = Wanted(deployCommand.records, deployCommand.token, deployCommand.done + 1)
<1>1. PICK c \in DeployCommandTypes : c = deployCommand
  BY DEF DeployInv, DeployTypes
<1>2. PICK records \in Seq(Entries), t \in Tokens, n \in Nat :
        records = c.records /\ t = c.token /\ n = c.done + 1
  BY <1>1 DEF DeployCommandTypes
<1> DEFINE plan == Deploy!Steps(t)
<1>3. /\ Deploy!IsPrefix(records, plan) /\ n - 1 <= Len(records) /\ n >= 1 /\ n <= Len(plan)
      /\ Accepted(t)
  BY <1>1, <1>2 DEF DeployInv, CommandKnows, DeployCommandTypes
<1>4. /\ plan \in Seq(Contracts) /\ Len(plan) \in {3, 4}
      /\ plan[1] = Deploy!Identity /\ plan[2] = Deploy!Proxy /\ plan[Len(plan)] = Deploy!Escrow
      /\ t = Deploy!Unset /\ network # "xlayer-mainnet" => Len(plan) = 4 /\ plan[3] = "DemoUSD"
  BY PlanIs
<1>5. Deploy!Step = plan[n] /\ Len(records) \in Nat
  BY <1>1, <1>2 DEF Deploy!Step, Deploy!Next0
<1>6. \A i \in 1..Len(plan) : plan[n] = plan[i] => n = i
  BY <1>3, PlanInjective
<1>7. \A i \in 1..Len(records) : Deploy!AddressOf(records, plan[i]) = records[i].address
  BY <1>3, AddressAt
<1>8. t = Deploy!Unset => network # "xlayer-mainnet"
  BY <1>3, ComponentsAssumption DEF Accepted, Deploy!TokensAreOutside, Deploy!Unset
<1> HIDE DEF plan
<1>9. (n = 2 <=> plan[n] = Deploy!Proxy) /\ (n = Len(plan) <=> plan[n] = Deploy!Escrow)
  BY <1>3, <1>4, <1>6
<1>10. Deploy!Args = IF n = 2 THEN <<Deploy!AddressOf(records, Deploy!Identity)>>
                    ELSE IF n = Len(plan)
                    THEN <<IF t = Deploy!Unset THEN Deploy!AddressOf(records, "DemoUSD") ELSE t,
                           Deploy!AddressOf(records, Deploy!Proxy)>>
                    ELSE <<>>
  BY <1>1, <1>2, <1>5, <1>9 DEF Deploy!Args
<1>11. n = 2 => Deploy!AddressOf(records, Deploy!Identity) = records[1].address
  BY <1>3, <1>4, <1>5, <1>7
<1>12. /\ n = Len(plan) => 2 \in 1..Len(records)
       /\ n = Len(plan) /\ t = Deploy!Unset => 3 \in 1..Len(records)
  <2>1. PICK size \in Nat : size = Len(records)
    BY <1>5
  <2>2. PICK length \in Nat : length = Len(plan)
    BY <1>4
  <2>3. n - 1 <= size
    BY <1>3, <2>1
  <2>4. length = 3 \/ length = 4
    BY <1>4, <2>2
  <2>5. t = Deploy!Unset => length = 4
    BY <1>4, <1>8, <2>2
  <2>6. n = length => 2 <= size
    BY <2>3, <2>4
  <2>7. n = length /\ length = 4 => 3 <= size
    BY <2>3, <2>4
  <2> QED BY <2>1, <2>2, <2>5, <2>6, <2>7
<1>13. n = Len(plan) => Deploy!AddressOf(records, Deploy!Proxy) = records[2].address
  BY <1>4, <1>7, <1>12
<1>14. n = Len(plan) /\ t = Deploy!Unset => Deploy!AddressOf(records, "DemoUSD") = records[3].address
  BY <1>4, <1>7, <1>8, <1>12
<1>15. Wanted(records, t, n) =
         IF n = 2 THEN <<records[1].address>>
         ELSE IF n = Len(plan)
         THEN <<IF t = Deploy!Unset THEN records[3].address ELSE t, records[2].address>>
         ELSE <<>>
  BY DEF Wanted, plan
<1>16. Deploy!Args = Wanted(records, t, n)
  BY <1>10, <1>11, <1>13, <1>14, <1>15
<1> QED BY <1>1, <1>2, <1>16

LEMMA DeployCardinality == \A S : Deploy!Cardinality(S) = Cardinality(S)
  BY DEF Cardinality, Deploy!Cardinality

LEMMA TransactionsTyped ==
  ASSUME DeployTypes
  PROVE /\ Len(deployTxs) \in Nat /\ DOMAIN deployTxs = 1..Len(deployTxs)
        /\ \A i \in DOMAIN deployTxs : deployTxs[i] \in DeployTxTypes
  BY DEF DeployTypes

LEMMA LiveFinite ==
  ASSUME DeployTypes
  PROVE /\ IsFiniteSet(Deploy!Live) /\ Cardinality(Deploy!Live) \in Nat
        /\ Cardinality(Deploy!Live) <= Len(deployTxs)
        /\ Deploy!Live \subseteq 1..Len(deployTxs)
<1>1. Deploy!Live \subseteq 1..Len(deployTxs) /\ Len(deployTxs) \in Nat
  BY TransactionsTyped DEF Deploy!Live
<1>2. IsFiniteSet(1..Len(deployTxs)) /\ Cardinality(1..Len(deployTxs)) = Len(deployTxs)
  <2>1. PICK n \in Nat : n = Len(deployTxs)
    BY <1>1
  <2>2. IsFiniteSet(1..n) /\ Cardinality(1..n) = IF 1 > n THEN 0 ELSE n - 1 + 1
    BY FS_Interval
  <2>3. Cardinality(1..n) = n
    BY <2>2
  <2> QED BY <2>1, <2>2, <2>3
<1>3. IsFiniteSet(Deploy!Live) /\ Cardinality(Deploy!Live) <= Cardinality(1..Len(deployTxs))
  BY <1>1, <1>2, FS_Subset
<1> QED BY <1>1, <1>2, <1>3, FS_CardinalityType

\* A transaction keeps all but its state, and the next one comes after it.
Kept ==
  /\ UNCHANGED network
  /\ \A i \in DOMAIN deployTxs : LET tx == deployTxs[i]  new == deployTxs'[i] IN
       /\ i \in DOMAIN deployTxs'
       /\ new.step = tx.step /\ new.args = tx.args /\ new.address = tx.address /\ new.ok = tx.ok

LEMMA WantedStays ==
  ASSUME NEW records, NEW t, NEW i, UNCHANGED network
  PROVE Wanted(records, t, i)' = Wanted(records, t, i) /\ Deploy!Steps(t)' = Deploy!Steps(t)
  BY DEF Wanted, Deploy!Steps

LEMMA RecordedStays ==
  ASSUME NEW records, Recorded(records), Kept
  PROVE Recorded(records)'
  BY DEF Recorded, Kept

LEMMA CreatedStays ==
  ASSUME NEW records \in Seq(Entries), NEW t, NEW n \in Nat, n <= Len(records),
         Recorded(records), Kept, Created(records, t, n)
  PROVE Created(records, t, n)'
<1> SUFFICES ASSUME NEW i \in 1..n
             PROVE  (/\ deployTxs[records[i].hash].ok
                     /\ deployTxs[records[i].hash].args = Wanted(records, t, i))'
  BY DEF Created
<1>1. i \in DOMAIN records
  OBVIOUS
<1>2. records[i].hash \in DOMAIN deployTxs
  BY <1>1 DEF Recorded
<1>3. /\ deployTxs'[records[i].hash].ok = deployTxs[records[i].hash].ok
      /\ deployTxs'[records[i].hash].args = deployTxs[records[i].hash].args
  BY <1>2 DEF Kept
<1>4. UNCHANGED network
  BY DEF Kept
<1>5. deployTxs[records[i].hash].ok /\ deployTxs[records[i].hash].args = Wanted(records, t, i)
  BY DEF Created
<1> QED BY <1>3, <1>4, <1>5, WantedStays

LEMMA DeployCommandTyped ==
  ASSUME DeployTypes
  PROVE /\ deployCommand.records \in Seq(Entries) /\ deployCommand.done \in Nat
        /\ deployCommand.token \in Tokens /\ deployCommand.tx \in Nat
        /\ deployCommand.at \in {"idle", "make", "sent", "wait", "unlink", "register", "registering"}
        /\ manifest.records \in Seq(Entries) /\ manifest.agents \in Seq(Registrations)
        /\ deployProgress \in Seq(Entries)
  BY DEF DeployTypes, DeployCommandTypes, ManifestTypes

\* What the files say stays true while they stay.
LEMMA ManifestStays ==
  ASSUME DeployInv, Kept, UNCHANGED <<deployProgress, manifest>>
  PROVE ManifestKnows'
<1>1. PICK p \in Seq(Entries), m \in ManifestTypes : p = deployProgress /\ m = manifest
  BY DEF DeployInv, DeployTypes
<1>2. m.records \in Seq(Entries) /\ m.agents \in Seq(Registrations)
  BY DEF ManifestTypes
<1>3. UNCHANGED network /\ \A t : Deploy!Steps(t)' = Deploy!Steps(t)
  BY WantedStays DEF Kept
<1>4. Recorded(p) /\ Recorded(m.records) /\ Recorded(p)' /\ Recorded(m.records)'
  BY <1>1, RecordedStays DEF DeployInv, ManifestKnows
<1>5. ASSUME NEW t, PlanOf(t) PROVE PlanOf(t)'
  <2>1. Created(m.records, t, Len(m.records)) /\ Len(m.records) \in Nat
    BY <1>1, <1>2, <1>5 DEF PlanOf
  <2>2. Created(m.records, t, Len(m.records))'
    BY <1>2, <1>4, <2>1, CreatedStays
  <2>3. manifest' = m /\ manifest = m
    BY <1>1
  <2> QED BY <1>3, <1>5, <2>2, <2>3 DEF PlanOf, Accepted, Deploy!IsPrefix
<1>6. ManifestKnows
  BY DEF DeployInv
<1>7. ASSUME NEW i \in DOMAIN m.agents
      PROVE  /\ m.agents[i].step = Deploy!Slugs[i] /\ m.agents[i].hash \in DOMAIN deployTxs'
             /\ deployTxs'[m.agents[i].hash].step = m.agents[i].step
  BY <1>1, <1>6 DEF ManifestKnows, Kept
<1>8. m = Deploy!NoManifest => \E t \in Tokens : Deploy!IsPrefix(p, Deploy!Steps(t))'
  BY <1>1, <1>3, <1>6 DEF ManifestKnows, Deploy!IsPrefix
<1>9. m # Deploy!NoManifest => p \in {<<>>, m.records} /\ \E t \in Tokens : PlanOf(t)'
  BY <1>1, <1>5, <1>6 DEF ManifestKnows
<1>10. Len(m.agents) <= Len(Deploy!Slugs)
  BY <1>1, <1>6 DEF ManifestKnows
<1> QED BY <1>1, <1>4, <1>7, <1>8, <1>9, <1>10 DEF ManifestKnows, Deploy!IsPrefix

\* What only the chain changes leaves what the files and the command know.
LEMMA FactsStay ==
  ASSUME DeployInv, Kept, DOMAIN deployTxs' = DOMAIN deployTxs,
         UNCHANGED <<deployProgress, manifest, deployCommand, deployLost>>
  PROVE CommandKnows' /\ ManifestKnows' /\ NoneForgotten'
<1>1. PICK p \in Seq(Entries), c \in DeployCommandTypes : p = deployProgress /\ c = deployCommand
  BY DEF DeployInv, DeployTypes
<1>2. c.records \in Seq(Entries) /\ c.done \in Nat
  BY DEF DeployCommandTypes
<1>3. UNCHANGED network /\ \A t : Deploy!Steps(t)' = Deploy!Steps(t)
  BY WantedStays DEF Kept
<1>4. ASSUME c.at \in {"make", "sent", "wait"}
      PROVE  Created(c.records, c.token, c.done)'
  <2>1. c.records = p /\ Created(c.records, c.token, c.done) /\ c.done <= Len(c.records)
    BY <1>1, <1>4 DEF DeployInv, CommandKnows
  <2>2. Recorded(p)
    BY <1>1 DEF DeployInv, ManifestKnows
  <2> QED BY <1>2, <2>1, <2>2, CreatedStays
<1>5. CommandKnows'
  <2>1. CommandKnows
    BY DEF DeployInv
  <2>2. c.at \in {"sent", "wait", "registering"} =>
          /\ c.tx \in DOMAIN deployTxs
          /\ deployTxs'[c.tx].step = deployTxs[c.tx].step
          /\ deployTxs'[c.tx].args = deployTxs[c.tx].args
    BY <1>1, <2>1 DEF CommandKnows, Kept
  <2>3. Wanted(c.records, c.token, c.done + 1)' = Wanted(c.records, c.token, c.done + 1)
    BY <1>3, WantedStays
  <2> QED BY <1>1, <1>3, <1>4, <2>1, <2>2, <2>3 DEF CommandKnows, Accepted, Deploy!IsPrefix
<1>6. NoneForgotten'
  BY <1>1 DEF DeployInv, NoneForgotten, InFlight, Deploy!Hashes
<1> QED BY <1>5, <1>6, ManifestStays

LEMMA LiveStays ==
  ASSUME AddressesInOrder, Kept, Deploy!Live' = Deploy!Live
  PROVE AddressesInOrder'
<1>1. \A i \in Deploy!Live : deployTxs'[i].address = deployTxs[i].address
  BY DEF Kept, Deploy!Live
<1>2. PICK live : live = Deploy!Live /\ live = Deploy!Live'
  OBVIOUS
<1>3. Cardinality(Deploy!Live)' = Cardinality(Deploy!Live)
  BY <1>2
<1> QED BY <1>1, <1>3 DEF AddressesInOrder

\* A transaction of another state: what it is keeps, and which are live.
LEMMA StateChanged ==
  ASSUME DeployInv, NEW i \in DOMAIN deployTxs, NEW st \in {"pending", "mined", "dropped"},
         deployTxs' = [deployTxs EXCEPT ![i].st = st],
         UNCHANGED <<network, token, deployProgress, manifest, deployCommand, deployLost>>
  PROVE /\ DeployTypes' /\ CommandKnows' /\ ManifestKnows' /\ NoneForgotten' /\ Kept
        /\ DOMAIN deployTxs' = DOMAIN deployTxs
        /\ deployTxs'[i].st = st /\ \A j \in DOMAIN deployTxs : j # i => deployTxs'[j] = deployTxs[j]
<1>1. PICK tx \in DeployTxTypes : tx = deployTxs[i]
  BY TransactionsTyped DEF DeployInv
<1>2. PICK new \in DeployTxTypes : new = [tx EXCEPT !.st = st]
  <2>1. [tx EXCEPT !.st = st] \in DeployTxTypes
    BY DEF DeployTxTypes
  <2> QED BY <2>1
<1>3. /\ new.st = st /\ new.step = tx.step /\ new.args = tx.args /\ new.address = tx.address
      /\ new.ok = tx.ok
  BY <1>2 DEF DeployTxTypes
<1>4. deployTxs' = [deployTxs EXCEPT ![i] = new]
  BY <1>1, <1>2
<1>5. /\ deployTxs' \in Seq(DeployTxTypes) /\ DOMAIN deployTxs' = DOMAIN deployTxs
      /\ deployTxs'[i] = new /\ \A j \in DOMAIN deployTxs : j # i => deployTxs'[j] = deployTxs[j]
  <2>1. deployTxs \in Seq(DeployTxTypes) /\ i \in 1..Len(deployTxs) /\ DOMAIN deployTxs = 1..Len(deployTxs)
    BY TransactionsTyped DEF DeployInv, DeployTypes
  <2>2. deployTxs' \in Seq(DeployTxTypes)
    BY <1>4, <2>1, ExceptSeq
  <2> QED BY <1>4, <2>1, <2>2
<1>6. Kept
  BY <1>1, <1>3, <1>5 DEF Kept
<1>7. DeployTypes'
  BY <1>5 DEF DeployInv, DeployTypes
<1> QED BY <1>3, <1>5, <1>6, <1>7, FactsStay

LEMMA DeployMines ==
  ASSUME DeployInv, NEW i \in DOMAIN deployTxs, Deploy!Mine(i) \/ Deploy!Reorganised(i)
  PROVE DeployInv'
<1>1. /\ i \in Deploy!Live
      /\ UNCHANGED <<network, token, deployProgress, manifest, deployCommand, deployLost>>
  BY DEF Deploy!Mine, Deploy!Reorganised
<1>2. PICK st \in {"pending", "mined"} : deployTxs' = [deployTxs EXCEPT ![i].st = st]
  BY DEF Deploy!Mine, Deploy!Reorganised
<1>3. /\ DeployTypes' /\ CommandKnows' /\ ManifestKnows' /\ NoneForgotten' /\ Kept
      /\ DOMAIN deployTxs' = DOMAIN deployTxs
      /\ deployTxs'[i].st = st /\ \A j \in DOMAIN deployTxs : j # i => deployTxs'[j] = deployTxs[j]
  BY <1>1, <1>2, StateChanged
<1>4. Deploy!Live' = Deploy!Live
  BY <1>1, <1>3 DEF Deploy!Live
<1> QED BY <1>3, <1>4, LiveStays DEF DeployInv

\* The transaction dropped is the last, and its nonce is free again.
LEMMA DeployDrops ==
  ASSUME DeployInv, NEW i \in DOMAIN deployTxs, Deploy!Dropped(i)
  PROVE DeployInv'
<1>1. /\ i \in Deploy!Live /\ \A j \in Deploy!Live : j <= i
      /\ deployTxs' = [deployTxs EXCEPT ![i].st = "dropped"]
      /\ UNCHANGED <<network, token, deployProgress, manifest, deployCommand, deployLost>>
  BY DEF Deploy!Dropped
<1>2. /\ DeployTypes' /\ CommandKnows' /\ ManifestKnows' /\ NoneForgotten' /\ Kept
      /\ DOMAIN deployTxs' = DOMAIN deployTxs
      /\ deployTxs'[i].st = "dropped" /\ \A j \in DOMAIN deployTxs : j # i => deployTxs'[j] = deployTxs[j]
  BY <1>1, StateChanged
<1>3. PICK live : live = Deploy!Live
  OBVIOUS
<1>4. Deploy!Live' = live \ {i}
  BY <1>2, <1>3 DEF Deploy!Live
<1>5. Cardinality(live \ {i}) = Cardinality(live) - 1 /\ Cardinality(live) \in Nat
  BY <1>1, <1>3, LiveFinite, FS_RemoveElement DEF DeployInv
<1>6. PICK size \in Nat : size = Cardinality(live)
  BY <1>5
<1>7. /\ \A j \in live : deployTxs[j].address \in 1..size
      /\ \A j, k \in live : j < k => deployTxs[j].address < deployTxs[k].address
  BY <1>3, <1>6 DEF DeployInv, AddressesInOrder
<1>8. \A j \in live \ {i} : j < i /\ deployTxs'[j].address = deployTxs[j].address
  <2>1. \A j \in live : j \in Nat /\ i \in Nat
    BY <1>1, <1>3, LiveFinite DEF DeployInv
  <2>2. \A j \in live : j \in DOMAIN deployTxs
    BY <1>3 DEF Deploy!Live
  <2> QED BY <1>1, <1>2, <1>3, <2>1, <2>2 DEF Kept
<1>9. \A j \in live \ {i} : deployTxs'[j].address \in 1..(size - 1)
  BY <1>1, <1>3, <1>7, <1>8
<1>10. AddressesInOrder'
  BY <1>4, <1>5, <1>6, <1>7, <1>8, <1>9 DEF AddressesInOrder
<1> QED BY <1>2, <1>10 DEF DeployInv

\* A transaction that is sent is the last, with the next nonce.
LEMMA DeploySends ==
  ASSUME DeployInv, NEW s \in StepNames, NEW args \in Seq(Nat), Deploy!Sent(s, args), UNCHANGED network
  PROVE /\ deployTxs' \in Seq(DeployTxTypes) /\ AddressesInOrder' /\ Kept
        /\ DOMAIN deployTxs' = DOMAIN deployTxs \cup {Len(deployTxs) + 1}
        /\ deployTxs'[Len(deployTxs) + 1].step = s /\ deployTxs'[Len(deployTxs) + 1].args = args
<1>1. PICK live : live = Deploy!Live
  OBVIOUS
<1>2. /\ IsFiniteSet(live) /\ Cardinality(live) \in Nat /\ live \subseteq 1..Len(deployTxs)
      /\ Len(deployTxs) \in Nat /\ DOMAIN deployTxs = 1..Len(deployTxs)
  BY <1>1, LiveFinite, TransactionsTyped DEF DeployInv
<1>3. PICK size \in Nat : size = Cardinality(live)
  BY <1>2
<1>4. Deploy!Nonce = size + 1
  BY <1>1, <1>3, DeployCardinality DEF Deploy!Nonce
<1>5. PICK ok \in BOOLEAN :
        deployTxs' = Append(deployTxs, [step |-> s, args |-> args, address |-> size + 1, ok |-> ok,
                                        st |-> "pending"])
  BY <1>4 DEF Deploy!Sent
<1>6. PICK new \in DeployTxTypes :
        /\ new = [step |-> s, args |-> args, address |-> size + 1, ok |-> ok, st |-> "pending"]
        /\ new.step = s /\ new.args = args /\ new.address = size + 1 /\ new.st = "pending"
  <2>1. [step |-> s, args |-> args, address |-> size + 1, ok |-> ok, st |-> "pending"] \in DeployTxTypes
    BY DEF DeployTxTypes
  <2> QED BY <2>1
<1>7. PICK last \in Nat : last = Len(deployTxs) + 1
  BY <1>2
<1>8. /\ deployTxs' \in Seq(DeployTxTypes) /\ DOMAIN deployTxs' = DOMAIN deployTxs \cup {last}
      /\ deployTxs'[last] = new /\ \A i \in DOMAIN deployTxs : deployTxs'[i] = deployTxs[i]
      /\ last \notin DOMAIN deployTxs
  BY <1>2, <1>5, <1>6, <1>7, AppendProperties DEF DeployInv, DeployTypes
<1>9. Kept
  BY <1>8 DEF Kept
<1>10. Deploy!Live' = live \cup {last} /\ last \notin live
  BY <1>1, <1>6, <1>8 DEF Deploy!Live
<1>11. Cardinality(Deploy!Live') = size + 1
  BY <1>2, <1>3, <1>10, FS_AddElement
<1>12. AddressesInOrder'
  <2>1. /\ \A j \in live : deployTxs[j].address \in 1..size
        /\ \A j, k \in live : j < k => deployTxs[j].address < deployTxs[k].address
    BY <1>1, <1>3 DEF DeployInv, AddressesInOrder
  <2>2. \A j \in live : deployTxs'[j].address = deployTxs[j].address /\ j < last
    BY <1>1, <1>2, <1>7, <1>8 DEF Deploy!Live
  <2>3. deployTxs'[last].address = size + 1
    BY <1>6, <1>8
  <2>4. \A j \in Deploy!Live' : deployTxs'[j].address \in 1..(size + 1)
    BY <1>10, <2>1, <2>2, <2>3
  <2>5. ASSUME NEW j \in Deploy!Live', NEW k \in Deploy!Live', j < k
        PROVE  deployTxs'[j].address < deployTxs'[k].address
    <3>1. j \in live
      <4>1. ASSUME j = last PROVE FALSE
        <5>1. k \in live \/ k = last
          BY <1>10
        <5> QED BY <1>7, <2>2, <2>5, <4>1, <5>1
      <4> QED BY <1>10, <4>1
    <3>2. CASE k \in live
      BY <2>1, <2>2, <2>5, <3>1, <3>2
    <3>3. CASE k = last
      BY <2>1, <2>2, <2>3, <3>1, <3>3
    <3> QED BY <1>10, <3>2, <3>3
  <2> QED BY <1>11, <2>4, <2>5 DEF AddressesInOrder
<1> QED BY <1>6, <1>7, <1>8, <1>9, <1>12

LEMMA TxsUnchanged ==
  ASSUME UNCHANGED <<deployTxs, network>>
  PROVE /\ Kept /\ (AddressesInOrder => AddressesInOrder')
        /\ \A t : Deploy!Steps(t)' = Deploy!Steps(t)
        /\ \A records, t, n : Created(records, t, n)' = Created(records, t, n)
  BY DEF Kept, AddressesInOrder, Deploy!Live, Deploy!Steps, Created, Wanted

LEMMA DeployConfigures ==
  ASSUME DeployInv, NEW t \in Tokens, Deploy!Configure(t)
  PROVE DeployInv'
<1>1. token' = t
      /\ UNCHANGED <<network, deployTxs, deployProgress, manifest, deployCommand, deployLost>>
  BY DEF Deploy!Configure
<1>2. Kept /\ AddressesInOrder' /\ DOMAIN deployTxs' = DOMAIN deployTxs
  BY <1>1, TxsUnchanged DEF DeployInv
<1>3. DeployTypes'
  BY <1>1 DEF DeployInv, DeployTypes
<1> QED BY <1>1, <1>2, <1>3, FactsStay DEF DeployInv

LEMMA IdleCommand == Deploy!Idle \in DeployCommandTypes /\ Deploy!Idle.at = "idle"
  BY EmptySeq DEF Deploy!Idle, DeployCommandTypes, Tokens

\* A command that starts goes by the records of the file.
LEMMA DeployStarts ==
  ASSUME DeployInv, Deploy!CanaryStarts \/ Deploy!TestnetStarts
  PROVE DeployInv'
<1>1. /\ deployCommand = Deploy!Idle /\ manifest = Deploy!NoManifest
      /\ Deploy!IsPrefix(deployProgress, Deploy!Steps(token))
      /\ deployCommand' = [Deploy!Idle EXCEPT !.at = "make", !.token = token, !.records = deployProgress]
      /\ UNCHANGED <<network, token, deployTxs, deployProgress, manifest, deployLost>>
  BY DEF Deploy!CanaryStarts, Deploy!TestnetStarts, Deploy!Starts
<1>2. Accepted(token)
  BY DEF Deploy!CanaryStarts, Deploy!TestnetStarts, Deploy!Starts, Deploy!CanaryEnvironment, Accepted
<1>3. PICK t \in Tokens, p \in Seq(Entries) : t = token /\ p = deployProgress
  BY DEF DeployInv, DeployTypes
<1>4. PICK c \in DeployCommandTypes : c = [Deploy!Idle EXCEPT !.at = "make", !.token = t, !.records = p]
  <2>1. [Deploy!Idle EXCEPT !.at = "make", !.token = t, !.records = p] \in DeployCommandTypes
    BY IdleCommand DEF DeployCommandTypes
  <2> QED BY <2>1
<1>5. c.at = "make" /\ c.token = t /\ c.records = p /\ c.done = 0
  BY <1>4 DEF Deploy!Idle
<1>6. deployCommand' = c
  BY <1>1, <1>3, <1>4
<1>7. Kept /\ AddressesInOrder' /\ \A any : Deploy!Steps(any)' = Deploy!Steps(any)
  BY <1>1, TxsUnchanged DEF DeployInv
<1>8. DeployTypes'
  BY <1>1, <1>6 DEF DeployInv, DeployTypes
<1>9. CommandKnows'
  <2>1. Created(c.records, c.token, c.done)'
    BY <1>5 DEF Created
  <2>2. Deploy!IsPrefix(p, Deploy!Steps(t))' /\ 0 <= Len(p)
    BY <1>1, <1>3, <1>7 DEF Deploy!IsPrefix
  <2>3. Accepted(t)'
    BY <1>1, <1>2, <1>3 DEF Accepted
  <2> QED BY <1>1, <1>3, <1>5, <1>6, <2>1, <2>2, <2>3 DEF CommandKnows
<1>10. NoneForgotten'
  BY <1>1, <1>5, <1>6, IdleCommand DEF DeployInv, NoneForgotten, InFlight, Deploy!Hashes
<1> QED BY <1>1, <1>7, <1>8, <1>9, <1>10, ManifestStays DEF DeployInv

LEMMA RegistrationStarts ==
  ASSUME DeployInv, Deploy!RegisterStarts
  PROVE DeployInv'
<1>1. /\ deployCommand = Deploy!Idle /\ manifest # Deploy!NoManifest
      /\ deployCommand' = [Deploy!Idle EXCEPT !.at = "register"]
      /\ UNCHANGED <<network, token, deployTxs, deployProgress, manifest, deployLost>>
  BY DEF Deploy!RegisterStarts
<1>2. PICK c \in DeployCommandTypes : c = [Deploy!Idle EXCEPT !.at = "register"] /\ c.at = "register"
  <2>1. [Deploy!Idle EXCEPT !.at = "register"] \in DeployCommandTypes
    BY IdleCommand DEF DeployCommandTypes
  <2> QED BY <2>1 DEF Deploy!Idle
<1>3. Kept /\ AddressesInOrder'
  BY <1>1, TxsUnchanged DEF DeployInv
<1>4. DeployTypes'
  BY <1>1, <1>2 DEF DeployInv, DeployTypes
<1>5. CommandKnows'
  BY <1>1, <1>2 DEF CommandKnows
<1>6. NoneForgotten'
  BY <1>1, <1>2, IdleCommand DEF DeployInv, NoneForgotten, InFlight, Deploy!Hashes
<1> QED BY <1>1, <1>3, <1>4, <1>5, <1>6, ManifestStays DEF DeployInv

\* A transaction without a record is lost with its command.
LEMMA DeployStops ==
  ASSUME DeployInv, Deploy!Stops
  PROVE DeployInv'
<1>1. /\ deployLost' = IF deployCommand.at \in {"sent", "registering"}
                       THEN deployLost \cup {deployCommand.tx} ELSE deployLost
      /\ deployCommand' = Deploy!Idle
      /\ UNCHANGED <<network, token, deployTxs, deployProgress, manifest>>
  BY DEF Deploy!Stops
<1>2. Kept /\ AddressesInOrder'
  BY <1>1, TxsUnchanged DEF DeployInv
<1>3. DeployTypes'
  BY <1>1, IdleCommand DEF DeployInv, DeployTypes
<1>4. CommandKnows'
  BY <1>1, IdleCommand DEF CommandKnows
<1>5. NoneForgotten'
  BY <1>1, IdleCommand DEF DeployInv, NoneForgotten, InFlight, Deploy!Hashes
<1> QED BY <1>1, <1>2, <1>3, <1>4, <1>5, ManifestStays DEF DeployInv

LEMMA WantedTyped ==
  ASSUME NEW t \in Tokens, NEW records \in Seq(Entries), NEW i \in Nat, i >= 1, i - 1 <= Len(records),
         i <= Len(Deploy!Steps(t)), Accepted(t)
  PROVE Wanted(records, t, i) \in Seq(Nat)
<1>1. Len(Deploy!Steps(t)) \in {3, 4} /\ Len(records) \in Nat
  BY PlanSize
<1>2. t \in Nat
  BY ComponentsAssumption DEF Tokens, Deploy!TokensAreOutside, Deploy!Unset
<1>3. ASSUME NEW n \in 1..Len(records) PROVE records[n].address \in Nat
  <2>1. records[n] \in Entries
    OBVIOUS
  <2> QED BY <2>1 DEF Entries
<1>4. t = Deploy!Unset => Len(Deploy!Steps(t)) = 4
  BY PlanIs, ComponentsAssumption DEF Accepted, Deploy!TokensAreOutside, Deploy!Unset
<1>5. PICK size \in Nat : size = Len(records)
  BY <1>1
<1>6. PICK length \in Nat : length = Len(Deploy!Steps(t))
  BY <1>1
<1>7. i - 1 <= size /\ i <= length /\ (length = 3 \/ length = 4)
  BY <1>1, <1>5, <1>6
<1>8. /\ i = 2 => 1 <= size
      /\ i = length => 1 <= size /\ 2 <= size
      /\ i = length /\ length = 4 => 3 <= size
  BY <1>7
<1>9. /\ i = 2 => records[1].address \in Nat
      /\ i = length => records[2].address \in Nat
      /\ i = length /\ length = 4 => records[3].address \in Nat
  BY <1>3, <1>5, <1>8
<1>10. Wanted(records, t, i) =
         IF i = 2 THEN <<records[1].address>>
         ELSE IF i = length
         THEN <<IF t = Deploy!Unset THEN records[3].address ELSE t, records[2].address>>
         ELSE <<>>
  BY <1>6 DEF Wanted
<1>11. CASE i = 2
  BY <1>9, <1>10, <1>11
<1>12. CASE i # 2 /\ i = length
  <2>1. (IF t = Deploy!Unset THEN records[3].address ELSE t) \in Nat
    BY <1>2, <1>4, <1>6, <1>9, <1>12
  <2>2. Wanted(records, t, i)
          = <<IF t = Deploy!Unset THEN records[3].address ELSE t, records[2].address>>
    BY <1>10, <1>12
  <2>3. records[2].address \in Nat
    BY <1>9, <1>12
  <2>4. \A a, b \in Nat : <<a, b>> \in Seq(Nat)
    OBVIOUS
  <2> QED BY <2>1, <2>2, <2>3, <2>4
<1>13. CASE i # 2 /\ i # length
  BY <1>10, <1>13
<1> QED BY <1>11, <1>12, <1>13

\* What a command that deploys has in memory.
LEMMA CommandAtWork ==
  ASSUME DeployInv, deployCommand.at \in {"make", "sent", "wait"}
  PROVE \E t \in Tokens, p \in Seq(Entries), n \in Nat :
          /\ t = deployCommand.token /\ p = deployCommand.records /\ n = deployCommand.done
          /\ p = deployProgress /\ manifest = Deploy!NoManifest /\ n <= Len(p)
          /\ Deploy!IsPrefix(p, Deploy!Steps(t)) /\ Accepted(t) /\ Created(p, t, n) /\ Recorded(p)
<1>1. /\ deployCommand.token \in Tokens /\ deployCommand.records \in Seq(Entries)
      /\ deployCommand.done \in Nat
  BY DeployCommandTyped DEF DeployInv
<1> QED BY <1>1 DEF DeployInv, CommandKnows, ManifestKnows

LEMMA CreatedGrows ==
  ASSUME NEW p, NEW t, NEW n \in Nat, Created(p, t, n), deployTxs[p[n + 1].hash].ok,
         deployTxs[p[n + 1].hash].args = Wanted(p, t, n + 1)
  PROVE Created(p, t, n + 1)
<1> SUFFICES ASSUME NEW i \in 1..(n + 1)
             PROVE  deployTxs[p[i].hash].ok /\ deployTxs[p[i].hash].args = Wanted(p, t, i)
  BY DEF Created
<1>1. i \in 1..n \/ i = n + 1
  OBVIOUS
<1> QED BY <1>1 DEF Created

\* A contract more is made: a record that was verified, or whose receipt came.
LEMMA DeployMakes ==
  ASSUME DeployInv, deployCommand.at \in {"make", "wait"},
         NEW t \in Tokens, NEW p \in Seq(Entries), NEW n \in Nat,
         t = deployCommand.token, p = deployCommand.records, n = deployCommand.done,
         n + 1 <= Len(p), Created(p, t, n + 1),
         deployProgress' = p,
         deployCommand' = [deployCommand EXCEPT !.at = "make", !.done = n + 1],
         UNCHANGED <<network, token, deployTxs, manifest, deployLost>>
  PROVE DeployInv'
<1>1. /\ p = deployProgress /\ manifest = Deploy!NoManifest
      /\ Deploy!IsPrefix(p, Deploy!Steps(t)) /\ Accepted(t)
  BY CommandAtWork
<1>2. PICK c \in DeployCommandTypes :
        /\ c = [deployCommand EXCEPT !.at = "make", !.done = n + 1]
        /\ c.at = "make" /\ c.done = n + 1 /\ c.token = t /\ c.records = p
  <2>1. PICK old \in DeployCommandTypes : old = deployCommand
    BY DEF DeployInv, DeployTypes
  <2>2. PICK next \in Nat : next = n + 1
    OBVIOUS
  <2>3. [old EXCEPT !.at = "make", !.done = next] \in DeployCommandTypes
    BY DEF DeployCommandTypes
  <2> QED BY <2>1, <2>2, <2>3 DEF DeployCommandTypes
<1>3. deployCommand' = c /\ UNCHANGED deployProgress
  BY <1>1, <1>2
<1>4. /\ Kept /\ AddressesInOrder' /\ Deploy!Steps(t)' = Deploy!Steps(t)
      /\ Created(p, t, n + 1)' = Created(p, t, n + 1)
  BY TxsUnchanged DEF DeployInv
<1>5. DeployTypes'
  BY <1>3 DEF DeployInv, DeployTypes
<1>6. CommandKnows'
  <2>1. Deploy!IsPrefix(p, Deploy!Steps(t))' /\ Accepted(t)' /\ Created(p, t, n + 1)'
    BY <1>1, <1>4 DEF Deploy!IsPrefix, Accepted
  <2> QED BY <1>1, <1>2, <1>3, <2>1 DEF CommandKnows
<1>7. NoneForgotten'
  BY <1>2, <1>3 DEF DeployInv, NoneForgotten, InFlight, Deploy!Hashes
<1> QED BY <1>3, <1>4, <1>5, <1>6, <1>7, ManifestStays DEF DeployInv

LEMMA DeployReuses ==
  ASSUME DeployInv, Deploy!Reuse
  PROVE DeployInv'
<1>1. /\ deployCommand.at = "make"
      /\ deployProgress' = deployCommand.records
      /\ UNCHANGED <<network, token, deployTxs, manifest, deployLost>>
  BY DEF Deploy!Reuse
<1>2. PICK t \in Tokens, p \in Seq(Entries), n \in Nat :
        /\ t = deployCommand.token /\ p = deployCommand.records /\ n = deployCommand.done
        /\ n <= Len(p) /\ Deploy!IsPrefix(p, Deploy!Steps(t)) /\ Created(p, t, n)
  BY <1>1, CommandAtWork
<1>3. /\ n + 1 <= Len(p) /\ Deploy!VerifyDeploymentRecord(p[n + 1])
      /\ deployCommand' = [deployCommand EXCEPT !.done = n + 1]
  BY <1>2 DEF Deploy!Reuse, Deploy!Next0
<1>4. n + 1 <= Len(Deploy!Steps(t))
  <2>1. Len(p) \in Nat /\ Len(Deploy!Steps(t)) \in Nat /\ Len(p) <= Len(Deploy!Steps(t))
    BY <1>2, PlanSize DEF Deploy!IsPrefix
  <2> QED BY <1>3, <2>1
<1>5. Deploy!Args = Wanted(p, t, n + 1)
  BY <1>1, <1>2, <1>4, ArgsWanted
<1>6. deployTxs[p[n + 1].hash].ok /\ deployTxs[p[n + 1].hash].args = Wanted(p, t, n + 1)
  BY <1>3, <1>5 DEF Deploy!VerifyDeploymentRecord
<1>7. Created(p, t, n + 1)
  BY <1>2, <1>6, CreatedGrows
<1>8. deployCommand' = [deployCommand EXCEPT !.at = "make", !.done = n + 1]
  BY <1>1, <1>3 DEF DeployInv, DeployTypes, DeployCommandTypes
<1> QED BY <1>1, <1>2, <1>3, <1>7, <1>8, DeployMakes

LEMMA DeployConfirmed ==
  ASSUME DeployInv, Deploy!Confirmed
  PROVE DeployInv'
<1>1. /\ deployCommand.at = "wait" /\ Deploy!Succeeded(deployCommand.tx)
      /\ deployProgress' = deployCommand.records
      /\ UNCHANGED <<network, token, deployTxs, manifest, deployLost>>
  BY DEF Deploy!Confirmed
<1>2. PICK t \in Tokens, p \in Seq(Entries), n \in Nat :
        /\ t = deployCommand.token /\ p = deployCommand.records /\ n = deployCommand.done
        /\ Created(p, t, n)
  BY <1>1, CommandAtWork
<1>3. /\ Len(p) = n + 1 /\ p[n + 1].hash = deployCommand.tx
      /\ deployTxs[deployCommand.tx].args = Wanted(p, t, n + 1)
  BY <1>1, <1>2 DEF DeployInv, CommandKnows
<1>4. deployTxs[p[n + 1].hash].ok
  BY <1>1, <1>3 DEF Deploy!Succeeded
<1>5. Created(p, t, n + 1)
  BY <1>2, <1>3, <1>4, CreatedGrows
<1>6. deployCommand' = [deployCommand EXCEPT !.at = "make", !.done = n + 1]
  BY <1>2 DEF Deploy!Confirmed, Deploy!Next0
<1>7. n + 1 <= Len(p)
  BY <1>3
<1> QED BY <1>1, <1>2, <1>5, <1>6, <1>7, DeployMakes

\* The next contract is sent as the plan wants it.
LEMMA DeployDeploys ==
  ASSUME DeployInv, Deploy!Deploy
  PROVE DeployInv'
<1>1. /\ deployCommand.at = "make" /\ deployCommand.done = Len(deployCommand.records)
      /\ Deploy!Next0 <= Len(Deploy!Steps(deployCommand.token))
      /\ Deploy!Sent(Deploy!Step, Deploy!Args)
      /\ deployCommand' = [deployCommand EXCEPT !.at = "sent", !.tx = Len(deployTxs) + 1]
      /\ UNCHANGED <<network, token, deployProgress, manifest, deployLost>>
  BY DEF Deploy!Deploy
<1>2. PICK t \in Tokens, p \in Seq(Entries), n \in Nat :
        /\ t = deployCommand.token /\ p = deployCommand.records /\ n = deployCommand.done
        /\ p = deployProgress /\ manifest = Deploy!NoManifest /\ n <= Len(p)
        /\ Deploy!IsPrefix(p, Deploy!Steps(t)) /\ Accepted(t) /\ Created(p, t, n) /\ Recorded(p)
  BY <1>1, CommandAtWork
<1>3. n + 1 <= Len(Deploy!Steps(t)) /\ Deploy!Step = Deploy!Steps(t)[n + 1] /\ n = Len(p)
  BY <1>1, <1>2 DEF Deploy!Next0, Deploy!Step
<1>4. Deploy!Args = Wanted(p, t, n + 1)
  BY <1>1, <1>2, <1>3, ArgsWanted
<1>5. PICK s \in StepNames : s = Deploy!Steps(t)[n + 1]
  <2>1. n + 1 \in 1..Len(Deploy!Steps(t))
    BY <1>3, PlanSize
  <2>2. Contracts \subseteq StepNames
    BY DEF StepNames
  <2> QED BY <2>1, <2>2, PlanSize
<1>6. PICK args \in Seq(Nat) : args = Wanted(p, t, n + 1)
  BY <1>2, <1>3, WantedTyped
<1>7. Deploy!Sent(s, args)
  BY <1>1, <1>3, <1>4, <1>5, <1>6
<1>8. PICK last \in Nat : last = Len(deployTxs) + 1
  BY TransactionsTyped DEF DeployInv
<1>9. /\ deployTxs' \in Seq(DeployTxTypes) /\ AddressesInOrder' /\ Kept
      /\ DOMAIN deployTxs' = DOMAIN deployTxs \cup {last}
      /\ deployTxs'[last].step = s /\ deployTxs'[last].args = args
  BY <1>1, <1>7, <1>8, DeploySends
<1>10. PICK c \in DeployCommandTypes :
         /\ c = [deployCommand EXCEPT !.at = "sent", !.tx = last]
         /\ c.at = "sent" /\ c.tx = last /\ c.done = n /\ c.token = t /\ c.records = p
  <2>1. PICK old \in DeployCommandTypes : old = deployCommand
    BY DEF DeployInv, DeployTypes
  <2>2. [old EXCEPT !.at = "sent", !.tx = last] \in DeployCommandTypes
    BY DEF DeployCommandTypes
  <2> QED BY <1>2, <2>1, <2>2 DEF DeployCommandTypes
<1>11. deployCommand' = c
  BY <1>1, <1>8, <1>10
<1>12. DeployTypes'
  BY <1>1, <1>9, <1>11 DEF DeployInv, DeployTypes
<1>13. CommandKnows'
  <2>1. Created(p, t, n)'
    BY <1>2, <1>9, CreatedStays
  <2>2. Wanted(p, t, n + 1)' = args /\ Deploy!Steps(t)' = Deploy!Steps(t)
    BY <1>1, <1>6, WantedStays
  <2>3. Deploy!IsPrefix(p, Deploy!Steps(t))' /\ Accepted(t)'
    BY <1>1, <1>2, <2>2 DEF Deploy!IsPrefix, Accepted
  <2>4. n < Len(Deploy!Steps(t))
    BY <1>3, PlanSize
  <2> QED BY <1>1, <1>2, <1>3, <1>5, <1>9, <1>10, <1>11, <2>1, <2>2, <2>3, <2>4 DEF CommandKnows
<1>14. NoneForgotten'
  <2>1. InFlight = {} /\ InFlight' = {last}
    BY <1>1, <1>10, <1>11 DEF InFlight
  <2>2. /\ Deploy!Hashes(deployProgress)' = Deploy!Hashes(deployProgress)
        /\ Deploy!Hashes(manifest.records)' = Deploy!Hashes(manifest.records)
        /\ Deploy!Hashes(manifest.agents)' = Deploy!Hashes(manifest.agents)
    BY <1>1 DEF Deploy!Hashes
  <2> QED BY <1>1, <1>9, <2>1, <2>2 DEF DeployInv, NoneForgotten
<1> QED BY <1>1, <1>9, <1>12, <1>13, <1>14, ManifestStays DEF DeployInv

\* The record of the contract that was sent is in the file before its receipt.
LEMMA DeployCheckpoints ==
  ASSUME DeployInv, Deploy!Checkpoint
  PROVE DeployInv'
<1> DEFINE e == [step |-> Deploy!Step, address |-> deployTxs[deployCommand.tx].address,
                 hash |-> deployCommand.tx]
<1>1. /\ deployCommand.at = "sent"
      /\ deployProgress' = Append(deployCommand.records, e)
      /\ deployCommand' = [deployCommand EXCEPT !.at = "wait", !.records = deployProgress']
      /\ UNCHANGED <<network, token, deployTxs, manifest, deployLost>>
  BY DEF Deploy!Checkpoint
<1>2. PICK t \in Tokens, p \in Seq(Entries), n \in Nat :
        /\ t = deployCommand.token /\ p = deployCommand.records /\ n = deployCommand.done
        /\ p = deployProgress /\ manifest = Deploy!NoManifest /\ n <= Len(p)
        /\ Deploy!IsPrefix(p, Deploy!Steps(t)) /\ Accepted(t) /\ Created(p, t, n) /\ Recorded(p)
  BY <1>1, CommandAtWork
<1>3. PICK tx \in Nat : tx = deployCommand.tx
  BY DeployCommandTyped DEF DeployInv
<1>4. /\ n = Len(p) /\ n < Len(Deploy!Steps(t)) /\ tx \in DOMAIN deployTxs
      /\ deployTxs[tx].step = Deploy!Steps(t)[n + 1] /\ deployTxs[tx].args = Wanted(p, t, n + 1)
  BY <1>1, <1>2, <1>3 DEF DeployInv, CommandKnows
<1>5. /\ deployTxs[tx].step \in StepNames /\ deployTxs[tx].address \in Nat
  <2>1. deployTxs[tx] \in DeployTxTypes
    BY <1>4, TransactionsTyped DEF DeployInv
  <2> QED BY <2>1 DEF DeployTxTypes
<1>6. Deploy!Step = deployTxs[tx].step
  BY <1>2, <1>4 DEF Deploy!Step, Deploy!Next0
<1>7. PICK entry \in Entries :
        /\ entry = e
        /\ entry.step = deployTxs[tx].step /\ entry.address = deployTxs[tx].address /\ entry.hash = tx
  <2>1. e \in Entries
    BY <1>3, <1>5, <1>6 DEF Entries
  <2> QED BY <1>3, <1>6, <2>1
<1> HIDE DEF e
<1>8. PICK new \in Seq(Entries) : new = Append(p, entry)
  BY AppendProperties
<1>9. /\ Len(new) = n + 1 /\ DOMAIN new = 1..(n + 1) /\ DOMAIN p = 1..n /\ new[n + 1] = entry
      /\ \A i \in 1..n : new[i] = p[i]
  BY <1>4, <1>8, AppendProperties
<1>10. PICK c \in DeployCommandTypes :
         /\ c = [deployCommand EXCEPT !.at = "wait", !.records = new]
         /\ c.at = "wait" /\ c.tx = tx /\ c.done = n /\ c.token = t /\ c.records = new
  <2>1. PICK old \in DeployCommandTypes : old = deployCommand
    BY DEF DeployInv, DeployTypes
  <2>2. [old EXCEPT !.at = "wait", !.records = new] \in DeployCommandTypes
    BY DEF DeployCommandTypes
  <2> QED BY <1>2, <1>3, <2>1, <2>2 DEF DeployCommandTypes
<1>11. deployProgress' = new /\ deployCommand' = c
  BY <1>1, <1>2, <1>7, <1>8, <1>10
<1>12. Kept /\ AddressesInOrder' /\ Deploy!Steps(t)' = Deploy!Steps(t)
  BY <1>1, TxsUnchanged DEF DeployInv
<1>13. DeployTypes'
  BY <1>1, <1>11 DEF DeployInv, DeployTypes
<1>14. Deploy!IsPrefix(new, Deploy!Steps(t))
  <2>1. Len(Deploy!Steps(t)) \in Nat /\ n + 1 <= Len(Deploy!Steps(t))
    BY <1>4, PlanSize
  <2>2. \A i \in 1..n : p[i].step = Deploy!Steps(t)[i]
    BY <1>2, <1>9 DEF Deploy!IsPrefix
  <2>3. \A i \in 1..(n + 1) : i \in 1..n \/ i = n + 1
    OBVIOUS
  <2>4. \A i \in DOMAIN new : new[i].step = Deploy!Steps(t)[i]
    BY <1>4, <1>7, <1>9, <2>2, <2>3
  <2> QED BY <1>9, <2>1, <2>4 DEF Deploy!IsPrefix
<1>15. Recorded(new)
  <2>1. \A i \in 1..(n + 1) : i \in 1..n \/ i = n + 1
    OBVIOUS
  <2> QED BY <1>2, <1>4, <1>7, <1>9, <2>1 DEF Recorded
<1>16. \A i \in 1..(n + 1) : Wanted(new, t, i) = Wanted(p, t, i)
  <2> SUFFICES ASSUME NEW i \in 1..(n + 1) PROVE Wanted(new, t, i) = Wanted(p, t, i)
    OBVIOUS
  <2>1. PICK length \in Nat : length = Len(Deploy!Steps(t)) /\ (length = 3 \/ length = 4)
    BY PlanSize
  <2>2. t = Deploy!Unset => length = 4
    BY <1>2, <2>1, PlanIs, ComponentsAssumption DEF Accepted, Deploy!TokensAreOutside, Deploy!Unset
  <2>3. i \in Nat /\ i <= n + 1 /\ (length = 3 \/ length = 4)
    BY <2>1
  <2>4. /\ i = 2 => 1 \in 1..n
        /\ i = length => 2 \in 1..n
        /\ i = length /\ length = 4 => 3 \in 1..n
    BY <2>3
  <2>5. /\ i = 2 => new[1] = p[1]
        /\ i = length => new[2] = p[2]
        /\ i = length /\ t = Deploy!Unset => new[3] = p[3]
    BY <1>9, <2>2, <2>4
  <2> QED BY <2>1, <2>5 DEF Wanted
<1>17. Created(new, t, n)
  BY <1>2, <1>9, <1>16 DEF Created
<1>18. CommandKnows'
  <2>1. Deploy!IsPrefix(new, Deploy!Steps(t))' /\ Accepted(t)' /\ Created(new, t, n)'
    BY <1>1, <1>2, <1>12, <1>14, <1>17, TxsUnchanged DEF Deploy!IsPrefix, Accepted
  <2>2. Wanted(new, t, n + 1)' = Wanted(p, t, n + 1)
    <3>1. n + 1 \in 1..(n + 1) /\ UNCHANGED network
      BY <1>1
    <3>2. Wanted(new, t, n + 1) = Wanted(p, t, n + 1)
      BY <1>16, <3>1
    <3>3. Wanted(new, t, n + 1)' = Wanted(new, t, n + 1)
      BY <3>1, WantedStays
    <3> QED BY <3>2, <3>3
  <2>3. deployTxs' = deployTxs /\ manifest' = Deploy!NoManifest
    BY <1>1, <1>2
  <2> QED BY <1>4, <1>7, <1>9, <1>10, <1>11, <2>1, <2>2, <2>3 DEF CommandKnows
<1>19. ManifestKnows'
  <2>1. ManifestKnows
    BY DEF DeployInv
  <2>2. Recorded(new)' /\ Recorded(manifest.records)'
    BY <1>1, <1>15, <2>1 DEF Recorded, ManifestKnows
  <2>3. \E any \in Tokens : Deploy!IsPrefix(new, Deploy!Steps(any))'
    BY <1>12, <1>14 DEF Deploy!IsPrefix
  <2>4. manifest' = manifest /\ deployProgress' = new /\ deployTxs' = deployTxs
    BY <1>1, <1>11
  <2>5. /\ Len(manifest.agents) <= Len(Deploy!Slugs)
        /\ \A i \in DOMAIN manifest.agents :
             /\ manifest.agents[i].step = Deploy!Slugs[i] /\ manifest.agents[i].hash \in DOMAIN deployTxs
             /\ deployTxs[manifest.agents[i].hash].step = manifest.agents[i].step
    BY <2>1 DEF ManifestKnows
  <2>6. Recorded(deployProgress)' /\ Recorded(manifest.records)'
    BY <2>2, <2>4 DEF Recorded
  <2>7. \E any \in Tokens : Deploy!IsPrefix(deployProgress, Deploy!Steps(any))'
    BY <2>3, <2>4 DEF Deploy!IsPrefix
  <2>8. manifest' = Deploy!NoManifest
    BY <1>2, <2>4
  <2> QED BY <2>4, <2>5, <2>6, <2>7, <2>8 DEF ManifestKnows
<1>20. NoneForgotten'
  <2>1. InFlight = {tx} /\ InFlight' = {}
    BY <1>1, <1>3, <1>10, <1>11 DEF InFlight
  <2>2. Deploy!Hashes(p) \cup {tx} \subseteq Deploy!Hashes(new)
    <3>1. \A i \in 1..n : i \in 1..(n + 1)
      OBVIOUS
    <3>2. n + 1 \in 1..(n + 1)
      OBVIOUS
    <3> QED BY <1>7, <1>9, <3>1, <3>2 DEF Deploy!Hashes
  <2>3. Deploy!Hashes(deployProgress)' = Deploy!Hashes(new) /\ Deploy!Hashes(deployProgress) = Deploy!Hashes(p)
    BY <1>2, <1>11 DEF Deploy!Hashes
  <2>4. /\ Deploy!Hashes(manifest.records)' = Deploy!Hashes(manifest.records)
        /\ Deploy!Hashes(manifest.agents)' = Deploy!Hashes(manifest.agents)
    BY <1>1 DEF Deploy!Hashes
  <2> QED BY <1>1, <2>1, <2>2, <2>3, <2>4 DEF DeployInv, NoneForgotten
<1> QED BY <1>12, <1>13, <1>18, <1>19, <1>20 DEF DeployInv

\* The manifest is written of a whole plan.
LEMMA DeployWritesManifest ==
  ASSUME DeployInv, Deploy!WriteManifest
  PROVE DeployInv'
<1>1. /\ deployCommand.at = "make"
      /\ deployCommand.done = Len(Deploy!Steps(deployCommand.token))
      /\ UNCHANGED <<network, token, deployTxs, deployProgress, deployLost>>
  BY DEF Deploy!WriteManifest
<1>2. PICK t \in Tokens, p \in Seq(Entries), n \in Nat :
        /\ t = deployCommand.token /\ p = deployCommand.records /\ n = deployCommand.done
        /\ p = deployProgress /\ manifest = Deploy!NoManifest /\ n <= Len(p)
        /\ Deploy!IsPrefix(p, Deploy!Steps(t)) /\ Accepted(t) /\ Created(p, t, n) /\ Recorded(p)
  BY <1>1, CommandAtWork
<1>3. n = Len(Deploy!Steps(t)) /\ n = Len(p) /\ DOMAIN p = 1..n
  <2>1. Len(p) \in Nat /\ Len(p) <= Len(Deploy!Steps(t)) /\ DOMAIN p = 1..Len(p)
    BY <1>2 DEF Deploy!IsPrefix
  <2> QED BY <1>1, <1>2, <2>1
<1>4. n >= 3 /\ (t = Deploy!Unset => n = 4 /\ Deploy!Steps(t)[3] = "DemoUSD")
  <2>1. t = Deploy!Unset => network # "xlayer-mainnet"
    BY <1>2, ComponentsAssumption DEF Accepted, Deploy!TokensAreOutside, Deploy!Unset
  <2>2. PICK length \in Nat : length = Len(Deploy!Steps(t))
    BY PlanSize
  <2>3. length = 3 \/ length = 4
    BY <2>2, PlanSize
  <2>4. t = Deploy!Unset => length = 4 /\ Deploy!Steps(t)[3] = "DemoUSD"
    BY <2>1, <2>2, PlanIs
  <2>5. n = length
    BY <1>3, <2>2
  <2> QED BY <2>3, <2>4, <2>5
<1>5. t = Deploy!Unset => Deploy!AddressOf(p, "DemoUSD") = p[3].address
  <2>1. 3 \in 1..Len(p)
    BY <1>3, <1>4
  <2>2. Deploy!AddressOf(p, Deploy!Steps(t)[3]) = p[3].address
    BY <1>2, <2>1, AddressAt
  <2> QED BY <1>4, <2>2
<1>6. p[3].address \in Nat /\ t \in Nat
  <2>1. p[3] \in Entries
    BY <1>3, <1>4
  <2> QED BY <2>1, ComponentsAssumption DEF Entries, Tokens, Deploy!TokensAreOutside, Deploy!Unset
<1>7. PICK a \in Nat : a = IF t = Deploy!Unset THEN p[3].address ELSE t
  BY <1>6
<1>8. PICK m \in ManifestTypes :
        m = [records |-> p, agents |-> <<>>, token |-> a] /\ m.records = p /\ m.agents = <<>> /\ m.token = a
  <2>1. <<>> \in Seq(Registrations)
    OBVIOUS
  <2>2. [records |-> p, agents |-> <<>>, token |-> a] \in ManifestTypes
    BY <2>1 DEF ManifestTypes
  <2> QED BY <2>2
<1>9. manifest' = m /\ deployCommand' = [deployCommand EXCEPT !.at = "unlink"]
  BY <1>2, <1>5, <1>7, <1>8 DEF Deploy!WriteManifest
<1>10. m # Deploy!NoManifest
  <2>1. Deploy!NoManifest.records = <<>> /\ p # <<>>
    BY <1>3, <1>4 DEF Deploy!NoManifest
  <2> QED BY <1>8, <2>1
<1>11. deployCommand' \in DeployCommandTypes /\ deployCommand'.at = "unlink"
  <2>1. PICK old \in DeployCommandTypes : old = deployCommand
    BY DEF DeployInv, DeployTypes
  <2>2. [old EXCEPT !.at = "unlink"] \in DeployCommandTypes
    BY DEF DeployCommandTypes
  <2> QED BY <1>9, <2>1, <2>2 DEF DeployCommandTypes
<1>12. AddressesInOrder' /\ Deploy!Steps(t)' = Deploy!Steps(t) /\ Created(p, t, n)' = Created(p, t, n)
  BY <1>1, TxsUnchanged DEF DeployInv
<1>13. DeployTypes'
  BY <1>1, <1>9, <1>11 DEF DeployInv, DeployTypes
<1>14. CommandKnows'
  BY <1>9, <1>10, <1>11 DEF CommandKnows
<1>15. PlanOf(t)'
  <2>1. Deploy!IsPrefix(p, Deploy!Steps(t))' /\ Accepted(t)'
    BY <1>1, <1>2, <1>12 DEF Deploy!IsPrefix, Accepted
  <2> QED BY <1>2, <1>3, <1>7, <1>8, <1>9, <1>12, <2>1 DEF PlanOf
<1>16. ManifestKnows'
  <2>1. Recorded(p)'
    BY <1>1, <1>2 DEF Recorded
  <2>2. Len(m.agents) = 0 /\ DOMAIN m.agents = {} /\ Len(Deploy!Slugs) = 2
    BY <1>8 DEF Deploy!Slugs
  <2>3. deployProgress' = p
    BY <1>1, <1>2
  <2> QED BY <1>8, <1>9, <1>10, <1>15, <2>1, <2>2, <2>3 DEF ManifestKnows
<1>17. NoneForgotten'
  <2>1. InFlight = {} /\ InFlight' = {}
    BY <1>1, <1>11 DEF InFlight
  <2>2. Deploy!Hashes(manifest.records) = {} /\ Deploy!Hashes(manifest.agents) = {}
    BY <1>2 DEF Deploy!NoManifest, Deploy!Hashes
  <2>3. Deploy!Hashes(deployProgress)' = Deploy!Hashes(deployProgress)
    BY <1>1 DEF Deploy!Hashes
  <2>4. DOMAIN deployTxs \subseteq deployLost \cup Deploy!Hashes(deployProgress)
    BY <2>1, <2>2 DEF DeployInv, NoneForgotten
  <2> QED BY <1>1, <2>3, <2>4 DEF NoneForgotten
<1> QED BY <1>12, <1>13, <1>14, <1>16, <1>17 DEF DeployInv

\* The progress file goes when the manifest has its records.
LEMMA DeployUnlinks ==
  ASSUME DeployInv, Deploy!UnlinkProgress
  PROVE DeployInv'
<1>1. /\ deployCommand.at = "unlink" /\ deployProgress' = <<>> /\ deployCommand' = Deploy!Idle
      /\ UNCHANGED <<network, token, deployTxs, manifest, deployLost>>
  BY DEF Deploy!UnlinkProgress
<1>2. manifest # Deploy!NoManifest /\ deployProgress \in {<<>>, manifest.records}
  BY <1>1 DEF DeployInv, CommandKnows, ManifestKnows
<1>3. Kept /\ AddressesInOrder' /\ \A t : Deploy!Steps(t)' = Deploy!Steps(t)
  BY <1>1, TxsUnchanged DEF DeployInv
<1>4. DeployTypes'
  BY <1>1, IdleCommand DEF DeployInv, DeployTypes
<1>5. CommandKnows'
  BY <1>1, IdleCommand DEF CommandKnows
<1>6. ManifestKnows'
  <2>1. ManifestKnows /\ manifest' = manifest /\ deployTxs' = deployTxs /\ network' = network
    BY <1>1 DEF DeployInv
  <2>2. Recorded(<<>>)' /\ Recorded(manifest.records)'
    BY <2>1 DEF Recorded, ManifestKnows
  <2>3. ASSUME NEW t, PlanOf(t) PROVE PlanOf(t)'
    BY <1>1, <1>3, <2>3 DEF PlanOf, Accepted, Deploy!IsPrefix, Created, Wanted
  <2>4. \E t \in Tokens : PlanOf(t)'
    BY <1>2, <2>1, <2>3 DEF ManifestKnows
  <2> QED BY <1>1, <1>2, <2>1, <2>2, <2>4 DEF ManifestKnows, Recorded
<1>7. NoneForgotten'
  <2>1. InFlight = {} /\ InFlight' = {}
    BY <1>1, IdleCommand DEF InFlight
  <2>2. Deploy!Hashes(deployProgress) \subseteq Deploy!Hashes(manifest.records)
    BY <1>2 DEF Deploy!Hashes
  <2>3. Deploy!Hashes(manifest.records)' = Deploy!Hashes(manifest.records)
        /\ Deploy!Hashes(manifest.agents)' = Deploy!Hashes(manifest.agents)
    BY <1>1 DEF Deploy!Hashes
  <2> QED BY <1>1, <2>1, <2>2, <2>3 DEF DeployInv, NoneForgotten
<1> QED BY <1>3, <1>4, <1>5, <1>6, <1>7 DEF DeployInv

\* The next agent is registered.
LEMMA AgentSends ==
  ASSUME DeployInv, Deploy!Register
  PROVE DeployInv'
<1>1. /\ deployCommand.at = "register" /\ Len(manifest.agents) < Len(Deploy!Slugs)
      /\ Deploy!Sent(Deploy!Slugs[Len(manifest.agents) + 1], <<>>)
      /\ deployCommand' = [deployCommand EXCEPT !.at = "registering", !.tx = Len(deployTxs) + 1]
      /\ UNCHANGED <<network, token, deployProgress, manifest, deployLost>>
  BY DEF Deploy!Register
<1>2. manifest # Deploy!NoManifest
  BY <1>1 DEF DeployInv, CommandKnows
<1>3. PICK n \in Nat : n = Len(manifest.agents)
  BY DeployCommandTyped DEF DeployInv
<1>4. PICK s \in StepNames : s = Deploy!Slugs[n + 1]
  <2>1. Len(Deploy!Slugs) = 2
    BY DEF Deploy!Slugs
  <2>2. n < Len(Deploy!Slugs)
    BY <1>1, <1>3
  <2>3. n = 0 \/ n = 1
    BY <2>1, <2>2
  <2> QED BY <2>3 DEF Deploy!Slugs, StepNames
<1>5. PICK last \in Nat : last = Len(deployTxs) + 1
  BY TransactionsTyped DEF DeployInv
<1>6. /\ deployTxs' \in Seq(DeployTxTypes) /\ AddressesInOrder' /\ Kept
      /\ DOMAIN deployTxs' = DOMAIN deployTxs \cup {last}
      /\ deployTxs'[last].step = s
  <2>1. <<>> \in Seq(Nat) /\ Deploy!Sent(s, <<>>)
    BY <1>1, <1>3, <1>4
  <2> QED BY <1>1, <1>5, <2>1, DeploySends
<1>7. PICK c \in DeployCommandTypes :
         /\ c = [deployCommand EXCEPT !.at = "registering", !.tx = last]
         /\ c.at = "registering" /\ c.tx = last
  <2>1. PICK old \in DeployCommandTypes : old = deployCommand
    BY DEF DeployInv, DeployTypes
  <2>2. [old EXCEPT !.at = "registering", !.tx = last] \in DeployCommandTypes
    BY DEF DeployCommandTypes
  <2> QED BY <2>1, <2>2 DEF DeployCommandTypes
<1>8. deployCommand' = c
  BY <1>1, <1>5, <1>7
<1>9. DeployTypes'
  BY <1>1, <1>6, <1>8 DEF DeployInv, DeployTypes
<1>10. CommandKnows'
  BY <1>1, <1>2, <1>3, <1>4, <1>6, <1>7, <1>8 DEF CommandKnows
<1>11. NoneForgotten'
  <2>1. InFlight = {} /\ InFlight' = {last}
    BY <1>1, <1>7, <1>8 DEF InFlight
  <2>2. /\ Deploy!Hashes(deployProgress)' = Deploy!Hashes(deployProgress)
        /\ Deploy!Hashes(manifest.records)' = Deploy!Hashes(manifest.records)
        /\ Deploy!Hashes(manifest.agents)' = Deploy!Hashes(manifest.agents)
    BY <1>1 DEF Deploy!Hashes
  <2> QED BY <1>1, <1>6, <2>1, <2>2 DEF DeployInv, NoneForgotten
<1> QED BY <1>1, <1>6, <1>9, <1>10, <1>11, ManifestStays DEF DeployInv

\* The agent whose registration came is listed in the manifest.
LEMMA AgentListed ==
  ASSUME DeployInv, Deploy!Registered
  PROVE DeployInv'
<1>1. /\ deployCommand.at = "registering"
      /\ manifest' = [manifest EXCEPT !.agents =
             Append(@, [step |-> deployTxs[deployCommand.tx].step, hash |-> deployCommand.tx])]
      /\ deployCommand' = IF Len(manifest'.agents) = Len(Deploy!Slugs) THEN Deploy!Idle
                          ELSE [deployCommand EXCEPT !.at = "register"]
      /\ UNCHANGED <<network, token, deployTxs, deployProgress, deployLost>>
  BY DEF Deploy!Registered
<1>2. PICK m \in ManifestTypes : m = manifest
  BY DEF DeployInv, DeployTypes
<1>3. PICK agents \in Seq(Registrations) : agents = m.agents
  BY DEF ManifestTypes
<1>4. PICK tx \in Nat : tx = deployCommand.tx
  BY DeployCommandTyped DEF DeployInv
<1>5. PICK n \in Nat : n = Len(agents)
  OBVIOUS
<1>6. /\ m # Deploy!NoManifest /\ n < Len(Deploy!Slugs)
      /\ tx \in DOMAIN deployTxs /\ deployTxs[tx].step = Deploy!Slugs[n + 1]
  BY <1>1, <1>2, <1>3, <1>4, <1>5 DEF DeployInv, CommandKnows
<1>7. PICK a \in Registrations :
        a = [step |-> deployTxs[tx].step, hash |-> tx] /\ a.step = deployTxs[tx].step /\ a.hash = tx
  <2>1. deployTxs[tx] \in DeployTxTypes
    BY <1>6, TransactionsTyped DEF DeployInv
  <2>2. deployTxs[tx].step \in StepNames
    BY <2>1 DEF DeployTxTypes
  <2>3. [step |-> deployTxs[tx].step, hash |-> tx] \in Registrations
    BY <2>2 DEF Registrations
  <2> QED BY <2>3
<1>8. PICK list \in Seq(Registrations) : list = Append(agents, a)
  BY AppendProperties
<1>9. /\ Len(list) = n + 1 /\ DOMAIN list = 1..(n + 1) /\ DOMAIN agents = 1..n /\ list[n + 1] = a
      /\ \A i \in 1..n : list[i] = agents[i]
  BY <1>5, <1>8, AppendProperties
<1>10. PICK new \in ManifestTypes :
         /\ new = [m EXCEPT !.agents = list]
         /\ new.agents = list /\ new.records = m.records /\ new.token = m.token
  <2>1. [m EXCEPT !.agents = list] \in ManifestTypes
    BY DEF ManifestTypes
  <2> QED BY <2>1 DEF ManifestTypes
<1>11. manifest' = new
  BY <1>1, <1>2, <1>3, <1>4, <1>7, <1>8, <1>10
<1>12. new # Deploy!NoManifest
  BY <1>9, <1>10 DEF Deploy!NoManifest
<1>13. deployCommand' \in DeployCommandTypes /\ deployCommand'.at \in {"idle", "register"}
  <2>1. PICK old \in DeployCommandTypes : old = deployCommand
    BY DEF DeployInv, DeployTypes
  <2>2. /\ [old EXCEPT !.at = "register"] \in DeployCommandTypes
        /\ [old EXCEPT !.at = "register"].at = "register"
    BY DEF DeployCommandTypes
  <2> QED BY <1>1, <2>1, <2>2, IdleCommand
<1>14. Kept /\ AddressesInOrder' /\ \A t : Deploy!Steps(t)' = Deploy!Steps(t)
  BY <1>1, TxsUnchanged DEF DeployInv
<1>15. DeployTypes'
  BY <1>1, <1>11, <1>13 DEF DeployInv, DeployTypes
<1>16. CommandKnows'
  BY <1>11, <1>12, <1>13 DEF CommandKnows
<1>17. ManifestKnows'
  <2>1. ManifestKnows /\ deployTxs' = deployTxs /\ network' = network
    BY <1>1 DEF DeployInv
  <2>2. Recorded(deployProgress)' /\ Recorded(new.records)'
    BY <1>1, <1>2, <1>10, <2>1 DEF Recorded, ManifestKnows
  <2>3. ASSUME NEW t, PlanOf(t) PROVE PlanOf(t)'
    <3>1. /\ manifest'.records = manifest.records /\ manifest'.token = manifest.token
          /\ deployTxs' = deployTxs /\ network' = network /\ Deploy!Steps(t)' = Deploy!Steps(t)
      BY <1>1, <1>2, <1>10, <1>11, <1>14
    <3>2. /\ Deploy!IsPrefix(manifest.records, Deploy!Steps(t))'
          /\ (Len(manifest.records) = Len(Deploy!Steps(t)))'
      BY <2>3, <3>1 DEF PlanOf, Deploy!IsPrefix
    <3>3. Created(manifest.records, t, Len(manifest.records))'
      BY <2>3, <3>1 DEF PlanOf, Created, Wanted
    <3>4. Accepted(t)'
      BY <2>3, <3>1 DEF PlanOf, Accepted
    <3> QED BY <2>3, <3>1, <3>2, <3>3, <3>4 DEF PlanOf
  <2>4. \E t \in Tokens : PlanOf(t)'
    BY <1>2, <1>6, <2>1, <2>3 DEF ManifestKnows
  <2>5. deployProgress' \in {<<>>, new.records}
    BY <1>1, <1>2, <1>6, <1>10, <2>1 DEF ManifestKnows
  <2>6. Len(list) <= Len(Deploy!Slugs)
    BY <1>5, <1>6, <1>9 DEF Deploy!Slugs
  <2>7. ASSUME NEW i \in DOMAIN list
        PROVE  /\ list[i].step = Deploy!Slugs[i] /\ list[i].hash \in DOMAIN deployTxs
               /\ deployTxs[list[i].hash].step = list[i].step
    <3>1. i \in 1..n \/ i = n + 1
      BY <1>9
    <3>2. CASE i \in 1..n
      BY <1>2, <1>3, <1>9, <2>1, <3>2 DEF ManifestKnows
    <3>3. CASE i = n + 1
      BY <1>6, <1>7, <1>9, <3>3
    <3> QED BY <3>1, <3>2, <3>3
  <2> QED BY <1>10, <1>11, <1>12, <2>1, <2>2, <2>4, <2>5, <2>6, <2>7 DEF ManifestKnows
<1>18. NoneForgotten'
  <2>1. InFlight = {tx}
    BY <1>1, <1>4 DEF InFlight
  <2>2. Deploy!Hashes(agents) \cup {tx} \subseteq Deploy!Hashes(list)
    <3>1. \A i \in 1..n : i \in 1..(n + 1)
      OBVIOUS
    <3>2. n + 1 \in 1..(n + 1)
      OBVIOUS
    <3> QED BY <1>7, <1>9, <3>1, <3>2 DEF Deploy!Hashes
  <2>3. /\ Deploy!Hashes(manifest.agents)' = Deploy!Hashes(list)
        /\ Deploy!Hashes(manifest.agents) = Deploy!Hashes(agents)
        /\ Deploy!Hashes(manifest.records)' = Deploy!Hashes(manifest.records)
        /\ Deploy!Hashes(deployProgress)' = Deploy!Hashes(deployProgress)
    <3>1. manifest = m /\ manifest' = new /\ deployProgress' = deployProgress
      BY <1>1, <1>2, <1>11
    <3>2. new.agents = list /\ m.agents = agents /\ new.records = m.records
      BY <1>3, <1>10
    <3>3. Deploy!Hashes(manifest.agents)' = Deploy!Hashes(list)
      BY <3>1, <3>2 DEF Deploy!Hashes
    <3>4. Deploy!Hashes(manifest.agents) = Deploy!Hashes(agents)
      BY <3>1, <3>2 DEF Deploy!Hashes
    <3>5. Deploy!Hashes(manifest.records)' = Deploy!Hashes(manifest.records)
      BY <3>1, <3>2 DEF Deploy!Hashes
    <3>6. Deploy!Hashes(deployProgress)' = Deploy!Hashes(deployProgress)
      BY <3>1 DEF Deploy!Hashes
    <3> QED BY <3>3, <3>4, <3>5, <3>6
  <2> QED BY <1>1, <2>1, <2>2, <2>3 DEF DeployInv, NoneForgotten
<1> QED BY <1>14, <1>15, <1>16, <1>17, <1>18 DEF DeployInv

LEMMA DeployInit == Init => DeployInv
<1> SUFFICES ASSUME Init PROVE DeployInv
  OBVIOUS
<1>1. /\ network \in {"xlayer-mainnet", "xlayer-testnet"} /\ token \in {Deploy!Unset, Reviewed}
      /\ deployTxs = <<>> /\ deployProgress = <<>> /\ manifest = Deploy!NoManifest
      /\ deployCommand = Deploy!Idle /\ deployLost = {}
  BY DEF Init, Deploy!Init
<1>2. Deploy!NoManifest \in ManifestTypes
  BY EmptySeq, ComponentsAssumption DEF Deploy!NoManifest, ManifestTypes, Deploy!Unset
<1>3. DeployTypes
  BY <1>1, <1>2, IdleCommand, EmptySeq DEF DeployTypes, Tokens
<1>4. AddressesInOrder
  BY <1>1 DEF AddressesInOrder, Deploy!Live
<1>5. CommandKnows
  BY <1>1, IdleCommand DEF CommandKnows
<1>6. ManifestKnows
  <2>1. Deploy!IsPrefix(<<>>, Deploy!Steps(token))
    BY PlanSize DEF Deploy!IsPrefix
  <2>2. token \in Tokens
    BY <1>1 DEF Tokens
  <2>3. /\ Deploy!NoManifest.records = <<>> /\ Deploy!NoManifest.agents = <<>>
        /\ Len(Deploy!Slugs) = 2
    BY DEF Deploy!NoManifest, Deploy!Slugs
  <2> QED BY <1>1, <2>1, <2>2, <2>3 DEF ManifestKnows, Recorded
<1>7. NoneForgotten
  BY <1>1 DEF NoneForgotten
<1> QED BY <1>3, <1>4, <1>5, <1>6, <1>7 DEF DeployInv

LEMMA DeployStutters ==
  ASSUME DeployInv, UNCHANGED deployVars
  PROVE DeployInv'
<1>1. UNCHANGED <<network, token, deployTxs, deployProgress, manifest, deployCommand, deployLost>>
  BY DEF deployVars
<1>2. Kept /\ AddressesInOrder' /\ DOMAIN deployTxs' = DOMAIN deployTxs
  BY <1>1, TxsUnchanged DEF DeployInv
<1>3. DeployTypes'
  BY <1>1 DEF DeployInv, DeployTypes
<1> QED BY <1>1, <1>2, <1>3, FactsStay DEF DeployInv

LEMMA DeployStep ==
  ASSUME DeployInv, [Next]_vars
  PROVE DeployInv'
<1>1. Deploy!Next \/ UNCHANGED deployVars
  BY DEF Next, vars
<1>2. CASE UNCHANGED deployVars
  BY <1>2, DeployStutters
<1>3. CASE Deploy!CanaryStarts \/ Deploy!TestnetStarts
  BY <1>3, DeployStarts
<1>4. CASE Deploy!Reuse
  BY <1>4, DeployReuses
<1>5. CASE Deploy!Deploy
  BY <1>5, DeployDeploys
<1>6. CASE Deploy!Checkpoint
  BY <1>6, DeployCheckpoints
<1>7. CASE Deploy!Confirmed
  BY <1>7, DeployConfirmed
<1>8. CASE Deploy!WriteManifest
  BY <1>8, DeployWritesManifest
<1>9. CASE Deploy!UnlinkProgress
  BY <1>9, DeployUnlinks
<1>10. CASE Deploy!Stops
  BY <1>10, DeployStops
<1>11. CASE Deploy!RegisterStarts
  BY <1>11, RegistrationStarts
<1>12. CASE Deploy!Register
  BY <1>12, AgentSends
<1>13. CASE Deploy!Registered
  BY <1>13, AgentListed
<1>14. ASSUME NEW t \in Tokens, Deploy!Configure(t) PROVE DeployInv'
  BY <1>14, DeployConfigures
<1>15. ASSUME NEW i \in DOMAIN deployTxs, Deploy!Mine(i) \/ Deploy!Reorganised(i) PROVE DeployInv'
  BY <1>15, DeployMines
<1>16. ASSUME NEW i \in DOMAIN deployTxs, Deploy!Dropped(i) PROVE DeployInv'
  BY <1>16, DeployDrops
<1> QED BY <1>1, <1>2, <1>3, <1>4, <1>5, <1>6, <1>7, <1>8, <1>9, <1>10, <1>11, <1>12, <1>13, <1>14,
           <1>15, <1>16 DEF Deploy!Next, Tokens

\* A manifest whose transactions are mined describes what is on the chain.
LEMMA ManifestTrue ==
  ASSUME DeployInv
  PROVE Deploy!ManifestVerifies
<1> SUFFICES ASSUME manifest # Deploy!NoManifest,
                    \A h \in Deploy!Hashes(manifest.records) : deployTxs[h].st = "mined"
             PROVE  /\ Deploy!VerifyMainnetCanary
                    /\ deployTxs[manifest.records[2].hash].args
                         = <<Deploy!AddressOf(manifest.records, Deploy!Identity)>>
                    /\ network = "xlayer-mainnet" => manifest.token = Reviewed
  BY DEF Deploy!ManifestVerifies
<1>1. PICK t \in Tokens : PlanOf(t)
  BY DEF DeployInv, ManifestKnows
<1>2. PICK r \in Seq(Entries) : r = manifest.records
  BY DeployCommandTyped DEF DeployInv
<1>3. PICK length \in Nat : length = Len(r)
  OBVIOUS
<1>4. /\ Deploy!IsPrefix(r, Deploy!Steps(t)) /\ length = Len(Deploy!Steps(t))
      /\ Created(r, t, length) /\ Recorded(r) /\ DOMAIN r = 1..length
      /\ manifest.token = IF t = Deploy!Unset THEN r[3].address ELSE t
  BY <1>1, <1>2, <1>3 DEF PlanOf, DeployInv, ManifestKnows
<1>5. length = 3 \/ length = 4
  BY <1>4, PlanSize
<1>6. 1 \in 1..length /\ 2 \in 1..length /\ length \in 1..length
  BY <1>5
<1>7. \A i \in 1..length :
        /\ r[i].hash \in DOMAIN deployTxs /\ deployTxs[r[i].hash].st = "mined" /\ deployTxs[r[i].hash].ok
        /\ deployTxs[r[i].hash].address = r[i].address
        /\ deployTxs[r[i].hash].args = Wanted(r, t, i)
  BY <1>2, <1>4 DEF Recorded, Created, Deploy!Hashes
<1>8. \A i \in 1..length : r[i].hash \in Deploy!Live
  BY <1>7 DEF Deploy!Live
<1>9. \A i \in 1..length : Deploy!CodeAt(r[i].address)
  BY <1>7, <1>8 DEF Deploy!CodeAt
<1>10. /\ Deploy!AddressOf(r, Deploy!Identity) = r[1].address
       /\ Deploy!AddressOf(r, Deploy!Proxy) = r[2].address
       /\ Deploy!AddressOf(r, Deploy!Escrow) = r[length].address
  <2>1. \A i \in 1..length : Deploy!AddressOf(r, Deploy!Steps(t)[i]) = r[i].address
    BY <1>3, <1>4, AddressAt
  <2>2. /\ Deploy!Steps(t)[1] = Deploy!Identity /\ Deploy!Steps(t)[2] = Deploy!Proxy
        /\ Deploy!Steps(t)[length] = Deploy!Escrow
    BY <1>4, PlanIs
  <2> QED BY <1>6, <2>1, <2>2
<1>11. Deploy!EscrowTx = deployTxs[r[length].hash]
  <2>1. \A i, j \in Deploy!Live : deployTxs[i].address = deployTxs[j].address => i = j
    <3> SUFFICES ASSUME NEW i \in Deploy!Live, NEW j \in Deploy!Live,
                        deployTxs[i].address = deployTxs[j].address, i # j
                 PROVE  FALSE
      OBVIOUS
    <3>1. i \in Nat /\ j \in Nat
      BY LiveFinite DEF DeployInv
    <3>2. i < j \/ j < i
      BY <3>1
    <3>3. deployTxs[i].address < deployTxs[j].address \/ deployTxs[j].address < deployTxs[i].address
      BY <3>2 DEF DeployInv, AddressesInOrder
    <3>4. deployTxs[i] \in DeployTxTypes
      BY TransactionsTyped DEF DeployInv, Deploy!Live
    <3>5. deployTxs[i].address \in Nat
      BY <3>4 DEF DeployTxTypes
    <3> QED BY <3>3, <3>5
  <2>2. /\ r[length].hash \in Deploy!Live
        /\ deployTxs[r[length].hash].address = Deploy!AddressOf(r, Deploy!Escrow)
    BY <1>6, <1>7, <1>8, <1>10
  <2>3. (CHOOSE i \in Deploy!Live : deployTxs[i].address = Deploy!AddressOf(r, Deploy!Escrow))
          = r[length].hash
    BY <2>1, <2>2
  <2> QED BY <1>2, <2>3 DEF Deploy!EscrowTx
<1>12. Wanted(r, t, 2) = <<r[1].address>> /\ Wanted(r, t, length) = <<manifest.token, r[2].address>>
  <2>1. length # 2
    BY <1>5
  <2> QED BY <1>4, <2>1 DEF Wanted
<1>13. Deploy!CheckedDeployment
  BY <1>2, <1>6, <1>7, <1>9, <1>10, <1>11, <1>12 DEF Deploy!CheckedDeployment
<1>14. Deploy!VerifyMainnetCanary
  BY <1>2, <1>4, <1>7, <1>13 DEF Deploy!VerifyMainnetCanary
<1>15. network = "xlayer-mainnet" => manifest.token = Reviewed
  BY <1>1, <1>4, ComponentsAssumption DEF PlanOf, Accepted, Deploy!TokensAreOutside, Deploy!Unset
<1> QED BY <1>2, <1>6, <1>7, <1>10, <1>12, <1>14, <1>15

\* A transaction that is not lost has a place: in the plan or among the agents.
LEMMA NoneTwice ==
  ASSUME DeployInv
  PROVE Deploy!SentOnceUnlessLost
<1> DEFINE c == deployCommand
           Knows(r, t) == /\ Deploy!IsPrefix(r, Deploy!Steps(t)) /\ Recorded(r)
                          /\ Deploy!Hashes(deployProgress) \subseteq Deploy!Hashes(r)
                          /\ Deploy!Hashes(manifest.records) \subseteq Deploy!Hashes(r)
                          /\ c.at = "sent" => (t = c.token /\ Len(r) = c.done)
           InPlan(i, n, r, t) ==
             /\ deployTxs[i].step = Deploy!Steps(t)[n]
             /\ \/ n \in DOMAIN r /\ i = r[n].hash
                \/ c.at = "sent" /\ n = Len(r) + 1 /\ i = c.tx
           InList(i, k) ==
             /\ deployTxs[i].step = Deploy!Slugs[k]
             /\ \/ k \in DOMAIN manifest.agents /\ i = manifest.agents[k].hash
                \/ c.at = "registering" /\ k = Len(manifest.agents) + 1 /\ i = c.tx
<1>1. PICK r \in Seq(Entries), t \in Tokens : Knows(r, t)
  <2>1. deployProgress \in Seq(Entries) /\ manifest.records \in Seq(Entries) /\ c.token \in Tokens
    BY DeployCommandTyped DEF DeployInv
  <2>2. CASE manifest # Deploy!NoManifest
    <3>1. c.at # "sent"
      BY <2>2 DEF DeployInv, CommandKnows
    <3>2. Deploy!Hashes(deployProgress) \subseteq Deploy!Hashes(manifest.records)
      BY <2>2 DEF DeployInv, ManifestKnows, Deploy!Hashes
    <3>3. PICK t \in Tokens : Deploy!IsPrefix(manifest.records, Deploy!Steps(t))
      BY <2>2 DEF DeployInv, ManifestKnows, PlanOf
    <3>4. Knows(manifest.records, t)
      BY <3>1, <3>2, <3>3 DEF DeployInv, ManifestKnows
    <3> QED BY <2>1, <3>4
  <2>3. CASE manifest = Deploy!NoManifest
    <3>1. Deploy!Hashes(manifest.records) = {}
      BY <2>3 DEF Deploy!NoManifest, Deploy!Hashes
    <3>2. CASE c.at = "sent"
      <4>1. Knows(deployProgress, c.token)
        BY <3>1, <3>2 DEF DeployInv, CommandKnows, ManifestKnows
      <4> QED BY <2>1, <4>1
    <3>3. CASE c.at # "sent"
      <4>1. PICK t \in Tokens : Deploy!IsPrefix(deployProgress, Deploy!Steps(t))
        BY <2>3 DEF DeployInv, ManifestKnows
      <4>2. Knows(deployProgress, t)
        BY <3>1, <3>3, <4>1 DEF DeployInv, ManifestKnows
      <4> QED BY <2>1, <4>2
    <3> QED BY <3>2, <3>3
  <2> QED BY <2>2, <2>3
<1>2. PICK size \in Nat, length \in Nat, listed \in Nat :
        size = Len(r) /\ length = Len(Deploy!Steps(t)) /\ listed = Len(manifest.agents)
  BY PlanSize, DeployCommandTyped DEF DeployInv
<1>3. size <= length /\ DOMAIN r = 1..size /\ \A n \in 1..size : r[n].step = Deploy!Steps(t)[n]
  BY <1>1, <1>2 DEF Deploy!IsPrefix
<1>4. Len(Deploy!Slugs) = 2 /\ Deploy!Slugs[1] = "buyer" /\ Deploy!Slugs[2] = "text-analysis"
  BY DEF Deploy!Slugs
<1>5. listed <= 2 /\ DOMAIN manifest.agents = 1..listed
  <2>1. listed <= Len(Deploy!Slugs)
    BY <1>2 DEF DeployInv, ManifestKnows
  <2>2. DOMAIN manifest.agents = 1..listed
    BY <1>2, DeployCommandTyped DEF DeployInv
  <2> QED BY <1>4, <2>1, <2>2
<1>6. ASSUME NEW i \in DOMAIN deployTxs, i \notin deployLost
      PROVE  \/ \E n \in 1..length : InPlan(i, n, r, t)
             \/ \E k \in {1, 2} : InList(i, k)
  <2>1. \/ i \in Deploy!Hashes(r) \/ i \in Deploy!Hashes(manifest.agents)
        \/ (c.at = "sent" /\ i = c.tx) \/ (c.at = "registering" /\ i = c.tx)
    BY <1>1, <1>6 DEF DeployInv, NoneForgotten, InFlight
  <2>2. CASE i \in Deploy!Hashes(r)
    <3>1. PICK n \in DOMAIN r : i = r[n].hash
      BY <2>2 DEF Deploy!Hashes
    <3>2. deployTxs[i].step = r[n].step
      BY <1>1, <3>1 DEF Recorded
    <3>3. n \in 1..length /\ r[n].step = Deploy!Steps(t)[n]
      BY <1>2, <1>3
    <3> QED BY <3>1, <3>2, <3>3
  <2>3. CASE i \in Deploy!Hashes(manifest.agents)
    <3>1. PICK k \in DOMAIN manifest.agents : i = manifest.agents[k].hash
      BY <2>3 DEF Deploy!Hashes
    <3>2. deployTxs[i].step = Deploy!Slugs[k]
      BY <3>1 DEF DeployInv, ManifestKnows
    <3>3. k \in {1, 2}
      BY <1>2, <1>5
    <3> QED BY <3>1, <3>2, <3>3
  <2>4. CASE c.at = "sent" /\ i = c.tx
    <3>1. /\ c.done < Len(Deploy!Steps(c.token))
          /\ deployTxs[c.tx].step = Deploy!Steps(c.token)[c.done + 1]
      BY <2>4 DEF DeployInv, CommandKnows
    <3>2. size < length /\ deployTxs[i].step = Deploy!Steps(t)[size + 1]
      BY <1>1, <1>2, <2>4, <3>1
    <3>3. size + 1 \in 1..length /\ size + 1 = Len(r) + 1
      BY <1>2, <3>2
    <3> QED BY <2>4, <3>2, <3>3
  <2>5. CASE c.at = "registering" /\ i = c.tx
    <3>1. listed < Len(Deploy!Slugs) /\ deployTxs[i].step = Deploy!Slugs[listed + 1]
      BY <1>2, <2>5 DEF DeployInv, CommandKnows
    <3>2. listed + 1 \in {1, 2} /\ listed + 1 = Len(manifest.agents) + 1
      BY <1>2, <1>4, <3>1
    <3> QED BY <2>5, <3>1, <3>2
  <2> QED BY <2>1, <2>2, <2>3, <2>4, <2>5
<1> SUFFICES ASSUME NEW i \in DOMAIN deployTxs, NEW j \in DOMAIN deployTxs,
                    i \notin deployLost, j \notin deployLost, deployTxs[i].step = deployTxs[j].step
             PROVE  i = j
  BY DEF Deploy!SentOnceUnlessLost
<1>7. ASSUME NEW n \in 1..length, NEW m \in 1..length, InPlan(i, n, r, t), InPlan(j, m, r, t)
      PROVE  i = j
  <2>1. n = m
    BY <1>2, <1>7, PlanInjective
  <2>2. n \in 1..size => n # size + 1
    OBVIOUS
  <2> QED BY <1>2, <1>3, <1>7, <2>1, <2>2
<1>8. ASSUME NEW k \in {1, 2}, NEW l \in {1, 2}, InList(i, k), InList(j, l)
      PROVE  i = j
  <2>1. k = l
    <3>1. Deploy!Slugs[k] = Deploy!Slugs[l]
      BY <1>8
    <3>2. Deploy!Slugs[1] # Deploy!Slugs[2]
      BY <1>4
    <3> QED BY <3>1, <3>2
  <2>2. k \in 1..listed => k # listed + 1
    OBVIOUS
  <2> QED BY <1>2, <1>5, <1>8, <2>1, <2>2
<1>9. \A n \in 1..length : \A k \in {1, 2} : Deploy!Steps(t)[n] # Deploy!Slugs[k]
  <2>1. \A n \in 1..length : Deploy!Steps(t)[n] \in Contracts
    BY <1>2, PlanSize
  <2>2. "buyer" \notin Contracts /\ "text-analysis" \notin Contracts
    BY DEF Contracts, Deploy!Identity, Deploy!Proxy, Deploy!Escrow
  <2> QED BY <1>4, <2>1, <2>2
<1> QED BY <1>6, <1>7, <1>8, <1>9

\* A manifest whose transactions are mined is true of the chain - every recorded
\* contract is at its recorded address, the proxy runs the recorded implementation,
\* the escrow holds the recorded token and registry - and no contract is created, and
\* no agent registered, twice unless a command stopped between a transaction and its
\* record (mainnet-canary.mjs:246-293, chain.mjs:113-181): for any number of commands,
\* transactions, reorganisations and dropped transactions.
THEOREM DeploymentSoundAlways == Spec => []DeploymentSound
<1>1. Init => DeployInv
  BY DeployInit
<1>2. DeployInv /\ [Next]_vars => DeployInv'
  BY DeployStep
<1>3. DeployInv => DeploymentSound
  BY ManifestTrue, NoneTwice DEF DeploymentSound
<1> QED BY <1>1, <1>2, <1>3, PTL DEF Spec

\* Transactions are as many as the bound says and take addresses of as many nonces.
\* The command has done, and waits for, what its records and the chain have.
AddressesBounded ==
  Len(deployTxs) <= DeployTxs /\ \A i \in DOMAIN deployTxs : deployTxs[i].address \in 1..DeployTxs
CommandBounded ==
  /\ Recorded(deployCommand.records) /\ deployCommand.done <= Len(deployCommand.records)
  /\ deployCommand.tx <= Len(deployTxs)
DeployBounded == AddressesBounded /\ CommandBounded /\ deployLost \subseteq DOMAIN deployTxs

LEMMA DeployBoundedInit == Deploy!Init => DeployBounded
<1> SUFFICES ASSUME Deploy!Init PROVE DeployBounded
  OBVIOUS
<1>1. DeployTxs \in Nat
  BY ComponentsAssumption DEF Deploy!TokensAreOutside
<1>2. /\ deployTxs = <<>> /\ deployLost = {} /\ deployCommand.records = <<>>
      /\ deployCommand.done = 0 /\ deployCommand.tx = 0
  BY DEF Deploy!Init, Deploy!Idle
<1> QED BY <1>1, <1>2 DEF DeployBounded, AddressesBounded, CommandBounded, Recorded

LEMMA DeployTypeOK == DeployInv /\ DeployBounded => Deploy!TypeOK
<1> SUFFICES ASSUME DeployInv, DeployBounded PROVE Deploy!TypeOK
  OBVIOUS
<1>1. \A i \in DOMAIN deployTxs :
        deployTxs[i].address \in 1..DeployTxs /\ deployTxs[i].st \in {"pending", "mined", "dropped"}
  BY TransactionsTyped DEF DeployInv, DeployBounded, AddressesBounded, DeployTxTypes
<1>2. \A r \in {deployProgress, manifest.records, deployCommand.records} : \A i \in DOMAIN r :
        r[i].hash \in DOMAIN deployTxs /\ r[i].address = deployTxs[r[i].hash].address
  BY DEF DeployInv, ManifestKnows, DeployBounded, CommandBounded, Recorded
<1>3. deployCommand.done <= Len(deployCommand.records) /\ deployCommand.tx \in 0..Len(deployTxs)
  BY TransactionsTyped, DeployCommandTyped DEF DeployInv, DeployBounded, CommandBounded
<1> QED BY <1>1, <1>2, <1>3, DeployCommandTyped
        DEF DeployInv, DeployTypes, Tokens, DeployBounded, Deploy!TypeOK

\* The address of the next transaction is one more than there are live ones.
LEMMA AddressGiven ==
  ASSUME DeployInv, DeployInv', AddressesBounded, NEW s, NEW args, Deploy!Sent(s, args)
  PROVE  AddressesBounded' /\ Len(deployTxs') = Len(deployTxs) + 1
<1>1. DeployTxs \in Nat
  BY ComponentsAssumption DEF Deploy!TokensAreOutside
<1>2. PICK size \in Nat : size = Deploy!Nonce - 1 /\ Deploy!Nonce = size + 1 /\ size <= Len(deployTxs)
  <2>1. PICK size \in Nat : size = Cardinality(Deploy!Live) /\ size <= Len(deployTxs)
    BY LiveFinite DEF DeployInv
  <2>2. Deploy!Nonce = size + 1
    BY <2>1, DeployCardinality DEF Deploy!Nonce
  <2> QED BY <2>1, <2>2
<1>3. PICK new : /\ new.address = size + 1 /\ deployTxs' = Append(deployTxs, new)
  BY <1>2 DEF Deploy!Sent
<1>4. deployTxs \in Seq(DeployTxTypes) /\ deployTxs' \in Seq(DeployTxTypes) /\ Len(deployTxs) < DeployTxs
  BY DEF DeployInv, DeployTypes, Deploy!Sent
<1>5. /\ Len(deployTxs') = Len(deployTxs) + 1 /\ DOMAIN deployTxs' = DOMAIN deployTxs \cup {Len(deployTxs) + 1}
      /\ deployTxs'[Len(deployTxs) + 1] = new
      /\ \A i \in DOMAIN deployTxs : deployTxs'[i] = deployTxs[i]
  BY <1>3, <1>4
<1>6. size + 1 \in 1..DeployTxs /\ Len(deployTxs) + 1 <= DeployTxs
  BY <1>1, <1>2, <1>4
<1> QED BY <1>3, <1>5, <1>6 DEF AddressesBounded

LEMMA DeployBoundedStep ==
  ASSUME DeployInv, DeployInv', DeployBounded, UNCHANGED deployVars \/ Deploy!Next
  PROVE  DeployBounded'
<1>1. /\ Len(deployTxs) \in Nat /\ DOMAIN deployTxs = 1..Len(deployTxs)
      /\ Len(deployTxs') \in Nat /\ DOMAIN deployTxs' = 1..Len(deployTxs')
      /\ deployTxs \in Seq(DeployTxTypes) /\ deployTxs' \in Seq(DeployTxTypes)
  BY DEF DeployInv, DeployTypes
<1>2. /\ deployCommand \in DeployCommandTypes /\ deployCommand' \in DeployCommandTypes
      /\ deployCommand.records \in Seq(Entries) /\ Len(deployCommand.records) \in Nat
      /\ deployCommand.done \in Nat /\ deployCommand.tx \in Nat
      /\ deployCommand.done <= Len(deployCommand.records) /\ deployCommand.tx <= Len(deployTxs)
      /\ deployProgress \in Seq(Entries)
  BY DeployCommandTyped DEF DeployInv, DeployTypes, DeployBounded, CommandBounded
<1>3. Recorded(deployProgress) /\ Recorded(deployProgress)' /\ Recorded(deployCommand.records)
  BY DEF DeployInv, ManifestKnows, DeployBounded, CommandBounded
<1>4. Deploy!Idle.records = <<>> /\ Deploy!Idle.done = 0 /\ Deploy!Idle.tx = 0
  BY DEF Deploy!Idle
<1> DEFINE Grown == /\ AddressesBounded' /\ Len(deployTxs) <= Len(deployTxs')
                    /\ \A records : Recorded(records) => Recorded(records)'
           Works == /\ deployCommand'.records \in {deployProgress', deployCommand.records, <<>>}
                    /\ deployCommand'.done <= Len(deployCommand'.records)
                    /\ deployCommand'.tx <= Len(deployTxs')
           Loses == deployLost' \subseteq deployLost \cup {deployCommand.tx}
                    /\ (deployLost' # deployLost => deployCommand.tx \in DOMAIN deployTxs)
<1>5. ASSUME Grown, Works, Loses PROVE DeployBounded'
  <2>1. Recorded(deployCommand.records)'
    <3>1. PICK list \in {deployProgress', deployCommand.records, <<>>} : list = deployCommand'.records
      BY <1>5
    <3>2. Recorded(<<>>)'
      BY DEF Recorded
    <3>3. PICK then : then = deployCommand.records
      OBVIOUS
    <3>4. Recorded(then)'
      BY <1>3, <1>5, <3>3
    <3>5. Recorded(list)'
      BY <1>3, <3>1, <3>2, <3>3, <3>4 DEF Recorded
    <3> QED BY <3>1, <3>5 DEF Recorded
  <2>2. DOMAIN deployTxs \subseteq DOMAIN deployTxs'
    BY <1>1, <1>5
  <2>3. deployLost' \subseteq DOMAIN deployTxs'
    BY <1>5, <2>2 DEF DeployBounded
  <2> QED BY <1>5, <2>1, <2>3 DEF DeployBounded, CommandBounded
<1>6. ASSUME UNCHANGED deployTxs PROVE Grown
  <2>1. AddressesBounded'
    BY <1>6 DEF DeployBounded, AddressesBounded
  <2>2. \A records : Recorded(records) => Recorded(records)'
    BY <1>6 DEF Recorded
  <2> QED BY <1>1, <1>6, <2>1, <2>2
<1>7. ASSUME NEW s, NEW args, Deploy!Sent(s, args)
      PROVE  Grown /\ Len(deployTxs') = Len(deployTxs) + 1
  <2>1. AddressesBounded' /\ Len(deployTxs') = Len(deployTxs) + 1
    BY <1>7, AddressGiven DEF DeployBounded
  <2>2. \A i \in DOMAIN deployTxs : i \in DOMAIN deployTxs' /\ deployTxs'[i] = deployTxs[i]
    <3>1. PICK new : deployTxs' = Append(deployTxs, new)
      BY <1>7 DEF Deploy!Sent
    <3> QED BY <1>1, <3>1
  <2>3. \A records : Recorded(records) => Recorded(records)'
    BY <2>2 DEF Recorded
  <2> QED BY <1>1, <2>1, <2>3
<1>8. ASSUME NEW i \in DOMAIN deployTxs, NEW fate, deployTxs' = [deployTxs EXCEPT ![i].st = fate]
      PROVE  Grown
  <2>1. \A k \in DOMAIN deployTxs : deployTxs[k] \in DeployTxTypes
    BY <1>1
  <2>2. /\ DOMAIN deployTxs' = DOMAIN deployTxs
        /\ \A k \in DOMAIN deployTxs : /\ deployTxs'[k].step = deployTxs[k].step
                                       /\ deployTxs'[k].address = deployTxs[k].address
    BY <1>8, <2>1 DEF DeployTxTypes
  <2>3. Len(deployTxs') = Len(deployTxs)
    <3>1. 1..Len(deployTxs') = 1..Len(deployTxs)
      BY <1>1, <2>2
    <3>2. PICK m, n \in Nat : m = Len(deployTxs') /\ n = Len(deployTxs)
      BY <1>1
    <3>3. 1..m = 1..n
      BY <3>1, <3>2
    <3>4. m = n
      <4>1. m # 0 => m \in 1..n
        BY <3>3
      <4>2. n # 0 => n \in 1..m
        BY <3>3
      <4> QED BY <4>1, <4>2
    <3> QED BY <3>2, <3>4
  <2>4. AddressesBounded'
    BY <2>2, <2>3 DEF DeployBounded, AddressesBounded
  <2>5. \A records : Recorded(records) => Recorded(records)'
    BY <2>2 DEF Recorded
  <2> QED BY <1>1, <2>3, <2>4, <2>5
<1> HIDE DEF Grown
<1>9. ASSUME NEW c, deployCommand' = c, UNCHANGED <<deployTxs, deployLost>>,
             c.records \in {deployProgress', deployCommand.records, <<>>}, c.done <= Len(c.records),
             c.tx <= Len(deployTxs)
      PROVE  DeployBounded'
  BY <1>5, <1>6, <1>9
<1>10. CASE UNCHANGED deployVars
  BY <1>2, <1>9, <1>10 DEF deployVars
<1>11. CASE Deploy!CanaryStarts \/ Deploy!TestnetStarts
  <2>1. PICK c : c = [Deploy!Idle EXCEPT !.at = "make", !.token = token, !.records = deployProgress]
    OBVIOUS
  <2>2. c.records = deployProgress /\ c.done = 0 /\ c.tx = 0
    BY <2>1 DEF Deploy!Idle
  <2>3. /\ deployCommand' = c /\ UNCHANGED <<deployTxs, deployLost, deployProgress>>
    BY <1>11, <2>1 DEF Deploy!CanaryStarts, Deploy!TestnetStarts, Deploy!Starts
  <2> QED BY <1>1, <1>2, <1>9, <2>2, <2>3
<1>12. CASE Deploy!Reuse
  <2>1. PICK c : c = [deployCommand EXCEPT !.done = Deploy!Next0]
    OBVIOUS
  <2>2. c.records = deployCommand.records /\ c.done = Deploy!Next0 /\ c.tx = deployCommand.tx
    BY <1>2, <2>1 DEF DeployCommandTypes
  <2>3. /\ deployCommand' = c /\ UNCHANGED <<deployTxs, deployLost>>
        /\ Deploy!Next0 <= Len(deployCommand.records)
    BY <1>12, <2>1 DEF Deploy!Reuse
  <2> QED BY <1>2, <1>9, <2>2, <2>3
<1>13. CASE Deploy!Deploy
  <2>1. Grown /\ Len(deployTxs') = Len(deployTxs) + 1
    BY <1>7, <1>13 DEF Deploy!Deploy
  <2>2. /\ deployCommand' = [deployCommand EXCEPT !.at = "sent", !.tx = Len(deployTxs) + 1]
        /\ UNCHANGED deployLost
    BY <1>13 DEF Deploy!Deploy
  <2>3. /\ deployCommand'.records = deployCommand.records /\ deployCommand'.done = deployCommand.done
        /\ deployCommand'.tx = Len(deployTxs) + 1
    BY <1>2, <2>2 DEF DeployCommandTypes
  <2> QED BY <1>1, <1>2, <1>5, <2>1, <2>2, <2>3
<1>14. CASE Deploy!Checkpoint
  <2>1. PICK c : c = [deployCommand EXCEPT !.at = "wait", !.records = deployProgress']
    OBVIOUS
  <2>2. c.records = deployProgress' /\ c.done = deployCommand.done /\ c.tx = deployCommand.tx
    BY <1>2, <2>1 DEF DeployCommandTypes
  <2>3. PICK entry : deployProgress' = Append(deployCommand.records, entry)
    BY <1>14 DEF Deploy!Checkpoint
  <2>4. Len(deployProgress') = Len(deployCommand.records) + 1
    BY <1>2, <2>3
  <2>5. deployCommand' = c /\ UNCHANGED <<deployTxs, deployLost>>
    BY <1>14, <2>1 DEF Deploy!Checkpoint
  <2> QED BY <1>2, <1>9, <2>2, <2>4, <2>5
<1>15. CASE Deploy!Confirmed
  <2>1. PICK c : c = [deployCommand EXCEPT !.at = "make", !.done = Deploy!Next0]
    OBVIOUS
  <2>2. /\ c.records = deployCommand.records /\ c.done = deployCommand.done + 1
        /\ c.tx = deployCommand.tx
    BY <1>2, <2>1 DEF DeployCommandTypes, Deploy!Next0
  <2>3. /\ deployCommand' = c /\ UNCHANGED <<deployTxs, deployLost>> /\ deployCommand.at = "wait"
    BY <1>15, <2>1 DEF Deploy!Confirmed
  <2>4. Len(deployCommand.records) = deployCommand.done + 1
    BY <2>3 DEF DeployInv, CommandKnows
  <2> QED BY <1>2, <1>9, <2>2, <2>3, <2>4
<1>16. CASE Deploy!WriteManifest
  <2>1. PICK c : c = [deployCommand EXCEPT !.at = "unlink"]
    OBVIOUS
  <2>2. /\ c.records = deployCommand.records /\ c.done = deployCommand.done /\ c.tx = deployCommand.tx
    BY <1>2, <2>1 DEF DeployCommandTypes
  <2>3. deployCommand' = c /\ UNCHANGED <<deployTxs, deployLost>>
    BY <1>16, <2>1 DEF Deploy!WriteManifest
  <2> QED BY <1>2, <1>9, <2>2, <2>3
<1>17. ASSUME deployCommand' = Deploy!Idle, UNCHANGED deployTxs, Loses PROVE DeployBounded'
  <2>1. Works
    BY <1>1, <1>4, <1>17
  <2> QED BY <1>5, <1>6, <1>17, <2>1
<1>18. CASE Deploy!UnlinkProgress
  BY <1>17, <1>18 DEF Deploy!UnlinkProgress
<1>19. CASE Deploy!Stops
  <2>1. deployCommand.at \in {"sent", "registering"} => deployCommand.tx \in DOMAIN deployTxs
    BY DEF DeployInv, CommandKnows
  <2> QED BY <1>17, <1>19, <2>1 DEF Deploy!Stops
<1>20. CASE Deploy!RegisterStarts
  <2>1. PICK c : c = [Deploy!Idle EXCEPT !.at = "register"]
    OBVIOUS
  <2>2. c.records = <<>> /\ c.done = 0 /\ c.tx = 0
    BY <2>1 DEF Deploy!Idle
  <2>3. deployCommand' = c /\ UNCHANGED <<deployTxs, deployLost>>
    BY <1>20, <2>1 DEF Deploy!RegisterStarts
  <2> QED BY <1>1, <1>9, <2>2, <2>3
<1>21. CASE Deploy!Register
  <2>1. Grown /\ Len(deployTxs') = Len(deployTxs) + 1
    BY <1>7, <1>21 DEF Deploy!Register
  <2>2. /\ deployCommand' = [deployCommand EXCEPT !.at = "registering", !.tx = Len(deployTxs) + 1]
        /\ UNCHANGED deployLost
    BY <1>21 DEF Deploy!Register
  <2>3. /\ deployCommand'.records = deployCommand.records /\ deployCommand'.done = deployCommand.done
        /\ deployCommand'.tx = Len(deployTxs) + 1
    BY <1>2, <2>2 DEF DeployCommandTypes
  <2> QED BY <1>1, <1>2, <1>5, <2>1, <2>2, <2>3
<1>22. CASE Deploy!Registered
  <2>1. UNCHANGED <<deployTxs, deployLost>>
    BY <1>22 DEF Deploy!Registered
  <2>2. CASE deployCommand' = Deploy!Idle
    BY <1>17, <2>1, <2>2
  <2>3. CASE deployCommand' = [deployCommand EXCEPT !.at = "register"]
    <3>1. PICK c : c = [deployCommand EXCEPT !.at = "register"]
      OBVIOUS
    <3>2. /\ c.records = deployCommand.records /\ c.done = deployCommand.done /\ c.tx = deployCommand.tx
      BY <1>2, <3>1 DEF DeployCommandTypes
    <3> QED BY <1>2, <1>9, <2>1, <2>3, <3>1, <3>2
  <2> QED BY <1>22, <2>2, <2>3 DEF Deploy!Registered
<1>23. ASSUME NEW t, Deploy!Configure(t) PROVE DeployBounded'
  BY <1>2, <1>9, <1>23 DEF Deploy!Configure
<1>24. ASSUME NEW i \in DOMAIN deployTxs, Deploy!Mine(i) \/ Deploy!Reorganised(i) \/ Deploy!Dropped(i)
       PROVE  DeployBounded'
  <2>1. UNCHANGED <<deployCommand, deployLost>> /\ Grown
    BY <1>8, <1>24 DEF Deploy!Mine, Deploy!Reorganised, Deploy!Dropped
  <2>2. Works
    BY <1>1, <1>2, <2>1 DEF Grown
  <2> QED BY <1>5, <2>1, <2>2
<1> QED BY <1>10, <1>11, <1>12, <1>13, <1>14, <1>15, <1>16, <1>18, <1>19, <1>20, <1>21, <1>22, <1>23,
           <1>24 DEF Deploy!Next

-----------------------------------------------------------------------------
(* The acceptance run.                                                      *)

TxFates == {"unused", "signed", "pool", "mined"}
SubmitFates == {"unused", "pending", "mined", "reverted"}
Working == {"write", "receipt", "delivery", "executing", "evidence"}
ScriptPlaces == {"off", "payment", "charged", "replay"} \cup Working
Journals == [entry : [1..RunSteps -> 0..MaxSigned], signature : Nat, payment : BOOLEAN,
             submission : 0..MaxSubmits, completed : BOOLEAN]
\* The nonce is not typed: nothing here depends on it.
IsTx(x) == x = [step |-> x.step, nonce |-> x.nonce, is |-> x.is] /\ x.step \in 0..RunSteps /\ x.is \in TxFates

ScriptTypes ==
  /\ file \in Journals /\ journal \in Journals /\ scriptAt \in ScriptPlaces /\ step \in 1..RunSteps
  /\ DOMAIN scriptTxs = 1..MaxSigned /\ \A t \in 1..MaxSigned : IsTx(scriptTxs[t])
  /\ submits \in [1..MaxSubmits -> SubmitFates] /\ signatures \in Nat /\ waits \in 0..MaxSubmits

\* A signed transaction is the one its step has in the journal on disk.
Journalled ==
  /\ \A t \in 1..MaxSigned : scriptTxs[t].is # "unused" =>
       scriptTxs[t].step \in 1..RunSteps /\ file.entry[scriptTxs[t].step] = t
  /\ \A k \in 1..RunSteps : file.entry[k] # 0 => /\ scriptTxs[file.entry[k]].step = k
                                                 /\ scriptTxs[file.entry[k]].is # "unused"
\* The journal on disk says what was done.
FileIsTrue ==
  /\ charged \subseteq {file.signature} \ {0} /\ (file.payment => file.signature # 0)
  /\ file.submission # 0 => submits[file.submission] = "mined"
  /\ file.completed => /\ \A k \in 1..RunSteps : file.entry[k] # 0 /\ scriptTxs[file.entry[k]].is = "mined"
                       /\ charged # {} /\ file.submission # 0
\* A command has done what comes before the place it is at.
ScriptPlace ==
  scriptAt # "off" =>
    /\ journal = file /\ (scriptAt \in {"charged", "replay"} => file.signature # 0)
    /\ scriptAt \notin Working => step = 1
    /\ scriptAt \in Working => charged # {} /\ \A k \in 1..RunSteps : k < step => file.entry[k] # 0
    /\ scriptAt \in {"write", "receipt"} => step <= Funded \/ file.submission # 0
    /\ scriptAt = "receipt" => file.entry[step] # 0
    /\ scriptAt \in {"delivery", "executing"} =>
         step = Funded + 1 \/ (step = RunSteps /\ Funded = RunSteps /\ file.entry[RunSteps] # 0)
    /\ scriptAt = "executing" => waits # 0
    /\ scriptAt = "evidence" => (\A k \in 1..RunSteps : file.entry[k] # 0) /\ file.submission # 0
ScriptInv == ScriptTypes /\ Journalled /\ FileIsTrue /\ ScriptPlace

LEMMA ScriptNumbers ==
  /\ RunSteps \in Nat /\ Funded \in Nat /\ 1 <= Funded /\ Funded <= RunSteps /\ MaxSigned \in Nat /\ MaxSubmits \in Nat
  /\ 0 \notin 1..MaxSigned /\ 0 \notin 1..RunSteps /\ Funded \in 1..RunSteps /\ RunSteps \in 1..RunSteps
<1>1. RunSteps \in Nat /\ Funded \in 1..RunSteps /\ MaxSigned \in Nat /\ MaxSubmits \in Nat
  BY ComponentsAssumption DEF Scripts!DeliveryAfterAStep
<1> QED BY <1>1

LEMMA ScriptTyped ==
  ASSUME ScriptInv
  PROVE /\ \A k \in 1..RunSteps : file.entry[k] \in 0..MaxSigned /\ (file.entry[k] # 0 => file.entry[k] \in 1..MaxSigned)
        /\ file.signature \in Nat /\ file.submission \in 0..MaxSubmits
        /\ (file.submission # 0 => file.submission \in 1..MaxSubmits)
<1>1. \A f \in Journals : /\ f.entry \in [1..RunSteps -> 0..MaxSigned] /\ f.signature \in Nat
                          /\ f.submission \in 0..MaxSubmits
  BY DEF Journals
<1>2. file \in Journals
  BY DEF ScriptInv, ScriptTypes
<1>3. /\ \A k \in 1..RunSteps : file.entry[k] \in 0..MaxSigned
      /\ file.signature \in Nat /\ file.submission \in 0..MaxSubmits
  BY <1>1, <1>2
<1>4. \A n \in 0..MaxSigned : n # 0 => n \in 1..MaxSigned
  BY ScriptNumbers
<1>5. \A n \in 0..MaxSubmits : n # 0 => n \in 1..MaxSubmits
  BY ScriptNumbers
<1> QED BY <1>3, <1>4, <1>5

LEMMA ScriptInit == Init => ScriptInv
<1> SUFFICES ASSUME Init PROVE ScriptInv
  OBVIOUS
<1>1. PICK e \in Journals :
        /\ e = Scripts!Empty /\ \A k \in 1..RunSteps : e.entry[k] = 0
        /\ e.signature = 0 /\ ~e.payment /\ e.submission = 0 /\ ~e.completed
  <2>1. [k \in 1..RunSteps |-> 0] \in [1..RunSteps -> 0..MaxSigned] /\ 0 \in 0..MaxSubmits
    BY ScriptNumbers
  <2>2. Scripts!Empty \in Journals
    BY <2>1 DEF Scripts!Empty, Journals
  <2> QED BY <2>2 DEF Scripts!Empty
<1>2. /\ file = e /\ journal = e /\ scriptAt = "off" /\ step = 1
      /\ scriptTxs = [t \in 1..MaxSigned |-> Scripts!NoTx] /\ signatures = 0 /\ charged = {}
      /\ submits = [s \in 1..MaxSubmits |-> "unused"] /\ waits = 0
  BY <1>1 DEF Init, Scripts!Init
<1>3. \A t \in 1..MaxSigned : IsTx(scriptTxs[t]) /\ scriptTxs[t].is = "unused"
  <2>1. Scripts!NoTx.step \in 0..RunSteps
    BY ScriptNumbers DEF Scripts!NoTx
  <2> QED BY <1>2, <2>1 DEF Scripts!NoTx, IsTx, TxFates
<1>4. ScriptTypes
  <2>1. 1 \in 1..RunSteps /\ 0 \in 0..MaxSubmits
    BY ScriptNumbers
  <2>2. submits \in [1..MaxSubmits -> SubmitFates] /\ scriptAt \in ScriptPlaces
    BY <1>2 DEF SubmitFates, ScriptPlaces
  <2> QED BY <1>2, <1>3, <2>1, <2>2 DEF ScriptTypes
<1> QED BY <1>1, <1>2, <1>3, <1>4 DEF ScriptInv, Journalled, FileIsTrue, ScriptPlace

\* The chain changes the fate of a transaction that was signed.
LEMMA ScriptFate ==
  ASSUME ScriptInv, NEW t \in 1..MaxSigned, scriptTxs[t].is \in {"signed", "pool"},
         NEW is \in {"signed", "pool", "mined"}, scriptTxs' = [scriptTxs EXCEPT ![t].is = is]
  PROVE /\ DOMAIN scriptTxs' = 1..MaxSigned /\ \A u \in 1..MaxSigned : IsTx(scriptTxs'[u])
        /\ UNCHANGED file => Journalled'
        /\ UNCHANGED <<file, charged, submits>> => FileIsTrue'
<1>1. DOMAIN scriptTxs = 1..MaxSigned /\ IsTx(scriptTxs[t])
  BY DEF ScriptInv, ScriptTypes
<1>2. PICK x : x = scriptTxs[t]
  OBVIOUS
<1>3. PICK y : y = [step |-> x.step, nonce |-> x.nonce, is |-> is] /\ y.step = x.step /\ y.is = is /\ y.nonce = x.nonce
  <2> DEFINE r == [step |-> x.step, nonce |-> x.nonce, is |-> is]
  <2>1. r.step = x.step /\ r.is = is /\ r.nonce = x.nonce
    OBVIOUS
  <2> QED BY <2>1
<1>4. [x EXCEPT !.is = is] = y
  BY <1>1, <1>2, <1>3 DEF IsTx
<1>5. scriptTxs' = [scriptTxs EXCEPT ![t] = y]
  BY <1>2, <1>4
<1>6. /\ DOMAIN scriptTxs' = 1..MaxSigned /\ scriptTxs'[t] = y
      /\ \A u \in 1..MaxSigned : u # t => scriptTxs'[u] = scriptTxs[u]
  BY <1>1, <1>5
<1>7. IsTx(y)
  BY <1>1, <1>2, <1>3 DEF IsTx, TxFates
<1>8. \A u \in 1..MaxSigned : IsTx(scriptTxs'[u])
  BY <1>6, <1>7 DEF ScriptInv, ScriptTypes
<1>9. \A u \in 1..MaxSigned : /\ scriptTxs'[u].step = scriptTxs[u].step
                              /\ scriptTxs'[u].is = "unused" <=> scriptTxs[u].is = "unused"
                              /\ scriptTxs[u].is = "mined" => scriptTxs'[u].is = "mined"
  BY <1>2, <1>3, <1>6
<1>10. UNCHANGED file => Journalled'
  BY <1>9, ScriptTyped DEF ScriptInv, Journalled
<1>11. UNCHANGED <<file, charged, submits>> => FileIsTrue'
  <2> SUFFICES ASSUME UNCHANGED <<file, charged, submits>> PROVE FileIsTrue'
    OBVIOUS
  <2>1. file.completed => \A k \in 1..RunSteps : file.entry[k] # 0 /\ scriptTxs'[file.entry[k]].is = "mined"
    BY <1>9, ScriptTyped DEF ScriptInv, FileIsTrue
  <2> QED BY <2>1 DEF ScriptInv, FileIsTrue
<1> QED BY <1>6, <1>8, <1>10, <1>11

LEMMA ScriptChain ==
  ASSUME ScriptInv, NEW t \in 1..MaxSigned, Scripts!Mine(t) \/ Scripts!Forget(t)
  PROVE ScriptInv'
<1>1. PICK is \in {"signed", "mined"} :
        /\ scriptTxs[t].is = "pool" /\ scriptTxs' = [scriptTxs EXCEPT ![t].is = is]
        /\ UNCHANGED <<file, journal, scriptAt, step, signatures, charged, submits, waits>>
  BY DEF Scripts!Mine, Scripts!Forget, Scripts!service
<1>2. /\ DOMAIN scriptTxs' = 1..MaxSigned /\ \A u \in 1..MaxSigned : IsTx(scriptTxs'[u])
      /\ Journalled' /\ FileIsTrue'
  BY <1>1, ScriptFate
<1> QED BY <1>1, <1>2 DEF ScriptInv, ScriptTypes, ScriptPlace

LEMMA ScriptSubmitMined ==
  ASSUME ScriptInv, NEW s \in 1..MaxSubmits, Scripts!SubmitMined(s)
  PROVE ScriptInv'
<1>1. /\ submits[s] = "pending"
      /\ UNCHANGED <<file, journal, scriptAt, step, scriptTxs, signatures, charged, waits>>
  BY DEF Scripts!SubmitMined, Scripts!chain
<1>2. PICK is \in {"reverted", "mined"} : submits' = [submits EXCEPT ![s] = is]
  BY DEF Scripts!SubmitMined
<1>3. submits' \in [1..MaxSubmits -> SubmitFates] /\ \A r \in 1..MaxSubmits : r # s => submits'[r] = submits[r]
  BY <1>2 DEF ScriptInv, ScriptTypes, SubmitFates
<1>4. FileIsTrue'
  <2>1. file.submission # 0 => submits'[file.submission] = "mined"
    BY <1>1, <1>3, ScriptTyped DEF ScriptInv, FileIsTrue
  <2> QED BY <1>1, <2>1 DEF ScriptInv, FileIsTrue
<1> QED BY <1>1, <1>3, <1>4 DEF ScriptInv, ScriptTypes, Journalled, ScriptPlace

\* A step that signs nothing and writes nothing.
LEMMA ScriptMoves ==
  ASSUME ScriptInv, UNCHANGED <<file, scriptTxs, charged, submits, signatures>>, journal' \in {journal, file},
         scriptAt' \in ScriptPlaces, step' \in 1..RunSteps, waits' \in 0..MaxSubmits, ScriptPlace'
  PROVE ScriptInv'
<1>1. ScriptTypes'
  BY DEF ScriptInv, ScriptTypes
<1> QED BY <1>1 DEF ScriptInv, Journalled, FileIsTrue

LEMMA ScriptStarts == ScriptInv /\ (Scripts!Start \/ Scripts!Stop) => ScriptInv'
<1> SUFFICES ASSUME ScriptInv, Scripts!Start \/ Scripts!Stop PROVE ScriptInv'
  OBVIOUS
<1>1. CASE Scripts!Start
  <2>1. /\ journal' = file /\ scriptAt' = "payment" /\ step' = 1 /\ waits' = 0
        /\ UNCHANGED <<file, scriptTxs, charged, submits, signatures>>
    BY <1>1 DEF Scripts!Start, Scripts!Goes, Scripts!chain, Scripts!service
  <2>2. 1 \in 1..RunSteps /\ 0 \in 0..MaxSubmits
    BY ScriptNumbers
  <2>3. ScriptPlace'
    BY <2>1 DEF ScriptPlace, Working
  <2>4. scriptAt' \in ScriptPlaces
    BY <2>1 DEF ScriptPlaces
  <2> QED BY <2>1, <2>2, <2>3, <2>4, ScriptMoves
<1>2. CASE Scripts!Stop
  <2>1. /\ scriptAt' = "off" /\ UNCHANGED <<file, journal, step, waits, scriptTxs, charged, submits, signatures>>
    BY <1>2 DEF Scripts!Stop, Scripts!Goes, Scripts!chain, Scripts!service
  <2>2. ScriptPlace' /\ scriptAt' \in ScriptPlaces
    BY <2>1 DEF ScriptPlace, ScriptPlaces
  <2> QED BY <2>1, <2>2, ScriptMoves DEF ScriptInv, ScriptTypes
<1> QED BY <1>1, <1>2

\* The journal is saved: the same entries.
LEMMA ScriptSaves ==
  ASSUME ScriptInv, NEW f \in Journals, file' = f, journal' = f, f.entry = file.entry,
         UNCHANGED <<scriptTxs, charged, submits>>, signatures' \in Nat, step' \in 1..RunSteps,
         scriptAt' \in ScriptPlaces, waits' \in 0..MaxSubmits, FileIsTrue', ScriptPlace'
  PROVE ScriptInv'
<1>1. ScriptTypes'
  BY DEF ScriptInv, ScriptTypes
<1>2. Journalled'
  BY DEF ScriptInv, Journalled
<1> QED BY <1>1, <1>2 DEF ScriptInv

LEMMA ScriptPays ==
  ASSUME ScriptInv, Scripts!SignPayment \/ Scripts!Charge \/ Scripts!Paid \/ Scripts!Replay
  PROVE ScriptInv'
<1>1. CASE Scripts!SignPayment
  <2>1. PICK j : j = journal
    OBVIOUS
  <2>2. /\ scriptAt = "payment" /\ ~j.payment /\ j.signature = 0 /\ signatures' = signatures + 1
        /\ journal' = [j EXCEPT !.signature = signatures + 1] /\ file' = [j EXCEPT !.signature = signatures + 1]
        /\ UNCHANGED <<scriptAt, step, scriptTxs, charged, submits, waits>>
    BY <1>1, <2>1 DEF Scripts!SignPayment, Scripts!Save, Scripts!chain, Scripts!service
  <2>3. file = j /\ j \in Journals /\ step = 1
    BY <2>1, <2>2 DEF ScriptInv, ScriptTypes, ScriptPlace, Working
  <2>4. PICK n \in Nat : n = signatures + 1 /\ n # 0
    <3>1. signatures \in Nat
      BY DEF ScriptInv, ScriptTypes
    <3>2. signatures + 1 \in Nat /\ signatures + 1 # 0
      BY <3>1
    <3> QED BY <3>2
  <2>5. PICK f \in Journals : /\ f = [j EXCEPT !.signature = n] /\ f.entry = j.entry /\ f.signature = n
                              /\ f.payment = j.payment /\ f.submission = j.submission
                              /\ f.completed = j.completed
    <3>1. [j EXCEPT !.signature = n] \in Journals
      BY <2>3 DEF Journals
    <3> QED BY <2>3, <3>1 DEF Journals
  <2>6. charged = {}
    BY <2>2, <2>3 DEF ScriptInv, FileIsTrue
  <2>7. file' = f /\ journal' = f /\ signatures' = n
    BY <2>2, <2>4, <2>5
  <2>8. FileIsTrue'
    BY <2>2, <2>3, <2>5, <2>6, <2>7 DEF ScriptInv, FileIsTrue
  <2>9. ScriptPlace'
    BY <2>2, <2>3, <2>7 DEF ScriptPlace, Working
  <2> QED BY <2>2, <2>3, <2>5, <2>7, <2>8, <2>9, ScriptSaves DEF ScriptInv, ScriptTypes
<1>2. ASSUME scriptAt \in {"payment", "replay"}, file.signature # 0, charged' = charged \cup {file.signature},
             scriptAt' \in {"charged", "write"},
             UNCHANGED <<file, journal, step, scriptTxs, signatures, submits, waits>>
      PROVE ScriptInv'
  <2>1. step = 1 /\ journal = file
    BY <1>2 DEF ScriptInv, ScriptPlace, Working
  <2>2. FileIsTrue'
    BY <1>2 DEF ScriptInv, FileIsTrue
  <2>3. ScriptPlace'
    <3>1. \A k \in 1..RunSteps : ~(k < 1)
      BY ScriptNumbers
    <3>2. 1 <= Funded
      BY ScriptNumbers
    <3> QED BY <1>2, <2>1, <3>1, <3>2 DEF ScriptPlace, Working
  <2>4. scriptAt' \in ScriptPlaces
    BY <1>2 DEF ScriptPlaces, Working
  <2> QED BY <1>2, <2>2, <2>3, <2>4 DEF ScriptInv, ScriptTypes, Journalled
<1>3. CASE Scripts!Charge
  <2>1. /\ scriptAt = "payment" /\ journal.signature # 0 /\ charged' = charged \cup {journal.signature}
        /\ scriptAt' = "charged"
        /\ UNCHANGED <<file, journal, step, scriptTxs, signatures, submits, waits>>
    BY <1>3 DEF Scripts!Charge, Scripts!Goes, Scripts!chain
  <2>2. journal = file
    BY <2>1 DEF ScriptInv, ScriptPlace
  <2> QED BY <1>2, <2>1, <2>2
<1>4. CASE Scripts!Replay
  <2>1. /\ scriptAt = "replay" /\ charged' = charged \cup {journal.signature} /\ scriptAt' = "write"
        /\ UNCHANGED <<file, journal, step, scriptTxs, signatures, submits, waits>>
    BY <1>4 DEF Scripts!Replay, Scripts!Goes, Scripts!chain
  <2>2. journal = file /\ file.signature # 0
    BY <2>1 DEF ScriptInv, ScriptPlace
  <2> QED BY <1>2, <2>1, <2>2
<1>5. CASE Scripts!Paid
  <2>1. PICK j : j = journal
    OBVIOUS
  <2>2. /\ scriptAt \in {"charged", "payment"} /\ scriptAt' = "replay"
        /\ \/ scriptAt = "charged" /\ journal' = [j EXCEPT !.payment = TRUE] /\ file' = [j EXCEPT !.payment = TRUE]
           \/ j.payment /\ UNCHANGED <<file, journal>>
        /\ UNCHANGED <<step, scriptTxs, signatures, charged, submits, waits>>
    BY <1>5, <2>1 DEF Scripts!Paid, Scripts!Save, Scripts!Goes, Scripts!chain, Scripts!service
  <2>3. /\ file = j /\ j \in Journals /\ step = 1
        /\ scriptAt = "charged" \/ j.payment => file.signature # 0
    BY <2>1, <2>2 DEF ScriptInv, ScriptTypes, ScriptPlace, FileIsTrue, Working
  <2>4. scriptAt' \in ScriptPlaces
    BY <2>2 DEF ScriptPlaces
  <2>5. CASE UNCHANGED <<file, journal>> /\ j.payment
    <3>1. ScriptPlace'
      BY <2>1, <2>2, <2>3, <2>5 DEF ScriptPlace, Working
    <3> QED BY <2>2, <2>4, <2>5, <3>1, ScriptMoves DEF ScriptInv, ScriptTypes
  <2>6. CASE scriptAt = "charged" /\ journal' = [j EXCEPT !.payment = TRUE] /\ file' = [j EXCEPT !.payment = TRUE]
    <3>1. PICK f \in Journals : /\ f = [j EXCEPT !.payment = TRUE] /\ f.entry = j.entry
                                /\ f.signature = j.signature /\ f.submission = j.submission
                                /\ f.completed = j.completed
      <4>1. [j EXCEPT !.payment = TRUE] \in Journals
        BY <2>3 DEF Journals
      <4> QED BY <2>3, <4>1 DEF Journals
    <3>2. file' = f /\ journal' = f
      BY <2>6, <3>1
    <3>3. FileIsTrue'
      BY <2>2, <2>3, <2>6, <3>1, <3>2 DEF ScriptInv, FileIsTrue
    <3>4. ScriptPlace'
      BY <2>2, <2>3, <2>6, <3>1, <3>2 DEF ScriptPlace, Working
    <3> QED BY <2>2, <2>3, <2>4, <3>1, <3>2, <3>3, <3>4, ScriptSaves DEF ScriptInv, ScriptTypes
  <2> QED BY <2>2, <2>5, <2>6
<1> QED BY <1>1, <1>3, <1>4, <1>5

LEMMA ScriptSigns ==
  ASSUME ScriptInv, NEW t \in 1..MaxSigned, NEW count, Scripts!Sign(t, count)
  PROVE ScriptInv'
<1>1. PICK k, j, n : k = step /\ j = journal /\ n = Scripts!Largest({count} \cup Scripts!Used)
  OBVIOUS
<1>2. PICK x : x = [step |-> k, nonce |-> n, is |-> "signed"] /\ x.step = k /\ x.nonce = n /\ x.is = "signed"
  <2> DEFINE r == [step |-> k, nonce |-> n, is |-> "signed"]
  <2>1. r.step = k /\ r.nonce = n /\ r.is = "signed"
    OBVIOUS
  <2> QED BY <2>1
<1>3. /\ scriptAt = "write" /\ j.entry[k] = 0 /\ scriptTxs[t].is = "unused"
      /\ scriptTxs' = [scriptTxs EXCEPT ![t] = x]
      /\ journal' = [j EXCEPT !.entry[k] = t] /\ file' = [j EXCEPT !.entry[k] = t]
      /\ UNCHANGED <<scriptAt, step, signatures, charged, submits, waits>>
  BY <1>1, <1>2 DEF Scripts!Sign, Scripts!Unused, Scripts!Signs, Scripts!Save, Scripts!service
<1>4. file = j /\ j \in Journals /\ k \in 1..RunSteps /\ t # 0 /\ t \in 0..MaxSigned
  <2>1. t # 0 /\ t \in 0..MaxSigned
    BY ScriptNumbers
  <2> QED BY <1>1, <1>3, <2>1 DEF ScriptInv, ScriptTypes, ScriptPlace
<1>5. PICK f \in Journals : /\ f = [j EXCEPT !.entry[k] = t] /\ f.entry[k] = t
                            /\ \A m \in 1..RunSteps : m # k => f.entry[m] = j.entry[m]
                            /\ f.signature = j.signature /\ f.payment = j.payment
                            /\ f.submission = j.submission /\ f.completed = j.completed
  <2>1. [j EXCEPT !.entry[k] = t] \in Journals
    BY <1>4 DEF Journals
  <2> QED BY <1>4, <2>1 DEF Journals
<1>6. /\ DOMAIN scriptTxs' = 1..MaxSigned /\ scriptTxs'[t] = x
      /\ \A u \in 1..MaxSigned : u # t => scriptTxs'[u] = scriptTxs[u]
  BY <1>3 DEF ScriptInv, ScriptTypes
<1>7. IsTx(x)
  <2>1. k \in 0..RunSteps
    BY <1>4, ScriptNumbers
  <2> QED BY <1>2, <2>1 DEF IsTx, TxFates
<1>8. file' = f /\ journal' = f
  BY <1>3, <1>5
<1>9. ScriptTypes'
  BY <1>3, <1>6, <1>7, <1>8 DEF ScriptInv, ScriptTypes
<1>10. Journalled'
  <2>1. ASSUME NEW u \in 1..MaxSigned, scriptTxs'[u].is # "unused"
        PROVE scriptTxs'[u].step \in 1..RunSteps /\ f.entry[scriptTxs'[u].step] = u
    <3>1. CASE u = t
      BY <1>2, <1>4, <1>5, <1>6, <3>1
    <3>2. CASE u # t
      <4>1. scriptTxs'[u] = scriptTxs[u] /\ u # 0
        BY <1>6, <3>2, ScriptNumbers
      <4>2. scriptTxs[u].step \in 1..RunSteps /\ j.entry[scriptTxs[u].step] = u
        BY <1>4, <2>1, <4>1 DEF ScriptInv, Journalled
      <4>3. scriptTxs[u].step # k
        BY <1>3, <4>1, <4>2
      <4> QED BY <1>5, <4>1, <4>2, <4>3
    <3> QED BY <3>1, <3>2
  <2>2. ASSUME NEW m \in 1..RunSteps, f.entry[m] # 0
        PROVE scriptTxs'[f.entry[m]].step = m /\ scriptTxs'[f.entry[m]].is # "unused"
    <3>1. CASE m = k
      BY <1>2, <1>5, <1>6, <3>1
    <3>2. CASE m # k
      <4>1. PICK u \in 1..MaxSigned : u = f.entry[m] /\ u = j.entry[m]
        BY <1>4, <1>5, <2>2, <3>2, ScriptTyped
      <4>2. scriptTxs[u].step = m /\ scriptTxs[u].is # "unused"
        BY <1>4, <2>2, <4>1 DEF ScriptInv, Journalled
      <4> QED BY <1>3, <1>6, <4>1, <4>2
    <3> QED BY <3>1, <3>2
  <2> QED BY <1>8, <2>1, <2>2 DEF Journalled
<1>11. FileIsTrue'
  <2>1. ~file.completed
    BY <1>3, <1>4 DEF ScriptInv, FileIsTrue
  <2> QED BY <1>3, <1>4, <1>5, <1>8, <2>1 DEF ScriptInv, FileIsTrue
<1>12. ScriptPlace'
  <2>1. /\ charged # {} /\ (\A m \in 1..RunSteps : m < k => j.entry[m] # 0)
        /\ k <= Funded \/ j.submission # 0
    BY <1>1, <1>3, <1>4 DEF ScriptInv, ScriptPlace, Working
  <2>2. \A m \in 1..RunSteps : m < k => f.entry[m] # 0
    BY <1>4, <1>5, <2>1
  <2> QED BY <1>1, <1>3, <1>5, <1>8, <2>1, <2>2 DEF ScriptPlace, Working
<1> QED BY <1>9, <1>10, <1>11, <1>12 DEF ScriptInv

LEMMA ScriptBroadcasts ==
  ASSUME ScriptInv, Scripts!Broadcast
  PROVE ScriptInv'
<1>1. PICK k, t : k = step /\ t = journal.entry[k]
  OBVIOUS
<1>2. /\ scriptAt = "write" /\ t # 0 /\ scriptAt' \in {"receipt", "off"}
      /\ \/ UNCHANGED scriptTxs
         \/ scriptTxs[t].is = "signed" /\ scriptTxs' = [scriptTxs EXCEPT ![t].is = "pool"]
      /\ UNCHANGED <<file, journal, step, signatures, charged, submits, waits>>
  BY <1>1 DEF Scripts!Broadcast, Scripts!Goes, Scripts!service
<1>3. journal = file /\ k \in 1..RunSteps /\ t \in 1..MaxSigned
  <2>1. journal = file /\ k \in 1..RunSteps
    BY <1>1, <1>2 DEF ScriptInv, ScriptTypes, ScriptPlace
  <2> QED BY <1>1, <1>2, <2>1, ScriptTyped
<1>4. ScriptPlace'
  BY <1>1, <1>2, <1>3 DEF ScriptInv, ScriptPlace, Working
<1>5. scriptAt' \in ScriptPlaces
  BY <1>2 DEF ScriptPlaces, Working
<1>6. CASE UNCHANGED scriptTxs
  BY <1>2, <1>4, <1>5, <1>6, ScriptMoves DEF ScriptInv, ScriptTypes
<1>7. CASE scriptTxs[t].is = "signed" /\ scriptTxs' = [scriptTxs EXCEPT ![t].is = "pool"]
  <2>1. /\ DOMAIN scriptTxs' = 1..MaxSigned /\ \A u \in 1..MaxSigned : IsTx(scriptTxs'[u])
        /\ Journalled' /\ FileIsTrue'
    BY <1>2, <1>3, <1>7, ScriptFate
  <2> QED BY <1>2, <1>4, <1>5, <2>1 DEF ScriptInv, ScriptTypes
<1> QED BY <1>2, <1>6, <1>7

LEMMA ScriptReceipts ==
  ASSUME ScriptInv, Scripts!Receipt
  PROVE ScriptInv'
<1>1. PICK k, f, n : k = step /\ f = file /\ n = RunSteps
  OBVIOUS
<1>2. /\ scriptAt = "receipt" /\ f.entry[k] # 0 /\ journal = f /\ k \in 1..RunSteps /\ f \in Journals
      /\ charged # {} /\ (\A m \in 1..RunSteps : m < k => f.entry[m] # 0)
      /\ k <= Funded \/ f.submission # 0
  <2>1. scriptAt = "receipt"
    BY DEF Scripts!Receipt
  <2> QED BY <1>1, <2>1 DEF ScriptInv, ScriptTypes, ScriptPlace, Working
<1>3. /\ journal' = f /\ file' = f /\ step' = (IF k < RunSteps THEN k + 1 ELSE k) /\ scriptAt' = Scripts!After(k)
      /\ UNCHANGED <<scriptTxs, signatures, charged, submits, waits>>
  BY <1>1, <1>2 DEF Scripts!Receipt, Scripts!Save, Scripts!Goes, Scripts!chain, Scripts!service
<1>4. \/ k < RunSteps /\ step' = k + 1
      \/ k = RunSteps /\ step' = k
  BY <1>2, <1>3, ScriptNumbers
<1>5. step' \in 1..RunSteps /\ \A m \in 1..RunSteps : m < step' => f.entry[m] # 0
  <2>1. CASE k < RunSteps /\ step' = k + 1
    <3>1. k + 1 \in 1..RunSteps /\ \A m \in 1..RunSteps : m < k + 1 => m < k \/ m = k
      BY <1>2, <2>1, ScriptNumbers
    <3> QED BY <1>2, <2>1, <3>1
  <2>2. CASE k = RunSteps /\ step' = k
    BY <1>2, <2>2
  <2> QED BY <1>4, <2>1, <2>2
<1>6. ScriptPlace'
  <2>1. CASE k = Funded
    <3>1. scriptAt' = "delivery"
      BY <1>3, <2>1 DEF Scripts!After
    <3>2. step' = Funded + 1 \/ (step' = RunSteps /\ Funded = RunSteps /\ f.entry[RunSteps] # 0)
      BY <1>2, <1>4, <2>1
    <3> QED BY <1>2, <1>3, <1>5, <3>1, <3>2 DEF ScriptPlace, Working
  <2>2. CASE k # Funded /\ k = RunSteps
    <3>1. scriptAt' = "evidence"
      BY <1>3, <2>2 DEF Scripts!After
    <3>2. \A m \in 1..RunSteps : m < k \/ m = k
      BY <2>2, ScriptNumbers
    <3>3. f.submission # 0
      BY <1>2, <2>2, ScriptNumbers
    <3> QED BY <1>2, <1>3, <1>5, <3>1, <3>2, <3>3 DEF ScriptPlace, Working
  <2>3. CASE k # Funded /\ k # RunSteps
    <3>1. scriptAt' = "write" /\ step' = k + 1
      BY <1>3, <1>4, <2>3 DEF Scripts!After
    <3>2. k + 1 <= Funded \/ f.submission # 0
      BY <1>2, <2>3, ScriptNumbers
    <3> QED BY <1>2, <1>3, <1>5, <3>1, <3>2 DEF ScriptPlace, Working
  <2> QED BY <2>1, <2>2, <2>3
<1>7. scriptAt' \in ScriptPlaces
  BY <1>3 DEF Scripts!After, ScriptPlaces, Working
<1> QED BY <1>1, <1>3, <1>5, <1>6, <1>7, ScriptMoves DEF ScriptInv, ScriptTypes

\* A submission that the chain has is written down, by a command at the delivery.
LEMMA ScriptSubmissionSaved ==
  ASSUME ScriptInv, scriptAt \in {"delivery", "executing"}, NEW s \in 1..MaxSubmits, submits[s] = "mined",
         journal' = [journal EXCEPT !.submission = s], file' = journal', scriptAt' = "delivery",
         waits' \in 0..MaxSubmits, UNCHANGED <<step, scriptTxs, signatures, charged, submits>>
  PROVE ScriptInv'
<1>1. PICK j : j = journal
  OBVIOUS
<1>2. file = j /\ j \in Journals /\ s # 0 /\ s \in 0..MaxSubmits
  <2>1. s # 0 /\ s \in 0..MaxSubmits
    BY ScriptNumbers
  <2> QED BY <1>1, <2>1 DEF ScriptInv, ScriptTypes, ScriptPlace
<1>3. PICK f \in Journals : /\ f = [j EXCEPT !.submission = s] /\ f.submission = s
                            /\ f.entry = j.entry /\ f.signature = j.signature
                            /\ f.payment = j.payment /\ f.completed = j.completed
  <2>1. [j EXCEPT !.submission = s] \in Journals
    BY <1>2 DEF Journals
  <2> QED BY <1>2, <2>1 DEF Journals
<1>4. file' = f /\ journal' = f
  BY <1>1, <1>3
<1>5. FileIsTrue'
  <2>1. charged \subseteq {f.signature} \ {0} /\ (f.payment => f.signature # 0)
    BY <1>2, <1>3 DEF ScriptInv, FileIsTrue
  <2>2. f.completed => /\ \A k \in 1..RunSteps : f.entry[k] # 0 /\ scriptTxs[f.entry[k]].is = "mined"
                       /\ charged # {} /\ f.submission # 0
    BY <1>2, <1>3 DEF ScriptInv, FileIsTrue
  <2>3. submits[f.submission] = "mined"
    BY <1>3
  <2>4. file' = f /\ UNCHANGED <<charged, scriptTxs, submits>>
    BY <1>4
  <2> QED BY <2>1, <2>2, <2>3, <2>4 DEF FileIsTrue
<1>6. ScriptPlace'
  BY <1>2, <1>3, <1>4 DEF ScriptInv, ScriptPlace, Working
<1>7. scriptAt' \in ScriptPlaces
  BY DEF ScriptPlaces, Working
<1> QED BY <1>2, <1>3, <1>4, <1>5, <1>6, <1>7, ScriptSaves DEF ScriptInv, ScriptTypes

LEMMA ScriptDelivers ==
  ASSUME ScriptInv,
         \/ \E s \in 1..MaxSubmits : Scripts!ExecuteJob(s) \/ Scripts!RecoverSubmission(s)
         \/ Scripts!Executed \/ Scripts!Delivered
  PROVE ScriptInv'
<1>1. ASSUME NEW s \in 1..MaxSubmits, Scripts!ExecuteJob(s) PROVE ScriptInv'
  <2>1. /\ scriptAt = "delivery" /\ submits[s] = "unused" /\ submits' = [submits EXCEPT ![s] = "pending"]
        /\ waits' = s /\ scriptAt' = "executing"
        /\ UNCHANGED <<file, journal, step, scriptTxs, signatures, charged>>
    BY <1>1 DEF Scripts!ExecuteJob, Scripts!Goes, Scripts!chain
  <2>2. s # 0 /\ s \in 0..MaxSubmits
    BY ScriptNumbers
  <2>3. /\ submits' \in [1..MaxSubmits -> SubmitFates]
        /\ \A r \in 1..MaxSubmits : r # s => submits'[r] = submits[r]
    BY <2>1 DEF ScriptInv, ScriptTypes, SubmitFates
  <2>4. file.submission # 0 => submits'[file.submission] = "mined"
    BY <2>1, <2>3, ScriptTyped DEF ScriptInv, FileIsTrue
  <2>5. FileIsTrue'
    BY <2>1, <2>4 DEF ScriptInv, FileIsTrue
  <2>6. ScriptPlace' /\ scriptAt' \in ScriptPlaces
    BY <2>1, <2>2 DEF ScriptInv, ScriptPlace, ScriptPlaces, Working
  <2> QED BY <2>1, <2>2, <2>3, <2>5, <2>6 DEF ScriptInv, ScriptTypes, Journalled
<1>2. ASSUME NEW s \in 1..MaxSubmits, Scripts!RecoverSubmission(s) PROVE ScriptInv'
  <2>1. /\ scriptAt = "delivery" /\ submits[s] = "mined" /\ scriptAt' = "delivery"
        /\ journal' = [journal EXCEPT !.submission = s] /\ file' = journal'
        /\ UNCHANGED <<step, scriptTxs, signatures, charged, submits, waits>>
    BY <1>2 DEF Scripts!RecoverSubmission, Scripts!Submitted, Scripts!Save, Scripts!chain, Scripts!service
  <2>2. waits' \in 0..MaxSubmits
    BY <2>1 DEF ScriptInv, ScriptTypes
  <2> QED BY <2>1, <2>2, ScriptSubmissionSaved
<1>3. CASE Scripts!Executed
  <2>1. /\ scriptAt = "executing" /\ waits' = 0
        /\ UNCHANGED <<step, scriptTxs, signatures, charged, submits>>
        /\ \/ /\ submits[waits] = "mined" /\ scriptAt' = "delivery"
              /\ journal' = [journal EXCEPT !.submission = waits] /\ file' = journal'
           \/ scriptAt' = "off" /\ UNCHANGED <<file, journal>>
    BY <1>3 DEF Scripts!Executed, Scripts!Save, Scripts!Goes, Scripts!chain, Scripts!service
  <2>2. waits \in 1..MaxSubmits /\ 0 \in 0..MaxSubmits
    BY <2>1, ScriptNumbers DEF ScriptInv, ScriptTypes, ScriptPlace
  <2>3. CASE scriptAt' = "off" /\ UNCHANGED <<file, journal>>
    <3>1. ScriptPlace' /\ scriptAt' \in ScriptPlaces
      BY <2>3 DEF ScriptPlace, ScriptPlaces
    <3> QED BY <2>1, <2>2, <2>3, <3>1, ScriptMoves DEF ScriptInv, ScriptTypes
  <2> QED BY <2>1, <2>2, <2>3, ScriptSubmissionSaved
<1>4. CASE Scripts!Delivered
  <2>1. /\ scriptAt = "delivery" /\ journal.submission # 0
        /\ scriptAt' = IF step = Funded THEN "evidence" ELSE "write"
        /\ UNCHANGED <<file, journal, step, scriptTxs, signatures, charged, submits, waits>>
    BY <1>4 DEF Scripts!Delivered, Scripts!Goes, Scripts!chain, Scripts!service
  <2>2. /\ journal = file /\ charged # {} /\ (\A k \in 1..RunSteps : k < step => file.entry[k] # 0)
        /\ step = Funded + 1 \/ (step = RunSteps /\ Funded = RunSteps /\ file.entry[RunSteps] # 0)
    BY <2>1 DEF ScriptInv, ScriptPlace, Working
  <2>3. CASE step = Funded
    <3>1. \A k \in 1..RunSteps : k < RunSteps \/ k = RunSteps
      BY ScriptNumbers
    <3>2. step = RunSteps /\ file.entry[RunSteps] # 0
      BY <2>2, <2>3, ScriptNumbers
    <3>3. \A k \in 1..RunSteps : file.entry[k] # 0
      BY <2>2, <3>1, <3>2
    <3>4. ScriptPlace' /\ scriptAt' \in ScriptPlaces
      BY <2>1, <2>2, <2>3, <3>3 DEF ScriptPlace, ScriptPlaces, Working
    <3> QED BY <2>1, <3>4, ScriptMoves DEF ScriptInv, ScriptTypes
  <2>4. CASE step # Funded
    <3>1. ScriptPlace' /\ scriptAt' \in ScriptPlaces
      BY <2>1, <2>2, <2>4 DEF ScriptPlace, ScriptPlaces, Working
    <3> QED BY <2>1, <3>1, ScriptMoves DEF ScriptInv, ScriptTypes
  <2> QED BY <2>3, <2>4
<1> QED BY <1>1, <1>2, <1>3, <1>4

LEMMA ScriptCompletes ==
  ASSUME ScriptInv, Scripts!Complete
  PROVE ScriptInv'
<1>1. PICK j : j = journal
  OBVIOUS
<1>2. /\ scriptAt = "evidence" /\ (\A k \in 1..RunSteps : scriptTxs[j.entry[k]].is = "mined")
      /\ journal' = [j EXCEPT !.completed = TRUE] /\ file' = [j EXCEPT !.completed = TRUE] /\ scriptAt' = "off"
      /\ UNCHANGED <<step, scriptTxs, signatures, charged, submits, waits>>
  BY <1>1 DEF Scripts!Complete, Scripts!Save, Scripts!Goes, Scripts!chain, Scripts!service
<1>3. /\ file = j /\ j \in Journals /\ charged # {} /\ j.submission # 0
      /\ \A k \in 1..RunSteps : j.entry[k] # 0
  BY <1>1, <1>2 DEF ScriptInv, ScriptTypes, ScriptPlace, Working
<1>4. PICK f \in Journals : /\ f = [j EXCEPT !.completed = TRUE] /\ f.submission = j.submission
                            /\ f.entry = j.entry /\ f.signature = j.signature /\ f.payment = j.payment
  <2>1. [j EXCEPT !.completed = TRUE] \in Journals
    BY <1>3 DEF Journals
  <2> QED BY <1>3, <2>1 DEF Journals
<1>5. file' = f /\ journal' = f
  BY <1>2, <1>4
<1>6. FileIsTrue'
  BY <1>2, <1>3, <1>4, <1>5 DEF ScriptInv, FileIsTrue
<1>7. ScriptPlace' /\ scriptAt' \in ScriptPlaces
  BY <1>2 DEF ScriptPlace, ScriptPlaces
<1> QED BY <1>2, <1>3, <1>4, <1>5, <1>6, <1>7, ScriptSaves DEF ScriptInv, ScriptTypes

LEMMA ScriptStep == ScriptInv /\ [Scripts!Next]_(Scripts!vars) => ScriptInv'
<1> SUFFICES ASSUME ScriptInv, [Scripts!Next]_(Scripts!vars) PROVE ScriptInv'
  OBVIOUS
<1>1. CASE Scripts!OutsideTx \/ UNCHANGED Scripts!vars
  <2>1. UNCHANGED <<file, journal, scriptAt, step, scriptTxs, signatures, charged, submits, waits>>
    BY <1>1 DEF Scripts!OutsideTx, Scripts!vars, Scripts!service
  <2> QED BY <2>1 DEF ScriptInv, ScriptTypes, Journalled, FileIsTrue, ScriptPlace
<1> QED BY <1>1, ScriptChain, ScriptSigns, ScriptStarts, ScriptPays, ScriptBroadcasts, ScriptReceipts,
          ScriptSubmitMined, ScriptDelivers, ScriptCompletes DEF Scripts!Next

LEMMA ScriptCardinality == \A S : Scripts!Cardinality(S) = Cardinality(S)
  BY DEF Cardinality, Scripts!Cardinality

LEMMA ScriptSound == ScriptInv => Scripts!ScriptsSound
<1> SUFFICES ASSUME ScriptInv PROVE Scripts!ScriptsSound
  OBVIOUS
<1>1. \A t, u \in 1..MaxSigned :
        scriptTxs[t].is = "mined" /\ scriptTxs[u].is = "mined" /\ scriptTxs[t].step = scriptTxs[u].step => t = u
  BY DEF ScriptInv, Journalled
<1>2. Cardinality(charged) <= 1
  <2>1. charged = {} \/ charged = {file.signature}
    BY DEF ScriptInv, FileIsTrue
  <2>2. Cardinality({}) = 0 /\ Cardinality({file.signature}) = 1
    BY FS_EmptySet, FS_Singleton
  <2>3. Cardinality(charged) = 0 \/ Cardinality(charged) = 1
    BY <2>1, <2>2
  <2> QED BY <2>3
<1>3. file.completed => /\ \A k \in 1..RunSteps : \E t \in 1..MaxSigned :
                             scriptTxs[t].step = k /\ scriptTxs[t].is = "mined"
                        /\ charged # {} /\ Scripts!Submitted # {}
  <2> SUFFICES ASSUME file.completed
               PROVE /\ \A k \in 1..RunSteps : \E t \in 1..MaxSigned :
                          scriptTxs[t].step = k /\ scriptTxs[t].is = "mined"
                     /\ charged # {} /\ Scripts!Submitted # {}
    OBVIOUS
  <2>1. ASSUME NEW k \in 1..RunSteps
        PROVE \E t \in 1..MaxSigned : scriptTxs[t].step = k /\ scriptTxs[t].is = "mined"
    BY ScriptTyped DEF ScriptInv, FileIsTrue, Journalled
  <2>2. file.submission \in DOMAIN submits /\ submits[file.submission] = "mined" /\ charged # {}
    BY ScriptTyped DEF ScriptInv, ScriptTypes, FileIsTrue
  <2> QED BY <2>1, <2>2 DEF Scripts!Submitted
<1>4. file.submission # 0 => submits[file.submission] = "mined"
  BY DEF ScriptInv, FileIsTrue
<1> QED BY <1>1, <1>2, <1>3, <1>4, ScriptCardinality, Zenon DEF Scripts!ScriptsSound

\* No more commands are started than the bound says.
ScriptsBounded == scriptCommands \in 0..ScriptCommands

LEMMA ScriptsBoundedInit == Scripts!Init => ScriptsBounded
<1>1. ScriptCommands \in Nat
  BY ComponentsAssumption DEF Scripts!DeliveryAfterAStep
<1> QED BY <1>1 DEF Scripts!Init, ScriptsBounded

LEMMA ScriptsTypeOK == ScriptInv /\ ScriptsBounded => Scripts!TypeOK
<1> SUFFICES ASSUME ScriptInv, ScriptsBounded PROVE Scripts!TypeOK
  OBVIOUS
<1>1. \A k \in 1..RunSteps : file.entry[k] \in 0..MaxSigned /\ journal.entry[k] \in 0..MaxSigned
  <2>1. file \in Journals /\ journal \in Journals
    BY DEF ScriptInv, ScriptTypes
  <2> QED BY <2>1 DEF Journals
<1>2. \A t \in 1..MaxSigned : scriptTxs[t].is \in TxFates
  BY DEF ScriptInv, ScriptTypes, IsTx
<1>3. scriptAt \in ScriptPlaces /\ step \in 1..RunSteps /\ waits \in 0..MaxSubmits
  BY DEF ScriptInv, ScriptTypes
<1> QED BY <1>1, <1>2, <1>3 DEF ScriptsBounded, Scripts!TypeOK, TxFates, ScriptPlaces, Working

LEMMA ScriptsBoundedStep ==
  ASSUME ScriptsBounded, UNCHANGED scriptsVars \/ Scripts!Next
  PROVE  ScriptsBounded'
<1>1. ScriptCommands \in Nat /\ scriptCommands \in Nat /\ scriptCommands <= ScriptCommands
  BY ComponentsAssumption DEF Scripts!DeliveryAfterAStep, ScriptsBounded
<1>2. UNCHANGED scriptCommands \/ Scripts!Start
  <2>1. CASE UNCHANGED scriptsVars
    BY <2>1 DEF scriptsVars
  <2>2. ASSUME NEW t, \/ Scripts!Mine(t) \/ Scripts!Forget(t) \/ \E count \in 0..nonce : Scripts!Sign(t, count)
        PROVE  UNCHANGED scriptCommands
    BY <2>2 DEF Scripts!Mine, Scripts!Forget, Scripts!Sign
  <2>3. CASE Scripts!OutsideTx \/ Scripts!Stop \/ Scripts!SignPayment \/ Scripts!Charge \/ Scripts!Paid
             \/ Scripts!Replay \/ Scripts!Broadcast \/ Scripts!Receipt
    BY <2>3 DEF Scripts!OutsideTx, Scripts!Stop, Scripts!SignPayment, Scripts!Charge, Scripts!Paid,
      Scripts!Replay, Scripts!Broadcast, Scripts!Receipt
  <2>4. ASSUME NEW s, Scripts!SubmitMined(s) \/ Scripts!ExecuteJob(s) \/ Scripts!RecoverSubmission(s)
        PROVE  UNCHANGED scriptCommands
    BY <2>4 DEF Scripts!SubmitMined, Scripts!ExecuteJob, Scripts!RecoverSubmission
  <2>5. CASE Scripts!Executed \/ Scripts!Delivered \/ Scripts!Complete
    BY <2>5 DEF Scripts!Executed, Scripts!Delivered, Scripts!Complete
  <2> QED BY <2>1, <2>2, <2>3, <2>4, <2>5 DEF Scripts!Next
<1>3. CASE Scripts!Start
  <2>1. scriptCommands < ScriptCommands /\ scriptCommands' = scriptCommands + 1
    BY <1>3 DEF Scripts!Start
  <2> QED BY <1>1, <2>1 DEF ScriptsBounded
<1> QED BY <1>2, <1>3 DEF ScriptsBounded

-----------------------------------------------------------------------------
(* The canary proof.                                                        *)

JobSteps == {"set-budget", "fund-job", "submit-delivery", "complete-job"}
SentSteps == {"fund-gas", "register-agent", "create-agent-job", "approve-exact-usdc"} \cup JobSteps
ProofTxTypes == [step : SentSteps, job : Nat, st : {"pending", "ok", "reverted"}]
JobTypes == [status : {"Created", "Funded", "Submitted", "Completed"}, budget : {0, 1}]
ProofFiles == [exists : BOOLEAN, txs : SUBSET Nat, agent : Nat, job : Nat,
               ipfs : SUBSET {"metadata", "document", "manifest", "bundle"}]
ProofWallets == [gas : BOOLEAN, allowance : {0, 1}, paid : Nat, received : Nat]
ProofTypes ==
  /\ proofTxs \in Seq(ProofTxTypes) /\ jobs \in Seq(JobTypes)
  /\ wallet \in ProofWallets
  /\ proofProgress \in ProofFiles /\ evidence \in ProofFiles
  /\ proofCommand \in [stage : 0..12, tx : Nat, adopt : BOOLEAN]

\* The one job that the files are of.
TheJob == IF evidence.exists THEN evidence.job ELSE proofProgress.job
Made(s) == \E i \in DOMAIN proofTxs : /\ proofTxs[i].step = s /\ proofTxs[i].st = "ok"
                                      /\ proofTxs[i].job = TheJob
\* Its transactions are those of the files' job, and its state is by them.
JobSent ==
  \A i \in DOMAIN proofTxs :
    /\ proofTxs[i].step \in JobSteps => TheJob # 0 /\ proofTxs[i].job = TheJob
    /\ proofTxs[i].step = "create-agent-job" /\ proofTxs[i].st = "ok" => proofTxs[i].job \in DOMAIN jobs
JobMade ==
  TheJob # 0 =>
    /\ TheJob \in DOMAIN jobs
    /\ jobs[TheJob].budget = 1 => Made("set-budget")
    /\ jobs[TheJob].status # "Created" => jobs[TheJob].budget = 1 /\ Made("fund-job")
    /\ jobs[TheJob].status \in {"Submitted", "Completed"} => Made("submit-delivery")
    /\ jobs[TheJob].status = "Completed" => Made("complete-job")
OthersUntouched == \A j \in DOMAIN jobs : j # TheJob => jobs[j].status = "Created" /\ jobs[j].budget = 0
\* Only that job is paid for.
IsPaid == TheJob # 0 /\ jobs[TheJob].status # "Created"
IsReceived == TheJob # 0 /\ jobs[TheJob].status = "Completed"
PaidAsShown ==
  /\ IsPaid => wallet.paid = 1
  /\ ~IsPaid => wallet.paid = 0
  /\ IsReceived => wallet.received = 1
  /\ ~IsReceived => wallet.received = 0

\* A file names transactions that succeeded, of its job; one at most created it.
Creations(f) == {h \in f.txs : proofTxs[h].step = "create-agent-job"}
NamesItsOwn(f) ==
  /\ \A h \in f.txs : h \in DOMAIN proofTxs /\ proofTxs[h].st = "ok"
  /\ \A g, h \in Creations(f) : g = h
  /\ f.job # 0 => Creations(f) # {} /\ \A h \in Creations(f) : proofTxs[h].job = f.job
FilesKnow ==
  /\ NamesItsOwn(proofProgress) /\ NamesItsOwn(evidence)
  /\ ~evidence.exists => evidence = Proof!NoFile
  /\ evidence.exists => /\ evidence.job # 0 /\ jobs[evidence.job].status = "Completed"
                        /\ proofProgress \in {evidence, Proof!NoFile}

\* What a command at a stage has behind it, and what it waits for.
StageKnows(n, p, e) ==
  /\ n \in 1..12 => p.exists
  /\ n \in 1..11 => ~e.exists
  /\ n = 12 => e.exists /\ p = e
  /\ n \in 5..12 => p.job # 0
  /\ n \in 3..12 => "metadata" \in p.ipfs
  /\ n \in 9..12 => Proof!DeliveryObjects \subseteq p.ipfs
WaitsKnow(c, p) ==
  /\ c.adopt => c.stage \in {3, 4} /\ c.tx \in p.txs
  /\ c.tx # 0 => /\ c.stage \in 1..10 /\ c.tx \in DOMAIN proofTxs /\ proofTxs[c.tx].step = Proof!Stages[c.stage]
                 /\ c.stage = 4 => p.job = 0
                 /\ c.stage = 4 /\ ~c.adopt => Creations(p) = {}
ProofInFlight == IF proofCommand.tx # 0 /\ ~proofCommand.adopt THEN {proofCommand.tx} ELSE {}
ProofRemembers == DOMAIN proofTxs \subseteq proofLost \cup proofProgress.txs \cup evidence.txs \cup ProofInFlight
JobInv == JobSent /\ JobMade /\ OthersUntouched /\ PaidAsShown
ProofInv ==
  /\ ProofTypes /\ JobInv /\ FilesKnow /\ ProofRemembers /\ Proof!PublicBeforeSent
  /\ StageKnows(proofCommand.stage, proofProgress, evidence) /\ WaitsKnow(proofCommand, proofProgress)

LEMMA StagesKnown ==
  /\ DOMAIN Proof!Stages = 1..10 /\ Len(Proof!Stages) = 10
  /\ \A n \in 1..10 :
       /\ Proof!Stages[n] = "publish-metadata" <=> n = 2
       /\ Proof!Stages[n] = "register-agent" <=> n = 3
       /\ Proof!Stages[n] = "create-agent-job" <=> n = 4
       /\ Proof!Stages[n] = "publish-delivery" <=> n = 8
       /\ Proof!Stages[n] = "submit-delivery" <=> n = 9
       /\ Proof!Stages[n] \in JobSteps => n \in 5..10
       /\ n \notin {2, 8} => Proof!Stages[n] \in SentSteps
<1>1. /\ DOMAIN Proof!Stages = 1..10 /\ Len(Proof!Stages) = 10
      /\ Proof!Stages[1] = "fund-gas" /\ Proof!Stages[2] = "publish-metadata"
      /\ Proof!Stages[3] = "register-agent" /\ Proof!Stages[4] = "create-agent-job"
      /\ Proof!Stages[5] = "set-budget" /\ Proof!Stages[6] = "approve-exact-usdc"
      /\ Proof!Stages[7] = "fund-job" /\ Proof!Stages[8] = "publish-delivery"
      /\ Proof!Stages[9] = "submit-delivery" /\ Proof!Stages[10] = "complete-job"
  BY DEF Proof!Stages
<1> SUFFICES ASSUME NEW n \in 1..10
             PROVE /\ Proof!Stages[n] = "publish-metadata" <=> n = 2
                   /\ Proof!Stages[n] = "register-agent" <=> n = 3
                   /\ Proof!Stages[n] = "create-agent-job" <=> n = 4
                   /\ Proof!Stages[n] = "publish-delivery" <=> n = 8
                   /\ Proof!Stages[n] = "submit-delivery" <=> n = 9
                   /\ Proof!Stages[n] \in JobSteps => n \in 5..10
                   /\ n \notin {2, 8} => Proof!Stages[n] \in SentSteps
  BY <1>1
<1>2. n = 1 \/ n = 2 \/ n = 3 \/ n = 4 \/ n = 5 \/ n = 6 \/ n = 7 \/ n = 8 \/ n = 9 \/ n = 10
  OBVIOUS
<1> QED BY <1>1, <1>2 DEF JobSteps, SentSteps

LEMMA ProofTyped ==
  ASSUME ProofInv
  PROVE /\ Len(proofTxs) \in Nat /\ DOMAIN proofTxs = 1..Len(proofTxs)
        /\ Len(jobs) \in Nat /\ DOMAIN jobs = 1..Len(jobs)
        /\ \A i \in DOMAIN proofTxs : proofTxs[i] \in ProofTxTypes /\ i \in Nat /\ i # 0
        /\ \A j \in DOMAIN jobs : jobs[j] \in JobTypes /\ j \in Nat /\ j # 0
        /\ proofProgress \in ProofFiles /\ evidence \in ProofFiles
        /\ proofCommand.stage \in 0..12 /\ proofCommand.tx \in Nat /\ proofCommand.adopt \in BOOLEAN
  BY DEF ProofInv, ProofTypes

\* What the chain has of the job stays while nothing is mined and the files are of the same job.
LEMMA JobStays ==
  ASSUME ProofInv, UNCHANGED <<proofTxs, jobs, wallet>>, TheJob' = TheJob
  PROVE JobInv'
<1>1. \A s : Made(s)' = Made(s)
  BY DEF Made
<1>2. JobSent'
  BY DEF ProofInv, JobInv, JobSent
<1>3. JobMade'
  BY <1>1 DEF ProofInv, JobInv, JobMade
<1>4. OthersUntouched'
  BY DEF ProofInv, JobInv, OthersUntouched
<1>5. PaidAsShown'
  BY DEF ProofInv, JobInv, PaidAsShown, IsPaid, IsReceived
<1> QED BY <1>2, <1>3, <1>4, <1>5 DEF JobInv

LEMMA NamesStay ==
  ASSUME UNCHANGED proofTxs, NEW f, NEW g, NamesItsOwn(f), g.txs = f.txs, g.job = f.job
  PROVE NamesItsOwn(g)'
  BY DEF NamesItsOwn, Creations

LEMMA ProofInit == Init => ProofInv
<1> SUFFICES ASSUME Init PROVE ProofInv
  OBVIOUS
<1>1. PICK none : none = Proof!NoFile /\ none \in ProofFiles /\ none.txs = {} /\ none.job = 0 /\ ~none.exists
  <2>1. Proof!NoFile \in ProofFiles
    BY DEF Proof!NoFile, ProofFiles
  <2>2. Proof!NoFile.txs = {} /\ Proof!NoFile.job = 0 /\ ~Proof!NoFile.exists
    BY DEF Proof!NoFile
  <2> QED BY <2>1, <2>2
<1>2. PICK idle : /\ idle = Proof!Idle /\ idle \in [stage : 0..12, tx : Nat, adopt : BOOLEAN]
                  /\ idle.stage = 0 /\ idle.tx = 0 /\ ~idle.adopt
  <2>1. Proof!Idle \in [stage : 0..12, tx : Nat, adopt : BOOLEAN]
    BY DEF Proof!Idle
  <2>2. Proof!Idle.stage = 0 /\ Proof!Idle.tx = 0 /\ ~Proof!Idle.adopt
    BY DEF Proof!Idle
  <2> QED BY <2>1, <2>2
<1>3. /\ proofTxs = <<>> /\ jobs = <<>> /\ proofProgress = none /\ evidence = none /\ proofCommand = idle
      /\ wallet = [gas |-> FALSE, allowance |-> 0, paid |-> 0, received |-> 0]
  BY <1>1, <1>2 DEF Init, Proof!Init
<1>4. DOMAIN proofTxs = {} /\ DOMAIN jobs = {} /\ TheJob = 0
  BY <1>1, <1>3 DEF TheJob
<1>5. ProofTypes
  <2>1. proofTxs \in Seq(ProofTxTypes) /\ jobs \in Seq(JobTypes)
    BY <1>3
  <2>2. wallet \in ProofWallets
    BY <1>3 DEF ProofWallets
  <2> QED BY <1>1, <1>2, <1>3, <2>1, <2>2 DEF ProofTypes
<1>6. JobInv
  <2>1. wallet.paid = 0 /\ wallet.received = 0
    BY <1>3
  <2>2. PaidAsShown
    BY <1>4, <2>1 DEF PaidAsShown, IsPaid, IsReceived
  <2> QED BY <1>4, <2>2 DEF JobInv, JobSent, JobMade, OthersUntouched
<1>7. FilesKnow
  BY <1>1, <1>3 DEF FilesKnow, NamesItsOwn, Creations
<1>8. ProofRemembers /\ Proof!PublicBeforeSent
  BY <1>4 DEF ProofRemembers, Proof!PublicBeforeSent
<1>9. StageKnows(0, proofProgress, evidence)
  BY DEF StageKnows
<1>10. WaitsKnow(idle, proofProgress)
  BY <1>2 DEF WaitsKnow
<1> QED BY <1>2, <1>3, <1>5, <1>6, <1>7, <1>8, <1>9, <1>10 DEF ProofInv

\* A command at a stage, waiting for nothing.
LEMMA CommandAt ==
  ASSUME NEW c \in [stage : 0..12, tx : Nat, adopt : BOOLEAN], c.tx = 0, ~c.adopt, NEW n \in 0..12
  PROVE [c EXCEPT !.stage = n] = [stage |-> n, tx |-> 0, adopt |-> FALSE]
<1>1. PICK x \in [stage : 0..12, tx : Nat, adopt : BOOLEAN] :
        x = [c EXCEPT !.stage = n] /\ x.stage = n /\ x.tx = 0 /\ ~x.adopt
  <2>1. [c EXCEPT !.stage = n] \in [stage : 0..12, tx : Nat, adopt : BOOLEAN]
    OBVIOUS
  <2> QED BY <2>1
<1>2. x = [stage |-> n, tx |-> 0, adopt |-> FALSE]
  BY <1>1
<1> QED BY <1>1, <1>2

\* The command goes to the next stage, or stops: it waits for nothing.
LEMMA ProofGoes ==
  ASSUME ProofInv, NEW n \in 0..12, NEW p, NEW e,
         proofCommand' = [stage |-> n, tx |-> 0, adopt |-> FALSE], proofProgress' = p, evidence' = e,
         p \in ProofFiles, e \in ProofFiles, StageKnows(n, p, e), UNCHANGED <<proofTxs, jobs, wallet>>,
         TheJob' = TheJob, FilesKnow', ProofRemembers', Proof!PublicBeforeSent'
  PROVE ProofInv'
<1>1. PICK c \in [stage : 0..12, tx : Nat, adopt : BOOLEAN] :
        c = proofCommand' /\ c.stage = n /\ c.tx = 0 /\ ~c.adopt
  <2>1. [stage |-> n, tx |-> 0, adopt |-> FALSE] \in [stage : 0..12, tx : Nat, adopt : BOOLEAN]
    OBVIOUS
  <2> QED BY <2>1
<1>2. ProofTypes'
  BY <1>1 DEF ProofInv, ProofTypes
<1>3. JobInv'
  BY JobStays
<1>4. WaitsKnow(c, p)'
  BY <1>1 DEF WaitsKnow
<1>5. StageKnows(proofCommand.stage, proofProgress, evidence)' /\ WaitsKnow(proofCommand, proofProgress)'
  BY <1>1, <1>4 DEF StageKnows
<1> QED BY <1>2, <1>3, <1>5 DEF ProofInv

\* What was sent and is in no file stays where it is remembered.
LEMMA ProofStarts ==
  ASSUME ProofInv, Proof!Starts
  PROVE ProofInv'
<1>1. PICK p \in ProofFiles : p = proofProgress
  BY ProofTyped
<1>2. /\ proofCommand = Proof!Idle /\ ~evidence.exists /\ proofProgress' = [p EXCEPT !.exists = TRUE]
      /\ proofCommand' = [Proof!Idle EXCEPT !.stage = 1]
      /\ UNCHANGED <<proofTxs, jobs, wallet, evidence, proofLost>>
  BY <1>1 DEF Proof!Starts
<1>3. proofCommand' = [stage |-> 1, tx |-> 0, adopt |-> FALSE] /\ proofCommand.tx = 0 /\ 1 \in 0..12
  <2>1. [Proof!Idle EXCEPT !.stage = 1] = [stage |-> 1, tx |-> 0, adopt |-> FALSE]
    <3>1. Proof!Idle \in [stage : 0..12, tx : Nat, adopt : BOOLEAN]
      BY DEF Proof!Idle
    <3>2. Proof!Idle.tx = 0 /\ ~Proof!Idle.adopt /\ 1 \in 0..12
      BY DEF Proof!Idle
    <3> QED BY <3>1, <3>2, CommandAt
  <2>2. Proof!Idle.tx = 0 /\ 1 \in 0..12
    BY DEF Proof!Idle
  <2> QED BY <1>2, <2>1, <2>2
<1>4. PICK q \in ProofFiles : /\ q = [p EXCEPT !.exists = TRUE] /\ q.exists /\ q.txs = p.txs /\ q.job = p.job
                              /\ q.ipfs = p.ipfs
  <2>1. [p EXCEPT !.exists = TRUE] \in ProofFiles
    BY DEF ProofFiles
  <2> QED BY <2>1 DEF ProofFiles
<1>5. TheJob' = TheJob
  BY <1>1, <1>2, <1>4 DEF TheJob
<1>6. FilesKnow'
  <2>1. NamesItsOwn(q)' /\ NamesItsOwn(evidence)'
    BY <1>1, <1>2, <1>4, NamesStay DEF ProofInv, FilesKnow
  <2> QED BY <1>2, <1>4, <2>1 DEF ProofInv, FilesKnow
<1>7. ProofRemembers'
  BY <1>1, <1>2, <1>3, <1>4 DEF ProofInv, ProofRemembers, ProofInFlight
<1>8. Proof!PublicBeforeSent'
  BY <1>1, <1>2, <1>4 DEF ProofInv, Proof!PublicBeforeSent
<1>9. StageKnows(1, q, evidence)
  BY <1>2, <1>4 DEF StageKnows
<1> QED BY <1>2, <1>3, <1>4, <1>5, <1>6, <1>7, <1>8, <1>9, ProofGoes, ProofTyped

\* A stage that sends nothing, or whose transaction is known.
LEMMA ProofSkips ==
  ASSUME ProofInv, Proof!NotNeeded \/ Proof!Known, proofCommand' = Proof!NextStage
  PROVE ProofInv'
<1>1. PICK n, p, e : n = proofCommand.stage /\ p = proofProgress /\ e = evidence
  OBVIOUS
<1>2. /\ n \in 1..10 /\ n \notin {2, 8} /\ proofCommand.tx = 0 /\ (n = 4 => p.job # 0)
      /\ UNCHANGED <<proofTxs, jobs, wallet, proofProgress, evidence, proofLost>>
  <2>1. Proof!AtTransaction
    BY DEF Proof!NotNeeded, Proof!Known
  <2>2. n \in 1..10 /\ proofCommand.tx = 0 /\ n \notin {2, 8}
    BY <1>1, <2>1, StagesKnown DEF Proof!AtTransaction, Proof!Stage
  <2>3. n = 4 => p.job # 0
    <3> SUFFICES ASSUME n = 4, p.job = 0 PROVE FALSE
      OBVIOUS
    <3>1. Proof!Stage = "create-agent-job"
      BY <1>1, StagesKnown DEF Proof!Stage
    <3>2. Proof!Needed /\ Proof!Adopts(Proof!Stage)
      BY <1>1, <3>1 DEF Proof!Needed, Proof!Adopts
    <3>3. \E h \in DOMAIN proofTxs : proofCommand' = [proofCommand EXCEPT !.tx = h, !.adopt = TRUE]
      <4>1. PICK h \in p.txs : proofCommand' = [proofCommand EXCEPT !.tx = h, !.adopt = TRUE]
        BY <1>1, <3>2 DEF Proof!NotNeeded, Proof!Known, Proof!Recorded
      <4> QED BY <1>1, <4>1 DEF ProofInv, FilesKnow, NamesItsOwn
    <3>4. proofCommand'.adopt = FALSE
      BY DEF Proof!NextStage
    <3>5. proofCommand'.adopt = TRUE
      BY <3>3 DEF ProofInv, ProofTypes
    <3> QED BY <3>4, <3>5
  <2> QED BY <1>1, <2>2, <2>3 DEF Proof!NotNeeded, Proof!Known
<1>3. proofCommand' = [stage |-> n + 1, tx |-> 0, adopt |-> FALSE] /\ n + 1 \in 0..12
  BY <1>1, <1>2 DEF Proof!NextStage
<1>4. TheJob' = TheJob
  BY <1>2 DEF TheJob
<1>5. NamesItsOwn(p)' /\ NamesItsOwn(e)'
  BY <1>1, <1>2, NamesStay DEF ProofInv, FilesKnow
<1>6. FilesKnow'
  BY <1>1, <1>2, <1>5 DEF ProofInv, FilesKnow
<1>7. ProofRemembers'
  BY <1>2 DEF ProofInv, ProofRemembers, ProofInFlight
<1>8. Proof!PublicBeforeSent'
  BY <1>2 DEF ProofInv, Proof!PublicBeforeSent
<1>9. StageKnows(n + 1, p, e)
  <2>1. StageKnows(n, p, e)
    BY <1>1 DEF ProofInv
  <2> QED BY <1>2, <2>1 DEF StageKnows
<1> QED BY <1>1, <1>2, <1>3, <1>4, <1>6, <1>7, <1>8, <1>9, ProofGoes, ProofTyped

LEMMA ProofPublishes ==
  ASSUME ProofInv, Proof!PublishMetadata \/ Proof!PublishDelivery
  PROVE ProofInv'
<1>1. PICK n, p, e : n = proofCommand.stage /\ p = proofProgress /\ e = evidence
  OBVIOUS
<1>2. PICK objects \in SUBSET {"metadata", "document", "manifest", "bundle"} :
        /\ \/ n = 2 /\ objects = {"metadata"}
           \/ n = 8 /\ objects = Proof!DeliveryObjects
        /\ Proof!Published(objects)
  <2>1. CASE Proof!PublishMetadata
    <3>1. n = 2 /\ Proof!Published({"metadata"})
      BY <1>1, <2>1, StagesKnown DEF Proof!PublishMetadata, Proof!Stage
    <3>2. {"metadata"} \in SUBSET {"metadata", "document", "manifest", "bundle"}
      OBVIOUS
    <3> QED BY <3>1, <3>2
  <2>2. CASE Proof!PublishDelivery
    <3>1. n = 8 /\ Proof!Published(Proof!DeliveryObjects)
      BY <1>1, <2>2, StagesKnown DEF Proof!PublishDelivery, Proof!Stage
    <3> QED BY <3>1 DEF Proof!DeliveryObjects
  <2> QED BY <2>1, <2>2
<1>3. /\ proofProgress' = [p EXCEPT !.ipfs = p.ipfs \cup objects] /\ proofCommand' = Proof!NextStage
      /\ UNCHANGED <<proofTxs, jobs, wallet, evidence, proofLost>>
  BY <1>1, <1>2 DEF Proof!Published
<1>4. proofCommand' = [stage |-> n + 1, tx |-> 0, adopt |-> FALSE] /\ n + 1 \in 0..12
  BY <1>1, <1>2, <1>3 DEF Proof!NextStage
<1>5. p \in ProofFiles /\ e \in ProofFiles
  BY <1>1, ProofTyped
<1>6. PICK q \in ProofFiles : /\ q = [p EXCEPT !.ipfs = p.ipfs \cup objects] /\ q.exists = p.exists
                              /\ q.txs = p.txs /\ q.job = p.job /\ q.ipfs = p.ipfs \cup objects
  <2>1. p.ipfs \cup objects \in SUBSET {"metadata", "document", "manifest", "bundle"}
    BY <1>5 DEF ProofFiles
  <2>2. [p EXCEPT !.ipfs = p.ipfs \cup objects] \in ProofFiles
    BY <1>5, <2>1 DEF ProofFiles
  <2> QED BY <1>5, <2>2 DEF ProofFiles
<1>7. StageKnows(n, p, e) /\ ~e.exists
  BY <1>1, <1>2 DEF ProofInv, StageKnows
<1>8. TheJob' = TheJob
  BY <1>1, <1>3, <1>6 DEF TheJob
<1>9. FilesKnow'
  <2>1. NamesItsOwn(q)' /\ NamesItsOwn(e)'
    BY <1>1, <1>3, <1>6, NamesStay DEF ProofInv, FilesKnow
  <2> QED BY <1>1, <1>3, <1>6, <1>7, <2>1 DEF ProofInv, FilesKnow
<1>10. ProofRemembers'
  <2>1. proofCommand.tx = 0
    <3>1. n = 2 \/ n = 8
      BY <1>2
    <3>2. proofCommand.tx # 0 => n \in 1..10 /\ Proof!Stages[n] \in SentSteps
      <4>1. \A x \in ProofTxTypes : x.step \in SentSteps
        BY DEF ProofTxTypes
      <4> QED BY <1>1, <4>1, ProofTyped DEF ProofInv, WaitsKnow
    <3>3. Proof!Stages[2] \notin SentSteps /\ Proof!Stages[8] \notin SentSteps
      BY DEF Proof!Stages, SentSteps, JobSteps
    <3> QED BY <3>1, <3>2, <3>3
  <2> QED BY <1>1, <1>3, <1>4, <1>6, <2>1 DEF ProofInv, ProofRemembers, ProofInFlight
<1>11. Proof!PublicBeforeSent'
  BY <1>1, <1>3, <1>6 DEF ProofInv, Proof!PublicBeforeSent
<1>12. StageKnows(n + 1, q, e)
  BY <1>2, <1>6, <1>7 DEF StageKnows
<1> QED BY <1>1, <1>3, <1>4, <1>5, <1>6, <1>8, <1>9, <1>10, <1>11, <1>12, ProofGoes

LEMMA ProofStops ==
  ASSUME ProofInv, Proof!Stops
  PROVE ProofInv'
<1>1. /\ proofCommand' = [stage |-> 0, tx |-> 0, adopt |-> FALSE] /\ 0 \in 0..12
      /\ proofLost' = IF proofCommand.tx # 0 /\ ~proofCommand.adopt THEN proofLost \cup {proofCommand.tx} ELSE proofLost
      /\ UNCHANGED <<proofTxs, jobs, wallet, proofProgress, evidence>>
  BY DEF Proof!Stops, Proof!Idle
<1>2. PICK p, e \in ProofFiles : p = proofProgress /\ e = evidence
  BY ProofTyped
<1>3. TheJob' = TheJob
  BY <1>1 DEF TheJob
<1>4. NamesItsOwn(p)' /\ NamesItsOwn(e)'
  BY <1>1, <1>2, NamesStay DEF ProofInv, FilesKnow
<1>5. FilesKnow'
  BY <1>1, <1>2, <1>4 DEF ProofInv, FilesKnow
<1>6. ProofRemembers'
  BY <1>1 DEF ProofInv, ProofRemembers, ProofInFlight
<1>7. Proof!PublicBeforeSent'
  BY <1>1 DEF ProofInv, Proof!PublicBeforeSent
<1>8. StageKnows(0, p, e)
  BY DEF StageKnows
<1> QED BY <1>1, <1>2, <1>3, <1>5, <1>6, <1>7, <1>8, ProofGoes

LEMMA ProofFinishes ==
  ASSUME ProofInv, Proof!Finish
  PROVE ProofInv'
<1>1. PICK p \in ProofFiles : p = proofProgress
  BY ProofTyped
<1>2. /\ proofCommand.stage = 11 /\ proofCommand.tx = 0 /\ jobs[p.job].status = "Completed"
      /\ evidence' = p /\ proofProgress' = p /\ proofCommand' = [proofCommand EXCEPT !.stage = 12]
      /\ UNCHANGED <<proofTxs, jobs, wallet, proofLost>>
  <2>1. proofCommand.stage = 11
    BY StagesKnown DEF Proof!Finish
  <2>2. [proofCommand EXCEPT !.stage = proofCommand.stage + 1] = [proofCommand EXCEPT !.stage = 12]
    BY <2>1
  <2> QED BY <1>1, <2>1, <2>2 DEF Proof!Finish, Proof!Job
<1>3. p.exists /\ ~evidence.exists /\ p.job # 0 /\ StageKnows(11, p, evidence)
  BY <1>1, <1>2 DEF ProofInv, StageKnows
<1>4. ~proofCommand.adopt
  BY <1>2 DEF ProofInv, WaitsKnow
<1>5. proofCommand' = [stage |-> 12, tx |-> 0, adopt |-> FALSE] /\ 12 \in 0..12
  <2>1. proofCommand \in [stage : 0..12, tx : Nat, adopt : BOOLEAN] /\ 12 \in 0..12
    BY DEF ProofInv, ProofTypes
  <2> QED BY <1>2, <1>4, <2>1, CommandAt
<1>6. TheJob' = TheJob
  BY <1>1, <1>2, <1>3 DEF TheJob
<1>7. NamesItsOwn(p)'
  BY <1>1, <1>2, NamesStay DEF ProofInv, FilesKnow
<1>8. FilesKnow'
  BY <1>1, <1>2, <1>3, <1>7 DEF FilesKnow
<1>9. evidence.txs = {} /\ evidence.ipfs = {}
  BY <1>3 DEF ProofInv, FilesKnow, Proof!NoFile
<1>10. ProofRemembers'
  BY <1>1, <1>2, <1>5, <1>9 DEF ProofInv, ProofRemembers, ProofInFlight
<1>11. Proof!PublicBeforeSent'
  BY <1>1, <1>2, <1>9 DEF ProofInv, Proof!PublicBeforeSent
<1>12. StageKnows(12, p, p)
  BY <1>3 DEF StageKnows
<1> QED BY <1>2, <1>5, <1>6, <1>8, <1>10, <1>11, <1>12, ProofGoes

LEMMA ProofUnlinks ==
  ASSUME ProofInv, Proof!UnlinkProgress
  PROVE ProofInv'
<1>1. PICK e \in ProofFiles : e = evidence
  BY ProofTyped
<1>2. /\ proofCommand.stage = 12 /\ proofProgress' = Proof!NoFile
      /\ proofCommand' = [stage |-> 0, tx |-> 0, adopt |-> FALSE] /\ 0 \in 0..12
      /\ UNCHANGED <<proofTxs, jobs, wallet, evidence, proofLost>>
  BY StagesKnown DEF Proof!UnlinkProgress, Proof!Idle
<1>3. e.exists /\ proofProgress = e
  BY <1>1, <1>2 DEF ProofInv, StageKnows
<1>4. PICK none \in ProofFiles : none = Proof!NoFile /\ none.txs = {} /\ none.job = 0 /\ none.ipfs = {}
  <2>1. Proof!NoFile \in ProofFiles
    BY DEF Proof!NoFile, ProofFiles
  <2>2. Proof!NoFile.txs = {} /\ Proof!NoFile.job = 0 /\ Proof!NoFile.ipfs = {}
    BY DEF Proof!NoFile
  <2> QED BY <2>1, <2>2
<1>5. TheJob' = TheJob
  BY <1>1, <1>2, <1>3 DEF TheJob
<1>6. FilesKnow'
  <2>1. NamesItsOwn(e)'
    BY <1>1, <1>2, NamesStay DEF ProofInv, FilesKnow
  <2>2. NamesItsOwn(none)'
    BY <1>4 DEF NamesItsOwn, Creations
  <2> QED BY <1>1, <1>2, <1>3, <1>4, <2>1, <2>2 DEF ProofInv, FilesKnow
<1>7. ProofRemembers'
  <2>1. proofCommand.tx = 0
    BY <1>2 DEF ProofInv, WaitsKnow
  <2> QED BY <1>1, <1>2, <1>3, <2>1 DEF ProofInv, ProofRemembers, ProofInFlight
<1>8. Proof!PublicBeforeSent'
  BY <1>1, <1>2, <1>3 DEF ProofInv, Proof!PublicBeforeSent
<1>9. StageKnows(0, none, e)
  BY DEF StageKnows
<1> QED BY <1>1, <1>2, <1>4, <1>5, <1>6, <1>7, <1>8, <1>9, ProofGoes

LEMMA ProofFinds ==
  ASSUME ProofInv, Proof!Known, proofCommand' # Proof!NextStage
  PROVE ProofInv'
<1>1. PICK c \in [stage : 0..12, tx : Nat, adopt : BOOLEAN], p \in ProofFiles, e \in ProofFiles :
        c = proofCommand /\ p = proofProgress /\ e = evidence
  BY ProofTyped DEF ProofInv, ProofTypes
<1>2. /\ c.tx = 0 /\ UNCHANGED <<proofTxs, jobs, wallet, proofProgress, evidence, proofLost>>
      /\ Proof!Adopts(Proof!Stage) /\ Proof!Needed /\ c.stage \in 1..10
  BY <1>1, StagesKnown DEF Proof!Known, Proof!AtTransaction
<1>3. PICK h \in p.txs : /\ proofTxs[h].step = Proof!Stages[c.stage]
                         /\ proofCommand' = [c EXCEPT !.tx = h, !.adopt = TRUE]
  BY <1>1, <1>2 DEF Proof!Known, Proof!Recorded, Proof!Stage
<1>4. c.stage \in {3, 4} /\ (c.stage = 4 => p.job = 0)
  <2>1. c.stage \in {3, 4}
    BY <1>1, <1>2, StagesKnown DEF Proof!Adopts, Proof!Stage
  <2>2. c.stage = 4 => Proof!Stage = "create-agent-job"
    BY <1>1, StagesKnown DEF Proof!Stage
  <2>3. c.stage = 4 => p.job = 0
    BY <1>1, <1>2, <2>2 DEF Proof!Needed
  <2> QED BY <2>1, <2>3
<1>5. h \in DOMAIN proofTxs /\ h \in Nat
  BY <1>1, ProofTyped DEF ProofInv, FilesKnow, NamesItsOwn
<1>6. PICK d \in [stage : 0..12, tx : Nat, adopt : BOOLEAN] :
        d = proofCommand' /\ d.stage = c.stage /\ d.tx = h /\ d.adopt
  <2>1. [c EXCEPT !.tx = h, !.adopt = TRUE] \in [stage : 0..12, tx : Nat, adopt : BOOLEAN]
    BY <1>5
  <2> QED BY <1>3, <2>1
<1>7. WaitsKnow(d, p)'
  BY <1>2, <1>3, <1>4, <1>5, <1>6 DEF WaitsKnow
<1>8. TheJob' = TheJob
  BY <1>2 DEF TheJob
<1>9. NamesItsOwn(p)' /\ NamesItsOwn(e)'
  BY <1>1, <1>2, NamesStay DEF ProofInv, FilesKnow
<1>10. FilesKnow'
  BY <1>1, <1>2, <1>9 DEF ProofInv, FilesKnow
<1>11. ProofRemembers'
  BY <1>1, <1>2, <1>6 DEF ProofInv, ProofRemembers, ProofInFlight
<1>12. Proof!PublicBeforeSent'
  BY <1>2 DEF ProofInv, Proof!PublicBeforeSent
<1>13. StageKnows(proofCommand.stage, proofProgress, evidence)'
  BY <1>1, <1>2, <1>6 DEF ProofInv, StageKnows
<1>14. ProofTypes'
  BY <1>2, <1>6 DEF ProofInv, ProofTypes
<1>15. JobInv'
  BY <1>2, <1>8, JobStays
<1>16. WaitsKnow(proofCommand, proofProgress)'
  BY <1>1, <1>2, <1>6, <1>7
<1> QED BY <1>10, <1>11, <1>12, <1>13, <1>14, <1>15, <1>16 DEF ProofInv

LEMMA ProofAdopts ==
  ASSUME ProofInv, Proof!Adopt
  PROVE ProofInv'
<1>1. PICK n, p, e, h : n = proofCommand.stage /\ p = proofProgress /\ e = evidence /\ h = proofCommand.tx
  OBVIOUS
<1>2. /\ n \in {3, 4} /\ h \in p.txs /\ h \in DOMAIN proofTxs /\ proofTxs[h].st = "ok" /\ h \in Nat /\ h # 0
      /\ proofTxs[h].step = Proof!Stages[n] /\ (n = 4 => p.job = 0) /\ p \in ProofFiles /\ e \in ProofFiles
      /\ StageKnows(n, p, e) /\ proofCommand.adopt
  <2>1. proofCommand.adopt
    BY DEF Proof!Adopt
  <2>2. n \in {3, 4} /\ h \in p.txs
    BY <1>1, <2>1 DEF ProofInv, WaitsKnow
  <2>3. h \in DOMAIN proofTxs /\ proofTxs[h].st = "ok"
    BY <1>1, <2>2 DEF ProofInv, FilesKnow, NamesItsOwn
  <2>4. h \in Nat /\ h # 0 /\ p \in ProofFiles /\ e \in ProofFiles
    BY <1>1, <2>3, ProofTyped
  <2>5. proofTxs[h].step = Proof!Stages[n] /\ (n = 4 => p.job = 0)
    BY <1>1, <2>4 DEF ProofInv, WaitsKnow
  <2>6. StageKnows(n, p, e)
    BY <1>1 DEF ProofInv
  <2> QED BY <2>1, <2>2, <2>3, <2>4, <2>5, <2>6
<1>3. /\ proofCommand' = [stage |-> n + 1, tx |-> 0, adopt |-> FALSE] /\ n + 1 \in 0..12
      /\ UNCHANGED <<proofTxs, jobs, wallet, evidence, proofLost>>
      /\ n = 3 => proofProgress' = [p EXCEPT !.agent = h]
      /\ n = 4 => proofProgress' = [p EXCEPT !.job = proofTxs[h].job]
  BY <1>1, <1>2, StagesKnown DEF Proof!Adopt, Proof!NextStage, Proof!Stage
<1>4. ~e.exists
  BY <1>2 DEF StageKnows
<1>5. ASSUME NEW q \in ProofFiles, q = proofProgress', q.exists = p.exists, q.txs = p.txs, q.ipfs = p.ipfs,
             n = 4 => q.job # 0, NamesItsOwn(q)', TheJob' = TheJob \/ JobInv'
      PROVE ProofInv'
  <2>1. NamesItsOwn(e)'
    BY <1>1, <1>3, NamesStay DEF ProofInv, FilesKnow
  <2>2. FilesKnow'
    BY <1>1, <1>3, <1>4, <1>5, <2>1 DEF ProofInv, FilesKnow
  <2>3. ProofRemembers'
    BY <1>1, <1>2, <1>3, <1>5 DEF ProofInv, ProofRemembers, ProofInFlight
  <2>4. Proof!PublicBeforeSent'
    BY <1>1, <1>3, <1>5 DEF ProofInv, Proof!PublicBeforeSent
  <2>5. StageKnows(n + 1, q, e)
    BY <1>2, <1>5 DEF StageKnows
  <2>6. JobInv'
    BY <1>3, <1>5, JobStays
  <2>7. PICK c \in [stage : 0..12, tx : Nat, adopt : BOOLEAN] :
          c = proofCommand' /\ c.stage = n + 1 /\ c.tx = 0 /\ ~c.adopt
    <3>1. [stage |-> n + 1, tx |-> 0, adopt |-> FALSE] \in [stage : 0..12, tx : Nat, adopt : BOOLEAN]
      BY <1>3
    <3> QED BY <1>3, <3>1
  <2>8. ProofTypes'
    BY <1>3, <1>5, <2>7 DEF ProofInv, ProofTypes
  <2>9. WaitsKnow(c, q)'
    BY <2>7 DEF WaitsKnow
  <2>10. StageKnows(proofCommand.stage, proofProgress, evidence)' /\ WaitsKnow(proofCommand, proofProgress)'
    BY <1>1, <1>3, <1>5, <2>5, <2>7, <2>9 DEF StageKnows
  <2> QED BY <2>2, <2>3, <2>4, <2>6, <2>8, <2>10 DEF ProofInv
<1>6. CASE n = 3
  <2>1. PICK q \in ProofFiles : /\ q = [p EXCEPT !.agent = h] /\ q.exists = p.exists /\ q.txs = p.txs
                                /\ q.ipfs = p.ipfs /\ q.job = p.job
    <3>1. [p EXCEPT !.agent = h] \in ProofFiles
      BY <1>2 DEF ProofFiles
    <3> QED BY <1>2, <3>1 DEF ProofFiles
  <2>2. NamesItsOwn(q)'
    BY <1>1, <1>3, <2>1, NamesStay DEF ProofInv, FilesKnow
  <2>3. TheJob' = TheJob
    BY <1>1, <1>3, <1>4, <1>6, <2>1 DEF TheJob
  <2>4. q = proofProgress' /\ n # 4
    BY <1>3, <1>6, <2>1
  <2> QED BY <1>5, <2>1, <2>2, <2>3, <2>4
<1>7. CASE n = 4
  <2>1. PICK j \in DOMAIN jobs : j = proofTxs[h].job /\ proofTxs[h].step = "create-agent-job" /\ j \in Nat /\ j # 0
    <3>1. proofTxs[h].step = "create-agent-job"
      BY <1>2, <1>7, StagesKnown
    <3> QED BY <1>2, <3>1, ProofTyped DEF ProofInv, JobInv, JobSent
  <2>2. PICK q \in ProofFiles : /\ q = [p EXCEPT !.job = j] /\ q.exists = p.exists /\ q.txs = p.txs
                                /\ q.ipfs = p.ipfs /\ q.job = j
    <3>1. [p EXCEPT !.job = j] \in ProofFiles
      BY <1>2, <2>1 DEF ProofFiles
    <3> QED BY <1>2, <2>1, <3>1 DEF ProofFiles
  <2>3. NamesItsOwn(q)'
    <3>1. NamesItsOwn(p) /\ h \in Creations(p)
      BY <1>1, <1>2, <2>1 DEF ProofInv, FilesKnow, Creations
    <3> QED BY <1>3, <2>1, <2>2, <3>1 DEF NamesItsOwn, Creations
  <2>4. q = proofProgress'
    BY <1>3, <1>7, <2>1, <2>2
  <2>5. TheJob = 0 /\ TheJob' = j
    <3>1. p.job = 0 /\ ~e.exists /\ evidence' = e
      BY <1>1, <1>2, <1>3, <1>4, <1>7
    <3> QED BY <1>1, <2>2, <2>4, <3>1 DEF TheJob
  <2>6. \A k \in DOMAIN jobs : jobs[k].status = "Created" /\ jobs[k].budget = 0
    BY <2>5, ProofTyped DEF ProofInv, JobInv, OthersUntouched
  <2>7. wallet.paid = 0 /\ wallet.received = 0
    BY <2>5 DEF ProofInv, JobInv, PaidAsShown, IsPaid, IsReceived
  <2>8. JobSent'
    BY <1>3, <2>5 DEF ProofInv, JobInv, JobSent
  <2>9. JobMade' /\ OthersUntouched'
    BY <1>3, <2>1, <2>5, <2>6 DEF JobMade, OthersUntouched
  <2>10. PaidAsShown'
    BY <1>3, <2>1, <2>5, <2>6, <2>7 DEF PaidAsShown, IsPaid, IsReceived
  <2>11. JobInv'
    BY <2>8, <2>9, <2>10 DEF JobInv
  <2> QED BY <1>5, <1>7, <2>1, <2>2, <2>3, <2>11, <2>4
<1> QED BY <1>2, <1>6, <1>7

\* A transaction that succeeded is recorded.
LEMMA ProofRecords ==
  ASSUME ProofInv, Proof!Record
  PROVE ProofInv'
<1>1. PICK c \in [stage : 0..12, tx : Nat, adopt : BOOLEAN], p \in ProofFiles, e \in ProofFiles :
        c = proofCommand /\ p = proofProgress /\ e = evidence
  BY ProofTyped DEF ProofInv, ProofTypes
<1>2. PICK n, h : n = c.stage /\ h = c.tx
  OBVIOUS
<1>3. /\ h # 0 /\ ~c.adopt /\ proofTxs[h].st = "ok" /\ proofProgress' = [p EXCEPT !.txs = p.txs \cup {h}]
      /\ UNCHANGED <<proofTxs, jobs, wallet, evidence, proofLost>>
      /\ IF Proof!Adopts(Proof!Stage) THEN proofCommand' = [c EXCEPT !.adopt = TRUE]
         ELSE proofCommand' = [stage |-> n + 1, tx |-> 0, adopt |-> FALSE]
  BY <1>1, <1>2 DEF Proof!Record, Proof!NextStage
<1>4. /\ n \in 1..10 /\ h \in DOMAIN proofTxs /\ proofTxs[h].step = Proof!Stages[n] /\ h \in Nat
      /\ n = 4 => p.job = 0 /\ Creations(p) = {}
  <2>1. h # 0 /\ ~c.adopt
    BY <1>3
  <2> QED BY <1>1, <1>2, <2>1 DEF ProofInv, WaitsKnow
<1>5. StageKnows(n, p, e) /\ ~e.exists
  BY <1>1, <1>2, <1>4 DEF ProofInv, StageKnows
<1>6. PICK q \in ProofFiles : /\ q = [p EXCEPT !.txs = p.txs \cup {h}] /\ q.exists = p.exists
                              /\ q.txs = p.txs \cup {h} /\ q.job = p.job /\ q.ipfs = p.ipfs
  <2>1. p.txs \cup {h} \in SUBSET Nat
    BY <1>4 DEF ProofFiles
  <2>2. [p EXCEPT !.txs = p.txs \cup {h}] \in ProofFiles
    BY <2>1 DEF ProofFiles
  <2> QED BY <2>2 DEF ProofFiles
<1>7. q = proofProgress'
  BY <1>3, <1>6
<1>8. NamesItsOwn(q)'
  <2>1. NamesItsOwn(p)
    BY <1>1 DEF ProofInv, FilesKnow
  <2>2. proofTxs[h].step = "create-agent-job" <=> n = 4
    BY <1>4, StagesKnown
  <2>3. CASE n = 4
    <3>1. Creations(q) = {h} /\ q.job = 0
      BY <1>4, <1>6, <2>2, <2>3 DEF Creations
    <3> QED BY <1>3, <1>4, <1>6, <2>1, <3>1 DEF NamesItsOwn, Creations
  <2>4. CASE n # 4
    <3>1. Creations(q) = Creations(p)
      BY <1>6, <2>2, <2>4 DEF Creations
    <3> QED BY <1>3, <1>4, <1>6, <2>1, <3>1 DEF NamesItsOwn, Creations
  <2> QED BY <2>3, <2>4
<1>9. TheJob' = TheJob
  BY <1>1, <1>3, <1>6, <1>7 DEF TheJob
<1>10. FilesKnow'
  <2>1. NamesItsOwn(e)'
    BY <1>1, <1>3, NamesStay DEF ProofInv, FilesKnow
  <2> QED BY <1>1, <1>3, <1>5, <1>7, <1>8, <2>1 DEF ProofInv, FilesKnow
<1>11. Proof!PublicBeforeSent'
  BY <1>1, <1>3, <1>6, <1>7 DEF ProofInv, Proof!PublicBeforeSent
<1>12. ProofRemembers'
  BY <1>1, <1>2, <1>3, <1>6, <1>7 DEF ProofInv, ProofRemembers, ProofInFlight
<1>13. n \notin {2, 8} /\ (Proof!Adopts(Proof!Stage) <=> n \in {3, 4})
  <2>1. proofTxs[h].step \in SentSteps
    BY <1>4, ProofTyped DEF ProofTxTypes
  <2>2. n \notin {2, 8}
    BY <1>4, <2>1 DEF Proof!Stages, SentSteps, JobSteps
  <2> QED BY <1>1, <1>2, <1>4, <2>2, StagesKnown DEF Proof!Adopts, Proof!Stage
<1>14. CASE n \in {3, 4}
  <2>1. PICK d \in [stage : 0..12, tx : Nat, adopt : BOOLEAN] :
          d = proofCommand' /\ d.stage = n /\ d.tx = h /\ d.adopt
    <3>1. [c EXCEPT !.adopt = TRUE] \in [stage : 0..12, tx : Nat, adopt : BOOLEAN]
      OBVIOUS
    <3> QED BY <1>2, <1>3, <1>13, <1>14, <3>1
  <2>2. WaitsKnow(d, q)'
    BY <1>3, <1>4, <1>6, <1>14, <2>1 DEF WaitsKnow
  <2>3. StageKnows(n, q, e)
    BY <1>5, <1>6, <1>14 DEF StageKnows
  <2>4. StageKnows(proofCommand.stage, proofProgress, evidence)' /\ WaitsKnow(proofCommand, proofProgress)'
    BY <1>1, <1>3, <1>7, <2>1, <2>2, <2>3 DEF StageKnows
  <2>5. ProofTypes'
    BY <1>3, <1>7, <2>1 DEF ProofInv, ProofTypes
  <2>6. JobInv'
    BY <1>3, <1>9, JobStays
  <2> QED BY <1>8, <1>10, <1>11, <1>12, <2>4, <2>5, <2>6 DEF ProofInv
<1>15. CASE n \notin {3, 4}
  <2>1. proofCommand' = [stage |-> n + 1, tx |-> 0, adopt |-> FALSE] /\ n + 1 \in 0..12
    BY <1>3, <1>4, <1>13, <1>15
  <2>2. StageKnows(n + 1, q, e)
    BY <1>4, <1>5, <1>6, <1>13, <1>15 DEF StageKnows
  <2> QED BY <1>1, <1>3, <1>7, <1>9, <1>10, <1>11, <1>12, <2>1, <2>2, ProofGoes
<1> QED BY <1>14, <1>15

\* A transaction is sent.
LEMMA ProofSends ==
  ASSUME ProofInv, Proof!Send
  PROVE ProofInv'
<1>1. PICK c \in [stage : 0..12, tx : Nat, adopt : BOOLEAN], p \in ProofFiles, e \in ProofFiles :
        c = proofCommand /\ p = proofProgress /\ e = evidence
  BY ProofTyped DEF ProofInv, ProofTypes
<1>2. PICK n, h, s : n = c.stage /\ h = Len(proofTxs) + 1 /\ s = Proof!Stages[n]
  OBVIOUS
<1>3. /\ n \in 1..10 /\ n \notin {2, 8} /\ c.tx = 0 /\ ~c.adopt
      /\ proofTxs' = Append(proofTxs, [step |-> s, job |-> p.job, st |-> "pending"])
      /\ proofCommand' = [c EXCEPT !.tx = h]
      /\ UNCHANGED <<jobs, wallet, proofProgress, evidence, proofLost>>
  <2>1. n \in 1..10 /\ n \notin {2, 8} /\ c.tx = 0
    BY <1>1, <1>2, StagesKnown DEF Proof!Send, Proof!AtTransaction, Proof!Stage
  <2>2. ~c.adopt
    <3>1. 0 \notin p.txs
      BY <1>1, ProofTyped DEF ProofInv, FilesKnow, NamesItsOwn
    <3> QED BY <1>1, <2>1, <3>1 DEF ProofInv, WaitsKnow
  <2> QED BY <1>1, <1>2, <2>1, <2>2 DEF Proof!Send, Proof!Stage
<1>4. StageKnows(n, p, e) /\ ~e.exists /\ TheJob = p.job /\ TheJob' = p.job
  <2>1. StageKnows(n, p, e) /\ ~e.exists
    BY <1>1, <1>2, <1>3 DEF ProofInv, StageKnows
  <2> QED BY <1>1, <1>3, <2>1 DEF TheJob
<1>5. PICK x \in ProofTxTypes :
        x = [step |-> s, job |-> p.job, st |-> "pending"] /\ x.step = s /\ x.job = p.job /\ x.st = "pending"
  <2>1. s \in SentSteps
    BY <1>2, <1>3, StagesKnown
  <2>2. [step |-> s, job |-> p.job, st |-> "pending"] \in ProofTxTypes
    BY <2>1 DEF ProofTxTypes, ProofFiles
  <2> QED BY <2>2
<1>6. /\ proofTxs' \in Seq(ProofTxTypes) /\ DOMAIN proofTxs' = DOMAIN proofTxs \cup {h}
      /\ h \notin DOMAIN proofTxs /\ h \in Nat /\ h # 0 /\ proofTxs'[h] = x
      /\ \A i \in DOMAIN proofTxs : proofTxs'[i] = proofTxs[i]
  <2>1. proofTxs \in Seq(ProofTxTypes) /\ proofTxs' = Append(proofTxs, x)
    BY <1>3, <1>5 DEF ProofInv, ProofTypes
  <2>2. /\ proofTxs' \in Seq(ProofTxTypes) /\ Len(proofTxs') = h
        /\ proofTxs'[h] = x /\ \A i \in 1..Len(proofTxs) : proofTxs'[i] = proofTxs[i]
    BY <1>2, <2>1, AppendProperties
  <2>3. DOMAIN proofTxs' = 1..h /\ DOMAIN proofTxs = 1..Len(proofTxs) /\ Len(proofTxs) \in Nat
    BY <2>1, <2>2
  <2> QED BY <1>2, <2>2, <2>3
<1>7. \A t \in ProofFiles : NamesItsOwn(t) => NamesItsOwn(t)' /\ Creations(t)' = Creations(t)
  <2> SUFFICES ASSUME NEW t \in ProofFiles, NamesItsOwn(t) PROVE NamesItsOwn(t)' /\ Creations(t)' = Creations(t)
    OBVIOUS
  <2>1. Creations(t)' = Creations(t)
    BY <1>6 DEF NamesItsOwn, Creations
  <2>2. \A g \in Creations(t) : g \in DOMAIN proofTxs
    BY DEF NamesItsOwn, Creations
  <2> QED BY <1>6, <2>1, <2>2 DEF NamesItsOwn
<1>8. FilesKnow'
  BY <1>1, <1>3, <1>7 DEF ProofInv, FilesKnow
<1>9. JobInv'
  <2>1. \A t : Made(t) => Made(t)'
    BY <1>4, <1>6 DEF Made
  <2>2. JobSent'
    <3>1. x.step \in JobSteps => p.job # 0
      BY <1>2, <1>3, <1>4, <1>5, StagesKnown DEF StageKnows
    <3> QED BY <1>3, <1>4, <1>5, <1>6, <3>1 DEF ProofInv, JobInv, JobSent
  <2>3. JobMade' /\ OthersUntouched' /\ PaidAsShown'
    BY <1>3, <1>4, <2>1 DEF ProofInv, JobInv, JobMade, OthersUntouched, PaidAsShown, IsPaid, IsReceived
  <2> QED BY <2>2, <2>3 DEF JobInv
<1>10. PICK d \in [stage : 0..12, tx : Nat, adopt : BOOLEAN] :
         d = proofCommand' /\ d.stage = n /\ d.tx = h /\ ~d.adopt
  <2>1. [c EXCEPT !.tx = h] \in [stage : 0..12, tx : Nat, adopt : BOOLEAN]
    BY <1>6
  <2> QED BY <1>2, <1>3, <2>1
<1>11. WaitsKnow(d, p)'
  <2>1. n = 4 => p.job = 0 /\ Creations(p) = {}
    <3> SUFFICES ASSUME n = 4 PROVE p.job = 0 /\ Creations(p) = {}
      OBVIOUS
    <3>1. Proof!Stage = "create-agent-job"
      BY <1>1, <1>2, StagesKnown DEF Proof!Stage
    <3> QED BY <1>1, <3>1 DEF Proof!Send, Proof!Needed, Proof!Recorded, Creations
  <2>2. Creations(p)' = Creations(p)
    BY <1>1, <1>7 DEF ProofInv, FilesKnow
  <2> QED BY <1>2, <1>3, <1>5, <1>6, <1>10, <2>1, <2>2 DEF WaitsKnow
<1>12. ProofRemembers'
  <2>1. d.tx = h /\ ~d.adopt /\ h # 0 /\ c.tx = 0
    BY <1>3, <1>6, <1>10
  <2> QED BY <1>1, <1>3, <1>6, <1>10, <2>1 DEF ProofInv, ProofRemembers, ProofInFlight
<1>13. Proof!PublicBeforeSent'
  <2>1. /\ s = "register-agent" => "metadata" \in p.ipfs
        /\ s = "submit-delivery" => Proof!DeliveryObjects \subseteq p.ipfs
    BY <1>2, <1>3, <1>4, StagesKnown DEF StageKnows
  <2> QED BY <1>1, <1>3, <1>5, <1>6, <2>1 DEF ProofInv, Proof!PublicBeforeSent
<1>14. ProofTypes'
  BY <1>3, <1>6, <1>10 DEF ProofInv, ProofTypes
<1>15. StageKnows(proofCommand.stage, proofProgress, evidence)' /\ WaitsKnow(proofCommand, proofProgress)'
  BY <1>1, <1>3, <1>4, <1>10, <1>11 DEF StageKnows
<1> QED BY <1>8, <1>9, <1>12, <1>13, <1>14, <1>15 DEF ProofInv

\* A pending transaction is mined: what the files and the command know of others stays.
LEMMA ProofFate ==
  ASSUME ProofInv, NEW i \in DOMAIN proofTxs, proofTxs[i].st = "pending",
         NEW y \in ProofTxTypes, y.step = proofTxs[i].step, proofTxs' = [proofTxs EXCEPT ![i] = y],
         UNCHANGED <<proofProgress, evidence, proofCommand, proofLost>>
  PROVE /\ proofTxs' \in Seq(ProofTxTypes) /\ DOMAIN proofTxs' = DOMAIN proofTxs /\ proofTxs'[i] = y
        /\ \A k \in DOMAIN proofTxs : k # i => proofTxs'[k] = proofTxs[k]
        /\ TheJob' = TheJob /\ \A s : Made(s) => Made(s)'
        /\ NamesItsOwn(proofProgress)' /\ NamesItsOwn(evidence)'
        /\ WaitsKnow(proofCommand, proofProgress)' /\ StageKnows(proofCommand.stage, proofProgress, evidence)'
        /\ ProofRemembers' /\ Proof!PublicBeforeSent'
<1>1. proofTxs \in Seq(ProofTxTypes)
  BY DEF ProofInv, ProofTypes
<1>2. proofTxs' \in Seq(ProofTxTypes)
  BY <1>1, ExceptSeq
<1>3. /\ DOMAIN proofTxs' = DOMAIN proofTxs /\ proofTxs'[i] = y
      /\ \A k \in DOMAIN proofTxs : k # i => proofTxs'[k] = proofTxs[k]
  BY <1>1
<1>4. PICK p, e, c : p = proofProgress /\ e = evidence /\ c = proofCommand
  OBVIOUS
<1>5. TheJob' = TheJob
  BY DEF TheJob
<1>6. \A s : Made(s) => Made(s)'
  <2> SUFFICES ASSUME NEW s, Made(s) PROVE Made(s)'
    OBVIOUS
  <2>1. PICK k \in DOMAIN proofTxs : proofTxs[k].step = s /\ proofTxs[k].st = "ok" /\ proofTxs[k].job = TheJob
    BY DEF Made
  <2>2. k # i
    BY <2>1
  <2> QED BY <1>3, <1>5, <2>1, <2>2 DEF Made
<1>7. \A k \in DOMAIN proofTxs : proofTxs'[k].step = proofTxs[k].step
  BY <1>3
<1>8. ASSUME NEW f, NamesItsOwn(f) PROVE NamesItsOwn(f)' /\ Creations(f)' = Creations(f)
  <2>1. i \notin f.txs /\ \A h \in f.txs : h \in DOMAIN proofTxs
    BY <1>8 DEF NamesItsOwn
  <2>2. Creations(f)' = Creations(f)
    BY <1>7, <2>1 DEF Creations
  <2>3. \A h \in f.txs : proofTxs'[h] = proofTxs[h]
    BY <1>3, <2>1
  <2>4. \A h \in Creations(f) : h \in f.txs
    BY DEF Creations
  <2> QED BY <1>3, <1>8, <2>1, <2>2, <2>3, <2>4 DEF NamesItsOwn
<1>9. NamesItsOwn(p) /\ NamesItsOwn(e)
  BY <1>4 DEF ProofInv, FilesKnow
<1>10. NamesItsOwn(p)' /\ NamesItsOwn(e)' /\ Creations(p)' = Creations(p)
  BY <1>8, <1>9
<1>11. WaitsKnow(c, p)'
  <2>1. WaitsKnow(c, p)
    BY <1>4 DEF ProofInv
  <2> QED BY <1>3, <1>7, <1>10, <2>1 DEF WaitsKnow
<1>12. StageKnows(proofCommand.stage, proofProgress, evidence)'
  BY DEF ProofInv, StageKnows
<1>13. ProofRemembers'
  BY <1>3 DEF ProofInv, ProofRemembers, ProofInFlight
<1>14. Proof!PublicBeforeSent'
  BY <1>3, <1>7 DEF ProofInv, Proof!PublicBeforeSent
<1>15. NamesItsOwn(proofProgress)' /\ NamesItsOwn(evidence)' /\ WaitsKnow(proofCommand, proofProgress)'
  BY <1>4, <1>10, <1>11
<1> QED BY <1>2, <1>3, <1>5, <1>6, <1>12, <1>13, <1>14, <1>15

\* It is refused, or changes no job.
LEMMA ProofMinedAside ==
  ASSUME ProofInv, NEW i \in DOMAIN proofTxs, proofTxs[i].st = "pending",
         NEW y \in ProofTxTypes, y.step = proofTxs[i].step, proofTxs' = [proofTxs EXCEPT ![i] = y],
         y.job = proofTxs[i].job, y.step = "create-agent-job" => y.st # "ok",
         wallet' \in ProofWallets,
         wallet'.paid = wallet.paid, wallet'.received = wallet.received,
         UNCHANGED <<jobs, proofProgress, evidence, proofCommand, proofLost>>
  PROVE ProofInv'
<1>1. /\ proofTxs' \in Seq(ProofTxTypes) /\ DOMAIN proofTxs' = DOMAIN proofTxs /\ proofTxs'[i] = y
      /\ \A k \in DOMAIN proofTxs : k # i => proofTxs'[k] = proofTxs[k]
      /\ TheJob' = TheJob /\ \A s : Made(s) => Made(s)'
      /\ NamesItsOwn(proofProgress)' /\ NamesItsOwn(evidence)'
      /\ WaitsKnow(proofCommand, proofProgress)' /\ StageKnows(proofCommand.stage, proofProgress, evidence)'
      /\ ProofRemembers' /\ Proof!PublicBeforeSent'
  BY ProofFate
<1>2. FilesKnow'
  BY <1>1 DEF ProofInv, FilesKnow
<1>3. JobSent'
  <2> SUFFICES ASSUME NEW k \in DOMAIN proofTxs
               PROVE /\ proofTxs'[k].step \in JobSteps => TheJob # 0 /\ proofTxs'[k].job = TheJob
                     /\ proofTxs'[k].step = "create-agent-job" /\ proofTxs'[k].st = "ok" =>
                          proofTxs'[k].job \in DOMAIN jobs
    BY <1>1 DEF JobSent
  <2>1. CASE k = i
    BY <1>1, <2>1 DEF ProofInv, JobInv, JobSent
  <2>2. CASE k # i
    BY <1>1, <2>2 DEF ProofInv, JobInv, JobSent
  <2> QED BY <2>1, <2>2
<1>4. JobMade'
  BY <1>1 DEF ProofInv, JobInv, JobMade
<1>5. OthersUntouched' /\ PaidAsShown'
  BY <1>1 DEF ProofInv, JobInv, OthersUntouched, PaidAsShown, IsPaid, IsReceived
<1>6. ProofTypes'
  BY <1>1 DEF ProofInv, ProofTypes
<1>7. JobInv'
  BY <1>3, <1>4, <1>5 DEF JobInv
<1> QED BY <1>1, <1>2, <1>6, <1>7 DEF ProofInv

\* It creates a job, which is not the one the files are of.
LEMMA ProofMinedCreation ==
  ASSUME ProofInv, NEW i \in DOMAIN proofTxs, proofTxs[i].st = "pending", proofTxs[i].step = "create-agent-job",
         NEW y \in ProofTxTypes, y.step = "create-agent-job", proofTxs' = [proofTxs EXCEPT ![i] = y],
         y.job = Len(jobs) + 1, jobs' = Append(jobs, [status |-> "Created", budget |-> 0]),
         UNCHANGED <<wallet, proofProgress, evidence, proofCommand, proofLost>>
  PROVE ProofInv'
<1>1. /\ proofTxs' \in Seq(ProofTxTypes) /\ DOMAIN proofTxs' = DOMAIN proofTxs /\ proofTxs'[i] = y
      /\ \A k \in DOMAIN proofTxs : k # i => proofTxs'[k] = proofTxs[k]
      /\ TheJob' = TheJob /\ \A s : Made(s) => Made(s)'
      /\ NamesItsOwn(proofProgress)' /\ NamesItsOwn(evidence)'
      /\ WaitsKnow(proofCommand, proofProgress)' /\ StageKnows(proofCommand.stage, proofProgress, evidence)'
      /\ ProofRemembers' /\ Proof!PublicBeforeSent'
  BY ProofFate
<1>2. PICK n, b : n = Len(jobs) + 1 /\ b = [status |-> "Created", budget |-> 0] /\ b \in JobTypes
                  /\ b.status = "Created" /\ b.budget = 0
  <2> DEFINE r == [status |-> "Created", budget |-> 0]
  <2>1. r \in JobTypes /\ r.status = "Created" /\ r.budget = 0
    BY DEF JobTypes
  <2> QED BY <2>1
<1>3. /\ jobs' \in Seq(JobTypes) /\ DOMAIN jobs' = DOMAIN jobs \cup {n} /\ n \notin DOMAIN jobs
      /\ jobs'[n] = b /\ n # 0 /\ 0 \notin DOMAIN jobs
      /\ \A k \in DOMAIN jobs : jobs'[k] = jobs[k]
  <2>1. jobs \in Seq(JobTypes) /\ jobs' = Append(jobs, b)
    BY <1>2 DEF ProofInv, ProofTypes
  <2>2. /\ jobs' \in Seq(JobTypes) /\ Len(jobs') = n
        /\ jobs'[n] = b /\ \A k \in 1..Len(jobs) : jobs'[k] = jobs[k]
    BY <1>2, <2>1, AppendProperties
  <2>3. DOMAIN jobs' = 1..n /\ DOMAIN jobs = 1..Len(jobs) /\ Len(jobs) \in Nat
    BY <2>1, <2>2
  <2> QED BY <1>2, <2>2, <2>3
<1>4. TheJob # 0 => TheJob \in DOMAIN jobs /\ jobs'[TheJob] = jobs[TheJob]
  BY <1>3 DEF ProofInv, JobInv, JobMade
<1>5. FilesKnow'
  <2>1. evidence.exists => TheJob = evidence.job
    BY DEF TheJob
  <2> QED BY <1>1, <1>4, <2>1 DEF ProofInv, FilesKnow
<1>6. JobSent'
  <2> SUFFICES ASSUME NEW k \in DOMAIN proofTxs
               PROVE /\ proofTxs'[k].step \in JobSteps => TheJob # 0 /\ proofTxs'[k].job = TheJob
                     /\ proofTxs'[k].step = "create-agent-job" /\ proofTxs'[k].st = "ok" =>
                          proofTxs'[k].job \in DOMAIN jobs'
    BY <1>1 DEF JobSent
  <2>1. CASE k = i
    BY <1>1, <1>2, <1>3, <2>1 DEF JobSteps
  <2>2. CASE k # i
    BY <1>1, <1>3, <2>2 DEF ProofInv, JobInv, JobSent
  <2> QED BY <2>1, <2>2
<1>7. JobMade'
  BY <1>1, <1>3, <1>4 DEF ProofInv, JobInv, JobMade
<1>8. OthersUntouched'
  BY <1>1, <1>2, <1>3, <1>4 DEF ProofInv, JobInv, OthersUntouched
<1>9. PaidAsShown'
  BY <1>1, <1>4 DEF ProofInv, JobInv, PaidAsShown, IsPaid, IsReceived
<1>10. ProofTypes'
  BY <1>1, <1>3 DEF ProofInv, ProofTypes
<1>11. JobInv'
  BY <1>6, <1>7, <1>8, <1>9 DEF JobInv
<1> QED BY <1>1, <1>5, <1>10, <1>11 DEF ProofInv

\* A step of the job, before and after it, and the wallet after it.
StepsFurther(s, a, b, v) ==
  /\ a.status # "Completed" /\ b.budget = 1 /\ (a.budget = 1 \/ s = "set-budget")
  /\ b.status # "Created" => a.status # "Created" \/ s = "fund-job"
  /\ b.status \in {"Submitted", "Completed"} => a.status = "Submitted" \/ s = "submit-delivery"
  /\ b.status = "Completed" => s = "complete-job"
  /\ v.paid = IF b.status = "Created" THEN 0 ELSE 1
  /\ v.received = IF b.status = "Completed" THEN 1 ELSE 0

\* It takes the job one step further.
LEMMA ProofMinedStep ==
  ASSUME ProofInv, NEW i \in DOMAIN proofTxs, proofTxs[i].st = "pending", proofTxs[i].step \in JobSteps,
         NEW y \in ProofTxTypes, y.step = proofTxs[i].step, proofTxs' = [proofTxs EXCEPT ![i] = y],
         y.job = proofTxs[i].job, y.st = "ok",
         NEW a \in JobTypes, a = jobs[TheJob], NEW b \in JobTypes, jobs' = [jobs EXCEPT ![TheJob] = b],
         NEW v \in ProofWallets, wallet' = v, StepsFurther(y.step, a, b, v),
         UNCHANGED <<proofProgress, evidence, proofCommand, proofLost>>
  PROVE ProofInv'
<1>1. /\ proofTxs' \in Seq(ProofTxTypes) /\ DOMAIN proofTxs' = DOMAIN proofTxs /\ proofTxs'[i] = y
      /\ \A k \in DOMAIN proofTxs : k # i => proofTxs'[k] = proofTxs[k]
      /\ TheJob' = TheJob /\ \A s : Made(s) => Made(s)'
      /\ NamesItsOwn(proofProgress)' /\ NamesItsOwn(evidence)'
      /\ WaitsKnow(proofCommand, proofProgress)' /\ StageKnows(proofCommand.stage, proofProgress, evidence)'
      /\ ProofRemembers' /\ Proof!PublicBeforeSent'
  BY ProofFate
<1>2. TheJob # 0 /\ y.job = TheJob /\ TheJob \in DOMAIN jobs
  BY DEF ProofInv, JobInv, JobSent, JobMade
<1>3. jobs \in Seq(JobTypes)
  BY DEF ProofInv, ProofTypes
<1>4. /\ jobs' \in Seq(JobTypes) /\ DOMAIN jobs' = DOMAIN jobs /\ jobs'[TheJob] = b
      /\ \A k \in DOMAIN jobs : k # TheJob => jobs'[k] = jobs[k]
  <2>1. jobs' \in Seq(JobTypes)
    BY <1>2, <1>3, ExceptSeq
  <2>2. /\ DOMAIN jobs' = DOMAIN jobs /\ jobs'[TheJob] = b
        /\ \A k \in DOMAIN jobs : k # TheJob => jobs'[k] = jobs[k]
    BY <1>2, <1>3
  <2> QED BY <2>1, <2>2
<1>5. ~evidence.exists
  BY DEF ProofInv, FilesKnow, TheJob, StepsFurther
<1>6. FilesKnow'
  BY <1>1, <1>5 DEF ProofInv, FilesKnow
<1>7. JobSent'
  <2> SUFFICES ASSUME NEW k \in DOMAIN proofTxs
               PROVE /\ proofTxs'[k].step \in JobSteps => TheJob # 0 /\ proofTxs'[k].job = TheJob
                     /\ proofTxs'[k].step = "create-agent-job" /\ proofTxs'[k].st = "ok" =>
                          proofTxs'[k].job \in DOMAIN jobs
    BY <1>1, <1>4 DEF JobSent
  <2>1. CASE k = i
    BY <1>1, <1>2, <2>1 DEF JobSteps
  <2>2. CASE k # i
    BY <1>1, <2>2 DEF ProofInv, JobInv, JobSent
  <2> QED BY <2>1, <2>2
<1>8. JobMade'
  <2>1. Made(y.step)'
    BY <1>1, <1>2 DEF Made
  <2>2. /\ a.budget = 1 => Made("set-budget")
        /\ a.status # "Created" => Made("fund-job")
        /\ a.status = "Submitted" => Made("submit-delivery")
    BY <1>2 DEF ProofInv, JobInv, JobMade
  <2> QED BY <1>1, <1>2, <1>4, <2>1, <2>2 DEF JobMade, StepsFurther
<1>9. OthersUntouched'
  BY <1>1, <1>4 DEF ProofInv, JobInv, OthersUntouched
<1>10. PaidAsShown'
  BY <1>1, <1>2, <1>4 DEF PaidAsShown, IsPaid, IsReceived, StepsFurther
<1>11. ProofTypes'
  BY <1>1, <1>4 DEF ProofInv, ProofTypes
<1>12. JobInv'
  BY <1>7, <1>8, <1>9, <1>10 DEF JobInv
<1> QED BY <1>1, <1>6, <1>11, <1>12 DEF ProofInv

\* The transaction of a job's step that the escrow accepts.
LEMMA ProofMinedJobStep ==
  ASSUME ProofInv, NEW i \in DOMAIN proofTxs, proofTxs[i].st = "pending", proofTxs[i].step \in JobSteps,
         Proof!Accepted(proofTxs[i]),
         NEW y \in ProofTxTypes, y.step = proofTxs[i].step, proofTxs' = [proofTxs EXCEPT ![i] = y],
         y.job = proofTxs[i].job, y.st = "ok",
         jobs' = Proof!JobsAfter(proofTxs[i]), wallet' = Proof!WalletAfter(proofTxs[i]),
         UNCHANGED <<proofProgress, evidence, proofCommand, proofLost>>
  PROVE ProofInv'
<1>1. TheJob # 0 /\ proofTxs[i].job = TheJob /\ TheJob \in DOMAIN jobs
  BY DEF ProofInv, JobInv, JobSent, JobMade
<1>2. PICK a \in JobTypes : a = jobs[TheJob]
  BY <1>1, ProofTyped
<1>3. PICK w \in ProofWallets : w = wallet
  BY DEF ProofInv, ProofTypes
<1>4. /\ a.status # "Created" => w.paid = 1 /\ a.budget = 1
      /\ a.status = "Created" => w.paid = 0
      /\ a.status # "Completed" => w.received = 0
  BY <1>1, <1>2, <1>3 DEF ProofInv, JobInv, JobMade, PaidAsShown, IsPaid, IsReceived
<1>5. CASE proofTxs[i].step = "set-budget"
  <2>1. a.status = "Created" /\ wallet' = w /\ jobs' = [jobs EXCEPT ![TheJob].budget = 1]
    BY <1>1, <1>2, <1>3, <1>5 DEF Proof!Accepted, Proof!JobsAfter, Proof!WalletAfter
  <2>2. PICK b \in JobTypes : b = [a EXCEPT !.budget = 1] /\ b.status = "Created" /\ b.budget = 1
    <3>1. [a EXCEPT !.budget = 1] \in JobTypes
      BY DEF JobTypes
    <3> QED BY <2>1, <3>1 DEF JobTypes
  <2>3. jobs' = [jobs EXCEPT ![TheJob] = b]
    BY <1>1, <1>2, <2>1, <2>2
  <2>4. PICK v \in ProofWallets : wallet' = v /\ v.paid = 0 /\ v.received = 0
    BY <1>3, <1>4, <2>1
  <2>5. StepsFurther(y.step, a, b, v)
    BY <1>4, <1>5, <2>1, <2>2, <2>4 DEF StepsFurther
  <2> QED BY <1>2, <2>2, <2>3, <2>4, <2>5, ProofMinedStep
<1>6. CASE proofTxs[i].step = "fund-job"
  <2>1. /\ a.status = "Created" /\ a.budget = 1 /\ jobs' = [jobs EXCEPT ![TheJob].status = "Funded"]
        /\ wallet' = [w EXCEPT !.allowance = 0, !.paid = @ + 1]
    BY <1>1, <1>2, <1>3, <1>6 DEF Proof!Accepted, Proof!JobsAfter, Proof!WalletAfter
  <2>2. PICK b \in JobTypes : b = [a EXCEPT !.status = "Funded"] /\ b.status = "Funded" /\ b.budget = 1
    <3>1. [a EXCEPT !.status = "Funded"] \in JobTypes
      BY DEF JobTypes
    <3> QED BY <2>1, <3>1 DEF JobTypes
  <2>3. jobs' = [jobs EXCEPT ![TheJob] = b]
    BY <1>1, <1>2, <2>1, <2>2
  <2>4. PICK v \in ProofWallets : wallet' = v /\ v.paid = 1 /\ v.received = 0
    <3>1. w.paid + 1 = 1 /\ w.received = 0
      BY <1>4, <2>1
    <3>2. [w EXCEPT !.allowance = 0, !.paid = 1] \in ProofWallets
      BY DEF ProofWallets
    <3> QED BY <2>1, <3>1, <3>2 DEF ProofWallets
  <2>5. StepsFurther(y.step, a, b, v)
    BY <1>6, <2>1, <2>2, <2>4 DEF StepsFurther
  <2> QED BY <1>2, <2>2, <2>3, <2>4, <2>5, ProofMinedStep
<1>7. CASE proofTxs[i].step = "submit-delivery"
  <2>1. a.status = "Funded" /\ wallet' = w /\ jobs' = [jobs EXCEPT ![TheJob].status = "Submitted"]
    BY <1>1, <1>2, <1>3, <1>7 DEF Proof!Accepted, Proof!JobsAfter, Proof!WalletAfter
  <2>2. PICK b \in JobTypes : b = [a EXCEPT !.status = "Submitted"] /\ b.status = "Submitted" /\ b.budget = 1
    <3>1. [a EXCEPT !.status = "Submitted"] \in JobTypes
      BY DEF JobTypes
    <3> QED BY <1>4, <2>1, <3>1 DEF JobTypes
  <2>3. jobs' = [jobs EXCEPT ![TheJob] = b]
    BY <1>1, <1>2, <2>1, <2>2
  <2>4. PICK v \in ProofWallets : wallet' = v /\ v.paid = 1 /\ v.received = 0
    BY <1>3, <1>4, <2>1
  <2>5. StepsFurther(y.step, a, b, v)
    BY <1>4, <1>7, <2>1, <2>2, <2>4 DEF StepsFurther
  <2> QED BY <1>2, <2>2, <2>3, <2>4, <2>5, ProofMinedStep
<1>8. CASE proofTxs[i].step = "complete-job"
  <2>1. /\ a.status = "Submitted" /\ jobs' = [jobs EXCEPT ![TheJob].status = "Completed"]
        /\ wallet' = [w EXCEPT !.received = @ + 1]
    BY <1>1, <1>2, <1>3, <1>8 DEF Proof!Accepted, Proof!JobsAfter, Proof!WalletAfter
  <2>2. PICK b \in JobTypes : b = [a EXCEPT !.status = "Completed"] /\ b.status = "Completed" /\ b.budget = 1
    <3>1. [a EXCEPT !.status = "Completed"] \in JobTypes
      BY DEF JobTypes
    <3> QED BY <1>4, <2>1, <3>1 DEF JobTypes
  <2>3. jobs' = [jobs EXCEPT ![TheJob] = b]
    BY <1>1, <1>2, <2>1, <2>2
  <2>4. PICK v \in ProofWallets : wallet' = v /\ v.paid = 1 /\ v.received = 1
    <3>1. w.received + 1 = 1 /\ w.paid = 1
      BY <1>4, <2>1
    <3>2. [w EXCEPT !.received = 1] \in ProofWallets
      BY DEF ProofWallets
    <3> QED BY <2>1, <3>1, <3>2 DEF ProofWallets
  <2>5. StepsFurther(y.step, a, b, v)
    BY <1>4, <1>8, <2>1, <2>2, <2>4 DEF StepsFurther
  <2> QED BY <1>2, <2>2, <2>3, <2>4, <2>5, ProofMinedStep
<1> QED BY <1>5, <1>6, <1>7, <1>8 DEF JobSteps

LEMMA ProofMined ==
  ASSUME ProofInv, NEW i \in DOMAIN proofTxs, Proof!Mine(i)
  PROVE ProofInv'
<1>1. PICK tx \in ProofTxTypes : tx = proofTxs[i]
  BY ProofTyped
<1>2. /\ tx.st = "pending" /\ UNCHANGED <<proofProgress, evidence, proofCommand, proofLost>>
      /\ tx.step \in SentSteps /\ proofTxs \in Seq(ProofTxTypes)
  BY <1>1 DEF Proof!Mine, ProofTxTypes, ProofInv, ProofTypes
<1>3. wallet \in ProofWallets
  BY DEF ProofInv, ProofTypes
<1>4. CASE ~Proof!Accepted(tx)
  <2>1. PICK y \in ProofTxTypes : y = [tx EXCEPT !.st = "reverted"] /\ y.step = tx.step /\ y.job = tx.job
                                  /\ y.st = "reverted"
    <3>1. [tx EXCEPT !.st = "reverted"] \in ProofTxTypes
      BY DEF ProofTxTypes
    <3> QED BY <3>1 DEF ProofTxTypes
  <2>2. proofTxs' = [proofTxs EXCEPT ![i].st = "reverted"] /\ UNCHANGED <<jobs, wallet>>
    BY <1>1, <1>4 DEF Proof!Mine
  <2>3. proofTxs' = [proofTxs EXCEPT ![i] = y]
    BY <1>1, <1>2, <2>1, <2>2
  <2>4. /\ proofTxs[i].st = "pending" /\ y.step = proofTxs[i].step /\ y.job = proofTxs[i].job
        /\ y.step = "create-agent-job" => y.st # "ok"
        /\ wallet' \in ProofWallets /\ wallet'.paid = wallet.paid /\ wallet'.received = wallet.received
        /\ UNCHANGED <<jobs, proofProgress, evidence, proofCommand, proofLost>>
    BY <1>1, <1>2, <1>3, <2>1, <2>2
  <2> QED BY <2>1, <2>3, <2>4, ProofMinedAside
<1>5. CASE Proof!Accepted(tx) /\ tx.step = "create-agent-job"
  <2>1. PICK y \in ProofTxTypes : y = [tx EXCEPT !.st = "ok", !.job = Len(jobs) + 1] /\ y.step = tx.step
                                  /\ y.job = Len(jobs) + 1
    <3>1. Len(jobs) + 1 \in Nat
      BY ProofTyped
    <3>2. [tx EXCEPT !.st = "ok", !.job = Len(jobs) + 1] \in ProofTxTypes
      BY <3>1 DEF ProofTxTypes
    <3> QED BY <3>2 DEF ProofTxTypes
  <2>2. proofTxs' = [proofTxs EXCEPT ![i].st = "ok", ![i].job = Len(jobs) + 1]
    BY <1>1, <1>5 DEF Proof!Mine
  <2>3. proofTxs' = [proofTxs EXCEPT ![i] = y]
    BY <1>1, <1>2, <2>1, <2>2
  <2>4. jobs' = Append(jobs, [status |-> "Created", budget |-> 0]) /\ wallet' = wallet
    BY <1>1, <1>5 DEF Proof!Mine, Proof!JobsAfter, Proof!WalletAfter
  <2> QED BY <1>1, <1>2, <1>5, <2>1, <2>3, <2>4, ProofMinedCreation
<1>6. CASE Proof!Accepted(tx) /\ tx.step # "create-agent-job"
  <2>1. PICK y \in ProofTxTypes : y = [tx EXCEPT !.st = "ok"] /\ y.step = tx.step /\ y.job = tx.job /\ y.st = "ok"
    <3>1. [tx EXCEPT !.st = "ok"] \in ProofTxTypes
      BY DEF ProofTxTypes
    <3> QED BY <3>1 DEF ProofTxTypes
  <2>2. proofTxs' = [proofTxs EXCEPT ![i].st = "ok", ![i].job = proofTxs[i].job]
    BY <1>1, <1>2, <1>6 DEF Proof!Mine
  <2>3. proofTxs' = [proofTxs EXCEPT ![i] = y]
    BY <1>1, <1>2, <2>1, <2>2
  <2>4. jobs' = Proof!JobsAfter(tx) /\ wallet' = Proof!WalletAfter(tx)
    BY <1>1, <1>6 DEF Proof!Mine
  <2>5. CASE tx.step \in JobSteps
    BY <1>1, <1>2, <1>6, <2>1, <2>3, <2>4, <2>5, ProofMinedJobStep
  <2>6. CASE tx.step \in {"fund-gas", "register-agent", "approve-exact-usdc"}
    <3>1. jobs' = jobs
      BY <2>4, <2>6 DEF Proof!JobsAfter
    <3>2. /\ wallet' \in ProofWallets
          /\ wallet'.paid = wallet.paid /\ wallet'.received = wallet.received
      BY <1>3, <2>4, <2>6 DEF Proof!WalletAfter, ProofWallets
    <3> QED BY <1>1, <1>2, <1>6, <2>1, <2>3, <3>1, <3>2, ProofMinedAside
  <2> QED BY <1>2, <1>6, <2>5, <2>6 DEF SentSteps
<1> QED BY <1>4, <1>5, <1>6

LEMMA ProofStep ==
  ASSUME ProofInv, Proof!Next \/ UNCHANGED <<proofTxs, jobs, wallet, proofProgress, evidence, proofCommand, proofLost>>
  PROVE ProofInv'
<1>1. CASE Proof!Starts
  BY <1>1, ProofStarts
<1>2. CASE Proof!PublishMetadata \/ Proof!PublishDelivery
  BY <1>2, ProofPublishes
<1>3. CASE Proof!NotNeeded
  <2>1. proofCommand' = Proof!NextStage
    BY <1>3 DEF Proof!NotNeeded
  <2> QED BY <1>3, <2>1, ProofSkips
<1>4. CASE Proof!Known
  <2>1. CASE proofCommand' = Proof!NextStage
    BY <1>4, <2>1, ProofSkips
  <2>2. CASE proofCommand' # Proof!NextStage
    BY <1>4, <2>2, ProofFinds
  <2> QED BY <2>1, <2>2
<1>5. CASE Proof!Send
  BY <1>5, ProofSends
<1>6. CASE Proof!Record
  BY <1>6, ProofRecords
<1>7. CASE Proof!Adopt
  BY <1>7, ProofAdopts
<1>8. CASE Proof!Finish
  BY <1>8, ProofFinishes
<1>9. CASE Proof!UnlinkProgress
  BY <1>9, ProofUnlinks
<1>10. CASE Proof!Stops
  BY <1>10, ProofStops
<1>11. ASSUME NEW i \in DOMAIN proofTxs, Proof!Mine(i) PROVE ProofInv'
  BY <1>11, ProofMined
<1>12. CASE UNCHANGED <<proofTxs, jobs, wallet, proofProgress, evidence, proofCommand, proofLost>>
  <2>1. JobInv'
    <3>1. TheJob' = TheJob
      BY <1>12 DEF TheJob
    <3> QED BY <1>12, <3>1, JobStays
  <2>2. FilesKnow'
    BY <1>12 DEF ProofInv, FilesKnow, NamesItsOwn, Creations
  <2>3. ProofRemembers' /\ Proof!PublicBeforeSent'
    BY <1>12 DEF ProofInv, ProofRemembers, ProofInFlight, Proof!PublicBeforeSent
  <2>4. StageKnows(proofCommand.stage, proofProgress, evidence)' /\ WaitsKnow(proofCommand, proofProgress)'
    BY <1>12 DEF ProofInv, StageKnows, WaitsKnow, Creations
  <2>5. ProofTypes'
    BY <1>12 DEF ProofInv, ProofTypes
  <2> QED BY <2>1, <2>2, <2>3, <2>4, <2>5 DEF ProofInv
<1> QED BY <1>1, <1>2, <1>3, <1>4, <1>5, <1>6, <1>7, <1>8, <1>9, <1>10, <1>11, <1>12 DEF Proof!Next

\* The buyer pays for one job; the evidence lacks only what a stopped command sent.
LEMMA ProofSound ==
  ASSUME ProofInv
  PROVE Proof!ChargedOnce /\ Proof!SeedMissesOnlyLost /\ Proof!PublicBeforeSent
<1>1. Proof!ChargedOnce
  <2>1. wallet.paid \in {0, 1} /\ wallet.received \in {0, 1} /\ (wallet.received = 1 => wallet.paid = 1)
    BY DEF ProofInv, JobInv, PaidAsShown, IsPaid, IsReceived
  <2> QED BY <2>1 DEF Proof!ChargedOnce
<1>2. Proof!SeedMissesOnlyLost
  <2> SUFFICES ASSUME evidence.exists
               PROVE /\ jobs[evidence.job].status = "Completed"
                     /\ \A h \in evidence.txs :
                          /\ proofTxs[h].st = "ok"
                          /\ proofTxs[h].step \in Proof!CANARY_PROOF_STEPS => proofTxs[h].job = evidence.job
                     /\ \A s \in Proof!CANARY_PROOF_STEPS :
                          Proof!SeedReceipt(s) \/ \E h \in proofLost : proofTxs[h].step = s
                     /\ Proof!Seeded => Proof!EscrowEvents \ Proof!SeededEvents \subseteq proofLost
    BY DEF Proof!SeedMissesOnlyLost
  <2>1. /\ evidence.job # 0 /\ jobs[evidence.job].status = "Completed" /\ TheJob = evidence.job
        /\ NamesItsOwn(evidence) /\ proofProgress \in {evidence, Proof!NoFile}
    BY DEF ProofInv, FilesKnow, TheJob
  <2>2. \A s \in Proof!CANARY_PROOF_STEPS : s = "create-agent-job" \/ s \in JobSteps
    BY DEF Proof!CANARY_PROOF_STEPS, JobSteps
  <2>3. \A h \in evidence.txs :
          h \in DOMAIN proofTxs /\ proofTxs[h].st = "ok"
          /\ (proofTxs[h].step \in Proof!CANARY_PROOF_STEPS => proofTxs[h].job = evidence.job)
    <3> SUFFICES ASSUME NEW h \in evidence.txs
                 PROVE h \in DOMAIN proofTxs /\ proofTxs[h].st = "ok"
                       /\ (proofTxs[h].step \in Proof!CANARY_PROOF_STEPS => proofTxs[h].job = evidence.job)
      OBVIOUS
    <3>1. h \in DOMAIN proofTxs /\ proofTxs[h].st = "ok"
      BY <2>1 DEF NamesItsOwn
    <3>2. CASE proofTxs[h].step = "create-agent-job"
      BY <2>1, <3>1, <3>2 DEF NamesItsOwn, Creations
    <3>3. CASE proofTxs[h].step \in JobSteps
      BY <2>1, <3>1, <3>3 DEF ProofInv, JobInv, JobSent
    <3> QED BY <2>2, <3>1, <3>2, <3>3
  <2>4. DOMAIN proofTxs \subseteq proofLost \cup evidence.txs
    <3>1. proofProgress.txs \subseteq evidence.txs
      <4>1. Proof!NoFile.txs = {}
        BY DEF Proof!NoFile
      <4> QED BY <2>1, <4>1
    <3>2. ProofInFlight = {}
      <4>1. proofCommand.tx # 0 => proofCommand.stage \in 1..10
        BY DEF ProofInv, WaitsKnow
      <4>2. proofCommand.stage \in 1..11 => ~evidence.exists
        BY DEF ProofInv, StageKnows
      <4>3. proofCommand.tx = 0
        BY <4>1, <4>2
      <4> QED BY <4>3 DEF ProofInFlight
    <3> QED BY <3>1, <3>2 DEF ProofInv, ProofRemembers
  <2>5. ASSUME NEW s \in Proof!CANARY_PROOF_STEPS
        PROVE Proof!SeedReceipt(s) \/ \E h \in proofLost : proofTxs[h].step = s
    <3>1. CASE s = "create-agent-job"
      <4>1. PICK h \in evidence.txs : proofTxs[h].step = s
        BY <2>1, <3>1 DEF NamesItsOwn, Creations
      <4> QED BY <2>3, <4>1 DEF Proof!SeedReceipt
    <3>2. CASE s \in JobSteps
      <4>1. Made(s)
        BY <2>1, <3>2 DEF ProofInv, JobInv, JobMade, JobSteps
      <4>2. PICK h \in DOMAIN proofTxs : proofTxs[h].step = s /\ proofTxs[h].st = "ok"
                                         /\ proofTxs[h].job = evidence.job
        BY <2>1, <4>1 DEF Made
      <4> QED BY <2>4, <4>2 DEF Proof!SeedReceipt
    <3> QED BY <2>2, <2>5, <3>1, <3>2
  <2>6. Proof!EscrowEvents \ Proof!SeededEvents \subseteq proofLost
    BY <2>4 DEF Proof!EscrowEvents, Proof!SeededEvents
  <2> QED BY <2>1, <2>3, <2>5, <2>6
<1> QED BY <1>1, <1>2 DEF ProofInv

\* A transaction is of a job that exists, and only one that was sent is lost.
ProofBounded ==
  /\ \A i \in DOMAIN proofTxs : proofTxs[i].job <= Len(jobs)
  /\ proofLost \subseteq DOMAIN proofTxs

LEMMA ProofBoundedInit == Proof!Init => ProofBounded
  BY DEF Proof!Init, ProofBounded

LEMMA FilesOfJobs == ProofInv => proofProgress.job \in 0..Len(jobs) /\ evidence.job \in 0..Len(jobs)
<1> SUFFICES ASSUME ProofInv
             PROVE  proofProgress.job \in 0..Len(jobs) /\ evidence.job \in 0..Len(jobs)
  OBVIOUS
<1>1. TheJob # 0 => TheJob \in 1..Len(jobs)
  BY ProofTyped DEF ProofInv, JobInv, JobMade
<1>2. 0 \in 0..Len(jobs) /\ \A j \in 1..Len(jobs) : j \in 0..Len(jobs)
  BY ProofTyped
<1>3. Proof!NoFile.job = 0
  BY DEF Proof!NoFile
<1>4. evidence.exists => proofProgress \in {evidence, Proof!NoFile}
  BY DEF ProofInv, FilesKnow
<1>5. ~evidence.exists => evidence = Proof!NoFile
  BY DEF ProofInv, FilesKnow
<1> QED BY <1>1, <1>2, <1>3, <1>4, <1>5 DEF TheJob

LEMMA ProofTypeOK == ProofInv /\ ProofBounded => Proof!TypeOK
<1> SUFFICES ASSUME ProofInv, ProofBounded PROVE Proof!TypeOK
  OBVIOUS
<1>1. \A i \in DOMAIN proofTxs :
        proofTxs[i].st \in {"pending", "ok", "reverted"} /\ proofTxs[i].job \in 0..Len(jobs)
  BY ProofTyped DEF ProofBounded, ProofTxTypes
<1>2. \A f \in {proofProgress, evidence} : f.txs \subseteq DOMAIN proofTxs /\ f.job \in 0..Len(jobs)
  BY FilesOfJobs DEF ProofInv, FilesKnow, NamesItsOwn
<1>3. \A i \in DOMAIN jobs : jobs[i].status \in {"Created", "Funded", "Submitted", "Completed"}
  BY ProofTyped DEF JobTypes
<1>4. wallet.allowance \in 0..1 /\ wallet.paid \in Nat /\ wallet.received \in Nat
  BY DEF ProofInv, ProofTypes, ProofWallets
<1>5. proofCommand.tx \in 0..Len(proofTxs)
  BY ProofTyped DEF ProofInv, WaitsKnow
<1>6. proofCommand.stage \in 0..(Len(Proof!Stages) + 2)
  BY ProofTyped, StagesKnown
<1> QED BY <1>1, <1>2, <1>3, <1>4, <1>5, <1>6 DEF ProofBounded, Proof!TypeOK

LEMMA ProofBoundedStep ==
  ASSUME ProofInv, ProofInv', ProofBounded, UNCHANGED proofVars \/ Proof!Next
  PROVE  ProofBounded'
<1>1. proofTxs \in Seq(ProofTxTypes) /\ jobs \in Seq(JobTypes) /\ Len(jobs) \in Nat /\ Len(jobs') \in Nat
  BY DEF ProofInv, ProofTypes
<1>2. \A i \in DOMAIN proofTxs : proofTxs[i].job \in Nat /\ proofTxs[i].job <= Len(jobs)
  BY ProofTyped DEF ProofBounded, ProofTxTypes
<1>3. CASE UNCHANGED proofVars \/ Proof!Starts \/ Proof!PublishMetadata \/ Proof!PublishDelivery
           \/ Proof!NotNeeded \/ Proof!Known \/ Proof!Record \/ Proof!Adopt \/ Proof!Finish
           \/ Proof!UnlinkProgress
  BY <1>3 DEF ProofBounded, proofVars, Proof!Starts, Proof!PublishMetadata, Proof!PublishDelivery,
    Proof!Published, Proof!NotNeeded, Proof!Known, Proof!Record, Proof!Adopt, Proof!Finish,
    Proof!UnlinkProgress
<1>4. CASE Proof!Send
  <2>1. PICK tx : tx = [step |-> Proof!Stage, job |-> proofProgress.job, st |-> "pending"]
    OBVIOUS
  <2>2. proofTxs' = Append(proofTxs, tx) /\ UNCHANGED <<jobs, proofLost>>
    BY <1>4, <2>1 DEF Proof!Send
  <2>3. /\ DOMAIN proofTxs' = DOMAIN proofTxs \cup {Len(proofTxs) + 1}
        /\ proofTxs'[Len(proofTxs) + 1] = tx
        /\ \A i \in DOMAIN proofTxs : proofTxs'[i] = proofTxs[i]
    <3>1. proofTxs' \in Seq(ProofTxTypes)
      BY DEF ProofInv, ProofTypes
    <3> QED BY <1>1, <2>2, <3>1, ProofTyped
  <2>4. tx.job <= Len(jobs)
    BY <2>1, FilesOfJobs
  <2> QED BY <2>2, <2>3, <2>4 DEF ProofBounded
<1>5. CASE Proof!Stops
  BY <1>5 DEF ProofBounded, Proof!Stops, ProofInv, WaitsKnow
<1>6. ASSUME NEW i \in DOMAIN proofTxs, Proof!Mine(i) PROVE ProofBounded'
  <2>1. UNCHANGED proofLost /\ DOMAIN proofTxs' = DOMAIN proofTxs
    BY <1>6 DEF Proof!Mine
  <2>2. \A k \in DOMAIN proofTxs : k # i => proofTxs'[k] = proofTxs[k]
    BY <1>6 DEF Proof!Mine
  <2>3. CASE UNCHANGED jobs /\ proofTxs' = [proofTxs EXCEPT ![i].st = "reverted"]
    <3>1. proofTxs'[i].job = proofTxs[i].job
      BY <2>3, ProofTyped DEF ProofTxTypes
    <3> QED BY <2>1, <2>2, <2>3, <3>1 DEF ProofBounded
  <2>4. CASE /\ proofTxs[i].step = "create-agent-job" /\ jobs' = Proof!JobsAfter(proofTxs[i])
             /\ proofTxs' = [proofTxs EXCEPT ![i].st = "ok", ![i].job = Len(jobs) + 1]
    <3>1. proofTxs'[i].job = Len(jobs) + 1
      BY <2>4, ProofTyped DEF ProofTxTypes
    <3>2. PICK job : job = [status |-> "Created", budget |-> 0]
      OBVIOUS
    <3>3. jobs' = Append(jobs, job)
      BY <2>4, <3>2 DEF Proof!JobsAfter
    <3>4. Len(jobs') = Len(jobs) + 1
      BY <1>1, <3>3
    <3> QED BY <1>1, <1>2, <2>1, <2>2, <3>1, <3>4 DEF ProofBounded
  <2>5. CASE /\ proofTxs[i].step # "create-agent-job" /\ jobs' = Proof!JobsAfter(proofTxs[i])
             /\ proofTxs' = [proofTxs EXCEPT ![i].st = "ok", ![i].job = proofTxs[i].job]
    <3>1. proofTxs'[i].job = proofTxs[i].job
      BY <2>5, ProofTyped DEF ProofTxTypes
    <3>2. DOMAIN jobs' = DOMAIN jobs
      BY <2>5 DEF Proof!JobsAfter
    <3>3. Len(jobs') = Len(jobs)
      <4>1. jobs' \in Seq(JobTypes)
        BY DEF ProofInv, ProofTypes
      <4> QED BY <1>1, <3>2, <4>1, LenProperties
    <3> QED BY <2>1, <2>2, <3>1, <3>3 DEF ProofBounded
  <2> QED BY <1>6, <2>3, <2>4, <2>5 DEF Proof!Mine
<1> QED BY <1>3, <1>4, <1>5, <1>6 DEF Proof!Next

-----------------------------------------------------------------------------
(* The funding of the buyer's agent.                                        *)

Underway == {"gas", "gas sent", "swap", "swap sent", "fund", "fund sent", "check"}
Reports == [funded : BOOLEAN, recorded : Nat]
FundingTypes ==
  /\ report \in Reports /\ fundingPending \in [Funding!Sent -> Nat]
  /\ transfers \in Nat /\ cut \in Nat

\* A funding that is sent is of a command that was cut off, of the one that waits
\* for it, or the one of the file.
Counted == report.funded \/ fundingAt \in {"fund sent", "check"}
Accounted ==
  /\ transfers + fundingPending["fund"] <= cut + 1
  /\ ~Counted => transfers + fundingPending["fund"] <= cut
FundingInv ==
  FundingTypes /\ (fundingAt \in Underway => ~report.funded) /\ Accounted

LEMMA FundingInit == Init => FundingInv
<1> SUFFICES ASSUME Init PROVE FundingInv
  OBVIOUS
<1>1. /\ report = [funded |-> FALSE, recorded |-> 0] /\ fundingAt = "off"
      /\ transfers = 0 /\ cut = 0 /\ fundingPending = [s \in Funding!Sent |-> 0]
  BY DEF Init, Funding!Init
<1> QED BY <1>1 DEF FundingInv, FundingTypes, Reports, Underway, Accounted, Funding!Sent

LEMMA FundingNumbers ==
  ASSUME FundingInv
  PROVE \E m, n, c \in Nat : /\ m = transfers /\ n = fundingPending["fund"] /\ c = cut
                             /\ m + n <= c + 1 /\ (~Counted => m + n <= c)
<1>1. PICK m \in Nat, n \in Nat, c \in Nat : m = transfers /\ n = fundingPending["fund"] /\ c = cut
  BY DEF FundingInv, FundingTypes, Funding!Sent
<1>2. m + n <= c + 1 /\ (~Counted => m + n <= c)
  BY <1>1 DEF FundingInv, Accounted
<1> QED BY <1>1, <1>2

\* The command goes on, without a funding.
LEMMA FundingGoes ==
  ASSUME FundingInv, UNCHANGED <<transfers, cut>>,
         fundingPending' \in [Funding!Sent -> Nat], fundingPending'["fund"] = fundingPending["fund"],
         report' \in Reports,
         fundingAt' \in Underway => ~report'.funded,
         Counted => Counted'
  PROVE FundingInv'
<1>1. FundingTypes'
  BY DEF FundingInv, FundingTypes
<1>2. Accounted'
  BY DEF FundingInv, Accounted
<1> QED BY <1>1, <1>2 DEF FundingInv

LEMMA FundingStep ==
  ASSUME FundingInv, [Next]_vars
  PROVE FundingInv'
<1>1. Funding!Next \/ UNCHANGED fundingVars
  BY DEF Next, vars
<1>2. /\ report \in Reports /\ fundingPending \in [Funding!Sent -> Nat]
      /\ fundingAt \in Underway => ~report.funded
  BY DEF FundingInv, FundingTypes
<1>3. CASE UNCHANGED fundingVars \/ Funding!AgentSpends
  BY <1>2, <1>3, FundingGoes DEF fundingVars, Funding!AgentSpends, Counted
<1>4. CASE Funding!Start
  <2>1. /\ fundingAt = "off" /\ UNCHANGED <<report, fundingPending, transfers, cut>>
        /\ fundingAt' = IF report.funded THEN "off" ELSE IF agent >= 1 THEN "already funded" ELSE "gas"
    BY <1>4 DEF Funding!Start, Funding!balances
  <2> QED BY <1>2, <2>1, FundingGoes DEF Underway, Counted
<1>5. CASE Funding!AlreadyFunded \/ Funding!Finish
  <2>1. /\ fundingAt' = "off" /\ report' = [report EXCEPT !.funded = TRUE]
        /\ UNCHANGED <<fundingPending, transfers, cut>>
    BY <1>5 DEF Funding!AlreadyFunded, Funding!Finish, Funding!Save, Funding!balances
  <2>2. report' \in Reports /\ report'.funded
    BY <1>2, <2>1 DEF Reports
  <2> QED BY <1>2, <2>1, <2>2, FundingGoes DEF Underway, Counted
<1>6. CASE Funding!TopUp \/ Funding!Swap
  <2>1. /\ fundingAt \in {"gas", "swap"} /\ UNCHANGED <<report, transfers, cut>>
        /\ fundingAt' \in {"gas sent", "swap", "swap sent", "fund"}
        /\ \/ UNCHANGED fundingPending
           \/ fundingPending' = [fundingPending EXCEPT !["gas"] = @ + 1]
           \/ fundingPending' = [fundingPending EXCEPT !["swap"] = @ + 1]
    BY <1>6 DEF Funding!TopUp, Funding!Swap, Funding!Send, Funding!Skip, Funding!balances
  <2>2. fundingPending["gas"] + 1 \in Nat /\ fundingPending["swap"] + 1 \in Nat
    BY <1>2 DEF Funding!Sent
  <2>3. \A s \in {"gas", "swap"} : [fundingPending EXCEPT ![s] = @ + 1] \in [Funding!Sent -> Nat]
                                   /\ [fundingPending EXCEPT ![s] = @ + 1]["fund"] = fundingPending["fund"]
    BY <1>2, <2>2 DEF Funding!Sent
  <2>4. /\ fundingPending' \in [Funding!Sent -> Nat]
        /\ fundingPending'["fund"] = fundingPending["fund"]
    BY <1>2, <2>1, <2>3
  <2> QED BY <1>2, <2>1, <2>4, FundingGoes DEF Counted, Underway
<1>7. CASE Funding!Fund
  <2>1. /\ fundingAt = "fund" /\ fundingAt' = "fund sent" /\ UNCHANGED <<report, transfers, cut>>
        /\ fundingPending' = [fundingPending EXCEPT !["fund"] = @ + 1]
    BY <1>7 DEF Funding!Fund, Funding!Send
  <2>2. PICK m, n, c \in Nat : /\ m = transfers /\ n = fundingPending["fund"] /\ c = cut
                               /\ m + n <= c + 1 /\ (~Counted => m + n <= c)
    BY FundingNumbers
  <2>3. ~Counted /\ ~report.funded
    BY <1>2, <2>1 DEF Counted, Underway
  <2>4. fundingPending' \in [Funding!Sent -> Nat] /\ fundingPending'["fund"] = n + 1
    <3>1. fundingPending' = [fundingPending EXCEPT !["fund"] = n + 1]
      BY <2>1, <2>2, Zenon
    <3>2. n + 1 \in Nat /\ "fund" \in Funding!Sent
      BY DEF Funding!Sent
    <3> QED BY <1>2, <3>1, <3>2
  <2>5. m + (n + 1) <= c + 1
    BY <2>2, <2>3
  <2>6. Counted'
    BY <2>1 DEF Counted
  <2>7. Accounted'
    BY <2>1, <2>2, <2>4, <2>5, <2>6 DEF Accounted
  <2>8. FundingTypes'
    BY <2>1, <2>4 DEF FundingInv, FundingTypes
  <2> QED BY <2>1, <2>3, <2>7, <2>8 DEF FundingInv
<1>8. CASE Funding!Record
  <2>1. /\ fundingAt \in {"gas sent", "swap sent", "fund sent"} /\ fundingAt' \in {"swap", "fund", "check"}
        /\ fundingAt = "fund sent" => fundingAt' = "check"
        /\ UNCHANGED <<fundingPending, transfers, cut>>
        /\ report' = report \/ report' = [report EXCEPT !.recorded = @ + 1]
    BY <1>8 DEF Funding!Record, Funding!Save, Funding!balances
  <2>2. report.recorded + 1 \in Nat
    BY <1>2 DEF Reports
  <2>3. report' \in Reports /\ report'.funded = report.funded
    BY <1>2, <2>1, <2>2 DEF Reports
  <2> QED BY <1>2, <2>1, <2>3, FundingGoes DEF Counted, Underway
<1>9. CASE Funding!Stop
  <2>1. /\ fundingAt' = "off" /\ UNCHANGED <<report, fundingPending, transfers>>
        /\ cut' = IF fundingAt \in {"fund sent", "check"} THEN cut + 1 ELSE cut
    BY <1>9 DEF Funding!Stop, Funding!balances
  <2>2. CASE fundingAt \notin {"fund sent", "check"}
    BY <1>2, <2>1, <2>2, FundingGoes DEF Counted, Underway
  <2>3. CASE fundingAt \in {"fund sent", "check"}
    <3>1. PICK m, n, c \in Nat : /\ m = transfers /\ n = fundingPending["fund"] /\ c = cut
                                 /\ m + n <= c + 1 /\ (~Counted => m + n <= c)
      BY FundingNumbers
    <3>2. cut' = c + 1
      BY <2>1, <2>3, <3>1, Zenon
    <3>3. m + n <= (c + 1) + 1 /\ c + 1 \in Nat
      BY <3>1
    <3>4. Accounted'
      BY <2>1, <3>1, <3>2, <3>3 DEF Accounted
    <3>5. FundingTypes'
      BY <2>1, <3>2, <3>3 DEF FundingInv, FundingTypes
    <3> QED BY <2>1, <3>4, <3>5 DEF FundingInv, Underway
  <2> QED BY <2>2, <2>3
<1>10. ASSUME NEW s \in Funding!Sent, s # "fund", Funding!Mined(s) PROVE FundingInv'
  <2>1. /\ fundingPending[s] > 0 /\ fundingPending' = [fundingPending EXCEPT ![s] = fundingPending[s] - 1]
        /\ UNCHANGED <<report, fundingAt, transfers, cut>>
    BY <1>10 DEF Funding!Mined, Funding!Reverts
  <2>2. PICK n \in Nat : n = fundingPending[s]
    BY <1>2
  <2>3. n - 1 \in Nat
    BY <2>1, <2>2
  <2>4. fundingPending' \in [Funding!Sent -> Nat] /\ fundingPending'["fund"] = fundingPending["fund"]
    BY <1>2, <1>10, <2>1, <2>2, <2>3 DEF Funding!Sent
  <2> QED BY <1>2, <2>1, <2>4, FundingGoes DEF Counted
<1>11. ASSUME Funding!Mined("fund") PROVE FundingInv'
  <2>1. PICK m, n, c \in Nat : /\ m = transfers /\ n = fundingPending["fund"] /\ c = cut
                               /\ m + n <= c + 1 /\ (~Counted => m + n <= c)
    BY FundingNumbers
  <2>2. /\ fundingPending["fund"] > 0
        /\ fundingPending' = [fundingPending EXCEPT !["fund"] = fundingPending["fund"] - 1]
        /\ UNCHANGED report
        /\ transfers' \in {transfers, transfers + 1}
        /\ \/ UNCHANGED <<fundingAt, cut>>
           \/ fundingAt = "fund sent" /\ fundingAt' = "off" /\ cut' = cut + 1
    BY <1>11 DEF Funding!Mined, Funding!Reverts
  <2>3. n > 0
    BY <2>1, <2>2
  <2>4. fundingPending' \in [Funding!Sent -> Nat] /\ fundingPending'["fund"] = n - 1
    <3>1. fundingPending' = [fundingPending EXCEPT !["fund"] = n - 1]
      BY <2>1, <2>2, Zenon
    <3>2. n - 1 \in Nat /\ "fund" \in Funding!Sent
      BY <2>3 DEF Funding!Sent
    <3> QED BY <1>2, <3>1, <3>2
  <2>5. PICK more \in Nat : more = transfers' /\ more \in {m, m + 1}
    <3>1. m \in Nat /\ m + 1 \in Nat
      OBVIOUS
    <3>2. transfers' \in {m, m + 1}
      BY <2>1, <2>2, Zenon
    <3> QED BY <3>1, <3>2
  <2>6. more + (n - 1) <= m + n
    <3>1. more = m \/ more = m + 1
      BY <2>5
    <3> QED BY <3>1
  <2>7. CASE UNCHANGED <<fundingAt, cut>>
    <3>1. Counted' = Counted
      BY <2>2, <2>7 DEF Counted
    <3>2. more + (n - 1) <= c + 1 /\ (~Counted => more + (n - 1) <= c)
      BY <2>1, <2>5, <2>6
    <3>3. Accounted'
      BY <2>1, <2>4, <2>5, <2>7, <3>1, <3>2 DEF Accounted
    <3>4. FundingTypes'
      BY <2>2, <2>4, <2>5, <2>7 DEF FundingInv, FundingTypes
    <3> QED BY <1>2, <2>2, <2>7, <3>3, <3>4 DEF FundingInv
  <2>8. CASE fundingAt = "fund sent" /\ fundingAt' = "off" /\ cut' = cut + 1
    <3>1. cut' = c + 1
      BY <2>1, <2>8, Zenon
    <3>2. more + (n - 1) <= c + 1 /\ more + (n - 1) <= (c + 1) + 1
      BY <2>1, <2>5, <2>6
    <3>3. Accounted'
      BY <2>4, <2>5, <3>1, <3>2 DEF Accounted
    <3>4. FundingTypes'
      <4>1. c + 1 \in Nat
        OBVIOUS
      <4> QED BY <2>2, <2>4, <2>5, <3>1, <4>1 DEF FundingInv, FundingTypes
    <3> QED BY <2>8, <3>3, <3>4 DEF FundingInv, Underway
  <2> QED BY <2>2, <2>7, <2>8
<1>12. ASSUME NEW s \in Funding!Sent, Funding!Mined(s) PROVE FundingInv'
  <2>1. CASE s = "fund"
    BY <1>11, <1>12, <2>1
  <2> QED BY <1>10, <1>12, <2>1
<1> QED BY <1>1, <1>3, <1>4, <1>5, <1>6, <1>7, <1>8, <1>9, <1>12 DEF Funding!Next

LEMMA FundingSound == FundingInv => Funding!FundedAgainOnlyAfterACut
<1> SUFFICES ASSUME FundingInv PROVE Funding!FundedAgainOnlyAfterACut
  OBVIOUS
<1>1. PICK m, n, c \in Nat : /\ m = transfers /\ n = fundingPending["fund"] /\ c = cut
                             /\ m + n <= c + 1 /\ (~Counted => m + n <= c)
  BY FundingNumbers
<1>2. m <= 1 + c
  BY <1>1
<1> QED BY <1>1, <1>2 DEF Funding!FundedAgainOnlyAfterACut

\* The buyer's balance and the fundings come of the swaps and of what it had, and what
\* the agent has, of the fundings.
Balanced ==
  /\ buyer \in Nat /\ agent \in Nat /\ swaps \in Nat
  /\ agent <= transfers /\ buyer + transfers <= swaps + 1 /\ swaps + fundingPending["swap"] <= MaxSwaps
\* A command sends each transaction once, and records one funding.
OnceACommand ==
  /\ fundingPending["gas"] <= fundingCommands /\ fundingPending["swap"] <= fundingCommands
  /\ transfers + fundingPending["fund"] <= fundingCommands /\ report.recorded <= fundingCommands
  /\ fundingAt = "gas" => fundingPending["gas"] < fundingCommands
  /\ fundingAt \in {"gas", "gas sent", "swap"} => fundingPending["swap"] < fundingCommands
  /\ fundingAt \in {"gas", "gas sent", "swap", "swap sent", "fund"} =>
       transfers + fundingPending["fund"] < fundingCommands
  /\ fundingAt \in {"gas", "gas sent", "swap", "swap sent", "fund", "fund sent"} =>
       report.recorded < fundingCommands
FundingBounded == fundingCommands \in 0..ScriptCommands /\ Balanced /\ OnceACommand

LEMMA FundingBoundedInit == Funding!Init => FundingBounded
<1> SUFFICES ASSUME Funding!Init PROVE FundingBounded
  OBVIOUS
<1>1. ScriptCommands \in Nat /\ MaxSwaps \in Nat
  BY ComponentsAssumption DEF Funding!BoundsAreNumbers
<1>2. /\ report.recorded = 0 /\ fundingAt = "off" /\ fundingCommands = 0 /\ buyer \in 0..1 /\ agent = 0
      /\ swaps = 0 /\ transfers = 0 /\ fundingPending["gas"] = 0 /\ fundingPending["swap"] = 0
      /\ fundingPending["fund"] = 0
  BY DEF Funding!Init, Funding!Sent
<1> QED BY <1>1, <1>2 DEF FundingBounded, Balanced, OnceACommand

LEMMA FundingTyped ==
  ASSUME FundingInv, FundingBounded
  PROVE  /\ ScriptCommands \in Nat /\ MaxSwaps \in Nat
         /\ fundingCommands \in Nat /\ fundingCommands <= ScriptCommands
         /\ transfers \in Nat /\ report \in Reports /\ report.recorded \in Nat
         /\ fundingPending \in [Funding!Sent -> Nat] /\ fundingPending["gas"] \in Nat
         /\ fundingPending["swap"] \in Nat /\ fundingPending["fund"] \in Nat
<1>1. ScriptCommands \in Nat /\ MaxSwaps \in Nat
  BY ComponentsAssumption DEF Funding!BoundsAreNumbers
<1>2. report \in Reports /\ transfers \in Nat /\ fundingPending \in [Funding!Sent -> Nat]
  BY DEF FundingInv, FundingTypes
<1> QED BY <1>1, <1>2 DEF FundingBounded, Reports, Funding!Sent

LEMMA FundingTypeOK == FundingInv /\ FundingBounded => Funding!TypeOK
<1> SUFFICES ASSUME FundingInv, FundingBounded PROVE Funding!TypeOK
  OBVIOUS
<1>1. /\ report.recorded <= ScriptCommands /\ fundingPending["gas"] <= ScriptCommands
      /\ fundingPending["swap"] <= ScriptCommands /\ fundingPending["fund"] <= ScriptCommands
      /\ transfers <= ScriptCommands
  <2>1. /\ report.recorded <= fundingCommands /\ fundingPending["gas"] <= fundingCommands
        /\ fundingPending["swap"] <= fundingCommands /\ transfers + fundingPending["fund"] <= fundingCommands
    BY DEF FundingBounded, OnceACommand
  <2>2. PICK g, w, f, r, n, m \in Nat :
          /\ g = fundingPending["gas"] /\ w = fundingPending["swap"] /\ f = fundingPending["fund"]
          /\ r = report.recorded /\ n = fundingCommands /\ m = transfers
    BY FundingTyped
  <2>3. ScriptCommands \in Nat /\ n <= ScriptCommands
    BY <2>2, FundingTyped
  <2>4. r <= n /\ g <= n /\ w <= n /\ m + f <= n
    BY <2>1, <2>2
  <2>5. /\ r <= ScriptCommands /\ g <= ScriptCommands /\ w <= ScriptCommands /\ f <= ScriptCommands
        /\ m <= ScriptCommands
    BY <2>3, <2>4
  <2> QED BY <2>2, <2>5
<1>2. /\ buyer \in 0..(MaxSwaps + 1) /\ swaps \in 0..MaxSwaps /\ transfers <= swaps + 1
      /\ agent \in 0..ScriptCommands
  BY <1>1, FundingTyped DEF FundingBounded, Balanced
<1>3. \A s \in Funding!Sent : fundingPending[s] \in 0..ScriptCommands
  BY <1>1, FundingTyped DEF Funding!Sent
<1>4. fundingPending \in [Funding!Sent -> 0..ScriptCommands]
  BY <1>3, FundingTyped
<1>5. report.funded \in BOOLEAN /\ report.recorded \in 0..ScriptCommands
  BY <1>1, FundingTyped DEF Reports
<1> QED BY <1>1, <1>2, <1>4, <1>5 DEF FundingBounded, Funding!TypeOK

LEMMA FundingBoundedStep ==
  ASSUME FundingInv, FundingInv', FundingBounded, UNCHANGED fundingVars \/ Funding!Next
  PROVE  FundingBounded'
<1>1. PICK g, w, f, r, n, m \in Nat :
        /\ g = fundingPending["gas"] /\ w = fundingPending["swap"] /\ f = fundingPending["fund"]
        /\ r = report.recorded /\ n = fundingCommands /\ m = transfers
  BY FundingTyped
<1>2. /\ ScriptCommands \in Nat /\ MaxSwaps \in Nat /\ n <= ScriptCommands
      /\ fundingPending \in [Funding!Sent -> Nat] /\ report \in Reports
  BY <1>1, FundingTyped
<1>3. ScriptCommands \in Nat /\ MaxSwaps \in Nat /\ n <= ScriptCommands
  BY <1>2
<1>4. /\ buyer \in Nat /\ agent \in Nat /\ swaps \in Nat
      /\ agent <= m /\ buyer + m <= swaps + 1 /\ swaps + w <= MaxSwaps
  BY <1>1 DEF FundingBounded, Balanced
<1>5. /\ g <= n /\ w <= n /\ m + f <= n /\ r <= n
      /\ fundingAt = "gas" => g < n
      /\ fundingAt \in {"gas", "gas sent", "swap"} => w < n
      /\ fundingAt \in {"gas", "gas sent", "swap", "swap sent", "fund"} => m + f < n
      /\ fundingAt \in {"gas", "gas sent", "swap", "swap sent", "fund", "fund sent"} => r < n
  BY <1>1 DEF FundingBounded, OnceACommand
<1>6. g <= n /\ w <= n /\ m + f <= n /\ r <= n
  BY <1>5
<1>7. ASSUME UNCHANGED <<report, fundingCommands, fundingPending, transfers, buyer, agent, swaps>>,
             fundingAt' \in {fundingAt, "off"} \/ (fundingAt = "gas" /\ fundingAt' = "swap")
               \/ (fundingAt = "swap" /\ fundingAt' = "fund")
      PROVE  FundingBounded'
  BY <1>1, <1>2, <1>4, <1>5, <1>7 DEF FundingBounded, Balanced, OnceACommand
<1>8. CASE UNCHANGED fundingVars \/ Funding!Stop
  BY <1>7, <1>8 DEF fundingVars, Funding!Stop, Funding!balances
<1>9. CASE Funding!Start
  <2>1. /\ fundingCommands' = n + 1 /\ n < ScriptCommands
        /\ UNCHANGED <<report, fundingPending, transfers, buyer, agent, swaps>>
    BY <1>1, <1>9 DEF Funding!Start, Funding!balances
  <2>2. g < n + 1 /\ w < n + 1 /\ m + f < n + 1 /\ r < n + 1 /\ n + 1 \in 0..ScriptCommands
    <3>1. n < ScriptCommands
      BY <2>1
    <3> QED BY <1>3, <1>6, <3>1
  <2>3. g <= n + 1 /\ w <= n + 1 /\ m + f <= n + 1 /\ r <= n + 1
    BY <2>2
  <2> QED BY <1>1, <1>4, <2>1, <2>2, <2>3 DEF FundingBounded, Balanced, OnceACommand
<1>10. CASE Funding!AlreadyFunded \/ Funding!Finish
  <2>1. /\ report' = [report EXCEPT !.funded = TRUE] /\ fundingAt' = "off"
        /\ UNCHANGED <<fundingCommands, fundingPending, transfers, buyer, agent, swaps>>
    BY <1>10 DEF Funding!AlreadyFunded, Funding!Finish, Funding!Save, Funding!balances
  <2>2. report'.recorded = r
    BY <1>1, <1>2, <2>1 DEF Reports
  <2> QED BY <1>1, <1>2, <1>4, <1>5, <2>1, <2>2 DEF FundingBounded, Balanced, OnceACommand
<1>11. ASSUME NEW s \in Funding!Sent, NEW place, Funding!Send(s, place)
      PROVE  /\ fundingAt' = place /\ fundingPending'["gas"] = (IF s = "gas" THEN g + 1 ELSE g)
             /\ fundingPending'["swap"] = (IF s = "swap" THEN w + 1 ELSE w)
             /\ fundingPending'["fund"] = (IF s = "fund" THEN f + 1 ELSE f)
             /\ UNCHANGED <<report, fundingCommands, transfers, buyer, agent, swaps>>
  <2>1. fundingPending' = [fundingPending EXCEPT ![s] = fundingPending[s] + 1]
    BY <1>11 DEF Funding!Send
  <2>2. \A q \in Funding!Sent : fundingPending'[q] = IF q = s THEN fundingPending[q] + 1 ELSE fundingPending[q]
    BY <1>2, <2>1
  <2> QED BY <1>1, <1>11, <2>2 DEF Funding!Sent, Funding!Send
<1>12. CASE Funding!TopUp
  <2>1. CASE Funding!Send("gas", "gas sent")
    <3>1. /\ fundingAt' = "gas sent" /\ fundingPending'["gas"] = g + 1
          /\ fundingPending'["swap"] = w /\ fundingPending'["fund"] = f
          /\ UNCHANGED <<report, fundingCommands, transfers, buyer, agent, swaps>>
      BY <1>11, <2>1 DEF Funding!Sent
    <3>2. g + 1 <= n /\ w < n /\ m + f < n /\ r < n
      <4>1. g < n /\ w < n /\ m + f < n /\ r < n
        BY <1>5, <1>12 DEF Funding!TopUp
      <4> QED BY <4>1
    <3> QED BY <1>1, <1>2, <1>4, <3>1, <3>2 DEF FundingBounded, Balanced, OnceACommand
  <2>2. CASE Funding!Skip("swap")
    BY <1>7, <1>12, <2>2 DEF Funding!TopUp, Funding!Skip, Funding!balances
  <2> QED BY <1>12, <2>1, <2>2 DEF Funding!TopUp
<1>13. CASE Funding!Swap
  <2>1. CASE swaps + fundingPending["swap"] < MaxSwaps /\ Funding!Send("swap", "swap sent")
    <3>1. /\ fundingAt' = "swap sent" /\ fundingPending'["gas"] = g
          /\ fundingPending'["swap"] = w + 1 /\ fundingPending'["fund"] = f
          /\ UNCHANGED <<report, fundingCommands, transfers, buyer, agent, swaps>>
      BY <1>11, <2>1 DEF Funding!Sent
    <3>2. w + 1 <= n /\ m + f < n /\ r < n
      <4>1. w < n /\ m + f < n /\ r < n
        BY <1>5, <1>13 DEF Funding!Swap
      <4> QED BY <4>1
    <3>3. swaps + (w + 1) <= MaxSwaps
      <4>1. swaps + w < MaxSwaps /\ swaps \in Nat
        BY <1>1, <1>4, <2>1
      <4> QED BY <1>3, <4>1
    <3> QED BY <1>1, <1>2, <1>4, <1>5, <3>1, <3>2, <3>3 DEF FundingBounded, Balanced, OnceACommand
  <2>2. CASE Funding!Skip("fund")
    BY <1>7, <1>13, <2>2 DEF Funding!Swap, Funding!Skip, Funding!balances
  <2> QED BY <1>13, <2>1, <2>2 DEF Funding!Swap
<1>14. CASE Funding!Fund
  <2>1. /\ fundingAt' = "fund sent" /\ fundingPending'["gas"] = g
        /\ fundingPending'["swap"] = w /\ fundingPending'["fund"] = f + 1
        /\ UNCHANGED <<report, fundingCommands, transfers, buyer, agent, swaps>>
    BY <1>11, <1>14 DEF Funding!Sent, Funding!Fund
  <2>2. m + (f + 1) <= n /\ r < n
    <3>1. m + f < n /\ r < n
      BY <1>5, <1>14 DEF Funding!Fund
    <3> QED BY <3>1
  <2> QED BY <1>1, <1>2, <1>4, <1>5, <2>1, <2>2 DEF FundingBounded, Balanced, OnceACommand
<1>15. CASE Funding!Record
  <2>1. /\ UNCHANGED <<fundingCommands, fundingPending, transfers, buyer, agent, swaps>>
        /\ \/ fundingAt \in {"gas sent"} /\ fundingAt' = "swap" /\ UNCHANGED report
           \/ fundingAt \in {"swap sent"} /\ fundingAt' = "fund" /\ UNCHANGED report
           \/ /\ fundingAt \in {"fund sent"} /\ fundingAt' = "check"
              /\ report' = [report EXCEPT !.recorded = report.recorded + 1]
    BY <1>15 DEF Funding!Record, Funding!Save, Funding!balances
  <2>2. CASE UNCHANGED report
    BY <1>1, <1>2, <1>4, <1>5, <2>1, <2>2 DEF FundingBounded, Balanced, OnceACommand
  <2>3. CASE fundingAt = "fund sent" /\ fundingAt' = "check"
             /\ report' = [report EXCEPT !.recorded = report.recorded + 1]
    <3>1. report'.recorded = r + 1 /\ r + 1 <= n
      <4>1. r < n
        BY <1>5, <2>3
      <4>2. report'.recorded = r + 1
        BY <1>1, <1>2, <2>3 DEF Reports
      <4> QED BY <4>1, <4>2
    <3> QED BY <1>1, <1>2, <1>4, <1>5, <2>1, <2>3, <3>1 DEF FundingBounded, Balanced, OnceACommand
  <2> QED BY <2>1, <2>2, <2>3
<1>16. CASE Funding!AgentSpends
  <2>1. /\ agent > 0 /\ agent' = agent - 1
        /\ UNCHANGED <<report, fundingAt, fundingCommands, fundingPending, transfers, buyer, swaps>>
    BY <1>16 DEF Funding!AgentSpends
  <2>2. agent' \in Nat /\ agent' <= m
    BY <1>4, <2>1
  <2> QED BY <1>1, <1>2, <1>4, <1>5, <2>1, <2>2 DEF FundingBounded, Balanced, OnceACommand
<1>17. ASSUME NEW s \in Funding!Sent, Funding!Mined(s) PROVE FundingBounded'
  <2>1. /\ fundingPending[s] > 0 /\ fundingPending' = [fundingPending EXCEPT ![s] = fundingPending[s] - 1]
        /\ UNCHANGED <<report, fundingCommands>> /\ fundingAt' \in {fundingAt, "off"}
    BY <1>17 DEF Funding!Mined
  <2>2. \A q \in Funding!Sent : fundingPending'[q] = IF q = s THEN fundingPending[q] - 1 ELSE fundingPending[q]
    BY <1>2, <2>1
  <2>3. CASE s = "gas"
    <3>1. /\ g > 0 /\ fundingPending'["gas"] = g - 1 /\ fundingPending'["swap"] = w
          /\ fundingPending'["fund"] = f
      BY <1>1, <2>1, <2>2, <2>3 DEF Funding!Sent
    <3>2. UNCHANGED <<transfers, buyer, agent, swaps>>
      BY <1>17, <2>3 DEF Funding!Mined, Funding!Reverts
    <3>3. g - 1 <= n /\ (g < n => g - 1 < n)
      BY <1>6
    <3> QED BY <1>1, <1>2, <1>4, <1>5, <2>1, <3>1, <3>2, <3>3 DEF FundingBounded, Balanced, OnceACommand
  <2>4. CASE s = "swap"
    <3>1. /\ w > 0 /\ fundingPending'["gas"] = g /\ fundingPending'["swap"] = w - 1
          /\ fundingPending'["fund"] = f
      BY <1>1, <2>1, <2>2, <2>4 DEF Funding!Sent
    <3>2. swaps' = swaps + 1 /\ buyer' = buyer + 1 /\ UNCHANGED <<transfers, agent>>
      BY <1>17, <2>4 DEF Funding!Mined, Funding!Reverts
    <3>3. /\ w - 1 <= n /\ (w < n => w - 1 < n)
          /\ swaps' \in Nat /\ buyer' \in Nat
          /\ buyer' + m <= swaps' + 1 /\ swaps' + (w - 1) <= MaxSwaps
      <4>1. w > 0 /\ buyer' = buyer + 1 /\ swaps' = swaps + 1
        BY <3>1, <3>2
      <4> QED BY <1>3, <1>6, <1>4, <4>1
    <3> QED BY <1>1, <1>2, <1>4, <1>5, <2>1, <3>1, <3>2, <3>3 DEF FundingBounded, Balanced, OnceACommand
  <2>5. CASE s = "fund"
    <3>1. /\ f > 0 /\ fundingPending'["gas"] = g /\ fundingPending'["swap"] = w
          /\ fundingPending'["fund"] = f - 1
      BY <1>1, <2>1, <2>2, <2>5 DEF Funding!Sent
    <3>2. CASE buyer = 0
      <4>1. UNCHANGED <<transfers, buyer, agent, swaps>>
        BY <1>17, <2>5, <3>2 DEF Funding!Mined, Funding!Reverts
      <4>2. m + (f - 1) <= n /\ (m + f < n => m + (f - 1) < n)
        BY <1>6
      <4> QED BY <1>1, <1>2, <1>4, <1>5, <2>1, <3>1, <4>1, <4>2 DEF FundingBounded, Balanced, OnceACommand
    <3>3. CASE buyer # 0
      <4>1. /\ buyer' = buyer - 1 /\ agent' = agent + 1 /\ transfers' = m + 1 /\ swaps' = swaps
        BY <1>1, <1>17, <2>5, <3>3 DEF Funding!Mined, Funding!Reverts
      <4>2. /\ buyer' \in Nat /\ agent' \in Nat /\ agent' <= m + 1 /\ buyer' + (m + 1) <= swaps + 1
            /\ (m + 1) + (f - 1) = m + f
        BY <1>4, <3>3, <4>1
      <4> QED BY <1>1, <1>2, <1>4, <1>5, <2>1, <3>1, <4>1, <4>2 DEF FundingBounded, Balanced, OnceACommand
    <3> QED BY <3>2, <3>3
  <2> QED BY <2>3, <2>4, <2>5 DEF Funding!Sent
<1> QED BY <1>8, <1>9, <1>10, <1>12, <1>13, <1>14, <1>15, <1>16, <1>17 DEF Funding!Next

-----------------------------------------------------------------------------
(* The update of the endpoints.                                             *)

Origins == Endpoints!Origins
EndpointFiles == [base : Origins \cup {"none"}, entries : [1..Agents -> Nat], completed : BOOLEAN]
EndpointTxs == [agent : 1..Agents, base : Origins, is : {"signed", "pool", "mined", "void"}]
Uris == Origins \cup {"first"}
Manifests == [endpoint : [1..Agents -> Uris], transactions : SUBSET Nat]
EndpointTypes ==
  /\ endpointFile \in EndpointFiles /\ endpointJournal \in EndpointFiles
  /\ endpointManifest \in Manifests
  /\ endpointAt \in {"off", "agent", "receipt"} /\ endpointAgent \in Nat \ {0}
  /\ endpointTxs \in Seq(EndpointTxs) /\ uri \in [1..Agents -> Uris]

\* What is done of an agent: its endpoint is moved, in the manifest too.
Moved(a, j) ==
  /\ uri[a] = j.base /\ endpointManifest.endpoint[a] = j.base
  /\ j.entries[a] # 0 => /\ endpointTxs[j.entries[a]].is = "mined"
                         /\ j.entries[a] \in endpointManifest.transactions
\* The transactions of a journal are of its agents and its origin.
Entered(j) ==
  \A a \in 1..Agents : j.entries[a] # 0 =>
    /\ j.entries[a] \in DOMAIN endpointTxs
    /\ endpointTxs[j.entries[a]].agent = a /\ endpointTxs[j.entries[a]].base = j.base
\* What may still be mined is in the journal on disk.
PoolEntered ==
  \A t \in DOMAIN endpointTxs : endpointTxs[t].is = "pool" => endpointFile.entries[endpointTxs[t].agent] = t
CompleteIsMoved == endpointFile.completed => \A a \in 1..Agents : Moved(a, endpointFile)

\* The command has moved the agents before the one it is at; its journal is the
\* one on disk, or has no entry yet and the one on disk is complete.
Fresh(j) == /\ j.base # "none" /\ \A a \in 1..Agents : j.entries[a] = 0
            /\ ~j.completed /\ j.base # endpointFile.base
            /\ endpointFile.completed \/ \A a \in 1..Agents : endpointFile.entries[a] = 0
AtAgent ==
  LET j == endpointJournal IN
  endpointAt # "off" =>
    /\ j.base # "none" /\ \A a \in 1..Agents : a < endpointAgent => Moved(a, j)
    /\ j = endpointFile \/ Fresh(j)
    /\ endpointAt = "receipt" => endpointAgent <= Agents /\ j.entries[endpointAgent] # 0
EndpointInv ==
  /\ EndpointTypes /\ Entered(endpointFile) /\ PoolEntered /\ CompleteIsMoved /\ AtAgent
  /\ endpointFile.base = "none" => \A a \in 1..Agents : endpointFile.entries[a] = 0

LEMMA EndpointTyped ==
  ASSUME EndpointInv
  PROVE /\ Agents \in Nat /\ Len(endpointTxs) \in Nat /\ DOMAIN endpointTxs = 1..Len(endpointTxs)
        /\ \A t \in DOMAIN endpointTxs : /\ endpointTxs[t] \in EndpointTxs /\ t \in Nat /\ t # 0
                                         /\ endpointTxs[t].agent \in 1..Agents
        /\ \A a \in 1..Agents : endpointFile.entries[a] \in Nat /\ endpointJournal.entries[a] \in Nat
<1>1. Agents \in Nat
  BY ComponentsAssumption DEF Endpoints!AgentsAreNumbered
<1>2. endpointTxs \in Seq(EndpointTxs)
  BY DEF EndpointInv, EndpointTypes
<1>3. /\ Len(endpointTxs) \in Nat /\ DOMAIN endpointTxs = 1..Len(endpointTxs)
      /\ \A t \in DOMAIN endpointTxs : endpointTxs[t] \in EndpointTxs /\ t \in Nat /\ t # 0
  BY <1>2
<1>4. \A x \in EndpointTxs : x.agent \in 1..Agents
  BY DEF EndpointTxs
<1>5. \A f \in EndpointFiles : \A a \in 1..Agents : f.entries[a] \in Nat
  BY DEF EndpointFiles
<1> QED BY <1>1, <1>3, <1>4, <1>5 DEF EndpointInv, EndpointTypes

\* Of a journal that is complete, or that names nothing, nothing is in the pool.
LEMMA PoolIsEmpty ==
  ASSUME EndpointInv, endpointFile.completed \/ \A a \in 1..Agents : endpointFile.entries[a] = 0
  PROVE \A t \in DOMAIN endpointTxs : endpointTxs[t].is # "pool"
<1> SUFFICES ASSUME NEW t \in DOMAIN endpointTxs, endpointTxs[t].is = "pool" PROVE FALSE
  OBVIOUS
<1>1. PICK a \in 1..Agents : a = endpointTxs[t].agent
  BY EndpointTyped
<1>2. endpointFile.entries[a] = t /\ t # 0
  BY <1>1, EndpointTyped DEF EndpointInv, PoolEntered
<1>3. endpointFile.completed => endpointTxs[t].is = "mined"
  BY <1>2 DEF EndpointInv, CompleteIsMoved, Moved
<1> QED BY <1>2, <1>3

\* The journal of a command names transactions of its own.
LEMMA JournalEntered == EndpointInv /\ endpointAt # "off" => Entered(endpointJournal)
  BY DEF EndpointInv, AtAgent, Fresh, Entered

LEMMA EndpointInit == Init => EndpointInv
<1> SUFFICES ASSUME Init PROVE EndpointInv
  OBVIOUS
<1>1. Endpoints!Init
  BY DEF Init
<1>2. Endpoints!NoJournal \in EndpointFiles /\ ~Endpoints!NoJournal.completed
      /\ \A a \in 1..Agents : Endpoints!NoJournal.entries[a] = 0
  BY DEF Endpoints!NoJournal, EndpointFiles
<1>3. endpointManifest \in Manifests
  BY <1>1 DEF Endpoints!Init, Manifests, Uris
<1>4. EndpointTypes
  BY <1>1, <1>2, <1>3 DEF Endpoints!Init, EndpointTypes, Uris
<1> QED BY <1>1, <1>2, <1>4 DEF EndpointInv, Endpoints!Init, Entered, PoolEntered, CompleteIsMoved, AtAgent

\* A transaction of another fate, which a move that is done does not have.
LEMMA FateChanged ==
  ASSUME EndpointInv, NEW t \in DOMAIN endpointTxs, NEW is \in {"signed", "pool", "mined", "void"},
         endpointTxs' = [endpointTxs EXCEPT ![t].is = is]
  PROVE /\ endpointTxs' \in Seq(EndpointTxs) /\ DOMAIN endpointTxs' = DOMAIN endpointTxs
        /\ endpointTxs'[t].is = is
        /\ \A u \in DOMAIN endpointTxs : /\ endpointTxs'[u].agent = endpointTxs[u].agent
                                         /\ endpointTxs'[u].base = endpointTxs[u].base
                                         /\ u # t => endpointTxs'[u].is = endpointTxs[u].is
        /\ UNCHANGED endpointFile => Entered(endpointFile)'
<1>1. PICK x \in EndpointTxs : x = endpointTxs[t]
  BY EndpointTyped
<1>2. PICK new \in EndpointTxs :
        new = [x EXCEPT !.is = is] /\ new.is = is /\ new.agent = x.agent /\ new.base = x.base
  <2>1. [x EXCEPT !.is = is] \in EndpointTxs
    BY DEF EndpointTxs
  <2> QED BY <2>1 DEF EndpointTxs
<1>3. endpointTxs' = [endpointTxs EXCEPT ![t] = new] /\ endpointTxs \in Seq(EndpointTxs)
  BY <1>1, <1>2 DEF EndpointInv, EndpointTypes
<1>4. endpointTxs' \in Seq(EndpointTxs)
  BY <1>3, ExceptSeq
<1>5. /\ DOMAIN endpointTxs' = DOMAIN endpointTxs /\ endpointTxs'[t] = new
      /\ \A u \in DOMAIN endpointTxs : u # t => endpointTxs'[u] = endpointTxs[u]
  BY <1>3
<1>6. \A u \in DOMAIN endpointTxs : /\ endpointTxs'[u].agent = endpointTxs[u].agent
                                    /\ endpointTxs'[u].base = endpointTxs[u].base
                                    /\ u # t => endpointTxs'[u].is = endpointTxs[u].is
  BY <1>1, <1>2, <1>5
<1>7. UNCHANGED endpointFile => Entered(endpointFile)'
  BY <1>5, <1>6 DEF EndpointInv, Entered
<1> QED BY <1>2, <1>4, <1>5, <1>6, <1>7

LEMMA EndpointMined ==
  ASSUME EndpointInv, NEW t \in DOMAIN endpointTxs, Endpoints!Mined(t)
  PROVE EndpointInv'
<1>1. /\ endpointTxs[t].is = "pool" /\ endpointTxs' = [endpointTxs EXCEPT ![t].is = "mined"]
      /\ uri' = [uri EXCEPT ![endpointTxs[t].agent] = endpointTxs[t].base]
      /\ UNCHANGED <<endpointFile, endpointJournal, endpointManifest, endpointAt, endpointAgent>>
  BY DEF Endpoints!Mined
<1>2. /\ endpointTxs' \in Seq(EndpointTxs) /\ DOMAIN endpointTxs' = DOMAIN endpointTxs
      /\ endpointTxs'[t].is = "mined"
      /\ \A u \in DOMAIN endpointTxs : /\ endpointTxs'[u].agent = endpointTxs[u].agent
                                       /\ endpointTxs'[u].base = endpointTxs[u].base
                                       /\ u # t => endpointTxs'[u].is = endpointTxs[u].is
      /\ Entered(endpointFile)'
  BY <1>1, FateChanged
<1>3. PICK a \in 1..Agents : a = endpointTxs[t].agent
  BY EndpointTyped
<1>4. endpointFile.entries[a] = t /\ t # 0 /\ ~endpointFile.completed
  BY <1>1, <1>3, EndpointTyped, PoolIsEmpty DEF EndpointInv, PoolEntered
<1>5. endpointAt # "off" => endpointJournal = endpointFile
  BY <1>4 DEF EndpointInv, AtAgent, Fresh
<1>6. \A b \in 1..Agents : b # a => uri'[b] = uri[b]
  BY <1>1, <1>3 DEF EndpointInv, EndpointTypes
<1>7. EndpointTypes'
  <2>1. endpointTxs[t].base \in Uris
    <3>1. endpointTxs[t] \in EndpointTxs
      BY EndpointTyped
    <3> QED BY <3>1 DEF EndpointTxs, Uris
  <2>2. uri' \in [1..Agents -> Uris]
    BY <1>1, <2>1 DEF EndpointInv, EndpointTypes
  <2> QED BY <1>1, <1>2, <2>2 DEF EndpointInv, EndpointTypes
<1>8. PoolEntered'
  BY <1>1, <1>2 DEF EndpointInv, PoolEntered
<1>9. CompleteIsMoved'
  BY <1>1, <1>4 DEF CompleteIsMoved
<1>10. AtAgent'
  <2> SUFFICES ASSUME endpointAt # "off" PROVE AtAgent'
    BY <1>1 DEF AtAgent
  <2>1. ASSUME NEW b \in 1..Agents, Moved(b, endpointJournal) PROVE Moved(b, endpointJournal)'
    <3>1. b # a
      BY <1>1, <1>4, <1>5, <2>1 DEF Moved
    <3>2. endpointJournal.entries[b] # 0 => endpointJournal.entries[b] \in DOMAIN endpointTxs
      BY <1>5 DEF EndpointInv, Entered
    <3> QED BY <1>1, <1>2, <1>6, <2>1, <3>1, <3>2 DEF Moved
  <2>2. Fresh(endpointJournal)' = Fresh(endpointJournal)
    BY <1>1 DEF Fresh
  <2> QED BY <1>1, <1>5, <2>1, <2>2 DEF EndpointInv, AtAgent
<1> QED BY <1>1, <1>2, <1>7, <1>8, <1>9, <1>10 DEF EndpointInv

\* What is not mined is of no move that is done.
LEMMA MovesStay ==
  ASSUME EndpointInv, NEW t \in DOMAIN endpointTxs, endpointTxs[t].is # "mined",
         NEW is \in {"signed", "pool", "void"},
         endpointTxs' = [endpointTxs EXCEPT ![t].is = is], UNCHANGED <<uri, endpointManifest>>,
         NEW j, Entered(j), NEW a \in 1..Agents, Moved(a, j)
  PROVE Moved(a, j)'
<1>1. \A u \in DOMAIN endpointTxs : u # t => endpointTxs'[u].is = endpointTxs[u].is
  BY FateChanged
<1>2. j.entries[a] # 0 => j.entries[a] \in DOMAIN endpointTxs /\ j.entries[a] # t
  BY DEF Entered, Moved
<1> QED BY <1>1, <1>2 DEF Moved

LEMMA EndpointDropped ==
  ASSUME EndpointInv, NEW t \in DOMAIN endpointTxs, Endpoints!Dropped(t)
  PROVE EndpointInv'
<1>1. PICK is \in {"signed", "void"} :
        /\ endpointTxs[t].is \in {"signed", "pool"} /\ endpointTxs' = [endpointTxs EXCEPT ![t].is = is]
        /\ UNCHANGED <<endpointFile, endpointJournal, endpointManifest, endpointAt, endpointAgent, uri>>
  BY DEF Endpoints!Dropped
<1>2. /\ endpointTxs' \in Seq(EndpointTxs) /\ DOMAIN endpointTxs' = DOMAIN endpointTxs
      /\ endpointTxs'[t].is = is
      /\ \A u \in DOMAIN endpointTxs : /\ endpointTxs'[u].agent = endpointTxs[u].agent
                                       /\ u # t => endpointTxs'[u].is = endpointTxs[u].is
      /\ Entered(endpointFile)'
  BY <1>1, FateChanged
<1>3. ASSUME NEW a \in 1..Agents, NEW j, Entered(j), Moved(a, j) PROVE Moved(a, j)'
  BY <1>1, <1>3, MovesStay
<1>4. EndpointTypes'
  BY <1>1, <1>2 DEF EndpointInv, EndpointTypes
<1>5. PoolEntered'
  BY <1>1, <1>2 DEF EndpointInv, PoolEntered
<1>6. PICK f, j : f = endpointFile /\ j = endpointJournal
  OBVIOUS
<1>7. CompleteIsMoved'
  BY <1>1, <1>3, <1>6 DEF EndpointInv, CompleteIsMoved
<1>8. AtAgent'
  <2>1. endpointAt # "off" => Entered(j)
    BY <1>6, JournalEntered
  <2>2. Fresh(j)' = Fresh(j)
    BY <1>1 DEF Fresh
  <2> QED BY <1>1, <1>3, <1>6, <2>1, <2>2 DEF EndpointInv, AtAgent
<1> QED BY <1>1, <1>2, <1>4, <1>5, <1>7, <1>8 DEF EndpointInv

LEMMA EndpointStart ==
  ASSUME EndpointInv, NEW base \in Origins, Endpoints!Start(base)
  PROVE EndpointInv'
<1>1. /\ endpointAgent' = 1 /\ endpointAt' = "agent" /\ endpointAt = "off"
      /\ endpointFile.base \in {"none", base} \/ endpointFile.completed
      /\ endpointJournal' = IF endpointFile.base = base THEN endpointFile
                            ELSE [Endpoints!NoJournal EXCEPT !.base = base]
      /\ UNCHANGED <<endpointFile, endpointManifest, endpointTxs, uri>>
  BY DEF Endpoints!Start
<1>2. PICK fresh \in EndpointFiles :
        /\ fresh = [Endpoints!NoJournal EXCEPT !.base = base]
        /\ fresh.base = base /\ ~fresh.completed /\ \A a \in 1..Agents : fresh.entries[a] = 0
  <2>1. [Endpoints!NoJournal EXCEPT !.base = base] \in EndpointFiles
    BY DEF Endpoints!NoJournal, EndpointFiles
  <2> QED BY <2>1 DEF Endpoints!NoJournal
<1>3. base # "none"
  BY DEF Origins, Endpoints!Origins
<1>4. \/ endpointJournal' = endpointFile /\ endpointFile.base = base
      \/ endpointJournal' = fresh /\ endpointFile.base # base
  BY <1>1, <1>2
<1>5. endpointFile.base # base => endpointFile.completed \/ \A a \in 1..Agents : endpointFile.entries[a] = 0
  BY <1>1 DEF EndpointInv
<1>6. EndpointTypes'
  BY <1>1, <1>2, <1>4 DEF EndpointInv, EndpointTypes
<1>7. AtAgent'
  <2>1. endpointJournal'.base # "none"
    BY <1>2, <1>3, <1>4
  <2>2. endpointJournal' = endpointFile' \/ Fresh(endpointJournal)'
    BY <1>1, <1>2, <1>3, <1>4, <1>5 DEF Fresh
  <2>3. \A a \in 1..Agents : ~(a < endpointAgent')
    BY <1>1, EndpointTyped
  <2> QED BY <1>1, <2>1, <2>2, <2>3 DEF AtAgent
<1>8. Entered(endpointFile)' /\ PoolEntered' /\ CompleteIsMoved'
  BY <1>1 DEF EndpointInv, Entered, PoolEntered, CompleteIsMoved, Moved
<1> QED BY <1>1, <1>6, <1>7, <1>8 DEF EndpointInv

LEMMA EndpointSign ==
  ASSUME EndpointInv, Endpoints!Sign
  PROVE EndpointInv'
<1>1. PICK a, j, n : a = endpointAgent /\ j = endpointJournal /\ n = Len(endpointTxs) + 1
  OBVIOUS
<1>2. /\ endpointAt = "agent" /\ a <= Agents /\ j.entries[a] = 0 /\ uri[a] # j.base
      /\ endpointTxs' = Append(endpointTxs, [agent |-> a, base |-> j.base, is |-> "signed"])
      /\ endpointJournal' = [j EXCEPT !.entries[a] = Len(endpointTxs')] /\ endpointFile' = endpointJournal'
      /\ UNCHANGED <<endpointManifest, endpointAt, endpointAgent, uri>>
  BY <1>1 DEF Endpoints!Sign
<1>3. a \in 1..Agents /\ j \in EndpointFiles
  BY <1>1, <1>2, EndpointTyped DEF EndpointInv, EndpointTypes
<1>4. /\ j.base # "none" /\ (\A b \in 1..Agents : b < a => Moved(b, j))
      /\ j = endpointFile \/ Fresh(j)
  BY <1>1, <1>2 DEF EndpointInv, AtAgent
<1>5. ~j.completed
  BY <1>2, <1>3, <1>4 DEF EndpointInv, CompleteIsMoved, Moved, Fresh
<1>6. PICK new \in EndpointTxs :
        /\ new = [agent |-> a, base |-> j.base, is |-> "signed"]
        /\ new.agent = a /\ new.base = j.base /\ new.is = "signed"
  <2>1. [agent |-> a, base |-> j.base, is |-> "signed"] \in EndpointTxs
    BY <1>3, <1>4 DEF EndpointTxs, EndpointFiles
  <2> QED BY <2>1
<1>7. /\ endpointTxs' \in Seq(EndpointTxs) /\ DOMAIN endpointTxs' = DOMAIN endpointTxs \cup {n}
      /\ Len(endpointTxs') = n /\ n \notin DOMAIN endpointTxs /\ endpointTxs'[n] = new
      /\ \A t \in DOMAIN endpointTxs : endpointTxs'[t] = endpointTxs[t]
  <2>1. endpointTxs \in Seq(EndpointTxs) /\ endpointTxs' = Append(endpointTxs, new)
    BY <1>2, <1>6 DEF EndpointInv, EndpointTypes
  <2>2. /\ endpointTxs' \in Seq(EndpointTxs) /\ Len(endpointTxs') = n
        /\ endpointTxs'[n] = new /\ \A t \in 1..Len(endpointTxs) : endpointTxs'[t] = endpointTxs[t]
    BY <1>1, <2>1, AppendProperties
  <2>3. DOMAIN endpointTxs' = 1..n /\ DOMAIN endpointTxs = 1..Len(endpointTxs) /\ Len(endpointTxs) \in Nat
    BY <2>1, <2>2
  <2> QED BY <1>1, <2>2, <2>3
<1>8. n \in Nat /\ n # 0
  BY <1>1, EndpointTyped
<1>9. PICK f \in EndpointFiles :
        /\ f = endpointFile' /\ f.base = j.base /\ ~f.completed
        /\ f.entries[a] = n /\ \A b \in 1..Agents : b # a => f.entries[b] = j.entries[b]
  <2>1. [j EXCEPT !.entries[a] = n] \in EndpointFiles
    BY <1>3, <1>8 DEF EndpointFiles
  <2>2. endpointFile' = [j EXCEPT !.entries[a] = n]
    BY <1>2, <1>7
  <2>3. /\ [j EXCEPT !.entries[a] = n].base = j.base /\ [j EXCEPT !.entries[a] = n].completed = j.completed
        /\ [j EXCEPT !.entries[a] = n].entries[a] = n
        /\ \A b \in 1..Agents : b # a => [j EXCEPT !.entries[a] = n].entries[b] = j.entries[b]
    BY <1>3 DEF EndpointFiles
  <2> QED BY <1>5, <2>1, <2>2, <2>3
<1>10. Entered(j)
  BY <1>1, <1>2, JournalEntered
<1>11. Entered(f)'
  <2> SUFFICES ASSUME NEW b \in 1..Agents, f.entries[b] # 0
               PROVE /\ f.entries[b] \in DOMAIN endpointTxs' /\ endpointTxs'[f.entries[b]].agent = b
                     /\ endpointTxs'[f.entries[b]].base = f.base
    BY DEF Entered
  <2>1. CASE b = a
    BY <1>6, <1>7, <1>9, <2>1
  <2>2. CASE b # a
    BY <1>7, <1>9, <1>10, <2>2 DEF Entered
  <2> QED BY <2>1, <2>2
<1>12. PoolEntered'
  <2> SUFFICES ASSUME NEW t \in DOMAIN endpointTxs', endpointTxs'[t].is = "pool"
               PROVE f.entries[endpointTxs'[t].agent] = t
    BY <1>9 DEF PoolEntered
  <2>1. t \in DOMAIN endpointTxs /\ endpointTxs'[t] = endpointTxs[t]
    BY <1>6, <1>7
  <2>2. PICK b \in 1..Agents : b = endpointTxs[t].agent
    BY <2>1, EndpointTyped
  <2>3. endpointFile.entries[b] = t /\ t # 0
    BY <2>1, <2>2, EndpointTyped DEF EndpointInv, PoolEntered
  <2>4. j = endpointFile
    <3>1. CASE Fresh(j)
      BY <2>1, <3>1, PoolIsEmpty DEF Fresh
    <3> QED BY <1>4, <3>1
  <2>5. b # a
    BY <1>2, <2>3, <2>4
  <2> QED BY <1>9, <2>1, <2>2, <2>3, <2>4, <2>5
<1>13. CompleteIsMoved'
  BY <1>9 DEF CompleteIsMoved
<1>14. AtAgent'
  <2>1. ASSUME NEW b \in 1..Agents, b < a PROVE Moved(b, f)'
    <3>1. Moved(b, j) /\ b # a
      BY <1>3, <1>4, <2>1, EndpointTyped
    <3>2. j.entries[b] # 0 => j.entries[b] \in DOMAIN endpointTxs
      BY <1>10 DEF Entered
    <3> QED BY <1>2, <1>7, <1>9, <3>1, <3>2 DEF Moved
  <2>2. endpointJournal' = f /\ endpointAgent' = a /\ endpointAt' = "agent"
    BY <1>1, <1>2, <1>9
  <2> QED BY <1>4, <1>9, <2>1, <2>2 DEF AtAgent
<1>15. EndpointTypes'
  BY <1>2, <1>7, <1>9 DEF EndpointInv, EndpointTypes
<1> QED BY <1>4, <1>9, <1>11, <1>12, <1>13, <1>14, <1>15 DEF EndpointInv

LEMMA EndpointBroadcast ==
  ASSUME EndpointInv, Endpoints!Broadcast
  PROVE EndpointInv'
<1>1. PICK a, j, f, t : a = endpointAgent /\ j = endpointJournal /\ f = endpointFile /\ t = j.entries[a]
  OBVIOUS
<1>2. /\ endpointAt = "agent" /\ a <= Agents /\ t # 0
      /\ \/ UNCHANGED endpointTxs /\ endpointAt' \in {"receipt", "off"}
         \/ /\ endpointTxs[t].is \notin {"pool", "mined", "void"} /\ endpointAt' = "receipt"
            /\ endpointTxs' = [endpointTxs EXCEPT ![t].is = "pool"]
      /\ UNCHANGED <<endpointFile, endpointJournal, endpointManifest, endpointAgent, uri>>
  BY <1>1 DEF Endpoints!Broadcast
<1>3. a \in 1..Agents
  BY <1>1, <1>2, EndpointTyped DEF EndpointInv, EndpointTypes
<1>4. j = f /\ j.base # "none" /\ \A b \in 1..Agents : b < a => Moved(b, j)
  BY <1>1, <1>2, <1>3 DEF EndpointInv, AtAgent, Fresh
<1>5. CASE UNCHANGED endpointTxs
  <2>1. \A b \in 1..Agents : Moved(b, j)' = Moved(b, j)
    BY <1>2, <1>5 DEF Moved
  <2>2. EndpointTypes' /\ Entered(endpointFile)' /\ PoolEntered' /\ CompleteIsMoved'
    BY <1>2, <1>5 DEF EndpointInv, EndpointTypes, Entered, PoolEntered, CompleteIsMoved, Moved
  <2>3. AtAgent'
    BY <1>1, <1>2, <1>4, <2>1 DEF AtAgent
  <2> QED BY <1>2, <2>2, <2>3 DEF EndpointInv
<1>6. CASE ~UNCHANGED endpointTxs
  <2>1. t \in DOMAIN endpointTxs /\ endpointTxs[t].agent = a
    BY <1>1, <1>2, <1>3, <1>4 DEF EndpointInv, Entered
  <2>2. endpointTxs[t].is # "mined" /\ endpointTxs' = [endpointTxs EXCEPT ![t].is = "pool"]
        /\ endpointAt' = "receipt"
    BY <1>2, <1>6
  <2>3. /\ endpointTxs' \in Seq(EndpointTxs) /\ DOMAIN endpointTxs' = DOMAIN endpointTxs
        /\ \A u \in DOMAIN endpointTxs : /\ endpointTxs'[u].agent = endpointTxs[u].agent
                                         /\ u # t => endpointTxs'[u].is = endpointTxs[u].is
        /\ Entered(endpointFile)'
    BY <1>2, <2>1, <2>2, FateChanged
  <2>4. \A b \in 1..Agents : Moved(b, f) => Moved(b, f)'
    <3>1. Entered(f)
      BY <1>1 DEF EndpointInv
    <3> SUFFICES ASSUME NEW b \in 1..Agents, Moved(b, f) PROVE Moved(b, f)'
      OBVIOUS
    <3> QED BY <1>2, <2>1, <2>2, <3>1, MovesStay
  <2>5. PoolEntered'
    <3>1. f = endpointFile /\ UNCHANGED endpointFile /\ f.entries[a] = t
      BY <1>1, <1>2, <1>4
    <3> SUFFICES ASSUME NEW u \in DOMAIN endpointTxs, endpointTxs'[u].is = "pool"
                 PROVE f.entries[endpointTxs'[u].agent] = u
      BY <2>3, <3>1 DEF PoolEntered
    <3>2. endpointTxs'[u].agent = endpointTxs[u].agent
      BY <2>3
    <3>3. CASE u = t
      BY <2>1, <3>1, <3>2, <3>3
    <3>4. CASE u # t
      <4>1. endpointTxs[u].is = "pool"
        BY <2>3, <3>4
      <4> QED BY <3>1, <3>2, <4>1 DEF EndpointInv, PoolEntered
    <3> QED BY <3>3, <3>4
  <2>6. CompleteIsMoved'
    BY <1>1, <1>2, <2>4 DEF EndpointInv, CompleteIsMoved
  <2>7. AtAgent'
    BY <1>1, <1>2, <1>4, <2>4 DEF AtAgent
  <2>8. EndpointTypes'
    BY <1>2, <2>2, <2>3 DEF EndpointInv, EndpointTypes
  <2> QED BY <1>2, <2>3, <2>5, <2>6, <2>7, <2>8 DEF EndpointInv
<1> QED BY <1>5, <1>6

LEMMA EndpointReceipt ==
  ASSUME EndpointInv, Endpoints!Receipt
  PROVE EndpointInv'
<1>1. PICK a, j, f, t : a = endpointAgent /\ j = endpointJournal /\ f = endpointFile /\ t = j.entries[a]
  OBVIOUS
<1>2. /\ \/ endpointAt = "receipt" /\ endpointTxs[t].is = "mined"
         \/ endpointAt = "agent" /\ a <= Agents /\ t = 0
      /\ uri[a] = j.base /\ endpointAt' = "agent" /\ endpointAgent' = a + 1
      /\ endpointManifest' = [endpoint |-> [endpointManifest.endpoint EXCEPT ![a] = j.base],
                              transactions |-> endpointManifest.transactions \cup ({t} \ {0})]
      /\ UNCHANGED <<endpointFile, endpointJournal, endpointTxs, uri>>
  BY <1>1 DEF Endpoints!Receipt
<1>3. a <= Agents /\ a \in Nat /\ a # 0 /\ a \in 1..Agents
  <2>1. a <= Agents /\ a \in Nat /\ a # 0
    BY <1>1, <1>2 DEF EndpointInv, EndpointTypes, AtAgent
  <2> QED BY <2>1, EndpointTyped
<1>4. /\ j.base # "none" /\ (\A b \in 1..Agents : b < a => Moved(b, j))
      /\ j = f \/ Fresh(j)
  BY <1>1, <1>2 DEF EndpointInv, AtAgent
<1>5. j \in EndpointFiles /\ f \in EndpointFiles /\ t \in Nat /\ j.base \in Uris
  <2>1. j \in EndpointFiles /\ f \in EndpointFiles
    BY <1>1 DEF EndpointInv, EndpointTypes
  <2> QED BY <1>1, <1>3, <1>4, <2>1, EndpointTyped DEF EndpointFiles, Uris
<1>6. /\ endpointManifest \in Manifests /\ endpointManifest' \in Manifests
      /\ endpointManifest'.endpoint[a] = j.base
      /\ \A b \in 1..Agents : b # a => endpointManifest'.endpoint[b] = endpointManifest.endpoint[b]
      /\ endpointManifest.transactions \subseteq endpointManifest'.transactions
      /\ t # 0 => t \in endpointManifest'.transactions
  <2>1. PICK m \in Manifests : m = endpointManifest
    BY DEF EndpointInv, EndpointTypes
  <2>2. m.endpoint \in [1..Agents -> Uris] /\ m.transactions \in SUBSET Nat
    BY <2>1 DEF Manifests
  <2>3. [m.endpoint EXCEPT ![a] = j.base] \in [1..Agents -> Uris]
    BY <1>3, <1>5, <2>2
  <2>4. m.transactions \cup ({t} \ {0}) \in SUBSET Nat
    BY <1>5, <2>2
  <2> QED BY <1>2, <1>3, <2>1, <2>2, <2>3, <2>4 DEF Manifests
<1>7. \A b \in 1..Agents : b # a => \A g : Moved(b, g) => Moved(b, g)'
  BY <1>2, <1>6 DEF Moved
<1>8. Moved(a, j)'
  BY <1>1, <1>2, <1>6 DEF Moved
<1>9. CompleteIsMoved'
  <2> SUFFICES ASSUME f.completed, NEW b \in 1..Agents PROVE Moved(b, f)'
    BY <1>1, <1>2 DEF CompleteIsMoved
  <2>1. Moved(b, f)
    BY <1>1 DEF EndpointInv, CompleteIsMoved
  <2>2. CASE b # a
    BY <1>7, <2>1, <2>2
  <2>3. CASE b = a
    <3>1. ~Fresh(j)
      BY <1>1, <1>2, <2>1, <2>3 DEF Fresh, Moved
    <3> QED BY <1>4, <1>8, <2>3, <3>1
  <2> QED BY <2>2, <2>3
<1>10. AtAgent'
  <2>1. ASSUME NEW b \in 1..Agents, b < a + 1 PROVE Moved(b, j)'
    <3>1. b < a \/ b = a
      BY <1>3, <2>1, EndpointTyped
    <3>2. b < a => b # a
      BY <1>3, EndpointTyped
    <3> QED BY <1>4, <1>7, <1>8, <3>1, <3>2
  <2>2. Fresh(j)' = Fresh(j)
    BY <1>2 DEF Fresh
  <2> QED BY <1>1, <1>2, <1>4, <2>1, <2>2 DEF AtAgent
<1>11. EndpointTypes'
  <2>1. endpointAgent' \in Nat \ {0}
    BY <1>2, <1>3
  <2> QED BY <1>2, <1>6, <2>1 DEF EndpointInv, EndpointTypes
<1>12. Entered(endpointFile)' /\ PoolEntered'
  BY <1>2 DEF EndpointInv, Entered, PoolEntered
<1> QED BY <1>2, <1>9, <1>10, <1>11, <1>12 DEF EndpointInv

LEMMA EndpointComplete ==
  ASSUME EndpointInv, Endpoints!Complete
  PROVE EndpointInv'
<1>1. PICK j : j = endpointJournal
  OBVIOUS
<1>2. /\ endpointAt = "agent" /\ endpointAgent > Agents /\ endpointAt' = "off"
      /\ endpointJournal' = [j EXCEPT !.completed = TRUE] /\ endpointFile' = endpointJournal'
      /\ UNCHANGED <<endpointManifest, endpointAgent, endpointTxs, uri>>
  BY <1>1 DEF Endpoints!Complete
<1>3. \A a \in 1..Agents : Moved(a, j)
  <2>1. \A a \in 1..Agents : a < endpointAgent
    BY <1>2, EndpointTyped DEF EndpointInv, EndpointTypes
  <2> QED BY <1>1, <1>2, <2>1 DEF EndpointInv, AtAgent
<1>4. j.base # "none" /\ (j = endpointFile \/ Fresh(j)) /\ Entered(j)
  BY <1>1, <1>2, JournalEntered DEF EndpointInv, AtAgent
<1>5. PICK f \in EndpointFiles : f = endpointFile' /\ f.base = j.base /\ f.entries = j.entries /\ f.completed
  <2>1. j \in EndpointFiles
    BY <1>1 DEF EndpointInv, EndpointTypes
  <2>2. [j EXCEPT !.completed = TRUE] \in EndpointFiles
    BY <2>1 DEF EndpointFiles
  <2> QED BY <1>2, <2>1, <2>2 DEF EndpointFiles
<1>6. \A a \in 1..Agents : Moved(a, f)'
  BY <1>2, <1>3, <1>5 DEF Moved
<1>7. Entered(f)'
  BY <1>2, <1>4, <1>5 DEF Entered
<1>8. PoolEntered'
  <2> SUFFICES ASSUME NEW t \in DOMAIN endpointTxs, endpointTxs[t].is = "pool"
               PROVE j.entries[endpointTxs[t].agent] = t
    BY <1>2, <1>5 DEF PoolEntered
  <2>1. j = endpointFile
    <3>1. CASE Fresh(j)
      BY <3>1, PoolIsEmpty DEF Fresh
    <3> QED BY <1>4, <3>1
  <2> QED BY <2>1 DEF EndpointInv, PoolEntered
<1>9. EndpointTypes'
  BY <1>2, <1>5 DEF EndpointInv, EndpointTypes
<1> QED BY <1>2, <1>4, <1>5, <1>6, <1>7, <1>8, <1>9 DEF EndpointInv, CompleteIsMoved, AtAgent

LEMMA EndpointSame == EndpointInv /\ UNCHANGED <<Endpoints!vars>> => EndpointInv'
<1> SUFFICES ASSUME EndpointInv, UNCHANGED <<Endpoints!vars>> PROVE EndpointInv'
  OBVIOUS
<1>1. UNCHANGED <<endpointFile, endpointJournal, endpointManifest, endpointAt, endpointAgent, endpointTxs, uri>>
  BY DEF Endpoints!vars
<1> QED BY <1>1 DEF EndpointInv, EndpointTypes, Entered, PoolEntered, CompleteIsMoved, AtAgent, Moved, Fresh

LEMMA EndpointStep == EndpointInv /\ [Endpoints!Next]_(Endpoints!vars) => EndpointInv'
<1> SUFFICES ASSUME EndpointInv, [Endpoints!Next]_(Endpoints!vars) PROVE EndpointInv'
  OBVIOUS
<1>1. CASE Endpoints!Stop
  <2>1. endpointAt' = "off"
        /\ UNCHANGED <<endpointFile, endpointJournal, endpointManifest, endpointAgent, endpointTxs, uri>>
    BY <1>1 DEF Endpoints!Stop
  <2> QED BY <2>1 DEF EndpointInv, EndpointTypes, Entered, PoolEntered, CompleteIsMoved, AtAgent, Moved
<1>2. CASE UNCHANGED Endpoints!vars
  BY <1>2, EndpointSame
<1> QED BY <1>1, <1>2, EndpointMined, EndpointDropped, EndpointStart, EndpointSign, EndpointBroadcast,
          EndpointReceipt, EndpointComplete DEF Endpoints!Next, Origins

LEMMA EndpointSound == EndpointInv => Endpoints!NothingAstray
<1> SUFFICES ASSUME EndpointInv PROVE Endpoints!NothingAstray
  OBVIOUS
<1>1. ASSUME NEW t \in DOMAIN endpointTxs, endpointTxs[t].is = "pool"
      PROVE /\ endpointFile.entries[endpointTxs[t].agent] = t /\ endpointFile.base = endpointTxs[t].base
  <2>1. PICK a \in 1..Agents : a = endpointTxs[t].agent
    BY EndpointTyped
  <2>2. endpointFile.entries[a] = t /\ t # 0
    BY <1>1, <2>1, EndpointTyped DEF EndpointInv, PoolEntered
  <2> QED BY <2>1, <2>2 DEF EndpointInv, Entered
<1> QED BY <1>1 DEF Endpoints!NothingAstray, EndpointInv, CompleteIsMoved, Moved

\* The agents are taken in their order, and the manifest has transactions that were signed.
EndpointBounded ==
  /\ endpointAgent <= Agents + 1 /\ endpointCommands \in 0..MoveCommands /\ Len(endpointTxs) <= MaxMoves
  /\ endpointManifest.transactions \subseteq DOMAIN endpointTxs

LEMMA EndpointBoundedInit == Endpoints!Init => EndpointBounded
<1> SUFFICES ASSUME Endpoints!Init PROVE EndpointBounded
  OBVIOUS
<1>1. Agents \in Nat /\ MoveCommands \in Nat /\ MaxMoves \in Nat
  BY ComponentsAssumption DEF Endpoints!AgentsAreNumbered
<1>2. /\ endpointAgent = 1 /\ endpointCommands = 0 /\ endpointTxs = <<>> /\ Len(endpointTxs) = 0
      /\ endpointManifest.transactions = {}
  BY DEF Endpoints!Init
<1> QED BY <1>1, <1>2 DEF EndpointBounded

LEMMA EndpointTypeOK == EndpointInv /\ EndpointBounded => Endpoints!TypeOK
<1> SUFFICES ASSUME EndpointInv, EndpointBounded PROVE Endpoints!TypeOK
  OBVIOUS
<1>1. \A t \in DOMAIN endpointTxs :
        endpointTxs[t].agent \in 1..Agents /\ endpointTxs[t].is \in {"signed", "pool", "mined", "void"}
  BY EndpointTyped DEF EndpointTxs
<1>2. endpointFile.entries \in [1..Agents -> 0..Len(endpointTxs)]
  <2>1. endpointFile.entries \in [1..Agents -> Nat]
    BY DEF EndpointInv, EndpointTypes, EndpointFiles
  <2>2. \A a \in 1..Agents : endpointFile.entries[a] # 0 => endpointFile.entries[a] \in 1..Len(endpointTxs)
    BY EndpointTyped DEF EndpointInv, Entered
  <2>3. 0 \in 0..Len(endpointTxs) /\ \A t \in 1..Len(endpointTxs) : t \in 0..Len(endpointTxs)
    BY EndpointTyped
  <2>4. \A a \in 1..Agents : endpointFile.entries[a] \in 0..Len(endpointTxs)
    BY <2>2, <2>3
  <2> QED BY <2>1, <2>4
<1>3. endpointAgent \in 1..(Agents + 1)
  <2>1. endpointAgent \in Nat \ {0} /\ Agents \in Nat /\ endpointAgent <= Agents + 1
    BY EndpointTyped DEF EndpointInv, EndpointTypes, EndpointBounded
  <2> QED BY <2>1
<1>4. {endpointFile.base, endpointJournal.base} \subseteq Origins \cup {"none"}
      /\ endpointAt \in {"off", "agent", "receipt"}
  BY DEF EndpointInv, EndpointTypes, EndpointFiles
<1> QED BY <1>1, <1>2, <1>3, <1>4 DEF EndpointBounded, Endpoints!TypeOK, Origins

LEMMA EndpointBoundedStep ==
  ASSUME EndpointInv, EndpointInv', EndpointBounded, UNCHANGED endpointsVars \/ Endpoints!Next
  PROVE  EndpointBounded'
<1>1. Agents \in Nat /\ MoveCommands \in Nat /\ MaxMoves \in Nat
  BY ComponentsAssumption DEF Endpoints!AgentsAreNumbered
<1>2. /\ endpointAgent \in Nat /\ endpointAgent <= Agents + 1
      /\ endpointCommands \in Nat /\ endpointCommands <= MoveCommands /\ Len(endpointTxs) <= MaxMoves
      /\ Len(endpointTxs) \in Nat /\ DOMAIN endpointTxs = 1..Len(endpointTxs)
      /\ Len(endpointTxs') \in Nat /\ DOMAIN endpointTxs' = 1..Len(endpointTxs')
  BY <1>1, EndpointTyped DEF EndpointInv, EndpointTypes, EndpointBounded
<1>3. endpointTxs \in Seq(EndpointTxs) /\ endpointTxs' \in Seq(EndpointTxs)
  BY DEF EndpointInv, EndpointTypes
<1>4. ASSUME NEW t \in DOMAIN endpointTxs, NEW is \in {"signed", "pool", "mined", "void"},
             endpointTxs' = [endpointTxs EXCEPT ![t].is = is]
      PROVE  DOMAIN endpointTxs' = DOMAIN endpointTxs /\ Len(endpointTxs') = Len(endpointTxs)
  BY <1>3, <1>4, LenProperties
<1>5. CASE UNCHANGED endpointsVars \/ Endpoints!Stop \/ Endpoints!Complete
  BY <1>5 DEF EndpointBounded, endpointsVars, Endpoints!Stop, Endpoints!Complete
<1>6. ASSUME NEW t \in DOMAIN endpointTxs, Endpoints!Mined(t) \/ Endpoints!Dropped(t) PROVE EndpointBounded'
  <2>1. UNCHANGED <<endpointAgent, endpointCommands, endpointManifest>>
    BY <1>6 DEF Endpoints!Mined, Endpoints!Dropped
  <2>2. DOMAIN endpointTxs' = DOMAIN endpointTxs /\ Len(endpointTxs') = Len(endpointTxs)
    BY <1>4, <1>6 DEF Endpoints!Mined, Endpoints!Dropped
  <2> QED BY <2>1, <2>2 DEF EndpointBounded
<1>7. ASSUME NEW base, Endpoints!Start(base) PROVE EndpointBounded'
  <2>1. /\ endpointCommands' = endpointCommands + 1 /\ endpointCommands < MoveCommands /\ endpointAgent' = 1
        /\ UNCHANGED <<endpointTxs, endpointManifest>>
    BY <1>7 DEF Endpoints!Start
  <2>2. endpointCommands' \in 0..MoveCommands /\ endpointAgent' <= Agents + 1
    BY <1>1, <1>2, <2>1
  <2> QED BY <2>1, <2>2 DEF EndpointBounded
<1>8. CASE Endpoints!Sign
  <2>1. PICK new : new = [agent |-> endpointAgent, base |-> endpointJournal.base, is |-> "signed"]
    OBVIOUS
  <2>2. /\ endpointTxs' = Append(endpointTxs, new) /\ Len(endpointTxs) < MaxMoves
        /\ UNCHANGED <<endpointAgent, endpointCommands, endpointManifest>>
    BY <1>8, <2>1 DEF Endpoints!Sign
  <2>3. Len(endpointTxs') = Len(endpointTxs) + 1
    BY <1>3, <2>2
  <2>4. DOMAIN endpointTxs \subseteq DOMAIN endpointTxs' /\ Len(endpointTxs') <= MaxMoves
    BY <1>1, <1>2, <2>2, <2>3
  <2> QED BY <2>2, <2>4 DEF EndpointBounded
<1>9. CASE Endpoints!Broadcast
  <2>1. UNCHANGED <<endpointAgent, endpointCommands, endpointManifest>>
    BY <1>9 DEF Endpoints!Broadcast
  <2>2. CASE UNCHANGED endpointTxs
    BY <2>1, <2>2 DEF EndpointBounded
  <2>3. CASE endpointTxs' # endpointTxs
    <3>1. PICK t : t = endpointJournal.entries[endpointAgent]
      OBVIOUS
    <3>2. endpointTxs' = [endpointTxs EXCEPT ![t].is = "pool"]
      BY <1>9, <2>3, <3>1 DEF Endpoints!Broadcast
    <3>3. endpointAt # "off" /\ endpointAgent \in 1..Agents /\ t # 0
      <4>1. endpointAgent \in Nat \ {0} /\ endpointAgent <= Agents /\ endpointAt # "off" /\ t # 0
        BY <1>9, <3>1 DEF Endpoints!Broadcast, EndpointInv, EndpointTypes
      <4> QED BY <1>1, <4>1
    <3>4. t \in DOMAIN endpointTxs
      BY <3>1, <3>3, JournalEntered DEF Entered
    <3>5. DOMAIN endpointTxs' = DOMAIN endpointTxs /\ Len(endpointTxs') = Len(endpointTxs)
      BY <1>4, <3>2, <3>4
    <3> QED BY <2>1, <3>5 DEF EndpointBounded
  <2> QED BY <2>2, <2>3
<1>10. CASE Endpoints!Receipt
  <2>1. PICK t : t = endpointJournal.entries[endpointAgent]
    OBVIOUS
  <2>2. /\ endpointAgent' = endpointAgent + 1 /\ endpointAt # "off" /\ UNCHANGED <<endpointCommands, endpointTxs>>
        /\ endpointManifest'.transactions = endpointManifest.transactions \cup ({t} \ {0})
    BY <1>10, <2>1 DEF Endpoints!Receipt
  <2>3. endpointAgent \in Nat \ {0} /\ endpointAgent <= Agents
    <3>1. endpointAt = "receipt" \/ endpointAgent <= Agents
      BY <1>10 DEF Endpoints!Receipt
    <3>2. endpointAt = "receipt" => endpointAgent <= Agents
      BY DEF EndpointInv, AtAgent
    <3> QED BY <3>1, <3>2 DEF EndpointInv, EndpointTypes
  <2>4. endpointAgent \in 1..Agents
    BY <1>1, <2>3
  <2>5. t # 0 => t \in DOMAIN endpointTxs
    BY <2>1, <2>2, <2>4, JournalEntered DEF Entered
  <2>6. endpointAgent' <= Agents + 1
    BY <1>1, <2>2, <2>3
  <2> QED BY <2>2, <2>5, <2>6 DEF EndpointBounded
<1> QED BY <1>5, <1>6, <1>7, <1>8, <1>9, <1>10 DEF Endpoints!Next

-----------------------------------------------------------------------------
(* The paid self-test.                                                      *)

TestPlaces == {"off", "unsigned", "sign", "pay", "answer", "receipt", "replay"}
TestTypes ==
  /\ testEvidence \in BOOLEAN /\ testCommands \in 0..ScriptCommands /\ testAt \in TestPlaces
  /\ state \in [auth : {0, 1}, transaction : BOOLEAN]
  /\ record \in [1..ScriptCommands -> {"none", "complete", "uncertain"}]

\* One authorization is signed, and all that is sent and charged is that one.
OneSigned ==
  /\ signed = state.auth /\ testPosted \subseteq {state.auth} \ {0} /\ testCharged \subseteq {state.auth} \ {0}
  /\ testAt # "off" \/ state.auth = 1 => testCommands # 0
  /\ testAt = "sign" => state.auth = 0
  /\ testAt \in {"pay", "answer", "receipt", "replay"} => state.auth = 1
\* A settlement in the files is the service's.
Settled ==
  /\ testAt \in {"receipt", "replay"} \/ testEvidence => state.transaction
  /\ state.transaction => state.auth = 1 /\ record[1] = "complete"
  /\ \A a \in 1..ScriptCommands : record[a] = "complete" => a = state.auth /\ testCharged = {a}
TestInv == TestTypes /\ OneSigned /\ Settled

LEMMA TestCardinality == \A S : Test!Cardinality(S) = Cardinality(S)
  BY DEF Cardinality, Test!Cardinality

LEMMA TestInit == Init => TestInv
<1> SUFFICES ASSUME Init PROVE TestInv
  OBVIOUS
<1>1. /\ state = [auth |-> 0, transaction |-> FALSE] /\ testEvidence = FALSE /\ testAt = "off"
      /\ testCommands = 0 /\ signed = 0 /\ testPosted = {} /\ testCharged = {}
      /\ record = [i \in 1..ScriptCommands |-> "none"]
  BY DEF Init, Test!Init, Test!NoState
<1>2. ScriptCommands \in Nat
  BY ComponentsAssumption DEF Test!BoundsAreNumbers
<1>3. TestTypes
  <2>1. 0 \in 0..ScriptCommands
    BY <1>2
  <2>2. state \in [auth : {0, 1}, transaction : BOOLEAN]
    BY <1>1
  <2>3. record \in [1..ScriptCommands -> {"none", "complete", "uncertain"}]
    BY <1>1
  <2> QED BY <1>1, <2>1, <2>2, <2>3 DEF TestTypes, TestPlaces
<1> QED BY <1>1, <1>3 DEF TestInv, OneSigned, Settled

\* The command goes on and the service does nothing.
LEMMA TestGoes ==
  ASSUME TestInv, UNCHANGED <<state, signed, testCharged, record>>,
         testAt' \in TestPlaces, testCommands' \in 0..ScriptCommands, testEvidence' \in BOOLEAN,
         testCommands # 0 => testCommands' # 0, testAt' # "off" => testCommands' # 0,
         testPosted' \subseteq {state.auth} \ {0},
         testAt' = "sign" => state.auth = 0,
         testAt' \in {"pay", "answer", "receipt", "replay"} => state.auth = 1,
         testAt' \in {"receipt", "replay"} \/ testEvidence' => state.transaction
  PROVE TestInv'
<1>1. TestTypes'
  BY DEF TestInv, TestTypes
<1>2. OneSigned'
  BY DEF TestInv, OneSigned
<1>3. Settled'
  BY DEF TestInv, Settled
<1> QED BY <1>1, <1>2, <1>3 DEF TestInv

LEMMA TestStep ==
  ASSUME TestInv, [Next]_vars
  PROVE TestInv'
<1>1. Test!Next \/ UNCHANGED testVars
  BY DEF Next, vars
<1>2. ScriptCommands \in Nat
  BY ComponentsAssumption DEF Test!BoundsAreNumbers
<1>3. TestTypes /\ OneSigned /\ Settled
  BY DEF TestInv
<1>4. CASE UNCHANGED testVars
  BY <1>3, <1>4, TestGoes DEF testVars, TestTypes, OneSigned, Settled
<1>5. CASE Test!Start
  <2>1. /\ testAt = "off" /\ testCommands < ScriptCommands /\ testCommands' = testCommands + 1
        /\ testAt' \in {"off", "unsigned"}
        /\ UNCHANGED <<state, testEvidence, signed, testPosted, record, testCharged>>
    BY <1>5 DEF Test!Start, Test!Goes, Test!files, Test!service
  <2>2. testCommands' \in 0..ScriptCommands /\ testCommands' # 0
    BY <1>2, <1>3, <2>1 DEF TestTypes
  <2> QED BY <1>3, <2>1, <2>2, TestGoes DEF TestTypes, OneSigned, Settled, TestPlaces
<1>6. CASE Test!Challenge
  <2>1. /\ testAt = "unsigned" /\ testAt' \in {"off", "pay", "sign"}
        /\ testAt' = "pay" => state.auth # 0
        /\ testAt' = "sign" => state.auth = 0
        /\ UNCHANGED <<state, testEvidence, testCommands, signed, testPosted, record, testCharged>>
    BY <1>6 DEF Test!Challenge, Test!Goes, Test!files, Test!service
  <2>2. state.auth = 0 \/ state.auth = 1
    BY <1>3 DEF TestTypes
  <2> QED BY <1>3, <2>1, <2>2, TestGoes DEF TestTypes, OneSigned, Settled, TestPlaces
<1>7. CASE Test!Spent \/ Test!Stop
  <2>1. /\ testAt' \in {testAt, "off"}
        /\ UNCHANGED <<state, testEvidence, testCommands, signed, testPosted, record, testCharged>>
    BY <1>7 DEF Test!Spent, Test!Stop, Test!Goes, Test!files, Test!service
  <2> QED BY <1>3, <2>1, TestGoes DEF TestTypes, OneSigned, Settled, TestPlaces
<1>8. CASE Test!Sign
  <2>1. /\ testAt = "sign" /\ signed' = signed + 1 /\ testAt' = "pay"
        /\ state' = [[auth |-> 0, transaction |-> FALSE] EXCEPT !.auth = signed + 1]
        /\ UNCHANGED <<testEvidence, testCommands, testPosted, record, testCharged>>
    BY <1>8 DEF Test!Sign, Test!Goes, Test!service, Test!NoState
  <2>2. /\ state.auth = 0 /\ signed = 0 /\ testPosted = {} /\ testCharged = {} /\ ~state.transaction
        /\ ~testEvidence /\ testCommands # 0
    BY <1>3, <2>1 DEF OneSigned, Settled, TestTypes
  <2>3. state' = [auth |-> 1, transaction |-> FALSE] /\ signed' = 1
    <3>1. 0 + 1 = 1
      OBVIOUS
    <3>2. signed + 1 = 1
      BY <2>2, <3>1, Zenon
    <3>3. signed' = 1 /\ state' = [[auth |-> 0, transaction |-> FALSE] EXCEPT !.auth = 1]
      BY <2>1, <3>2, Zenon
    <3> QED BY <3>3
  <2>4. \A a \in 1..ScriptCommands : record[a] # "complete"
    BY <1>3, <2>2 DEF Settled
  <2>5. TestTypes'
    BY <1>3, <2>1, <2>3 DEF TestTypes, TestPlaces
  <2>6. OneSigned'
    BY <2>1, <2>2, <2>3 DEF OneSigned
  <2>7. Settled'
    BY <2>1, <2>2, <2>3, <2>4 DEF Settled
  <2> QED BY <2>5, <2>6, <2>7 DEF TestInv
<1>9. CASE Test!Pay \/ Test!Replay
  <2>1. /\ testAt \in {"pay", "replay"} /\ testAt' \in {"answer", "off"}
        /\ testPosted' = testPosted \cup {state.auth}
        /\ UNCHANGED <<state, testCommands, signed, record, testCharged>>
    BY <1>9 DEF Test!Pay, Test!Replay, Test!Invoke, Test!Goes, Test!files
  <2>2. testEvidence' \in BOOLEAN /\ (testAt = "pay" => testEvidence' = testEvidence)
    <3>1. CASE Test!Pay
      BY <1>3, <3>1 DEF Test!Pay, Test!files, TestTypes
    <3>2. CASE Test!Replay
      BY <3>2 DEF Test!Replay
    <3> QED BY <1>9, <3>1, <3>2
  <2>3. state.auth = 1 /\ (testAt = "replay" \/ testEvidence => state.transaction)
    BY <1>3, <2>1 DEF OneSigned, Settled
  <2>4. testPosted' \subseteq {state.auth} \ {0}
    BY <1>3, <2>1, <2>3 DEF OneSigned
  <2>5. testEvidence' => state.transaction
    BY <2>1, <2>2, <2>3
  <2>6. testCommands # 0 /\ testCommands \in 0..ScriptCommands
    BY <1>3, <2>3 DEF OneSigned, TestTypes
  <2> QED BY <2>1, <2>2, <2>3, <2>4, <2>5, <2>6, TestGoes DEF TestPlaces
<1>10. CASE Test!Receipt
  <2>1. /\ testAt = "receipt" /\ testAt' = "replay"
        /\ UNCHANGED <<state, testEvidence, testCommands, signed, testPosted, record, testCharged>>
    BY <1>10 DEF Test!Receipt, Test!Goes, Test!files, Test!service
  <2> QED BY <1>3, <2>1, TestGoes DEF TestTypes, OneSigned, Settled, TestPlaces
<1>11. CASE Test!Paid
  <2>1. /\ testAt = "answer" /\ UNCHANGED <<testEvidence, testCommands, signed, testPosted, record, testCharged>>
        /\ \/ /\ record[state.auth] = "complete" /\ testAt' = "receipt"
              /\ state' = [state EXCEPT !.transaction = TRUE]
           \/ testAt' = "off" /\ UNCHANGED state
    BY <1>11 DEF Test!Paid, Test!Goes, Test!service
  <2>2. CASE testAt' = "off" /\ UNCHANGED state
    BY <1>3, <2>1, <2>2, TestGoes DEF TestTypes, OneSigned, Settled, TestPlaces
  <2>3. CASE record[state.auth] = "complete" /\ testAt' = "receipt" /\ state' = [state EXCEPT !.transaction = TRUE]
    <3>1. state.auth = 1
      BY <1>3, <2>1 DEF OneSigned
    <3>2. state' = [auth |-> 1, transaction |-> TRUE]
      BY <1>3, <2>3, <3>1 DEF TestTypes
    <3>3. TestTypes'
      BY <1>3, <2>1, <2>3, <3>2 DEF TestTypes, TestPlaces
    <3>4. OneSigned'
      BY <1>3, <2>1, <2>3, <3>1, <3>2 DEF OneSigned
    <3>5. Settled'
      BY <1>3, <2>1, <2>3, <3>1, <3>2 DEF Settled
    <3> QED BY <3>3, <3>4, <3>5 DEF TestInv
  <2> QED BY <2>1, <2>2, <2>3
<1>12. ASSUME NEW auth \in testPosted, Test!HandleMcp(auth) PROVE TestInv'
  <2>1. /\ record[auth] = "none" /\ UNCHANGED <<state, testEvidence, testAt, testCommands, signed>>
        /\ \/ testPosted' = testPosted \ {auth} /\ UNCHANGED <<record, testCharged>>
           \/ /\ record' = [record EXCEPT ![auth] = "complete"] /\ testCharged' = testCharged \cup {auth}
              /\ UNCHANGED testPosted
           \/ /\ record' = [record EXCEPT ![auth] = "uncertain"] /\ UNCHANGED testPosted
              /\ testCharged' \in {testCharged, testCharged \cup {auth}}
    BY <1>12 DEF Test!HandleMcp, Test!files
  <2>2. state.auth = 1 /\ auth = 1 /\ testCommands # 0
    BY <1>3 DEF OneSigned, TestTypes
  <2>3. 1 \in 1..ScriptCommands
    BY <1>2, <1>3, <2>2 DEF TestTypes
  <2>4. ~state.transaction /\ record[1] = "none"
    BY <1>3, <2>1, <2>2 DEF Settled
  <2>5. TestTypes'
    BY <1>3, <2>1 DEF TestTypes
  <2>6. OneSigned'
    BY <1>3, <2>1, <2>2 DEF OneSigned
  <2>7. Settled'
    BY <1>3, <2>1, <2>2, <2>3, <2>4 DEF Settled, TestTypes, OneSigned
  <2> QED BY <2>5, <2>6, <2>7 DEF TestInv
<1> QED BY <1>1, <1>4, <1>5, <1>6, <1>7, <1>8, <1>9, <1>10, <1>11, <1>12 DEF Test!Next

LEMMA TestSound == TestInv => Test!PaidOnce
<1> SUFFICES ASSUME TestInv PROVE Test!PaidOnce
  OBVIOUS
<1>1. testCharged = {} \/ testCharged = {1}
  <2>1. state.auth \in {0, 1} /\ testCharged \subseteq {state.auth} \ {0}
    BY DEF TestInv, OneSigned, TestTypes
  <2> QED BY <2>1
<1>2. Cardinality(testCharged) <= 1
  <2>1. Cardinality({}) = 0 /\ Cardinality({1}) = 1
    BY FS_EmptySet, FS_Singleton
  <2> QED BY <1>1, <2>1
<1>3. ASSUME testEvidence
      PROVE  state.transaction /\ testCharged = {state.auth} /\ record[state.auth] = "complete"
  <2>1. state.transaction /\ state.auth = 1 /\ record[1] = "complete"
    BY <1>3 DEF TestInv, Settled
  <2>2. 1 \in 1..ScriptCommands
    BY <2>1, ComponentsAssumption DEF TestInv, TestTypes, OneSigned, Test!BoundsAreNumbers
  <2> QED BY <2>1, <2>2 DEF TestInv, Settled
<1> QED BY <1>2, <1>3, TestCardinality DEF Test!PaidOnce

\* The balance only falls from what the buyer has at the start.
TestBounded == balance \in 0..MaxBalance /\ afterFirst \in 0..MaxBalance

LEMMA TestBoundedInit == Test!Init => TestBounded
<1>1. 0 \in 0..MaxBalance
  BY ComponentsAssumption DEF Test!BoundsAreNumbers
<1> QED BY <1>1 DEF Test!Init, TestBounded

LEMMA TestTypeOK == TestInv /\ TestBounded => Test!TypeOK
<1> SUFFICES ASSUME TestInv, TestBounded PROVE Test!TypeOK
  OBVIOUS
<1> QED BY DEF TestInv, TestTypes, OneSigned, TestBounded, Test!TypeOK, TestPlaces

LEMMA TestBoundedStep ==
  ASSUME TestBounded, UNCHANGED testVars \/ Test!Next
  PROVE  TestBounded'
<1>1. MaxBalance \in Nat
  BY ComponentsAssumption DEF Test!BoundsAreNumbers
<1>2. /\ balance' = balance \/ (balance > 0 /\ balance' = balance - 1)
      /\ afterFirst' = afterFirst \/ afterFirst' = balance
  BY DEF testVars, Test!Next, Test!HandleMcp, Test!Spent, Test!Start, Test!Challenge, Test!Sign, Test!Pay,
         Test!Paid, Test!Receipt, Test!Replay, Test!Stop, Test!files, Test!service
<1>3. balance > 0 => balance - 1 \in 0..MaxBalance
  BY <1>1 DEF TestBounded
<1> QED BY <1>2, <1>3 DEF TestBounded

-----------------------------------------------------------------------------
(* The swap of the buyer's tokens.                                          *)

PoolSteps == {"reset sent", "approve sent", "swap sent"}
\* Swaps sent and not mined, by their place in the pool.
Swapping(p) == {i \in DOMAIN p : p[i] = "swap sent"}
\* A swap was made that no cut is counted for, or is waited for.
Committed == swapEvidence \/ swapAt \in {"swap sent", "check"}
SwapTypes ==
  /\ swapEvidence \in BOOLEAN /\ pool \in Seq(PoolSteps)
  /\ usdt0 \in Int /\ tokenSwaps \in Nat /\ swapCut \in Nat /\ swapBefore.usdt0 \in Int
SwapsCounted ==
  /\ tokenSwaps + Cardinality(Swapping(pool)) <= swapCut + 1
  /\ ~Committed => tokenSwaps + Cardinality(Swapping(pool)) <= swapCut
SwapInv ==
  /\ SwapTypes /\ SwapsCounted
  /\ swapBefore.usdt0 <= usdt0 + tokenSwaps
  /\ swapAt # "off" => ~swapEvidence
  /\ swapEvidence => tokenSwaps >= 1

LEMMA SwappingCounted ==
  ASSUME NEW p \in Seq(PoolSteps)
  PROVE IsFiniteSet(Swapping(p)) /\ Cardinality(Swapping(p)) \in Nat
<1>1. Len(p) \in Nat /\ DOMAIN p = 1..Len(p)
  OBVIOUS
<1>2. IsFiniteSet(1..Len(p))
  BY <1>1, FS_Interval
<1>3. Swapping(p) \subseteq 1..Len(p)
  BY <1>1 DEF Swapping
<1> QED BY <1>2, <1>3, FS_Subset, FS_CardinalityType

LEMMA SwappingAppended ==
  ASSUME NEW p \in Seq(PoolSteps), NEW s \in PoolSteps
  PROVE /\ s = "swap sent" => Cardinality(Swapping(Append(p, s))) = Cardinality(Swapping(p)) + 1
        /\ s # "swap sent" => Swapping(Append(p, s)) = Swapping(p)
<1>1. /\ Len(Append(p, s)) = Len(p) + 1 /\ Append(p, s)[Len(p) + 1] = s
      /\ \A i \in 1..Len(p) : Append(p, s)[i] = p[i]
  BY AppendProperties
<1>2. /\ Len(p) \in Nat /\ DOMAIN p = 1..Len(p) /\ DOMAIN Append(p, s) = 1..Len(p) \cup {Len(p) + 1}
      /\ Len(p) + 1 \notin 1..Len(p)
  <2>1. Len(p) \in Nat /\ DOMAIN p = 1..Len(p) /\ DOMAIN Append(p, s) = 1..(Len(p) + 1)
    BY <1>1
  <2> QED BY <2>1
<1>3. CASE s = "swap sent"
  <2>1. Swapping(Append(p, s)) = Swapping(p) \cup {Len(p) + 1}
    BY <1>1, <1>2, <1>3 DEF Swapping
  <2>2. Len(p) + 1 \notin Swapping(p)
    BY <1>2 DEF Swapping
  <2> QED BY <1>3, <2>1, <2>2, SwappingCounted, FS_AddElement
<1>4. CASE s # "swap sent"
  BY <1>1, <1>2, <1>4 DEF Swapping
<1> QED BY <1>3, <1>4

LEMMA Shifted ==
  ASSUME NEW last \in Nat
  PROVE /\ \A i \in 1..(last + 1) : i # 1 => i \in Nat /\ i - 1 \in 1..last /\ (i - 1) + 1 = i
        /\ \A m \in 1..last : m + 1 \in 1..(last + 1) /\ m + 1 # 1 /\ (m + 1) - 1 = m
  OBVIOUS

LEMMA SwappingTaken ==
  ASSUME NEW p \in Seq(PoolSteps), p # <<>>
  PROVE /\ Tail(p) \in Seq(PoolSteps)
        /\ Head(p) = "swap sent" => Cardinality(Swapping(p)) = Cardinality(Swapping(Tail(p))) + 1
        /\ Head(p) # "swap sent" => Cardinality(Swapping(p)) = Cardinality(Swapping(Tail(p)))
<1>1. Len(p) \in Nat /\ Len(p) # 0
  BY EmptySeq
<1>2. PICK last \in Nat : Len(p) = last + 1
  <2>1. Len(p) - 1 \in Nat /\ Len(p) = (Len(p) - 1) + 1
    BY <1>1
  <2> QED BY <2>1
<1>3. /\ Tail(p) \in Seq(PoolSteps) /\ Len(Tail(p)) = last
      /\ \A i \in 1..last : Tail(p)[i] = p[i + 1]
  <2>1. Len(p) - 1 = last
    BY <1>2
  <2> QED BY <2>1, HeadTailProperties
<1>4. DOMAIN p = 1..(last + 1) /\ DOMAIN Tail(p) = 1..last /\ Head(p) = p[1]
  BY <1>2, <1>3
<1> DEFINE S == Swapping(p)
           T == Swapping(Tail(p))
           Later == S \ {1}
           Moves == [i \in Later |-> i - 1]
<1>5. Cardinality(S) \in Nat /\ Cardinality(T) \in Nat /\ IsFiniteSet(S)
  BY <1>3, SwappingCounted
<1>6. Cardinality(T) = Cardinality(Later)
  <2>1. ASSUME NEW i \in Later PROVE i \in Nat /\ i - 1 \in T
    <3>1. i \in 1..(last + 1) /\ i # 1 /\ p[i] = "swap sent"
      BY <1>4, <2>1 DEF Swapping
    <3>2. i \in Nat /\ i - 1 \in 1..last /\ (i - 1) + 1 = i
      BY <3>1, Shifted
    <3>3. Tail(p)[i - 1] = p[i]
      BY <1>3, <3>2
    <3> QED BY <1>4, <3>1, <3>2, <3>3 DEF Swapping
  <2>2. ASSUME NEW m \in T PROVE m + 1 \in Later /\ (m + 1) - 1 = m
    <3>1. m \in 1..last /\ Tail(p)[m] = "swap sent"
      BY <1>4, <2>2 DEF Swapping
    <3>2. m + 1 \in 1..(last + 1) /\ m + 1 # 1 /\ (m + 1) - 1 = m
      BY <3>1, Shifted
    <3>3. p[m + 1] = "swap sent"
      BY <1>3, <3>1
    <3> QED BY <1>4, <3>2, <3>3 DEF Swapping
  <2> HIDE DEF S, T, Later
  <2>3. Moves \in [Later -> T]
    BY <2>1
  <2>4. \A i, k \in Later : Moves[i] = Moves[k] => i = k
    BY <2>1
  <2>5. \A m \in T : \E i \in Later : Moves[i] = m
    BY <2>2
  <2>6. Moves \in Bijection(Later, T)
    BY <2>3, <2>4, <2>5 DEF Bijection, Injection, IsInjective, Surjection
  <2>7. IsFiniteSet(Later)
    BY <1>5, FS_Subset DEF Later
  <2> QED BY <2>6, <2>7, FS_Bijection DEF ExistsBijection
<1>7. CASE Head(p) = "swap sent"
  <2>1. 1 \in S
    <3>1. 1 \in 1..(last + 1)
      BY <1>2
    <3> QED BY <1>4, <1>7, <3>1 DEF Swapping
  <2>2. Cardinality(Later) = Cardinality(S) - 1
    BY <1>5, <2>1, FS_RemoveElement
  <2>3. Cardinality(S) = Cardinality(T) + 1
    BY <1>5, <1>6, <2>2
  <2> QED BY <1>3, <1>7, <2>3
<1>8. CASE Head(p) # "swap sent"
  <2>1. Later = S
    BY <1>4, <1>8 DEF Swapping
  <2> QED BY <1>3, <1>6, <1>8, <2>1
<1> QED BY <1>7, <1>8

LEMMA SwapNumbers ==
  ASSUME SwapInv
  PROVE \E m, n, c \in Nat : /\ m = tokenSwaps /\ n = Cardinality(Swapping(pool)) /\ c = swapCut
                             /\ m + n <= c + 1 /\ (~Committed => m + n <= c)
<1>1. Cardinality(Swapping(pool)) \in Nat
  BY SwappingCounted DEF SwapInv, SwapTypes
<1> QED BY <1>1 DEF SwapInv, SwapTypes, SwapsCounted

LEMMA SwapInit == Init => SwapInv
<1> SUFFICES ASSUME Init PROVE SwapInv
  OBVIOUS
<1>1. /\ swapEvidence = FALSE /\ swapAt = "off" /\ swapBefore = [usdt0 |-> 0, usdc |-> 0]
      /\ usdt0 \in 0..Funds /\ pool = <<>> /\ tokenSwaps = 0 /\ swapCut = 0
  BY DEF Init, Swap!Init
<1>2. Cardinality(Swapping(pool)) = 0
  <2>1. Swapping(pool) = {}
    BY <1>1 DEF Swapping
  <2> QED BY <2>1, FS_EmptySet
<1>3. usdt0 \in Nat
  BY <1>1, ComponentsAssumption DEF Swap!BoundsAreNumbers
<1>4. SwapTypes
  <2>1. swapEvidence \in BOOLEAN
    BY <1>1, Zenon
  <2>2. pool \in Seq(PoolSteps)
    BY <1>1
  <2>3. usdt0 \in Int /\ tokenSwaps \in Nat /\ swapCut \in Nat /\ swapBefore.usdt0 \in Int
    BY <1>1, <1>3
  <2> QED BY <2>1, <2>2, <2>3 DEF SwapTypes
<1>5. SwapsCounted
  BY <1>1, <1>2 DEF SwapsCounted
<1>6. swapBefore.usdt0 <= usdt0 + tokenSwaps
  BY <1>1, <1>3
<1> QED BY <1>1, <1>4, <1>5, <1>6 DEF SwapInv

\* Of a step that sends and mines nothing.
LEMMA SwapGoes ==
  ASSUME SwapInv, Committed' <=> Committed, swapAt' # "off" => ~swapEvidence,
         UNCHANGED <<swapEvidence, swapBefore, usdt0, pool, tokenSwaps, swapCut>>
  PROVE SwapInv'
  BY DEF SwapInv, SwapTypes, SwapsCounted

LEMMA SwapSends ==
  ASSUME SwapInv, NEW s \in PoolSteps, Swap!Send(s), ~Committed, swapAt # "off"
  PROVE SwapInv'
<1>1. /\ pool' = Append(pool, s) /\ swapAt' = s
      /\ UNCHANGED <<swapEvidence, swapBefore, usdt0, tokenSwaps, swapCut>>
  BY DEF Swap!Send
<1>2. pool \in Seq(PoolSteps) /\ pool' \in Seq(PoolSteps)
  BY <1>1, AppendProperties DEF SwapInv, SwapTypes
<1>3. /\ s = "swap sent" => Cardinality(Swapping(pool')) = Cardinality(Swapping(pool)) + 1
      /\ s # "swap sent" => Cardinality(Swapping(pool')) = Cardinality(Swapping(pool))
  BY <1>1, <1>2, SwappingAppended
<1>4. PICK m, n, c \in Nat : /\ m = tokenSwaps /\ n = Cardinality(Swapping(pool)) /\ c = swapCut
                             /\ m + n <= c
  BY SwapNumbers
<1>5. m + n <= c + 1 /\ m + (n + 1) <= c + 1
  BY <1>4
<1>6. SwapsCounted'
  <2>1. CASE s = "swap sent"
    <3>1. tokenSwaps' + Cardinality(Swapping(pool')) <= swapCut' + 1
      BY <1>1, <1>3, <1>4, <1>5, <2>1
    <3>2. Committed'
      BY <1>1, <2>1 DEF Committed
    <3> QED BY <3>1, <3>2 DEF SwapsCounted
  <2>2. CASE s # "swap sent"
    BY <1>1, <1>3, <1>4, <1>5, <2>2 DEF SwapsCounted
  <2> QED BY <2>1, <2>2
<1>7. ~swapEvidence
  BY DEF Committed
<1> QED BY <1>1, <1>2, <1>6, <1>7 DEF SwapInv, SwapTypes

LEMMA SwapMined ==
  ASSUME SwapInv, Swap!Mined
  PROVE SwapInv'
<1>1. PICK s, ok : s = Head(pool) /\ ok = (s = "swap sent" => Swap!Swaps)
  OBVIOUS
<1>2. /\ pool # <<>> /\ pool' = Tail(pool)
      /\ \/ s = "swap sent" /\ ok /\ usdt0' = usdt0 - 1 /\ tokenSwaps' = tokenSwaps + 1
         \/ ~(s = "swap sent" /\ ok) /\ UNCHANGED <<usdt0, tokenSwaps>>
      /\ \/ UNCHANGED <<swapAt, swapCut>>
         \/ swapAt = s /\ ok /\ swapAt' = Swap!NextStep /\ UNCHANGED swapCut
         \/ swapAt = s /\ ~ok /\ swapAt' = "off" /\ swapCut' = swapCut + 1
      /\ UNCHANGED <<swapEvidence, swapBefore>>
  BY <1>1 DEF Swap!Mined
<1>3. /\ pool' \in Seq(PoolSteps) /\ s \in PoolSteps
      /\ s = "swap sent" => Cardinality(Swapping(pool)) = Cardinality(Swapping(pool')) + 1
      /\ s # "swap sent" => Cardinality(Swapping(pool)) = Cardinality(Swapping(pool'))
      /\ Cardinality(Swapping(pool')) \in Nat
  <2>1. pool \in Seq(PoolSteps)
    BY DEF SwapInv, SwapTypes
  <2>2. s \in PoolSteps
    BY <1>1, <1>2, <2>1, HeadTailProperties
  <2> QED BY <1>1, <1>2, <2>1, <2>2, SwappingTaken, SwappingCounted
<1>4. PICK m, n, c \in Nat : /\ m = tokenSwaps /\ n = Cardinality(Swapping(pool)) /\ c = swapCut
                             /\ m + n <= c + 1 /\ (~Committed => m + n <= c)
  BY SwapNumbers
<1>5. PICK u, v, b \in Int, more, fewer \in Nat :
        /\ u = usdt0 /\ v = usdt0' /\ b = swapBefore.usdt0 /\ more = tokenSwaps'
        /\ fewer = Cardinality(Swapping(pool')) /\ more + fewer <= m + n /\ more >= m
        /\ s = "swap sent" /\ ~ok => more + fewer + 1 <= m + n
        /\ v + more = u + m
  <2>1. PICK u, b \in Int : u = usdt0 /\ b = swapBefore.usdt0
    BY DEF SwapInv, SwapTypes
  <2>2. CASE s = "swap sent" /\ ok
    <3>1. tokenSwaps' = m + 1 /\ usdt0' = u - 1
      BY <1>2, <1>4, <2>1, <2>2, Zenon
    <3>2. PICK fewer \in Nat : fewer = Cardinality(Swapping(pool')) /\ n = fewer + 1
      BY <1>3, <1>4, <2>2
    <3>3. m + 1 \in Nat /\ (m + 1) + fewer <= m + n /\ m + 1 >= m /\ (u - 1) + (m + 1) = u + m /\ u - 1 \in Int
      BY <3>2
    <3> QED BY <2>1, <2>2, <3>1, <3>2, <3>3
  <2>3. CASE ~(s = "swap sent" /\ ok)
    <3>1. tokenSwaps' = m /\ usdt0' = u
      BY <1>2, <1>4, <2>1, <2>3, Zenon
    <3>2. PICK fewer \in Nat : /\ fewer = Cardinality(Swapping(pool')) /\ (n = fewer \/ n = fewer + 1)
                               /\ (s = "swap sent" => n = fewer + 1)
      BY <1>3, <1>4
    <3>3. m + fewer <= m + n /\ (n = fewer + 1 => m + fewer + 1 <= m + n) /\ m >= m
      <4>1. n = fewer \/ n = fewer + 1
        BY <3>2
      <4> QED BY <4>1
    <3> QED BY <2>1, <2>3, <3>1, <3>2, <3>3
  <2> QED BY <2>2, <2>3
<1>6. swapBefore'.usdt0 <= usdt0' + tokenSwaps'
  <2>1. b <= u + m
    BY <1>4, <1>5 DEF SwapInv
  <2>2. v + more = u + m
    BY <1>5
  <2>3. b <= v + more
    BY <2>1, <2>2
  <2> QED BY <1>2, <1>5, <2>3
<1>7. swapEvidence' => tokenSwaps' >= 1
  <2>1. swapEvidence => m >= 1
    BY <1>4 DEF SwapInv
  <2>2. more >= m
    BY <1>5
  <2>3. m >= 1 => more >= 1
    BY <2>2
  <2> QED BY <1>2, <1>5, <2>1, <2>3
<1> DEFINE t == more + fewer
<1>8. /\ m + n <= c + 1 => t <= c + 1
      /\ m + n <= c => t <= c
      /\ m + n <= c + 1 /\ t + 1 <= m + n => t <= c
      /\ t <= c => t <= c + 1 /\ t <= (c + 1) + 1
      /\ c + 1 \in Nat
  <2>1. t <= m + n
    BY <1>5
  <2> QED BY <2>1
<1>9. t = tokenSwaps' + Cardinality(Swapping(pool'))
  BY <1>5
<1> HIDE DEF t
<1>10. CASE UNCHANGED <<swapAt, swapCut>>
  <2>1. Committed' = Committed
    BY <1>2, <1>10 DEF Committed
  <2>2. t <= c + 1 /\ (~Committed => t <= c)
    BY <1>4, <1>8
  <2>3. SwapsCounted'
    BY <1>4, <1>10, <1>9, <2>1, <2>2 DEF SwapsCounted
  <2> QED BY <1>2, <1>3, <1>5, <1>6, <1>7, <1>10, <2>3 DEF SwapInv, SwapTypes
<1>11. CASE swapAt = s /\ ok /\ swapAt' = Swap!NextStep /\ UNCHANGED swapCut
  <2>1. Committed' = Committed /\ swapAt # "off"
    BY <1>2, <1>3, <1>11 DEF Committed, Swap!NextStep, PoolSteps
  <2>2. t <= c + 1 /\ (~Committed => t <= c)
    BY <1>4, <1>8
  <2>3. SwapsCounted'
    BY <1>4, <1>11, <1>9, <2>1, <2>2 DEF SwapsCounted
  <2> QED BY <1>2, <1>3, <1>5, <1>6, <1>7, <1>11, <2>1, <2>3 DEF SwapInv, SwapTypes
<1>12. CASE swapAt = s /\ ~ok /\ swapAt' = "off" /\ swapCut' = swapCut + 1
  <2>1. s = "swap sent"
    BY <1>1, <1>12
  <2>2. swapCut' = c + 1
    BY <1>4, <1>12, Zenon
  <2>3. t <= c + 1 /\ t <= (c + 1) + 1 /\ c + 1 \in Nat
    BY <1>4, <1>5, <1>12, <1>8, <2>1 DEF t
  <2>4. SwapsCounted'
    BY <1>9, <2>2, <2>3 DEF SwapsCounted
  <2> QED BY <1>2, <1>3, <1>5, <1>6, <1>7, <1>12, <2>2, <2>3, <2>4 DEF SwapInv, SwapTypes
<1> QED BY <1>2, <1>10, <1>11, <1>12

LEMMA SwapStep == SwapInv /\ [Swap!Next]_(Swap!vars) => SwapInv'
<1> SUFFICES ASSUME SwapInv, [Swap!Next]_(Swap!vars) PROVE SwapInv'
  OBVIOUS
<1>1. CASE Swap!Start
  <2>1. /\ swapAt = "off" /\ swapBefore'.usdt0 = usdt0
        /\ swapAt' = "off" \/ (swapAt' = "gas" /\ ~swapEvidence)
        /\ UNCHANGED <<swapEvidence, usdt0, pool, tokenSwaps, swapCut>>
    <3>1. swapBefore' = [usdt0 |-> usdt0, usdc |-> usdc]
      BY <1>1 DEF Swap!Start
    <3>2. swapBefore'.usdt0 = usdt0
      BY <3>1
    <3> QED BY <1>1, <3>2 DEF Swap!Start, Swap!chain
  <2>2. Committed' = Committed
    BY <2>1 DEF Committed
  <2>3. PICK u \in Int, m \in Nat : u = usdt0 /\ m = tokenSwaps
    BY DEF SwapInv, SwapTypes
  <2>4. u <= u + m
    OBVIOUS
  <2>5. swapBefore'.usdt0 <= usdt0' + tokenSwaps'
    BY <2>1, <2>3, <2>4
  <2>6. SwapTypes' /\ SwapsCounted'
    BY <2>1, <2>2 DEF SwapInv, SwapTypes, SwapsCounted
  <2> QED BY <2>1, <2>5, <2>6 DEF SwapInv
<1>2. CASE Swap!TopUp
  <2>1. /\ swapAt = "gas" /\ swapAt' = "allowance"
        /\ UNCHANGED <<swapEvidence, swapBefore, usdt0, pool, tokenSwaps, swapCut>>
    BY <1>2 DEF Swap!TopUp
  <2> QED BY <2>1, SwapGoes DEF Committed, SwapInv
<1>3. ASSUME NEW from \in {"allowance", "approve"}, swapAt = from,
             NEW s \in {"reset sent", "approve sent"}, NEW there \in {"approve", "swap"},
             Swap!Send(s) \/ Swap!Goes(there)
      PROVE SwapInv'
  <2>1. ~Committed /\ swapAt # "off"
    BY <1>3 DEF Committed, SwapInv
  <2>2. CASE Swap!Send(s)
    BY <2>1, <2>2, SwapSends DEF PoolSteps
  <2>3. CASE Swap!Goes(there)
    <3>1. /\ swapAt' = there
          /\ UNCHANGED <<swapEvidence, swapBefore, usdt0, pool, tokenSwaps, swapCut>>
      BY <2>3 DEF Swap!Goes, Swap!chain
    <3> QED BY <2>1, <3>1, SwapGoes DEF Committed
  <2> QED BY <1>3, <2>2, <2>3
<1>4. CASE Swap!ResetAllowance
  <2>1. swapAt = "allowance" /\ (Swap!Send("reset sent") \/ Swap!Goes("approve"))
    BY <1>4 DEF Swap!ResetAllowance
  <2> QED BY <1>3, <2>1
<1>5. CASE Swap!Approve
  <2>1. swapAt = "approve" /\ (Swap!Send("approve sent") \/ Swap!Goes("swap"))
    BY <1>5 DEF Swap!Approve
  <2> QED BY <1>3, <2>1
<1>6. CASE Swap!Swap
  <2>1. swapAt = "swap" /\ Swap!Send("swap sent")
    BY <1>6 DEF Swap!Swap
  <2>2. ~Committed
    BY <2>1 DEF Committed, SwapInv
  <2> QED BY <2>1, <2>2, SwapSends DEF PoolSteps
<1>7. CASE Swap!PriceMoves \/ Swap!Spent \/ UNCHANGED Swap!vars
  <2>1. UNCHANGED <<swapEvidence, swapAt, swapBefore, usdt0, pool, tokenSwaps, swapCut>>
    BY <1>7 DEF Swap!PriceMoves, Swap!Spent, Swap!vars
  <2> QED BY <2>1, SwapGoes DEF Committed, SwapInv
<1>8. ASSUME swapAt # "off", swapAt' = "off", UNCHANGED <<swapBefore, usdt0, pool, tokenSwaps>>,
             \/ /\ swapCut' = swapCut + 1 /\ UNCHANGED swapEvidence
             \/ /\ UNCHANGED swapCut /\ ~Committed /\ UNCHANGED swapEvidence
             \/ /\ UNCHANGED swapCut /\ swapEvidence' = TRUE /\ swapAt = "check"
                /\ swapBefore.usdt0 - usdt0 = 1
      PROVE SwapInv'
  <2>1. PICK m, n, c \in Nat : /\ m = tokenSwaps /\ n = Cardinality(Swapping(pool)) /\ c = swapCut
                               /\ m + n <= c + 1 /\ (~Committed => m + n <= c)
    BY SwapNumbers
  <2>2. ~swapEvidence
    BY <1>8 DEF SwapInv
  <2>3. CASE swapCut' = swapCut + 1 /\ UNCHANGED swapEvidence
    <3>1. swapCut' = c + 1
      BY <2>1, <2>3, Zenon
    <3>2. m + n <= (c + 1) + 1 /\ c + 1 \in Nat
      BY <2>1
    <3>3. SwapsCounted'
      BY <1>8, <2>1, <3>1, <3>2 DEF SwapsCounted
    <3>4. SwapTypes'
      BY <1>8, <2>3, <3>1, <3>2 DEF SwapInv, SwapTypes
    <3> QED BY <1>8, <2>2, <2>3, <3>3, <3>4 DEF SwapInv
  <2>4. CASE UNCHANGED swapCut /\ ~Committed /\ UNCHANGED swapEvidence
    <3>1. ~Committed'
      BY <1>8, <2>2, <2>4 DEF Committed
    <3> QED BY <1>8, <2>2, <2>4, <3>1, SwapGoes
  <2>5. CASE UNCHANGED swapCut /\ swapEvidence' = TRUE /\ swapAt = "check" /\ swapBefore.usdt0 - usdt0 = 1
    <3>1. Committed' /\ Committed
      BY <2>5 DEF Committed
    <3>2. SwapsCounted'
      BY <1>8, <2>5, <3>1 DEF SwapInv, SwapsCounted
    <3>3. tokenSwaps >= 1
      <4>1. PICK u, b \in Int : u = usdt0 /\ b = swapBefore.usdt0
        BY DEF SwapInv, SwapTypes
      <4>2. b <= u + m /\ b - u = 1
        BY <2>1, <2>5, <4>1 DEF SwapInv
      <4>3. m >= 1
        BY <4>2
      <4> QED BY <2>1, <4>3
    <3>4. SwapTypes'
      BY <1>8, <2>5 DEF SwapInv, SwapTypes
    <3> QED BY <1>8, <2>5, <3>2, <3>3, <3>4 DEF SwapInv
  <2> QED BY <1>8, <2>3, <2>4, <2>5
<1>9. CASE Swap!Finish
  <2>1. swapAt = "check" /\ swapAt' = "off" /\ UNCHANGED <<swapBefore, usdt0, pool, tokenSwaps>>
    BY <1>9 DEF Swap!Finish, Swap!chain
  <2>2. ~swapEvidence /\ swapEvidence' = (swapEvidence \/ Swap!Executed)
        /\ swapCut' = IF Swap!Executed THEN swapCut ELSE swapCut + 1
    BY <1>9, <2>1 DEF Swap!Finish, SwapInv
  <2>3. \/ swapCut' = swapCut + 1 /\ UNCHANGED swapEvidence
        \/ UNCHANGED swapCut /\ swapEvidence' = TRUE /\ swapBefore.usdt0 - usdt0 = 1
    <3>1. swapEvidence = FALSE
      BY <2>2 DEF SwapInv, SwapTypes
    <3>2. CASE Swap!Executed
      BY <2>2, <3>2 DEF Swap!Executed
    <3>3. CASE ~Swap!Executed
      BY <2>2, <3>1, <3>3
    <3> QED BY <3>2, <3>3
  <2> QED BY <1>8, <2>1, <2>3
<1>10. CASE Swap!Stop
  <2>1. /\ swapAt # "off" /\ swapAt' = "off"
        /\ swapCut' = IF swapAt \in {"swap sent", "check"} THEN swapCut + 1 ELSE swapCut
        /\ UNCHANGED <<swapEvidence, swapBefore, usdt0, pool, tokenSwaps>>
    BY <1>10 DEF Swap!Stop, Swap!chain
  <2>2. swapAt \notin {"swap sent", "check"} => ~Committed
    BY <2>1 DEF Committed, SwapInv
  <2> QED BY <1>8, <2>1, <2>2
<1> QED BY <1>1, <1>2, <1>4, <1>5, <1>6, <1>7, <1>9, <1>10, SwapMined DEF Swap!Next

LEMMA SwapSound == SwapInv => Swap!SwappedAgainOnlyAfterACut
<1> SUFFICES ASSUME SwapInv PROVE Swap!SwappedAgainOnlyAfterACut
  OBVIOUS
<1>1. PICK m, n, c \in Nat : /\ m = tokenSwaps /\ n = Cardinality(Swapping(pool)) /\ c = swapCut
                             /\ m + n <= c + 1 /\ (~Committed => m + n <= c)
  BY SwapNumbers
<1>2. m <= 1 + c
  BY <1>1
<1> QED BY <1>1, <1>2 DEF Swap!SwappedAgainOnlyAfterACut, SwapInv

SwapPlaces == {"off", "gas", "allowance", "reset sent", "approve", "approve sent", "swap", "swap sent", "check"}
\* What is swapped comes of the buyer's balance, and a command is cut off once.
SwapBounded ==
  /\ swapGas \in BOOLEAN /\ price \in BOOLEAN /\ allowance \in {"none", "less", "exact"}
  /\ swapAt \in SwapPlaces /\ usdt0 \in 0..Funds /\ usdc \in 0..tokenSwaps
  /\ swapCommands \in 0..ScriptCommands /\ swapCut \in 0..swapCommands
  /\ swapAt # "off" => swapCut < swapCommands

LEMMA SwapBoundedInit == Swap!Init => SwapBounded
<1> SUFFICES ASSUME Swap!Init PROVE SwapBounded
  OBVIOUS
<1>1. ScriptCommands \in Nat
  BY ComponentsAssumption DEF Swap!BoundsAreNumbers
<1>2. usdc = 0 /\ tokenSwaps = 0 /\ swapCommands = 0 /\ swapCut = 0
  BY DEF Swap!Init
<1>3. usdc \in 0..tokenSwaps /\ swapCommands \in 0..ScriptCommands /\ swapCut \in 0..swapCommands
  BY <1>1, <1>2
<1> QED BY <1>3 DEF Swap!Init, SwapBounded, SwapPlaces

LEMMA SwapTypeOK == SwapInv /\ SwapBounded => Swap!TypeOK
  BY DEF SwapInv, SwapTypes, SwapBounded, Swap!TypeOK, SwapPlaces, PoolSteps

\* Of a step that ends no command after its swap, and mines no swap.
LEMMA SwapBoundedGoes ==
  ASSUME SwapBounded, UNCHANGED <<usdt0, usdc, tokenSwaps, swapCommands, swapCut>>,
         swapGas' \in BOOLEAN, price' \in BOOLEAN, allowance' \in {"none", "less", "exact"},
         swapAt' \in SwapPlaces, swapAt' # "off" => swapAt # "off"
  PROVE  SwapBounded'
  BY DEF SwapBounded

LEMMA SwapBoundedStep ==
  ASSUME SwapInv, SwapBounded, UNCHANGED swapVars \/ Swap!Next
  PROVE  SwapBounded'
<1>1. ScriptCommands \in Nat /\ Funds \in Nat /\ tokenSwaps \in Nat
  BY ComponentsAssumption DEF Swap!BoundsAreNumbers, SwapInv, SwapTypes
<1>2. PICK u, d, m, n, c \in Nat :
        /\ u = usdt0 /\ d = usdc /\ m = tokenSwaps /\ n = swapCommands /\ c = swapCut
        /\ u <= Funds /\ d <= m /\ n <= ScriptCommands /\ c <= n /\ (swapAt # "off" => c < n)
  BY <1>1 DEF SwapBounded
<1>3. CASE UNCHANGED swapVars \/ Swap!PriceMoves
  BY <1>3, SwapBoundedGoes DEF swapVars, Swap!PriceMoves, SwapBounded
<1>4. CASE Swap!TopUp \/ Swap!ResetAllowance \/ Swap!Approve \/ Swap!Swap
  BY <1>4, SwapBoundedGoes DEF Swap!TopUp, Swap!ResetAllowance, Swap!Approve, Swap!Swap, Swap!Send, Swap!Goes,
     Swap!chain, SwapBounded, SwapPlaces
<1>5. CASE Swap!Spent
  <2>1. usdc' = d - 1 /\ d > 0 /\ UNCHANGED <<swapAt, swapCommands, usdt0, swapGas, allowance, price, tokenSwaps, swapCut>>
    BY <1>2, <1>5 DEF Swap!Spent
  <2>2. d > 0 => d - 1 \in 0..m
    BY <1>2
  <2> QED BY <1>2, <2>1, <2>2 DEF SwapBounded
<1>6. CASE Swap!Start
  <2>1. /\ swapCommands' = n + 1 /\ n < ScriptCommands /\ swapAt' \in {"gas", "off"}
        /\ UNCHANGED <<usdt0, usdc, swapGas, allowance, price, tokenSwaps, swapCut>>
    BY <1>2, <1>6 DEF Swap!Start, Swap!chain
  <2>2. n < ScriptCommands => n + 1 \in 0..ScriptCommands /\ c \in 0..(n + 1) /\ c < n + 1
    BY <1>1, <1>2
  <2> QED BY <1>2, <2>1, <2>2 DEF SwapBounded, SwapPlaces
<1>7. ASSUME swapAt # "off", swapAt' = "off", swapCut' = swapCut \/ swapCut' = swapCut + 1,
             UNCHANGED <<swapCommands, swapGas, price>>, allowance' \in {"none", "less", "exact"},
             usdt0' \in 0..Funds, usdc' \in 0..tokenSwaps'
      PROVE  SwapBounded'
  <2>1. c \in 0..n /\ c + 1 \in 0..n
    BY <1>2, <1>7
  <2> QED BY <1>2, <1>7, <2>1 DEF SwapBounded, SwapPlaces
<1>8. CASE Swap!Finish \/ Swap!Stop
  <2>1. /\ swapAt # "off" /\ swapAt' = "off" /\ (swapCut' = swapCut \/ swapCut' = swapCut + 1)
        /\ UNCHANGED <<swapCommands, swapGas, price, allowance, usdt0, usdc, tokenSwaps>>
    BY <1>8 DEF Swap!Finish, Swap!Stop, Swap!chain
  <2> QED BY <1>7, <2>1 DEF SwapBounded
<1>9. CASE Swap!Mined
  <2>1. PICK s, ok : s = Head(pool) /\ ok = (s = "swap sent" => Swap!Swaps)
    OBVIOUS
  <2>2. /\ \/ /\ s = "swap sent" /\ ok /\ usdt0' = usdt0 - 1 /\ usdc' = usdc + 1 /\ allowance' = "none"
              /\ tokenSwaps' = tokenSwaps + 1
           \/ /\ ~(s = "swap sent" /\ ok) /\ UNCHANGED <<usdt0, usdc, tokenSwaps>>
              /\ allowance' \in {"none", "exact", allowance}
        /\ \/ UNCHANGED <<swapAt, swapCut>>
           \/ swapAt = s /\ ok /\ swapAt' = Swap!NextStep /\ UNCHANGED swapCut
           \/ swapAt = s /\ ~ok /\ swapAt' = "off" /\ swapCut' = swapCut + 1
        /\ UNCHANGED <<swapCommands, swapGas, price>>
    BY <1>9, <2>1 DEF Swap!Mined
  <2>3. usdt0' \in 0..Funds /\ usdc' \in 0..tokenSwaps'
    <3>1. CASE s = "swap sent" /\ ok
      <4>1. u >= 1
        BY <1>2, <2>1, <3>1 DEF Swap!Swaps
      <4>2. u - 1 \in 0..Funds /\ d + 1 \in 0..(m + 1)
        BY <1>1, <1>2, <4>1
      <4>3. usdt0' = u - 1 /\ usdc' = d + 1 /\ tokenSwaps' = m + 1
        BY <1>2, <2>2, <3>1, Zenon
      <4> QED BY <4>2, <4>3
    <3>2. CASE ~(s = "swap sent" /\ ok)
      BY <2>2, <3>2 DEF SwapBounded
    <3> QED BY <3>1, <3>2
  <2>4. allowance' \in {"none", "less", "exact"}
    BY <2>2 DEF SwapBounded
  <2>5. s # "off"
    <3>1. pool \in Seq(PoolSteps) /\ pool # <<>>
      BY <1>9 DEF Swap!Mined, SwapInv, SwapTypes
    <3>2. s \in PoolSteps
      BY <2>1, <3>1, HeadTailProperties
    <3> QED BY <3>2 DEF PoolSteps
  <2>6. CASE UNCHANGED <<swapAt, swapCut>>
    BY <2>2, <2>3, <2>4, <2>6 DEF SwapBounded
  <2>7. CASE swapAt = s /\ ok /\ swapAt' = Swap!NextStep /\ UNCHANGED swapCut
    <3>1. swapAt' \in SwapPlaces /\ (swapAt' # "off" => swapAt # "off")
      BY <2>5, <2>7 DEF Swap!NextStep, SwapPlaces, SwapBounded
    <3> QED BY <2>2, <2>3, <2>4, <2>7, <3>1 DEF SwapBounded
  <2>8. CASE swapAt = s /\ ~ok /\ swapAt' = "off" /\ swapCut' = swapCut + 1
    BY <1>7, <2>2, <2>3, <2>4, <2>5, <2>8
  <2> QED BY <2>2, <2>6, <2>7, <2>8
<1> QED BY <1>3, <1>4, <1>5, <1>6, <1>8, <1>9 DEF Swap!Next

-----------------------------------------------------------------------------
(* The scripts together: each stays in its invariant, also while another runs. *)

ScriptsInv == ScriptInv /\ ProofInv /\ FundingInv /\ EndpointInv /\ TestInv /\ SwapInv

LEMMA ScriptsStep ==
  ASSUME ScriptsInv, [Next]_vars
  PROVE ScriptsInv'
<1>1. ScriptInv'
  <2>1. [Scripts!Next]_(Scripts!vars)
    <3>1. CASE component = "scripts"
      BY <3>1 DEF Next, vars, scriptsVars, Scripts!vars
    <3>2. CASE component # "scripts"
      BY <3>2 DEF Next, vars, scriptsVars, Scripts!vars
    <3> QED BY <3>1, <3>2
  <2> QED BY <2>1, ScriptStep DEF ScriptsInv
<1>2. ProofInv'
  <2>1. Proof!Next \/ UNCHANGED <<proofTxs, jobs, wallet, proofProgress, evidence, proofCommand, proofLost>>
    <3>1. CASE component = "proof"
      BY <3>1 DEF Next, vars, proofVars
    <3>2. CASE component # "proof"
      BY <3>2 DEF Next, vars, proofVars
    <3> QED BY <3>1, <3>2
  <2> QED BY <2>1, ProofStep DEF ScriptsInv
<1>3. FundingInv'
  BY FundingStep DEF ScriptsInv
<1>4. EndpointInv'
  <2>1. [Endpoints!Next]_(Endpoints!vars)
    <3>1. CASE component = "endpoints"
      BY <3>1 DEF Next, vars, endpointsVars, Endpoints!vars
    <3>2. CASE component # "endpoints"
      BY <3>2 DEF Next, vars, endpointsVars, Endpoints!vars
    <3> QED BY <3>1, <3>2
  <2> QED BY <2>1, EndpointStep DEF ScriptsInv
<1>5. TestInv'
  BY TestStep DEF ScriptsInv
<1>6. SwapInv'
  <2>1. [Swap!Next]_(Swap!vars)
    <3>1. CASE component = "swap"
      BY <3>1 DEF Next, vars, swapVars, Swap!vars
    <3>2. CASE component # "swap"
      BY <3>2 DEF Next, vars, swapVars, Swap!vars
    <3> QED BY <3>1, <3>2
  <2> QED BY <2>1, SwapStep DEF ScriptsInv
<1> QED BY <1>1, <1>2, <1>3, <1>4, <1>5, <1>6 DEF ScriptsInv

\* However often the operators' scripts are stopped and run again, what their
\* journals and evidence files are for holds: no payment and no transaction is
\* repeated unless a command was cut off after it, the canary proof pays for one
\* job and its evidence lacks only what a stopped command sent, an update of the
\* endpoints leaves no transaction outside its journal, and the paid self-test is
\* charged for once (demo-testnet.mjs:64-107, run-mainnet-canary-proof.mjs:177-277,
\* fund-okx-ai-selftest-buyer.mjs:110-120, swap-mainnet-canary-usdt0-to-usdc.mjs:120-149,
\* update-agent-endpoints.mjs:24-74, verify-mcp-paid.mjs:67-107).
THEOREM ScriptsSoundAlways == Spec => []ScriptsSound
<1>1. Init => ScriptsInv
  BY ScriptInit, ProofInit, FundingInit, EndpointInit, TestInit, SwapInit DEF ScriptsInv
<1>2. ScriptsInv /\ [Next]_vars => ScriptsInv'
  BY ScriptsStep
<1>3. ScriptsInv => ScriptsSound
  BY ScriptSound, ProofSound, FundingSound, EndpointSound, TestSound, SwapSound DEF ScriptsInv, ScriptsSound
<1> QED BY <1>1, <1>2, <1>3, PTL DEF Spec

-----------------------------------------------------------------------------
(* The types of the deployment and of the scripts, which their invariants     *)
(* need and which need the invariants.                                        *)

OperatorsInv == DeployInv /\ ScriptsInv
OperatorsBounded ==
  DeployBounded /\ ProofBounded /\ ScriptsBounded /\ FundingBounded /\ EndpointBounded /\ TestBounded /\ SwapBounded

LEMMA OperatorsTypedInit == Init => OperatorsInv /\ OperatorsBounded
<1>1. Init => OperatorsInv
  BY DeployInit, ScriptInit, ProofInit, FundingInit, EndpointInit, TestInit, SwapInit DEF OperatorsInv, ScriptsInv
<1>2. Init => OperatorsBounded
  BY DeployBoundedInit, ProofBoundedInit, ScriptsBoundedInit, FundingBoundedInit, EndpointBoundedInit,
     TestBoundedInit, SwapBoundedInit DEF Init, OperatorsBounded
<1> QED BY <1>1, <1>2

\* A step is of one component, and the others keep their state.
LEMMA OperatorsGo ==
  ASSUME [Next]_vars
  PROVE  /\ UNCHANGED deployVars \/ Deploy!Next
         /\ UNCHANGED proofVars \/ Proof!Next
         /\ UNCHANGED scriptsVars \/ Scripts!Next
         /\ UNCHANGED fundingVars \/ Funding!Next
         /\ UNCHANGED endpointsVars \/ Endpoints!Next
         /\ UNCHANGED testVars \/ Test!Next
         /\ UNCHANGED swapVars \/ Swap!Next
<1>1. UNCHANGED deployVars \/ Deploy!Next
  BY DEF Next, vars
<1>2. UNCHANGED proofVars \/ Proof!Next
  BY DEF Next, vars
<1>3. UNCHANGED scriptsVars \/ Scripts!Next
  BY DEF Next, vars
<1>4. UNCHANGED fundingVars \/ Funding!Next
  BY DEF Next, vars
<1>5. UNCHANGED endpointsVars \/ Endpoints!Next
  BY DEF Next, vars
<1>6. UNCHANGED testVars \/ Test!Next
  BY DEF Next, vars
<1>7. UNCHANGED swapVars \/ Swap!Next
  BY DEF Next, vars
<1> QED BY <1>1, <1>2, <1>3, <1>4, <1>5, <1>6, <1>7

LEMMA OperatorsTypedStep ==
  ASSUME OperatorsInv, OperatorsBounded, [Next]_vars
  PROVE  OperatorsInv' /\ OperatorsBounded'
<1>1. DeployInv' /\ ScriptsInv'
  BY DeployStep, ScriptsStep DEF OperatorsInv
<1>2. DeployBounded'
  BY <1>1, DeployBoundedStep, OperatorsGo DEF OperatorsInv, OperatorsBounded
<1>3. ProofBounded'
  BY <1>1, ProofBoundedStep, OperatorsGo DEF OperatorsInv, ScriptsInv, OperatorsBounded
<1>4. ScriptsBounded'
  BY ScriptsBoundedStep, OperatorsGo DEF OperatorsBounded
<1>5. FundingBounded'
  BY <1>1, FundingBoundedStep, OperatorsGo DEF OperatorsInv, ScriptsInv, OperatorsBounded
<1>6. EndpointBounded'
  BY <1>1, EndpointBoundedStep, OperatorsGo DEF OperatorsInv, ScriptsInv, OperatorsBounded
<1>7. TestBounded'
  BY TestBoundedStep, OperatorsGo DEF OperatorsBounded
<1>8. SwapBounded'
  BY SwapBoundedStep, OperatorsGo DEF OperatorsInv, ScriptsInv, OperatorsBounded
<1> QED BY <1>1, <1>2, <1>3, <1>4, <1>5, <1>6, <1>7, <1>8 DEF OperatorsInv, OperatorsBounded

LEMMA OperatorsTypeOK ==
  ASSUME OperatorsInv, OperatorsBounded
  PROVE  /\ Deploy!TypeOK /\ Proof!TypeOK /\ Scripts!TypeOK /\ Funding!TypeOK /\ Endpoints!TypeOK
         /\ Test!TypeOK /\ Swap!TypeOK
  BY DeployTypeOK, ProofTypeOK, ScriptsTypeOK, FundingTypeOK, EndpointTypeOK, TestTypeOK, SwapTypeOK
     DEF OperatorsInv, ScriptsInv, OperatorsBounded
=============================================================================
