---------------------------- MODULE EscrowProofs ----------------------------
(***************************************************************************)
(* What TLAPS proves of the escrow for every set of accounts, agents and    *)
(* deliverables, every limit and every bound: type correctness, solvency,   *)
(* the exact counter of escrowed funds, the caps, that terms are frozen and *)
(* charges signed, and that the contract implements PaymentPromise.         *)
(***************************************************************************)
EXTENDS Escrow, WellFoundedInduction, TLAPS

-----------------------------------------------------------------------------
(* The sums over jobs: SumTo exists, it is a natural number, it bounds each *)
(* of its terms, and changing one term changes the sum by the same amount.  *)
(* Induction is by least counterexample (theorem WFMin of the library).     *)

LEMMA LeastElement ==
  ASSUME NEW T \in SUBSET Nat, T # {}
  PROVE \E m \in T : \A k \in T : m <= k
<1> DEFINE R == OpToRel(<, Nat)
<1>1. IsWellFoundedOn(R, Nat)
  BY NatLessThanWellFounded
<1>2. PICK m \in T : \A k \in T : ~ (<<k, m>> \in R)
  <2> HIDE DEF R
  <2> QED BY <1>1, WFMin
<1>3. \A k \in T : ~ (k < m)
  BY <1>2 DEF OpToRel
<1> QED BY <1>3

LEMMA InductionOverSet ==
  ASSUME NEW S, 0 \in S, \A n \in Nat : n \in S => n + 1 \in S
  PROVE \A n \in Nat : n \in S
<1> SUFFICES ASSUME Nat \ S # {} PROVE FALSE
  OBVIOUS
<1>1. PICK m \in Nat \ S : \A k \in Nat \ S : m <= k
  BY LeastElement
<1>2. m # 0
  BY <1>1
<1>3. m - 1 \in Nat /\ m - 1 \notin Nat \ S
  BY <1>1, <1>2
<1>4. (m - 1) + 1 \in S
  BY <1>3
<1> QED BY <1>1, <1>2, <1>4

-----------------------------------------------------------------------------

IsPrefixes(s, h, N) ==
  s = [n \in 0 .. N |-> IF n = 0 THEN 0 ELSE s[n - 1] + h[n]]

LEMMA PrefixesExist ==
  ASSUME NEW N \in Nat, NEW h \in [1 .. N -> Nat]
  PROVE \E s \in [0 .. N -> Nat] : IsPrefixes(s, h, N)
<1> DEFINE S == {n \in Nat : n <= N => \E s \in [0 .. n -> Nat] : IsPrefixes(s, h, n)}
<1>1. 0 \in S
  <2> DEFINE s == [n \in 0 .. 0 |-> 0]
  <2>1. s \in [0 .. 0 -> Nat] /\ IsPrefixes(s, h, 0)
    BY DEF IsPrefixes
  <2> QED BY <2>1
<1>2. ASSUME NEW n \in Nat, n \in S PROVE n + 1 \in S
  <2> SUFFICES ASSUME n + 1 <= N
               PROVE \E s \in [0 .. n + 1 -> Nat] : IsPrefixes(s, h, n + 1)
    OBVIOUS
  <2>1. PICK s \in [0 .. n -> Nat] : IsPrefixes(s, h, n)
    BY <1>2
  <2>2. h[n + 1] \in Nat
    OBVIOUS
  <2> DEFINE t == [i \in 0 .. n + 1 |-> IF i = n + 1 THEN s[n] + h[n + 1] ELSE s[i]]
  <2>3. t \in [0 .. n + 1 -> Nat]
    BY <2>2
  <2>4. ASSUME NEW i \in 0 .. n + 1
        PROVE t[i] = IF i = 0 THEN 0 ELSE t[i - 1] + h[i]
    <3>1. CASE i = n + 1
      BY <3>1
    <3>2. CASE i \in 0 .. n
      <4>1. s[i] = IF i = 0 THEN 0 ELSE s[i - 1] + h[i]
        BY <2>1, <3>2 DEF IsPrefixes
      <4>2. t[i] = s[i] /\ (i # 0 => t[i - 1] = s[i - 1])
        BY <3>2
      <4> QED BY <4>1, <4>2
    <3> QED BY <3>1, <3>2
  <2>5. IsPrefixes(t, h, n + 1)
    <3> HIDE DEF t
    <3> QED BY <2>3, <2>4 DEF IsPrefixes
  <2> QED BY <2>3, <2>5
<1>3. N \in S
  <2> HIDE DEF S
  <2> QED BY <1>1, <1>2, InductionOverSet
<1> QED BY <1>3

LEMMA PrefixesUnique ==
  ASSUME NEW N \in Nat, NEW h, NEW s, NEW t, IsPrefixes(s, h, N), IsPrefixes(t, h, N)
  PROVE s[N] = t[N]
<1> DEFINE S == {n \in Nat : n <= N => s[n] = t[n]}
<1>1. 0 \in S
  BY DEF IsPrefixes
<1>2. ASSUME NEW n \in Nat, n \in S PROVE n + 1 \in S
  <2> SUFFICES ASSUME n + 1 <= N PROVE s[n + 1] = t[n + 1]
    OBVIOUS
  <2>1. s[n] = t[n]
    BY <1>2
  <2>2. n + 1 \in 0 .. N /\ n + 1 # 0 /\ (n + 1) - 1 = n
    OBVIOUS
  <2>3. s[n + 1] = s[n] + h[n + 1]
    BY <2>2 DEF IsPrefixes
  <2>4. t[n + 1] = t[n] + h[n + 1]
    BY <2>2 DEF IsPrefixes
  <2> QED BY <2>1, <2>3, <2>4
<1>3. N \in S
  <2> HIDE DEF S
  <2> QED BY <1>1, <1>2, InductionOverSet
<1> QED BY <1>3

LEMMA SumToIsPrefix ==
  ASSUME NEW N \in Nat, NEW h \in [1 .. N -> Nat],
         NEW s, IsPrefixes(s, h, N)
  PROVE SumTo(h, N) = s[N]
<1>1. IsPrefixes(Prefixes(h, N), h, N)
  <2>1. \E t : t = [n \in 0 .. N |-> IF n = 0 THEN 0 ELSE t[n - 1] + h[n]]
    BY DEF IsPrefixes
  <2> QED BY <2>1 DEF Prefixes, IsPrefixes
<1> QED BY <1>1, PrefixesUnique DEF SumTo

-----------------------------------------------------------------------------

LEMMA SumToType ==
  ASSUME NEW N \in Nat, NEW h \in [1 .. N -> Nat]
  PROVE SumTo(h, N) \in Nat
<1>1. PICK s \in [0 .. N -> Nat] : IsPrefixes(s, h, N)
  BY PrefixesExist
<1>2. SumTo(h, N) = s[N]
  BY <1>1, SumToIsPrefix
<1> QED BY <1>2

LEMMA SumToZero ==
  ASSUME NEW N \in Nat, NEW h \in [1 .. N -> Nat], \A i \in 1 .. N : h[i] = 0
  PROVE SumTo(h, N) = 0
<1> DEFINE s == [n \in 0 .. N |-> 0]
<1>1. IsPrefixes(s, h, N)
  BY DEF IsPrefixes
<1>2. SumTo(h, N) = s[N]
  BY <1>1, SumToIsPrefix
<1> QED BY <1>2

LEMMA SumToUpdate ==
  ASSUME NEW N \in Nat, NEW h \in [1 .. N -> Nat], NEW g \in [1 .. N -> Nat],
         NEW k \in 1 .. N, \A i \in 1 .. N : i # k => g[i] = h[i]
  PROVE SumTo(g, N) = SumTo(h, N) - h[k] + g[k]
<1>1. PICK s \in [0 .. N -> Nat] : IsPrefixes(s, h, N)
  BY PrefixesExist
<1> DEFINE t == [n \in 0 .. N |-> IF n < k THEN s[n] ELSE s[n] - h[k] + g[k]]
<1>2. ASSUME NEW n \in 0 .. N
      PROVE t[n] = IF n = 0 THEN 0 ELSE t[n - 1] + g[n]
  <2>1. s[n] = IF n = 0 THEN 0 ELSE s[n - 1] + h[n]
    BY <1>1 DEF IsPrefixes
  <2>2. CASE n < k
    BY <2>1, <2>2
  <2>3. CASE n = k
    BY <2>1, <2>3
  <2>4. CASE n > k
    <3>1. n \in 1 .. N /\ n - 1 \in 0 .. N /\ ~ (n - 1 < k) /\ ~ (n < k) /\ n # 0
      BY <2>4
    <3>2. s[n] = s[n - 1] + h[n] /\ g[n] = h[n]
      BY <2>1, <2>4, <3>1
    <3>3. t[n - 1] = s[n - 1] - h[k] + g[k] /\ t[n] = s[n] - h[k] + g[k]
      BY <3>1
    <3>4. s[n - 1] \in Nat /\ h[n] \in Nat /\ h[k] \in Nat /\ g[k] \in Nat
      BY <3>1
    <3> HIDE DEF t
    <3> QED BY <3>1, <3>2, <3>3, <3>4
  <2> QED BY <2>2, <2>3, <2>4
<1>3. IsPrefixes(t, g, N)
  <2>1. t = [n \in 0 .. N |-> IF n = 0 THEN 0 ELSE t[n - 1] + g[n]]
    <3>1. t = [n \in 0 .. N |-> t[n]]
      OBVIOUS
    <3> HIDE DEF t
    <3> QED BY <1>2, <3>1
  <2> QED BY <2>1 DEF IsPrefixes
<1>4. SumTo(g, N) = t[N] /\ SumTo(h, N) = s[N]
  <2> HIDE DEF t
  <2> QED BY <1>1, <1>3, SumToIsPrefix
<1> QED BY <1>4

LEMMA SumToBoundsTerm ==
  ASSUME NEW N \in Nat, NEW h \in [1 .. N -> Nat], NEW k \in 1 .. N
  PROVE h[k] <= SumTo(h, N)
<1> DEFINE g == [h EXCEPT ![k] = 0]
<1>1. g \in [1 .. N -> Nat] /\ g[k] = 0 /\ \A i \in 1 .. N : i # k => g[i] = h[i]
  OBVIOUS
<1>2. SumTo(g, N) = SumTo(h, N) - h[k] + 0
  BY <1>1, SumToUpdate
<1>3. SumTo(g, N) \in Nat /\ SumTo(h, N) \in Nat
  BY <1>1, SumToType
<1> QED BY <1>2, <1>3

-----------------------------------------------------------------------------
(* Type correctness.                                                        *)

LEMMA EmptyJobType == EmptyJob \in JobRecords
  BY EscrowAssumption DEF EmptyJob, JobRecords, Times, Amounts, Statuses

LEMMA RecordUpdates ==
  ASSUME NEW j \in JobRecords
  PROVE /\ \A s \in Statuses : [j EXCEPT !.status = s] \in JobRecords
        /\ \A b \in Amounts : [j EXCEPT !.budget = b] \in JobRecords
        /\ \A s \in Statuses, d \in Deliverables \cup {ZeroHash} :
             [j EXCEPT !.status = s, !.deliverable = d] \in JobRecords
        /\ \A p \in Addresses, g \in Agents \cup {NoAgent} :
             [j EXCEPT !.provider = p, !.agent = g] \in JobRecords
  BY DEF JobRecords

LEMMA NewRecord ==
  ASSUME NEW c \in Accounts, NEW p \in Addresses \cup {NoAddress}, NEW e \in Addresses,
         NEW x \in Times, NEW g \in Agents \cup {NoAgent}
  PROVE [client |-> c, provider |-> p, evaluator |-> e, budget |-> 0, expiredAt |-> x,
         status |-> "Open", deliverable |-> ZeroHash, agent |-> g] \in JobRecords
  BY EscrowAssumption DEF JobRecords, Amounts, Statuses

LEMMA MovedType ==
  ASSUME balance \in [Addresses -> Nat], NEW from, NEW to, NEW amount \in Nat,
         from \in Addresses => balance[from] >= amount
  PROVE Moved(from, to, amount) \in [Addresses -> Nat]
  BY DEF Moved

LEMMA InitType == Init => TypeOK
  BY EmptyJobType, EscrowAssumption
  DEF Init, TypeOK, Times, Amounts, JobIds, Addresses

LEMMA StepType == TypeOK /\ [Next]_vars => TypeOK'
<1> SUFFICES ASSUME TypeOK, [Next]_vars PROVE TypeOK'
  OBVIOUS
<1> USE EscrowAssumption DEF TypeOK, JobIds
<1>1. ASSUME NEW caller \in Accounts, CreateJob(caller) PROVE TypeOK'
  <2>1. PICK p \in Addresses \cup {NoAddress}, e \in Addresses, x \in Times :
             NewJob(caller, p, e, x, NoAgent)
    BY <1>1 DEF CreateJob
  <2> DEFINE r == [client |-> caller, provider |-> p, evaluator |-> e, budget |-> 0,
                   expiredAt |-> x, status |-> "Open", deliverable |-> ZeroHash,
                   agent |-> NoAgent]
  <2>2. r \in JobRecords
    BY NewRecord
  <2>3. jobs' = [jobs EXCEPT ![jobCount + 1] = r]
    BY <2>1 DEF NewJob
  <2> HIDE DEF r
  <2>4. jobs' \in [JobIds -> JobRecords]
    BY <2>2, <2>3
  <2> QED BY <2>1, <2>4 DEF NewJob
<1>2. ASSUME NEW caller \in Accounts, CreateAgentJob(caller) PROVE TypeOK'
  <2>1. PICK g \in Agents, e \in Addresses, x \in Times : NewJob(caller, owner[g], e, x, g)
    BY <1>2 DEF CreateAgentJob
  <2>2. owner[g] \in Addresses
    BY DEF Addresses
  <2> QED BY <2>1, <2>2, NewRecord DEF NewJob
<1>3. ASSUME NEW caller \in Accounts, NEW id \in JobIds, SetProvider(caller, id) PROVE TypeOK'
  <2>1. PICK p \in Addresses : Assign(caller, id, p, jobs[id].agent)
    BY <1>3 DEF SetProvider
  <2>2. jobs[id].agent \in Agents \cup {NoAgent}
    BY DEF JobRecords
  <2>3. jobs' \in [JobIds -> JobRecords]
    BY <2>1, <2>2, RecordUpdates DEF Assign
  <2> QED BY <2>1, <2>3 DEF Assign
<1>4. ASSUME NEW caller \in Accounts, NEW id \in JobIds, SetAgentProvider(caller, id) PROVE TypeOK'
  <2>1. PICK g \in Agents : Assign(caller, id, owner[g], g)
    BY <1>4 DEF SetAgentProvider
  <2>2. owner[g] \in Addresses
    BY DEF Addresses
  <2> QED BY <2>1, <2>2, RecordUpdates DEF Assign
<1>5. ASSUME NEW caller \in Accounts, NEW id \in JobIds, NEW amount \in Amounts,
             SetBudget(caller, id, amount) PROVE TypeOK'
  BY <1>5, RecordUpdates DEF SetBudget
<1>6. ASSUME NEW caller \in Accounts, NEW id \in JobIds, NEW d \in Deliverables \cup {ZeroHash},
             Submit(caller, id, d) PROVE TypeOK'
  BY <1>6, RecordUpdates DEF Submit, Statuses
<1>7. ASSUME NEW id \in JobIds, NEW status \in Statuses, NEW payee, Settle(id, status, payee)
      PROVE TypeOK'
  <2>1. jobs[id].budget \in Nat
    BY DEF JobRecords, Amounts
  <2>2. jobs' \in [JobIds -> JobRecords]
    BY <1>7, RecordUpdates DEF Settle
  <2>3. totalEscrowed' \in Nat
    BY <1>7, <2>1 DEF Settle
  <2>4. balance' \in [Addresses -> Nat]
    BY <1>7, <2>1, MovedType DEF Settle
  <2> QED BY <1>7, <2>2, <2>3, <2>4 DEF Settle
<1>8. ASSUME NEW caller \in Accounts, NEW id \in JobIds, Complete(caller, id) PROVE TypeOK'
  BY <1>7, <1>8 DEF Complete, Statuses
<1>9. ASSUME NEW caller \in Accounts, NEW id \in JobIds, Reject(caller, id) PROVE TypeOK'
  <2>1. CASE RejectOpen(caller, id)
    BY <2>1, RecordUpdates DEF RejectOpen, Statuses
  <2>2. CASE RejectEscrowed(caller, id)
    BY <1>7, <2>2 DEF RejectEscrowed, Statuses
  <2> QED BY <1>9, <2>1, <2>2 DEF Reject
<1>10. ASSUME NEW id \in JobIds, NEW amount \in Amounts, SignFund(id, amount) PROVE TypeOK'
  BY <1>10 DEF SignFund
<1>11. ASSUME NEW id \in JobIds, Fund(id) PROVE TypeOK'
  <2>1. jobs[id].budget \in Nat
    BY DEF JobRecords, Amounts
  <2>2. jobs' \in [JobIds -> JobRecords]
    BY <1>11, RecordUpdates DEF Fund, Statuses
  <2>3. totalEscrowed' \in Nat
    BY <1>11, <2>1 DEF Fund
  <2>4. balance' \in [Addresses -> Nat]
    BY <1>11, <2>1, MovedType DEF Fund, CanFund
  <2>5. signed' \in [JobIds -> Amounts]
    BY <1>11 DEF Fund, Amounts
  <2> QED BY <1>11, <2>2, <2>3, <2>4, <2>5 DEF Fund
<1>12. ASSUME NEW id \in JobIds, FundReverts(id) PROVE TypeOK'
  BY <1>12 DEF FundReverts, Amounts
<1>13. ASSUME NEW id \in JobIds, ClaimRefund(id) PROVE TypeOK'
  BY <1>7, <1>13 DEF ClaimRefund, Statuses
<1>14. ASSUME Tick PROVE TypeOK'
  BY <1>14 DEF Tick, Times
<1>15. ASSUME NEW agent \in Agents, NEW to \in Accounts, TransferAgent(agent, to) PROVE TypeOK'
  BY <1>15 DEF TransferAgent
<1>16. ASSUME NEW from \in Accounts, NEW amount \in Amounts, DirectTransfer(from, amount) PROVE TypeOK'
  BY <1>16, MovedType DEF DirectTransfer, Amounts
<1>17. CASE UNCHANGED vars
  BY <1>17 DEF vars
<1> QED
  BY <1>1, <1>2, <1>3, <1>4, <1>5, <1>6, <1>8, <1>9, <1>10, <1>11, <1>12, <1>13,
     <1>14, <1>15, <1>16, <1>17 DEF Next

\* Every reachable state is well typed; in particular no balance and no counter
\* of the contract ever leaves the naturals.
THEOREM TypeCorrect == Spec => []TypeOK
  BY InitType, StepType, PTL DEF Spec

-----------------------------------------------------------------------------
(* Solvency and the caps.                                                   *)

\* Who can stand in a job: only externally owned accounts call the contract, so
\* the money of an escrowed job can only go to one of them, never from the
\* contract to itself; and the slots beyond jobCount were never written.
Roles ==
  \A id \in JobIds :
    /\ id > jobCount => jobs[id] = EmptyJob
    /\ id <= jobCount => jobs[id].client \in Accounts
    /\ jobs[id].status = "Submitted" => jobs[id].provider \in Accounts

\* The inductive invariant.  Solvent alone is not inductive: a new job must find
\* its slot unescrowed, and a settlement must pay an account.
FundsInv == TypeOK /\ Roles /\ Solvent /\ CounterExact /\ CapsHold

LEMMA HeldType ==
  ASSUME TypeOK
  PROVE Held \in [1 .. MaxJobs -> Nat] /\ TotalHeld \in Nat
<1>1. Held \in [1 .. MaxJobs -> Nat]
  BY DEF TypeOK, Held, JobIds, JobRecords, Amounts
<1> QED BY <1>1, SumToType, EscrowAssumption DEF TotalHeld

\* Changing one job changes what is held by the change of that job.
LEMMA HeldStep ==
  ASSUME TypeOK, TypeOK', NEW id \in JobIds, \A i \in JobIds : i # id => jobs'[i] = jobs[i]
  PROVE TotalHeld' = TotalHeld - Held[id] + Held'[id]
<1>1. Held \in [1 .. MaxJobs -> Nat] /\ Held' \in [1 .. MaxJobs -> Nat]
  BY DEF TypeOK, Held, JobIds, JobRecords, Amounts
<1>2. \A i \in 1 .. MaxJobs : i # id => Held'[i] = Held[i]
  BY DEF Held, Escrowed, JobIds
<1>3. SumTo(Held', MaxJobs) = SumTo(Held, MaxJobs) - Held[id] + Held'[id]
  BY <1>1, <1>2, SumToUpdate, EscrowAssumption DEF JobIds
<1> QED BY <1>3 DEF TotalHeld

LEMMA HeldSame ==
  ASSUME jobs' = jobs PROVE Held' = Held /\ TotalHeld' = TotalHeld
  BY DEF TotalHeld, Held, Escrowed

LEMMA InitFunds == Init => FundsInv
<1> SUFFICES ASSUME Init PROVE FundsInv
  OBVIOUS
<1>1. TypeOK
  BY InitType
<1>2. Roles
  BY EscrowAssumption DEF Init, Roles, JobIds, EmptyJob
<1>3. \A id \in JobIds : ~ Escrowed(id) /\ Held[id] = 0
  BY DEF Init, Escrowed, Held, EmptyJob
<1>4. TotalHeld = 0
  BY <1>1, <1>3, HeldType, SumToZero, EscrowAssumption DEF TotalHeld, JobIds
<1> QED
  BY <1>1, <1>2, <1>3, <1>4, EscrowAssumption
  DEF FundsInv, Init, Solvent, CounterExact, CapsHold, Addresses

\* A step that leaves what is held for its job alone, and the money too.
LEMMA Neutral ==
  ASSUME FundsInv, TypeOK', NEW id \in JobIds, \A i \in JobIds : i # id => jobs'[i] = jobs[i],
         \/ ~ Escrowed(id) /\ ~ Escrowed(id)'
         \/ Escrowed(id) /\ Escrowed(id)' /\ jobs'[id].budget = jobs[id].budget,
         totalEscrowed' = totalEscrowed, balance' = balance, stray' = stray
  PROVE Solvent' /\ CounterExact' /\ CapsHold'
<1>1. Held'[id] = Held[id] /\ Held[id] \in Nat /\ TotalHeld \in Nat
  BY HeldType DEF Held, Escrowed, FundsInv, JobIds
<1>2. TotalHeld' = TotalHeld
  BY <1>1, HeldStep DEF FundsInv
<1>3. \A i \in JobIds : Escrowed(i)' => Escrowed(i) /\ jobs'[i].budget = jobs[i].budget
  BY DEF Escrowed
<1>4. CapsHold'
  BY <1>2, <1>3 DEF CapsHold, FundsInv
<1> QED BY <1>2, <1>4 DEF FundsInv, Solvent, CounterExact

\* A settlement: what the job holds leaves the contract, for an account.
LEMMA SettleFunds ==
  ASSUME FundsInv, TypeOK', NEW id \in JobIds, Escrowed(id),
         NEW status \in {"Completed", "Rejected", "Expired"}, NEW payee \in Accounts,
         Settle(id, status, payee)
  PROVE Solvent' /\ CounterExact' /\ CapsHold'
<1> DEFINE amount == jobs[id].budget
<1>1. amount \in Nat /\ TotalHeld \in Nat /\ balance[EscrowAddr] \in Nat /\ stray \in Nat
      /\ totalEscrowed \in Nat
  BY HeldType DEF FundsInv, TypeOK, JobRecords, Amounts, Addresses
<1>2. /\ jobs'[id].status = status
      /\ \A i \in JobIds : i # id => jobs'[i] = jobs[i]
  BY DEF Settle, FundsInv, TypeOK, JobRecords
<1>3. Held[id] = amount /\ Held'[id] = 0 /\ ~ Escrowed(id)'
  BY <1>2 DEF Held, Escrowed
<1>4. TotalHeld' = TotalHeld - amount
  BY <1>1, <1>2, <1>3, HeldStep DEF FundsInv
<1>5. balance'[EscrowAddr] = balance[EscrowAddr] - amount
  BY EscrowAssumption DEF Settle, Moved, Addresses
<1>6. Solvent'
  BY <1>1, <1>4, <1>5 DEF Settle, Solvent, FundsInv
<1>7. CounterExact'
  BY <1>1, <1>4 DEF Settle, CounterExact, FundsInv
<1>8. \A i \in JobIds : Escrowed(i)' => Escrowed(i) /\ jobs'[i].budget = jobs[i].budget
  BY <1>2, <1>3 DEF Escrowed
<1>9. CapsHold'
  <2>1. TotalHeld <= MaxTotalEscrowed => TotalHeld - amount <= MaxTotalEscrowed
    BY <1>1, EscrowAssumption
  <2> QED BY <1>4, <1>8, <2>1 DEF CapsHold, FundsInv
<1> QED BY <1>6, <1>7, <1>9

LEMMA FundFunds ==
  ASSUME FundsInv, TypeOK', NEW id \in JobIds, Fund(id)
  PROVE Solvent' /\ CounterExact' /\ CapsHold'
<1> DEFINE amount == jobs[id].budget
<1>1. amount \in Nat /\ TotalHeld \in Nat /\ balance[EscrowAddr] \in Nat /\ stray \in Nat
      /\ totalEscrowed \in Nat
  BY HeldType DEF FundsInv, TypeOK, JobRecords, Amounts, Addresses
<1>2. /\ jobs'[id].status = "Funded" /\ jobs'[id].budget = amount
      /\ jobs[id].status = "Open"
      /\ \A i \in JobIds : i # id => jobs'[i] = jobs[i]
  BY DEF Fund, CanFund, IsOpen, FundsInv, TypeOK, JobRecords
<1>3. Held[id] = 0 /\ Held'[id] = amount
  BY <1>2 DEF Held, Escrowed
<1>4. TotalHeld' = TotalHeld + amount
  BY <1>1, <1>2, <1>3, HeldStep DEF FundsInv
<1>5. jobs[id].client \in Accounts
  BY DEF Fund, CanFund, IsOpen, Known, FundsInv, Roles
<1>6. balance'[EscrowAddr] = balance[EscrowAddr] + amount
  BY <1>5, EscrowAssumption DEF Fund, Moved, Addresses
<1>7. Solvent'
  BY <1>1, <1>4, <1>6 DEF Fund, Solvent, FundsInv
<1>8. CounterExact'
  BY <1>1, <1>4 DEF Fund, CounterExact, FundsInv
<1>9. CapsHold'
  <2> SUFFICES ASSUME Capped
               PROVE /\ TotalHeld' <= MaxTotalEscrowed
                     /\ \A i \in JobIds : Escrowed(i)' => jobs'[i].budget <= MaxBudget
    BY DEF CapsHold
  <2>1. amount <= MaxBudget /\ totalEscrowed + amount <= MaxTotalEscrowed
    BY DEF Fund, CanFund, HasRoom
  <2>2. TotalHeld' <= MaxTotalEscrowed
    BY <1>1, <1>4, <2>1 DEF CounterExact, FundsInv
  <2>3. ASSUME NEW i \in JobIds, Escrowed(i)' PROVE jobs'[i].budget <= MaxBudget
    <3>1. CASE i = id
      BY <1>2, <2>1, <3>1
    <3>2. CASE i # id
      BY <1>2, <2>3, <3>2 DEF Escrowed, CapsHold, FundsInv
    <3> QED BY <3>1, <3>2
  <2> QED BY <2>2, <2>3
<1> QED BY <1>7, <1>8, <1>9

LEMMA DirectTransferFunds ==
  ASSUME FundsInv, TypeOK', NEW from \in Accounts, NEW amount \in Amounts,
         DirectTransfer(from, amount)
  PROVE Solvent' /\ CounterExact' /\ CapsHold'
<1>1. TotalHeld \in Nat /\ balance[EscrowAddr] \in Nat /\ stray \in Nat /\ amount \in Nat
  BY HeldType DEF FundsInv, TypeOK, Amounts, Addresses
<1>2. jobs' = jobs /\ totalEscrowed' = totalEscrowed /\ stray' = stray + amount
  BY DEF DirectTransfer
<1>3. balance'[EscrowAddr] = balance[EscrowAddr] + amount
  BY EscrowAssumption DEF DirectTransfer, Moved, Addresses
<1>4. TotalHeld' = TotalHeld /\ \A i \in JobIds : Escrowed(i)' = Escrowed(i)
  BY <1>2, HeldSame DEF Escrowed
<1>5. Solvent'
  BY <1>1, <1>2, <1>3, <1>4 DEF FundsInv, Solvent
<1>6. CounterExact' /\ CapsHold'
  BY <1>2, <1>4 DEF FundsInv, CounterExact, CapsHold
<1> QED BY <1>5, <1>6

\* A step that rewrites one known job, keeping its client, keeps Roles, if a
\* submitted job's provider is an account.
LEMMA KnownJobRoles ==
  ASSUME TypeOK, Roles, NEW id \in JobIds, Known(id), jobCount' = jobCount,
         \A i \in JobIds : i # id => jobs'[i] = jobs[i],
         jobs'[id].client = jobs[id].client,
         jobs'[id].status = "Submitted" => jobs'[id].provider \in Accounts
  PROVE Roles'
<1>1. jobCount \in Nat /\ id \in Nat /\ id <= jobCount
  BY DEF TypeOK, JobIds, Known
<1>2. ASSUME NEW i \in JobIds
      PROVE /\ i > jobCount => jobs'[i] = EmptyJob
            /\ i <= jobCount => jobs'[i].client \in Accounts
            /\ jobs'[i].status = "Submitted" => jobs'[i].provider \in Accounts
  BY <1>1, <1>2 DEF Roles, JobIds
<1> QED BY <1>2 DEF Roles

LEMMA StepFunds == FundsInv /\ [Next]_vars => FundsInv'
<1> SUFFICES ASSUME FundsInv, [Next]_vars PROVE FundsInv'
  OBVIOUS
<1>1. TypeOK /\ TypeOK' /\ Roles
  BY StepType DEF FundsInv
<1>2. \A id \in JobIds : jobs[id] \in JobRecords /\ jobs[id].budget \in Nat
  BY <1>1 DEF TypeOK, JobRecords, Amounts
<1> DEFINE Funds == Solvent /\ CounterExact /\ CapsHold
<1> SUFFICES Roles' /\ Funds'
  BY <1>1 DEF FundsInv
<1>3. ASSUME NEW caller \in Accounts, NEW p, NEW e, NEW x, NEW g, NewJob(caller, p, e, x, g)
      PROVE Roles' /\ Funds'
  <2>0. PICK id \in JobIds : id = jobCount + 1
    BY <1>1, <1>3, EscrowAssumption DEF NewJob, TypeOK, JobIds
  <2>1. id = jobCount + 1 /\ jobCount \in Nat /\ jobCount' = id
    BY <1>1, <1>3, <2>0 DEF NewJob, TypeOK
  <2>2. /\ jobs'[id].client = caller /\ jobs'[id].status = "Open"
        /\ \A i \in JobIds : i # id => jobs'[i] = jobs[i]
    BY <1>1, <1>3, <2>1 DEF NewJob, TypeOK
  <2>3. jobs[id].status = "Open"
    BY <1>1, <2>1 DEF Roles, EmptyJob
  <2>4. Funds'
    <3>1. ~ Escrowed(id) /\ ~ Escrowed(id)'
      BY <2>2, <2>3 DEF Escrowed
    <3>2. totalEscrowed' = totalEscrowed /\ balance' = balance /\ stray' = stray
      BY <1>3 DEF NewJob
    <3> QED BY <1>1, <2>1, <2>2, <3>1, <3>2, Neutral
  <2>5. Roles'
    <3>1. ASSUME NEW i \in JobIds
          PROVE /\ i > jobCount' => jobs'[i] = EmptyJob
                /\ i <= jobCount' => jobs'[i].client \in Accounts
                /\ jobs'[i].status = "Submitted" => jobs'[i].provider \in Accounts
      <4>1. CASE i = id
        BY <2>1, <2>2, <4>1
      <4>2. CASE i # id
        <5>1. jobs'[i] = jobs[i] /\ (i > id => i > jobCount) /\ (i <= id => i <= jobCount)
          BY <2>1, <2>2, <4>2 DEF JobIds
        <5> QED BY <1>1, <2>1, <5>1 DEF Roles
      <4> QED BY <4>1, <4>2
    <3> QED BY <3>1 DEF Roles
  <2> QED BY <2>4, <2>5
<1>4. ASSUME NEW caller, NEW id \in JobIds, NEW p, NEW g, Assign(caller, id, p, g)
      PROVE Roles' /\ Funds'
  <2>1. /\ Known(id) /\ jobCount' = jobCount /\ jobs[id].status = "Open"
        /\ \A i \in JobIds : i # id => jobs'[i] = jobs[i]
        /\ jobs'[id].client = jobs[id].client /\ jobs'[id].status = "Open"
        /\ totalEscrowed' = totalEscrowed /\ balance' = balance /\ stray' = stray
    BY <1>1, <1>2, <1>4 DEF Assign, IsOpen, TypeOK, JobRecords
  <2>2. ~ Escrowed(id) /\ ~ Escrowed(id)'
    BY <2>1 DEF Escrowed
  <2> QED BY <1>1, <2>1, <2>2, Neutral, KnownJobRoles
<1>5. ASSUME NEW caller \in Accounts, NEW id \in JobIds, NEW amount \in Amounts,
             SetBudget(caller, id, amount)
      PROVE Roles' /\ Funds'
  <2>1. /\ Known(id) /\ jobCount' = jobCount /\ jobs[id].status = "Open"
        /\ \A i \in JobIds : i # id => jobs'[i] = jobs[i]
        /\ jobs'[id].client = jobs[id].client /\ jobs'[id].status = "Open"
        /\ totalEscrowed' = totalEscrowed /\ balance' = balance /\ stray' = stray
    BY <1>1, <1>2, <1>5 DEF SetBudget, IsOpen, TypeOK, JobRecords
  <2>2. ~ Escrowed(id) /\ ~ Escrowed(id)'
    BY <2>1 DEF Escrowed
  <2> QED BY <1>1, <2>1, <2>2, Neutral, KnownJobRoles
<1>6. ASSUME NEW caller \in Accounts, NEW id \in JobIds, NEW d, Submit(caller, id, d)
      PROVE Roles' /\ Funds'
  <2>1. /\ Known(id) /\ jobCount' = jobCount /\ jobs[id].status = "Funded"
        /\ \A i \in JobIds : i # id => jobs'[i] = jobs[i]
        /\ jobs'[id].client = jobs[id].client /\ jobs'[id].status = "Submitted"
        /\ jobs'[id].provider = caller /\ jobs'[id].budget = jobs[id].budget
        /\ totalEscrowed' = totalEscrowed /\ balance' = balance /\ stray' = stray
    BY <1>1, <1>2, <1>6 DEF Submit, TypeOK, JobRecords
  <2>2. Escrowed(id) /\ Escrowed(id)'
    BY <2>1 DEF Escrowed
  <2> QED BY <1>1, <2>1, <2>2, Neutral, KnownJobRoles
<1>7. ASSUME NEW id \in JobIds, Known(id), Escrowed(id),
             NEW status \in {"Completed", "Rejected", "Expired"}, NEW payee \in Accounts,
             Settle(id, status, payee)
      PROVE Roles' /\ Funds'
  <2>1. /\ jobCount' = jobCount
        /\ \A i \in JobIds : i # id => jobs'[i] = jobs[i]
        /\ jobs'[id].client = jobs[id].client /\ jobs'[id].status = status
    BY <1>1, <1>2, <1>7 DEF Settle, TypeOK, JobRecords
  <2>2. Roles'
    BY <1>1, <1>7, <2>1, KnownJobRoles
  <2> QED BY <1>1, <1>7, <2>2, SettleFunds
<1>8. ASSUME NEW caller \in Accounts, NEW id \in JobIds, Complete(caller, id)
      PROVE Roles' /\ Funds'
  <2>1. Escrowed(id) /\ jobs[id].provider \in Accounts
    BY <1>1, <1>8 DEF Complete, Escrowed, Roles
  <2> QED BY <1>7, <1>8, <2>1 DEF Complete
<1>9. ASSUME NEW id \in JobIds, Known(id) PROVE jobs[id].client \in Accounts
  BY <1>1, <1>9 DEF Roles, Known
<1>10. ASSUME NEW caller \in Accounts, NEW id \in JobIds, RejectOpen(caller, id)
       PROVE Roles' /\ Funds'
  <2>1. /\ Known(id) /\ jobCount' = jobCount /\ jobs[id].status = "Open"
        /\ \A i \in JobIds : i # id => jobs'[i] = jobs[i]
        /\ jobs'[id].client = jobs[id].client /\ jobs'[id].status = "Rejected"
        /\ totalEscrowed' = totalEscrowed /\ balance' = balance /\ stray' = stray
    BY <1>1, <1>2, <1>10 DEF RejectOpen, TypeOK, JobRecords
  <2>2. ~ Escrowed(id) /\ ~ Escrowed(id)'
    BY <2>1 DEF Escrowed
  <2> QED BY <1>1, <2>1, <2>2, Neutral, KnownJobRoles
<1>11. ASSUME NEW caller \in Accounts, NEW id \in JobIds, RejectEscrowed(caller, id)
       PROVE Roles' /\ Funds'
  BY <1>7, <1>9, <1>11 DEF RejectEscrowed
<1>12. ASSUME NEW id \in JobIds, ClaimRefund(id) PROVE Roles' /\ Funds'
  BY <1>7, <1>9, <1>12 DEF ClaimRefund
<1>13. ASSUME NEW id \in JobIds, Fund(id) PROVE Roles' /\ Funds'
  <2>1. /\ Known(id) /\ jobCount' = jobCount
        /\ \A i \in JobIds : i # id => jobs'[i] = jobs[i]
        /\ jobs'[id].client = jobs[id].client /\ jobs'[id].status = "Funded"
    BY <1>1, <1>2, <1>13 DEF Fund, CanFund, IsOpen, TypeOK, JobRecords
  <2> QED BY <1>1, <1>13, <2>1, FundFunds, KnownJobRoles
<1>14. ASSUME jobs' = jobs, jobCount' = jobCount PROVE Roles'
  BY <1>1, <1>14 DEF Roles
<1>15. ASSUME jobs' = jobs, totalEscrowed' = totalEscrowed, balance' = balance, stray' = stray
       PROVE Funds'
  <2>1. TotalHeld' = TotalHeld /\ \A i \in JobIds : Escrowed(i)' = Escrowed(i)
    BY <1>15, HeldSame DEF Escrowed
  <2> QED BY <1>15, <2>1 DEF FundsInv, Solvent, CounterExact, CapsHold
<1>16. ASSUME NEW from \in Accounts, NEW amount \in Amounts, DirectTransfer(from, amount)
       PROVE Roles' /\ Funds'
  <2>1. Roles'
    BY <1>14, <1>16 DEF DirectTransfer
  <2> QED BY <1>1, <1>16, <2>1, DirectTransferFunds
<1>17. ASSUME \/ \E id \in JobIds, amount \in Amounts : SignFund(id, amount)
              \/ \E id \in JobIds : FundReverts(id)
              \/ Tick
              \/ \E agent \in Agents, to \in Accounts : TransferAgent(agent, to)
              \/ UNCHANGED vars
       PROVE Roles' /\ Funds'
  BY <1>14, <1>15, <1>17 DEF SignFund, FundReverts, Tick, TransferAgent, vars
<1> HIDE DEF Funds
<1>18. ASSUME NEW caller \in Accounts, CreateJob(caller) \/ CreateAgentJob(caller)
       PROVE Roles' /\ Funds'
  BY <1>3, <1>18 DEF CreateJob, CreateAgentJob
<1>19. ASSUME NEW caller \in Accounts, NEW id \in JobIds,
              SetProvider(caller, id) \/ SetAgentProvider(caller, id)
       PROVE Roles' /\ Funds'
  BY <1>4, <1>19 DEF SetProvider, SetAgentProvider
<1> QED
  BY <1>5, <1>6, <1>8, <1>10, <1>11, <1>12, <1>13, <1>16, <1>17, <1>18, <1>19
  DEF Next, Reject

LEMMA FundsInvariant == Spec => []FundsInv
  BY InitFunds, StepFunds, PTL DEF Spec

\* MainnetCanaryEscrow.sol:129-211: for every set of accounts and every limit,
\* the contract's balance is exactly what its escrowed jobs are owed, plus
\* whatever was sent to it outside of any job.
THEOREM SolventAlways == Spec => []Solvent
  BY FundsInvariant, PTL DEF FundsInv

\* The counter the canary compares with its aggregate cap is always the sum of
\* the escrowed budgets.
THEOREM CounterExactAlways == Spec => []CounterExact
  BY FundsInvariant, PTL DEF FundsInv

\* The caps limit each escrowed job and the aggregate, for all limits.
THEOREM CapsHoldAlways == Spec => []CapsHold
  BY FundsInvariant, PTL DEF FundsInv
-----------------------------------------------------------------------------
(* What a step can do to a job and to the money, whichever function it      *)
(* calls.  The action properties and the refinement are about these shapes. *)

Negotiated(id) ==
  /\ jobs[id].status = "Open"
  /\ \E r \in JobRecords : r.status = "Open" /\ jobs' = [jobs EXCEPT ![id] = r]
  /\ UNCHANGED <<balance, stray>>

Withdrawn(id) ==
  /\ jobs[id].status = "Open"
  /\ jobs' = [jobs EXCEPT ![id] = [jobs[id] EXCEPT !.status = "Rejected"]]
  /\ UNCHANGED <<balance, stray>>

Charged(id) ==
  /\ jobs[id].status = "Open"
  /\ jobs[id].client \in Accounts
  /\ jobs[id].budget = signed[id]
  /\ balance[jobs[id].client] >= jobs[id].budget
  /\ jobs' = [jobs EXCEPT ![id] = [jobs[id] EXCEPT !.status = "Funded"]]
  /\ balance' = Moved(jobs[id].client, EscrowAddr, jobs[id].budget)
  /\ UNCHANGED stray

Delivered(id) ==
  /\ jobs[id].status = "Funded"
  /\ \E d \in Deliverables \cup {ZeroHash} :
       jobs' = [jobs EXCEPT ![id] =
                  [jobs[id] EXCEPT !.status = "Submitted", !.deliverable = d]]
  /\ UNCHANGED <<balance, stray>>

PaidOut(id) ==
  /\ Escrowed(id)
  /\ \E status \in {"Completed", "Rejected", "Expired"} :
       jobs' = [jobs EXCEPT ![id] = [jobs[id] EXCEPT !.status = status]]
  /\ \E payee \in Accounts \cap {jobs[id].client, jobs[id].provider} :
       balance' = Moved(EscrowAddr, payee, jobs[id].budget)
  /\ UNCHANGED stray

StepShape ==
  \/ UNCHANGED <<jobs, balance, stray>>
  \/ \E id \in JobIds : \/ Negotiated(id) \/ Withdrawn(id) \/ Charged(id)
                        \/ Delivered(id) \/ PaidOut(id)
  \/ \E from \in Accounts, amount \in Amounts : DirectTransfer(from, amount)

\* A field of a job rewritten, as the whole record rewritten.
LEMMA JobUpdates ==
  ASSUME TypeOK, NEW id \in JobIds
  PROVE /\ \A s : [jobs EXCEPT ![id].status = s] =
                  [jobs EXCEPT ![id] = [jobs[id] EXCEPT !.status = s]]
        /\ \A b : [jobs EXCEPT ![id].budget = b] =
                  [jobs EXCEPT ![id] = [jobs[id] EXCEPT !.budget = b]]
        /\ \A s, d : [jobs EXCEPT ![id].status = s, ![id].deliverable = d] =
                     [jobs EXCEPT ![id] = [jobs[id] EXCEPT !.status = s, !.deliverable = d]]
        /\ \A p, g : [jobs EXCEPT ![id].provider = p, ![id].agent = g] =
                     [jobs EXCEPT ![id] = [jobs[id] EXCEPT !.provider = p, !.agent = g]]
  BY DEF TypeOK, JobRecords

LEMMA StepHasShape == FundsInv /\ [Next]_vars => StepShape
<1> SUFFICES ASSUME FundsInv, [Next]_vars PROVE StepShape
  OBVIOUS
<1>1. TypeOK /\ Roles
  BY DEF FundsInv
<1>2. \A id \in JobIds : jobs[id] \in JobRecords
  BY <1>1 DEF TypeOK
<1>3. ASSUME NEW caller \in Accounts, NEW p \in Addresses \cup {NoAddress},
             NEW e \in Addresses, NEW x \in Times, NEW g \in Agents \cup {NoAgent},
             NewJob(caller, p, e, x, g)
      PROVE  StepShape
  <2>1. PICK id \in JobIds : id = jobCount + 1
    BY <1>1, <1>3, EscrowAssumption DEF NewJob, TypeOK, JobIds
  <2>2. jobs[id].status = "Open"
    BY <1>1, <2>1 DEF Roles, EmptyJob, TypeOK
  <2>3. PICK r \in JobRecords :
          r = [client |-> caller, provider |-> p, evaluator |-> e, budget |-> 0,
               expiredAt |-> x, status |-> "Open", deliverable |-> ZeroHash, agent |-> g]
    BY NewRecord
  <2>4. r.status = "Open" /\ jobs' = [jobs EXCEPT ![id] = r] /\ UNCHANGED <<balance, stray>>
    BY <1>3, <2>1, <2>3 DEF NewJob
  <2> QED BY <2>2, <2>4 DEF StepShape, Negotiated
<1>4. ASSUME NEW caller, NEW id \in JobIds, NEW p \in Addresses,
             NEW g \in Agents \cup {NoAgent}, Assign(caller, id, p, g)
      PROVE  StepShape
  <2>1. jobs[id].status = "Open" /\ UNCHANGED <<balance, stray>>
    BY <1>4 DEF Assign, IsOpen
  <2>2. PICK r \in JobRecords : r = [jobs[id] EXCEPT !.provider = p, !.agent = g]
    BY <1>2, RecordUpdates
  <2>3. jobs' = [jobs EXCEPT ![id] = r]
    BY <1>1, <1>4, <2>2, JobUpdates DEF Assign
  <2>4. r.status = "Open"
    BY <1>2, <2>1, <2>2 DEF JobRecords
  <2> QED BY <2>1, <2>3, <2>4 DEF StepShape, Negotiated
<1>5. ASSUME NEW caller, NEW id \in JobIds, NEW amount \in Amounts, SetBudget(caller, id, amount)
      PROVE  StepShape
  <2>1. jobs[id].status = "Open" /\ UNCHANGED <<balance, stray>>
    BY <1>5 DEF SetBudget, IsOpen
  <2>2. PICK r \in JobRecords : r = [jobs[id] EXCEPT !.budget = amount]
    BY <1>2, RecordUpdates
  <2>3. jobs' = [jobs EXCEPT ![id] = r]
    BY <1>1, <1>5, <2>2, JobUpdates DEF SetBudget
  <2>4. r.status = "Open"
    BY <1>2, <2>1, <2>2 DEF JobRecords
  <2> QED BY <2>1, <2>3, <2>4 DEF StepShape, Negotiated
<1>6. ASSUME NEW caller, NEW id \in JobIds, RejectOpen(caller, id) PROVE StepShape
  <2>1. Withdrawn(id)
    BY <1>1, <1>6, JobUpdates DEF RejectOpen, Withdrawn
  <2> QED BY <2>1 DEF StepShape
<1>7. ASSUME NEW id \in JobIds, Fund(id) PROVE StepShape
  <2>1. jobs[id].client \in Accounts
    BY <1>1, <1>7 DEF Fund, CanFund, IsOpen, Known, Roles
  <2>2. Charged(id)
    BY <1>1, <1>7, <2>1, JobUpdates DEF Fund, CanFund, IsOpen, Charged
  <2> QED BY <2>2 DEF StepShape
<1>8. ASSUME NEW caller, NEW id \in JobIds, NEW d \in Deliverables \cup {ZeroHash},
             Submit(caller, id, d)
      PROVE  StepShape
  <2>1. jobs[id].status = "Funded" /\ UNCHANGED <<balance, stray>>
    BY <1>8 DEF Submit
  <2>2. jobs' = [jobs EXCEPT ![id] = [jobs[id] EXCEPT !.status = "Submitted", !.deliverable = d]]
    BY <1>1, <1>8, JobUpdates, Zenon DEF Submit
  <2> QED BY <2>1, <2>2 DEF StepShape, Delivered
<1>9. ASSUME NEW id \in JobIds, Escrowed(id), NEW status \in {"Completed", "Rejected", "Expired"},
             NEW payee \in Accounts \cap {jobs[id].client, jobs[id].provider},
             Settle(id, status, payee)
      PROVE  StepShape
  <2>1. PaidOut(id)
    BY <1>1, <1>9, JobUpdates DEF Settle, PaidOut
  <2> QED BY <2>1 DEF StepShape
<1>10. \A id \in JobIds : Known(id) => jobs[id].client \in Accounts
  BY <1>1 DEF Roles, Known
<1>11. ASSUME NEW caller, NEW id \in JobIds, Complete(caller, id) PROVE StepShape
  <2>1. Escrowed(id) /\ jobs[id].provider \in Accounts
    BY <1>1, <1>11 DEF Complete, Escrowed, Roles
  <2> QED BY <1>9, <1>11, <2>1 DEF Complete
<1>12. ASSUME NEW caller, NEW id \in JobIds, RejectEscrowed(caller, id) PROVE StepShape
  BY <1>9, <1>10, <1>12 DEF RejectEscrowed
<1>13. ASSUME NEW id \in JobIds, ClaimRefund(id) PROVE StepShape
  BY <1>9, <1>10, <1>13 DEF ClaimRefund
<1>14. ASSUME NEW caller \in Accounts, CreateJob(caller) \/ CreateAgentJob(caller) PROVE StepShape
  <2>1. \A g \in Agents : owner[g] \in Addresses
    BY <1>1 DEF TypeOK, Addresses
  <2> QED BY <1>3, <1>14, <2>1 DEF CreateJob, CreateAgentJob
<1>15. ASSUME NEW caller \in Accounts, NEW id \in JobIds,
              SetProvider(caller, id) \/ SetAgentProvider(caller, id)
       PROVE  StepShape
  <2>1. \A g \in Agents : owner[g] \in Addresses
    BY <1>1 DEF TypeOK, Addresses
  <2>2. jobs[id].agent \in Agents \cup {NoAgent}
    BY <1>2 DEF JobRecords
  <2> QED BY <1>4, <1>15, <2>1, <2>2 DEF SetProvider, SetAgentProvider
<1>16. ASSUME \/ \E id \in JobIds, amount \in Amounts : SignFund(id, amount)
              \/ \E id \in JobIds : FundReverts(id)
              \/ Tick
              \/ \E agent \in Agents, to \in Accounts : TransferAgent(agent, to)
              \/ UNCHANGED vars
       PROVE  StepShape
  BY <1>16 DEF StepShape, SignFund, FundReverts, Tick, TransferAgent, vars
<1>17. ASSUME NEW from \in Accounts, NEW amount \in Amounts, DirectTransfer(from, amount)
       PROVE  StepShape
  BY <1>17 DEF StepShape
<1> QED
  BY <1>5, <1>6, <1>7, <1>8, <1>11, <1>12, <1>13, <1>14, <1>15, <1>16, <1>17 DEF Next, Reject
-----------------------------------------------------------------------------
(* The action properties.                                                   *)

LEMMA ShapeFreezesTerms ==
  ASSUME TypeOK, StepShape, NEW id \in JobIds, jobs[id].status # "Open"
  PROVE /\ [jobs'[id] EXCEPT !.status = jobs[id].status, !.deliverable = jobs[id].deliverable]
             = jobs[id]
        /\ jobs[id].status # "Funded" => jobs'[id].deliverable = jobs[id].deliverable
        /\ ~ Escrowed(id) => jobs'[id] = jobs[id]
<1>1. jobs[id] \in JobRecords
  BY DEF TypeOK
<1>2. ASSUME NEW r \in JobRecords
      PROVE  /\ [r EXCEPT !.status = r.status, !.deliverable = r.deliverable] = r
             /\ \A s : LET t == [r EXCEPT !.status = s]
                      IN [t EXCEPT !.status = r.status, !.deliverable = r.deliverable] = r
             /\ \A s, d : LET t == [r EXCEPT !.status = s, !.deliverable = d]
                         IN [t EXCEPT !.status = r.status, !.deliverable = r.deliverable] = r
  BY DEF JobRecords
<1>3. CASE jobs'[id] = jobs[id]
  BY <1>1, <1>2, <1>3
<1>4. CASE Delivered(id)
  <2>1. PICK d : jobs'[id] = [jobs[id] EXCEPT !.status = "Submitted", !.deliverable = d]
    BY <1>4 DEF Delivered, TypeOK
  <2>2. jobs[id].status = "Funded"
    BY <1>4 DEF Delivered
  <2> QED BY <1>1, <1>2, <2>1, <2>2 DEF Escrowed
<1>5. CASE PaidOut(id)
  <2>1. PICK s : jobs'[id] = [jobs[id] EXCEPT !.status = s]
    BY <1>5 DEF PaidOut, TypeOK
  <2>2. Escrowed(id)
    BY <1>5 DEF PaidOut
  <2>3. jobs'[id].deliverable = jobs[id].deliverable
    BY <1>1, <2>1 DEF JobRecords
  <2>4. [jobs'[id] EXCEPT !.status = jobs[id].status, !.deliverable = jobs[id].deliverable]
          = jobs[id]
    BY <1>1, <1>2, <2>1
  <2> QED BY <2>2, <2>3, <2>4
<1>6. jobs'[id] = jobs[id] \/ Delivered(id) \/ PaidOut(id)
  <2>1. ASSUME NEW i \in JobIds, i # id,
               \/ Negotiated(i) \/ Withdrawn(i) \/ Charged(i) \/ Delivered(i) \/ PaidOut(i)
        PROVE  jobs'[id] = jobs[id]
    BY <2>1 DEF Negotiated, Withdrawn, Charged, Delivered, PaidOut, TypeOK
  <2>2. ~ (Negotiated(id) \/ Withdrawn(id) \/ Charged(id))
    BY DEF Negotiated, Withdrawn, Charged
  <2> QED BY <2>1, <2>2 DEF StepShape, DirectTransfer
<1> QED BY <1>3, <1>4, <1>5, <1>6

\* A job is delivered and paid before its deadline, and refunded from it on.
LEMMA StepInTime ==
  ASSUME TypeOK, [Next]_vars, NEW id \in JobIds, jobs[id].status # "Open"
  PROVE  InTime(id)
<1>1. \A i \in JobIds : jobs[i] \in JobRecords /\ DOMAIN jobs = JobIds
  BY DEF TypeOK
<1>2. jobs'[id] = jobs[id] => InTime(id)
  BY DEF InTime
<1>3. \A i \in JobIds : \A s : jobs' = [jobs EXCEPT ![i].status = s] =>
        jobs'[id] = jobs[id] \/ (i = id /\ jobs'[id].status = s)
  BY <1>1 DEF JobRecords
<1>4. ASSUME NEW caller, NEW provider, NEW evaluator, NEW expiry, NEW agent,
             NewJob(caller, provider, evaluator, expiry, agent)
      PROVE  InTime(id)
  BY <1>1, <1>4 DEF NewJob, InTime
<1>5. ASSUME NEW i \in JobIds, NEW caller, NEW provider, NEW agent,
             Assign(caller, i, provider, agent)
      PROVE  InTime(id)
  BY <1>1, <1>2, <1>5 DEF Assign, IsOpen
<1>6. ASSUME NEW i \in JobIds, NEW caller, NEW amount, SetBudget(caller, i, amount)
      PROVE  InTime(id)
  BY <1>1, <1>2, <1>6 DEF SetBudget, IsOpen
<1>7. ASSUME NEW i \in JobIds, Fund(i) PROVE InTime(id)
  BY <1>1, <1>2, <1>7 DEF Fund, CanFund, IsOpen
<1>8. ASSUME NEW i \in JobIds, NEW caller, NEW d, Submit(caller, i, d) PROVE InTime(id)
  BY <1>1, <1>2, <1>8 DEF Submit, InTime, JobRecords
<1>9. ASSUME NEW i \in JobIds, NEW caller, Complete(caller, i) PROVE InTime(id)
  BY <1>2, <1>3, <1>9 DEF Complete, Settle, InTime
<1>10. ASSUME NEW i \in JobIds, NEW caller, Reject(caller, i) PROVE InTime(id)
  BY <1>2, <1>3, <1>10 DEF Reject, RejectOpen, RejectEscrowed, Settle, InTime
<1>11. ASSUME NEW i \in JobIds, ClaimRefund(i) PROVE InTime(id)
  BY <1>2, <1>3, <1>11 DEF ClaimRefund, Settle, InTime
<1>12. ASSUME UNCHANGED jobs PROVE InTime(id)
  BY <1>2, <1>12
<1> QED
  BY <1>4, <1>5, <1>6, <1>7, <1>8, <1>9, <1>10, <1>11, <1>12
  DEF Next, CreateJob, CreateAgentJob, SetProvider, SetAgentProvider, SignFund, FundReverts,
      Tick, TransferAgent, DirectTransfer, vars

\* MainnetCanaryEscrow.sol: once funded, who pays, who is paid, who judges, how
\* much and until when never change, nor the deliverable once submitted; a
\* settled job never changes again, whoever calls what in which order; and it is
\* paid only before its deadline, and refunded as expired only from it on.
THEOREM TermsFrozenAlways == Spec => TermsFrozen
<1> DEFINE Frozen ==
      \A id \in JobIds :
        LET before == jobs[id]
            after == jobs'[id]
        IN before.status # "Open" =>
             /\ [after EXCEPT !.status = before.status, !.deliverable = before.deliverable] = before
             /\ before.status # "Funded" => after.deliverable = before.deliverable
             /\ ~Escrowed(id) => after = before
             /\ InTime(id)
<1>1. FundsInv /\ [Next]_vars => [Frozen]_vars
  <2> SUFFICES ASSUME FundsInv, [Next]_vars PROVE Frozen
    OBVIOUS
  <2>1. TypeOK /\ StepShape
    BY StepHasShape DEF FundsInv
  <2>2. TypeOK /\ [Next]_vars
    BY <2>1
  <2> QED BY <2>1, <2>2, ShapeFreezesTerms, StepInTime
<1>2. Spec => [][Frozen]_vars
  BY <1>1, FundsInvariant, PTL DEF Spec
<1> QED BY <1>2 DEF TermsFrozen

\* The balances of accounts after a transfer into the escrow and out of it.
LEMMA MovedBalances ==
  ASSUME TypeOK, NEW a \in Accounts, NEW b \in Accounts, NEW amount \in Nat
  PROVE /\ Moved(a, EscrowAddr, amount)[b] = IF b = a THEN balance[b] - amount ELSE balance[b]
        /\ Moved(EscrowAddr, a, amount)[b] = IF b = a THEN balance[b] + amount ELSE balance[b]
  BY EscrowAssumption DEF Moved, Addresses

LEMMA ShapeCharges ==
  ASSUME TypeOK, StepShape, NEW a \in Accounts, balance'[a] < balance[a]
  PROVE \/ stray' = stray + (balance[a] - balance'[a])
        \/ \E id \in JobIds : /\ jobs[id].client = a
                              /\ signed[id] = balance[a] - balance'[a]
                              /\ jobs'[id] = [jobs[id] EXCEPT !.status = "Funded"]
<1>1. balance[a] \in Nat /\ \A id \in JobIds : jobs[id].budget \in Nat
  BY DEF TypeOK, JobRecords, Amounts, Addresses
<1>2. balance' # balance
  BY <1>1
<1>3. ASSUME NEW id \in JobIds, Charged(id)
      PROVE  /\ jobs[id].client = a
             /\ signed[id] = balance[a] - balance'[a]
             /\ jobs'[id] = [jobs[id] EXCEPT !.status = "Funded"]
  <2>1. /\ jobs[id].client \in Accounts /\ jobs[id].budget = signed[id]
        /\ balance' = Moved(jobs[id].client, EscrowAddr, jobs[id].budget)
    BY <1>3 DEF Charged
  <2>2. balance'[a] = IF a = jobs[id].client THEN balance[a] - jobs[id].budget ELSE balance[a]
    BY <1>1, <2>1, MovedBalances
  <2>3. jobs'[id] = [jobs[id] EXCEPT !.status = "Funded"]
    BY <1>3 DEF Charged, TypeOK
  <2> QED BY <1>1, <2>1, <2>2, <2>3
<1>4. ASSUME NEW id \in JobIds, PaidOut(id) PROVE FALSE
  <2>1. PICK payee \in Accounts : balance' = Moved(EscrowAddr, payee, jobs[id].budget)
    BY <1>4 DEF PaidOut
  <2>2. balance'[a] = IF a = payee THEN balance[a] + jobs[id].budget ELSE balance[a]
    BY <1>1, <2>1, MovedBalances
  <2> QED BY <1>1, <2>2
<1>5. ASSUME NEW from \in Accounts, NEW amount \in Amounts, DirectTransfer(from, amount)
      PROVE  stray' = stray + (balance[a] - balance'[a])
  <2>1. /\ amount \in Nat /\ balance' = Moved(from, EscrowAddr, amount)
        /\ stray' = stray + amount
    BY <1>5 DEF DirectTransfer, Amounts
  <2>2. balance'[a] = IF a = from THEN balance[a] - amount ELSE balance[a]
    BY <2>1, MovedBalances
  <2> QED BY <1>1, <2>1, <2>2
<1> QED
  BY <1>2, <1>3, <1>4, <1>5 DEF StepShape, Negotiated, Withdrawn, Delivered

\* MainnetCanaryEscrow.sol:129-133 (expectedBudget): an account loses tokens only to
\* a funding of its own job for exactly the amount it signed, or to a transfer of
\* its own, whatever the provider does to the budget in between.
THEOREM ChargedAsSignedAlways == Spec => ChargedAsSigned
<1> DEFINE AsSigned ==
      \A a \in Accounts :
        balance'[a] < balance[a] =>
          LET paid == balance[a] - balance'[a] IN
          \/ stray' = stray + paid
          \/ \E id \in JobIds : /\ jobs[id].client = a
                                /\ signed[id] = paid
                                /\ jobs'[id] = [jobs[id] EXCEPT !.status = "Funded"]
<1>1. FundsInv /\ [Next]_vars => [AsSigned]_vars
  <2> SUFFICES ASSUME FundsInv, [Next]_vars PROVE AsSigned
    OBVIOUS
  <2>1. TypeOK /\ StepShape
    BY StepHasShape DEF FundsInv
  <2> QED BY <2>1, ShapeCharges
<1>2. Spec => [][AsSigned]_vars
  BY <1>1, FundsInvariant, PTL DEF Spec
<1> QED BY <1>2 DEF ChargedAsSigned
-----------------------------------------------------------------------------
(* The contract implements PaymentPromise: each shape is a step of the      *)
(* promise, or changes none of what the promise sees.                       *)

LEMMA InitPromise == Init => Promise!Init
<1> SUFFICES ASSUME Init PROVE Promise!Init
  OBVIOUS
<1>1. TypeOK
  BY InitType
<1>2. PromisePhase = [id \in JobIds |-> "negotiating"]
  BY DEF Init, PromisePhase, EmptyJob
<1>3. PromiseTerms \in [JobIds -> [payer : Accounts \cup {NoAddress},
                                   payee : Addresses \cup {NoAddress}, amount : Amounts]]
  BY <1>1 DEF PromiseTerms, TypeOK, JobRecords
<1>4. PromiseWallet \in [Accounts -> Nat]
  BY <1>1 DEF PromiseWallet, TypeOK, Addresses
<1> QED BY <1>2, <1>3, <1>4 DEF Promise!Init

\* What the promise sees of a step that rewrites one job.
LEMMA PromiseOfJob ==
  ASSUME TypeOK, NEW id \in JobIds, NEW r, jobs' = [jobs EXCEPT ![id] = r]
  PROVE /\ PromisePhase' =
             [PromisePhase EXCEPT ![id] =
                IF r.status = "Open" THEN "negotiating"
                ELSE IF r.status \in {"Funded", "Submitted"} THEN "held" ELSE "closed"]
        /\ PromiseTerms' =
             [PromiseTerms EXCEPT ![id] =
                [payer |-> r.client, payee |-> r.provider, amount |-> r.budget]]
<1>1. jobs' \in [JobIds -> JobRecords \cup {r}]
      /\ jobs'[id] = r /\ \A i \in JobIds : i # id => jobs'[i] = jobs[i]
  BY DEF TypeOK
<1>2. \A i \in JobIds : Escrowed(i)' <=> jobs'[i].status \in {"Funded", "Submitted"}
  BY DEF Escrowed
<1>3. PromisePhase' =
        [PromisePhase EXCEPT ![id] =
           IF r.status = "Open" THEN "negotiating"
           ELSE IF r.status \in {"Funded", "Submitted"} THEN "held" ELSE "closed"]
  BY <1>1, <1>2 DEF PromisePhase, Escrowed
<1>4. PromiseTerms' =
        [PromiseTerms EXCEPT ![id] =
           [payer |-> r.client, payee |-> r.provider, amount |-> r.budget]]
  BY <1>1 DEF PromiseTerms
<1> QED BY <1>3, <1>4

\* A change of status keeps the terms.
LEMMA PromiseOfStatus ==
  ASSUME TypeOK, NEW id \in JobIds, NEW r,
         jobs' = [jobs EXCEPT ![id] = r],
         r.client = jobs[id].client, r.provider = jobs[id].provider, r.budget = jobs[id].budget
  PROVE PromiseTerms' = PromiseTerms
<1>1. PromiseTerms' =
        [PromiseTerms EXCEPT ![id] =
           [payer |-> r.client, payee |-> r.provider, amount |-> r.budget]]
  BY PromiseOfJob
<1>2. PromiseTerms[id] =
        [payer |-> r.client, payee |-> r.provider, amount |-> r.budget]
  BY DEF PromiseTerms
<1> QED BY <1>1, <1>2 DEF PromiseTerms

LEMMA StatusUpdate ==
  ASSUME NEW j \in JobRecords, NEW s
  PROVE LET r == [j EXCEPT !.status = s]
        IN  /\ r.status = s /\ r.client = j.client
            /\ r.provider = j.provider /\ r.budget = j.budget
  BY DEF JobRecords

\* What it sees of a transfer between an account and the contract.
LEMMA PromiseOfTransfer ==
  ASSUME TypeOK, NEW a \in Accounts, NEW amount \in Nat
  PROVE /\ balance' = Moved(a, EscrowAddr, amount) =>
             PromiseWallet' = [PromiseWallet EXCEPT ![a] = PromiseWallet[a] - amount]
        /\ balance' = Moved(EscrowAddr, a, amount) =>
             PromiseWallet' = [PromiseWallet EXCEPT ![a] = PromiseWallet[a] + amount]
<1>1. \A v : (\A b \in Accounts : balance'[b] = IF b = a THEN v ELSE balance[b]) =>
            PromiseWallet' = [PromiseWallet EXCEPT ![a] = v]
  BY DEF PromiseWallet
<1>2. PromiseWallet[a] = balance[a]
  BY DEF PromiseWallet
<1>3. \A b \in Accounts :
        /\ Moved(a, EscrowAddr, amount)[b] = IF b = a THEN balance[a] - amount ELSE balance[b]
        /\ Moved(EscrowAddr, a, amount)[b] = IF b = a THEN balance[a] + amount ELSE balance[b]
  BY MovedBalances
<1> QED BY <1>1, <1>2, <1>3

LEMMA StepPromise == TypeOK /\ StepShape => [Promise!Next]_(Promise!vars)
<1> SUFFICES ASSUME TypeOK, StepShape
             PROVE  Promise!Next \/ UNCHANGED Promise!vars
  OBVIOUS
<1>1. \A id \in JobIds : jobs[id] \in JobRecords /\ jobs[id].budget \in Nat
  BY DEF TypeOK, JobRecords, Amounts
<1>2. \A id \in JobIds : /\ PromiseTerms[id].payer = jobs[id].client
                         /\ PromiseTerms[id].payee = jobs[id].provider
                         /\ PromiseTerms[id].amount = jobs[id].budget
  BY DEF PromiseTerms
<1>3. \A id \in JobIds :
        /\ jobs[id].status = "Open" => PromisePhase[id] = "negotiating"
        /\ Escrowed(id) => PromisePhase[id] = "held"
  BY DEF PromisePhase, Escrowed
<1>4. ASSUME balance' = balance PROVE PromiseWallet' = PromiseWallet
  BY <1>4 DEF PromiseWallet
<1>5. ASSUME NEW id \in JobIds, Negotiated(id) PROVE Promise!Next
  <2>1. PICK r \in JobRecords : r.status = "Open" /\ jobs' = [jobs EXCEPT ![id] = r]
    BY <1>5 DEF Negotiated
  <2>2. PromisePhase[id] = "negotiating" /\ PromiseWallet' = PromiseWallet
    BY <1>3, <1>4, <1>5 DEF Negotiated
  <2>3. PromisePhase' = [PromisePhase EXCEPT ![id] = "negotiating"]
    BY <2>1, PromiseOfJob
  <2>4. PromisePhase' = PromisePhase
    BY <2>2, <2>3 DEF PromisePhase
  <2>5. PromiseTerms' = [PromiseTerms EXCEPT ![id] =
          [payer |-> r.client, payee |-> r.provider, amount |-> r.budget]]
    BY <2>1, PromiseOfJob
  <2>6. [payer |-> r.client, payee |-> r.provider, amount |-> r.budget] \in
          [payer : Accounts \cup {NoAddress}, payee : Addresses \cup {NoAddress}, amount : Amounts]
    BY <2>1 DEF JobRecords
  <2>7. Promise!Negotiate(id)
    BY <2>2, <2>4, <2>5, <2>6 DEF Promise!Negotiate
  <2> QED BY <2>7 DEF Promise!Next
<1>6. ASSUME NEW id \in JobIds, Withdrawn(id) PROVE Promise!Next
  <2>1. PICK r : r = [jobs[id] EXCEPT !.status = "Rejected"]
    OBVIOUS
  <2>2. /\ jobs' = [jobs EXCEPT ![id] = r]
        /\ r.status = "Rejected" /\ r.client = jobs[id].client
        /\ r.provider = jobs[id].provider /\ r.budget = jobs[id].budget
    BY <1>1, <1>6, <2>1, StatusUpdate DEF Withdrawn
  <2>3. PromisePhase[id] = "negotiating" /\ PromiseWallet' = PromiseWallet
    BY <1>3, <1>4, <1>6 DEF Withdrawn
  <2>4. PromisePhase' = [PromisePhase EXCEPT ![id] = "closed"]
    BY <2>2, PromiseOfJob
  <2>5. PromiseTerms' = PromiseTerms
    BY <2>2, PromiseOfStatus
  <2>6. Promise!Abandon(id)
    BY <2>3, <2>4, <2>5 DEF Promise!Abandon
  <2> QED BY <2>6 DEF Promise!Next
<1>7. ASSUME NEW id \in JobIds, Charged(id) PROVE Promise!Next
  <2>1. PICK r : r = [jobs[id] EXCEPT !.status = "Funded"]
    OBVIOUS
  <2>2. /\ jobs' = [jobs EXCEPT ![id] = r]
        /\ r.status = "Funded" /\ r.client = jobs[id].client
        /\ r.provider = jobs[id].provider /\ r.budget = jobs[id].budget
    BY <1>1, <1>7, <2>1, StatusUpdate DEF Charged
  <2>3. PromisePhase[id] = "negotiating"
    BY <1>3, <1>7 DEF Charged
  <2>4. PromisePhase' = [PromisePhase EXCEPT ![id] = "held"]
    BY <2>2, PromiseOfJob
  <2>5. PromiseTerms' = PromiseTerms
    BY <2>2, PromiseOfStatus
  <2>6. PICK payer \in Accounts : payer = jobs[id].client
    BY <1>7 DEF Charged
  <2>7. PICK amount \in Nat : amount = jobs[id].budget
    BY <1>1
  <2>8. balance[payer] >= amount /\ balance' = Moved(payer, EscrowAddr, amount)
    BY <1>7, <2>6, <2>7 DEF Charged
  <2>9. PromiseWallet' = [PromiseWallet EXCEPT ![payer] = @ - amount]
    BY <2>8, PromiseOfTransfer
  <2>10. PromiseTerms[id].payer = payer /\ PromiseTerms[id].amount = amount
    BY <1>2, <2>6, <2>7
  <2>11. PromiseWallet[payer] >= amount
    BY <2>8 DEF PromiseWallet
  <2>12. Promise!Hold(id)
    BY <2>3, <2>4, <2>5, <2>9, <2>10, <2>11 DEF Promise!Hold
  <2> QED BY <2>12 DEF Promise!Next
<1>8. ASSUME NEW id \in JobIds, Delivered(id) PROVE UNCHANGED Promise!vars
  <2>1. PICK d, r : /\ r = [jobs[id] EXCEPT !.status = "Submitted", !.deliverable = d]
                    /\ jobs' = [jobs EXCEPT ![id] = r]
    BY <1>8 DEF Delivered
  <2>2. /\ r.status = "Submitted" /\ r.client = jobs[id].client
        /\ r.provider = jobs[id].provider /\ r.budget = jobs[id].budget
    BY <1>1, <2>1 DEF JobRecords
  <2>3. PromisePhase[id] = "held" /\ PromiseWallet' = PromiseWallet
    BY <1>3, <1>4, <1>8 DEF Delivered, Escrowed
  <2>4. PromisePhase' = [PromisePhase EXCEPT ![id] = "held"]
    BY <2>1, <2>2, PromiseOfJob
  <2>5. PromisePhase' = PromisePhase
    BY <2>3, <2>4 DEF PromisePhase
  <2>6. PromiseTerms' = PromiseTerms
    BY <2>1, <2>2, PromiseOfStatus
  <2> QED BY <2>3, <2>5, <2>6 DEF Promise!vars
<1>9. ASSUME NEW id \in JobIds, PaidOut(id) PROVE Promise!Next
  <2>0. PICK status \in {"Completed", "Rejected", "Expired"} :
          jobs' = [jobs EXCEPT ![id] = [jobs[id] EXCEPT !.status = status]]
    BY <1>9 DEF PaidOut
  <2>1. PICK r : /\ r = [jobs[id] EXCEPT !.status = status]
                 /\ jobs' = [jobs EXCEPT ![id] = r]
    BY <2>0
  <2>2. /\ r.status \notin {"Open", "Funded", "Submitted"} /\ r.client = jobs[id].client
        /\ r.provider = jobs[id].provider /\ r.budget = jobs[id].budget
    BY <1>1, <2>1, StatusUpdate
  <2>3. PromisePhase[id] = "held"
    BY <1>3, <1>9 DEF PaidOut
  <2>4. PromisePhase' = [PromisePhase EXCEPT ![id] = "closed"]
    BY <2>1, <2>2, PromiseOfJob
  <2>5. PromiseTerms' = PromiseTerms
    BY <2>1, <2>2, PromiseOfStatus
  <2>6. PICK payee \in Accounts :
          /\ payee \in {jobs[id].client, jobs[id].provider}
          /\ balance' = Moved(EscrowAddr, payee, jobs[id].budget)
    BY <1>9 DEF PaidOut
  <2>7. PICK amount \in Nat : amount = jobs[id].budget
    BY <1>1
  <2>8. PromiseWallet' = [PromiseWallet EXCEPT ![payee] = @ + amount]
    BY <2>6, <2>7, PromiseOfTransfer
  <2>9. PromiseTerms[id].amount = amount
        /\ (PromiseTerms[id].payee = payee \/ PromiseTerms[id].payer = payee)
    BY <1>2, <2>6, <2>7
  <2>10. Promise!CloseTo(id, payee)
    BY <2>3, <2>4, <2>5, <2>8, <2>9 DEF Promise!CloseTo
  <2>11. Promise!Pay(id) \/ Promise!Return(id)
    BY <2>9, <2>10 DEF Promise!Pay, Promise!Return
  <2> QED BY <2>11 DEF Promise!Next
<1>10. ASSUME NEW from \in Accounts, NEW amount \in Amounts, DirectTransfer(from, amount)
       PROVE  Promise!Next
  <2>1. /\ amount \in Nat /\ balance[from] \in Nat /\ balance[from] >= amount
        /\ balance' = Moved(from, EscrowAddr, amount) /\ jobs' = jobs
    BY <1>10 DEF DirectTransfer, Amounts, TypeOK, Addresses
  <2>2. PromisePhase' = PromisePhase /\ PromiseTerms' = PromiseTerms
    BY <2>1 DEF PromisePhase, PromiseTerms, Escrowed
  <2>3. PICK rest \in 0 .. balance[from] : rest = balance[from] - amount
    BY <2>1
  <2>4. PromiseWallet' = [PromiseWallet EXCEPT ![from] = rest]
    <3>1. PromiseWallet[from] = balance[from]
      BY DEF PromiseWallet
    <3> QED BY <2>1, <2>3, <3>1, PromiseOfTransfer
  <2>5. rest \in 0 .. PromiseWallet[from]
    BY <2>3 DEF PromiseWallet
  <2>6. Promise!Spend(from)
    BY <2>2, <2>4, <2>5 DEF Promise!Spend
  <2> QED BY <2>6 DEF Promise!Next
<1>11. ASSUME UNCHANGED <<jobs, balance, stray>> PROVE UNCHANGED Promise!vars
  BY <1>11 DEF Promise!vars, PromisePhase, PromiseTerms, PromiseWallet, Escrowed
<1> QED
  BY <1>5, <1>6, <1>7, <1>8, <1>9, <1>10, <1>11 DEF StepShape

\* The escrow contract implements PaymentPromise: held money goes once, whole, to
\* the provider or back to the client, and no account's tokens move for any other
\* reason than its own funding or spending.
THEOREM PromiseKeptAlways == Spec => PromiseKept
<1>1. FundsInv /\ [Next]_vars => [Promise!Next]_(Promise!vars)
  BY StepHasShape, StepPromise DEF FundsInv
<1> QED BY <1>1, InitPromise, FundsInvariant, PTL DEF Spec, PromiseKept, Promise!Spec
=============================================================================
