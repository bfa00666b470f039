---------------------------- MODULE BuyerFunding ----------------------------
(***************************************************************************)
(* The funding of the project's buyer agent on the main network             *)
(* (scripts/fund-okx-ai-selftest-buyer.mjs): balances are read, missing     *)
(* funds are provided by transactions that are recorded after their         *)
(* receipts, and the agent spends what it gets.  Amounts are in units of    *)
(* one funding (0.100 USDT).                                                *)
(***************************************************************************)
EXTENDS Naturals, FiniteSets

CONSTANTS MaxCommands, MaxSwaps   \* bounds

BoundsAreNumbers == {MaxCommands, MaxSwaps} \subseteq Nat

VARIABLES report,     \* the evidence file: whether it is funded, the transfers recorded
          at,         \* where the command is
          commands,
          before,     \* the agent's balance read at the start of the command
          buyer, agent, gas,   \* balances: the project buyer's and the agent's USDT, the buyer's gas
          swaps,      \* swaps done, each of which buys one funding
          pending,    \* steps whose transaction is sent and not mined
          transfers,  \* fundings mined
          cut         \* commands that ended between the sending of a funding and the end
vars == <<report, at, commands, before, buyer, agent, gas, swaps, pending, transfers, cut>>
balances == <<buyer, agent, gas, swaps, pending, transfers>>

Sent == {"gas", "swap", "fund"}
Init == /\ report = [funded |-> FALSE, recorded |-> 0] /\ at = "off" /\ commands = 0 /\ before = 0
        /\ buyer \in 0..1 /\ agent = 0 /\ gas \in BOOLEAN /\ swaps = 0 /\ transfers = 0
        /\ pending = [s \in Sent |-> 0]
        /\ cut = 0

Save(r) == report' = r

\* The balances, then the journal: nothing is done for an agent that was funded.
Start ==
  /\ at = "off" /\ commands < MaxCommands /\ commands' = commands + 1
  /\ before' = agent
  /\ at' = IF report.funded THEN "off" ELSE IF agent >= 1 THEN "already funded" ELSE "gas"
  /\ UNCHANGED <<report, balances, cut>>
AlreadyFunded ==
  /\ at = "already funded" /\ at' = "off" /\ Save([report EXCEPT !.funded = TRUE])
  /\ UNCHANGED <<commands, before, balances, cut>>

Send(stepName, waiting) ==
  /\ pending' = [pending EXCEPT ![stepName] = @ + 1] /\ at' = waiting
  /\ UNCHANGED <<report, commands, before, buyer, agent, gas, swaps, transfers, cut>>
Skip(next) == at' = next /\ UNCHANGED <<report, commands, before, balances, cut>>

TopUp == /\ at = "gas"
         /\ IF gas THEN Skip("swap") ELSE Send("gas", "gas sent")
\* The transfer of the input, its exact allowance and the swap, one after the other.
Swap == /\ at = "swap"
        /\ IF buyer >= 1 THEN Skip("fund") ELSE swaps + pending["swap"] < MaxSwaps /\ Send("swap", "swap sent")
Fund == /\ at = "fund" /\ buyer >= 1 /\ Send("fund", "fund sent")

\* A transaction is mined; a transfer the balance does not allow reverts, and
\* ends the command that waits for it.
Reverts(s) == s = "fund" /\ buyer = 0
Mined(s) ==
  /\ pending[s] > 0 /\ pending' = [pending EXCEPT ![s] = @ - 1]
  /\ gas' = (gas \/ s = "gas")
  /\ swaps' = IF s = "swap" THEN swaps + 1 ELSE swaps
  /\ IF s # "fund" \/ Reverts(s)
     THEN /\ buyer' = (IF s = "swap" THEN buyer + 1 ELSE buyer) /\ UNCHANGED <<agent, transfers>>
     ELSE buyer' = buyer - 1 /\ agent' = agent + 1 /\ transfers' = transfers + 1
  /\ IF Reverts(s) /\ at = "fund sent" /\ pending[s] = 1
     THEN at' = "off" /\ cut' = cut + 1
     ELSE UNCHANGED <<at, cut>>
  /\ UNCHANGED <<report, commands, before>>
\* The agent pays for the task it was funded for.
AgentSpends ==
  /\ agent > 0 /\ agent' = agent - 1
  /\ UNCHANGED <<report, at, commands, before, buyer, gas, swaps, pending, transfers, cut>>

\* record: the receipt, then the file.
Record ==
  /\ \/ at = "gas sent" /\ pending["gas"] = 0 /\ at' = "swap" /\ UNCHANGED report
     \/ at = "swap sent" /\ pending["swap"] = 0 /\ at' = "fund" /\ UNCHANGED report
     \/ /\ at = "fund sent" /\ pending["fund"] = 0 /\ at' = "check"
        /\ Save([report EXCEPT !.recorded = @ + 1])
  /\ UNCHANGED <<commands, before, balances, cut>>

\* The balance must show the funding, which a lagging node or a spending may hide.
Finish ==
  /\ at = "check" /\ agent >= 1 /\ at' = "off" /\ Save([report EXCEPT !.funded = TRUE])
  /\ UNCHANGED <<commands, before, balances, cut>>
\* The command ends: a crash, an RPC error, a failed check.
Stop ==
  /\ at # "off" /\ at' = "off"
  /\ cut' = IF at \in {"fund sent", "check"} THEN cut + 1 ELSE cut
  /\ UNCHANGED <<report, commands, before, balances>>

Next == \/ Start \/ AlreadyFunded \/ TopUp \/ Swap \/ Fund \/ Record \/ Finish \/ Stop \/ AgentSpends
        \/ \E s \in Sent : Mined(s)
Spec == Init /\ [][Next]_vars

-----------------------------------------------------------------------------
TypeOK ==
  /\ report.funded \in BOOLEAN /\ report.recorded \in 0..MaxCommands
  /\ buyer \in 0..(MaxSwaps + 1) /\ agent \in 0..MaxCommands /\ swaps \in 0..MaxSwaps
  /\ pending \in [Sent -> 0..MaxCommands] /\ commands \in 0..MaxCommands
  /\ transfers <= swaps + 1

\* The agent is funded again only after a command that ended between the sending
\* of a funding and the end of its journal: what a run to the end leaves in the
\* file holds for every later one (fund-okx-ai-selftest-buyer.mjs:110-120, 159-167).
FundedAgainOnlyAfterACut == transfers <= 1 + cut
=============================================================================
