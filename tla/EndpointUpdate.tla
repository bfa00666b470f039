--------------------------- MODULE EndpointUpdate ---------------------------
(***************************************************************************)
(* The agents' endpoints are moved to another origin                        *)
(* (scripts/update-agent-endpoints.mjs): a transaction for each agent,      *)
(* journalled before it is sent, and a journal for each origin.             *)
(***************************************************************************)
EXTENDS Naturals, Sequences

CONSTANTS Agents,               \* their number, in the order of the manifest
          MaxCommands, MaxTxs   \* bounds

AgentsAreNumbered == {Agents, MaxCommands, MaxTxs} \subseteq Nat

VARIABLES file, journal,   \* on disk, and in the command's memory
          manifest,        \* the origin of each agent in the manifest, and its transactions
          at, agent, commands,
          txs,             \* transactions signed: their agent, origin and fate
          uri              \* of each agent on chain, by its origin
vars == <<file, journal, manifest, at, agent, commands, txs, uri>>

Origins == {"new", "newer"}
NoJournal == [base |-> "none", entries |-> [a \in 1..Agents |-> 0], completed |-> FALSE]
Init == /\ file = NoJournal /\ journal = NoJournal /\ at = "off" /\ agent = 1 /\ commands = 0
        /\ manifest = [endpoint |-> [a \in 1..Agents |-> "first"], transactions |-> {}]
        /\ txs = <<>> /\ uri = [a \in 1..Agents |-> "first"]

\* The chain: a transaction is mined, forgotten by the pool, or made void by
\* another use of its nonce, after which it is never accepted.
Mined(t) == /\ txs[t].is = "pool" /\ txs' = [txs EXCEPT ![t].is = "mined"]
            /\ uri' = [uri EXCEPT ![txs[t].agent] = txs[t].base]
            /\ UNCHANGED <<file, journal, manifest, at, agent, commands>>
Dropped(t) == /\ txs[t].is \in {"signed", "pool"}
              /\ \E is \in {"signed", "void"} : txs' = [txs EXCEPT ![t].is = is]
              /\ UNCHANGED <<file, journal, manifest, at, agent, commands, uri>>

-----------------------------------------------------------------------------
\* A journal of another origin is archived when it is complete, and refused
\* before; the new one is on disk with its first entry.
Start(base) ==
  /\ at = "off" /\ commands < MaxCommands /\ commands' = commands + 1 /\ agent' = 1
  /\ file.base \in {"none", base} \/ file.completed
  /\ at' = "agent" /\ journal' = IF file.base = base THEN file ELSE [NoJournal EXCEPT !.base = base]
  /\ UNCHANGED <<file, manifest, txs, uri>>

\* An agent without an entry is left alone if it has the endpoint already.
Sign ==
  /\ at = "agent" /\ agent <= Agents /\ journal.entries[agent] = 0 /\ uri[agent] # journal.base
  /\ Len(txs) < MaxTxs /\ txs' = Append(txs, [agent |-> agent, base |-> journal.base, is |-> "signed"])
  /\ journal' = [journal EXCEPT !.entries[agent] = Len(txs')] /\ file' = journal'
  /\ UNCHANGED <<manifest, at, agent, commands, uri>>
\* Sent unless the node knows it; an error is fatal unless the node knows it then.
Broadcast ==
  LET t == journal.entries[agent] IN
  /\ at = "agent" /\ agent <= Agents /\ t # 0
  /\ IF txs[t].is \in {"pool", "mined"} THEN at' = "receipt" /\ UNCHANGED txs
     ELSE IF txs[t].is = "void" THEN at' = "off" /\ UNCHANGED txs
     ELSE txs' = [txs EXCEPT ![t].is = "pool"] /\ at' = "receipt"
  /\ UNCHANGED <<file, journal, manifest, agent, commands, uri>>
\* The receipt, and the endpoint as the node shows it; the manifest has both.
Receipt ==
  LET t == journal.entries[agent] IN
  /\ \/ at = "receipt" /\ txs[t].is = "mined" /\ uri[agent] = journal.base
     \/ at = "agent" /\ agent <= Agents /\ t = 0 /\ uri[agent] = journal.base
  /\ manifest' = [endpoint |-> [manifest.endpoint EXCEPT ![agent] = journal.base],
                  transactions |-> manifest.transactions \cup ({t} \ {0})]
  /\ at' = "agent" /\ agent' = agent + 1
  /\ UNCHANGED <<file, journal, commands, txs, uri>>
Complete ==
  /\ at = "agent" /\ agent > Agents /\ at' = "off"
  /\ journal' = [journal EXCEPT !.completed = TRUE] /\ file' = journal'
  /\ UNCHANGED <<manifest, agent, commands, txs, uri>>
\* The command is stopped, times out or fails.
Stop == at # "off" /\ at' = "off" /\ UNCHANGED <<file, journal, manifest, agent, commands, txs, uri>>

Next == \/ \E t \in DOMAIN txs : Mined(t) \/ Dropped(t)
        \/ \E base \in Origins : Start(base)
        \/ Sign \/ Broadcast \/ Receipt \/ Complete \/ Stop
Spec == Init /\ [][Next]_vars

-----------------------------------------------------------------------------
TypeOK ==
  /\ {file.base, journal.base} \subseteq Origins \cup {"none"} /\ at \in {"off", "agent", "receipt"}
  /\ agent \in 1..(Agents + 1) /\ commands \in 0..MaxCommands /\ Len(txs) <= MaxTxs
  /\ \A t \in DOMAIN txs : txs[t].agent \in 1..Agents /\ txs[t].is \in {"signed", "pool", "mined", "void"}
  /\ file.entries \in [1..Agents -> 0..Len(txs)] /\ manifest.transactions \subseteq DOMAIN txs

\* A transaction that may still be mined is in the journal on disk, whatever
\* stopped the command and whichever origin came after; and a complete journal is
\* of endpoints that are all on chain and in the manifest, with their
\* transactions (update-agent-endpoints.mjs:25-29, 46-50, 67-74).
NothingAstray ==
  /\ \A t \in DOMAIN txs : txs[t].is = "pool" => file.entries[txs[t].agent] = t /\ file.base = txs[t].base
  /\ file.completed => \A a \in 1..Agents :
       /\ uri[a] = file.base /\ manifest.endpoint[a] = file.base
       /\ file.entries[a] # 0 => file.entries[a] \in manifest.transactions
=============================================================================
