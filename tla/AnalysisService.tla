--------------------------- MODULE AnalysisService ---------------------------
(***************************************************************************)
(* The explanation of a verification report: the protocol service's client  *)
(* (protocol/verification-analysis.mjs) and the private analysis service    *)
(* (deploy/analysis/server.mjs), which runs one model process at a time and *)
(* checks what it says (protocol/analysis-contract.mjs).                    *)
(***************************************************************************)
EXTENDS Naturals, FiniteSets

CONSTANTS Clients,   \* requests for an explanation
          Checks,    \* names of checks
          Enabled    \* VERIFICATION_AI_URL is configured

VARIABLES client,    \* each request: where it is, the failed checks of its report, the published citations
          active,    \* the slot of the service
          running    \* requests whose model process runs
vars == <<client, active, running>>

Idle == [at |-> "idle", failed |-> {}, cited |-> {}]
Init == client = [c \in Clients |-> Idle] /\ active = FALSE /\ running = {}

Becomes(c, s) == client' = [client EXCEPT ![c] = s]
Moves(c, at) == Becomes(c, [client[c] EXCEPT !.at = at])
Unavailable(c) == Becomes(c, Idle)

\* Without a configured service the report goes out as it is, unless required.
ExplainReport(c, failed, required) ==
  /\ client[c].at \in {"idle", "explained", "unexplained"}
  /\ Becomes(c, IF Enabled THEN [Idle EXCEPT !.at = "sent", !.failed = failed]
                ELSE [Idle EXCEPT !.at = IF required THEN "idle" ELSE "unexplained"])
  /\ UNCHANGED <<active, running>>

\* The head of the request arrives: busy, or the body is read.
Arrives(c) ==
  /\ client[c].at = "sent"
  /\ IF active THEN Unavailable(c) ELSE Moves(c, "sending")
  /\ UNCHANGED <<active, running>>

\* A mutant: the slot is looked at only before the body.
BodyReceived_NotAgain(c) ==
  /\ client[c].at = "sending"
  /\ Moves(c, "waiting") /\ active' = TRUE /\ running' = running \cup {c}

\* "Another request may have acquired the slot while this body was streaming."
BodyReceived(c) ==
  /\ client[c].at = "sending"
  /\ IF active THEN Unavailable(c) /\ UNCHANGED <<active, running>>
     ELSE Moves(c, "waiting") /\ active' = TRUE /\ running' = running \cup {c}

\* The analysis cites only checks of the evidence, and every failed one.
ValidateAnalysis(failed, cited) == cited \subseteq Checks /\ failed \subseteq cited

\* The process ends with an analysis; client and service both validate it, and
\* a client that has given up gets nothing.
Inferred(c) ==
  /\ c \in running /\ running' = running \ {c} /\ active' = FALSE
  /\ IF client[c].at # "waiting" THEN UNCHANGED client
     ELSE \E cited \in SUBSET Checks :
            IF ValidateAnalysis(client[c].failed, cited)
            THEN Becomes(c, [client[c] EXCEPT !.at = "explained", !.cited = cited])
            ELSE Unavailable(c)

\* It fails, attempts a tool, says too much, or is killed after 30 seconds.
InferenceFails(c) ==
  /\ c \in running /\ running' = running \ {c} /\ active' = FALSE
  /\ IF client[c].at = "waiting" THEN Unavailable(c) ELSE UNCHANGED client

\* The 35 seconds of the client pass or its connection ends.  A service that
\* infers goes on; one that reads the body stops.
ClientGivesUp(c) ==
  /\ client[c].at \in {"sent", "sending", "waiting"} /\ Moves(c, "gone")
  /\ UNCHANGED <<active, running>>
Forgotten(c) == client[c].at = "gone" /\ c \notin running /\ Unavailable(c) /\ UNCHANGED <<active, running>>

Next == \E c \in Clients :
          \/ \E failed \in SUBSET Checks, required \in BOOLEAN : ExplainReport(c, failed, required)
          \/ Arrives(c) \/ BodyReceived(c) \/ Inferred(c) \/ InferenceFails(c)
          \/ ClientGivesUp(c) \/ Forgotten(c)
Spec == Init /\ [][Next]_vars

-----------------------------------------------------------------------------
TypeOK ==
  /\ active \in BOOLEAN /\ running \subseteq Clients
  /\ \A c \in Clients : client[c].failed \subseteq Checks /\ client[c].cited \subseteq Checks
  /\ ~Enabled => \A c \in Clients : client[c].at \in {"idle", "unexplained"}

\* The service never runs two model processes, although the slot is looked at
\* before the body of a request is in and other requests arrive meanwhile; and
\* it holds its slot only for a process that runs (server.mjs:61-71).
OneInference == Cardinality(running) <= 1 /\ (active <=> running # {})

\* A published explanation cites every check that failed in its own report.
Grounded == \A c \in Clients : client[c].at = "explained" => client[c].failed \subseteq client[c].cited
=============================================================================
