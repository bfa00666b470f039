------------------------------ MODULE EventScan ------------------------------
(***************************************************************************)
(* readState of protocol/chain.mjs: the jobs are read at the latest block,  *)
(* the escrow's events are scanned in pages from a cached anchor, and the   *)
(* cache is written again, while the chain grows and reorganises and the    *)
(* RPC replicas lag behind it.  A block is named by the fork that made it:  *)
(* at one height, equal forks are equal hashes.                             *)
(***************************************************************************)
EXTENDS Naturals, Sequences, FiniteSets, FiniteSetsExt

CONSTANTS Readers,     \* calls of readState that overlap
          TailBlocks,        \* blocks scanned again (100 in the code)
          MaxBlocks,   \* blocks of one eth_getLogs page (100 in the code)
          MaxLag,      \* blocks a replica may lag behind
          MaxHeight, MaxForks, MaxReads   \* bounds

\* The code keeps the tail for "recent reorgs": no replica lags further.
TailCoversLag == TailBlocks \in Nat /\ MaxBlocks \in Nat \ {0} /\ MaxLag \in 0..TailBlocks
BoundsAreNumbers == {MaxHeight, MaxForks} \subseteq Nat \ {0} /\ MaxReads \in Nat

VARIABLES chain,    \* the blocks: their fork, and whether they hold an escrow event
          forks, reads,
          cache,    \* escrow-events.json
          reader    \* the calls in progress, and the snapshot each returned
vars == <<chain, forks, reads, cache, reader>>

First == 1          \* the block of the escrow's deployment, before its first event
NoCache == [toBlock |-> 0, anchorNumber |-> 0, anchorFork |-> 0, transactions |-> {}]
Idle == [at |-> "idle", jobs |-> {}, head |-> 0, from |-> 0, pages |-> {}, transactions |-> {}, calm |-> TRUE]

\* The events of the blocks from..to, each named by its height and fork.
Events(from, to) == {<<n, chain[n].fork>> : n \in {k \in DOMAIN chain : k \in from..to /\ chain[k].event}}

Init == /\ chain = <<[fork |-> 1, event |-> FALSE]>>
        /\ forks = 1 /\ reads = 0 /\ cache = NoCache
        /\ reader = [r \in Readers |-> Idle]

Grow ==
  /\ Len(chain) < MaxHeight
  /\ \E e \in BOOLEAN : chain' = Append(chain, [fork |-> forks, event |-> e])
  /\ UNCHANGED <<forks, reads, cache, reader>>

\* A reorganisation replaces the last blocks.  While a call reads, it reaches
\* no deeper than the tail; between calls it may replace everything.
Reorganise(n) ==
  /\ forks < MaxForks /\ n \in 2..Len(chain)
  /\ (\E r \in Readers : reader[r].at \notin {"idle", "done"}) => n > Len(chain) - TailBlocks
  /\ forks' = forks + 1
  /\ \E e \in [n..Len(chain) -> BOOLEAN] :
       chain' = [k \in DOMAIN chain |-> IF k < n THEN chain[k] ELSE [fork |-> forks + 1, event |-> e[k]]]
  /\ reader' = [r \in Readers |-> IF reader[r].at = "idle" THEN Idle ELSE [reader[r] EXCEPT !.calm = FALSE]]
  /\ UNCHANGED <<reads, cache>>

-----------------------------------------------------------------------------
Becomes(r, state) == reader' = [reader EXCEPT ![r] = state]

\* jobCount and getJob, at the latest block.
ReadJobs(r) ==
  /\ reader[r].at \in {"idle", "done"} /\ reads < MaxReads
  /\ reads' = reads + 1
  /\ Becomes(r, [Idle EXCEPT !.at = "head", !.jobs = Events(First, Len(chain))])
  /\ UNCHANGED <<chain, forks, cache>>

\* The pages of from..to, as logsInRange cuts them.
Pages(from, to) == {<<start, Min({start + MaxBlocks - 1, to})>> :
                      start \in {from + MaxBlocks * k : k \in 0..(to - from) \div MaxBlocks}}

\* A mutant: the cached anchor is trusted by its height.
AnchorHolds_ByHeight == cache.anchorNumber \in DOMAIN chain

AnchorHolds == cache.anchorNumber \in DOMAIN chain /\ chain[cache.anchorNumber].fork = cache.anchorFork

\* logScanStart: where the scan begins.
LogScanStart(head) ==
  IF cache = NoCache \/ cache.toBlock > head \/ ~(cache.anchorNumber \in First..cache.toBlock) \/ ~AnchorHolds
  THEN First ELSE cache.anchorNumber + 1

\* getBlockNumber, the cache file and its anchor; history below the scan is kept.
ReadHead(r) ==
  /\ reader[r].at = "head"
  /\ \E lag \in 0..MaxLag : LET head == Len(chain) - lag IN
       /\ head >= First
       /\ Becomes(r, [reader[r] EXCEPT !.at = "logs", !.head = head, !.from = LogScanStart(head),
            !.pages = IF LogScanStart(head) > head THEN {} ELSE Pages(LogScanStart(head), head),
            !.transactions = {t \in cache.transactions : t[1] < LogScanStart(head)},
            !.calm = @ /\ lag = 0])
  /\ UNCHANGED <<chain, forks, reads, cache>>

\* One page, answered by a replica that may not have the last blocks.
ReadPage(r) ==
  /\ reader[r].at = "logs"
  /\ \E page \in reader[r].pages, lag \in 0..MaxLag :
       Becomes(r, [reader[r] EXCEPT !.pages = @ \ {page}, !.calm = @ /\ lag = 0,
         !.transactions = @ \cup Events(page[1], Min({page[2], Len(chain) - lag}))])
  /\ UNCHANGED <<chain, forks, reads, cache>>

AnchorNumber(head) == IF head > TailBlocks /\ head - TailBlocks >= First THEN head - TailBlocks ELSE First

\* The anchor block is read after the logs, and the cache is written with it.
ReadAnchor(r) ==
  /\ reader[r].at = "logs" /\ reader[r].pages = {}
  /\ LET s == reader[r]  n == AnchorNumber(s.head) IN
       cache' = [toBlock |-> s.head, anchorNumber |-> n, anchorFork |-> chain[n].fork,
                 transactions |-> s.transactions]
  /\ Becomes(r, [reader[r] EXCEPT !.at = "done"])
  /\ UNCHANGED <<chain, forks, reads>>

Fails(r) ==
  /\ reader[r].at \notin {"idle", "done"} /\ Becomes(r, Idle)
  /\ UNCHANGED <<chain, forks, reads, cache>>

Next == \/ Grow
        \/ \E n \in DOMAIN chain : Reorganise(n)
        \/ \E r \in Readers : ReadJobs(r) \/ ReadHead(r) \/ ReadPage(r) \/ ReadAnchor(r) \/ Fails(r)
Spec == Init /\ [][Next]_vars

-----------------------------------------------------------------------------
TypeOK ==
  /\ Len(chain) \in 1..MaxHeight /\ \A n \in DOMAIN chain : chain[n].fork \in 1..forks
  /\ forks \in 1..MaxForks /\ reads \in 0..MaxReads
  /\ cache.anchorNumber <= cache.toBlock
  /\ \A r \in Readers : LET s == reader[r] IN
       /\ s.at \in {"idle", "head", "logs", "done"} /\ s.head \in 0..Len(chain) /\ s.calm \in BOOLEAN
       /\ \A page \in s.pages : page[1] >= s.from /\ page[1] <= page[2] /\ page[2] <= s.head

\* The history kept by the cache is the chain's: while the cached anchor is a
\* block of the chain, the cached events up to it are exactly the chain's,
\* whatever calls overlapped, pages were stale or blocks were replaced since.
CachedHistoryIsTheChains ==
  cache # NoCache /\ AnchorHolds =>
    {t \in cache.transactions : t[1] <= cache.anchorNumber} = Events(First, cache.anchorNumber)

\* A call that no reorganisation or lagging replica disturbed returns every
\* event up to its block once, and no job whose events it lacks, although the
\* jobs are read at an earlier block than the events (chain.mjs:237, 243).
SnapshotComplete ==
  \A r \in Readers : LET s == reader[r] IN
    s.at = "done" /\ s.calm => s.transactions = Events(First, s.head) /\ s.jobs \subseteq s.transactions
=============================================================================
