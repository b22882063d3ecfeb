----------------------------- MODULE DiscoveryV3 -----------------------------
(***************************************************************************)
(* The discovery v3 worker: rpcLogPoller.ts stores the fills of the chain  *)
(* in DuckDB behind a block cursor, refreshWorker.ts rebuilds the feature  *)
(* snapshots from them and publishes scores to SQLite, workerIntegration.ts *)
(* starts both loops.  A fill is a member of Txs; a snapshot and a         *)
(* publication are the sets of fills they were computed from.              *)
(***************************************************************************)
EXTENDS Integers, FiniteSets

CONSTANTS
  Txs,
  Chunk, Overlap, Lookback,  \* blockChunkSize, overlap and initial lookback
  Lag,        \* how many of the last blocks a node may not show, or reorganise
  Refreshes,  \* refresh runs that may overlap, were they allowed to
  MaxBlock, MaxFailures      \* bounds

ASSUME PollAssumption ==
  /\ Chunk \in Nat \ {0} /\ Overlap \in Nat /\ Lookback \in Nat \ {0}
  /\ Lag \in 0 .. Overlap    \* what getRpcPollOverlapBlocks is there for
  /\ MaxBlock \in Nat \ {0} /\ MaxFailures \in Nat

VARIABLES
  head,      \* last block of the chain
  block,     \* block of each fill, 0 before it is mined
  cursor,    \* pipeline_cursor.last_block in SQLite, 0 if there is no row
  stored,    \* discovery_activity_v3 in DuckDB
  snapshot,  \* discovery_feature_snapshots_v3 in DuckDB
  scores,    \* discovery_wallet_scores_v3 in SQLite
  poll,      \* the poll under way: where it stands, next block, last block
  refresh,   \* each refresh: where it stands, and what it has read
  since,     \* history: first block of the first poll that reached its end
  failures

chain == <<head, block>>
vars  == <<chain, cursor, stored, snapshot, scores, poll, refresh, since,
           failures>>

MaxOf(a, b) == IF a >= b THEN a ELSE b
MinOf(a, b) == IF a <= b THEN a ELSE b

NoPoll    == [pc |-> "idle", from |-> 0, next |-> 0, to |-> 0]
NoRefresh == [pc |-> "idle", rows |-> {}]

Init ==
  /\ head = 1 /\ block = [t \in Txs |-> 0]
  /\ cursor = 0 /\ stored = {} /\ snapshot = {} /\ scores = {}
  /\ poll = NoPoll /\ refresh = [r \in Refreshes |-> NoRefresh]
  /\ since = 0 /\ failures = 0

-----------------------------------------------------------------------------
(* The chain, and the nodes that answer for it.                            *)

\* A block is mined, with any of the fills that wait.
Mine ==
  /\ head < MaxBlock
  /\ head' = head + 1
  /\ \E new \in SUBSET {t \in Txs : block[t] = 0} :
       block' = [t \in Txs |-> IF t \in new THEN head' ELSE block[t]]
  /\ UNCHANGED <<cursor, stored, snapshot, scores, poll, refresh, since,
                 failures>>

Final(t) == block[t] # 0 /\ block[t] <= head - Lag

\* A reorganisation moves a fill that is not final yet.
Reorganise(t, b) ==
  /\ block[t] # 0 /\ ~Final(t)
  /\ block' = [block EXCEPT ![t] = b]
  /\ UNCHANGED <<head, cursor, stored, snapshot, scores, poll, refresh, since,
                 failures>>

\* eth_getLogs: what is final, and any part of what is not.
Logs(from, to) ==
  LET in == {t \in Txs : block[t] \in from .. to /\ block[t] # 0} IN
  {{t \in in : Final(t)} \union recent :
     recent \in SUBSET {t \in in : ~Final(t)}}

-----------------------------------------------------------------------------
(* pollRpcLogsOnce, one at a time.                                         *)

\* Mutant: the poll goes on where the last one ended.
FromBlock_NoOverlap(h) == IF cursor = 0 THEN MaxOf(0, h - Lookback)
                          ELSE cursor

\* The first block to read when a node says that the chain ends at h.
FromBlock(h) == IF cursor = 0 THEN MaxOf(0, h - Lookback)
                ELSE MaxOf(0, cursor - Overlap)

StartPoll(h) ==
  /\ poll.pc = "idle"
  /\ h \in MaxOf(1, head - Lag) .. head
  /\ poll' = IF FromBlock(h) > h THEN NoPoll
             ELSE [pc |-> "chunk", from |-> FromBlock(h),
                   next |-> FromBlock(h), to |-> h]
  /\ UNCHANGED <<chain, cursor, stored, snapshot, scores, refresh, since,
                 failures>>

ChunkEnd(start) == MinOf(poll.to, start + Chunk)

NextChunk(start) == start + Chunk + 1

\* One chunk: its logs are fetched, then INSERT OR IGNORE.
PollChunk(logs) ==
  /\ poll.pc = "chunk"
  /\ logs \in Logs(poll.next, ChunkEnd(poll.next))
  /\ stored' = stored \union logs
  /\ poll' = [poll EXCEPT !.next = NextChunk(poll.next),
                !.pc = IF NextChunk(poll.next) <= poll.to THEN "chunk"
                       ELSE "cursor"]
  /\ UNCHANGED <<chain, cursor, snapshot, scores, refresh, since,
                 failures>>

SetCursor ==
  /\ poll.pc = "cursor"
  /\ cursor' = poll.to
  /\ since' = IF cursor = 0 THEN poll.from ELSE since
  /\ poll' = NoPoll
  /\ UNCHANGED <<chain, stored, snapshot, scores, refresh, failures>>

Fail == failures < MaxFailures /\ failures' = failures + 1

\* A request or a statement throws, or the process ends: the cursor stays.
PollFails ==
  /\ poll.pc # "idle"
  /\ Fail
  /\ poll' = NoPoll
  /\ UNCHANGED <<chain, cursor, stored, snapshot, scores, refresh, since>>

-----------------------------------------------------------------------------
(* runRefreshOnce.                                                         *)

Stands(r, p) == refresh[r].pc = p
Goes(r, p)   == refresh' = [refresh EXCEPT ![r].pc = p]

\* Mutant: every tick refreshes.
MayRefresh_Always == TRUE

\* One refresh at a time: the flag "running".
MayRefresh == \A r \in Refreshes : Stands(r, "idle")

StartRefresh(r) ==
  /\ Stands(r, "idle") /\ MayRefresh
  /\ Goes(r, "clear")
  /\ UNCHANGED <<chain, cursor, stored, snapshot, scores, poll, since,
                 failures>>

\* DELETE FROM discovery_feature_snapshots_v3.
ClearSnapshots(r) ==
  /\ Stands(r, "clear")
  /\ snapshot' = {}
  /\ Goes(r, "emit")
  /\ UNCHANGED <<chain, cursor, stored, scores, poll, since,
                 failures>>

\* buildSnapshotEmitSql: from the activity as it is now.
EmitSnapshots(r) ==
  /\ Stands(r, "emit")
  /\ snapshot' = snapshot \union stored
  /\ Goes(r, "read")
  /\ UNCHANGED <<chain, cursor, stored, scores, poll, since,
                 failures>>

\* The latest snapshots are read; the features of the pillars are queried, the
\* scores computed and checked against the reference (the network).
ReadSnapshots(r) ==
  /\ Stands(r, "read")
  /\ refresh' = [refresh EXCEPT ![r].pc = "publish", ![r].rows = snapshot]
  /\ UNCHANGED <<chain, cursor, stored, snapshot, scores, poll, since,
                 failures>>

\* The old scores are replaced by the new ones in one transaction.
Publish(r) ==
  /\ Stands(r, "publish")
  /\ scores' = refresh[r].rows
  /\ refresh' = [refresh EXCEPT ![r] = NoRefresh]
  /\ UNCHANGED <<chain, cursor, stored, snapshot, poll, since, failures>>

\* A statement throws, or the process ends; both databases keep what they have.
RefreshFails(r) ==
  /\ ~Stands(r, "idle")
  /\ Fail
  /\ refresh' = [refresh EXCEPT ![r] = NoRefresh]
  /\ UNCHANGED <<chain, cursor, stored, snapshot, scores, poll, since>>

-----------------------------------------------------------------------------

PollStarts == \E h \in 1 .. MaxBlock : StartPoll(h)
PollReads  == \E logs \in SUBSET Txs : PollChunk(logs)
RefreshOn(r) == ClearSnapshots(r) \/ EmitSnapshots(r) \/ ReadSnapshots(r)
                \/ Publish(r)

Next ==
  \/ Mine
  \/ \E t \in Txs, b \in MaxOf(1, head - Lag + 1) .. head : Reorganise(t, b)
  \/ PollStarts \/ PollReads \/ SetCursor \/ PollFails
  \/ \E r \in Refreshes : StartRefresh(r) \/ RefreshOn(r) \/ RefreshFails(r)

Spec == Init /\ [][Next]_vars

\* The intervals fire, and what is begun either fails or goes on; it does not
\* fail for ever.
FairSpec ==
  /\ Spec
  /\ WF_vars(PollStarts)
  /\ WF_vars(PollReads \/ SetCursor)
  /\ WF_vars(\E r \in Refreshes : StartRefresh(r))
  /\ \A r \in Refreshes : WF_vars(RefreshOn(r))

-----------------------------------------------------------------------------
(* Properties.                                                             *)

TypeOK ==
  /\ head \in 1 .. MaxBlock /\ block \in [Txs -> 0 .. MaxBlock]
  /\ cursor \in 0 .. MaxBlock /\ since \in 0 .. MaxBlock
  /\ stored \subseteq Txs /\ snapshot \subseteq Txs /\ scores \subseteq Txs
  /\ poll \in [pc : {"idle", "chunk", "cursor"}, from : 0 .. MaxBlock,
               next : 0 .. MaxBlock + Chunk + 1, to : 0 .. MaxBlock]
  /\ refresh \in [Refreshes -> [pc : {"idle", "clear", "emit", "read",
                                      "publish"},
                                rows : SUBSET Txs]]

\* A fill that no later poll will read again is stored: whatever nodes lag,
\* polls fail and blocks are reorganised, nothing falls behind the cursor.
NoFillSkipped ==
  cursor # 0 => \A t \in Txs :
    Final(t) /\ block[t] >= since /\ block[t] < cursor - Overlap => t \in stored

\* What is published never loses a fill that was published before: no reader
\* sees the empty snapshot table of a refresh that is under way or has failed.
PublicationGrows == [][scores \subseteq scores']_scores

\* Every fill within the lookback of the first poll is stored and published.
FillsPublished ==
  \A t \in Txs :
    (cursor # 0 /\ Final(t) /\ block[t] >= since) ~> t \in scores

=============================================================================
