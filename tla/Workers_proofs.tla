--------------------------- MODULE Workers_proofs ----------------------------
(***************************************************************************)
(* Proofs about the discovery worker and the life cycle of the bot, the    *)
(* components that MCWorkers checks.                                       *)
(***************************************************************************)
EXTENDS DiscoveryV3, BotLifecycle, FiniteSetTheorems, TLAPS

-----------------------------------------------------------------------------
(***************************************************************************)
(* DiscoveryV3.                                                            *)
(*                                                                         *)
(* Proofs about the discovery worker of DiscoveryV3, for any number of     *)
(* fills, any chunk, overlap, lookback and lag that PollAssumption admits. *)
(*                                                                         *)
(* Why no fill falls behind the cursor: a fill enters or leaves only the   *)
(* last Lag blocks of the chain, and the blocks that a poll leaves behind  *)
(* the cursor for good end Overlap >= Lag blocks before the head that it   *)
(* was told.  PollSound says so in the middle of a poll.                   *)
(*                                                                         *)
(* Why the publication grows: as one refresh runs at a time, what it has   *)
(* read was complete when it read it, and the activity is never deleted.   *)
(***************************************************************************)

(* Types.                                                                  *)

PollStage    == {"idle", "chunk", "cursor"}
RefreshStage == {"idle", "clear", "emit", "read", "publish"}

\* A poll moves from its first block to its last one.
PollTyped ==
  poll.pc # "idle" =>
    /\ 1 <= poll.to /\ poll.to <= head /\ poll.from <= poll.next
    /\ IF poll.pc = "chunk" THEN poll.next <= poll.to ELSE poll.to < poll.next

TypeInv == TypeOK /\ PollTyped /\ cursor <= head

\* Each step keeps the type, the poll within the chain, and the cursor too.
LEMMA TypeStep == TypeInv /\ [Next]_vars => TypeInv'
<1> SUFFICES ASSUME TypeInv, [Next]_vars PROVE TypeInv'
  OBVIOUS
<1> USE PollAssumption DEF TypeInv, TypeOK, PollTyped
<1>1. CASE Mine
  BY <1>1 DEF Mine
<1>2. ASSUME NEW t \in Txs, NEW b \in MaxOf(1, head - Lag + 1) .. head, Reorganise(t, b)
      PROVE  TypeInv'
  <2>1. b \in 0 .. MaxBlock
    BY DEF MaxOf
  <2>2. QED
    BY <1>2, <2>1 DEF Reorganise
<1>3. ASSUME NEW h \in 1 .. MaxBlock, StartPoll(h) PROVE TypeInv'
  <2>1. h <= head /\ FromBlock(h) \in 0 .. MaxBlock
    BY <1>3 DEF StartPoll, FromBlock, MaxOf
  <2>2. /\ poll' = NoPoll \/ /\ FromBlock(h) <= h
                             /\ poll' = [pc |-> "chunk", from |-> FromBlock(h),
                                         next |-> FromBlock(h), to |-> h]
        /\ UNCHANGED <<head, block, cursor, stored, snapshot, scores, refresh, since>>
    BY <1>3, <2>1 DEF StartPoll, chain
  <2> HIDE DEF TypeInv
  <2>3. PICK f \in 0 .. MaxBlock : f = FromBlock(h)
    BY <2>1
  <2>4. CASE poll' = NoPoll
    BY <2>2, <2>4 DEF TypeInv, NoPoll
  <2>5. CASE f <= h /\ poll' = [pc |-> "chunk", from |-> f, next |-> f, to |-> h]
    BY <2>1, <2>2, <2>5 DEF TypeInv
  <2>6. QED
    BY <2>2, <2>3, <2>4, <2>5
<1>4. ASSUME NEW logs \in SUBSET Txs, PollChunk(logs) PROVE TypeInv'
  <2>1. PICK q : q = [poll EXCEPT !.next = NextChunk(poll.next),
                        !.pc = IF NextChunk(poll.next) <= poll.to THEN "chunk" ELSE "cursor"]
    OBVIOUS
  <2>2. /\ q.next = NextChunk(poll.next) /\ q.from = poll.from /\ q.to = poll.to
        /\ q.pc = IF NextChunk(poll.next) <= poll.to THEN "chunk" ELSE "cursor"
        /\ q = [pc |-> q.pc, from |-> q.from, next |-> q.next, to |-> q.to]
    BY <2>1
  <2>3. poll.next <= poll.to /\ NextChunk(poll.next) \in 0 .. MaxBlock + Chunk + 1
    BY <1>4 DEF PollChunk, NextChunk
  <2>4. poll' = q /\ q.next \in 0 .. MaxBlock + Chunk + 1
    BY <1>4, <2>1, <2>2, <2>3 DEF PollChunk
  <2>5. PollTyped' /\ cursor' <= head'
    BY <1>4, <2>2, <2>3, <2>4 DEF PollChunk, NextChunk, chain
  <2>6. poll' \in [pc : PollStage, from : 0 .. MaxBlock,
                   next : 0 .. MaxBlock + Chunk + 1, to : 0 .. MaxBlock]
    BY <2>2, <2>4 DEF PollStage
  <2>7. QED
    BY <1>4, <2>5, <2>6 DEF PollChunk, chain, PollStage
<1>5. CASE SetCursor
  BY <1>5 DEF SetCursor, NoPoll, chain
<1>6. CASE PollFails
  BY <1>6 DEF PollFails, NoPoll, chain
<1>7. ASSUME NEW r \in Refreshes, StartRefresh(r) PROVE TypeInv'
  BY <1>7 DEF StartRefresh, Goes, chain
<1>8. ASSUME NEW r \in Refreshes, RefreshOn(r) PROVE TypeInv'
  BY <1>8 DEF RefreshOn, ClearSnapshots, EmitSnapshots, ReadSnapshots, Publish, Goes,
     NoRefresh, chain
<1>9. ASSUME NEW r \in Refreshes, RefreshFails(r) PROVE TypeInv'
  BY <1>9 DEF RefreshFails, NoRefresh, chain
<1>10. CASE UNCHANGED vars
  BY <1>10 DEF vars, chain
<1>11. QED
  BY <1>1, <1>2, <1>3, <1>4, <1>5, <1>6, <1>7, <1>8, <1>9, <1>10 DEF Next, PollStarts, PollReads

\* The worker starts with empty stores, after the first block.
LEMMA TypeInit == Init => TypeInv
BY PollAssumption DEF Init, TypeInv, TypeOK, PollTyped, NoPoll, NoRefresh, chain

\* Every variable keeps its type.
THEOREM DiscoveryType == Spec => []TypeOK
<1>1. TypeInv => TypeOK
  BY DEF TypeInv
<1>2. QED
  BY <1>1, TypeInit, TypeStep, PTL DEF Spec

-----------------------------------------------------------------------------
(* Nothing falls behind the cursor.                                        *)

\* What a poll has read of the blocks that no reorganisation reaches is stored.
PollSound ==
  poll.pc # "idle" =>
    /\ cursor # 0 => poll.from = MaxOf(0, cursor - Overlap)
    /\ \A t \in Txs : /\ block[t] # 0 /\ poll.from <= block[t]
                      /\ block[t] < poll.next /\ block[t] <= poll.to - Lag
                      => t \in stored

SkipInv == TypeInv /\ PollSound /\ NoFillSkipped

\* A step of the chain moves no fill out of or into the blocks up to head - Lag.
LEMMA ChainStep ==
  ASSUME TypeInv, NEW t \in Txs,
         \/ Mine
         \/ \E u \in Txs, b \in MaxOf(1, head - Lag + 1) .. head : Reorganise(u, b)
  PROVE  /\ block'[t] # block[t] => block'[t] > head - Lag
         /\ block'[t] # 0 /\ block'[t] <= head - Lag => Final(t)
<1> USE PollAssumption DEF TypeInv, TypeOK, Final
<1>1. CASE Mine
  BY <1>1 DEF Mine
<1>2. ASSUME NEW u \in Txs, NEW b \in MaxOf(1, head - Lag + 1) .. head, Reorganise(u, b)
      PROVE  /\ block'[t] # block[t] => block'[t] > head - Lag
             /\ block'[t] # 0 /\ block'[t] <= head - Lag => Final(t)
  <2>1. b > head - Lag
    BY DEF MaxOf
  <2>2. QED
    BY <1>2, <2>1 DEF Reorganise
<1>3. QED
  BY <1>1, <1>2

\* SkipInv is inductive.
LEMMA SkipStep == SkipInv /\ [Next]_vars => SkipInv'
<1> SUFFICES ASSUME SkipInv, [Next]_vars PROVE SkipInv'
  OBVIOUS
<1>1. TypeInv /\ TypeInv'
  BY TypeStep DEF SkipInv
<1>2. SUFFICES PollSound' /\ NoFillSkipped'
  BY <1>1 DEF SkipInv
<1> USE PollAssumption
<1>3. CASE Mine \/ \E u \in Txs, b \in MaxOf(1, head - Lag + 1) .. head : Reorganise(u, b)
  <2>1. /\ poll' = poll /\ stored' = stored /\ cursor' = cursor /\ since' = since
    BY <1>3 DEF Mine, Reorganise
  <2>2. \A t \in Txs : /\ block'[t] # block[t] => block'[t] > head - Lag
                       /\ block'[t] # 0 /\ block'[t] <= head - Lag => Final(t)
    BY <1>1, <1>3, ChainStep
  <2>3. PollSound'
    BY <1>1, <2>1, <2>2 DEF SkipInv, PollSound, PollTyped, TypeInv, TypeOK
  <2>4. NoFillSkipped'
    BY <1>1, <2>1, <2>2 DEF SkipInv, NoFillSkipped, Final, TypeInv, TypeOK
  <2>5. QED
    BY <2>3, <2>4
<1>4. ASSUME NEW h \in 1 .. MaxBlock, StartPoll(h) PROVE PollSound' /\ NoFillSkipped'
  <2>1. NoFillSkipped'
    BY <1>4 DEF StartPoll, chain, SkipInv, NoFillSkipped, Final
  <2>2. PICK f : f = FromBlock(h)
    OBVIOUS
  <2>3. \/ poll' = NoPoll
        \/ poll' = [pc |-> "chunk", from |-> f, next |-> f, to |-> h]
    BY <1>4, <2>2 DEF StartPoll
  <2>4. /\ cursor # 0 => f = MaxOf(0, cursor - Overlap)
        /\ f \in Int /\ cursor' = cursor /\ block' = block /\ block \in [Txs -> Int]
    BY <1>1, <1>4, <2>2 DEF FromBlock, MaxOf, StartPoll, chain, TypeInv, TypeOK
  <2>5. PollSound'
    BY <2>3, <2>4 DEF PollSound, NoPoll
  <2>6. QED
    BY <2>1, <2>5
<1>5. ASSUME NEW logs \in SUBSET Txs, PollChunk(logs) PROVE PollSound' /\ NoFillSkipped'
  <2>1. /\ stored' = stored \union logs /\ cursor' = cursor /\ since' = since
        /\ block' = block /\ head' = head /\ poll.pc = "chunk"
        /\ poll'.next = NextChunk(poll.next) /\ poll'.from = poll.from /\ poll'.to = poll.to
    BY <1>1, <1>5 DEF PollChunk, chain, TypeInv, TypeOK
  <2>2. NoFillSkipped'
    BY <2>1 DEF SkipInv, NoFillSkipped, Final
  <2>3. ASSUME NEW t \in Txs, block[t] # 0, poll.from <= block[t],
               block[t] < NextChunk(poll.next), block[t] <= poll.to - Lag
        PROVE  t \in stored \union logs
    <3>1. CASE block[t] < poll.next
      BY <2>1, <2>3, <3>1 DEF SkipInv, PollSound
    <3>2. CASE block[t] >= poll.next
      <4>1. Final(t) /\ block[t] \in poll.next .. ChunkEnd(poll.next)
        BY <1>1, <2>1, <2>3, <3>2 DEF TypeInv, TypeOK, PollTyped, Final, NextChunk, ChunkEnd, MinOf
      <4>2. QED
        BY <1>5, <2>3, <4>1 DEF PollChunk, Logs
    <3>3. QED
      BY <1>1, <3>1, <3>2 DEF TypeInv, TypeOK
  <2>4. poll.from = IF cursor # 0 THEN MaxOf(0, cursor - Overlap) ELSE poll.from
    BY <2>1 DEF SkipInv, PollSound
  <2>5. PollSound'
    BY <2>1, <2>3, <2>4 DEF PollSound
  <2>6. QED
    BY <2>2, <2>5
<1>6. CASE SetCursor
  <2>1. /\ poll.pc = "cursor" /\ cursor' = poll.to /\ poll' = NoPoll
        /\ since' = IF cursor = 0 THEN poll.from ELSE since
        /\ block' = block /\ head' = head /\ stored' = stored
    BY <1>6 DEF SetCursor, chain
  <2>2. PollSound'
    BY <2>1 DEF PollSound, NoPoll
  <2>3. ASSUME NEW t \in Txs, Final(t), block[t] >= since', block[t] < poll.to - Overlap
        PROVE  t \in stored
    <3>1. /\ block[t] # 0 /\ block[t] < poll.next /\ block[t] <= poll.to - Lag
          /\ block[t] \in Int /\ poll.from \in Int
      BY <1>1, <2>1, <2>3 DEF TypeInv, TypeOK, PollTyped, Final
    <3>2. CASE poll.from <= block[t]
      BY <2>1, <3>1, <3>2 DEF SkipInv, PollSound
    <3>3. CASE block[t] < poll.from
      <4>1. cursor # 0 /\ block[t] < MaxOf(0, cursor - Overlap)
        BY <1>1, <2>1, <2>3, <3>1, <3>3 DEF SkipInv, PollSound
      <4>2. block[t] < cursor - Overlap /\ since' = since
        BY <1>1, <2>1, <3>1, <4>1 DEF MaxOf, TypeInv, TypeOK
      <4>3. QED
        BY <2>3, <4>1, <4>2 DEF SkipInv, NoFillSkipped
    <3>4. QED
      BY <3>1, <3>2, <3>3
  <2>4. NoFillSkipped'
    BY <2>1, <2>3 DEF NoFillSkipped, Final
  <2>5. QED
    BY <2>2, <2>4
<1>7. CASE PollFails
  BY <1>7 DEF PollFails, chain, NoPoll, SkipInv, PollSound, NoFillSkipped, Final
<1>8. CASE UNCHANGED <<chain, cursor, stored, poll, since>>
  BY <1>8 DEF chain, SkipInv, PollSound, NoFillSkipped, Final
<1>9. QED
  BY <1>3, <1>4, <1>5, <1>6, <1>7, <1>8 DEF Next, PollStarts, PollReads, StartRefresh,
     RefreshOn, ClearSnapshots, EmitSnapshots, ReadSnapshots, Publish, RefreshFails, vars

\* Whatever nodes lag, polls fail and blocks are reorganised, a fill that no later
\* poll will read again is stored.
THEOREM NothingSkipped == Spec => []NoFillSkipped
<1>1. Init => SkipInv
  BY TypeInit DEF Init, SkipInv, PollSound, NoFillSkipped, NoPoll
<1>2. SkipInv => NoFillSkipped
  BY DEF SkipInv
<1>3. QED
  BY <1>1, <1>2, SkipStep, PTL DEF Spec

-----------------------------------------------------------------------------
(* The publication only grows.                                             *)

\* What a refresh is about to publish holds what is published.
RefreshSound ==
  /\ scores \subseteq stored /\ snapshot \subseteq stored
  /\ \A r, q \in Refreshes : refresh[r].pc # "idle" /\ refresh[q].pc # "idle" => r = q
  /\ \A r \in Refreshes :
       /\ refresh[r].pc = "read" => scores \subseteq snapshot
       /\ refresh[r].pc = "publish" =>
            scores \subseteq refresh[r].rows /\ refresh[r].rows \subseteq stored

\* RefreshSound is inductive.
LEMMA RefreshStep == TypeInv /\ RefreshSound /\ [Next]_vars => RefreshSound'
<1> SUFFICES ASSUME TypeInv, RefreshSound, [Next]_vars PROVE RefreshSound'
  OBVIOUS
<1> USE DEF RefreshSound
<1>1. refresh \in [Refreshes -> [pc : RefreshStage, rows : SUBSET Txs]]
  BY DEF TypeInv, TypeOK, RefreshStage
<1>2. ASSUME NEW r \in Refreshes, StartRefresh(r) PROVE RefreshSound'
  BY <1>1, <1>2 DEF StartRefresh, MayRefresh, Stands, Goes
<1>3. ASSUME NEW r \in Refreshes, ClearSnapshots(r) PROVE RefreshSound'
  BY <1>1, <1>3 DEF ClearSnapshots, Stands, Goes
<1>4. ASSUME NEW r \in Refreshes, EmitSnapshots(r) PROVE RefreshSound'
  BY <1>1, <1>4 DEF EmitSnapshots, Stands, Goes
<1>5. ASSUME NEW r \in Refreshes, ReadSnapshots(r) PROVE RefreshSound'
  BY <1>1, <1>5 DEF ReadSnapshots, Stands
<1>6. ASSUME NEW r \in Refreshes, Publish(r) PROVE RefreshSound'
  BY <1>1, <1>6 DEF Publish, Stands, NoRefresh
<1>7. ASSUME NEW r \in Refreshes, RefreshFails(r) PROVE RefreshSound'
  BY <1>1, <1>7 DEF RefreshFails, Stands, NoRefresh
<1>8. CASE stored \subseteq stored' /\ UNCHANGED <<snapshot, scores, refresh>>
  BY <1>8
<1>9. QED
  BY <1>2, <1>3, <1>4, <1>5, <1>6, <1>7, <1>8 DEF Next, RefreshOn, Mine, Reorganise,
     PollStarts, StartPoll, PollReads, PollChunk, SetCursor, PollFails, vars

\* No step takes a published fill away, although each refresh empties the table of
\* snapshots and any refresh may fail half way.
THEOREM PublicationSafe == Spec => PublicationGrows
<1>1. Init => TypeInv /\ RefreshSound
  BY TypeInit DEF Init, RefreshSound, NoRefresh
<1>2. TypeInv /\ RefreshSound /\ [Next]_vars => TypeInv' /\ RefreshSound'
  BY TypeStep, RefreshStep
<1>3. RefreshSound /\ [Next]_vars => [scores \subseteq scores']_scores
  BY DEF RefreshSound, Next, RefreshOn, Mine, Reorganise, PollStarts, StartPoll, PollReads,
     PollChunk, SetCursor, PollFails, StartRefresh, ClearSnapshots, EmitSnapshots,
     ReadSnapshots, Publish, RefreshFails, Stands, vars
<1>4. QED
  BY <1>1, <1>2, <1>3, PTL DEF Spec, PublicationGrows

\* Nothing is published that was not read from the chain.
THEOREM PublishedIsStored == Spec => [](scores \subseteq stored)
<1>1. Init => TypeInv /\ RefreshSound
  BY TypeInit DEF Init, RefreshSound, NoRefresh
<1>2. TypeInv /\ RefreshSound /\ [Next]_vars => TypeInv' /\ RefreshSound'
  BY TypeStep, RefreshStep
<1>3. RefreshSound => scores \subseteq stored
  BY DEF RefreshSound
<1>4. QED
  BY <1>1, <1>2, <1>3, PTL DEF Spec

-----------------------------------------------------------------------------
(***************************************************************************)
(* BotLifecycle.                                                           *)
(*                                                                         *)
(* Proofs about the life cycle of the bot, for any number of tenants,      *)
(* requests under way, replaced components, and any failures.              *)
(*                                                                         *)
(* Why the bot runs as preferred: unless JSON files are read in between, a *)
(* request takes its decision in the turn in which it stores or reads the  *)
(* preference, so that what the last one decided agrees with what is       *)
(* stored; and a request that has stopped the bot to replace its           *)
(* components is not over before it has decided.                           *)
(***************************************************************************)

(* Types.                                                                  *)

CallSet == [Callers -> [pc : At, gen : Gen, on : BOOLEAN]]

PrefsOK ==
  /\ mode \in Modes /\ forced \in BOOLEAN
  /\ enabled \in [Tenants -> {"unset", "on", "off"}]
  /\ active \in [Tenants -> BOOLEAN]
  /\ edits \in 0 .. MaxEdits

\* A tracker that has a handle has a timer that fires.
PartsOK ==
  /\ isRunning \in BOOLEAN /\ heartbeat \in BOOLEAN
  /\ toggled \in BOOLEAN /\ failed \in BOOLEAN
  /\ monitor \in [Gen -> [monitoring : BOOLEAN, timer : BOOLEAN,
                          cycle : {"none", "timer"} \union Callers]]
  /\ tracker \in [Gen -> [tracking : BOOLEAN, handle : BOOLEAN, live : Nat]]
  /\ \A g \in Gen : tracker[g].handle => tracker[g].live > 0

CurrentOK == current \in [monitor : Gen, tracker : Gen]

\* The requests that stand at p.
Standing(k, p) == {c \in Calls : k[c].pc = p}
Count(k, p)    == Cardinality(Standing(k, p))

\* A request that will make a component has room for it.
RoomLeft ==
  /\ Count(call, "reload") + current.monitor <= MaxReinits
  /\ Count(call, "connect") + current.tracker <= current.monitor

Making == {"reload", "connect"}

\* Only requests make components, and only JSON files are awaited.
CallsOK ==
  /\ call[Boot].pc \in Making => Boot \in Calls
  /\ mode # "json" => \A c \in Callers : call[c].pc \notin {"set", "flag", "wallets"}

BotInv ==
  PrefsOK /\ PartsOK /\ CurrentOK /\ call \in CallSet /\ RoomLeft /\ CallsOK

\* Call c goes to one of S, the others stay.
Moved(c, S) ==
  /\ call' \in CallSet
  /\ call'[c].pc \in S
  /\ \A d \in Callers \ {c} : call'[d] = call[d]

LEMMA GenFacts == 0 \in Gen /\ Gen \subseteq Nat /\ \A g \in Gen : g <= MaxReinits
  BY BotAssumption DEF Gen

LEMMA WaitMoves ==
  ASSUME call \in CallSet, NEW c \in Callers, NEW p \in At, NEW g \in Gen,
         WaitAt(c, p, g)
  PROVE  Moved(c, {p}) /\ call'[c].gen = g
  BY DEF WaitAt, Moved, CallSet

LEMMA ReturnMoves ==
  ASSUME call \in CallSet, NEW c \in Callers, Return(c)
  PROVE  Moved(c, {"idle"})
  BY GenFacts DEF Return, Moved, CallSet, Idle, At

-----------------------------------------------------------------------------
(* The requests at an await are counted.                                   *)

LEMMA CountNat ==
  ASSUME NEW k, NEW p
  PROVE  IsFiniteSet(Standing(k, p)) /\ Count(k, p) \in Nat
<1>1. Standing(k, p) \subseteq Calls /\ IsFiniteSet(Calls)
  BY BotAssumption DEF Standing
<1>2. IsFiniteSet(Standing(k, p))
  BY <1>1, FS_Subset
<1>3. QED
  BY <1>2, FS_CardinalityType DEF Count

\* None comes to p.
LEMMA NoneCome ==
  ASSUME NEW k, NEW l, NEW p, \A c \in Calls : l[c].pc = p => k[c].pc = p
  PROVE  Count(l, p) <= Count(k, p)
<1>1. Standing(l, p) \subseteq Standing(k, p)
  BY DEF Standing
<1>2. QED
  BY <1>1, CountNat, FS_Subset DEF Count

\* One comes to p.
LEMMA OneComes ==
  ASSUME NEW k, NEW l, NEW p, NEW c \in Calls,
         \A d \in Calls \ {c} : l[d] = k[d]
  PROVE  Count(l, p) <= Count(k, p) + 1
<1>1. Standing(l, p) \subseteq Standing(k, p) \union {c}
  BY DEF Standing
<1>2. PICK s : s = Standing(k, p)
  OBVIOUS
<1>3. IsFiniteSet(s) /\ Cardinality(s) \in Nat
  BY <1>2, CountNat DEF Count
<1>4. IsFiniteSet(s \union {c}) /\ Cardinality(s \union {c}) <= Cardinality(s) + 1
  BY <1>3, FS_AddElement
<1>5. Cardinality(Standing(l, p)) <= Cardinality(s \union {c})
  BY <1>1, <1>2, <1>4, FS_Subset
<1>6. Cardinality(s \union {c}) \in Nat /\ Cardinality(Standing(l, p)) \in Nat
  BY <1>4, FS_CardinalityType, CountNat DEF Count
<1>7. QED
  BY <1>2, <1>3, <1>4, <1>5, <1>6 DEF Count

\* One leaves p.
LEMMA OneLeaves ==
  ASSUME NEW k, NEW l, NEW p, NEW c \in Calls, k[c].pc = p, l[c].pc # p,
         \A d \in Calls \ {c} : l[d] = k[d]
  PROVE  Count(l, p) + 1 <= Count(k, p)
<1>1. Standing(l, p) = Standing(k, p) \ {c} /\ c \in Standing(k, p)
  BY DEF Standing
<1>2. Cardinality(Standing(k, p) \ {c}) = Cardinality(Standing(k, p)) - 1
  BY <1>1, CountNat, FS_RemoveElement
<1>3. QED
  BY <1>1, <1>2, CountNat DEF Count

\* A call that goes somewhere else than to make a component.
LEMMA RoomKept ==
  ASSUME BotInv, NEW c \in Callers, NEW S, Moved(c, S), S \cap Making = {},
         UNCHANGED current
  PROVE  RoomLeft'
<1>1. \A p \in Making : \A d \in Calls : call'[d].pc = p => call[d].pc = p
  BY DEF Moved, Making, Callers
<1>2. PICK l : l = call'
  OBVIOUS
<1>3. \A p \in Making : Count(l, p) <= Count(call, p)
  BY <1>1, <1>2, NoneCome
<1>4. Count(l, "reload") <= Count(call, "reload") /\ Count(l, "connect") <= Count(call, "connect")
  BY <1>3 DEF Making
<1>5. Count(l, "reload") \in Nat /\ Count(l, "connect") \in Nat
      /\ Count(call, "reload") \in Nat /\ Count(call, "connect") \in Nat
  BY CountNat
<1>6. current.monitor \in Nat /\ current.tracker \in Nat /\ MaxReinits \in Nat
  BY GenFacts, BotAssumption DEF BotInv, CurrentOK
<1>7. Count(l, "reload") + current.monitor <= MaxReinits
      /\ Count(l, "connect") + current.tracker <= current.monitor
  BY <1>4, <1>5, <1>6 DEF BotInv, RoomLeft
<1>8. Count(call', "reload") + current'.monitor <= MaxReinits
      /\ Count(call', "connect") + current'.tracker <= current'.monitor
  BY <1>2, <1>7
<1>9. QED
  BY <1>8 DEF RoomLeft, Count, Standing

LEMMA StopEffect ==
  ASSUME BotInv, StopParts, toggled' \in BOOLEAN
  PROVE  PartsOK' /\ UNCHANGED current /\ isRunning' = FALSE
<1>1. UNCHANGED current /\ isRunning' = FALSE
  BY DEF StopParts, parts, BotInv, PartsOK
<1>2. CASE ~isRunning
  BY <1>2 DEF StopParts, parts, BotInv, PartsOK
<1>3. CASE isRunning
  <2>1. PICK g \in Gen : g = current.monitor
    BY DEF BotInv, CurrentOK
  <2>2. PICK h \in Gen : h = current.tracker
    BY DEF BotInv, CurrentOK
  <2> DEFINE Trackers == [tracking : BOOLEAN, handle : BOOLEAN, live : Nat]
  <2>3. PICK u \in Trackers : u = tracker[h] /\ (u.handle => u.live > 0)
    BY <2>2 DEF BotInv, PartsOK
  <2>4. PICK t \in Trackers : t = StopTracking(u) /\ ~t.handle
    <3>1. PICK n \in Nat : n = IF u.handle THEN u.live - 1 ELSE u.live
      BY <2>3
    <3>2. StopTracking(u) = [tracking |-> FALSE, handle |-> FALSE, live |-> n]
      BY <3>1 DEF StopTracking
    <3>3. StopTracking(u) \in Trackers /\ ~StopTracking(u).handle
      BY <3>1, <3>2
    <3>4. QED
      BY <3>3
  <2>5. monitor' = [monitor EXCEPT ![g].monitoring = FALSE, ![g].timer = FALSE]
    BY <1>3, <2>1 DEF StopParts
  <2>6. tracker' = [tracker EXCEPT ![h] = t]
    BY <1>3, <2>2, <2>3, <2>4 DEF StopParts
  <2>7. /\ tracker' \in [Gen -> [tracking : BOOLEAN, handle : BOOLEAN, live : Nat]]
        /\ \A x \in Gen : tracker'[x].handle => tracker'[x].live > 0
    BY <2>4, <2>6 DEF BotInv, PartsOK
  <2>8. monitor' \in [Gen -> [monitoring : BOOLEAN, timer : BOOLEAN,
                              cycle : {"none", "timer"} \union Callers]]
    BY ZenonT(30), <2>5 DEF BotInv, PartsOK
  <2>9. QED
    BY <1>1, <1>3, <2>7, <2>8 DEF StopParts, PartsOK
<1>4. QED
  BY <1>1, <1>2, <1>3 DEF BotInv, PartsOK

-----------------------------------------------------------------------------
(* What a decision does.                                                   *)

Startings == {"idle", "prepare", "cycle", "list"}

LEMMA BeginEffect ==
  ASSUME BotInv, NEW c \in Callers, BeginMonitoring(c)
  PROVE  /\ Moved(c, {"cycle", "list"})
         /\ monitor' \in [Gen -> [monitoring : BOOLEAN, timer : BOOLEAN,
                                  cycle : {"none", "timer"} \union Callers]]
<1>1. current.monitor \in Gen /\ call \in CallSet
  BY DEF BotInv, CurrentOK
<1>2. PICK g \in Gen : g = current.monitor
  BY <1>1
<1>3. /\ monitor' = [monitor EXCEPT ![g].monitoring = TRUE, ![g].cycle = c]
         \/ monitor' = [monitor EXCEPT ![g].monitoring = TRUE, ![g].timer = TRUE]
      /\ WaitAt(c, "cycle", g) \/ WaitAt(c, "list", g)
  BY <1>2 DEF BeginMonitoring
<1>4. Moved(c, {"cycle", "list"})
  <2>1. CASE WaitAt(c, "cycle", g)
    BY <1>1, <2>1, WaitMoves DEF Moved, At
  <2>2. CASE WaitAt(c, "list", g)
    BY <1>1, <2>2, WaitMoves DEF Moved, At
  <2>3. QED
    BY <1>3, <2>1, <2>2
<1>5. QED
  BY ZenonT(30), <1>3, <1>4 DEF BotInv, PartsOK

LEMMA DecideEffect ==
  ASSUME BotInv, NEW c \in Callers, NEW wanted \in BOOLEAN, Decide(c, wanted)
  PROVE  /\ isRunning' = wanted /\ toggled' = FALSE
         /\ PartsOK' /\ UNCHANGED current
         /\ Moved(c, Startings)
<1>1. call \in CallSet /\ 0 \in Gen
  BY GenFacts DEF BotInv
<1>2. CASE wanted
  <2>1. StartBot(c) /\ toggled' = FALSE
    BY <1>2 DEF Decide
  <2>2. /\ isRunning' = TRUE /\ UNCHANGED <<current, tracker, heartbeat, failed>>
        /\ \/ Return(c) /\ UNCHANGED monitor
           \/ WaitAt(c, "prepare", 0) /\ UNCHANGED monitor
           \/ BeginMonitoring(c)
    BY <2>1 DEF StartBot
  <2>3. Moved(c, Startings)
        /\ monitor' \in [Gen -> [monitoring : BOOLEAN, timer : BOOLEAN,
                                 cycle : {"none", "timer"} \union Callers]]
    <3>1. CASE Return(c) /\ UNCHANGED monitor
      <4>1. Moved(c, {"idle"})
        BY <1>1, <3>1, ReturnMoves
      <4>2. QED
        BY <3>1, <4>1 DEF Moved, Startings, BotInv, PartsOK
    <3>2. CASE WaitAt(c, "prepare", 0) /\ UNCHANGED monitor
      <4>1. Moved(c, {"prepare"})
        BY <1>1, <3>2, WaitMoves DEF At
      <4>2. QED
        BY <3>2, <4>1 DEF Moved, Startings, BotInv, PartsOK
    <3>3. CASE BeginMonitoring(c)
      BY <3>3, BeginEffect DEF Moved, Startings
    <3>4. QED
      BY <2>2, <3>1, <3>2, <3>3
  <2>4. QED
    BY <1>2, <2>1, <2>2, <2>3 DEF BotInv, PartsOK
<1>3. CASE ~wanted
  <2>1. StopParts /\ Return(c) /\ toggled' = FALSE
    BY <1>3 DEF Decide
  <2>2. Moved(c, Startings)
    BY <1>1, <2>1, ReturnMoves DEF Moved, Startings
  <2>3. isRunning' = FALSE /\ UNCHANGED current
    BY <2>1 DEF StopParts, parts, BotInv, PartsOK
  <2>4. PartsOK'
    BY <2>1, <2>3, StopEffect
  <2>5. QED
    BY <1>3, <2>1, <2>2, <2>3, <2>4
<1>4. QED
  BY <1>2, <1>3

\* syncCopyTraderState decides at once, or reads the files.
LEMMA SyncEffect ==
  ASSUME BotInv, NEW c \in Callers, NEW e \in [Tenants -> {"unset", "on", "off"}],
         Sync(c, e)
  PROVE  /\ PartsOK' /\ UNCHANGED current
         /\ Moved(c, Startings \union {"flag"})
         /\ mode # "json" => /\ isRunning' = (~forced /\ Wanted(e))
                             /\ toggled' = FALSE
                             /\ Moved(c, Startings)
<1>1. Wanted(e) \in BOOLEAN /\ forced \in BOOLEAN
  BY DEF Wanted, BotInv, PrefsOK
<1>2. CASE Decide(c, ~forced /\ Wanted(e)) /\ (mode # "json" \/ forced)
  BY <1>1, <1>2, DecideEffect DEF Moved
<1>3. CASE WaitAt(c, "flag", 0) /\ mode = "json" /\ UNCHANGED <<isRunning, parts, toggled>>
  <2>1. Moved(c, {"flag"})
    BY <1>3, WaitMoves, GenFacts DEF BotInv, At
  <2>2. QED
    BY <1>3, <2>1 DEF Moved, parts, BotInv, PartsOK
<1>4. QED
  BY <1>1, <1>2, <1>3 DEF Sync

\* A new monitor: one request less is about to make one, one more is about to
\* make a tracker.
LEMMA ReplaceMonitorKeeps ==
  ASSUME BotInv, NEW c \in Callers, ReplaceMonitor(c)
  PROVE  BotInv'
<1>1. /\ call[c].pc = "reload" /\ WaitAt(c, "connect", 0)
      /\ current' = [current EXCEPT !.monitor = @ + 1]
      /\ UNCHANGED <<prefs, isRunning, monitor, tracker, heartbeat, failed, toggled,
                     edits>>
  BY DEF ReplaceMonitor, Replace
<1>2. c \in Calls /\ call \in CallSet
  BY <1>1 DEF BotInv, CallsOK, Making, Callers
<1>3. Moved(c, {"connect"})
  BY <1>1, <1>2, WaitMoves, GenFacts DEF At
<1>4. PICK l : l = call'
  OBVIOUS
<1>5. l[c].pc = "connect" /\ \A d \in Calls \ {c} : l[d] = call[d]
  BY <1>3, <1>4 DEF Moved, Callers
<1>6. /\ Count(l, "reload") + 1 <= Count(call, "reload")
      /\ Count(l, "connect") <= Count(call, "connect") + 1
  BY <1>1, <1>2, <1>5, OneLeaves, OneComes
<1>7. Count(l, "reload") \in Nat /\ Count(l, "connect") \in Nat
      /\ Count(call, "reload") \in Nat /\ Count(call, "connect") \in Nat
  BY CountNat
<1>8. current \in [monitor : Gen, tracker : Gen]
      /\ Count(call, "reload") + current.monitor <= MaxReinits
      /\ Count(call, "connect") + current.tracker <= current.monitor
  BY DEF BotInv, CurrentOK, RoomLeft
<1>9. current'.monitor = current.monitor + 1 /\ current'.tracker = current.tracker
  BY <1>1, <1>8
<1>10. current.monitor \in Nat /\ current.tracker \in Nat /\ MaxReinits \in Nat
  BY <1>8, GenFacts, BotAssumption
<1>11. /\ Count(l, "reload") + current'.monitor <= MaxReinits
       /\ Count(l, "connect") + current'.tracker <= current'.monitor
       /\ current.monitor + 1 \in Gen
  BY <1>6, <1>7, <1>8, <1>9, <1>10 DEF Gen
<1>12. RoomLeft'
  <2>1. /\ Count(call', "reload") + current'.monitor <= MaxReinits
        /\ Count(call', "connect") + current'.tracker <= current'.monitor
    BY <1>4, <1>11
  <2>2. QED
    BY <2>1 DEF RoomLeft, Count, Standing
<1>13. CurrentOK'
  BY <1>1, <1>8, <1>11 DEF CurrentOK
<1>14. CallsOK' /\ call' \in CallSet
  BY <1>1, <1>2, <1>3 DEF Moved, BotInv, CallsOK, prefs, Callers
<1>15. PrefsOK' /\ PartsOK'
  BY <1>1 DEF BotInv, PrefsOK, PartsOK, prefs
<1>16. QED
  BY <1>12, <1>13, <1>14, <1>15 DEF BotInv

\* A new tracker.
LEMMA ReplaceTrackerKeeps ==
  ASSUME BotInv, NEW c \in Callers, ReplaceTracker(c)
  PROVE  BotInv'
<1>1. /\ call[c].pc = "connect" /\ WaitAt(c, "balances", 0)
      /\ current' = [current EXCEPT !.tracker = @ + 1]
      /\ UNCHANGED <<prefs, isRunning, monitor, tracker, heartbeat, failed, toggled,
                     edits>>
  BY DEF ReplaceTracker, Replace
<1>2. c \in Calls /\ call \in CallSet
  BY <1>1 DEF BotInv, CallsOK, Making, Callers
<1>3. Moved(c, {"balances"})
  BY <1>1, <1>2, WaitMoves, GenFacts DEF At
<1>4. PICK l : l = call'
  OBVIOUS
<1>5. l[c].pc = "balances" /\ \A d \in Calls \ {c} : l[d] = call[d]
  BY <1>3, <1>4 DEF Moved, Callers
<1>6. /\ Count(l, "connect") + 1 <= Count(call, "connect")
      /\ Count(l, "reload") <= Count(call, "reload")
  BY <1>1, <1>2, <1>5, OneLeaves, NoneCome
<1>7. Count(l, "reload") \in Nat /\ Count(l, "connect") \in Nat
      /\ Count(call, "reload") \in Nat /\ Count(call, "connect") \in Nat
  BY CountNat
<1>8. current \in [monitor : Gen, tracker : Gen]
      /\ Count(call, "reload") + current.monitor <= MaxReinits
      /\ Count(call, "connect") + current.tracker <= current.monitor
  BY DEF BotInv, CurrentOK, RoomLeft
<1>9. current'.monitor = current.monitor /\ current'.tracker = current.tracker + 1
  BY <1>1, <1>8
<1>10. current.monitor \in Nat /\ current.tracker \in Nat /\ MaxReinits \in Nat
  BY <1>8, GenFacts, BotAssumption
<1>11. /\ Count(l, "reload") + current'.monitor <= MaxReinits
       /\ Count(l, "connect") + current'.tracker <= current'.monitor
       /\ current.tracker + 1 \in Gen
  BY <1>6, <1>7, <1>8, <1>9, <1>10 DEF Gen
<1>12. RoomLeft'
  <2>1. /\ Count(call', "reload") + current'.monitor <= MaxReinits
        /\ Count(call', "connect") + current'.tracker <= current'.monitor
    BY <1>4, <1>11
  <2>2. QED
    BY <2>1 DEF RoomLeft, Count, Standing
<1>13. CurrentOK'
  BY <1>1, <1>8, <1>11 DEF CurrentOK
<1>14. CallsOK' /\ call' \in CallSet
  BY <1>1, <1>2, <1>3 DEF Moved, BotInv, CallsOK, prefs, Callers
<1>15. PrefsOK' /\ PartsOK'
  BY <1>1 DEF BotInv, PrefsOK, PartsOK, prefs
<1>16. QED
  BY <1>12, <1>13, <1>14, <1>15 DEF BotInv

-----------------------------------------------------------------------------
(* Every step keeps the invariant.                                         *)

\* A call whose step ends where nothing is made, and that awaits a file only if
\* there are files.
LEMMA CallKept ==
  ASSUME BotInv, NEW c \in Callers, NEW S, Moved(c, S), UNCHANGED <<mode, current>>,
         S \cap Making = {},
         mode # "json" => S \cap {"set", "flag", "wallets"} = {}
  PROVE  CurrentOK' /\ call' \in CallSet /\ RoomLeft' /\ CallsOK'
<1>1. call[Boot].pc \in Making => Boot \in Calls
  BY DEF BotInv, CallsOK
<1>2. call'[Boot].pc \in Making => call'[Boot] = call[Boot]
  BY DEF Moved, Callers
<1>3. mode # "json" => \A d \in Callers : call'[d].pc \notin {"set", "flag", "wallets"}
  BY DEF Moved, BotInv, CallsOK
<1>4. RoomLeft'
  BY RoomKept
<1>5. CurrentOK' /\ call' \in CallSet
  BY DEF BotInv, CurrentOK, Moved
<1>6. QED
  BY <1>1, <1>2, <1>3, <1>4, <1>5 DEF CallsOK

LEMMA StartingsPure ==
  Startings \cap Making = {} /\ Startings \cap {"set", "flag", "wallets"} = {}
  BY DEF Startings, Making

\* A decision, with the preferences of the step.
LEMMA DecideKeeps ==
  ASSUME BotInv, NEW c \in Callers, NEW wanted \in BOOLEAN, Decide(c, wanted),
         PrefsOK', UNCHANGED mode
  PROVE  BotInv'
<1>1. PartsOK' /\ UNCHANGED current /\ Moved(c, Startings)
  BY DecideEffect
<1>2. CurrentOK' /\ call' \in CallSet /\ RoomLeft' /\ CallsOK'
  BY <1>1, CallKept, StartingsPure
<1>3. QED
  BY <1>1, <1>2 DEF BotInv

LEMMA SyncKeeps ==
  ASSUME BotInv, NEW c \in Callers, NEW e \in [Tenants -> {"unset", "on", "off"}],
         Sync(c, e), PrefsOK', UNCHANGED mode
  PROVE  BotInv'
<1>1. PartsOK' /\ UNCHANGED current
  BY SyncEffect
<1>2. CurrentOK' /\ call' \in CallSet /\ RoomLeft' /\ CallsOK'
  <2>1. CASE mode # "json"
    <3>1. Moved(c, Startings)
      BY <2>1, SyncEffect
    <3>2. QED
      BY <1>1, <3>1, CallKept, StartingsPure
  <2>2. CASE mode = "json"
    <3>1. Moved(c, Startings \union {"flag"})
      BY SyncEffect
    <3>2. (Startings \union {"flag"}) \cap Making = {}
      BY DEF Startings, Making
    <3>3. QED
      BY <1>1, <2>2, <3>1, <3>2, CallKept
  <2>3. QED
    BY <2>1, <2>2
<1>3. QED
  BY <1>1, <1>2 DEF BotInv

LEMMA TypedCall ==
  ASSUME BotInv, NEW c \in Callers
  PROVE  call \in CallSet /\ call[c].gen \in Gen /\ current.monitor \in Gen
         /\ current.tracker \in Gen
  BY DEF BotInv, CallSet, CurrentOK

LEMMA AwaitKeeps ==
  ASSUME BotInv, NEW c \in Callers, Awaits(c) \/ StartFails(c)
  PROVE  BotInv'
<1> USE TypedCall
<1> DEFINE Monitors == [Gen -> [monitoring : BOOLEAN, timer : BOOLEAN,
                                cycle : {"none", "timer"} \union Callers]]
<1> DEFINE Trackers == [Gen -> [tracking : BOOLEAN, handle : BOOLEAN, live : Nat]]
<1>0. ASSUME UNCHANGED <<prefs, edits>> PROVE PrefsOK' /\ UNCHANGED mode
  BY <1>0 DEF prefs, BotInv, PrefsOK
<1>1. CASE ReadFlag(c)
  <2>1. PrefsOK' /\ UNCHANGED mode
    BY <1>0, <1>1 DEF ReadFlag
  <2>2. CASE Decide(c, FALSE)
    BY <2>1, <2>2, DecideKeeps
  <2>3. CASE WaitAt(c, "wallets", 0) /\ UNCHANGED <<isRunning, parts, toggled>>
    <3>1. mode = "json"
      BY <1>1 DEF ReadFlag, BotInv, CallsOK
    <3>2. Moved(c, {"wallets"})
      BY <2>3, WaitMoves, GenFacts DEF At
    <3>3. CurrentOK' /\ call' \in CallSet /\ RoomLeft' /\ CallsOK'
      BY <2>1, <2>3, <3>1, <3>2, CallKept DEF Making, parts
    <3>4. PartsOK'
      BY <2>3 DEF BotInv, PartsOK, parts
    <3>5. QED
      BY <2>1, <3>3, <3>4 DEF BotInv
  <2>4. QED
    BY <1>1, <2>2, <2>3 DEF ReadFlag
<1>2. CASE ReadWallets(c)
  BY <1>0, <1>2, DecideKeeps DEF ReadWallets
<1>3. CASE Prepared(c)
  <2>1. Moved(c, {"cycle", "list"}) /\ monitor' \in Monitors
    BY <1>3, BeginEffect DEF Prepared
  <2>2. PrefsOK' /\ UNCHANGED <<mode, current>>
    BY <1>0, <1>3 DEF Prepared
  <2>3. CurrentOK' /\ call' \in CallSet /\ RoomLeft' /\ CallsOK'
    BY <2>1, <2>2, CallKept DEF Making
  <2>4. PartsOK'
    BY <1>3, <2>1 DEF Prepared, BotInv, PartsOK
  <2>5. QED
    BY <2>2, <2>3, <2>4 DEF BotInv
<1>4. CASE CycleEnds(c)
  <2>1. PICK g \in Gen : g = call[c].gen
    OBVIOUS
  <2>2. Moved(c, {"list"})
    BY <1>4, <2>1, WaitMoves DEF CycleEnds, At
  <2>3. PrefsOK' /\ UNCHANGED <<mode, current>>
    BY <1>0, <1>4 DEF CycleEnds
  <2>4. CurrentOK' /\ call' \in CallSet /\ RoomLeft' /\ CallsOK'
    BY <2>2, <2>3, CallKept DEF Making
  <2>5. monitor' = [monitor EXCEPT ![g].cycle = "none", ![g].timer = TRUE]
    BY <1>4, <2>1 DEF CycleEnds
  <2>6. monitor' \in Monitors
    BY <2>5 DEF BotInv, PartsOK
  <2>7. PartsOK'
    BY <1>4, <2>6 DEF CycleEnds, BotInv, PartsOK
  <2>8. QED
    BY <2>3, <2>4, <2>7 DEF BotInv
<1>5. ASSUME NEW some \in BOOLEAN, TrackBalances(c, some) PROVE BotInv'
  <2>1. PICK g \in Gen : g = current.tracker
    OBVIOUS
  <2>2. \/ /\ tracker' = [tracker EXCEPT ![g].tracking = TRUE]
           /\ WaitAt(c, "record", g) /\ UNCHANGED heartbeat
        \/ heartbeat' = TRUE /\ Return(c) /\ UNCHANGED tracker
    BY <1>5, <2>1 DEF TrackBalances, Finish
  <2>3. Moved(c, {"record", "idle"})
    <3>1. CASE WaitAt(c, "record", g)
      BY <3>1, WaitMoves DEF At, Moved
    <3>2. CASE Return(c)
      BY <3>2, ReturnMoves DEF Moved
    <3>3. QED
      BY <2>2, <3>1, <3>2
  <2>4. PrefsOK' /\ UNCHANGED <<mode, current>>
    BY <1>0, <1>5 DEF TrackBalances
  <2>5. CurrentOK' /\ call' \in CallSet /\ RoomLeft' /\ CallsOK'
    BY <2>3, <2>4, CallKept DEF Making
  <2>6. tracker' \in Trackers /\ \A x \in Gen : tracker'[x].handle => tracker'[x].live > 0
    <3>1. tracker \in Trackers /\ \A x \in Gen : tracker[x].handle => tracker[x].live > 0
      BY DEF BotInv, PartsOK
    <3>2. CASE tracker' = [tracker EXCEPT ![g].tracking = TRUE]
      <4>1. tracker' \in Trackers
        BY <3>1, <3>2
      <4>2. \A x \in Gen : tracker'[x].handle = tracker[x].handle
                          /\ tracker'[x].live = tracker[x].live
        BY <3>1, <3>2
      <4>3. QED
        BY <3>1, <4>1, <4>2
    <3>3. CASE UNCHANGED tracker
      BY <3>1, <3>3
    <3>4. QED
      BY <2>2, <3>2, <3>3
  <2>7. PartsOK'
    BY <1>5, <2>2, <2>6 DEF TrackBalances, BotInv, PartsOK
  <2>8. QED
    BY <2>4, <2>5, <2>7 DEF BotInv
<1>6. CASE TimeBalances(c)
  <2>1. PICK g \in Gen : g = call[c].gen
    OBVIOUS
  <2>2. Moved(c, {"idle"}) /\ heartbeat' = TRUE
    BY <1>6, ReturnMoves DEF TimeBalances, Finish
  <2>3. PrefsOK' /\ UNCHANGED <<mode, current>>
    BY <1>0, <1>6 DEF TimeBalances
  <2>4. CurrentOK' /\ call' \in CallSet /\ RoomLeft' /\ CallsOK'
    BY <2>2, <2>3, CallKept DEF Making
  <2>5. tracker' = [tracker EXCEPT ![g].handle = TRUE, ![g].live = @ + 1]
    BY <1>6, <2>1 DEF TimeBalances
  <2>6. tracker' \in Trackers /\ \A x \in Gen : tracker'[x].handle => tracker'[x].live > 0
    BY <2>5 DEF BotInv, PartsOK
  <2>7. PartsOK'
    BY <1>6, <2>2, <2>6 DEF TimeBalances, BotInv, PartsOK
  <2>8. QED
    BY <2>3, <2>4, <2>7 DEF BotInv
<1>7. CASE SaveEnabled(c)
  <2>1. enabled' \in [Tenants -> {"unset", "on", "off"}]
    BY <1>7 DEF SaveEnabled
  <2>2. Sync(c, enabled') /\ UNCHANGED mode
    BY <1>7 DEF SaveEnabled
  <2>3. PrefsOK'
    BY <1>7, <2>1 DEF SaveEnabled, BotInv, PrefsOK
  <2>4. QED
    BY <2>1, <2>2, <2>3, SyncKeeps
<1>8. CASE ReplaceMonitor(c)
  BY <1>8, ReplaceMonitorKeeps
<1>9. CASE ReplaceTracker(c)
  BY <1>9, ReplaceTrackerKeeps
<1>10. CASE Reinitialized(c)
  <2>1. enabled \in [Tenants -> {"unset", "on", "off"}]
    BY DEF BotInv, PrefsOK
  <2>2. QED
    BY <1>0, <1>10, <2>1, SyncKeeps DEF Reinitialized
<1>11. CASE StartFails(c)
  <2>1. Moved(c, {"idle"})
    BY <1>11, ReturnMoves DEF StartFails
  <2>2. PrefsOK' /\ UNCHANGED <<mode, current>>
    BY <1>0, <1>11 DEF StartFails
  <2>3. CurrentOK' /\ call' \in CallSet /\ RoomLeft' /\ CallsOK'
    BY <2>1, <2>2, CallKept DEF Making
  <2>4. PartsOK'
    BY <1>11 DEF StartFails, BotInv, PartsOK
  <2>5. QED
    BY <2>2, <2>3, <2>4 DEF BotInv
<1>12. QED
  BY <1>1, <1>2, <1>3, <1>4, <1>5, <1>6, <1>7, <1>8, <1>9, <1>10, <1>11 DEF Awaits

LEMMA BootKeeps ==
  ASSUME BotInv, BootSync
  PROVE  BotInv'
<1>1. enabled' \in [Tenants -> {"unset", "on", "off"}] /\ UNCHANGED <<mode, active, forced, edits>>
  BY DEF BootSync, BotInv, PrefsOK
<1>2. PrefsOK'
  BY <1>1 DEF BotInv, PrefsOK
<1>3. Sync(Boot, enabled') /\ Boot \in Callers
  BY DEF BootSync, Callers
<1>4. QED
  BY <1>1, <1>2, <1>3, SyncKeeps

LEMMA SetKeeps ==
  ASSUME BotInv, NEW c \in Calls, NEW t \in Tenants, NEW on \in BOOLEAN,
         SetEnabled(c, t, on)
  PROVE  BotInv'
<1>1. UNCHANGED <<mode, active, forced>> /\ edits' \in 0 .. MaxEdits /\ c \in Callers
  BY BotAssumption DEF SetEnabled, Edit, BotInv, PrefsOK, Callers
<1>2. CASE mode # "json"
  <2>1. enabled' \in [Tenants -> {"unset", "on", "off"}]
    BY <1>2 DEF SetEnabled, BotInv, PrefsOK
  <2>2. PrefsOK'
    BY <1>1, <2>1 DEF BotInv, PrefsOK
  <2>3. Sync(c, enabled')
    BY <1>2 DEF SetEnabled
  <2>4. QED
    BY <1>1, <2>1, <2>2, <2>3, SyncKeeps
<1>3. CASE mode = "json"
  <2>1. /\ call' = [call EXCEPT ![c] = [Idle EXCEPT !.pc = "set", !.on = on]]
        /\ UNCHANGED <<enabled, isRunning, parts, toggled>>
    BY <1>3 DEF SetEnabled
  <2>2. Moved(c, {"set"})
    BY <1>1, <2>1, GenFacts DEF Idle, At, Moved, BotInv, CallSet
  <2>3. CurrentOK' /\ call' \in CallSet /\ RoomLeft' /\ CallsOK'
    BY <1>1, <1>3, <2>1, <2>2, CallKept DEF Making, parts
  <2>4. PartsOK' /\ PrefsOK'
    BY <1>1, <2>1 DEF BotInv, PartsOK, PrefsOK, parts
  <2>5. QED
    BY <2>3, <2>4 DEF BotInv
<1>4. QED
  BY <1>2, <1>3

LEMMA ReinitializeKeeps ==
  ASSUME BotInv, NEW c \in Calls, Reinitialize(c)
  PROVE  BotInv'
<1>1. /\ c \in Callers /\ WaitAt(c, "reload", 0) /\ UNCHANGED <<prefs, toggled>>
      /\ MayReplace /\ StopParts
  BY DEF Reinitialize, Callers
<1>2. PartsOK' /\ UNCHANGED current
  BY <1>1, StopEffect DEF BotInv, PartsOK
<1>3. Moved(c, {"reload"})
  BY <1>1, WaitMoves, GenFacts DEF At, BotInv
<1>4. PICK l : l = call'
  OBVIOUS
<1>5. l[c].pc = "reload" /\ \A d \in Calls \ {c} : l[d] = call[d]
  BY <1>3, <1>4 DEF Moved, Callers
<1>6. /\ Count(l, "reload") <= Count(call, "reload") + 1
      /\ Count(l, "connect") <= Count(call, "connect")
  BY <1>5, OneComes, NoneCome
<1>7. Count(l, "reload") \in Nat /\ Count(l, "connect") \in Nat
      /\ Count(call, "reload") \in Nat /\ Count(call, "connect") \in Nat
  BY CountNat
<1>8. current \in [monitor : Gen, tracker : Gen]
      /\ Count(call, "reload") + current.monitor < MaxReinits
      /\ Count(call, "connect") + current.tracker <= current.monitor
  BY <1>1 DEF BotInv, CurrentOK, RoomLeft, MayReplace, Count, Standing
<1>9. current.monitor \in Nat /\ current.tracker \in Nat /\ MaxReinits \in Nat
  BY <1>8, GenFacts, BotAssumption
<1>10. /\ Count(l, "reload") + current.monitor <= MaxReinits
       /\ Count(l, "connect") + current.tracker <= current.monitor
  BY <1>6, <1>7, <1>8, <1>9
<1>11. RoomLeft'
  <2>1. /\ Count(call', "reload") + current'.monitor <= MaxReinits
        /\ Count(call', "connect") + current'.tracker <= current'.monitor
    BY <1>2, <1>4, <1>10
  <2>2. QED
    BY <2>1 DEF RoomLeft, Count, Standing
<1>12. CurrentOK' /\ call' \in CallSet
  BY <1>2, <1>3 DEF BotInv, CurrentOK, Moved
<1>13. CallsOK'
  BY <1>1, <1>3 DEF Moved, BotInv, CallsOK, prefs, Callers
<1>14. PrefsOK'
  BY <1>1, BotAssumption DEF Reinitialize, Edit, BotInv, PrefsOK, prefs
<1>15. QED
  BY <1>2, <1>11, <1>12, <1>13, <1>14 DEF BotInv

LEMMA TimerKeeps ==
  ASSUME BotInv, NEW g \in Gen, TimerCycle(g) \/ TimerCycleEnds(g)
  PROVE  BotInv'
<1>1. /\ UNCHANGED <<prefs, isRunning, current, tracker, heartbeat, failed, call,
                     toggled, edits>>
      /\ monitor' = [monitor EXCEPT ![g].cycle = "timer"]
         \/ monitor' = [monitor EXCEPT ![g].cycle = "none"]
  BY DEF TimerCycle, TimerCycleEnds
<1>2. PartsOK'
  <2>1. monitor' \in [Gen -> [monitoring : BOOLEAN, timer : BOOLEAN,
                              cycle : {"none", "timer"} \union Callers]]
    BY SMTT(30), <1>1 DEF BotInv, PartsOK
  <2>2. QED
    BY <1>1, <2>1 DEF BotInv, PartsOK
<1>3. PrefsOK' /\ CurrentOK' /\ call' \in CallSet /\ RoomLeft' /\ CallsOK'
  BY <1>1 DEF BotInv, PrefsOK, CurrentOK, RoomLeft, CallsOK, prefs, Count, Standing
<1>4. QED
  BY <1>2, <1>3 DEF BotInv

LEMMA ToggleKeeps ==
  ASSUME BotInv, NEW t \in Tenants, ToggleWallets(t)
  PROVE  BotInv'
<1>1. UNCHANGED <<mode, enabled, forced, isRunning, parts, call>> /\ toggled' = TRUE
  BY DEF ToggleWallets
<1>2. PartsOK' /\ CurrentOK' /\ call' \in CallSet /\ RoomLeft' /\ CallsOK'
  BY <1>1 DEF BotInv, PartsOK, CurrentOK, RoomLeft, CallsOK, parts, Count, Standing
<1>3. PrefsOK'
  BY <1>1, BotAssumption DEF ToggleWallets, Edit, BotInv, PrefsOK
<1>4. QED
  BY <1>2, <1>3 DEF BotInv

LEMMA BotStart == BotInit => BotInv
<1> SUFFICES ASSUME BotInit PROVE BotInv
  OBVIOUS
<1>1. PrefsOK /\ PartsOK /\ CurrentOK
  <2>1. PrefsOK
    BY BotAssumption DEF BotInit, PrefsOK
  <2>2. CurrentOK
    BY GenFacts DEF BotInit, CurrentOK
  <2>3. PartsOK
    BY DEF BotInit, PartsOK
  <2>4. QED
    BY <2>1, <2>2, <2>3
<1>2. call \in CallSet
  BY GenFacts DEF BotInit, CallSet, Idle, At, Boot, Callers
<1>3. \A c \in Callers : call[c].pc \in {"idle", "boot"}
  BY DEF BotInit, Idle, Boot, Callers
<1>4. CallsOK
  BY <1>3 DEF CallsOK, Making, Callers
<1>5. Standing(call, "reload") = {} /\ Standing(call, "connect") = {}
  BY <1>3 DEF Standing, Callers
<1>6. Count(call, "reload") = 0 /\ Count(call, "connect") = 0
  BY <1>5, FS_EmptySet DEF Count
<1>7. RoomLeft
  BY <1>6, BotAssumption DEF RoomLeft, BotInit
<1>8. QED
  BY <1>1, <1>2, <1>4, <1>7 DEF BotInv

LEMMA BotStep == BotInv /\ [BotNext]_botVars => BotInv'
<1> SUFFICES ASSUME BotInv, [BotNext]_botVars PROVE BotInv'
  OBVIOUS
<1>1. CASE BootSync
  BY <1>1, BootKeeps
<1>2. ASSUME NEW c \in Callers, Awaits(c) \/ StartFails(c) PROVE BotInv'
  BY <1>2, AwaitKeeps
<1>3. ASSUME NEW c \in Calls, NEW t \in Tenants, NEW on \in BOOLEAN, SetEnabled(c, t, on)
      PROVE  BotInv'
  BY <1>3, SetKeeps
<1>4. ASSUME NEW c \in Calls, Reinitialize(c) PROVE BotInv'
  BY <1>4, ReinitializeKeeps
<1>5. ASSUME NEW g \in Gen, TimerCycle(g) \/ TimerCycleEnds(g) PROVE BotInv'
  BY <1>5, TimerKeeps
<1>6. ASSUME NEW t \in Tenants, ToggleWallets(t) PROVE BotInv'
  BY <1>6, ToggleKeeps
<1>7. CASE UNCHANGED botVars
  BY <1>7 DEF botVars, prefs, parts, BotInv, PrefsOK, PartsOK, CurrentOK, RoomLeft, CallsOK,
              Count, Standing
<1>8. QED
  BY <1>1, <1>2, <1>3, <1>4, <1>5, <1>6, <1>7 DEF BotNext

\* The variables of BotLifecycle keep their types: however often the components
\* are replaced, the copy trader holds a monitor and a tracker that were made.
THEOREM BotType == BotSpec => []BotTypeOK
<1>1. BotInv => BotTypeOK
  BY DEF BotInv, PrefsOK, PartsOK, CurrentOK, CallSet, BotTypeOK
<1>2. QED
  BY <1>1, BotStart, BotStep, PTL DEF BotSpec

-----------------------------------------------------------------------------
(* The bot runs as preferred.                                              *)

\* When a request has decided, the bot runs if it is wanted.
Preferred == isRunning <=> ~forced /\ Wanted(enabled)

LEMMA SyncPrefers ==
  ASSUME BotInv, NEW c \in Callers, enabled' \in [Tenants -> {"unset", "on", "off"}],
         Sync(c, enabled'), mode # "json", UNCHANGED <<active, forced>>
  PROVE  Preferred'
<1>1. isRunning' = (~forced /\ Wanted(enabled'))
  BY SyncEffect
<1>2. QED
  BY <1>1 DEF Preferred, Wanted

\* A step of a call that was not about to decide.
LEMMA DecidingStays ==
  ASSUME BotInv, NEW c \in Callers, NEW S, Moved(c, S),
         call[c].pc \notin {"boot", "set", "flag", "wallets", "reload", "connect", "balances"}
  PROVE  Deciding => Deciding'
<1>1. \A d \in Callers \ {c} : call'[d].pc = call[d].pc
  BY DEF Moved
<1>2. QED
  BY <1>1 DEF Deciding

\* Unless a request is about to decide or a wallet was switched.
PreferredUnless == mode # "json" /\ ~Deciding /\ ~toggled => Preferred

LEMMA AwaitPrefers ==
  ASSUME BotInv, PreferredUnless, NEW c \in Callers, Awaits(c) \/ StartFails(c)
  PROVE  PreferredUnless'
<1> SUFFICES ASSUME mode # "json", UNCHANGED mode, ~Deciding', ~toggled' PROVE Preferred'
  <2>1. UNCHANGED mode
    BY DEF Awaits, ReadFlag, ReadWallets, Prepared, CycleEnds, TrackBalances, TimeBalances,
           SaveEnabled, ReplaceMonitor, ReplaceTracker, Replace, Reinitialized, StartFails, prefs
  <2>2. QED
    BY <2>1 DEF PreferredUnless
<1> DEFINE Deciders == {"boot", "set", "flag", "wallets", "reload", "connect", "balances"}
<1>1. call[c].pc \notin {"set", "flag", "wallets"}
  BY DEF BotInv, CallsOK
<1>2. ASSUME NEW S, Moved(c, S), call[c].pc \notin Deciders,
             UNCHANGED <<prefs, isRunning, toggled>>
      PROVE  Preferred'
  <2>1. ~Deciding
    BY <1>2, DecidingStays
  <2>2. Preferred
    BY <1>2, <2>1 DEF PreferredUnless
  <2>3. QED
    BY <1>2, <2>2 DEF Preferred, Wanted, prefs
<1>3. CASE Prepared(c)
  <2>1. Moved(c, {"cycle", "list"})
    BY <1>3, BeginEffect DEF Prepared
  <2>2. QED
    BY <1>2, <1>3, <2>1 DEF Prepared
<1>4. CASE CycleEnds(c)
  <2>1. Moved(c, {"list"})
    BY <1>4, WaitMoves, TypedCall DEF CycleEnds, At
  <2>2. QED
    BY <1>2, <1>4, <2>1 DEF CycleEnds
<1>5. ASSUME NEW some \in BOOLEAN, TrackBalances(c, some) PROVE Preferred'
  <2>1. WaitAt(c, "record", current.tracker) \/ Return(c)
    BY <1>5 DEF TrackBalances, Finish
  <2>2. Moved(c, {"record"}) \/ Moved(c, {"idle"})
    BY <2>1, WaitMoves, ReturnMoves, TypedCall DEF At
  <2>3. QED
    BY <1>2, <1>5, <2>2 DEF TrackBalances
<1>6. CASE TimeBalances(c)
  <2>1. Moved(c, {"idle"})
    BY <1>6, ReturnMoves, TypedCall DEF TimeBalances, Finish
  <2>2. QED
    BY <1>2, <1>6, <2>1 DEF TimeBalances
<1>7. CASE StartFails(c)
  <2>1. Moved(c, {"idle"})
    BY <1>7, ReturnMoves, TypedCall DEF StartFails
  <2>2. QED
    BY <1>2, <1>7, <2>1 DEF StartFails
<1>8. CASE ReadFlag(c) \/ ReadWallets(c) \/ SaveEnabled(c)
  BY <1>1, <1>8 DEF ReadFlag, ReadWallets, SaveEnabled
<1>9. CASE ReplaceMonitor(c) \/ ReplaceTracker(c)
  <2>1. Moved(c, {"connect"}) \/ Moved(c, {"balances"})
    BY <1>9, WaitMoves, TypedCall, GenFacts DEF ReplaceMonitor, ReplaceTracker, Replace, At
  <2>2. QED
    BY <2>1 DEF Moved, Deciding
<1>10. CASE Reinitialized(c)
  <2>1. enabled' \in [Tenants -> {"unset", "on", "off"}]
    BY <1>10 DEF Reinitialized, prefs, BotInv, PrefsOK
  <2>2. enabled' = enabled /\ UNCHANGED <<active, forced>> /\ Sync(c, enabled)
    BY <1>10 DEF Reinitialized, prefs
  <2>3. PICK e : e = enabled'
    OBVIOUS
  <2>4. Sync(c, enabled')
    BY <2>2
  <2>5. QED
    BY <2>1, <2>2, <2>4, SyncPrefers
<1>11. QED
  BY <1>3, <1>4, <1>5, <1>6, <1>7, <1>8, <1>9, <1>10 DEF Awaits

LEMMA RequestPrefers ==
  ASSUME BotInv, PreferredUnless,
         \/ BootSync
         \/ \E c \in Calls : \/ \E t \in Tenants, on \in BOOLEAN : SetEnabled(c, t, on)
                             \/ Reinitialize(c)
         \/ \E g \in Gen : TimerCycle(g) \/ TimerCycleEnds(g)
         \/ \E t \in Tenants : ToggleWallets(t)
  PROVE  PreferredUnless'
<1> SUFFICES ASSUME mode # "json", UNCHANGED mode, ~Deciding', ~toggled' PROVE Preferred'
  <2>1. UNCHANGED mode
    BY DEF BootSync, SetEnabled, Reinitialize, TimerCycle, TimerCycleEnds, ToggleWallets, prefs
  <2>2. QED
    BY <2>1 DEF PreferredUnless
<1>1. CASE BootSync
  <2>1. enabled' \in [Tenants -> {"unset", "on", "off"}]
    BY <1>1 DEF BootSync, BotInv, PrefsOK
  <2>2. Sync(Boot, enabled') /\ UNCHANGED <<active, forced>> /\ Boot \in Callers
    BY <1>1 DEF BootSync, Callers
  <2>3. QED
    BY <2>1, <2>2, SyncPrefers
<1>2. ASSUME NEW c \in Calls, NEW t \in Tenants, NEW on \in BOOLEAN, SetEnabled(c, t, on)
      PROVE  Preferred'
  <2>1. enabled' \in [Tenants -> {"unset", "on", "off"}]
    BY <1>2 DEF SetEnabled, BotInv, PrefsOK
  <2>2. Sync(c, enabled') /\ UNCHANGED <<active, forced>> /\ c \in Callers
    BY <1>2 DEF SetEnabled, Callers
  <2>3. QED
    BY <2>1, <2>2, SyncPrefers
<1>3. ASSUME NEW c \in Calls, Reinitialize(c) PROVE Preferred'
  <2>1. Moved(c, {"reload"}) /\ c \in Callers
    BY <1>3, WaitMoves, GenFacts DEF Reinitialize, At, BotInv, Callers
  <2>2. QED
    BY <2>1 DEF Moved, Deciding
<1>4. ASSUME NEW g \in Gen, TimerCycle(g) \/ TimerCycleEnds(g) PROVE Preferred'
  <2>1. UNCHANGED <<prefs, isRunning, call, toggled>>
    BY <1>4 DEF TimerCycle, TimerCycleEnds
  <2>2. QED
    BY <2>1 DEF PreferredUnless, Preferred, Wanted, Deciding, prefs
<1>5. ASSUME NEW t \in Tenants, ToggleWallets(t) PROVE Preferred'
  BY <1>5 DEF ToggleWallets
<1>6. QED
  BY <1>1, <1>2, <1>3, <1>4, <1>5

\* "Stop the bot (persist user preference + sync global monitor)"
\* (api/routes.ts:1347), for every number of tenants and of requests that
\* overlap, whatever starts throw and components are replaced: with SQLite, when
\* no request is about to decide and no wallet was switched since the last one
\* did, the bot runs exactly if a tenant that enabled it has an active wallet.
THEOREM BotRunsAsPreferred == BotSpec => []RunsAsPreferred
<1>1. BotInit => PreferredUnless
  BY ZenonT(30) DEF BotInit, PreferredUnless, Deciding, Callers, Idle, Boot
<1>2. BotInv /\ PreferredUnless /\ [BotNext]_botVars => PreferredUnless'
  <2> SUFFICES ASSUME BotInv, PreferredUnless, [BotNext]_botVars PROVE PreferredUnless'
    OBVIOUS
  <2>1. CASE UNCHANGED botVars
    BY <2>1 DEF botVars, prefs, PreferredUnless, Preferred, Wanted, Deciding
  <2>2. ASSUME NEW c \in Callers, Awaits(c) \/ StartFails(c) PROVE PreferredUnless'
    BY <2>2, AwaitPrefers
  <2>3. QED
    BY <2>1, <2>2, RequestPrefers DEF BotNext
<1>3. PreferredUnless => RunsAsPreferred
  BY DEF PreferredUnless, Preferred, Wanted, RunsAsPreferred
<1>4. QED
  BY <1>1, <1>2, <1>3, BotStart, BotStep, PTL DEF BotSpec

=============================================================================
