-------------------------- MODULE CopyTrader_proofs --------------------------
(***************************************************************************)
(* Theorems about CopyTrader, for every number of cycles, wallets,         *)
(* targets, trades and every period, backend and set of events.            *)
(***************************************************************************)
EXTENDS CopyTrader, FiniteSetTheorems, TLAPS

-----------------------------------------------------------------------------
(* The in-flight set: who handles a trade handles it alone.                *)

\* InFlightExclusive is inductive once it is known that pc and trade are
\* functions on Cycles.
InFlightInv ==
  /\ pc \in [Cycles -> PC]
  /\ trade \in [Cycles -> Trades]
  /\ InFlightExclusive

\* The initial value of the trade variable is a trade.
LEMMA NoTradeType == NoTrade \in Trades
BY TradeAssumption DEF NoTrade

\* A cycle that moves within the claimed part of the handler disturbs nothing.
LEMMA ClaimKept ==
  ASSUME NEW c \in Cycles, InFlightInv, pc[c] \in ClaimedPC,
         NEW l \in ClaimedPC, pc' = [pc EXCEPT ![c] = l],
         UNCHANGED <<trade, inFlightTrades>>
  PROVE  InFlightInv'
<1>1. pc' \in [Cycles -> PC]
  BY DEF InFlightInv, PC
<1>2. Busy' = Busy
  BY DEF InFlightInv, Busy
<1>3. QED
  BY <1>1, <1>2 DEF InFlightInv, InFlightExclusive, InFlightKeys, TradeKey, CompoundKey

\* A cycle that has claimed nothing may change its trade, short of a claim.
LEMMA UnclaimedMoves ==
  ASSUME NEW c \in Cycles, InFlightInv, pc[c] \notin ClaimedPC,
         NEW l \in PC \ ClaimedPC, pc' = [pc EXCEPT ![c] = l],
         NEW t \in Trades, trade' = [trade EXCEPT ![c] = t],
         UNCHANGED inFlightTrades
  PROVE  InFlightInv'
<1>1. pc' \in [Cycles -> PC] /\ trade' \in [Cycles -> Trades]
  BY DEF InFlightInv
<1>2. Busy' = Busy /\ c \notin Busy
  BY DEF InFlightInv, Busy
<1>3. \A d \in Busy : trade'[d] = trade[d]
  BY <1>2 DEF InFlightInv, Busy
<1>4. QED
  BY <1>1, <1>2, <1>3 DEF InFlightInv, InFlightExclusive, InFlightKeys, TradeKey, CompoundKey

\* The claim takes keys that nobody holds: checks and claim are one step.
LEMMA ClaimExclusive ==
  ASSUME NEW c \in Cycles, InFlightInv, Claim(c)
  PROVE  InFlightInv'
<1> DEFINE K(d) == InFlightKeys(trade[d])
<1>1. pc' = [pc EXCEPT ![c] = "claimed"] /\ trade' = trade /\ pc[c] = "entered"
  BY DEF Claim, Goto, At
<1>2. pc' \in [Cycles -> PC]
  BY <1>1 DEF InFlightInv, PC, ClaimedPC
<1>3. Busy' = Busy \union {c} /\ c \notin Busy
  BY <1>1 DEF InFlightInv, Busy, ClaimedPC
<1>4. inFlightTrades' = inFlightTrades \union K(c)
  BY DEF Claim
<1>5. inFlightTrades \intersect K(c) = {}
  BY DEF Claim, IsDuplicate, InFlightKeys
<1>6. inFlightTrades = UNION {K(d) : d \in Busy}
  BY DEF InFlightInv, InFlightExclusive
<1>7. \A d \in Busy : K(d) \intersect K(c) = {}
  BY <1>5, <1>6
<1>8. \A d, e \in Busy : d # e => K(d) \intersect K(e) = {}
  BY DEF InFlightInv, InFlightExclusive
<1>9. inFlightTrades' = UNION {K(d) : d \in Busy \union {c}}
  BY <1>4, <1>6
<1>10. \A d, e \in Busy \union {c} : d # e => K(d) \intersect K(e) = {}
  BY <1>7, <1>8
<1>11. InFlightExclusive'
  BY <1>1, <1>3, <1>9, <1>10 DEF InFlightExclusive, InFlightKeys, TradeKey, CompoundKey
<1>12. QED
  BY <1>1, <1>2, <1>11 DEF InFlightInv

\* The finally block gives back the keys of its own trade and no other's.
LEMMA LeaveExclusive ==
  ASSUME NEW c \in Cycles, InFlightInv, Leave(c)
  PROVE  InFlightInv'
<1> DEFINE K(d) == InFlightKeys(trade[d])
<1>1. /\ pc' = [pc EXCEPT ![c] = "idle"] /\ pc[c] = "leaving"
      /\ trade' = [trade EXCEPT ![c] = NoTrade]
      /\ inFlightTrades' = inFlightTrades \ K(c)
  BY DEF Leave, Forget, Goto, At
<1>2. pc' \in [Cycles -> PC] /\ trade' \in [Cycles -> Trades]
  BY <1>1, NoTradeType DEF InFlightInv, PC
<1>3. Busy' = Busy \ {c} /\ c \in Busy
  BY <1>1 DEF InFlightInv, Busy, ClaimedPC
<1>4. \A d \in Busy \ {c} : trade'[d] = trade[d]
  BY <1>1 DEF InFlightInv, Busy
<1>5. inFlightTrades = UNION {K(d) : d \in Busy}
  BY DEF InFlightInv, InFlightExclusive
<1>6. \A d, e \in Busy : d # e => K(d) \intersect K(e) = {}
  BY DEF InFlightInv, InFlightExclusive
<1>7. inFlightTrades' = UNION {K(d) : d \in Busy \ {c}}
  BY <1>1, <1>3, <1>5, <1>6
<1>8. \A d \in Busy \ {c} : InFlightKeys(trade[d])' = K(d)
  BY <1>4 DEF InFlightKeys, TradeKey, CompoundKey
<1>9. InFlightExclusive'
  BY <1>3, <1>6, <1>7, <1>8 DEF InFlightExclusive
<1>10. QED
  BY <1>2, <1>9 DEF InFlightInv

\* Every other step of the handler either moves within the claimed part or
\* within the unclaimed one.
LEMMA HandleExclusive ==
  ASSUME NEW c \in Cycles, InFlightInv, Handle(c)
  PROVE  InFlightInv'
<1> USE DEF At, Goto
<1>1. CASE GateReject(c)
  BY <1>1, UnclaimedMoves, NoTradeType DEF GateReject, Forget, memory, ClaimedPC, PC
<1>2. CASE DropDuplicate(c)
  BY <1>2, UnclaimedMoves, NoTradeType DEF DropDuplicate, Forget, ClaimedPC, PC
<1>3. CASE Claim(c)
  BY <1>3, ClaimExclusive
<1>4. CASE RefuseUnsafe(c)
  BY <1>4, ClaimKept DEF RefuseUnsafe, ClaimedPC
<1>5. CASE Bail(c)
  BY <1>5, ClaimKept DEF Bail, memory, ClaimedPC
<1>6. CASE Leave(c)
  BY <1>6, LeaveExclusive
<1>7. CASE LoadPendingBlocks(c)
  BY <1>7, ClaimKept DEF LoadPendingBlocks, memory, ClaimedPC
<1>8. CASE ProbeBook(c)
  BY <1>8, ClaimKept DEF ProbeBook, memory, ClaimedPC
<1>9. CASE ProbeSize(c)
  BY <1>9, ClaimKept DEF ProbeSize, memory, ClaimedPC
<1>10. CASE Decide(c)
  BY <1>10, ClaimKept DEF Decide, StartWrite, memory, ClaimedPC
<1>11. CASE FinishReconcile(c)
  BY <1>11, ClaimKept DEF FinishReconcile, EndReconcile, memory, ClaimedPC
<1>12. CASE ConfirmBook(c)
  BY <1>12, ClaimKept DEF ConfirmBook, memory, ClaimedPC
<1>13. CASE ConfirmSize(c)
  BY <1>13, ClaimKept DEF ConfirmSize, EndReconcile, StartWrite, memory, ClaimedPC
<1>14. CASE CheckLimits(c)
  BY <1>14, ClaimKept DEF CheckLimits, ClaimedPC
<1>15. CASE StartLoop(c)
  BY <1>15, ClaimKept DEF StartLoop, memory, ClaimedPC
<1>16. CASE FinishLoop(c)
  BY <1>16, ClaimKept DEF FinishLoop, memory, ClaimedPC
<1>17. CASE SkipTarget(c)
  BY <1>17 DEF SkipTarget, memory, InFlightInv, InFlightExclusive, Busy,
                InFlightKeys, TradeKey, CompoundKey
<1>18. CASE TakeTarget(c)
  BY <1>18, ClaimKept DEF TakeTarget, memory, ClaimedPC
<1>19. CASE SkipSell(c)
  BY <1>19, ClaimKept DEF SkipSell, NextTarget, memory, ClaimedPC
<1>20. CASE CheckOwned(c)
  BY <1>20, ClaimKept DEF CheckOwned, memory, ClaimedPC
<1>21. CASE TakeBaseline(c)
  BY <1>21, ClaimKept DEF TakeBaseline, memory, ClaimedPC
<1>22. CASE ExecuteTrade(c)
  BY <1>22, ClaimKept DEF ExecuteTrade, StartWrite, memory, ClaimedPC
<1>23. CASE ExecuteFails(c)
  BY <1>23, ClaimKept DEF ExecuteFails, NextTarget, ClaimedPC
<1>24. CASE LoadLedger(c)
  BY <1>24, ClaimKept DEF LoadLedger, memory, ClaimedPC
<1>25. CASE SaveLedger(c)
  BY <1>25, ClaimKept DEF SaveLedger, NextTarget, AfterReconcileSave, EndReconcile, ClaimedPC
<1>26. CASE SaveFails(c)
  BY <1>26, ClaimKept DEF SaveFails, ClaimedPC
<1>27. QED
  BY <1>1, <1>2, <1>3, <1>4, <1>5, <1>6, <1>7, <1>8, <1>9, <1>10, <1>11, <1>12,
     <1>13, <1>14, <1>15, <1>16, <1>17, <1>18, <1>19, <1>20, <1>21, <1>22,
     <1>23, <1>24, <1>25, <1>26
     DEF Handle

\* A step that leaves pc, trade and inFlightTrades alone keeps the invariant.
LEMMA InFlightUnchanged ==
  ASSUME InFlightInv, UNCHANGED <<pc, trade, inFlightTrades>>
  PROVE  InFlightInv'
BY DEF InFlightInv, InFlightExclusive, Busy, InFlightKeys, TradeKey, CompoundKey

\* A restart empties memory: nobody handles anything and nothing is held.
LEMMA RestartExclusive ==
  ASSUME Restart
  PROVE  InFlightInv'
<1>1. /\ pc' = [c \in Cycles |-> "idle"]
      /\ trade' = [c \in Cycles |-> NoTrade]
      /\ inFlightTrades' = {}
  BY DEF Restart
<1>2. Busy' = {}
  BY <1>1 DEF Busy, ClaimedPC
<1>3. QED
  BY <1>1, <1>2, NoTradeType DEF InFlightInv, InFlightExclusive, PC

\* InFlightInv is inductive.
LEMMA InFlightStep ==
  ASSUME InFlightInv, [Next]_vars
  PROVE  InFlightInv'
<1>1. CASE UNCHANGED vars
  BY <1>1, InFlightUnchanged DEF vars, memory
<1>2. ASSUME NEW c \in Cycles, Handle(c) PROVE InFlightInv'
  BY <1>2, HandleExclusive
<1>3. ASSUME NEW c \in Cycles, Detect(c) PROVE InFlightInv'
  BY <1>3, UnclaimedMoves DEF Detect, At, Goto, memory, ClaimedPC, PC
<1>4. ASSUME Environment PROVE InFlightInv'
  <2>1. CASE Restart
    BY <2>1, RestartExclusive
  <2>2. CASE Tick \/ Start \/ Stop \/ ClearExecutedPositions \/ PruneOldExecutedPositions
    BY <2>2, InFlightUnchanged
    DEF Tick, Start, Stop, ClearExecutedPositions, PruneOldExecutedPositions, memory
  <2>3. CASE ExchangeMoves
    BY <2>3, InFlightUnchanged DEF ExchangeMoves, memory
  <2>4. CASE \E c \in Cycles : ReinitializeCredentials(c)
    BY <2>4, InFlightUnchanged DEF ReinitializeCredentials, memory
  <2>5. QED
    BY <1>4, <2>1, <2>2, <2>3, <2>4 DEF Environment
<1>5. QED
  BY <1>1, <1>2, <1>3, <1>4 DEF Next

\* InFlightInv holds at the start.
LEMMA InFlightInit ==
  ASSUME Init
  PROVE  InFlightInv
<1>1. pc \in [Cycles -> PC] /\ trade \in [Cycles -> Trades]
  BY NoTradeType DEF Init, PC
<1>2. Busy = {}
  BY DEF Init, Busy, ClaimedPC
<1>3. QED
  BY <1>1, <1>2 DEF Init, InFlightInv, InFlightExclusive

\* For any number of overlapping cycles and under every event the model knows,
\* inFlightTrades is exact and two cycles never handle trades that share a key.
THEOREM InFlightSafe == Spec => []InFlightExclusive
<1>1. Init => InFlightInv
  BY InFlightInit
<1>2. InFlightInv /\ [Next]_vars => InFlightInv'
  BY InFlightStep
<1>3. InFlightInv => InFlightExclusive
  BY DEF InFlightInv
<1>4. QED
  BY <1>1, <1>2, <1>3, PTL DEF Spec

-----------------------------------------------------------------------------
(* Type correctness.                                                       *)

\* A record of the ledger, written out.
LEMMA RecordType ==
  ASSUME NEW r \in Records
  PROVE  /\ r.nr \in Keys /\ r.status \in {"executed", "pending"}
         /\ r.at \in Nat /\ r.order \in Nat /\ r.base \in Int
         /\ r.checks \in Nat /\ r.side \in Sides
BY DEF Records, LedgerRecord

\* A new record has the type of a record.
LEMMA NewRecordType ==
  ASSUME NEW nr \in Keys, NEW status \in {"executed", "pending"},
         NEW order \in Nat, NEW at \in Nat, NEW base \in Int, NEW side \in Sides
  PROVE  NewRecord(nr, status, order, at, base, side) \in Records
BY DEF NewRecord, Records, LedgerRecord

\* Every update of the ledger makes a ledger of a ledger.
LEMMA ApplyType ==
  ASSUME NEW L \in SUBSET Records,
         NEW w \in [kind : WriteKind, rec : Records],
         now \in Nat, NEW M \in Apply(w, L)
  PROVE  M \subseteq Records
<1> DEFINE r == w.rec
<1>1. r \in Records /\ w.kind \in WriteKind
  OBVIOUS
<1>2. /\ r.nr \in Keys /\ r.order \in Nat /\ r.base \in Int /\ r.side \in Sides
  BY <1>1, RecordType
<1>3. \A p \in Records : [p EXCEPT !.status = "executed", !.at = now, !.order = r.order] \in Records
  BY <1>2 DEF Records, LedgerRecord
<1>4. \A p \in Records : [p EXCEPT !.at = now, !.order = r.order] \in Records
  BY <1>2 DEF Records, LedgerRecord
<1>5. \A p \in Records : [p EXCEPT !.status = "executed", !.at = now, !.checks = 0] \in Records
  BY DEF Records, LedgerRecord
<1>6. \A p \in Records : [p EXCEPT !.checks = @ + 1] \in Records
  BY DEF Records, LedgerRecord
<1>7. \A p \in Records : [p EXCEPT !.checks = 0] \in Records
  BY DEF Records, LedgerRecord
<1>8. NewRecord(r.nr, "executed", r.order, now, 0, "BUY") \in Records
  BY <1>2, NewRecordType DEF Sides
<1>9. NewRecord(r.nr, "pending", r.order, now, r.base, r.side) \in Records
  BY <1>2, NewRecordType
<1>10. CASE w.kind = "executed"
  <2>1. M \in AddExecutedPosition(L, r.nr, r.order, now)
    BY <1>10 DEF Apply
  <2> DEFINE Promote(p) == [p EXCEPT !.status = "executed", !.at = now, !.order = r.order]
             Refresh(p) == [p EXCEPT !.at = now, !.order = r.order]
  <2>2. \/ \E p \in L : M = (L \ {p}) \union {Promote(p)}
        \/ \E p \in L : M = (L \ {p}) \union {Refresh(p)}
        \/ M = L \union {NewRecord(r.nr, "executed", r.order, now, 0, "BUY")}
    BY <2>1 DEF AddExecutedPosition, RewriteOne, OfKey
  <2>3. \A p \in L : Promote(p) \in Records /\ Refresh(p) \in Records
    BY <1>3, <1>4
  <2> HIDE DEF Promote, Refresh
  <2>4. QED
    BY <2>2, <2>3, <1>8
<1>11. CASE w.kind = "pending"
  BY <1>11, <1>9 DEF Apply, AddPendingPosition, OfOrder
<1>12. CASE w.kind = "mark"
  <2> DEFINE Done(p) == [p EXCEPT !.status = "executed", !.at = now, !.checks = 0]
  <2>1. M = {IF p.order = r.order THEN Done(p) ELSE p : p \in L}
    BY <1>12 DEF Apply, MarkPendingPositionExecuted
  <2>2. \A p \in L : Done(p) \in Records
    BY <1>5
  <2> HIDE DEF Done
  <2>3. QED
    BY <2>1, <2>2
<1>13. CASE w.kind = "remove"
  BY <1>13 DEF Apply, RemovePendingPosition
<1>14. CASE w.kind = "increment"
  BY <1>14, <1>6 DEF Apply, IncrementMissingOrderChecks
<1>15. CASE w.kind = "reset"
  BY <1>15, <1>7 DEF Apply, ResetMissingOrderChecks
<1>16. QED
  BY <1>1, <1>10, <1>11, <1>12, <1>13, <1>14, <1>15 DEF WriteKind

\* What the exchange answers has the type the handler expects.
LEMMA ExchangeAnswers ==
  ASSUME orders \in Seq(Order(Keys, Sides, Trades)), NEW nr, NEW t
  PROVE  PositionSize(nr) \in Int /\ OpenOrders(t) \subseteq Nat
<1>1. DOMAIN orders = 1 .. Len(orders) /\ Len(orders) \in Nat
  OBVIOUS
<1>2. IsFiniteSet(DOMAIN orders)
  BY <1>1, FS_Interval
<1>3. \A side : IsFiniteSet(IndexedOrders(nr, side))
  BY <1>2, FS_Subset DEF IndexedOrders
<1>4. \A side : Cardinality(IndexedOrders(nr, side)) \in Nat
  BY <1>3, FS_CardinalityType
<1>5. QED
  BY <1>1, <1>4, HoldingAssumption DEF PositionSize, OpenOrders

\* An accepted order has the type of an order.
LEMMA PlaceType ==
  ASSUME TypeOK, NEW c \in Cycles, NEW t \in Targets, NEW state \in OrderState,
         Place(c, t, state)
  PROVE  orders' \in Seq(Order(Keys, Sides, Trades))
<1>1. trade[c] \in Trades /\ trade[c].pos \in Positions /\ trade[c].side \in Sides
  BY TradeAssumption DEF TypeOK, TradeType
<1>2. [nr |-> Key(c, t), side |-> trade[c].side, copies |-> trade[c],
       at |-> now, state |-> state] \in Order(Keys, Sides, Trades)
  BY <1>1 DEF Key, Keys, Order, TypeOK
<1>3. QED
  BY <1>2 DEF Place, Accept, TypeOK

\* The processed maps stay maps of their keys.
LEMMA ProcessedType ==
  ASSUME TypeOK, NEW t \in Trades
  PROVE  /\ Prune(processedTrades, TxTTL) \subseteq Entry(TradeKeys)
         /\ Prune(processedCompoundKeys, KeyTTL) \subseteq Entry(CompoundKeys)
         /\ Put(processedTrades, TradeKey(t)) \subseteq Entry(TradeKeys)
         /\ Put(Prune(processedTrades, TxTTL), TradeKey(t)) \subseteq Entry(TradeKeys)
         /\ Put(processedCompoundKeys, CompoundKey(t)) \subseteq Entry(CompoundKeys)
         /\ InFlightKeys(t) \subseteq TradeKeys \union CompoundKeys
BY DEF TypeOK, Prune, Put, Entry, TradeKeys, CompoundKeys, InFlightKeys

\* Moving a cycle, setting its locals and forgetting its trade, typed.
LEMMA MoveType ==
  ASSUME TypeOK, NEW c \in Cycles
  PROVE  /\ \A l \in PC : Goto(c, l) => pc' \in [Cycles -> PC]
         /\ \A j \in JobType : SetJob(c, j) => job' \in [Cycles -> JobType]
         /\ Forget(c) => /\ pc' \in [Cycles -> PC]
                         /\ trade' \in [Cycles -> Trades]
                         /\ job' \in [Cycles -> JobType]
<1>1. NoJob \in JobType
  BY DEF NoJob, JobType
<1>2. QED
  BY <1>1, NoTradeType DEF TypeOK, Goto, SetJob, Forget, PC

\* The start of a ledger update, typed.
LEMMA StartWriteType ==
  ASSUME TypeOK, NEW c \in Cycles, NEW j \in JobType, NEW kind \in WriteKind,
         NEW rec \in Records, StartWrite(c, j, kind, rec)
  PROVE  pc' \in [Cycles -> PC] /\ job' \in [Cycles -> JobType]
<1>1. [j EXCEPT !.write = {[kind |-> kind, rec |-> rec]}] \in JobType
  BY DEF JobType
<1>2. QED
  BY <1>1, MoveType DEF StartWrite, PC, ClaimedPC

\* The steps of the claim and the release.
LEMMA TypeClaim ==
  ASSUME TypeOK, NEW c \in Cycles,
         GateReject(c) \/ DropDuplicate(c) \/ Claim(c) \/ RefuseUnsafe(c)
         \/ Bail(c) \/ Leave(c)
  PROVE  TypeOK'
<1> USE MoveType DEF memory, control
<1>0. trade[c] \in Trades
  BY DEF TypeOK
<1>1. CASE GateReject(c)
  BY <1>1 DEF GateReject, TypeOK
<1>2. CASE DropDuplicate(c)
  BY <1>2, <1>0, ProcessedType DEF DropDuplicate, PruneProcessed, TypeOK
<1>3. CASE Claim(c)
  BY <1>3, <1>0, ProcessedType DEF Claim, PC, ClaimedPC, TypeOK
<1>4. CASE RefuseUnsafe(c)
  BY <1>4, <1>0, ProcessedType DEF RefuseUnsafe, PC, ClaimedPC, TypeOK
<1>5. CASE Bail(c)
  BY <1>5 DEF Bail, PC, ClaimedPC, TypeOK
<1>6. CASE Leave(c)
  BY <1>6 DEF Leave, TypeOK
<1>7. QED
  BY <1>1, <1>2, <1>3, <1>4, <1>5, <1>6

\* The steps of the reconciliation.
LEMMA TypeReconcile ==
  ASSUME TypeOK, NEW c \in Cycles,
         LoadPendingBlocks(c) \/ ProbeBook(c) \/ ProbeSize(c) \/ Decide(c)
         \/ FinishReconcile(c) \/ ConfirmBook(c) \/ ConfirmSize(c)
  PROVE  TypeOK'
<1> USE MoveType DEF memory, control
<1>0. /\ trade[c] \in Trades /\ job[c] \in JobType
      /\ job[c].blocks \subseteq Records /\ job[c].blk \subseteq Records
  BY DEF TypeOK, JobType
<1>1. CASE LoadPendingBlocks(c)
  <2>1. [job[c] EXCEPT !.blocks = PendingBlocks(trade[c])] \in JobType
    BY <1>0 DEF JobType, PendingBlocks, TypeOK
  <2>2. QED
    BY <1>1, <2>1 DEF LoadPendingBlocks, PC, ClaimedPC, TypeOK
<1>2. CASE ProbeBook(c)
  <2>1. OpenOrders(BookProbe) \subseteq Nat
    BY ExchangeAnswers DEF TypeOK
  <2>2. [job[c] EXCEPT !.book = OpenOrders(BookProbe)] \in JobType
    BY <1>0, <2>1 DEF JobType
  <2>3. QED
    BY <1>2, <2>2 DEF ProbeBook, PC, ClaimedPC, TypeOK
<1>3. CASE ProbeSize(c)
  <2> DEFINE size == PositionSize(<<trade[c].pos, SizeProbe>>)
  <2>1. size \in Int
    BY ExchangeAnswers DEF TypeOK
  <2> HIDE DEF size
  <2>2. [job[c] EXCEPT !.size = size] \in JobType
    BY <1>0, <2>1 DEF JobType
  <2>3. QED
    BY <1>3, <2>2 DEF ProbeSize, PC, ClaimedPC, TypeOK, size
<1>4. CASE Decide(c)
  <2>1. PICK p \in job[c].blocks, kind \in WriteKind :
          StartWrite(c, [job[c] EXCEPT !.blocks = @ \ {p}, !.blk = {p},
                                       !.checks = p.checks], kind, p)
    BY <1>4 DEF Decide, WriteFor, WriteKind
  <2>2. p \in Records /\ p.checks \in Nat
    BY <1>0, RecordType
  <2>3. [job[c] EXCEPT !.blocks = @ \ {p}, !.blk = {p}, !.checks = p.checks] \in JobType
    BY <1>0, <2>2 DEF JobType
  <2>4. pc' \in [Cycles -> PC] /\ job' \in [Cycles -> JobType]
    BY <2>1, <2>2, <2>3, StartWriteType
  <2>5. QED
    BY <1>4, <2>4 DEF Decide, TypeOK
<1>5. ASSUME EndReconcile(c) PROVE pc' \in [Cycles -> PC] /\ job' \in [Cycles -> JobType]
  <2>1. NoJob \in JobType
    BY DEF NoJob, JobType
  <2>2. QED
    BY <1>5, <2>1 DEF EndReconcile, PC, ClaimedPC
<1>6. CASE FinishReconcile(c)
  BY <1>5, <1>6 DEF FinishReconcile, TypeOK
<1>7. CASE ConfirmBook(c)
  <2>1. PICK p \in job[c].blk :
          SetJob(c, [job[c] EXCEPT !.open = p.order \in OpenOrders(BookProbe)])
    BY <1>7 DEF ConfirmBook
  <2>2. \A b \in BOOLEAN : [job[c] EXCEPT !.open = b] \in JobType
    BY <1>0 DEF JobType
  <2>3. (p.order \in OpenOrders(BookProbe)) \in BOOLEAN
    OBVIOUS
  <2>4. job' \in [Cycles -> JobType]
    BY <2>1, <2>2, <2>3, Zenon
  <2>5. QED
    BY <1>7, <2>4 DEF ConfirmBook, PC, ClaimedPC, TypeOK
<1>8. CASE ConfirmSize(c)
  <2>1. CASE EndReconcile(c)
    BY <1>5, <1>8, <2>1 DEF ConfirmSize, TypeOK
  <2>2. ASSUME ~EndReconcile(c) PROVE TypeOK'
    <3>1. PICK p \in job[c].blk, kind \in WriteKind :
            StartWrite(c, [job[c] EXCEPT !.open = FALSE], kind, p)
      BY <1>8, <2>2 DEF ConfirmSize, WriteFor, WriteKind
    <3>2. p \in Records /\ [job[c] EXCEPT !.open = FALSE] \in JobType
      BY <1>0 DEF JobType
    <3>3. pc' \in [Cycles -> PC] /\ job' \in [Cycles -> JobType]
      BY <3>1, <3>2, StartWriteType
    <3>4. QED
      BY <1>8, <3>3 DEF ConfirmSize, TypeOK
  <2>3. QED
    BY <2>1, <2>2
<1>9. QED
  BY <1>1, <1>2, <1>3, <1>4, <1>6, <1>7, <1>8

\* The end of an iteration over the targets, typed.
LEMMA NextTargetType ==
  ASSUME TypeOK, NEW c \in Cycles, NextTarget(c, job[c])
  PROVE  pc' \in [Cycles -> PC] /\ job' \in [Cycles -> JobType]
<1>0. job[c] \in JobType
  BY DEF TypeOK
<1>1. \A j \in JobType : [j EXCEPT !.tgt = {}, !.base = 0] \in JobType
  <2> TAKE j \in JobType
  <2>1. [j EXCEPT !.tgt = {}] \in JobType
    BY DEF JobType
  <2>2. \A k \in JobType : [k EXCEPT !.base = 0] \in JobType
    BY DEF JobType
  <2>3. QED
    BY <2>1, <2>2
<1>2. [job[c] EXCEPT !.tgt = {}, !.base = 0, !.write = {}, !.snap = {}] \in JobType
  <2>1. \A j \in JobType : [j EXCEPT !.write = {}, !.snap = {}] \in JobType
    BY DEF JobType
  <2>2. QED
    BY <1>0, <1>1, <2>1
<1>3. QED
  BY <1>2, MoveType DEF NextTarget, PC, ClaimedPC

\* Where the reconciliation goes on after an update, typed.
LEMMA AfterReconcileType ==
  ASSUME TypeOK, NEW c \in Cycles, NEW w, AfterReconcileSave(c, w)
  PROVE  pc' \in [Cycles -> PC] /\ job' \in [Cycles -> JobType]
<1> DEFINE j == [job[c] EXCEPT !.write = {}, !.snap = {}]
<1>0. job[c] \in JobType
  BY DEF TypeOK
<1>1. /\ j \in JobType
      /\ j.checks \in Nat
      /\ NoJob \in JobType
  <2>1. j \in JobType
    BY <1>0 DEF JobType
  <2>2. NoJob \in JobType
    BY DEF JobType, NoJob
  <2> HIDE DEF j
  <2>3. QED
    BY <2>1, <2>2 DEF JobType
<1> HIDE DEF j
<1>2. \A n \in Nat : [j EXCEPT !.checks = n] \in JobType
  BY <1>1 DEF JobType
<1>3. [j EXCEPT !.blk = {}, !.checks = 0] \in JobType
  BY <1>1 DEF JobType
<1>4. CASE w.kind = "reset"
  BY <1>1, <1>4, MoveType DEF AfterReconcileSave, EndReconcile, PC, ClaimedPC
<1>5. CASE w.kind = "increment"
  <2>1. PICK n \in Nat : SetJob(c, [j EXCEPT !.checks = n])
    <3>1. SetJob(c, [j EXCEPT !.checks =
                       IF Saves(w, job[c].snap) THEN j.checks + 1 ELSE j.checks])
      BY <1>5 DEF AfterReconcileSave, j
    <3>2. (IF Saves(w, job[c].snap) THEN j.checks + 1 ELSE j.checks) \in Nat
      BY <1>1
    <3>3. QED
      BY <3>1, <3>2
  <2>2. QED
    BY <1>2, <1>5, <2>1, MoveType DEF AfterReconcileSave, PC, ClaimedPC
<1>6. CASE w.kind \notin {"reset", "increment"}
  BY <1>3, <1>6, MoveType DEF AfterReconcileSave, PC, ClaimedPC, j
<1>7. QED
  BY <1>4, <1>5, <1>6

\* The steps from the rate limit to the order.
LEMMA TypeLoop ==
  ASSUME TypeOK, NEW c \in Cycles,
         CheckLimits(c) \/ StartLoop(c) \/ FinishLoop(c) \/ SkipTarget(c)
         \/ TakeTarget(c) \/ SkipSell(c) \/ CheckOwned(c) \/ TakeBaseline(c)
  PROVE  TypeOK'
<1> USE MoveType DEF memory, control
<1>0. /\ trade[c] \in Trades /\ job[c] \in JobType
      /\ trade[c].wallet \in Wallets /\ trade[c].pos \in Positions
      /\ job[c].todo \subseteq Targets /\ job[c].tgt \subseteq Targets
  BY TradeAssumption DEF TypeOK, JobType, TradeType
<1>1. CASE CheckLimits(c)
  <2> DEFINE s == [v \in Windows |->
                     Refreshed(perWalletRateLimits[trade[c].wallet][v], WindowLength[v])]
  <2>1. s \in [Windows -> [count : Nat, start : Nat \union {-1}]]
    BY <1>0 DEF Refreshed, TypeOK
  <2> HIDE DEF s
  <2>2. perWalletRateLimits' \in
          [Wallets -> [Windows -> [count : Nat, start : Nat \union {-1}]]]
    BY <1>1, <2>1 DEF CheckLimits, TypeOK, s
  <2>3. pc' \in [Cycles -> PC]
    BY <1>1 DEF CheckLimits, PC, ClaimedPC
  <2>4. QED
    BY <1>1, <2>2, <2>3 DEF CheckLimits, TypeOK
<1>2. CASE StartLoop(c)
  <2>1. [job[c] EXCEPT !.todo = TargetsOf[trade[c].wallet]] \in JobType
    BY <1>0, TradeAssumption DEF JobType
  <2>2. QED
    BY <1>2, <2>1 DEF StartLoop, PC, ClaimedPC, TypeOK
<1>3. CASE FinishLoop(c)
  BY <1>3 DEF FinishLoop, PC, ClaimedPC, TypeOK
<1>4. CASE SkipTarget(c)
  <2>1. \A t \in job[c].todo : [job[c] EXCEPT !.todo = @ \ {t}] \in JobType
    BY <1>0 DEF JobType
  <2>2. QED
    BY <1>4, <2>1 DEF SkipTarget, TypeOK
<1>5. CASE TakeTarget(c)
  <2>1. \A t \in job[c].todo : [job[c] EXCEPT !.todo = @ \ {t}, !.tgt = {t}] \in JobType
    BY <1>0 DEF JobType
  <2>2. QED
    BY <1>5, <2>1 DEF TakeTarget, PC, ClaimedPC, TypeOK
<1>6. CASE SkipSell(c)
  BY <1>0, <1>6, NextTargetType DEF SkipSell, TypeOK
<1>7. CASE CheckOwned(c)
  BY <1>7 DEF CheckOwned, PC, ClaimedPC, TypeOK
<1>8. CASE TakeBaseline(c)
  <2>1. PICK t \in job[c].tgt :
          SetJob(c, [job[c] EXCEPT !.base = PositionSize(Key(c, t))])
    BY <1>8 DEF TakeBaseline
  <2>2. PositionSize(Key(c, t)) \in Int
    BY ExchangeAnswers DEF TypeOK
  <2>3. [job[c] EXCEPT !.base = PositionSize(Key(c, t))] \in JobType
    BY <1>0, <2>2 DEF JobType
  <2>4. QED
    BY <1>8, <2>1, <2>3 DEF TakeBaseline, PC, ClaimedPC, TypeOK
<1>9. QED
  BY <1>1, <1>2, <1>3, <1>4, <1>5, <1>6, <1>7, <1>8

\* The order and the ledger updates.
LEMMA TypeExecute ==
  ASSUME TypeOK, NEW c \in Cycles,
         ExecuteTrade(c) \/ ExecuteFails(c) \/ LoadLedger(c)
         \/ SaveLedger(c) \/ SaveFails(c)
  PROVE  TypeOK'
<1> USE MoveType DEF memory, control
<1>0. /\ trade[c] \in Trades /\ job[c] \in JobType
      /\ trade[c].wallet \in Wallets /\ trade[c].pos \in Positions
      /\ trade[c].side \in Sides
      /\ job[c].tgt \subseteq Targets /\ job[c].snap \subseteq Records
      /\ job[c].write \subseteq [kind : WriteKind, rec : Records]
      /\ job[c].base \in Int
  BY TradeAssumption DEF TypeOK, JobType, TradeType
<1>1. "live" \in OrderState /\ Matched \in OrderState
  BY DEF OrderState, Matched
<1>2. CASE ExecuteTrade(c)
  <2>1. PICK t \in job[c].tgt, state \in OrderState, kind \in {"executed", "pending"} :
          /\ Place(c, t, state)
          /\ StartWrite(c, job[c], kind,
               NewRecord(Key(c, t), kind, Len(orders) + 1, now,
                         job[c].base, trade[c].side))
    BY <1>1, <1>2 DEF ExecuteTrade
  <2>2. orders' \in Seq(Order(Keys, Sides, Trades))
    BY <1>0, <2>1, PlaceType
  <2>3. Key(c, t) \in Keys
    BY <1>0 DEF Key, Keys
  <2>4. Len(orders) + 1 \in Nat
    BY DEF TypeOK
  <2>5. NewRecord(Key(c, t), kind, Len(orders) + 1, now, job[c].base, trade[c].side)
          \in Records
    BY <1>0, <2>3, <2>4, NewRecordType DEF TypeOK
  <2>6. pc' \in [Cycles -> PC] /\ job' \in [Cycles -> JobType]
    BY <1>0, <2>1, <2>5, StartWriteType DEF WriteKind
  <2>7. QED
    BY <1>2, <2>2, <2>6 DEF ExecuteTrade, TypeOK
<1>3. CASE ExecuteFails(c)
  <2>1. orders' \in Seq(Order(Keys, Sides, Trades))
    BY <1>0, <1>1, <1>3, PlaceType DEF ExecuteFails, TypeOK
  <2>2. QED
    BY <1>0, <1>3, <2>1, ProcessedType, NextTargetType DEF ExecuteFails, MarkProcessed, TypeOK
<1>4. CASE LoadLedger(c)
  <2>1. [job[c] EXCEPT !.snap = ledger] \in JobType
    BY <1>0 DEF JobType, TypeOK
  <2>2. QED
    BY <1>4, <2>1 DEF LoadLedger, PC, ClaimedPC, TypeOK
<1>5. CASE SaveLedger(c)
  <2>1. PICK w \in job[c].write :
          /\ IF Saves(w, job[c].snap)
               THEN ledger' \in Apply(w, job[c].snap) ELSE UNCHANGED ledger
          /\ IF w.kind \in {"executed", "pending"}
               THEN /\ MarkProcessed(trade[c])
                    /\ IF w.kind = "executed" THEN CountFill(trade[c])
                       ELSE UNCHANGED perWalletRateLimits
                    /\ NextTarget(c, job[c])
               ELSE /\ AfterReconcileSave(c, w)
                    /\ UNCHANGED <<processedTrades, processedCompoundKeys,
                                   perWalletRateLimits>>
    BY <1>5 DEF SaveLedger
  <2>2. ledger' \subseteq Records
    BY <1>0, <2>1, ApplyType DEF TypeOK
  <2>3. CountFill(trade[c]) => perWalletRateLimits' \in
          [Wallets -> [Windows -> [count : Nat, start : Nat \union {-1}]]]
    <3>1. OneMore(trade[c].wallet) \in [Windows -> [count : Nat, start : Nat \union {-1}]]
      BY <1>0 DEF OneMore, TypeOK
    <3>2. QED
      BY <3>1 DEF CountFill, TypeOK
  <2>4. AfterReconcileSave(c, w) =>
          pc' \in [Cycles -> PC] /\ job' \in [Cycles -> JobType]
    BY <1>0, AfterReconcileType
  <2>5. CASE w.kind \in {"executed", "pending"}
    BY <1>0, <1>5, <2>1, <2>2, <2>3, <2>5, ProcessedType, NextTargetType
    DEF SaveLedger, MarkProcessed, TypeOK
  <2>6. CASE w.kind \notin {"executed", "pending"}
    BY <1>5, <2>1, <2>2, <2>4, <2>6 DEF SaveLedger, TypeOK
  <2>7. QED
    BY <2>5, <2>6
<1>6. CASE SaveFails(c)
  <2>1. \A w \in job[c].write : w.rec.nr \in Keys
    BY <1>0, RecordType
  <2>2. noRepeatPersistenceBlockedKeys' \subseteq Keys
    BY <1>6, <2>1 DEF SaveFails, TypeOK
  <2>3. QED
    BY <1>6, <2>2 DEF SaveFails, PC, ClaimedPC, TypeOK
<1>7. QED
  BY <1>2, <1>3, <1>4, <1>5, <1>6

\* The environment: time, the operator, the exchange, crashes.
LEMMA TypeEnvironment ==
  ASSUME TypeOK, Environment
  PROVE  TypeOK'
<1> USE DEF memory, control
<1>1. CASE Tick
  BY <1>1 DEF Tick, TypeOK
<1>2. CASE Start \/ Stop
  BY <1>2 DEF Start, Stop, TypeOK
<1>3. CASE Restart
  <2>1. NoJob \in JobType
    BY DEF NoJob, JobType
  <2>2. ledger' \subseteq Records
    BY <1>3 DEF Restart, CleanupExpiredPositions, TypeOK
  <2>3. QED
    BY <1>3, <2>1, <2>2, NoTradeType, CycleAssumption DEF Restart, TypeOK, Unset, PC
<1>4. CASE ExchangeMoves
  <2>1. PICK i \in DOMAIN orders, state \in OrderState :
          orders' = [orders EXCEPT ![i].state = state]
    BY <1>4 DEF ExchangeMoves, ExchangeStep, Match, Index, Cancel, Become, Matched, OrderState
  <2>2. /\ orders \in [1 .. Len(orders) -> Order(Keys, Sides, Trades)]
        /\ DOMAIN orders = 1 .. Len(orders) /\ Len(orders) \in Nat
    BY DEF TypeOK
  <2>3. [orders[i] EXCEPT !.state = state] \in Order(Keys, Sides, Trades)
    BY <2>2 DEF Order
  <2>4. orders' \in [1 .. Len(orders) -> Order(Keys, Sides, Trades)]
    BY <2>1, <2>2, <2>3
  <2>5. orders' \in Seq(Order(Keys, Sides, Trades))
    BY <2>2, <2>4
  <2>6. QED
    BY <1>4, <2>5 DEF ExchangeMoves, TypeOK
<1>5. CASE ClearExecutedPositions
  BY <1>5 DEF ClearExecutedPositions, TypeOK
<1>6. CASE PruneOldExecutedPositions
  BY <1>6 DEF PruneOldExecutedPositions, TypeOK
<1>7. CASE \E c \in Cycles : ReinitializeCredentials(c)
  BY <1>7 DEF ReinitializeCredentials, TypeOK
<1>8. QED
  BY <1>1, <1>2, <1>3, <1>4, <1>5, <1>6, <1>7 DEF Environment

\* TypeOK is inductive.
LEMMA TypeStep ==
  ASSUME TypeOK, [Next]_vars
  PROVE  TypeOK'
<1>1. CASE UNCHANGED vars
  BY <1>1 DEF vars, memory, control, TypeOK
<1>2. ASSUME NEW c \in Cycles, Handle(c) PROVE TypeOK'
  BY <1>2, TypeClaim, TypeReconcile, TypeLoop, TypeExecute DEF Handle
<1>3. ASSUME NEW c \in Cycles, Detect(c) PROVE TypeOK'
  BY <1>3 DEF Detect, Goto, PC, memory, control, TypeOK
<1>4. QED
  BY <1>1, <1>2, <1>3, TypeEnvironment DEF Next

\* TypeOK holds at the start.
LEMMA TypeInit ==
  ASSUME Init
  PROVE  TypeOK
<1>1. NoJob \in JobType
  BY DEF NoJob, JobType
<1>2. orders \in Seq(Order(Keys, Sides, Trades))
  BY DEF Init, ExchangeInit
<1>3. Unset \in [count : Nat, start : Nat \union {-1}]
  BY DEF Unset
<1>4. QED
  BY <1>1, <1>2, <1>3, NoTradeType, CycleAssumption DEF Init, TypeOK, PC

\* Every variable keeps its type, whatever the values of the constants.
THEOREM TypeCorrect == Spec => []TypeOK
<1>1. Init => TypeOK
  BY TypeInit
<1>2. TypeOK /\ [Next]_vars => TypeOK'
  BY TypeStep
<1>3. QED
  BY <1>1, <1>2, PTL DEF Spec

-----------------------------------------------------------------------------
(* TxCopiedOnce, as long as the process keeps its memory and every ledger  *)
(* update succeeds.  Lost answers, overlapping cycles, a cleared or pruned *)
(* ledger and both storage backends are included: the proof never looks at *)
(* the ledger.                                                             *)

\* No event after which the handler forgets a transaction hash too early.
MemoryKept == "crash" \notin Events /\ "save" \notin Events

\* The inductive invariant.
OnceInv == TypeOK /\ InFlightInv /\ TxMemory /\ TxCopiedOnce

-----------------------------------------------------------------------------

\* What the map of hashes may lose: entries older than TxTTL, and entries
\* replaced by one of the same hash put now.
HashesKept ==
  \A e \in processedTrades :
    \/ now - e.at > TxTTL
    \/ \E f \in processedTrades' : f.key = e.key /\ f.at \in {e.at, now}

\* The hash of every order that c was recording is in the map, or c still is.
HandedOver(c) ==
  Recording(c) =>
    \/ Recording(c)' /\ c \in Busy' /\ trade'[c] = trade[c]
    \/ \E f \in processedTrades' : f.key = TradeKey(trade[c]) /\ f.at = now

\* What the other cycles hold does not change.
OthersKept(c) ==
  \A d \in Cycles \ {c} :
    pc'[d] = pc[d] /\ trade'[d] = trade[d] /\ job'[d] = job[d]

\* The numbers that the ages are computed from.
LEMMA AgeTypes ==
  ASSUME TypeOK
  PROVE  /\ now \in Nat /\ TxTTL \in Nat
         /\ \A i \in DOMAIN orders : orders[i].at \in Nat
         /\ \A e \in processedTrades : e.at \in Nat
<1>1. \A i \in DOMAIN orders : orders[i] \in Order(Keys, Sides, Trades)
  BY DEF TypeOK
<1>2. QED
  BY <1>1, BoundAssumption DEF TypeOK, Order, Entry

\* The formulas about another cycle do not change with a step of c.
LEMMA OtherCycle ==
  ASSUME NEW c \in Cycles, OthersKept(c), NEW d \in Cycles \ {c}
  PROVE  /\ pc'[d] = pc[d] /\ trade'[d] = trade[d] /\ job'[d] = job[d]
         /\ (d \in Busy)' <=> d \in Busy
         /\ Recording(d)' <=> Recording(d)
         /\ BeforeLoop(d)' <=> BeforeLoop(d)
         /\ OnTarget(d)' <=> OnTarget(d)
         /\ OpenTargets(d)' = OpenTargets(d)
         /\ \A t : Key(d, t)' = Key(d, t)
<1>1. pc'[d] = pc[d] /\ trade'[d] = trade[d] /\ job'[d] = job[d]
  BY DEF OthersKept
<1>2. Recording(d)' <=> Recording(d)
  BY <1>1 DEF Recording
<1>3. (d \in Busy)' <=> d \in Busy
  BY <1>1 DEF Busy
<1>4. (BeforeLoop(d)' <=> BeforeLoop(d)) /\ (OnTarget(d)' <=> OnTarget(d))
  BY <1>1, <1>2 DEF BeforeLoop, OnTarget
<1>5. OpenTargets(d)' = OpenTargets(d)
  BY <1>1, <1>4 DEF OpenTargets
<1>6. \A t : Key(d, t)' = Key(d, t)
  BY <1>1 DEF Key
<1>7. QED
  BY <1>1, <1>2, <1>3, <1>4, <1>5, <1>6

\* An order remembered before a step of c is remembered after it.
LEMMA StillRemembered ==
  ASSUME OnceInv, NEW c \in Cycles, OthersKept(c), now' = now,
         HashesKept, HandedOver(c),
         NEW i \in DOMAIN orders, i \in DOMAIN orders', orders'[i] = orders[i]
  PROVE  Remembered(i)'
<1>0. /\ now \in Nat /\ orders[i].at \in Nat /\ TxTTL \in Nat
      /\ \A e \in processedTrades : e.at \in Nat
      /\ orders[i].at <= now
  BY AgeTypes DEF OnceInv, TxMemory
<1>1. CASE Old(i)
  BY <1>1 DEF Remembered, Old
<1>2. CASE \E e \in processedTrades :
             e.key = TradeKey(orders[i].copies) /\ e.at >= orders[i].at
  <2>1. PICK e \in processedTrades :
          e.key = TradeKey(orders[i].copies) /\ e.at >= orders[i].at
    BY <1>2
  <2>2. CASE now - e.at > TxTTL
    <3>1. Old(i)
      BY <1>0, <2>1, <2>2 DEF Old
    <3>2. QED
      BY <3>1, <1>1
  <2>3. CASE \E f \in processedTrades' : f.key = e.key /\ f.at \in {e.at, now}
    <3>1. PICK f \in processedTrades' : f.key = e.key /\ f.at \in {e.at, now}
      BY <2>3
    <3>2. f.at >= orders[i].at
      BY <1>0, <2>1, <3>1
    <3>3. QED
      BY <2>1, <3>1, <3>2 DEF Remembered, TradeKey
  <2>4. QED
    BY <2>2, <2>3 DEF HashesKept
<1>3. CASE \E d \in Busy : SameTx(i, d) /\ Recording(d)
  <2>1. PICK d \in Busy : SameTx(i, d) /\ Recording(d)
    BY <1>3
  <2>2. CASE d # c
    <3>1. d \in Cycles \ {c}
      BY <2>2 DEF Busy
    <3>2. (d \in Busy)' /\ Recording(d)' /\ trade'[d] = trade[d]
      BY <2>1, <3>1, OtherCycle
    <3>3. QED
      BY <2>1, <3>2 DEF Remembered, SameTx
  <2>3. CASE d = c /\ Recording(c)' /\ c \in Busy' /\ trade'[c] = trade[c]
    BY <2>1, <2>3 DEF Remembered, SameTx
  <2>4. CASE d = c /\ \E f \in processedTrades' :
                        f.key = TradeKey(trade[c]) /\ f.at = now
    <3>1. PICK f \in processedTrades' : f.key = TradeKey(trade[c]) /\ f.at = now
      BY <2>4
    <3>2. f.key = TradeKey(orders'[i].copies) /\ f.at >= orders'[i].at
      BY <1>0, <2>1, <2>4, <3>1 DEF SameTx, TradeKey
    <3>3. QED
      BY <3>1, <3>2 DEF Remembered, TradeKey
  <2>5. QED
    BY <2>1, <2>2, <2>3, <2>4 DEF HandedOver
<1>4. QED
  BY <1>1, <1>2, <1>3 DEF OnceInv, TxMemory, Remembered

\* A step of c that places no order keeps the memory, if it keeps its own.
LEMMA MemoryFrame ==
  ASSUME OnceInv, NEW c \in Cycles, OthersKept(c), UNCHANGED <<now, orders>>,
         HashesKept, HandedOver(c), CycleMemory(c)'
  PROVE  TxMemory' /\ TxCopiedOnce'
<1>1. \A i \in DOMAIN orders : Remembered(i)'
  BY StillRemembered
<1>2. ASSUME NEW d \in Cycles \ {c} PROVE CycleMemory(d)'
  <2>1. CycleMemory(d)
    BY DEF OnceInv, TxMemory
  <2>2. \A i : (SameTx(i, d)' <=> SameTx(i, d)) /\ (Old(i)' <=> Old(i))
    BY OtherCycle DEF SameTx, Old
  <2>3. QED
    BY <2>1, <2>2, OtherCycle DEF CycleMemory
<1>3. TxCopiedOnce'
  BY DEF OnceInv, TxCopiedOnce
<1>4. QED
  BY <1>1, <1>2, <1>3 DEF OnceInv, TxMemory

-----------------------------------------------------------------------------
(* What a cycle must keep, by the part of the handler it is in.            *)

\* A cycle that is about to return may place no more orders.
LEMMA Returning ==
  ASSUME NEW c \in Cycles, pc'[c] \in {"idle", "entered", "leaving"}
  PROVE  CycleMemory(c)'
BY DEF CycleMemory, BeforeLoop, OnTarget, Recording

\* Before the loop every order of the same hash is old, and stays so.
LEMMA BeforeLoopMoves ==
  ASSUME OnceInv, NEW c \in Cycles, UNCHANGED <<now, orders, trade>>,
         c \in Busy, BeforeLoop(c), BeforeLoop(c)' \/ pc'[c] = "looping",
         pc'[c] \in {"load", "save"} =>
           \E w \in job'[c].write : job'[c].write = {w}
  PROVE  CycleMemory(c)'
<1>1. CycleMemory(c)
  BY DEF OnceInv, TxMemory
<1>2. \A i \in DOMAIN orders : SameTx(i, c) => Old(i)
  BY <1>1 DEF CycleMemory
<1>3. \A i \in DOMAIN orders' : SameTx(i, c)' => Old(i)'
  BY <1>2 DEF SameTx, Old
<1>4. ~OnTarget(c)'
  BY DEF BeforeLoop, OnTarget
<1>5. QED
  BY <1>3, <1>4 DEF CycleMemory

\* In the loop, the targets still open only become fewer.
LEMMA LoopMoves ==
  ASSUME OnceInv, NEW c \in Cycles, UNCHANGED <<now, orders, trade>>,
         c \in Busy, pc[c] = "looping" \/ OnTarget(c) \/ Recording(c),
         ~BeforeLoop(c)', OpenTargets(c)' \subseteq OpenTargets(c),
         OnTarget(c)' => job'[c].todo \intersect job'[c].tgt = {},
         pc'[c] \in {"load", "save"} =>
           \E w \in job'[c].write : job'[c].write = {w}
  PROVE  CycleMemory(c)'
<1>1. CycleMemory(c)
  BY DEF OnceInv, TxMemory
<1>2. \A i \in DOMAIN orders : SameTx(i, c) =>
        \A t \in OpenTargets(c) : orders[i].nr = Key(c, t) => Old(i)
  BY <1>1 DEF CycleMemory
<1>3. \A i : (SameTx(i, c)' <=> SameTx(i, c)) /\ (Old(i)' <=> Old(i))
  BY DEF SameTx, Old
<1>4. \A t : Key(c, t)' = Key(c, t)
  BY DEF Key
<1>5. QED
  BY <1>2, <1>3, <1>4 DEF CycleMemory

-----------------------------------------------------------------------------
(* The steps that place no order.                                          *)

\* The rest of the frame when the map of hashes does not change either.
LEMMA QuietStep ==
  ASSUME OnceInv, NEW c \in Cycles, OthersKept(c),
         UNCHANGED <<now, orders, processedTrades>>,
         ~Recording(c), CycleMemory(c)'
  PROVE  TxMemory' /\ TxCopiedOnce'
<1>1. HashesKept /\ HandedOver(c)
  BY DEF HashesKept, HandedOver
<1>2. QED
  BY <1>1, MemoryFrame

\* Pruning drops only hashes older than TxTTL.
LEMMA PruneKeeps ==
  ASSUME processedTrades' = Prune(processedTrades, TxTTL), TypeOK
  PROVE  HashesKept
<1>1. \A e \in processedTrades : now - e.at <= TxTTL \/ now - e.at > TxTTL
  BY AgeTypes
<1>2. QED
  BY <1>1 DEF HashesKept, Prune

\* Putting a hash replaces the entries of that hash by one put now.
LEMMA PutKeeps ==
  ASSUME NEW k, processedTrades' = Put(processedTrades, k)
  PROVE  /\ HashesKept
         /\ \E f \in processedTrades' : f.key = k /\ f.at = now
<1> DEFINE n == [key |-> k, at |-> now]
<1>1. n \in processedTrades' /\ n.key = k /\ n.at = now
  BY DEF Put
<1>2. \A e \in processedTrades : e.key # k => e \in processedTrades'
  BY DEF Put
<1> HIDE DEF n
<1>3. HashesKept
  BY <1>1, <1>2 DEF HashesKept
<1>4. QED
  BY <1>1, <1>3

\* The update that StartWrite leaves under way.
LEMMA StartedWrite ==
  ASSUME TypeOK, NEW c \in Cycles, NEW j \in JobType, NEW kind, NEW rec,
         StartWrite(c, j, kind, rec)
  PROVE  /\ pc'[c] = "load"
         /\ job'[c].write = {[kind |-> kind, rec |-> rec]}
         /\ job'[c].todo = j.todo
<1>1. /\ pc' = [pc EXCEPT ![c] = "load"]
      /\ job' = [job EXCEPT ![c] =
                  [j EXCEPT !.write = {[kind |-> kind, rec |-> rec]}]]
  BY DEF StartWrite, SetJob, Goto
<1>2. QED
  BY <1>1 DEF TypeOK, JobType

\* The steps that return, or that call the handler.
LEMMA MemoryReturn ==
  ASSUME OnceInv, NEW c \in Cycles,
         \/ Detect(c) \/ GateReject(c) \/ DropDuplicate(c) \/ RefuseUnsafe(c)
         \/ Bail(c) \/ Leave(c) \/ FinishLoop(c)
  PROVE  TxMemory' /\ TxCopiedOnce'
<1> USE DEF Goto, SetJob, At, Forget, memory, control
<1>0. TypeOK
  BY DEF OnceInv
<1>1. OthersKept(c) /\ UNCHANGED <<now, orders>>
  BY <1>0 DEF OthersKept, TypeOK, Detect, GateReject, DropDuplicate,
       RefuseUnsafe, Bail, Leave, FinishLoop
<1>2. pc'[c] \in {"idle", "entered", "leaving"}
  BY <1>0 DEF TypeOK, Detect, GateReject, DropDuplicate, RefuseUnsafe, Bail,
       Leave, FinishLoop
<1>3. ~Recording(c)
  BY DEF Recording, Detect, GateReject, DropDuplicate, RefuseUnsafe, Bail,
       Leave, FinishLoop
<1>4. CycleMemory(c)'
  BY <1>2, Returning
<1>5. CASE DropDuplicate(c)
  <2>1. HashesKept
    BY <1>0, <1>5, PruneKeeps DEF DropDuplicate, PruneProcessed
  <2>2. HandedOver(c)
    BY <1>3 DEF HandedOver
  <2>3. QED
    BY <1>1, <1>4, <2>1, <2>2, MemoryFrame
<1>6. CASE ~DropDuplicate(c)
  <2>1. UNCHANGED processedTrades
    BY <1>6 DEF Detect, GateReject, RefuseUnsafe, Bail, Leave, FinishLoop
  <2>2. QED
    BY <1>1, <1>3, <1>4, <2>1, QuietStep
<1>7. QED
  BY <1>5, <1>6

\* Whoever claims a trade finds every order of its hash old: a younger one is
\* in the map of hashes, or another cycle holds the hash while it records it.
LEMMA MemoryClaim ==
  ASSUME OnceInv, NEW c \in Cycles, Claim(c)
  PROVE  TxMemory' /\ TxCopiedOnce'
<1> USE DEF Goto, At, control
<1> DEFINE k == TradeKey(trade[c])
           P == Prune(processedTrades, TxTTL)
<1>0. TypeOK /\ TxMemory /\ InFlightExclusive
  BY DEF OnceInv, InFlightInv
<1>1. OthersKept(c) /\ UNCHANGED <<now, orders, trade>>
  BY <1>0 DEF Claim, OthersKept, TypeOK
<1>2. pc[c] = "entered" /\ pc'[c] = "claimed"
  BY <1>0 DEF Claim, TypeOK
<1>3. ~Has(P, k) /\ k \notin inFlightTrades /\ processedTrades' = Put(P, k)
  BY DEF Claim, IsDuplicate
<1>4. HashesKept
  <2>1. \A e \in processedTrades : now - e.at <= TxTTL \/ now - e.at > TxTTL
    BY <1>0, AgeTypes
  <2>2. \A e \in P : e.key # k
    BY <1>3 DEF Has
  <2>3. P \subseteq processedTrades'
    BY <1>3, <2>2 DEF Put
  <2>4. QED
    BY <2>1, <2>3 DEF HashesKept, Prune
<1>5. HandedOver(c)
  BY <1>2 DEF HandedOver, Recording
<1>6. ASSUME NEW i \in DOMAIN orders, SameTx(i, c) PROVE Old(i)
  <2>0. TradeKey(orders[i].copies) = k
    BY <1>6 DEF SameTx, TradeKey
  <2>1. ASSUME NEW e \in processedTrades, e.key = k, e.at >= orders[i].at
        PROVE  Old(i)
    <3>1. e \notin P
      BY <1>3, <2>1 DEF Has
    <3>2. /\ now \in Nat /\ TxTTL \in Nat
          /\ orders[i].at \in Nat /\ e.at \in Nat
      BY <1>0, AgeTypes
    <3>3. now - e.at > TxTTL
      BY <3>1, <3>2 DEF Prune
    <3>4. QED
      BY <2>1, <3>2, <3>3 DEF Old
  <2>2. ASSUME NEW d \in Busy, SameTx(i, d) PROVE FALSE
    <3>1. TradeKey(trade[d]) = k
      BY <1>6, <2>2 DEF SameTx, TradeKey
    <3>2. k \in inFlightTrades
      BY <1>0, <3>1 DEF InFlightExclusive, InFlightKeys
    <3>3. QED
      BY <1>3, <3>2
  <2>3. QED
    BY <1>0, <2>0, <2>1, <2>2 DEF TxMemory, Remembered
<1>7. \A i \in DOMAIN orders' : SameTx(i, c)' => Old(i)'
  BY <1>1, <1>6 DEF SameTx, Old
<1>8. CycleMemory(c)'
  BY <1>2, <1>7 DEF CycleMemory, OnTarget, Recording
<1>9. QED
  BY <1>1, <1>4, <1>5, <1>8, MemoryFrame

\* The reconciliation, the rate limit and the start of the loop.
LEMMA MemoryReconcile ==
  ASSUME OnceInv, NEW c \in Cycles,
         \/ LoadPendingBlocks(c) \/ ProbeBook(c) \/ ProbeSize(c) \/ Decide(c)
         \/ FinishReconcile(c) \/ ConfirmBook(c) \/ ConfirmSize(c)
         \/ CheckLimits(c) \/ StartLoop(c)
  PROVE  TxMemory' /\ TxCopiedOnce'
<1> USE DEF At, memory, control
<1>0. TypeOK
  BY DEF OnceInv
<1>1. OthersKept(c) /\ UNCHANGED <<now, orders, trade, processedTrades>>
  BY <1>0 DEF Goto, SetJob, EndReconcile, StartWrite, OthersKept, TypeOK, LoadPendingBlocks, ProbeBook, ProbeSize,
       Decide, FinishReconcile, ConfirmBook, ConfirmSize, CheckLimits, StartLoop
<1>2. c \in Busy /\ BeforeLoop(c) /\ ~Recording(c)
  BY DEF Busy, ClaimedPC, BeforeLoop, Recording, LoadPendingBlocks, ProbeBook,
       ProbeSize, Decide, FinishReconcile, ConfirmBook, ConfirmSize,
       CheckLimits, StartLoop
<1>3. CASE Decide(c) \/ ConfirmSize(c)
  <2>1. \/ pc'[c] = "limits"
        \/ pc'[c] = "load" /\ \E decision, p :
             job'[c].write = {[kind |-> WriteFor(decision), rec |-> p]}
    <3>1. CASE Decide(c)
      <4>1. PICK p, decision :
              /\ p \in job[c].blocks
              /\ StartWrite(c, [job[c] EXCEPT !.blocks = @ \ {p}, !.blk = {p},
                                              !.checks = p.checks],
                            WriteFor(decision), p)
        BY <3>1 DEF Decide, DecidePendingOrder
      <4>2. p \in Records /\ p.checks \in Nat
        BY <1>0, <4>1, RecordType DEF TypeOK, JobType
      <4>3. job[c] \in JobType
        BY <1>0 DEF TypeOK
      <4>4. [job[c] EXCEPT !.blocks = @ \ {p}, !.blk = {p},
                           !.checks = p.checks] \in JobType
        BY <4>2, <4>3 DEF JobType
      <4> DEFINE j == [job[c] EXCEPT !.blocks = @ \ {p}, !.blk = {p},
                                     !.checks = p.checks]
                 kind == WriteFor(decision)
      <4>5. StartWrite(c, j, kind, p) /\ j \in JobType
        BY <4>1, <4>4
      <4> HIDE DEF j
      <4>6. pc'[c] = "load" /\ job'[c].write = {[kind |-> kind, rec |-> p]}
        BY <1>0, <4>5, StartedWrite
      <4>7. QED
        BY <4>6
    <3>2. CASE ConfirmSize(c) /\ ~EndReconcile(c)
      <4>1. PICK p, decision :
              /\ p \in job[c].blk
              /\ StartWrite(c, [job[c] EXCEPT !.open = FALSE],
                            WriteFor(decision), p)
        BY <3>2 DEF ConfirmSize
      <4>2. [job[c] EXCEPT !.open = FALSE] \in JobType
        BY ZenonT(30), <1>0 DEF TypeOK, JobType
      <4>3. QED
        BY <1>0, <4>1, <4>2, StartedWrite
    <3>3. CASE ConfirmSize(c) /\ EndReconcile(c)
      BY <1>0, <3>3 DEF EndReconcile, Goto, TypeOK
    <3>4. QED
      BY <1>3, <3>1, <3>2, <3>3
  <2>2. \A decision : WriteFor(decision) \notin {"executed", "pending"}
    BY DEF WriteFor
  <2>3. BeforeLoop(c)'
    BY <2>1, <2>2 DEF BeforeLoop, Recording
  <2>4. pc'[c] \in {"load", "save"} =>
          \E w \in job'[c].write : job'[c].write = {w}
    BY <2>1
  <2>5. CycleMemory(c)'
    BY <1>1, <1>2, <2>3, <2>4, BeforeLoopMoves
  <2>6. QED
    BY <1>1, <1>2, <2>5, QuietStep
<1>4. CASE ~(Decide(c) \/ ConfirmSize(c))
  <2>1. pc'[c] \in {"limits", "probeBook", "probeSize", "deciding",
                    "confirmSize", "leaving", "sizing", "looping"}
    BY <1>0, <1>4 DEF TypeOK, Goto, EndReconcile, LoadPendingBlocks, ProbeBook, ProbeSize,
         FinishReconcile, ConfirmBook, CheckLimits, StartLoop
  <2>2. CASE pc'[c] = "leaving"
    BY <1>1, <1>2, <2>2, Returning, QuietStep
  <2>3. CASE pc'[c] # "leaving"
    <3>1. BeforeLoop(c)' \/ pc'[c] = "looping"
      BY <2>1, <2>3 DEF BeforeLoop
    <3>2. CycleMemory(c)'
      BY <1>1, <1>2, <2>1, <3>1, BeforeLoopMoves
    <3>3. QED
      BY <1>1, <1>2, <3>2, QuietStep
  <2>4. QED
    BY <2>2, <2>3
<1>5. QED
  BY <1>3, <1>4

\* The end of an iteration: the target is closed, the others stay open.
LEMMA NextTargetOpen ==
  ASSUME TypeOK, NEW c \in Cycles, NextTarget(c, job[c])
  PROVE  /\ pc'[c] = "looping" /\ OpenTargets(c)' = job[c].todo
         /\ \A d \in Cycles \ {c} : pc'[d] = pc[d] /\ job'[d] = job[d]
<1>1. /\ job[c] \in JobType
      /\ pc' = [pc EXCEPT ![c] = "looping"]
      /\ job' = [job EXCEPT ![c] = [job[c] EXCEPT !.tgt = {}, !.base = 0,
                                      !.write = {}, !.snap = {}]]
  BY DEF NextTarget, SetJob, Goto, TypeOK
<1>2. [job[c] EXCEPT !.tgt = {}, !.base = 0, !.write = {}, !.snap = {}].todo
        = job[c].todo
  BY <1>1 DEF JobType
<1>3. job'[c].todo = job[c].todo /\ pc'[c] = "looping"
  BY <1>1, <1>2 DEF TypeOK
<1>4. \A d \in Cycles \ {c} : pc'[d] = pc[d] /\ job'[d] = job[d]
  BY <1>1 DEF TypeOK
<1>5. QED
  BY <1>3, <1>4 DEF OpenTargets, OnTarget

\* The steps of the loop up to the submission.
LEMMA MemoryLoop ==
  ASSUME OnceInv, NEW c \in Cycles,
         \/ SkipTarget(c) \/ TakeTarget(c) \/ SkipSell(c) \/ CheckOwned(c)
         \/ TakeBaseline(c)
  PROVE  TxMemory' /\ TxCopiedOnce'
<1> USE DEF At, memory, control
<1>0. TypeOK /\ job[c] \in JobType /\ CycleMemory(c)
  BY DEF OnceInv, TypeOK, TxMemory
<1>1. OthersKept(c)
  BY <1>0, NextTargetOpen DEF OthersKept, TypeOK, Goto, SetJob, SkipTarget,
       TakeTarget, SkipSell, CheckOwned, TakeBaseline
<1>2. UNCHANGED <<now, orders, trade, processedTrades>>
  BY DEF SkipTarget, TakeTarget, SkipSell, CheckOwned, TakeBaseline
<1>3. c \in Busy /\ ~Recording(c) /\ (pc[c] = "looping" \/ OnTarget(c))
  BY DEF Busy, ClaimedPC, Recording, OnTarget, SkipTarget, TakeTarget,
       SkipSell, CheckOwned, TakeBaseline
<1>4. SUFFICES CycleMemory(c)'
  BY <1>1, <1>2, <1>3, QuietStep
<1>5. CASE SkipTarget(c)
  <2>1. PICK t \in job[c].todo :
          job' = [job EXCEPT ![c] = [job[c] EXCEPT !.todo = @ \ {t}]]
    BY <1>5 DEF SkipTarget, SetJob
  <2>2. job'[c].todo = job[c].todo \ {t} /\ pc'[c] = "looping" /\ pc[c] = "looping"
    BY <1>0, <1>5, <2>1 DEF SkipTarget, TypeOK, JobType
  <2>3. OpenTargets(c)' \subseteq OpenTargets(c) /\ ~BeforeLoop(c)' /\ ~OnTarget(c)'
    BY <2>2 DEF OpenTargets, OnTarget, BeforeLoop
  <2>4. QED
    BY <1>2, <1>3, <2>2, <2>3, LoopMoves
<1>6. CASE TakeTarget(c)
  <2>1. PICK t \in job[c].todo :
          job' = [job EXCEPT ![c] =
                   [job[c] EXCEPT !.todo = @ \ {t}, !.tgt = {t}]]
    BY <1>6 DEF TakeTarget, SetJob
  <2>2. job'[c].todo = job[c].todo \ {t} /\ job'[c].tgt = {t}
    BY <1>0, <2>1 DEF TypeOK, JobType
  <2>3. pc'[c] \in {"owning", "unblocked"} /\ pc[c] = "looping"
    BY <1>0, <1>6 DEF TakeTarget, Goto, TypeOK
  <2>4. OpenTargets(c)' \subseteq OpenTargets(c) /\ ~BeforeLoop(c)'
    BY <2>1, <2>2, <2>3 DEF OpenTargets, OnTarget, BeforeLoop
  <2>5. QED
    BY <1>2, <1>3, <2>2, <2>3, <2>4, LoopMoves
<1>7. CASE SkipSell(c)
  <2>1. pc'[c] = "looping" /\ OpenTargets(c)' = job[c].todo
    BY <1>0, <1>7, NextTargetOpen DEF SkipSell
  <2>2. OpenTargets(c)' \subseteq OpenTargets(c) /\ ~BeforeLoop(c)' /\ ~OnTarget(c)'
    BY <2>1 DEF OpenTargets, OnTarget, BeforeLoop
  <2>3. QED
    BY <1>2, <1>3, <2>1, <2>2, LoopMoves
<1>8. CASE CheckOwned(c) \/ TakeBaseline(c)
  <2>1. job'[c].todo = job[c].todo /\ job'[c].tgt = job[c].tgt
    <3>1. ASSUME NEW n \in Int
          PROVE  /\ [job[c] EXCEPT !.base = n].todo = job[c].todo
                 /\ [job[c] EXCEPT !.base = n].tgt = job[c].tgt
      BY <1>0 DEF JobType
    <3>2. \A t \in job[c].tgt : PositionSize(Key(c, t)) \in Int
      BY <1>0, ExchangeAnswers DEF TypeOK
    <3>3. TakeBaseline(c) => \E n \in Int :
            job' = [job EXCEPT ![c] = [job[c] EXCEPT !.base = n]]
      BY <3>2 DEF TakeBaseline, SetJob
    <3>4. CheckOwned(c) => job' = job
      BY DEF CheckOwned
    <3>5. QED
      BY <1>0, <1>8, <3>1, <3>3, <3>4 DEF TypeOK
  <2>2. OnTarget(c) /\ pc'[c] \in {"unblocked", "submitting", "leaving"}
    BY <1>0, <1>8 DEF CheckOwned, TakeBaseline, OnTarget, Goto, TypeOK
  <2>3. OpenTargets(c)' \subseteq OpenTargets(c) /\ ~BeforeLoop(c)'
    BY <2>1, <2>2 DEF OpenTargets, OnTarget, BeforeLoop
  <2>4. job[c].todo \intersect job[c].tgt = {}
    BY <1>0, <2>2 DEF CycleMemory
  <2>5. QED
    BY <1>2, <1>3, <2>1, <2>2, <2>3, <2>4, LoopMoves
<1>9. QED
  BY <1>5, <1>6, <1>7, <1>8

\* Loading the ledger changes nothing that the memory is about.
LEMMA MemoryLoad ==
  ASSUME OnceInv, NEW c \in Cycles, LoadLedger(c)
  PROVE  TxMemory' /\ TxCopiedOnce'
<1> USE DEF At, memory, control
<1>0. TypeOK /\ job[c] \in JobType /\ CycleMemory(c)
  BY DEF OnceInv, TypeOK, TxMemory
<1>1. OthersKept(c) /\ UNCHANGED <<now, orders, trade, processedTrades>>
  BY <1>0 DEF OthersKept, TypeOK, LoadLedger, SetJob, Goto
<1>2. pc[c] = "load" /\ pc'[c] = "save" /\ c \in Busy
  BY <1>0 DEF LoadLedger, Goto, TypeOK, Busy, ClaimedPC
<1>3. job'[c].write = job[c].write /\ job'[c].todo = job[c].todo
  BY <1>0 DEF LoadLedger, SetJob, TypeOK, JobType
<1>4. /\ Recording(c)' <=> Recording(c)
      /\ BeforeLoop(c)' <=> BeforeLoop(c)
      /\ ~OnTarget(c)' /\ ~OnTarget(c)
      /\ c \in Busy'
  BY <1>2, <1>3 DEF Recording, BeforeLoop, OnTarget, Busy, ClaimedPC
<1>5. HashesKept /\ HandedOver(c)
  BY <1>1, <1>4 DEF HashesKept, HandedOver
<1>6. \E w \in job'[c].write : job'[c].write = {w}
  BY <1>0, <1>2, <1>3 DEF CycleMemory
<1>7. CycleMemory(c)'
  <2>1. CASE Recording(c)
    <3>1. OpenTargets(c)' \subseteq OpenTargets(c) /\ ~BeforeLoop(c)'
      BY <1>2, <1>3, <1>4, <2>1 DEF OpenTargets, BeforeLoop
    <3>2. QED
      BY <1>1, <1>2, <1>4, <1>6, <2>1, <3>1, LoopMoves
  <2>2. CASE ~Recording(c)
    <3>1. BeforeLoop(c)
      BY <1>2, <2>2 DEF BeforeLoop
    <3>2. QED
      BY <1>1, <1>2, <1>4, <1>6, <3>1, BeforeLoopMoves
  <2>3. QED
    BY <2>1, <2>2
<1>8. QED
  BY <1>1, <1>5, <1>7, MemoryFrame

\* Saving the record of an order hands its hash over to the map of hashes;
\* saving an update of the reconciliation returns to it.
LEMMA MemorySave ==
  ASSUME OnceInv, NEW c \in Cycles, SaveLedger(c)
  PROVE  TxMemory' /\ TxCopiedOnce'
<1> USE DEF At, memory, control
<1>0. TypeOK /\ job[c] \in JobType /\ CycleMemory(c)
  BY DEF OnceInv, TypeOK, TxMemory
<1>1. UNCHANGED <<now, orders, trade>> /\ pc[c] = "save" /\ c \in Busy
  BY <1>0 DEF SaveLedger, Busy, ClaimedPC
<1>2. PICK w \in job[c].write :
        IF w.kind \in {"executed", "pending"}
          THEN MarkProcessed(trade[c]) /\ NextTarget(c, job[c])
          ELSE AfterReconcileSave(c, w) /\ UNCHANGED processedTrades
  BY DEF SaveLedger
<1>3. job[c].write = {w}
  BY <1>0, <1>1, <1>2 DEF CycleMemory
<1>4. CASE w.kind \in {"executed", "pending"}
  <2>1. Recording(c)
    BY <1>1, <1>4 DEF Recording
  <2>2. pc'[c] = "looping" /\ OpenTargets(c)' = job[c].todo /\ OthersKept(c)
    BY <1>0, <1>1, <1>2, <1>4, NextTargetOpen DEF OthersKept
  <2>3. HashesKept /\ HandedOver(c)
    BY <1>2, <1>4, PutKeeps DEF MarkProcessed, HandedOver
  <2>4. OpenTargets(c)' \subseteq OpenTargets(c) /\ ~BeforeLoop(c)' /\ ~OnTarget(c)'
    BY <2>2 DEF OpenTargets, OnTarget, BeforeLoop
  <2>5. CycleMemory(c)'
    BY <1>1, <2>1, <2>2, <2>4, LoopMoves
  <2>6. QED
    BY <1>1, <2>2, <2>3, <2>5, MemoryFrame
<1>5. CASE w.kind \notin {"executed", "pending"}
  <2>1. ~Recording(c) /\ BeforeLoop(c)
    BY <1>1, <1>3, <1>5 DEF Recording, BeforeLoop
  <2>2. /\ AfterReconcileSave(c, w) /\ UNCHANGED processedTrades
    BY <1>2, <1>5
  <2>3. OthersKept(c) /\ pc'[c] \in {"limits", "confirmBook", "deciding"}
    BY <1>0, <1>1, <2>2 DEF AfterReconcileSave, EndReconcile, SetJob, Goto,
         OthersKept, TypeOK
  <2>4. BeforeLoop(c)'
    BY <2>3 DEF BeforeLoop
  <2>5. CycleMemory(c)'
    BY <1>1, <2>1, <2>3, <2>4, BeforeLoopMoves
  <2>6. QED
    BY <1>1, <2>1, <2>2, <2>3, <2>5, QuietStep
<1>6. QED
  BY <1>4, <1>5

-----------------------------------------------------------------------------
(* The steps that place an order.                                          *)

\* A cycle that submits places an order that no younger one of its hash and
\* key precedes, and goes on to remember it.
LEMMA MemoryPlace ==
  ASSUME OnceInv, NEW c \in Cycles, NEW t \in job[c].tgt, NEW state,
         Place(c, t, state), OthersKept(c), UNCHANGED <<now, trade>>,
         pc[c] = "submitting", HashesKept,
         \/ Recording(c)' /\ c \in Busy'
         \/ \E f \in processedTrades' : f.key = TradeKey(trade[c]) /\ f.at = now,
         OpenTargets(c)' = job[c].todo, ~OnTarget(c)', ~BeforeLoop(c)',
         pc'[c] \in {"load", "save"} =>
           \E w \in job'[c].write : job'[c].write = {w}
  PROVE  TxMemory' /\ TxCopiedOnce'
<1>0. TypeOK /\ TxMemory /\ InFlightExclusive /\ TxCopiedOnce /\ CycleMemory(c)
  BY DEF OnceInv, InFlightInv, TxMemory
<1>n. PICK n \in Nat : n = Len(orders) + 1
  BY <1>0 DEF TypeOK
<1>1. /\ DOMAIN orders = 1 .. Len(orders) /\ Len(orders) \in Nat
      /\ DOMAIN orders' = DOMAIN orders \union {n}
      /\ n \notin DOMAIN orders
      /\ \A i \in DOMAIN orders : orders'[i] = orders[i] /\ i < n /\ i \in Int
      /\ orders'[n].nr = Key(c, t) /\ orders'[n].copies = trade[c]
      /\ orders'[n].at = now
  BY <1>0, <1>n DEF Place, Accept, TypeOK
<1>2. /\ now \in Nat /\ TxTTL \in Nat
      /\ \A i \in DOMAIN orders : orders[i].at \in Nat
  BY <1>0, AgeTypes
<1>3. c \in Busy /\ OnTarget(c) /\ ~Recording(c)
  BY DEF Busy, ClaimedPC, OnTarget, Recording
<1>4. t \in OpenTargets(c) /\ t \notin job[c].todo
  BY <1>0, <1>3 DEF CycleMemory, OpenTargets
<1>5. \A i \in DOMAIN orders' : Remembered(i)' /\ orders'[i].at <= now'
  <2>1. HandedOver(c)
    BY <1>3 DEF HandedOver
  <2>2. ASSUME NEW i \in DOMAIN orders PROVE Remembered(i)'
    <3>1. i \in DOMAIN orders' /\ orders'[i] = orders[i]
      BY <1>1
    <3>2. QED
      BY <2>1, <3>1, StillRemembered
  <2>3. Remembered(n)'
    <3>1. CASE Recording(c)' /\ c \in Busy'
      BY <1>1, <3>1 DEF Remembered, SameTx
    <3>2. CASE \E f \in processedTrades' :
                 f.key = TradeKey(trade[c]) /\ f.at = now
      <4>1. PICK f \in processedTrades' :
              f.key = TradeKey(trade[c]) /\ f.at = now
        BY <3>2
      <4>2. f.key = TradeKey(orders'[n].copies) /\ f.at >= orders'[n].at
        BY <1>1, <1>2, <4>1 DEF TradeKey
      <4>3. QED
        BY <4>1, <4>2 DEF Remembered, TradeKey
    <3>3. QED
      BY <3>1, <3>2
  <2>4. orders'[n].at <= now'
    BY <1>1, <1>2
  <2>5. \A i \in DOMAIN orders : orders'[i].at <= now'
    BY <1>0, <1>1 DEF TxMemory
  <2>6. QED
    BY <1>1, <2>2, <2>3, <2>4, <2>5
<1>6. ASSUME NEW i \in DOMAIN orders
      PROVE  Old(i)' <=> Old(i)
  BY <1>1 DEF Old
<1>7. CycleMemory(c)'
  <2>1. ASSUME NEW i \in DOMAIN orders', NEW u \in job[c].todo, SameTx(i, c)',
               orders'[i].nr = Key(c, u)
        PROVE  Old(i)'
    <3>1. i # n
      BY <1>1, <1>4, <2>1 DEF Key
    <3>2. i \in DOMAIN orders /\ SameTx(i, c) /\ orders[i].nr = Key(c, u)
      BY <1>1, <2>1, <3>1 DEF SameTx
    <3>3. Old(i)
      BY <1>0, <1>3, <3>2 DEF CycleMemory, OpenTargets
    <3>4. QED
      BY <1>6, <3>2, <3>3
  <2>2. \A u : Key(c, u)' = Key(c, u)
    BY DEF Key
  <2>3. QED
    BY <2>1, <2>2 DEF CycleMemory
<1>8. ASSUME NEW d \in Cycles \ {c} PROVE CycleMemory(d)'
  <2>1. CycleMemory(d)
    BY <1>0 DEF TxMemory
  <2>2. d \in Busy => ~SameTx(n, d)'
    <3> SUFFICES ASSUME d \in Busy, SameTx(n, d)' PROVE FALSE
      OBVIOUS
    <3>1. TradeKey(trade[d]) = TradeKey(trade[c])
      BY <1>1 DEF SameTx, TradeKey
    <3>2. InFlightKeys(trade[c]) \intersect InFlightKeys(trade[d]) = {}
      BY <1>0, <1>3 DEF InFlightExclusive
    <3>3. QED
      BY <3>1, <3>2 DEF InFlightKeys
  <2>3. \A i \in DOMAIN orders : SameTx(i, d)' <=> SameTx(i, d)
    BY <1>1 DEF SameTx
  <2>4. \A i \in DOMAIN orders : orders'[i].nr = orders[i].nr
    BY <1>1
  <2>5. QED
    BY <1>1, <1>6, <2>1, <2>2, <2>3, <2>4, OtherCycle DEF CycleMemory
<1>9. TxCopiedOnce'
  <2> SUFFICES ASSUME NEW i \in DOMAIN orders', NEW j \in DOMAIN orders', i < j,
                      orders'[i].nr = orders'[j].nr,
                      orders'[i].copies.tx = orders'[j].copies.tx
               PROVE  orders'[j].at - orders'[i].at > TxTTL
    BY DEF TxCopiedOnce
  <2>1. CASE j \in DOMAIN orders
    <3>1. i \in DOMAIN orders
      BY <1>1, <2>1
    <3>2. QED
      BY <1>0, <1>1, <2>1, <3>1 DEF TxCopiedOnce
  <2>2. CASE j = n
    <3>1. i \in DOMAIN orders
      BY <1>1, <2>2
    <3>2. SameTx(i, c) /\ orders[i].nr = Key(c, t)
      BY <1>1, <2>2, <3>1 DEF SameTx
    <3>3. Old(i)
      BY <1>0, <1>3, <1>4, <3>1, <3>2 DEF CycleMemory
    <3>4. QED
      BY <1>1, <2>2, <3>1, <3>3 DEF Old
  <2>3. QED
    BY <1>1, <2>1, <2>2
<1>10. QED
  BY <1>5, <1>7, <1>8, <1>9 DEF TxMemory

\* executeTrade answered: with an order that is being recorded from now on, or
\* with a failure, which puts the hash at once.
LEMMA MemoryExecute ==
  ASSUME OnceInv, NEW c \in Cycles, ExecuteTrade(c) \/ ExecuteFails(c)
  PROVE  TxMemory' /\ TxCopiedOnce'
<1> USE DEF At, memory, control
<1>0. TypeOK /\ job[c] \in JobType /\ CycleMemory(c)
  BY DEF OnceInv, TypeOK, TxMemory
<1>1. UNCHANGED <<now, trade>> /\ pc[c] = "submitting"
  BY DEF ExecuteTrade, ExecuteFails
<1>2. c \in Busy /\ OnTarget(c) /\ ~Recording(c)
  BY <1>1 DEF Busy, ClaimedPC, OnTarget, Recording
<1>3. CASE ExecuteTrade(c)
  <2> DEFINE state(filled) == IF filled THEN Matched ELSE "live"
             kind(filled) == IF filled THEN "executed" ELSE "pending"
             rec(t, filled) == NewRecord(Key(c, t), kind(filled),
               Len(orders) + 1, now, job[c].base, trade[c].side)
  <2>1. PICK t \in job[c].tgt, filled \in BOOLEAN :
          /\ Place(c, t, state(filled))
          /\ StartWrite(c, job[c], kind(filled), rec(t, filled))
    BY <1>3 DEF ExecuteTrade
  <2>k. kind(filled) \in {"executed", "pending"}
    OBVIOUS
  <2> HIDE DEF state, kind, rec
  <2>2. /\ pc'[c] = "load"
        /\ job'[c].write = {[kind |-> kind(filled), rec |-> rec(t, filled)]}
        /\ job'[c].todo = job[c].todo
    BY <1>0, <2>1, StartedWrite
  <2>3. OthersKept(c) /\ UNCHANGED processedTrades
    BY <1>0, <1>1, <1>3, <2>1 DEF StartWrite, SetJob, Goto, OthersKept, TypeOK,
         ExecuteTrade
  <2>4. Recording(c)' /\ c \in Busy' /\ ~OnTarget(c)' /\ ~BeforeLoop(c)'
    BY <2>k, <2>2 DEF Recording, Busy, ClaimedPC, OnTarget, BeforeLoop
  <2>5. OpenTargets(c)' = job[c].todo
    BY <2>2, <2>4 DEF OpenTargets
  <2>6. HashesKept
    BY <2>3 DEF HashesKept
  <2>7. QED
    BY <1>1, <2>1, <2>2, <2>3, <2>4, <2>5, <2>6, MemoryPlace
<1>4. CASE ExecuteFails(c)
  <2>1. MarkProcessed(trade[c]) /\ NextTarget(c, job[c])
    BY <1>4 DEF ExecuteFails
  <2>2. pc'[c] = "looping" /\ OpenTargets(c)' = job[c].todo /\ OthersKept(c)
    BY <1>0, <1>1, <2>1, NextTargetOpen DEF OthersKept
  <2>3. HashesKept /\ \E f \in processedTrades' :
                        f.key = TradeKey(trade[c]) /\ f.at = now
    BY <2>1, PutKeeps DEF MarkProcessed
  <2>4. ~OnTarget(c)' /\ ~BeforeLoop(c)' /\ OpenTargets(c)' \subseteq OpenTargets(c)
    BY <2>2 DEF OnTarget, BeforeLoop, OpenTargets
  <2>5. CASE UNCHANGED orders
    <3>1. CycleMemory(c)'
      BY <1>1, <1>2, <2>2, <2>4, <2>5, LoopMoves
    <3>2. HandedOver(c)
      BY <1>2 DEF HandedOver
    <3>3. QED
      BY <1>1, <2>2, <2>3, <2>5, <3>1, <3>2, MemoryFrame
  <2>6. CASE \E t \in job[c].tgt, state \in {"live", Matched} : Place(c, t, state)
    BY <1>1, <2>2, <2>3, <2>4, <2>6, MemoryPlace
  <2>7. QED
    BY <1>4, <2>5, <2>6 DEF ExecuteFails
<1>5. QED
  BY <1>3, <1>4

-----------------------------------------------------------------------------
(* The environment, and the theorem.                                       *)

\* A step that leaves the cycles and the map of hashes alone, lets no time go
\* back and lets every order keep its key, its trade and its time.
LEMMA MemoryOutside ==
  ASSUME OnceInv, UNCHANGED <<processedTrades, pc, trade, job>>,
         now' \in Nat, now' >= now, DOMAIN orders' = DOMAIN orders,
         \A i \in DOMAIN orders :
           /\ orders'[i].nr = orders[i].nr
           /\ orders'[i].copies = orders[i].copies
           /\ orders'[i].at = orders[i].at
  PROVE  TxMemory' /\ TxCopiedOnce'
<1>0. TypeOK /\ TxMemory /\ TxCopiedOnce
  BY DEF OnceInv
<1>1. /\ now \in Nat /\ TxTTL \in Nat
      /\ \A i \in DOMAIN orders : orders[i].at \in Nat
  BY <1>0, AgeTypes
<1>2. \A i \in DOMAIN orders : Old(i) => Old(i)'
  BY <1>1 DEF Old
<1>3. \A c : /\ (c \in Busy)' <=> c \in Busy
             /\ Recording(c)' <=> Recording(c)
             /\ BeforeLoop(c)' <=> BeforeLoop(c)
             /\ OnTarget(c)' <=> OnTarget(c)
             /\ OpenTargets(c)' = OpenTargets(c)
  BY DEF Busy, Recording, BeforeLoop, OnTarget, OpenTargets
<1>4. \A c : /\ \A t : Key(c, t)' = Key(c, t)
             /\ \A i \in DOMAIN orders : SameTx(i, c)' <=> SameTx(i, c)
  BY DEF Key, SameTx
<1>5. ASSUME NEW i \in DOMAIN orders PROVE Remembered(i)' /\ orders'[i].at <= now'
  <2>1. Remembered(i) /\ orders[i].at <= now
    BY <1>0 DEF TxMemory
  <2>2. orders'[i].at <= now'
    BY <1>1, <2>1
  <2>3. TradeKey(orders[i].copies)' = TradeKey(orders[i].copies)
    BY DEF TradeKey
  <2>4. Remembered(i)'
    BY <1>2, <1>3, <1>4, <2>1, <2>3 DEF Remembered
  <2>5. QED
    BY <2>2, <2>4
<1>6. ASSUME NEW c \in Cycles PROVE CycleMemory(c)'
  <2>1. CycleMemory(c)
    BY <1>0 DEF TxMemory
  <2>2. QED
    BY <1>2, <1>3, <1>4, <2>1 DEF CycleMemory
<1>7. TxCopiedOnce'
  BY <1>0 DEF TxCopiedOnce
<1>8. QED
  BY <1>5, <1>6, <1>7 DEF TxMemory

\* TxMemory and TxCopiedOnce are preserved as long as memory is kept.
LEMMA MemoryStep ==
  ASSUME MemoryKept, OnceInv, [Next]_vars
  PROVE  TxMemory' /\ TxCopiedOnce'
<1> USE DEF memory, control
<1>0. TypeOK /\ now \in Nat
  BY DEF OnceInv, TypeOK
<1>1. CASE UNCHANGED vars
  BY <1>0, <1>1, MemoryOutside DEF vars
<1>2. ASSUME NEW c \in Cycles, Handle(c) PROVE TxMemory' /\ TxCopiedOnce'
  <2>1. ~SaveFails(c)
    BY DEF MemoryKept, SaveFails
  <2>2. QED
    BY <1>2, <2>1, MemoryReturn, MemoryClaim, MemoryReconcile, MemoryLoop,
       MemoryLoad, MemorySave, MemoryExecute DEF Handle
<1>3. ASSUME NEW c \in Cycles, Detect(c) PROVE TxMemory' /\ TxCopiedOnce'
  BY <1>3, MemoryReturn
<1>4. CASE Environment
  <2>1. CASE Tick
    BY <1>0, <2>1, MemoryOutside DEF Tick
  <2>2. CASE Start \/ Stop
    BY <1>0, <2>2, MemoryOutside DEF Start, Stop
  <2>3. ~Restart
    BY DEF MemoryKept, Restart
  <2>4. CASE ClearExecutedPositions \/ PruneOldExecutedPositions
    BY <1>0, <2>4, MemoryOutside DEF ClearExecutedPositions, PruneOldExecutedPositions
  <2>5. CASE \E c \in Cycles : ReinitializeCredentials(c)
    BY <1>0, <2>5, MemoryOutside DEF ReinitializeCredentials
  <2>6. CASE ExchangeMoves
    <3>1. PICK i \in DOMAIN orders :
            \E state : orders' = [orders EXCEPT ![i].state = state]
      BY <2>6 DEF ExchangeMoves, ExchangeStep, Match, Index, Cancel, Become
    <3> PICK state : orders' = [orders EXCEPT ![i].state = state]
      BY <3>1
    <3>2. \A k \in DOMAIN orders : orders[k] \in Order(Keys, Sides, Trades)
      BY <1>0 DEF TypeOK
    <3>3. /\ DOMAIN orders' = DOMAIN orders
          /\ \A k \in DOMAIN orders :
               orders'[k] = IF k = i THEN [orders[i] EXCEPT !.state = state]
                            ELSE orders[k]
      BY <1>0, <3>1 DEF TypeOK
    <3>4. /\ [orders[i] EXCEPT !.state = state].nr = orders[i].nr
          /\ [orders[i] EXCEPT !.state = state].copies = orders[i].copies
          /\ [orders[i] EXCEPT !.state = state].at = orders[i].at
      BY <3>2 DEF Order
    <3>5. UNCHANGED <<now, processedTrades, pc, trade, job>>
      BY <2>6 DEF ExchangeMoves
    <3>6. \A k \in DOMAIN orders : /\ orders'[k].nr = orders[k].nr
                                   /\ orders'[k].copies = orders[k].copies
                                   /\ orders'[k].at = orders[k].at
      BY <3>3, <3>4
    <3>7. now' \in Nat /\ now' >= now
      BY <1>0, <3>5
    <3>8. QED
      BY <3>3, <3>5, <3>6, <3>7, MemoryOutside
  <2>7. QED
    BY <1>4, <2>1, <2>2, <2>3, <2>4, <2>5, <2>6 DEF Environment
<1>5. QED
  BY <1>1, <1>2, <1>3, <1>4 DEF Next

\* As long as the process keeps its memory and its ledger updates succeed, one
\* transaction hash is copied to one trading wallet at most once per TxTTL:
\* for any number of overlapping cycles, with answers lost, the ledger cleared
\* or pruned, and either storage backend.
THEOREM CopiedOnce ==
  ASSUME MemoryKept
  PROVE  Spec => []TxCopiedOnce
<1>1. Init => OnceInv
  <2>1. Init => TypeOK
    BY TypeInit
  <2>2. Init => InFlightInv
    BY InFlightInit
  <2>3. Init => TxMemory /\ TxCopiedOnce
    BY DEF Init, ExchangeInit, TxMemory, TxCopiedOnce, CycleMemory, Busy,
       ClaimedPC, OnTarget
  <2>4. QED
    BY <2>1, <2>2, <2>3 DEF OnceInv
<1>2. OnceInv /\ [Next]_vars => OnceInv'
  BY TypeStep, InFlightStep, MemoryStep DEF OnceInv
<1>3. OnceInv => TxCopiedOnce
  BY DEF OnceInv
<1>4. QED
  BY <1>1, <1>2, <1>3, PTL DEF Spec
=============================================================================
