-------------------------- MODULE CopySerial_proofs --------------------------
(***************************************************************************)
(* Proofs about one polling cycle of CopyTrader that nothing disturbs: no  *)
(* crash, failed save, lost answer, retention, clearing or new monitor.    *)
(* For any trades, wallets, positions, periods and rate limits, and for    *)
(* both storage backends:                                                  *)
(*   - with the trading wallet that the reconciliation looks at, a resting *)
(*     order has its pending block (LedgerInv);                            *)
(*   - if the positions API moreover shows a match at once, no-repeat      *)
(*     protection keeps its promise, the specification NoRepeatGate, and   *)
(*     no sale exceeds what is held (GateInv).                             *)
(* The rate limit needs one cycle only (LimitInv).                         *)
(***************************************************************************)
EXTENDS CopyTrader_proofs, SequenceTheorems

Undisturbed == Events = {}
OneWallet   == \A w \in Wallets : TargetsOf[w] \subseteq {BookProbe}
SameProbes  == SizeProbe = BookProbe
NoLag       == IndexLag = FALSE

-----------------------------------------------------------------------------
(* The ledger and the locals of the cycle.                                 *)

\* The one cycle there is.
Alone ==
  /\ cycles = {FirstCycle}
  /\ \A c \in Cycles \ {FirstCycle} : pc[c] = "idle"

Live(i) == orders[i].state = "live"

\* Each record is of an order of its key, no two are of one order, and each key
\* has one pending record at most.
RecordsSound ==
  /\ \A p \in ledger : /\ p.order \in DOMAIN orders /\ orders[p.order].nr = p.nr
                       /\ Pending(p) => orders[p.order].side = p.side
  /\ \A p, q \in ledger : p.order = q.order => p = q
  /\ \A p, q \in ledger : Pending(p) /\ Pending(q) /\ p.nr = q.nr => p = q

\* The pending block that the reconciliation has in hand is in the ledger.
Tracked(p) ==
  \E q \in ledger : /\ Pending(q) /\ q.order = p.order /\ q.nr = p.nr
                    /\ q.base = p.base /\ q.side = p.side

Unledgered(nr) == \A p \in ledger : p.nr = nr => ~Pending(p)

\* The update of a pending block: one that lifts it comes when the order has left
\* the book.
UpdateSound(j, w) ==
  /\ w.kind \in {"mark", "remove", "increment", "reset"}
  /\ j.blk = {w.rec} /\ Tracked(w.rec)
  /\ \A b \in j.blocks : b.order # w.rec.order
  /\ w.kind \in {"mark", "remove"} => ~Live(w.rec.order)

\* The record of the order just placed.
PlacedSound(j, w) ==
  /\ w.kind \in {"executed", "pending"} /\ j.blocks = {}
  /\ w.rec.order \in DOMAIN orders
  /\ orders[w.rec.order].nr = w.rec.nr /\ orders[w.rec.order].side = w.rec.side
  /\ w.kind = "executed" => ~Live(w.rec.order)
  /\ Unledgered(w.rec.nr) /\ OfOrder(ledger, w.rec.order) = {}

LocalsSound(label, j, t) ==
  /\ label \in {"idle", "entered", "claimed", "limits", "sizing"} => j = NoJob
  /\ j.todo \union j.tgt \subseteq {BookProbe}
  /\ \A p \in j.blocks : p \in ledger /\ Pending(p)
  /\ \A p \in j.blocks \union j.blk : p.nr[1] = t.pos
  /\ label \notin {"probeBook", "leaving"} =>
       \A p \in j.blocks : p.order \in j.book \/ ~Live(p.order)
  /\ label \in {"confirmBook", "confirmSize"} =>
       \E p \in j.blk : /\ j.blk = {p} /\ Tracked(p)
                        /\ \A b \in j.blocks : b.order # p.order
                        /\ label = "confirmSize" /\ ~j.open => ~Live(p.order)
  /\ label \in {"load", "save"} =>
       \E w \in j.write : j.write = {w} /\ (UpdateSound(j, w) \/ PlacedSound(j, w))
  /\ label = "save" => j.snap = ledger
  /\ label \in {"looping", "owning", "unblocked", "submitting"} => j.blocks = {}
  /\ label \in {"owning", "unblocked", "submitting"} =>
       \A g \in j.tgt : Unledgered(<<t.pos, g>>)

LedgerInv ==
  /\ TypeOK /\ Alone
  /\ \A i \in DOMAIN orders : orders[i].nr[2] = BookProbe
  /\ RecordsSound /\ LiveOrderLedgered
  /\ LocalsSound(pc[FirstCycle], job[FirstCycle], trade[FirstCycle])

-----------------------------------------------------------------------------
(* What the positions say.                                                 *)

\* What the order i adds to the position.
Adds(i) == IF orders[i].state # "indexed" THEN 0
           ELSE IF orders[i].side = "BUY" THEN 1 ELSE 0 - 1

\* A pending record knows the position as it was before its order.
BaseSound(p) == /\ PositionSize(p.nr) = p.base + Adds(p.order)
                /\ p.side = "SELL" => p.base >= 1

\* An order that took effect is in the ledger from its time on.
Recorded(i) ==
  \/ \E w \in job[FirstCycle].write :
       /\ pc[FirstCycle] \in {"load", "save"} /\ w.rec.order = i
       /\ w.kind \in {"executed", "pending"}
  \/ \E p \in ledger : /\ p.nr = orders[i].nr /\ p.at >= orders[i].at
                       /\ Executed(p) \/ p.order = i

PlaceSound(label, j, t) ==
  /\ label \in {"confirmBook", "confirmSize", "deciding", "load", "save"} =>
       \A p \in j.blocks : p.order \notin j.book => j.size - p.base = Adds(p.order)
  /\ label \in {"load", "save"} =>
       \A w \in j.write : /\ w.kind = "remove" => orders[w.rec.order].state = "dead"
                          /\ w.kind = "pending" => BaseSound(w.rec)
  /\ label \in {"owning", "unblocked", "submitting"} =>
       \A g \in j.tgt : ~IsPositionBlocked(ledger, <<t.pos, g>>, BlockPeriod(t.wallet), now)
  /\ label \in {"unblocked", "submitting"} /\ t.side = "SELL" =>
       \A g \in j.tgt : PositionSize(<<t.pos, g>>) >= 1
  /\ label = "submitting" => \A g \in j.tgt : j.base = PositionSize(<<t.pos, g>>)

GateInv ==
  /\ LedgerInv /\ SellsCovered
  /\ \A i \in DOMAIN orders : /\ orders[i].state # "filled" /\ orders[i].at <= now
                              /\ orders[i].state = "indexed" => Recorded(i)
  /\ \A p \in ledger : /\ orders[p.order].at <= p.at
                       /\ Pending(p) => BaseSound(p)
  /\ PlaceSound(pc[FirstCycle], job[FirstCycle], trade[FirstCycle])

-----------------------------------------------------------------------------
(* The rate limit.                                                         *)

\* What the detection under way may still add to the windows of its wallet.
MayAdd(label, j, t) ==
  CASE label = "sizing" -> Cardinality(TargetsOf[t.wallet])
    [] label = "looping" -> Cardinality(j.todo)
    [] label \in {"owning", "unblocked", "submitting"} -> Cardinality(j.todo) + 1
    [] label \in {"load", "save"} /\ \E w \in j.write : w.kind \in {"executed", "pending"} ->
         Cardinality(j.todo) + 1
    [] OTHER -> 0

Share(w) ==
  IF trade[FirstCycle].wallet = w
    THEN MayAdd(pc[FirstCycle], job[FirstCycle], trade[FirstCycle]) ELSE 0

FiniteTodo ==
  /\ pc[FirstCycle] = "idle" => job[FirstCycle].todo = {}
  /\ trade[FirstCycle].wallet \in RateLimited => IsFiniteSet(job[FirstCycle].todo)

LimitInv ==
  /\ TypeOK /\ Alone /\ FiniteTodo
  /\ \A w \in RateLimited, v \in Windows :
       perWalletRateLimits[w][v].count + Share(w)
         <= WindowMax[v] + Cardinality(TargetsOf[w]) - 1

\* The tracked wallets with a limit are copied to some wallets, finitely many.
LimitedTargets ==
  \A w \in RateLimited : IsFiniteSet(TargetsOf[w]) /\ TargetsOf[w] # {}

-----------------------------------------------------------------------------
(* There is one cycle.                                                     *)

\* A step of the handler is of a cycle that handles something.
LEMMA HandleBusy ==
  ASSUME NEW c \in Cycles, Handle(c)
  PROVE  pc[c] # "idle"
BY DEF Handle, GateReject, DropDuplicate, Claim, RefuseUnsafe, Bail, Leave,
       LoadPendingBlocks, ProbeBook, ProbeSize, Decide, FinishReconcile, ConfirmBook,
       ConfirmSize, CheckLimits, StartLoop, FinishLoop, SkipTarget, TakeTarget,
       SkipSell, CheckOwned, TakeBaseline, ExecuteTrade, ExecuteFails, LoadLedger,
       SaveLedger, SaveFails, At

\* The handler changes neither time nor the cycles, and where one cycle only.
LEMMA HandleLocal ==
  ASSUME TypeOK, NEW c \in Cycles, Handle(c)
  PROVE  /\ UNCHANGED <<now, control>>
         /\ \A d \in Cycles \ {c} : pc'[d] = pc[d]
<1>1. UNCHANGED <<now, control>>
  BY DEF Handle, GateReject, DropDuplicate, Claim, RefuseUnsafe, Bail, Leave,
         LoadPendingBlocks, ProbeBook, ProbeSize, Decide, FinishReconcile, ConfirmBook,
         ConfirmSize, CheckLimits, StartLoop, FinishLoop, SkipTarget, TakeTarget,
         SkipSell, CheckOwned, TakeBaseline, ExecuteTrade, ExecuteFails, LoadLedger,
         SaveLedger, SaveFails
<1>2. pc' = pc \/ \E l \in PC : Goto(c, l)
  <2>1. CASE GateReject(c) \/ DropDuplicate(c) \/ Claim(c) \/ RefuseUnsafe(c)
             \/ Bail(c) \/ Leave(c) \/ LoadPendingBlocks(c) \/ ProbeBook(c)
             \/ ProbeSize(c) \/ FinishReconcile(c) \/ ConfirmBook(c) \/ CheckLimits(c)
    BY <2>1 DEF GateReject, DropDuplicate, Claim, RefuseUnsafe, Bail, Leave,
         LoadPendingBlocks, ProbeBook, ProbeSize, FinishReconcile, ConfirmBook,
         CheckLimits, Forget, EndReconcile, PC, ClaimedPC
  <2>2. CASE Decide(c) \/ ConfirmSize(c)
    BY <2>2 DEF Decide, ConfirmSize, EndReconcile, StartWrite, PC, ClaimedPC
  <2>3. CASE StartLoop(c) \/ FinishLoop(c) \/ SkipTarget(c) \/ TakeTarget(c)
             \/ SkipSell(c) \/ CheckOwned(c) \/ TakeBaseline(c) \/ ExecuteTrade(c)
             \/ ExecuteFails(c)
    BY <2>3 DEF StartLoop, FinishLoop, SkipTarget, TakeTarget, SkipSell, CheckOwned,
         TakeBaseline, ExecuteTrade, ExecuteFails, StartWrite, NextTarget, PC, ClaimedPC
  <2>4. CASE LoadLedger(c) \/ SaveLedger(c) \/ SaveFails(c)
    BY <2>4 DEF LoadLedger, SaveLedger, SaveFails, NextTarget, AfterReconcileSave,
         EndReconcile, PC, ClaimedPC
  <2>5. QED
    BY <2>1, <2>2, <2>3, <2>4 DEF Handle
<1>3. QED
  BY <1>1, <1>2 DEF Goto, TypeOK

\* As long as no new monitor is created there is one cycle.
LEMMA AloneStep ==
  ASSUME TypeOK, Alone, "reinitialize" \notin Events, [Next]_vars
  PROVE  Alone'
<1>1. CASE UNCHANGED vars
  BY <1>1 DEF vars, control, Alone
<1>2. ASSUME NEW c \in Cycles, Handle(c) PROVE Alone'
  BY <1>2, HandleBusy, HandleLocal DEF Alone, control
<1>3. ASSUME NEW c \in Cycles, Detect(c) PROVE Alone'
  BY <1>3 DEF Detect, Goto, control, Alone, TypeOK
<1>4. ASSUME Environment PROVE Alone'
  BY <1>4 DEF Environment, Tick, Start, Stop, Restart, ExchangeMoves,
       ClearExecutedPositions, PruneOldExecutedPositions, ReinitializeCredentials,
       control, Alone
<1>5. QED
  BY <1>1, <1>2, <1>3, <1>4 DEF Next

\* There is one cycle at the start.
LEMMA AloneInit ==
  ASSUME Init
  PROVE  Alone
BY DEF Init, Alone

-----------------------------------------------------------------------------
(* The rate limit.                                                         *)

\* The share of a wallet is a number.
LEMMA ShareType ==
  ASSUME LimitInv, LimitedTargets, NEW w \in RateLimited
  PROVE  Share(w) \in Nat /\ Cardinality(TargetsOf[w]) \in Nat \ {0}
<1> DEFINE todo == job[FirstCycle].todo
<1>1. Cardinality(TargetsOf[w]) \in Nat \ {0}
  BY FS_CardinalityType, FS_EmptySet DEF LimitedTargets
<1>2. CASE trade[FirstCycle].wallet = w
  <2>1. Cardinality(todo) \in Nat
    BY <1>2, FS_CardinalityType DEF LimitInv, FiniteTodo
  <2>2. QED
    BY <1>1, <1>2, <2>1 DEF Share, MayAdd
<1>3. CASE trade[FirstCycle].wallet # w
  BY <1>1, <1>3 DEF Share
<1>4. QED
  BY <1>2, <1>3

\* The count of a window is a number, and so is its maximum.
LEMMA CountType ==
  ASSUME TypeOK, NEW w \in RateLimited, NEW v \in Windows
  PROVE  perWalletRateLimits[w][v].count \in Nat /\ WindowMax[v] \in Nat /\ w \in Wallets
BY LimitAssumption DEF TypeOK

\* A step that adds to no share and to no window keeps the invariant.
LEMMA ShareKept ==
  ASSUME LimitInv, LimitedTargets, TypeOK', Alone', FiniteTodo',
         UNCHANGED perWalletRateLimits,
         \A w \in RateLimited : Share(w)' \in 0 .. Share(w)
  PROVE  LimitInv'
<1>1. ASSUME NEW w \in RateLimited, NEW v \in Windows
      PROVE  perWalletRateLimits[w][v].count + Share(w)'
               <= WindowMax[v] + Cardinality(TargetsOf[w]) - 1
  <2>1. perWalletRateLimits[w][v].count + Share(w) <= WindowMax[v] + Cardinality(TargetsOf[w]) - 1
    BY DEF LimitInv
  <2>2. perWalletRateLimits[w][v].count \in Nat /\ WindowMax[v] \in Nat
    BY CountType DEF LimitInv
  <2>3. Share(w) \in Nat /\ Cardinality(TargetsOf[w]) \in Nat
    BY ShareType
  <2>4. Share(w)' \in 0 .. Share(w)
    OBVIOUS
  <2>5. QED
    BY <2>1, <2>2, <2>3, <2>4
<1>2. QED
  BY <1>1 DEF LimitInv

\* A cycle that leaves the loop, or stays out of it, has no share.
LEMMA NoShare ==
  ASSUME LimitInv, LimitedTargets, TypeOK', Alone', UNCHANGED perWalletRateLimits,
         FiniteTodo',
         pc'[FirstCycle] \notin {"sizing", "looping", "owning", "unblocked",
                                 "submitting", "load", "save"}
  PROVE  LimitInv'
<1>1. \A w \in RateLimited : Share(w)' = 0
  BY DEF Share, MayAdd
<1>2. \A w \in RateLimited : Share(w)' \in 0 .. Share(w)
  BY <1>1, ShareType
<1>3. QED
  BY <1>2, ShareKept

\* What the one cycle may do to its targets: nothing, drop some, read those of its
\* wallet, or forget its trade.
LEMMA TodoStep ==
  ASSUME LimitInv, LimitedTargets, TypeOK', Handle(FirstCycle)
  PROVE  FiniteTodo'
<1> DEFINE F == FirstCycle
           j == job[F]
           t == trade[F]
<1>0. /\ F \in Cycles /\ pc[F] # "idle" /\ TypeOK
      /\ job[F] \in JobType /\ trade[F] \in Trades
      /\ t.wallet \in RateLimited => IsFiniteSet(j.todo)
      /\ job \in [Cycles -> JobType] /\ trade \in [Cycles -> Trades] /\ pc \in [Cycles -> PC]
  BY HandleBusy, CycleAssumption DEF LimitInv, FiniteTodo, TypeOK
<1>1. \A k : k.todo = {} /\ job'[F] = k => FiniteTodo'
  BY FS_EmptySet DEF FiniteTodo
<1>2. ASSUME job'[F].todo \subseteq j.todo, trade'[F] = t, pc'[F] # "idle"
      PROVE  FiniteTodo'
  BY <1>0, <1>2, FS_Subset DEF FiniteTodo
<1>3. NoJob.todo = {}
  BY DEF NoJob
<1>4. CASE GateReject(F) \/ DropDuplicate(F) \/ Leave(F)
  BY <1>0, <1>1, <1>3, <1>4 DEF GateReject, DropDuplicate, Leave, Forget
<1>5. CASE Claim(F) \/ RefuseUnsafe(F) \/ Bail(F) \/ CheckLimits(F) \/ FinishLoop(F)
           \/ CheckOwned(F) \/ SaveFails(F)
  BY <1>0, <1>2, <1>5 DEF Claim, RefuseUnsafe, Bail, CheckLimits, FinishLoop,
     CheckOwned, SaveFails, Goto
<1>6. CASE StartLoop(F)
  <2>1. /\ job'[F] = [j EXCEPT !.todo = TargetsOf[t.wallet]]
        /\ trade' = trade /\ pc'[F] = "looping"
    BY <1>0, <1>6 DEF StartLoop, SetJob, Goto
  <2>2. job'[F].todo = TargetsOf[t.wallet]
    BY <1>0, <2>1 DEF JobType
  <2>3. QED
    BY <2>1, <2>2 DEF FiniteTodo, LimitedTargets
<1>7. ASSUME NEW k \in JobType, job'[F] = k, k.todo \subseteq j.todo, UNCHANGED trade,
             pc'[F] # "idle"
      PROVE  FiniteTodo'
  BY <1>2, <1>7
<1>8. CASE LoadPendingBlocks(F) \/ ProbeBook(F) \/ ProbeSize(F) \/ ConfirmBook(F)
           \/ TakeBaseline(F) \/ LoadLedger(F)
  <2>1. UNCHANGED trade /\ pc'[F] # "idle"
    BY <1>0, <1>8 DEF LoadPendingBlocks, ProbeBook, ProbeSize, ConfirmBook,
       TakeBaseline, LoadLedger, Goto
  <2>2. \/ \E x : job'[F] = [j EXCEPT !.blocks = x]
        \/ \E x : job'[F] = [j EXCEPT !.book = x]
        \/ \E x : job'[F] = [j EXCEPT !.size = x]
        \/ \E x : job'[F] = [j EXCEPT !.open = x]
        \/ \E x : job'[F] = [j EXCEPT !.base = x]
        \/ \E x : job'[F] = [j EXCEPT !.snap = x]
    BY <1>0, <1>8 DEF LoadPendingBlocks, ProbeBook, ProbeSize, ConfirmBook,
       TakeBaseline, LoadLedger, SetJob
  <2>3. job'[F].todo = j.todo
    BY <1>0, <2>2 DEF JobType
  <2>4. QED
    BY <1>2, <2>1, <2>3
<1>9. CASE Decide(F)
  <2>1. PICK p \in j.blocks, kind \in WriteKind :
          StartWrite(F, [j EXCEPT !.blocks = @ \ {p}, !.blk = {p}, !.checks = p.checks], kind, p)
    BY <1>9 DEF Decide, WriteFor, WriteKind
  <2>2. job'[F].todo = j.todo
    BY <1>0, <2>1 DEF StartWrite, SetJob, JobType
  <2>3. UNCHANGED trade /\ pc'[F] # "idle"
    BY <1>0, <1>9 DEF Decide, StartWrite, Goto
  <2>4. QED
    BY <1>2, <2>2, <2>3
<1>10. CASE FinishReconcile(F)
  BY <1>0, <1>1, <1>3, <1>10 DEF FinishReconcile, EndReconcile, SetJob
<1>11. CASE ConfirmSize(F)
  <2>1. job'[F] = NoJob \/ \E w : job'[F] = [[j EXCEPT !.open = FALSE] EXCEPT !.write = w]
    BY <1>0, <1>11 DEF ConfirmSize, EndReconcile, StartWrite, SetJob
  <2>2. job'[F].todo = {} \/ job'[F].todo = j.todo
    BY <1>0, <1>3, <2>1 DEF JobType
  <2>3. UNCHANGED trade /\ pc'[F] # "idle"
    BY <1>0, <1>11 DEF ConfirmSize, EndReconcile, StartWrite, Goto
  <2>4. QED
    BY <1>1, <1>2, <2>2, <2>3
<1>12. CASE SkipTarget(F) \/ TakeTarget(F)
  <2>1. \E x : job'[F] = [j EXCEPT !.todo = @ \ {x}]
               \/ job'[F] = [j EXCEPT !.todo = @ \ {x}, !.tgt = {x}]
    BY <1>0, <1>12 DEF SkipTarget, TakeTarget, SetJob
  <2>2. job'[F].todo \subseteq j.todo
    BY <1>0, <2>1 DEF JobType
  <2>3. UNCHANGED trade /\ pc'[F] # "idle"
    BY <1>0, <1>12 DEF SkipTarget, TakeTarget, Goto
  <2>4. QED
    BY <1>2, <2>2, <2>3
<1>13. CASE SkipSell(F) \/ ExecuteFails(F)
  <2>1. job'[F] = [j EXCEPT !.tgt = {}, !.base = 0, !.write = {}, !.snap = {}]
    BY <1>0, <1>13 DEF SkipSell, ExecuteFails, NextTarget, SetJob
  <2>2. job'[F].todo = j.todo
    BY <1>0, <2>1 DEF JobType
  <2>3. UNCHANGED trade /\ pc'[F] # "idle"
    BY <1>0, <1>13 DEF SkipSell, ExecuteFails, NextTarget, Goto
  <2>4. QED
    BY <1>2, <2>2, <2>3
<1>14. CASE ExecuteTrade(F)
  <2>1. \E w : job'[F] = [j EXCEPT !.write = w]
    BY <1>0, <1>14 DEF ExecuteTrade, StartWrite, SetJob
  <2>2. job'[F].todo = j.todo
    BY <1>0, <2>1 DEF JobType
  <2>3. UNCHANGED trade /\ pc'[F] # "idle"
    BY <1>0, <1>14 DEF ExecuteTrade, StartWrite, Goto
  <2>4. QED
    BY <1>2, <2>2, <2>3
<1>15. CASE SaveLedger(F)
  <2>1. UNCHANGED trade /\ pc'[F] # "idle"
    BY <1>0, <1>15 DEF SaveLedger, NextTarget, AfterReconcileSave, EndReconcile, Goto
  <2>2. \/ job'[F] = [j EXCEPT !.tgt = {}, !.base = 0, !.write = {}, !.snap = {}]
        \/ job'[F] = NoJob
        \/ \E n : job'[F] = [[j EXCEPT !.write = {}, !.snap = {}] EXCEPT !.checks = n]
        \/ job'[F] = [[j EXCEPT !.write = {}, !.snap = {}] EXCEPT !.blk = {}, !.checks = 0]
    BY <1>0, <1>15 DEF SaveLedger, NextTarget, AfterReconcileSave, EndReconcile, SetJob
  <2>3. job'[F].todo = {} \/ job'[F].todo = j.todo
    BY <1>0, <1>3, <2>2 DEF JobType
  <2>4. QED
    BY <1>1, <1>2, <2>1, <2>3
<1>16. QED
  BY <1>4, <1>5, <1>6, <1>8, <1>9, <1>10, <1>11, <1>12, <1>13, <1>14, <1>15 DEF Handle

\* The steps of the reconciliation add to no share.
LEMMA LimitReconcile ==
  ASSUME LimitInv, LimitedTargets, TypeOK', Alone', FiniteTodo',
         LET F == FirstCycle
         IN  Decide(F) \/ ConfirmSize(F)
  PROVE  LimitInv'
<1> DEFINE F == FirstCycle
<1>0. /\ F \in Cycles /\ job[F] \in JobType
      /\ job \in [Cycles -> JobType] /\ pc \in [Cycles -> PC]
  BY CycleAssumption DEF LimitInv, TypeOK
<1>1. UNCHANGED perWalletRateLimits
  BY DEF Decide, ConfirmSize, memory
<1>2. CASE pc'[F] = "load"
  <2>1. \E kind \in WriteKind \ {"executed", "pending"}, k \in JobType, p \in Records :
          StartWrite(F, k, kind, p)
    <3>1. CASE Decide(F)
      <4>1. PICK p \in job[F].blocks, kind \in WriteKind \ {"executed", "pending"} :
              StartWrite(F, [job[F] EXCEPT !.blocks = @ \ {p}, !.blk = {p},
                                           !.checks = p.checks], kind, p)
        BY <3>1 DEF Decide, WriteFor, WriteKind
      <4>2. p \in Records /\ p.checks \in Nat
        BY <1>0, RecordType DEF JobType
      <4>3. [job[F] EXCEPT !.blocks = @ \ {p}, !.blk = {p}, !.checks = p.checks] \in JobType
        BY <1>0, <4>2 DEF JobType
      <4>4. QED
        BY <4>1, <4>2, <4>3
    <3>2. CASE ConfirmSize(F)
      <4>1. ~EndReconcile(F)
        BY <1>0, <1>2 DEF EndReconcile, Goto
      <4>2. PICK p \in job[F].blk, kind \in WriteKind \ {"executed", "pending"} :
              StartWrite(F, [job[F] EXCEPT !.open = FALSE], kind, p)
        BY <3>2, <4>1 DEF ConfirmSize, WriteFor, WriteKind, DecidePendingOrder
      <4>3. p \in Records /\ [job[F] EXCEPT !.open = FALSE] \in JobType
        BY <1>0 DEF JobType
      <4>4. QED
        BY <4>2, <4>3
    <3>3. QED
      BY <3>1, <3>2
  <2>2. PICK kind \in WriteKind \ {"executed", "pending"}, k \in JobType, p \in Records :
          job'[F] = [k EXCEPT !.write = {[kind |-> kind, rec |-> p]}]
    BY <1>0, <2>1 DEF StartWrite, SetJob
  <2>3. job'[F].write = {[kind |-> kind, rec |-> p]}
    BY <2>2 DEF JobType
  <2>4. ~(\E u \in job'[F].write : u.kind \in {"executed", "pending"})
    BY <2>3
  <2>5. \A w \in RateLimited : Share(w)' = 0
    BY <1>2, <2>4 DEF Share, MayAdd
  <2>6. \A w \in RateLimited : Share(w)' \in 0 .. Share(w)
    BY <2>5, ShareType
  <2>7. QED
    BY <1>1, <2>6, ShareKept
<1>3. CASE pc'[F] # "load"
  <2>1. pc'[F] = "limits"
    BY <1>0, <1>3 DEF Decide, ConfirmSize, StartWrite, EndReconcile, Goto
  <2>2. QED
    BY <1>1, <2>1, NoShare
<1>4. QED
  BY <1>2, <1>3

\* The limit is read: below it, every target of the wallet may be filled once.
LEMMA LimitCheck ==
  ASSUME LimitInv, LimitedTargets, TypeOK', Alone', FiniteTodo', CheckLimits(FirstCycle)
  PROVE  LimitInv'
<1> DEFINE F == FirstCycle
           u == trade[F].wallet
           s == [v \in Windows |-> Refreshed(perWalletRateLimits[u][v], WindowLength[v])]
<1>0. /\ F \in Cycles /\ TypeOK /\ pc \in [Cycles -> PC] /\ UNCHANGED trade
      /\ perWalletRateLimits \in
           [Wallets -> [Windows -> [count : Nat, start : Nat \union {-1}]]]
  BY CycleAssumption DEF LimitInv, TypeOK, CheckLimits
<1>1. CASE u \notin RateLimited
  <2>1. UNCHANGED perWalletRateLimits /\ \A w \in RateLimited : Share(w)' = 0
    BY <1>0, <1>1 DEF CheckLimits, Share
  <2>2. \A w \in RateLimited : Share(w)' \in 0 .. Share(w)
    BY <2>1, ShareType
  <2>3. QED
    BY <2>1, <2>2, ShareKept
<1>2. CASE u \in RateLimited
  <2>1. /\ perWalletRateLimits' = [perWalletRateLimits EXCEPT ![u] = s]
        /\ pc' = [pc EXCEPT ![F] = IF OverLimit(s) THEN "leaving" ELSE "sizing"]
    BY <1>2 DEF CheckLimits, Goto
  <2>2. ASSUME NEW w \in RateLimited, NEW v \in Windows
        PROVE  perWalletRateLimits'[w][v].count + Share(w)'
                 <= WindowMax[v] + Cardinality(TargetsOf[w]) - 1
    <3>1. /\ perWalletRateLimits[w][v].count \in Nat /\ WindowMax[v] \in Nat /\ w \in Wallets
          /\ Cardinality(TargetsOf[w]) \in Nat \ {0} /\ Share(w) \in Nat
          /\ perWalletRateLimits[w][v].count + Share(w)
               <= WindowMax[v] + Cardinality(TargetsOf[w]) - 1
      BY <1>0, CountType, ShareType DEF LimitInv
    <3>2. CASE w # u
      <4>1. perWalletRateLimits'[w][v].count = perWalletRateLimits[w][v].count
        BY <1>0, <2>1, <3>2
      <4>2. Share(w)' = 0
        BY <1>0, <3>2 DEF Share
      <4>3. QED
        BY <3>1, <4>1, <4>2
    <3>3. CASE w = u
      <4>1. perWalletRateLimits'[w][v] = s[v]
        BY <1>0, <2>1, <3>1, <3>3
      <4>2. s[v].count \in Nat /\ s[v].count <= perWalletRateLimits[w][v].count
        BY <3>1, <3>3 DEF Refreshed
      <4>3. CASE OverLimit(s)
        <5>1. pc'[F] = "leaving"
          BY <1>0, <2>1, <4>3
        <5>2. Share(w)' = 0
          BY <5>1 DEF Share, MayAdd
        <5>3. perWalletRateLimits'[w][v].count = s[v].count
          BY <4>1
        <5> HIDE DEF s
        <5>4. QED
          BY <3>1, <4>2, <5>2, <5>3
      <4>4. CASE ~OverLimit(s)
        <5>1. pc'[F] = "sizing"
          BY <1>0, <2>1, <4>4
        <5>2. Share(w)' = Cardinality(TargetsOf[w])
          BY <1>0, <3>3, <5>1 DEF Share, MayAdd
        <5>3. ~(s[v].count >= WindowMax[v])
          BY <4>4 DEF OverLimit
        <5>4. perWalletRateLimits'[w][v].count = s[v].count
          BY <4>1
        <5> HIDE DEF s
        <5>5. QED
          BY <3>1, <4>2, <5>2, <5>3, <5>4
      <4>5. QED
        BY <4>3, <4>4
    <3>4. QED
      BY <3>2, <3>3
  <2>3. QED
    BY <2>2 DEF LimitInv
<1>3. QED
  BY <1>1, <1>2

\* In the loop each target taken is one that was still to do.
LEMMA LimitLoop ==
  ASSUME LimitInv, LimitedTargets, TypeOK', Alone', FiniteTodo',
         LET F == FirstCycle
         IN  StartLoop(F) \/ SkipTarget(F) \/ TakeTarget(F) \/ SkipSell(F)
             \/ CheckOwned(F) \/ TakeBaseline(F) \/ ExecuteTrade(F)
             \/ ExecuteFails(F) \/ LoadLedger(F)
  PROVE  LimitInv'
<1> DEFINE F == FirstCycle
           j == job[F]
<1>0. /\ F \in Cycles /\ TypeOK /\ job[F] \in JobType
      /\ job \in [Cycles -> JobType] /\ pc \in [Cycles -> PC]
  BY CycleAssumption DEF LimitInv, TypeOK
<1>1. UNCHANGED <<perWalletRateLimits, trade>>
  BY DEF StartLoop, SkipTarget, TakeTarget, SkipSell, CheckOwned, TakeBaseline,
     ExecuteTrade, ExecuteFails, LoadLedger, memory
<1>2. SUFFICES ASSUME NEW w \in RateLimited, trade[F].wallet = w
      PROVE  Share(w)' \in 0 .. Share(w)
  <2>1. ASSUME NEW w \in RateLimited, trade[F].wallet # w
        PROVE  Share(w)' \in 0 .. Share(w)
    <3>1. Share(w)' = 0
      BY <1>1, <2>1 DEF Share
    <3>2. QED
      BY <3>1, ShareType
  <2>2. QED
    BY <1>1, <1>2, <2>1, ShareKept
<1>3. /\ Share(w) \in Nat /\ IsFiniteSet(j.todo) /\ Cardinality(j.todo) \in Nat
      /\ trade'[F].wallet = w
  BY <1>1, <1>2, ShareType, FS_CardinalityType DEF LimitInv, FiniteTodo
<1>4. ASSUME job'[F].todo = j.todo PROVE Cardinality(job'[F].todo) = Cardinality(j.todo)
  BY <1>4
<1>5. CASE StartLoop(F)
  <2>1. /\ pc[F] = "sizing" /\ pc'[F] = "looping"
        /\ job'[F] = [j EXCEPT !.todo = TargetsOf[trade[F].wallet]]
    BY <1>0, <1>5 DEF StartLoop, At, Goto, SetJob
  <2>2. job'[F].todo = TargetsOf[w]
    BY <1>0, <1>2, <2>1 DEF JobType
  <2>3. Share(w) = Cardinality(TargetsOf[w]) /\ Share(w)' = Cardinality(job'[F].todo)
    BY <1>2, <1>3, <2>1 DEF Share, MayAdd
  <2>4. QED
    BY <1>3, <2>2, <2>3
<1>6. CASE SkipTarget(F)
  <2>1. PICK x \in j.todo : job'[F] = [j EXCEPT !.todo = @ \ {x}]
    BY <1>0, <1>6 DEF SkipTarget, SetJob
  <2>2. pc[F] = "looping" /\ pc'[F] = "looping"
    BY <1>6 DEF SkipTarget, At
  <2>3. job'[F].todo = j.todo \ {x}
    BY <1>0, <2>1 DEF JobType
  <2>4. Share(w) = Cardinality(j.todo) /\ Share(w)' = Cardinality(job'[F].todo)
    BY <1>2, <1>3, <2>2 DEF Share, MayAdd
  <2>5. Cardinality(j.todo \ {x}) = Cardinality(j.todo) - 1 /\ Cardinality(j.todo \ {x}) \in Nat
    BY <1>3, <2>1, FS_RemoveElement, FS_CardinalityType
  <2>6. QED
    BY <1>3, <2>3, <2>4, <2>5
<1>7. CASE TakeTarget(F)
  <2>1. PICK x \in j.todo : job'[F] = [j EXCEPT !.todo = @ \ {x}, !.tgt = {x}]
    BY <1>0, <1>7 DEF TakeTarget, SetJob
  <2>2. pc[F] = "looping" /\ pc'[F] \in {"owning", "unblocked"}
    BY <1>0, <1>7 DEF TakeTarget, At, Goto
  <2>3. job'[F].todo = j.todo \ {x}
    BY <1>0, <2>1 DEF JobType
  <2>4. Share(w) = Cardinality(j.todo) /\ Share(w)' = Cardinality(job'[F].todo) + 1
    BY <1>2, <1>3, <2>2 DEF Share, MayAdd
  <2>5. Cardinality(j.todo \ {x}) = Cardinality(j.todo) - 1 /\ Cardinality(j.todo \ {x}) \in Nat
    BY <1>3, <2>1, FS_RemoveElement, FS_CardinalityType
  <2>6. QED
    BY <1>3, <2>3, <2>4, <2>5
<1>8. CASE SkipSell(F) \/ ExecuteFails(F)
  <2>1. /\ pc[F] \in {"owning", "submitting"} /\ pc'[F] = "looping"
        /\ job'[F] = [j EXCEPT !.tgt = {}, !.base = 0, !.write = {}, !.snap = {}]
    BY <1>0, <1>8 DEF SkipSell, ExecuteFails, NextTarget, SetJob, At, Goto
  <2>2. job'[F].todo = j.todo
    BY <1>0, <2>1 DEF JobType
  <2>3. Share(w) = Cardinality(j.todo) + 1 /\ Share(w)' = Cardinality(job'[F].todo)
    BY <1>2, <1>3, <2>1 DEF Share, MayAdd
  <2>4. QED
    BY <1>3, <1>4, <2>2, <2>3
<1>9. CASE CheckOwned(F)
  <2>1. pc[F] = "owning" /\ pc'[F] = "unblocked" /\ job' = job
    BY <1>0, <1>9 DEF CheckOwned, At, Goto
  <2>2. Share(w) = Cardinality(j.todo) + 1 /\ Share(w)' = Cardinality(job'[F].todo) + 1
    BY <1>2, <1>3, <2>1 DEF Share, MayAdd
  <2>3. QED
    BY <1>3, <1>4, <2>1, <2>2
<1>10. CASE TakeBaseline(F)
  <2>1. pc[F] = "unblocked" /\ pc'[F] \in {"submitting", "leaving"}
    BY <1>0, <1>10 DEF TakeBaseline, At, Goto
  <2>2. \E x : job'[F] = [j EXCEPT !.base = x]
    BY <1>0, <1>10 DEF TakeBaseline, SetJob
  <2>3. job'[F].todo = j.todo
    BY <1>0, <2>2 DEF JobType
  <2>4. Share(w) = Cardinality(j.todo) + 1
    BY <1>2, <2>1 DEF Share, MayAdd
  <2>5. Share(w)' = Cardinality(job'[F].todo) + 1 \/ Share(w)' = 0
    BY <1>3, <2>1 DEF Share, MayAdd
  <2>6. QED
    BY <1>3, <1>4, <2>3, <2>4, <2>5
<1>11. CASE ExecuteTrade(F)
  <2>1. \E kind \in {"executed", "pending"} : \E r :
          job'[F] = [j EXCEPT !.write = {[kind |-> kind, rec |-> r]}]
    BY <1>0, <1>11 DEF ExecuteTrade, StartWrite, SetJob
  <2>2. pc[F] = "submitting" /\ pc'[F] = "load"
    BY <1>0, <1>11 DEF ExecuteTrade, StartWrite, At, Goto
  <2>3. /\ job'[F].todo = j.todo
        /\ \E kind \in {"executed", "pending"} : \E r :
             job'[F].write = {[kind |-> kind, rec |-> r]}
    BY <1>0, <2>1 DEF JobType
  <2>4. Share(w) = Cardinality(j.todo) + 1
    BY <1>2, <2>2 DEF Share, MayAdd
  <2>5. \E u \in job'[F].write : u.kind \in {"executed", "pending"}
    BY <2>3
  <2>6. Share(w)' = Cardinality(job'[F].todo) + 1
    BY <1>3, <2>2, <2>5 DEF Share, MayAdd
  <2>7. QED
    BY <1>3, <1>4, <2>3, <2>4, <2>6
<1>12. CASE LoadLedger(F)
  <2>1. pc[F] = "load" /\ pc'[F] = "save" /\ job'[F] = [j EXCEPT !.snap = ledger]
    BY <1>0, <1>12 DEF LoadLedger, At, Goto, SetJob
  <2>2. job'[F].todo = j.todo /\ job'[F].write = j.write
    BY <1>0, <2>1 DEF JobType
  <2>3. CASE \E u \in j.write : u.kind \in {"executed", "pending"}
    <3>1. Share(w) = Cardinality(j.todo) + 1
      BY <1>2, <2>1, <2>3 DEF Share, MayAdd
    <3>2. Share(w)' = Cardinality(job'[F].todo) + 1
      BY <1>3, <2>1, <2>2, <2>3 DEF Share, MayAdd
    <3>3. QED
      BY <1>3, <1>4, <2>2, <3>1, <3>2
  <2>4. CASE ~(\E u \in j.write : u.kind \in {"executed", "pending"})
    <3>1. Share(w)' = 0
      BY <1>3, <2>1, <2>2, <2>4 DEF Share, MayAdd
    <3>2. QED
      BY <1>3, <3>1
  <2>5. QED
    BY <2>3, <2>4
<1>13. QED
  BY <1>5, <1>6, <1>7, <1>8, <1>9, <1>10, <1>11, <1>12

\* A fill that is recorded uses up one of the share of its wallet.
LEMMA LimitSave ==
  ASSUME LimitInv, LimitedTargets, TypeOK', Alone', FiniteTodo', SaveLedger(FirstCycle)
  PROVE  LimitInv'
<1> DEFINE F == FirstCycle
           j == job[F]
           u == trade[F].wallet
<1>0. /\ F \in Cycles /\ TypeOK /\ job[F] \in JobType /\ trade[F] \in Trades
      /\ job \in [Cycles -> JobType] /\ pc \in [Cycles -> PC] /\ UNCHANGED trade
      /\ perWalletRateLimits \in
           [Wallets -> [Windows -> [count : Nat, start : Nat \union {-1}]]]
  BY CycleAssumption DEF LimitInv, TypeOK, SaveLedger
<1>1. PICK w \in j.write :
        IF w.kind \in {"executed", "pending"}
          THEN /\ IF w.kind = "executed" THEN CountFill(trade[F])
                  ELSE UNCHANGED perWalletRateLimits
               /\ NextTarget(F, j)
          ELSE AfterReconcileSave(F, w) /\ UNCHANGED perWalletRateLimits
  BY DEF SaveLedger
<1>2. pc[F] = "save"
  BY DEF SaveLedger, At
<1>3. CASE w.kind \notin {"executed", "pending"}
  <2>1. pc'[F] \in {"limits", "confirmBook", "deciding"}
    BY <1>0, <1>1, <1>3 DEF AfterReconcileSave, EndReconcile, Goto
  <2>2. QED
    BY <1>1, <1>3, <2>1, NoShare
<1>4. CASE w.kind \in {"executed", "pending"}
  <2>1. /\ pc'[F] = "looping"
        /\ job'[F] = [j EXCEPT !.tgt = {}, !.base = 0, !.write = {}, !.snap = {}]
    BY <1>0, <1>1, <1>4 DEF NextTarget, SetJob, Goto
  <2>2. job'[F].todo = j.todo
    BY <1>0, <2>1 DEF JobType
  <2>3. ASSUME NEW x \in RateLimited, NEW v \in Windows
        PROVE  perWalletRateLimits'[x][v].count + Share(x)'
                 <= WindowMax[v] + Cardinality(TargetsOf[x]) - 1
    <3>1. /\ perWalletRateLimits[x][v].count \in Nat /\ WindowMax[v] \in Nat /\ x \in Wallets
          /\ Cardinality(TargetsOf[x]) \in Nat \ {0} /\ Share(x) \in Nat
          /\ perWalletRateLimits[x][v].count + Share(x)
               <= WindowMax[v] + Cardinality(TargetsOf[x]) - 1
      BY <1>0, CountType, ShareType DEF LimitInv
    <3>2. CASE x # u
      <4>1. Share(x)' = 0
        BY <1>0, <3>2 DEF Share
      <4>2. \/ perWalletRateLimits' = perWalletRateLimits
            \/ perWalletRateLimits' = [perWalletRateLimits EXCEPT ![u] = OneMore(u)]
        BY <1>1, <1>4 DEF CountFill
      <4>3. perWalletRateLimits'[x] = perWalletRateLimits[x]
        BY <1>0, <3>1, <3>2, <4>2
      <4>4. QED
        BY <3>1, <4>1, <4>3
    <3>3. CASE x = u
      <4>1. Cardinality(j.todo) \in Nat
        BY <3>3, FS_CardinalityType DEF LimitInv, FiniteTodo
      <4>2. Share(x) = Cardinality(j.todo) + 1
        BY <1>2, <1>4, <3>3 DEF Share, MayAdd
      <4>3. Share(x)' = Cardinality(job'[F].todo)
        BY <1>0, <2>1, <3>3 DEF Share, MayAdd
      <4>4. Cardinality(job'[F].todo) = Cardinality(j.todo)
        BY <2>2
      <4>5. \/ perWalletRateLimits'[x][v].count = perWalletRateLimits[x][v].count
            \/ perWalletRateLimits'[x][v].count = perWalletRateLimits[x][v].count + 1
        <5>1. CASE UNCHANGED perWalletRateLimits
          BY <5>1
        <5>2. CASE perWalletRateLimits' = [perWalletRateLimits EXCEPT ![u] = OneMore(u)]
          <6>1. perWalletRateLimits'[x][v] = [perWalletRateLimits[x][v] EXCEPT !.count = @ + 1]
            BY <1>0, <3>1, <3>3, <5>2 DEF OneMore
          <6>2. perWalletRateLimits[x][v] \in [count : Nat, start : Nat \union {-1}]
            BY <1>0, <3>1
          <6>3. QED
            BY <6>1, <6>2
        <5>3. QED
          BY <1>1, <1>4, <5>1, <5>2 DEF CountFill
      <4>6. QED
        BY <3>1, <4>1, <4>2, <4>3, <4>4, <4>5
    <3>4. QED
      BY <3>2, <3>3
  <2>4. QED
    BY <2>3 DEF LimitInv
<1>5. QED
  BY <1>3, <1>4

\* LimitInv is inductive.
LEMMA LimitStep ==
  ASSUME LimitInv, LimitedTargets, "reinitialize" \notin Events, [Next]_vars
  PROVE  LimitInv'
<1> DEFINE F == FirstCycle
<1>0. /\ F \in Cycles /\ TypeOK' /\ Alone' /\ TypeOK
      /\ pc \in [Cycles -> PC] /\ job \in [Cycles -> JobType] /\ trade \in [Cycles -> Trades]
  BY TypeStep, AloneStep, CycleAssumption DEF LimitInv, TypeOK
<1>1. ASSUME UNCHANGED <<perWalletRateLimits, pc, trade, job>> PROVE LimitInv'
  <2>1. FiniteTodo'
    BY <1>1 DEF LimitInv, FiniteTodo
  <2>2. \A w \in RateLimited : Share(w)' = Share(w)
    BY <1>1 DEF Share, MayAdd
  <2>3. \A w \in RateLimited : Share(w)' \in 0 .. Share(w)
    BY <2>2, ShareType
  <2>4. QED
    BY <1>0, <1>1, <2>1, <2>3, ShareKept
<1>2. CASE UNCHANGED vars
  BY <1>1, <1>2 DEF vars, memory
<1>3. ASSUME NEW c \in Cycles, Detect(c) PROVE LimitInv'
  <2>1. c = F
    BY <1>3 DEF Detect, LimitInv, Alone
  <2>2. pc[F] = "idle" /\ pc'[F] = "entered" /\ UNCHANGED <<job, perWalletRateLimits>>
    BY <1>0, <1>3, <2>1 DEF Detect, At, Goto, memory
  <2>3. FiniteTodo'
    BY <2>2, FS_EmptySet DEF LimitInv, FiniteTodo
  <2>4. QED
    BY <1>0, <2>2, <2>3, NoShare
<1>4. ASSUME NEW c \in Cycles, Handle(c) PROVE LimitInv'
  <2>1. c = F
    BY <1>4, HandleBusy DEF LimitInv, Alone
  <2>2. Handle(F)
    BY <1>4, <2>1
  <2>3. FiniteTodo'
    BY <1>0, <2>2, TodoStep
  <2>4. CASE GateReject(F) \/ DropDuplicate(F) \/ Claim(F) \/ RefuseUnsafe(F) \/ Bail(F)
             \/ Leave(F) \/ LoadPendingBlocks(F) \/ ProbeBook(F) \/ ProbeSize(F)
             \/ FinishReconcile(F) \/ ConfirmBook(F) \/ FinishLoop(F) \/ SaveFails(F)
    <3>1. UNCHANGED perWalletRateLimits
      BY <2>4 DEF GateReject, DropDuplicate, Claim, RefuseUnsafe, Bail, Leave,
         LoadPendingBlocks, ProbeBook, ProbeSize, FinishReconcile, ConfirmBook,
         FinishLoop, SaveFails, memory
    <3>2. pc'[F] \in {"idle", "claimed", "leaving", "limits", "probeBook", "probeSize",
                      "deciding", "confirmSize"}
      BY <1>0, <2>4 DEF GateReject, DropDuplicate, Claim, RefuseUnsafe, Bail, Leave,
         LoadPendingBlocks, ProbeBook, ProbeSize, FinishReconcile, ConfirmBook,
         FinishLoop, SaveFails, Forget, EndReconcile, Goto
    <3>3. QED
      BY <1>0, <2>3, <3>1, <3>2, NoShare
  <2>5. CASE Decide(F) \/ ConfirmSize(F)
    BY <1>0, <2>3, <2>5, LimitReconcile
  <2>6. CASE CheckLimits(F)
    BY <1>0, <2>3, <2>6, LimitCheck
  <2>7. CASE StartLoop(F) \/ SkipTarget(F) \/ TakeTarget(F) \/ SkipSell(F)
             \/ CheckOwned(F) \/ TakeBaseline(F) \/ ExecuteTrade(F)
             \/ ExecuteFails(F) \/ LoadLedger(F)
    BY <1>0, <2>3, <2>7, LimitLoop
  <2>8. CASE SaveLedger(F)
    BY <1>0, <2>3, <2>8, LimitSave
  <2>9. QED
    BY <2>2, <2>4, <2>5, <2>6, <2>7, <2>8 DEF Handle
<1>5. ASSUME Environment PROVE LimitInv'
  <2>1. CASE Restart
    <3>1. /\ pc'[F] = "idle" /\ job'[F] = NoJob
          /\ perWalletRateLimits' = [w \in Wallets |-> [v \in Windows |-> Unset]]
      BY <1>0, <2>1 DEF Restart
    <3>2. FiniteTodo'
      BY <3>1, FS_EmptySet DEF FiniteTodo, NoJob
    <3>3. ASSUME NEW w \in RateLimited, NEW v \in Windows
          PROVE  perWalletRateLimits'[w][v].count + Share(w)'
                   <= WindowMax[v] + Cardinality(TargetsOf[w]) - 1
      <4>1. /\ WindowMax[v] \in Nat /\ w \in Wallets
            /\ Cardinality(TargetsOf[w]) \in Nat \ {0}
        BY <1>0, CountType, ShareType
      <4>2. Share(w)' = 0
        BY <3>1 DEF Share, MayAdd
      <4>3. perWalletRateLimits'[w][v].count = 0
        BY <3>1, <4>1 DEF Unset
      <4>4. QED
        BY <4>1, <4>2, <4>3
    <3>4. QED
      BY <1>0, <3>2, <3>3 DEF LimitInv
  <2>2. CASE ~Restart
    BY <1>1, <1>5, <2>2 DEF Environment, Tick, Start, Stop, ExchangeMoves,
       ClearExecutedPositions, PruneOldExecutedPositions, ReinitializeCredentials, memory
  <2>3. QED
    BY <2>1, <2>2
<1>6. QED
  BY <1>2, <1>3, <1>4, <1>5 DEF Next

\* LimitInv holds at the start.
LEMMA LimitInit ==
  ASSUME Init, LimitedTargets
  PROVE  LimitInv
<1>1. TypeOK /\ Alone
  BY TypeInit, AloneInit
<1>2. pc[FirstCycle] = "idle" /\ job[FirstCycle] = NoJob
  BY CycleAssumption DEF Init
<1>3. FiniteTodo
  BY <1>2, FS_EmptySet DEF FiniteTodo, NoJob
<1>4. ASSUME NEW w \in RateLimited, NEW v \in Windows
      PROVE  perWalletRateLimits[w][v].count + Share(w)
               <= WindowMax[v] + Cardinality(TargetsOf[w]) - 1
  <2>1. WindowMax[v] \in Nat /\ w \in Wallets
    BY <1>1, CountType
  <2>2. Cardinality(TargetsOf[w]) \in Nat \ {0}
    BY FS_CardinalityType, FS_EmptySet DEF LimitedTargets
  <2>3. Share(w) = 0
    BY <1>2 DEF Share, MayAdd
  <2>4. perWalletRateLimits[w][v].count = 0
    BY <2>1 DEF Init, Unset
  <2>5. QED
    BY <2>1, <2>2, <2>3, <2>4
<1>5. QED
  BY <1>1, <1>3, <1>4 DEF LimitInv

\* The rate limit is read once for all the targets of a detection: as long as no
\* second monitor handles other trades meanwhile, a window exceeds its maximum
\* by the targets less one at most, through crashes, lost answers and failed saves.
THEOREM FanOutBounded ==
  ASSUME LimitedTargets, "reinitialize" \notin Events
  PROVE  Spec => []RateLimitFanOut
<1>1. Init => LimitInv
  BY LimitInit
<1>2. LimitInv /\ [Next]_vars => LimitInv'
  BY LimitStep
<1>3. LimitInv => RateLimitFanOut
  <2>1. SUFFICES ASSUME LimitInv, NEW w \in RateLimited, NEW v \in Windows
        PROVE  perWalletRateLimits[w][v].count <= WindowMax[v] + Cardinality(TargetsOf[w]) - 1
    BY DEF RateLimitFanOut
  <2>2. Share(w) \in Nat /\ Cardinality(TargetsOf[w]) \in Nat
    BY <2>1, ShareType
  <2>3. perWalletRateLimits[w][v].count \in Nat /\ WindowMax[v] \in Nat
    BY <2>1, CountType DEF LimitInv
  <2>4. perWalletRateLimits[w][v].count + Share(w) <= WindowMax[v] + Cardinality(TargetsOf[w]) - 1
    BY <2>1 DEF LimitInv
  <2>5. QED
    BY <2>2, <2>3, <2>4
<1>4. QED
  BY <1>1, <1>2, <1>3, PTL DEF Spec

-----------------------------------------------------------------------------
(* The exchange, as the proofs below see it.                               *)

\* The orders are a sequence.
LEMMA OrdersType ==
  ASSUME TypeOK
  PROVE  /\ Len(orders) \in Nat /\ DOMAIN orders = 1 .. Len(orders)
         /\ \A i \in DOMAIN orders :
              /\ orders[i] \in Order(Keys, Sides, Trades)
              /\ orders[i].nr \in Keys /\ orders[i].side \in Sides /\ orders[i].at \in Nat
              /\ orders[i].state \in OrderState /\ orders[i].copies \in Trades
<1>1. /\ Len(orders) \in Nat /\ DOMAIN orders = 1 .. Len(orders)
      /\ \A i \in DOMAIN orders : orders[i] \in Order(Keys, Sides, Trades)
  BY DEF TypeOK
<1>2. \A o \in Order(Keys, Sides, Trades) :
        /\ o.nr \in Keys /\ o.side \in Sides /\ o.at \in Nat
        /\ o.state \in OrderState /\ o.copies \in Trades
  BY DEF Order
<1>3. QED
  BY <1>1, <1>2

\* The exchange moves one order, off the book or into the positions index.
LEMMA ExchangeFacts ==
  ASSUME TypeOK, ExchangeStep
  PROVE  /\ DOMAIN orders' = DOMAIN orders
         /\ \A k \in DOMAIN orders :
              /\ orders'[k].nr = orders[k].nr /\ orders'[k].side = orders[k].side
              /\ orders'[k].copies = orders[k].copies /\ orders'[k].at = orders[k].at
         /\ \E i \in DOMAIN orders :
              /\ \A k \in DOMAIN orders \ {i} : orders'[k] = orders[k]
              /\ \/ orders[i].state = "live" /\ orders'[i].state \in {Matched, "dead"}
                 \/ orders[i].state = "filled" /\ orders'[i].state = "indexed"
<1>1. PICK i \in DOMAIN orders, state \in OrderState :
        /\ orders' = [orders EXCEPT ![i].state = state]
        /\ \/ orders[i].state = "live" /\ state \in {Matched, "dead"}
           \/ orders[i].state = "filled" /\ state = "indexed"
  BY DEF ExchangeStep, Match, Index, Cancel, Become, Matched, OrderState
<1>2. orders[i] \in Order(Keys, Sides, Trades) /\ DOMAIN orders = 1 .. Len(orders)
  BY OrdersType
<1>3. DOMAIN orders' = DOMAIN orders /\ \A k \in DOMAIN orders \ {i} : orders'[k] = orders[k]
  BY <1>1
<1>4. orders'[i] = [orders[i] EXCEPT !.state = state]
  BY <1>1
<1>5. /\ orders'[i].state = state /\ orders'[i].nr = orders[i].nr
      /\ orders'[i].side = orders[i].side /\ orders'[i].copies = orders[i].copies
      /\ orders'[i].at = orders[i].at
  BY <1>2, <1>4 DEF Order
<1>6. \A k \in DOMAIN orders :
        /\ orders'[k].nr = orders[k].nr /\ orders'[k].side = orders[k].side
        /\ orders'[k].copies = orders[k].copies /\ orders'[k].at = orders[k].at
  BY <1>3, <1>5
<1>7. QED
  BY <1>1, <1>3, <1>5, <1>6

\* An accepted order comes after all the others.
LEMMA PlaceFacts ==
  ASSUME TypeOK, NEW c \in Cycles, NEW g \in Targets, NEW state \in OrderState,
         Place(c, g, state)
  PROVE  LET n == Len(orders) + 1
         IN  /\ DOMAIN orders' = DOMAIN orders \union {n} /\ n \notin DOMAIN orders
             /\ \A k \in DOMAIN orders : orders'[k] = orders[k]
             /\ orders'[n] = [nr |-> Key(c, g), side |-> trade[c].side,
                              copies |-> trade[c], at |-> now, state |-> state]
<1>1. Len(orders) \in Nat /\ orders \in Seq(Order(Keys, Sides, Trades))
  BY DEF TypeOK
<1>2. PICK o : o = [nr |-> Key(c, g), side |-> trade[c].side,
                    copies |-> trade[c], at |-> now, state |-> state]
  OBVIOUS
<1>3. orders' = Append(orders, o)
  BY <1>2 DEF Place, Accept
<1>4. o \in Order(Keys, Sides, Trades)
  <2>1. trade[c] \in Trades /\ trade[c].pos \in Positions /\ trade[c].side \in Sides
    BY TradeAssumption DEF TypeOK, TradeType
  <2>2. QED
    BY <1>2, <2>1 DEF Key, Keys, Order, TypeOK
<1>5. /\ Len(orders') = Len(orders) + 1 /\ DOMAIN orders' = 1 .. Len(orders')
      /\ orders'[Len(orders) + 1] = o
      /\ \A k \in 1 .. Len(orders) : orders'[k] = orders[k]
  BY <1>1, <1>3, <1>4
<1>6. DOMAIN orders = 1 .. Len(orders)
  BY <1>1
<1>7. QED
  BY <1>1, <1>2, <1>5, <1>6

-----------------------------------------------------------------------------
(* The locals of the one cycle, step by step.                              *)

\* A cycle without locals promises nothing.
LEMMA NoLocals ==
  ASSUME NEW t, NEW label \in PC \ {"confirmBook", "confirmSize", "load", "save"}
  PROVE  LocalsSound(label, NoJob, t)
BY DEF LocalsSound, NoJob

\* The invariant as it reads at a step of the one cycle.
LEMMA AtStep ==
  ASSUME LedgerInv, Handle(FirstCycle)
  PROVE  /\ FirstCycle \in Cycles /\ TypeOK
         /\ job[FirstCycle] \in JobType /\ trade[FirstCycle] \in Trades
         /\ pc \in [Cycles -> PC] /\ job \in [Cycles -> JobType] /\ trade \in [Cycles -> Trades]
         /\ LocalsSound(pc[FirstCycle], job[FirstCycle], trade[FirstCycle])
BY CycleAssumption DEF LedgerInv, TypeOK

\* The pending records that the reconciliation has read, at a step.
LEMMA BlocksKnown ==
  ASSUME LedgerInv, NEW p \in ledger
  PROVE  /\ p \in Records /\ p.order \in DOMAIN orders /\ orders[p.order].nr = p.nr
         /\ p.nr \in Keys /\ p.nr[2] = BookProbe
BY RecordType DEF LedgerInv, RecordsSound, TypeOK

\* A step that leaves orders and ledger alone keeps the invariant if the locals
\* that it leaves are sound.
LEMMA LocalsStep ==
  ASSUME LedgerInv, TypeOK', Alone', UNCHANGED <<orders, ledger>>,
         pc[FirstCycle] \notin {"load", "save"},
         NEW l, NEW k, NEW t, pc'[FirstCycle] = l, job'[FirstCycle] = k,
         trade'[FirstCycle] = t, LocalsSound(l, k, t)
  PROVE  LedgerInv'
<1>1. LocalsSound(pc[FirstCycle], job[FirstCycle], trade[FirstCycle])'
  BY DEF LocalsSound, Live, Tracked, Unledgered, UpdateSound, PlacedSound
<1>2. RecordsSound'
  BY DEF LedgerInv, RecordsSound
<1>3. LiveOrderLedgered'
  <2>1. \A i : ~BeingRecorded(i)
    BY DEF LedgerInv, Alone, BeingRecorded
  <2>2. \A i \in DOMAIN orders : orders[i].state = "live" =>
          \E p \in ledger : p.nr = orders[i].nr /\ p.order = i /\ Pending(p)
    BY <2>1 DEF LedgerInv, LiveOrderLedgered
  <2>3. QED
    BY <2>2 DEF LiveOrderLedgered
<1>4. QED
  BY <1>1, <1>2, <1>3 DEF LedgerInv

\* The steps of the claim and of the release.
LEMMA LedgerClaim ==
  ASSUME LedgerInv, TypeOK', Alone',
         LET F == FirstCycle
         IN  GateReject(F) \/ DropDuplicate(F) \/ Claim(F) \/ RefuseUnsafe(F)
             \/ Bail(F) \/ Leave(F) \/ FinishReconcile(F) \/ CheckLimits(F)
  PROVE  LedgerInv'
<1> DEFINE F == FirstCycle
           j == job[F]
           t == trade[F]
<1>0. /\ F \in Cycles /\ pc \in [Cycles -> PC] /\ job \in [Cycles -> JobType]
      /\ trade \in [Cycles -> Trades] /\ LocalsSound(pc[F], j, t)
  BY AtStep DEF Handle
<1>1. UNCHANGED <<orders, ledger>> /\ pc[F] \notin {"load", "save"}
  BY DEF GateReject, DropDuplicate, Claim, RefuseUnsafe, Bail, Leave, FinishReconcile,
     CheckLimits, At
<1>2. CASE GateReject(F) \/ DropDuplicate(F) \/ Leave(F)
  <2>1. pc'[F] = "idle" /\ job'[F] = NoJob
    BY <1>0, <1>2 DEF GateReject, DropDuplicate, Leave, Forget, Goto
  <2>2. LocalsSound("idle", NoJob, trade'[F])
    BY NoLocals DEF PC
  <2>3. QED
    BY <1>1, <2>1, <2>2, LocalsStep
<1>3. CASE FinishReconcile(F)
  <2>1. pc'[F] = "limits" /\ job'[F] = NoJob
    BY <1>0, <1>3 DEF FinishReconcile, EndReconcile, Goto, SetJob
  <2>2. LocalsSound("limits", NoJob, trade'[F])
    BY NoLocals DEF PC, ClaimedPC
  <2>3. QED
    BY <1>1, <2>1, <2>2, LocalsStep
<1>4. CASE Claim(F)
  <2>1. pc[F] = "entered" /\ pc'[F] = "claimed" /\ UNCHANGED <<job, trade>>
    BY <1>0, <1>4 DEF Claim, At, Goto
  <2>2. j = NoJob
    BY <1>0, <2>1 DEF LocalsSound
  <2>3. LocalsSound("claimed", j, t)
    BY <2>2, NoLocals DEF PC, ClaimedPC
  <2>4. QED
    BY <1>1, <2>1, <2>3, LocalsStep
<1>5. ASSUME pc'[F] = "leaving", UNCHANGED <<job, trade>> PROVE LedgerInv'
  <2>1. LocalsSound("leaving", j, t)
    BY <1>0 DEF LocalsSound
  <2>2. QED
    BY <1>1, <1>5, <2>1, LocalsStep
<1>6. CASE RefuseUnsafe(F) \/ Bail(F)
  BY <1>0, <1>5, <1>6 DEF RefuseUnsafe, Bail, Goto
<1>7. CASE CheckLimits(F)
  <2>1. pc[F] = "limits" /\ pc'[F] \in {"leaving", "sizing"} /\ UNCHANGED <<job, trade>>
    BY <1>0, <1>7 DEF CheckLimits, At, Goto
  <2>2. j = NoJob
    BY <1>0, <2>1 DEF LocalsSound
  <2>3. LocalsSound("sizing", j, t)
    BY <2>2, NoLocals DEF PC, ClaimedPC
  <2>4. QED
    BY <1>1, <1>5, <2>1, <2>3, LocalsStep
<1>8. QED
  BY <1>2, <1>3, <1>4, <1>6, <1>7

\* The pending blocks are read, then the open orders and the position.
LEMMA LedgerProbe ==
  ASSUME LedgerInv, TypeOK', Alone',
         LET F == FirstCycle
         IN  LoadPendingBlocks(F) \/ ProbeBook(F) \/ ProbeSize(F)
  PROVE  LedgerInv'
<1> DEFINE F == FirstCycle
           j == job[F]
           t == trade[F]
<1>0. /\ F \in Cycles /\ pc \in [Cycles -> PC] /\ job \in [Cycles -> JobType]
      /\ trade \in [Cycles -> Trades] /\ LocalsSound(pc[F], j, t) /\ j \in JobType
  BY AtStep DEF Handle
<1>1. UNCHANGED <<orders, ledger, trade>> /\ pc[F] \notin {"load", "save"}
  BY DEF LoadPendingBlocks, ProbeBook, ProbeSize, At
<1>2. CASE LoadPendingBlocks(F)
  <2>1. PICK k : k = [j EXCEPT !.blocks = PendingBlocks(t)]
    OBVIOUS
  <2>2. /\ pc[F] = "claimed" /\ job'[F] = k
        /\ pc'[F] = IF PendingBlocks(t) = {} THEN "limits" ELSE "probeBook"
    BY <1>0, <1>2, <2>1 DEF LoadPendingBlocks, At, Goto, SetJob
  <2>3. j = NoJob
    BY <1>0, <2>2 DEF LocalsSound
  <2>4. CASE PendingBlocks(t) = {}
    <3>1. k = NoJob
      BY <2>1, <2>3, <2>4 DEF NoJob
    <3>2. LocalsSound("limits", k, t)
      BY <3>1, NoLocals DEF PC, ClaimedPC
    <3>3. QED
      BY <1>1, <2>2, <2>4, <3>2, LocalsStep
  <2>5. CASE PendingBlocks(t) # {}
    <3>1. /\ k.blocks = PendingBlocks(t) /\ k.blk = {} /\ k.todo = {} /\ k.tgt = {}
      BY <2>1, <2>3 DEF NoJob
    <3>2. \A p \in PendingBlocks(t) : p \in ledger /\ Pending(p) /\ p.nr[1] = t.pos
      BY DEF PendingBlocks
    <3>3. LocalsSound("probeBook", k, t)
      BY <3>1, <3>2 DEF LocalsSound
    <3>4. QED
      BY <1>1, <2>2, <2>5, <3>3, LocalsStep
  <2>6. QED
    BY <2>4, <2>5
<1>3. CASE ProbeBook(F)
  <2>1. PICK k : k = [j EXCEPT !.book = OpenOrders(BookProbe)]
    OBVIOUS
  <2>2. pc[F] = "probeBook" /\ job'[F] = k /\ pc'[F] = "probeSize"
    BY <1>0, <1>3, <2>1 DEF ProbeBook, At, Goto, SetJob
  <2>3. /\ k.blocks = j.blocks /\ k.blk = j.blk /\ k.todo = j.todo /\ k.tgt = j.tgt
        /\ k.book = OpenOrders(BookProbe)
    BY <1>0, <2>1 DEF JobType
  <2>4. \A p \in j.blocks : p.order \in OpenOrders(BookProbe) \/ ~Live(p.order)
    BY <1>0, BlocksKnown DEF LocalsSound, OpenOrders, Live
  <2>5. LocalsSound("probeSize", k, t)
    BY <1>0, <2>2, <2>3, <2>4 DEF LocalsSound
  <2>6. QED
    BY <1>1, <2>2, <2>5, LocalsStep
<1>4. CASE ProbeSize(F)
  <2>1. PICK k : k = [j EXCEPT !.size = PositionSize(<<t.pos, SizeProbe>>)]
    OBVIOUS
  <2>2. pc[F] = "probeSize" /\ job'[F] = k /\ pc'[F] = "deciding"
    BY <1>0, <1>4, <2>1 DEF ProbeSize, At, Goto, SetJob
  <2>3. /\ k.blocks = j.blocks /\ k.blk = j.blk /\ k.todo = j.todo /\ k.tgt = j.tgt
        /\ k.book = j.book
    BY <1>0, <2>1 DEF JobType
  <2>4. LocalsSound("deciding", k, t)
    BY <1>0, <2>2, <2>3 DEF LocalsSound
  <2>5. QED
    BY <1>1, <2>2, <2>4, LocalsStep
<1>5. QED
  BY <1>2, <1>3, <1>4

\* The reconciliation decides on one block: an order it takes for gone has left
\* the book.
LEMMA LedgerDecide ==
  ASSUME LedgerInv, TypeOK', Alone', Decide(FirstCycle)
  PROVE  LedgerInv'
<1> DEFINE F == FirstCycle
           j == job[F]
           t == trade[F]
<1>0. /\ F \in Cycles /\ pc \in [Cycles -> PC] /\ job \in [Cycles -> JobType]
      /\ trade \in [Cycles -> Trades] /\ LocalsSound(pc[F], j, t) /\ j \in JobType
  BY AtStep DEF Handle
<1>1. UNCHANGED <<orders, ledger, trade>> /\ pc[F] = "deciding"
  BY DEF Decide, At
<1>2. PICK p \in j.blocks, kind \in {"mark", "remove", "increment", "reset"} :
        /\ kind \in {"mark", "remove"} => p.order \notin j.book
        /\ StartWrite(F, [j EXCEPT !.blocks = @ \ {p}, !.blk = {p},
                                   !.checks = p.checks], kind, p)
  BY DEF Decide, WriteFor, DecidePendingOrder
<1>3. PICK w : w = [kind |-> kind, rec |-> p]
  OBVIOUS
<1>4. PICK m : m = [j EXCEPT !.blocks = @ \ {p}, !.blk = {p}, !.checks = p.checks]
  OBVIOUS
<1>5. PICK k : k = [m EXCEPT !.write = {w}]
  OBVIOUS
<1>6. pc'[F] = "load" /\ job'[F] = k
  BY <1>0, <1>2, <1>3, <1>4, <1>5 DEF StartWrite, Goto, SetJob
<1>7. /\ k.blocks = j.blocks \ {p} /\ k.blk = {p} /\ k.todo = j.todo /\ k.tgt = j.tgt
      /\ k.book = j.book /\ k.write = {w} /\ w.kind = kind /\ w.rec = p
  <2>1. /\ m.blocks = j.blocks \ {p} /\ m.blk = {p} /\ m.todo = j.todo /\ m.tgt = j.tgt
        /\ m.book = j.book
    BY <1>0, <1>4 DEF JobType
  <2>2. /\ k.blocks = m.blocks /\ k.blk = m.blk /\ k.todo = m.todo /\ k.tgt = m.tgt
        /\ k.book = m.book /\ k.write = {w}
    BY <1>0, <1>4, <1>5 DEF JobType
  <2>3. QED
    BY <1>3, <2>1, <2>2
<1>8. /\ p \in ledger /\ Pending(p) /\ p.nr[1] = t.pos
      /\ \A b \in j.blocks : /\ b \in ledger /\ Pending(b) /\ b.nr[1] = t.pos
                             /\ b.order \in j.book \/ ~Live(b.order)
      /\ j.todo \union j.tgt \subseteq {BookProbe}
  BY <1>0, <1>1, <1>2 DEF LocalsSound
<1>9. \A b \in j.blocks \ {p} : b.order # p.order
  BY <1>8 DEF LedgerInv, RecordsSound
<1>10. UpdateSound(k, w)
  BY <1>2, <1>7, <1>8, <1>9 DEF UpdateSound, Tracked
<1>11. LocalsSound("load", k, t)
  BY <1>7, <1>8, <1>10 DEF LocalsSound
<1>12. QED
  BY <1>1, <1>6, <1>11, LocalsStep

\* The fresh look at the book and at the position, for the same block.
LEMMA LedgerConfirm ==
  ASSUME LedgerInv, TypeOK', Alone', ConfirmBook(FirstCycle) \/ ConfirmSize(FirstCycle)
  PROVE  LedgerInv'
<1> DEFINE F == FirstCycle
           j == job[F]
           t == trade[F]
<1>0. /\ F \in Cycles /\ pc \in [Cycles -> PC] /\ job \in [Cycles -> JobType]
      /\ trade \in [Cycles -> Trades] /\ LocalsSound(pc[F], j, t) /\ j \in JobType
  BY AtStep DEF Handle
<1>1. UNCHANGED <<orders, ledger, trade>> /\ pc[F] \in {"confirmBook", "confirmSize"}
  BY DEF ConfirmBook, ConfirmSize, At
<1>2. PICK p \in j.blk : /\ j.blk = {p} /\ Tracked(p) /\ \A b \in j.blocks : b.order # p.order
                         /\ pc[F] = "confirmSize" /\ ~j.open => ~Live(p.order)
  BY <1>0, <1>1 DEF LocalsSound
<1>3. /\ p.nr[1] = t.pos
      /\ \A b \in j.blocks : /\ b \in ledger /\ Pending(b) /\ b.nr[1] = t.pos
                             /\ b.order \in j.book \/ ~Live(b.order)
      /\ j.todo \union j.tgt \subseteq {BookProbe}
  BY <1>0, <1>1, <1>2 DEF LocalsSound
<1>4. CASE ConfirmBook(F)
  <2>1. PICK open : open = (p.order \in OpenOrders(BookProbe))
    OBVIOUS
  <2>2. PICK k : k = [j EXCEPT !.open = open]
    OBVIOUS
  <2>3. pc'[F] = "confirmSize" /\ job'[F] = k
    BY <1>0, <1>2, <1>4, <2>1, <2>2 DEF ConfirmBook, Goto, SetJob
  <2>4. /\ k.blocks = j.blocks /\ k.blk = j.blk /\ k.todo = j.todo /\ k.tgt = j.tgt
        /\ k.book = j.book /\ k.open = open
    BY <1>0, <2>2 DEF JobType
  <2>5. ~open => ~Live(p.order)
    <3>1. PICK q \in ledger : q.order = p.order
      BY <1>2 DEF Tracked
    <3>2. p.order \in DOMAIN orders /\ orders[p.order].nr[2] = BookProbe
      BY <3>1, BlocksKnown
    <3>3. QED
      BY <2>1, <3>2 DEF Live, OpenOrders
  <2>6. LocalsSound("confirmSize", k, t)
    BY <1>2, <1>3, <2>4, <2>5 DEF LocalsSound
  <2>7. QED
    BY <1>1, <2>3, <2>6, LocalsStep
<1>5. CASE ConfirmSize(F)
  <2>1. CASE EndReconcile(F)
    <3>1. pc'[F] = "limits" /\ job'[F] = NoJob
      BY <1>0, <2>1 DEF EndReconcile, Goto, SetJob
    <3>2. LocalsSound("limits", NoJob, t)
      BY NoLocals DEF PC, ClaimedPC
    <3>3. QED
      BY <1>1, <3>1, <3>2, LocalsStep
  <2>2. CASE ~EndReconcile(F)
    <3>1. PICK kind \in {"mark", "remove", "reset"} :
            /\ kind \in {"mark", "remove"} => ~j.open
            /\ StartWrite(F, [j EXCEPT !.open = FALSE], kind, p)
      BY <1>2, <1>5, <2>2 DEF ConfirmSize, WriteFor, DecidePendingOrder
    <3>2. PICK w : w = [kind |-> kind, rec |-> p]
      OBVIOUS
    <3>3. PICK m : m = [j EXCEPT !.open = FALSE]
      OBVIOUS
    <3>4. PICK k : k = [m EXCEPT !.write = {w}]
      OBVIOUS
    <3>5. pc'[F] = "load" /\ job'[F] = k
      BY <1>0, <3>1, <3>2, <3>3, <3>4 DEF StartWrite, Goto, SetJob
    <3>6. /\ k.blocks = j.blocks /\ k.blk = j.blk /\ k.todo = j.todo /\ k.tgt = j.tgt
          /\ k.book = j.book /\ k.write = {w} /\ w.kind = kind /\ w.rec = p
      BY <1>0, <3>2, <3>3, <3>4 DEF JobType
    <3>7. pc[F] = "confirmSize"
      BY <1>5 DEF ConfirmSize, At
    <3>8. UpdateSound(k, w)
      BY <1>2, <3>1, <3>6, <3>7 DEF UpdateSound
    <3>9. LocalsSound("load", k, t)
      BY <1>2, <1>3, <3>6, <3>8 DEF LocalsSound
    <3>10. QED
      BY <1>1, <3>5, <3>9, LocalsStep
  <2>3. QED
    BY <2>1, <2>2
<1>6. QED
  BY <1>4, <1>5

\* The steps of the loop over the targets that place no order.
LEMMA LedgerLoop ==
  ASSUME LedgerInv, TypeOK', Alone', OneWallet, Undisturbed,
         LET F == FirstCycle
         IN  StartLoop(F) \/ FinishLoop(F) \/ SkipTarget(F) \/ TakeTarget(F)
             \/ SkipSell(F) \/ CheckOwned(F) \/ TakeBaseline(F) \/ ExecuteFails(F)
  PROVE  LedgerInv'
<1> DEFINE F == FirstCycle
           j == job[F]
           t == trade[F]
<1>0. /\ F \in Cycles /\ pc \in [Cycles -> PC] /\ job \in [Cycles -> JobType]
      /\ trade \in [Cycles -> Trades] /\ LocalsSound(pc[F], j, t) /\ j \in JobType
      /\ t.wallet \in Wallets
  BY AtStep, TradeAssumption DEF Handle, TradeType
<1>1. UNCHANGED <<orders, ledger, trade>> /\ pc[F] \notin {"load", "save"}
  BY DEF StartLoop, FinishLoop, SkipTarget, TakeTarget, SkipSell, CheckOwned,
     TakeBaseline, ExecuteFails, At, Undisturbed
<1>2. /\ \A p \in j.blocks : p \in ledger /\ Pending(p)
      /\ \A p \in j.blocks \union j.blk : p.nr[1] = t.pos
      /\ j.todo \union j.tgt \subseteq {BookProbe}
  BY <1>0 DEF LocalsSound
<1>3. CASE StartLoop(F)
  <2>1. PICK k : k = [j EXCEPT !.todo = TargetsOf[t.wallet]]
    OBVIOUS
  <2>2. pc[F] = "sizing" /\ pc'[F] = "looping" /\ job'[F] = k
    BY <1>0, <1>3, <2>1 DEF StartLoop, At, Goto, SetJob
  <2>3. k.blocks = {} /\ k.blk = {} /\ k.tgt = {} /\ k.todo = TargetsOf[t.wallet]
    BY <1>0, <2>1, <2>2 DEF LocalsSound, NoJob
  <2>4. LocalsSound("looping", k, t)
    BY <1>0, <2>3 DEF LocalsSound, OneWallet
  <2>5. QED
    BY <1>1, <2>2, <2>4, LocalsStep
<1>4. ASSUME pc'[F] = "leaving", job'[F] = j PROVE LedgerInv'
  <2>1. LocalsSound("leaving", j, t)
    BY <1>0 DEF LocalsSound
  <2>2. QED
    BY <1>1, <1>4, <2>1, LocalsStep
<1>5. CASE FinishLoop(F)
  BY <1>0, <1>4, <1>5 DEF FinishLoop, Goto
<1>6. CASE SkipTarget(F)
  <2>1. PICK x \in j.todo : job'[F] = [j EXCEPT !.todo = @ \ {x}]
    BY <1>0, <1>6 DEF SkipTarget, SetJob
  <2>2. PICK k : k = [j EXCEPT !.todo = @ \ {x}]
    OBVIOUS
  <2>3. /\ k.blocks = j.blocks /\ k.blk = j.blk /\ k.tgt = j.tgt /\ k.todo \subseteq j.todo
    BY <1>0, <2>2 DEF JobType
  <2>4. pc[F] = "looping" /\ pc'[F] = "looping"
    BY <1>6 DEF SkipTarget, At
  <2>5. LocalsSound("looping", k, t)
    BY <1>0, <1>2, <2>3, <2>4 DEF LocalsSound
  <2>6. QED
    BY <1>1, <2>1, <2>2, <2>4, <2>5, LocalsStep
<1>7. CASE TakeTarget(F)
  <2>1. PICK x \in j.todo : /\ ~IsBlocked(F, x)
                            /\ job'[F] = [j EXCEPT !.todo = @ \ {x}, !.tgt = {x}]
    BY <1>0, <1>7 DEF TakeTarget, SetJob
  <2>2. PICK k : k = [j EXCEPT !.todo = @ \ {x}, !.tgt = {x}]
    OBVIOUS
  <2>3. /\ k.blocks = j.blocks /\ k.blk = j.blk /\ k.tgt = {x} /\ k.todo \subseteq j.todo
    BY <1>0, <2>2 DEF JobType
  <2>4. PICK l \in {"owning", "unblocked"} : pc[F] = "looping" /\ pc'[F] = l
    BY <1>0, <1>7 DEF TakeTarget, At, Goto
  <2>5. Unledgered(<<t.pos, x>>)
    BY <2>1 DEF IsBlocked, IsPositionBlocked, OfKey, Key, Unledgered
  <2>6. j.blocks = {}
    BY <1>0, <2>4 DEF LocalsSound
  <2>7. LocalsSound(l, k, t)
    BY <1>2, <2>1, <2>3, <2>4, <2>5, <2>6 DEF LocalsSound
  <2>8. QED
    BY <1>1, <2>1, <2>2, <2>4, <2>7, LocalsStep
<1>8. CASE SkipSell(F) \/ ExecuteFails(F)
  <2>1. PICK k : k = [j EXCEPT !.tgt = {}, !.base = 0, !.write = {}, !.snap = {}]
    OBVIOUS
  <2>2. /\ pc[F] \in {"owning", "submitting"} /\ pc'[F] = "looping"
        /\ job'[F] = k
    BY <1>0, <1>8, <2>1 DEF SkipSell, ExecuteFails, NextTarget, SetJob, At, Goto
  <2>3. /\ k.blocks = j.blocks /\ k.blk = j.blk /\ k.tgt = {} /\ k.todo = j.todo
    BY <1>0, <2>1 DEF JobType
  <2>4. j.blocks = {}
    BY <1>0, <2>2 DEF LocalsSound
  <2>5. LocalsSound("looping", k, t)
    BY <1>2, <2>3, <2>4 DEF LocalsSound
  <2>6. QED
    BY <1>1, <2>2, <2>5, LocalsStep
<1>9. CASE CheckOwned(F)
  <2>1. pc[F] = "owning" /\ pc'[F] = "unblocked" /\ job'[F] = j
    BY <1>0, <1>9 DEF CheckOwned, At, Goto
  <2>2. LocalsSound("unblocked", j, t)
    BY <1>0, <2>1 DEF LocalsSound
  <2>3. QED
    BY <1>1, <2>1, <2>2, LocalsStep
<1>10. CASE TakeBaseline(F)
  <2>1. PICK x : job'[F] = [j EXCEPT !.base = x]
    BY <1>0, <1>10 DEF TakeBaseline, SetJob
  <2>2. PICK k : k = [j EXCEPT !.base = x]
    OBVIOUS
  <2>3. /\ k.blocks = j.blocks /\ k.blk = j.blk /\ k.tgt = j.tgt /\ k.todo = j.todo
    BY <1>0, <2>2 DEF JobType
  <2>4. PICK l \in {"submitting", "leaving"} : pc[F] = "unblocked" /\ pc'[F] = l
    BY <1>0, <1>10 DEF TakeBaseline, At, Goto
  <2>5. LocalsSound(l, k, t)
    BY <1>0, <2>3, <2>4 DEF LocalsSound
  <2>6. QED
    BY <1>1, <2>1, <2>2, <2>4, <2>5, LocalsStep
<1>11. QED
  BY <1>3, <1>5, <1>6, <1>7, <1>8, <1>9, <1>10

\* A load changes neither the ledger nor what is being recorded.
LEMMA LedgerLoad ==
  ASSUME LedgerInv, TypeOK', Alone', LoadLedger(FirstCycle)
  PROVE  LedgerInv'
<1> DEFINE F == FirstCycle
           j == job[F]
           t == trade[F]
<1>0. /\ F \in Cycles /\ pc \in [Cycles -> PC] /\ job \in [Cycles -> JobType]
      /\ trade \in [Cycles -> Trades] /\ LocalsSound(pc[F], j, t) /\ j \in JobType
  BY AtStep DEF Handle
<1>1. PICK k : k = [j EXCEPT !.snap = ledger]
  OBVIOUS
<1>2. /\ UNCHANGED <<orders, ledger, trade>> /\ pc[F] = "load"
      /\ pc'[F] = "save" /\ job'[F] = k
  BY <1>0, <1>1 DEF LoadLedger, At, Goto, SetJob
<1>3. /\ k.blocks = j.blocks /\ k.blk = j.blk /\ k.tgt = j.tgt /\ k.todo = j.todo
      /\ k.book = j.book /\ k.write = j.write /\ k.snap = ledger
  BY <1>0, <1>1 DEF JobType
<1>4. LocalsSound("save", k, t)
  BY <1>0, <1>2, <1>3 DEF LocalsSound, UpdateSound, PlacedSound
<1>5. LocalsSound(pc[F], job[F], trade[F])'
  BY <1>2, <1>4 DEF LocalsSound, Live, Tracked, Unledgered, UpdateSound, PlacedSound
<1>6. RecordsSound'
  BY <1>2 DEF LedgerInv, RecordsSound
<1>7. LiveOrderLedgered'
  <2>1. SUFFICES ASSUME NEW i \in DOMAIN orders, orders[i].state = "live"
        PROVE  BeingRecorded(i)' \/ \E p \in ledger : p.nr = orders[i].nr /\ p.order = i /\ Pending(p)
    BY <1>2 DEF LiveOrderLedgered
  <2>2. BeingRecorded(i) \/ \E p \in ledger : p.nr = orders[i].nr /\ p.order = i /\ Pending(p)
    BY <2>1 DEF LedgerInv, LiveOrderLedgered
  <2>3. BeingRecorded(i) => \E w \in j.write : w.kind = "pending" /\ w.rec.order = i
    BY DEF BeingRecorded, LedgerInv, Alone
  <2>4. (\E w \in j.write : w.kind = "pending" /\ w.rec.order = i) => BeingRecorded(i)'
    BY <1>0, <1>2, <1>3 DEF BeingRecorded
  <2>5. QED
    BY <2>2, <2>3, <2>4
<1>8. QED
  BY <1>2, <1>5, <1>6, <1>7 DEF LedgerInv

-----------------------------------------------------------------------------
(* The updates of the ledger.                                              *)

\* What the reconciliation leaves of a record: its order, its position, its base.
SameOrder(q, p) ==
  /\ q.order = p.order /\ q.nr = p.nr /\ q.base = p.base /\ q.side = p.side

\* An update by the reconciliation: it rewrites, or lifts, the records of the
\* order it is about, and leaves the others as they are.
LEMMA UpdateSpec ==
  ASSUME NEW L \in SUBSET Records, NEW w \in [kind : WriteKind, rec : Records],
         w.kind \in {"mark", "remove", "increment", "reset"},
         now \in Nat, NEW M \in Apply(w, L)
  PROVE  /\ \A q \in M : \E p \in L : /\ SameOrder(q, p) /\ q.at \in {p.at, now}
                                      /\ Pending(q) => Pending(p)
                                      /\ q = p \/ p.order = w.rec.order
         /\ \A p \in L : p.order # w.rec.order => p \in M
         /\ w.kind \in {"increment", "reset"} =>
              \A p \in L : \E q \in M : SameOrder(q, p) /\ q.at = p.at /\ q.status = p.status
         /\ w.kind = "mark" =>
              \A p \in L : p.order = w.rec.order =>
                \E q \in M : SameOrder(q, p) /\ q.at = now /\ Executed(q)
         /\ w.kind = "remove" => \A p \in L : ~Pending(p) => p \in M
         /\ (\A p, q \in L : p.order = q.order => p = q) =>
              \A p, q \in M : p.order = q.order => p = q
<1> DEFINE r == w.rec
<1>1. r \in Records /\ r.order \in Nat
  BY RecordType
<1>2. CASE w.kind = "remove"
  <2>1. M = {p \in L : ~(p.order = r.order /\ Pending(p))}
    BY <1>2 DEF Apply, RemovePendingPosition
  <2>2. QED
    BY <1>2, <2>1 DEF SameOrder
<1>3. CASE w.kind = "mark"
  <2> DEFINE Done(p) == [p EXCEPT !.status = "executed", !.at = now, !.checks = 0]
  <2>1. M = {IF p.order = r.order THEN Done(p) ELSE p : p \in L}
    BY <1>3 DEF Apply, MarkPendingPositionExecuted
  <2>2. \A p \in L : SameOrder(Done(p), p) /\ Done(p).at = now /\ Done(p).status = "executed"
    BY DEF Records, LedgerRecord, SameOrder
  <2> HIDE DEF Done
  <2>3. \A p \in L : SameOrder(p, p)
    BY DEF SameOrder
  <2>4. \A q \in M : \E p \in L : q = IF p.order = r.order THEN Done(p) ELSE p
    BY <2>1
  <2>5. \A p \in L : (IF p.order = r.order THEN Done(p) ELSE p) \in M
    BY <2>1
  <2>6. \A q \in M : \E p \in L : /\ SameOrder(q, p) /\ q.at \in {p.at, now}
                                  /\ Pending(q) => Pending(p)
                                  /\ q = p \/ p.order = w.rec.order
    BY <2>2, <2>3, <2>4 DEF Pending
  <2>7. \A p \in L : p.order = w.rec.order =>
          \E q \in M : SameOrder(q, p) /\ q.at = now /\ Executed(q)
    BY <2>2, <2>5 DEF Executed
  <2>8. \A p \in L : p.order # w.rec.order => p \in M
    BY <2>5
  <2>9. ASSUME \A p, q \in L : p.order = q.order => p = q
        PROVE  \A p, q \in M : p.order = q.order => p = q
    BY <2>2, <2>4, <2>9 DEF SameOrder
  <2>10. QED
    BY <1>3, <2>6, <2>7, <2>8, <2>9
<1>4. ASSUME w.kind \in {"increment", "reset"},
             NEW Checked,
             M = {IF p.order = r.order /\ Pending(p) THEN Checked[p] ELSE p : p \in L},
             \A p \in L : /\ SameOrder(Checked[p], p) /\ Checked[p].at = p.at
                          /\ Checked[p].status = p.status
      PROVE  /\ \A q \in M : \E p \in L : /\ SameOrder(q, p) /\ q.at = p.at /\ q.status = p.status
                                          /\ q = p \/ p.order = w.rec.order
             /\ \A p \in L : p.order # w.rec.order => p \in M
             /\ \A p \in L : \E q \in M : SameOrder(q, p) /\ q.at = p.at /\ q.status = p.status
             /\ (\A p, q \in L : p.order = q.order => p = q) =>
                  \A p, q \in M : p.order = q.order => p = q
  <2>1. \A p \in L : SameOrder(p, p)
    BY DEF SameOrder
  <2>2. \A q \in M : \E p \in L : q = IF p.order = r.order /\ Pending(p) THEN Checked[p] ELSE p
    BY <1>4
  <2>3. \A p \in L : (IF p.order = r.order /\ Pending(p) THEN Checked[p] ELSE p) \in M
    BY <1>4
  <2>4. \A q \in M : \E p \in L : /\ SameOrder(q, p) /\ q.at = p.at /\ q.status = p.status
                                  /\ q = p \/ p.order = w.rec.order
    BY <1>4, <2>1, <2>2
  <2>5. \A p \in L : \E q \in M : SameOrder(q, p) /\ q.at = p.at /\ q.status = p.status
    BY <1>4, <2>1, <2>3
  <2>6. \A p \in L : p.order # w.rec.order => p \in M
    BY <2>3
  <2>7. ASSUME \A p, q \in L : p.order = q.order => p = q
        PROVE  \A p, q \in M : p.order = q.order => p = q
    BY <1>4, <2>2, <2>7 DEF SameOrder
  <2>8. QED
    BY <2>4, <2>5, <2>6, <2>7
<1>5. CASE w.kind = "increment"
  <2> DEFINE More(p) == [p EXCEPT !.checks = @ + 1]
  <2>1. M = {IF p.order = r.order /\ Pending(p) THEN More(p) ELSE p : p \in L}
    BY <1>5 DEF Apply, IncrementMissingOrderChecks
  <2>2. \A p \in L : SameOrder(More(p), p) /\ More(p).at = p.at /\ More(p).status = p.status
    BY DEF Records, LedgerRecord, SameOrder
  <2> HIDE DEF More
  <2>3. PICK g : g = [p \in L |-> More(p)]
    OBVIOUS
  <2>4. /\ M = {IF p.order = r.order /\ Pending(p) THEN g[p] ELSE p : p \in L}
        /\ \A p \in L : SameOrder(g[p], p) /\ g[p].at = p.at /\ g[p].status = p.status
    BY <2>1, <2>2, <2>3
  <2>5. /\ \A q \in M : \E p \in L : /\ SameOrder(q, p) /\ q.at = p.at /\ q.status = p.status
                                     /\ q = p \/ p.order = w.rec.order
        /\ \A p \in L : p.order # w.rec.order => p \in M
        /\ \A p \in L : \E q \in M : SameOrder(q, p) /\ q.at = p.at /\ q.status = p.status
        /\ (\A p, q \in L : p.order = q.order => p = q) =>
             \A p, q \in M : p.order = q.order => p = q
    BY <1>4, <1>5, <2>4
  <2>6. QED
    BY <1>5, <2>5 DEF Pending
<1>6. CASE w.kind = "reset"
  <2> DEFINE Zero(p) == [p EXCEPT !.checks = 0]
  <2>1. M = {IF p.order = r.order /\ Pending(p) THEN Zero(p) ELSE p : p \in L}
    BY <1>6 DEF Apply, ResetMissingOrderChecks
  <2>2. \A p \in L : SameOrder(Zero(p), p) /\ Zero(p).at = p.at /\ Zero(p).status = p.status
    BY DEF Records, LedgerRecord, SameOrder
  <2> HIDE DEF Zero
  <2>3. PICK g : g = [p \in L |-> Zero(p)]
    OBVIOUS
  <2>4. /\ M = {IF p.order = r.order /\ Pending(p) THEN g[p] ELSE p : p \in L}
        /\ \A p \in L : SameOrder(g[p], p) /\ g[p].at = p.at /\ g[p].status = p.status
    BY <2>1, <2>2, <2>3
  <2>5. /\ \A q \in M : \E p \in L : /\ SameOrder(q, p) /\ q.at = p.at /\ q.status = p.status
                                     /\ q = p \/ p.order = w.rec.order
        /\ \A p \in L : p.order # w.rec.order => p \in M
        /\ \A p \in L : \E q \in M : SameOrder(q, p) /\ q.at = p.at /\ q.status = p.status
        /\ (\A p, q \in L : p.order = q.order => p = q) =>
             \A p, q \in M : p.order = q.order => p = q
    BY <1>4, <1>6, <2>4
  <2>6. QED
    BY <1>6, <2>5 DEF Pending
<1>7. QED
  BY <1>2, <1>3, <1>5, <1>6

\* The ledger with the record of an order that was placed: an executed record may
\* take the place of an older one of the key.
RecordMade(L, M, w, D, n) ==
  /\ M = (L \ D) \union {n}
  /\ \A d \in D : d \in L /\ d.nr = w.rec.nr /\ ~Pending(d)
  /\ n.nr = w.rec.nr /\ n.order = w.rec.order /\ n.at = now
  /\ w.kind = "executed" => Executed(n)
  /\ w.kind = "pending" =>
       D = {} /\ Pending(n) /\ n.base = w.rec.base /\ n.side = w.rec.side

\* The record of an order whose key has no pending record: it is added, and an
\* executed one may take the place of an older one of the key.
LEMMA RecordSpec ==
  ASSUME NEW L \in SUBSET Records, NEW w \in [kind : WriteKind, rec : Records],
         w.kind \in {"executed", "pending"}, now \in Nat, NEW M \in Apply(w, L),
         OfOrder(L, w.rec.order) = {}, \A p \in L : p.nr = w.rec.nr => ~Pending(p)
  PROVE  \E D, n : RecordMade(L, M, w, D, n)
<1> DEFINE r == w.rec
<1>1. /\ r \in Records /\ r.order \in Nat /\ r.nr \in Keys /\ r.base \in Int /\ r.side \in Sides
  BY RecordType
<1>2. CASE w.kind = "pending"
  <2> DEFINE n == NewRecord(r.nr, "pending", r.order, now, r.base, r.side)
  <2>1. M = L \union {n}
    BY <1>2 DEF Apply, AddPendingPosition
  <2>2. /\ n.nr = r.nr /\ n.order = r.order /\ n.at = now /\ Pending(n)
        /\ n.base = r.base /\ n.side = r.side
    BY DEF NewRecord, Pending
  <2> HIDE DEF n
  <2>3. RecordMade(L, M, w, {}, n)
    BY <1>2, <2>1, <2>2 DEF RecordMade
  <2>4. QED
    BY <2>3
<1>3. CASE w.kind = "executed"
  <2> DEFINE pend == {p \in OfKey(L, r.nr) : Pending(p)}
             done == {p \in OfKey(L, r.nr) : Executed(p)}
             Refresh(p) == [p EXCEPT !.at = now, !.order = r.order]
             n == NewRecord(r.nr, "executed", r.order, now, 0, "BUY")
  <2>1. pend = {}
    BY DEF OfKey
  <2>2. M \in AddExecutedPosition(L, r.nr, r.order, now)
    BY <1>3 DEF Apply
  <2>3. (\E p \in done : M = (L \ {p}) \union {Refresh(p)}) \/ M = L \union {n}
    BY <2>1, <2>2 DEF AddExecutedPosition, RewriteOne
  <2>4. /\ n.nr = r.nr /\ n.order = r.order /\ n.at = now /\ Executed(n)
    BY DEF NewRecord, Executed
  <2>5. \A p \in done : /\ p \in L /\ p.nr = r.nr /\ ~Pending(p)
                        /\ Refresh(p).nr = r.nr /\ Refresh(p).order = r.order
                        /\ Refresh(p).at = now /\ Executed(Refresh(p))
    <3>1. SUFFICES ASSUME NEW p \in done
          PROVE  /\ p \in L /\ p.nr = r.nr /\ ~Pending(p)
                 /\ Refresh(p).nr = r.nr /\ Refresh(p).order = r.order
                 /\ Refresh(p).at = now /\ Executed(Refresh(p))
      OBVIOUS
    <3>2. p \in L /\ p.nr = r.nr /\ p.status = "executed" /\ p \in Records
      BY DEF OfKey, Executed
    <3>3. /\ Refresh(p).nr = p.nr /\ Refresh(p).order = r.order
          /\ Refresh(p).at = now /\ Refresh(p).status = p.status
      BY <1>1, <3>2 DEF Records, LedgerRecord
    <3>4. QED
      BY <3>2, <3>3 DEF Executed, Pending
  <2> HIDE DEF Refresh, n, done, pend
  <2>6. CASE M = L \union {n}
    <3>1. RecordMade(L, M, w, {}, n)
      BY <1>3, <2>4, <2>6 DEF RecordMade
    <3>2. QED
      BY <3>1
  <2>7. CASE \E p \in done : M = (L \ {p}) \union {Refresh(p)}
    <3>1. PICK p \in done : M = (L \ {p}) \union {Refresh(p)}
      BY <2>7
    <3>2. PICK D, x : D = {p} /\ x = Refresh(p)
      OBVIOUS
    <3>3. /\ M = (L \ D) \union {x}
          /\ \A d \in D : d \in L /\ d.nr = r.nr /\ ~Pending(d)
          /\ x.nr = r.nr /\ x.order = r.order /\ x.at = now /\ Executed(x)
      BY <2>5, <3>1, <3>2
    <3>4. RecordMade(L, M, w, D, x)
      BY <1>3, <3>3 DEF RecordMade
    <3>5. QED
      BY <3>4
  <2>8. QED
    BY <2>3, <2>6, <2>7
<1>4. QED
  BY <1>2, <1>3

-----------------------------------------------------------------------------
(* The steps that change the orders or the ledger.                         *)

\* The order placed: its key had no pending record and its id is new.
LEMMA LedgerExecute ==
  ASSUME LedgerInv, TypeOK', Alone', ExecuteTrade(FirstCycle)
  PROVE  LedgerInv'
<1> DEFINE F == FirstCycle
           j == job[F]
           t == trade[F]
           n == Len(orders) + 1
<1>0. /\ F \in Cycles /\ pc \in [Cycles -> PC] /\ job \in [Cycles -> JobType] /\ TypeOK
      /\ trade \in [Cycles -> Trades] /\ LocalsSound(pc[F], j, t) /\ j \in JobType
      /\ j.tgt \subseteq Targets
  BY AtStep DEF Handle, JobType
<1>1. PICK g \in j.tgt, state \in {"live", Matched}, kind \in {"executed", "pending"} :
        /\ state = "live" <=> kind = "pending"
        /\ Place(F, g, state)
        /\ StartWrite(F, j, kind, NewRecord(Key(F, g), kind, n, now, j.base, t.side))
  BY DEF ExecuteTrade, Matched
<1>2. PICK r : r = NewRecord(Key(F, g), kind, n, now, j.base, t.side)
  OBVIOUS
<1>3. r.nr = Key(F, g) /\ r.order = n /\ r.side = t.side
  BY <1>2 DEF NewRecord
<1>4. PICK w : w = [kind |-> kind, rec |-> r]
  OBVIOUS
<1>5. PICK k : k = [j EXCEPT !.write = {w}]
  OBVIOUS
<1>6. /\ pc[F] = "submitting" /\ pc'[F] = "load" /\ job'[F] = k /\ UNCHANGED <<ledger, trade>>
  BY <1>0, <1>1, <1>2, <1>4, <1>5 DEF ExecuteTrade, StartWrite, Goto, SetJob, At
<1>7. /\ k.blocks = j.blocks /\ k.blk = j.blk /\ k.tgt = j.tgt /\ k.todo = j.todo
      /\ k.write = {w} /\ w.kind = kind /\ w.rec = r
  BY <1>0, <1>4, <1>5 DEF JobType
<1>8. /\ DOMAIN orders' = DOMAIN orders \union {n} /\ n \notin DOMAIN orders
      /\ \A i \in DOMAIN orders : orders'[i] = orders[i]
      /\ orders'[n].nr = Key(F, g) /\ orders'[n].side = t.side /\ orders'[n].state = state
  <2>1. g \in Targets /\ state \in OrderState
    BY <1>0, <1>1 DEF OrderState, Matched
  <2>2. Place(F, g, state)
    BY <1>1
  <2>3. /\ DOMAIN orders' = DOMAIN orders \union {n} /\ n \notin DOMAIN orders
        /\ \A i \in DOMAIN orders : orders'[i] = orders[i]
        /\ orders'[n] = [nr |-> Key(F, g), side |-> t.side, copies |-> t, at |-> now,
                         state |-> state]
    BY <1>0, <2>1, <2>2, PlaceFacts
  <2>4. QED
    BY <2>3
<1>9. /\ Unledgered(Key(F, g)) /\ j.blocks = {} /\ j.todo \union j.tgt \subseteq {BookProbe}
      /\ \A p \in j.blk : p.nr[1] = t.pos
  BY <1>0, <1>1, <1>6 DEF LocalsSound, Key
<1>10. Key(F, g)[2] = BookProbe
  BY <1>1, <1>9 DEF Key
<1>11. OfOrder(ledger, n) = {}
  BY <1>8, BlocksKnown DEF OfOrder
<1>12. PlacedSound(k, w)'
  BY <1>1, <1>3, <1>6, <1>7, <1>8, <1>9, <1>11 DEF PlacedSound, Live, Unledgered, Matched
<1>13. LocalsSound(pc[F], job[F], trade[F])'
  BY <1>6, <1>7, <1>9, <1>12 DEF LocalsSound, PlacedSound, Live, Unledgered
<1>14. RecordsSound'
  BY <1>6, <1>8 DEF LedgerInv, RecordsSound
<1>15. LiveOrderLedgered'
  <2>1. SUFFICES ASSUME NEW i \in DOMAIN orders', orders'[i].state = "live"
        PROVE  BeingRecorded(i)' \/ \E p \in ledger' : p.nr = orders'[i].nr /\ p.order = i /\ Pending(p)
    BY DEF LiveOrderLedgered
  <2>2. CASE i = n
    <3>1. kind = "pending"
      BY <1>1, <1>8, <2>1, <2>2
    <3>2. QED
      BY <1>0, <1>3, <1>6, <1>7, <2>2, <3>1 DEF BeingRecorded
  <2>3. CASE i # n
    <3>1. i \in DOMAIN orders /\ orders[i].state = "live" /\ orders'[i] = orders[i]
      BY <1>8, <2>1, <2>3
    <3>2. ~BeingRecorded(i)
      BY <1>6 DEF LedgerInv, Alone, BeingRecorded
    <3>3. \E p \in ledger : p.nr = orders[i].nr /\ p.order = i /\ Pending(p)
      BY <3>1, <3>2 DEF LedgerInv, LiveOrderLedgered
    <3>4. QED
      BY <1>6, <3>1, <3>3
  <2>4. QED
    BY <2>2, <2>3
<1>16. \A i \in DOMAIN orders' : orders'[i].nr[2] = BookProbe
  BY <1>8, <1>10 DEF LedgerInv
<1>17. QED
  BY <1>13, <1>14, <1>15, <1>16 DEF LedgerInv

\* The exchange only takes orders off the book.
LEMMA LedgerExchange ==
  ASSUME LedgerInv, TypeOK', Alone', ExchangeMoves
  PROVE  LedgerInv'
<1> DEFINE F == FirstCycle
           j == job[F]
           t == trade[F]
<1>0. /\ F \in Cycles /\ TypeOK /\ LocalsSound(pc[F], j, t)
  BY CycleAssumption DEF LedgerInv
<1>1. UNCHANGED <<ledger, pc, trade, job>> /\ ExchangeStep
  BY DEF ExchangeMoves, memory
<1>2. /\ DOMAIN orders' = DOMAIN orders
      /\ \A i \in DOMAIN orders :
           /\ orders'[i].nr = orders[i].nr /\ orders'[i].side = orders[i].side
           /\ orders'[i].state = "live" => orders[i].state = "live"
  BY <1>0, <1>1, ExchangeFacts DEF Matched
<1>3. RecordsSound'
  BY <1>1, <1>2 DEF LedgerInv, RecordsSound
<1>4. LiveOrderLedgered'
  BY <1>1, <1>2 DEF LedgerInv, LiveOrderLedgered, BeingRecorded
<1>5. \A i \in DOMAIN orders' : orders'[i].nr[2] = BookProbe
  BY <1>2 DEF LedgerInv
<1>6. \A p \in ledger : ~Live(p.order) => ~Live(p.order)'
  BY <1>1, <1>2, BlocksKnown DEF Live
<1>7. LocalsSound(pc[F], j, t)'
  <2>1. \A p \in j.blocks : p \in ledger
    BY <1>0 DEF LocalsSound
  <2>2. \A p : Tracked(p) => Tracked(p)' /\ (~Live(p.order) => ~Live(p.order)')
    BY <1>1, <1>6 DEF Tracked
  <2>3. \A nr : Unledgered(nr) => Unledgered(nr)'
    BY <1>1 DEF Unledgered
  <2>4. \A w : UpdateSound(j, w) => UpdateSound(j, w)'
    BY <1>1, <2>2 DEF UpdateSound
  <2>5. \A w : PlacedSound(j, w) => PlacedSound(j, w)'
    BY <1>1, <1>2, <2>3 DEF PlacedSound, Live
  <2>6. QED
    BY <1>0, <1>1, <1>6, <2>1, <2>2, <2>3, <2>4, <2>5 DEF LocalsSound
<1>8. QED
  BY <1>1, <1>3, <1>4, <1>5, <1>7 DEF LedgerInv

\* A save applies the one update there is to the ledger as it stands.
LEMMA SaveFacts ==
  ASSUME LedgerInv, SaveLedger(FirstCycle)
  PROVE  LET F == FirstCycle
             j == job[F]
         IN  /\ pc[F] = "save" /\ UNCHANGED <<orders, trade, now>>
             /\ \E w \in j.write :
                  /\ j.write = {w} /\ w \in [kind : WriteKind, rec : Records]
                  /\ ledger' \in Apply(w, ledger)
                  /\ \/ UpdateSound(j, w) /\ AfterReconcileSave(F, w)
                     \/ PlacedSound(j, w) /\ NextTarget(F, j)
<1> DEFINE F == FirstCycle
           j == job[F]
<1>0. LocalsSound(pc[F], j, trade[F]) /\ j \in JobType
  BY AtStep DEF Handle
<1>1. pc[F] = "save" /\ UNCHANGED <<orders, trade, now>>
  BY DEF SaveLedger, At
<1>2. j.snap = ledger /\ \E w \in j.write : j.write = {w} /\ (UpdateSound(j, w) \/ PlacedSound(j, w))
  BY <1>0, <1>1 DEF LocalsSound
<1>3. PICK w \in j.write : j.write = {w} /\ (UpdateSound(j, w) \/ PlacedSound(j, w))
  BY <1>2
<1>4. w \in [kind : WriteKind, rec : Records]
  BY <1>0, <1>3 DEF JobType
<1>5. /\ IF Saves(w, ledger) THEN ledger' \in Apply(w, ledger) ELSE UNCHANGED ledger
      /\ IF w.kind \in {"executed", "pending"} THEN NextTarget(F, j)
         ELSE AfterReconcileSave(F, w)
  BY <1>2, <1>3 DEF SaveLedger
<1>6. CASE UpdateSound(j, w)
  <2>1. w.kind \in {"mark", "remove", "increment", "reset"} /\ Tracked(w.rec)
    BY <1>6 DEF UpdateSound
  <2>2. \E p \in ledger : p.order = w.rec.order /\ Pending(p)
    BY <2>1 DEF Tracked
  <2>3. Saves(w, ledger)
    BY <2>1, <2>2 DEF Saves, OfOrder
  <2>4. QED
    BY <1>1, <1>3, <1>4, <1>5, <1>6, <2>1, <2>3
<1>7. CASE PlacedSound(j, w)
  <2>1. w.kind \in {"executed", "pending"}
    BY <1>7 DEF PlacedSound
  <2>2. Saves(w, ledger)
    BY <2>1 DEF Saves
  <2>3. QED
    BY <1>1, <1>3, <1>4, <1>5, <1>7, <2>1, <2>2
<1>8. QED
  BY <1>3, <1>6, <1>7

\* An update by the reconciliation keeps the blocks of the orders on the book.
LEMMA LedgerUpdate ==
  ASSUME LedgerInv, TypeOK', Alone', pc[FirstCycle] = "save",
         UNCHANGED <<orders, trade, now>>,
         NEW w \in [kind : WriteKind, rec : Records], job[FirstCycle].write = {w},
         ledger' \in Apply(w, ledger), UpdateSound(job[FirstCycle], w),
         AfterReconcileSave(FirstCycle, w)
  PROVE  LedgerInv'
<1> DEFINE F == FirstCycle
           j == job[F]
           t == trade[F]
<1>0. /\ F \in Cycles /\ pc \in [Cycles -> PC] /\ job \in [Cycles -> JobType] /\ TypeOK
      /\ LocalsSound("save", j, t) /\ j \in JobType /\ ledger \in SUBSET Records /\ now \in Nat
  BY CycleAssumption DEF LedgerInv, TypeOK
<1>1. /\ w.kind \in {"mark", "remove", "increment", "reset"}
      /\ j.blk = {w.rec} /\ Tracked(w.rec)
      /\ \A b \in j.blocks : b.order # w.rec.order
      /\ w.kind \in {"mark", "remove"} => ~Live(w.rec.order)
  BY DEF UpdateSound
<1>2. /\ \A q \in ledger' : \E p \in ledger : SameOrder(q, p) /\ (Pending(q) => Pending(p))
      /\ \A p \in ledger : p.order # w.rec.order => p \in ledger'
      /\ w.kind \in {"increment", "reset"} =>
           \A p \in ledger : \E q \in ledger' : SameOrder(q, p) /\ q.status = p.status
      /\ (\A p, q \in ledger : p.order = q.order => p = q) =>
           \A p, q \in ledger' : p.order = q.order => p = q
  BY <1>0, <1>1, UpdateSpec
<1>3. RecordsSound'
  <2>1. /\ \A p \in ledger : /\ p.order \in DOMAIN orders /\ orders[p.order].nr = p.nr
                             /\ Pending(p) => orders[p.order].side = p.side
        /\ \A p, q \in ledger : p.order = q.order => p = q
        /\ \A p, q \in ledger : Pending(p) /\ Pending(q) /\ p.nr = q.nr => p = q
    BY DEF LedgerInv, RecordsSound
  <2>2. \A p, q \in ledger' : p.order = q.order => p = q
    BY <1>2, <2>1
  <2>3. \A q \in ledger' : /\ q.order \in DOMAIN orders /\ orders[q.order].nr = q.nr
                           /\ Pending(q) => orders[q.order].side = q.side
    BY <1>2, <2>1 DEF SameOrder
  <2>4. ASSUME NEW p \in ledger', NEW q \in ledger', Pending(p), Pending(q), p.nr = q.nr
        PROVE  p = q
    <3>1. PICK a \in ledger : SameOrder(p, a) /\ Pending(a)
      BY <1>2, <2>4
    <3>2. PICK b \in ledger : SameOrder(q, b) /\ Pending(b)
      BY <1>2, <2>4
    <3>3. a = b
      BY <2>1, <2>4, <3>1, <3>2 DEF SameOrder
    <3>4. QED
      BY <2>2, <3>1, <3>2, <3>3 DEF SameOrder
  <2>5. QED
    BY <2>2, <2>3, <2>4 DEF RecordsSound
<1>4. LiveOrderLedgered'
  <2>1. SUFFICES ASSUME NEW i \in DOMAIN orders, orders[i].state = "live"
        PROVE  \E p \in ledger' : p.nr = orders[i].nr /\ p.order = i /\ Pending(p)
    BY DEF LiveOrderLedgered
  <2>2. ~BeingRecorded(i)
    BY <1>1 DEF LedgerInv, Alone, BeingRecorded
  <2>3. PICK p \in ledger : p.nr = orders[i].nr /\ p.order = i /\ Pending(p)
    BY <2>1, <2>2 DEF LedgerInv, LiveOrderLedgered
  <2>4. CASE i # w.rec.order
    BY <1>2, <2>3, <2>4
  <2>5. CASE i = w.rec.order
    <3>1. w.kind \in {"increment", "reset"}
      BY <1>1, <2>1, <2>5 DEF Live
    <3>2. PICK q \in ledger' : SameOrder(q, p) /\ q.status = p.status
      BY <1>2, <3>1
    <3>3. QED
      BY <2>3, <3>2 DEF SameOrder, Pending
  <2>6. QED
    BY <2>4, <2>5
<1>5. \A b \in j.blocks : /\ b \in ledger' /\ Pending(b) /\ b.nr[1] = t.pos
                          /\ b.order \in j.book \/ ~Live(b.order)
  BY <1>0, <1>1, <1>2 DEF LocalsSound
<1>6. w.rec.nr[1] = t.pos /\ j.todo \union j.tgt \subseteq {BookProbe}
  BY <1>0, <1>1 DEF LocalsSound
<1>7. PICK m : m = [j EXCEPT !.write = {}, !.snap = {}]
  OBVIOUS
<1>8. /\ m.blocks = j.blocks /\ m.blk = j.blk /\ m.tgt = j.tgt /\ m.todo = j.todo
      /\ m.book = j.book /\ m \in JobType
  BY <1>0, <1>7 DEF JobType
<1>9. CASE w.kind = "reset"
  <2>1. pc'[F] = "limits" /\ job'[F] = NoJob
    BY <1>0, <1>9 DEF AfterReconcileSave, EndReconcile, Goto, SetJob
  <2>2. LocalsSound(pc[F], job[F], trade[F])'
    BY <2>1 DEF LocalsSound, NoJob
  <2>3. QED
    BY <1>3, <1>4, <2>2 DEF LedgerInv
<1>10. CASE w.kind = "increment"
  <2>1. PICK x : job'[F] = [m EXCEPT !.checks = x]
    BY <1>0, <1>7, <1>10 DEF AfterReconcileSave, SetJob
  <2>2. PICK k : k = [m EXCEPT !.checks = x]
    OBVIOUS
  <2>3. /\ k.blocks = j.blocks /\ k.blk = {w.rec} /\ k.tgt = j.tgt /\ k.todo = j.todo
        /\ k.book = j.book
    BY <1>1, <1>8, <2>2 DEF JobType
  <2>4. pc'[F] = "confirmBook" /\ job'[F] = k
    BY <1>0, <1>10, <2>1, <2>2 DEF AfterReconcileSave, Goto
  <2>5. Tracked(w.rec)'
    <3>1. PICK q \in ledger : /\ Pending(q) /\ q.order = w.rec.order /\ q.nr = w.rec.nr
                              /\ q.base = w.rec.base /\ q.side = w.rec.side
      BY <1>1 DEF Tracked
    <3>2. PICK p \in ledger' : SameOrder(p, q) /\ p.status = q.status
      BY <1>2, <1>10
    <3>3. QED
      BY <3>1, <3>2 DEF SameOrder, Pending, Tracked
  <2>6. LocalsSound(pc[F], job[F], trade[F])'
    BY <1>1, <1>5, <1>6, <2>3, <2>4, <2>5 DEF LocalsSound, Live, Tracked
  <2>7. QED
    BY <1>3, <1>4, <2>6 DEF LedgerInv
<1>11. CASE w.kind \in {"mark", "remove"}
  <2>1. PICK k : k = [m EXCEPT !.blk = {}, !.checks = 0]
    OBVIOUS
  <2>2. /\ k.blocks = j.blocks /\ k.blk = {} /\ k.tgt = j.tgt /\ k.todo = j.todo
        /\ k.book = j.book
    BY <1>8, <2>1 DEF JobType
  <2>3. pc'[F] = "deciding" /\ job'[F] = k
    BY <1>0, <1>7, <1>11, <2>1 DEF AfterReconcileSave, Goto, SetJob
  <2>4. LocalsSound(pc[F], job[F], trade[F])'
    BY <1>5, <1>6, <2>2, <2>3 DEF LocalsSound, Live
  <2>5. QED
    BY <1>3, <1>4, <2>4 DEF LedgerInv
<1>12. QED
  BY <1>1, <1>9, <1>10, <1>11

\* The record of the order just placed gives a resting order its block.
LEMMA LedgerRecorded ==
  ASSUME LedgerInv, TypeOK', Alone', pc[FirstCycle] = "save",
         UNCHANGED <<orders, trade, now>>,
         NEW w \in [kind : WriteKind, rec : Records], job[FirstCycle].write = {w},
         ledger' \in Apply(w, ledger), PlacedSound(job[FirstCycle], w),
         NextTarget(FirstCycle, job[FirstCycle])
  PROVE  LedgerInv'
<1> DEFINE F == FirstCycle
           j == job[F]
           t == trade[F]
           r == w.rec
<1>0. /\ F \in Cycles /\ pc \in [Cycles -> PC] /\ job \in [Cycles -> JobType] /\ TypeOK
      /\ LocalsSound("save", j, t) /\ j \in JobType /\ ledger \in SUBSET Records /\ now \in Nat
  BY CycleAssumption DEF LedgerInv, TypeOK
<1>1. /\ w.kind \in {"executed", "pending"} /\ j.blocks = {}
      /\ r.order \in DOMAIN orders /\ orders[r.order].nr = r.nr
      /\ orders[r.order].side = r.side
      /\ Unledgered(r.nr) /\ OfOrder(ledger, r.order) = {}
  BY DEF PlacedSound
<1>2. PICK D, n : RecordMade(ledger, ledger', w, D, n)
  <2>1. \A p \in ledger : p.nr = w.rec.nr => ~Pending(p)
    BY <1>1 DEF Unledgered
  <2>2. OfOrder(ledger, w.rec.order) = {} /\ w.kind \in {"executed", "pending"}
    BY <1>1
  <2>3. QED
    BY <1>0, <2>1, <2>2, RecordSpec
<1>3. /\ ledger' = (ledger \ D) \union {n}
      /\ \A d \in D : d \in ledger /\ d.nr = r.nr /\ ~Pending(d)
      /\ n.nr = r.nr /\ n.order = r.order
      /\ w.kind = "executed" => Executed(n)
      /\ w.kind = "pending" => Pending(n) /\ n.side = r.side
  BY <1>2 DEF RecordMade
<1>4. RecordsSound'
  <2>1. /\ \A p \in ledger : /\ p.order \in DOMAIN orders /\ orders[p.order].nr = p.nr
                             /\ Pending(p) => orders[p.order].side = p.side
        /\ \A p, q \in ledger : p.order = q.order => p = q
        /\ \A p, q \in ledger : Pending(p) /\ Pending(q) /\ p.nr = q.nr => p = q
    BY DEF LedgerInv, RecordsSound
  <2>2. /\ n.order \in DOMAIN orders /\ orders[n.order].nr = n.nr
        /\ Pending(n) => orders[n.order].side = n.side
    BY <1>1, <1>3 DEF Pending, Executed
  <2>3. \A p \in ledger : p.order # n.order /\ (p.nr = n.nr => ~Pending(p))
    BY <1>1, <1>3 DEF OfOrder, Unledgered
  <2>4. QED
    BY <1>3, <2>1, <2>2, <2>3 DEF RecordsSound
<1>5. LiveOrderLedgered'
  <2>1. SUFFICES ASSUME NEW i \in DOMAIN orders, orders[i].state = "live"
        PROVE  \E p \in ledger' : p.nr = orders[i].nr /\ p.order = i /\ Pending(p)
    BY DEF LiveOrderLedgered
  <2>2. CASE BeingRecorded(i)
    <3>1. w.kind = "pending" /\ r.order = i
      BY <2>2 DEF BeingRecorded, LedgerInv, Alone
    <3>2. QED
      BY <1>1, <1>3, <3>1
  <2>3. CASE ~BeingRecorded(i)
    BY <1>3, <2>1, <2>3 DEF LedgerInv, LiveOrderLedgered
  <2>4. QED
    BY <2>2, <2>3
<1>6. PICK k : k = [j EXCEPT !.tgt = {}, !.base = 0, !.write = {}, !.snap = {}]
  OBVIOUS
<1>7. /\ k.blocks = j.blocks /\ k.blk = j.blk /\ k.tgt = {} /\ k.todo = j.todo
  BY <1>0, <1>6 DEF JobType
<1>8. pc'[F] = "looping" /\ job'[F] = k
  BY <1>0, <1>6 DEF NextTarget, Goto, SetJob
<1>9. \A p \in j.blocks \union j.blk : p.nr[1] = t.pos
  BY <1>0 DEF LocalsSound
<1>10. j.todo \subseteq {BookProbe}
  BY <1>0 DEF LocalsSound
<1>11. LocalsSound(pc[F], job[F], trade[F])'
  BY <1>1, <1>7, <1>8, <1>9, <1>10 DEF LocalsSound
<1>12. QED
  BY <1>4, <1>5, <1>11 DEF LedgerInv

\* LedgerInv is inductive.
LEMMA LedgerStep ==
  ASSUME LedgerInv, Undisturbed, OneWallet, [Next]_vars
  PROVE  LedgerInv'
<1> DEFINE F == FirstCycle
<1>0. TypeOK' /\ Alone' /\ F \in Cycles
  BY TypeStep, AloneStep, CycleAssumption DEF LedgerInv, Undisturbed
<1>1. ASSUME UNCHANGED <<orders, ledger, pc, trade, job>> PROVE LedgerInv'
  <2>1. RecordsSound'
    BY <1>1 DEF LedgerInv, RecordsSound
  <2>2. LiveOrderLedgered'
    BY <1>1 DEF LedgerInv, LiveOrderLedgered, BeingRecorded
  <2>3. LocalsSound(pc[F], job[F], trade[F])'
    BY <1>1 DEF LedgerInv, LocalsSound, Live, Tracked, Unledgered, UpdateSound, PlacedSound
  <2>4. QED
    BY <1>0, <1>1, <2>1, <2>2, <2>3 DEF LedgerInv
<1>2. CASE UNCHANGED vars
  BY <1>1, <1>2 DEF vars
<1>3. ASSUME NEW c \in Cycles, Detect(c) PROVE LedgerInv'
  <2>1. c = F
    BY <1>3 DEF Detect, LedgerInv, Alone
  <2>2. /\ pc[F] = "idle" /\ pc'[F] = "entered" /\ UNCHANGED <<orders, ledger, job>>
    BY <1>0, <1>3, <2>1 DEF Detect, At, Goto, LedgerInv, TypeOK
  <2>3. job[F] = NoJob
    BY <2>2 DEF LedgerInv, LocalsSound
  <2>4. LocalsSound("entered", NoJob, trade'[F])
    BY NoLocals DEF PC
  <2>5. QED
    BY <1>0, <2>2, <2>3, <2>4, LocalsStep
<1>4. ASSUME NEW c \in Cycles, Handle(c) PROVE LedgerInv'
  <2>1. Handle(F)
    BY <1>4, HandleBusy DEF LedgerInv, Alone
  <2>2. CASE GateReject(F) \/ DropDuplicate(F) \/ Claim(F) \/ RefuseUnsafe(F)
             \/ Bail(F) \/ Leave(F) \/ FinishReconcile(F) \/ CheckLimits(F)
    BY <1>0, <2>2, LedgerClaim
  <2>3. CASE LoadPendingBlocks(F) \/ ProbeBook(F) \/ ProbeSize(F)
    BY <1>0, <2>3, LedgerProbe
  <2>4. CASE Decide(F)
    BY <1>0, <2>4, LedgerDecide
  <2>5. CASE ConfirmBook(F) \/ ConfirmSize(F)
    BY <1>0, <2>5, LedgerConfirm
  <2>6. CASE StartLoop(F) \/ FinishLoop(F) \/ SkipTarget(F) \/ TakeTarget(F)
             \/ SkipSell(F) \/ CheckOwned(F) \/ TakeBaseline(F) \/ ExecuteFails(F)
    BY <1>0, <2>6, LedgerLoop
  <2>7. CASE ExecuteTrade(F)
    BY <1>0, <2>7, LedgerExecute
  <2>8. CASE LoadLedger(F)
    BY <1>0, <2>8, LedgerLoad
  <2>9. CASE SaveLedger(F)
    <3>1. PICK w \in job[F].write :
            /\ job[F].write = {w} /\ w \in [kind : WriteKind, rec : Records]
            /\ ledger' \in Apply(w, ledger)
            /\ \/ UpdateSound(job[F], w) /\ AfterReconcileSave(F, w)
               \/ PlacedSound(job[F], w) /\ NextTarget(F, job[F])
      BY <2>9, SaveFacts
    <3>2. pc[F] = "save" /\ UNCHANGED <<orders, trade, now>>
      BY <2>9, SaveFacts
    <3>3. QED
      BY <1>0, <3>1, <3>2, LedgerUpdate, LedgerRecorded
  <2>10. ~SaveFails(F)
    BY DEF SaveFails, Undisturbed
  <2>11. QED
    BY <2>1, <2>2, <2>3, <2>4, <2>5, <2>6, <2>7, <2>8, <2>9, <2>10 DEF Handle
<1>5. ASSUME Environment PROVE LedgerInv'
  <2>1. CASE ExchangeMoves
    BY <1>0, <2>1, LedgerExchange
  <2>2. CASE ~ExchangeMoves
    BY <1>1, <1>5, <2>2 DEF Environment, Tick, Start, Stop, Restart,
       ClearExecutedPositions, PruneOldExecutedPositions, ReinitializeCredentials,
       memory, Undisturbed
  <2>3. QED
    BY <2>1, <2>2
<1>6. QED
  BY <1>2, <1>3, <1>4, <1>5 DEF Next

\* LedgerInv holds at the start.
LEMMA LedgerInit ==
  ASSUME Init
  PROVE  LedgerInv
<1>1. TypeOK /\ Alone
  BY TypeInit, AloneInit
<1>2. ledger = {} /\ DOMAIN orders = {}
  BY DEF Init, ExchangeInit
<1>3. /\ pc[FirstCycle] = "idle" /\ job[FirstCycle] = NoJob
  BY CycleAssumption DEF Init
<1>4. LocalsSound(pc[FirstCycle], job[FirstCycle], trade[FirstCycle])
  BY <1>3, NoLocals DEF PC
<1>5. QED
  BY <1>1, <1>2, <1>4 DEF LedgerInv, RecordsSound, LiveOrderLedgered

\* As long as nothing disturbs the cycle and the reconciliation looks at the
\* trading wallet that trades, a resting order has its pending block: whatever the
\* trades, periods and limits, with both backends, and even if the positions API
\* trails the book.
THEOREM BlockedWhileLive ==
  ASSUME Undisturbed, OneWallet
  PROVE  Spec => []LiveOrderLedgered
<1>1. Init => LedgerInv
  BY LedgerInit
<1>2. LedgerInv /\ [Next]_vars => LedgerInv'
  BY LedgerStep
<1>3. LedgerInv => LiveOrderLedgered
  BY DEF LedgerInv
<1>4. QED
  BY <1>1, <1>2, <1>3, PTL DEF Spec

-----------------------------------------------------------------------------
(* The position of a key, and what one order adds to it.                   *)

\* One order that becomes effective, or comes to exist, adds its share to the
\* position of its key and to no other.
LEMMA SizeAfter ==
  ASSUME TypeOK, NEW i, i \notin DOMAIN orders \/ orders[i].state # "indexed",
         DOMAIN orders' = DOMAIN orders \union {i},
         \A k \in DOMAIN orders \ {i} : orders'[k] = orders[k],
         orders'[i].side \in Sides, NEW nr
  PROVE  PositionSize(nr)' = PositionSize(nr) + (IF orders'[i].nr = nr THEN Adds(i)' ELSE 0)
<1> DEFINE B == IndexedOrders(nr, "BUY")
           S == IndexedOrders(nr, "SELL")
<1>1. IsFiniteSet(DOMAIN orders)
  BY OrdersType, FS_Interval
<1>2. IsFiniteSet(B) /\ IsFiniteSet(S)
  BY <1>1, FS_Subset DEF IndexedOrders
<1>3. /\ Cardinality(B) \in Nat /\ Cardinality(S) \in Nat /\ Holding \in Nat
      /\ i \notin B /\ i \notin S
  BY <1>2, FS_CardinalityType, HoldingAssumption DEF IndexedOrders
<1>4. /\ Cardinality(B \union {i}) = Cardinality(B) + 1
      /\ Cardinality(S \union {i}) = Cardinality(S) + 1
  BY <1>2, <1>3, FS_AddElement
<1>5. PositionSize(nr) = Holding + Cardinality(B) - Cardinality(S)
  BY DEF PositionSize
<1>6. PositionSize(nr)' = Holding + Cardinality(B') - Cardinality(S')
  BY DEF PositionSize
<1>7. CASE orders'[i].state # "indexed" \/ orders'[i].nr # nr
  <2>1. B' = B /\ S' = S
    BY <1>7 DEF IndexedOrders
  <2>2. (IF orders'[i].nr = nr THEN Adds(i)' ELSE 0) = 0
    BY <1>7 DEF Adds
  <2> HIDE DEF B, S
  <2>3. QED
    BY <1>3, <1>5, <1>6, <2>1, <2>2
<1>8. CASE orders'[i].state = "indexed" /\ orders'[i].nr = nr /\ orders'[i].side = "BUY"
  <2>1. B' = B \union {i} /\ S' = S
    BY <1>8 DEF IndexedOrders
  <2>2. Adds(i)' = 1
    BY <1>8 DEF Adds
  <2> HIDE DEF B, S
  <2>3. QED
    BY <1>3, <1>4, <1>5, <1>6, <1>8, <2>1, <2>2
<1>9. CASE orders'[i].state = "indexed" /\ orders'[i].nr = nr /\ orders'[i].side = "SELL"
  <2>1. S' = S \union {i} /\ B' = B
    BY <1>9 DEF IndexedOrders
  <2>2. Adds(i)' = 0 - 1
    BY <1>9 DEF Adds
  <2> HIDE DEF B, S
  <2>3. QED
    BY <1>3, <1>4, <1>5, <1>6, <1>9, <2>1, <2>2
<1>10. QED
  BY <1>7, <1>8, <1>9 DEF Sides

\* The numbers of the reconciliation are integers.
LEMMA GateNumbers ==
  ASSUME TypeOK
  PROVE  /\ \A nr : PositionSize(nr) \in Int
         /\ \A i : Adds(i) \in {-1, 0, 1}
         /\ \A p \in ledger : p.base \in Int /\ p.at \in Nat
<1>1. orders \in Seq(Order(Keys, Sides, Trades)) /\ ledger \subseteq Records
  BY DEF TypeOK
<1>2. \A nr : PositionSize(nr) \in Int
  BY <1>1, ExchangeAnswers
<1>3. \A i : Adds(i) \in {-1, 0, 1}
  BY DEF Adds
<1>4. \A p \in ledger : p.base \in Int /\ p.at \in Nat
  BY <1>1, RecordType
<1>5. QED
  BY <1>2, <1>3, <1>4

\* A block in hand is of the key that the reconciliation looks at.
LEMMA BlockKey ==
  ASSUME LedgerInv, NEW p \in ledger, NEW x, p.nr[1] = x
  PROVE  p.nr = <<x, BookProbe>>
BY BlocksKnown DEF Keys

-----------------------------------------------------------------------------
(* The gate, step by step.                                                 *)

\* Labels at which the locals promise nothing about positions.
LEMMA PlaceFree ==
  ASSUME NEW k, NEW t,
         NEW l \in PC \ {"confirmBook", "confirmSize", "deciding", "load", "save",
                         "owning", "unblocked", "submitting"}
  PROVE  PlaceSound(l, k, t)
BY DEF PlaceSound

\* The invariant as it reads at a step of the one cycle.
LEMMA AtGate ==
  ASSUME GateInv
  PROVE  /\ FirstCycle \in Cycles /\ TypeOK /\ LedgerInv
         /\ job[FirstCycle] \in JobType /\ trade[FirstCycle] \in Trades
         /\ pc \in [Cycles -> PC] /\ job \in [Cycles -> JobType] /\ trade \in [Cycles -> Trades]
         /\ LocalsSound(pc[FirstCycle], job[FirstCycle], trade[FirstCycle])
         /\ PlaceSound(pc[FirstCycle], job[FirstCycle], trade[FirstCycle])
         /\ now \in Nat
BY CycleAssumption DEF GateInv, LedgerInv, TypeOK

\* Outside an update the orders that took effect are in the ledger.
LEMMA RecordedThere ==
  ASSUME GateInv, pc[FirstCycle] \notin {"load", "save"},
         NEW i \in DOMAIN orders, orders[i].state = "indexed"
  PROVE  \E p \in ledger : /\ p.nr = orders[i].nr /\ p.at >= orders[i].at
                           /\ Executed(p) \/ p.order = i
BY DEF GateInv, Recorded

\* A step that leaves orders, ledger and time alone keeps the invariant if the
\* locals that it leaves are sound.
LEMMA GateStepLocals ==
  ASSUME GateInv, LedgerInv', UNCHANGED <<orders, ledger, now>>,
         pc[FirstCycle] \notin {"load", "save"},
         NEW l, NEW k, NEW t, pc'[FirstCycle] = l, job'[FirstCycle] = k,
         trade'[FirstCycle] = t, PlaceSound(l, k, t)
  PROVE  GateInv'
<1>1. SellsCovered'
  BY DEF GateInv, SellsCovered, PositionSize, IndexedOrders
<1>2. \A i \in DOMAIN orders : orders[i].state = "indexed" => Recorded(i)'
  BY RecordedThere DEF Recorded
<1>3. /\ \A i : Adds(i)' = Adds(i)
      /\ \A nr : PositionSize(nr)' = PositionSize(nr)
      /\ \A p : BaseSound(p) <=> BaseSound(p)'
  BY DEF BaseSound, PositionSize, IndexedOrders, Adds
<1>4. PlaceSound(pc[FirstCycle], job[FirstCycle], trade[FirstCycle])'
  BY <1>3 DEF PlaceSound
<1>5. QED
  BY <1>1, <1>2, <1>3, <1>4 DEF GateInv

\* The reconciliation reads the position, and decides about one block.
LEMMA GateReconcile ==
  ASSUME GateInv, LedgerInv', SameProbes,
         LET F == FirstCycle IN ProbeSize(F) \/ Decide(F)
  PROVE  GateInv'
<1> DEFINE F == FirstCycle
           j == job[F]
           t == trade[F]
<1>0. /\ F \in Cycles /\ pc \in [Cycles -> PC] /\ job \in [Cycles -> JobType] /\ TypeOK
      /\ LocalsSound(pc[F], j, t) /\ j \in JobType /\ PlaceSound(pc[F], j, t) /\ LedgerInv
  BY AtGate
<1>1. UNCHANGED <<orders, ledger, now, trade>> /\ pc[F] \in {"probeSize", "deciding"}
  BY DEF ProbeSize, Decide, At
<1>2. \A p \in j.blocks : p \in ledger /\ Pending(p) /\ p.nr[1] = t.pos
  BY <1>0 DEF LocalsSound
<1>3. CASE ProbeSize(F)
  <2> DEFINE size == PositionSize(<<t.pos, BookProbe>>)
  <2>1. PICK k : k = [j EXCEPT !.size = size]
    OBVIOUS
  <2>2. job'[F] = k /\ pc'[F] = "deciding"
    BY <1>0, <1>3, <2>1 DEF ProbeSize, Goto, SetJob, SameProbes
  <2>3. k.blocks = j.blocks /\ k.size = size
    BY <1>0, <2>1 DEF JobType
  <2>4. ASSUME NEW p \in j.blocks
        PROVE  size - p.base = Adds(p.order)
    <3>1. p \in ledger /\ p.nr = <<t.pos, BookProbe>> /\ Pending(p)
      BY <1>0, <1>2, BlockKey
    <3>2. size = p.base + Adds(p.order)
      BY <3>1 DEF GateInv, BaseSound
    <3>3. p.base \in Int /\ Adds(p.order) \in Int
      BY <1>0, <3>1, GateNumbers
    <3>4. QED
      BY <3>2, <3>3
  <2>5. PlaceSound("deciding", k, t)
    BY <2>3, <2>4 DEF PlaceSound
  <2>6. QED
    BY <1>1, <2>2, <2>5, GateStepLocals
<1>4. CASE Decide(F)
  <2>1. PICK p \in j.blocks, kind \in {"mark", "remove", "increment", "reset"} :
          /\ kind = "remove" =>
               /\ p.order \notin j.book
               /\ ~(p.side = "BUY" /\ j.size - p.base > 0)
               /\ ~(p.side = "SELL" /\ j.size - p.base < 0)
          /\ StartWrite(F, [j EXCEPT !.blocks = @ \ {p}, !.blk = {p},
                                     !.checks = p.checks], kind, p)
    BY <1>4 DEF Decide, WriteFor, DecidePendingOrder
  <2>2. PICK w : w = [kind |-> kind, rec |-> p]
    OBVIOUS
  <2>3. PICK m : m = [j EXCEPT !.blocks = @ \ {p}, !.blk = {p}, !.checks = p.checks]
    OBVIOUS
  <2>4. PICK k : k = [m EXCEPT !.write = {w}]
    OBVIOUS
  <2>5. pc'[F] = "load" /\ job'[F] = k /\ pc[F] = "deciding"
    BY <1>0, <1>4, <2>1, <2>2, <2>3, <2>4 DEF Decide, At, StartWrite, Goto, SetJob
  <2>6. /\ k.blocks = j.blocks \ {p} /\ k.write = {w} /\ w.kind = kind /\ w.rec = p
        /\ k.book = j.book /\ k.size = j.size
    <3>1. m.blocks = j.blocks \ {p} /\ m.book = j.book /\ m.size = j.size
      BY <1>0, <2>3 DEF JobType
    <3>2. k.blocks = m.blocks /\ k.book = m.book /\ k.size = m.size /\ k.write = {w}
      BY <1>0, <2>3, <2>4 DEF JobType
    <3>3. QED
      BY <2>2, <3>1, <3>2
  <2>7. \A b \in j.blocks : b.order \notin j.book => j.size - b.base = Adds(b.order)
    BY <1>0, <2>5 DEF PlaceSound
  <2>8. kind = "remove" => orders[p.order].state = "dead"
    <3>1. SUFFICES ASSUME kind = "remove" PROVE orders[p.order].state = "dead"
      OBVIOUS
    <3>2. /\ p.order \in DOMAIN orders /\ orders[p.order].side = p.side
          /\ orders[p.order].state \in OrderState /\ orders[p.order].side \in Sides
      BY <1>0, <1>2, OrdersType DEF LedgerInv, RecordsSound
    <3>3. orders[p.order].state # "live"
      BY <1>0, <2>1, <2>5, <3>1 DEF LocalsSound, Live
    <3>4. j.size - p.base = Adds(p.order)
      BY <2>1, <2>7, <3>1
    <3>5. orders[p.order].state # "indexed"
      BY <2>1, <3>1, <3>2, <3>4 DEF Adds, Sides
    <3>6. orders[p.order].state # "filled"
      BY <3>2 DEF GateInv
    <3>7. QED
      BY <3>2, <3>3, <3>5, <3>6 DEF OrderState
  <2>9. PlaceSound("load", k, t)
    BY <2>6, <2>7, <2>8 DEF PlaceSound
  <2>10. QED
    BY <1>1, <2>5, <2>9, GateStepLocals
<1>5. QED
  BY <1>3, <1>4

\* The fresh look: with no lag a match would show.
LEMMA GateConfirm ==
  ASSUME GateInv, LedgerInv', SameProbes, ConfirmBook(FirstCycle) \/ ConfirmSize(FirstCycle)
  PROVE  GateInv'
<1> DEFINE F == FirstCycle
           j == job[F]
           t == trade[F]
<1>0. /\ F \in Cycles /\ pc \in [Cycles -> PC] /\ job \in [Cycles -> JobType] /\ TypeOK
      /\ LocalsSound(pc[F], j, t) /\ j \in JobType /\ PlaceSound(pc[F], j, t) /\ LedgerInv
  BY AtGate
<1>1. UNCHANGED <<orders, ledger, now, trade>> /\ pc[F] \in {"confirmBook", "confirmSize"}
  BY DEF ConfirmBook, ConfirmSize, At
<1>2. PICK p \in j.blk : /\ j.blk = {p} /\ Tracked(p)
                         /\ pc[F] = "confirmSize" /\ ~j.open => ~Live(p.order)
  BY <1>0, <1>1 DEF LocalsSound
<1>3. /\ p.nr[1] = t.pos
      /\ \A b \in j.blocks : b.order \notin j.book => j.size - b.base = Adds(b.order)
  BY <1>0, <1>1, <1>2 DEF LocalsSound, PlaceSound
<1>4. CASE ConfirmBook(F)
  <2>1. PICK x : job'[F] = [j EXCEPT !.open = x]
    BY <1>0, <1>4 DEF ConfirmBook, SetJob
  <2>2. PICK k : k = [j EXCEPT !.open = x]
    OBVIOUS
  <2>3. k.blocks = j.blocks /\ k.book = j.book /\ k.size = j.size
    BY <1>0, <2>2 DEF JobType
  <2>4. pc'[F] = "confirmSize"
    BY <1>0, <1>4 DEF ConfirmBook, Goto
  <2>5. PlaceSound("confirmSize", k, t)
    BY <1>3, <2>3 DEF PlaceSound
  <2>6. QED
    BY <1>1, <2>1, <2>2, <2>4, <2>5, GateStepLocals
<1>5. CASE ConfirmSize(F)
  <2>1. CASE EndReconcile(F)
    <3>1. pc'[F] = "limits" /\ job'[F] = NoJob
      BY <1>0, <2>1 DEF EndReconcile, Goto, SetJob
    <3>2. PlaceSound("limits", NoJob, t)
      BY PlaceFree DEF PC, ClaimedPC
    <3>3. QED
      BY <1>1, <3>1, <3>2, GateStepLocals
  <2>2. CASE ~EndReconcile(F)
    <3> DEFINE size == PositionSize(<<t.pos, BookProbe>>)
    <3>1. PICK kind \in {"mark", "remove", "reset"} :
            /\ kind = "remove" =>
                 /\ ~j.open
                 /\ ~(p.side = "BUY" /\ size - p.base > 0)
                 /\ ~(p.side = "SELL" /\ size - p.base < 0)
            /\ StartWrite(F, [j EXCEPT !.open = FALSE], kind, p)
      BY <1>2, <1>5, <2>2 DEF ConfirmSize, WriteFor, DecidePendingOrder, SameProbes
    <3>2. PICK w : w = [kind |-> kind, rec |-> p]
      OBVIOUS
    <3>3. PICK m : m = [j EXCEPT !.open = FALSE]
      OBVIOUS
    <3>4. PICK k : k = [m EXCEPT !.write = {w}]
      OBVIOUS
    <3>5. pc'[F] = "load" /\ job'[F] = k
      BY <1>0, <3>1, <3>2, <3>3, <3>4 DEF StartWrite, Goto, SetJob
    <3>6. /\ k.blocks = j.blocks /\ k.write = {w} /\ w.kind = kind /\ w.rec = p
          /\ k.book = j.book /\ k.size = j.size
      BY <1>0, <3>2, <3>3, <3>4 DEF JobType
    <3>7. pc[F] = "confirmSize"
      BY <1>5 DEF ConfirmSize, At
    <3>8. kind = "remove" => orders[p.order].state = "dead"
      <4>1. SUFFICES ASSUME kind = "remove" PROVE orders[p.order].state = "dead"
        OBVIOUS
      <4>2. PICK q \in ledger : /\ Pending(q) /\ q.order = p.order /\ q.nr = p.nr
                                /\ q.base = p.base /\ q.side = p.side
        BY <1>2 DEF Tracked
      <4>3. /\ p.order \in DOMAIN orders /\ orders[p.order].side = p.side
            /\ orders[p.order].state \in OrderState /\ orders[p.order].side \in Sides
        BY <1>0, <4>2, OrdersType DEF LedgerInv, RecordsSound
      <4>4. orders[p.order].state # "live"
        BY <1>2, <3>1, <3>7, <4>1 DEF Live
      <4>5. q.nr = <<t.pos, BookProbe>>
        BY <1>0, <1>3, <4>2, BlockKey
      <4>6. size = q.base + Adds(q.order)
        BY <4>2, <4>5 DEF GateInv, BaseSound
      <4>7. size \in Int /\ q.base \in Int /\ Adds(p.order) \in Int
        BY <1>0, <4>2, GateNumbers
      <4>8. size - p.base = Adds(p.order)
        BY <4>2, <4>6, <4>7
      <4>9. orders[p.order].state # "indexed"
        BY <3>1, <4>1, <4>3, <4>8 DEF Adds, Sides
      <4>10. orders[p.order].state # "filled"
        BY <4>3 DEF GateInv
      <4>11. QED
        BY <4>3, <4>4, <4>9, <4>10 DEF OrderState
    <3>9. PlaceSound("load", k, t)
      BY <1>3, <3>6, <3>8 DEF PlaceSound
    <3>10. QED
      BY <1>1, <3>5, <3>9, GateStepLocals
  <2>3. QED
    BY <2>1, <2>2
<1>6. QED
  BY <1>4, <1>5

\* The steps that lead where nothing is promised about positions.
LEMMA GateElsewhere ==
  ASSUME GateInv, LedgerInv', Undisturbed,
         LET F == FirstCycle
         IN  GateReject(F) \/ DropDuplicate(F) \/ Claim(F) \/ RefuseUnsafe(F)
             \/ Bail(F) \/ Leave(F) \/ FinishReconcile(F) \/ CheckLimits(F)
             \/ LoadPendingBlocks(F) \/ ProbeBook(F) \/ StartLoop(F) \/ FinishLoop(F)
             \/ SkipTarget(F) \/ SkipSell(F) \/ ExecuteFails(F)
  PROVE  GateInv'
<1> DEFINE F == FirstCycle
<1>0. F \in Cycles /\ pc \in [Cycles -> PC]
  BY AtGate
<1>1. UNCHANGED <<orders, ledger, now>> /\ pc[F] \notin {"load", "save"}
  BY DEF GateReject, DropDuplicate, Claim, RefuseUnsafe, Bail, Leave, FinishReconcile,
     CheckLimits, LoadPendingBlocks, ProbeBook, StartLoop, FinishLoop, SkipTarget,
     SkipSell, ExecuteFails, At, Undisturbed
<1>2. pc'[F] \in {"idle", "claimed", "leaving", "limits", "sizing", "probeBook",
                  "probeSize", "looping"}
  BY <1>0 DEF GateReject, DropDuplicate, Claim, RefuseUnsafe, Bail, Leave,
     FinishReconcile, CheckLimits, LoadPendingBlocks, ProbeBook, StartLoop, FinishLoop,
     SkipTarget, SkipSell, ExecuteFails, Forget, EndReconcile, NextTarget, Goto, At
<1>3. PlaceSound(pc'[F], job'[F], trade'[F])
  BY <1>2, PlaceFree DEF PC, ClaimedPC
<1>4. QED
  BY <1>1, <1>3, GateStepLocals

\* The block is checked, then the position, for the one target.
LEMMA GateLoop ==
  ASSUME GateInv, LedgerInv',
         LET F == FirstCycle IN TakeTarget(F) \/ CheckOwned(F) \/ TakeBaseline(F)
  PROVE  GateInv'
<1> DEFINE F == FirstCycle
           j == job[F]
           t == trade[F]
           Free(g) == ~IsPositionBlocked(ledger, <<t.pos, g>>, BlockPeriod(t.wallet), now)
<1>0. /\ F \in Cycles /\ pc \in [Cycles -> PC] /\ job \in [Cycles -> JobType] /\ TypeOK
      /\ LocalsSound(pc[F], j, t) /\ j \in JobType /\ PlaceSound(pc[F], j, t) /\ LedgerInv
  BY AtGate
<1>1. UNCHANGED <<orders, ledger, now, trade>> /\ pc[F] \notin {"load", "save"}
  BY DEF TakeTarget, CheckOwned, TakeBaseline, At
<1>2. j.tgt \subseteq {BookProbe}
  BY <1>0 DEF LocalsSound
<1>3. CASE TakeTarget(F)
  <2>1. PICK x \in j.todo : /\ ~IsBlocked(F, x)
                            /\ job'[F] = [j EXCEPT !.todo = @ \ {x}, !.tgt = {x}]
    BY <1>0, <1>3 DEF TakeTarget, SetJob
  <2>2. PICK k : k = [j EXCEPT !.todo = @ \ {x}, !.tgt = {x}]
    OBVIOUS
  <2>3. k.tgt = {x}
    BY <1>0, <2>2 DEF JobType
  <2>4. PICK l \in {"owning", "unblocked"} : pc'[F] = l /\ (l = "unblocked" => t.side # "SELL")
    BY <1>0, <1>3 DEF TakeTarget, Goto
  <2>5. Free(x)
    BY <2>1 DEF IsBlocked, Key
  <2>6. PlaceSound(l, k, t)
    BY <2>3, <2>4, <2>5 DEF PlaceSound
  <2>7. QED
    BY <1>1, <2>1, <2>2, <2>4, <2>6, GateStepLocals
<1>4. CASE CheckOwned(F)
  <2>1. /\ pc[F] = "owning" /\ pc'[F] = "unblocked" /\ job'[F] = j
        /\ \E g \in j.tgt : PositionSize(<<t.pos, g>>) > 0
    BY <1>0, <1>4 DEF CheckOwned, At, Goto, Key
  <2>2. PICK g \in j.tgt : PositionSize(<<t.pos, g>>) > 0
    BY <2>1
  <2>3. j.tgt = {g} /\ PositionSize(<<t.pos, g>>) \in Int
    BY <1>0, <1>2, <2>2, GateNumbers
  <2>4. \A h \in j.tgt : PositionSize(<<t.pos, h>>) >= 1
    BY <2>2, <2>3
  <2>5. \A h \in j.tgt : Free(h)
    BY <1>0, <2>1 DEF PlaceSound
  <2>6. PlaceSound("unblocked", j, t)
    BY <2>4, <2>5 DEF PlaceSound
  <2>7. QED
    BY <1>1, <2>1, <2>6, GateStepLocals
<1>5. CASE TakeBaseline(F)
  <2>1. PICK g \in j.tgt : job'[F] = [j EXCEPT !.base = PositionSize(<<t.pos, g>>)]
    BY <1>0, <1>5 DEF TakeBaseline, SetJob, Key
  <2>2. PICK k : k = [j EXCEPT !.base = PositionSize(<<t.pos, g>>)]
    OBVIOUS
  <2>3. k.tgt = j.tgt /\ k.base = PositionSize(<<t.pos, g>>) /\ j.tgt = {g}
    BY <1>0, <1>2, <2>1, <2>2 DEF JobType
  <2>4. PICK l \in {"submitting", "leaving"} : pc[F] = "unblocked" /\ pc'[F] = l
    BY <1>0, <1>5 DEF TakeBaseline, At, Goto
  <2>5. /\ \A h \in j.tgt : Free(h)
        /\ t.side = "SELL" => \A h \in j.tgt : PositionSize(<<t.pos, h>>) >= 1
    BY <1>0, <2>4 DEF PlaceSound
  <2>6. PlaceSound(l, k, t)
    BY <2>3, <2>4, <2>5 DEF PlaceSound
  <2>7. QED
    BY <1>1, <2>1, <2>2, <2>4, <2>6, GateStepLocals
<1>6. QED
  BY <1>3, <1>4, <1>5

\* A load changes nothing that the invariant speaks of.
LEMMA GateLoad ==
  ASSUME GateInv, LedgerInv', LoadLedger(FirstCycle)
  PROVE  GateInv'
<1> DEFINE F == FirstCycle
           j == job[F]
           t == trade[F]
<1>0. /\ F \in Cycles /\ pc \in [Cycles -> PC] /\ job \in [Cycles -> JobType]
      /\ j \in JobType /\ PlaceSound(pc[F], j, t)
  BY AtGate
<1>1. PICK k : k = [j EXCEPT !.snap = ledger]
  OBVIOUS
<1>2. /\ UNCHANGED <<orders, ledger, trade, now>> /\ pc[F] = "load"
      /\ pc'[F] = "save" /\ job'[F] = k
  BY <1>0, <1>1 DEF LoadLedger, At, Goto, SetJob
<1>3. /\ k.blocks = j.blocks /\ k.book = j.book /\ k.size = j.size /\ k.write = j.write
  BY <1>0, <1>1 DEF JobType
<1>4. SellsCovered'
  BY <1>2 DEF GateInv, SellsCovered, PositionSize, IndexedOrders
<1>5. /\ \A i : Adds(i)' = Adds(i)
      /\ \A nr : PositionSize(nr)' = PositionSize(nr)
      /\ \A p : BaseSound(p) <=> BaseSound(p)'
  BY <1>2 DEF BaseSound, PositionSize, IndexedOrders, Adds
<1>6. PlaceSound("save", k, t)
  BY <1>0, <1>2, <1>3 DEF PlaceSound
<1>7. PlaceSound(pc[F], job[F], trade[F])'
  BY <1>2, <1>5, <1>6 DEF PlaceSound
<1>8. \A i \in DOMAIN orders : orders[i].state = "indexed" => Recorded(i)'
  BY <1>2, <1>3 DEF GateInv, Recorded
<1>9. QED
  BY <1>2, <1>4, <1>5, <1>7, <1>8 DEF GateInv

\* A block that time has opened stays open.
LEMMA GateTick ==
  ASSUME GateInv, LedgerInv', Tick
  PROVE  GateInv'
<1> DEFINE F == FirstCycle
           j == job[F]
           t == trade[F]
<1>0. /\ now \in Nat /\ TypeOK /\ PlaceSound(pc[F], j, t) /\ trade[F] \in Trades
  BY AtGate
<1>1. UNCHANGED <<orders, ledger, pc, trade, job>> /\ now' = now + 1
  BY DEF Tick
<1>2. SellsCovered'
  BY <1>1 DEF GateInv, SellsCovered, PositionSize, IndexedOrders
<1>3. /\ \A i : Adds(i)' = Adds(i)
      /\ \A nr : PositionSize(nr)' = PositionSize(nr)
      /\ \A p : BaseSound(p) <=> BaseSound(p)'
  BY <1>1 DEF BaseSound, PositionSize, IndexedOrders, Adds
<1>4. BlockPeriod(t.wallet) \in Nat
  BY <1>0, TradeAssumption, PeriodAssumption DEF BlockPeriod, TradeType
<1>5. ASSUME NEW nr, ~IsPositionBlocked(ledger, nr, BlockPeriod(t.wallet), now)
      PROVE  ~IsPositionBlocked(ledger, nr, BlockPeriod(t.wallet), now + 1)
  BY <1>0, <1>4, <1>5, GateNumbers DEF IsPositionBlocked, OfKey
<1>6. PlaceSound(pc[F], job[F], trade[F])'
  BY <1>0, <1>1, <1>3, <1>5 DEF PlaceSound, BlockPeriod
<1>7. \A i \in DOMAIN orders : /\ orders[i].state = "indexed" => Recorded(i)'
                               /\ orders[i].at <= now + 1
  BY <1>0, <1>1, OrdersType DEF GateInv, Recorded
<1>8. QED
  BY <1>1, <1>2, <1>3, <1>6, <1>7 DEF GateInv

\* The order placed: what it sells is held, and the position was taken down before.
LEMMA GateExecute ==
  ASSUME GateInv, LedgerInv', NoLag, ExecuteTrade(FirstCycle)
  PROVE  GateInv'
<1> DEFINE F == FirstCycle
           j == job[F]
           t == trade[F]
<1>0. /\ F \in Cycles /\ pc \in [Cycles -> PC] /\ job \in [Cycles -> JobType] /\ TypeOK
      /\ LocalsSound(pc[F], j, t) /\ j \in JobType /\ PlaceSound(pc[F], j, t) /\ LedgerInv
      /\ j.tgt \subseteq Targets /\ t.side \in Sides /\ now \in Nat
  BY AtGate, TradeAssumption DEF JobType, TradeType
<1>n. PICK n : n = Len(orders) + 1
  OBVIOUS
<1>1. PICK g \in j.tgt, state \in {"live", "indexed"}, kind \in {"executed", "pending"} :
        /\ state = "live" <=> kind = "pending"
        /\ Place(F, g, state)
        /\ StartWrite(F, j, kind, NewRecord(Key(F, g), kind, n, now, j.base, t.side))
  BY <1>n DEF ExecuteTrade, Matched, NoLag
<1>2. PICK key : key = Key(F, g)
  OBVIOUS
<1>3. PICK r : r = NewRecord(key, kind, n, now, j.base, t.side)
  OBVIOUS
<1>4. r.nr = key /\ r.order = n /\ r.side = t.side /\ r.base = j.base
  BY <1>3 DEF NewRecord
<1>5. PICK w : w = [kind |-> kind, rec |-> r]
  OBVIOUS
<1>6. PICK k : k = [j EXCEPT !.write = {w}]
  OBVIOUS
<1>7. /\ pc[F] = "submitting" /\ pc'[F] = "load" /\ job'[F] = k
      /\ UNCHANGED <<ledger, trade, now>>
  BY <1>0, <1>1, <1>2, <1>3, <1>5, <1>6 DEF ExecuteTrade, StartWrite, Goto, SetJob, At
<1>8. /\ k.blocks = j.blocks /\ k.write = {w} /\ w.kind = kind /\ w.rec = r
  BY <1>0, <1>5, <1>6 DEF JobType
<1>9. /\ DOMAIN orders' = DOMAIN orders \union {n} /\ n \notin DOMAIN orders
      /\ \A i \in DOMAIN orders : orders'[i] = orders[i]
      /\ orders'[n].nr = key /\ orders'[n].side = t.side /\ orders'[n].state = state
      /\ orders'[n].at = now
  <2>1. g \in Targets /\ state \in OrderState
    BY <1>0, <1>1 DEF OrderState
  <2>2. Place(F, g, state)
    BY <1>1
  <2>3. /\ DOMAIN orders' = DOMAIN orders \union {n} /\ n \notin DOMAIN orders
        /\ \A i \in DOMAIN orders : orders'[i] = orders[i]
        /\ orders'[n] = [nr |-> Key(F, g), side |-> t.side, copies |-> t, at |-> now,
                         state |-> state]
    BY <1>0, <1>n, <2>1, <2>2, PlaceFacts
  <2>4. QED
    BY <1>2, <2>3
<1>10. /\ Unledgered(key) /\ j.blocks = {}
       /\ j.base = PositionSize(key)
       /\ t.side = "SELL" => PositionSize(key) >= 1
  BY <1>0, <1>1, <1>2, <1>7 DEF LocalsSound, PlaceSound, Key
<1>11. \A nr : PositionSize(nr)' = PositionSize(nr) + (IF key = nr THEN Adds(n)' ELSE 0)
  BY <1>0, <1>9, SizeAfter
<1>12. Adds(n)' = IF state # "indexed" THEN 0 ELSE IF t.side = "BUY" THEN 1 ELSE 0 - 1
  BY <1>9 DEF Adds
<1>13. \A nr : PositionSize(nr) \in Int
  BY <1>0, GateNumbers
<1>14. SellsCovered'
  <2>1. SUFFICES ASSUME NEW nr \in Keys PROVE PositionSize(nr)' >= 0
    BY DEF SellsCovered
  <2>2. PositionSize(nr) >= 0
    BY DEF GateInv, SellsCovered
  <2>3. CASE nr # key
    BY <1>11, <1>13, <2>2, <2>3
  <2>4. CASE nr = key
    BY <1>0, <1>10, <1>11, <1>12, <1>13, <2>2, <2>4 DEF Sides
  <2>5. QED
    BY <2>3, <2>4
<1>15. \A i \in DOMAIN orders : Adds(i)' = Adds(i)
  BY <1>9 DEF Adds
<1>16. ASSUME NEW p \in ledger', Pending(p) PROVE BaseSound(p)'
  <2>1. p \in ledger /\ p.nr # key /\ p.order \in DOMAIN orders
    BY <1>0, <1>7, <1>10, <1>16, BlocksKnown DEF Unledgered
  <2>2. BaseSound(p)
    BY <1>16, <2>1 DEF GateInv
  <2>3. PositionSize(p.nr)' = PositionSize(p.nr) /\ Adds(p.order)' = Adds(p.order)
    BY <1>11, <1>13, <1>15, <2>1
  <2>4. QED
    BY <2>2, <2>3 DEF BaseSound
<1>17. kind = "pending" => BaseSound(r)'
  BY <1>1, <1>4, <1>10, <1>11, <1>12, <1>13 DEF BaseSound
<1>18. PlaceSound(pc[F], job[F], trade[F])'
  BY <1>1, <1>7, <1>8, <1>10, <1>17 DEF PlaceSound
<1>19. ASSUME NEW i \in DOMAIN orders', orders'[i].state = "indexed" PROVE Recorded(i)'
  <2>1. CASE i = n
    BY <1>1, <1>4, <1>7, <1>8, <2>1 DEF Recorded
  <2>2. CASE i # n
    <3>1. i \in DOMAIN orders /\ orders'[i] = orders[i]
      BY <1>9, <1>19, <2>2
    <3>2. \E p \in ledger : /\ p.nr = orders[i].nr /\ p.at >= orders[i].at
                            /\ Executed(p) \/ p.order = i
      BY <1>7, <1>19, <3>1, RecordedThere
    <3>3. QED
      BY <1>7, <3>1, <3>2 DEF Recorded
  <2>3. QED
    BY <2>1, <2>2
<1>20. \A i \in DOMAIN orders' : orders'[i].state # "filled" /\ orders'[i].at <= now'
  BY <1>0, <1>1, <1>7, <1>9 DEF GateInv
<1>21. \A p \in ledger' : orders'[p.order].at <= p.at
  BY <1>0, <1>7, <1>9, BlocksKnown DEF GateInv
<1>22. QED
  BY <1>14, <1>16, <1>18, <1>19, <1>20, <1>21 DEF GateInv

\* An order on the book is known to one record, which holds the position before it.
LEMMA LiveKnown ==
  ASSUME GateInv, NEW i \in DOMAIN orders, orders[i].state = "live"
  PROVE  /\ PositionSize(orders[i].nr) >= (IF orders[i].side = "SELL" THEN 1 ELSE 0)
         /\ \A p \in ledger : Pending(p) /\ p.nr = orders[i].nr => p.order = i
         /\ \A w \in job[FirstCycle].write :
              pc[FirstCycle] \in {"load", "save"} /\ w.kind = "pending"
              /\ w.rec.nr = orders[i].nr => w.rec.order = i
         /\ pc[FirstCycle] \in {"owning", "unblocked", "submitting"} =>
              \A g \in job[FirstCycle].tgt : <<trade[FirstCycle].pos, g>> # orders[i].nr
         /\ \/ \E w \in job[FirstCycle].write :
                 /\ pc[FirstCycle] \in {"load", "save"} /\ w.rec.order = i
                 /\ w.kind = "pending"
            \/ \E p \in ledger : p.nr = orders[i].nr /\ p.order = i /\ Pending(p)
<1> DEFINE F == FirstCycle
           j == job[F]
           t == trade[F]
<1>0. /\ LocalsSound(pc[F], j, t) /\ PlaceSound(pc[F], j, t) /\ LedgerInv /\ TypeOK
      /\ Adds(i) = 0 /\ orders[i].nr \in Keys
  BY AtGate, OrdersType DEF Adds
<1>1. PositionSize(orders[i].nr) >= 0
  BY <1>0 DEF GateInv, SellsCovered
<1>2. \/ \E w \in j.write : pc[F] \in {"load", "save"} /\ w.rec.order = i /\ w.kind = "pending"
      \/ \E p \in ledger : p.nr = orders[i].nr /\ p.order = i /\ Pending(p)
  BY DEF GateInv, LedgerInv, Alone, LiveOrderLedgered, BeingRecorded
<1>3. \A w \in j.write : pc[F] \in {"load", "save"} /\ w.kind = "pending" =>
        /\ PlacedSound(j, w) /\ j.write = {w} /\ BaseSound(w.rec)
  BY <1>0 DEF LocalsSound, UpdateSound, PlaceSound
<1>4. CASE \E p \in ledger : p.nr = orders[i].nr /\ p.order = i /\ Pending(p)
  <2>1. PICK p \in ledger : p.nr = orders[i].nr /\ p.order = i /\ Pending(p)
    BY <1>4
  <2>2. \A q \in ledger : Pending(q) /\ q.nr = orders[i].nr => q = p
    BY <1>0, <2>1 DEF LedgerInv, RecordsSound
  <2>3. BaseSound(p) /\ p.side = orders[i].side /\ p.base \in Int
    BY <1>0, <2>1, GateNumbers DEF GateInv, LedgerInv, RecordsSound
  <2>4. PositionSize(orders[i].nr) >= (IF orders[i].side = "SELL" THEN 1 ELSE 0)
    BY <1>0, <1>1, <2>1, <2>3 DEF BaseSound
  <2>5. ~Unledgered(orders[i].nr)
    BY <2>1 DEF Unledgered
  <2>6. pc[F] \in {"owning", "unblocked", "submitting"} =>
          \A g \in j.tgt : <<t.pos, g>> # orders[i].nr
    BY <1>0, <2>5 DEF LocalsSound
  <2>7. \A w \in j.write : pc[F] \in {"load", "save"} /\ w.kind = "pending" =>
          w.rec.nr # orders[i].nr
    BY <1>3, <2>5 DEF PlacedSound
  <2>8. QED
    BY <1>4, <2>1, <2>2, <2>4, <2>6, <2>7
<1>5. CASE \E w \in j.write : pc[F] \in {"load", "save"} /\ w.rec.order = i /\ w.kind = "pending"
  <2>1. PICK w \in j.write : pc[F] \in {"load", "save"} /\ w.rec.order = i /\ w.kind = "pending"
    BY <1>5
  <2>2. /\ j.write = {w} /\ BaseSound(w.rec) /\ Unledgered(w.rec.nr)
        /\ orders[i].nr = w.rec.nr /\ orders[i].side = w.rec.side
    BY <1>3, <2>1 DEF PlacedSound
  <2>3. w.rec.base \in Int
    BY <2>1, AtGate, RecordType DEF JobType
  <2>4. PositionSize(orders[i].nr) >= (IF orders[i].side = "SELL" THEN 1 ELSE 0)
    BY <1>0, <1>1, <2>1, <2>2, <2>3 DEF BaseSound
  <2>5. \A q \in ledger : ~(Pending(q) /\ q.nr = orders[i].nr)
    BY <2>2 DEF Unledgered
  <2>6. QED
    BY <1>5, <2>1, <2>2, <2>4, <2>5
<1>6. QED
  BY <1>2, <1>4, <1>5

\* An order that is matched, or cancelled, while its record waits: what the record
\* says of the position before it stays true.
LEMMA GateExchange ==
  ASSUME GateInv, LedgerInv', NoLag, ExchangeMoves
  PROVE  GateInv'
<1> DEFINE F == FirstCycle
           j == job[F]
           t == trade[F]
<1>0. /\ F \in Cycles /\ TypeOK /\ LocalsSound(pc[F], j, t) /\ PlaceSound(pc[F], j, t)
      /\ LedgerInv /\ j \in JobType
  BY AtGate
<1>1. UNCHANGED <<ledger, pc, trade, job, now>> /\ ExchangeStep
  BY DEF ExchangeMoves, memory
<1>2. PICK i \in DOMAIN orders :
        /\ \A k \in DOMAIN orders \ {i} : orders'[k] = orders[k]
        /\ \/ orders[i].state = "live" /\ orders'[i].state \in {Matched, "dead"}
           \/ orders[i].state = "filled" /\ orders'[i].state = "indexed"
  BY <1>0, <1>1, ExchangeFacts
<1>3. /\ DOMAIN orders' = DOMAIN orders
      /\ \A k \in DOMAIN orders :
           /\ orders'[k].nr = orders[k].nr /\ orders'[k].side = orders[k].side
           /\ orders'[k].at = orders[k].at
  BY <1>0, <1>1, ExchangeFacts
<1>4. orders[i].state = "live" /\ orders'[i].state \in {"indexed", "dead"}
  BY <1>2 DEF GateInv, NoLag, Matched
<1>5. PICK key : key = orders[i].nr
  OBVIOUS
<1>6. /\ PositionSize(key) >= (IF orders[i].side = "SELL" THEN 1 ELSE 0)
      /\ \A p \in ledger : Pending(p) /\ p.nr = key => p.order = i
      /\ \A w \in j.write :
           pc[F] \in {"load", "save"} /\ w.kind = "pending" /\ w.rec.nr = key
             => w.rec.order = i
      /\ pc[F] \in {"owning", "unblocked", "submitting"} =>
           \A g \in j.tgt : <<t.pos, g>> # key
      /\ \/ \E w \in j.write : /\ pc[F] \in {"load", "save"} /\ w.rec.order = i
                               /\ w.kind = "pending"
         \/ \E p \in ledger : p.nr = key /\ p.order = i /\ Pending(p)
  BY <1>4, <1>5, LiveKnown
<1>7. orders[i].side \in Sides /\ orders'[i].side = orders[i].side
  BY <1>0, <1>3, OrdersType
<1>8. \A nr : PositionSize(nr)' = PositionSize(nr) + (IF key = nr THEN Adds(i)' ELSE 0)
  BY <1>0, <1>2, <1>3, <1>4, <1>5, <1>7, SizeAfter
<1>9. /\ Adds(i) = 0
      /\ Adds(i)' \in {-1, 0, 1} /\ (Adds(i)' = 0 - 1 => orders[i].side = "SELL")
      /\ \A k \in DOMAIN orders \ {i} : Adds(k)' = Adds(k)
  BY <1>2, <1>4, <1>7 DEF Adds, Sides
<1>10. \A nr : PositionSize(nr) \in Int
  BY <1>0, GateNumbers
<1>11. SellsCovered'
  <2>1. SUFFICES ASSUME NEW nr \in Keys PROVE PositionSize(nr)' >= 0
    BY DEF SellsCovered
  <2>2. PositionSize(nr) >= 0
    BY DEF GateInv, SellsCovered
  <2>3. QED
    BY <1>6, <1>8, <1>9, <1>10, <2>2
<1>12. ASSUME NEW p, p.order \in DOMAIN orders, orders[p.order].nr = p.nr, p.base \in Int,
              p.nr = key => p.order = i, BaseSound(p)
       PROVE  BaseSound(p)'
  <2>1. CASE p.nr = key
    <3>1. p.order = i /\ PositionSize(p.nr) = p.base
      BY <1>9, <1>12, <2>1 DEF BaseSound
    <3>2. PositionSize(p.nr)' = p.base + Adds(p.order)'
      BY <1>8, <2>1, <3>1
    <3>3. QED
      BY <1>12, <3>2 DEF BaseSound
  <2>2. CASE p.nr # key
    <3>1. p.order # i
      BY <1>5, <1>12, <2>2
    <3>2. PositionSize(p.nr)' = PositionSize(p.nr) /\ Adds(p.order)' = Adds(p.order)
      BY <1>8, <1>9, <1>10, <1>12, <2>2, <3>1
    <3>3. QED
      BY <1>12, <3>2 DEF BaseSound
  <2>3. QED
    BY <2>1, <2>2
<1>13. ASSUME NEW p \in ledger, Pending(p) PROVE BaseSound(p)'
  <2>1. p.order \in DOMAIN orders /\ orders[p.order].nr = p.nr /\ p.base \in Int
    BY <1>0, BlocksKnown, GateNumbers
  <2>2. BaseSound(p) /\ (p.nr = key => p.order = i)
    BY <1>6, <1>13 DEF GateInv
  <2>3. QED
    BY <1>12, <2>1, <2>2
<1>14. ASSUME pc[F] \in {"load", "save"}, NEW w \in j.write
       PROVE  /\ w.kind = "remove" => orders'[w.rec.order].state = "dead"
              /\ w.kind = "pending" => BaseSound(w.rec)'
  <2>1. UpdateSound(j, w) \/ PlacedSound(j, w)
    BY <1>0, <1>14 DEF LocalsSound
  <2>2. CASE w.kind = "remove"
    <3>1. w.rec.order \in DOMAIN orders
      BY <1>0, <2>1, <2>2, BlocksKnown DEF UpdateSound, PlacedSound, Tracked
    <3>2. orders[w.rec.order].state = "dead"
      BY <1>0, <1>14, <2>2 DEF PlaceSound
    <3>3. QED
      BY <1>2, <1>4, <2>2, <3>1, <3>2
  <2>3. CASE w.kind = "pending"
    <3>1. w.rec.order \in DOMAIN orders /\ orders[w.rec.order].nr = w.rec.nr
      BY <2>1, <2>3 DEF UpdateSound, PlacedSound
    <3>2. w.rec.base \in Int
      BY <1>0, RecordType DEF JobType
    <3>3. BaseSound(w.rec) /\ (w.rec.nr = key => w.rec.order = i)
      BY <1>0, <1>6, <1>14, <2>3 DEF PlaceSound
    <3>4. QED
      BY <1>12, <2>3, <3>1, <3>2, <3>3
  <2>4. QED
    BY <2>2, <2>3
<1>15. ASSUME pc[F] \in {"confirmBook", "confirmSize", "deciding", "load", "save"},
              NEW p \in j.blocks, p.order \notin j.book
       PROVE  j.size - p.base = Adds(p.order)'
  <2>1. p \in ledger /\ ~Live(p.order) /\ j.size - p.base = Adds(p.order)
    BY <1>0, <1>15 DEF LocalsSound, PlaceSound
  <2>2. p.order \in DOMAIN orders /\ p.order # i
    BY <1>0, <1>4, <2>1, BlocksKnown DEF Live
  <2>3. QED
    BY <1>9, <2>1, <2>2
<1>16. ASSUME pc[F] \in {"owning", "unblocked", "submitting"}, NEW g \in j.tgt
       PROVE  PositionSize(<<t.pos, g>>)' = PositionSize(<<t.pos, g>>)
  <2>1. PICK nr : nr = <<t.pos, g>>
    OBVIOUS
  <2>2. nr # key
    BY <1>6, <1>16, <2>1
  <2>3. PositionSize(nr)' = PositionSize(nr)
    BY <1>8, <1>10, <2>2
  <2>4. QED
    BY <1>1, <2>1, <2>3
<1>17. PlaceSound(pc[F], job[F], trade[F])'
  BY <1>0, <1>1, <1>14, <1>15, <1>16 DEF PlaceSound, BlockPeriod
<1>18. ASSUME NEW k \in DOMAIN orders, orders'[k].state = "indexed" PROVE Recorded(k)'
  <2>1. CASE k = i
    <3>1. \A p \in ledger : p.order = i => orders[i].at <= p.at
      BY DEF GateInv
    <3>2. QED
      BY <1>1, <1>3, <1>5, <1>6, <2>1, <3>1 DEF Recorded
  <2>2. CASE k # i
    <3>1. orders'[k] = orders[k] /\ Recorded(k)
      BY <1>2, <1>18, <2>2 DEF GateInv
    <3>2. QED
      BY <1>1, <3>1 DEF Recorded
  <2>3. QED
    BY <2>1, <2>2
<1>19. \A k \in DOMAIN orders' : orders'[k].state # "filled" /\ orders'[k].at <= now'
  BY <1>1, <1>2, <1>3, <1>4 DEF GateInv
<1>20. \A p \in ledger' : orders'[p.order].at <= p.at
  BY <1>0, <1>1, <1>3, BlocksKnown DEF GateInv
<1>21. QED
  BY <1>1, <1>3, <1>11, <1>13, <1>17, <1>18, <1>19, <1>20 DEF GateInv

\* An update by the reconciliation keeps what the ledger knows of the orders that
\* took effect: the record that it lifts is of a cancelled one.
LEMMA GateUpdate ==
  ASSUME GateInv, LedgerInv', pc[FirstCycle] = "save", UNCHANGED <<orders, trade, now>>,
         NEW w \in [kind : WriteKind, rec : Records], job[FirstCycle].write = {w},
         ledger' \in Apply(w, ledger), UpdateSound(job[FirstCycle], w),
         AfterReconcileSave(FirstCycle, w)
  PROVE  GateInv'
<1> DEFINE F == FirstCycle
           j == job[F]
           t == trade[F]
<1>0. /\ F \in Cycles /\ pc \in [Cycles -> PC] /\ job \in [Cycles -> JobType] /\ TypeOK
      /\ LedgerInv /\ j \in JobType /\ ledger \in SUBSET Records /\ now \in Nat
      /\ PlaceSound(pc[F], j, t)
  BY AtGate DEF TypeOK
<1>1. w.kind \in {"mark", "remove", "increment", "reset"}
  BY DEF UpdateSound
<1>2. /\ \A q \in ledger' : \E p \in ledger : /\ SameOrder(q, p) /\ q.at \in {p.at, now}
                                              /\ Pending(q) => Pending(p)
      /\ \A p \in ledger : p.order # w.rec.order => p \in ledger'
      /\ w.kind \in {"increment", "reset"} =>
           \A p \in ledger : \E q \in ledger' : /\ SameOrder(q, p) /\ q.at = p.at
                                                /\ q.status = p.status
      /\ w.kind = "mark" =>
           \A p \in ledger : p.order = w.rec.order =>
             \E q \in ledger' : SameOrder(q, p) /\ q.at = now /\ Executed(q)
      /\ w.kind = "remove" => \A p \in ledger : ~Pending(p) => p \in ledger'
  BY <1>0, <1>1, UpdateSpec
<1>3. /\ \A i : Adds(i)' = Adds(i)
      /\ \A nr : PositionSize(nr)' = PositionSize(nr)
      /\ \A p : BaseSound(p) <=> BaseSound(p)'
  BY DEF BaseSound, PositionSize, IndexedOrders, Adds
<1>4. SellsCovered'
  BY <1>3 DEF GateInv, SellsCovered
<1>5. ASSUME NEW q \in ledger'
      PROVE  orders[q.order].at <= q.at /\ (Pending(q) => BaseSound(q)')
  <2>1. PICK p \in ledger : /\ SameOrder(q, p) /\ q.at \in {p.at, now}
                            /\ Pending(q) => Pending(p)
    BY <1>2
  <2>2. /\ p.order \in DOMAIN orders /\ orders[p.order].at <= now
        /\ orders[p.order].at <= p.at /\ (Pending(p) => BaseSound(p))
    BY <1>0, BlocksKnown DEF GateInv
  <2>3. Pending(q) => BaseSound(q)
    BY <2>1, <2>2 DEF SameOrder, BaseSound
  <2>4. QED
    BY <1>3, <2>1, <2>2, <2>3 DEF SameOrder
<1>6. ASSUME NEW i \in DOMAIN orders, orders[i].state = "indexed" PROVE Recorded(i)'
  <2>1. SUFFICES \E q \in ledger' : /\ q.nr = orders[i].nr /\ q.at >= orders[i].at
                                    /\ Executed(q) \/ q.order = i
    BY DEF Recorded
  <2>2. PICK p \in ledger : /\ p.nr = orders[i].nr /\ p.at >= orders[i].at
                            /\ Executed(p) \/ p.order = i
    BY <1>1, <1>6 DEF GateInv, Recorded
  <2>3. CASE p \in ledger'
    BY <2>2, <2>3
  <2>4. CASE w.kind \in {"increment", "reset"}
    <3>1. PICK q \in ledger' : SameOrder(q, p) /\ q.at = p.at /\ q.status = p.status
      BY <1>2, <2>4
    <3>2. QED
      BY <2>2, <3>1 DEF SameOrder, Executed
  <2>5. CASE w.kind = "mark" /\ p.order = w.rec.order
    <3>1. PICK q \in ledger' : SameOrder(q, p) /\ q.at = now /\ Executed(q)
      BY <1>2, <2>5
    <3>2. now >= orders[i].at
      BY DEF GateInv
    <3>3. QED
      BY <2>2, <3>1, <3>2 DEF SameOrder
  <2>6. CASE w.kind = "remove" /\ p.order = w.rec.order
    <3>1. orders[p.order].state = "dead"
      BY <1>0, <2>6 DEF PlaceSound
    <3>2. Executed(p)
      BY <1>6, <2>2, <3>1
    <3>3. p \in ledger'
      BY <1>2, <2>6, <3>2 DEF Executed, Pending
    <3>4. QED
      BY <2>3, <3>3
  <2>7. QED
    BY <1>1, <1>2, <2>3, <2>4, <2>5, <2>6
<1>7. \A b \in j.blocks : b.order \notin j.book => j.size - b.base = Adds(b.order)
  BY <1>0 DEF PlaceSound
<1>8. PICK m : m = [j EXCEPT !.write = {}, !.snap = {}]
  OBVIOUS
<1>9. m.blocks = j.blocks /\ m.book = j.book /\ m.size = j.size /\ m \in JobType
  BY <1>0, <1>8 DEF JobType
<1>10. ASSUME NEW l \in {"confirmBook", "deciding"}, NEW k, pc'[F] = l, job'[F] = k,
              k.blocks = m.blocks, k.book = m.book, k.size = m.size
       PROVE  PlaceSound(pc[F], job[F], trade[F])'
  BY <1>3, <1>7, <1>9, <1>10 DEF PlaceSound
<1>11. PlaceSound(pc[F], job[F], trade[F])'
  <2>1. CASE w.kind = "reset"
    <3>1. pc'[F] = "limits"
      BY <1>0, <2>1 DEF AfterReconcileSave, EndReconcile, Goto
    <3>2. QED
      BY <3>1 DEF PlaceSound
  <2>2. CASE w.kind = "increment"
    <3>1. PICK x : job'[F] = [m EXCEPT !.checks = x]
      BY <1>0, <1>8, <2>2 DEF AfterReconcileSave, SetJob
    <3>2. PICK k : k = [m EXCEPT !.checks = x]
      OBVIOUS
    <3>3. k.blocks = m.blocks /\ k.book = m.book /\ k.size = m.size
      BY <1>9, <3>2 DEF JobType
    <3>4. pc'[F] = "confirmBook"
      BY <1>0, <2>2 DEF AfterReconcileSave, Goto
    <3>5. QED
      BY <1>10, <3>1, <3>2, <3>3, <3>4
  <2>3. CASE w.kind \in {"mark", "remove"}
    <3>1. PICK k : k = [m EXCEPT !.blk = {}, !.checks = 0]
      OBVIOUS
    <3>2. k.blocks = m.blocks /\ k.book = m.book /\ k.size = m.size
      BY <1>9, <3>1 DEF JobType
    <3>3. pc'[F] = "deciding" /\ job'[F] = k
      BY <1>0, <1>8, <2>3, <3>1 DEF AfterReconcileSave, Goto, SetJob
    <3>4. QED
      BY <1>10, <3>2, <3>3
  <2>4. QED
    BY <1>1, <2>1, <2>2, <2>3
<1>12. QED
  BY <1>4, <1>5, <1>6, <1>11 DEF GateInv

\* The record of the order just placed tells when it was placed, and what the
\* position was.
LEMMA GateRecorded ==
  ASSUME GateInv, LedgerInv', pc[FirstCycle] = "save", UNCHANGED <<orders, trade, now>>,
         NEW w \in [kind : WriteKind, rec : Records], job[FirstCycle].write = {w},
         ledger' \in Apply(w, ledger), PlacedSound(job[FirstCycle], w),
         NextTarget(FirstCycle, job[FirstCycle])
  PROVE  GateInv'
<1> DEFINE F == FirstCycle
           j == job[F]
           r == w.rec
<1>0. /\ F \in Cycles /\ pc \in [Cycles -> PC] /\ LedgerInv /\ ledger \in SUBSET Records
      /\ now \in Nat /\ PlaceSound(pc[F], j, trade[F])
  BY AtGate DEF TypeOK
<1>1. /\ w.kind \in {"executed", "pending"}
      /\ r.order \in DOMAIN orders /\ orders[r.order].nr = r.nr
      /\ Unledgered(r.nr) /\ OfOrder(ledger, r.order) = {}
  BY DEF PlacedSound
<1>2. PICK D, n : RecordMade(ledger, ledger', w, D, n)
  <2>1. \A p \in ledger : p.nr = w.rec.nr => ~Pending(p)
    BY <1>1 DEF Unledgered
  <2>2. OfOrder(ledger, w.rec.order) = {} /\ w.kind \in {"executed", "pending"}
    BY <1>1
  <2>3. QED
    BY <1>0, <2>1, <2>2, RecordSpec
<1>3. /\ ledger' = (ledger \ D) \union {n}
      /\ \A d \in D : d \in ledger /\ d.nr = r.nr /\ ~Pending(d)
      /\ n.nr = r.nr /\ n.order = r.order /\ n.at = now
      /\ w.kind = "executed" => Executed(n)
      /\ w.kind = "pending" => D = {} /\ n.base = r.base /\ n.side = r.side
  BY <1>2 DEF RecordMade
<1>4. /\ \A i : Adds(i)' = Adds(i)
      /\ \A nr : PositionSize(nr)' = PositionSize(nr)
      /\ \A p : BaseSound(p) <=> BaseSound(p)'
  BY DEF BaseSound, PositionSize, IndexedOrders, Adds
<1>5. SellsCovered'
  BY <1>4 DEF GateInv, SellsCovered
<1>6. ASSUME NEW q \in ledger'
      PROVE  orders[q.order].at <= q.at /\ (Pending(q) => BaseSound(q)')
  <2>1. CASE q = n
    <3>1. orders[q.order].at <= q.at
      BY <1>1, <1>3, <2>1 DEF GateInv
    <3>2. ASSUME Pending(q) PROVE BaseSound(q)
      <4>1. w.kind = "pending"
        BY <1>1, <1>3, <2>1, <3>2 DEF Pending, Executed
      <4>2. BaseSound(r)
        BY <1>0, <4>1 DEF PlaceSound
      <4>3. QED
        BY <1>3, <2>1, <4>1, <4>2 DEF BaseSound
    <3>3. QED
      BY <1>4, <3>1, <3>2
  <2>2. CASE q # n
    BY <1>3, <1>4, <2>2 DEF GateInv
  <2>3. QED
    BY <2>1, <2>2
<1>7. ASSUME NEW i \in DOMAIN orders, orders[i].state = "indexed" PROVE Recorded(i)'
  <2>1. SUFFICES \E q \in ledger' : /\ q.nr = orders[i].nr /\ q.at >= orders[i].at
                                    /\ Executed(q) \/ q.order = i
    BY DEF Recorded
  <2>2. now >= orders[i].at
    BY DEF GateInv
  <2>3. CASE r.order = i
    BY <1>1, <1>3, <2>2, <2>3
  <2>4. CASE r.order # i
    <3>1. PICK p \in ledger : /\ p.nr = orders[i].nr /\ p.at >= orders[i].at
                              /\ Executed(p) \/ p.order = i
      BY <1>7, <2>4 DEF GateInv, Recorded
    <3>2. CASE p \notin D
      BY <1>3, <3>1, <3>2
    <3>3. CASE p \in D
      <4>1. w.kind = "executed" /\ n.nr = orders[i].nr
        BY <1>1, <1>3, <3>1, <3>3
      <4>2. QED
        BY <1>3, <2>2, <4>1
    <3>4. QED
      BY <3>2, <3>3
  <2>5. QED
    BY <2>3, <2>4
<1>8. pc'[F] = "looping"
  BY <1>0 DEF NextTarget, Goto
<1>9. PlaceSound(pc[F], job[F], trade[F])'
  BY <1>8 DEF PlaceSound
<1>10. QED
  BY <1>5, <1>6, <1>7, <1>9 DEF GateInv

\* GateInv is inductive.
LEMMA GateStep ==
  ASSUME GateInv, Undisturbed, OneWallet, SameProbes, NoLag, [Next]_vars
  PROVE  GateInv'
<1> DEFINE F == FirstCycle
<1>0. F \in Cycles /\ LedgerInv /\ LedgerInv' /\ Alone /\ pc \in [Cycles -> PC]
  BY AtGate, LedgerStep DEF LedgerInv
<1>1. ASSUME UNCHANGED <<orders, ledger, now, pc, trade, job>> PROVE GateInv'
  <2>1. SellsCovered'
    BY <1>1 DEF GateInv, SellsCovered, PositionSize, IndexedOrders
  <2>2. /\ \A i : Adds(i)' = Adds(i)
        /\ \A nr : PositionSize(nr)' = PositionSize(nr)
        /\ \A p : BaseSound(p) <=> BaseSound(p)'
    BY <1>1 DEF BaseSound, PositionSize, IndexedOrders, Adds
  <2>3. PlaceSound(pc[F], job[F], trade[F])'
    BY <1>1, <2>2 DEF GateInv, PlaceSound
  <2>4. \A i \in DOMAIN orders : Recorded(i) => Recorded(i)'
    BY <1>1 DEF Recorded
  <2>5. QED
    BY <1>0, <1>1, <2>1, <2>2, <2>3, <2>4 DEF GateInv
<1>2. CASE UNCHANGED vars
  BY <1>1, <1>2 DEF vars
<1>3. ASSUME NEW c \in Cycles, Detect(c) PROVE GateInv'
  <2>1. c = F
    BY <1>0, <1>3 DEF Detect, Alone
  <2>2. /\ pc[F] = "idle" /\ pc'[F] = "entered" /\ UNCHANGED <<orders, ledger, now>>
    BY <1>0, <1>3, <2>1 DEF Detect, At, Goto
  <2>3. PlaceSound("entered", job'[F], trade'[F])
    BY PlaceFree DEF PC
  <2>4. QED
    BY <1>0, <2>2, <2>3, GateStepLocals
<1>4. ASSUME NEW c \in Cycles, Handle(c) PROVE GateInv'
  <2>1. Handle(F)
    BY <1>0, <1>4, HandleBusy DEF Alone
  <2>2. CASE GateReject(F) \/ DropDuplicate(F) \/ Claim(F) \/ RefuseUnsafe(F)
             \/ Bail(F) \/ Leave(F) \/ FinishReconcile(F) \/ CheckLimits(F)
             \/ LoadPendingBlocks(F) \/ ProbeBook(F) \/ StartLoop(F) \/ FinishLoop(F)
             \/ SkipTarget(F) \/ SkipSell(F) \/ ExecuteFails(F)
    BY <1>0, <2>2, GateElsewhere
  <2>3. CASE ProbeSize(F) \/ Decide(F)
    BY <1>0, <2>3, GateReconcile
  <2>4. CASE ConfirmBook(F) \/ ConfirmSize(F)
    BY <1>0, <2>4, GateConfirm
  <2>5. CASE TakeTarget(F) \/ CheckOwned(F) \/ TakeBaseline(F)
    BY <1>0, <2>5, GateLoop
  <2>6. CASE ExecuteTrade(F)
    BY <1>0, <2>6, GateExecute
  <2>7. CASE LoadLedger(F)
    BY <1>0, <2>7, GateLoad
  <2>8. CASE SaveLedger(F)
    <3>1. PICK w \in job[F].write :
            /\ job[F].write = {w} /\ w \in [kind : WriteKind, rec : Records]
            /\ ledger' \in Apply(w, ledger)
            /\ \/ UpdateSound(job[F], w) /\ AfterReconcileSave(F, w)
               \/ PlacedSound(job[F], w) /\ NextTarget(F, job[F])
      BY <1>0, <2>8, SaveFacts
    <3>2. pc[F] = "save" /\ UNCHANGED <<orders, trade, now>>
      BY <1>0, <2>8, SaveFacts
    <3>3. QED
      BY <1>0, <3>1, <3>2, GateUpdate, GateRecorded
  <2>9. ~SaveFails(F)
    BY DEF SaveFails, Undisturbed
  <2>10. QED
    BY <2>1, <2>2, <2>3, <2>4, <2>5, <2>6, <2>7, <2>8, <2>9 DEF Handle
<1>5. ASSUME Environment PROVE GateInv'
  <2>1. CASE ExchangeMoves
    BY <1>0, <2>1, GateExchange
  <2>2. CASE Tick
    BY <1>0, <2>2, GateTick
  <2>3. CASE ~ExchangeMoves /\ ~Tick
    BY <1>1, <1>5, <2>3 DEF Environment, Start, Stop, Restart,
       ClearExecutedPositions, PruneOldExecutedPositions, ReinitializeCredentials,
       memory, Undisturbed
  <2>4. QED
    BY <2>1, <2>2, <2>3
<1>6. QED
  BY <1>2, <1>3, <1>4, <1>5 DEF Next

\* GateInv holds at the start.
LEMMA GateInit ==
  ASSUME Init
  PROVE  GateInv
<1>1. LedgerInv
  BY LedgerInit
<1>2. ledger = {} /\ DOMAIN orders = {} /\ pc[FirstCycle] = "idle"
  BY CycleAssumption DEF Init, ExchangeInit
<1>3. \A nr : IndexedOrders(nr, "BUY") = {} /\ IndexedOrders(nr, "SELL") = {}
  BY <1>2 DEF IndexedOrders
<1>4. \A nr : PositionSize(nr) = Holding
  BY <1>3, FS_EmptySet, HoldingAssumption DEF PositionSize
<1>5. SellsCovered
  BY <1>4, HoldingAssumption DEF SellsCovered
<1>6. QED
  BY <1>1, <1>2, <1>5 DEF GateInv, PlaceSound

\* A sale never exceeds what the trading wallet holds, as long as nothing disturbs
\* the one cycle, the reconciliation looks at the wallet that trades, and the
\* positions API shows a match at once.
THEOREM SalesCovered ==
  ASSUME Undisturbed, OneWallet, SameProbes, NoLag
  PROVE  Spec => []SellsCovered
<1>1. Init => GateInv
  BY GateInit
<1>2. GateInv /\ [Next]_vars => GateInv'
  BY GateStep
<1>3. GateInv => SellsCovered
  BY DEF GateInv
<1>4. QED
  BY <1>1, <1>2, <1>3, PTL DEF Spec

-----------------------------------------------------------------------------
(* No-repeat protection keeps its promise.                                 *)

\* The orders as NoRepeatGate sees them.
View == [i \in DOMAIN orders |->
          [nr |-> orders[i].nr, wallet |-> orders[i].copies.wallet,
           at |-> orders[i].at, fate |-> FateOf(orders[i].state)]]

Placed == [nr : Keys, wallet : Wallets, at : Nat, fate : {"open", "done", "dead"}]

\* The view of the orders is a sequence of the same length.
LEMMA ViewType ==
  ASSUME TypeOK
  PROVE  /\ View \in Seq(Placed) /\ Len(View) = Len(orders)
         /\ \A i \in DOMAIN orders :
              /\ View[i].nr = orders[i].nr /\ View[i].at = orders[i].at
              /\ View[i].fate = FateOf(orders[i].state)
<1>1. \A i \in DOMAIN orders : orders[i].copies.wallet \in Wallets
  BY OrdersType, TradeAssumption DEF TradeType
<1>2. \A state : FateOf(state) \in {"open", "done", "dead"}
  BY DEF FateOf
<1>3. \A i \in DOMAIN orders :
        [nr |-> orders[i].nr, wallet |-> orders[i].copies.wallet,
         at |-> orders[i].at, fate |-> FateOf(orders[i].state)] \in Placed
  BY <1>1, <1>2, OrdersType DEF Placed
<1>4. View \in [1 .. Len(orders) -> Placed] /\ Len(orders) \in Nat
  BY <1>3, OrdersType DEF View
<1>5. View \in Seq(Placed) /\ Len(View) = Len(orders)
  BY <1>4
<1>6. QED
  BY <1>5 DEF View

\* A sequence that goes on as another one does, with one more element.
LEMMA AppendEqual ==
  ASSUME NEW S, NEW s \in Seq(S), NEW e \in S, NEW v \in Seq(S), Len(v) = Len(s) + 1,
         \A k \in 1 .. Len(s) : v[k] = s[k], v[Len(s) + 1] = e
  PROVE  v = Append(s, e)
<1>1. /\ Append(s, e) \in Seq(S) /\ Len(Append(s, e)) = Len(s) + 1
      /\ \A k \in 1 .. Len(s) : Append(s, e)[k] = s[k]
      /\ Append(s, e)[Len(s) + 1] = e
  BY AppendProperties
<1>2. Len(s) \in Nat
  OBVIOUS
<1>3. \A k \in 1 .. Len(v) : v[k] = Append(s, e)[k]
  BY <1>1, <1>2
<1>4. QED
  BY <1>1, <1>3, SeqEqual

\* An order is placed only where the gate lets it through.
LEMMA GateOpens ==
  ASSUME GateInv, pc[FirstCycle] = "submitting", NEW g \in job[FirstCycle].tgt,
         NEW i \in DOMAIN orders, orders[i].nr = <<trade[FirstCycle].pos, g>>,
         orders[i].state # "dead"
  PROVE  LET period == BlockPeriod(trade[FirstCycle].wallet)
         IN  /\ orders[i].state = "indexed" /\ period # 0
             /\ now - orders[i].at >= period
<1> DEFINE F == FirstCycle
           t == trade[F]
           period == BlockPeriod(t.wallet)
<1>0. /\ now \in Nat /\ TypeOK /\ PlaceSound(pc[F], job[F], t)
      /\ orders[i].state \in OrderState /\ orders[i].at \in Nat
  BY AtGate, OrdersType
<1>1. orders[i].state # "live"
  BY LiveKnown
<1>2. orders[i].state = "indexed"
  BY <1>0, <1>1 DEF GateInv, OrderState
<1>3. PICK p \in ledger : p.nr = orders[i].nr /\ p.at >= orders[i].at
  BY <1>2, RecordedThere
<1>4. ~IsPositionBlocked(ledger, orders[i].nr, period, now)
  BY <1>0 DEF PlaceSound
<1>5. p.at \in Nat
  BY <1>0, GateNumbers
<1>6. period \in Nat
  BY AtGate, TradeAssumption, PeriodAssumption DEF BlockPeriod, TradeType
<1>7. period # 0 /\ ~(p.at > now - period)
  BY <1>3, <1>4 DEF IsPositionBlocked, OfKey
<1>8. QED
  BY <1>0, <1>2, <1>3, <1>5, <1>6, <1>7

\* The order placed is a step of the gate.
LEMMA GatePlace ==
  ASSUME GateInv, ExecuteTrade(FirstCycle)
  PROVE  Gate!Next
<1> DEFINE F == FirstCycle
           t == trade[F]
<1>0. /\ F \in Cycles /\ TypeOK /\ t \in Trades /\ job[F].tgt \subseteq Targets
      /\ t.wallet \in Wallets /\ t.pos \in Positions
  BY AtGate, TradeAssumption DEF JobType, TradeType
<1>1. PICK g \in job[F].tgt, state \in {"live", Matched} : Place(F, g, state)
  BY DEF ExecuteTrade, Matched
<1>2. pc[F] = "submitting" /\ now' = now
  BY DEF ExecuteTrade, At
<1>3. PICK nr : nr = <<t.pos, g>>
  OBVIOUS
<1>4. PICK fate \in {"open", "done"} : fate = FateOf(state)
  BY DEF FateOf, Matched
<1>5. PICK e : e = [nr |-> nr, wallet |-> t.wallet, at |-> now, fate |-> fate]
  OBVIOUS
<1>6. PICK n : n = Len(orders) + 1
  OBVIOUS
<1>7. /\ DOMAIN orders' = DOMAIN orders \union {n} /\ DOMAIN orders = 1 .. Len(orders)
      /\ \A k \in DOMAIN orders : orders'[k] = orders[k]
      /\ orders'[n] = [nr |-> nr, side |-> t.side, copies |-> t, at |-> now,
                       state |-> state]
  <2>1. g \in Targets /\ state \in OrderState
    BY <1>0, <1>1 DEF OrderState, Matched
  <2>2. Place(F, g, state)
    BY <1>1
  <2>3. /\ DOMAIN orders' = DOMAIN orders \union {n}
        /\ \A k \in DOMAIN orders : orders'[k] = orders[k]
        /\ orders'[n] = [nr |-> Key(F, g), side |-> t.side, copies |-> t, at |-> now,
                         state |-> state]
    BY <1>0, <1>6, <2>1, <2>2, PlaceFacts
  <2>4. QED
    BY <1>0, <1>3, <2>3, OrdersType DEF Key
<1>8. View' = Append(View, e)
  <2>1. View \in Seq(Placed) /\ Len(View) = Len(orders) /\ Len(orders) \in Nat
    BY <1>0, ViewType, OrdersType
  <2>2. /\ DOMAIN View' = 1 .. n
        /\ \A k \in 1 .. Len(orders) : View'[k] = View[k]
        /\ View'[n] = e
    <3>1. DOMAIN View' = 1 .. n
      BY <1>6, <1>7, <2>1 DEF View
    <3>2. \A k \in 1 .. Len(orders) : View'[k] = View[k]
      BY <1>7 DEF View
    <3>3. View'[n] = e
      BY <1>4, <1>5, <1>7 DEF View
    <3>4. QED
      BY <3>1, <3>2, <3>3
  <2>3. PICK V : V = View'
    OBVIOUS
  <2>4. e \in Placed
    BY <1>0, <1>3, <1>4, <1>5, AtGate DEF Placed, Keys
  <2>5. V \in [1 .. n -> Placed]
    <3>1. V = [k \in 1 .. n |-> V[k]]
      BY <2>2, <2>3 DEF View
    <3>2. \A k \in 1 .. n : V[k] \in Placed
      BY <1>6, <2>1, <2>2, <2>3, <2>4
    <3>3. QED
      BY <3>1, <3>2
  <2>6. V \in Seq(Placed) /\ Len(V) = n
    BY <1>6, <2>1, <2>5
  <2>7. V = Append(View, e)
    BY <1>6, <2>1, <2>2, <2>3, <2>4, <2>6, AppendEqual
  <2>8. QED
    BY <2>3, <2>7
<1>9. Gate!MayPlace(nr, t.wallet)
  <2>1. SUFFICES ASSUME NEW i \in DOMAIN View, View[i].nr = nr, View[i].fate # "dead"
        PROVE  /\ View[i].fate = "done" /\ BlockPeriod(t.wallet) # 0
               /\ now - View[i].at >= BlockPeriod(t.wallet)
    BY <1>0 DEF Gate!MayPlace, View
  <2>2. /\ i \in DOMAIN orders /\ View[i].nr = orders[i].nr /\ View[i].at = orders[i].at
        /\ View[i].fate = FateOf(orders[i].state)
    BY <1>0, ViewType DEF View
  <2>3. orders[i].state # "dead" /\ orders[i].nr = <<t.pos, g>>
    BY <1>3, <2>1, <2>2 DEF FateOf
  <2>4. QED
    BY <1>2, <2>2, <2>3, GateOpens DEF FateOf
<1>10. Gate!Place(nr, t.wallet)
  BY <1>2, <1>4, <1>5, <1>8, <1>9 DEF Gate!Place, View
<1>11. nr \in Keys
  BY <1>0, <1>3 DEF Keys
<1>12. QED
  BY <1>0, <1>10, <1>11 DEF Gate!Next, Gate!Place

\* A match, or a cancellation, is a step of the gate.
LEMMA GateSettle ==
  ASSUME GateInv, NoLag, ExchangeMoves
  PROVE  Gate!Next
<1>0. TypeOK /\ ExchangeStep /\ now' = now
  BY AtGate DEF ExchangeMoves
<1>1. PICK i \in DOMAIN orders :
        /\ \A k \in DOMAIN orders \ {i} : orders'[k] = orders[k]
        /\ \/ orders[i].state = "live" /\ orders'[i].state \in {Matched, "dead"}
           \/ orders[i].state = "filled" /\ orders'[i].state = "indexed"
  BY <1>0, ExchangeFacts
<1>2. /\ DOMAIN orders' = DOMAIN orders
      /\ orders'[i].nr = orders[i].nr /\ orders'[i].copies = orders[i].copies
      /\ orders'[i].at = orders[i].at
  BY <1>0, <1>1, ExchangeFacts
<1>3. orders[i].state = "live" /\ orders'[i].state \in {"indexed", "dead"}
  BY <1>1 DEF GateInv, NoLag, Matched
<1>4. PICK fate \in {"done", "dead"} : fate = FateOf(orders'[i].state)
  BY <1>3 DEF FateOf
<1>5. View[i].fate = "open"
  BY <1>3 DEF View, FateOf
<1>6. View' = [View EXCEPT ![i].fate = fate]
  <2>1. PICK e : e = [View[i] EXCEPT !.fate = fate]
    OBVIOUS
  <2>2. e = [nr |-> orders[i].nr, wallet |-> orders[i].copies.wallet,
             at |-> orders[i].at, fate |-> fate]
    BY <2>1 DEF View
  <2>3. View'[i] = e
    BY <1>2, <1>4, <2>2 DEF View
  <2>4. DOMAIN View' = DOMAIN View /\ \A k \in DOMAIN View \ {i} : View'[k] = View[k]
    BY <1>1, <1>2 DEF View
  <2>5. View' = [k \in DOMAIN View |-> IF k = i THEN e ELSE View[k]]
    BY <2>3, <2>4 DEF View
  <2>6. QED
    BY <2>1, <2>5
<1>7. Gate!Settle(i)
  BY <1>0, <1>4, <1>5, <1>6 DEF Gate!Settle, View
<1>8. i \in DOMAIN View
  BY DEF View
<1>9. QED
  BY <1>7, <1>8 DEF Gate!Next, View

\* Every step of the program is a step of the gate or leaves it alone.
LEMMA GateRefines ==
  ASSUME GateInv, Undisturbed, NoLag, [Next]_vars
  PROVE  Gate!Next \/ UNCHANGED <<now, View>>
<1> DEFINE F == FirstCycle
<1>0. Alone
  BY AtGate DEF LedgerInv
<1>1. ASSUME UNCHANGED <<now, orders>> PROVE UNCHANGED <<now, View>>
  BY <1>1 DEF View
<1>2. CASE UNCHANGED vars
  BY <1>1, <1>2 DEF vars
<1>3. ASSUME NEW c \in Cycles, Detect(c) PROVE UNCHANGED <<now, View>>
  BY <1>1, <1>3 DEF Detect
<1>4. ASSUME NEW c \in Cycles, Handle(c) PROVE Gate!Next \/ UNCHANGED <<now, View>>
  <2>1. Handle(F)
    BY <1>0, <1>4, HandleBusy DEF Alone
  <2>2. CASE ExecuteTrade(F)
    BY <2>2, GatePlace
  <2>3. CASE ~ExecuteTrade(F)
    <3>1. UNCHANGED <<now, orders>>
      BY <2>1, <2>3 DEF Handle, GateReject, DropDuplicate, Claim, RefuseUnsafe, Bail,
         Leave, LoadPendingBlocks, ProbeBook, ProbeSize, Decide, FinishReconcile,
         ConfirmBook, ConfirmSize, CheckLimits, StartLoop, FinishLoop, SkipTarget,
         TakeTarget, SkipSell, CheckOwned, TakeBaseline, ExecuteFails, LoadLedger,
         SaveLedger, SaveFails, Undisturbed
    <3>2. QED
      BY <1>1, <3>1
  <2>4. QED
    BY <2>2, <2>3
<1>5. ASSUME Environment PROVE Gate!Next \/ UNCHANGED <<now, View>>
  <2>1. CASE ExchangeMoves
    BY <2>1, GateSettle
  <2>2. CASE Tick
    <3>1. Gate!Tick
      BY <2>2 DEF Tick, Gate!Tick
    <3>2. QED
      BY <3>1 DEF Gate!Next
  <2>3. CASE ~ExchangeMoves /\ ~Tick
    BY <1>1, <1>5, <2>3 DEF Environment, Start, Stop, Restart,
       ClearExecutedPositions, PruneOldExecutedPositions, ReinitializeCredentials,
       memory, Undisturbed
  <2>4. QED
    BY <2>1, <2>2, <2>3
<1>6. QED
  BY <1>2, <1>3, <1>4, <1>5 DEF Next

\* No-repeat protection keeps its promise: no order on a position of a trading
\* wallet while an earlier one rests on the book, and none within the block period
\* of an earlier one that was not cancelled.  The cycle is undisturbed, the
\* reconciliation looks at the wallet that trades, and a match shows at once.
THEOREM GateKept ==
  ASSUME Undisturbed, OneWallet, SameProbes, NoLag
  PROVE  Spec => ImplementsGate
<1>1. Init => GateInv
  BY GateInit
<1>2. GateInv /\ [Next]_vars => GateInv'
  BY GateStep
<1>3. Init => Gate!Init
  BY DEF Init, ExchangeInit, Gate!Init
<1>4. GateInv /\ [Next]_vars => [Gate!Next]_<<now, View>>
  BY GateRefines
<1>5. QED
  BY <1>1, <1>2, <1>3, <1>4, PTL DEF Spec, ImplementsGate, Gate!Spec, View

-----------------------------------------------------------------------------
(* A block stands.                                                         *)

\* A record blocks its key as long as it is in the ledger, time stands still, and
\* its own time is not set back.
LEMMA StillBlocks ==
  ASSUME NEW p \in Records, NEW q \in Records, NEW L, q \in L, q.nr = p.nr,
         now \in Nat, now' = now, NEW n \in Nat, ledger' = L,
         Pending(q) \/ (~Pending(p) /\ q.at \in {p.at, now}) \/ q.at = now,
         Pending(p) \/ n = 0 \/ p.at > now - n
  PROVE  IsPositionBlocked(ledger, p.nr, n, now)'
<1>1. p.at \in Nat /\ q.at \in Nat
  BY DEF Records, LedgerRecord
<1>2. Pending(q) \/ n = 0 \/ q.at > now - n
  BY <1>1
<1>3. QED
  BY <1>2 DEF IsPositionBlocked, OfKey

\* Only a reconciliation lifts a block, and only of an order that has died.
LEMMA BlocksStep ==
  ASSUME GateInv, Undisturbed, [Next]_vars
  PROVE  BlocksPersist
<1> DEFINE F == FirstCycle
<1>0. /\ F \in Cycles /\ LedgerInv /\ Alone /\ TypeOK /\ ledger \in SUBSET Records /\ now \in Nat
      /\ \A w \in Wallets : BlockPeriod(w) \in Nat
  BY AtGate, PeriodAssumption DEF LedgerInv, TypeOK, BlockPeriod
<1>1. SUFFICES ASSUME NEW nr \in Keys, NEW w \in Wallets, now' = now, BlockedFor(nr, w)
               PROVE  BlockedFor(nr, w)' \/ OrderDied(nr)
  BY DEF BlocksPersist
<1>2. PICK n \in Nat : n = BlockPeriod(w)
  BY <1>0
<1>3. PICK p \in ledger : p.nr = nr /\ (Pending(p) \/ n = 0 \/ p.at > now - n)
  BY <1>1, <1>2 DEF BlockedFor, IsPositionBlocked, OfKey
<1>4. /\ p \in Records /\ p.order \in DOMAIN orders
      /\ BlockedFor(nr, w)' <=> IsPositionBlocked(ledger, p.nr, n, now)'
  BY <1>0, <1>2, <1>3, BlocksKnown DEF BlockedFor, BlockPeriod
<1>5. CASE UNCHANGED ledger
  BY <1>1, <1>2, <1>3, <1>4, <1>5 DEF BlockedFor, IsPositionBlocked, OfKey
<1>6. CASE SaveLedger(F)
  <2>1. PICK u \in job[F].write :
          /\ job[F].write = {u} /\ u \in [kind : WriteKind, rec : Records]
          /\ ledger' \in Apply(u, ledger)
          /\ UpdateSound(job[F], u) \/ PlacedSound(job[F], u)
    BY <1>0, <1>6, SaveFacts
  <2>2. pc[F] = "save" /\ PlaceSound(pc[F], job[F], trade[F])
    BY <1>0, <1>6, SaveFacts DEF GateInv
  <2>3. ledger' \in SUBSET Records
    BY <1>0, <2>1, ApplyType
  <2>4. ASSUME NEW q \in ledger', q.nr = p.nr,
               Pending(q) \/ (~Pending(p) /\ q.at \in {p.at, now}) \/ q.at = now
        PROVE  BlockedFor(nr, w)'
    BY <1>0, <1>1, <1>3, <1>4, <2>3, <2>4, StillBlocks
  <2>5. CASE p \in ledger'
    BY <2>4, <2>5
  <2>6. CASE UpdateSound(job[F], u) /\ p.order = u.rec.order
    <3>1. u.kind \in {"mark", "remove", "increment", "reset"}
      BY <2>6 DEF UpdateSound
    <3>2. /\ u.kind \in {"increment", "reset"} =>
               \E q \in ledger' : SameOrder(q, p) /\ q.at = p.at /\ q.status = p.status
          /\ u.kind = "mark" => \E q \in ledger' : SameOrder(q, p) /\ q.at = now
          /\ u.kind = "remove" => (~Pending(p) => p \in ledger')
      BY <1>0, <2>1, <2>6, <3>1, UpdateSpec
    <3>3. CASE u.kind \in {"mark", "increment", "reset"}
      BY <2>4, <3>2, <3>3 DEF SameOrder, Pending
    <3>4. CASE u.kind = "remove"
      <4>1. orders[p.order].state = "dead"
        BY <2>1, <2>2, <2>6, <3>4 DEF PlaceSound
      <4>2. Pending(p) => OrderDied(nr)
        BY <1>3, <1>4, <4>1 DEF OrderDied, OfKey, Effective
      <4>3. QED
        BY <2>5, <3>2, <3>4, <4>2
    <3>5. QED
      BY <3>1, <3>3, <3>4
  <2>7. CASE UpdateSound(job[F], u) /\ p.order # u.rec.order
    <3>1. u.kind \in {"mark", "remove", "increment", "reset"}
      BY <2>7 DEF UpdateSound
    <3>2. p \in ledger'
      BY <1>0, <2>1, <2>7, <3>1, UpdateSpec
    <3>3. QED
      BY <2>5, <3>2
  <2>8. CASE PlacedSound(job[F], u)
    <3>1. /\ u.kind \in {"executed", "pending"} /\ OfOrder(ledger, u.rec.order) = {}
          /\ \A o \in ledger : o.nr = u.rec.nr => ~Pending(o)
      BY <2>8 DEF PlacedSound, Unledgered
    <3>2. PICK D, m : RecordMade(ledger, ledger', u, D, m)
      BY <1>0, <2>1, <3>1, RecordSpec
    <3>3. CASE p \in D
      <4>1. m \in ledger' /\ m.nr = p.nr /\ m.at = now
        BY <3>2, <3>3 DEF RecordMade
      <4>2. QED
        BY <2>4, <4>1
    <3>4. CASE p \notin D
      BY <2>5, <3>2, <3>4 DEF RecordMade
    <3>5. QED
      BY <3>3, <3>4
  <2>9. QED
    BY <2>1, <2>6, <2>7, <2>8
<1>7. UNCHANGED ledger \/ SaveLedger(F)
  <2>1. ASSUME NEW c \in Cycles, Handle(c) PROVE UNCHANGED ledger \/ SaveLedger(F)
    <3>1. Handle(F)
      BY <1>0, <2>1, HandleBusy DEF Alone
    <3>2. CASE \/ GateReject(F) \/ DropDuplicate(F) \/ Claim(F) \/ RefuseUnsafe(F)
                \/ Bail(F) \/ Leave(F)
      BY <3>2 DEF GateReject, DropDuplicate, Claim, RefuseUnsafe, Bail, Leave
    <3>3. CASE \/ LoadPendingBlocks(F) \/ ProbeBook(F) \/ ProbeSize(F) \/ Decide(F)
                \/ FinishReconcile(F) \/ ConfirmBook(F) \/ ConfirmSize(F)
      <4>1. ASSUME LoadPendingBlocks(F) PROVE UNCHANGED ledger
        BY <4>1 DEF LoadPendingBlocks
      <4>2. ASSUME ProbeBook(F) PROVE UNCHANGED ledger
        BY <4>2 DEF ProbeBook
      <4>3. ASSUME ProbeSize(F) PROVE UNCHANGED ledger
        BY <4>3 DEF ProbeSize
      <4>4. ASSUME Decide(F) PROVE UNCHANGED ledger
        BY <4>4 DEF Decide
      <4>5. ASSUME FinishReconcile(F) PROVE UNCHANGED ledger
        BY <4>5 DEF FinishReconcile
      <4>6. ASSUME ConfirmBook(F) PROVE UNCHANGED ledger
        BY <4>6 DEF ConfirmBook
      <4>7. ASSUME ConfirmSize(F) PROVE UNCHANGED ledger
        BY <4>7 DEF ConfirmSize
      <4>8. QED
        BY <3>3, <4>1, <4>2, <4>3, <4>4, <4>5, <4>6, <4>7
    <3>4. CASE \/ CheckLimits(F) \/ StartLoop(F) \/ FinishLoop(F) \/ SkipTarget(F)
                \/ TakeTarget(F) \/ SkipSell(F) \/ CheckOwned(F)
      <4>1. ASSUME CheckLimits(F) PROVE UNCHANGED ledger
        BY <4>1 DEF CheckLimits
      <4>2. ASSUME StartLoop(F) PROVE UNCHANGED ledger
        BY <4>2 DEF StartLoop
      <4>3. ASSUME FinishLoop(F) PROVE UNCHANGED ledger
        BY <4>3 DEF FinishLoop
      <4>4. ASSUME SkipTarget(F) PROVE UNCHANGED ledger
        BY <4>4 DEF SkipTarget
      <4>5. ASSUME TakeTarget(F) PROVE UNCHANGED ledger
        BY <4>5 DEF TakeTarget
      <4>6. ASSUME SkipSell(F) PROVE UNCHANGED ledger
        BY <4>6 DEF SkipSell
      <4>7. ASSUME CheckOwned(F) PROVE UNCHANGED ledger
        BY <4>7 DEF CheckOwned
      <4>8. QED
        BY <3>4, <4>1, <4>2, <4>3, <4>4, <4>5, <4>6, <4>7
    <3>5. CASE \/ TakeBaseline(F) \/ ExecuteTrade(F) \/ ExecuteFails(F) \/ LoadLedger(F)
                \/ SaveFails(F)
      BY <3>5 DEF TakeBaseline, ExecuteTrade, ExecuteFails, LoadLedger, SaveFails
    <3>6. QED
      BY <3>1, <3>2, <3>3, <3>4, <3>5 DEF Handle
  <2>2. ASSUME NEW c \in Cycles, Detect(c) PROVE UNCHANGED ledger
    BY <2>2 DEF Detect
  <2>3. CASE Environment
    BY <2>3 DEF Environment, Tick, Start, Stop, Restart, ExchangeMoves,
       ClearExecutedPositions, PruneOldExecutedPositions, ReinitializeCredentials,
       Undisturbed
  <2>4. CASE UNCHANGED vars
    BY <2>4 DEF vars
  <2>5. QED
    BY <2>1, <2>2, <2>3, <2>4 DEF Next
<1>8. QED
  BY <1>5, <1>6, <1>7

\* No block is lifted while time stands still, except a pending one whose order
\* has died: the reconciliation never mistakes an order that rests or was matched
\* for a dead one, and no update of the ledger takes a record of another order
\* away.  The hypotheses are those of GateKept.
THEOREM BlocksStand ==
  ASSUME Undisturbed, OneWallet, SameProbes, NoLag
  PROVE  Spec => NeverUnblocked
<1>1. Init => GateInv
  BY GateInit
<1>2. GateInv /\ [Next]_vars => GateInv'
  BY GateStep
<1>3. GateInv /\ [Next]_vars => BlocksPersist
  BY BlocksStep
<1>4. QED
  BY <1>1, <1>2, <1>3, PTL DEF Spec, NeverUnblocked

=============================================================================
