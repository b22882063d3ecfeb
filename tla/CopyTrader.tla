----------------------------- MODULE CopyTrader -----------------------------
(***************************************************************************)
(* copyTrader.ts: handleDetectedTrade, reconcilePendingNoRepeatBlock and   *)
(* the state they share, over the executed-positions ledger of storage.ts. *)
(*                                                                         *)
(* The handler is called by the polling cycle of a WalletMonitor.  One     *)
(* monitor runs one cycle at a time and awaits the handler, so a second    *)
(* cycle exists only after reinitializeCredentials has replaced the        *)
(* monitor while a cycle of the old one is under way.                      *)
(*                                                                         *)
(* A step of a cycle is what the handler does between two awaits.  Time is *)
(* in ticks of five minutes (SAFETY_MINIMUM_HOURS_NR).                     *)
(***************************************************************************)
EXTENDS NoRepeatLedger, Exchange

CONSTANTS
  Cycles,        \* polling cycles that may come to exist
  FirstCycle,    \* the cycle of the monitor the constructor creates
  Positions, Wallets, Targets, TxHashes,
  Trades,        \* the detected trades: a set of records, see TradeType
  TargetsOf,     \* resolveExecutionTargetsForTrackedWallet
  NoRepeat,      \* tracked wallets with noRepeatEnabled
  PeriodOf,      \* their noRepeatPeriodHours, in ticks; 0 is forever
  SafetyMinimum, \* SAFETY_MINIMUM_HOURS_NR
  TxTTL,         \* how long processedTrades keeps a transaction hash
  KeyTTL,        \* how long processedCompoundKeys keeps a compound key
  RateLimited,   \* tracked wallets with rateLimitEnabled
  Windows, WindowLength, WindowMax,   \* the hour and the day of the rate limit
  BookProbe,     \* trading wallet whose open orders the reconciliation reads
  SizeProbe,     \* trading wallet whose position size it reads
  AtomicStorage, \* SQLite backend: no I/O between load and save
  DatabaseFlag,  \* copyTradingEnabled in the SQLite database, which with the
                 \* JSON backend nothing writes
  Events,        \* the optional events that may occur: a subset of EventKind
  RetentionAge,  \* EXECUTED_POSITIONS_RETENTION_DAYS
  RetentionRows, \* EXECUTED_POSITIONS_MAX_ROWS
  MaxTime,       \* bound: Tick stops here
  MaxOrders      \* bound: no trade is detected once this many orders exist

Sides == {"BUY", "SELL"}
Keys  == Positions \X Targets

EventKind ==
  {"reinitialize", "crash", "clear", "retention", "lost", "save"}

\* window: the 5-minute window of the trade's own timestamp.
TradeType ==
  [tx : TxHashes, wallet : Wallets, pos : Positions, side : Sides, window : Nat]

ASSUME CycleAssumption == FirstCycle \in Cycles
ASSUME TradeAssumption ==
  /\ Trades # {} /\ Trades \subseteq TradeType
  /\ TargetsOf \in [Wallets -> SUBSET Targets]
  /\ BookProbe \in Targets /\ SizeProbe \in Targets
ASSUME PeriodAssumption ==
  /\ NoRepeat \subseteq Wallets
  /\ PeriodOf \in [Wallets -> Nat]
  /\ SafetyMinimum \in Nat \ {0}
ASSUME LimitAssumption ==
  /\ RateLimited \subseteq Wallets
  /\ WindowLength \in [Windows -> Nat]
  /\ WindowMax \in [Windows -> Nat]
ASSUME BoundAssumption ==
  /\ TxTTL \in Nat /\ KeyTTL \in Nat
  /\ RetentionAge \in Nat /\ RetentionRows \in Nat
  /\ MaxTime \in Nat /\ MaxOrders \in Nat
  /\ AtomicStorage \in BOOLEAN /\ DatabaseFlag \in BOOLEAN /\ Events \subseteq EventKind

VARIABLES
  now,
  isRunning,
  cycles,                 \* cycles that have come to exist
  processedTrades,        \* transaction hashes, with the time they were put
  processedCompoundKeys,  \* compound keys, with the time they were put
  inFlightTrades,         \* both kinds of key of the trades being handled
  perWalletRateLimits,
  noRepeatPersistenceBlockedKeys,
  ledger,                 \* the executed-positions store
  pc, trade, job          \* where each cycle is, its trade, its locals

memory  == <<processedTrades, processedCompoundKeys, inFlightTrades,
             perWalletRateLimits, noRepeatPersistenceBlockedKeys>>
control == <<isRunning, cycles>>
vars    == <<now, control, memory, ledger, orders, pc, trade, job>>

-----------------------------------------------------------------------------
(* Keys, maps with a time to live, and rate-limit windows.                 *)

TradeKey(t)    == <<"tx", t.tx>>
CompoundKey(t) == <<"key", t.wallet, t.pos, t.side, t.window, TargetsOf[t.wallet]>>
InFlightKeys(t) == {TradeKey(t), CompoundKey(t)}

TradeKeys    == {TradeKey(t) : t \in Trades}
CompoundKeys == {CompoundKey(t) : t \in Trades}

Entry(K)      == [key : K, at : Nat]
Has(S, k)     == \E e \in S : e.key = k
Put(S, k)     == {e \in S : e.key # k} \union {[key |-> k, at |-> now]}
Prune(S, ttl) == {e \in S : now - e.at <= ttl}

BlockPeriod(w) == IF w \in NoRepeat THEN PeriodOf[w] ELSE SafetyMinimum

Unset == [count |-> 0, start |-> -1]   \* no entry in perWalletRateLimits yet

\* The window after the check has created it or reset an expired one.
Refreshed(s, length) ==
  IF s.start = -1 \/ now - s.start > length
    THEN [count |-> 0, start |-> now] ELSE s

-----------------------------------------------------------------------------
(* The handler's locals.  write is empty or holds the one ledger update    *)
(* under way; blk is empty or holds the pending block being confirmed.     *)

WriteKind == {"executed", "pending", "mark", "remove", "increment", "reset"}

Records == LedgerRecord(Keys, Sides)

JobType ==
  [todo : SUBSET Targets, tgt : SUBSET Targets, base : Int,
   blocks : SUBSET Records, blk : SUBSET Records,
   book : SUBSET Nat, size : Int, open : BOOLEAN, checks : Nat,
   write : SUBSET [kind : WriteKind, rec : Records],
   snap : SUBSET Records]

NoJob ==
  [todo |-> {}, tgt |-> {}, base |-> 0, blocks |-> {}, blk |-> {},
   book |-> {}, size |-> 0, open |-> FALSE, checks |-> 0,
   write |-> {}, snap |-> {}]

\* pc values from the claim of the trade to the finally block that drops it.
ClaimedPC ==
  {"claimed", "probeBook", "probeSize", "deciding", "confirmBook",
   "confirmSize", "limits", "sizing", "looping", "owning", "unblocked",
   "submitting", "load", "save", "leaving"}

PC == {"idle", "entered"} \union ClaimedPC

At(c, label) == pc[c] = label
Goto(c, label) == pc' = [pc EXCEPT ![c] = label]
SetJob(c, j)   == job' = [job EXCEPT ![c] = j]

\* StorageIdle: with SQLite nothing runs between a load and its save.
StorageIdle == AtomicStorage => \A c \in Cycles : ~At(c, "save")

NoTrade == CHOOSE t \in Trades : TRUE

Init ==
  /\ now = 0
  /\ isRunning = FALSE
  /\ cycles = {FirstCycle}
  /\ processedTrades = {} /\ processedCompoundKeys = {}
  /\ inFlightTrades = {}
  /\ perWalletRateLimits = [w \in Wallets |-> [v \in Windows |-> Unset]]
  /\ noRepeatPersistenceBlockedKeys = {}
  /\ ledger = {}
  /\ ExchangeInit
  /\ pc = [c \in Cycles |-> "idle"]
  /\ trade = [c \in Cycles |-> NoTrade]
  /\ job = [c \in Cycles |-> NoJob]

-----------------------------------------------------------------------------
(* Detection and the claim of the trade.                                   *)

\* getCopyTradingEnabledForTenant asks the database, whatever the backend.  With
\* SQLite the routes that start and stop the bot set the flag first.
CopyTradingEnabled == AtomicStorage \/ DatabaseFlag

\* handleDetectedTrade up to the first await; ignored while the bot is stopped.
Detect(c) ==
  /\ isRunning /\ CopyTradingEnabled /\ c \in cycles /\ At(c, "idle")
  /\ Len(orders) < MaxOrders
  /\ \E t \in Trades : trade' = [trade EXCEPT ![c] = t]
  /\ Goto(c, "entered")
  /\ UNCHANGED <<now, control, memory, ledger, orders, job>>

Forget(c) ==
  /\ Goto(c, "idle")
  /\ trade' = [trade EXCEPT ![c] = NoTrade]
  /\ job' = [job EXCEPT ![c] = NoJob]

\* Untracked wallet, own wallet, Ditto state or allocation policy.
GateReject(c) ==
  /\ At(c, "entered")
  /\ Forget(c)
  /\ UNCHANGED <<now, control, memory, ledger, orders>>

PruneProcessed ==
  /\ processedTrades' = Prune(processedTrades, TxTTL)
  /\ processedCompoundKeys' = Prune(processedCompoundKeys, KeyTTL)

\* Mutant: without CHECK 3, the in-flight one.
IsDuplicate_NoInFlight(t) ==
  \/ Has(Prune(processedTrades, TxTTL), TradeKey(t))
  \/ Has(Prune(processedCompoundKeys, KeyTTL), CompoundKey(t))

\* Mutant: without CHECK 1, the transaction hash.
IsDuplicate_NoTx(t) ==
  \/ Has(Prune(processedCompoundKeys, KeyTTL), CompoundKey(t))
  \/ TradeKey(t) \in inFlightTrades
  \/ CompoundKey(t) \in inFlightTrades

\* CHECK 1, 2 and 3, on the pruned maps.
IsDuplicate(t) ==
  \/ Has(Prune(processedTrades, TxTTL), TradeKey(t))
  \/ Has(Prune(processedCompoundKeys, KeyTTL), CompoundKey(t))
  \/ TradeKey(t) \in inFlightTrades
  \/ CompoundKey(t) \in inFlightTrades

DropDuplicate(c) ==
  /\ At(c, "entered") /\ IsDuplicate(trade[c])
  /\ PruneProcessed
  /\ Forget(c)
  /\ UNCHANGED <<now, control, ledger, orders, inFlightTrades,
                 perWalletRateLimits, noRepeatPersistenceBlockedKeys>>

\* Checks and claim are one step: no await between them.
Claim(c) ==
  /\ At(c, "entered") /\ ~IsDuplicate(trade[c])
  /\ inFlightTrades' = inFlightTrades \union InFlightKeys(trade[c])
  /\ processedTrades' = Put(Prune(processedTrades, TxTTL), TradeKey(trade[c]))
  /\ processedCompoundKeys' = Prune(processedCompoundKeys, KeyTTL)
  /\ Goto(c, "claimed")
  /\ UNCHANGED <<now, control, ledger, orders, trade, job,
                 perWalletRateLimits, noRepeatPersistenceBlockedKeys>>

\* assertTradeCanExecuteForWallet threw.
RefuseUnsafe(c) ==
  /\ At(c, "claimed")
  /\ processedCompoundKeys' = Put(processedCompoundKeys, CompoundKey(trade[c]))
  /\ Goto(c, "leaving")
  /\ UNCHANGED <<now, control, ledger, orders, trade, job, processedTrades,
                 inFlightTrades, perWalletRateLimits,
                 noRepeatPersistenceBlockedKeys>>

\* A filter, a failed pre-flight check or a throw: every return that changes
\* nothing but the in-flight keys, which the finally block deletes.
Bail(c) ==
  /\ pc[c] \in {"claimed", "probeBook", "probeSize", "confirmBook",
                "confirmSize", "limits", "sizing", "unblocked"}
  /\ Goto(c, "leaving")
  /\ UNCHANGED <<now, control, memory, ledger, orders, trade, job>>

\* The finally block.
Leave(c) ==
  /\ At(c, "leaving")
  /\ inFlightTrades' = inFlightTrades \ InFlightKeys(trade[c])
  /\ Forget(c)
  /\ UNCHANGED <<now, control, ledger, orders, processedTrades,
                 processedCompoundKeys, perWalletRateLimits,
                 noRepeatPersistenceBlockedKeys>>

-----------------------------------------------------------------------------
(* reconcilePendingNoRepeatBlock.                                          *)

\* The pending records of the position, whichever trading wallet they are for.
PendingBlocks(t) == {p \in ledger : Pending(p) /\ p.nr[1] = t.pos}

LoadPendingBlocks(c) ==
  /\ At(c, "claimed")
  /\ LET blocks == PendingBlocks(trade[c])
     IN  /\ SetJob(c, [job[c] EXCEPT !.blocks = blocks])
         /\ Goto(c, IF blocks = {} THEN "limits" ELSE "probeBook")
  /\ UNCHANGED <<now, control, memory, ledger, orders, trade>>

ProbeBook(c) ==
  /\ At(c, "probeBook")
  /\ SetJob(c, [job[c] EXCEPT !.book = OpenOrders(BookProbe)])
  /\ Goto(c, "probeSize")
  /\ UNCHANGED <<now, control, memory, ledger, orders, trade>>

ProbeSize(c) ==
  /\ At(c, "probeSize")
  /\ SetJob(c, [job[c] EXCEPT !.size = PositionSize(<<trade[c].pos, SizeProbe>>)])
  /\ Goto(c, "deciding")
  /\ UNCHANGED <<now, control, memory, ledger, orders, trade>>

\* The ledger update that a reconciliation decision asks for.
WriteFor(decision) ==
  CASE decision = "still_open"    -> "reset"
    [] decision = "executed"      -> "mark"
    [] decision = "clear_pending" -> "remove"
    [] OTHER                      -> "increment"

StartWrite(c, j, kind, rec) ==
  /\ SetJob(c, [j EXCEPT !.write = {[kind |-> kind, rec |-> rec]}])
  /\ Goto(c, "load")

\* One iteration of the loop over the pending blocks.
Decide(c) ==
  /\ At(c, "deciding")
  /\ \E p \in job[c].blocks :
       LET decision == DecidePendingOrder(p.order \in job[c].book,
                         job[c].size - p.base, p.checks, p.side)
       IN  StartWrite(c, [job[c] EXCEPT !.blocks = @ \ {p}, !.blk = {p},
                                        !.checks = p.checks],
                      WriteFor(decision), p)
  /\ UNCHANGED <<now, control, memory, ledger, orders, trade>>

\* The locals of the reconciliation go out of scope.
EndReconcile(c) ==
  /\ SetJob(c, NoJob)
  /\ Goto(c, "limits")

FinishReconcile(c) ==
  /\ At(c, "deciding") /\ job[c].blocks = {}
  /\ EndReconcile(c)
  /\ UNCHANGED <<now, control, memory, ledger, orders, trade>>

\* "confirming with a fresh snapshot"
ConfirmBook(c) ==
  /\ At(c, "confirmBook")
  /\ \E p \in job[c].blk :
       SetJob(c, [job[c] EXCEPT !.open = p.order \in OpenOrders(BookProbe)])
  /\ Goto(c, "confirmSize")
  /\ UNCHANGED <<now, control, memory, ledger, orders, trade>>

ConfirmSize(c) ==
  /\ At(c, "confirmSize")
  /\ \E p \in job[c].blk :
       LET size     == PositionSize(<<trade[c].pos, SizeProbe>>)
           decision == DecidePendingOrder(job[c].open, size - p.base,
                                          job[c].checks, p.side)
       IN  IF decision = "await_more_evidence" THEN EndReconcile(c)
           ELSE StartWrite(c, [job[c] EXCEPT !.open = FALSE],
                           WriteFor(decision), p)
  /\ UNCHANGED <<now, control, memory, ledger, orders, trade>>

-----------------------------------------------------------------------------
(* Rate limit and the loop over the execution targets.                     *)

\* Mutant: the limit itself is let through.
OverLimit_OffByOne(s) == \E v \in Windows : s[v].count > WindowMax[v]

OverLimit(s) == \E v \in Windows : s[v].count >= WindowMax[v]

\* Counters are only read here; they are incremented after a recorded fill.
CheckLimits(c) ==
  /\ At(c, "limits")
  /\ LET w == trade[c].wallet
         s == [v \in Windows |->
                 Refreshed(perWalletRateLimits[w][v], WindowLength[v])]
     IN  IF w \notin RateLimited
           THEN Goto(c, "sizing") /\ UNCHANGED perWalletRateLimits
           ELSE /\ perWalletRateLimits' = [perWalletRateLimits EXCEPT ![w] = s]
                /\ Goto(c, IF OverLimit(s) THEN "leaving" ELSE "sizing")
  /\ UNCHANGED <<now, control, ledger, orders, trade, job, processedTrades,
                 processedCompoundKeys, inFlightTrades,
                 noRepeatPersistenceBlockedKeys>>

\* Side, stop-loss and sizing passed.
StartLoop(c) ==
  /\ At(c, "sizing")
  /\ SetJob(c, [job[c] EXCEPT !.todo = TargetsOf[trade[c].wallet]])
  /\ Goto(c, "looping")
  /\ UNCHANGED <<now, control, memory, ledger, orders, trade>>

FinishLoop(c) ==
  /\ At(c, "looping") /\ job[c].todo = {}
  /\ Goto(c, "leaving")
  /\ UNCHANGED <<now, control, memory, ledger, orders, trade, job>>

Key(c, t) == <<trade[c].pos, t>>

IsBlocked(c, t) ==
  IsPositionBlocked(ledger, Key(c, t), BlockPeriod(trade[c].wallet), now)

\* Mutant: `continue` that does not advance the loop.
SkipTarget_NoAdvance(c) ==
  /\ At(c, "looping") /\ job[c].todo # {}
  /\ UNCHANGED vars

\* The target is blocked, or the check threw: `continue`.
SkipTarget(c) ==
  /\ At(c, "looping")
  /\ \E t \in job[c].todo : SetJob(c, [job[c] EXCEPT !.todo = @ \ {t}])
  /\ UNCHANGED <<now, control, memory, ledger, orders, pc, trade>>

TakeTarget(c) ==
  /\ At(c, "looping")
  /\ \E t \in job[c].todo :
       /\ ~IsBlocked(c, t)
       /\ SetJob(c, [job[c] EXCEPT !.todo = @ \ {t}, !.tgt = {t}])
  /\ Goto(c, IF trade[c].side = "SELL" THEN "owning" ELSE "unblocked")
  /\ UNCHANGED <<now, control, memory, ledger, orders, trade>>

NextTarget(c, j) ==
  /\ SetJob(c, [j EXCEPT !.tgt = {}, !.base = 0, !.write = {}, !.snap = {}])
  /\ Goto(c, "looping")

\* SELL: nothing owned or the positions could not be read.
SkipSell(c) ==
  /\ At(c, "owning")
  /\ NextTarget(c, job[c])
  /\ UNCHANGED <<now, control, memory, ledger, orders, trade>>

\* Mutant: sells without looking at what is owned.
CheckOwned_Unchecked(c) ==
  /\ At(c, "owning")
  /\ Goto(c, "unblocked")
  /\ UNCHANGED <<now, control, memory, ledger, orders, trade, job>>

CheckOwned(c) ==
  /\ At(c, "owning")
  /\ \E t \in job[c].tgt : PositionSize(Key(c, t)) > 0
  /\ Goto(c, "unblocked")
  /\ UNCHANGED <<now, control, memory, ledger, orders, trade, job>>

\* getCurrentPositionSize answers, then the last look at isRunning.
TakeBaseline(c) ==
  /\ At(c, "unblocked")
  /\ \E t \in job[c].tgt :
       SetJob(c, [job[c] EXCEPT !.base = PositionSize(Key(c, t))])
  /\ Goto(c, IF isRunning THEN "submitting" ELSE "leaving")
  /\ UNCHANGED <<now, control, memory, ledger, orders, trade>>

MarkProcessed(t) ==
  /\ processedTrades' = Put(processedTrades, TradeKey(t))
  /\ processedCompoundKeys' = Put(processedCompoundKeys, CompoundKey(t))

\* The exchange accepts the order of the target, in the given state.
Place(c, t, state) ==
  Accept(Key(c, t), trade[c].side, trade[c], now, state)

\* executeTrade answered success (a fill) or pending (resting on the book).
ExecuteTrade(c) ==
  /\ At(c, "submitting")
  /\ \E t \in job[c].tgt, filled \in BOOLEAN :
       LET state == IF filled THEN Matched ELSE "live"
           kind  == IF filled THEN "executed" ELSE "pending"
       IN  /\ Place(c, t, state)
           /\ StartWrite(c, job[c], kind,
                NewRecord(Key(c, t), kind, Len(orders) + 1, now,
                          job[c].base, trade[c].side))
  /\ UNCHANGED <<now, control, memory, ledger, trade>>

\* executeTrade answered failed.  With "lost" the exchange may have accepted
\* the order all the same: an exception after the request left is a failure.
ExecuteFails(c) ==
  /\ At(c, "submitting")
  /\ \/ UNCHANGED orders
     \/ /\ "lost" \in Events
        /\ \E t \in job[c].tgt, state \in {"live", Matched} : Place(c, t, state)
  /\ MarkProcessed(trade[c])
  /\ NextTarget(c, job[c])
  /\ UNCHANGED <<now, control, ledger, trade, inFlightTrades,
                 perWalletRateLimits, noRepeatPersistenceBlockedKeys>>

-----------------------------------------------------------------------------
(* A ledger update: load the array, change it, save it.                    *)

\* Every ledger the update may make of the loaded one.
Apply(w, L) ==
  LET r == w.rec
  IN  CASE w.kind = "executed"  -> AddExecutedPosition(L, r.nr, r.order, now)
        [] w.kind = "pending"   -> {AddPendingPosition(L, r.nr, r.order, now,
                                                       r.base, r.side)}
        [] w.kind = "mark"      -> {MarkPendingPositionExecuted(L, r.order, now)}
        [] w.kind = "remove"    -> {RemovePendingPosition(L, r.order)}
        [] w.kind = "increment" -> {IncrementMissingOrderChecks(L, r.order)}
        [] OTHER                -> {ResetMissingOrderChecks(L, r.order)}

\* An update of a record that is not there returns without saving.
Saves(w, L) ==
  CASE w.kind \in {"executed", "pending"} -> TRUE
    [] w.kind = "mark" -> OfOrder(L, w.rec.order) # {}
    [] OTHER -> \E p \in OfOrder(L, w.rec.order) : Pending(p)

LoadLedger(c) ==
  /\ At(c, "load")
  /\ SetJob(c, [job[c] EXCEPT !.snap = ledger])
  /\ Goto(c, "save")
  /\ UNCHANGED <<now, control, memory, ledger, orders, trade>>

\* One more fill in every window of the wallet.
OneMore(w) ==
  [v \in Windows |-> [perWalletRateLimits[w][v] EXCEPT !.count = @ + 1]]

CountFill(t) ==
  perWalletRateLimits' =
    IF t.wallet \in RateLimited
      THEN [perWalletRateLimits EXCEPT ![t.wallet] = OneMore(t.wallet)]
      ELSE perWalletRateLimits

\* Where the handler goes on once the update is saved.
AfterReconcileSave(c, w) ==
  LET j == [job[c] EXCEPT !.write = {}, !.snap = {}]
  IN  CASE w.kind = "reset" -> EndReconcile(c)
        [] w.kind = "increment" ->
             /\ SetJob(c, [j EXCEPT !.checks =
                  IF Saves(w, job[c].snap) THEN @ + 1 ELSE @])
             /\ Goto(c, "confirmBook")
        [] OTHER ->
             /\ SetJob(c, [j EXCEPT !.blk = {}, !.checks = 0])
             /\ Goto(c, "deciding")

SaveLedger(c) ==
  /\ At(c, "save")
  /\ \E w \in job[c].write :
       /\ IF Saves(w, job[c].snap)
            THEN ledger' \in Apply(w, job[c].snap) ELSE UNCHANGED ledger
       /\ IF w.kind \in {"executed", "pending"}
            THEN /\ MarkProcessed(trade[c])
                 /\ IF w.kind = "executed" THEN CountFill(trade[c])
                    ELSE UNCHANGED perWalletRateLimits
                 /\ NextTarget(c, job[c])
            ELSE /\ AfterReconcileSave(c, w)
                 /\ UNCHANGED <<processedTrades, processedCompoundKeys,
                                perWalletRateLimits>>
  /\ UNCHANGED <<now, control, orders, trade, inFlightTrades,
                 noRepeatPersistenceBlockedKeys>>

\* The load or the save threw.  After an order this is
\* handleCriticalNoRepeatPersistenceFailure; in the reconciliation the trade
\* is blocked for safety.
SaveFails(c) ==
  /\ "save" \in Events /\ pc[c] \in {"load", "save"}
  /\ \E w \in job[c].write :
       noRepeatPersistenceBlockedKeys' =
         IF w.kind \in {"executed", "pending"}
           THEN noRepeatPersistenceBlockedKeys \union {w.rec.nr}
           ELSE noRepeatPersistenceBlockedKeys
  /\ Goto(c, "leaving")
  /\ UNCHANGED <<now, control, ledger, orders, trade, job, processedTrades,
                 processedCompoundKeys, inFlightTrades, perWalletRateLimits>>

-----------------------------------------------------------------------------
(* The rest of the program and its environment.                            *)

Tick ==
  /\ now < MaxTime
  /\ now' = now + 1
  /\ UNCHANGED <<control, memory, ledger, orders, pc, trade, job>>

Start ==
  /\ ~isRunning
  /\ isRunning' = TRUE
  /\ UNCHANGED <<now, cycles, memory, ledger, orders, pc, trade, job>>

Stop ==
  /\ isRunning
  /\ isRunning' = FALSE
  /\ UNCHANGED <<now, cycles, memory, ledger, orders, pc, trade, job>>

\* reinitializeCredentials: stops, and gives the next start a new monitor,
\* whatever the cycle of the old one is doing.
ReinitializeCredentials(c) ==
  /\ "reinitialize" \in Events /\ c \notin cycles
  /\ isRunning' = FALSE
  /\ cycles' = cycles \union {c}
  /\ UNCHANGED <<now, memory, ledger, orders, pc, trade, job>>

\* The periods that initialize() cleans up by: 'forever' (0) is skipped.
FinitePeriods == {PeriodOf[w] : w \in NoRepeat} \ {0}

CleanupPeriod == CHOOSE n \in FinitePeriods : \A k \in FinitePeriods : n >= k

\* The process dies and a new one runs initialize(): memory is lost.
Restart ==
  /\ "crash" \in Events
  /\ isRunning' = FALSE
  /\ cycles' = {FirstCycle}
  /\ processedTrades' = {} /\ processedCompoundKeys' = {}
  /\ inFlightTrades' = {}
  /\ perWalletRateLimits' = [w \in Wallets |-> [v \in Windows |-> Unset]]
  /\ noRepeatPersistenceBlockedKeys' = {}
  /\ ledger' = IF FinitePeriods = {} THEN ledger
               ELSE CleanupExpiredPositions(ledger, CleanupPeriod, now)
  /\ pc' = [c \in Cycles |-> "idle"]
  /\ trade' = [c \in Cycles |-> NoTrade]
  /\ job' = [c \in Cycles |-> NoJob]
  /\ UNCHANGED <<now, orders>>

\* DELETE /no-repeat-trades/history
ClearExecutedPositions ==
  /\ "clear" \in Events
  /\ ledger' = {}
  /\ UNCHANGED <<now, control, memory, orders, pc, trade, job>>

\* dataRetention.ts: the newest rows that are young enough are kept, whatever
\* the status and the block period of the record.
PruneOldExecutedPositions ==
  /\ "retention" \in Events
  /\ LET young == {p \in ledger : p.at >= now - RetentionAge}
     IN  \E kept \in SUBSET young :
           /\ Cardinality(kept) <= RetentionRows
           /\ kept = young \/ Cardinality(kept) = RetentionRows
           /\ \A p \in kept, q \in young \ kept : p.at >= q.at
           /\ ledger' = kept
  /\ UNCHANGED <<now, control, memory, orders, pc, trade, job>>

ExchangeMoves ==
  /\ ExchangeStep
  /\ UNCHANGED <<now, control, memory, ledger, pc, trade, job>>

-----------------------------------------------------------------------------

\* Every step of the handler but the detection that calls it.
Handle(c) ==
  \/ GateReject(c) \/ DropDuplicate(c) \/ Claim(c)
  \/ RefuseUnsafe(c) \/ Bail(c) \/ Leave(c)
  \/ LoadPendingBlocks(c) \/ ProbeBook(c) \/ ProbeSize(c)
  \/ Decide(c) \/ FinishReconcile(c) \/ ConfirmBook(c) \/ ConfirmSize(c)
  \/ CheckLimits(c) \/ StartLoop(c) \/ FinishLoop(c)
  \/ SkipTarget(c) \/ TakeTarget(c) \/ SkipSell(c) \/ CheckOwned(c)
  \/ TakeBaseline(c) \/ ExecuteTrade(c) \/ ExecuteFails(c)
  \/ LoadLedger(c) \/ SaveLedger(c) \/ SaveFails(c)

Environment ==
  \/ Tick \/ Start \/ Stop \/ Restart \/ ExchangeMoves
  \/ ClearExecutedPositions \/ PruneOldExecutedPositions
  \/ \E c \in Cycles : ReinitializeCredentials(c)

\* With SQLite nothing comes between a load and its save.
Next ==
  \/ \E c \in Cycles : (StorageIdle \/ At(c, "save")) /\ Handle(c)
  \/ StorageIdle /\ \E c \in Cycles : Detect(c)
  \/ StorageIdle /\ Environment

Spec == Init /\ [][Next]_vars

\* Every await of the handler is settled in the end: each step of a cycle that
\* can be taken is taken.
FairSpec == Spec /\ \A c \in Cycles : WF_vars((StorageIdle \/ At(c, "save")) /\ Handle(c))

-----------------------------------------------------------------------------
(* Properties.                                                             *)

\* The type of every variable.
TypeOK ==
  /\ now \in Nat /\ isRunning \in BOOLEAN
  /\ cycles \subseteq Cycles
  /\ processedTrades \subseteq Entry(TradeKeys)
  /\ processedCompoundKeys \subseteq Entry(CompoundKeys)
  /\ inFlightTrades \subseteq TradeKeys \union CompoundKeys
  /\ perWalletRateLimits \in
       [Wallets -> [Windows -> [count : Nat, start : Nat \union {-1}]]]
  /\ noRepeatPersistenceBlockedKeys \subseteq Keys
  /\ ledger \subseteq Records
  /\ orders \in Seq(Order(Keys, Sides, Trades))
  /\ pc \in [Cycles -> PC]
  /\ trade \in [Cycles -> Trades]
  /\ job \in [Cycles -> JobType]

Busy == {c \in Cycles : pc[c] \in ClaimedPC}

\* inFlightTrades ("Prevent concurrent processing of the same trade") holds
\* exactly the keys of the trades being handled, and no two cycles ever handle
\* trades that share a transaction hash or a compound key.
InFlightExclusive ==
  /\ inFlightTrades = UNION {InFlightKeys(trade[c]) : c \in Busy}
  /\ \A c, d \in Busy :
       c # d => InFlightKeys(trade[c]) \intersect InFlightKeys(trade[d]) = {}

\* The update under way of the cycles for the order i.
BeingRecorded(i) ==
  \E c \in Cycles : \E w \in job[c].write :
    pc[c] \in {"load", "save"} /\ w.kind = "pending" /\ w.rec.order = i

\* A resting order always has its pending block in the ledger, from the
\* moment executeTrade answered until the order leaves the book.
LiveOrderLedgered ==
  \A i \in DOMAIN orders :
    orders[i].state = "live" =>
      \/ BeingRecorded(i)
      \/ \E p \in ledger : p.nr = orders[i].nr /\ p.order = i /\ Pending(p)

\* Two orders on one position of one trading wallet are at least the block
\* period of the later one apart, unless the earlier one was cancelled.
BlockWindowRespected ==
  \A i, j \in DOMAIN orders :
    i < j /\ orders[i].nr = orders[j].nr /\ Effective(orders[i]) =>
      LET period == BlockPeriod(orders[j].copies.wallet)
      IN  period # 0 /\ orders[j].at - orders[i].at >= period

\* One transaction hash is copied to one trading wallet at most once within
\* the hour processedTrades remembers it, lost answers and overlapping cycles
\* included, and even where the ledger never heard of the first order.
TxCopiedOnce ==
  \A i, j \in DOMAIN orders :
    /\ i < j
    /\ orders[i].nr = orders[j].nr
    /\ orders[i].copies.tx = orders[j].copies.tx
    => orders[j].at - orders[i].at > TxTTL

\* Why TxCopiedOnce holds: an order is older than the memory of its hash, or
\* its hash is remembered since, or the cycle that placed it is recording it.
Old(i) == now - orders[i].at > TxTTL

SameTx(i, c) == orders[i].copies.tx = trade[c].tx

Recording(c) ==
  /\ pc[c] \in {"load", "save"}
  /\ \E w \in job[c].write : w.kind \in {"executed", "pending"}

Remembered(i) ==
  \/ Old(i)
  \/ \E e \in processedTrades :
       e.key = TradeKey(orders[i].copies) /\ e.at >= orders[i].at
  \/ \E c \in Busy : SameTx(i, c) /\ Recording(c)

\* From the claim to the loop, and in the ledger updates of the reconciliation.
BeforeLoop(c) ==
  \/ pc[c] \in {"claimed", "probeBook", "probeSize", "deciding", "confirmBook",
                "confirmSize", "limits", "sizing"}
  \/ pc[c] \in {"load", "save"} /\ ~Recording(c)

OnTarget(c) == pc[c] \in {"owning", "unblocked", "submitting"}

\* The targets a cycle in the loop may still place an order for.
OpenTargets(c) == job[c].todo \union (IF OnTarget(c) THEN job[c].tgt ELSE {})

CycleMemory(c) ==
  /\ c \in Busy =>
       \A i \in DOMAIN orders :
         SameTx(i, c) =>
           /\ BeforeLoop(c) => Old(i)
           /\ pc[c] = "looping" \/ OnTarget(c) \/ Recording(c) =>
                \A t \in OpenTargets(c) : orders[i].nr = Key(c, t) => Old(i)
  /\ OnTarget(c) => job[c].todo \intersect job[c].tgt = {}
  /\ pc[c] \in {"load", "save"} => \E w \in job[c].write : job[c].write = {w}

TxMemory ==
  /\ \A i \in DOMAIN orders : orders[i].at <= now /\ Remembered(i)
  /\ \A c \in Cycles : CycleMemory(c)

\* The rate limit of a tracked wallet: no window ever counts more fills than
\* the maximum (types.ts: "Limit trades per hour/day for this wallet").
RateLimitKept ==
  \A w \in RateLimited, v \in Windows :
    perWalletRateLimits[w][v].count <= WindowMax[v]

\* What the code does keep: the limit is read once per detection, so one
\* detection may exceed it by the number of its targets less one.
RateLimitFanOut ==
  \A w \in RateLimited, v \in Windows :
    perWalletRateLimits[w][v].count <=
      WindowMax[v] + Cardinality(TargetsOf[w]) - 1

\* A SELL never sells what the trading wallet does not hold.
SellsCovered == \A nr \in Keys : PositionSize(nr) >= 0

\* A key that is blocked stays blocked as long as time stands still, through
\* crashes and failed saves: only a pending block whose order died is lifted.
BlockedFor(nr, w) == IsPositionBlocked(ledger, nr, BlockPeriod(w), now)

OrderDied(nr) ==
  \E p \in OfKey(ledger, nr) :
    Pending(p) /\ p.order \in DOMAIN orders /\ ~Effective(orders[p.order])

BlocksPersist ==
  \A nr \in Keys, w \in Wallets :
    now' = now /\ BlockedFor(nr, w) => BlockedFor(nr, w)' \/ OrderDied(nr)

NeverUnblocked == [][BlocksPersist]_vars

\* A key the handler remembers as "no-repeat persistence blocked", because the
\* record of its order could not be written, gets no further order.
PersistenceBlockRespected ==
  [][\A i \in DOMAIN orders' \ DOMAIN orders :
       orders'[i].nr \notin noRepeatPersistenceBlockedKeys]_vars

\* Every detected trade is finished: the handler always returns and gives its
\* in-flight keys back.
HandlerReturns == \A c \in Cycles : pc[c] # "idle" ~> pc[c] = "idle"

\* The protocol of no-repeat protection, see NoRepeatGate.
FateOf(state) ==
  CASE state = "live" -> "open" [] state = "dead" -> "dead" [] OTHER -> "done"

Gate == INSTANCE NoRepeatGate WITH
  Copied   <- Wallets,
  PeriodOf <- [w \in Wallets |-> BlockPeriod(w)],
  placed   <- [i \in DOMAIN orders |->
                [nr |-> orders[i].nr, wallet |-> orders[i].copies.wallet,
                 at |-> orders[i].at, fate |-> FateOf(orders[i].state)]]

ImplementsGate == Gate!Spec

=============================================================================
