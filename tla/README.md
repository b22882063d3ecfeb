# Verification of the Polymarket copy-trading bot

TLA+ models, TLC runs and machine-checked proofs for the program under `src/`
(the TypeScript in `src/src/`). The program watches wallets on Polymarket,
and copies their trades with the user's own trading wallets. What must not
go wrong is money: copying twice what should be copied once, forgetting an
order that rests on the book, selling what is not owned, flooding the API, or
silently not copying at all.

Paths below are relative to `src/src/` unless they start otherwise.

## 1. The system

One Node.js process (plus a separate discovery worker). Everything in it is
cooperative: code runs without interruption between two `await`s, and anything
may happen at an `await`. Hence the grain of the models: **one step of a model
is what the code does between two awaits.**

```
 Data API ──poll──> WalletMonitor ──await callback──> CopyTrader.handleDetectedTrade
                        │                               │   │
             lastSeen   │        ledger: load/save      │   │ executeTrade
                        v                               v   v
                   Storage (JSON files or SQLite)    TradeExecutor ──permit── ClobRateLimiter
                        ^                                   │
      web routes ───────┘                                   v
                                                    CLOB order book, positions index
```

| component | state | operations | what is hard | what makes it correct |
|---|---|---|---|---|
| `copyTrader.ts` trade handling | `isRunning`, `processedTrades`, `processedCompoundKeys`, `inFlightTrades`, `perWalletRateLimits`, `noRepeatPersistenceBlockedKeys` | `handleDetectedTrade`, `reconcilePendingNoRepeatBlock`, `start`, `stop`, `reinitializeCredentials`, `initialize` | about thirty awaits between the duplicate checks and the record of the order; two polling cycles at once after `reinitializeCredentials`; crashes; lost answers | no order on a blocked position; no transaction copied twice; every return gives the in-flight keys back; limits kept |
| no-repeat ledger: `storage.ts` 590-880, `noRepeatReconciliation.ts`, `dataRetention.ts` | the executed-positions array (`pending` and `executed` records) | add, promote, refresh, mark, remove, count, check, clean up, clear, prune | whole-array load and save with awaits in between (JSON); retention and cleanup that delete by age | a resting order has a pending record; a block lifts only when its time is over or its order died |
| `tradeExecutor.ts` | cached clients | `executeTrade` | the answer may be lost after the exchange accepted | the caller can tell fill, rest and failure apart |
| `clobRateLimiter.ts` | two sliding windows, a queue and an in-flight count per tenant, the order of tenants, a timer | `acquire`, release, `dispatch` | recursion of `dispatch` with a loop that edits the list it scans; a timer that must be armed | windows never exceeded, shares kept, requests answered |
| `walletMonitor.ts` | `isMonitoring`, interval, `pollCycleInProgress`, the cursor `lastSeen` of each wallet (in the store) | start, stop, change the interval, one polling cycle | the cursor is saved after the batch; late or same-second trades; routes rewrite the wallet list | no trade delivered twice, none skipped |
| wallet list and configuration: `storage.ts` 120-590, `database.ts` | tracked wallets, bot configuration | load, change, save | as the ledger | no update lost |
| life cycle: `copyTradingSync.ts`, `index.ts`, `clobHeartbeatManager.ts`, `balanceTracker.ts` | the stored preference of each tenant, the running flag, the monitor and tracker in use, their timers, the heartbeat interval | migrate and sync at the start, `/start`, `/stop`, replace the components | `start` awaits a whole polling cycle; several requests decide about one global bot | runs exactly when a preference says so; a bot that runs is polled for and has its heartbeat |
| exits: `priceMonitor.ts`, `ladderExitManager.ts`, `smartStopLoss.ts`, handlers in `api/routes.ts` | ladder and stop-loss rules of *one* tenant at a time, `bot_config`, the monitor's interval | tick, trigger handler, create, cancel, configure, sync | ticks overlap; managers and settings save one file; hosted tenants share the managers | what is booked as sold was sold; a stop only rises, fires, and fires once; a failed step is tried again |
| `positionLifecycle.ts` | two switches, interval, a run's list and results | start, stop, configure, check, redeem all, unlock | no guard against a second run; refused, reverted and unanswered transactions | winnings are redeemed; only what was paid is counted |
| `allocation/policyEngine.ts` | state, weight and score per wallet, a log of transitions | evaluate, configure, gate | two processes evaluate; thresholds on a smoothed score | comes to rest; the log explains the state |
| `positionMirror.ts` | a preview, a batch of orders | preview, execute | four reads at four moments, failed reads, refused orders | after a clean execution nothing is left to mirror |
| `performanceTracker.ts` | the feed per tenant in memory and in a file, recent keys | record, read, load, save | loaded lazily, written in place, nothing keeps calls apart | the file ends in what was saved last |
| `discovery/v3` | block cursor, activity and snapshots in DuckDB, scores in SQLite | poll, refresh | nodes that lag, reorganisations, a refresh in several statements | no fill behind the cursor is missing; readers never see half a refresh |
| trading wallets: `walletManager.ts`, `secureKeyManager.ts`, `clobClientFactory.ts` | the list of wallets and the copy assignments in memory and in `bot_config`, encrypted key files, decrypted keys, cached clients | add, remove, toggle, credentials, assign, unlock, reread, use or evict a client | four copies of what a wallet is, changed one after the other; arrays changed in place or replaced while a save holds them; failed writes and crashes in between | no key on disk is overwritten; assignments are to listed wallets; a client signs for its own wallet |
| earlier discovery; cross-platform; web server; entities; jungle agents; disk guard | caches, files, tables | - | mostly I/O, SQL and arithmetic | - |

`PROJECT.json` lists every component with what is modelled of it and, under
"hazards", where in the code each of them can go wrong.

### The executed-positions ledger, in short

A *block* is a record of the ledger for a key `<position, trading wallet>`.
`handleDetectedTrade` skips a target whose key is blocked. A filled order
leaves an `executed` record that blocks for the tracked wallet's period
(five minutes at least, `0` is forever); a resting order leaves a `pending`
record that blocks until the reconciliation finds out what became of the order:
it is still open (keep), the position grew (promote), or it is missing twice
(remove).

## 2. Modules

| module | models | role |
|---|---|---|
| `NoRepeatLedger` | the ledger operations of `storage.ts` and `decidePendingOrderReconciliation` | pure operators |
| `Exchange` | order book and positions index | external, as `copyTrader.ts` and `tradeExecutor.ts` use them |
| `CopyTrader` | trade handling over ledger and exchange | the core: about 40 actions |
| `NoRepeatGate` | what no-repeat protection promises | abstract specification of `CopyTrader` |
| `ClobRateLimiter` | the rate limiter | component |
| `PermitPool` | what the limiter promises | abstract specification of `ClobRateLimiter` |
| `WalletMonitor` | polling cycles, cursors, the wallet list and its routes | component; hands trades to `CopyTrader` |
| `ExitAutomation` | price monitor, ladders, stop-loss orders, their handlers and routes | component |
| `PositionLifecycle` | redemption and merging | component |
| `AllocationPolicy` | the policy engine and the gate that reads it | component |
| `PositionMirror` | preview and execution of a mirror | component |
| `PerformanceTracker` | the feed of executed trades | component |
| `TradingWallets` | trading wallets, assignments, keys and clients | component |
| `BotLifecycle` | preference, sync, start, stop, replacement | component |
| `DiscoveryV3` | poller and refresh worker | component |
| `MCCopyTrader`, `MCWalletMonitor`, `MCExitAutomation`, `MCPositionMirror` | - | values of the constants for TLC |
| `MCWorkers`, `MCTrading`, `MCRecords` | - | several components, one of which runs (see Runs) |
| `CopyTrader_proofs`, `CopySerial_proofs`, `WalletMonitor_proofs`, `ExitAutomation_proofs` | - | theorems about one component (section 4) |
| `Workers_proofs`, `Trading_proofs`, `Records_proofs` | - | theorems about the components of the module `MCWorkers`, `MCTrading` or `MCRecords` |
| `FoldFacts` | - | lemmas about what the models compute by folding over a set or a bag |

### CopyTrader and the code

The state of a polling cycle is `pc` (at which await it stands), `trade` (its
argument) and `job` (its locals). Data is reduced to what the properties tell
apart: a trade is a transaction hash, a tracked wallet, a position, a side and
the five-minute window of its timestamp; orders are one share; prices, sizes
and messages are gone. Time is in ticks of five minutes.

| code (`copyTrader.ts`) | actions |
|---|---|
| 291-315: stopped or disabled: ignored; else first await | `Detect` |
| 315-441: untracked or own wallet, Ditto state, allocation policy | `GateReject` |
| 443-494: prune the maps, CHECK 1-3, claim, in one turn | `DropDuplicate`, `Claim` |
| 496-700: wallet safety, filters, pre-flight checks | `RefuseUnsafe`, `Bail` |
| 1546-1700: reconciliation | `LoadPendingBlocks`, `ProbeBook`, `ProbeSize`, `Decide`, `ConfirmBook`, `ConfirmSize`, `FinishReconcile` |
| 756-843: rate limit | `CheckLimits` |
| 844-1165: side, stop-loss, sizing | `StartLoop` or `Bail` |
| 1173-1330: block check of each target, SELL ownership, baseline | `SkipTarget`, `TakeTarget`, `SkipSell`, `CheckOwned`, `TakeBaseline` |
| 1331-1500: `executeTrade` and the three outcomes | `ExecuteTrade`, `ExecuteFails` |
| `storage.ts` 638-800: load, change, save | `LoadLedger`, `SaveLedger`, `SaveFails` |
| 1500-1510: the finally block | `Leave` |
| `start`, `stop`, 243-286, 139-159 | `Start`, `Stop`, `ReinitializeCredentials`, `Restart` |
| `dataRetention.ts`, the clear route | `PruneOldExecutedPositions`, `ClearExecutedPositions` |

`Bail` stands for every return that changes nothing but the in-flight keys:
about twenty filters and checks, each of which is "may leave here" to the
properties. Array lookups by `find` become a choice among all matches, because
the array's order differs between the two backends. The two backends differ in
one constant: with `AtomicStorage` (SQLite) nothing runs between a load and its
save, without it (JSON files) anything may.

`handleDetectedTrade` asks the SQLite table `bot_config` whether copying is
enabled, even when the JSON backend is selected, while the routes `/start` and
`/stop` write the flag to the selected backend
(`copyTradingSync.ts` 25-28, `storage.ts` 480-489). With JSON files the
handler therefore ignores every trade unless the database, which is always
opened, holds a flag from earlier: the constant `DatabaseFlag`. The JSON runs
set it to TRUE; with FALSE no trade is ever handled.

### ClobRateLimiter and the code

`acquire`, the release callback and the timer each run `dispatch()` to its end.
The model steps through `dispatch()` with a program counter: one step for a
call, for an iteration of the loop of `pickNextTenant`, and for the outcome of
a pick, so that what the loop does to the list it scans is visible. `requests`,
`granted` and `overtaken` are history variables.

### WalletMonitor and the code

`CopyTrader` takes its trades from an arbitrary environment, so that its
properties hold whatever the monitor does; `WalletMonitor` shows what the
monitor does. A handed-over fill is counted in `deliveries`; the handler's own
steps are not repeated here, it is one awaited call.

| code | actions |
|---|---|
| `startMonitoring` 55-91: first cycle, then the interval | `StartMonitoring`, `StartMonitoringLate` (the old cycle is still under way) |
| `stopMonitoring`, `updateMonitoringInterval`, `startPolling` | `StopMonitoring`, `UpdateMonitoringInterval`, `PollTimer` |
| `runPollingCycle` 111-124 | `RunPollingCycle`, `EndCycle`, `LoadFails` |
| `checkWalletsForTrades` 149-199 | `LoadWallets`, `NextWallet`, `SkipWallet`, `FetchTrades`, `FetchFails` |
| `getUserTrades` (`polymarketApi.ts` 530-596): pages | `RowsRead`, `UserTrades` |
| 201-274: cursor, rows newer than it, save | `NewRows`, `DeliverTrade`, `FinishBatch` |
| `updateWalletLastSeen` (`storage.ts` 244-252) | `LoadForLastSeen`, `SaveLastSeen`, `SaveFails` |
| `addWallet`, `removeWallet`, `toggleWalletActive`, `updateWallet...` | `RouteLoads`, `RouteSaves`, `RouteFails` |
| `CopyTrader.reinitializeCredentials` | `ReplaceMonitor` |

The Data API is external: a fill is published at once or later, and is *late*
when a fill of the same wallet with the same or a newer second is already
published. The wallet list is a set of records; a request and the monitor each
keep the list they loaded until they save it.

### ExitAutomation and the code

Both managers hold the rules of one tenant; `sync` names it. In hosted mode the
tenants share them, and every request, tick and trigger handler syncs them first.

| code | actions |
|---|---|
| `PriceMonitor.start`, the interval, 77-100, 137-153: sync with each tenant, collect the tokens of active rules | `TickStarts` (`Visit`, `VisitAll`) |
| `fetchPricesForTokens` 198-216: one request for each token | `FetchPrice`, `FetchFails` |
| 160-163: sync with the tenant whose turn it is | `TickSyncs` |
| 100-132, 164-195: `checkLadders`, `updatePrices`, the triggers | `TickChecks` (`CheckLadders`, `UpdatePrices`, `Triggered`) |
| `ladder-trigger`, `stoploss-trigger` (`api/routes.ts` 156-235) up to `executeTrade`, or the mark on paper; after `executeTrade` | `Begins`; `HandlerReturns`, `AnswerLost` |
| `saveState` of either manager, and any other setter of `bot_config` | `SaveLoads`, `SaveWrites`, `SaveFails`, `OtherSave` |
| routes of ladders, stop-loss orders and the monitor; the middleware 105-113 | `CreateLadder`, `CreateStopLoss`, `CancelLadder`, `CancelStopLoss`, `SetLiveMode`, `ConfigureStops`, `StartMonitor`, `StopMonitor`, `ConfigureMonitor`, `Request` |
| `autoStartPriceMonitor` 116-153, a crash | `AutoStart`, `Restart` |

Between the last price of a tick and the end of its checks nothing that waits
for I/O runs (`Turn`). What does run in between are the pieces of code behind
awaits without I/O: the syncs and checks of one tenant after the other, the
handlers that were triggered, and with SQLite, whose calls are synchronous,
the two halves of each save. Their order is fixed by the engine's queue of
microtasks; the model takes any order, so its safety properties hold of the
real one. Nobody awaits the save of a paper mark or of a triggered order, and
it takes rules and tenant as they are when it resumes: `SaveWrites` reads the
managers at that moment. `sold`, `fired` and
`raised` are histories. `sold` counts a rule's own shares only up to what it
was created with. `Earlier` are the rules that exist when the process starts,
on disk only.

### PositionLifecycle and the code

| code | actions |
|---|---|
| `createRoutes` 60-66, `start` 102-117, `stop` 119-126 | `Init` and `Restart`, `Start`, `LoadConfig`, `Stop` |
| `updateConfig` 518-531, `saveConfig` | `UpdateConfig`, `SaveConfig`, `Updated` |
| the interval 128-141, `triggerCheck` 487-502, the routes | `Tick`, `Unlock`, `Request` |
| `getRedeemablePositions` 212-311: two answers of the Data API | `ListRedeemable`, `ListMergeable`, `ListFails` |
| the loops of `checkAndProcess` 163-194 and `redeemAll` 538-551 | `NextEntry` |
| `redeemPosition`, `mergePosition` 348-481 | `Mined`, `RelayFails`, `Answered` |

The chain (`Resolve`, what a transaction burns and pays), the index
(`Reindex`) and the relayer are external. A transaction that nobody waits for
any more, because `wait` gave up or the process ended, goes into `late`, and may
be mined at any time (`MinedLate`). Wallets are taken one after the other by a run and
share nothing else, so one wallet is modelled.

### TradingWallets and the code

| code | actions |
|---|---|
| `initWalletManager` 85-93: at the start, by GET routes, by the position life cycle | `Init`, `Restart`, `Reread`, `RereadEnds` |
| `saveWalletConfig` 62-68, `storage.ts` 419-441 | `ChangeAndSave`, then `SaveLoads`, `SaveFormats`, `SaveWrites` (JSON files), `WriteFails` |
| `addTradingWallet`, `addEncryptedWallet` | `AddTradingWallet`, `KeystoreMissing`, `KeystoreExists`, `KeystoreWritten`, `CredentialsWritten` |
| `removeTradingWallet`, `removeEncryptedWallet` | `RemoveTradingWallet`, `UnlinkKeystore`, `DropWallet` |
| toggle, label; credentials; assignments | `ToggleTradingWallet`; `UpdateBuilderCredentials`, `CredentialsUpdated`; `AddCopyAssignment`, `RemoveCopyAssignment` |
| `unlockWallets` 379-441 | `Unlock`, `UnlockFile`, `UnlockEnds` |
| `getClobClientForTradingWallet`, the retry after an invalid signature (`tradeExecutor.ts` 301-322) | `UseClient`, `ClientReady`, `ClientFails`, `EvictClient` |
| another setter of `bot_config` | `OtherSetting` |

A request under way is an element of the bag `requests`. A save of JSON files
holds the two arrays *by reference* from the load of `bot_config` until the text
is made, one await later: an array that is changed in place meanwhile changes
for the save, too, and one that is replaced does not (`KeepLists`,
`KeepAssigned`). `stored`, `contested`, `removed`, `misplaced` and `mixed` are
histories; the last four name the interleavings under which the code does not
keep the properties.

### AllocationPolicy, PositionMirror, PerformanceTracker and the code

| code | actions |
|---|---|
| `policyEngine.ts` 377-395: read states and configuration, `evaluateOne` | `Load` |
| `persistStateBatch`, `persistTransitions`: one transaction each | `PersistState`, `PersistTransition` |
| `updateAllocationPolicyConfig`, new scores, the end of a process | `UpdateConfig`, `Discover`, `Die` |
| `calculateMirrorPreview` 124-227: positions, total, own positions, cash | `ReadPositions`, `ReadTotal`, `ReadOwn`, `ReadCash` |
| `executeMirrorTrades` 510-606 | `Select`, `Place`, `PlaceFails`, `Finish` |
| `recordTrade` 187-224 and the readers, `ensureTenantLoaded` | `Call`, `ReadFile`, `Load`, `Loaded`, `LoadSync` |
| `saveMetrics` 163-170 | `OpenFile`, `WriteFile` |

`PolicySettles` needs the thresholds of `evaluateOne` as they are, so
`AllocationPolicy` keeps the arithmetic: scores are whole points, rounded down
(the code keeps them real, which moves a threshold by less than a point),
and weights are in hundredths. `PositionMirror` counts shares in tenths and
rounds targets down; its wallets may trade while a preview is read or executed,
and an order is filled at the price that the preview showed.

### BotLifecycle and the code

| code | actions |
|---|---|
| `migrateCopyTradingPreferences`, `syncCopyTraderState` at the start | `BootSync` |
| `/start`, `/stop`: store the preference, sync | `SetEnabled`, `SaveEnabled` |
| `anyTenantWantsCopyTrading` 38-48 | `Sync`; with JSON files `ReadFlag`, `ReadWallets` |
| `CopyTrader.start` 176-219 | `StartBot`, `Prepared`, `CycleEnds`, `TrackBalances`, `TimeBalances`, `Finish`, `StartFails` |
| `CopyTrader.stop` 224-237 | `StopParts` |
| `reinitializeCredentials` 243-286 | `Reinitialize`, `ReplaceMonitor`, `ReplaceTracker`, `Reinitialized` |
| the interval of a monitor | `TimerCycle`, `TimerCycleEnds` |
| the wallet routes, which do not sync | `ToggleWallets` |

Every monitor and tracker that was ever made is kept, because a replaced one
whose `start` still awaits goes on. `mode` is chosen at first: JSON, SQLite or
hosted.

### DiscoveryV3 and the code

| code | actions |
|---|---|
| `pollRpcLogsOnce` 101-144, one at a time (`workerIntegration.ts` 109-127) | `StartPoll`, `PollChunk`, `SetCursor`, `PollFails` |
| `runRefreshOnce` 36-286, one at a time (288-312) | `StartRefresh`, `ClearSnapshots`, `EmitSnapshots`, `ReadSnapshots`, `Publish`, `RefreshFails` |

A node may report a head it does not fully show; what is younger than `Lag`
blocks may be missing from an answer or reorganised. A snapshot and a
publication are the sets of fills they were computed from; which wallets pass
the quality gate is left out.

## 3. Runs

Small instances; each bound is named in the module that declares it and chosen
so that the case in question occurs.

| run | instance | shows |
|---|---|---|
| `CT_serial` | one cycle, one trading wallet that holds one share, a BUY of a protected wallet and a SELL of another, 3 orders, 3 ticks, no failures | `TypeOK`; every resting order is ledgered; no SELL is uncovered; the handler implements `NoRepeatGate`, and returns |
| `CT_overlap` | two cycles, two targets of which one has hour and day limits, lost answers, clear, retention; one fill, seen under two hashes | `InFlightExclusive`, `TxCopiedOnce`; `RateLimitFanOut`: while only one fill is handled, the excess is at most the targets less one |
| `WM_poll` | SQLite, one wallet, 2 fills, a page of one row and two pages, 3 ticks of which two make the five minutes; late publication, failed reads, the switch | `DeliveredOnce`, `CursorForward`, `CursorSkipsNothing`, `CursorCatchesUp` |
| `WM_json` | JSON files, crashes, failed saves, a replaced monitor, add, remove and edit | `CursorSkipsNothing`: as long as nobody holds a list for five minutes, what is lost is only the cursor's progress, never a fill |
| `EX_safe` | JSON files, one tenant, one token with three prices, a ladder of two steps and a stop-loss order, two interchangeable ticks; unread prices, orders that fail or lose their answer, saves that fail, the monitor's routes, other settings, a crash | `RecordedSales`, `StopNeverLowered`, `StopTriggersOnce` |
| `PS_workers` | *bot*: two tenants, every mode, overlapping requests, a replacement, failures; *discovery*: a chain of 5 blocks, one fill, chunks of one block, an overlap of two, two refreshes, a failure | `RunsAsPreferred`, `ComesToLife`; `NoFillSkipped`, `FillsPublished`, `PublicationGrows` |
| `PS_trading` | *policy*: two evaluators, three inputs, three configurations, one with ordered thresholds and two without; *exits*: SQLite, failed orders, unread prices, the monitor's routes; *redeem*: one market, two requests and one run, refused, reverted and late transactions, auto-redeem stored or nothing; *limiter*: one tenant that fills both windows, or three below the limits | `PolicySettles`, `HistoryExplains`; `StopFires`, `StepRetried`; `WinningsRedeemed`, `RecoveredWasPaid`; `RequestsAnswered`, `NoRequestForgotten` |
| `PS_records` | *limiter*: two tenants that fill both windows, 4 requests; *feed*: two calls, three records of which two share a key, two restarts; *mirror*: three tokens, two changes or failures; *copy*: JSON files, crashes and failed saves at any await; *wallets*, with JSON files, and *hosted*: two identifiers, two keys, one tracked wallet, two requests at a time, two changes, a crash or a failed write | `TypeOK`, `WindowsRespected`, implements `PermitPool`; `FeedKept`; `MirrorSettles`; `KeyKept`, `AssignmentsResolve`, `SignsForItself`; `NeverUnblocked`: while time stands still no block is lifted, except a pending one whose order died |

The three `PS_` runs check several components each. The components share no
state in these modules, so interleaving them would multiply the states and show
nothing: the variable `part` picks one at first, and the others stay in an
initial state. Every property is about one of the parts and is true of the
others because they do not move.

Three ticks are enough for every period of the instances (one and two ticks) to
begin, run and end; two trades of two tracked wallets with different periods
are the smallest set in which the period of the copied wallet matters; two
cycles are all that `reinitializeCredentials` needs to overlap. A second
position would add nothing: every key, record and decision is about one. Two
fills are the smallest batch with an order and the smallest history in which
one is behind the page that is read; a wallet's cursor depends on no other
wallet's, so one wallet is enough. `CycleSymmetry` is used by `WM_json` only,
and `TickSymmetry` by `EX_safe` only, which have no liveness property. `EX_safe`
checks `OneTenantSpec`, which leaves out `Request` and `TickSyncs`: with one
tenant there is no request of another, and not hosted a tick does not sync before
its checks. `PS_trading` has both.

Two steps of a ladder are the fewest that share the remaining shares; three
prices lie below the floor, at the profit lock and above it. Rules of different
tokens do not meet, so one token is enough; two ticks, two calls, two requests
and two refreshes are the fewest that overlap. A chain of five blocks is longer
than lookback, overlap and two chunks together, so that a fill can fall behind
the overlap. The scores of the policy's inputs are above, between and below
its thresholds, also where these are in the wrong order. The exits of
`PS_trading` do without lost answers: for `StopFires` and `StepRetried` they are
failures, and `EX_safe` has them. A total of 3 is all that the one market can
pay, and `MaxTotal` stops there. Two wallets are the fewest of which a removal can take the wrong
one, two keys the fewest that can be confused, and two requests at a time the
fewest that overlap; every interleaving that the properties of `TradingWallets`
exempt occurs within these bounds: without any one of the exemptions the run
fails.

The instance of `CT_serial` is serial on purpose: `ImplementsGate` is what the
code promises *when nothing goes wrong*, and the runs below show how it is lost.
The properties of section 4 are proved for all instances.

### Where the code departs from what it says

Runs that end in a counterexample, each with a finding in `PROJECT.json`:

| run | violated | in short |
|---|---|---|
| `CTV_probe` | `LiveOrderLedgered` | the reconciliation asks one trading wallet for its open orders and judges the pending blocks of all by the answer: an order of a second wallet is "missing" twice within one call and loses its block |
| `CTV_forever` | `NeverUnblocked` | the cleanup on start skips wallets that block forever when it computes the period, and then removes their records too |
| `EXV_trailing` | `StopNeverLowered` | a trailing stop that moved up is saved only when something triggers; hosted, the sync with another tenant and back restores the stop price as it was saved |
| `PMV_selloff` | `SellsOnlySurplus` | `getPortfolioValue` answers 0 for an error, every target becomes 0, and the preview proposes to sell what both hold |

The same models show these divergences; they have no run of their own, and
take a change of a few constants to reproduce. On `CT_serial.cfg`, with the
property in the place of its properties:

- *crash* (`BlockWindowRespected`, `Events = {"crash"}`): a crash between the
  answer of the exchange and the write of the ledger leaves no trace of the
  order, and the restarted process copies again.
- *unread set* (`PersistenceBlockRespected`, `Events = {"save"}`): the key of an
  order that could not be recorded goes into `noRepeatPersistenceBlockedKeys`
  (1742), which nothing reads.
- *overlapping cycles* (`BlockWindowRespected`, `Cycles = {c1, c2}` and
  `Events = {"reinitialize"}`): the block check (1180)
  and the record (1380) are many awaits apart, and in-flight keys are per
  transaction and tracked wallet, not per position. Both cycles place.
- *lost update* (`LiveOrderLedgered`, `Cycles` and `Events` as before,
  `AtomicStorage = FALSE`, `Targets = {t1, t2}` and `TargetsOf <- TargetEach`): with JSON files one cycle's save drops the
  pending record another saved after it had loaded.
- *positions index behind the book* (`BlockWindowRespected`,
  `IndexLag = TRUE`): a filled order is off the book and not yet visible in the
  position; both missing checks happen in one call (1618-1667).
- *retention* (`NeverUnblocked`, `Events = {"retention"}`,
  `PeriodOf <- Forever`): rows are deleted by age and count whatever they block.
- *rate limit* (`RateLimitKept`, the constants of `CT_overlap`): checked once per
  detection, counted once per fill. The excess is bounded by the targets less
  one (`RateLimitFanOut`) as long as one cycle is under way; two cycles that
  handle two different fills of the wallet both pass the check before either
  counts, and exceed that bound, too.

On `ClobRateLimiter` with `Tenants = {a, b}`, `BurstLimit = 2`,
`SustainedLimit = 3`, `MaxConcurrentPerTenant = 2`, windows of 2 and 4, and
`MaxRequests = 4`:

- *forgotten request* (`NoRequestForgotten`, and with `FairSpec` also
  `RequestsAnswered`): the loop bound of `pickNextTenant` (99) is a length the
  loop itself shortens when it drops a tenant with an empty queue, so the last
  tenant is not looked at, and its request waits until somebody else asks or
  releases.
- *round robin* (`RoundRobin`, with `MaxRequests = 6`): a pick that the
  windows refuse still sends the tenant to the back.

And on `WM_json.cfg` without symmetry, with `Events = {}`, `Edits = {"edit"}`
and `MaxTime = 2`:

- *lost cursor* (`CursorForward`, `DeliveredOnce`): a request that loaded the
  wallet list before the cursor moved and saves it afterwards puts the cursor
  back, and the fills are handed over again. For an hour `processedTrades`
  drops them (`TxCopiedOnce`), after that nothing does, except no-repeat.
- *lists held for long* (`CursorSkipsNothing`, with two requests, one cycle, three
  fills, `Events = {}`, `Fallback = 1` and `MaxTime = 3`): a request that loaded
  the list before the wallet's first fill puts its record back to "never seen";
  the next cycle therefore reads the last five minutes only; a second request
  restores the cursor, and the cycle's save then moves it over the fills in
  between, which nobody has handed over. What is left then is `MonitorRecent`
  of section 4.

Properties that the other modules state and that the code does not keep, or
that follow from them at once:

- *replaced monitor* (`OnlyCurrentPolls` of `BotLifecycle`, with
  "reinitialize"): `start` awaits the first cycle, `reinitializeCredentials`
  stops and replaces the monitor meanwhile, and `startMonitoring` of the old
  one then sets its interval: two monitors poll, although `copyTrader.ts`
  240-241 speaks of reinitializing *all* clients.
- *heartbeat after stop* (`HeartbeatStops`): for the same reason a `stop`
  during `start` is followed by the heartbeat of that `start`.
- *preference with JSON files* (`RunsAsPreferred` without its first conjunct):
  `/start` reads the flag, `/stop` stores its own and stops, `/start` goes on
  and starts the bot.
- *side of a record* (`DroppedForSameSide` of `PerformanceTracker`): the comment
  (`performanceTracker.ts` 196) has the side in the key, line 200 has not: a
  SELL within five minutes of a BUY of the same market, outcome and status is
  not recorded.
- *two loads* (`FeedKept` without `spoiled`): calls that overlap before the
  first load drop each other's records; overlapping `writeFile`s leave a file
  that does not parse; and after a crash in a save the next load finds no feed.
- *ladder sold twice* (`sold` in `ExitAutomation` beyond a step's shares): in
  live mode a second tick finds a step due whose order is under way; several
  steps of one tick take their percentage of the same remaining shares; a lost
  answer has a step sold again; and a stop-loss order and a ladder of one token
  do not know of each other.
- *inherited rules* (`StopTriggersOnce` with the constants of `EXV_trailing`): the
  sync with a tenant whose configuration has no stop-loss orders leaves those of
  the tenant before in memory (`smartStopLoss.ts` 260). A tick then triggers
  them for the wallets of both.
- *failed stop-loss sale*: the order is inactive before the sale and is never
  tried again, although `smartStopLoss.ts` 25 says "Hard floor: always sell if
  price hits this".
- *hosted, paper mode* (`SaveWrites`): the handler does not await the save of a
  paper mark. The tick goes on to the next tenant in the same turn; if that
  loads its ladders first, the save writes them into the first tenant's row, and
  takes the rules in memory for the first tenant's. `priceMonitor.ts` 135 says
  that "each tenant has isolated ladder/stop-loss rows in SQLite".
- *lost stop save*: with SQLite, too, two saves of one turn may cross. The
  ladder save of a paper mark may load before the stop-loss save of the same
  tick writes, and then writes the triggered order back as active.
- *thresholds in any order* (`PolicySettles` without `Flaps`):
  `PUT /allocation/config` (`discoveryRoutes.ts` 1121) stores what it is given
  (`policyEngine.ts` 99-115). With the exit of CONSISTENT above its entry a
  wallet that scores in between goes from CONSISTENT to COOLDOWN and back with
  every evaluation, for ever, and with it the weight of its copies; so
  does one between `hotEnterScore` and a higher `hotExitScore` between
  CONSISTENT and HOT_STREAK. `Flaps` names exactly these scores.
- *two evaluators* (`PolicySettles` without `Overlap`): web server and
  worker that overlap for ever may write one wallet's old state over the new
  one again and again; a PAUSED state is overwritten the same way.
- *policy, by reading*: the action 'resume' cannot be reached
  (`policyEngine.ts` 217-224 names it for PAUSED to CONSISTENT, which goes
  through COOLDOWN); a wallet that was never promoted goes from NEW through
  PAUSED to COOLDOWN and is copied with weight 0.5.
- *neg-risk No* (`WinningsRedeemed` without `Payable`): redemption of a neg-risk
  position asks for `[size, 0]` whatever the outcome (`positionLifecycle.ts`
  379), so that a winning No position is never redeemed. The transaction burns
  the Yes amounts instead, pays nothing, and the size is nevertheless added to
  the total recovered. The attempt to prove `RecoveredWasPaid` showed this; the
  instance of `PS_trading` has no neg-risk market. `astray` covers it.
- *double redemption* (`RecoveredWasPaid` without `astray`): a run that works
  from an entry that another run or an index behind the chain made obsolete
  redeems what is left, and counts the whole entry.
- *mirror*: a preview that is older than a change is executed all the same; the
  tracked wallet's positions beyond 500 count as not held
  (`polymarketApi.ts` 341); a weight of 0 still closes what only the user has.

- *wallets* (the properties of `TradingWallets` without their exemptions): two
  removals that overlap, or one that a reread overtakes, take another wallet off
  the list, because the index is found before the files are removed
  (`walletManager.ts` 144-148). Two adds of one identifier that overlap overwrite
  a key file. A wallet that was removed and added again with another key keeps
  its old client: nobody calls `clearClobClientCache`, which is there for "tests
  or credential rotation" (`clobClientFactory.ts` 137). With JSON files, a
  removal while another save waits leaves an assignment to a wallet that is gone,
  if the process ends before the next save, or that save comes first.
- *wallets, by reading*: a failed save or a crash between the removal of the key
  file and the save of the list leaves a listed wallet that cannot be removed
  ("not found", `secureKeyManager.ts` 256); one between the key file and the list
  leaves a key whose identifier cannot be used again.

Three more hold by the shape of the code, and the properties are stated around
them: a row that becomes visible after a newer one, or in the same second, is
skipped; rows behind the pages that are read are lost after a pause of more
than five minutes (`OnUnreadPage`); and rows come newest first, so that a BUY
and the SELL that follows it in one batch are copied in the wrong order.

### Fairness

`CopyTrader!FairSpec`: weak fairness of each cycle's steps. Every await of the
handler is an HTTP request with a time-out, a file or database operation, or a
permit of the rate limiter (see `RequestsAnswered`), all of which settle; after
that the event loop runs the continuation. Nothing is assumed about the market,
the user or the clock.

`ClobRateLimiter!FairSpec`: `dispatch()` runs to its end, due timers fire, time
passes, and a permit is released, which `tradeExecutor.ts` does in a `finally`.
Nobody is assumed to ask for a permit, so a request may not rely on the next
one to be woken.

`WalletMonitor!FairSpec`: weak fairness of each cycle and of each request's
save (every await settles), and of the timer (`setInterval` fires while the
process lives). Strong fairness of two things the bot cannot do alone: again
and again the wallet list can be read, and the Data API answers for each
wallet. Without it a service that is down for ever would refute
`CursorCatchesUp`; what is checked is that the *code* recovers from any number
of failures once they end. `CursorCatchesUp` presupposes that the wallet stays
monitored from some point on.

The other modules: every await settles and every interval of a running process
fires. In `ExitAutomation` that is each tick's fetches, syncs and checks, the
handlers, and the saves. Strong fairness of two things in `ExitAutomation` that the bot cannot do
alone: the price of a token is read again and again (`StopFires`,
`StepRetried`), and the exchange accepts a ladder's sale when it is tried again
and again (`StepRetried`). In `DiscoveryV3`, `BotLifecycle` and
`PositionLifecycle` failures are bounded instead, so that what is checked is the
recovery after the last of them. In the `PS_` runs one part moves, and the weak
fairness of a disjunction over actions of different parts is the weak fairness
of each.

## 4. Proofs

Every theorem holds for every value of the constants that the `ASSUME`s of the
modules and its own hypotheses admit: any number of cycles, wallets, targets,
trades, tenants, fills, rules, ticks, requests and processes, and any limits and
periods. What is summed or counted is finite (`RuleAssumption`,
`LifecycleAssumption`, `MirrorAssumption`, ...).

| theorem | statement and hypotheses | argument |
|---|---|---|
| **`CopyTrader_proofs`** | | |
| `TypeCorrect` | `Spec => []TypeOK` | inductive as it stands, one lemma per group of actions; the ledger operators' typing is the lemma `ApplyType` |
| `InFlightSafe` | `Spec => []InFlightExclusive` | strengthened by "claimed cycles are exactly the busy ones": a claim adds two keys that no busy cycle has, because CHECK 3 found both absent in the same turn; the finally block takes them away from the only cycle that has them |
| `CopiedOnce` | `Spec => []TxCopiedOnce`, unless "crash" or "save" is among the events | `OnceInv`: type, in-flight keys, and `TxMemory`: every order is either older than the hour, or its hash is in `processedTrades` with a time not before the order's, or the cycle that placed it is recording it; and a cycle in its loop never again comes to a target for which it placed an order. A new order then finds every earlier order of its hash and target old |
| **`CopySerial_proofs`** | | |
| `BlockedWhileLive` | `Spec => []LiveOrderLedgered`, for `Undisturbed` (no event occurs) and `OneWallet` (all targets are the wallet the reconciliation reads) | `LedgerInv`: each record is of an order of its key, and each key has one pending record at most (`RecordsSound`); whatever the locals say about the book at a label is still true of it, so that an update that lifts a block comes when its order has left the book (`LocalsSound`); a target that passed the block check has no pending record |
| `SalesCovered` | `Spec => []SellsCovered`, moreover for `SameProbes` and `NoLag` (the index shows a match at once) | `GateInv`: `LedgerInv`, and a pending record knows the position as it was before its order (`BaseSound`), an order that took effect is in the ledger from its time on (`Recorded`), and what the checks found of a target still holds when its order is placed (`PlaceSound`) |
| `GateKept` | `Spec => ImplementsGate`, under the same hypotheses | step simulation from `GateInv`: `ExecuteTrade` places what the gate lets through, a match or cancellation at the exchange settles an order, `Tick` is its clock, and every other action stutters |
| `BlocksStand` | `Spec => NeverUnblocked`, under the same hypotheses | from `GateInv`: a save writes the ledger that it loaded but for its own change, and the only change that takes a block away is that of a reconciliation; the record it removes is of an order that was cancelled |
| `FanOutBounded` | `Spec => []RateLimitFanOut`, unless "reinitialize" is among the events, for wallets with finitely many targets | `LimitInv`: the count of a window plus what the detection under way may still add (all targets after the check, then what is left to do) is at most the limit plus the targets less one |
| **`WalletMonitor_proofs`** | | |
| `MonitorType` | `Spec => []TypeOK` | `MonitorInv`: fills are numbered without gaps, and the locals of a cycle fit its label |
| `MonitorRecent` | `Spec =>` every stored record is `RecordSound`: its cursor is the time of a published fill, and no fill of the last five minutes that was published in time is behind it and not handed over | `SoundInv`: the same of every copy of a list that a cycle or a request holds; a batch has every row that is newer than the cursor it was taken for (`BatchSound`). Time only makes the claim weaker, so a stale list stays sound |
| `MonitorForward`, `MonitorSkipsNothing` | `Spec => CursorForward`, `Spec => CursorSkipsNothing`, for `OneMonitor` ("reinitialize" does not occur) and `FreshStore` (SQLite, or no edits) | `SerialInv`: `SoundInv`, one cycle under way exactly while `pollCycleInProgress`, who has loaded the list holds what is stored, one record for each address |
| `MonitorOnce` | `Spec => []DeliveredOnce`, moreover for `NothingLost` (saves succeed, no crash, no wallet is added again) | `OnceInv`: a fill that was handed over is behind the stored cursor, or the cycle under way is about to move the cursor over it; no batch and no copy of a record leads to it again |
| **`ExitAutomation_proofs`** | | |
| `ExitType`, `SalesRecorded` | `Spec => []TypeOK`, `Spec => []RecordedSales`, with any tenants, overlapping saves, lost answers and crashes | `ExitInv`: everything that ever holds a ladder - the managers, `bot_config`, every save under way - has `remaining + sold >= Shares` for it. These sets (`LadderBooks(S)`, `Configs(S)`, `Jobs(S)`) depend on `sold` as a parameter and only grow with it, so what was read long ago is still sound, and so is a save that writes the rules of another tenant; sales are summed over a set of handlers (`FoldFacts`) |
| `StopOnce`, `StopKept` | `Spec => []StopTriggersOnce`, `Spec => []StopNeverLowered`, for `OneTenant` | `OneInv`: a manager loads only when it has loaded nothing since the start, and then nothing has fired or been raised, because a tick checks only after a sync (`LoadedInv`); an active order in memory has not fired, and its stop price is at least the highest so far |
| **`Workers_proofs`** | | |
| `DiscoveryType` | `Spec => []TypeOK` | inductive with the types of a poll's and a refresh's locals and `cursor <= head` |
| `NothingSkipped` | `Spec => []NoFillSkipped` | `SkipInv`: a poll begins the overlap below the cursor, and every fill that it has read past and that is at least `Lag` blocks below its end is stored (`PollSound`) |
| `PublicationSafe`, `PublishedIsStored` | `Spec => PublicationGrows`, `Spec => [](scores \subseteq stored)` | `RefreshSound`: one refresh at a time; from "read" on the snapshots contain what is published, and are of stored fills |
| `BotType` | `BotSpec => []BotTypeOK` | with `BotInv` |
| `BotRunsAsPreferred` | `BotSpec => []RunsAsPreferred` | `BotInv`: types, room for the monitors and trackers that calls are still to make (`Calls` is finite), and what each call's label says of its locals. With SQLite, and hosted, a sync reads the preferences and starts or stops in one turn, so that between decisions the bot runs as the last of them found (`PreferredUnless`) |
| **`Trading_proofs`** | | |
| `HistoryTold` | `Spec => []HistoryExplains` | `HistoryInv`: unless evaluations overlapped or died, at most one is under way; it computed from the row that is stored, and after its first transaction the row is what the second will log |
| `EdgesFollowed` | `Spec => [][~overlapped => row'.state \in Follows(Stored(row))]_row`: PAUSED leaves to COOLDOWN only, HOT_STREAK is reached from CONSISTENT only | `HistoryInv`, and `EvaluateFollows` for any scores and thresholds |
| `RecoveredIsPaid` | `LifecycleSpec => []RecoveredWasPaid` | `RecoveryInv`: until a run went astray, the total recovered and what the runs whose transactions are mined have yet to add are together at most what the chain paid (`Backed`), whenever the others are mined; the sum over the runs changes with one of them (`TotalChanges` of `FoldFacts`) |
| `MirrorDone` | `MirrorSpec => []MirrorSettles` | `MirrorInv`: while nothing disturbs a preview, the trades that are left of it are those a new preview would propose (`UpToDate`). A fill at the price that was shown keeps cash plus the value of what is held, so the goals of the other tokens stand, and its own token has reached its goal |
| **`Records_proofs`** | | |
| `LimiterType` | `Spec => []TypeOK` | inductive with `LimiterInv` |
| `WindowsSafe` | `Spec => []WindowsRespected` | `LimiterInv`: the two timestamp lists are suffixes of the history of grants that contain every grant younger than the window; so `canGrant` sees all that matters |
| `PoolImplemented` | `Spec => ImplementsPool` | every step of the limiter is a step of the pool or a stutter; a grant fits both windows by `LimiterInv` |
| `AnsweredAtOnce` | `Spec /\ [](dispatchTimer = NoTimer) => []NoRequestForgotten` | `RoomInv`: between dispatches no waiting tenant is below its limit; a request or a release makes one tenant eligible at most (`OneGrant`), for one permit. The first scan finds it within its bound, since there is no empty queue to drop before it; the second scan drops at most the tenant that was just served, at its last step |
| `FeedIsKept` | `TrackerSpec => []FeedKept` | `FeedInv`: unless calls spoiled it, the feed in memory and the rows of the file are the newest of what was saved, and at most one call is under way; trimming what is trimmed already changes nothing (`TrimTwice`) |
| `KeysAreKept`, `ClientsSignForThemselves` | `WalletSpec => []KeyKept`, `WalletSpec => []SignsForItself` | `KeyInv`: every entry of a wallet, wherever it is - the lists in memory and on disk, every copy that a request or a save carries, unlocked keys, clients - is one for which a key file was written, or its identifier is removed or contested (`Vouched`); and who is about to write the key file of an identifier is alone in that, and writes over none (`Lone`) |
| `AssignmentsAlwaysResolve` | `WalletSpec => []AssignmentsResolve` | `TiesFit`: until a list was misplaced or mixed, the assignments in memory, on disk and in what each request carries are to wallets of the list beside them |

### Why the hypotheses

- `CopiedOnce`: memory does not survive a crash, and after a failed save the
  order is in nobody's record while the transaction hash is only as old as its
  claim.
- `BlockedWhileLive`, `SalesCovered`, `GateKept`: `CTV_probe` shows that a second
  trading wallet breaks them; the divergences *crash*, *overlapping cycles*,
  *lost update*, *positions index* and *retention* of section 3 each break them
  through one event or one constant. What the theorems say is that there is no
  other way to lose a block.
- `FanOutBounded`: see *rate limit* in section 3.
- `MonitorForward`, `MonitorOnce`: *lost cursor*. A wallet that is removed and
  added again starts five minutes back, and a crash or a failed save between a
  batch and its cursor has the batch handed over again.
- `StopOnce`, `StopKept`: `EXV_trailing` shows that a second tenant lowers a stop;
  for the second trigger see *inherited rules* in section 3.
- `BlocksStand`: as `GateKept`. A second cycle with JSON files, retention, and the cleanup
  on start each lift a block (*lost update*, *retention*, `CTV_forever`).
- `AnsweredAtOnce`: once a window has refused a tenant and the timer is armed,
  several requests may be eligible at once, and *forgotten request* of section 3
  is a counterexample.

### How the proofs are laid out

Each inductive invariant is a conjunction of named parts, with one lemma per
action or group of actions. Where a lemma must speak of the next state as it
does of this one, the invariant takes the state as arguments (`LocalsSound(label,
j, t)`, `StopOk(m, S, F, R)`). `FoldFacts` has the only inductions over data: a
set whose members have a property hereditarily is taken apart at a minimal
counterexample (`WFMin` and the well-foundedness of `<` on `Nat`, first-order
facts about sets), because the library's induction rules take an operator as
a parameter, which the provers cannot instantiate.

### Model-checked only

- Liveness (`HandlerReturns`, `RequestsAnswered`, `CursorCatchesUp` and those of
  the `PS_` runs): no prover for fairness and ENABLED.
- `NeverUnblocked` with JSON files, crashes and failed saves at any await
  (`PS_records`): the theorem is about the undisturbed cycle.
- Nothing holds of `NoRequestForgotten` after the timer was armed: it is false of
  two tenants then. `PS_trading` checks it of the three tenants that never fill
  a window, which is the case of `AnsweredAtOnce`.
- What no theorem can say, because a run refutes it: the properties of the four
  `CTV_`, `EXV_` and `PMV_` runs, the first of them outside the hypotheses of
  `BlockedWhileLive`.

## 5. Plan

The plan is carried out. In the order of the work: the core (`NoRepeatLedger`,
`Exchange`, `CopyTrader`, `NoRepeatGate`), the rate limiter with `PermitPool`,
`WalletMonitor`, `ExitAutomation`, `PositionLifecycle`, `AllocationPolicy`,
`PositionMirror`, `PerformanceTracker`, `BotLifecycle`, `DiscoveryV3`,
`TradingWallets`. Every invariant and action property that a passing run checks
is a theorem of section 4, under the hypotheses given there; the liveness
properties are left to TLC.

If the code changes, begin with the row of section 2 that names the lines, run
the configuration of that component, and check its module of proofs: a lemma is
about one action, so the one that fails names the action that the change
affects.

## 6. Not modelled, and why

- In `CopyTrader`: prices, sizes, percentages, thresholds and rounding: each
  filter is a nondeterministic "may leave here", so the properties hold whatever
  it decides.
- Authentication, sessions, administration and analytics: request plumbing and
  read-only reports.
- Cryptography and signing. In `TradingWallets`: the key in `.env` and its
  migration to a wallet `main`, the migration of assignments to a corrected
  address, the lookup of proxies, `resolveExecutionTargetsForTrackedWallet`
  (a choice of targets: `TargetsOf` of `CopyTrader` is arbitrary), and the
  limit of 64 cached clients. The flag `hasCredentials`, labels and `isActive`
  are left out, their saves are not.
- Discovery's scoring and its earlier versions: arithmetic and SQL. The web
  process runs the manager passively (`server.ts` 115); the Goldsky listener is
  off by default.
- Cross-platform trading: two awaited calls in sequence, whose partial failure
  is reported and left to the user; `autoRetry` and `maxRetries` are read by
  nothing.
- Entities, jungle agents, statistics, histories of balances, the pages: kept
  or computed for display.
- The number of HTTP posts per permit: the retry after a signature error posts a
  second time on one permit (`tradeExecutor.ts` 322) and `positionMirror.ts`
  posts without one, so the real rate may exceed the cap; the limiter counts
  permits.
- Torn JSON files other than the feed's: a crash in the middle of a write. The
  models of the other files crash between steps only.
