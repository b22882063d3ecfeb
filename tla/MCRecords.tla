----------------------------- MODULE MCRecords -----------------------------
(***************************************************************************)
(* Model checking, for safety, of five parts of the trading process: the   *)
(* CLOB rate limiter at its limits, the executed-positions ledger under    *)
(* crashes, the feed of executed trades, the mirror of a tracked wallet's  *)
(* positions, and the trading wallets and their keys.  They share no state *)
(* in these modules, so that interleaving them would add nothing: one is   *)
(* picked at first, the others stay in an initial state.                   *)
(***************************************************************************)
EXTENDS ClobRateLimiter, PerformanceTracker, TradingWallets, PositionMirror, TLC

CONSTANTS x1, x2, x3, w1, w2, k1, k2   \* records of trades, wallets, keys

VARIABLES
  part,                                       \* the part that runs
  time, isRunning, cycles, processedTrades, processedCompoundKeys,
  inFlightTrades, perWalletRateLimits, noRepeatPersistenceBlockedKeys,
  ledger, at, trade, copyJob, orders          \* CopyTrader

copyVars   == <<time, isRunning, cycles, processedTrades, processedCompoundKeys,
                inFlightTrades, perWalletRateLimits,
                noRepeatPersistenceBlockedKeys, ledger, at, trade, copyJob,
                orders>>

-----------------------------------------------------------------------------
(* The parts.                                                              *)

\* Two sides of one position share a key.
RecordSides == (x1 :> "BUY") @@ (x2 :> "SELL") @@ (x3 :> "BUY")
RecordKeys  == (x1 :> "yes") @@ (x2 :> "yes") @@ (x3 :> "no")

\* Three tokens at 50, 20 and 40 cents; both hold the first, one of them each
\* of the others.
Outcomes == {"yes", "no", "draw"}
Costs    == ("yes" :> 5) @@ ("no" :> 2) @@ ("draw" :> 4)
Shares(yes, no, draw) == ("yes" :> yes) @@ ("no" :> no) @@ ("draw" :> draw)
Whales   == {Shares(100, 100, 0), Shares(200, 0, 100), Shares(10, 300, 0)}
OwnShares == Shares(60, 0, 80)

\* JSON files.  A BUY by a wallet with no-repeat protection and one by a wallet
\* that has the safety minimum only, of the same position.
Buy(tx, w)  == [tx |-> tx, wallet |-> w, pos |-> "p", side |-> "BUY", window |-> 0]
BuysOfTwo   == {Buy("x1", "w1"), Buy("x2", "w2")}
OneTarget   == [w \in {"w1", "w2"} |-> {"t"}]
TwoTicks    == [w \in {"w1", "w2"} |-> IF w = "w1" THEN 2 ELSE 1]
NoWindow    == [v \in {} |-> 0]

Copy == INSTANCE CopyTrader WITH
  now <- time, pc <- at, job <- copyJob,
  Cycles <- {"c"}, FirstCycle <- "c", Positions <- {"p"},
  Wallets <- {"w1", "w2"}, Targets <- {"t"}, TxHashes <- {"x1", "x2"},
  Trades <- BuysOfTwo, TargetsOf <- OneTarget, NoRepeat <- {"w1"},
  PeriodOf <- TwoTicks, SafetyMinimum <- 1, TxTTL <- 2, KeyTTL <- 1,
  RateLimited <- {}, Windows <- {}, WindowLength <- NoWindow,
  WindowMax <- NoWindow, BookProbe <- "t", SizeProbe <- "t",
  AtomicStorage <- FALSE, DatabaseFlag <- TRUE, Events <- {"crash", "save"},
  RetentionAge <- 1, RetentionRows <- 2, MaxTime <- 2, MaxOrders <- 2,
  Holding <- 0, IndexLag <- FALSE

\* Two wallets and one tracked wallet, with JSON files, and hosted.  At first
\* one wallet has been added; hosted, none or both.
JustOne   == {<<Entry(w1, k1)>>}
NoneOrTwo == {<<>>, <<Entry(w1, k1), Entry(w2, k2)>>}

HostedWallets == INSTANCE TradingWallets WITH
  Earlier <- NoneOrTwo, Hosted <- TRUE, AtomicStorage <- TRUE,
  Events <- {"crash", "save"}

ASSUME HostedWallets!WalletAssumption

-----------------------------------------------------------------------------

PartsInit ==
  /\ part \in {"limiter", "feed", "mirror", "copy", "wallets", "hosted"}
  /\ Init /\ TrackerInit /\ MirrorInit /\ Copy!Init
  /\ IF part = "wallets" THEN WalletInit ELSE HostedWallets!WalletInit
  /\ part # "mirror" => theirs = Shares(100, 100, 0) /\ weight = 0
  /\ part \notin {"wallets", "hosted"} => disk.list = <<>>

\* A step of a part, which leaves the others alone.
Limits(A)  == /\ part = "limiter" /\ A
              /\ UNCHANGED <<part, trackerVars, mirrorVars, copyVars, walletVars>>
Feeds(A)   == /\ part = "feed" /\ A
              /\ UNCHANGED <<part, vars, mirrorVars, copyVars, walletVars>>
Mirrors(A) == /\ part = "mirror" /\ A
              /\ UNCHANGED <<part, vars, trackerVars, copyVars, walletVars>>
Copies(A)  == /\ part = "copy" /\ A
              /\ UNCHANGED <<part, vars, trackerVars, mirrorVars, walletVars>>
Keeps(A)   == /\ part = "wallets" /\ A
              /\ UNCHANGED <<part, vars, trackerVars, mirrorVars, copyVars>>
Hosts(A)   == /\ part = "hosted" /\ A
              /\ UNCHANGED <<part, vars, trackerVars, mirrorVars, copyVars>>

LimiterNext ==
  \/ Limits(DispatchStep)
  \/ Limits(TimerFires)
  \/ Limits(Tick)
  \/ \E t \in Tenants : \/ Limits(Acquire(t))
                        \/ Limits(Release(t))

FeedNext ==
  \/ \E c \in Callers :
       \/ \E t \in Trades \union {Read} : Feeds(Call(c, t))
       \/ Feeds(ReadFile(c))
       \/ Feeds(Load(c))
       \/ Feeds(Loaded(c))
       \/ Feeds(OpenFile(c))
       \/ Feeds(WriteFile(c))
  \/ Feeds(LoadSync)
  \/ Feeds(Restart)
  \/ Feeds(ClockTicks)

MirrorMoves ==
  \/ Mirrors(ReadPositions)
  \/ Mirrors(ReadTotal)
  \/ Mirrors(ReadOwn)
  \/ Mirrors(ReadCash)
  \/ Mirrors(Finish)
  \/ Mirrors(TheyTrade)
  \/ \E picked \in SUBSET job.trades : Mirrors(Select(picked))
  \/ \E tr \in job.trades : \/ Mirrors(Place(tr))
                                  \/ Mirrors(PlaceFails(tr))
  \/ \E t \in Assets : Mirrors(CopyBuys(t))

CopyNext == Copies(Copy!Next)

WalletsNext ==
  \/ \E id \in Ids :
       \/ \E key \in PrivateKeys : Keeps(AddTradingWallet(id, key))
       \/ Keeps(RemoveTradingWallet(id))
       \/ Keeps(ToggleTradingWallet(id))
       \/ Keeps(UpdateBuilderCredentials(id))
       \/ \E a \in Addresses : \/ Keeps(AddCopyAssignment(a, id))
                               \/ Keeps(RemoveCopyAssignment(a, id))
       \/ Keeps(UseClient(id))
       \/ Keeps(EvictClient(id))
  \/ Keeps(OtherSetting)
  \/ Keeps(Reread)
  \/ Keeps(Unlock)
  \/ Keeps(RestartWallets)
  \/ \E r \in BagToSet(pending) :
       \/ Keeps(KeystoreMissing(r))
       \/ Keeps(KeystoreExists(r))
       \/ Keeps(KeystoreWritten(r))
       \/ Keeps(CredentialsWritten(r))
       \/ Keeps(CredentialsUpdated(r))
       \/ Keeps(UnlinkKeystore(r))
       \/ Keeps(DropWallet(r))
       \/ Keeps(SaveLoads(r))
       \/ Keeps(SaveFormats(r))
       \/ Keeps(SaveWrites(r))
       \/ Keeps(WriteFails(r))
       \/ Keeps(RereadEnds(r))
       \/ Keeps(UnlockFile(r))
       \/ Keeps(UnlockEnds(r))
       \/ Keeps(ClientReady(r))
       \/ Keeps(ClientFails(r))

HostedNext == Hosts(HostedWallets!WalletNext)

PartsNext ==
  LimiterNext \/ FeedNext \/ MirrorMoves \/ CopyNext \/ WalletsNext \/ HostedNext

PartsVars == <<part, vars, trackerVars, mirrorVars, copyVars, walletVars>>

PartsSpec == PartsInit /\ [][PartsNext]_PartsVars

-----------------------------------------------------------------------------
(* The properties of the parts: see the comments there.                    *)

\* CopyTrader: while time stands still, no block is lifted but a pending one
\* whose order has died.
NeverUnblocked == Copy!NeverUnblocked
=============================================================================
