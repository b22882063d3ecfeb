----------------------------- MODULE MCTrading -----------------------------
(***************************************************************************)
(* Model checking of parts of the trading process: the allocation policy,  *)
(* the exit rules, the redemption of winnings, and the CLOB rate limiter   *)
(* with one tenant and with three.  They share no state in these modules,  *)
(* so that interleaving them would add nothing: one is picked at first,    *)
(* the others stay in an initial state.                                    *)
(***************************************************************************)
EXTENDS AllocationPolicy, PositionLifecycle, TLC

CONSTANTS
  t1, t2, t3,       \* tenants of the limiter
  req1, req2, mkt   \* requests of the life cycle, a market

VARIABLES
  part,                                       \* the part that runs
  price, lm, sm, disk, saves, running, enabled, boot, tick, begun, handlers,
  sold, fired, raised, restarts, ruleEdits,         \* ExitAutomation
  now, burstTimestamps, sustainedTimestamps, pendingByTenant, tenantOrder,
  inFlightByTenant, dispatchTimer, pc, scanned, requests, granted,
  overtaken                                   \* ClobRateLimiter

exitVars   == <<price, lm, sm, disk, saves, running, enabled, boot, tick,
                begun, handlers, sold, fired, raised, restarts, ruleEdits>>
limiterVars == <<now, burstTimestamps, sustainedTimestamps, pendingByTenant,
                 tenantOrder, inFlightByTenant, dispatchTimer, pc, scanned,
                 requests, granted, overtaken>>

-----------------------------------------------------------------------------
(* The parts.                                                              *)

\* What discovery says: a wallet to copy at once, one between the thresholds,
\* one that is hard to trust.
Says(discovery, trust, copyability, bucket) ==
  [discovery |-> discovery, trust |-> trust, copyability |-> copyability,
   bucket |-> bucket, suspicious |-> FALSE]
ThreeInputs == {Says(90, 80, 80, "high"), Says(53, 55, 55, "medium"),
                Says(60, 30, 60, "medium")}

\* Thresholds in order, and two configurations in which a state is left above
\* the score it is entered at: CONSISTENT between 55 and 70, HOT_STREAK between
\* 78 and 95.  The second wallet scores 57, the first 93.
AnyOrder ==
  {DEFAULT_CONFIG,
   [DEFAULT_CONFIG EXCEPT !.consistentEnter = 55, !.consistentExit = 70,
                          !.hotExit = 60],
   [DEFAULT_CONFIG EXCEPT !.consistentEnter = 58, !.hotExit = 95]}

\* One token; a ladder of two steps that sell half of 4 units, and a stop-loss
\* order: entry at 20, floor at 10, trail 25 percent, profit lock at 35.
OfToken   == ("l" :> "k") @@ ("s" :> "k")
TwoSteps  == "l" :> <<[trigger |-> 30, percent |-> 50],
                      [trigger |-> 40, percent |-> 50]>>
FourUnits == ("l" :> 4) @@ ("s" :> 4)
EntryAt   == "s" :> 20
FloorAt   == "s" :> 10
TrailBy   == "s" :> 25
LockAfter == "s" :> 15

Exits == INSTANCE ExitAutomation WITH
  Tenants <- {"t"}, Hosted <- TRUE, AtomicStorage <- TRUE,
  Tokens <- {"k"}, Prices <- {10, 40}, Ladders <- {"l"}, Stops <- {"s"},
  TokenOf <- OfToken, Plan <- TwoSteps, Shares <- FourUnits, Entry <- EntryAt,
  InitialStop <- FloorAt, Trail <- TrailBy, LockThreshold <- LockAfter,
  Earlier <- {{"l", "s"}}, Ticks <- {"i"},
  Events <- {"trade", "fetch", "monitor"},
  MaxBusy <- 1, MaxRestarts <- 0, MaxEdits <- 1, edits <- ruleEdits

\* One market, two shares of one outcome and one of the other.
TwoAndOne == [t \in Tokens |-> IF t[2] = "yes" THEN 2 ELSE 1]

Three == {t1, t2, t3}

\* A tenant that fills both windows.
One == INSTANCE ClobRateLimiter WITH
  Tenants <- {t1}, BurstLimit <- 2, BurstWindow <- 2, SustainedLimit <- 3,
  SustainedWindow <- 4, MaxConcurrentPerTenant <- 2, MaxRequests <- 4

\* Three tenants below the limits of the windows, one permit each.
Many == INSTANCE ClobRateLimiter WITH
  Tenants <- Three, BurstLimit <- 9, BurstWindow <- 1, SustainedLimit <- 9,
  SustainedWindow <- 1, MaxConcurrentPerTenant <- 1, MaxRequests <- 4

-----------------------------------------------------------------------------

PartsInit ==
  /\ part \in {"policy", "exits", "redeem", "one", "many"}
  /\ Init /\ Exits!Init /\ LifecycleInit
  /\ part # "exits" => price["k"] = 10 /\ \A s \in disk["t"].ladders : ~s.live
  /\ IF part = "redeem" THEN \A c \in stored : c.redeem ELSE stored = {}
  /\ IF part = "many" THEN Many!Init ELSE One!Init

Policy  == part = "policy" /\ UNCHANGED <<part, exitVars, lifecycleVars, limiterVars>>
Rules   == part = "exits" /\ UNCHANGED <<part, policyVars, lifecycleVars, limiterVars>>
Redeems == part = "redeem" /\ UNCHANGED <<part, policyVars, exitVars, limiterVars>>
Alone   == part = "one" /\ UNCHANGED <<part, policyVars, exitVars, lifecycleVars>>
Crowd   == part = "many" /\ UNCHANGED <<part, policyVars, exitVars, lifecycleVars>>

PolicyNext ==
  \/ \E e \in Evaluators : \/ Policy /\ Load(e)
                           \/ Policy /\ PersistState(e)
                           \/ Policy /\ PersistTransition(e)
                           \/ Policy /\ Die(e)
  \/ \E i \in Inputs : Policy /\ Discover(i)
  \/ \E c \in Configs : Policy /\ UpdateConfig(c)

PriceMoves   == Rules /\ \E p \in {10, 40} : Exits!PriceMoves("k", p)
TickStarts   == Rules /\ Exits!TickStarts("i")
FetchPrice   == Rules /\ Exits!FetchPrice("i", "k")
FetchFails   == Rules /\ Exits!FetchFails("i", "k")
TickSyncs    == Rules /\ Exits!TickSyncs("i")
TickChecks   == Rules /\ Exits!TickChecks("i")
HandlerGoes  == Rules /\ \E h \in begun : Exits!Begins(h)
SaveGoes     == Rules /\ \E j \in DOMAIN saves :
                           Exits!SaveLoads(j) \/ Exits!SaveWrites(j)
Returns(rule, success) ==
  Rules /\ \E h \in DOMAIN handlers :
             h.rule = rule /\ Exits!HandlerReturns(h, success)
CancelLadder == Rules /\ Exits!CancelLadder("t", "l")
CancelStop   == Rules /\ Exits!CancelStopLoss("t", "s")
SetLiveMode  == Rules /\ \E live \in BOOLEAN : Exits!SetLiveMode("t", live)
StartMonitor == Rules /\ Exits!StartMonitor
StopMonitor  == Rules /\ Exits!StopMonitor
Configure    == Rules /\ \E on \in BOOLEAN : Exits!ConfigureMonitor(on)
SetDefaults  == Rules /\ Exits!ConfigureStops("t")
AutoStart    == Rules /\ Exits!AutoStart
AnyRequest   == Rules /\ Exits!Request("t")

ExitNext ==
  \/ PriceMoves \/ TickStarts \/ FetchPrice \/ FetchFails
  \/ TickSyncs \/ TickChecks \/ HandlerGoes \/ SaveGoes
  \/ \E rule \in {"l", "s"}, success \in BOOLEAN : Returns(rule, success)
  \/ CancelLadder \/ CancelStop
  \/ SetLiveMode \/ SetDefaults
  \/ StartMonitor \/ StopMonitor \/ Configure \/ AutoStart \/ AnyRequest

Reindexes     == Redeems /\ Reindex
IntervalTicks == Redeems /\ Tick
LoadConf(c)   == Redeems /\ LoadConfig(c)
SaveConf(c)   == Redeems /\ SaveConfig(c)
ConfUpdated(c) == Redeems /\ Updated(c)
Lists(r)      == Redeems /\ ListRedeemable(r)
ListsMerges(r) == Redeems /\ ListMergeable(r)
TakesNext(r)  == Redeems /\ NextEntry(r)
IsMined(r)    == Redeems /\ Mined(r)
IsAnswered(r) == Redeems /\ Answered(r)

RedeemNext ==
  \/ \E c \in Conditions : Redeems /\ Resolve(c)
  \/ Reindexes \/ IntervalTicks
  \/ Redeems /\ Stop
  \/ Redeems /\ Unlock
  \/ Redeems /\ Restart
  \/ \E auto \in BOOLEAN : Redeems /\ Request(auto)
  \/ \E c \in Calls : \/ LoadConf(c) \/ SaveConf(c) \/ ConfUpdated(c)
                      \/ Redeems /\ Start(c)
                      \/ \E new \in Switches :
                           Redeems /\ UpdateLifecycleConfig(c, new)
  \/ \E e \in BagToSet(late) : Redeems /\ MinedLate(e)
  \/ \E r \in Runs : \/ Lists(r) \/ ListsMerges(r) \/ TakesNext(r)
                     \/ IsMined(r) \/ IsAnswered(r)
                     \/ Redeems /\ ListFails(r)
                     \/ Redeems /\ RelayFails(r)

OneDispatches  == Alone /\ One!DispatchStep
OneTimer       == Alone /\ One!TimerFires
OneTick        == Alone /\ One!Tick
OneReleases    == Alone /\ One!Release(t1)
ManyDispatches == Crowd /\ Many!DispatchStep
ManyTick       == Crowd /\ Many!Tick
Releases(t)    == Crowd /\ Many!Release(t)

\* The timer is never armed where the windows do not bind.
LimiterNext ==
  \/ Alone /\ One!Acquire(t1)
  \/ OneDispatches \/ OneTimer \/ OneTick \/ OneReleases
  \/ \E t \in Three : Crowd /\ Many!Acquire(t)
  \/ ManyDispatches \/ ManyTick
  \/ \E t \in Three : Releases(t)

\* The fairness of FairSpec of each module: as one part runs, the weak fairness
\* of a disjunction over parts is that of each.
Evaluates(e) == Policy /\ (Load(e) \/ PersistState(e) \/ PersistTransition(e))
CallMoves(c) == LoadConf(c) \/ SaveConf(c) \/ ConfUpdated(c)
RunMoves     == \E r \in Runs : \/ Lists(r) \/ ListsMerges(r) \/ TakesNext(r)
                                \/ IsMined(r) \/ IsAnswered(r)
HandlerEnds  == \E rule \in {"l", "s"}, success \in BOOLEAN : Returns(rule, success)

PartsVars == <<part, policyVars, exitVars, lifecycleVars, limiterVars>>

PartsFair ==
  /\ \A e \in Evaluators : WF_PartsVars(Evaluates(e))
  /\ WF_PartsVars(TickStarts \/ Reindexes \/ OneDispatches \/ ManyDispatches)
  /\ WF_PartsVars(FetchPrice \/ FetchFails \/ IntervalTicks \/ OneTick \/ ManyTick)
  /\ WF_PartsVars(TickSyncs \/ TickChecks \/ CallMoves(req1) \/ OneReleases \/ Releases(t1))
  /\ WF_PartsVars(HandlerEnds \/ CallMoves(req2) \/ OneTimer \/ Releases(t2))
  /\ WF_PartsVars(RunMoves \/ HandlerGoes \/ Releases(t3))
  /\ WF_PartsVars(SaveGoes)
  /\ SF_PartsVars(FetchPrice) /\ SF_PartsVars(Returns("l", TRUE))

PartsSpec == PartsInit /\ PartsFair
               /\ [][PolicyNext \/ ExitNext \/ RedeemNext \/ LimiterNext]_PartsVars

-----------------------------------------------------------------------------
(* The properties of the parts: see the comments there.                    *)

\* ExitAutomation: a stop-loss order does not stay active for ever while the
\* monitor runs and the price is at or below its stop.
StopFires == Exits!StopFires

\* ExitAutomation: a ladder step whose sale fails is tried again, until it is
\* sold or no longer due.
StepRetried == Exits!StepRetried

\* ClobRateLimiter: between two events no request of the three tenants that the
\* limits allow is left waiting.
NoRequestForgotten == part = "many" => Many!NoRequestForgotten

Waiting(t) == t \in DOMAIN pendingByTenant /\ pendingByTenant[t] > 0

\* ClobRateLimiter: whoever asks for a permit gets one in the end, running into
\* the windows alone or sharing the limiter with two others.  (The tenants are
\* interchangeable: one stands for all.)
RequestsAnswered == Waiting(t1) ~> ~Waiting(t1)
=============================================================================
