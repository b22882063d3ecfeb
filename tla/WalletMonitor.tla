--------------------------- MODULE WalletMonitor ---------------------------
(***************************************************************************)
(* walletMonitor.ts: polling cycles that fetch the recent trades of every  *)
(* active tracked wallet, hand the new ones to CopyTrader and move the     *)
(* wallet's cursor lastSeen, over the wallet list of storage.ts that the   *)
(* web routes rewrite meanwhile.                                           *)
(*                                                                         *)
(* A step is what the code does between two awaits.  CopyTrader's          *)
(* isRunning goes with isMonitoring: start and stop set both.              *)
(***************************************************************************)
EXTENDS Integers, FiniteSets

CONSTANTS
  Addresses,
  Cycles,         \* polling cycles that may be under way
  Requests,       \* requests to the wallet routes that may be under way
  PageSize, MaxPages,   \* of getUserTrades
  Fallback,       \* five minutes: where the cursor starts, and paging stops
  AtomicStorage,  \* SQLite backend: no I/O between load and save
  Events,         \* the optional events that may occur: a subset of EventKind
  Edits,          \* the wallet routes in use: a subset of EditKind
  MaxFills,       \* bound: fills of the tracked wallets in all
  MaxTime         \* bound: Tick stops here

\* delay: the API publishes fills with a delay; fetch, load, save: these throw;
\* unlikely: resolveMonitoringAddress finds no activity.
EventKind ==
  {"delay", "fetch", "load", "save", "unlikely", "crash", "reinitialize"}

\* edit: label, tags and trade configuration, which touch neither the switch
\* nor the cursor.
EditKind == {"add", "remove", "switch", "edit"}

ASSUME MonitorAssumption ==
  /\ PageSize \in Nat \ {0} /\ MaxPages \in Nat \ {0}
  /\ Fallback \in Nat \ {0}
  /\ AtomicStorage \in BOOLEAN
  /\ Events \subseteq EventKind /\ Edits \subseteq EditKind
  /\ MaxFills \in Nat /\ MaxTime \in Nat

VARIABLES
  now,
  fills,                 \* fills of the tracked wallets, see Fill
  wallets,               \* the tracked-wallet store
  isMonitoring,
  pollingInterval,       \* TRUE: an interval is set
  pollCycleInProgress,
  pc, cycle,             \* where each cycle is, its locals
  route,                 \* the request under way: empty or one EditJob
  deliveries             \* history: how often each fill was handed over, 2 for
                         \* twice or more

monitor == <<isMonitoring, pollingInterval, pollCycleInProgress>>
vars    == <<now, fills, wallets, monitor, pc, cycle, route, deliveries>>

Never == -1    \* lastSeen is not set

FillIds == 1 .. MaxFills

\* late: published after a fill of the same wallet with the same or a later
\* timestamp.
Publication == {"hidden", "in time", "late"}

Fill   == [wallet : Addresses, time : Nat, published : Publication]
Wallet == [address : Addresses, active : BOOLEAN, lastSeen : Nat \union {Never}]

\* old: the cycle of a monitor that reinitializeCredentials has replaced.
CycleType ==
  [todo : SUBSET Wallet, wallet : SUBSET Wallet, batch : SUBSET FillIds,
   cursorMs : Int, maxSeen : Int, snap : SUBSET Wallet,
   first : BOOLEAN, old : BOOLEAN]

NoCycle ==
  [todo |-> {}, wallet |-> {}, batch |-> {}, cursorMs |-> 0, maxSeen |-> 0,
   snap |-> {}, first |-> FALSE, old |-> FALSE]

EditJob == [kind : EditKind, address : Addresses, snap : SUBSET Wallet]

PC == {"idle", "load", "next", "fetch", "deliver", "seen", "save"}

At(c, label)   == pc[c] = label
Goto(c, label) == pc' = [pc EXCEPT ![c] = label]
SetCycle(c, j) == cycle' = [cycle EXCEPT ![c] = j]

\* With SQLite nothing runs between a load and its save.
StorageIdle ==
  AtomicStorage =>
    /\ \A c \in Cycles : ~At(c, "save")
    /\ \A r \in Requests : route[r] = {}

Init ==
  /\ now = 0
  /\ fills = [i \in {} |-> 0]
  /\ wallets = {[address |-> a, active |-> TRUE, lastSeen |-> Never]
                  : a \in Addresses}
  /\ isMonitoring = FALSE /\ pollingInterval = FALSE
  /\ pollCycleInProgress = FALSE
  /\ pc = [c \in Cycles |-> "idle"]
  /\ cycle = [c \in Cycles |-> NoCycle]
  /\ route = [r \in Requests |-> {}]
  /\ deliveries = [i \in FillIds |-> 0]

-----------------------------------------------------------------------------
(* Starting, stopping and the timer.                                       *)

\* Mutant: a cycle starts although one is under way.
RunPollingCycle_NoGuard(c, first) ==
  /\ At(c, "idle")
  /\ pollCycleInProgress' = TRUE
  /\ Goto(c, "load")
  /\ SetCycle(c, [NoCycle EXCEPT !.first = first])

\* runPollingCycle, as long as no cycle of this monitor is under way.
RunPollingCycle(c, first) ==
  /\ ~pollCycleInProgress /\ At(c, "idle")
  /\ pollCycleInProgress' = TRUE
  /\ Goto(c, "load")
  /\ SetCycle(c, [NoCycle EXCEPT !.first = first])

\* startMonitoring: the first cycle is awaited before the interval is set.
StartMonitoring(c) ==
  /\ ~isMonitoring
  /\ isMonitoring' = TRUE
  /\ RunPollingCycle(c, TRUE)
  /\ UNCHANGED <<now, fills, wallets, pollingInterval, route, deliveries>>

\* startMonitoring while a cycle from before the stop is still under way.
StartMonitoringLate ==
  /\ ~isMonitoring /\ pollCycleInProgress
  /\ isMonitoring' = TRUE /\ pollingInterval' = TRUE
  /\ UNCHANGED <<now, fills, wallets, pollCycleInProgress, pc, cycle, route,
                 deliveries>>

StopMonitoring ==
  /\ isMonitoring
  /\ isMonitoring' = FALSE /\ pollingInterval' = FALSE
  /\ UNCHANGED <<now, fills, wallets, pollCycleInProgress, pc, cycle, route,
                 deliveries>>

\* updateMonitoringInterval calls startPolling, even before the first cycle
\* has ended.
UpdateMonitoringInterval ==
  /\ isMonitoring /\ ~pollingInterval
  /\ pollingInterval' = TRUE
  /\ UNCHANGED <<now, fills, wallets, isMonitoring, pollCycleInProgress, pc,
                 cycle, route, deliveries>>

PollTimer(c) ==
  /\ isMonitoring /\ pollingInterval
  /\ RunPollingCycle(c, FALSE)
  /\ UNCHANGED <<now, fills, wallets, isMonitoring, pollingInterval, route,
                 deliveries>>

-----------------------------------------------------------------------------
(* One polling cycle: checkWalletsForTrades.                               *)

LoadWallets(c) ==
  /\ At(c, "load")
  /\ SetCycle(c, [cycle[c] EXCEPT !.todo = {w \in wallets : w.active}])
  /\ Goto(c, "next")
  /\ UNCHANGED <<now, fills, wallets, monitor, route, deliveries>>

\* The next wallet of the list as it was when the cycle began.
NextWallet(c) ==
  /\ At(c, "next")
  /\ \E w \in cycle[c].todo :
       SetCycle(c, [cycle[c] EXCEPT !.todo = @ \ {w}, !.wallet = {w}])
  /\ Goto(c, "fetch")
  /\ UNCHANGED <<now, fills, wallets, monitor, route, deliveries>>

EndWallet(c) ==
  /\ SetCycle(c, [cycle[c] EXCEPT !.wallet = {}, !.batch = {}, !.snap = {},
                                  !.cursorMs = 0, !.maxSeen = 0])
  /\ Goto(c, "next")

\* `continue`: the address has no activity, or resolving it threw.
SkipWallet(c) ==
  /\ "unlikely" \in Events /\ At(c, "fetch")
  /\ EndWallet(c)
  /\ UNCHANGED <<now, fills, wallets, monitor, route, deliveries>>

Published(a) ==
  {i \in DOMAIN fills : fills[i].wallet = a /\ fills[i].published # "hidden"}

Smaller(m, n) == IF m < n THEN m ELSE n

\* How many rows getUserTrades returns: whole pages, up to the first whose
\* oldest row is older than Fallback.
RowsRead(a) ==
  LET young == {i \in Published(a) : now - fills[i].time <= Fallback}
      pages == Smaller(MaxPages, Cardinality(young) \div PageSize + 1)
  IN  Smaller(Cardinality(Published(a)), pages * PageSize)

\* What getUserTrades may return: the newest rows, ties broken either way.
UserTrades(a) ==
  {rows \in SUBSET Published(a) :
     /\ Cardinality(rows) = RowsRead(a)
     /\ \A i \in rows, k \in Published(a) \ rows : fills[i].time >= fills[k].time}

CursorOf(w) == IF w.lastSeen = Never THEN now - Fallback ELSE w.lastSeen

\* Mutant: the cursor's own second is fetched again.
NewRows_OffByOne(rows, cursor) == {i \in rows : fills[i].time >= cursor}

NewRows(rows, cursor) == {i \in rows : fills[i].time > cursor}

\* Mutant: the cursor becomes the time of the fetch.
FetchTrades_Now(c) ==
  /\ At(c, "fetch")
  /\ \E w \in cycle[c].wallet : \E rows \in UserTrades(w.address) :
       SetCycle(c, [cycle[c] EXCEPT !.batch = NewRows(rows, CursorOf(w)),
                                    !.cursorMs = CursorOf(w),
                                    !.maxSeen = now])
  /\ Goto(c, "deliver")
  /\ UNCHANGED <<now, fills, wallets, monitor, route, deliveries>>

FetchTrades(c) ==
  /\ At(c, "fetch")
  /\ \E w \in cycle[c].wallet : \E rows \in UserTrades(w.address) :
       SetCycle(c, [cycle[c] EXCEPT !.batch = NewRows(rows, CursorOf(w)),
                                    !.cursorMs = CursorOf(w),
                                    !.maxSeen = CursorOf(w)])
  /\ Goto(c, "deliver")
  /\ UNCHANGED <<now, fills, wallets, monitor, route, deliveries>>

\* "Failed to fetch trade history": the cycle goes on without trades.
FetchFails(c) ==
  /\ "fetch" \in Events /\ At(c, "fetch")
  /\ EndWallet(c)
  /\ UNCHANGED <<now, fills, wallets, monitor, route, deliveries>>

Larger(m, n) == IF m < n THEN n ELSE m

\* Rows come newest first; the callback is awaited, and what it throws is
\* logged.  A stopped CopyTrader ignores the trade.  Fills stands for the rows
\* that parse; one that does not moves the cursor as well.
DeliverTrade(c) ==
  /\ At(c, "deliver")
  /\ \E i \in cycle[c].batch :
       /\ \A k \in cycle[c].batch : fills[i].time >= fills[k].time
       /\ SetCycle(c, [cycle[c] EXCEPT !.batch = @ \ {i},
                         !.maxSeen = Larger(@, fills[i].time)])
       /\ deliveries' = [deliveries EXCEPT ![i] = Smaller(2, @ + 1)]
  /\ UNCHANGED <<now, fills, wallets, monitor, pc, route>>

\* Mutant: the cursor is saved although nothing was new.
FinishBatch_Always(c) ==
  /\ At(c, "deliver") /\ cycle[c].batch = {}
  /\ Goto(c, "seen")
  /\ UNCHANGED <<now, fills, wallets, monitor, cycle, route, deliveries>>

\* All rows done: the cursor is saved if it moved.
FinishBatch(c) ==
  /\ At(c, "deliver") /\ cycle[c].batch = {}
  /\ IF cycle[c].maxSeen > cycle[c].cursorMs
       THEN Goto(c, "seen") /\ UNCHANGED cycle
       ELSE EndWallet(c)
  /\ UNCHANGED <<now, fills, wallets, monitor, route, deliveries>>

\* The records of one address in a wallet list.
Of(S, a) == {w \in S : w.address = a}

\* updateWalletLastSeen loads the whole list; a removed wallet is left alone.
LoadForLastSeen(c) ==
  /\ At(c, "seen")
  /\ \E w \in cycle[c].wallet :
       IF Of(wallets, w.address) = {} THEN EndWallet(c)
       ELSE /\ SetCycle(c, [cycle[c] EXCEPT !.snap = wallets])
            /\ Goto(c, "save")
  /\ UNCHANGED <<now, fills, wallets, monitor, route, deliveries>>

SaveLastSeen(c) ==
  /\ At(c, "save")
  /\ \E w \in cycle[c].wallet :
       wallets' = {IF v.address = w.address
                     THEN [v EXCEPT !.lastSeen = cycle[c].maxSeen] ELSE v
                   : v \in cycle[c].snap}
  /\ EndWallet(c)
  /\ UNCHANGED <<now, fills, monitor, route, deliveries>>

\* "Trade history not available": the cursor stays where it was.
SaveFails(c) ==
  /\ "save" \in Events /\ pc[c] \in {"seen", "save"}
  /\ EndWallet(c)
  /\ UNCHANGED <<now, fills, wallets, monitor, route, deliveries>>

\* Mutant: the flag is not reset.
EndCycle_NoReset(c) ==
  /\ At(c, "next") /\ cycle[c].todo = {}
  /\ pollingInterval' = (pollingInterval \/ cycle[c].first)
  /\ Goto(c, "idle") /\ SetCycle(c, NoCycle)
  /\ UNCHANGED <<now, fills, wallets, isMonitoring, pollCycleInProgress, route,
                 deliveries>>

\* The finally block, and startPolling after the first cycle, both on the
\* monitor of the cycle: a replaced monitor is not monitoring any more.
FinishCycle(c) ==
  /\ IF cycle[c].old THEN UNCHANGED <<pollCycleInProgress, pollingInterval>>
     ELSE /\ pollCycleInProgress' = FALSE
          /\ pollingInterval' = (pollingInterval \/ cycle[c].first)
  /\ Goto(c, "idle") /\ SetCycle(c, NoCycle)

EndCycle(c) ==
  /\ At(c, "next") /\ cycle[c].todo = {}
  /\ FinishCycle(c)
  /\ UNCHANGED <<now, fills, wallets, isMonitoring, route, deliveries>>

\* "Error in polling cycle": the wallet list could not be loaded.
LoadFails(c) ==
  /\ "load" \in Events /\ At(c, "load")
  /\ FinishCycle(c)
  /\ UNCHANGED <<now, fills, wallets, isMonitoring, route, deliveries>>

-----------------------------------------------------------------------------
(* The wallet routes: load the list, change it, save it.                   *)

RouteLoads(r, kind, a) ==
  /\ kind \in Edits /\ route[r] = {}
  /\ kind = "add" => Of(wallets, a) = {}
  /\ kind \in {"switch", "edit"} => Of(wallets, a) # {}
  /\ route' = [route EXCEPT ![r] =
                 {[kind |-> kind, address |-> a, snap |-> wallets]}]
  /\ UNCHANGED <<now, fills, wallets, monitor, pc, cycle, deliveries>>

\* The list that the request saves.  A new wallet is not active.
Edited(job) ==
  LET S == job.snap
      a == job.address
  IN  CASE job.kind = "add" ->
             S \union {[address |-> a, active |-> FALSE, lastSeen |-> Never]}
        [] job.kind = "remove" -> S \ Of(S, a)
        [] job.kind = "switch" ->
             {IF w.address = a THEN [w EXCEPT !.active = ~@] ELSE w : w \in S}
        [] OTHER -> S

RouteSaves(r) ==
  /\ \E job \in route[r] : wallets' = Edited(job)
  /\ route' = [route EXCEPT ![r] = {}]
  /\ UNCHANGED <<now, fills, monitor, pc, cycle, deliveries>>

\* The route answers with an error and leaves the list as it was.
RouteFails(r) ==
  /\ "save" \in Events /\ route[r] # {}
  /\ route' = [route EXCEPT ![r] = {}]
  /\ UNCHANGED <<now, fills, wallets, monitor, pc, cycle, deliveries>>

-----------------------------------------------------------------------------
(* The tracked wallets trade, the API publishes, time passes.              *)

\* A fill of the wallet a with this time would come too late for its order.
LateFor(a, time) == \E i \in Published(a) : fills[i].time >= time

Verdict(a, time) == IF LateFor(a, time) THEN "late" ELSE "in time"

Trade(a) ==
  LET i == Cardinality(DOMAIN fills) + 1
      published == IF "delay" \in Events THEN "hidden" ELSE Verdict(a, now)
  IN  /\ i <= MaxFills
      /\ fills' = [k \in DOMAIN fills \union {i} |->
                     IF k = i THEN [wallet |-> a, time |-> now,
                                    published |-> published]
                     ELSE fills[k]]
      /\ UNCHANGED <<now, wallets, monitor, pc, cycle, route, deliveries>>

Publish(i) ==
  /\ fills[i].published = "hidden"
  /\ fills' = [fills EXCEPT ![i].published =
                 Verdict(fills[i].wallet, fills[i].time)]
  /\ UNCHANGED <<now, wallets, monitor, pc, cycle, route, deliveries>>

Tick ==
  /\ now < MaxTime
  /\ now' = now + 1
  /\ UNCHANGED <<fills, wallets, monitor, pc, cycle, route, deliveries>>

\* The process dies; the store survives.
Restart ==
  /\ "crash" \in Events
  /\ isMonitoring' = FALSE /\ pollingInterval' = FALSE
  /\ pollCycleInProgress' = FALSE
  /\ pc' = [c \in Cycles |-> "idle"]
  /\ cycle' = [c \in Cycles |-> NoCycle]
  /\ route' = [r \in Requests |-> {}]
  /\ UNCHANGED <<now, fills, wallets, deliveries>>

\* CopyTrader.reinitializeCredentials stops this monitor and makes a new one;
\* a cycle under way goes on.
ReplaceMonitor ==
  /\ "reinitialize" \in Events
  /\ isMonitoring' = FALSE /\ pollingInterval' = FALSE
  /\ pollCycleInProgress' = FALSE
  /\ cycle' = [c \in Cycles |->
       IF At(c, "idle") THEN cycle[c] ELSE [cycle[c] EXCEPT !.old = TRUE]]
  /\ UNCHANGED <<now, fills, wallets, pc, route, deliveries>>

-----------------------------------------------------------------------------

CycleStep(c) ==
  \/ LoadWallets(c) \/ NextWallet(c) \/ SkipWallet(c)
  \/ FetchTrades(c) \/ FetchFails(c) \/ DeliverTrade(c) \/ FinishBatch(c)
  \/ LoadForLastSeen(c) \/ SaveLastSeen(c) \/ SaveFails(c)
  \/ EndCycle(c) \/ LoadFails(c)

Control ==
  \/ \E c \in Cycles : StartMonitoring(c) \/ PollTimer(c)
  \/ StartMonitoringLate \/ StopMonitoring \/ UpdateMonitoringInterval
  \/ Restart \/ ReplaceMonitor

Environment ==
  \/ Tick
  \/ \E a \in Addresses : Trade(a)
  \/ \E i \in DOMAIN fills : Publish(i)

RouteStep ==
  \E r \in Requests, kind \in EditKind, a \in Addresses : RouteLoads(r, kind, a)

Next ==
  \/ \E c \in Cycles : (StorageIdle \/ At(c, "save")) /\ CycleStep(c)
  \/ \E r \in Requests : RouteSaves(r) \/ RouteFails(r)
  \/ StorageIdle /\ (Control \/ Environment \/ RouteStep)

Spec == Init /\ [][Next]_vars

\* The wallet a is fetched and the answer arrives.
Fetches(a) ==
  \E c \in Cycles : FetchTrades(c) /\ \E w \in cycle[c].wallet : w.address = a

\* Every await is settled, the timer fires, and again and again the store can
\* be read and the Data API answers for each wallet.
FairSpec ==
  /\ Spec
  /\ \A c \in Cycles : WF_vars((StorageIdle \/ At(c, "save")) /\ CycleStep(c))
  /\ \A r \in Requests : WF_vars(RouteSaves(r))
  /\ WF_vars(StorageIdle /\ \E c \in Cycles : PollTimer(c))
  /\ SF_vars(StorageIdle /\ \E c \in Cycles : LoadWallets(c))
  /\ \A a \in Addresses : SF_vars(StorageIdle /\ Fetches(a))

-----------------------------------------------------------------------------
(* Properties.                                                             *)

\* The type of every variable.
TypeOK ==
  /\ now \in Nat
  /\ DOMAIN fills \subseteq FillIds
  /\ \A i \in DOMAIN fills : fills[i] \in Fill
  /\ wallets \subseteq Wallet
  /\ isMonitoring \in BOOLEAN /\ pollingInterval \in BOOLEAN
  /\ pollCycleInProgress \in BOOLEAN
  /\ pc \in [Cycles -> PC] /\ cycle \in [Cycles -> CycleType]
  /\ route \in [Requests -> SUBSET EditJob]
  /\ deliveries \in [FillIds -> 0 .. 2]

\* No fill is handed to CopyTrader twice, however cycles, stops, starts and
\* requests interleave.
DeliveredOnce == \A i \in FillIds : deliveries[i] <= 1

\* The cursor of a wallet never goes back while the wallet stays tracked.
CursorForward ==
  [][\A v \in wallets, w \in wallets' :
       v.address = w.address => v.lastSeen <= w.lastSeen]_vars

\* What a cursor that moves from v to w passes over.
PassedOver(v, w) ==
  {i \in Published(v.address) :
     CursorOf(v) < fills[i].time /\ fills[i].time <= w.lastSeen}

\* A row that getUserTrades may have left on a page it did not read.
OnUnreadPage(i) ==
  LET rank == Cardinality({k \in Published(fills[i].wallet) :
                             fills[k].time >= fills[i].time})
  IN  \/ rank > PageSize * MaxPages
      \/ rank > PageSize /\ now - fills[i].time > Fallback

\* The cursor passes over a fill only after handing it over, unless the fill
\* was published late or is on a page that was not read.
CursorSkipsNothing ==
  [][\A v \in wallets, w \in wallets' :
       v.address = w.address /\ v.lastSeen < w.lastSeen =>
         \A i \in PassedOver(v, w) :
           \/ deliveries[i] > 0
           \/ fills[i].published = "late"
           \/ OnUnreadPage(i)]_vars

Monitored(a) ==
  isMonitoring /\ \E w \in wallets : w.address = a /\ w.active

CaughtUp(a) ==
  \A w \in Of(wallets, a), i \in Published(a) : fills[i].time <= CursorOf(w)

\* A wallet that stays monitored is caught up with in the end.
CursorCatchesUp ==
  \A a \in Addresses : <>[]Monitored(a) => <>[]CaughtUp(a)

=============================================================================
