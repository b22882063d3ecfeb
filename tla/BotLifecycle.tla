---------------------------- MODULE BotLifecycle ----------------------------
(***************************************************************************)
(* copyTradingSync.ts, start, stop and reinitializeCredentials of          *)
(* copyTrader.ts, and what they switch on and off: the wallet monitor, the *)
(* balance tracker and the CLOB heartbeat.  The stored preference decides; *)
(* start awaits a whole polling cycle, and stop may come at any await.     *)
(***************************************************************************)
EXTENDS Integers, FiniteSets

CONSTANTS
  Tenants,
  Modes,          \* configurations: see Mode
  Calls,          \* requests that may be under way together
  Events,         \* optional events: "fail", "reinitialize"
  MaxEdits, MaxReinits   \* bounds: requests, new sets of components

\* json: the preference is read with I/O in between; sqlite: without; hosted:
\* as sqlite, and start loads the wallets before it starts the monitor.
Mode == {"json", "sqlite", "hosted"}

ASSUME BotAssumption ==
  /\ Modes \subseteq Mode
  /\ Events \subseteq {"fail", "reinitialize"}
  /\ IsFiniteSet(Calls)
  /\ MaxEdits \in Nat /\ MaxReinits \in Nat

VARIABLES
  mode,
  enabled,    \* copyTradingEnabled of each tenant, "unset" before it is stored
  active,     \* has the tenant an active tracked wallet?
  forced,     \* COPY_TRADING_FORCE_DISABLED
  isRunning,  \* CopyTrader
  current,    \* which monitor and which balance tracker the copy trader holds
  monitor,    \* every WalletMonitor made so far
  tracker,    \* every BalanceTracker; live: the timers that fire
  heartbeat,  \* the interval of the heartbeat manager is set
  call,       \* each request: at which await it stands, and on which component
  toggled,    \* history: a wallet was switched since the last sync
  failed,     \* history: a start threw since the last stop
  edits

prefs  == <<mode, enabled, active, forced>>
parts  == <<current, monitor, tracker, heartbeat, failed>>
botVars   == <<prefs, isRunning, parts, call, toggled, edits>>

Boot    == "boot"           \* the start of the process, as a call
Callers == Calls \union {Boot}
Gen     == 0 .. MaxReinits

At   == {"idle", "boot", "set", "flag", "wallets", "prepare", "cycle", "list",
         "record", "reload", "connect", "balances"}
Idle == [pc |-> "idle", gen |-> 0, on |-> FALSE]

\* A call waits at p for component g.
WaitAt(c, p, g) == call' = [call EXCEPT ![c].pc = p, ![c].gen = g]
Return(c)       == call' = [call EXCEPT ![c] = Idle]

BotInit ==
  /\ mode \in Modes
  /\ enabled \in [Tenants -> {"unset", "on", "off"}]
  /\ active \in [Tenants -> BOOLEAN]
  /\ forced \in BOOLEAN
  /\ isRunning = FALSE
  /\ current = [monitor |-> 0, tracker |-> 0]
  /\ monitor = [g \in Gen |->
                  [monitoring |-> FALSE, timer |-> FALSE, cycle |-> "none"]]
  /\ tracker = [g \in Gen |->
                  [tracking |-> FALSE, handle |-> FALSE, live |-> 0]]
  /\ heartbeat = FALSE
  /\ call = [c \in Callers |-> IF c = Boot THEN [Idle EXCEPT !.pc = "boot"]
                               ELSE Idle]
  /\ toggled = FALSE /\ failed = FALSE /\ edits = 0

-----------------------------------------------------------------------------
(* start and stop of the copy trader.                                      *)

\* startMonitoring: the first cycle, unless one is under way; then the timer.
BeginMonitoring(c) ==
  LET g == current.monitor IN
  IF monitor[g].cycle = "none"
  THEN /\ monitor' = [monitor EXCEPT ![g].monitoring = TRUE, ![g].cycle = c]
       /\ WaitAt(c, "cycle", g)
  ELSE /\ monitor' = [monitor EXCEPT ![g].monitoring = TRUE, ![g].timer = TRUE]
       /\ WaitAt(c, "list", g)

\* start, up to its first await.
StartBot(c) ==
  /\ isRunning' = TRUE
  /\ IF isRunning
     THEN Return(c) /\ UNCHANGED monitor
     ELSE IF mode = "hosted" /\ c # Boot
     THEN WaitAt(c, "prepare", 0) /\ UNCHANGED monitor
     ELSE BeginMonitoring(c)
  /\ UNCHANGED <<current, tracker, heartbeat, failed>>

\* stopTracking: the timer it knows of.
StopTracking(t) == [tracking |-> FALSE, handle |-> FALSE,
                    live |-> IF t.handle THEN t.live - 1 ELSE t.live]

StopParts ==
  IF isRunning
  THEN /\ isRunning' = FALSE
       /\ monitor' = [monitor EXCEPT ![current.monitor].monitoring = FALSE,
                                     ![current.monitor].timer = FALSE]
       /\ tracker' = [tracker EXCEPT ![current.tracker] = StopTracking(@)]
       /\ heartbeat' = FALSE /\ failed' = FALSE
       /\ UNCHANGED current
  ELSE UNCHANGED <<isRunning, parts>>

\* Mutant: any tenant that enabled copying and any that has an active wallet.
Wanted_AnyTwo(e) == /\ \E t \in Tenants : e[t] = "on"
                    /\ \E t \in Tenants : active[t]

\* anyTenantWantsCopyTrading.
Wanted(e) == \E t \in Tenants : e[t] = "on" /\ active[t]

Decide(c, wanted) ==
  /\ toggled' = FALSE
  /\ IF wanted THEN StartBot(c) ELSE StopParts /\ Return(c)

\* syncCopyTraderState, with preferences e.
Sync(c, e) ==
  IF mode = "json" /\ ~forced
  THEN /\ WaitAt(c, "flag", 0)
       /\ UNCHANGED <<isRunning, parts, toggled>>
  ELSE Decide(c, ~forced /\ Wanted(e))

\* JSON files: the flag is read, then the wallets.
ReadFlag(c) ==
  /\ call[c].pc = "flag"
  /\ IF \E t \in Tenants : enabled[t] = "on"
     THEN WaitAt(c, "wallets", 0) /\ UNCHANGED <<isRunning, parts, toggled>>
     ELSE Decide(c, FALSE)
  /\ UNCHANGED <<prefs, edits>>

ReadWallets(c) ==
  /\ call[c].pc = "wallets"
  /\ Decide(c, \E t \in Tenants : active[t])
  /\ UNCHANGED <<prefs, edits>>

\* The awaits of start, in their order.
Prepared(c) ==
  /\ call[c].pc = "prepare"
  /\ BeginMonitoring(c)
  /\ UNCHANGED <<prefs, isRunning, current, tracker, heartbeat, failed, toggled,
                 edits>>

CycleEnds(c) ==
  /\ call[c].pc = "cycle"
  /\ monitor' = [monitor EXCEPT ![call[c].gen].cycle = "none",
                                ![call[c].gen].timer = TRUE]
  /\ WaitAt(c, "list", call[c].gen)
  /\ UNCHANGED <<prefs, isRunning, current, tracker, heartbeat, failed, toggled,
                 edits>>

\* startClobHeartbeatManager, and start is over.
Finish(c) == heartbeat' = TRUE /\ Return(c)

\* Mutant: the heartbeat is for the wallets whose balances are tracked.
TrackBalances_NoWallet(c, some) ==
  LET g == current.tracker IN
  /\ call[c].pc = "list"
  /\ IF ~some
     THEN Return(c) /\ UNCHANGED <<tracker, heartbeat>>
     ELSE IF tracker[g].tracking
     THEN Finish(c) /\ UNCHANGED tracker
     ELSE /\ tracker' = [tracker EXCEPT ![g].tracking = TRUE]
          /\ WaitAt(c, "record", g) /\ UNCHANGED heartbeat
  /\ UNCHANGED <<prefs, isRunning, current, monitor, failed, toggled, edits>>

\* The wallets are listed; startTracking, if there is a wallet to track.
TrackBalances(c, some) ==
  LET g == current.tracker IN
  /\ call[c].pc = "list"
  /\ IF some /\ ~tracker[g].tracking
     THEN /\ tracker' = [tracker EXCEPT ![g].tracking = TRUE]
          /\ WaitAt(c, "record", g) /\ UNCHANGED heartbeat
     ELSE Finish(c) /\ UNCHANGED tracker
  /\ UNCHANGED <<prefs, isRunning, current, monitor, failed, toggled, edits>>

\* The first balances are recorded: set the timer, whatever happened meanwhile.
TimeBalances(c) ==
  /\ call[c].pc = "record"
  /\ tracker' = [tracker EXCEPT ![call[c].gen].handle = TRUE,
                                ![call[c].gen].live = @ + 1]
  /\ Finish(c)
  /\ UNCHANGED <<prefs, isRunning, current, monitor, failed, toggled, edits>>

\* Loading the wallets throws, and start with it.
StartFails(c) ==
  /\ "fail" \in Events
  /\ call[c].pc \in {"prepare", "list"}
  /\ Return(c)
  /\ failed' = isRunning
  /\ UNCHANGED <<prefs, isRunning, current, monitor, tracker, heartbeat,
                 toggled, edits>>

\* The timer of a monitor: one cycle at a time.
TimerCycle(g) ==
  /\ monitor[g].monitoring /\ monitor[g].timer /\ monitor[g].cycle = "none"
  /\ monitor' = [monitor EXCEPT ![g].cycle = "timer"]
  /\ UNCHANGED <<prefs, isRunning, current, tracker, heartbeat, failed, call,
                 toggled, edits>>

TimerCycleEnds(g) ==
  /\ monitor[g].cycle = "timer"
  /\ monitor' = [monitor EXCEPT ![g].cycle = "none"]
  /\ UNCHANGED <<prefs, isRunning, current, tracker, heartbeat, failed, call,
                 toggled, edits>>

-----------------------------------------------------------------------------
(* The callers.                                                            *)

Edit == edits < MaxEdits /\ edits' = edits + 1

\* index.ts: preferences that are missing become "on" where wallets are active.
BootSync ==
  /\ call[Boot].pc = "boot"
  /\ enabled' = [t \in Tenants |-> IF active[t] /\ enabled[t] = "unset"
                                   THEN "on" ELSE enabled[t]]
  /\ Sync(Boot, enabled')
  /\ UNCHANGED <<mode, active, forced, edits>>

\* The routes /start and /stop: store the preference, then sync.
SetEnabled(c, t, on) ==
  /\ call[c] = Idle /\ c # Boot
  /\ Edit
  /\ ~(on /\ forced)
  /\ IF mode # "json"
     THEN /\ enabled' = [enabled EXCEPT ![t] = IF on THEN "on" ELSE "off"]
          /\ Sync(c, enabled')
     ELSE /\ call' = [call EXCEPT ![c] = [Idle EXCEPT !.pc = "set", !.on = on]]
          /\ UNCHANGED <<enabled, isRunning, parts, toggled>>
  /\ UNCHANGED <<mode, active, forced>>

\* JSON files: the preference is saved.
SaveEnabled(c) ==
  /\ call[c].pc = "set"
  /\ enabled' = [t \in Tenants |-> IF call[c].on THEN "on" ELSE "off"]
  /\ Sync(c, enabled')
  /\ UNCHANGED <<mode, active, forced, edits>>

\* The wallet routes change the list and do not sync.
ToggleWallets(t) ==
  /\ Edit
  /\ active' = [active EXCEPT ![t] = ~@]
  /\ toggled' = TRUE
  /\ UNCHANGED <<mode, enabled, forced, isRunning, parts, call>>

MayReplace ==
  Cardinality({c \in Calls : call[c].pc = "reload"})
    + current.monitor < MaxReinits

\* reinitializeCredentials: stop, then make the components anew, one await
\* after the other.
Reinitialize(c) ==
  /\ "reinitialize" \in Events
  /\ call[c] = Idle /\ c # Boot
  /\ Edit /\ MayReplace
  /\ StopParts
  /\ WaitAt(c, "reload", 0)
  /\ UNCHANGED <<prefs, toggled>>

Replace(c, from, to, part) ==
  /\ call[c].pc = from
  /\ current' = [current EXCEPT ![part] = @ + 1]
  /\ WaitAt(c, to, 0)
  /\ UNCHANGED <<prefs, isRunning, monitor, tracker, heartbeat, failed, toggled,
                 edits>>

ReplaceMonitor(c) == Replace(c, "reload", "connect", "monitor")
ReplaceTracker(c) == Replace(c, "connect", "balances", "tracker")

\* The last await, or one that throws: sync with what there is.
Reinitialized(c) ==
  /\ \/ call[c].pc = "balances"
     \/ call[c].pc \in {"reload", "connect"} /\ "fail" \in Events
  /\ Sync(c, enabled)
  /\ UNCHANGED <<prefs, edits>>

Awaits(c) == \/ ReadFlag(c) \/ ReadWallets(c)
             \/ Prepared(c) \/ CycleEnds(c)
             \/ \E some \in BOOLEAN : TrackBalances(c, some)
             \/ TimeBalances(c)
             \/ SaveEnabled(c)
             \/ ReplaceMonitor(c) \/ ReplaceTracker(c) \/ Reinitialized(c)

BotNext ==
  \/ BootSync
  \/ \E c \in Callers : Awaits(c) \/ StartFails(c)
  \/ \E c \in Calls : \/ \E t \in Tenants, on \in BOOLEAN : SetEnabled(c, t, on)
                      \/ Reinitialize(c)
  \/ \E g \in Gen : TimerCycle(g) \/ TimerCycleEnds(g)
  \/ \E t \in Tenants : ToggleWallets(t)

BotSpec == BotInit /\ [][BotNext]_botVars

\* Every await settles, and the timers of the process fire.
FairBotSpec ==
  /\ BotSpec
  /\ WF_botVars(BootSync)
  /\ \A c \in Callers : WF_botVars(Awaits(c))
  /\ \A g \in Gen : WF_botVars(TimerCycle(g)) /\ WF_botVars(TimerCycleEnds(g))

-----------------------------------------------------------------------------
(* Properties.                                                             *)

BotTypeOK ==
  /\ enabled \in [Tenants -> {"unset", "on", "off"}]
  /\ active \in [Tenants -> BOOLEAN] /\ forced \in BOOLEAN
  /\ isRunning \in BOOLEAN /\ heartbeat \in BOOLEAN
  /\ mode \in Modes /\ toggled \in BOOLEAN /\ failed \in BOOLEAN
  /\ edits \in 0 .. MaxEdits
  /\ current \in [monitor : Gen, tracker : Gen]
  /\ monitor \in [Gen -> [monitoring : BOOLEAN, timer : BOOLEAN,
                          cycle : {"none", "timer"} \union Callers]]
  /\ tracker \in [Gen -> [tracking : BOOLEAN, handle : BOOLEAN, live : Nat]]
  /\ call \in [Callers -> [pc : At, gen : Gen, on : BOOLEAN]]

Deciding ==
  \E c \in Callers : call[c].pc \in {"boot", "set", "flag", "wallets",
                                     "reload", "connect", "balances"}

\* "Stop the bot (persist user preference + sync global monitor)"
\* (api/routes.ts:1347): when no request is about to decide and no wallet was
\* switched since the last one did, the bot runs exactly if a tenant that
\* enabled it has an active wallet.  (Not with JSON files, where /start may
\* read the preference, /stop store and apply its own, and /start go on.)
RunsAsPreferred ==
  mode # "json" /\ ~Deciding /\ ~toggled
    => (isRunning <=> ~forced /\ \E t \in Tenants : /\ enabled[t] = "on"
                                                    /\ active[t])

\* Whatever starts, stops and replacements overlap: a bot that goes on running
\* is polled for by some monitor and has its heartbeat, unless its start threw.
ComesToLife ==
  isRunning ~> \/ ~isRunning \/ failed
               \/ /\ heartbeat
                  /\ \E g \in Gen : monitor[g].timer /\ monitor[g].monitoring

\* "This reloads the private key and reinitializes all clients"
\* (copyTrader.ts:241): a monitor that was replaced polls no more, so that one
\* timer hands trades to the copy trader.
OnlyCurrentPolls ==
  \A g \in Gen : monitor[g].monitoring => g = current.monitor

\* "Keeps CLOB trading sessions alive while copy trading is running"
\* (clobHeartbeatManager.ts:2), and not after it was stopped.
HeartbeatStops ==
  (\A c \in Callers : call[c] = Idle) => (heartbeat => isRunning)

=============================================================================
