--------------------------- MODULE ClobRateLimiter ---------------------------
(***************************************************************************)
(* clobRateLimiter.ts: the permits that tradeExecutor.ts takes before it   *)
(* posts an order, shared by all tenants of the process.                   *)
(*                                                                         *)
(* acquire, the release callback and the timer each run dispatch() to its  *)
(* end before anything else runs.  dispatch() calls itself after a grant   *)
(* and scans the tenants in a loop, so the model steps through it with a   *)
(* program counter: one step for each call of dispatch(), for each         *)
(* iteration of pickNextTenant() and for the outcome of a pick.            *)
(***************************************************************************)
EXTENDS Integers, Sequences, FiniteSets

CONSTANTS
  Tenants,
  BurstLimit, BurstWindow,
  SustainedLimit, SustainedWindow,
  MaxConcurrentPerTenant,
  MaxRequests      \* bound: requests made in all

ASSUME LimitAssumption ==
  /\ BurstLimit \in Nat \ {0} /\ SustainedLimit \in Nat \ {0}
  /\ BurstWindow \in Nat \ {0} /\ SustainedWindow \in Nat \ {0}
  /\ MaxConcurrentPerTenant \in Nat \ {0}
  /\ MaxRequests \in Nat

VARIABLES
  now,
  burstTimestamps, sustainedTimestamps,
  pendingByTenant,     \* length of each tenant's queue; 0 is no entry
  tenantOrder,
  inFlightByTenant,    \* 0 is no entry
  dispatchTimer,       \* when the timer is due, or NoTimer
  pc,                  \* "idle" between two events
  scanned,             \* the loop counter i of pickNextTenant
  requests,            \* history: requests made
  granted,             \* history: when each permit was granted
  overtaken            \* history: grants to others while a tenant could have
                       \* had one, since its own last grant

NoTimer == -1

queues  == <<pendingByTenant, inFlightByTenant>>
stamps  == <<burstTimestamps, sustainedTimestamps>>
history == <<requests, granted, overtaken>>
vars    == <<now, queues, stamps, tenantOrder, dispatchTimer, pc, scanned, history>>

-----------------------------------------------------------------------------

Init ==
  /\ now = 0
  /\ burstTimestamps = << >> /\ sustainedTimestamps = << >>
  /\ pendingByTenant = [t \in Tenants |-> 0]
  /\ tenantOrder = << >>
  /\ inFlightByTenant = [t \in Tenants |-> 0]
  /\ dispatchTimer = NoTimer
  /\ pc = "idle" /\ scanned = 0
  /\ requests = 0 /\ granted = << >>
  /\ overtaken = [t \in Tenants |-> 0]

\* The promise is queued; dispatch() is called in the same turn.
Acquire(t) ==
  /\ pc = "idle" /\ requests < MaxRequests
  /\ pendingByTenant' = [pendingByTenant EXCEPT ![t] = @ + 1]
  /\ tenantOrder' = IF \E k \in DOMAIN tenantOrder : tenantOrder[k] = t
                      THEN tenantOrder ELSE Append(tenantOrder, t)
  /\ requests' = requests + 1
  /\ pc' = "dispatch"
  /\ UNCHANGED <<now, inFlightByTenant, stamps, dispatchTimer, scanned,
                 granted, overtaken>>

\* Mutant: gives the slot back and does not look at who waits for it.
Release_NoDispatch(t) ==
  /\ pc = "idle" /\ inFlightByTenant[t] > 0
  /\ inFlightByTenant' = [inFlightByTenant EXCEPT ![t] = @ - 1]
  /\ UNCHANGED <<now, pendingByTenant, stamps, tenantOrder, dispatchTimer, pc,
                 scanned, history>>

\* Mutant: the callback is called again after the permit was given back, and
\* the count is not kept at zero.
Release_NoClamp(t) ==
  /\ pc = "idle"
  /\ inFlightByTenant' = [inFlightByTenant EXCEPT ![t] = @ - 1]
  /\ pc' = "dispatch"
  /\ UNCHANGED <<now, pendingByTenant, stamps, tenantOrder, dispatchTimer,
                 scanned, history>>

\* The callback that acquire resolved with; the caller's finally calls it once.
Release(t) ==
  /\ pc = "idle" /\ inFlightByTenant[t] > 0
  /\ inFlightByTenant' = [inFlightByTenant EXCEPT ![t] = @ - 1]
  /\ pc' = "dispatch"
  /\ UNCHANGED <<now, pendingByTenant, stamps, tenantOrder, dispatchTimer,
                 scanned, history>>

TimerFires ==
  /\ pc = "idle" /\ dispatchTimer # NoTimer /\ now >= dispatchTimer
  /\ dispatchTimer' = NoTimer
  /\ pc' = "dispatch"
  /\ UNCHANGED <<now, queues, stamps, tenantOrder, scanned, history>>

-----------------------------------------------------------------------------
(* dispatch().                                                             *)

\* A timer is armed: it will dispatch.
DispatchLater ==
  /\ pc = "dispatch" /\ dispatchTimer # NoTimer
  /\ pc' = "idle"
  /\ UNCHANGED <<now, queues, stamps, tenantOrder, dispatchTimer, scanned, history>>

\* q is what the loop of pruneTimestamps leaves of p: it shifts the first one
\* out until that one is younger than the window.
Pruned(p, q, window) ==
  \E k \in 0 .. Len(p) :
    /\ \A m \in 1 .. k : now - p[m] >= window
    /\ k < Len(p) => now - p[k + 1] < window
    /\ q = SubSeq(p, k + 1, Len(p))

\* What is left of p after some shifts.
Endings(p) == {SubSeq(p, k + 1, Len(p)) : k \in 0 .. Len(p)}

\* canGrant prunes again, at the same time: that changes nothing.
Dispatch ==
  /\ pc = "dispatch" /\ dispatchTimer = NoTimer
  /\ burstTimestamps' \in Endings(burstTimestamps)
  /\ Pruned(burstTimestamps, burstTimestamps', BurstWindow)
  /\ sustainedTimestamps' \in Endings(sustainedTimestamps)
  /\ Pruned(sustainedTimestamps, sustainedTimestamps', SustainedWindow)
  /\ pc' = "scan" /\ scanned' = 0
  /\ UNCHANGED <<now, queues, tenantOrder, dispatchTimer, history>>

\* pickNextTenant returns null: the loop compares i with the length that the
\* order has now, after what earlier iterations shifted out.
ScanEnds ==
  /\ pc = "scan" /\ scanned >= Len(tenantOrder)
  /\ pc' = "idle" /\ scanned' = 0
  /\ UNCHANGED <<now, queues, stamps, tenantOrder, dispatchTimer, history>>

\* A tenant with nothing queued is shifted out.
ScanDrops ==
  /\ pc = "scan" /\ scanned < Len(tenantOrder)
  /\ pendingByTenant[Head(tenantOrder)] = 0
  /\ tenantOrder' = Tail(tenantOrder)
  /\ scanned' = scanned + 1
  /\ UNCHANGED <<now, queues, stamps, dispatchTimer, pc, history>>

Rotated == Append(Tail(tenantOrder), Head(tenantOrder))

\* Mutant: a tenant at its limit is shifted out like one that has nothing.
ScanRotates_Drops ==
  /\ pc = "scan" /\ scanned < Len(tenantOrder)
  /\ pendingByTenant[Head(tenantOrder)] > 0
  /\ inFlightByTenant[Head(tenantOrder)] >= MaxConcurrentPerTenant
  /\ tenantOrder' = Tail(tenantOrder)
  /\ scanned' = scanned + 1
  /\ UNCHANGED <<now, queues, stamps, dispatchTimer, pc, history>>

\* A tenant at its limit goes to the back.
ScanRotates ==
  /\ pc = "scan" /\ scanned < Len(tenantOrder)
  /\ pendingByTenant[Head(tenantOrder)] > 0
  /\ inFlightByTenant[Head(tenantOrder)] >= MaxConcurrentPerTenant
  /\ tenantOrder' = Rotated
  /\ scanned' = scanned + 1
  /\ UNCHANGED <<now, queues, stamps, dispatchTimer, pc, history>>

\* Mutant: one permit too many.
ScanPicks_OffByOne ==
  /\ pc = "scan" /\ scanned < Len(tenantOrder)
  /\ pendingByTenant[Head(tenantOrder)] > 0
  /\ inFlightByTenant[Head(tenantOrder)] <= MaxConcurrentPerTenant
  /\ tenantOrder' = Rotated
  /\ pc' = "picked" /\ scanned' = 0
  /\ UNCHANGED <<now, queues, stamps, dispatchTimer, history>>

\* A tenant is picked, and goes to the back too.
ScanPicks ==
  /\ pc = "scan" /\ scanned < Len(tenantOrder)
  /\ pendingByTenant[Head(tenantOrder)] > 0
  /\ inFlightByTenant[Head(tenantOrder)] < MaxConcurrentPerTenant
  /\ tenantOrder' = Rotated
  /\ pc' = "picked" /\ scanned' = 0
  /\ UNCHANGED <<now, queues, stamps, dispatchTimer, history>>

\* Mutant: the limit itself is let through.
CanGrant_OffByOne ==
  /\ Len(burstTimestamps) <= BurstLimit
  /\ Len(sustainedTimestamps) <= SustainedLimit

CanGrant ==
  /\ Len(burstTimestamps) < BurstLimit
  /\ Len(sustainedTimestamps) < SustainedLimit

\* How long until a full window has room again.
WaitOf(p, limit, window) ==
  IF Len(p) >= limit THEN {window - (now - p[1])} ELSE {}

Waits == WaitOf(burstTimestamps, BurstLimit, BurstWindow)
           \union WaitOf(sustainedTimestamps, SustainedLimit, SustainedWindow)

\* scheduleNextDispatch: the picked tenant keeps its place at the back.
ScheduleNextDispatch ==
  /\ pc = "picked" /\ ~CanGrant
  /\ \E wait \in Waits :
       /\ \A other \in Waits : wait <= other
       /\ dispatchTimer' = now + wait
  /\ pc' = "idle"
  /\ UNCHANGED <<now, queues, stamps, tenantOrder, scanned, history>>

Picked == tenantOrder[Len(tenantOrder)]

\* u is not picked although it is waiting and below its own limit.
Passed(u) ==
  u # Picked /\ pendingByTenant[u] > 0 /\ inFlightByTenant[u] < MaxConcurrentPerTenant

\* The request is resolved, and dispatch() called again.
Grant ==
  /\ pc = "picked" /\ CanGrant
  /\ pendingByTenant' = [pendingByTenant EXCEPT ![Picked] = @ - 1]
  /\ inFlightByTenant' = [inFlightByTenant EXCEPT ![Picked] = @ + 1]
  /\ burstTimestamps' = Append(burstTimestamps, now)
  /\ sustainedTimestamps' = Append(sustainedTimestamps, now)
  /\ granted' = Append(granted, now)
  /\ overtaken' = [u \in Tenants |->
       IF u = Picked THEN 0
       ELSE IF Passed(u) THEN overtaken[u] + 1 ELSE overtaken[u]]
  /\ pc' = "dispatch"
  /\ UNCHANGED <<now, tenantOrder, dispatchTimer, scanned, requests>>

-----------------------------------------------------------------------------

\* Time matters as long as a grant is inside a window; after that nothing
\* changes with time, and stopping it keeps the state space finite.
TimeMatters ==
  /\ Len(granted) > 0
  /\ \/ now - granted[Len(granted)] < BurstWindow
     \/ now - granted[Len(granted)] < SustainedWindow

\* Each call of dispatch() reads the clock once.
Tick ==
  /\ pc \in {"idle", "dispatch"} /\ TimeMatters
  /\ now' = now + 1
  /\ UNCHANGED <<queues, stamps, tenantOrder, dispatchTimer, pc, scanned, history>>

DispatchStep ==
  \/ DispatchLater \/ Dispatch
  \/ ScanEnds \/ ScanDrops \/ ScanRotates \/ ScanPicks
  \/ ScheduleNextDispatch \/ Grant

Next ==
  \/ \E t \in Tenants : Acquire(t) \/ Release(t)
  \/ TimerFires \/ DispatchStep \/ Tick

Spec == Init /\ [][Next]_vars

\* The event loop runs what is due, time passes, and every caller releases in
\* its finally block.  Nobody has to ask for a permit.
FairSpec ==
  /\ Spec
  /\ WF_vars(DispatchStep) /\ WF_vars(TimerFires) /\ WF_vars(Tick)
  /\ \A t \in Tenants : WF_vars(Release(t))

-----------------------------------------------------------------------------
(* Properties.                                                             *)

PC == {"idle", "dispatch", "scan", "picked"}

\* The type of every variable.
TypeOK ==
  /\ now \in Nat
  /\ burstTimestamps \in Seq(Nat) /\ sustainedTimestamps \in Seq(Nat)
  /\ pendingByTenant \in [Tenants -> Nat]
  /\ tenantOrder \in Seq(Tenants)
  /\ inFlightByTenant \in [Tenants -> Nat]
  /\ dispatchTimer \in Nat \union {NoTimer}
  /\ pc \in PC /\ scanned \in Nat
  /\ requests \in Nat /\ granted \in Seq(Nat)
  /\ overtaken \in [Tenants -> Nat]

\* Any limit + 1 grants in a row span at least the window.
Spaced(limit, window) ==
  \A k \in DOMAIN granted :
    k + limit \in DOMAIN granted => granted[k + limit] - granted[k] >= window

\* "a global rate limiter (...) so the app never exceeds the API cap": no
\* sliding window of either length holds more grants than its limit.
WindowsRespected ==
  Spaced(BurstLimit, BurstWindow) /\ Spaced(SustainedLimit, SustainedWindow)

\* Between two events no request that the limits allow is left waiting
\* (clobRateLimiter.test.ts: "acquire grants immediately under the configured
\* limits").
HasRoom(p, limit, window) ==
  Cardinality({k \in DOMAIN p : now - p[k] < window}) < limit

NoRequestForgotten ==
  pc = "idle" /\ dispatchTimer = NoTimer
  /\ HasRoom(burstTimestamps, BurstLimit, BurstWindow)
  /\ HasRoom(sustainedTimestamps, SustainedLimit, SustainedWindow)
    => \A t \in Tenants :
         pendingByTenant[t] > 0 => inFlightByTenant[t] >= MaxConcurrentPerTenant

\* Round robin (hosted-multitenant-execution-plan.md 3b.2, "under load, every
\* active tenant gets a share"): a waiting tenant below its own limit is
\* overtaken at most once by each of the others.
RoundRobin == \A t \in Tenants : overtaken[t] < Cardinality(Tenants)

\* Whoever asks for a permit gets one in the end.
RequestsAnswered ==
  \A t \in Tenants : pendingByTenant[t] > 0 ~> pendingByTenant[t] = 0

\* The protocol of a permit pool, see PermitPool.
Pool == INSTANCE PermitPool WITH
  Windows <- {[limit |-> BurstLimit, length |-> BurstWindow],
              [limit |-> SustainedLimit, length |-> SustainedWindow]},
  Share   <- MaxConcurrentPerTenant,
  waiting <- pendingByTenant,
  held    <- inFlightByTenant

ImplementsPool == Pool!Spec

=============================================================================
