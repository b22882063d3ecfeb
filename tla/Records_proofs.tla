--------------------------- MODULE Records_proofs ----------------------------
(***************************************************************************)
(* Proofs about the rate limiter, the feed of trades and the trading       *)
(* wallets, components that MCRecords checks.                              *)
(***************************************************************************)
EXTENDS FoldFacts, ClobRateLimiter, PerformanceTracker, TradingWallets, SequenceTheorems

-----------------------------------------------------------------------------
(***************************************************************************)
(* ClobRateLimiter.                                                        *)
(*                                                                         *)
(* The limits of ClobRateLimiter for every number of tenants, every limit  *)
(* and every window, and its refinement of PermitPool.                     *)
(***************************************************************************)

(* The inductive invariant.                                                *)

\* Of the grants g, p holds the latest ones, and at time t every earlier one
\* has left the window.
Remembers(g, t, p, window) ==
  /\ Len(p) <= Len(g)
  /\ \A k \in 1 .. Len(p) : p[k] = g[Len(g) - Len(p) + k]
  /\ \A m \in 1 .. Len(g) - Len(p) : t - g[m] >= window

\* A picked tenant is at the back of the order and may be granted a permit.
PickSound ==
  pc = "picked" =>
    /\ Len(tenantOrder) > 0
    /\ pendingByTenant[Picked] > 0
    /\ inFlightByTenant[Picked] < MaxConcurrentPerTenant

LimiterInv ==
  /\ TypeOK
  /\ Remembers(granted, now, burstTimestamps, BurstWindow)
  /\ Remembers(granted, now, sustainedTimestamps, SustainedWindow)
  /\ PickSound
  /\ WindowsRespected

-----------------------------------------------------------------------------
(* The lists of timestamps.                                                *)

\* Pruning forgets only grants that have left the window.
LEMMA PruneRemembers ==
  ASSUME NEW p \in Seq(Nat), NEW q, NEW window \in Nat, NEW g \in Seq(Nat),
         now \in Nat, Remembers(g, now, p, window), Pruned(p, q, window)
  PROVE  q \in Seq(Nat) /\ Remembers(g, now, q, window)
<1>1. PICK k \in 0 .. Len(p) :
        /\ \A m \in 1 .. k : now - p[m] >= window
        /\ q = SubSeq(p, k + 1, Len(p))
  BY DEF Pruned
<1>2. /\ q \in Seq(Nat) /\ Len(q) = Len(p) - k
      /\ \A m \in 1 .. Len(q) : q[m] = p[k + m]
  BY SMTT(30), <1>1
<1>3. PICK d \in Nat : d = Len(g) - Len(p)
  <2>1. Len(g) \in Nat /\ Len(p) \in Nat /\ Len(p) <= Len(g)
    BY DEF Remembers
  <2>2. QED
    BY <2>1
<1>4. /\ d \in Nat /\ Len(p) \in Nat /\ Len(g) \in Nat /\ k \in Nat /\ Len(q) \in Nat
      /\ Len(q) = Len(p) - k /\ Len(g) - Len(q) = d + k /\ k <= Len(p)
  BY <1>2, <1>3
<1>5. ASSUME NEW m \in 1 .. Len(q) PROVE q[m] = g[Len(g) - Len(q) + m]
  <2>1. k + m \in 1 .. Len(p)
    BY <1>4
  <2>2. p[k + m] = g[d + (k + m)]
    BY <1>3, <2>1 DEF Remembers
  <2>3. m \in Int /\ Len(g) - Len(q) \in Int /\ d + (k + m) = (d + k) + m
    BY <1>4
  <2>4. QED
    BY <1>2, <1>4, <2>2, <2>3
<1>6. ASSUME NEW m \in 1 .. d + k PROVE now - g[m] >= window
  <2>1. CASE m <= d
    <3>1. m \in 1 .. d
      BY <1>4, <2>1
    <3>2. QED
      BY <1>3, <3>1 DEF Remembers
  <2>2. CASE m > d
    <3>1. m - d \in 1 .. k /\ m - d \in 1 .. Len(p) /\ d + (m - d) = m
      BY <1>4, <2>2
    <3>2. p[m - d] = g[d + (m - d)]
      BY <1>3, <3>1 DEF Remembers
    <3>3. QED
      BY <1>1, <3>1, <3>2
  <2>3. QED
    BY <1>4, <2>1, <2>2
<1>7. QED
  BY <1>2, <1>4, <1>5, <1>6 DEF Remembers

\* A grant made while the list is below its limit keeps the window, and is
\* remembered.
LEMMA GrantSpaced ==
  ASSUME NEW p \in Seq(Nat), NEW window \in Nat, NEW limit \in Nat \ {0},
         granted \in Seq(Nat), now \in Nat, Remembers(granted, now, p, window),
         Len(p) < limit, Spaced(limit, window),
         granted' = Append(granted, now), now' = now
  PROVE  /\ Spaced(limit, window)'
         /\ Len(granted) >= limit =>
              now - granted[Len(granted) - limit + 1] >= window
<1> DEFINE n == Len(granted)
<1>1. /\ n \in Nat /\ Len(p) \in Nat /\ DOMAIN granted = 1 .. n
      /\ DOMAIN granted' = 1 .. n + 1 /\ granted'[n + 1] = now
      /\ \A k \in 1 .. n : granted'[k] = granted[k] /\ granted[k] \in Nat
  OBVIOUS
<1>2. ASSUME NEW k \in 1 .. n, k + limit = n + 1 PROVE now - granted[k] >= window
  <2>1. k \in 1 .. n - Len(p)
    BY <1>1, <1>2
  <2>2. QED
    BY <2>1 DEF Remembers
<1>3. ASSUME NEW k \in DOMAIN granted', k + limit \in DOMAIN granted'
      PROVE  granted'[k + limit] - granted'[k] >= window
  <2>1. k \in 1 .. n
    BY <1>1, <1>3
  <2>2. CASE k + limit = n + 1
    BY <1>1, <1>2, <2>1, <2>2
  <2>3. CASE k + limit # n + 1
    <3>1. k + limit \in 1 .. n
      BY <1>1, <1>3, <2>3
    <3>2. granted[k + limit] - granted[k] >= window
      BY <1>1, <2>1, <3>1 DEF Spaced
    <3>3. QED
      BY <1>1, <2>1, <3>1, <3>2
  <2>4. QED
    BY <2>2, <2>3
<1>4. n >= limit => now - granted[n - limit + 1] >= window
  <2> SUFFICES ASSUME n >= limit PROVE now - granted[n - limit + 1] >= window
    OBVIOUS
  <2>1. n - limit + 1 \in 1 .. n /\ (n - limit + 1) + limit = n + 1
    BY <1>1
  <2>2. QED
    BY <1>2, <2>1
<1>5. QED
  BY <1>3, <1>4 DEF Spaced

\* A grant is the latest one of both lists.
LEMMA GrantRemembered ==
  ASSUME NEW p \in Seq(Nat), NEW window \in Nat, NEW g \in Seq(Nat),
         NEW t \in Nat, Remembers(g, t, p, window)
  PROVE  Remembers(Append(g, t), t, Append(p, t), window)
<1> DEFINE q == Append(p, t)
           h == Append(g, t)
<1>1. /\ Len(g) \in Nat /\ Len(p) \in Nat /\ Len(p) <= Len(g)
      /\ Len(h) = Len(g) + 1 /\ Len(q) = Len(p) + 1
  BY DEF Remembers
<1>2. /\ q[Len(p) + 1] = t /\ h[Len(g) + 1] = t
      /\ \A k \in 1 .. Len(g) : h[k] = g[k]
      /\ \A k \in 1 .. Len(p) : q[k] = p[k]
  OBVIOUS
<1> HIDE DEF q, h
<1>3. Len(h) - Len(q) = Len(g) - Len(p)
  BY <1>1
<1>4. ASSUME NEW k \in 1 .. Len(q) PROVE q[k] = h[Len(h) - Len(q) + k]
  <2>1. CASE k = Len(p) + 1
    <3>1. Len(h) - Len(q) + k = Len(g) + 1
      BY <1>1, <2>1
    <3>2. QED
      BY <1>2, <2>1, <3>1
  <2>2. CASE k \in 1 .. Len(p)
    <3>1. p[k] = g[Len(g) - Len(p) + k]
      BY <2>2 DEF Remembers
    <3>2. Len(g) - Len(p) + k \in 1 .. Len(g)
      BY <1>1, <2>2
    <3>3. QED
      BY <1>2, <1>3, <2>2, <3>1, <3>2
  <2>3. QED
    BY SMTT(30), <1>1, <2>1, <2>2
<1>5. ASSUME NEW m \in 1 .. Len(h) - Len(q) PROVE t - h[m] >= window
  <2>1. m \in 1 .. Len(g) - Len(p) /\ m \in 1 .. Len(g)
    BY <1>1, <1>3
  <2>2. QED
    BY <1>2, <2>1 DEF Remembers
<1>6. Remembers(h, t, q, window)
  BY <1>1, <1>4, <1>5 DEF Remembers
<1>7. QED
  BY <1>6 DEF q, h

-----------------------------------------------------------------------------
(* The steps.                                                              *)

\* A step that moves no list, grants nothing and leaves time alone keeps what
\* the invariant says of them.
LEMMA ListsKept ==
  ASSUME LimiterInv, UNCHANGED <<now, stamps, granted>>
  PROVE  /\ Remembers(granted, now, burstTimestamps, BurstWindow)'
         /\ Remembers(granted, now, sustainedTimestamps, SustainedWindow)'
         /\ WindowsRespected'
BY DEF LimiterInv, stamps, Remembers, WindowsRespected, Spaced

\* Asking, giving back and the timer: nothing is granted.
LEMMA EventKept ==
  ASSUME LimiterInv, TimerFires \/ \E t \in Tenants : Acquire(t) \/ Release(t)
  PROVE  LimiterInv'
<1> USE DEF queues, stamps, history
<1>0. TypeOK
  BY DEF LimiterInv
<1>1. UNCHANGED <<now, stamps, granted>>
  BY DEF Acquire, Release, TimerFires
<1>2. PickSound'
  BY <1>0 DEF Acquire, Release, TimerFires, PickSound, TypeOK
<1>3. ASSUME NEW t \in Tenants, Acquire(t) PROVE LimiterInv'
  <2>1. tenantOrder' \in Seq(Tenants)
    BY <1>0, <1>3 DEF Acquire, TypeOK
  <2>2. pendingByTenant' \in [Tenants -> Nat] /\ requests' \in Nat
    <3>1. /\ pendingByTenant' = [pendingByTenant EXCEPT ![t] = @ + 1]
          /\ requests' = requests + 1
      BY <1>3 DEF Acquire
    <3>2. pendingByTenant \in [Tenants -> Nat] /\ requests \in Nat
      BY <1>0 DEF TypeOK
    <3>3. QED
      BY <1>3, <3>1, <3>2
  <2>t. TypeOK'
    BY <1>0, <1>3, <2>1, <2>2 DEF Acquire, TypeOK, PC
  <2>3. QED
    BY <1>1, <1>2, <2>t, ListsKept DEF LimiterInv
<1>4. ASSUME NEW t \in Tenants, Release(t) PROVE LimiterInv'
  <2>1. TypeOK'
    BY <1>0, <1>4 DEF Release, TypeOK, PC
  <2>2. QED
    BY <1>1, <1>2, <2>1, ListsKept DEF LimiterInv
<1>5. CASE TimerFires
  <2>1. TypeOK'
    BY <1>0, <1>5 DEF TimerFires, TypeOK, PC, NoTimer
  <2>2. QED
    BY <1>1, <1>2, <2>1, ListsKept DEF LimiterInv
<1>6. QED
  BY <1>3, <1>4, <1>5

\* The call of dispatch() prunes both lists.
LEMMA DispatchKept ==
  ASSUME LimiterInv, Dispatch
  PROVE  LimiterInv'
<1> USE DEF queues, history
<1>0. TypeOK /\ BurstWindow \in Nat /\ SustainedWindow \in Nat
  BY LimitAssumption DEF LimiterInv
<1>1. /\ burstTimestamps' \in Seq(Nat)
      /\ Remembers(granted, now, burstTimestamps', BurstWindow)
  BY <1>0, PruneRemembers DEF LimiterInv, TypeOK, Dispatch
<1>2. /\ sustainedTimestamps' \in Seq(Nat)
      /\ Remembers(granted, now, sustainedTimestamps', SustainedWindow)
  BY <1>0, PruneRemembers DEF LimiterInv, TypeOK, Dispatch
<1>3. UNCHANGED <<now, queues, tenantOrder, dispatchTimer, requests, granted, overtaken>>
      /\ pc' = "scan" /\ scanned' = 0
  BY DEF Dispatch
<1>4. TypeOK'
  BY <1>0, <1>1, <1>2, <1>3 DEF TypeOK, PC
<1>5. WindowsRespected'
  BY <1>3 DEF LimiterInv, WindowsRespected, Spaced
<1>6. Remembers(granted, now, burstTimestamps, BurstWindow)'
  BY <1>1, <1>3 DEF Remembers
<1>7. Remembers(granted, now, sustainedTimestamps, SustainedWindow)'
  BY <1>2, <1>3 DEF Remembers
<1>8. PickSound'
  BY <1>3 DEF PickSound
<1>9. QED
  BY <1>4, <1>5, <1>6, <1>7, <1>8 DEF LimiterInv

\* The scan moves tenants around; whom it picks may be granted a permit.
LEMMA ScanKept ==
  ASSUME LimiterInv,
         DispatchLater \/ ScanEnds \/ ScanDrops \/ ScanRotates \/ ScanPicks
  PROVE  LimiterInv'
<1> USE DEF queues, stamps, history
<1>0. TypeOK /\ tenantOrder \in Seq(Tenants) /\ Len(tenantOrder) \in Nat
      /\ scanned \in Nat
  BY DEF LimiterInv, TypeOK
<1>1. UNCHANGED <<now, stamps, granted>>
  BY DEF DispatchLater, ScanEnds, ScanDrops, ScanRotates, ScanPicks
<1>2. ASSUME Len(tenantOrder) > 0
      PROVE  /\ Tail(tenantOrder) \in Seq(Tenants)
             /\ Rotated \in Seq(Tenants) /\ Len(Rotated) = Len(tenantOrder)
             /\ Rotated[Len(Rotated)] = Head(tenantOrder)
  <2>1. /\ Head(tenantOrder) \in Tenants /\ Tail(tenantOrder) \in Seq(Tenants)
        /\ Len(Tail(tenantOrder)) = Len(tenantOrder) - 1
    BY <1>0, <1>2
  <2>2. QED
    BY <1>0, <2>1 DEF Rotated
<1>3. CASE DispatchLater \/ ScanEnds
  <2>1. TypeOK' /\ PickSound'
    BY <1>0, <1>3 DEF DispatchLater, ScanEnds, TypeOK, PC, PickSound
  <2>2. QED
    BY <1>1, <2>1, ListsKept DEF LimiterInv
<1>4. CASE ScanDrops \/ ScanRotates
  <2>1. Len(tenantOrder) > 0
    BY <1>0, <1>4 DEF ScanDrops, ScanRotates
  <2>2. tenantOrder' \in Seq(Tenants)
    BY <1>2, <1>4, <2>1 DEF ScanDrops, ScanRotates
  <2>3. TypeOK'
    <3>1. scanned' = scanned + 1
      BY <1>4 DEF ScanDrops, ScanRotates
    <3>2. scanned' \in Nat
      BY <1>0, <3>1
    <3>3. QED
      BY <1>0, <1>4, <2>2, <3>2 DEF ScanDrops, ScanRotates, TypeOK
  <2>4. PickSound'
    BY <1>4 DEF ScanDrops, ScanRotates, PickSound
  <2>5. QED
    BY <1>1, <2>3, <2>4, ListsKept DEF LimiterInv
<1>5. CASE ScanPicks
  <2>1. Len(tenantOrder) > 0
    BY <1>0, <1>5 DEF ScanPicks
  <2>2. tenantOrder' \in Seq(Tenants) /\ Len(tenantOrder') > 0
        /\ Picked' = Head(tenantOrder)
    BY <1>2, <1>5, <2>1 DEF ScanPicks, Picked
  <2>3. TypeOK'
    BY <1>0, <1>5, <2>2 DEF ScanPicks, TypeOK, PC
  <2>4. PickSound'
    BY <1>5, <2>2 DEF ScanPicks, PickSound
  <2>5. QED
    BY <1>1, <2>3, <2>4, ListsKept DEF LimiterInv
<1>6. QED
  BY <1>3, <1>4, <1>5

\* A wait ends at a time.
LEMMA WaitsEnd ==
  ASSUME TypeOK
  PROVE  \A wait \in Waits : now + wait \in Nat
<1> SUFFICES ASSUME NEW wait \in Waits PROVE now + wait \in Nat
  OBVIOUS
<1>1. ASSUME NEW p \in Seq(Nat), NEW limit \in Nat \ {0}, NEW window \in Nat,
             wait \in WaitOf(p, limit, window)
      PROVE  now + wait \in Nat
  <2>1. p[1] \in Nat /\ wait = window - (now - p[1])
    BY <1>1 DEF WaitOf
  <2>2. QED
    BY SMTT(30), <2>1 DEF TypeOK
<1>2. QED
  BY <1>1, LimitAssumption DEF Waits, TypeOK

\* A full window arms the timer.
LEMMA ScheduleKept ==
  ASSUME LimiterInv, ScheduleNextDispatch
  PROVE  LimiterInv'
<1> USE DEF queues, stamps, history
<1>0. TypeOK
  BY DEF LimiterInv
<1>1. UNCHANGED <<now, stamps, granted>> /\ pc' = "idle"
  BY DEF ScheduleNextDispatch
<1>2. \A wait \in Waits : now + wait \in Nat
  BY <1>0, WaitsEnd
<1>3. TypeOK' /\ PickSound'
  BY <1>0, <1>1, <1>2 DEF ScheduleNextDispatch, TypeOK, PC, PickSound
<1>4. QED
  BY <1>1, <1>3, ListsKept DEF LimiterInv

\* A grant.
LEMMA GrantKept ==
  ASSUME LimiterInv, Grant
  PROVE  LimiterInv'
<1>0. TypeOK /\ LimiterInv
  BY DEF LimiterInv
<1>1. /\ Len(burstTimestamps) < BurstLimit
      /\ Len(sustainedTimestamps) < SustainedLimit
      /\ UNCHANGED <<now, tenantOrder, dispatchTimer, scanned, requests>>
      /\ granted' = Append(granted, now)
      /\ burstTimestamps' = Append(burstTimestamps, now)
      /\ sustainedTimestamps' = Append(sustainedTimestamps, now)
      /\ pc' = "dispatch"
  BY DEF Grant, CanGrant
<1>2. WindowsRespected'
  BY <1>0, <1>1, GrantSpaced, LimitAssumption DEF LimiterInv, TypeOK, WindowsRespected
<1>3. Remembers(granted, now, burstTimestamps, BurstWindow)'
  <2>1. Remembers(Append(granted, now), now, Append(burstTimestamps, now), BurstWindow)
    BY <1>0, GrantRemembered, LimitAssumption DEF LimiterInv, TypeOK
  <2>2. QED
    BY <1>1, <2>1 DEF Remembers
<1>4. Remembers(granted, now, sustainedTimestamps, SustainedWindow)'
  <2>1. Remembers(Append(granted, now), now, Append(sustainedTimestamps, now), SustainedWindow)
    BY <1>0, GrantRemembered, LimitAssumption DEF LimiterInv, TypeOK
  <2>2. QED
    BY <1>1, <2>1 DEF Remembers
<1>5. TypeOK'
  <2>1. Picked \in Tenants /\ pendingByTenant[Picked] > 0
    BY <1>0 DEF Grant, LimiterInv, PickSound, TypeOK, Picked
  <2>2. pendingByTenant' \in [Tenants -> Nat]
    BY SMTT(30), <1>0, <2>1 DEF Grant, TypeOK
  <2>3. inFlightByTenant' \in [Tenants -> Nat]
    BY <1>0, <2>1 DEF Grant, TypeOK
  <2>4. overtaken' \in [Tenants -> Nat]
    BY <1>0 DEF Grant, TypeOK
  <2>5. granted' \in Seq(Nat) /\ burstTimestamps' \in Seq(Nat)
        /\ sustainedTimestamps' \in Seq(Nat)
    BY <1>0, <1>1 DEF TypeOK
  <2>6. QED
    BY <1>0, <1>1, <2>2, <2>3, <2>4, <2>5 DEF TypeOK, PC
<1>6. PickSound'
  BY <1>1 DEF PickSound
<1>7. QED
  BY <1>2, <1>3, <1>4, <1>5, <1>6 DEF LimiterInv

\* Time passes: what has left a window stays out of it.
LEMMA TickKept ==
  ASSUME LimiterInv, Tick
  PROVE  LimiterInv'
<1> USE DEF queues, stamps, history
<1>0. TypeOK /\ now \in Nat /\ now' = now + 1
      /\ UNCHANGED <<burstTimestamps, sustainedTimestamps, granted>>
  BY DEF LimiterInv, TypeOK, Tick
<1>1. TypeOK'
  BY <1>0 DEF Tick, TypeOK
<1>2. PickSound' /\ WindowsRespected'
  BY DEF Tick, LimiterInv, PickSound, Picked, WindowsRespected, Spaced
<1>3. ASSUME NEW p \in Seq(Nat), NEW window \in Nat,
             Remembers(granted, now, p, window)
      PROVE  Remembers(granted, now', p, window)
  <2>1. \A m \in 1 .. Len(granted) - Len(p) : granted[m] \in Nat
    BY <1>0 DEF TypeOK
  <2>2. QED
    BY <1>0, <1>3, <2>1 DEF Remembers
<1>4. Remembers(granted, now', burstTimestamps, BurstWindow)
      /\ Remembers(granted, now', sustainedTimestamps, SustainedWindow)
  BY <1>3, LimitAssumption DEF LimiterInv, TypeOK
<1>5. /\ Remembers(granted, now, burstTimestamps, BurstWindow)'
      /\ Remembers(granted, now, sustainedTimestamps, SustainedWindow)'
  BY <1>0, <1>4 DEF Remembers
<1>6. QED
  BY <1>1, <1>2, <1>5 DEF LimiterInv

\* LimiterInv is inductive.
LEMMA LimiterStep ==
  ASSUME LimiterInv, [Next]_vars
  PROVE  LimiterInv'
<1>1. CASE UNCHANGED vars
  <2>1. TypeOK' /\ PickSound' /\ UNCHANGED <<now, stamps, granted>>
    BY <1>1 DEF vars, queues, stamps, history, LimiterInv, TypeOK, PickSound, Picked
  <2>2. QED
    BY <2>1, ListsKept DEF LimiterInv
<1>2. ASSUME NEW t \in Tenants, Acquire(t) \/ Release(t) PROVE LimiterInv'
  BY <1>2, EventKept
<1>3. CASE TimerFires
  BY <1>3, EventKept
<1>4. CASE DispatchStep
  BY <1>4, DispatchKept, ScanKept, ScheduleKept, GrantKept DEF DispatchStep
<1>5. CASE Tick
  BY <1>5, TickKept
<1>6. QED
  BY <1>1, <1>2, <1>3, <1>4, <1>5 DEF Next

\* LimiterInv holds at the start.
LEMMA LimiterInit ==
  ASSUME Init
  PROVE  LimiterInv
<1>1. TypeOK
  BY DEF Init, TypeOK, PC, NoTimer
<1>2. QED
  BY <1>1 DEF Init, LimiterInv, Remembers, PickSound, WindowsRespected, Spaced

\* Every variable keeps its type: no count goes below zero.
THEOREM LimiterType == Spec => []TypeOK
<1>1. LimiterInv => TypeOK
  BY DEF LimiterInv
<1>2. QED
  BY <1>1, LimiterInit, LimiterStep, PTL DEF Spec

\* No sliding window ever holds more grants than its limit, for any number of
\* tenants, any limits and any number of requests.
THEOREM WindowsSafe == Spec => []WindowsRespected
<1>1. LimiterInv => WindowsRespected
  BY DEF LimiterInv
<1>2. QED
  BY <1>1, LimiterInit, LimiterStep, PTL DEF Spec

-----------------------------------------------------------------------------
(* The refinement of PermitPool.                                           *)

\* A list below its limit leaves room for one more grant.
LEMMA RoomFits ==
  ASSUME NEW p \in Seq(Nat), NEW window \in Nat, NEW limit \in Nat \ {0},
         granted \in Seq(Nat), Remembers(granted, now, p, window),
         Len(p) < limit
  PROVE  Pool!Fits([limit |-> limit, length |-> window])
<1>1. Len(granted) \in Nat /\ Len(p) \in Nat
  OBVIOUS
<1>2. ASSUME Len(granted) >= limit
      PROVE  now - granted[Len(granted) - limit + 1] >= window
  <2>1. Len(granted) - limit + 1 \in 1 .. Len(granted) - Len(p)
    BY <1>1, <1>2
  <2>2. QED
    BY <2>1 DEF Remembers
<1>3. QED
  BY <1>2 DEF Pool!Fits

\* A step of the limiter is a step of the pool, or one that the pool does not
\* see: the scan, the timer and the pruning.
LEMMA PoolStep ==
  ASSUME LimiterInv, [Next]_vars
  PROVE  [Pool!Next]_<<now, pendingByTenant, inFlightByTenant, granted>>
<1> USE DEF queues, stamps, history
<1>0. TypeOK
  BY DEF LimiterInv
<1>1. CASE UNCHANGED vars
  BY <1>1 DEF vars
<1>2. ASSUME NEW t \in Tenants, Acquire(t) PROVE Pool!Ask(t)
  BY <1>2 DEF Acquire, Pool!Ask
<1>3. ASSUME NEW t \in Tenants, Release(t) PROVE Pool!Return(t)
  BY <1>3 DEF Release, Pool!Return
<1>4. CASE Grant
  <2>1. Picked \in Tenants /\ pendingByTenant[Picked] > 0
        /\ inFlightByTenant[Picked] < MaxConcurrentPerTenant
    BY <1>0, <1>4 DEF Grant, LimiterInv, PickSound, TypeOK, Picked
  <2>2. Pool!Fits([limit |-> BurstLimit, length |-> BurstWindow])
    BY <1>0, <1>4, RoomFits, LimitAssumption DEF Grant, CanGrant, LimiterInv, TypeOK
  <2>3. Pool!Fits([limit |-> SustainedLimit, length |-> SustainedWindow])
    BY <1>0, <1>4, RoomFits, LimitAssumption DEF Grant, CanGrant, LimiterInv, TypeOK
  <2>4. \A w \in {[limit |-> BurstLimit, length |-> BurstWindow],
                  [limit |-> SustainedLimit, length |-> SustainedWindow]} :
          Pool!Fits(w)
    BY <2>2, <2>3
  <2>5. Pool!Give(Picked)
    BY <1>4, <2>1, <2>4 DEF Grant, Pool!Give
  <2>6. QED
    BY <2>1, <2>5 DEF Pool!Next
<1>5. CASE Tick
  BY <1>5 DEF Tick, Pool!Tick, Pool!Next
<1>6. CASE TimerFires \/ DispatchLater \/ Dispatch \/ ScanEnds \/ ScanDrops
           \/ ScanRotates \/ ScanPicks \/ ScheduleNextDispatch
  BY <1>6 DEF TimerFires, DispatchLater, Dispatch, ScanEnds, ScanDrops,
       ScanRotates, ScanPicks, ScheduleNextDispatch
<1>7. QED
  BY <1>1, <1>2, <1>3, <1>4, <1>5, <1>6 DEF Next, DispatchStep, Pool!Next

\* The limiter implements the permit pool: requests are answered once each, a
\* tenant never holds more than its share, and no window overflows.
THEOREM PoolImplemented == Spec => ImplementsPool
<1>1. Init => Pool!Init
  BY DEF Init, Pool!Init
<1>2. QED
  BY <1>1, LimiterInit, LimiterStep, PoolStep, PTL
  DEF Spec, ImplementsPool, Pool!Spec

-----------------------------------------------------------------------------
(* While the windows have room.                                            *)

\* A tenant that waits below its limit, and one with nothing queued.
Eligible(t) == pendingByTenant[t] > 0 /\ inFlightByTenant[t] < MaxConcurrentPerTenant
Served(k)   == pendingByTenant[tenantOrder[k]] = 0

\* At most one tenant may be granted a permit, and no more than one.
OneGrant ==
  /\ \A t, u \in Tenants : Eligible(t) /\ Eligible(u) => t = u
  /\ \A t \in Tenants : Eligible(t) =>
       pendingByTenant[t] = 1 \/ inFlightByTenant[t] + 1 >= MaxConcurrentPerTenant

NoneEligible == \A t \in Tenants : ~Eligible(t)

\* Every place k of the order is taken by another tenant, and who waits has one.
OrderSound ==
  /\ \A j, k \in DOMAIN tenantOrder : tenantOrder[j] = tenantOrder[k] => j = k
  /\ \A t \in Tenants : pendingByTenant[t] > 0 =>
       \E k \in DOMAIN tenantOrder : tenantOrder[k] = t

NoneServed == \A k \in DOMAIN tenantOrder : ~Served(k)

\* The first scan looks for the one tenant, among those it has not seen.  The
\* scan after the grant finds none, and drops the tenant that was granted at its
\* last step: earlier, it would end before the last tenant.
RoomInv ==
  /\ OrderSound
  /\ pc = "idle" => NoneEligible /\ NoneServed
  /\ pc = "dispatch" =>
       \/ OneGrant /\ NoneServed
       \/ NoneEligible /\ \A k \in DOMAIN tenantOrder : Served(k) => k = Len(tenantOrder)
  /\ pc = "scan" =>
       \/ /\ OneGrant /\ NoneServed
          /\ \A k \in DOMAIN tenantOrder :
               Eligible(tenantOrder[k]) => k + scanned <= Len(tenantOrder)
       \/ /\ NoneEligible
          /\ \A k \in DOMAIN tenantOrder : Served(k) => k + scanned = Len(tenantOrder)
  /\ pc = "picked" => OneGrant /\ NoneServed

LEMMA AcquireLeavesRoom ==
  ASSUME TypeOK, RoomInv, NEW t \in Tenants, Acquire(t)
  PROVE  RoomInv'
<1>1. /\ pc = "idle" /\ pc' = "dispatch" /\ inFlightByTenant' = inFlightByTenant
      /\ pendingByTenant' = [pendingByTenant EXCEPT ![t] = @ + 1]
      /\ NoneEligible /\ NoneServed /\ OrderSound
  BY DEF Acquire, RoomInv
<1>2. /\ \A u \in Tenants : pendingByTenant[u] \in Nat /\ inFlightByTenant[u] \in Nat
      /\ pendingByTenant'[t] = pendingByTenant[t] + 1
      /\ \A u \in Tenants \ {t} : pendingByTenant'[u] = pendingByTenant[u]
      /\ tenantOrder \in Seq(Tenants) /\ MaxConcurrentPerTenant \in Nat
  BY <1>1, LimitAssumption DEF TypeOK
<1>3. PICK n \in Nat : n = Len(tenantOrder)
  BY <1>2
<1>4. /\ \A k \in DOMAIN tenantOrder : k \in DOMAIN tenantOrder' /\ tenantOrder'[k] = tenantOrder[k]
      /\ \A k \in DOMAIN tenantOrder' \ DOMAIN tenantOrder : k = n + 1 /\ tenantOrder'[k] = t
      /\ \E k \in DOMAIN tenantOrder' : tenantOrder'[k] = t
      /\ (\E k \in DOMAIN tenantOrder : tenantOrder[k] = t) => tenantOrder' = tenantOrder
  <2>1. CASE \E k \in DOMAIN tenantOrder : tenantOrder[k] = t
    BY <2>1 DEF Acquire
  <2>2. CASE ~ \E k \in DOMAIN tenantOrder : tenantOrder[k] = t
    <3>1. tenantOrder' = Append(tenantOrder, t)
      BY <2>2 DEF Acquire
    <3>2. DOMAIN tenantOrder = 1 .. n /\ DOMAIN tenantOrder' = 1 .. n + 1
          /\ tenantOrder'[n + 1] = t /\ \A k \in 1 .. n : tenantOrder'[k] = tenantOrder[k]
      BY <1>2, <1>3, <3>1
    <3>3. QED
      BY <2>2, <3>2
  <2>3. QED
    BY <2>1, <2>2
<1>5. \A k \in DOMAIN tenantOrder : tenantOrder[k] \in Tenants
  BY <1>2
<1>6. OrderSound'
  <2>1. \A j, k \in DOMAIN tenantOrder' : tenantOrder'[j] = tenantOrder'[k] => j = k
    BY <1>1, <1>4 DEF OrderSound
  <2>2. \A u \in Tenants : pendingByTenant'[u] > 0 =>
          \E k \in DOMAIN tenantOrder' : tenantOrder'[k] = u
    BY <1>1, <1>2, <1>4 DEF OrderSound
  <2>3. QED
    BY <2>1, <2>2 DEF OrderSound
<1>7. NoneServed'
  BY <1>1, <1>2, <1>4, <1>5 DEF NoneServed, Served
<1>8. OneGrant'
  BY <1>1, <1>2 DEF OneGrant, NoneEligible, Eligible
<1>9. QED
  BY <1>1, <1>6, <1>7, <1>8 DEF RoomInv

LEMMA ReleaseLeavesRoom ==
  ASSUME TypeOK, RoomInv, NEW t \in Tenants, Release(t)
  PROVE  RoomInv'
<1>1. /\ pc = "idle" /\ pc' = "dispatch" /\ UNCHANGED <<pendingByTenant, tenantOrder>>
      /\ inFlightByTenant' = [inFlightByTenant EXCEPT ![t] = @ - 1]
      /\ NoneEligible /\ NoneServed /\ OrderSound
  BY DEF Release, RoomInv
<1>2. /\ \A u \in Tenants : pendingByTenant[u] \in Nat /\ inFlightByTenant[u] \in Nat
      /\ inFlightByTenant'[t] = inFlightByTenant[t] - 1
      /\ \A u \in Tenants \ {t} : inFlightByTenant'[u] = inFlightByTenant[u]
      /\ MaxConcurrentPerTenant \in Nat
  BY <1>1, LimitAssumption DEF TypeOK
<1>3. OneGrant'
  BY <1>1, <1>2 DEF OneGrant, NoneEligible, Eligible
<1>4. OrderSound' /\ NoneServed'
  BY <1>1 DEF OrderSound, NoneServed, Served
<1>5. QED
  BY <1>1, <1>3, <1>4 DEF RoomInv

\* A tenant goes from the front of the order to its back.
LEMMA RotatedPlaces ==
  ASSUME tenantOrder \in Seq(Tenants), NEW n \in Nat, n = Len(tenantOrder), n > 0,
         tenantOrder' = Rotated
  PROVE  /\ DOMAIN tenantOrder = 1 .. n /\ DOMAIN tenantOrder' = 1 .. n
         /\ \A k \in 1 .. n - 1 : tenantOrder'[k] = tenantOrder[k + 1]
         /\ tenantOrder'[n] = tenantOrder[1] /\ Head(tenantOrder) = tenantOrder[1]
<1>1. PICK s : s = Tail(tenantOrder)
  OBVIOUS
<1>2. /\ s \in Seq(Tenants) /\ Len(s) = n - 1 /\ DOMAIN tenantOrder = 1 .. n
      /\ \A k \in 1 .. n - 1 : s[k] = tenantOrder[k + 1]
      /\ Head(tenantOrder) = tenantOrder[1] /\ tenantOrder[1] \in Tenants
  BY <1>1
<1>3. tenantOrder' = Append(s, tenantOrder[1])
  BY <1>1, <1>2 DEF Rotated
<1>4. QED
  BY <1>2, <1>3

LEMMA RotatedSound ==
  ASSUME tenantOrder \in Seq(Tenants), Len(tenantOrder) > 0, tenantOrder' = Rotated,
         OrderSound, UNCHANGED pendingByTenant
  PROVE  /\ OrderSound'
         /\ \A k \in DOMAIN tenantOrder' : \E j \in DOMAIN tenantOrder :
              tenantOrder'[k] = tenantOrder[j]
<1>1. PICK n \in Nat : n = Len(tenantOrder)
  OBVIOUS
<1>2. /\ DOMAIN tenantOrder = 1 .. n /\ DOMAIN tenantOrder' = 1 .. n /\ n > 0
      /\ \A k \in 1 .. n - 1 : tenantOrder'[k] = tenantOrder[k + 1]
      /\ tenantOrder'[n] = tenantOrder[1]
  BY <1>1, RotatedPlaces
<1>a. /\ \A j, k \in 1 .. n : tenantOrder[j] = tenantOrder[k] => j = k
      /\ \A t \in Tenants :
           pendingByTenant'[t] > 0 => \E k \in 1 .. n : tenantOrder[k] = t
  BY <1>2 DEF OrderSound
<1>3. ASSUME NEW j \in 1 .. n, NEW k \in 1 .. n, tenantOrder'[j] = tenantOrder'[k]
      PROVE  j = k
  <2>1. \A i \in 1 .. n : \E m \in 1 .. n :
          m = (IF i = n THEN 1 ELSE i + 1) /\ tenantOrder'[i] = tenantOrder[m]
    BY <1>2
  <2>2. PICK a \in 1 .. n : a = (IF j = n THEN 1 ELSE j + 1) /\ tenantOrder'[j] = tenantOrder[a]
    BY <2>1
  <2>3. PICK b \in 1 .. n : b = (IF k = n THEN 1 ELSE k + 1) /\ tenantOrder'[k] = tenantOrder[b]
    BY <2>1
  <2>4. tenantOrder[a] = tenantOrder[b]
    BY <1>3, <2>2, <2>3
  <2>5. a = b
    BY <1>a, <2>4
  <2>6. QED
    BY <2>2, <2>3, <2>5
<1>4. ASSUME NEW i \in 1 .. n PROVE \E k \in 1 .. n : tenantOrder'[k] = tenantOrder[i]
  <2>1. CASE i = 1
    BY <1>2, <2>1
  <2>2. CASE i > 1
    <3>1. i - 1 \in 1 .. n - 1 /\ i - 1 \in 1 .. n /\ i - 1 + 1 = i
      BY <2>2
    <3>2. QED
      BY <1>2, <3>1
  <2>3. QED
    BY <2>1, <2>2
<1>5. OrderSound'
  <2>1. \A t \in Tenants : pendingByTenant'[t] > 0 =>
          \E k \in 1 .. n : tenantOrder'[k] = t
    <3> SUFFICES ASSUME NEW t \in Tenants, pendingByTenant'[t] > 0
                 PROVE  \E k \in 1 .. n : tenantOrder'[k] = t
      OBVIOUS
    <3>1. PICK i \in 1 .. n : tenantOrder[i] = t
      BY <1>a
    <3>2. QED
      BY <1>4, <3>1
  <2>2. QED
    BY <1>2, <1>3, <2>1 DEF OrderSound
<1>6. ASSUME NEW k \in 1 .. n
      PROVE  \E j \in 1 .. n : tenantOrder'[k] = tenantOrder[j]
  <2>1. CASE k = n
    BY <1>2, <2>1
  <2>2. CASE k < n
    <3>1. k \in 1 .. n - 1 /\ k + 1 \in 1 .. n
      BY <2>2
    <3>2. QED
      BY <1>2, <3>1
  <2>3. QED
    BY <2>1, <2>2
<1>7. QED
  BY <1>2, <1>5, <1>6

LEMMA ScanLeavesRoom ==
  ASSUME TypeOK, RoomInv, ScanEnds \/ ScanDrops \/ ScanRotates \/ ScanPicks
  PROVE  RoomInv'
<1>1. PICK n \in Nat : n = Len(tenantOrder)
  BY DEF TypeOK
<1>2. /\ tenantOrder \in Seq(Tenants) /\ DOMAIN tenantOrder = 1 .. n /\ scanned \in Nat
      /\ \A k \in 1 .. n : tenantOrder[k] \in Tenants
      /\ \A u \in Tenants : pendingByTenant[u] \in Nat /\ inFlightByTenant[u] \in Nat
      /\ MaxConcurrentPerTenant \in Nat
  BY <1>1, LimitAssumption DEF TypeOK
<1>3. UNCHANGED <<pendingByTenant, inFlightByTenant>> /\ OrderSound /\ pc = "scan"
  BY DEF ScanEnds, ScanDrops, ScanRotates, ScanPicks, queues, RoomInv
<1>4. /\ OneGrant' <=> OneGrant
      /\ NoneEligible' <=> NoneEligible
      /\ \A u : Eligible(u)' <=> Eligible(u)
  BY <1>3 DEF OneGrant, NoneEligible, Eligible
<1>5. \/ /\ OneGrant /\ NoneServed
         /\ \A k \in 1 .. n : Eligible(tenantOrder[k]) => k + scanned <= n
      \/ /\ NoneEligible
         /\ \A k \in 1 .. n : Served(k) => k + scanned = n
  BY <1>1, <1>2, <1>3 DEF RoomInv
<1>6. CASE ScanEnds
  <2>1. scanned >= n /\ pc' = "idle" /\ tenantOrder' = tenantOrder
    BY <1>1, <1>6 DEF ScanEnds
  <2>2. \A k \in 1 .. n : k + scanned > n
    BY <1>2, <2>1
  <2>3. NoneServed
    BY <1>2, <1>5, <2>2 DEF NoneServed
  <2>4. NoneEligible
    <3>1. SUFFICES ASSUME NEW t \in Tenants, Eligible(t) PROVE FALSE
      BY DEF NoneEligible
    <3>2. PICK k \in 1 .. n : tenantOrder[k] = t
      BY <1>2, <1>3, <3>1 DEF OrderSound, Eligible
    <3>3. QED
      BY <1>2, <1>5, <2>1, <3>1, <3>2 DEF NoneEligible
  <2>5. OrderSound' /\ NoneServed'
    BY <1>3, <2>1, <2>3 DEF OrderSound, NoneServed, Served
  <2>6. QED
    BY <1>4, <2>1, <2>4, <2>5 DEF RoomInv
<1>7. CASE ScanDrops
  <2>1. /\ n > 0 /\ Served(1) /\ tenantOrder' = Tail(tenantOrder)
        /\ scanned' = scanned + 1 /\ pc' = "scan"
    BY <1>1, <1>2, <1>7 DEF ScanDrops, Served
  <2>2. /\ Len(tenantOrder') = n - 1 /\ DOMAIN tenantOrder' = 1 .. n - 1
        /\ \A k \in 1 .. n - 1 : tenantOrder'[k] = tenantOrder[k + 1]
    BY <1>1, <1>2, <2>1
  <2>3. 1 \in 1 .. n
    BY <2>1
  <2>4. NoneEligible /\ 1 + scanned = n
    BY <1>2, <1>5, <2>1, <2>3 DEF NoneServed
  <2>5. \A k \in 1 .. n - 1 : k + 1 \in 1 .. n /\ k + 1 + scanned # n
    BY <1>2, <2>4
  <2>6. \A k \in 1 .. n - 1 : ~Served(k + 1)
    <3> TAKE k \in 1 .. n - 1
    <3>1. k + 1 \in 1 .. n /\ k + 1 + scanned # n
      BY <2>5
    <3>2. Served(k + 1) => OneGrant /\ NoneServed
      BY <1>5, <3>1
    <3>3. QED
      BY <1>2, <2>1, <2>3, <3>2 DEF NoneServed
  <2>7. NoneServed'
    BY <1>3, <2>2, <2>6 DEF NoneServed, Served
  <2>8. ASSUME NEW j \in 1 .. n - 1, NEW k \in 1 .. n - 1, tenantOrder'[j] = tenantOrder'[k]
        PROVE  j = k
    <3>1. PICK a \in 1 .. n, b \in 1 .. n : a = j + 1 /\ b = k + 1
      BY <2>5
    <3>2. tenantOrder[a] = tenantOrder[b]
      BY <2>2, <2>8, <3>1
    <3>3. a = b
      BY <1>2, <1>3, <3>2 DEF OrderSound
    <3>4. QED
      BY <3>1, <3>3
  <2>9. ASSUME NEW t \in Tenants, pendingByTenant[t] > 0
        PROVE  \E k \in 1 .. n - 1 : tenantOrder'[k] = t
    <3>1. PICK i \in 1 .. n : tenantOrder[i] = t
      BY <1>2, <1>3, <2>9 DEF OrderSound
    <3>2. i # 1
      BY <1>2, <2>1, <2>9, <3>1 DEF Served
    <3>3. i - 1 \in 1 .. n - 1 /\ i - 1 + 1 = i
      BY <3>2
    <3>4. QED
      BY <2>2, <3>1, <3>3
  <2>10. OrderSound'
    BY <1>3, <2>2, <2>8, <2>9 DEF OrderSound
  <2>11. QED
    BY <1>4, <2>1, <2>4, <2>7, <2>10 DEF RoomInv, NoneServed
<1>8. CASE ScanRotates
  <2>1. /\ n > 0 /\ tenantOrder' = Rotated /\ scanned' = scanned + 1 /\ pc' = "scan"
        /\ pendingByTenant[Head(tenantOrder)] > 0
        /\ inFlightByTenant[Head(tenantOrder)] >= MaxConcurrentPerTenant
    BY <1>1, <1>2, <1>8 DEF ScanRotates
  <2>2. OrderSound'
    BY <1>1, <1>2, <1>3, <2>1, RotatedSound
  <2>3. /\ DOMAIN tenantOrder' = 1 .. n /\ Len(tenantOrder') = n
        /\ \A k \in 1 .. n - 1 : tenantOrder'[k] = tenantOrder[k + 1]
        /\ tenantOrder'[n] = tenantOrder[1] /\ Head(tenantOrder) = tenantOrder[1]
    <3>1. /\ DOMAIN tenantOrder' = 1 .. n
          /\ \A k \in 1 .. n - 1 : tenantOrder'[k] = tenantOrder[k + 1]
          /\ tenantOrder'[n] = tenantOrder[1] /\ Head(tenantOrder) = tenantOrder[1]
      BY <1>1, <1>2, <2>1, RotatedPlaces
    <3>2. tenantOrder' \in Seq(Tenants)
      BY <1>2, <2>1 DEF Rotated
    <3>3. Len(tenantOrder') \in Nat /\ DOMAIN tenantOrder' = 1 .. Len(tenantOrder')
      BY <3>2
    <3>4. QED
      BY <2>1, <3>1, <3>3
  <2>4. ~Eligible(tenantOrder[1]) /\ pendingByTenant[tenantOrder[1]] > 0
        /\ tenantOrder[1] \in Tenants
    <3>1. tenantOrder[1] \in Tenants
      BY <1>2, <2>1
    <3>2. QED
      BY <1>2, <2>1, <2>3, <3>1 DEF Eligible
  <2>5. \A k \in 1 .. n : \/ k = n
                          \/ k \in 1 .. n - 1 /\ k + 1 \in 1 .. n
                             /\ k + scanned' = (k + 1) + scanned
    BY <1>2, <2>1
  <2>6. CASE OneGrant /\ NoneServed
             /\ \A k \in 1 .. n : Eligible(tenantOrder[k]) => k + scanned <= n
    <3>1. \A k \in 1 .. n : Eligible(tenantOrder'[k]) => k + scanned' <= n
      BY <2>3, <2>4, <2>5, <2>6
    <3>2. \A k \in 1 .. n : pendingByTenant[tenantOrder'[k]] # 0
      <4>1. \A k \in 1 .. n : pendingByTenant[tenantOrder[k]] # 0
        BY <1>2, <2>6 DEF NoneServed, Served
      <4>2. 1 \in 1 .. n
        BY <2>1
      <4>3. QED
        BY <2>3, <2>5, <4>1, <4>2
    <3>3. NoneServed'
      BY <1>3, <2>3, <3>2 DEF NoneServed, Served
    <3>4. QED
      BY <1>4, <2>1, <2>2, <2>3, <2>6, <3>1, <3>3 DEF RoomInv
  <2>7. CASE NoneEligible /\ \A k \in 1 .. n : Served(k) => k + scanned = n
    <3>1. \A k \in 1 .. n : pendingByTenant[tenantOrder'[k]] = 0 => k + scanned' = n
      <4> TAKE k \in 1 .. n
      <4>1. CASE k = n
        BY <2>3, <2>4, <4>1, <1>2
      <4>2. CASE k # n
        BY <2>3, <2>5, <2>7, <4>2 DEF Served
      <4>3. QED
        BY <4>1, <4>2
    <3>2. \A k \in DOMAIN tenantOrder' : Served(k)' => k + scanned' = Len(tenantOrder')
      BY <1>3, <2>3, <3>1 DEF Served
    <3>3. QED
      BY <1>4, <2>1, <2>2, <2>7, <3>2 DEF RoomInv
  <2>8. QED
    BY <1>5, <2>6, <2>7
<1>9. CASE ScanPicks
  <2>1. /\ n > 0 /\ tenantOrder' = Rotated /\ pc' = "picked"
        /\ pendingByTenant[Head(tenantOrder)] > 0
        /\ inFlightByTenant[Head(tenantOrder)] < MaxConcurrentPerTenant
    BY <1>1, <1>2, <1>9 DEF ScanPicks
  <2>2. /\ OrderSound'
        /\ \A k \in DOMAIN tenantOrder' : \E j \in DOMAIN tenantOrder :
             tenantOrder'[k] = tenantOrder[j]
    BY <1>1, <1>2, <1>3, <2>1, RotatedSound
  <2>3. Head(tenantOrder) \in Tenants /\ Eligible(Head(tenantOrder))
    BY <1>1, <1>2, <2>1 DEF Eligible
  <2>4. OneGrant /\ NoneServed
    BY <1>5, <2>3 DEF NoneEligible
  <2>5. NoneServed'
    BY <1>3, <2>2, <2>4 DEF NoneServed, Served
  <2>6. QED
    BY <1>4, <2>1, <2>2, <2>4, <2>5 DEF RoomInv
<1>10. QED
  BY <1>6, <1>7, <1>8, <1>9

LEMMA GrantLeavesRoom ==
  ASSUME TypeOK, PickSound, RoomInv, Grant
  PROVE  RoomInv'
<1>1. PICK t, n : t = Picked /\ n = Len(tenantOrder)
  OBVIOUS
<1>2. /\ OneGrant /\ NoneServed /\ OrderSound /\ n > 0 /\ n \in Nat
      /\ t \in Tenants /\ t = tenantOrder[n] /\ Eligible(t) /\ DOMAIN tenantOrder = 1 .. n
      /\ \A k \in 1 .. n : tenantOrder[k] \in Tenants
  BY <1>1 DEF Grant, RoomInv, PickSound, Picked, Eligible, TypeOK
<1>3. /\ pendingByTenant' = [pendingByTenant EXCEPT ![t] = @ - 1]
      /\ inFlightByTenant' = [inFlightByTenant EXCEPT ![t] = @ + 1]
      /\ pc' = "dispatch" /\ tenantOrder' = tenantOrder
  BY <1>1 DEF Grant
<1>4. /\ \A u \in Tenants : pendingByTenant[u] \in Nat /\ inFlightByTenant[u] \in Nat
      /\ pendingByTenant'[t] = pendingByTenant[t] - 1
      /\ inFlightByTenant'[t] = inFlightByTenant[t] + 1
      /\ \A u \in Tenants \ {t} : /\ pendingByTenant'[u] = pendingByTenant[u]
                                  /\ inFlightByTenant'[u] = inFlightByTenant[u]
      /\ MaxConcurrentPerTenant \in Nat
  BY <1>2, <1>3, LimitAssumption DEF TypeOK
<1>5. NoneEligible'
  <2>1. SUFFICES ASSUME NEW u \in Tenants, Eligible(u)' PROVE FALSE
    BY DEF NoneEligible
  <2>2. CASE u = t
    <3>1. pendingByTenant[t] = 1 \/ inFlightByTenant[t] + 1 >= MaxConcurrentPerTenant
      BY <1>2 DEF OneGrant
    <3>2. QED
      BY <1>4, <2>1, <2>2, <3>1 DEF Eligible
  <2>3. CASE u # t
    BY <1>2, <1>4, <2>1, <2>3 DEF Eligible, OneGrant
  <2>4. QED
    BY <2>2, <2>3
<1>6. \A k \in 1 .. n : pendingByTenant'[tenantOrder[k]] = 0 => k = n
  <2> TAKE k \in 1 .. n
  <2>1. CASE k # n
    <3>1. n \in 1 .. n /\ tenantOrder[k] # t /\ pendingByTenant[tenantOrder[k]] # 0
      BY <1>2, <2>1 DEF OrderSound, NoneServed, Served
    <3>2. QED
      BY <1>2, <1>4, <3>1
  <2>2. QED
    BY <2>1
<1>7. OrderSound'
  BY <1>2, <1>3, <1>4 DEF OrderSound, Eligible
<1>8. \A k \in DOMAIN tenantOrder' : Served(k)' => k = Len(tenantOrder')
  BY <1>1, <1>2, <1>3, <1>6 DEF Served
<1>9. QED
  BY <1>3, <1>5, <1>7, <1>8 DEF RoomInv

LEMMA RoomStep ==
  ASSUME TypeOK, PickSound, RoomInv, dispatchTimer = NoTimer, dispatchTimer' = NoTimer,
         [Next]_vars
  PROVE  RoomInv'
<1> USE DEF queues, stamps, history
<1>1. ASSUME UNCHANGED <<pendingByTenant, inFlightByTenant, tenantOrder, pc, scanned>>
      PROVE  RoomInv'
  BY <1>1 DEF RoomInv, OrderSound, OneGrant, NoneEligible, NoneServed, Eligible, Served
<1>2. CASE Tick \/ UNCHANGED vars
  BY <1>1, <1>2 DEF Tick, vars
<1>3. ASSUME NEW t \in Tenants, Acquire(t) \/ Release(t) PROVE RoomInv'
  BY <1>3, AcquireLeavesRoom, ReleaseLeavesRoom
<1>4. CASE TimerFires \/ DispatchLater
  BY <1>4 DEF TimerFires, DispatchLater
<1>5. CASE Dispatch
  <2>1. /\ pc = "dispatch" /\ pc' = "scan" /\ scanned' = 0
        /\ UNCHANGED <<pendingByTenant, inFlightByTenant, tenantOrder>>
    BY <1>5 DEF Dispatch
  <2>2. Len(tenantOrder) \in Nat /\ DOMAIN tenantOrder = 1 .. Len(tenantOrder)
    BY DEF TypeOK
  <2>3. \A k \in DOMAIN tenantOrder : k + 0 = k /\ k <= Len(tenantOrder)
    BY <2>2
  <2>4. /\ OrderSound' <=> OrderSound
        /\ OneGrant' <=> OneGrant
        /\ NoneEligible' <=> NoneEligible
        /\ NoneServed' <=> NoneServed
        /\ \A k : Served(k)' <=> Served(k)
    BY <2>1 DEF OrderSound, OneGrant, NoneEligible, NoneServed, Eligible, Served
  <2>5. QED
    BY <2>1, <2>3, <2>4 DEF RoomInv
<1>6. CASE ScanEnds \/ ScanDrops \/ ScanRotates \/ ScanPicks
  BY <1>6, ScanLeavesRoom
<1>7. CASE ScheduleNextDispatch
  <2>1. PICK wait \in Waits : dispatchTimer' = now + wait
    BY <1>7 DEF ScheduleNextDispatch
  <2>2. dispatchTimer' \in Nat
    BY <2>1, WaitsEnd
  <2>3. QED
    BY <2>2 DEF NoTimer
<1>8. CASE Grant
  BY <1>8, GrantLeavesRoom
<1>9. QED
  BY <1>2, <1>3, <1>4, <1>5, <1>6, <1>7, <1>8 DEF Next, DispatchStep

\* As long as no window fills, so that the timer is never armed, no request that
\* could be granted is left waiting between two events, whatever the number of
\* tenants: one dispatch() serves the one tenant the event made eligible.  Once
\* the timer is armed this can fail: the scan may end before the last tenant.
THEOREM AnsweredAtOnce == Spec /\ [](dispatchTimer = NoTimer) => []NoRequestForgotten
<1>1. Init => RoomInv
  BY DEF Init, RoomInv, OrderSound, NoneEligible, NoneServed, Eligible
<1>2. LimiterInv /\ LimiterInv' /\ RoomInv /\ dispatchTimer = NoTimer
        /\ (dispatchTimer = NoTimer)' /\ [Next]_vars => RoomInv'
  BY RoomStep DEF LimiterInv
<1>3. LimiterInv /\ RoomInv => NoRequestForgotten
  <2>1. SUFFICES ASSUME LimiterInv, RoomInv, pc = "idle", NEW t \in Tenants,
                        pendingByTenant[t] > 0
                 PROVE  inFlightByTenant[t] >= MaxConcurrentPerTenant
    BY DEF NoRequestForgotten
  <2>2. inFlightByTenant[t] \in Nat /\ MaxConcurrentPerTenant \in Nat
    BY <2>1, LimitAssumption DEF LimiterInv, TypeOK
  <2>3. QED
    BY <2>1, <2>2 DEF RoomInv, NoneEligible, Eligible
<1>4. QED
  BY <1>1, <1>2, <1>3, LimiterInit, LimiterStep, PTL DEF Spec

-----------------------------------------------------------------------------
(***************************************************************************)
(* PerformanceTracker.                                                     *)
(*                                                                         *)
(* Proofs about the feed of trades, for any number of calls and records    *)
(* and any length of the feed.                                             *)
(*                                                                         *)
(* Why the file keeps what was saved: as long as calls do not overlap,     *)
(* memory, once loaded, is the trimmed sequence of everything saved, plus  *)
(* the one record that a call is about to save; and trimming what was      *)
(* trimmed before gives the same as trimming all of it (TrimTwice).        *)
(***************************************************************************)

(* Trim.                                                                   *)

\* What Trim returns: the last MaxRows records.
LEMMA TrimProperties ==
  ASSUME NEW T, NEW s \in Seq(T)
  PROVE  /\ Trim(s) \in Seq(T)
         /\ Len(Trim(s)) = IF Len(s) <= MaxRows THEN Len(s) ELSE MaxRows
         /\ \A i \in 1 .. Len(Trim(s)) : Trim(s)[i] = s[i + Len(s) - Len(Trim(s))]
<1>1. MaxRows \in Nat /\ MaxRows > 0 /\ Len(s) \in Nat
  BY TrackerAssumption
<1>2. CASE Len(s) <= MaxRows
  BY <1>1, <1>2 DEF Trim
<1>3. CASE Len(s) > MaxRows
  <2>1. Trim(s) = SubSeq(s, Len(s) - MaxRows + 1, Len(s))
    BY <1>1, <1>3 DEF Trim
  <2>2. Len(s) - MaxRows + 1 \in 1 .. Len(s) + 1 /\ Len(s) \in Len(s) - MaxRows .. Len(s)
    BY <1>1, <1>3
  <2>3. \A i \in Len(s) - MaxRows + 1 .. Len(s) : s[i] \in T
    BY <1>1, <1>3, ElementOfSeq
  <2>4. Trim(s) \in Seq(T) /\ Len(Trim(s)) = MaxRows
        /\ \A i \in 1 .. MaxRows : Trim(s)[i] = s[i + Len(s) - MaxRows]
    BY <1>1, <1>3, <2>1, <2>2, <2>3
  <2>5. QED
    BY <1>1, <1>3, <2>4
<1>4. QED
  BY <1>1, <1>2, <1>3

\* What was trimmed before a record came may be forgotten.
LEMMA TrimTwice ==
  ASSUME NEW T, NEW s \in Seq(T), NEW t \in T
  PROVE  Trim(Append(Trim(s), t)) = Trim(Append(s, t))
<1> DEFINE a == Trim(s)
           l == Trim(Append(a, t))
           r == Trim(Append(s, t))
<1>1. MaxRows \in Nat /\ MaxRows > 0 /\ Len(s) \in Nat
  BY TrackerAssumption
<1>2. /\ a \in Seq(T) /\ Len(a) = IF Len(s) <= MaxRows THEN Len(s) ELSE MaxRows
      /\ \A i \in 1 .. Len(a) : a[i] = s[i + Len(s) - Len(a)]
  BY TrimProperties
<1> HIDE DEF a, l, r
<1>3. /\ Append(a, t) \in Seq(T) /\ Len(Append(a, t)) = Len(a) + 1
      /\ \A i \in 1 .. Len(a) : Append(a, t)[i] = a[i]
      /\ Append(a, t)[Len(a) + 1] = t
  BY <1>2
<1>4. /\ Append(s, t) \in Seq(T) /\ Len(Append(s, t)) = Len(s) + 1
      /\ \A i \in 1 .. Len(s) : Append(s, t)[i] = s[i]
      /\ Append(s, t)[Len(s) + 1] = t
  OBVIOUS
<1>5. /\ l \in Seq(T) /\ Len(l) = IF Len(a) + 1 <= MaxRows THEN Len(a) + 1 ELSE MaxRows
      /\ \A i \in 1 .. Len(l) : l[i] = Append(a, t)[i + Len(a) + 1 - Len(l)]
  <2>1. PICK u \in Seq(T) : u = Append(a, t)
    BY <1>3
  <2>2. /\ Trim(u) \in Seq(T) /\ Len(Trim(u)) = IF Len(u) <= MaxRows THEN Len(u) ELSE MaxRows
        /\ \A i \in 1 .. Len(Trim(u)) : Trim(u)[i] = u[i + Len(u) - Len(Trim(u))]
    BY TrimProperties
  <2>3. l = Trim(u) /\ Len(u) = Len(a) + 1 /\ Len(a) \in Nat
    BY <1>2, <1>3, <2>1 DEF l
  <2>4. l \in Seq(T) /\ Len(l) \in Nat
        /\ Len(l) = IF Len(a) + 1 <= MaxRows THEN Len(a) + 1 ELSE MaxRows
    BY <2>2, <2>3
  <2>5. ASSUME NEW i \in 1 .. Len(l) PROVE l[i] = u[i + Len(a) + 1 - Len(l)]
    <3>1. l[i] = u[i + Len(u) - Len(l)]
      BY <2>2, <2>3
    <3>2. PICK m \in Nat, n \in Nat : m = Len(a) /\ n = Len(l)
      BY <2>3, <2>4
    <3>3. i \in Int /\ i + (m + 1) - n = i + m + 1 - n
      BY <3>2
    <3>4. QED
      BY <2>3, <3>1, <3>2, <3>3
  <2>6. QED
    BY <2>1, <2>4, <2>5
<1>6. /\ r \in Seq(T) /\ Len(r) = IF Len(s) + 1 <= MaxRows THEN Len(s) + 1 ELSE MaxRows
      /\ \A i \in 1 .. Len(r) : r[i] = Append(s, t)[i + Len(s) + 1 - Len(r)]
  <2>1. PICK u \in Seq(T) : u = Append(s, t)
    BY <1>4
  <2>2. /\ Trim(u) \in Seq(T) /\ Len(Trim(u)) = IF Len(u) <= MaxRows THEN Len(u) ELSE MaxRows
        /\ \A i \in 1 .. Len(Trim(u)) : Trim(u)[i] = u[i + Len(u) - Len(Trim(u))]
    BY TrimProperties
  <2>3. r = Trim(u) /\ Len(u) = Len(s) + 1 /\ Len(s) \in Nat
    BY <1>2, <1>4, <2>1 DEF r
  <2>4. r \in Seq(T) /\ Len(r) \in Nat
        /\ Len(r) = IF Len(s) + 1 <= MaxRows THEN Len(s) + 1 ELSE MaxRows
    BY <2>2, <2>3
  <2>5. ASSUME NEW i \in 1 .. Len(r) PROVE r[i] = u[i + Len(s) + 1 - Len(r)]
    <3>1. r[i] = u[i + Len(u) - Len(r)]
      BY <2>2, <2>3
    <3>2. PICK m \in Nat, n \in Nat : m = Len(s) /\ n = Len(r)
      BY <2>3, <2>4
    <3>3. i \in Int /\ i + (m + 1) - n = i + m + 1 - n
      BY <3>2
    <3>4. QED
      BY <2>3, <3>1, <3>2, <3>3
  <2>6. QED
    BY <2>1, <2>4, <2>5
<1>7. Len(l) = Len(r) /\ Len(a) \in Nat /\ Len(l) \in Nat /\ Len(l) <= Len(a) + 1
      /\ Len(a) <= Len(s)
  BY <1>1, <1>2, <1>5, <1>6
<1>8. ASSUME NEW i \in 1 .. Len(l) PROVE l[i] = r[i]
  <2>1. l[i] = Append(a, t)[i + Len(a) + 1 - Len(l)] /\ r[i] = Append(s, t)[i + Len(s) + 1 - Len(l)]
    BY <1>5, <1>6, <1>7
  <2>2. CASE i = Len(l)
    <3>1. i + Len(a) + 1 - Len(l) = Len(a) + 1 /\ i + Len(s) + 1 - Len(l) = Len(s) + 1
      BY <1>1, <1>7, <2>2
    <3>2. QED
      BY <1>3, <1>4, <2>1, <3>1
  <2>3. CASE i < Len(l)
    <3>1. PICK n \in Nat, m \in Nat : n = Len(l) /\ m = Len(a)
      BY <1>7
    <3>2. i + m + 1 - n \in 1 .. m
      BY <1>7, <2>3, <3>1
    <3>3. PICK j \in 1 .. Len(a) : j = i + Len(a) + 1 - Len(l)
      BY <3>1, <3>2
    <3>4. j + Len(s) - Len(a) = i + Len(s) + 1 - Len(l) /\ j + Len(s) - Len(a) \in 1 .. Len(s)
      BY <1>1, <1>7, <3>3
    <3>5. l[i] = a[j] /\ a[j] = s[j + Len(s) - Len(a)]
      BY <1>2, <1>3, <2>1, <3>3
    <3>6. r[i] = s[j + Len(s) - Len(a)]
      BY <1>4, <2>1, <3>4
    <3>7. QED
      BY <3>5, <3>6
  <2>4. QED
    BY <1>1, <1>7, <2>2, <2>3
<1>9. l = r
  BY <1>5, <1>6, <1>7, <1>8, SeqEqual
<1>10. QED
  BY <1>9 DEF a, l, r

LEMMA SuffixOfItself ==
  ASSUME NEW T, NEW s \in Seq(T)
  PROVE  IsSuffix(s, s)
<1>1. Len(Reverse(s)) \in Nat
  BY DEF Reverse
<1>2. QED
  BY <1>1 DEF IsSuffix, IsPrefix

-----------------------------------------------------------------------------
(* Types.                                                                  *)

CallSet == [Callers -> [pc : {"idle", "read", "load", "issues", "save", "write"},
                        trade : Trades \union {Read}, rows : Seq(Trades)]]

\* Only records are saved.
FeedTyped ==
  /\ loaded \in BOOLEAN /\ spoiled \in BOOLEAN
  /\ feed \in Seq(Trades) /\ saved \in Seq(Trades)
  /\ feedFile \in [rows : Seq(Trades), size : Nat, torn : BOOLEAN]
  /\ caller \in CallSet
  /\ \A c \in Callers : caller[c].pc \in {"save", "write"} => caller[c].trade \in Trades

LEMMA IdleTyped ==
  /\ Idle.pc = "idle" /\ Idle.trade = Read /\ Idle.rows = <<>>
  /\ Idle \in [pc : {"idle", "read", "load", "issues", "save", "write"},
               trade : Trades \union {Read}, rows : Seq(Trades)]
  BY DEF Idle

\* A call with its record.
Begun(p, t) == [Idle EXCEPT !.pc = p, !.trade = t]

LEMMA BegunTyped ==
  ASSUME NEW p \in {"read", "save"}, NEW t \in Trades \union {Read}
  PROVE  /\ Begun(p, t) \in [pc : {"idle", "read", "load", "issues", "save", "write"},
                             trade : Trades \union {Read}, rows : Seq(Trades)]
         /\ Begun(p, t).pc = p /\ Begun(p, t).trade = t
<1>1. ASSUME NEW i \in [pc : {"idle", "read", "load", "issues", "save", "write"},
                         trade : Trades \union {Read}, rows : Seq(Trades)]
      PROVE  LET v == [i EXCEPT !.pc = p, !.trade = t] IN
             /\ v \in [pc : {"idle", "read", "load", "issues", "save", "write"},
                       trade : Trades \union {Read}, rows : Seq(Trades)]
             /\ v.pc = p /\ v.trade = t
  OBVIOUS
<1>2. QED
  BY <1>1, IdleTyped DEF Begun

\* The record of one call is replaced.
LEMMA CallPut ==
  ASSUME FeedTyped, NEW c \in Callers,
         NEW v \in [pc : {"idle", "read", "load", "issues", "save", "write"},
                    trade : Trades \union {Read}, rows : Seq(Trades)],
         caller' = [caller EXCEPT ![c] = v]
  PROVE  /\ caller' \in CallSet /\ caller'[c] = v
         /\ \A d \in Callers \ {c} : caller'[d] = caller[d]
  BY DEF FeedTyped, CallSet

LEMMA ParsedTyped == FeedTyped => Parsed \in Seq(Trades)
  BY DEF FeedTyped, Parsed

\* A record that is pushed: dropped as a duplicate, or appended and about to be
\* saved.
LEMMA PushEffect ==
  ASSUME FeedTyped, NEW c \in Callers, NEW t \in Trades, Push(c, t)
  PROVE  /\ feed' \in Seq(Trades) /\ caller' \in CallSet
         /\ \A d \in Callers \ {c} : caller'[d] = caller[d]
         /\ \/ feed' = feed /\ caller'[c] = Idle
            \/ /\ feed' = Trim(Append(feed, t))
               /\ caller'[c].pc = "save" /\ caller'[c].trade = t
<1>1. CASE feed' = feed /\ caller' = [caller EXCEPT ![c] = Idle]
  BY <1>1, IdleTyped DEF FeedTyped, CallSet
<1>2. CASE /\ feed' = Trim(Append(feed, t))
           /\ caller' = [caller EXCEPT ![c] = [Idle EXCEPT !.pc = "save", !.trade = t]]
  <2>1. feed' \in Seq(Trades)
    <3>1. Append(feed, t) \in Seq(Trades)
      BY DEF FeedTyped
    <3>2. QED
      BY <1>2, <3>1, TrimProperties
  <2>2. caller' = [caller EXCEPT ![c] = Begun("save", t)]
    BY <1>2 DEF Begun
  <2>3. /\ caller' \in CallSet /\ caller'[c] = Begun("save", t)
        /\ \A d \in Callers \ {c} : caller'[d] = caller[d]
    BY <2>2, BegunTyped, CallPut
  <2>4. QED
    BY <1>2, <2>1, <2>3, BegunTyped
<1>3. QED
  BY <1>1, <1>2 DEF Push

\* A call that goes on keeps its record.
LEMMA CallGoes ==
  ASSUME FeedTyped, NEW c \in Callers,
         NEW p \in {"idle", "read", "load", "issues", "save", "write"},
         NEW rows \in Seq(Trades),
         caller' = [caller EXCEPT ![c].pc = p, ![c].rows = rows]
  PROVE  /\ caller' \in CallSet
         /\ \A d \in Callers \ {c} : caller'[d] = caller[d]
         /\ caller'[c].pc = p /\ caller'[c].rows = rows /\ caller'[c].trade = caller[c].trade
  BY ZenonT(30) DEF FeedTyped, CallSet

LEMMA CallEnds ==
  ASSUME FeedTyped, NEW c \in Callers, caller' = [caller EXCEPT ![c] = Idle]
  PROVE  /\ caller' \in CallSet
         /\ \A d \in Callers \ {c} : caller'[d] = caller[d]
         /\ caller'[c] = Idle
  BY IdleTyped DEF FeedTyped, CallSet

\* A call that has just been made.
LEMMA CallBegins ==
  ASSUME FeedTyped, NEW c \in Callers, NEW t \in Trades \union {Read},
         caller' = [caller EXCEPT ![c] = [Idle EXCEPT !.pc = "read", !.trade = t]]
  PROVE  /\ caller' \in CallSet
         /\ \A d \in Callers \ {c} : caller'[d] = caller[d]
         /\ caller'[c].pc = "read"
<1>1. caller' = [caller EXCEPT ![c] = Begun("read", t)]
  BY DEF Begun
<1>2. /\ Begun("read", t) \in [pc : {"idle", "read", "load", "issues", "save", "write"},
                               trade : Trades \union {Read}, rows : Seq(Trades)]
      /\ Begun("read", t).pc = "read"
  BY BegunTyped
<1>3. QED
  BY <1>1, <1>2, CallPut

-----------------------------------------------------------------------------
(* What the feed and the file hold while calls do not overlap.             *)

Writing == \E c \in Callers : caller[c].pc = "write"
AllIdle == \A c \in Callers : caller[c] = Idle

\* What call c and the memory hold at each await.
Stage(c) ==
  /\ caller[c].pc = "load" => caller[c].rows = Trim(saved)
  /\ caller[c].pc = "issues" => feed = Trim(saved)
  /\ caller[c].pc = "save" => feed = Trim(Append(saved, caller[c].trade))
  /\ caller[c].pc = "write" => /\ feed = Trim(Append(saved, caller[c].trade))
                               /\ caller[c].rows = feed /\ feedFile.size = 0

FeedExact ==
  ~spoiled =>
    /\ \A c, d \in Callers : caller[c] # Idle /\ caller[d] # Idle => c = d
    /\ ~Writing => feedFile.rows = Trim(saved) /\ ~feedFile.torn
    /\ AllIdle /\ loaded => feed = Trim(saved)
    /\ \A c \in Callers : Stage(c)

FeedInv == FeedTyped /\ FeedExact

LEMMA FeedStart == TrackerInit => FeedInv
<1> SUFFICES ASSUME TrackerInit PROVE FeedInv
  OBVIOUS
<1>1. FeedTyped
  BY IdleTyped DEF TrackerInit, FeedTyped, CallSet, Empty
<1>2. Trim(<<>>) = <<>>
  BY TrackerAssumption DEF Trim
<1>3. FeedExact
  BY <1>2, IdleTyped DEF TrackerInit, FeedExact, Stage, Empty
<1>4. QED
  BY <1>1, <1>3 DEF FeedInv

\* The call that acts is the only one, and the only one after its step.
LEMMA OnlyOne ==
  ASSUME FeedInv, ~spoiled, NEW c \in Callers,
         caller[c] # Idle \/ (\A d \in Callers \ {c} : caller[d] = Idle),
         \A d \in Callers \ {c} : caller'[d] = caller[d],
         Stage(c)', ~(caller'[c].pc = "write") => feedFile'.rows = Trim(saved') /\ ~feedFile'.torn,
         caller'[c] = Idle /\ loaded' => feed' = Trim(saved')
  PROVE  FeedExact'
<1>1. \A d \in Callers \ {c} : caller'[d] = Idle
  BY DEF FeedInv, FeedExact
<1>2. \A d \in Callers : Stage(d)'
  BY <1>1, IdleTyped DEF Stage
<1>3. AllIdle' => caller'[c] = Idle
  BY DEF AllIdle
<1>4. ~Writing' => ~(caller'[c].pc = "write")
  BY DEF Writing
<1>5. \A x, y \in Callers : caller'[x] # Idle /\ caller'[y] # Idle => x = y
  BY <1>1
<1>6. QED
  BY <1>2, <1>3, <1>4, <1>5 DEF FeedExact

-----------------------------------------------------------------------------
(* Every step keeps the invariant.                                         *)

LEMMA CallKeeps ==
  ASSUME FeedInv, NEW c \in Callers, NEW t \in Trades \union {Read}, Call(c, t)
  PROVE  FeedInv'
<1>1. /\ caller[c] = Idle /\ UNCHANGED <<clock, loaded, feedFile, saved, restarts>>
      /\ spoiled' = (spoiled \/ Others(c)) /\ FeedTyped
  BY DEF Call, FeedInv
<1>2. ~spoiled' => ~spoiled /\ \A d \in Callers \ {c} : caller[d] = Idle
  BY <1>1 DEF Others, FeedTyped
<1>3. CASE ~loaded
  <2>1. /\ caller' = [caller EXCEPT ![c] = [Idle EXCEPT !.pc = "read", !.trade = t]]
        /\ UNCHANGED feed
    BY <1>3 DEF Call
  <2>2. /\ caller' \in CallSet /\ caller'[c].pc = "read"
        /\ \A d \in Callers \ {c} : caller'[d] = caller[d]
    BY <1>1, <2>1, CallBegins
  <2>3. FeedTyped'
    BY <1>1, <2>1, <2>2 DEF FeedTyped
  <2>4. ASSUME ~spoiled' PROVE FeedExact'
    <3>1. ~spoiled /\ AllIdle
      BY <1>1, <1>2, <2>4 DEF AllIdle
    <3>2. ~Writing
      BY <3>1, IdleTyped DEF AllIdle, Writing
    <3>3. feedFile'.rows = Trim(saved') /\ ~feedFile'.torn
      BY <1>1, <3>1, <3>2 DEF FeedInv, FeedExact
    <3>4. Stage(c)'
      BY <2>2 DEF Stage
    <3>5. caller'[c] # Idle
      BY <2>2, IdleTyped
    <3>6. QED
      BY <1>2, <2>2, <2>4, <3>3, <3>4, <3>5, OnlyOne
  <2>5. QED
    BY <2>3, <2>4 DEF FeedInv, FeedExact
<1>4. CASE loaded
  <2>1. Push(c, t) /\ t # Read /\ t \in Trades
    BY <1>4 DEF Call
  <2>2. /\ feed' \in Seq(Trades) /\ caller' \in CallSet
        /\ \A d \in Callers \ {c} : caller'[d] = caller[d]
        /\ \/ feed' = feed /\ caller'[c] = Idle
           \/ /\ feed' = Trim(Append(feed, t))
              /\ caller'[c].pc = "save" /\ caller'[c].trade = t
    BY <1>1, <2>1, PushEffect
  <2>3. FeedTyped'
    BY <1>1, <2>1, <2>2, IdleTyped DEF FeedTyped
  <2>4. ASSUME ~spoiled' PROVE FeedExact'
    <3>1. ~spoiled /\ AllIdle
      BY <1>1, <1>2, <2>4 DEF AllIdle
    <3>2. ~Writing
      BY <3>1, IdleTyped DEF AllIdle, Writing
    <3>3. feedFile'.rows = Trim(saved') /\ ~feedFile'.torn
      BY <1>1, <3>1, <3>2 DEF FeedInv, FeedExact
    <3>4. feed = Trim(saved)
      BY <1>4, <3>1 DEF FeedInv, FeedExact
    <3>5. Trim(Append(feed, t)) = Trim(Append(saved, t))
      BY <1>1, <2>1, <3>4, TrimTwice DEF FeedTyped
    <3>6. Stage(c)' /\ (caller'[c] = Idle => feed' = Trim(saved'))
      BY <1>1, <2>2, <3>4, <3>5, IdleTyped DEF Stage
    <3>7. QED
      BY <1>2, <2>2, <2>4, <3>3, <3>6, OnlyOne
  <2>5. QED
    BY <2>3, <2>4 DEF FeedInv, FeedExact
<1>5. QED
  BY <1>1, <1>3, <1>4 DEF FeedTyped

LEMMA LoadKeeps ==
  ASSUME FeedInv, NEW c \in Callers, ReadFile(c) \/ Load(c) \/ Loaded(c)
  PROVE  FeedInv'
<1>1. FeedTyped /\ UNCHANGED <<feedFile, saved, spoiled>>
  BY DEF FeedInv, ReadFile, Load, Loaded
<1>2. CASE ReadFile(c)
  <2>1. /\ caller[c].pc = "read" /\ UNCHANGED <<feed, loaded>>
        /\ caller' = [caller EXCEPT ![c].pc = "load", ![c].rows = Parsed]
    BY <1>2 DEF ReadFile
  <2>2. PICK rows \in Seq(Trades) : rows = Parsed
    BY <1>1, ParsedTyped
  <2>3. /\ caller' \in CallSet
        /\ \A d \in Callers \ {c} : caller'[d] = caller[d]
        /\ caller'[c].pc = "load" /\ caller'[c].rows = rows
    BY <1>1, <2>1, <2>2, CallGoes
  <2>4. FeedTyped'
    BY <1>1, <2>1, <2>3 DEF FeedTyped
  <2>5. ASSUME ~spoiled PROVE FeedExact'
    <3>1. caller[c] # Idle
      BY <2>1, IdleTyped
    <3>2. ~Writing
      BY <2>1, <2>5, <3>1, IdleTyped DEF FeedInv, FeedExact, Writing
    <3>3. feedFile.rows = Trim(saved) /\ ~feedFile.torn
      BY <2>5, <3>2 DEF FeedInv, FeedExact
    <3>4. rows = Trim(saved)
      BY <2>2, <3>3 DEF Parsed
    <3>5. Stage(c)' /\ caller'[c] # Idle
      BY <1>1, <2>3, <3>4, IdleTyped DEF Stage
    <3>6. QED
      BY <1>1, <2>3, <2>5, <3>1, <3>3, <3>5, OnlyOne
  <2>6. QED
    BY <1>1, <2>4, <2>5 DEF FeedInv, FeedExact
<1>3. CASE Load(c)
  <2>1. /\ caller[c].pc = "load" /\ UNCHANGED loaded /\ feed' = caller[c].rows
        /\ caller' = [caller EXCEPT ![c].pc = "issues", ![c].rows = <<>>]
    BY <1>3 DEF Load
  <2>2. /\ caller' \in CallSet
        /\ \A d \in Callers \ {c} : caller'[d] = caller[d]
        /\ caller'[c].pc = "issues"
    <3>1. <<>> \in Seq(Trades)
      OBVIOUS
    <3>2. QED
      BY <1>1, <2>1, <3>1, CallGoes
  <2>3. FeedTyped'
    BY <1>1, <2>1, <2>2 DEF FeedTyped, CallSet
  <2>4. ASSUME ~spoiled PROVE FeedExact'
    <3>1. caller[c] # Idle
      BY <2>1, IdleTyped
    <3>2. ~Writing
      BY <2>1, <2>4, <3>1, IdleTyped DEF FeedInv, FeedExact, Writing
    <3>3. feedFile.rows = Trim(saved) /\ ~feedFile.torn
      BY <2>4, <3>2 DEF FeedInv, FeedExact
    <3>4. feed' = Trim(saved)
      BY <2>1, <2>4 DEF FeedInv, FeedExact, Stage
    <3>5. Stage(c)' /\ caller'[c] # Idle
      BY <1>1, <2>2, <3>4, IdleTyped DEF Stage
    <3>6. QED
      BY <1>1, <2>2, <2>4, <3>1, <3>3, <3>5, OnlyOne
  <2>5. QED
    BY <1>1, <2>3, <2>4 DEF FeedInv, FeedExact
<1>4. CASE Loaded(c)
  <2>1. /\ caller[c].pc = "issues" /\ loaded' = TRUE
        /\ \/ feed' = feed /\ caller' = [caller EXCEPT ![c] = Idle]
           \/ caller[c].trade # Read /\ Push(c, caller[c].trade)
    BY <1>4 DEF Loaded
  <2>2. PICK t \in Trades \union {Read} : t = caller[c].trade
    BY <1>1 DEF FeedTyped, CallSet
  <2>3. /\ feed' \in Seq(Trades) /\ caller' \in CallSet
        /\ \A d \in Callers \ {c} : caller'[d] = caller[d]
        /\ \/ feed' = feed /\ caller'[c] = Idle
           \/ /\ t \in Trades /\ feed' = Trim(Append(feed, t))
              /\ caller'[c].pc = "save" /\ caller'[c].trade = t
    <3>1. CASE feed' = feed /\ caller' = [caller EXCEPT ![c] = Idle]
      BY <1>1, <3>1, CallEnds DEF FeedTyped
    <3>2. CASE t \in Trades /\ Push(c, t)
      BY <1>1, <3>2, PushEffect
    <3>3. QED
      BY <2>1, <2>2, <3>1, <3>2
  <2>4. FeedTyped'
    BY <1>1, <2>1, <2>3, IdleTyped DEF FeedTyped
  <2>5. ASSUME ~spoiled PROVE FeedExact'
    <3>1. caller[c] # Idle
      BY <2>1, IdleTyped
    <3>2. ~Writing
      BY <2>1, <2>5, <3>1, IdleTyped DEF FeedInv, FeedExact, Writing
    <3>3. feedFile.rows = Trim(saved) /\ ~feedFile.torn
      BY <2>5, <3>2 DEF FeedInv, FeedExact
    <3>4. feed = Trim(saved)
      BY <2>1, <2>5 DEF FeedInv, FeedExact, Stage
    <3>5. t \in Trades => Trim(Append(feed, t)) = Trim(Append(saved, t))
      BY <1>1, <3>4, TrimTwice DEF FeedTyped
    <3>6. Stage(c)' /\ (caller'[c] = Idle => feed' = Trim(saved'))
      BY <1>1, <2>3, <3>4, <3>5, IdleTyped DEF Stage
    <3>7. QED
      BY <1>1, <2>3, <2>5, <3>1, <3>3, <3>6, OnlyOne
  <2>6. QED
    BY <1>1, <2>4, <2>5 DEF FeedInv, FeedExact
<1>5. QED
  BY <1>2, <1>3, <1>4

LEMMA SaveKeeps ==
  ASSUME FeedInv, NEW c \in Callers, OpenFile(c) \/ WriteFile(c)
  PROVE  FeedInv'
<1>1. FeedTyped /\ UNCHANGED <<feed, loaded, spoiled>>
  BY DEF FeedInv, OpenFile, WriteFile
<1>2. CASE OpenFile(c)
  <2>1. /\ caller[c].pc = "save" /\ UNCHANGED saved
        /\ caller' = [caller EXCEPT ![c].pc = "write", ![c].rows = feed]
        /\ feedFile' = [rows |-> <<>>, size |-> 0, torn |-> TRUE]
    BY <1>2 DEF OpenFile
  <2>2. /\ caller' \in CallSet
        /\ \A d \in Callers \ {c} : caller'[d] = caller[d]
        /\ caller'[c].pc = "write" /\ caller'[c].rows = feed
        /\ caller'[c].trade = caller[c].trade
    BY <1>1, <2>1, CallGoes DEF FeedTyped
  <2>3. FeedTyped'
    <3>1. feedFile' \in [rows : Seq(Trades), size : Nat, torn : BOOLEAN]
      BY <2>1
    <3>2. caller'[c].trade \in Trades
      BY <1>1, <2>1, <2>2 DEF FeedTyped
    <3>3. QED
      BY <1>1, <2>1, <2>2, <3>1, <3>2 DEF FeedTyped
  <2>4. ASSUME ~spoiled PROVE FeedExact'
    <3>1. caller[c] # Idle /\ caller'[c] # Idle
      BY <2>1, <2>2, IdleTyped
    <3>2. feed = Trim(Append(saved, caller[c].trade))
      BY <2>1, <2>4 DEF FeedInv, FeedExact, Stage
    <3>3. Stage(c)'
      BY <1>1, <2>1, <2>2, <3>2 DEF Stage
    <3>4. QED
      BY <1>1, <2>2, <2>4, <3>1, <3>3, OnlyOne
  <2>5. QED
    BY <1>1, <2>3, <2>4 DEF FeedInv, FeedExact
<1>3. CASE WriteFile(c)
  <2>1. PICK rows \in Seq(Trades), n \in Nat : rows = caller[c].rows /\ n = Len(rows)
    BY <1>1 DEF FeedTyped, CallSet
  <2>2. PICK size \in Nat : size = IF n < feedFile.size THEN feedFile.size ELSE n
    BY <1>1 DEF FeedTyped
  <2>3. /\ caller[c].pc = "write" /\ caller[c].trade \in Trades
        /\ caller' = [caller EXCEPT ![c] = Idle]
        /\ feedFile' = [rows |-> rows, torn |-> n < feedFile.size, size |-> size]
        /\ saved' = Append(saved, caller[c].trade)
    BY <1>1, <1>3, <2>1, <2>2 DEF WriteFile, FeedTyped
  <2>4. /\ caller' \in CallSet /\ caller'[c] = Idle
        /\ \A d \in Callers \ {c} : caller'[d] = caller[d]
    BY <1>1, <2>3, CallEnds
  <2>5. feedFile' \in [rows : Seq(Trades), size : Nat, torn : BOOLEAN]
    BY <2>3
  <2>6. FeedTyped'
    BY <1>1, <2>3, <2>4, <2>5, IdleTyped DEF FeedTyped
  <2>7. ASSUME ~spoiled PROVE FeedExact'
    <3>1. caller[c] # Idle
      BY <2>3, IdleTyped
    <3>2. feed = Trim(saved') /\ rows = feed /\ feedFile.size = 0
      BY <2>1, <2>3, <2>7 DEF FeedInv, FeedExact, Stage
    <3>3. ~(n < feedFile.size)
      BY <3>2
    <3>4. feedFile'.rows = Trim(saved') /\ ~feedFile'.torn
      BY <2>3, <3>2, <3>3
    <3>5. Stage(c)'
      BY <2>4, IdleTyped DEF Stage
    <3>6. QED
      BY <1>1, <2>4, <2>7, <3>1, <3>2, <3>4, <3>5, OnlyOne
  <2>8. QED
    BY <1>1, <2>6, <2>7 DEF FeedInv, FeedExact
<1>4. QED
  BY <1>2, <1>3

LEMMA LoadSyncKeeps ==
  ASSUME FeedInv, LoadSync
  PROVE  FeedInv'
<1>1. /\ ~feedFile.torn /\ loaded' = TRUE /\ feed' = feedFile.rows
      /\ UNCHANGED <<feedFile, caller, saved>> /\ FeedTyped
      /\ spoiled' = (spoiled \/ \E c \in Callers : caller[c] # Idle)
  BY DEF LoadSync, FeedInv
<1>2. FeedTyped'
  BY <1>1 DEF FeedTyped
<1>3. ASSUME ~spoiled' PROVE FeedExact'
  <2>1. ~spoiled /\ \A c \in Callers : caller'[c] = Idle
    BY <1>1, <1>3 DEF FeedTyped
  <2>2. ~Writing
    BY <1>1, <2>1, IdleTyped DEF Writing
  <2>3. feed' = Trim(saved') /\ feedFile'.rows = Trim(saved') /\ ~feedFile'.torn
    BY <1>1, <2>1, <2>2 DEF FeedInv, FeedExact
  <2>4. \A c \in Callers : Stage(c)'
    BY <2>1, IdleTyped DEF Stage
  <2>5. QED
    BY <2>1, <2>3, <2>4 DEF FeedExact
<1>4. QED
  BY <1>2, <1>3 DEF FeedInv, FeedExact

LEMMA RestartKeeps ==
  ASSUME FeedInv, Restart
  PROVE  FeedInv'
<1>1. /\ feed' = <<>> /\ loaded' = FALSE /\ caller' = [c \in Callers |-> Idle]
      /\ spoiled' = (spoiled \/ \E c \in Callers : caller[c].pc = "write")
      /\ UNCHANGED <<feedFile, saved>> /\ FeedTyped
  BY DEF Restart, FeedInv
<1>2. FeedTyped'
  BY <1>1, IdleTyped DEF FeedTyped, CallSet
<1>3. ASSUME ~spoiled' PROVE FeedExact'
  <2>1. ~spoiled /\ ~Writing
    BY <1>1, <1>3 DEF FeedTyped, Writing
  <2>2. feedFile'.rows = Trim(saved') /\ ~feedFile'.torn
    BY <1>1, <2>1 DEF FeedInv, FeedExact
  <2>3. \A c \in Callers : caller'[c] = Idle /\ Stage(c)'
    BY <1>1, IdleTyped DEF Stage
  <2>4. QED
    BY <1>1, <2>2, <2>3 DEF FeedExact
<1>4. QED
  BY <1>2, <1>3 DEF FeedInv, FeedExact

LEMMA FeedStep == FeedInv /\ [TrackerNext]_trackerVars => FeedInv'
<1> SUFFICES ASSUME FeedInv, [TrackerNext]_trackerVars PROVE FeedInv'
  OBVIOUS
<1>1. CASE ClockTicks \/ UNCHANGED trackerVars
  <2>1. UNCHANGED <<feed, loaded, feedFile, caller, saved, spoiled>>
    BY <1>1 DEF ClockTicks, trackerVars
  <2>2. QED
    BY <2>1 DEF FeedInv, FeedTyped, FeedExact, Stage, Writing, AllIdle
<1>2. CASE LoadSync
  BY <1>2, LoadSyncKeeps
<1>3. CASE Restart
  BY <1>3, RestartKeeps
<1>4. ASSUME NEW c \in Callers, NEW t \in Trades \union {Read}, Call(c, t) PROVE FeedInv'
  BY <1>4, CallKeeps
<1>5. ASSUME NEW c \in Callers, ReadFile(c) \/ Load(c) \/ Loaded(c) PROVE FeedInv'
  BY <1>5, LoadKeeps
<1>6. ASSUME NEW c \in Callers, OpenFile(c) \/ WriteFile(c) PROVE FeedInv'
  BY <1>6, SaveKeeps
<1>7. QED
  BY <1>1, <1>2, <1>3, <1>4, <1>5, <1>6 DEF TrackerNext

\* saveMetrics, for any number of calls and records: whatever is read, dropped
\* as a duplicate or trimmed, and whenever the process restarts, the file holds
\* the last records that were saved, unless two calls overlapped or the process
\* died while the file was being written.
THEOREM FeedIsKept == TrackerSpec => []FeedKept
<1>1. ASSUME FeedInv PROVE FeedKept
  <2>1. FeedTyped
    BY <1>1 DEF FeedInv
  <2>2. PICK a \in Seq(Trades) : a = Trim(saved)
    BY <2>1, TrimProperties DEF FeedTyped
  <2>3. IsSuffix(a, a)
    BY SuffixOfItself
  <2>4. spoiled \/ feedFile.rows = a \/ Writing
    BY <1>1, <2>2 DEF FeedInv, FeedExact
  <2>5. QED
    BY <2>2, <2>3, <2>4 DEF FeedKept, Writing
<1>2. QED
  BY <1>1, FeedStart, FeedStep, PTL DEF TrackerSpec

-----------------------------------------------------------------------------
(***************************************************************************)
(* TradingWallets, for any wallets, keys, requests and failures.           *)
(*                                                                         *)
(* Why the key file, the clients and the assignments fit the list: what a  *)
(* request has written and what it is about to write is vouched for, by    *)
(* the list, by another request or by a cause that the properties except;  *)
(* an unlock that ended well has a client for every wallet it read.        *)
(***************************************************************************)

(* Bags.                                                                   *)

\* The elements of a union of bags; those that are left are some of them.
LEMMA BagUnionElements ==
  ASSUME NEW A, NEW B
  PROVE  DOMAIN (A (+) B) = DOMAIN A \union DOMAIN B
BY DEF (+)

LEMMA BagRestElements ==
  ASSUME NEW A, NEW B
  PROVE  DOMAIN (A (-) B) \subseteq DOMAIN A
BY DEF (-)

\* An element that is added.
LEMMA AddedElements ==
  ASSUME NEW B, NEW q
  PROVE  /\ DOMAIN (B (+) SetToBag({q})) = DOMAIN B \union {q}
         /\ \A e \in DOMAIN B \ {q} : B[e] \in Int => (B (+) SetToBag({q}))[e] = B[e]
         /\ q \notin DOMAIN B => (B (+) SetToBag({q}))[q] = 1
<1>1. PICK A : A = SetToBag({q})
  OBVIOUS
<1>2. DOMAIN A = {q} /\ A[q] = 1
  BY <1>1 DEF SetToBag
<1>3. /\ DOMAIN (B (+) A) = DOMAIN B \union DOMAIN A
      /\ \A e \in DOMAIN B \union DOMAIN A :
           (B (+) A)[e] = (IF e \in DOMAIN B THEN B[e] ELSE 0)
                            + (IF e \in DOMAIN A THEN A[e] ELSE 0)
  BY DEF (+)
<1>4. \A e \in DOMAIN B \ {q} : B[e] \in Int => (B (+) A)[e] = B[e]
  <2>1. SUFFICES ASSUME NEW e \in DOMAIN B \ {q}, B[e] \in Int PROVE (B (+) A)[e] = B[e]
    OBVIOUS
  <2>2. PICK n \in Int : n = B[e]
    BY <2>1
  <2>3. (B (+) A)[e] = n + 0
    BY <1>2, <1>3, <2>1, <2>2
  <2>4. QED
    BY <2>2, <2>3
<1>5. q \notin DOMAIN B => (B (+) A)[q] = 1
  <2>1. q \notin DOMAIN B => (B (+) A)[q] = 0 + 1
    BY <1>2, <1>3
  <2>2. QED
    BY <2>1
<1>6. DOMAIN (B (+) A) = DOMAIN B \union {q}
  BY <1>2, <1>3
<1>7. QED
  BY <1>1, <1>4, <1>5, <1>6

\* One of an element is taken.
LEMMA RestElements ==
  ASSUME NEW B, NEW r
  PROVE  /\ DOMAIN (B (-) SetToBag({r})) \subseteq DOMAIN B
         /\ DOMAIN B \ {r} \subseteq DOMAIN B
         /\ \A e \in DOMAIN (B (-) SetToBag({r})) :
              e # r => (B (-) SetToBag({r}))[e] = B[e]
         /\ B[r] = 1 => r \notin DOMAIN (B (-) SetToBag({r}))
<1>1. PICK A : A = SetToBag({r})
  OBVIOUS
<1>2. DOMAIN A = {r} /\ A[r] = 1
  BY <1>1 DEF SetToBag
<1>3. PICK C : C = [e \in DOMAIN B |-> IF e \in DOMAIN A THEN B[e] - A[e] ELSE B[e]]
  OBVIOUS
<1>4. B (-) A = [e \in {d \in DOMAIN C : C[d] > 0} |-> C[e]]
  BY <1>3 DEF (-)
<1>5. QED
  BY <1>1, <1>2, <1>3, <1>4

\* What Keep does to the requests under way.
LEMMA KeepElements ==
  ASSUME NEW B, NEW l, NEW a,
         \A q \in DOMAIN B : q.pc = "dir" => Fixed(q, l, a).pc = "dir"
  PROVE  /\ \A e \in DOMAIN Keep(B, l, a) :
              \/ e \in DOMAIN B /\ e.pc # "dir"
              \/ \E q \in DOMAIN B : q.pc = "dir" /\ e = Fixed(q, l, a)
         /\ \A e \in DOMAIN B : e.pc # "dir" /\ B[e] \in Int => Keep(B, l, a)[e] = B[e]
<1>1. PICK waiting : waiting = {q \in BagToSet(B) : q.pc = "dir"}
  OBVIOUS
<1>2. PICK C : C = [q \in BagToSet(B) \ waiting |-> B[q]]
  OBVIOUS
<1>3. PICK D : D = BagOfAll(LAMBDA q : Fixed(q, l, a), [q \in waiting |-> B[q]])
  OBVIOUS
<1>4. Keep(B, l, a) = C (+) D
  BY <1>1, <1>2, <1>3 DEF Keep
<1>5. DOMAIN D = {Fixed(q, l, a) : q \in waiting}
  BY <1>3 DEF BagOfAll, BagToSet
<1>6. \A e \in DOMAIN D : e.pc = "dir"
  BY <1>1, <1>5 DEF BagToSet
<1>7. DOMAIN C = {q \in DOMAIN B : q.pc # "dir"} /\ \A e \in DOMAIN C : C[e] = B[e]
  BY <1>1, <1>2 DEF BagToSet
<1>8. DOMAIN (C (+) D) = DOMAIN C \union DOMAIN D
  BY BagUnionElements
<1>9. \A e \in DOMAIN C : e \notin DOMAIN D /\ C[e] \in Int => (C (+) D)[e] = C[e]
  BY DEF (+)
<1>10. QED
  BY <1>1, <1>4, <1>5, <1>6, <1>7, <1>8, <1>9 DEF BagToSet

-----------------------------------------------------------------------------
(* Lists of wallets.                                                       *)

LEMMA MinIn ==
  ASSUME NEW s \in SUBSET Nat, s # {}
  PROVE  Min(s) \in s
<1>1. PICK m \in s : \A y \in s : m <= y
  BY LeastNumber
<1>2. QED
  BY <1>1 DEF Min

\* First finds an entry of the wallet.
LEMMA FirstFinds ==
  ASSUME NEW T, NEW l \in Seq(T), NEW id, id \in Listed(l)
  PROVE  First(l, id) \in DOMAIN l /\ l[First(l, id)].id = id /\ First(l, id) \in Nat
<1>1. PICK I : I = {i \in 1 .. Len(l) : l[i].id = id}
  OBVIOUS
<1>2. I # {} /\ I \in SUBSET Nat
  BY <1>1 DEF Listed, Range
<1>3. First(l, id) = Min(I)
  BY <1>1, <1>2 DEF First, SelectInSeq
<1>4. First(l, id) \in I
  BY <1>2, <1>3, MinIn
<1>5. DOMAIN l = 1 .. Len(l) /\ Len(l) \in Nat
  OBVIOUS
<1>6. QED
  BY <1>1, <1>2, <1>4, <1>5

\* A list with one more entry.
LEMMA AppendLists ==
  ASSUME NEW T, NEW l \in Seq(T), NEW w \in T
  PROVE  /\ Append(l, w) \in Seq(T)
         /\ Listed(l) \subseteq Listed(Append(l, w))
<1>1. /\ Append(l, w) \in Seq(T) /\ DOMAIN l \subseteq DOMAIN Append(l, w)
      /\ \A i \in DOMAIN l : Append(l, w)[i] = l[i]
  OBVIOUS
<1>2. QED
  BY <1>1 DEF Listed, Range

\* A list with one entry less.
LEMMA RemoveLists ==
  ASSUME NEW T, NEW l \in Seq(T), NEW i \in DOMAIN l
  PROVE  /\ RemoveAt(l, i) \in Seq(T)
         /\ Listed(l) \ {l[i].id} \subseteq Listed(RemoveAt(l, i))
<1>1. PICK n \in Nat : n = Len(l)
  OBVIOUS
<1>2. i \in 1 .. n
  BY <1>1
<1>3. PICK a, b : a = SubSeq(l, 1, i - 1) /\ b = SubSeq(l, i + 1, n)
  OBVIOUS
<1>4. a \in Seq(T) /\ Len(a) = i - 1 /\ \A j \in 1 .. i - 1 : a[j] = l[j]
  <2>1. \A j \in 1 .. i - 1 : j \in 1 .. Len(l)
    BY <1>1, <1>2
  <2>2. QED
    BY <1>1, <1>2, <1>3, <2>1
<1>5. b \in Seq(T) /\ Len(b) = n - i /\ \A j \in 1 .. n - i : b[j] = l[i + j]
  <2>1. \A j \in i + 1 .. n : j \in 1 .. Len(l)
    BY <1>1, <1>2
  <2>2. QED
    BY <1>1, <1>2, <1>3, <2>1
<1>6. PICK c : c = a \o b
  OBVIOUS
<1>7. /\ c \in Seq(T) /\ Len(c) = n - 1
      /\ \A j \in 1 .. i - 1 : c[j] = l[j]
      /\ \A j \in i .. n - 1 : c[j] = l[j + 1]
  <2>1. /\ c \in Seq(T) /\ Len(c) = Len(a) + Len(b)
        /\ \A j \in 1 .. Len(a) + Len(b) :
             c[j] = IF j <= Len(a) THEN a[j] ELSE b[j - Len(a)]
    BY <1>4, <1>5, <1>6, ConcatProperties
  <2>2. \A j \in 1 .. n - 1 : c[j] = IF j <= i - 1 THEN a[j] ELSE b[j - (i - 1)]
    <3>1. Len(a) + Len(b) = n - 1
      <4>1. PICK x \in Int, y \in Int : x = i - 1 /\ y = n - i /\ i \in Int
        BY <1>1, <1>2
      <4>2. Len(a) = x /\ Len(b) = y
        BY <1>4, <1>5, <4>1
      <4>3. QED
        BY SMTT(30), <1>1, <4>1, <4>2
    <3>2. QED
      BY <1>4, <2>1, <3>1
  <2>3. \A j \in 1 .. i - 1 : c[j] = l[j]
    BY <1>1, <1>2, <1>4, <2>2
  <2>4. \A j \in i .. n - 1 : c[j] = l[j + 1]
    <3> TAKE j \in i .. n - 1
    <3>1. c[j] = b[j - (i - 1)] /\ j - (i - 1) \in 1 .. n - i
      BY <1>1, <1>2, <2>2
    <3>2. c[j] = l[i + (j - (i - 1))] /\ i + (j - (i - 1)) = j + 1
      BY <1>1, <1>2, <1>5, <3>1
    <3>3. QED
      BY <3>2
  <2>5. QED
    BY <1>1, <1>2, <1>4, <1>5, <2>1, <2>3, <2>4
<1>8. c = RemoveAt(l, i)
  BY <1>1, <1>3, <1>6 DEF RemoveAt
<1>9. \A j \in DOMAIN l \ {i} : \E k \in DOMAIN c : c[k] = l[j]
  <2> TAKE j \in DOMAIN l \ {i}
  <2>1. CASE j < i
    BY <1>1, <1>2, <1>7, <2>1
  <2>2. CASE j > i
    <3>1. j - 1 \in i .. n - 1 /\ j - 1 \in DOMAIN c /\ j - 1 + 1 = j
      BY <1>1, <1>2, <1>7, <2>2
    <3>2. QED
      BY <1>7, <3>1
  <2>3. QED
    BY <1>1, <1>2, <2>1, <2>2
<1>10. QED
  BY <1>7, <1>8, <1>9 DEF Listed, Range

-----------------------------------------------------------------------------
(* What the lists, the keys and the requests are made of.                  *)

Entries == [id : Ids, key : PrivateKeys]
Ties    == Addresses \X Ids

\* Entries a keystore file was written for, and those of wallets that were
\* removed, or added twice at a time.
Vouched == {w \in Entries : w \in stored \/ w.id \in removed \union contested}

\* What a request may await.
Holds == {"access", "keyfile", "credfile", "client"}
WalletWaits == {"load", "dir", "write", "newcreds", "read", "unlink", "unlinkcreds", "unlock"}

Fields(W) == [pc : Holds \union WalletWaits, id : Ids \union {""},
              key : PrivateKeys \union {""}, at : Nat,
              list : SUBSET Seq(W), assigned : SUBSET SUBSET Ties, todo : SUBSET Ids]

\* Requests whose lists and keys are of W.
Requests(W) == {r \in Fields(W) :
  /\ r.pc \in {"access", "keyfile"} => Entry(r.id, r.key) \in Entries
  /\ r.pc \in {"credfile", "client"} => Entry(r.id, r.key) \in W}

Signs(f, W) == DOMAIN f \subseteq Ids /\ \A i \in DOMAIN f : Entry(i, f[i]) \in W

ListsIn(W)   == /\ list \in Seq(W) /\ assigned \in SUBSET Ties /\ known \in BOOLEAN
                /\ disk \in [list : Seq(W), assigned : SUBSET Ties]
KeysIn(W)    == Signs(keystore, W) /\ Signs(signers, W) /\ Signs(clients, W)
PendingIn(W) == DOMAIN pending \subseteq Requests(W)
AllIn(W)     == W \subseteq Entries /\ ListsIn(W) /\ KeysIn(W) /\ PendingIn(W)

LEMMA EntryFields ==
  ASSUME NEW W, W \subseteq Entries, NEW i, NEW k
  PROVE  /\ Entry(i, k).id = i /\ Entry(i, k).key = k
         /\ Entry(i, k) \in W => i \in Ids /\ k \in PrivateKeys
         /\ i \in Ids /\ k \in PrivateKeys => Entry(i, k) \in Entries
         /\ \A w \in W : w = Entry(w.id, w.key)
BY DEF Entry, Entries

LEMMA RequestFields ==
  ASSUME NEW W, NEW p \in Holds \union WalletWaits
  PROVE  /\ Request(p) \in Fields(W) /\ Request(p).pc = p
         /\ Request(p).list = {} /\ Request(p).assigned = {}
BY DEF Request, Fields

LEMMA RequestIn ==
  ASSUME NEW W, NEW p \in WalletWaits
  PROVE  Request(p) \in Requests(W)
<1>1. p \notin Holds /\ p \in Holds \union WalletWaits
  BY DEF Holds, WalletWaits
<1>2. QED
  BY <1>1, RequestFields DEF Requests, Holds

\* A request that awaits something else.
LEMMA AwaitFields ==
  ASSUME NEW W, NEW r \in Fields(W), NEW p \in Holds \union WalletWaits
  PROVE  /\ [r EXCEPT !.pc = p] \in Fields(W)
         /\ [r EXCEPT !.pc = p].pc = p /\ [r EXCEPT !.pc = p].id = r.id
         /\ [r EXCEPT !.pc = p].key = r.key /\ [r EXCEPT !.pc = p].list = r.list
         /\ [r EXCEPT !.pc = p].assigned = r.assigned
BY DEF Fields

LEMMA IdFields ==
  ASSUME NEW W, NEW r \in Fields(W), NEW id \in Ids
  PROVE  /\ [r EXCEPT !.id = id] \in Fields(W) /\ [r EXCEPT !.id = id].pc = r.pc
         /\ [r EXCEPT !.id = id].list = r.list
BY DEF Fields

LEMMA TodoFields ==
  ASSUME NEW W, NEW r \in Fields(W), NEW todo \in SUBSET Ids
  PROVE  /\ [r EXCEPT !.todo = todo] \in Fields(W)
         /\ [r EXCEPT !.todo = todo].pc = r.pc /\ [r EXCEPT !.todo = todo].id = r.id
         /\ [r EXCEPT !.todo = todo].key = r.key /\ [r EXCEPT !.todo = todo].list = r.list
BY DEF Fields

LEMMA CarryingFields ==
  ASSUME NEW W, NEW p \in WalletWaits,
         NEW m \in [list : Seq(W), assigned : SUBSET Ties]
  PROVE  /\ Carrying(p, m) \in Requests(W) /\ Carrying(p, m).pc = p
         /\ Carrying(p, m).list = {m.list} /\ Carrying(p, m).assigned = {m.assigned}
<1>1. ASSUME NEW r \in Fields(W), r.pc = p
      PROVE  LET q == [r EXCEPT !.list = {m.list}, !.assigned = {m.assigned}] IN
             /\ q \in Fields(W) /\ q.pc = p
             /\ q.list = {m.list} /\ q.assigned = {m.assigned}
  BY <1>1 DEF Fields
<1>2. QED
  BY <1>1, RequestFields DEF Carrying, Requests, Holds, WalletWaits

LEMMA FixedFields ==
  ASSUME NEW W, NEW r \in Requests(W), r.pc = "dir",
         NEW l \in SUBSET Seq(W), NEW a \in SUBSET SUBSET Ties
  PROVE  /\ Fixed(r, l, a) \in Requests(W) /\ Fixed(r, l, a).pc = "dir"
         /\ Fixed(r, l, a).list = IF r.list = {} THEN l ELSE r.list
         /\ Fixed(r, l, a).assigned = IF r.assigned = {} THEN a ELSE r.assigned
<1>1. PICK x \in SUBSET Seq(W), y \in SUBSET SUBSET Ties :
        /\ x = IF r.list = {} THEN l ELSE r.list
        /\ y = IF r.assigned = {} THEN a ELSE r.assigned
  BY DEF Requests, Fields
<1>2. LET q == [r EXCEPT !.list = x, !.assigned = y] IN
      q \in Fields(W) /\ q.pc = "dir" /\ q.list = x /\ q.assigned = y
  BY DEF Requests, Fields
<1>3. Fixed(r, l, a) = [r EXCEPT !.list = x, !.assigned = y]
  BY <1>1 DEF Fixed, Requests, Fields
<1>4. QED
  BY <1>1, <1>2, <1>3 DEF Requests

-----------------------------------------------------------------------------
(* Every key that the memory, the files and the requests hold is vouched   *)
(* for.                                                                    *)

LEMMA SequenceIn ==
  ASSUME NEW V, NEW W, V \subseteq W, NEW s \in Seq(V)
  PROVE  s \in Seq(W)
<1>1. \A i \in 1 .. Len(s) : s[i] \in W
  OBVIOUS
<1>2. QED
  BY <1>1

LEMMA AllInMore ==
  ASSUME NEW V, NEW W, V \subseteq W, W \subseteq Entries, AllIn(V)
  PROVE  AllIn(W)
<1>1. \A s \in Seq(V) : s \in Seq(W)
  BY SequenceIn
<1>2. \A r \in Requests(V) : r \in Requests(W)
  <2>1. \A r \in Fields(V) : r \in Fields(W)
    BY <1>1 DEF Fields
  <2>2. QED
    BY <2>1 DEF Requests
<1>3. QED
  BY <1>1, <1>2 DEF AllIn, ListsIn, KeysIn, Signs, PendingIn

LEMMA SignsWith ==
  ASSUME NEW W, W \subseteq Entries, NEW f, Signs(f, W), NEW i, NEW k, Entry(i, k) \in W
  PROVE  Signs(With(f, i, k), W) /\ DOMAIN With(f, i, k) = DOMAIN f \union {i}
<1>1. i \in Ids
  BY EntryFields
<1>2. DOMAIN With(f, i, k) = DOMAIN f \union {i}
  BY DEF With
<1>3. ASSUME NEW j \in DOMAIN f \union {i}
      PROVE  Entry(j, With(f, i, k)[j]) \in W
  <2>1. With(f, i, k)[j] = IF j = i THEN k ELSE f[j]
    BY DEF With
  <2>2. CASE j = i
    BY <2>1, <2>2
  <2>3. CASE j # i
    BY <2>1, <2>3 DEF Signs
  <2>4. QED
    BY <2>2, <2>3
<1>4. QED
  BY <1>1, <1>2, <1>3 DEF Signs

LEMMA SignsWithout ==
  ASSUME NEW W, NEW f, Signs(f, W), NEW i
  PROVE  Signs(Without(f, i), W) /\ DOMAIN Without(f, i) = DOMAIN f \ {i}
<1>1. /\ DOMAIN Without(f, i) = DOMAIN f \ {i}
      /\ \A j \in DOMAIN f \ {i} : Without(f, i)[j] = f[j]
  BY DEF Without
<1>2. QED
  BY <1>1 DEF Signs

\* The lists of now, whether they are in memory or have to be loaded.
LEMMA NowIn ==
  ASSUME NEW W, ListsIn(W)
  PROVE  /\ Now \in [list : Seq(W), assigned : SUBSET Ties]
         /\ Now.list = (IF known THEN list ELSE disk.list)
         /\ Now.assigned = (IF known THEN assigned ELSE disk.assigned)
BY DEF ListsIn, Now, Config

LEMMA NowIsIn ==
  ASSUME NEW W, ListsIn(W), NEW m \in [list : Seq(W), assigned : SUBSET Ties],
         NowIs(m), UNCHANGED disk
  PROVE  ListsIn(W)'
BY DEF ListsIn, NowIs

\* Requests that come and go.
LEMMA AddedIn ==
  ASSUME NEW S, NEW B, DOMAIN B \subseteq S, NEW q \in S
  PROVE  DOMAIN (B (+) SetToBag({q})) \subseteq S
<1>1. DOMAIN (B (+) SetToBag({q})) = DOMAIN B \union {q}
  BY AddedElements
<1>2. QED
  BY <1>1

LEMMA StartsIn ==
  ASSUME NEW W, PendingIn(W), NEW q \in Requests(W), Starts(q)
  PROVE  PendingIn(W)'
BY AddedIn DEF PendingIn, Starts

LEMMA GoesIn ==
  ASSUME NEW W, PendingIn(W), NEW r, NEW q \in Requests(W), Goes(r, q)
  PROVE  PendingIn(W)'
<1>1. DOMAIN OtherRequests(r) \subseteq Requests(W)
  BY RestElements DEF PendingIn, OtherRequests
<1>2. QED
  BY <1>1, AddedIn DEF PendingIn, Goes

LEMMA EndsIn ==
  ASSUME NEW W, PendingIn(W), NEW r, Ends(r)
  PROVE  PendingIn(W)'
BY RestElements DEF PendingIn, Ends, OtherRequests

LEMMA OthersIn ==
  ASSUME NEW W, PendingIn(W), NEW r
  PROVE  DOMAIN OtherRequests(r) \subseteq Requests(W)
BY RestElements DEF PendingIn, OtherRequests

LEMMA KeepIn ==
  ASSUME NEW W, NEW B, DOMAIN B \subseteq Requests(W),
         NEW l \in SUBSET Seq(W), NEW a \in SUBSET SUBSET Ties
  PROVE  DOMAIN Keep(B, l, a) \subseteq Requests(W)
<1>1. \A q \in DOMAIN B : q.pc = "dir" =>
        Fixed(q, l, a) \in Requests(W) /\ Fixed(q, l, a).pc = "dir"
  BY FixedFields
<1>2. \A e \in DOMAIN Keep(B, l, a) :
        \/ e \in DOMAIN B /\ e.pc # "dir"
        \/ \E q \in DOMAIN B : q.pc = "dir" /\ e = Fixed(q, l, a)
  BY <1>1, KeepElements
<1>3. QED
  BY <1>1, <1>2

\* What a change of the lists leaves.
LEMMA SaveEffect ==
  ASSUME NEW B, NEW l, NEW a, ChangeAndSave(B, l, a)
  PROVE  /\ list' = l /\ assigned' = a /\ known' = TRUE
         /\ disk' = disk \/ disk' = Config(l, a)
         /\ \/ pending' = B
            \/ ~AtomicStorage /\ pending' = B (+) SetToBag({Request("load")})
<1>1. list' = l /\ assigned' = a /\ known' = TRUE
  BY DEF ChangeAndSave, NowIs, Config
<1>2. QED
  BY <1>1 DEF ChangeAndSave

LEMMA SaveIn ==
  ASSUME NEW W, ListsIn(W), NEW B, DOMAIN B \subseteq Requests(W),
         NEW l \in Seq(W), NEW a \in SUBSET Ties, ChangeAndSave(B, l, a)
  PROVE  ListsIn(W)' /\ PendingIn(W)'
<1>1. /\ list' = l /\ assigned' = a /\ known' = TRUE
      /\ disk' = disk \/ disk' = Config(l, a)
      /\ pending' = B \/ pending' = B (+) SetToBag({Request("load")})
  BY SaveEffect
<1>2. Config(l, a) \in [list : Seq(W), assigned : SUBSET Ties]
  BY DEF Config
<1>3. ListsIn(W)'
  BY <1>1, <1>2 DEF ListsIn
<1>4. Request("load") \in Requests(W)
  <2>1. "load" \in WalletWaits
    BY DEF WalletWaits
  <2>2. QED
    BY <2>1, RequestIn
<1>5. PendingIn(W)'
  <2>1. DOMAIN (B (+) SetToBag({Request("load")})) \subseteq Requests(W)
    BY <1>4, AddedIn
  <2>2. QED
    BY <1>1, <2>1 DEF PendingIn
<1>6. QED
  BY <1>3, <1>5

-----------------------------------------------------------------------------
(* The steps of a request.                                                 *)

\* A request that waits for bot_config.
LEMMA SaveStepIn ==
  ASSUME NEW W, AllIn(W), NEW r \in DOMAIN pending,
         SaveLoads(r) \/ SaveFormats(r) \/ SaveWrites(r) \/ WriteFails(r) \/ RereadEnds(r)
  PROVE  AllIn(W)'
<1>1. /\ W \subseteq Entries /\ ListsIn(W) /\ KeysIn(W) /\ PendingIn(W)
      /\ r \in Requests(W) /\ r \in Fields(W)
  BY DEF AllIn, PendingIn, Requests
<1>2. CASE SaveLoads(r)
  <2>1. Request("dir") \in Requests(W)
    <3>1. "dir" \in WalletWaits
      BY DEF WalletWaits
    <3>2. QED
      BY <3>1, RequestIn
  <2>2. PendingIn(W)'
    BY <1>1, <1>2, <2>1, GoesIn DEF SaveLoads
  <2>3. QED
    BY <1>1, <1>2, <2>2 DEF SaveLoads, memory, vault, AllIn, ListsIn, KeysIn
<1>3. CASE SaveFormats(r)
  <2>1. {list} \in SUBSET Seq(W) /\ {assigned} \in SUBSET SUBSET Ties /\ r.pc = "dir"
    BY <1>1, <1>3 DEF SaveFormats, ListsIn
  <2>2. PICK f \in Requests(W) : f = Fixed(r, {list}, {assigned})
    BY <1>1, <2>1, FixedFields
  <2>3. PICK q : q = [f EXCEPT !.pc = "write"]
    OBVIOUS
  <2>4. f \in Fields(W) /\ "write" \in Holds \union WalletWaits /\ "write" \notin Holds
    BY <2>2 DEF Requests, Holds, WalletWaits
  <2>5. q \in Fields(W) /\ q.pc = "write"
    BY <2>3, <2>4, AwaitFields
  <2>6. q \in Requests(W)
    BY <2>4, <2>5 DEF Requests, Holds
  <2>7. PendingIn(W)'
    BY <1>1, <1>3, <2>2, <2>3, <2>6, GoesIn DEF SaveFormats
  <2>8. QED
    BY <1>1, <1>3, <2>7 DEF SaveFormats, memory, vault, AllIn, ListsIn, KeysIn
<1>4. CASE SaveWrites(r)
  <2>1. PICK l \in r.list, a \in r.assigned : disk' = Config(l, a)
    BY <1>4 DEF SaveWrites
  <2>2. disk' \in [list : Seq(W), assigned : SUBSET Ties]
    BY <1>1, <2>1 DEF Config, Fields
  <2>3. PendingIn(W)'
    BY <1>1, <1>4, EndsIn DEF SaveWrites
  <2>4. QED
    BY <1>1, <1>4, <2>2, <2>3 DEF SaveWrites, memory, vault, AllIn, ListsIn, KeysIn
<1>5. CASE WriteFails(r)
  <2>1. PendingIn(W)'
    BY <1>1, <1>5, EndsIn DEF WriteFails
  <2>2. QED
    BY <1>1, <1>5, <2>1 DEF WriteFails, memory, vault, AllIn, ListsIn, KeysIn
<1>6. CASE RereadEnds(r)
  <2>1. PICK l \in r.list, a \in r.assigned : NowIs(Config(l, a)) /\ UNCHANGED disk
    BY <1>6 DEF RereadEnds
  <2>2. Config(l, a) \in [list : Seq(W), assigned : SUBSET Ties]
    BY <1>1, <2>1 DEF Config, Fields
  <2>3. ListsIn(W)'
    BY <1>1, <2>1, <2>2, NowIsIn
  <2>4. {list} \in SUBSET Seq(W) /\ {assigned} \in SUBSET SUBSET Ties
    BY <1>1 DEF ListsIn
  <2>5. DOMAIN KeepLists(OtherRequests(r)) \subseteq Requests(W)
    BY <1>1, <2>4, OthersIn, KeepIn DEF KeepLists
  <2>6. PendingIn(W)'
    BY <1>6, <2>5 DEF RereadEnds, PendingIn
  <2>7. QED
    BY <1>1, <1>6, <2>3, <2>6 DEF RereadEnds, vault, AllIn, KeysIn
<1>7. QED
  BY <1>2, <1>3, <1>4, <1>5, <1>6

\* A request that adds a wallet.
LEMMA AddStepIn ==
  ASSUME NEW W, AllIn(W), NEW r \in DOMAIN pending,
         \/ KeystoreMissing(r) \/ KeystoreExists(r) \/ CredentialsWritten(r)
         \/ KeystoreWritten(r) /\ Entry(r.id, r.key) \in W
  PROVE  AllIn(W)'
<1>1. /\ W \subseteq Entries /\ ListsIn(W) /\ KeysIn(W) /\ PendingIn(W)
      /\ r \in Requests(W) /\ r \in Fields(W)
  BY DEF AllIn, PendingIn, Requests
<1>2. CASE KeystoreMissing(r)
  <2>1. PICK q : q = [r EXCEPT !.pc = "keyfile"]
    OBVIOUS
  <2>2. "keyfile" \in Holds \union WalletWaits
    BY DEF Holds
  <2>3. q \in Fields(W) /\ q.pc = "keyfile" /\ q.id = r.id /\ q.key = r.key
    BY <1>1, <2>1, <2>2, AwaitFields
  <2>4. q \in Requests(W)
    BY <1>1, <1>2, <2>3 DEF KeystoreMissing, Requests
  <2>5. PendingIn(W)'
    BY <1>1, <1>2, <2>1, <2>4, GoesIn DEF KeystoreMissing, Writes
  <2>6. QED
    BY <1>1, <1>2, <2>5
    DEF KeystoreMissing, Writes, memory, vault, AllIn, ListsIn, KeysIn
<1>3. CASE KeystoreExists(r)
  <2>1. PendingIn(W)'
    BY <1>1, <1>3, EndsIn DEF KeystoreExists
  <2>2. QED
    BY <1>1, <1>3, <2>1 DEF KeystoreExists, memory, vault, AllIn, ListsIn, KeysIn
<1>4. ASSUME ListWallet(r), Entry(r.id, r.key) \in W
      PROVE  ListsIn(W)' /\ PendingIn(W)'
  <2>1. PICK l \in Seq(W), a \in SUBSET Ties :
          l = Append(Now.list, Entry(r.id, r.key)) /\ a = Now.assigned
    BY <1>1, <1>4, NowIn, AppendLists
  <2>2. ChangeAndSave(OtherRequests(r), l, a)
    BY <1>4, <2>1 DEF ListWallet
  <2>3. QED
    BY <1>1, <2>2, OthersIn, SaveIn
<1>5. CASE CredentialsWritten(r)
  <2>1. Entry(r.id, r.key) \in W
    BY <1>1, <1>5 DEF CredentialsWritten, Requests
  <2>2. QED
    BY <1>1, <1>4, <1>5, <2>1 DEF CredentialsWritten, vault, AllIn, KeysIn
<1>6. CASE KeystoreWritten(r) /\ Entry(r.id, r.key) \in W
  <2>1. KeysIn(W)'
    BY <1>1, <1>6, SignsWith DEF KeystoreWritten, KeysIn
  <2>2. ListsIn(W)' /\ PendingIn(W)'
    <3>1. CASE ListWallet(r)
      BY <1>4, <1>6, <3>1
    <3>2. CASE Goes(r, [r EXCEPT !.pc = "credfile"]) /\ UNCHANGED <<memory, disk, faults>>
      <4>1. PICK q : q = [r EXCEPT !.pc = "credfile"]
        OBVIOUS
      <4>2. "credfile" \in Holds \union WalletWaits
        BY DEF Holds
      <4>3. q \in Fields(W) /\ q.pc = "credfile" /\ q.id = r.id /\ q.key = r.key
        BY <1>1, <4>1, <4>2, AwaitFields
      <4>4. q \in Requests(W)
        BY <1>6, <4>3 DEF Requests
      <4>5. PendingIn(W)'
        BY <1>1, <3>2, <4>1, <4>4, GoesIn
      <4>6. QED
        BY <1>1, <3>2, <4>5 DEF memory, ListsIn
    <3>3. QED
      BY <1>6, <3>1, <3>2 DEF KeystoreWritten
  <2>3. QED
    BY <1>1, <2>1, <2>2 DEF AllIn
<1>7. QED
  BY <1>2, <1>3, <1>5, <1>6

\* A request that removes a wallet, changes its credentials, unlocks the wallets
\* or makes a client.
LEMMA OtherStepIn ==
  ASSUME NEW W, AllIn(W), NEW r \in DOMAIN pending,
         \/ CredentialsUpdated(r) \/ UnlinkKeystore(r) \/ DropWallet(r)
         \/ UnlockFile(r) \/ UnlockEnds(r) \/ ClientReady(r) \/ ClientFails(r)
  PROVE  AllIn(W)'
<1>1. /\ W \subseteq Entries /\ ListsIn(W) /\ KeysIn(W) /\ PendingIn(W)
      /\ r \in Requests(W) /\ r \in Fields(W)
  BY DEF AllIn, PendingIn, Requests
<1>2. DOMAIN OtherRequests(r) \subseteq Requests(W)
  BY <1>1, OthersIn
<1>3. Now.list \in Seq(W) /\ Now.assigned \in SUBSET Ties
  BY <1>1, NowIn
<1>4. CASE CredentialsUpdated(r)
  <2>1. ListsIn(W)' /\ PendingIn(W)'
    BY <1>1, <1>2, <1>3, <1>4, SaveIn DEF CredentialsUpdated
  <2>2. QED
    BY <1>1, <1>4, <2>1 DEF CredentialsUpdated, vault, AllIn, KeysIn
<1>5. CASE UnlinkKeystore(r)
  <2>1. KeysIn(W)'
    <3>1. CASE r.id \in DOMAIN keystore
      <4>1. /\ keystore' = Without(keystore, r.id) /\ signers' = Without(signers, r.id)
            /\ UNCHANGED clients
        BY <1>5, <3>1 DEF UnlinkKeystore
      <4>2. Signs(Without(keystore, r.id), W) /\ Signs(Without(signers, r.id), W)
        BY <1>1, SignsWithout DEF KeysIn
      <4>3. QED
        BY <1>1, <4>1, <4>2 DEF KeysIn
    <3>2. CASE r.id \notin DOMAIN keystore
      <4>1. UNCHANGED <<keystore, signers, clients>>
        BY <1>5, <3>2 DEF UnlinkKeystore
      <4>2. QED
        BY <1>1, <4>1 DEF KeysIn
    <3>3. QED
      BY <3>1, <3>2
  <2>2. PendingIn(W)'
    <3>1. PICK q : q = [r EXCEPT !.pc = "unlinkcreds"]
      OBVIOUS
    <3>2. "unlinkcreds" \in Holds \union WalletWaits /\ "unlinkcreds" \notin Holds
      BY DEF Holds, WalletWaits
    <3>3. q \in Fields(W) /\ q.pc = "unlinkcreds"
      BY <1>1, <3>1, <3>2, AwaitFields
    <3>4. q \in Requests(W)
      BY <3>2, <3>3 DEF Requests, Holds
    <3>5. Goes(r, q) \/ Ends(r)
      BY <1>5, <3>1 DEF UnlinkKeystore
    <3>6. QED
      BY <1>1, <3>4, <3>5, GoesIn, EndsIn
  <2>3. QED
    BY <1>1, <1>5, <2>1, <2>2 DEF UnlinkKeystore, memory, AllIn, ListsIn
<1>6. CASE DropWallet(r)
  <2>1. PICK l \in Seq(W) : l = IF r.at \in DOMAIN Now.list THEN RemoveAt(Now.list, r.at)
                                ELSE Now.list
    BY <1>3, RemoveLists
  <2>2. PICK a \in SUBSET Ties : a = {t \in Now.assigned : t[2] # r.id}
    BY <1>3
  <2>3. {} \in SUBSET Seq(W) /\ {assigned} \in SUBSET SUBSET Ties
    BY <1>1 DEF ListsIn
  <2>4. DOMAIN KeepAssigned(OtherRequests(r)) \subseteq Requests(W)
    BY <1>2, <2>3, KeepIn DEF KeepAssigned
  <2>5. ChangeAndSave(KeepAssigned(OtherRequests(r)), l, a)
    BY <1>6, <2>1, <2>2 DEF DropWallet, Drop
  <2>6. ListsIn(W)' /\ PendingIn(W)'
    BY <1>1, <2>4, <2>5, SaveIn
  <2>7. QED
    BY <1>1, <1>6, <2>6 DEF DropWallet, Drop, vault, AllIn, KeysIn
<1>7. CASE UnlockFile(r)
  <2>1. PICK id : id = CHOOSE i \in r.todo : TRUE
    OBVIOUS
  <2>2. \/ /\ id \in DOMAIN keystore /\ signers' = With(signers, id, keystore[id])
           /\ Goes(r, [r EXCEPT !.todo = @ \ {id}])
        \/ UNCHANGED signers /\ Ends(r)
    BY <1>7, <2>1 DEF UnlockFile
  <2>3. UNCHANGED <<memory, disk, keystore, unlocked, clients>>
    BY <1>7 DEF UnlockFile
  <2>4. Signs(signers, W)'
    <3>1. CASE id \in DOMAIN keystore /\ signers' = With(signers, id, keystore[id])
      <4>1. Entry(id, keystore[id]) \in W
        BY <1>1, <3>1 DEF KeysIn, Signs
      <4>2. QED
        BY <1>1, <3>1, <4>1, SignsWith DEF KeysIn
    <3>2. CASE UNCHANGED signers
      BY <1>1, <3>2 DEF KeysIn
    <3>3. QED
      BY <2>2, <3>1, <3>2
  <2>5. PendingIn(W)'
    <3>1. PICK todo \in SUBSET Ids : todo = r.todo \ {id}
      BY <1>1 DEF Fields
    <3>2. PICK q : q = [r EXCEPT !.todo = todo]
      OBVIOUS
    <3>3. q \in Requests(W)
      BY <1>1, <3>2, TodoFields DEF Requests
    <3>4. [r EXCEPT !.todo = @ \ {id}] = q
      BY <1>1, <3>1, <3>2 DEF Fields
    <3>5. QED
      BY <1>1, <2>2, <3>3, <3>4, GoesIn, EndsIn
  <2>6. QED
    BY <1>1, <2>3, <2>4, <2>5 DEF memory, AllIn, ListsIn, KeysIn
<1>8. CASE UnlockEnds(r)
  <2>1. ListsIn(W)' /\ PendingIn(W)'
    <3>1. CASE ChangeAndSave(OtherRequests(r), Now.list, Now.assigned)
      BY <1>1, <1>2, <1>3, <3>1, SaveIn
    <3>2. CASE Ends(r) /\ UNCHANGED <<memory, disk, faults>>
      BY <1>1, <3>2, EndsIn DEF memory, ListsIn
    <3>3. QED
      BY <1>8, <3>1, <3>2 DEF UnlockEnds
  <2>2. QED
    BY <1>1, <1>8, <2>1 DEF UnlockEnds, AllIn, KeysIn
<1>9. CASE ClientReady(r)
  <2>1. Entry(r.id, r.key) \in W
    BY <1>1, <1>9 DEF ClientReady, Requests
  <2>2. KeysIn(W)'
    BY <1>1, <1>9, <2>1, SignsWith DEF ClientReady, vault, KeysIn
  <2>3. PendingIn(W)'
    BY <1>1, <1>9, EndsIn DEF ClientReady
  <2>4. QED
    BY <1>1, <1>9, <2>2, <2>3 DEF ClientReady, memory, AllIn, ListsIn
<1>10. CASE ClientFails(r)
  <2>1. PendingIn(W)'
    BY <1>1, <1>10, EndsIn DEF ClientFails
  <2>2. QED
    BY <1>1, <1>10, <2>1 DEF ClientFails, memory, vault, AllIn, ListsIn, KeysIn
<1>11. QED
  BY <1>4, <1>5, <1>6, <1>7, <1>8, <1>9, <1>10

-----------------------------------------------------------------------------
(* The requests that start.                                                *)

\* One that starts by loading the lists, if they are not there.
LEMMA LoadingIn ==
  ASSUME NEW W, AllIn(W), NEW q \in Requests(W), Starts(q), NowIs(Now),
         UNCHANGED <<disk, keystore, vault, clients>>
  PROVE  AllIn(W)'
<1>1. ListsIn(W)'
  BY NowIn, NowIsIn DEF AllIn
<1>2. PendingIn(W)'
  BY StartsIn DEF AllIn
<1>3. QED
  BY <1>1, <1>2 DEF AllIn, KeysIn, vault

LEMMA AddOrRemoveIn ==
  ASSUME NEW W, AllIn(W), NEW id, NEW key,
         \/ Unlock
         \/ /\ id \in Ids
            /\ \/ AddTradingWallet(id, key) /\ key \in PrivateKeys
               \/ RemoveTradingWallet(id) \/ UpdateBuilderCredentials(id)
  PROVE  AllIn(W)'
<1>1. W \subseteq Entries /\ ListsIn(W) /\ Signs(keystore, W)
  BY DEF AllIn, KeysIn
<1>2. CASE AddTradingWallet(id, key) /\ id \in Ids /\ key \in PrivateKeys
  <2>1. PICK i \in Fields(W) : i = Request("access") /\ i.pc = "access"
    BY RequestFields DEF Holds
  <2>2. PICK q : q = [i EXCEPT !.id = id, !.key = key]
    OBVIOUS
  <2>3. q \in Fields(W) /\ q.pc = "access" /\ q.id = id /\ q.key = key
    <3>1. i \in Fields(W) /\ i.pc = "access"
      BY <2>1
    <3>2. QED
      BY <1>2, <2>2, <3>1 DEF Fields
  <2>4. q \in Requests(W)
    BY <1>1, <1>2, <2>3, EntryFields DEF Requests
  <2>5. QED
    BY <1>2, <2>1, <2>2, <2>4, LoadingIn DEF AddTradingWallet
<1>3. CASE RemoveTradingWallet(id) /\ id \in Ids
  <2>1. PICK i \in Fields(W) : i = Request("unlink") /\ i.pc = "unlink"
    BY RequestFields DEF WalletWaits
  <2>2. PICK n \in Nat : n = First(Now.list, id)
    BY <1>1, <1>3, NowIn, FirstFinds DEF RemoveTradingWallet
  <2>3. PICK q : q = [i EXCEPT !.id = id, !.at = n]
    OBVIOUS
  <2>4. q \in Fields(W) /\ q.pc = "unlink"
    <3>1. i \in Fields(W) /\ i.pc = "unlink"
      BY <2>1
    <3>2. QED
      BY <1>3, <2>3, <3>1 DEF Fields
  <2>5. q \in Requests(W)
    BY <2>4 DEF Requests
  <2>6. QED
    BY <1>3, <2>1, <2>2, <2>3, <2>5, LoadingIn DEF RemoveTradingWallet
<1>4. CASE UpdateBuilderCredentials(id) /\ id \in Ids
  <2>1. PICK i \in Fields(W) : i = Request("newcreds") /\ i.pc = "newcreds"
    BY RequestFields DEF WalletWaits
  <2>2. PICK q : q = [i EXCEPT !.id = id]
    OBVIOUS
  <2>3. q \in Fields(W) /\ q.pc = "newcreds"
    BY <1>4, <2>1, <2>2, IdFields
  <2>4. q \in Requests(W)
    BY <2>3 DEF Requests
  <2>5. QED
    BY <1>4, <2>1, <2>2, <2>4, LoadingIn DEF UpdateBuilderCredentials
<1>5. CASE Unlock
  <2>1. PICK i \in Fields(W) : i = Request("unlock") /\ i.pc = "unlock"
    BY RequestFields DEF WalletWaits
  <2>2. PICK todo \in SUBSET Ids : todo = IF Hosted THEN {} ELSE DOMAIN keystore
    BY <1>1 DEF Signs
  <2>3. PICK q : q = [i EXCEPT !.todo = todo]
    OBVIOUS
  <2>4. q \in Fields(W) /\ q.pc = "unlock"
    BY <2>1, <2>3, TodoFields
  <2>5. q \in Requests(W)
    BY <2>4 DEF Requests
  <2>6. QED
    BY <1>5, <2>1, <2>2, <2>3, <2>5, LoadingIn DEF Unlock
<1>6. QED
  BY <1>2, <1>3, <1>4, <1>5

LEMMA ChangeIn ==
  ASSUME NEW W, AllIn(W), NEW id, NEW ad,
         \/ ToggleTradingWallet(id) \/ RemoveCopyAssignment(ad, id)
         \/ AddCopyAssignment(ad, id) /\ id \in Ids /\ ad \in Addresses
         \/ OtherSetting \/ Reread
  PROVE  AllIn(W)'
<1>1. W \subseteq Entries /\ ListsIn(W) /\ KeysIn(W) /\ PendingIn(W)
  BY DEF AllIn
<1>2. Now.list \in Seq(W) /\ Now.assigned \in SUBSET Ties
  BY <1>1, NowIn
<1>3. ASSUME NEW B, DOMAIN B \subseteq Requests(W), NEW a \in SUBSET Ties,
             StartAndSave(B, Now.list, a), UNCHANGED <<keystore, vault, clients>>
      PROVE  AllIn(W)'
  <2>1. ListsIn(W)' /\ PendingIn(W)'
    BY <1>1, <1>2, <1>3, SaveIn DEF StartAndSave
  <2>2. QED
    BY <1>1, <1>3, <2>1 DEF vault, AllIn, KeysIn
<1>4. CASE ToggleTradingWallet(id)
  BY <1>1, <1>2, <1>3, <1>4 DEF ToggleTradingWallet, PendingIn
<1>5. CASE AddCopyAssignment(ad, id) /\ id \in Ids /\ ad \in Addresses
  <2>1. Now.assigned \union {<<ad, id>>} \in SUBSET Ties
    BY <1>2, <1>5 DEF Ties
  <2>2. QED
    BY <1>1, <1>3, <1>5, <2>1 DEF AddCopyAssignment, PendingIn
<1>6. CASE RemoveCopyAssignment(ad, id)
  <2>1. Now.assigned \ {<<ad, id>>} \in SUBSET Ties
    BY <1>2
  <2>2. {} \in SUBSET Seq(W) /\ {assigned} \in SUBSET SUBSET Ties
    BY <1>1 DEF ListsIn
  <2>3. DOMAIN KeepAssigned(pending) \subseteq Requests(W)
    BY <1>1, <2>2, KeepIn DEF KeepAssigned, PendingIn
  <2>4. QED
    BY <1>3, <1>6, <2>1, <2>3 DEF RemoveCopyAssignment
<1>7. CASE OtherSetting
  <2>1. Carrying("write", disk) \in Requests(W)
    BY <1>1, CarryingFields DEF ListsIn, WalletWaits
  <2>2. PendingIn(W)'
    BY <1>1, <1>7, <2>1, StartsIn DEF OtherSetting
  <2>3. QED
    BY <1>1, <1>7, <2>2 DEF OtherSetting, memory, vault, AllIn, ListsIn, KeysIn
<1>8. CASE Reread
  <2>1. Carrying("read", disk) \in Requests(W)
    BY <1>1, CarryingFields DEF ListsIn, WalletWaits
  <2>2. disk \in [list : Seq(W), assigned : SUBSET Ties] /\ UNCHANGED disk
    BY <1>1, <1>8 DEF ListsIn, Reread
  <2>3. CASE NowIs(disk) /\ UNCHANGED pending
    <3>1. ListsIn(W)'
      BY <1>1, <2>2, <2>3, NowIsIn
    <3>2. QED
      BY <1>1, <1>8, <2>3, <3>1 DEF Reread, vault, AllIn, PendingIn, KeysIn
  <2>4. CASE Starts(Carrying("read", disk)) /\ UNCHANGED memory
    <3>1. PendingIn(W)'
      BY <1>1, <2>1, <2>4, StartsIn
    <3>2. QED
      BY <1>1, <1>8, <2>4, <3>1 DEF Reread, memory, vault, AllIn, ListsIn, KeysIn
  <2>5. QED
    BY <1>8, <2>3, <2>4 DEF Reread
<1>9. QED
  BY <1>4, <1>5, <1>6, <1>7, <1>8

LEMMA ClientIn ==
  ASSUME NEW W, AllIn(W), NEW id \in Ids, UseClient(id) \/ EvictClient(id)
  PROVE  AllIn(W)'
<1>1. W \subseteq Entries /\ ListsIn(W) /\ KeysIn(W) /\ PendingIn(W)
  BY DEF AllIn
<1>2. ASSUME CanSign(id), MakeClient(id)
      PROVE  Signs(signers, W)' /\ PendingIn(W)'
  <2>1. PICK key : key = IF id \in DOMAIN signers THEN signers[id] ELSE keystore[id]
    OBVIOUS
  <2>2. id \in DOMAIN signers \/ id \in DOMAIN keystore
    BY <1>2 DEF CanSign
  <2>3. Entry(id, key) \in W
    BY <1>1, <2>1, <2>2 DEF KeysIn, Signs
  <2>4. key \in PrivateKeys
    BY <1>1, <2>3, EntryFields
  <2>5. signers' = With(signers, id, key)
    BY <1>2, <2>1 DEF MakeClient
  <2>6. Signs(signers, W)'
    BY <1>1, <2>3, <2>5, SignsWith DEF KeysIn
  <2>7. PICK i \in Fields(W) : i = Request("client") /\ i.pc = "client"
    BY RequestFields DEF Holds
  <2>8. PICK q : q = [i EXCEPT !.id = id, !.key = key]
    OBVIOUS
  <2>9. q \in Fields(W) /\ q.pc = "client" /\ q.id = id /\ q.key = key
    <3>1. i \in Fields(W) /\ i.pc = "client"
      BY <2>7
    <3>2. QED
      BY <2>4, <2>8, <3>1 DEF Fields
  <2>10. q \in Requests(W)
    BY <2>3, <2>9 DEF Requests
  <2>11. Starts(q)
    BY <1>2, <2>1, <2>7, <2>8 DEF MakeClient
  <2>12. QED
    BY <1>1, <2>6, <2>10, <2>11, StartsIn
<1>3. CASE UseClient(id)
  BY <1>1, <1>2, <1>3 DEF UseClient, memory, AllIn, ListsIn, KeysIn
<1>4. CASE EvictClient(id)
  <2>1. Signs(clients, W)'
    BY <1>1, <1>4, SignsWithout DEF EvictClient, KeysIn
  <2>2. Signs(signers, W)' /\ PendingIn(W)'
    <3>1. CASE CanSign(id) /\ MakeClient(id)
      BY <1>2, <3>1
    <3>2. CASE UNCHANGED <<pending, signers>>
      BY <1>1, <3>2 DEF KeysIn, PendingIn
    <3>3. QED
      BY <1>4, <3>1, <3>2 DEF EvictClient
  <2>3. QED
    BY <1>1, <1>4, <2>1, <2>2 DEF EvictClient, memory, AllIn, ListsIn, KeysIn
<1>5. QED
  BY <1>3, <1>4

LEMMA RestartIn ==
  ASSUME NEW W, AllIn(W), RestartWallets
  PROVE  AllIn(W)'
<1>1. W \subseteq Entries /\ ListsIn(W) /\ KeysIn(W)
  BY DEF AllIn
<1>2. ListsIn(W)'
  <2>1. <<>> \in Seq(W)
    OBVIOUS
  <2>2. QED
    BY <1>1, <2>1, WalletAssumption DEF RestartWallets, ListsIn
<1>3. DOMAIN Nothing = {} /\ DOMAIN EmptyBag = {}
  BY DEF Nothing, EmptyBag, SetToBag
<1>4. Signs(Nothing, W)
  BY <1>3 DEF Signs
<1>5. KeysIn(W)' /\ PendingIn(W)'
  BY <1>1, <1>3, <1>4 DEF RestartWallets, KeysIn, PendingIn
<1>6. QED
  BY <1>1, <1>2, <1>5 DEF AllIn

\* What an initial state finds.
LEMMA FoundIn ==
  ASSUME WalletInit
  PROVE  AllIn(Range(disk.list))
<1>1. PICK l \in Earlier, a \in SUBSET (Addresses \X Ids) : disk = Config(l, a)
  BY DEF WalletInit
<1>2. disk.list = l /\ disk.assigned = a /\ disk = [list |-> l, assigned |-> a]
  BY <1>1 DEF Config
<1>3. PICK W : W = Range(disk.list)
  OBVIOUS
<1>4. l \in Seq(Entries)
  BY WalletAssumption DEF Entries
<1>5. W \subseteq Entries /\ \A i \in DOMAIN l : l[i] \in W
  BY <1>2, <1>3, <1>4 DEF Range
<1>6. l \in Seq(W) /\ <<>> \in Seq(W)
  <2>1. \A i \in 1 .. Len(l) : l[i] \in W
    BY <1>4, <1>5
  <2>2. QED
    BY <1>4, <2>1
<1>7. ListsIn(W)
  BY <1>2, <1>6, WalletAssumption DEF WalletInit, ListsIn, Ties
<1>8. DOMAIN Nothing = {} /\ DOMAIN EmptyBag = {}
  BY DEF Nothing, EmptyBag, SetToBag
<1>9. Signs(keystore, W)
  <2>1. keystore = [i \in Listed(l) |-> l[First(l, i)].key]
    BY <1>2 DEF WalletInit
  <2>2. SUFFICES ASSUME NEW i \in Listed(l)
                 PROVE  i \in Ids /\ Entry(i, l[First(l, i)].key) \in W
    BY <2>1 DEF Signs
  <2>3. l[First(l, i)] \in W /\ l[First(l, i)].id = i
    BY <1>4, <1>5, FirstFinds
  <2>4. l[First(l, i)] = Entry(i, l[First(l, i)].key)
    BY <1>5, <2>3, EntryFields
  <2>5. QED
    BY <1>5, <2>3, <2>4 DEF Entries
<1>10. KeysIn(W)
  BY <1>8, <1>9 DEF WalletInit, KeysIn, Signs
<1>11. QED
  BY <1>3, <1>5, <1>7, <1>8, <1>10 DEF WalletInit, AllIn, PendingIn

\* No step takes back what is vouched for.
LEMMA VouchedGrows ==
  ASSUME WalletNext
  PROVE  /\ Vouched \subseteq Vouched'
         /\ contested \subseteq contested' /\ removed \subseteq removed'
<1>1. CASE UNCHANGED <<stored, contested, removed>>
  BY <1>1 DEF Vouched
<1>2. ASSUME Start PROVE UNCHANGED <<stored, contested, removed>>
  BY <1>2 DEF Start, AddTradingWallet, RemoveTradingWallet, ToggleTradingWallet,
              UpdateBuilderCredentials, AddCopyAssignment, RemoveCopyAssignment,
              UseClient, EvictClient, OtherSetting, Reread, Unlock, past
<1>3. ASSUME RestartWallets PROVE UNCHANGED <<stored, contested, removed>>
  BY <1>3 DEF RestartWallets, past
<1>4. ASSUME NEW r \in BagToSet(pending), GoOn(r)
      PROVE  \/ UNCHANGED <<stored, contested, removed>>
             \/ KeystoreMissing(r) \/ KeystoreWritten(r) \/ UnlinkKeystore(r)
  BY <1>4 DEF GoOn, KeystoreExists, CredentialsWritten, CredentialsUpdated, DropWallet,
              Drop, SaveLoads, SaveFormats, SaveWrites, WriteFails, RereadEnds,
              UnlockFile, UnlockEnds, ClientReady, ClientFails, past
<1>5. ASSUME NEW r, KeystoreMissing(r)
      PROVE  Vouched \subseteq Vouched' /\ contested \subseteq contested'
             /\ removed \subseteq removed'
  BY <1>5 DEF KeystoreMissing, Writes, Vouched
<1>6. ASSUME NEW r, KeystoreWritten(r)
      PROVE  Vouched \subseteq Vouched' /\ contested \subseteq contested'
             /\ removed \subseteq removed'
  BY <1>6 DEF KeystoreWritten, Vouched
<1>7. ASSUME NEW r, UnlinkKeystore(r)
      PROVE  Vouched \subseteq Vouched' /\ contested \subseteq contested'
             /\ removed \subseteq removed'
  BY <1>7 DEF UnlinkKeystore, Vouched
<1>8. QED
  BY <1>1, <1>2, <1>3, <1>4, <1>5, <1>6, <1>7 DEF WalletNext

\* The invariant is kept by every step.
LEMMA VouchedStart == WalletInit => AllIn(Vouched)
<1> SUFFICES ASSUME WalletInit PROVE AllIn(Vouched)
  OBVIOUS
<1>1. AllIn(Range(disk.list))
  BY FoundIn
<1>2. Range(disk.list) \subseteq Vouched /\ Vouched \subseteq Entries
  BY <1>1 DEF WalletInit, Vouched, AllIn
<1>3. QED
  BY <1>1, <1>2, AllInMore

LEMMA VouchedStep == AllIn(Vouched) /\ [WalletNext]_walletVars => AllIn(Vouched)'
<1> SUFFICES ASSUME AllIn(Vouched), [WalletNext]_walletVars PROVE AllIn(Vouched)'
  OBVIOUS
<1>1. CASE UNCHANGED walletVars
  BY <1>1 DEF walletVars, memory, vault, past, AllIn, ListsIn, KeysIn, PendingIn,
              Vouched
<1>2. CASE WalletNext
  <2>1. PICK W : W = Vouched'
    OBVIOUS
  <2>2. Vouched \subseteq W /\ W \subseteq Entries
    BY <1>2, <2>1, VouchedGrows DEF Vouched
  <2>3. AllIn(W)
    BY <2>2, AllInMore
  <2>4. AllIn(W)'
    <3>1. CASE Start
      BY <2>3, <3>1, AddOrRemoveIn, ChangeIn, ClientIn DEF Start
    <3>2. CASE RestartWallets
      BY <2>3, <3>2, RestartIn
    <3>3. ASSUME NEW r \in BagToSet(pending), GoOn(r)
          PROVE  AllIn(W)'
      <4>1. r \in DOMAIN pending
        BY DEF BagToSet
      <4>2. KeystoreWritten(r) => Entry(r.id, r.key) \in W
        <5>1. SUFFICES ASSUME KeystoreWritten(r) PROVE Entry(r.id, r.key) \in W
          OBVIOUS
        <5>2. Entry(r.id, r.key) \in Entries
          BY <4>1, <5>1 DEF KeystoreWritten, AllIn, PendingIn, Requests
        <5>3. stored' = stored \union {Entry(r.id, r.key)}
          BY <5>1 DEF KeystoreWritten
        <5>4. QED
          BY <2>1, <5>2, <5>3 DEF Vouched
      <4>3. QED
        BY <2>3, <3>3, <4>1, <4>2, SaveStepIn, AddStepIn, OtherStepIn DEF GoOn
    <3>4. QED
      BY <1>2, <3>1, <3>2, <3>3 DEF WalletNext
  <2>5. QED
    BY <2>1, <2>4
<1>3. QED
  BY <1>1, <1>2

-----------------------------------------------------------------------------
(* No two requests write the keystore file of one wallet, unless they are  *)
(* known to overlap.                                                       *)

\* A request of B that is about to write a keystore file is alone in that, and
\* writes over none: files is what has a keystore file, C the wallets of which
\* two adds overlapped.
Lone(B, files, C) ==
  \A r \in DOMAIN B : r.pc = "keyfile" /\ r.id \notin C =>
    /\ r.id \notin files /\ B[r] = 1
    /\ \A q \in DOMAIN B : q.pc = "keyfile" /\ q.id = r.id => q = r

\* D has no more requests that are about to write a keystore file than B.
Calm(B, D) == \A e \in DOMAIN D : e.pc = "keyfile" =>
                e \in DOMAIN B /\ (B[e] = 1 => D[e] = 1)

LEMMA LoneCalm ==
  ASSUME NEW B, NEW D, Calm(B, D), NEW files, NEW C, Lone(B, files, C),
         NEW files2 \in SUBSET files, NEW C2, C \subseteq C2
  PROVE  Lone(D, files2, C2)
BY DEF Lone, Calm

LEMMA CalmAdded ==
  ASSUME NEW B, NEW q, q.pc # "keyfile"
  PROVE  Calm(B, B (+) SetToBag({q}))
<1>1. PICK D : D = B (+) SetToBag({q})
  OBVIOUS
<1>2. /\ DOMAIN D = DOMAIN B \union {q}
      /\ \A e \in DOMAIN B \ {q} : B[e] \in Int => D[e] = B[e]
  BY <1>1, AddedElements
<1>3. Calm(B, D)
  BY <1>2 DEF Calm
<1>4. QED
  BY <1>1, <1>3

LEMMA CalmRest ==
  ASSUME NEW B, NEW r
  PROVE  Calm(B, B (-) SetToBag({r}))
<1>1. PICK D : D = B (-) SetToBag({r})
  OBVIOUS
<1>2. /\ DOMAIN D \subseteq DOMAIN B
      /\ \A e \in DOMAIN D : e # r => D[e] = B[e]
      /\ B[r] = 1 => r \notin DOMAIN D
  BY <1>1, RestElements
<1>3. Calm(B, D)
  BY <1>2 DEF Calm
<1>4. QED
  BY <1>1, <1>3

LEMMA CalmKeep ==
  ASSUME NEW W, NEW B, DOMAIN B \subseteq Requests(W),
         NEW l \in SUBSET Seq(W), NEW a \in SUBSET SUBSET Ties
  PROVE  Calm(B, Keep(B, l, a))
<1>1. \A q \in DOMAIN B : q.pc = "dir" => Fixed(q, l, a).pc = "dir"
  BY FixedFields
<1>2. PICK D : D = Keep(B, l, a)
  OBVIOUS
<1>3. /\ \A e \in DOMAIN D : \/ e \in DOMAIN B /\ e.pc # "dir"
                             \/ \E q \in DOMAIN B : q.pc = "dir" /\ e = Fixed(q, l, a)
      /\ \A e \in DOMAIN B : e.pc # "dir" /\ B[e] \in Int => D[e] = B[e]
  BY <1>1, <1>2, KeepElements
<1>4. \A e \in DOMAIN D : e.pc = "keyfile" => e \in DOMAIN B
  BY <1>1, <1>3
<1>5. Calm(B, D)
  BY <1>3, <1>4 DEF Calm
<1>6. QED
  BY <1>2, <1>5

LEMMA CalmThen ==
  ASSUME NEW A, NEW B, NEW D, Calm(A, B), Calm(B, D)
  PROVE  Calm(A, D)
BY DEF Calm

LEMMA CalmSame ==
  ASSUME NEW B
  PROVE  Calm(B, B)
BY DEF Calm

LEMMA CalmStarts ==
  ASSUME NEW q, q.pc # "keyfile", Starts(q)
  PROVE  Calm(pending, pending')
BY CalmAdded DEF Starts

LEMMA CalmGoes ==
  ASSUME NEW r, NEW q, q.pc # "keyfile", Goes(r, q)
  PROVE  Calm(pending, pending')
<1>1. Calm(pending, OtherRequests(r))
  BY CalmRest DEF OtherRequests
<1>2. Calm(OtherRequests(r), OtherRequests(r) (+) SetToBag({q}))
  BY CalmAdded
<1>3. QED
  BY <1>1, <1>2, CalmThen DEF Goes

LEMMA CalmEnds ==
  ASSUME NEW r, Ends(r)
  PROVE  Calm(pending, pending')
BY CalmRest DEF Ends, OtherRequests

LEMMA CalmSave ==
  ASSUME NEW B, Calm(pending, B), NEW l, NEW a, ChangeAndSave(B, l, a)
  PROVE  Calm(pending, pending')
<1>1. Request("load").pc # "keyfile"
  BY DEF Request
<1>2. Calm(B, B (+) SetToBag({Request("load")}))
  BY <1>1, CalmAdded
<1>3. pending' = B \/ pending' = B (+) SetToBag({Request("load")})
  BY SaveEffect
<1>4. QED
  BY <1>2, <1>3, CalmThen

LEMMA StartIsCalm ==
  ASSUME NEW W, AllIn(W), Start
  PROVE  Calm(pending, pending') /\ UNCHANGED keystore
<1>1. ASSUME NEW id, NEW key,
             \/ AddTradingWallet(id, key) \/ RemoveTradingWallet(id)
             \/ UpdateBuilderCredentials(id) \/ Unlock
      PROVE  Calm(pending, pending') /\ UNCHANGED keystore
  <2>1. UNCHANGED keystore
    BY <1>1 DEF AddTradingWallet, RemoveTradingWallet, UpdateBuilderCredentials, Unlock
  <2>2. /\ \A n : [Request("unlink") EXCEPT !.id = id, !.at = n].pc # "keyfile"
        /\ [Request("access") EXCEPT !.id = id, !.key = key].pc # "keyfile"
        /\ [Request("newcreds") EXCEPT !.id = id].pc # "keyfile"
        /\ \A todo : [Request("unlock") EXCEPT !.todo = todo].pc # "keyfile"
    BY DEF Request
  <2>3. QED
    BY <1>1, <2>1, <2>2, CalmStarts
    DEF AddTradingWallet, RemoveTradingWallet, UpdateBuilderCredentials, Unlock
<1>2. ASSUME NEW id, NEW ad,
             \/ ToggleTradingWallet(id) \/ AddCopyAssignment(ad, id)
             \/ RemoveCopyAssignment(ad, id)
      PROVE  Calm(pending, pending') /\ UNCHANGED keystore
  <2>1. {} \in SUBSET Seq(W) /\ {assigned} \in SUBSET SUBSET Ties
        /\ DOMAIN pending \subseteq Requests(W)
    BY DEF AllIn, ListsIn, PendingIn
  <2>2. Calm(pending, KeepAssigned(pending))
    BY <2>1, CalmKeep DEF KeepAssigned
  <2>3. QED
    BY <1>2, <2>2, CalmSame, CalmSave
    DEF ToggleTradingWallet, AddCopyAssignment, RemoveCopyAssignment, StartAndSave
<1>3. ASSUME OtherSetting \/ Reread
      PROVE  Calm(pending, pending') /\ UNCHANGED keystore
  <2>1. \A m : Carrying("write", m).pc # "keyfile" /\ Carrying("read", m).pc # "keyfile"
    BY DEF Carrying, Request
  <2>2. QED
    BY <1>3, <2>1, CalmSame, CalmStarts DEF OtherSetting, Reread
<1>4. ASSUME NEW id, UseClient(id) \/ EvictClient(id)
      PROVE  Calm(pending, pending') /\ UNCHANGED keystore
  <2>1. \A k : [Request("client") EXCEPT !.id = id, !.key = k].pc # "keyfile"
    BY DEF Request
  <2>2. MakeClient(id) => Calm(pending, pending')
    BY <2>1, CalmStarts DEF MakeClient
  <2>3. QED
    BY <1>4, <2>2, CalmSame DEF UseClient, EvictClient
<1>5. QED
  BY <1>1, <1>2, <1>3, <1>4 DEF Start

LEMMA GoOnIsCalm ==
  ASSUME NEW W, AllIn(W), NEW r \in DOMAIN pending, GoOn(r), ~KeystoreMissing(r)
  PROVE  Calm(pending, pending')
<1>1. /\ r \in Fields(W) /\ {list} \in SUBSET Seq(W)
      /\ {assigned} \in SUBSET SUBSET Ties /\ {} \in SUBSET Seq(W)
      /\ DOMAIN OtherRequests(r) \subseteq Requests(W)
  BY OthersIn DEF AllIn, PendingIn, Requests, ListsIn
<1>2. Calm(pending, OtherRequests(r))
  BY CalmRest DEF OtherRequests
<1>3. ASSUME NEW p \in (Holds \union WalletWaits) \ {"keyfile"}, Goes(r, [r EXCEPT !.pc = p])
      PROVE  Calm(pending, pending')
  <2>1. [r EXCEPT !.pc = p].pc # "keyfile"
    BY <1>1 DEF Fields
  <2>2. QED
    BY <1>3, <2>1, CalmGoes
<1>4. ASSUME ListWallet(r) PROVE Calm(pending, pending')
  BY <1>2, <1>4, CalmSave DEF ListWallet
<1>5. CASE Ends(r)
  BY <1>5, CalmEnds
<1>6. CASE KeystoreWritten(r)
  <2>1. "credfile" \in (Holds \union WalletWaits) \ {"keyfile"}
    BY DEF Holds
  <2>2. ListWallet(r) \/ Goes(r, [r EXCEPT !.pc = "credfile"])
    BY <1>6 DEF KeystoreWritten
  <2>3. QED
    BY <1>3, <1>4, <2>1, <2>2
<1>7. CASE CredentialsWritten(r) \/ CredentialsUpdated(r)
  BY <1>2, <1>4, <1>7, CalmSave DEF CredentialsWritten, CredentialsUpdated
<1>8. CASE UnlinkKeystore(r)
  <2>1. "unlinkcreds" \in (Holds \union WalletWaits) \ {"keyfile"}
    BY DEF Holds, WalletWaits
  <2>2. Goes(r, [r EXCEPT !.pc = "unlinkcreds"]) \/ Ends(r)
    BY <1>8 DEF UnlinkKeystore
  <2>3. QED
    BY <1>3, <1>5, <2>1, <2>2
<1>9. CASE DropWallet(r)
  <2>1. Calm(OtherRequests(r), KeepAssigned(OtherRequests(r)))
    BY <1>1, CalmKeep DEF KeepAssigned
  <2>2. Calm(pending, KeepAssigned(OtherRequests(r)))
    BY <1>2, <2>1, CalmThen
  <2>3. QED
    BY <1>9, <2>2, CalmSave DEF DropWallet, Drop
<1>10. CASE SaveLoads(r)
  <2>1. Request("dir").pc # "keyfile"
    BY DEF Request
  <2>2. QED
    BY <1>10, <2>1, CalmGoes DEF SaveLoads
<1>11. CASE SaveFormats(r)
  <2>1. r \in Requests(W) /\ r.pc = "dir"
    BY <1>11 DEF AllIn, PendingIn, SaveFormats
  <2>2. PICK f \in Requests(W) : f = Fixed(r, {list}, {assigned})
    BY <1>1, <2>1, FixedFields
  <2>3. [f EXCEPT !.pc = "write"].pc # "keyfile"
    BY DEF Requests, Fields
  <2>4. QED
    BY <1>11, <2>2, <2>3, CalmGoes DEF SaveFormats
<1>12. CASE RereadEnds(r)
  <2>1. Calm(OtherRequests(r), KeepLists(OtherRequests(r)))
    BY <1>1, CalmKeep DEF KeepLists
  <2>2. QED
    BY <1>2, <1>12, <2>1, CalmThen DEF RereadEnds
<1>13. CASE UnlockFile(r)
  <2>1. PICK id : id = CHOOSE i \in r.todo : TRUE
    OBVIOUS
  <2>2. Goes(r, [r EXCEPT !.todo = @ \ {id}]) \/ Ends(r)
    BY <1>13, <2>1 DEF UnlockFile
  <2>3. [r EXCEPT !.todo = @ \ {id}].pc # "keyfile"
    BY <1>1, <1>13 DEF UnlockFile, Fields
  <2>4. QED
    BY <1>5, <2>2, <2>3, CalmGoes
<1>14. CASE UnlockEnds(r)
  BY <1>2, <1>5, <1>14, CalmSave DEF UnlockEnds
<1>15. QED
  BY <1>5, <1>6, <1>7, <1>8, <1>9, <1>10, <1>11, <1>12, <1>13, <1>14
  DEF GoOn, KeystoreExists, SaveWrites, WriteFails, ClientReady, ClientFails

\* Which steps change the keystore files.
LEMMA FilesStay ==
  ASSUME NEW r, GoOn(r), ~KeystoreWritten(r), ~UnlinkKeystore(r)
  PROVE  UNCHANGED keystore /\ UNCHANGED stored
BY DEF GoOn, KeystoreMissing, Writes, KeystoreExists, CredentialsWritten, CredentialsUpdated,
       DropWallet, Drop, SaveLoads, SaveFormats, SaveWrites, WriteFails, RereadEnds,
       UnlockFile, UnlockEnds, ClientReady, ClientFails, past

-----------------------------------------------------------------------------
(* Keys are kept.                                                          *)

KeyInv ==
  /\ AllIn(Vouched)
  /\ Lone(pending, DOMAIN keystore, contested)
  /\ KeyKept

LEMMA KeyStart == WalletInit => KeyInv
<1> SUFFICES ASSUME WalletInit PROVE KeyInv
  OBVIOUS
<1>1. Lone(pending, DOMAIN keystore, contested)
  BY DEF WalletInit, EmptyBag, SetToBag, Lone
<1>2. PICK l \in Earlier, a \in SUBSET (Addresses \X Ids) : disk = Config(l, a)
  BY DEF WalletInit
<1>3. disk.list = l /\ l \in Seq(Entries)
  BY <1>2, WalletAssumption DEF Config, Entries
<1>4. stored = Range(l) /\ keystore = [i \in Listed(l) |-> l[First(l, i)].key]
  BY <1>3 DEF WalletInit
<1>5. ASSUME NEW s \in stored
      PROVE  s.id \in DOMAIN keystore /\ keystore[s.id] = s.key
  <2>1. s.id \in Listed(l)
    BY <1>4 DEF Listed
  <2>2. l[First(l, s.id)] \in Range(l) /\ l[First(l, s.id)].id = s.id
    BY <1>3, <2>1, FirstFinds DEF Range
  <2>3. l[First(l, s.id)].key = s.key
    BY <1>4, <2>2, WalletAssumption
  <2>4. QED
    BY <1>4, <2>1, <2>3
<1>6. QED
  BY <1>1, <1>5, VouchedStart DEF KeyInv, KeyKept

LEMMA LoneStep ==
  ASSUME KeyInv, WalletNext
  PROVE  Lone(pending, DOMAIN keystore, contested)'
<1>1. PICK W : W = Vouched
  OBVIOUS
<1>2. AllIn(W) /\ Lone(pending, DOMAIN keystore, contested) /\ contested \subseteq contested'
  BY <1>1, VouchedGrows DEF KeyInv
<1>3. ASSUME Calm(pending, pending'), DOMAIN keystore' \subseteq DOMAIN keystore
      PROVE  Lone(pending, DOMAIN keystore, contested)'
  BY <1>2, <1>3, LoneCalm
<1>4. CASE Start
  BY <1>2, <1>3, <1>4, StartIsCalm
<1>5. CASE RestartWallets
  BY <1>5 DEF RestartWallets, EmptyBag, SetToBag, Lone
<1>6. ASSUME NEW r \in BagToSet(pending), GoOn(r)
      PROVE  Lone(pending, DOMAIN keystore, contested)'
  <2>1. r \in DOMAIN pending /\ r \in Fields(W)
    BY <1>2 DEF BagToSet, AllIn, PendingIn, Requests
  <2>2. CASE KeystoreMissing(r)
    <3>1. PICK q : q = [r EXCEPT !.pc = "keyfile"]
      OBVIOUS
    <3>2. q.pc = "keyfile" /\ q.id = r.id
      BY <2>1, <3>1 DEF Fields
    <3>3. PICK B : B = OtherRequests(r)
      OBVIOUS
    <3>4. DOMAIN B \subseteq DOMAIN pending /\ Lone(B, DOMAIN keystore, contested')
      BY <1>2, <3>3, CalmRest, RestElements, LoneCalm DEF OtherRequests
    <3>5. PICK D : D = B (+) SetToBag({q})
      OBVIOUS
    <3>6. /\ pending' = D /\ UNCHANGED keystore /\ r.id \notin DOMAIN keystore
          /\ \A p \in DOMAIN pending : p.pc = "keyfile" /\ p.id = r.id => p.id \in contested'
      BY <2>2, <3>1, <3>3, <3>5 DEF KeystoreMissing, Writes, Goes, BagToSet
    <3>7. /\ DOMAIN D = DOMAIN B \union {q}
          /\ \A e \in DOMAIN B \ {q} : B[e] \in Int => D[e] = B[e]
          /\ q \notin DOMAIN B => D[q] = 1
      BY <3>5, AddedElements
    <3>8. \A p \in DOMAIN B : p.pc = "keyfile" /\ p.id = q.id => p.id \in contested'
      BY <3>2, <3>4, <3>6
    <3>9. Lone(D, DOMAIN keystore, contested')
      BY <3>2, <3>4, <3>6, <3>7, <3>8 DEF Lone
    <3>10. QED
      BY <3>6, <3>9
  <2>3. CASE KeystoreWritten(r)
    <3>1. Calm(pending, pending')
      BY <1>2, <1>6, <2>1, <2>3, GoOnIsCalm DEF KeystoreMissing, KeystoreWritten
    <3>2. r.pc = "keyfile" /\ keystore' = With(keystore, r.id, r.key)
          /\ contested' = contested
      BY <2>3 DEF KeystoreWritten
    <3>3. DOMAIN keystore' = DOMAIN keystore \union {r.id}
      BY <3>2 DEF With
    <3>4. Lone(pending', DOMAIN keystore, contested')
      BY <1>2, <3>1, LoneCalm
    <3>5. ASSUME NEW e \in DOMAIN pending', e.pc = "keyfile", e.id \notin contested',
                 e.id = r.id
          PROVE  FALSE
      <4>1. e \in DOMAIN pending
        BY <3>1, <3>5 DEF Calm
      <4>2. e = r /\ pending[r] = 1
        BY <1>2, <2>1, <3>2, <3>5, <4>1 DEF Lone
      <4>3. r \notin DOMAIN OtherRequests(r)
        BY <4>2, RestElements DEF OtherRequests
      <4>4. \A q : q.pc # "keyfile" => r \notin DOMAIN (OtherRequests(r) (+) SetToBag({q}))
        <5>1. SUFFICES ASSUME NEW q, q.pc # "keyfile"
                       PROVE  r \notin DOMAIN (OtherRequests(r) (+) SetToBag({q}))
          OBVIOUS
        <5>2. DOMAIN (OtherRequests(r) (+) SetToBag({q})) = DOMAIN OtherRequests(r) \union {q}
          BY AddedElements
        <5>3. QED
          BY <3>2, <4>3, <5>1, <5>2
      <4>5. CASE ListWallet(r)
        <5>1. Request("load").pc # "keyfile"
          BY DEF Request
        <5>2. \/ pending' = OtherRequests(r)
              \/ pending' = OtherRequests(r) (+) SetToBag({Request("load")})
          BY <4>5, SaveEffect DEF ListWallet
        <5>3. QED
          BY <3>5, <4>2, <4>3, <4>4, <5>1, <5>2
      <4>6. CASE Goes(r, [r EXCEPT !.pc = "credfile"])
        <5>1. [r EXCEPT !.pc = "credfile"].pc # "keyfile"
          BY <2>1 DEF Fields
        <5>2. QED
          BY <3>5, <4>2, <4>4, <4>6, <5>1 DEF Goes
      <4>7. QED
        BY <2>3, <4>5, <4>6 DEF KeystoreWritten
    <3>6. QED
      BY <3>3, <3>4, <3>5 DEF Lone
  <2>4. CASE UnlinkKeystore(r)
    <3>1. Calm(pending, pending')
      BY <1>2, <1>6, <2>1, <2>4, GoOnIsCalm DEF KeystoreMissing, UnlinkKeystore
    <3>2. DOMAIN keystore' \subseteq DOMAIN keystore
      BY <2>4 DEF UnlinkKeystore, Without
    <3>3. QED
      BY <1>3, <3>1, <3>2
  <2>5. CASE ~KeystoreMissing(r) /\ ~KeystoreWritten(r) /\ ~UnlinkKeystore(r)
    BY <1>2, <1>3, <1>6, <2>1, <2>5, GoOnIsCalm, FilesStay
  <2>6. QED
    BY <2>2, <2>3, <2>4, <2>5
<1>7. QED
  BY <1>4, <1>5, <1>6 DEF WalletNext

\* The step itself: a key is only written where there is no file, and only
\* removed with the wallet.
LEMMA KeyKeptStep ==
  ASSUME KeyInv, WalletNext
  PROVE  KeyKept'
<1>1. KeyKept /\ contested \subseteq contested'
  BY VouchedGrows DEF KeyInv
<1>2. CASE UNCHANGED <<keystore, stored>>
  BY <1>1, <1>2 DEF KeyKept
<1>3. ASSUME Start \/ RestartWallets PROVE UNCHANGED <<keystore, stored>>
  BY <1>3 DEF Start, RestartWallets, AddTradingWallet, RemoveTradingWallet,
              ToggleTradingWallet, UpdateBuilderCredentials, AddCopyAssignment,
              RemoveCopyAssignment, UseClient, EvictClient, OtherSetting, Reread, Unlock,
              past
<1>4. ASSUME NEW r \in BagToSet(pending), KeystoreWritten(r)
      PROVE  KeyKept'
  <2>1. r \in DOMAIN pending /\ r.pc = "keyfile" /\ contested' = contested
        /\ keystore' = With(keystore, r.id, r.key)
        /\ stored' = stored \union {Entry(r.id, r.key)}
    BY <1>4 DEF KeystoreWritten, BagToSet
  <2>2. /\ DOMAIN keystore' = DOMAIN keystore \union {r.id} /\ keystore'[r.id] = r.key
        /\ \A i \in DOMAIN keystore \ {r.id} : keystore'[i] = keystore[i]
    BY <2>1 DEF With
  <2>3. r.id \in contested \/ r.id \notin DOMAIN keystore
    BY <2>1 DEF KeyInv, Lone
  <2>4. Entry(r.id, r.key).id = r.id /\ Entry(r.id, r.key).key = r.key
    BY DEF Entry
  <2>5. ASSUME NEW s \in stored', s.id \notin contested'
        PROVE  s.id \in DOMAIN keystore' /\ keystore'[s.id] = s.key
    <3>1. CASE s \in stored
      BY <1>1, <2>1, <2>2, <2>3, <2>5, <3>1 DEF KeyKept
    <3>2. CASE s = Entry(r.id, r.key)
      BY <2>2, <2>4, <3>2
    <3>3. QED
      BY <2>1, <2>5, <3>1, <3>2
  <2>6. QED
    BY <2>5 DEF KeyKept
<1>5. ASSUME NEW r, UnlinkKeystore(r) PROVE KeyKept'
  <2>1. contested' = contested
    BY <1>5 DEF UnlinkKeystore
  <2>2. CASE r.id \in DOMAIN keystore
    <3>1. keystore' = Without(keystore, r.id) /\ stored' = {s \in stored : s.id # r.id}
      BY <1>5, <2>2 DEF UnlinkKeystore
    <3>2. /\ DOMAIN keystore' = DOMAIN keystore \ {r.id}
          /\ \A i \in DOMAIN keystore \ {r.id} : keystore'[i] = keystore[i]
      BY <3>1 DEF Without
    <3>3. QED
      BY <1>1, <2>1, <3>1, <3>2 DEF KeyKept
  <2>3. CASE r.id \notin DOMAIN keystore
    BY <1>2, <1>5, <2>3 DEF UnlinkKeystore
  <2>4. QED
    BY <2>2, <2>3
<1>6. QED
  BY <1>2, <1>3, <1>4, <1>5, FilesStay DEF WalletNext

LEMMA KeyStep == KeyInv /\ [WalletNext]_walletVars => KeyInv'
<1> SUFFICES ASSUME KeyInv, [WalletNext]_walletVars PROVE KeyInv'
  OBVIOUS
<1>1. AllIn(Vouched)'
  BY VouchedStep DEF KeyInv
<1>2. CASE UNCHANGED walletVars
  BY <1>1, <1>2 DEF walletVars, memory, past, KeyInv, Lone, KeyKept
<1>3. CASE WalletNext
  BY <1>1, <1>3, LoneStep, KeyKeptStep DEF KeyInv
<1>4. QED
  BY <1>2, <1>3

\* secureKeyManager.ts: a private key that was put into a keystore file stays
\* there until its wallet is removed, unless two adds of its identifier
\* overlapped.
THEOREM KeysAreKept == WalletSpec => []KeyKept
<1>1. KeyInv => KeyKept
  BY DEF KeyInv
<1>2. QED
  BY <1>1, KeyStart, KeyStep, PTL DEF WalletSpec

\* clobClientFactory.ts: a cached client signs with the key of the wallet that is
\* listed under its identifier, unless that wallet was removed, or added twice at
\* a time: the key of either is in its keystore file.
THEOREM ClientsSignForThemselves == WalletSpec => []SignsForItself
<1>1. KeyInv => SignsForItself
  <2> SUFFICES ASSUME KeyInv, NEW i \in DOMAIN list, list[i].id \in DOMAIN clients,
                      list[i].id \notin removed \union contested
               PROVE  clients[list[i].id] = list[i].key
    BY DEF SignsForItself
  <2>1. AllIn(Vouched) /\ KeyKept
    BY DEF KeyInv
  <2>2. list[i] \in Vouched /\ Entry(list[i].id, clients[list[i].id]) \in Vouched
    BY <2>1 DEF AllIn, ListsIn, KeysIn, Signs
  <2>3. Entry(list[i].id, clients[list[i].id]).id = list[i].id
        /\ Entry(list[i].id, clients[list[i].id]).key = clients[list[i].id]
    BY DEF Entry
  <2>4. list[i] \in stored /\ Entry(list[i].id, clients[list[i].id]) \in stored
    BY <2>2, <2>3 DEF Vouched
  <2>5. QED
    BY <2>1, <2>3, <2>4 DEF KeyKept
<1>2. QED
  BY <1>1, KeyStart, KeyStep, PTL DEF WalletSpec

-----------------------------------------------------------------------------
(* Assignments.                                                            *)

Ok == ~misplaced /\ ~mixed
TiesListed(a, l) == \A t \in a : t[2] \in Listed(l)

\* The lists and assignments that a request has or, while it waits to write the
\* ones in memory, may still take: l and a are those in memory.
HeldLists(r, l) == IF r.pc = "dir" /\ r.list = {} THEN {l} ELSE r.list
HeldTies(r, a)  == IF r.pc = "dir" /\ r.assigned = {} THEN {a} ELSE r.assigned
HoldsListed(r, l, a) == \A x \in HeldLists(r, l), y \in HeldTies(r, a) : TiesListed(y, x)

Saving == {"load", "dir", "write", "read"}

Fit(r, l, a, ok) ==
  /\ AtomicStorage => r.pc \notin Saving
  /\ r.pc = "dir" /\ r.list # {} => r.assigned # {}
  /\ ok => HoldsListed(r, l, a)

AllFit(B, l, a, ok) == \A r \in DOMAIN B : Fit(r, l, a, ok)

TiesFit ==
  /\ known \/ Hosted
  /\ AllFit(pending, list, assigned, Ok)
  /\ Ok => TiesListed(assigned, list) /\ TiesListed(disk.assigned, disk.list)

\* What else may be in memory.
LEMMA FitPlain ==
  ASSUME NEW r, r.pc \notin Saving, r.list = {}, NEW l, NEW a, NEW ok
  PROVE  Fit(r, l, a, ok)
BY DEF Fit, HoldsListed, HeldLists, Saving

LEMMA FitApart ==
  ASSUME NEW r, NEW l, NEW a, NEW ok, Fit(r, l, a, ok), NEW k, NEW b,
         r.pc = "dir" => r.list # {}
  PROVE  Fit(r, k, b, ok)
BY DEF Fit, HoldsListed, HeldLists, HeldTies

LEMMA FitAtomic ==
  ASSUME AtomicStorage, NEW r, NEW l, NEW a, NEW ok, Fit(r, l, a, ok), NEW k, NEW b
  PROVE  Fit(r, k, b, ok)
<1>1. r.pc # "dir"
  BY DEF Fit, Saving
<1>2. QED
  BY <1>1, FitApart

LEMMA FitLonger ==
  ASSUME NEW r, NEW l, NEW a, NEW ok, Fit(r, l, a, ok),
         NEW k, Listed(l) \subseteq Listed(k)
  PROVE  Fit(r, k, a, ok)
BY DEF Fit, HoldsListed, HeldLists, TiesListed

LEMMA FitMoreTies ==
  ASSUME NEW r, NEW l, NEW a, NEW ok, Fit(r, l, a, ok),
         NEW b, ok => TiesListed(b, l)
  PROVE  Fit(r, l, b, ok)
BY DEF Fit, HoldsListed, HeldLists, HeldTies

LEMMA FitOtherTies ==
  ASSUME NEW r, NEW l, NEW a, NEW ok, Fit(r, l, a, ok),
         r.pc = "dir" => r.assigned # {}, NEW b
  PROVE  Fit(r, l, b, ok)
BY DEF Fit, HoldsListed, HeldTies

LEMMA FitNow ==
  ASSUME NEW r, NEW ok, Fit(r, list, assigned, ok), known \/ Hosted
  PROVE  Fit(r, Now.list, Now.assigned, ok)
<1>1. CASE known
  BY <1>1 DEF Now, Config
<1>2. CASE ~known
  BY <1>2, FitAtomic, WalletAssumption
<1>3. QED
  BY <1>1, <1>2

LEMMA TiesNow ==
  ASSUME TiesFit, Ok
  PROVE  TiesListed(Now.assigned, Now.list)
BY DEF TiesFit, Now, Config

\* Requests that come and go.
LEMMA FitAdded ==
  ASSUME NEW B, NEW l, NEW a, NEW ok, AllFit(B, l, a, ok), NEW q, Fit(q, l, a, ok)
  PROVE  AllFit(B (+) SetToBag({q}), l, a, ok)
<1>1. DOMAIN (B (+) SetToBag({q})) = DOMAIN B \union {q}
  BY AddedElements
<1>2. QED
  BY <1>1 DEF AllFit

LEMMA FitRest ==
  ASSUME NEW r, NEW l, NEW a, NEW ok, AllFit(pending, l, a, ok)
  PROVE  AllFit(OtherRequests(r), l, a, ok)
BY RestElements DEF AllFit, OtherRequests

\* Requests that keep the lists of this moment, or its assignments.
LEMMA FitKeep ==
  ASSUME NEW W, ListsIn(W), NEW B, DOMAIN B \subseteq Requests(W),
         NEW ok, AllFit(B, list, assigned, ok), NEW l \in {{}, {list}}
  PROVE  /\ AllFit(Keep(B, l, {assigned}), list, assigned, ok)
         /\ \A e \in DOMAIN Keep(B, l, {assigned}) : e.pc = "dir" =>
              /\ e.assigned # {}
              /\ l # {} => e.list # {}
              /\ (\A q \in DOMAIN B : q.pc = "dir" => q.list # {}) => e.list # {}
<1>1. l \in SUBSET Seq(W) /\ {assigned} \in SUBSET SUBSET Ties
  BY DEF ListsIn
<1>2. \A q \in DOMAIN B : q.pc = "dir" =>
        LET f == Fixed(q, l, {assigned}) IN
        /\ f.pc = "dir" /\ f.list = IF q.list = {} THEN l ELSE q.list
        /\ f.assigned = IF q.assigned = {} THEN {assigned} ELSE q.assigned
  BY <1>1, FixedFields
<1>3. \A e \in DOMAIN Keep(B, l, {assigned}) :
        \/ e \in DOMAIN B /\ e.pc # "dir"
        \/ \E q \in DOMAIN B : q.pc = "dir" /\ e = Fixed(q, l, {assigned})
  <2>1. PICK a : a = {assigned}
    OBVIOUS
  <2>2. \A q \in DOMAIN B : q.pc = "dir" => Fixed(q, l, a).pc = "dir"
    BY <1>2, <2>1
  <2>3. \A e \in DOMAIN Keep(B, l, a) :
          \/ e \in DOMAIN B /\ e.pc # "dir"
          \/ \E q \in DOMAIN B : q.pc = "dir" /\ e = Fixed(q, l, a)
    BY <2>2, KeepElements
  <2>4. QED
    BY <2>1, <2>3
<1>4. ASSUME NEW e \in DOMAIN Keep(B, l, {assigned})
      PROVE  /\ Fit(e, list, assigned, ok)
             /\ e.pc = "dir" => /\ e.assigned # {}
                                /\ l # {} => e.list # {}
                                /\ (\A q \in DOMAIN B : q.pc = "dir" => q.list # {})
                                     => e.list # {}
  <2>1. CASE e \in DOMAIN B /\ e.pc # "dir"
    BY <2>1 DEF AllFit
  <2>2. CASE \E q \in DOMAIN B : q.pc = "dir" /\ e = Fixed(q, l, {assigned})
    <3>1. PICK q \in DOMAIN B : q.pc = "dir" /\ e = Fixed(q, l, {assigned})
      BY <2>2
    <3>2. /\ e.pc = "dir" /\ e.list = IF q.list = {} THEN l ELSE q.list
          /\ e.assigned = IF q.assigned = {} THEN {assigned} ELSE q.assigned
      BY <1>2, <3>1
    <3>3. Fit(q, list, assigned, ok)
      BY DEF AllFit
    <3>4. HeldLists(e, list) = HeldLists(q, list) /\ HeldTies(e, assigned) = HeldTies(q, assigned)
      BY <3>1, <3>2 DEF HeldLists, HeldTies
    <3>5. Fit(e, list, assigned, ok)
      BY <3>1, <3>2, <3>3, <3>4 DEF Fit, HoldsListed
    <3>6. QED
      BY <3>1, <3>2, <3>5
  <2>3. QED
    BY <1>3, <2>1, <2>2
<1>5. QED
  BY <1>4 DEF AllFit

\* What is left after a change of the lists.
LEMMA SaveFits ==
  ASSUME NEW B, NEW l, NEW a, AllFit(B, l, a, Ok'), ChangeAndSave(B, l, a),
         Ok' => TiesListed(a, l) /\ TiesListed(disk.assigned, disk.list)
  PROVE  TiesFit'
<1>1. /\ list' = l /\ assigned' = a /\ known' = TRUE
      /\ disk' = disk \/ disk' = Config(l, a)
      /\ \/ pending' = B
         \/ ~AtomicStorage /\ pending' = B (+) SetToBag({Request("load")})
  BY SaveEffect
<1>2. Config(l, a).list = l /\ Config(l, a).assigned = a
  BY DEF Config
<1>3. ~AtomicStorage => Fit(Request("load"), l, a, Ok')
  <2>1. Request("load").list = {} /\ Request("load").pc = "load"
    BY DEF Request
  <2>2. QED
    BY <2>1 DEF Fit, HoldsListed, HeldLists
<1>4. AllFit(pending', l, a, Ok')
  BY <1>1, <1>3, FitAdded
<1>5. QED
  BY <1>1, <1>2, <1>4 DEF TiesFit

\* Steps that leave the lists alone, or only load them.
LEMMA SameFits ==
  ASSUME TiesFit, UNCHANGED <<disk, misplaced, mixed>>,
         UNCHANGED memory \/ NowIs(Now),
         AllFit(pending', list, assigned, Ok)
  PROVE  TiesFit'
<1>1. Ok' = Ok
  BY DEF Ok
<1>2. CASE UNCHANGED memory
  BY <1>1, <1>2 DEF memory, TiesFit
<1>3. CASE NowIs(Now)
  <2>1. list' = Now.list /\ assigned' = Now.assigned /\ known' = TRUE
    BY <1>3 DEF NowIs
  <2>2. AllFit(pending', Now.list, Now.assigned, Ok)
    BY FitNow DEF AllFit, TiesFit
  <2>3. QED
    BY <1>1, <2>1, <2>2, TiesNow DEF TiesFit
<1>4. QED
  BY <1>2, <1>3

\* A request that goes on with the lists it has, or tells less.
LEMMA FitOn ==
  ASSUME NEW r, NEW q, q.list = r.list, q.assigned = r.assigned,
         r.pc # "dir", q.pc \notin Saving,
         NEW l, NEW a, NEW ok, Fit(r, l, a, ok)
  PROVE  Fit(q, l, a, ok)
BY DEF Fit, HoldsListed, HeldLists, HeldTies, Saving

LEMMA FitLess ==
  ASSUME NEW r, NEW l, NEW a, NEW ok, Fit(r, l, a, ok), NEW so, so => ok
  PROVE  Fit(r, l, a, so)
BY DEF Fit

LEMMA StartsFit ==
  ASSUME TiesFit, UNCHANGED <<disk, misplaced, mixed>>,
         UNCHANGED memory \/ NowIs(Now),
         NEW q, Starts(q), Fit(q, list, assigned, Ok)
  PROVE  TiesFit'
BY FitAdded, SameFits DEF Starts, TiesFit

LEMMA GoesFit ==
  ASSUME TiesFit, UNCHANGED <<disk, misplaced, mixed, memory>>,
         NEW r, NEW q, Goes(r, q), Fit(q, list, assigned, Ok)
  PROVE  TiesFit'
BY FitAdded, FitRest, SameFits DEF Goes, TiesFit

LEMMA EndsFit ==
  ASSUME TiesFit, UNCHANGED <<disk, misplaced, mixed, memory>>,
         NEW r, Ends(r)
  PROVE  TiesFit'
BY FitRest, SameFits DEF Ends, TiesFit

\* The lists of now are saved, or longer ones.
LEMMA SaveNowFits ==
  ASSUME TiesFit, UNCHANGED <<misplaced, mixed>>,
         NEW B, AllFit(B, list, assigned, Ok),
         NEW l, Listed(Now.list) \subseteq Listed(l),
         ChangeAndSave(B, l, Now.assigned)
  PROVE  TiesFit'
<1>1. Ok' = Ok
  BY DEF Ok
<1>2. AllFit(B, Now.list, Now.assigned, Ok)
  BY FitNow DEF AllFit, TiesFit
<1>3. AllFit(B, l, Now.assigned, Ok')
  BY <1>1, <1>2, FitLonger DEF AllFit
<1>4. Ok' => TiesListed(Now.assigned, l) /\ TiesListed(disk.assigned, disk.list)
  BY <1>1, TiesNow DEF TiesFit, TiesListed
<1>5. QED
  BY <1>3, <1>4, SaveFits

-----------------------------------------------------------------------------
(* Requests that start.                                                    *)

LEMMA PlainStarts ==
  ASSUME TiesFit, UNCHANGED <<disk, misplaced, mixed>>,
         UNCHANGED memory \/ NowIs(Now),
         NEW q, Starts(q), q.pc \notin Saving, q.list = {}
  PROVE  TiesFit'
BY FitPlain, StartsFit

LEMMA RequestsFit ==
  ASSUME TiesFit, NEW id,
         \/ \E key \in PrivateKeys : AddTradingWallet(id, key)
         \/ RemoveTradingWallet(id) \/ UpdateBuilderCredentials(id) \/ Unlock
         \/ UseClient(id) \/ EvictClient(id)
  PROVE  TiesFit'
<1>1. ASSUME NEW key, AddTradingWallet(id, key)
      PROVE  TiesFit'
  <2>1. PICK q : q = [Request("access") EXCEPT !.id = id, !.key = key]
    OBVIOUS
  <2>2. q.pc = "access" /\ q.list = {}
    BY <2>1 DEF Request
  <2>3. QED
    BY <1>1, <2>1, <2>2, PlainStarts DEF AddTradingWallet, past, Saving
<1>2. CASE RemoveTradingWallet(id)
  <2>1. PICK q : q = [Request("unlink") EXCEPT !.id = id, !.at = First(Now.list, id)]
    OBVIOUS
  <2>2. q.pc = "unlink" /\ q.list = {}
    BY <2>1 DEF Request
  <2>3. QED
    BY <1>2, <2>1, <2>2, PlainStarts DEF RemoveTradingWallet, past, Saving
<1>3. CASE UpdateBuilderCredentials(id)
  <2>1. PICK q : q = [Request("newcreds") EXCEPT !.id = id]
    OBVIOUS
  <2>2. q.pc = "newcreds" /\ q.list = {}
    BY <2>1 DEF Request
  <2>3. QED
    BY <1>3, <2>1, <2>2, PlainStarts DEF UpdateBuilderCredentials, past, Saving
<1>4. CASE Unlock
  <2>1. PICK q : q = [Request("unlock") EXCEPT !.todo = IF Hosted THEN {} ELSE DOMAIN keystore]
    OBVIOUS
  <2>2. q.pc = "unlock" /\ q.list = {}
    BY <2>1 DEF Request
  <2>3. QED
    BY <1>4, <2>1, <2>2, PlainStarts DEF Unlock, past, Saving
<1>5. ASSUME UNCHANGED <<disk, misplaced, mixed, memory>>, MakeClient(id)
      PROVE  TiesFit'
  <2>1. PICK key : key = IF id \in DOMAIN signers THEN signers[id] ELSE keystore[id]
    OBVIOUS
  <2>2. PICK q : q = [Request("client") EXCEPT !.id = id, !.key = key]
    OBVIOUS
  <2>3. q.pc = "client" /\ q.list = {}
    BY <2>2 DEF Request
  <2>4. Starts(q)
    BY <1>5, <2>1, <2>2 DEF MakeClient
  <2>5. QED
    BY <1>5, <2>3, <2>4, PlainStarts DEF Saving
<1>6. CASE UseClient(id)
  BY <1>5, <1>6 DEF UseClient, past
<1>7. CASE EvictClient(id)
  <2>1. UNCHANGED <<disk, misplaced, mixed, memory>>
    BY <1>7 DEF EvictClient, past
  <2>2. CASE UNCHANGED pending
    BY <2>1, <2>2, SameFits DEF TiesFit
  <2>3. QED
    BY <1>5, <1>7, <2>1, <2>2 DEF EvictClient
<1>8. QED
  BY <1>1, <1>2, <1>3, <1>4, <1>6, <1>7

LEMMA ToggleFits ==
  ASSUME TiesFit, NEW id, ToggleTradingWallet(id)
  PROVE  TiesFit'
BY SaveNowFits DEF ToggleTradingWallet, StartAndSave, past, TiesFit

LEMMA AddAssignmentFits ==
  ASSUME TiesFit, NEW a, NEW id, AddCopyAssignment(a, id)
  PROVE  TiesFit'
<1>1. PICK b : b = Now.assigned \union {<<a, id>>}
  OBVIOUS
<1>2. UNCHANGED <<misplaced, mixed>> /\ ChangeAndSave(pending, Now.list, b)
      /\ id \in Listed(Now.list)
  BY <1>1 DEF AddCopyAssignment, StartAndSave, past
<1>3. Ok' = Ok
  BY <1>2 DEF Ok
<1>4. Ok => TiesListed(b, Now.list)
  BY <1>1, <1>2, TiesNow DEF TiesListed
<1>5. AllFit(pending, Now.list, Now.assigned, Ok)
  BY FitNow DEF AllFit, TiesFit
<1>6. AllFit(pending, Now.list, b, Ok')
  BY <1>3, <1>4, <1>5, FitMoreTies DEF AllFit
<1>7. QED
  BY <1>2, <1>3, <1>4, <1>6, SaveFits DEF TiesFit

LEMMA RemoveAssignmentFits ==
  ASSUME NEW W, AllIn(W), TiesFit, NEW a, NEW id, RemoveCopyAssignment(a, id)
  PROVE  TiesFit'
<1>1. PICK b : b = Now.assigned \ {<<a, id>>}
  OBVIOUS
<1>2. UNCHANGED <<misplaced, mixed>> /\ ChangeAndSave(KeepAssigned(pending), Now.list, b)
  BY <1>1 DEF RemoveCopyAssignment, StartAndSave, past
<1>3. Ok' = Ok
  BY <1>2 DEF Ok
<1>4. Ok => TiesListed(b, Now.list)
  BY <1>1, TiesNow DEF TiesListed
<1>5. /\ AllFit(Keep(pending, {}, {assigned}), list, assigned, Ok)
      /\ \A e \in DOMAIN Keep(pending, {}, {assigned}) : e.pc = "dir" => e.assigned # {}
  BY FitKeep DEF AllIn, PendingIn, TiesFit
<1>6. AllFit(KeepAssigned(pending), Now.list, b, Ok)
  <2>1. CASE known
    <3>1. Now.list = list
      BY <2>1 DEF Now, Config
    <3>2. QED
      BY <1>5, <3>1, FitOtherTies DEF AllFit, KeepAssigned
  <2>2. CASE ~known
    BY <1>5, <2>2, FitAtomic, WalletAssumption DEF AllFit, KeepAssigned, TiesFit
  <2>3. QED
    BY <2>1, <2>2
<1>7. QED
  BY <1>2, <1>3, <1>4, <1>6, SaveFits DEF TiesFit

LEMMA LoadingFits ==
  ASSUME NEW W, AllIn(W), TiesFit, OtherSetting \/ Reread
  PROVE  TiesFit'
<1>1. UNCHANGED <<disk, misplaced, mixed>> /\ Ok' = Ok
  BY DEF OtherSetting, Reread, past, Ok
<1>2. ASSUME NEW p \in {"write", "read"}, ~AtomicStorage
      PROVE  Fit(Carrying(p, disk), list, assigned, Ok)
  <2>1. p \in WalletWaits /\ disk \in [list : Seq(W), assigned : SUBSET Ties]
    BY DEF WalletWaits, AllIn, ListsIn
  <2>2. PICK q : q = Carrying(p, disk)
    OBVIOUS
  <2>3. q.pc = p /\ q.list = {disk.list} /\ q.assigned = {disk.assigned}
    BY <2>1, <2>2, CarryingFields
  <2>4. HoldsListed(q, list, assigned) <=> TiesListed(disk.assigned, disk.list)
    BY <2>3 DEF HoldsListed, HeldLists, HeldTies
  <2>5. QED
    BY <1>2, <2>2, <2>3, <2>4 DEF Fit, TiesFit
<1>3. CASE UNCHANGED memory /\ \E p \in {"write", "read"} :
             ~AtomicStorage /\ Starts(Carrying(p, disk))
  BY <1>1, <1>2, <1>3, StartsFit
<1>4. CASE AtomicStorage /\ NowIs(disk) /\ UNCHANGED pending
  <2>1. AllFit(pending, disk.list, disk.assigned, Ok)
    BY <1>4, FitAtomic DEF AllFit, TiesFit
  <2>2. QED
    BY <1>1, <1>4, <2>1 DEF TiesFit, NowIs
<1>5. QED
  BY <1>3, <1>4 DEF OtherSetting, Reread

-----------------------------------------------------------------------------
(* Requests that go on.                                                    *)

LEMMA AddGoesOn ==
  ASSUME NEW W, AllIn(W), TiesFit, NEW r \in DOMAIN pending,
         \/ KeystoreMissing(r) \/ KeystoreExists(r) \/ KeystoreWritten(r)
         \/ CredentialsWritten(r) \/ CredentialsUpdated(r)
  PROVE  TiesFit'
<1>1. /\ r \in Fields(W) /\ Fit(r, list, assigned, Ok)
      /\ UNCHANGED <<misplaced, mixed>>
  BY DEF AllIn, PendingIn, Requests, TiesFit, AllFit, KeystoreMissing, Writes, KeystoreExists,
         KeystoreWritten, CredentialsWritten, CredentialsUpdated, past
<1>2. ASSUME NEW p \in {"keyfile", "credfile"}, r.pc # "dir"
      PROVE  Fit([r EXCEPT !.pc = p], list, assigned, Ok)
  <2>1. p \in Holds \union WalletWaits /\ p \notin Saving
    BY DEF Holds, Saving
  <2>2. PICK q : q = [r EXCEPT !.pc = p]
    OBVIOUS
  <2>3. q.pc = p /\ q.list = r.list /\ q.assigned = r.assigned
    BY <1>1, <2>1, <2>2, AwaitFields
  <2>4. QED
    BY <1>1, <1>2, <2>1, <2>2, <2>3, FitOn
<1>3. CASE KeystoreMissing(r)
  BY <1>2, <1>3, GoesFit DEF KeystoreMissing, Writes
<1>4. CASE KeystoreExists(r)
  BY <1>4, EndsFit DEF KeystoreExists, past
<1>5. CASE ListWallet(r)
  <2>1. PICK w : w = Entry(r.id, r.key)
    OBVIOUS
  <2>2. Now.list \in Seq(W) /\ AllFit(OtherRequests(r), list, assigned, Ok)
    BY NowIn, FitRest DEF AllIn, TiesFit
  <2>3. \A i \in DOMAIN Now.list : i \in DOMAIN Append(Now.list, w)
                                    /\ Append(Now.list, w)[i] = Now.list[i]
    BY <2>2
  <2>4. Listed(Now.list) \subseteq Listed(Append(Now.list, w))
    BY <2>3 DEF Listed, Range
  <2>5. QED
    BY <1>1, <1>5, <2>1, <2>2, <2>4, SaveNowFits DEF ListWallet
<1>6. CASE KeystoreWritten(r)
  BY <1>1, <1>2, <1>5, <1>6, GoesFit DEF KeystoreWritten
<1>7. CASE CredentialsWritten(r)
  BY <1>5, <1>7 DEF CredentialsWritten
<1>8. CASE CredentialsUpdated(r)
  <2>1. AllFit(OtherRequests(r), list, assigned, Ok)
    BY FitRest DEF TiesFit
  <2>2. QED
    BY <1>1, <1>8, <2>1, SaveNowFits DEF CredentialsUpdated
<1>9. QED
  BY <1>3, <1>4, <1>6, <1>7, <1>8

LEMMA OtherGoesOn ==
  ASSUME NEW W, AllIn(W), TiesFit, NEW r \in DOMAIN pending,
         \/ UnlinkKeystore(r) \/ WriteFails(r) \/ UnlockFile(r) \/ UnlockEnds(r)
         \/ ClientReady(r) \/ ClientFails(r)
  PROVE  TiesFit'
<1>1. /\ r \in Fields(W) /\ Fit(r, list, assigned, Ok)
      /\ UNCHANGED <<misplaced, mixed>>
  BY DEF AllIn, PendingIn, Requests, TiesFit, AllFit, UnlinkKeystore, WriteFails, UnlockFile,
         UnlockEnds, ClientReady, ClientFails, past
<1>2. CASE WriteFails(r) \/ ClientReady(r) \/ ClientFails(r)
  BY <1>1, <1>2, EndsFit DEF WriteFails, ClientReady, ClientFails
<1>3. CASE UnlinkKeystore(r)
  <2>1. PICK q : q = [r EXCEPT !.pc = "unlinkcreds"]
    OBVIOUS
  <2>2. "unlinkcreds" \in Holds \union WalletWaits /\ "unlinkcreds" \notin Saving
    BY DEF WalletWaits, Saving
  <2>3. q.pc = "unlinkcreds" /\ q.list = r.list /\ q.assigned = r.assigned
    BY <1>1, <2>1, <2>2, AwaitFields
  <2>4. r.pc # "dir" /\ (Goes(r, q) \/ Ends(r)) /\ UNCHANGED <<disk, memory>>
    BY <1>3, <2>1 DEF UnlinkKeystore
  <2>5. Fit(q, list, assigned, Ok)
    BY <1>1, <2>2, <2>3, <2>4, FitOn
  <2>6. QED
    BY <1>1, <2>4, <2>5, GoesFit, EndsFit
<1>4. CASE UnlockFile(r)
  <2>1. PICK id : id = CHOOSE i \in r.todo : TRUE
    OBVIOUS
  <2>2. PICK q : q = [r EXCEPT !.todo = @ \ {id}]
    OBVIOUS
  <2>3. q.pc = r.pc /\ q.list = r.list /\ q.assigned = r.assigned
    BY <1>1, <2>2 DEF Fields
  <2>4. r.pc = "unlock" /\ (Goes(r, q) \/ Ends(r)) /\ UNCHANGED <<disk, memory>>
    BY <1>4, <2>1, <2>2 DEF UnlockFile
  <2>5. Fit(q, list, assigned, Ok)
    BY <1>1, <2>3, <2>4, FitOn DEF Saving
  <2>6. QED
    BY <1>1, <2>4, <2>5, GoesFit, EndsFit
<1>5. CASE UnlockEnds(r)
  <2>1. AllFit(OtherRequests(r), list, assigned, Ok)
    BY FitRest DEF TiesFit
  <2>2. CASE ChangeAndSave(OtherRequests(r), Now.list, Now.assigned)
    BY <1>1, <2>1, <2>2, SaveNowFits
  <2>3. CASE Ends(r) /\ UNCHANGED <<memory, disk>>
    BY <1>1, <2>3, EndsFit
  <2>4. QED
    BY <1>5, <2>2, <2>3 DEF UnlockEnds
<1>6. QED
  BY <1>2, <1>3, <1>4, <1>5

\* A wallet is dropped: off the list, and its assignments with it.
LEMMA DropFits ==
  ASSUME NEW W, AllIn(W), TiesFit, NEW r \in DOMAIN pending, DropWallet(r)
  PROVE  TiesFit'
<1>1. PICK l, b : /\ l = IF r.at \in DOMAIN Now.list THEN RemoveAt(Now.list, r.at) ELSE Now.list
                  /\ b = {t \in Now.assigned : t[2] # r.id}
  OBVIOUS
<1>2. ChangeAndSave(KeepAssigned(OtherRequests(r)), l, b)
  BY <1>1 DEF DropWallet, Drop
<1>3. Ok' => /\ Ok
             /\ r.at \in DOMAIN Now.list => Now.list[r.at].id = r.id
             /\ \A q \in DOMAIN pending : q.pc = "dir" => q.list # {}
  BY DEF DropWallet, Drop, Ok, BagToSet
<1>4. Ok' => TiesListed(b, l)
  <2> SUFFICES ASSUME Ok', NEW t \in b PROVE t[2] \in Listed(l)
    BY DEF TiesListed
  <2>1. t[2] \in Listed(Now.list) /\ t[2] # r.id
    BY <1>1, <1>3, TiesNow DEF TiesListed
  <2>2. Now.list \in Seq(W)
    BY NowIn DEF AllIn
  <2>3. CASE r.at \in DOMAIN Now.list
    BY <1>1, <1>3, <2>1, <2>2, <2>3, RemoveLists
  <2>4. QED
    BY <1>1, <2>1, <2>3
<1>5. DOMAIN OtherRequests(r) \subseteq DOMAIN pending
  BY RestElements DEF OtherRequests
<1>6. AllFit(OtherRequests(r), list, assigned, Ok)
  BY FitRest DEF TiesFit
<1>7. DOMAIN OtherRequests(r) \subseteq Requests(W) /\ ListsIn(W)
  BY <1>5 DEF AllIn, PendingIn
<1>8. /\ AllFit(Keep(OtherRequests(r), {}, {assigned}), list, assigned, Ok)
      /\ \A e \in DOMAIN Keep(OtherRequests(r), {}, {assigned}) :
           /\ e.pc = "dir"
           /\ \A q \in DOMAIN OtherRequests(r) : q.pc = "dir" => q.list # {}
           => e.list # {}
  BY <1>6, <1>7, FitKeep
<1>9. AllFit(KeepAssigned(OtherRequests(r)), l, b, Ok')
  <2> SUFFICES ASSUME NEW e \in DOMAIN Keep(OtherRequests(r), {}, {assigned})
               PROVE  Fit(e, l, b, Ok')
    BY DEF AllFit, KeepAssigned
  <2>1. Fit(e, list, assigned, Ok)
    BY <1>8 DEF AllFit
  <2>2. CASE Ok'
    <3>1. e.pc = "dir" => e.list # {}
      BY <1>3, <1>5, <1>8, <2>2
    <3>2. Fit(e, l, b, Ok)
      BY <2>1, <3>1, FitApart
    <3>3. QED
      BY <1>3, <3>2, FitLess
  <2>3. CASE ~Ok'
    BY <2>1, <2>3 DEF Fit
  <2>4. QED
    BY <2>2, <2>3
<1>10. QED
  BY <1>2, <1>3, <1>4, <1>9, SaveFits DEF TiesFit

\* A save, and a load.
LEMMA SaveGoesOn ==
  ASSUME NEW W, AllIn(W), TiesFit, NEW r \in DOMAIN pending,
         SaveLoads(r) \/ SaveFormats(r) \/ SaveWrites(r) \/ RereadEnds(r)
  PROVE  TiesFit'
<1>1. /\ r \in Requests(W) /\ r \in Fields(W) /\ Fit(r, list, assigned, Ok)
      /\ UNCHANGED <<misplaced, mixed>> /\ Ok' = Ok
  BY DEF AllIn, PendingIn, Requests, TiesFit, AllFit, SaveLoads, SaveFormats, SaveWrites,
         RereadEnds, past, Ok
<1>2. ~AtomicStorage
  BY <1>1 DEF SaveLoads, SaveFormats, SaveWrites, RereadEnds, Fit, Saving
<1>3. CASE SaveLoads(r)
  <2>1. Request("dir").pc = "dir" /\ Request("dir").list = {} /\ Request("dir").assigned = {}
    BY DEF Request
  <2>2. HoldsListed(Request("dir"), list, assigned) <=> TiesListed(assigned, list)
    BY <2>1 DEF HoldsListed, HeldLists, HeldTies
  <2>3. Fit(Request("dir"), list, assigned, Ok)
    BY <1>2, <2>1, <2>2 DEF Fit, TiesFit
  <2>4. QED
    BY <1>1, <1>3, <2>3, GoesFit DEF SaveLoads
<1>4. CASE SaveFormats(r)
  <2>1. r.pc = "dir" /\ {list} \in SUBSET Seq(W) /\ {assigned} \in SUBSET SUBSET Ties
    BY <1>4 DEF SaveFormats, AllIn, ListsIn
  <2>2. PICK f : f = Fixed(r, {list}, {assigned})
    OBVIOUS
  <2>3. /\ f \in Fields(W)
        /\ f.list = HeldLists(r, list) /\ f.assigned = HeldTies(r, assigned)
    BY <1>1, <2>1, <2>2, FixedFields DEF Requests, HeldLists, HeldTies
  <2>4. PICK q : q = [f EXCEPT !.pc = "write"]
    OBVIOUS
  <2>5. q.pc = "write" /\ q.list = HeldLists(r, list) /\ q.assigned = HeldTies(r, assigned)
    BY <2>3, <2>4 DEF Fields
  <2>6. HoldsListed(q, list, assigned) <=> HoldsListed(r, list, assigned)
    BY <2>5 DEF HoldsListed, HeldLists, HeldTies
  <2>7. Fit(q, list, assigned, Ok)
    BY <1>1, <1>2, <2>5, <2>6 DEF Fit
  <2>8. QED
    BY <1>1, <1>4, <2>2, <2>4, <2>7, GoesFit DEF SaveFormats
<1>5. CASE SaveWrites(r)
  <2>1. PICK l \in r.list, a \in r.assigned : disk' = Config(l, a)
    BY <1>5 DEF SaveWrites
  <2>2. r.pc = "write" /\ UNCHANGED <<list, assigned, known>> /\ Ends(r)
    BY <1>5 DEF SaveWrites, memory
  <2>3. Ok => TiesListed(a, l)
    BY <1>1, <2>2 DEF Fit, HoldsListed, HeldLists, HeldTies
  <2>4. disk'.list = l /\ disk'.assigned = a
    BY <2>1 DEF Config
  <2>5. AllFit(pending', list, assigned, Ok)
    BY <2>2, FitRest DEF Ends, TiesFit
  <2>6. QED
    BY <1>1, <2>2, <2>3, <2>4, <2>5 DEF TiesFit
<1>6. CASE RereadEnds(r)
  <2>1. PICK l \in r.list, a \in r.assigned : NowIs(Config(l, a))
    BY <1>6 DEF RereadEnds
  <2>2. r.pc = "read" /\ pending' = KeepLists(OtherRequests(r)) /\ disk' = disk
    BY <1>6 DEF RereadEnds
  <2>3. Ok => TiesListed(a, l)
    BY <1>1, <2>2 DEF Fit, HoldsListed, HeldLists, HeldTies
  <2>4. list' = l /\ assigned' = a /\ known' = TRUE
    BY <2>1 DEF NowIs, Config
  <2>5. AllFit(OtherRequests(r), list, assigned, Ok)
    BY FitRest DEF TiesFit
  <2>6. DOMAIN OtherRequests(r) \subseteq Requests(W) /\ ListsIn(W)
    BY RestElements DEF OtherRequests, AllIn, PendingIn
  <2>7. /\ AllFit(Keep(OtherRequests(r), {list}, {assigned}), list, assigned, Ok)
        /\ \A e \in DOMAIN Keep(OtherRequests(r), {list}, {assigned}) :
             e.pc = "dir" => e.list # {}
    BY <2>5, <2>6, FitKeep
  <2>8. AllFit(pending', l, a, Ok)
    BY <2>2, <2>7, FitApart DEF AllFit, KeepLists
  <2>9. QED
    BY <1>1, <2>2, <2>3, <2>4, <2>8 DEF TiesFit
<1>7. QED
  BY <1>3, <1>4, <1>5, <1>6

-----------------------------------------------------------------------------

LEMMA TiesStart == WalletInit => TiesFit
<1> SUFFICES ASSUME WalletInit PROVE TiesFit
  OBVIOUS
<1>1. PICK l \in Earlier, a \in SUBSET (Addresses \X Ids) :
        TiesListed(a, l) /\ disk = Config(l, a)
  BY DEF WalletInit, TiesListed
<1>2. disk.list = l /\ disk.assigned = a
  BY <1>1 DEF Config
<1>3. TiesListed(assigned, list)
  BY <1>1, <1>2 DEF WalletInit, TiesListed
<1>4. DOMAIN pending = {} /\ (known \/ Hosted)
  BY WalletAssumption DEF WalletInit, EmptyBag, SetToBag
<1>5. QED
  BY <1>1, <1>2, <1>3, <1>4 DEF TiesFit, AllFit

LEMMA TiesStep ==
  ASSUME AllIn(Vouched), TiesFit, [WalletNext]_walletVars
  PROVE  TiesFit'
<1>1. PICK W : W = Vouched
  OBVIOUS
<1>2. AllIn(W)
  BY <1>1
<1>3. CASE Start
  BY <1>2, <1>3, RequestsFit, ToggleFits, AddAssignmentFits, RemoveAssignmentFits, LoadingFits
  DEF Start
<1>4. ASSUME NEW r \in BagToSet(pending), GoOn(r)
      PROVE  TiesFit'
  <2>1. r \in DOMAIN pending
    BY DEF BagToSet
  <2>2. QED
    BY <1>2, <1>4, <2>1, AddGoesOn, OtherGoesOn, DropFits, SaveGoesOn DEF GoOn
<1>5. CASE RestartWallets
  <2>1. DOMAIN pending' = {} /\ (known' \/ Hosted)
    BY <1>5, WalletAssumption DEF RestartWallets, EmptyBag, SetToBag
  <2>2. Ok' = Ok /\ disk' = disk
    BY <1>5 DEF RestartWallets, past, Ok
  <2>3. Ok => TiesListed(assigned', list')
    BY <1>5 DEF RestartWallets, TiesFit, TiesListed
  <2>4. QED
    BY <2>1, <2>2, <2>3 DEF TiesFit, AllFit
<1>6. CASE UNCHANGED walletVars
  BY <1>6, SameFits DEF walletVars, past, TiesFit
<1>7. QED
  BY <1>3, <1>4, <1>5, <1>6 DEF WalletNext

\* walletManager.ts: in memory and in bot_config every copy assignment is to a
\* wallet of the list beside it, unless a removal took another entry off the list
\* or a save has the lists of two moments.
THEOREM AssignmentsAlwaysResolve == WalletSpec => []AssignmentsResolve
<1>1. TiesFit => AssignmentsResolve
  BY DEF TiesFit, Ok, TiesListed, AssignmentsResolve, Resolves, Config
<1>2. QED
  BY <1>1, VouchedStart, VouchedStep, TiesStart, TiesStep, PTL DEF WalletSpec

=============================================================================
