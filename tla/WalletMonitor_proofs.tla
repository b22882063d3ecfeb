------------------------ MODULE WalletMonitor_proofs ------------------------
(***************************************************************************)
(* Theorems about WalletMonitor, for every number of wallets, cycles and   *)
(* requests, every page size and both storage backends: the types, and     *)
(* what a cursor may pass over.                                            *)
(***************************************************************************)
EXTENDS WalletMonitor, FiniteSetTheorems, TLAPS

-----------------------------------------------------------------------------
(* Types.                                                                  *)

FillsNumbered == \E n \in 0 .. MaxFills : DOMAIN fills = 1 .. n

\* The locals of a cycle that stands at this label.
LocalsTyped(label, j) ==
  /\ j.batch \subseteq DOMAIN fills
  /\ label = "deliver" => j.maxSeen = j.cursorMs \/ j.maxSeen \in Nat
  /\ label \in {"seen", "save"} =>
       j.maxSeen \in Nat /\ j.maxSeen > j.cursorMs /\ j.batch = {}

CyclesTyped ==
  /\ pc \in [Cycles -> PC] /\ cycle \in [Cycles -> CycleType]
  /\ \A c \in Cycles : LocalsTyped(pc[c], cycle[c])

MonitorInv == TypeOK /\ FillsNumbered /\ CyclesTyped

\* A cycle that moves to a label with locals that fit keeps the types.
LEMMA CycleMoves ==
  ASSUME NEW c \in Cycles, CyclesTyped, UNCHANGED fills,
         NEW label \in PC, NEW j \in CycleType, LocalsTyped(label, j),
         Goto(c, label), SetCycle(c, j)
  PROVE  CyclesTyped'
<1>1. /\ pc' = [pc EXCEPT ![c] = label] /\ cycle' = [cycle EXCEPT ![c] = j]
      /\ pc \in [Cycles -> PC] /\ cycle \in [Cycles -> CycleType]
  BY DEF Goto, SetCycle, CyclesTyped
<1>2. pc' \in [Cycles -> PC] /\ cycle' \in [Cycles -> CycleType]
  BY <1>1
<1>3. ASSUME NEW d \in Cycles PROVE LocalsTyped(pc[d], cycle[d])'
  <2>1. CASE d = c
    BY <1>1, <2>1 DEF LocalsTyped
  <2>2. CASE d # c
    BY <1>1, <2>2 DEF LocalsTyped, CyclesTyped
  <2>3. QED
    BY <2>1, <2>2
<1>4. QED
  BY <1>2, <1>3 DEF CyclesTyped

\* The fields of a cycle that is of the type.
LEMMA CycleFields ==
  ASSUME NEW c \in Cycles, CyclesTyped
  PROVE  /\ cycle[c] \in CycleType /\ pc[c] \in PC
         /\ cycle[c].todo \subseteq Wallet /\ cycle[c].wallet \subseteq Wallet
         /\ cycle[c].batch \subseteq FillIds /\ cycle[c].snap \subseteq Wallet
         /\ cycle[c].cursorMs \in Int /\ cycle[c].maxSeen \in Int
         /\ cycle[c].first \in BOOLEAN /\ cycle[c].old \in BOOLEAN
         /\ LocalsTyped(pc[c], cycle[c])
BY DEF CyclesTyped, CycleType

\* The end of a wallet resets what the cycle has of it.
LEMMA EndWalletTyped ==
  ASSUME NEW c \in Cycles, CyclesTyped, UNCHANGED fills, EndWallet(c)
  PROVE  CyclesTyped'
<1> DEFINE j == [cycle[c] EXCEPT !.wallet = {}, !.batch = {}, !.snap = {},
                                 !.cursorMs = 0, !.maxSeen = 0]
<1>0. cycle[c] \in CycleType
  BY CycleFields
<1> DEFINE k == [cycle[c] EXCEPT !.wallet = {}, !.batch = {}, !.snap = {}]
<1>1a. k \in CycleType /\ k.batch = {}
  BY <1>0 DEF CycleType
<1>1. j \in CycleType /\ j.batch = {}
  <2> DEFINE m == [k EXCEPT !.cursorMs = 0]
  <2> HIDE DEF k
  <2>1. m \in CycleType /\ m.batch = {}
    BY <1>1a DEF CycleType
  <2> HIDE DEF m
  <2>2. [m EXCEPT !.maxSeen = 0] \in CycleType /\ [m EXCEPT !.maxSeen = 0].batch = {}
    BY <2>1 DEF CycleType
  <2>3. QED
    BY <2>2 DEF m, k
<1>2. "next" \in PC /\ LocalsTyped("next", j)
  BY <1>1 DEF LocalsTyped, PC
<1>3. Goto(c, "next") /\ SetCycle(c, j)
  BY DEF EndWallet
<1>4. QED
  BY <1>1, <1>2, <1>3, CycleMoves

\* A cycle that starts, or has ended, has no locals.
LEMMA NoCycleTyped ==
  ASSUME NEW first \in BOOLEAN
  PROVE  /\ [NoCycle EXCEPT !.first = first] \in CycleType
         /\ NoCycle \in CycleType
         /\ LocalsTyped("load", [NoCycle EXCEPT !.first = first])
         /\ LocalsTyped("idle", NoCycle)
<1> DEFINE j == [NoCycle EXCEPT !.first = first]
<1>1. NoCycle \in CycleType /\ NoCycle.batch = {}
  BY DEF NoCycle, CycleType
<1>2. j \in CycleType /\ j.batch = {}
  BY <1>1 DEF CycleType
<1>3. QED
  BY <1>1, <1>2 DEF LocalsTyped

\* Every step of a cycle keeps the types of the locals.
LEMMA CycleStepTyped ==
  ASSUME NEW c \in Cycles, MonitorInv, CycleStep(c)
  PROVE  CyclesTyped'
<1>1. CyclesTyped /\ TypeOK
  BY DEF MonitorInv
<1>2. /\ cycle[c] \in CycleType
      /\ cycle[c].todo \subseteq Wallet /\ cycle[c].batch \subseteq DOMAIN fills
      /\ DOMAIN fills \subseteq FillIds /\ wallets \subseteq Wallet /\ now \in Nat
      /\ cycle[c].wallet \subseteq Wallet
      /\ cycle[c].cursorMs \in Int /\ cycle[c].maxSeen \in Int
      /\ LocalsTyped(pc[c], cycle[c])
      /\ \A i \in DOMAIN fills : fills[i].time \in Nat
  BY <1>1, CycleFields DEF TypeOK, LocalsTyped, Fill
<1>3. CASE LoadWallets(c)
  <2> DEFINE j == [cycle[c] EXCEPT !.todo = {w \in wallets : w.active}]
  <2>1. j \in CycleType /\ LocalsTyped("next", j)
    BY <1>2 DEF CycleType, LocalsTyped
  <2>2. QED
    BY <1>1, <1>3, <2>1, CycleMoves DEF LoadWallets, PC
<1>4. CASE NextWallet(c)
  <2>1. PICK w \in cycle[c].todo :
          SetCycle(c, [cycle[c] EXCEPT !.todo = @ \ {w}, !.wallet = {w}])
    BY <1>4 DEF NextWallet
  <2> DEFINE j == [cycle[c] EXCEPT !.todo = @ \ {w}, !.wallet = {w}]
  <2>2. j \in CycleType /\ LocalsTyped("fetch", j)
    BY <1>2 DEF CycleType, LocalsTyped
  <2>3. QED
    BY <1>1, <1>4, <2>1, <2>2, CycleMoves DEF NextWallet, PC
<1>5. CASE SkipWallet(c) \/ FetchFails(c) \/ SaveFails(c)
  BY <1>1, <1>5, EndWalletTyped DEF SkipWallet, FetchFails, SaveFails
<1>6. CASE FetchTrades(c)
  <2>0. PICK w \in cycle[c].wallet : \E rows \in UserTrades(w.address) :
          SetCycle(c, [cycle[c] EXCEPT !.batch = NewRows(rows, CursorOf(w)),
                                       !.cursorMs = CursorOf(w),
                                       !.maxSeen = CursorOf(w)])
    BY <1>6 DEF FetchTrades
  <2>1. PICK rows \in UserTrades(w.address) :
          SetCycle(c, [cycle[c] EXCEPT !.batch = NewRows(rows, CursorOf(w)),
                                       !.cursorMs = CursorOf(w),
                                       !.maxSeen = CursorOf(w)])
    BY <2>0
  <2> DEFINE j == [cycle[c] EXCEPT !.batch = NewRows(rows, CursorOf(w)),
                                   !.cursorMs = CursorOf(w),
                                   !.maxSeen = CursorOf(w)]
  <2>2. CursorOf(w) \in Int
    <3>1. w \in Wallet /\ Fallback \in Nat
      BY <1>2, MonitorAssumption
    <3>2. QED
      BY <1>2, <3>1 DEF CursorOf, Wallet, Never
  <2>3. NewRows(rows, CursorOf(w)) \subseteq DOMAIN fills
    BY DEF NewRows, UserTrades, Published
  <2>4. j \in CycleType /\ LocalsTyped("deliver", j)
    BY <1>2, <2>2, <2>3 DEF CycleType, LocalsTyped
  <2>5. QED
    BY <1>1, <1>6, <2>1, <2>4, CycleMoves DEF FetchTrades, PC
<1>7. CASE DeliverTrade(c)
  <2>1. PICK i \in cycle[c].batch :
          SetCycle(c, [cycle[c] EXCEPT !.batch = @ \ {i},
                         !.maxSeen = Larger(@, fills[i].time)])
    BY <1>7 DEF DeliverTrade
  <2> DEFINE j == [cycle[c] EXCEPT !.batch = @ \ {i},
                     !.maxSeen = Larger(@, fills[i].time)]
  <2>2. /\ Larger(cycle[c].maxSeen, fills[i].time) \in Int
        /\ \/ Larger(cycle[c].maxSeen, fills[i].time) \in Nat
           \/ Larger(cycle[c].maxSeen, fills[i].time) = cycle[c].cursorMs
    BY <1>2, <1>7 DEF Larger, LocalsTyped, DeliverTrade, At
  <2>3. j \in CycleType /\ LocalsTyped("deliver", j)
    BY <1>2, <2>2 DEF CycleType, LocalsTyped
  <2>4. pc' = [pc EXCEPT ![c] = "deliver"]
    BY <1>1, <1>7 DEF DeliverTrade, At, CyclesTyped
  <2>5. QED
    BY <1>1, <1>7, <2>1, <2>3, <2>4, CycleMoves DEF DeliverTrade, Goto, PC
<1>8. CASE FinishBatch(c)
  <2>1. CASE cycle[c].maxSeen > cycle[c].cursorMs
    <3>1. LocalsTyped("seen", cycle[c])
      BY <1>2, <1>8, <2>1 DEF LocalsTyped, FinishBatch, At
    <3>2. SetCycle(c, cycle[c]) /\ Goto(c, "seen")
      BY <1>1, <1>8, <2>1 DEF FinishBatch, SetCycle, CyclesTyped
    <3>3. QED
      BY <1>1, <1>2, <1>8, <3>1, <3>2, CycleMoves DEF FinishBatch, PC
  <2>2. CASE ~(cycle[c].maxSeen > cycle[c].cursorMs)
    BY <1>1, <1>8, <2>2, EndWalletTyped DEF FinishBatch
  <2>3. QED
    BY <2>1, <2>2
<1>9. CASE LoadForLastSeen(c)
  <2>1. CASE EndWallet(c)
    BY <1>1, <1>9, <2>1, EndWalletTyped DEF LoadForLastSeen
  <2>2. CASE SetCycle(c, [cycle[c] EXCEPT !.snap = wallets]) /\ Goto(c, "save")
    <3> DEFINE j == [cycle[c] EXCEPT !.snap = wallets]
    <3>1. j \in CycleType /\ LocalsTyped("save", j)
      BY <1>2, <1>9 DEF CycleType, LocalsTyped, LoadForLastSeen, At
    <3>2. QED
      BY <1>1, <1>9, <2>2, <3>1, CycleMoves DEF LoadForLastSeen, PC
  <2>3. QED
    BY <1>9, <2>1, <2>2 DEF LoadForLastSeen
<1>10. CASE SaveLastSeen(c)
  BY <1>1, <1>10, EndWalletTyped DEF SaveLastSeen
<1>11. CASE EndCycle(c) \/ LoadFails(c)
  BY <1>1, <1>11, CycleMoves, NoCycleTyped DEF EndCycle, LoadFails, FinishCycle, PC
<1>12. QED
  BY <1>3, <1>4, <1>5, <1>6, <1>7, <1>8, <1>9, <1>10, <1>11 DEF CycleStep

\* A step of a cycle writes the store and the deliveries within their types.
LEMMA CycleStepStores ==
  ASSUME NEW c \in Cycles, MonitorInv, CycleStep(c)
  PROVE  TypeOK' /\ fills' = fills
<1>1. TypeOK /\ CyclesTyped
  BY DEF MonitorInv
<1>2. fills' = fills /\ now' = now /\ route' = route
  BY DEF CycleStep, LoadWallets, NextWallet, SkipWallet, FetchTrades, FetchFails,
         DeliverTrade, FinishBatch, LoadForLastSeen, SaveLastSeen, SaveFails,
         EndCycle, LoadFails
<1>3. pc' \in [Cycles -> PC] /\ cycle' \in [Cycles -> CycleType]
  BY CycleStepTyped DEF CyclesTyped
<1>4. wallets' \subseteq Wallet
  <2>1. CASE SaveLastSeen(c)
    <3>1. PICK w \in cycle[c].wallet :
            wallets' = {IF v.address = w.address
                          THEN [v EXCEPT !.lastSeen = cycle[c].maxSeen] ELSE v
                        : v \in cycle[c].snap}
      BY <2>1 DEF SaveLastSeen
    <3>2. cycle[c].snap \subseteq Wallet /\ cycle[c].maxSeen \in Nat
      BY <1>1, <2>1, CycleFields DEF SaveLastSeen, At, LocalsTyped
    <3>3. ASSUME NEW v \in cycle[c].snap
          PROVE  [v EXCEPT !.lastSeen = cycle[c].maxSeen] \in Wallet
      BY <3>2 DEF Wallet
    <3>4. QED
      BY <3>1, <3>2, <3>3
  <2>2. CASE ~SaveLastSeen(c)
    BY <1>1, <2>2 DEF TypeOK, CycleStep, LoadWallets, NextWallet, SkipWallet,
         FetchTrades, FetchFails, DeliverTrade, FinishBatch, LoadForLastSeen,
         SaveFails, EndCycle, LoadFails
  <2>3. QED
    BY <2>1, <2>2
<1>5. deliveries' \in [FillIds -> 0 .. 2]
  <2>1. CASE DeliverTrade(c)
    <3>1. PICK i \in cycle[c].batch :
            deliveries' = [deliveries EXCEPT ![i] = Smaller(2, @ + 1)]
      BY <2>1 DEF DeliverTrade
    <3>2. i \in FillIds /\ deliveries \in [FillIds -> 0 .. 2]
      BY <1>1, CycleFields DEF TypeOK
    <3>3. Smaller(2, deliveries[i] + 1) \in 0 .. 2
      BY <3>2 DEF Smaller
    <3>4. QED
      BY <3>1, <3>2, <3>3
  <2>2. CASE ~DeliverTrade(c)
    BY <1>1, <2>2 DEF TypeOK, CycleStep, LoadWallets, NextWallet, SkipWallet,
         FetchTrades, FetchFails, SaveLastSeen, FinishBatch, LoadForLastSeen,
         SaveFails, EndCycle, LoadFails
  <2>3. QED
    BY <2>1, <2>2
<1>6. /\ isMonitoring' \in BOOLEAN /\ pollingInterval' \in BOOLEAN
      /\ pollCycleInProgress' \in BOOLEAN
  <2>1. CASE EndCycle(c) \/ LoadFails(c)
    BY <1>1, <2>1, CycleFields DEF EndCycle, LoadFails, FinishCycle, TypeOK
  <2>2. CASE ~(EndCycle(c) \/ LoadFails(c))
    BY <1>1, <2>2 DEF TypeOK, CycleStep, LoadWallets, NextWallet, SkipWallet,
         FetchTrades, FetchFails, SaveLastSeen, FinishBatch, LoadForLastSeen,
         SaveFails, DeliverTrade, monitor
  <2>3. QED
    BY <2>1, <2>2
<1>7. QED
  BY <1>1, <1>2, <1>3, <1>4, <1>5, <1>6 DEF TypeOK

\* A new fill takes the next number.
LEMMA TradeTyped ==
  ASSUME NEW a \in Addresses, MonitorInv, Trade(a)
  PROVE  MonitorInv'
<1> DEFINE i == Cardinality(DOMAIN fills) + 1
           published == IF "delay" \in Events THEN "hidden" ELSE Verdict(a, now)
           f == [wallet |-> a, time |-> now, published |-> published]
<1>1. PICK n \in 0 .. MaxFills : DOMAIN fills = 1 .. n
  BY DEF MonitorInv, FillsNumbered
<1>2. n \in Nat /\ MaxFills \in Nat /\ i = n + 1
  <2>1. n \in Nat /\ MaxFills \in Nat
    BY MonitorAssumption
  <2>2. Cardinality(1 .. n) = IF 1 > n THEN 0 ELSE n - 1 + 1
    BY <2>1, FS_Interval
  <2>3. Cardinality(1 .. n) = n
    BY <2>1, <2>2
  <2>4. QED
    BY <1>1, <2>1, <2>3
<1>3. i <= MaxFills /\ fills' = [k \in DOMAIN fills \union {i} |->
                                  IF k = i THEN f ELSE fills[k]]
  BY DEF Trade
<1>4. /\ DOMAIN fills' = 1 .. n + 1 /\ n + 1 \in 0 .. MaxFills
      /\ DOMAIN fills \subseteq DOMAIN fills'
      /\ DOMAIN fills' \subseteq FillIds
  BY <1>1, <1>2, <1>3 DEF FillIds
<1>5. f \in Fill
  BY DEF MonitorInv, TypeOK, Fill, Publication, Verdict
<1>6. \A k \in DOMAIN fills' : fills'[k] \in Fill
  BY <1>3, <1>5 DEF MonitorInv, TypeOK
<1>7. TypeOK'
  BY <1>4, <1>6 DEF MonitorInv, TypeOK, Trade, monitor
<1>8. FillsNumbered'
  BY <1>4 DEF FillsNumbered
<1>9. CyclesTyped'
  BY <1>4 DEF Trade, MonitorInv, CyclesTyped, LocalsTyped
<1>10. QED
  BY <1>7, <1>8, <1>9 DEF MonitorInv

\* A publication changes only whether and how a fill is published.
LEMMA PublishTyped ==
  ASSUME NEW i \in DOMAIN fills, MonitorInv, Publish(i)
  PROVE  MonitorInv'
<1>1. fills' = [fills EXCEPT ![i].published =
                  Verdict(fills[i].wallet, fills[i].time)]
  BY DEF Publish
<1>2. DOMAIN fills' = DOMAIN fills
  BY <1>1
<1>3. \A k \in DOMAIN fills : fills'[k] \in Fill
  <2>1. \A k \in DOMAIN fills : fills[k] \in Fill
    BY DEF MonitorInv, TypeOK
  <2>2. Verdict(fills[i].wallet, fills[i].time) \in Publication
    BY DEF Verdict, Publication
  <2>3. [fills[i] EXCEPT !.published = Verdict(fills[i].wallet, fills[i].time)] \in Fill
    BY <2>1, <2>2 DEF Fill
  <2>4. QED
    BY <1>1, <2>1, <2>3
<1>4. TypeOK'
  BY <1>2, <1>3 DEF MonitorInv, TypeOK, Publish, monitor
<1>5. FillsNumbered' /\ CyclesTyped'
  BY <1>2 DEF MonitorInv, FillsNumbered, CyclesTyped, LocalsTyped, Publish
<1>6. QED
  BY <1>4, <1>5 DEF MonitorInv

\* The routes keep lists of wallets.
LEMMA RouteTyped ==
  ASSUME NEW r \in Requests, MonitorInv,
         \/ RouteSaves(r) \/ RouteFails(r)
         \/ \E kind \in EditKind, a \in Addresses : RouteLoads(r, kind, a)
  PROVE  MonitorInv'
<1>1. /\ TypeOK /\ route \in [Requests -> SUBSET EditJob]
      /\ wallets \subseteq Wallet
  BY DEF MonitorInv, TypeOK
<1>2. UNCHANGED <<now, fills, monitor, pc, cycle, deliveries>>
  BY DEF RouteSaves, RouteFails, RouteLoads
<1>3. CASE RouteSaves(r)
  <2>1. PICK job \in route[r] : wallets' = Edited(job)
    BY <1>3 DEF RouteSaves
  <2>2. job \in EditJob
    BY <1>1
  <2> DEFINE S == job.snap
             a == job.address
  <2>3. S \subseteq Wallet /\ a \in Addresses
    BY <2>2 DEF EditJob
  <2>4. [address |-> a, active |-> FALSE, lastSeen |-> Never] \in Wallet
    BY <2>3 DEF Wallet
  <2>5. \A w \in S : [w EXCEPT !.active = ~@] \in Wallet
    BY <2>3 DEF Wallet
  <2>6. {IF w.address = a THEN [w EXCEPT !.active = ~@] ELSE w : w \in S} \subseteq Wallet
    BY <2>3, <2>5
  <2>7. S \union {[address |-> a, active |-> FALSE, lastSeen |-> Never]} \subseteq Wallet
    BY <2>3, <2>4
  <2>8. S \ Of(S, a) \subseteq Wallet
    BY <2>3
  <2>9. wallets' \subseteq Wallet
    BY <2>1, <2>3, <2>6, <2>7, <2>8 DEF Edited
  <2>10. QED
    BY <1>1, <1>2, <1>3, <2>9 DEF RouteSaves, monitor, TypeOK, MonitorInv,
       FillsNumbered, CyclesTyped, LocalsTyped
<1>4. CASE RouteFails(r)
  BY <1>1, <1>2, <1>4 DEF RouteFails, monitor, TypeOK, MonitorInv, FillsNumbered,
     CyclesTyped, LocalsTyped
<1>5. ASSUME NEW kind \in EditKind, NEW a \in Addresses, RouteLoads(r, kind, a)
      PROVE  MonitorInv'
  <2>1. {[kind |-> kind, address |-> a, snap |-> wallets]} \subseteq EditJob
    BY <1>1 DEF EditJob
  <2>2. route' \in [Requests -> SUBSET EditJob]
    BY <1>1, <1>5, <2>1 DEF RouteLoads
  <2>3. QED
    BY <1>1, <1>2, <1>5, <2>2 DEF RouteLoads, monitor, TypeOK, MonitorInv,
       FillsNumbered, CyclesTyped, LocalsTyped
<1>6. QED
  BY <1>3, <1>4, <1>5

\* Starts, stops, the timer, a crash and a new monitor keep the types.
LEMMA ControlTyped ==
  ASSUME MonitorInv, Control
  PROVE  MonitorInv'
<1>1. TypeOK /\ FillsNumbered /\ CyclesTyped
  BY DEF MonitorInv
<1>2. UNCHANGED <<now, fills, wallets, deliveries>>
  BY DEF Control, StartMonitoring, PollTimer, StartMonitoringLate, StopMonitoring,
         UpdateMonitoringInterval, Restart, ReplaceMonitor
<1>3. FillsNumbered'
  BY <1>1, <1>2 DEF FillsNumbered
<1>4. ASSUME NEW c \in Cycles, NEW first \in BOOLEAN, RunPollingCycle(c, first)
      PROVE  CyclesTyped'
  BY <1>1, <1>2, <1>4, CycleMoves, NoCycleTyped DEF RunPollingCycle, PC
<1>5. CASE \E c \in Cycles : StartMonitoring(c) \/ PollTimer(c)
  <2>1. CyclesTyped'
    BY <1>4, <1>5 DEF StartMonitoring, PollTimer
  <2>2. QED
    BY <1>1, <1>2, <1>3, <1>5, <2>1 DEF StartMonitoring, PollTimer, RunPollingCycle,
       MonitorInv, TypeOK, CyclesTyped
<1>6. CASE StartMonitoringLate \/ StopMonitoring \/ UpdateMonitoringInterval
  BY <1>1, <1>2, <1>3, <1>6 DEF StartMonitoringLate, StopMonitoring,
     UpdateMonitoringInterval, MonitorInv, TypeOK, CyclesTyped, LocalsTyped
<1>7. CASE Restart
  <2>1. CyclesTyped'
    BY <1>2, <1>7, NoCycleTyped DEF Restart, CyclesTyped, LocalsTyped, PC
  <2>2. QED
    BY <1>1, <1>2, <1>3, <1>7, <2>1 DEF Restart, MonitorInv, TypeOK, CyclesTyped
<1>8. CASE ReplaceMonitor
  <2>1. ASSUME NEW c \in Cycles
        PROVE  /\ cycle'[c] \in CycleType
               /\ LocalsTyped(pc[c], cycle[c])'
    <3>1. cycle[c] \in CycleType /\ LocalsTyped(pc[c], cycle[c])
      BY <1>1, CycleFields
    <3>2. pc' = pc /\ cycle'[c] \in {cycle[c], [cycle[c] EXCEPT !.old = TRUE]}
      BY <1>8 DEF ReplaceMonitor
    <3>3. QED
      BY <1>2, <3>1, <3>2 DEF CycleType, LocalsTyped
  <2>2. pc' = pc /\ DOMAIN cycle' = Cycles /\ cycle' = [c \in Cycles |-> cycle'[c]]
    BY <1>8 DEF ReplaceMonitor
  <2>3. CyclesTyped'
    BY <1>1, <2>1, <2>2 DEF CyclesTyped
  <2>4. QED
    BY <1>1, <1>2, <1>3, <1>8, <2>3 DEF ReplaceMonitor, MonitorInv, TypeOK, CyclesTyped
<1>9. QED
  BY <1>5, <1>6, <1>7, <1>8 DEF Control

\* MonitorInv is inductive.
LEMMA MonitorStep ==
  ASSUME MonitorInv, [Next]_vars
  PROVE  MonitorInv'
<1>1. CASE UNCHANGED vars
  BY <1>1 DEF vars, monitor, MonitorInv, TypeOK, FillsNumbered, CyclesTyped, LocalsTyped
<1>2. ASSUME NEW c \in Cycles, CycleStep(c) PROVE MonitorInv'
  BY <1>2, CycleStepTyped, CycleStepStores DEF MonitorInv, FillsNumbered
<1>3. CASE Tick
  BY <1>3 DEF Tick, monitor, MonitorInv, TypeOK, FillsNumbered, CyclesTyped, LocalsTyped
<1>4. QED
  BY <1>1, <1>2, <1>3, TradeTyped, PublishTyped, RouteTyped, ControlTyped
     DEF Next, Environment, RouteStep

\* MonitorInv holds at the start.
LEMMA MonitorInit ==
  ASSUME Init
  PROVE  MonitorInv
<1>1. DOMAIN fills = {} /\ 0 \in 0 .. MaxFills /\ 1 .. 0 = {}
  BY MonitorAssumption DEF Init
<1>2. wallets \subseteq Wallet
  <2>1. \A a \in Addresses : [address |-> a, active |-> TRUE, lastSeen |-> Never] \in Wallet
    BY DEF Wallet
  <2>2. QED
    BY <2>1 DEF Init
<1>3. CyclesTyped
  BY NoCycleTyped DEF Init, CyclesTyped, LocalsTyped, PC
<1>4. deliveries \in [FillIds -> 0 .. 2] /\ route \in [Requests -> SUBSET EditJob]
  BY DEF Init
<1>5. FillsNumbered
  BY <1>1 DEF FillsNumbered
<1>6. QED
  BY <1>1, <1>2, <1>3, <1>4, <1>5 DEF Init, MonitorInv, TypeOK, CyclesTyped

\* Every variable keeps its type, whatever events occur and whichever routes are
\* in use.
THEOREM MonitorType == Spec => []TypeOK
<1>1. Init => MonitorInv
  BY MonitorInit
<1>2. MonitorInv /\ [Next]_vars => MonitorInv'
  BY MonitorStep
<1>3. MonitorInv => TypeOK
  BY DEF MonitorInv
<1>4. QED
  BY <1>1, <1>2, <1>3, PTL DEF Spec

-----------------------------------------------------------------------------
(* What a cursor has passed over.                                          *)

\* A fill that is dealt with, or that getUserTrades will not show any more.
Covered(i) ==
  deliveries[i] > 0 \/ fills[i].published = "late" \/ OnUnreadPage(i)

\* The cursor of a record is the time of a published fill, and of the last
\* Fallback it has passed over covered fills only.
RecordSound(w) ==
  w.lastSeen # Never =>
    /\ \E i \in Published(w.address) : fills[i].time = w.lastSeen
    /\ \A i \in Published(w.address) :
         now - Fallback < fills[i].time /\ fills[i].time <= w.lastSeen => Covered(i)

\* The rows that a cycle with locals j has of the wallet v: what is newer than
\* its cursor is in the batch, covered, or newer than anything it has seen.
BatchSound(j, v) ==
  /\ IF v.lastSeen = Never THEN j.cursorMs <= now - Fallback
                           ELSE j.cursorMs = v.lastSeen
  /\ \A k \in j.batch : k \in Published(v.address) /\ j.cursorMs < fills[k].time
  /\ \/ j.maxSeen = j.cursorMs
     \/ \E i \in Published(v.address) : fills[i].time = j.maxSeen
  /\ j.cursorMs <= j.maxSeen
  /\ \A i \in Published(v.address) :
       j.cursorMs < fills[i].time =>
         \/ i \in j.batch \/ Covered(i)
         \/ /\ j.maxSeen < fills[i].time
            /\ \A k \in j.batch : fills[k].time < fills[i].time

HasBatch == {"deliver", "seen", "save"}

CycleSound(label, j) ==
  /\ \A v, w \in j.wallet : v = w
  /\ label \in HasBatch => \A v \in j.wallet : BatchSound(j, v)
  /\ \A w \in j.todo \union j.wallet \union j.snap : RecordSound(w)

SoundInv ==
  /\ MonitorInv
  /\ \A w \in wallets : RecordSound(w)
  /\ \A c \in Cycles : CycleSound(pc[c], cycle[c])
  /\ \A r \in Requests : \A job \in route[r] : \A w \in job.snap : RecordSound(w)

\* Time passes, fills are made and published, trades are handed over: none of it
\* is ever undone, and a fill is published last or late.
FillsGrow ==
  /\ now <= now'
  /\ \A i \in DOMAIN fills :
       /\ i \in DOMAIN fills'
       /\ fills'[i].wallet = fills[i].wallet /\ fills'[i].time = fills[i].time
       /\ fills[i].published # "hidden" => fills'[i].published = fills[i].published
       /\ deliveries[i] > 0 => deliveries'[i] > 0
  /\ \A a \in Addresses : \A i \in Published(a)' \ Published(a), k \in Published(a) :
       fills'[i].published = "late" \/ fills[k].time < fills'[i].time

\* The published fills of a wallet are finitely many, and know their wallet.
LEMMA PublishedFacts ==
  ASSUME NEW a \in Addresses, MonitorInv
  PROVE  /\ IsFiniteSet(Published(a)) /\ Cardinality(Published(a)) \in Nat
         /\ \A i \in Published(a) : /\ i \in DOMAIN fills /\ i \in FillIds
                                    /\ fills[i].wallet = a /\ fills[i].time \in Nat
<1>1. PICK n \in 0 .. MaxFills : DOMAIN fills = 1 .. n
  BY DEF MonitorInv, FillsNumbered
<1>2. IsFiniteSet(DOMAIN fills)
  BY <1>1, FS_Interval, MonitorAssumption
<1>3. Published(a) \in SUBSET DOMAIN fills
  BY DEF Published
<1>4. QED
  BY <1>2, <1>3, FS_Subset, FS_CardinalityType DEF Published, MonitorInv, TypeOK, Fill

\* Division: the pages that hold y rows and the next one hold more than y.
LEMMA PagesHold ==
  ASSUME NEW y \in Nat, NEW p \in Nat \ {0}
  PROVE  y \div p \in Nat /\ y < (y \div p + 1) * p
<1>1. y = p * (y \div p) + (y % p) /\ y % p \in 0 .. p - 1 /\ y \div p \in Int
  OBVIOUS
<1>2. y \div p >= 0
  OBVIOUS
<1>3. (y \div p + 1) * p = p * (y \div p) + p
  BY <1>1
<1>4. QED
  BY <1>1, <1>2, <1>3

\* A published row that getUserTrades does not return is on a page that it does
\* not read: behind the last page, or behind the first page and too old.
LEMMA UnreadRows ==
  ASSUME NEW a \in Addresses, MonitorInv, NEW rows \in UserTrades(a),
         NEW i \in Published(a) \ rows
  PROVE  OnUnreadPage(i)
<1> DEFINE P == Published(a)
           R == {k \in P : fills[k].time >= fills[i].time}
           young == {k \in P : now - fills[k].time <= Fallback}
           q == Cardinality(young) \div PageSize
           pages == Smaller(MaxPages, q + 1)
<1>1. /\ IsFiniteSet(P) /\ Cardinality(P) \in Nat /\ fills[i].wallet = a
      /\ \A k \in P : fills[k].time \in Nat
      /\ PageSize \in Nat \ {0} /\ MaxPages \in Nat \ {0} /\ Fallback \in Nat
      /\ now \in Nat
  BY PublishedFacts, MonitorAssumption DEF MonitorInv, TypeOK
<1>2. /\ rows \in SUBSET P
      /\ Cardinality(rows) = Smaller(Cardinality(P), pages * PageSize)
      /\ \A k \in rows : fills[k].time >= fills[i].time
  BY DEF UserTrades, RowsRead
<1>3. R \in SUBSET P /\ young \in SUBSET P /\ rows \union {i} \in SUBSET R
  BY <1>1, <1>2
<1>4. /\ IsFiniteSet(rows) /\ Cardinality(rows) \in Nat /\ Cardinality(rows) # Cardinality(P)
      /\ IsFiniteSet(R) /\ Cardinality(R) \in Nat
      /\ IsFiniteSet(young) /\ Cardinality(young) \in Nat
  <2>1. /\ IsFiniteSet(rows) /\ (Cardinality(P) = Cardinality(rows) => P = rows)
    BY <1>1, <1>2, FS_Subset
  <2>2. IsFiniteSet(R) /\ IsFiniteSet(young)
    BY <1>1, <1>3, FS_Subset
  <2>3. QED
    BY <2>1, <2>2, FS_CardinalityType
<1>5. Cardinality(rows) + 1 <= Cardinality(R)
  <2>1. Cardinality(rows \union {i}) = Cardinality(rows) + 1
    BY <1>4, FS_AddElement
  <2>2. Cardinality(rows \union {i}) <= Cardinality(R)
    BY <1>3, <1>4, FS_Subset
  <2>3. QED
    BY <2>1, <2>2
<1>6. q \in Nat /\ Cardinality(young) < (q + 1) * PageSize
  BY <1>1, <1>4, PagesHold
<1>7. Cardinality(rows) = pages * PageSize
  BY <1>2, <1>4 DEF Smaller
<1>8. OnUnreadPage(i) <=>
        \/ Cardinality(R) > PageSize * MaxPages
        \/ Cardinality(R) > PageSize /\ now - fills[i].time > Fallback
  BY <1>1 DEF OnUnreadPage
<1> HIDE DEF q, R, young, P
<1>9. CASE pages = MaxPages
  BY <1>1, <1>4, <1>5, <1>7, <1>8, <1>9
<1>10. CASE pages = q + 1
  <2>1. Cardinality(R) > (q + 1) * PageSize /\ (q + 1) * PageSize >= PageSize
    BY <1>1, <1>4, <1>5, <1>6, <1>7, <1>10
  <2>2. (q + 1) * PageSize \in Nat
    BY <1>1, <1>6
  <2>3. Cardinality(R) > Cardinality(young) /\ Cardinality(R) > PageSize
    BY <1>1, <1>4, <1>6, <2>1, <2>2
  <2>4. ASSUME now - fills[i].time <= Fallback PROVE FALSE
    <3>1. i \in P
      BY DEF P
    <3>2. ASSUME NEW k \in R PROVE k \in young
      <4>1. k \in P /\ fills[k].time >= fills[i].time
        BY DEF R
      <4>2. now - fills[k].time <= Fallback
        BY <1>1, <2>4, <3>1, <4>1
      <4>3. QED
        BY <4>1, <4>2 DEF young
    <3>3. R \in SUBSET young
      BY <3>2
    <3>4. Cardinality(R) <= Cardinality(young)
      BY <1>4, <3>3, FS_Subset
    <3>5. QED
      BY <1>4, <2>3, <3>4
  <2>5. now - fills[i].time > Fallback
    BY <1>1, <2>4 DEF P
  <2>6. QED
    BY <1>8, <2>3, <2>5
<1>11. QED
  BY <1>9, <1>10 DEF Smaller

\* Only trades, publications, deliveries and the clock touch what FillsGrow is
\* about, and none of them undoes it.
LEMMA FillsGrowStep ==
  ASSUME MonitorInv, [Next]_vars
  PROVE  FillsGrow
<1>1. now \in Nat /\ deliveries \in [FillIds -> 0 .. 2] /\ DOMAIN fills \subseteq FillIds
  BY DEF MonitorInv, TypeOK
<1>2. ASSUME UNCHANGED <<now, fills, deliveries>> PROVE FillsGrow
  BY <1>1, <1>2 DEF FillsGrow, Published
<1>3. ASSUME NEW c \in Cycles, CycleStep(c) PROVE FillsGrow
  <2>1. CASE DeliverTrade(c)
    <3>1. PICK i \in cycle[c].batch :
            deliveries' = [deliveries EXCEPT ![i] = Smaller(2, @ + 1)]
      BY <2>1 DEF DeliverTrade
    <3>2. \A k \in FillIds : deliveries[k] > 0 => deliveries'[k] > 0
      BY <1>1, <3>1 DEF Smaller
    <3>3. now' = now /\ fills' = fills
      BY <2>1 DEF DeliverTrade
    <3>4. QED
      BY <1>1, <3>2, <3>3 DEF FillsGrow, Published
  <2>2. CASE ~DeliverTrade(c)
    BY <1>2, <1>3, <2>2 DEF CycleStep, LoadWallets, NextWallet, SkipWallet, FetchTrades,
         FetchFails, FinishBatch, LoadForLastSeen, SaveLastSeen, SaveFails,
         EndCycle, LoadFails
  <2>3. QED
    BY <2>1, <2>2
<1>4. CASE Tick
  BY <1>1, <1>4 DEF Tick, FillsGrow, Published
<1>5. ASSUME NEW a \in Addresses, Trade(a) PROVE FillsGrow
  <2> DEFINE i == Cardinality(DOMAIN fills) + 1
             v == IF "delay" \in Events THEN "hidden" ELSE Verdict(a, now)
  <2>1. PICK n \in 0 .. MaxFills : DOMAIN fills = 1 .. n
    BY DEF MonitorInv, FillsNumbered
  <2>2. n \in Nat /\ Cardinality(1 .. n) = IF 1 > n THEN 0 ELSE n - 1 + 1
    BY FS_Interval, MonitorAssumption
  <2>3. i = n + 1 /\ i \notin DOMAIN fills
    BY <2>1, <2>2
  <2>4. fills' = [k \in DOMAIN fills \union {i} |->
                    IF k = i THEN [wallet |-> a, time |-> now, published |-> v]
                    ELSE fills[k]]
    BY <1>5 DEF Trade
  <2> HIDE DEF i, v
  <2>5. \A k \in DOMAIN fills : k \in DOMAIN fills' /\ fills'[k] = fills[k]
    BY <2>3, <2>4
  <2>6. i \in DOMAIN fills' /\ fills'[i] = [wallet |-> a, time |-> now, published |-> v]
    BY <2>4
  <2>7. ASSUME NEW b \in Addresses, NEW k \in Published(b)' \ Published(b),
               NEW m \in Published(b)
        PROVE  fills'[k].published = "late" \/ fills[m].time < fills'[k].time
    <3>1. k = i
      BY <2>4, <2>5 DEF Published
    <3>2. b = a /\ v # "hidden" /\ v = Verdict(a, now)
      BY <2>6, <3>1 DEF Published, v
    <3>3. fills[m].time \in Nat /\ now \in Nat
      BY <1>1, PublishedFacts
    <3>4. Verdict(a, now) # "late" => \A p \in Published(a) : ~(fills[p].time >= now)
      BY DEF Verdict, LateFor
    <3>5. fills'[k].published = Verdict(a, now) /\ fills'[k].time = now
      BY <2>6, <3>1, <3>2
    <3>6. QED
      BY <3>2, <3>3, <3>4, <3>5
  <2>8. QED
    BY <1>1, <1>5, <2>5, <2>7 DEF FillsGrow, Trade
<1>6. ASSUME NEW i \in DOMAIN fills, Publish(i) PROVE FillsGrow
  <2>1. /\ fills' = [fills EXCEPT ![i].published = Verdict(fills[i].wallet, fills[i].time)]
        /\ fills[i].published = "hidden"
    BY <1>6 DEF Publish
  <2>2. \A k \in DOMAIN fills : fills[k] \in Fill
    BY DEF MonitorInv, TypeOK
  <2>3. DOMAIN fills' = DOMAIN fills
    BY <2>1
  <2>3a. \A k \in DOMAIN fills : k # i => fills'[k] = fills[k]
    BY <2>1
  <2>3b. /\ fills'[i].wallet = fills[i].wallet /\ fills'[i].time = fills[i].time
         /\ fills'[i].published = Verdict(fills[i].wallet, fills[i].time)
    BY <2>1, <2>2 DEF Fill
  <2>4. ASSUME NEW b \in Addresses, NEW k \in Published(b)' \ Published(b),
               NEW m \in Published(b)
        PROVE  fills'[k].published = "late" \/ fills[m].time < fills'[k].time
    <3>1. /\ k \in DOMAIN fills /\ fills'[k].wallet = b /\ fills'[k].published # "hidden"
          /\ ~(fills[k].wallet = b /\ fills[k].published # "hidden")
      BY <2>3 DEF Published
    <3>2. k = i
      BY <2>3a, <3>1
    <3>3. fills[i].wallet = b
      BY <2>3b, <3>1, <3>2
    <3>4. fills[m].time \in Nat /\ fills[i].time \in Nat
      BY <2>2, PublishedFacts DEF Fill
    <3>5. Verdict(b, fills[i].time) # "late" =>
            \A p \in Published(b) : ~(fills[p].time >= fills[i].time)
      BY DEF Verdict, LateFor
    <3>6. fills'[k].published = Verdict(b, fills[i].time) /\ fills'[k].time = fills[i].time
      BY <2>3b, <3>2, <3>3
    <3>7. QED
      BY <3>4, <3>5, <3>6
  <2>5. QED
    BY <1>1, <1>6, <2>1, <2>3, <2>3a, <2>3b, <2>4 DEF FillsGrow, Publish
<1>7. ASSUME NEW r \in Requests,
             \/ RouteSaves(r) \/ RouteFails(r)
             \/ \E kind \in EditKind, a \in Addresses : RouteLoads(r, kind, a)
      PROVE  FillsGrow
  BY <1>2, <1>7 DEF RouteSaves, RouteFails, RouteLoads
<1>8. CASE Control
  BY <1>2, <1>8 DEF Control, StartMonitoring, PollTimer, StartMonitoringLate,
     StopMonitoring, UpdateMonitoringInterval, Restart, ReplaceMonitor
<1>9. CASE UNCHANGED vars
  BY <1>2, <1>9 DEF vars
<1>10. QED
  BY <1>3, <1>4, <1>5, <1>6, <1>7, <1>8, <1>9 DEF Next, Environment, RouteStep

\* Published fills stay published.
LEMMA PublishedGrows ==
  ASSUME NEW a \in Addresses, MonitorInv, MonitorInv', FillsGrow
  PROVE  /\ Published(a) \subseteq Published(a)'
         /\ \A i \in Published(a) : fills'[i].time = fills[i].time
BY PublishedFacts DEF FillsGrow, Published

\* A row on an unread page stays there.
LEMMA UnreadStays ==
  ASSUME NEW a \in Addresses, MonitorInv, MonitorInv', FillsGrow,
         NEW i \in Published(a), OnUnreadPage(i)
  PROVE  OnUnreadPage(i)'
<1> DEFINE R == {k \in Published(a) : fills[k].time >= fills[i].time}
           Q == {k \in Published(a)' : fills'[k].time >= fills'[i].time}
<1>1. /\ Published(a) \subseteq Published(a)'
      /\ \A k \in Published(a) : fills'[k].time = fills[k].time
      /\ fills[i].wallet = a /\ fills'[i].wallet = a /\ fills[i].time \in Nat
  BY PublishedGrows, PublishedFacts DEF FillsGrow
<1>2. IsFiniteSet(Published(a)) /\ IsFiniteSet(Published(a)')
  <2>1. \A b \in Addresses : IsFiniteSet(Published(b))
    BY PublishedFacts
  <2>2. \A b \in Addresses : IsFiniteSet(Published(b)')
    <3>1. PICK n \in 0 .. MaxFills : DOMAIN fills' = 1 .. n
      BY DEF MonitorInv, FillsNumbered
    <3>2. IsFiniteSet(DOMAIN fills')
      BY <3>1, FS_Interval, MonitorAssumption
    <3>3. \A b \in Addresses : Published(b)' \in SUBSET DOMAIN fills'
      BY DEF Published
    <3>4. QED
      BY <3>2, <3>3, FS_Subset
  <2>3. QED
    BY <2>1, <2>2
<1>3. R \in SUBSET Published(a) /\ Q \in SUBSET Published(a)' /\ R \in SUBSET Q
  BY <1>1
<1>4. IsFiniteSet(R) /\ IsFiniteSet(Q) /\ Cardinality(R) <= Cardinality(Q)
  BY <1>2, <1>3, FS_Subset
<1>5. Cardinality(R) \in Nat /\ Cardinality(Q) \in Nat
  BY <1>4, FS_CardinalityType
<1>6. OnUnreadPage(i) <=>
        (\/ Cardinality(R) > PageSize * MaxPages
         \/ Cardinality(R) > PageSize /\ now - fills[i].time > Fallback)
  BY <1>1 DEF OnUnreadPage
<1>7. OnUnreadPage(i)' <=>
        (\/ Cardinality(Q) > PageSize * MaxPages
         \/ Cardinality(Q) > PageSize /\ now' - fills'[i].time > Fallback)
  BY <1>1 DEF OnUnreadPage
<1> HIDE DEF R, Q
<1>8. /\ now \in Nat /\ now' \in Nat /\ now <= now' /\ fills'[i].time = fills[i].time
      /\ PageSize \in Nat /\ MaxPages \in Nat /\ Fallback \in Nat
  BY <1>1, MonitorAssumption DEF MonitorInv, TypeOK, FillsGrow
<1>9. PageSize * MaxPages \in Nat
  BY <1>8
<1>10. QED
  BY <1>1, <1>4, <1>5, <1>6, <1>7, <1>8, <1>9

\* What is covered stays covered.
LEMMA CoveredStays ==
  ASSUME NEW a \in Addresses, MonitorInv, MonitorInv', FillsGrow,
         NEW i \in Published(a), Covered(i)
  PROVE  Covered(i)'
BY UnreadStays, PublishedFacts DEF Covered, FillsGrow

\* A sound record stays so: a fill that is published later is late, or newer
\* than the record's cursor.
LEMMA RecordStays ==
  ASSUME NEW w \in Wallet, MonitorInv, MonitorInv', FillsGrow, RecordSound(w)
  PROVE  RecordSound(w)'
<1> SUFFICES ASSUME w.lastSeen # Never
             PROVE  /\ \E i \in Published(w.address)' : fills'[i].time = w.lastSeen
                    /\ \A i \in Published(w.address)' :
                         now' - Fallback < fills'[i].time /\ fills'[i].time <= w.lastSeen
                           => Covered(i)'
  BY DEF RecordSound
<1> DEFINE a == w.address
<1>1. a \in Addresses /\ w.lastSeen \in Nat
  BY DEF Wallet
<1>2. PICK k \in Published(a) : fills[k].time = w.lastSeen
  BY DEF RecordSound
<1>3. /\ Published(a) \subseteq Published(a)'
      /\ \A i \in Published(a) : fills'[i].time = fills[i].time /\ fills[i].time \in Nat
  BY <1>1, PublishedGrows, PublishedFacts
<1>4. ASSUME NEW i \in Published(a)', now' - Fallback < fills'[i].time,
             fills'[i].time <= w.lastSeen
      PROVE  Covered(i)'
  <2>1. CASE i \in Published(a)
    <3>1. now - Fallback < fills[i].time /\ fills[i].time <= w.lastSeen
      BY <1>1, <1>3, <1>4, <2>1, MonitorAssumption DEF FillsGrow, MonitorInv, TypeOK
    <3>2. Covered(i)
      BY <2>1, <3>1 DEF RecordSound
    <3>3. QED
      BY <1>1, <2>1, <3>2, CoveredStays
  <2>2. CASE i \notin Published(a)
    <3>1. fills'[i].published = "late" \/ fills[k].time < fills'[i].time
      BY <1>1, <1>4, <2>2 DEF FillsGrow
    <3>2. fills'[i].time \in Nat
      BY <1>1, <1>4 DEF MonitorInv, TypeOK, Fill, Published
    <3>3. fills'[i].published = "late"
      BY <1>1, <1>2, <1>4, <3>1, <3>2
    <3>4. QED
      BY <3>3 DEF Covered
  <2>3. QED
    BY <2>1, <2>2
<1>5. QED
  BY <1>2, <1>3, <1>4

\* So do the rows that a cycle holds.
LEMMA BatchStays ==
  ASSUME NEW v \in Wallet, NEW j \in CycleType, MonitorInv, MonitorInv', FillsGrow,
         BatchSound(j, v)
  PROVE  BatchSound(j, v)'
<1> DEFINE a == v.address
<1>1. /\ a \in Addresses /\ j.cursorMs \in Int /\ j.maxSeen \in Int
      /\ now \in Nat /\ now' \in Nat /\ now <= now' /\ Fallback \in Nat
  BY MonitorAssumption DEF Wallet, CycleType, FillsGrow, MonitorInv, TypeOK
<1>2. /\ Published(a) \subseteq Published(a)'
      /\ \A i \in Published(a) : fills'[i].time = fills[i].time /\ fills[i].time \in Nat
  BY <1>1, PublishedGrows, PublishedFacts
<1>3. IF v.lastSeen = Never THEN j.cursorMs <= now' - Fallback
                            ELSE j.cursorMs = v.lastSeen
  BY <1>1 DEF BatchSound
<1>4. \A k \in j.batch : k \in Published(a) /\ k \in Published(a)' /\ j.cursorMs < fills'[k].time
  BY <1>2 DEF BatchSound
<1>5. \/ j.maxSeen = j.cursorMs
      \/ \E i \in Published(a)' : fills'[i].time = j.maxSeen
  BY <1>2 DEF BatchSound
<1>6. ASSUME NEW i \in Published(a)', j.cursorMs < fills'[i].time
      PROVE  \/ i \in j.batch \/ Covered(i)'
             \/ /\ j.maxSeen < fills'[i].time
                /\ \A k \in j.batch : fills'[k].time < fills'[i].time
  <2>1. CASE i \in Published(a)
    <3>1. Covered(i) => Covered(i)'
      BY <1>1, <2>1, CoveredStays
    <3>2. fills'[i].time = fills[i].time
      BY <1>2, <2>1
    <3>3. \/ i \in j.batch \/ Covered(i)
          \/ /\ j.maxSeen < fills[i].time
             /\ \A k \in j.batch : fills[k].time < fills[i].time
      BY <1>6, <2>1, <3>2 DEF BatchSound
    <3>4. \A k \in j.batch : fills'[k].time = fills[k].time
      BY <1>2, <1>4
    <3>5. QED
      BY <3>1, <3>2, <3>3, <3>4
  <2>2. CASE i \notin Published(a)
    <3>1. \A k \in Published(a) : fills'[i].published = "late" \/ fills[k].time < fills'[i].time
      BY <1>1, <1>6, <2>2 DEF FillsGrow
    <3>2. CASE fills'[i].published = "late"
      BY <3>2 DEF Covered
    <3>3. CASE fills'[i].published # "late"
      <4>1. j.maxSeen < fills'[i].time
        BY <1>6, <3>1, <3>3 DEF BatchSound
      <4>2. \A k \in j.batch : fills'[k].time < fills'[i].time
        BY <1>2, <1>4, <3>1, <3>3
      <4>3. QED
        BY <4>1, <4>2
    <3>4. QED
      BY <3>2, <3>3
  <2>3. QED
    BY <2>1, <2>2
<1>7. QED
  BY <1>3, <1>4, <1>5, <1>6 DEF BatchSound

\* So does a cycle that stands still.
LEMMA CycleStays ==
  ASSUME NEW label, NEW j \in CycleType, MonitorInv, MonitorInv', FillsGrow,
         CycleSound(label, j)
  PROVE  CycleSound(label, j)'
<1>1. \A w \in j.todo \union j.wallet \union j.snap : w \in Wallet
  BY DEF CycleType
<1>2. \A w \in j.todo \union j.wallet \union j.snap : RecordSound(w)'
  BY <1>1, RecordStays DEF CycleSound
<1>3. label \in HasBatch => \A v \in j.wallet : BatchSound(j, v)'
  BY <1>1, BatchStays DEF CycleSound
<1>4. QED
  BY <1>2, <1>3 DEF CycleSound

\* A cycle that moves to a label with locals that are sound there.
LEMMA MovesSound ==
  ASSUME NEW c \in Cycles, SoundInv, MonitorInv', FillsGrow, NEW label, NEW j,
         Goto(c, label), SetCycle(c, j), CycleSound(label, j)'
  PROVE  \A d \in Cycles : CycleSound(pc[d], cycle[d])'
<1> SUFFICES ASSUME NEW d \in Cycles PROVE CycleSound(pc[d], cycle[d])'
  OBVIOUS
<1>1. /\ pc' = [pc EXCEPT ![c] = label] /\ cycle' = [cycle EXCEPT ![c] = j]
      /\ pc \in [Cycles -> PC] /\ cycle \in [Cycles -> CycleType] /\ MonitorInv
  BY DEF Goto, SetCycle, SoundInv, MonitorInv, CyclesTyped
<1>2. CASE d = c
  BY <1>1, <1>2
<1>3. CASE d # c
  <2>1. pc'[d] = pc[d] /\ cycle'[d] = cycle[d] /\ cycle[d] \in CycleType
    BY <1>1, <1>3
  <2>2. CycleSound(pc[d], cycle[d])
    BY DEF SoundInv
  <2>3. PICK k \in CycleType, l \in {pc[d]} : k = cycle[d]
    BY <2>1
  <2>4. CycleSound(l, k)'
    BY <1>1, <2>2, <2>3, CycleStays
  <2>5. pc'[d] = l /\ cycle'[d] = k
    BY <2>1, <2>3
  <2>6. QED
    BY <2>4, <2>5
<1>4. QED
  BY <1>2, <1>3

\* The same if the fills are left alone and the locals are sound before.
LEMMA MovesQuietly ==
  ASSUME NEW c \in Cycles, SoundInv, MonitorInv', FillsGrow,
         NEW label, NEW j \in CycleType,
         Goto(c, label), SetCycle(c, j), CycleSound(label, j)
  PROVE  \A d \in Cycles : CycleSound(pc[d], cycle[d])'
<1>1. CycleSound(label, j)'
  BY CycleStays DEF SoundInv
<1>2. QED
  BY <1>1, MovesSound

\* The locals of a cycle that moves, as the next state has them.
LEMMA NextLocals ==
  ASSUME NEW c \in Cycles, MonitorInv, MonitorInv', NEW j, SetCycle(c, j)
  PROVE  j \in CycleType
BY DEF SetCycle, MonitorInv, CyclesTyped

\* Nothing is held of a wallet any more.
LEMMA EndWalletSound ==
  ASSUME NEW c \in Cycles, SoundInv, MonitorInv', FillsGrow, EndWallet(c)
  PROVE  \A d \in Cycles : CycleSound(pc[d], cycle[d])'
<1> DEFINE j == [cycle[c] EXCEPT !.wallet = {}, !.batch = {}, !.snap = {},
                                 !.cursorMs = 0, !.maxSeen = 0]
<1>1. cycle[c] \in CycleType /\ MonitorInv /\ CycleSound(pc[c], cycle[c])
  BY DEF SoundInv, MonitorInv, CyclesTyped
<1>2. j.wallet = {} /\ j.snap = {} /\ j.todo = cycle[c].todo
  BY <1>1 DEF CycleType
<1>3. Goto(c, "next") /\ SetCycle(c, j)
  BY DEF EndWallet
<1> HIDE DEF j
<1>4. CycleSound("next", j)
  BY <1>1, <1>2 DEF CycleSound, HasBatch
<1>5. j \in CycleType
  BY <1>1, <1>3, NextLocals
<1>6. QED
  BY <1>3, <1>4, <1>5, MovesQuietly

\* A fetch returns what is new, but for the rows on pages it does not read.
LEMMA FetchSound ==
  ASSUME NEW c \in Cycles, SoundInv, MonitorInv', FillsGrow, FetchTrades(c)
  PROVE  \A d \in Cycles : CycleSound(pc[d], cycle[d])'
<1>1. /\ cycle[c] \in CycleType /\ MonitorInv /\ CycleSound(pc[c], cycle[c])
      /\ now \in Nat /\ Fallback \in Nat
  BY MonitorAssumption DEF SoundInv, MonitorInv, CyclesTyped, TypeOK
<1>2. PICK w \in cycle[c].wallet : \E rows \in UserTrades(w.address) :
        SetCycle(c, [cycle[c] EXCEPT !.batch = NewRows(rows, CursorOf(w)),
                                     !.cursorMs = CursorOf(w),
                                     !.maxSeen = CursorOf(w)])
  BY DEF FetchTrades
<1>3. PICK rows \in UserTrades(w.address) :
        SetCycle(c, [cycle[c] EXCEPT !.batch = NewRows(rows, CursorOf(w)),
                                     !.cursorMs = CursorOf(w),
                                     !.maxSeen = CursorOf(w)])
  BY <1>2
<1> DEFINE j == [cycle[c] EXCEPT !.batch = NewRows(rows, CursorOf(w)),
                                 !.cursorMs = CursorOf(w),
                                 !.maxSeen = CursorOf(w)]
           a == w.address
<1>4. /\ j.todo = cycle[c].todo /\ j.wallet = cycle[c].wallet
      /\ j.snap = cycle[c].snap /\ j.batch = NewRows(rows, CursorOf(w))
      /\ j.cursorMs = CursorOf(w) /\ j.maxSeen = CursorOf(w)
  BY <1>1 DEF CycleType
<1>5. SetCycle(c, j) /\ Goto(c, "deliver")
  BY <1>3 DEF FetchTrades
<1> HIDE DEF j
<1>6. w \in Wallet /\ a \in Addresses /\ CursorOf(w) \in Int
  BY <1>1 DEF CycleType, Wallet, CursorOf, Never
<1>7. BatchSound(j, w)
  <2>1. IF w.lastSeen = Never THEN j.cursorMs <= now - Fallback
                              ELSE j.cursorMs = w.lastSeen
    BY <1>1, <1>4 DEF CursorOf
  <2>2. \A k \in j.batch : k \in Published(a) /\ j.cursorMs < fills[k].time
    <3>1. rows \subseteq Published(a)
      BY <1>3 DEF UserTrades
    <3>2. \A k \in Published(a) : fills[k].time \in Nat
      BY <1>1, <1>6, PublishedFacts
    <3>3. QED
      BY <1>4, <1>6, <3>1, <3>2 DEF NewRows
  <2>3. ASSUME NEW i \in Published(a), j.cursorMs < fills[i].time
        PROVE  i \in j.batch \/ Covered(i)
    <3>1. fills[i].time \in Nat
      BY <1>1, <1>6, PublishedFacts
    <3>2. CASE i \in rows
      BY <1>4, <1>6, <2>3, <3>1, <3>2 DEF NewRows
    <3>3. CASE i \notin rows
      BY <1>1, <1>6, <3>3, UnreadRows DEF Covered
    <3>4. QED
      BY <3>2, <3>3
  <2>4. j.maxSeen = j.cursorMs /\ j.cursorMs <= j.maxSeen
    BY <1>4, <1>6
  <2>5. QED
    BY <2>1, <2>2, <2>3, <2>4 DEF BatchSound
<1>8. CycleSound("deliver", j)
  <2>1. \A v \in j.wallet : v = w
    BY <1>1, <1>4 DEF CycleSound
  <2>2. \A v \in j.wallet : BatchSound(j, v)
    BY <1>7, <2>1
  <2>3. QED
    BY <1>1, <1>4, <2>2 DEF CycleSound
<1>9. j \in CycleType
  BY <1>1, <1>5, NextLocals
<1>10. QED
  BY <1>5, <1>8, <1>9, MovesQuietly

\* A delivery covers the newest row of the batch and moves maxSeen to it.
LEMMA DeliverSound ==
  ASSUME NEW c \in Cycles, SoundInv, MonitorInv', FillsGrow, DeliverTrade(c)
  PROVE  \A d \in Cycles : CycleSound(pc[d], cycle[d])'
<1>1. /\ cycle[c] \in CycleType /\ MonitorInv /\ CycleSound("deliver", cycle[c])
      /\ pc[c] = "deliver" /\ LocalsTyped(pc[c], cycle[c])
  BY DEF SoundInv, MonitorInv, CyclesTyped, DeliverTrade, At
<1>2. PICK i \in cycle[c].batch :
        /\ SetCycle(c, [cycle[c] EXCEPT !.batch = @ \ {i},
                          !.maxSeen = Larger(@, fills[i].time)])
        /\ deliveries' = [deliveries EXCEPT ![i] = Smaller(2, @ + 1)]
  BY DEF DeliverTrade
<1> DEFINE k == cycle[c]
           m == Larger(cycle[c].maxSeen, fills[i].time)
<1>2a. PICK j : j = [cycle[c] EXCEPT !.batch = @ \ {i}, !.maxSeen = m]
  OBVIOUS
<1>3. /\ j.todo = k.todo /\ j.wallet = k.wallet /\ j.snap = k.snap
      /\ j.batch = k.batch \ {i} /\ j.cursorMs = k.cursorMs /\ j.maxSeen = m
  BY <1>1, <1>2a DEF CycleType
<1>4. SetCycle(c, j) /\ Goto(c, "deliver")
  BY <1>1, <1>2, <1>2a DEF DeliverTrade, Goto, MonitorInv, CyclesTyped
<1>5. j \in CycleType
  BY <1>1, <1>4, NextLocals
<1>6. /\ i \in DOMAIN fills /\ i \in FillIds /\ fills[i].time \in Nat
      /\ k.maxSeen \in Int /\ k.cursorMs \in Int /\ deliveries[i] \in 0 .. 2
      /\ deliveries' = [deliveries EXCEPT ![i] = Smaller(2, @ + 1)]
      /\ deliveries \in [FillIds -> 0 .. 2] /\ UNCHANGED <<now, fills>>
  BY <1>1, <1>2 DEF MonitorInv, TypeOK, Fill, LocalsTyped, CycleType, DeliverTrade
<1>7. deliveries'[i] > 0
  BY <1>6 DEF Smaller
<1>8. m \in Int /\ k.maxSeen <= m /\ fills[i].time <= m /\ m \in {k.maxSeen, fills[i].time}
  BY <1>6 DEF Larger
<1>9. ASSUME NEW v \in j.wallet PROVE BatchSound(j, v)'
  <2>1. BatchSound(k, v) /\ v \in Wallet /\ v.address \in Addresses
    BY <1>1, <1>3 DEF CycleSound, HasBatch, CycleType, Wallet
  <2> DEFINE P == Published(v.address)
  <2>2. /\ P' = P /\ i \in P
        /\ \A l \in P : fills[l].time \in Nat
    BY <1>1, <1>6, <2>1, PublishedFacts DEF Published, BatchSound
  <2>3. IF v.lastSeen = Never THEN j.cursorMs <= now' - Fallback
                              ELSE j.cursorMs = v.lastSeen
    BY <1>3, <1>6, <2>1 DEF BatchSound
  <2>4. \A l \in j.batch : l \in P /\ j.cursorMs < fills[l].time
    BY <1>3, <2>1 DEF BatchSound
  <2>5. j.maxSeen = j.cursorMs \/ \E l \in P : fills[l].time = j.maxSeen
    BY <1>3, <1>8, <2>1, <2>2 DEF BatchSound
  <2>6. j.cursorMs <= j.maxSeen
    BY <1>3, <1>6, <1>8, <2>1 DEF BatchSound
  <2>7. ASSUME NEW l \in P, j.cursorMs < fills[l].time
        PROVE  \/ l \in j.batch \/ Covered(l)'
               \/ /\ j.maxSeen < fills[l].time
                  /\ \A n \in j.batch : fills[n].time < fills[l].time
    <3>1. CASE l = i
      BY <1>7, <3>1 DEF Covered
    <3>2. CASE l # i
      <4>1. \/ l \in k.batch \/ Covered(l)
            \/ /\ k.maxSeen < fills[l].time
               /\ \A n \in k.batch : fills[n].time < fills[l].time
        BY <1>3, <2>1, <2>7 DEF BatchSound
      <4>2. Covered(l) => Covered(l)'
        BY <1>1, <2>1, CoveredStays
      <4>3. fills[l].time \in Nat
        BY <2>2
      <4>4. QED
        BY <1>3, <1>8, <3>2, <4>1, <4>2, <4>3
    <3>3. QED
      BY <3>1, <3>2
  <2>8. QED
    BY <1>6, <2>2, <2>3, <2>4, <2>5, <2>6, <2>7 DEF BatchSound
<1>10. \A w \in j.todo \union j.wallet \union j.snap : RecordSound(w)'
  <2>1. \A w \in j.todo \union j.wallet \union j.snap : w \in Wallet /\ RecordSound(w)
    BY <1>1, <1>3 DEF CycleSound, CycleType
  <2>2. QED
    BY <1>1, <2>1, RecordStays
<1>11. CycleSound("deliver", j)'
  BY <1>1, <1>3, <1>9, <1>10 DEF CycleSound
<1>12. QED
  BY <1>4, <1>11, MovesSound

\* Every step of a cycle keeps what cycles hold sound.
LEMMA CycleStepSound ==
  ASSUME NEW c \in Cycles, SoundInv, MonitorInv', FillsGrow, CycleStep(c)
  PROVE  \A d \in Cycles : CycleSound(pc[d], cycle[d])'
<1>1. /\ cycle[c] \in CycleType /\ MonitorInv /\ CycleSound(pc[c], cycle[c])
      /\ \A w \in wallets : RecordSound(w)
  BY DEF SoundInv, MonitorInv, CyclesTyped
<1>2. CASE LoadWallets(c)
  <2> DEFINE j == [cycle[c] EXCEPT !.todo = {w \in wallets : w.active}]
  <2>1. /\ j.todo \subseteq wallets /\ j.wallet = cycle[c].wallet
        /\ j.snap = cycle[c].snap
    BY <1>1 DEF CycleType
  <2>2. SetCycle(c, j) /\ Goto(c, "next")
    BY <1>2 DEF LoadWallets
  <2> HIDE DEF j
  <2>3. CycleSound("next", j)
    BY <1>1, <2>1 DEF CycleSound, HasBatch
  <2>4. QED
    BY <1>1, <2>2, <2>3, NextLocals, MovesQuietly
<1>3. CASE NextWallet(c)
  <2>1. PICK w \in cycle[c].todo :
          SetCycle(c, [cycle[c] EXCEPT !.todo = @ \ {w}, !.wallet = {w}])
    BY <1>3 DEF NextWallet
  <2> DEFINE j == [cycle[c] EXCEPT !.todo = @ \ {w}, !.wallet = {w}]
  <2>2. /\ j.todo = cycle[c].todo \ {w} /\ j.wallet = {w} /\ j.snap = cycle[c].snap
    BY <1>1 DEF CycleType
  <2>3. SetCycle(c, j) /\ Goto(c, "fetch")
    BY <1>3, <2>1 DEF NextWallet
  <2> HIDE DEF j
  <2>4. CycleSound("fetch", j)
    BY <1>1, <2>2 DEF CycleSound, HasBatch
  <2>5. QED
    BY <1>1, <2>3, <2>4, NextLocals, MovesQuietly
<1>4. CASE SkipWallet(c) \/ FetchFails(c) \/ SaveFails(c) \/ SaveLastSeen(c)
  BY <1>4, EndWalletSound DEF SkipWallet, FetchFails, SaveFails, SaveLastSeen
<1>5. CASE FetchTrades(c)
  BY <1>5, FetchSound
<1>6. CASE DeliverTrade(c)
  BY <1>6, DeliverSound
<1>7. CASE FinishBatch(c)
  <2>1. CASE Goto(c, "seen") /\ UNCHANGED cycle
    <3>1. SetCycle(c, cycle[c])
      BY <2>1 DEF SetCycle, SoundInv, MonitorInv, CyclesTyped
    <3>2. CycleSound("seen", cycle[c])
      BY <1>1, <1>7 DEF CycleSound, HasBatch, FinishBatch, At
    <3>3. QED
      BY <1>1, <2>1, <3>1, <3>2, MovesQuietly
  <2>2. CASE EndWallet(c)
    BY <2>2, EndWalletSound
  <2>3. QED
    BY <1>7, <2>1, <2>2 DEF FinishBatch
<1>8. CASE LoadForLastSeen(c)
  <2>1. CASE SetCycle(c, [cycle[c] EXCEPT !.snap = wallets]) /\ Goto(c, "save")
    <3> DEFINE j == [cycle[c] EXCEPT !.snap = wallets]
    <3>1. /\ j.todo = cycle[c].todo /\ j.wallet = cycle[c].wallet /\ j.snap = wallets
          /\ j.batch = cycle[c].batch /\ j.cursorMs = cycle[c].cursorMs
          /\ j.maxSeen = cycle[c].maxSeen
      BY <1>1 DEF CycleType
    <3>2. SetCycle(c, j) /\ Goto(c, "save") /\ pc[c] = "seen"
      BY <1>8, <2>1 DEF LoadForLastSeen, At
    <3> HIDE DEF j
    <3>3. \A v \in j.wallet : BatchSound(j, v)
      BY <1>1, <3>1, <3>2 DEF CycleSound, HasBatch, BatchSound
    <3>4. CycleSound("save", j)
      BY <1>1, <3>1, <3>3 DEF CycleSound
    <3>5. QED
      BY <1>1, <3>2, <3>4, NextLocals, MovesQuietly
  <2>2. CASE EndWallet(c)
    BY <2>2, EndWalletSound
  <2>3. QED
    BY <1>8, <2>1, <2>2 DEF LoadForLastSeen
<1>9. CASE EndCycle(c) \/ LoadFails(c)
  <2>1. SetCycle(c, NoCycle) /\ Goto(c, "idle")
    BY <1>9 DEF EndCycle, LoadFails, FinishCycle
  <2>2. CycleSound("idle", NoCycle)
    BY DEF CycleSound, NoCycle, HasBatch
  <2>3. QED
    BY <1>1, <2>1, <2>2, NextLocals, MovesQuietly
<1>10. QED
  BY <1>2, <1>3, <1>4, <1>5, <1>6, <1>7, <1>8, <1>9 DEF CycleStep

\* The cursor that is saved has passed over covered fills only.
LEMMA SavedSound ==
  ASSUME NEW c \in Cycles, SoundInv, MonitorInv', FillsGrow, SaveLastSeen(c)
  PROVE  \A w \in wallets' : RecordSound(w)'
<1>1. /\ cycle[c] \in CycleType /\ MonitorInv /\ CycleSound("save", cycle[c])
      /\ pc[c] = "save" /\ LocalsTyped(pc[c], cycle[c])
      /\ now \in Nat /\ Fallback \in Nat
  BY MonitorAssumption DEF SoundInv, MonitorInv, CyclesTyped, SaveLastSeen, At, TypeOK
<1>2. PICK w \in cycle[c].wallet :
        wallets' = {IF v.address = w.address
                      THEN [v EXCEPT !.lastSeen = cycle[c].maxSeen] ELSE v
                    : v \in cycle[c].snap}
  BY DEF SaveLastSeen
<1> DEFINE j == cycle[c]
<1>3. /\ w \in Wallet /\ w.address \in Addresses /\ BatchSound(j, w) /\ RecordSound(w)
      /\ j.batch = {} /\ j.maxSeen \in Nat /\ j.cursorMs \in Int /\ j.cursorMs < j.maxSeen
      /\ w.lastSeen \in Nat \union {Never}
  BY <1>1 DEF CycleSound, HasBatch, CycleType, Wallet, LocalsTyped
<1>4. \E i \in Published(w.address) : fills[i].time = j.maxSeen
  BY <1>3 DEF BatchSound
<1>5. ASSUME NEW i \in Published(w.address), now - Fallback < fills[i].time,
             fills[i].time <= j.maxSeen
      PROVE  Covered(i)
  <2>1. fills[i].time \in Nat
    BY <1>1, <1>3, PublishedFacts
  <2>2. CASE j.cursorMs < fills[i].time
    BY <1>3, <1>5, <2>1, <2>2 DEF BatchSound
  <2>3. CASE ~(j.cursorMs < fills[i].time)
    <3>1. w.lastSeen # Never /\ j.cursorMs = w.lastSeen
      BY <1>1, <1>3, <1>5, <2>1, <2>3 DEF BatchSound
    <3>2. QED
      BY <1>3, <1>5, <2>1, <2>3, <3>1 DEF RecordSound
  <2>4. QED
    BY <2>2, <2>3
<1>6. ASSUME NEW u \in wallets' PROVE RecordSound(u)'
  <2>1. PICK v \in j.snap :
          u = IF v.address = w.address THEN [v EXCEPT !.lastSeen = j.maxSeen] ELSE v
    BY <1>2
  <2>2. v \in Wallet /\ RecordSound(v)
    BY <1>1 DEF CycleSound, CycleType
  <2>3. u \in Wallet
    BY DEF MonitorInv, TypeOK
  <2>4. CASE v.address = w.address
    <3>1. u.address = w.address /\ u.lastSeen = j.maxSeen
      BY <2>1, <2>2, <2>4 DEF Wallet
    <3>2. RecordSound(u)
      BY <1>4, <1>5, <3>1 DEF RecordSound
    <3>3. QED
      BY <1>1, <2>3, <3>2, RecordStays
  <2>5. CASE v.address # w.address
    BY <1>1, <2>1, <2>2, <2>5, RecordStays
  <2>6. QED
    BY <2>4, <2>5
<1>7. QED
  BY <1>6

\* A route leaves the cursors of a list as they are; a new wallet has none.
LEMMA EditedSound ==
  ASSUME NEW job \in EditJob, \A w \in job.snap : RecordSound(w)
  PROVE  \A w \in Edited(job) : RecordSound(w)
<1> DEFINE S == job.snap
           a == job.address
           n == [address |-> a, active |-> FALSE, lastSeen |-> Never]
           T == {IF w.address = a THEN [w EXCEPT !.active = ~@] ELSE w : w \in S}
<1>1. S \subseteq Wallet
  BY DEF EditJob
<1>2. RecordSound(n)
  BY DEF RecordSound
<1>3. ASSUME NEW u \in T PROVE RecordSound(u)
  <2>1. PICK w \in S : u = IF w.address = a THEN [w EXCEPT !.active = ~@] ELSE w
    OBVIOUS
  <2>2. u.address = w.address /\ u.lastSeen = w.lastSeen
    BY <1>1, <2>1 DEF Wallet
  <2>3. QED
    BY <2>2 DEF RecordSound
<1>4. Edited(job) \subseteq S \union {n} \/ Edited(job) = T
  BY DEF Edited
<1>5. QED
  BY <1>2, <1>3, <1>4

\* SoundInv is inductive.
LEMMA SoundStep ==
  ASSUME SoundInv, [Next]_vars
  PROVE  SoundInv'
<1>1. MonitorInv /\ MonitorInv' /\ FillsGrow
  BY MonitorStep, FillsGrowStep DEF SoundInv
<1>2. /\ wallets \subseteq Wallet /\ route \in [Requests -> SUBSET EditJob]
      /\ \A r \in Requests : \A job \in route[r] : job.snap \subseteq Wallet
  BY <1>1 DEF MonitorInv, TypeOK, EditJob
<1>3. /\ \A w \in wallets : RecordSound(w)'
      /\ \A r \in Requests : \A job \in route[r] : \A w \in job.snap : RecordSound(w)'
  BY <1>1, <1>2, RecordStays DEF SoundInv
<1>4. ASSUME UNCHANGED <<pc, cycle>>
      PROVE  \A d \in Cycles : CycleSound(pc[d], cycle[d])'
  <2>1. SUFFICES ASSUME NEW d \in Cycles PROVE CycleSound(pc[d], cycle[d])'
    OBVIOUS
  <2>2. PICK k \in CycleType, l \in {pc[d]} : k = cycle[d]
    BY <1>1 DEF MonitorInv, CyclesTyped
  <2>3. CycleSound(l, k)'
    BY <1>1, <2>2, CycleStays DEF SoundInv
  <2>4. pc'[d] = l /\ cycle'[d] = k
    BY <1>4, <2>2
  <2>5. QED
    BY <2>3, <2>4
<1>5. ASSUME UNCHANGED <<wallets, route, pc, cycle>> PROVE SoundInv'
  <2>1. \A d \in Cycles : CycleSound(pc[d], cycle[d])'
    BY <1>4, <1>5
  <2>2. QED
    BY <1>1, <1>3, <1>5, <2>1 DEF SoundInv
<1>6. ASSUME NEW c \in Cycles, CycleStep(c) PROVE SoundInv'
  <2>1. \A d \in Cycles : CycleSound(pc[d], cycle[d])'
    BY <1>1, <1>6, CycleStepSound
  <2>2. \A w \in wallets' : RecordSound(w)'
    <3>1. CASE SaveLastSeen(c)
      BY <1>1, <3>1, SavedSound
    <3>2. CASE ~SaveLastSeen(c)
      <4>1. wallets' = wallets
        BY <1>6, <3>2 DEF CycleStep, LoadWallets, NextWallet, SkipWallet, FetchTrades,
           FetchFails, DeliverTrade, FinishBatch, LoadForLastSeen, SaveFails,
           EndCycle, LoadFails
      <4>2. QED
        BY <1>3, <4>1
    <3>3. QED
      BY <3>1, <3>2
  <2>3. route' = route
    BY <1>6 DEF CycleStep, LoadWallets, NextWallet, SkipWallet, FetchTrades,
       FetchFails, DeliverTrade, FinishBatch, LoadForLastSeen, SaveLastSeen, SaveFails,
       EndCycle, LoadFails
  <2>4. QED
    BY <1>1, <1>3, <2>1, <2>2, <2>3 DEF SoundInv
<1>7. ASSUME NEW r \in Requests, RouteSaves(r) \/ RouteFails(r) PROVE SoundInv'
  <2>1. \A d \in Cycles : CycleSound(pc[d], cycle[d])'
    BY <1>4, <1>7 DEF RouteSaves, RouteFails
  <2>2. route' = [route EXCEPT ![r] = {}]
    BY <1>7 DEF RouteSaves, RouteFails
  <2>3. \A s \in Requests : \A job \in route'[s] : \A w \in job.snap : RecordSound(w)'
    BY <1>2, <1>3, <2>2
  <2>4. \A w \in wallets' : RecordSound(w)'
    <3>1. CASE RouteFails(r)
      BY <1>3, <3>1 DEF RouteFails
    <3>2. CASE RouteSaves(r)
      <4>1. PICK job \in route[r] : wallets' = Edited(job)
        BY <3>2 DEF RouteSaves
      <4>2. job \in EditJob /\ \A w \in job.snap : RecordSound(w)
        BY <1>2 DEF SoundInv
      <4>3. \A w \in wallets' : w \in Wallet /\ RecordSound(w)
        BY <1>1, <4>1, <4>2, EditedSound DEF MonitorInv, TypeOK
      <4>4. QED
        BY <1>1, <4>3, RecordStays
    <3>3. QED
      BY <1>7, <3>1, <3>2
  <2>5. QED
    BY <1>1, <2>1, <2>3, <2>4 DEF SoundInv
<1>8. ASSUME NEW r \in Requests, NEW kind \in EditKind, NEW a \in Addresses,
             RouteLoads(r, kind, a)
      PROVE  SoundInv'
  <2>1. \A d \in Cycles : CycleSound(pc[d], cycle[d])'
    BY <1>4, <1>8 DEF RouteLoads
  <2>2. route' = [route EXCEPT ![r] = {[kind |-> kind, address |-> a, snap |-> wallets]}]
    BY <1>8 DEF RouteLoads
  <2>3. \A s \in Requests : \A job \in route'[s] : \A w \in job.snap : RecordSound(w)'
    BY <1>2, <1>3, <2>2
  <2>4. QED
    BY <1>1, <1>3, <1>8, <2>1, <2>3 DEF SoundInv, RouteLoads
<1>9. CASE Control
  <2>1. CASE StartMonitoringLate \/ StopMonitoring \/ UpdateMonitoringInterval
    BY <1>5, <2>1 DEF StartMonitoringLate, StopMonitoring, UpdateMonitoringInterval
  <2>2. ASSUME NEW c \in Cycles, NEW first \in BOOLEAN, RunPollingCycle(c, first),
               UNCHANGED <<wallets, route>>
        PROVE  SoundInv'
    <3> DEFINE j == [NoCycle EXCEPT !.first = first]
    <3>1. /\ j.wallet = {} /\ j.todo = {} /\ j.snap = {}
          /\ SetCycle(c, j) /\ Goto(c, "load")
      BY <2>2 DEF NoCycle, RunPollingCycle
    <3> HIDE DEF j
    <3>2. CycleSound("load", j)
      BY <3>1 DEF CycleSound, HasBatch
    <3>3. \A d \in Cycles : CycleSound(pc[d], cycle[d])'
      BY <1>1, <3>1, <3>2, NextLocals, MovesQuietly
    <3>4. QED
      BY <1>1, <1>3, <2>2, <3>3 DEF SoundInv
  <2>3. CASE \E c \in Cycles : StartMonitoring(c) \/ PollTimer(c)
    BY <2>2, <2>3 DEF StartMonitoring, PollTimer
  <2>4. CASE Restart
    <3>1. \A d \in Cycles : CycleSound(pc[d], cycle[d])'
      BY <2>4 DEF Restart, CycleSound, NoCycle, HasBatch
    <3>2. QED
      BY <1>1, <1>3, <2>4, <3>1 DEF SoundInv, Restart
  <2>5. CASE ReplaceMonitor
    <3>1. ASSUME NEW d \in Cycles PROVE CycleSound(pc[d], cycle[d])'
      <4>1. /\ cycle[d] \in CycleType /\ pc' = pc
            /\ cycle'[d] \in {cycle[d], [cycle[d] EXCEPT !.old = TRUE]}
        BY <1>1, <2>5 DEF ReplaceMonitor, MonitorInv, CyclesTyped
      <4>2. PICK k \in CycleType, l \in {pc[d]} : k = cycle[d]
        BY <4>1
      <4>3. PICK m \in CycleType : m = cycle'[d]
        BY <1>1 DEF MonitorInv, CyclesTyped
      <4>4. /\ m.todo = k.todo /\ m.wallet = k.wallet /\ m.snap = k.snap
            /\ m.batch = k.batch /\ m.cursorMs = k.cursorMs /\ m.maxSeen = k.maxSeen
        BY <4>1, <4>2, <4>3 DEF CycleType
      <4>5. CycleSound(l, k)
        BY <4>2 DEF SoundInv
      <4>6. CycleSound(l, m)
        BY <4>4, <4>5 DEF CycleSound, BatchSound
      <4>7. CycleSound(l, m)'
        BY <1>1, <4>6, CycleStays
      <4>8. pc'[d] = l /\ cycle'[d] = m
        BY <4>1, <4>2, <4>3
      <4>9. QED
        BY <4>7, <4>8
    <3>2. QED
      BY <1>1, <1>3, <2>5, <3>1 DEF SoundInv, ReplaceMonitor
  <2>6. QED
    BY <1>9, <2>1, <2>3, <2>4, <2>5 DEF Control
<1>10. CASE Environment
  BY <1>5, <1>10 DEF Environment, Tick, Trade, Publish
<1>11. CASE UNCHANGED vars
  BY <1>5, <1>11 DEF vars
<1>12. QED
  BY <1>6, <1>7, <1>8, <1>9, <1>10, <1>11 DEF Next, RouteStep

\* SoundInv holds at the start.
LEMMA SoundInit ==
  ASSUME Init
  PROVE  SoundInv
<1>1. \A w \in wallets : RecordSound(w)
  BY DEF Init, RecordSound
<1>2. \A c \in Cycles : CycleSound(pc[c], cycle[c])
  BY DEF Init, CycleSound, NoCycle, HasBatch
<1>3. \A r \in Requests : route[r] = {}
  BY DEF Init
<1>4. QED
  BY <1>1, <1>2, <1>3, MonitorInit DEF SoundInv

-----------------------------------------------------------------------------
(* One monitor, over a store whose lists are never stale.                  *)

OneMonitor  == "reinitialize" \notin Events
FreshStore  == AtomicStorage \/ Edits = {}

OneCycle ==
  /\ \A c \in Cycles : IF pc[c] = "idle" THEN cycle[c] = NoCycle
                       ELSE ~cycle[c].old /\ pollCycleInProgress
  /\ \A c, d \in Cycles : pc[c] # "idle" /\ pc[d] # "idle" => c = d

\* Whoever has loaded the list is alone and holds what is in the store.
SnapsCurrent ==
  /\ \A c \in Cycles : pc[c] = "save" =>
       cycle[c].snap = wallets /\ \A r \in Requests : route[r] = {}
  /\ \A r \in Requests : \A job \in route[r] :
       /\ job.snap = wallets /\ job.kind \in Edits
       /\ job.kind = "add" => Of(wallets, job.address) = {}
  /\ \A r, s \in Requests : route[r] # {} /\ route[s] # {} => r = s

Distinct(S) == \A v, w \in S : v.address = w.address => v = w

\* The cursor of the copy v is that of the store, unless the wallet was removed and
\* added again.
UpToDate(v) ==
  \A w \in wallets : v.address = w.address =>
    w.lastSeen = v.lastSeen \/ ("add" \in Edits /\ w.lastSeen = Never)

\* The copies that a cycle works from.
CopiesSound(label, j) ==
  /\ Distinct(j.todo)
  /\ \A v \in j.wallet, w \in j.todo : v.address # w.address
  /\ label \in {"idle", "load"} => j.todo = {}
  /\ (j.wallet = {}) <=> (label \in {"idle", "load", "next"})
  /\ \A v \in j.todo \union j.wallet : UpToDate(v)

SerialInv ==
  /\ SoundInv /\ OneCycle /\ SnapsCurrent /\ Distinct(wallets)
  /\ \A c \in Cycles : CopiesSound(pc[c], cycle[c])

\* The edit of a list keeps the cursors, and one record for each address.
LEMMA EditedRecords ==
  ASSUME NEW job \in EditJob
  PROVE  /\ \A u \in Edited(job) :
              \/ job.kind = "add" /\ u.address = job.address /\ u.lastSeen = Never
              \/ \E w \in job.snap : u.address = w.address /\ u.lastSeen = w.lastSeen
         /\ Distinct(job.snap) /\ (job.kind = "add" => Of(job.snap, job.address) = {})
              => Distinct(Edited(job))
<1> DEFINE S == job.snap
           a == job.address
           n == [address |-> a, active |-> FALSE, lastSeen |-> Never]
           T == {IF w.address = a THEN [w EXCEPT !.active = ~@] ELSE w : w \in S}
<1>1. S \subseteq Wallet
  BY DEF EditJob
<1>2. ASSUME NEW u \in T
      PROVE  \E w \in S : /\ u.address = w.address /\ u.lastSeen = w.lastSeen
                          /\ u = IF w.address = a THEN [w EXCEPT !.active = ~@] ELSE w
  <2>1. PICK w \in S : u = IF w.address = a THEN [w EXCEPT !.active = ~@] ELSE w
    OBVIOUS
  <2>2. u.address = w.address /\ u.lastSeen = w.lastSeen
    BY <1>1, <2>1 DEF Wallet
  <2>3. QED
    BY <2>1, <2>2
<1>3. CASE job.kind = "add"
  <2>1. Edited(job) = S \union {n}
    BY <1>3 DEF Edited
  <2>2. Of(S, a) = {} => \A w \in S : w.address # a
    BY DEF Of
  <2>3. n.address = a /\ n.lastSeen = Never
    OBVIOUS
  <2> HIDE DEF n
  <2>4. \A u \in S \union {n} : u = n \/ u \in S
    OBVIOUS
  <2>5. Distinct(S) /\ Of(S, a) = {} => Distinct(S \union {n})
    BY <2>2, <2>3 DEF Distinct
  <2>6. QED
    BY <1>3, <2>1, <2>3, <2>4, <2>5
<1>4. CASE Edited(job) \subseteq S
  BY <1>4 DEF Distinct
<1>5. CASE Edited(job) = T
  <2>1. Distinct(S) => Distinct(T)
    BY <1>2 DEF Distinct
  <2> HIDE DEF T
  <2>2. QED
    BY <1>2, <1>5, <2>1
<1>6. QED
  BY <1>3, <1>4, <1>5 DEF Edited

\* What the steps of a cycle have in common.
LEMMA CycleShape ==
  ASSUME NEW c \in Cycles, MonitorInv, CycleStep(c)
  PROVE  /\ pc[c] # "idle"
         /\ \A d \in Cycles : d # c => pc'[d] = pc[d] /\ cycle'[d] = cycle[d]
         /\ \/ pc'[c] = "idle" /\ cycle'[c] = NoCycle
            \/ /\ pc'[c] # "idle" /\ cycle'[c].old = cycle[c].old
               /\ pollCycleInProgress' = pollCycleInProgress
         /\ pc'[c] = "save" => LoadForLastSeen(c)
         /\ route' = route
         /\ SaveLastSeen(c) \/ wallets' = wallets
<1>1. /\ pc \in [Cycles -> PC] /\ cycle \in [Cycles -> CycleType]
      /\ cycle[c] \in CycleType
  BY DEF MonitorInv, CyclesTyped
<1>2. ASSUME NEW label, NEW j, Goto(c, label), SetCycle(c, j)
      PROVE  /\ \A d \in Cycles : d # c => pc'[d] = pc[d] /\ cycle'[d] = cycle[d]
             /\ pc'[c] = label /\ cycle'[c] = j
  BY <1>1, <1>2 DEF Goto, SetCycle
<1>3. ASSUME EndWallet(c)
      PROVE  /\ \A d \in Cycles : d # c => pc'[d] = pc[d] /\ cycle'[d] = cycle[d]
             /\ pc'[c] = "next" /\ cycle'[c].old = cycle[c].old
  <2> DEFINE j == [cycle[c] EXCEPT !.wallet = {}, !.batch = {}, !.snap = {},
                                   !.cursorMs = 0, !.maxSeen = 0]
  <2>1. j.old = cycle[c].old
    BY <1>1 DEF CycleType
  <2>2. Goto(c, "next") /\ SetCycle(c, j)
    BY <1>3 DEF EndWallet
  <2> HIDE DEF j
  <2>3. QED
    BY <1>2, <2>1, <2>2
<1>4. CASE LoadWallets(c)
  <2> DEFINE j == [cycle[c] EXCEPT !.todo = {w \in wallets : w.active}]
  <2>1. j.old = cycle[c].old
    BY <1>1 DEF CycleType
  <2>2. Goto(c, "next") /\ SetCycle(c, j)
    BY <1>4 DEF LoadWallets
  <2> HIDE DEF j
  <2>3. QED
    BY <1>2, <1>4, <2>1, <2>2 DEF LoadWallets, At, monitor
<1>5. CASE NextWallet(c)
  <2>1. PICK w \in cycle[c].todo :
          SetCycle(c, [cycle[c] EXCEPT !.todo = @ \ {w}, !.wallet = {w}])
    BY <1>5 DEF NextWallet
  <2> DEFINE j == [cycle[c] EXCEPT !.todo = @ \ {w}, !.wallet = {w}]
  <2>2. j.old = cycle[c].old
    BY <1>1 DEF CycleType
  <2>3. Goto(c, "fetch") /\ SetCycle(c, j)
    BY <1>5, <2>1 DEF NextWallet
  <2> HIDE DEF j
  <2>4. QED
    BY <1>2, <1>5, <2>2, <2>3 DEF NextWallet, At, monitor
<1>6. CASE SkipWallet(c) \/ FetchFails(c) \/ SaveFails(c) \/ SaveLastSeen(c)
  BY <1>3, <1>6 DEF SkipWallet, FetchFails, SaveFails, SaveLastSeen, At, monitor
<1>7. CASE FetchTrades(c)
  <2>1. PICK w \in cycle[c].wallet : \E rows \in UserTrades(w.address) :
          SetCycle(c, [cycle[c] EXCEPT !.batch = NewRows(rows, CursorOf(w)),
                                       !.cursorMs = CursorOf(w),
                                       !.maxSeen = CursorOf(w)])
    BY <1>7 DEF FetchTrades
  <2>2. PICK rows \in UserTrades(w.address) :
          SetCycle(c, [cycle[c] EXCEPT !.batch = NewRows(rows, CursorOf(w)),
                                       !.cursorMs = CursorOf(w),
                                       !.maxSeen = CursorOf(w)])
    BY <2>1
  <2> DEFINE j == [cycle[c] EXCEPT !.batch = NewRows(rows, CursorOf(w)),
                                   !.cursorMs = CursorOf(w),
                                   !.maxSeen = CursorOf(w)]
  <2>3. j.old = cycle[c].old
    BY <1>1 DEF CycleType
  <2>4. Goto(c, "deliver") /\ SetCycle(c, j)
    BY <1>7, <2>2 DEF FetchTrades
  <2> HIDE DEF j
  <2>5. QED
    BY <1>2, <1>7, <2>3, <2>4 DEF FetchTrades, At, monitor
<1>8. CASE DeliverTrade(c)
  <2>1. PICK i \in cycle[c].batch :
          SetCycle(c, [cycle[c] EXCEPT !.batch = @ \ {i},
                         !.maxSeen = Larger(@, fills[i].time)])
    BY <1>8 DEF DeliverTrade
  <2> DEFINE j == [cycle[c] EXCEPT !.batch = @ \ {i},
                     !.maxSeen = Larger(@, fills[i].time)]
  <2>2. j.old = cycle[c].old
    BY <1>1 DEF CycleType
  <2>3. Goto(c, "deliver") /\ SetCycle(c, j)
    BY <1>1, <1>8, <2>1 DEF DeliverTrade, At, Goto
  <2>4. QED
    BY <1>2, <1>8, <2>2, <2>3 DEF DeliverTrade, At, monitor
<1>9. CASE FinishBatch(c)
  <2>1. CASE Goto(c, "seen") /\ UNCHANGED cycle
    BY <1>1, <1>9, <2>1 DEF FinishBatch, Goto, At, monitor
  <2>2. CASE EndWallet(c)
    BY <1>3, <1>9, <2>2 DEF FinishBatch, At, monitor
  <2>3. QED
    BY <1>9, <2>1, <2>2 DEF FinishBatch
<1>10. CASE LoadForLastSeen(c)
  <2>1. CASE SetCycle(c, [cycle[c] EXCEPT !.snap = wallets]) /\ Goto(c, "save")
    <3>1. [cycle[c] EXCEPT !.snap = wallets].old = cycle[c].old
      BY <1>1 DEF CycleType
    <3>2. QED
      BY <1>2, <1>10, <2>1, <3>1 DEF LoadForLastSeen, At, monitor
  <2>2. CASE EndWallet(c)
    BY <1>3, <1>10, <2>2 DEF LoadForLastSeen, At, monitor
  <2>3. QED
    BY <1>10, <2>1, <2>2 DEF LoadForLastSeen
<1>11. CASE EndCycle(c) \/ LoadFails(c)
  BY <1>2, <1>11 DEF EndCycle, LoadFails, FinishCycle, At
<1>12. QED
  BY <1>4, <1>5, <1>6, <1>7, <1>8, <1>9, <1>10, <1>11 DEF CycleStep

\* With one monitor no two cycles are ever under way together.
LEMMA OneCycleStep ==
  ASSUME OneMonitor, MonitorInv, OneCycle, [Next]_vars
  PROVE  OneCycle'
<1>1. ASSUME NEW c \in Cycles, CycleStep(c) PROVE OneCycle'
  <2>1. /\ pc[c] # "idle" /\ pollCycleInProgress /\ ~cycle[c].old
        /\ \A d \in Cycles : d # c => pc[d] = "idle" /\ cycle[d] = NoCycle
    BY <1>1, CycleShape DEF OneCycle
  <2>2. \A d \in Cycles : d # c => pc'[d] = "idle" /\ cycle'[d] = NoCycle
    BY <1>1, <2>1, CycleShape
  <2>3. IF pc'[c] = "idle" THEN cycle'[c] = NoCycle
                           ELSE ~cycle'[c].old /\ pollCycleInProgress'
    BY <1>1, <2>1, CycleShape
  <2>4. QED
    BY <2>2, <2>3 DEF OneCycle
<1>2. ASSUME NEW c \in Cycles, NEW first \in BOOLEAN, RunPollingCycle(c, first)
      PROVE  OneCycle'
  <2>1. \A d \in Cycles : pc[d] = "idle" /\ cycle[d] = NoCycle
    BY <1>2 DEF RunPollingCycle, OneCycle
  <2>2. pc'[c] = "load" /\ ~cycle'[c].old /\ pollCycleInProgress'
    BY <1>2 DEF RunPollingCycle, Goto, SetCycle, NoCycle, MonitorInv, CyclesTyped
  <2>3. \A d \in Cycles : d # c => pc'[d] = "idle" /\ cycle'[d] = NoCycle
    BY <1>2, <2>1 DEF RunPollingCycle, Goto, SetCycle, MonitorInv, CyclesTyped
  <2>4. QED
    BY <2>2, <2>3 DEF OneCycle
<1>3. CASE Control
  <2>1. CASE StartMonitoringLate \/ StopMonitoring \/ UpdateMonitoringInterval
    BY <2>1 DEF StartMonitoringLate, StopMonitoring, UpdateMonitoringInterval, OneCycle
  <2>2. CASE \E c \in Cycles : StartMonitoring(c) \/ PollTimer(c)
    BY <1>2, <2>2 DEF StartMonitoring, PollTimer
  <2>3. CASE Restart
    BY <2>3 DEF Restart, OneCycle
  <2>4. ~ReplaceMonitor
    BY DEF ReplaceMonitor, OneMonitor
  <2>5. QED
    BY <1>3, <2>1, <2>2, <2>3, <2>4 DEF Control
<1>4. CASE UNCHANGED <<pc, cycle, monitor>>
  BY <1>4 DEF OneCycle, monitor
<1>5. QED
  BY <1>1, <1>3, <1>4 DEF Next, Environment, RouteStep, Tick, Trade, Publish,
     RouteSaves, RouteFails, RouteLoads, vars

\* While nobody is between a load and its save, no request is under way.
LEMMA IdleStore ==
  ASSUME FreshStore, MonitorInv, SnapsCurrent, StorageIdle
  PROVE  /\ \A r \in Requests : route[r] = {}
         /\ Edits # {} => \A c \in Cycles : pc[c] # "save"
<1>1. CASE AtomicStorage
  BY <1>1 DEF StorageIdle, At
<1>2. CASE Edits = {}
  BY <1>2 DEF SnapsCurrent
<1>3. QED
  BY <1>1, <1>2 DEF FreshStore

\* Nothing comes between a load of the list and the save of the same actor.
LEMMA SnapsStep ==
  ASSUME OneMonitor, FreshStore, MonitorInv, OneCycle, SnapsCurrent, [Next]_vars
  PROVE  SnapsCurrent'
<1>1. ASSUME NEW c \in Cycles, StorageIdle \/ At(c, "save"), CycleStep(c)
      PROVE  SnapsCurrent'
  <2>1. /\ pc[c] # "idle" /\ route' = route
        /\ \A d \in Cycles : d # c => pc[d] = "idle" /\ pc'[d] = "idle"
        /\ pc'[c] = "save" => LoadForLastSeen(c)
        /\ SaveLastSeen(c) \/ wallets' = wallets
    BY <1>1, CycleShape DEF OneCycle
  <2>2. CASE LoadForLastSeen(c)
    <3>1. StorageIdle /\ wallets' = wallets
      BY <1>1, <2>2 DEF LoadForLastSeen, At
    <3>2. \A r \in Requests : route[r] = {}
      BY <3>1, IdleStore
    <3>3. pc'[c] = "save" => cycle'[c].snap = wallets
      <4>1. CASE EndWallet(c)
        BY <4>1 DEF EndWallet, Goto, MonitorInv, CyclesTyped
      <4>2. CASE SetCycle(c, [cycle[c] EXCEPT !.snap = wallets])
        BY <4>2 DEF SetCycle, MonitorInv, CyclesTyped, CycleType
      <4>3. QED
        BY <2>2, <4>1, <4>2 DEF LoadForLastSeen
    <3>4. QED
      BY <2>1, <3>1, <3>2, <3>3 DEF SnapsCurrent
  <2>3. CASE SaveLastSeen(c)
    <3>1. \A r \in Requests : route[r] = {}
      BY <2>3 DEF SaveLastSeen, At, SnapsCurrent
    <3>2. ~LoadForLastSeen(c)
      BY <2>3 DEF SaveLastSeen, LoadForLastSeen, At
    <3>3. QED
      BY <2>1, <3>1, <3>2 DEF SnapsCurrent
  <2>4. CASE ~LoadForLastSeen(c) /\ ~SaveLastSeen(c)
    <3>1. /\ wallets' = wallets /\ \A d \in Cycles : pc'[d] # "save"
      BY <2>1, <2>4
    <3>2. QED
      BY <2>1, <3>1 DEF SnapsCurrent, Of
  <2>5. QED
    BY <2>2, <2>3, <2>4
<1>2. ASSUME NEW r \in Requests, RouteSaves(r) \/ RouteFails(r) PROVE SnapsCurrent'
  <2>1. route[r] # {} /\ route' = [route EXCEPT ![r] = {}] /\ pc' = pc /\ cycle' = cycle
    BY <1>2 DEF RouteSaves, RouteFails
  <2>2. \A s \in Requests : route'[s] = {}
    BY <2>1 DEF SnapsCurrent, MonitorInv, TypeOK
  <2>3. \A c \in Cycles : pc[c] # "save"
    BY <2>1 DEF SnapsCurrent
  <2>4. QED
    BY <2>1, <2>2, <2>3 DEF SnapsCurrent
<1>3. ASSUME NEW r \in Requests, NEW kind \in EditKind, NEW a \in Addresses,
             StorageIdle, RouteLoads(r, kind, a)
      PROVE  SnapsCurrent'
  <2> DEFINE job == [kind |-> kind, address |-> a, snap |-> wallets]
  <2>1. /\ kind \in Edits /\ route' = [route EXCEPT ![r] = {job}]
        /\ kind = "add" => Of(wallets, a) = {}
        /\ wallets' = wallets /\ pc' = pc /\ cycle' = cycle
    BY <1>3 DEF RouteLoads
  <2>2. /\ \A s \in Requests : route[s] = {}
        /\ \A c \in Cycles : pc[c] # "save"
    BY <1>3, <2>1, IdleStore
  <2>3. \A s \in Requests : s # r => route'[s] = {}
    BY <2>1, <2>2 DEF MonitorInv, TypeOK
  <2>4. route'[r] = {job} /\ job.kind = kind /\ job.address = a /\ job.snap = wallets
    BY <2>1 DEF MonitorInv, TypeOK
  <2> HIDE DEF job
  <2>5. QED
    BY <2>1, <2>2, <2>3, <2>4 DEF SnapsCurrent, Of
<1>4. CASE Control
  <2>1. wallets' = wallets
    BY <1>4 DEF Control, StartMonitoring, PollTimer, StartMonitoringLate, StopMonitoring,
       UpdateMonitoringInterval, Restart, ReplaceMonitor
  <2>2. CASE StartMonitoringLate \/ StopMonitoring \/ UpdateMonitoringInterval
    BY <2>1, <2>2 DEF StartMonitoringLate, StopMonitoring, UpdateMonitoringInterval,
       SnapsCurrent, Of
  <2>3. ASSUME NEW c \in Cycles, StartMonitoring(c) \/ PollTimer(c) PROVE SnapsCurrent'
    <3>1. /\ route' = route /\ pc' = [pc EXCEPT ![c] = "load"]
          /\ \A d \in Cycles : d # c => cycle'[d] = cycle[d]
      BY <2>3 DEF StartMonitoring, PollTimer, RunPollingCycle, Goto, SetCycle, MonitorInv,
         CyclesTyped
    <3>2. QED
      BY <2>1, <3>1 DEF SnapsCurrent, Of, MonitorInv, CyclesTyped
  <2>4. CASE Restart
    BY <2>4 DEF Restart, SnapsCurrent
  <2>5. ~ReplaceMonitor
    BY DEF ReplaceMonitor, OneMonitor
  <2>6. QED
    BY <1>4, <2>2, <2>3, <2>4, <2>5 DEF Control
<1>5. CASE UNCHANGED <<wallets, pc, cycle, route>>
  BY <1>5 DEF SnapsCurrent, Of
<1>6. QED
  BY <1>1, <1>2, <1>3, <1>4, <1>5 DEF Next, Environment, RouteStep, Tick, Trade, Publish, vars

\* Where the cursor of a record comes from: the same record before the step, a
\* wallet just added, or the cycle that saves.
LEMMA CursorOrigin ==
  ASSUME OneMonitor, FreshStore, SerialInv, [Next]_vars, NEW w \in wallets'
  PROVE  \/ \E v \in wallets : v.address = w.address /\ v.lastSeen = w.lastSeen
         \/ /\ "add" \in Edits /\ w.lastSeen = Never
            /\ \A v \in wallets : v.address # w.address
         \/ \E c \in Cycles : /\ SaveLastSeen(c) /\ w.lastSeen = cycle[c].maxSeen
                              /\ \E v \in cycle[c].wallet : v.address = w.address
                              /\ \E v \in wallets : v.address = w.address
<1>1. MonitorInv /\ SnapsCurrent
  BY DEF SerialInv, SoundInv
<1>2. CASE wallets' = wallets
  BY <1>2
<1>3. ASSUME NEW c \in Cycles, CycleStep(c), wallets' # wallets
      PROVE  \/ \E v \in wallets : v.address = w.address /\ v.lastSeen = w.lastSeen
             \/ /\ SaveLastSeen(c) /\ w.lastSeen = cycle[c].maxSeen
                /\ \E v \in cycle[c].wallet : v.address = w.address
                /\ \E v \in wallets : v.address = w.address
  <2>1. SaveLastSeen(c)
    BY <1>1, <1>3, CycleShape
  <2>2. cycle[c].snap = wallets /\ wallets \subseteq Wallet
    BY <1>1, <2>1 DEF SaveLastSeen, At, SnapsCurrent, MonitorInv, TypeOK
  <2>3. PICK u \in cycle[c].wallet :
          wallets' = {IF v.address = u.address
                        THEN [v EXCEPT !.lastSeen = cycle[c].maxSeen] ELSE v
                      : v \in cycle[c].snap}
    BY <2>1 DEF SaveLastSeen
  <2>4. PICK v \in wallets :
          w = IF v.address = u.address THEN [v EXCEPT !.lastSeen = cycle[c].maxSeen] ELSE v
    BY <2>2, <2>3
  <2>5. CASE v.address = u.address
    <3>1. w.address = u.address /\ w.lastSeen = cycle[c].maxSeen
      BY <2>2, <2>4, <2>5 DEF Wallet
    <3>2. v.address = w.address
      BY <2>5, <3>1
    <3>3. QED
      BY <2>1, <3>1, <3>2
  <2>6. CASE v.address # u.address
    BY <2>4, <2>6
  <2>7. QED
    BY <2>5, <2>6
<1>4. ASSUME NEW r \in Requests, RouteSaves(r)
      PROVE  \/ \E v \in wallets : v.address = w.address /\ v.lastSeen = w.lastSeen
             \/ /\ "add" \in Edits /\ w.lastSeen = Never
                /\ \A v \in wallets : v.address # w.address
  <2>1. PICK job \in route[r] : wallets' = Edited(job)
    BY <1>4 DEF RouteSaves
  <2>2. /\ job \in EditJob /\ job.snap = wallets /\ job.kind \in Edits
        /\ job.kind = "add" => Of(wallets, job.address) = {}
    BY <1>1 DEF SnapsCurrent, MonitorInv, TypeOK
  <2>3. \/ job.kind = "add" /\ w.address = job.address /\ w.lastSeen = Never
        \/ \E v \in wallets : w.address = v.address /\ w.lastSeen = v.lastSeen
    BY <2>1, <2>2, EditedRecords
  <2>4. QED
    BY <2>2, <2>3 DEF Of
<1>5. (\A c \in Cycles : ~CycleStep(c)) /\ (\A r \in Requests : ~RouteSaves(r))
        => wallets' = wallets
  BY DEF Next, Control, Environment, RouteStep, Tick, Trade, Publish, RouteFails,
     RouteLoads, StartMonitoring, PollTimer, StartMonitoringLate, StopMonitoring,
     UpdateMonitoringInterval, Restart, ReplaceMonitor, vars
<1>6. QED
  BY <1>2, <1>3, <1>4, <1>5

\* A copy stays up to date unless its own cursor is saved.
LEMMA UpToDateStays ==
  ASSUME OneMonitor, FreshStore, SerialInv, [Next]_vars, NEW v, UpToDate(v),
         \A c \in Cycles : SaveLastSeen(c) =>
           \A u \in cycle[c].wallet : u.address # v.address
  PROVE  UpToDate(v)'
<1> SUFFICES ASSUME NEW w \in wallets', v.address = w.address
             PROVE  w.lastSeen = v.lastSeen \/ ("add" \in Edits /\ w.lastSeen = Never)
  BY DEF UpToDate
<1>1. QED
  BY CursorOrigin DEF UpToDate

\* The store keeps one record for each address.
LEMMA DistinctStep ==
  ASSUME OneMonitor, FreshStore, SerialInv, [Next]_vars
  PROVE  Distinct(wallets)'
<1>1. MonitorInv /\ SnapsCurrent /\ Distinct(wallets)
  BY DEF SerialInv, SoundInv
<1>2. CASE wallets' = wallets
  BY <1>1, <1>2 DEF Distinct
<1>3. ASSUME NEW c \in Cycles, SaveLastSeen(c) PROVE Distinct(wallets)'
  <2>1. cycle[c].snap = wallets /\ wallets \subseteq Wallet
    BY <1>1, <1>3 DEF SaveLastSeen, At, SnapsCurrent, MonitorInv, TypeOK
  <2>2. PICK u \in cycle[c].wallet :
          wallets' = {IF v.address = u.address
                        THEN [v EXCEPT !.lastSeen = cycle[c].maxSeen] ELSE v
                      : v \in cycle[c].snap}
    BY <1>3 DEF SaveLastSeen
  <2>3. ASSUME NEW w \in wallets'
        PROVE  \E v \in wallets :
                 /\ w.address = v.address
                 /\ w = IF v.address = u.address
                          THEN [v EXCEPT !.lastSeen = cycle[c].maxSeen] ELSE v
    <3>1. PICK v \in wallets :
            w = IF v.address = u.address THEN [v EXCEPT !.lastSeen = cycle[c].maxSeen] ELSE v
      BY <2>1, <2>2
    <3>2. w.address = v.address
      BY <2>1, <3>1 DEF Wallet
    <3>3. QED
      BY <3>1, <3>2
  <2>4. QED
    BY <1>1, <2>3 DEF Distinct
<1>4. ASSUME NEW r \in Requests, RouteSaves(r) PROVE Distinct(wallets)'
  <2>1. PICK job \in route[r] : wallets' = Edited(job)
    BY <1>4 DEF RouteSaves
  <2>2. /\ job \in EditJob /\ job.snap = wallets
        /\ job.kind = "add" => Of(wallets, job.address) = {}
    BY <1>1 DEF SnapsCurrent, MonitorInv, TypeOK
  <2>3. Distinct(Edited(job))
    BY <1>1, <2>2, EditedRecords
  <2>4. QED
    BY <2>1, <2>3 DEF Distinct
<1>5. ASSUME NEW c \in Cycles, CycleStep(c), ~SaveLastSeen(c) PROVE wallets' = wallets
  BY <1>1, <1>5, CycleShape
<1>6. (\A c \in Cycles : ~CycleStep(c)) /\ (\A r \in Requests : ~RouteSaves(r))
        => wallets' = wallets
  BY DEF Next, Control, Environment, RouteStep, Tick, Trade, Publish, RouteFails,
     RouteLoads, StartMonitoring, PollTimer, StartMonitoringLate, StopMonitoring,
     UpdateMonitoringInterval, Restart, ReplaceMonitor, vars
<1>7. QED
  BY <1>2, <1>3, <1>4, <1>5, <1>6

\* The locals of a cycle that moves have the copies it had, or the store's.
LEMMA CopiesStep ==
  ASSUME OneMonitor, FreshStore, SerialInv, [Next]_vars, NEW c \in Cycles, CycleStep(c)
  PROVE  \A d \in Cycles : CopiesSound(pc[d], cycle[d])'
<1>1. /\ MonitorInv /\ Distinct(wallets) /\ cycle[c] \in CycleType
      /\ CopiesSound(pc[c], cycle[c])
      /\ pc \in [Cycles -> PC] /\ cycle \in [Cycles -> CycleType]
  BY DEF SerialInv, SoundInv, MonitorInv, CyclesTyped
<1>2. \A d \in Cycles : d # c => ~CycleStep(d) /\ cycle'[d] = NoCycle /\ pc'[d] = "idle"
  <2>1. pc[c] # "idle"
    BY <1>1, CycleShape
  <2>2. \A d \in Cycles : d # c => pc[d] = "idle" /\ cycle[d] = NoCycle
    BY <2>1 DEF SerialInv, OneCycle
  <2>3. QED
    BY <1>1, <2>2, CycleShape
<1>3. SUFFICES CopiesSound(pc[c], cycle[c])'
  <2>1. \A d \in Cycles : d # c => CopiesSound(pc[d], cycle[d])'
    BY <1>2 DEF CopiesSound, NoCycle, Distinct
  <2>2. QED
    BY <2>1
<1>4. ASSUME NEW label, NEW k, NEW j, k = cycle[c], Goto(c, label), SetCycle(c, j),
             j.todo \subseteq k.todo, j.wallet \in {{}, k.wallet},
             label \notin {"idle", "load"}, j.wallet = {} <=> label = "next",
             ~SaveLastSeen(c) \/ j.wallet = {}
      PROVE  CopiesSound(pc[c], cycle[c])'
  <2>1. pc'[c] = label /\ cycle'[c] = j
    BY <1>1, <1>4 DEF Goto, SetCycle
  <2>2. ASSUME NEW v \in j.todo \union j.wallet PROVE UpToDate(v)'
    <3>1. UpToDate(v)
      BY <1>1, <1>4 DEF CopiesSound
    <3>2. SaveLastSeen(c) => \A u \in k.wallet : u.address # v.address
      BY <1>1, <1>4 DEF CopiesSound
    <3>3. \A d \in Cycles : SaveLastSeen(d) => d = c
      BY <1>2 DEF CycleStep
    <3>4. QED
      BY <1>4, <3>1, <3>2, <3>3, UpToDateStays
  <2>3. QED
    BY <1>1, <1>4, <2>1, <2>2 DEF CopiesSound, Distinct
<1>5. ASSUME EndWallet(c) PROVE CopiesSound(pc[c], cycle[c])'
  <2>1. PICK k, j : /\ k = cycle[c]
                    /\ j = [cycle[c] EXCEPT !.wallet = {}, !.batch = {}, !.snap = {},
                                            !.cursorMs = 0, !.maxSeen = 0]
    OBVIOUS
  <2>2. j.todo = k.todo /\ j.wallet = {}
    BY <1>1, <2>1 DEF CycleType
  <2>3. Goto(c, "next") /\ SetCycle(c, j)
    BY <1>5, <2>1 DEF EndWallet
  <2>4. QED
    BY <1>4, <2>1, <2>2, <2>3
<1>6. CASE LoadWallets(c)
  <2>1. PICK j : j = [cycle[c] EXCEPT !.todo = {w \in wallets : w.active}]
    OBVIOUS
  <2>2. j.todo \subseteq wallets /\ j.wallet = cycle[c].wallet /\ cycle[c].wallet = {}
    BY <1>1, <1>6, <2>1 DEF CycleType, CopiesSound, LoadWallets, At
  <2>3. cycle'[c] = j /\ pc'[c] = "next" /\ wallets' = wallets
    BY <1>1, <1>6, <2>1 DEF LoadWallets, SetCycle, Goto
  <2>4. \A v \in j.todo : UpToDate(v)'
    BY <1>1, <2>2, <2>3 DEF UpToDate, Distinct
  <2>5. QED
    BY <1>1, <2>2, <2>3, <2>4 DEF CopiesSound, Distinct
<1>7. CASE NextWallet(c)
  <2>1. PICK w \in cycle[c].todo :
          SetCycle(c, [cycle[c] EXCEPT !.todo = @ \ {w}, !.wallet = {w}])
    BY <1>7 DEF NextWallet
  <2>2. PICK j : j = [cycle[c] EXCEPT !.todo = @ \ {w}, !.wallet = {w}]
    OBVIOUS
  <2>3. j.todo = cycle[c].todo \ {w} /\ j.wallet = {w}
    BY <1>1, <2>2 DEF CycleType
  <2>4. cycle'[c] = j /\ pc'[c] = "fetch" /\ wallets' = wallets
    BY <1>1, <1>7, <2>1, <2>2 DEF NextWallet, SetCycle, Goto
  <2>5. \A v \in j.todo \union j.wallet : UpToDate(v)'
    BY <1>1, <2>3, <2>4 DEF UpToDate, CopiesSound
  <2>6. \A v \in j.wallet, u \in j.todo : v.address # u.address
    BY <1>1, <2>3 DEF CopiesSound, Distinct
  <2>7. QED
    BY <1>1, <2>3, <2>4, <2>5, <2>6 DEF CopiesSound, Distinct
<1>8. CASE SkipWallet(c) \/ FetchFails(c) \/ SaveFails(c) \/ SaveLastSeen(c)
  BY <1>5, <1>8 DEF SkipWallet, FetchFails, SaveFails, SaveLastSeen
<1>9. ASSUME NEW label \in {"deliver", "seen", "save"}, Goto(c, label), ~SaveLastSeen(c),
             /\ cycle'[c] \in CycleType /\ cycle' = [cycle EXCEPT ![c] = cycle'[c]]
             /\ cycle'[c].todo = cycle[c].todo /\ cycle'[c].wallet = cycle[c].wallet,
             pc[c] \notin {"idle", "load", "next"}
      PROVE  CopiesSound(pc[c], cycle[c])'
  <2>1. PICK k, j : k = cycle[c] /\ j = cycle'[c]
    OBVIOUS
  <2>2. SetCycle(c, j)
    BY <1>9, <2>1 DEF SetCycle
  <2>3. k.wallet # {} /\ label # "next"
    BY <1>1, <1>9, <2>1 DEF CopiesSound
  <2>4. QED
    BY <1>4, <1>9, <2>1, <2>2, <2>3
<1>10. cycle' \in [Cycles -> CycleType]
  BY <1>1, MonitorStep DEF MonitorInv, CyclesTyped
<1>11. CASE FetchTrades(c)
  <2>1. PICK w \in cycle[c].wallet : \E rows \in UserTrades(w.address) :
          cycle' = [cycle EXCEPT ![c] =
            [cycle[c] EXCEPT !.batch = NewRows(rows, CursorOf(w)),
                             !.cursorMs = CursorOf(w), !.maxSeen = CursorOf(w)]]
    BY <1>11 DEF FetchTrades, SetCycle
  <2>2. PICK rows \in UserTrades(w.address) :
          cycle' = [cycle EXCEPT ![c] =
            [cycle[c] EXCEPT !.batch = NewRows(rows, CursorOf(w)),
                             !.cursorMs = CursorOf(w), !.maxSeen = CursorOf(w)]]
    BY <2>1
  <2>3. /\ cycle'[c].todo = cycle[c].todo /\ cycle'[c].wallet = cycle[c].wallet
        /\ cycle' = [cycle EXCEPT ![c] = cycle'[c]]
    BY <1>1, <2>2 DEF CycleType
  <2>4. Goto(c, "deliver") /\ ~SaveLastSeen(c) /\ pc[c] = "fetch"
    BY <1>11 DEF FetchTrades, SaveLastSeen, At
  <2>5. QED
    BY <1>9, <1>10, <2>3, <2>4
<1>12. CASE DeliverTrade(c)
  <2>1. PICK i \in cycle[c].batch :
          cycle' = [cycle EXCEPT ![c] = [cycle[c] EXCEPT !.batch = @ \ {i},
                                           !.maxSeen = Larger(@, fills[i].time)]]
    BY <1>12 DEF DeliverTrade, SetCycle
  <2>2. /\ cycle'[c].todo = cycle[c].todo /\ cycle'[c].wallet = cycle[c].wallet
        /\ cycle' = [cycle EXCEPT ![c] = cycle'[c]]
    BY <1>1, <2>1 DEF CycleType
  <2>3. Goto(c, "deliver") /\ ~SaveLastSeen(c) /\ pc[c] = "deliver"
    BY <1>1, <1>12 DEF DeliverTrade, SaveLastSeen, At, Goto
  <2>4. QED
    BY <1>9, <1>10, <2>2, <2>3
<1>13. CASE FinishBatch(c)
  <2>1. CASE Goto(c, "seen") /\ UNCHANGED cycle
    BY <1>1, <1>9, <1>13, <2>1 DEF FinishBatch, SaveLastSeen, At
  <2>2. QED
    BY <1>5, <1>13, <2>1 DEF FinishBatch
<1>14. CASE LoadForLastSeen(c)
  <2>1. CASE Goto(c, "save") /\ SetCycle(c, [cycle[c] EXCEPT !.snap = wallets])
    <3>1. /\ cycle'[c].todo = cycle[c].todo /\ cycle'[c].wallet = cycle[c].wallet
          /\ cycle' = [cycle EXCEPT ![c] = cycle'[c]]
      BY <1>1, <2>1 DEF CycleType, SetCycle
    <3>2. ~SaveLastSeen(c) /\ pc[c] = "seen"
      BY <1>14 DEF LoadForLastSeen, SaveLastSeen, At
    <3>3. QED
      BY <1>9, <1>10, <2>1, <3>1, <3>2
  <2>2. QED
    BY <1>5, <1>14, <2>1 DEF LoadForLastSeen
<1>15. CASE EndCycle(c) \/ LoadFails(c)
  <2>1. cycle'[c] = NoCycle /\ pc'[c] = "idle"
    BY <1>1, <1>15 DEF EndCycle, LoadFails, FinishCycle, SetCycle, Goto
  <2>2. QED
    BY <2>1 DEF CopiesSound, NoCycle, Distinct
<1>16. QED
  BY <1>6, <1>7, <1>8, <1>11, <1>12, <1>13, <1>14, <1>15 DEF CycleStep

\* SerialInv is inductive.
LEMMA SerialStep ==
  ASSUME OneMonitor, FreshStore, SerialInv, [Next]_vars
  PROVE  SerialInv'
<1>1. MonitorInv
  BY DEF SerialInv, SoundInv
<1>2. SoundInv' /\ OneCycle' /\ SnapsCurrent' /\ Distinct(wallets)'
  BY <1>1, SoundStep, OneCycleStep, SnapsStep, DistinctStep DEF SerialInv
<1>3. ASSUME NEW d \in Cycles, pc'[d] = pc[d], cycle'[d] = cycle[d],
             \A c \in Cycles : ~SaveLastSeen(c)
      PROVE  CopiesSound(pc[d], cycle[d])'
  <2>1. CopiesSound(pc[d], cycle[d])
    BY DEF SerialInv
  <2>2. \A v \in cycle[d].todo \union cycle[d].wallet : UpToDate(v)'
    BY <1>3, <2>1, UpToDateStays DEF CopiesSound
  <2>3. QED
    BY <1>3, <2>1, <2>2 DEF CopiesSound, Distinct
<1>4. ASSUME NEW c \in Cycles, NEW first \in BOOLEAN, RunPollingCycle(c, first), UNCHANGED wallets
      PROVE  \A d \in Cycles : CopiesSound(pc[d], cycle[d])'
  <2>1. \A d \in Cycles : pc[d] = "idle" /\ cycle[d] = NoCycle
    BY <1>4 DEF SerialInv, OneCycle, RunPollingCycle
  <2>2. ASSUME NEW d \in Cycles
        PROVE  pc'[d] \in {"idle", "load"} /\ cycle'[d].todo = {} /\ cycle'[d].wallet = {}
    BY <1>1, <1>4, <2>1 DEF RunPollingCycle, Goto, SetCycle, NoCycle, MonitorInv, CyclesTyped
  <2>3. QED
    BY <2>2 DEF CopiesSound, Distinct
<1>5. CASE \A c \in Cycles : ~CycleStep(c)
  <2>1. SUFFICES \A d \in Cycles : CopiesSound(pc[d], cycle[d])'
    BY <1>2 DEF SerialInv
  <2>2. CASE UNCHANGED <<pc, cycle>>
    <3>1. \A c \in Cycles : ~SaveLastSeen(c)
      BY <1>5 DEF CycleStep
    <3>2. QED
      BY <1>3, <2>2, <3>1
  <2>3. CASE \E c \in Cycles : StartMonitoring(c) \/ PollTimer(c)
    BY <1>4, <2>3 DEF StartMonitoring, PollTimer
  <2>4. CASE Restart
    BY <2>4 DEF Restart, CopiesSound, NoCycle, Distinct
  <2>5. ~ReplaceMonitor
    BY DEF ReplaceMonitor, OneMonitor
  <2>6. QED
    BY <1>5, <2>2, <2>3, <2>4, <2>5 DEF Next, Control, Environment, RouteStep, Tick, Trade,
       Publish, RouteSaves, RouteFails, RouteLoads, StartMonitoringLate, StopMonitoring,
       UpdateMonitoringInterval, vars
<1>6. CASE \E c \in Cycles : CycleStep(c)
  BY <1>2, <1>6, CopiesStep DEF SerialInv
<1>7. QED
  BY <1>5, <1>6

\* SerialInv holds at the start.
LEMMA SerialInit ==
  ASSUME Init
  PROVE  SerialInv
<1>1. \A c \in Cycles : pc[c] = "idle" /\ cycle[c] = NoCycle
  BY DEF Init
<1>2. \A r \in Requests : route[r] = {}
  BY DEF Init
<1>3. OneCycle /\ SnapsCurrent
  BY <1>1, <1>2 DEF OneCycle, SnapsCurrent
<1>4. \A c \in Cycles : CopiesSound(pc[c], cycle[c])
  BY <1>1 DEF CopiesSound, NoCycle, Distinct
<1>5. Distinct(wallets)
  <2>1. ASSUME NEW w \in wallets
        PROVE  w = [address |-> w.address, active |-> TRUE, lastSeen |-> Never]
    BY DEF Init
  <2>2. QED
    BY <2>1 DEF Distinct
<1>6. QED
  BY <1>3, <1>4, <1>5, SoundInit DEF SerialInv

\* What a save does to a record: it moves its cursor from the one that the cycle
\* fetched with to what the cycle has seen.
LEMMA SaveMoves ==
  ASSUME SerialInv, NEW c \in Cycles, SaveLastSeen(c), NEW u \in cycle[c].wallet,
         NEW v \in wallets, v.address = u.address
  PROVE  /\ cycle[c].maxSeen \in Nat /\ cycle[c].cursorMs < cycle[c].maxSeen
         /\ cycle[c].cursorMs \in Int /\ u \in Wallet /\ v \in Wallet
         /\ cycle[c].batch = {} /\ BatchSound(cycle[c], u) /\ RecordSound(u)
         /\ v.lastSeen = u.lastSeen \/ v.lastSeen = Never
<1>1. /\ pc[c] = "save" /\ MonitorInv /\ LocalsTyped(pc[c], cycle[c])
      /\ cycle[c] \in CycleType /\ wallets \subseteq Wallet
      /\ CycleSound(pc[c], cycle[c]) /\ CopiesSound(pc[c], cycle[c])
  BY DEF SaveLastSeen, At, SerialInv, SoundInv, MonitorInv, CyclesTyped, TypeOK
<1>2. /\ cycle[c].maxSeen \in Nat /\ cycle[c].cursorMs < cycle[c].maxSeen
      /\ cycle[c].batch = {} /\ cycle[c].cursorMs \in Int /\ u \in Wallet
  BY <1>1 DEF LocalsTyped, CycleType
<1>3. BatchSound(cycle[c], u) /\ RecordSound(u)
  BY <1>1 DEF CycleSound, HasBatch
<1>4. v.lastSeen = u.lastSeen \/ v.lastSeen = Never
  BY <1>1 DEF CopiesSound, UpToDate
<1>5. QED
  BY <1>1, <1>2, <1>3, <1>4

\* The step of CursorForward.
LEMMA ForwardStep ==
  ASSUME OneMonitor, FreshStore, SerialInv, [Next]_vars,
         NEW v \in wallets, NEW w \in wallets', v.address = w.address
  PROVE  v.lastSeen <= w.lastSeen
<1>1. Distinct(wallets) /\ v \in Wallet /\ v.lastSeen \in Int
  BY DEF SerialInv, SoundInv, MonitorInv, TypeOK, Wallet, Never
<1>2. CASE \E x \in wallets : x.address = w.address /\ x.lastSeen = w.lastSeen
  BY <1>1, <1>2 DEF Distinct
<1>3. ASSUME NEW c \in Cycles, SaveLastSeen(c), w.lastSeen = cycle[c].maxSeen,
             NEW u \in cycle[c].wallet, u.address = w.address
      PROVE  v.lastSeen <= w.lastSeen
  <2>1. /\ cycle[c].maxSeen \in Nat /\ cycle[c].cursorMs < cycle[c].maxSeen
        /\ cycle[c].cursorMs \in Int /\ BatchSound(cycle[c], u)
        /\ v.lastSeen = u.lastSeen \/ v.lastSeen = Never
    BY <1>3, SaveMoves
  <2>2. CASE v.lastSeen = Never
    BY <1>3, <2>1, <2>2 DEF Never
  <2>3. CASE v.lastSeen # Never
    BY <1>1, <1>3, <2>1, <2>3 DEF BatchSound
  <2>4. QED
    BY <2>2, <2>3
<1>4. QED
  BY <1>2, <1>3, CursorOrigin

\* The step of CursorSkipsNothing.
LEMMA SkipsStep ==
  ASSUME OneMonitor, FreshStore, SerialInv, [Next]_vars,
         NEW v \in wallets, NEW w \in wallets', v.address = w.address,
         v.lastSeen < w.lastSeen, NEW i \in PassedOver(v, w)
  PROVE  Covered(i)
<1>1. /\ Distinct(wallets) /\ v \in Wallet /\ v.lastSeen \in Int /\ MonitorInv
      /\ now \in Nat /\ Fallback \in Nat /\ v.address \in Addresses
  BY MonitorAssumption DEF SerialInv, SoundInv, MonitorInv, TypeOK, Wallet, Never
<1>2. /\ i \in Published(v.address) /\ fills[i].time \in Nat
      /\ CursorOf(v) < fills[i].time /\ fills[i].time <= w.lastSeen
  BY <1>1, PublishedFacts DEF PassedOver
<1>3. ~ \E x \in wallets : x.address = w.address /\ x.lastSeen = w.lastSeen
  BY <1>1 DEF Distinct
<1>4. PICK c \in Cycles :
        /\ SaveLastSeen(c) /\ w.lastSeen = cycle[c].maxSeen
        /\ \E u \in cycle[c].wallet : u.address = w.address
  BY <1>3, CursorOrigin
<1>5. PICK u \in cycle[c].wallet : u.address = w.address
  BY <1>4
<1> DEFINE j == cycle[c]
<1>6. /\ j.maxSeen \in Nat /\ j.cursorMs \in Int /\ j.batch = {}
      /\ BatchSound(j, u) /\ RecordSound(u)
      /\ v.lastSeen = u.lastSeen \/ v.lastSeen = Never
  BY <1>4, <1>5, SaveMoves
<1>7. i \in Published(u.address) /\ fills[i].time <= j.maxSeen
  BY <1>2, <1>4, <1>5
<1>8. CASE j.cursorMs < fills[i].time
  BY <1>2, <1>6, <1>7, <1>8 DEF BatchSound
<1>9. CASE ~(j.cursorMs < fills[i].time)
  <2>1. v.lastSeen = Never /\ u.lastSeen # Never
    BY <1>1, <1>2, <1>6, <1>9 DEF BatchSound, CursorOf
  <2>2. now - Fallback < fills[i].time /\ fills[i].time <= u.lastSeen
    BY <1>1, <1>2, <1>6, <1>9, <2>1 DEF BatchSound, CursorOf
  <2>3. QED
    BY <1>6, <1>7, <2>1, <2>2 DEF RecordSound
<1>10. QED
  BY <1>8, <1>9

\* With SQLite and one monitor, whatever fails, crashes or is edited, the cursor
\* of a wallet never goes back.
THEOREM MonitorForward ==
  ASSUME OneMonitor, FreshStore
  PROVE  Spec => CursorForward
<1>1. Init => SerialInv
  BY SerialInit
<1>2. SerialInv /\ [Next]_vars => SerialInv'
  BY SerialStep
<1>3. SerialInv /\ [Next]_vars =>
        [\A v \in wallets, w \in wallets' :
           v.address = w.address => v.lastSeen <= w.lastSeen]_vars
  BY ForwardStep
<1>4. QED
  BY <1>1, <1>2, <1>3, PTL DEF Spec, CursorForward

\* With SQLite and one monitor, whatever fails, crashes, is published late or
\* edited, the cursor passes over no fill that was published in time, is on a
\* page that was read, and was not handed over.
THEOREM MonitorSkipsNothing ==
  ASSUME OneMonitor, FreshStore
  PROVE  Spec => CursorSkipsNothing
<1>1. Init => SerialInv
  BY SerialInit
<1>2. SerialInv /\ [Next]_vars => SerialInv'
  BY SerialStep
<1>3. SerialInv /\ [Next]_vars =>
        [\A v \in wallets, w \in wallets' :
           v.address = w.address /\ v.lastSeen < w.lastSeen =>
             \A i \in PassedOver(v, w) :
               \/ deliveries[i] > 0
               \/ fills[i].published = "late"
               \/ OnUnreadPage(i)]_vars
  BY SkipsStep DEF Covered
<1>4. QED
  BY <1>1, <1>2, <1>3, PTL DEF Spec, CursorSkipsNothing

\* With any storage, any number of monitors and stale lists, the cursor that is
\* stored is that of a published fill, and of the last five minutes it has passed
\* over no fill that was published in time and not handed over.
THEOREM MonitorRecent == Spec => [](\A w \in wallets : RecordSound(w))
<1>1. SoundInv => \A w \in wallets : RecordSound(w)
  BY DEF SoundInv
<1>2. Init => SoundInv
  BY SoundInit
<1>3. SoundInv /\ [Next]_vars => SoundInv'
  BY SoundStep
<1>4. QED
  BY <1>1, <1>2, <1>3, PTL DEF Spec

-----------------------------------------------------------------------------
(* No fill twice.                                                          *)

\* Every save takes place, and a wallet that was removed stays so.
NothingLost == {"save", "crash"} \intersect Events = {} /\ "add" \notin Edits

\* A cycle is about to move the cursor over the fill i.
InHand(i) ==
  \E c \in Cycles : /\ pc[c] \in HasBatch
                    /\ \E v \in cycle[c].wallet : v.address = fills[i].wallet
                    /\ cycle[c].cursorMs < fills[i].time
                    /\ fills[i].time <= cycle[c].maxSeen

\* No record of the wallet of i in S will make it fetch i again.
Behind(i, S) ==
  \A w \in S : w.address = fills[i].wallet => fills[i].time <= w.lastSeen

OnceInv ==
  /\ SerialInv /\ DeliveredOnce
  /\ \A i \in FillIds \ DOMAIN fills : deliveries[i] = 0
  /\ \A c \in Cycles : \A k \in cycle[c].batch : deliveries[k] = 0
  /\ \A i \in DOMAIN fills : deliveries[i] > 0 =>
       /\ Behind(i, wallets) \/ InHand(i)
       /\ \A c \in Cycles : /\ Behind(i, cycle[c].todo)
                            /\ pc[c] = "fetch" => Behind(i, cycle[c].wallet)

\* What is delivered of a fill that exists stays behind the records of the store.
LEMMA StoreBehind ==
  ASSUME OneMonitor, FreshStore, "add" \notin Edits, SerialInv, [Next]_vars,
         NEW i \in DOMAIN fills, Behind(i, wallets)
  PROVE  \A w \in wallets' : w.address = fills[i].wallet => fills[i].time <= w.lastSeen
<1> SUFFICES ASSUME NEW w \in wallets', w.address = fills[i].wallet
             PROVE  fills[i].time <= w.lastSeen
  OBVIOUS
<1>1. PICK v \in wallets : v.address = w.address
  BY CursorOrigin
<1>2. MonitorInv /\ MonitorInv'
  BY SerialStep DEF SerialInv, SoundInv
<1>3. v.lastSeen \in Int /\ w.lastSeen \in Int /\ fills[i].time \in Nat
  BY <1>2 DEF MonitorInv, TypeOK, Wallet, Never, Fill
<1>4. fills[i].time <= v.lastSeen /\ v.lastSeen <= w.lastSeen
  BY <1>1, ForwardStep DEF Behind
<1>5. QED
  BY <1>3, <1>4

\* Fills keep their wallet and their time.
LEMMA FillsKept ==
  ASSUME MonitorInv, [Next]_vars, NEW i \in DOMAIN fills
  PROVE  i \in DOMAIN fills' /\ fills'[i].wallet = fills[i].wallet /\ fills'[i].time = fills[i].time
BY FillsGrowStep DEF FillsGrow

\* What the steps of a cycle do to its copies and to the fills in its hand.
LEMMA CycleCopies ==
  ASSUME NEW c \in Cycles, MonitorInv, CycleStep(c)
  PROVE  \/ LoadWallets(c)
         \/ /\ cycle'[c].todo \subseteq cycle[c].todo
            /\ pc'[c] = "fetch" => NextWallet(c) /\ cycle'[c].wallet \subseteq cycle[c].todo
<1>1. /\ pc \in [Cycles -> PC] /\ cycle \in [Cycles -> CycleType]
      /\ cycle[c] \in CycleType
  BY DEF MonitorInv, CyclesTyped
<1>2. CASE EndWallet(c)
  <2>1. PICK j : j = [cycle[c] EXCEPT !.wallet = {}, !.batch = {}, !.snap = {},
                                      !.cursorMs = 0, !.maxSeen = 0]
    OBVIOUS
  <2>2. j.todo = cycle[c].todo
    BY <1>1, <2>1 DEF CycleType
  <2>3. cycle'[c] = j /\ pc'[c] = "next"
    BY <1>1, <1>2, <2>1 DEF EndWallet, Goto, SetCycle
  <2>4. QED
    BY <2>2, <2>3
<1>3. CASE NextWallet(c)
  <2>1. PICK w \in cycle[c].todo :
          cycle' = [cycle EXCEPT ![c] = [cycle[c] EXCEPT !.todo = @ \ {w}, !.wallet = {w}]]
    BY <1>3 DEF NextWallet, SetCycle
  <2>2. cycle'[c].todo = cycle[c].todo \ {w} /\ cycle'[c].wallet = {w}
    BY <1>1, <2>1 DEF CycleType
  <2>3. QED
    BY <1>3, <2>2
<1>4. CASE FetchTrades(c)
  <2>1. PICK w \in cycle[c].wallet : \E rows \in UserTrades(w.address) :
          cycle' = [cycle EXCEPT ![c] =
            [cycle[c] EXCEPT !.batch = NewRows(rows, CursorOf(w)),
                             !.cursorMs = CursorOf(w), !.maxSeen = CursorOf(w)]]
    BY <1>4 DEF FetchTrades, SetCycle
  <2>2. cycle'[c].todo = cycle[c].todo
    BY <1>1, <2>1 DEF CycleType
  <2>3. QED
    BY <1>1, <1>4, <2>2 DEF FetchTrades, Goto
<1>5. CASE DeliverTrade(c)
  <2>1. PICK i \in cycle[c].batch :
          cycle' = [cycle EXCEPT ![c] = [cycle[c] EXCEPT !.batch = @ \ {i},
                                           !.maxSeen = Larger(@, fills[i].time)]]
    BY <1>5 DEF DeliverTrade, SetCycle
  <2>2. cycle'[c].todo = cycle[c].todo
    BY <1>1, <2>1 DEF CycleType
  <2>3. QED
    BY <1>5, <2>2 DEF DeliverTrade, At
<1>6. CASE Goto(c, "seen") /\ UNCHANGED cycle
  BY <1>1, <1>6 DEF Goto
<1>7. CASE SetCycle(c, [cycle[c] EXCEPT !.snap = wallets]) /\ Goto(c, "save")
  BY <1>1, <1>7 DEF Goto, SetCycle, CycleType
<1>8. CASE EndCycle(c) \/ LoadFails(c)
  BY <1>1, <1>8 DEF EndCycle, LoadFails, FinishCycle, SetCycle, Goto, NoCycle
<1>9. QED
  BY <1>2, <1>3, <1>4, <1>5, <1>6, <1>7, <1>8 DEF CycleStep, SkipWallet, FetchFails,
     FinishBatch, LoadForLastSeen, SaveLastSeen, SaveFails

\* A fill in the hand of a cycle stays there, or the cursor moves over it.
LEMMA HandMoves ==
  ASSUME OneMonitor, FreshStore, NothingLost, SerialInv, [Next]_vars,
         NEW i \in DOMAIN fills, NEW c \in Cycles, CycleStep(c), InHand(i)
  PROVE  \/ pc'[c] \in HasBatch /\ cycle'[c].wallet = cycle[c].wallet
           /\ (\E v \in cycle[c].wallet : v.address = fills[i].wallet)
           /\ cycle'[c].cursorMs < fills[i].time /\ fills[i].time <= cycle'[c].maxSeen
         \/ \A w \in wallets' : w.address = fills[i].wallet => fills[i].time <= w.lastSeen
<1>1. /\ MonitorInv /\ SnapsCurrent /\ CycleSound(pc[c], cycle[c])
      /\ LocalsTyped(pc[c], cycle[c])
      /\ pc \in [Cycles -> PC] /\ cycle \in [Cycles -> CycleType]
      /\ cycle[c] \in CycleType /\ fills[i].time \in Nat /\ wallets \subseteq Wallet
  BY DEF SerialInv, SoundInv, MonitorInv, CyclesTyped, TypeOK, Fill
<1>2. /\ pc[c] \in HasBatch
      /\ \E v \in cycle[c].wallet : v.address = fills[i].wallet
      /\ cycle[c].cursorMs < fills[i].time /\ fills[i].time <= cycle[c].maxSeen
  <2>1. PICK d \in Cycles : /\ pc[d] \in HasBatch
                            /\ \E v \in cycle[d].wallet : v.address = fills[i].wallet
                            /\ cycle[d].cursorMs < fills[i].time
                            /\ fills[i].time <= cycle[d].maxSeen
    BY DEF InHand
  <2>2. c = d
    BY <1>1, <2>1, CycleShape DEF SerialInv, OneCycle, HasBatch
  <2>3. QED
    BY <2>1, <2>2
<1>3. PICK u \in cycle[c].wallet : u.address = fills[i].wallet
  BY <1>2
<1>4. CASE DeliverTrade(c)
  <2>1. PICK k \in cycle[c].batch :
          cycle' = [cycle EXCEPT ![c] = [cycle[c] EXCEPT !.batch = @ \ {k},
                                           !.maxSeen = Larger(@, fills[k].time)]]
    BY <1>4 DEF DeliverTrade, SetCycle
  <2>2. /\ cycle'[c].wallet = cycle[c].wallet /\ cycle'[c].cursorMs = cycle[c].cursorMs
        /\ cycle'[c].maxSeen = Larger(cycle[c].maxSeen, fills[k].time)
    BY <1>1, <2>1 DEF CycleType
  <2>3. fills[k].time \in Nat /\ cycle[c].maxSeen \in Int
    BY <1>1 DEF LocalsTyped, CycleType, MonitorInv, TypeOK, Fill
  <2>4. fills[i].time <= Larger(cycle[c].maxSeen, fills[k].time)
    BY <1>1, <1>2, <2>3 DEF Larger
  <2>5. pc'[c] \in HasBatch
    BY <1>2, <1>4 DEF DeliverTrade
  <2>6. QED
    BY <1>2, <2>2, <2>4, <2>5
<1>5. CASE FinishBatch(c)
  <2>1. cycle[c].maxSeen > cycle[c].cursorMs
    BY <1>1, <1>2 DEF CycleType
  <2>2. Goto(c, "seen") /\ UNCHANGED cycle
    BY <1>5, <2>1 DEF FinishBatch
  <2>3. pc'[c] \in HasBatch
    BY <1>1, <2>2 DEF Goto, HasBatch
  <2>4. QED
    BY <1>2, <2>2, <2>3
<1>6. CASE LoadForLastSeen(c)
  <2>1. wallets' = wallets
    BY <1>6 DEF LoadForLastSeen
  <2>2. PICK w \in cycle[c].wallet :
          IF Of(wallets, w.address) = {} THEN EndWallet(c)
          ELSE SetCycle(c, [cycle[c] EXCEPT !.snap = wallets]) /\ Goto(c, "save")
    BY <1>6 DEF LoadForLastSeen
  <2>3. w = u
    BY <1>1, <1>3 DEF CycleSound
  <2>4. CASE Of(wallets, w.address) = {}
    BY <1>3, <2>1, <2>3, <2>4 DEF Of
  <2>5. CASE SetCycle(c, [cycle[c] EXCEPT !.snap = wallets]) /\ Goto(c, "save")
    <3>1. /\ cycle'[c].wallet = cycle[c].wallet /\ cycle'[c].cursorMs = cycle[c].cursorMs
          /\ cycle'[c].maxSeen = cycle[c].maxSeen /\ pc'[c] = "save"
      BY <1>1, <2>5 DEF CycleType, SetCycle, Goto
    <3>2. QED
      BY <1>2, <3>1 DEF HasBatch
  <2>6. QED
    BY <2>2, <2>4, <2>5
<1>7. CASE SaveLastSeen(c)
  <2>1. PICK w \in cycle[c].wallet :
          wallets' = {IF v.address = w.address
                        THEN [v EXCEPT !.lastSeen = cycle[c].maxSeen] ELSE v
                      : v \in cycle[c].snap}
    BY <1>7 DEF SaveLastSeen
  <2>2. w = u /\ cycle[c].snap = wallets
    BY <1>1, <1>3, <1>7 DEF CycleSound, SaveLastSeen, At, SnapsCurrent
  <2>3. ASSUME NEW x \in wallets', x.address = fills[i].wallet
        PROVE  fills[i].time <= x.lastSeen
    <3>1. PICK v \in wallets :
            x = IF v.address = w.address THEN [v EXCEPT !.lastSeen = cycle[c].maxSeen] ELSE v
      BY <2>1, <2>2
    <3>2. x.address = v.address /\ x.address = w.address
      BY <1>1, <1>3, <2>2, <2>3, <3>1 DEF Wallet
    <3>3. x.lastSeen = cycle[c].maxSeen
      BY <1>1, <3>1, <3>2 DEF Wallet
    <3>4. QED
      BY <1>2, <3>3
  <2>4. QED
    BY <2>3
<1>8. ~SaveFails(c)
  BY DEF SaveFails, NothingLost
<1>9. QED
  BY <1>2, <1>4, <1>5, <1>6, <1>7, <1>8 DEF CycleStep, LoadWallets, NextWallet, SkipWallet,
     FetchTrades, FetchFails, EndCycle, LoadFails, At, HasBatch

\* While a cycle moves every other one is idle.
LEMMA OthersIdle ==
  ASSUME SerialInv, NEW c \in Cycles, CycleStep(c), NEW d \in Cycles, d # c
  PROVE  pc[d] = "idle" /\ cycle[d] = NoCycle /\ pc'[d] = "idle" /\ cycle'[d] = NoCycle
<1>1. pc[c] # "idle"
  BY CycleShape DEF SerialInv, SoundInv
<1>2. pc[d] = "idle" /\ cycle[d] = NoCycle
  BY <1>1 DEF SerialInv, OneCycle
<1>3. QED
  BY <1>2, CycleShape DEF SerialInv, SoundInv

\* Only a fetch brings fills into the batch, and only what is newer than the cursor.
LEMMA BatchOrigin ==
  ASSUME NEW c \in Cycles, MonitorInv, CycleStep(c)
  PROVE  \/ cycle'[c].batch \subseteq cycle[c].batch
         \/ pc[c] = "fetch" /\ \E w \in cycle[c].wallet : \A k \in cycle'[c].batch :
              k \in Published(w.address) /\ fills[k].time > CursorOf(w)
<1>1. /\ pc \in [Cycles -> PC] /\ cycle \in [Cycles -> CycleType]
      /\ cycle[c] \in CycleType
  BY DEF MonitorInv, CyclesTyped
<1>2. CASE EndWallet(c)
  <2>1. PICK j : j = [cycle[c] EXCEPT !.wallet = {}, !.batch = {}, !.snap = {},
                                      !.cursorMs = 0, !.maxSeen = 0]
    OBVIOUS
  <2>2. j.batch = {}
    BY <1>1, <2>1 DEF CycleType
  <2>3. cycle'[c] = j
    BY <1>1, <1>2, <2>1 DEF EndWallet, SetCycle
  <2>4. QED
    BY <2>2, <2>3
<1>3. CASE LoadWallets(c)
  BY <1>1, <1>3 DEF LoadWallets, SetCycle, CycleType
<1>4. CASE NextWallet(c)
  <2>1. PICK w \in cycle[c].todo :
          cycle' = [cycle EXCEPT ![c] = [cycle[c] EXCEPT !.todo = @ \ {w}, !.wallet = {w}]]
    BY <1>4 DEF NextWallet, SetCycle
  <2>2. cycle'[c].batch = cycle[c].batch
    BY <1>1, <2>1 DEF CycleType
  <2>3. QED
    BY <2>2
<1>5. CASE FetchTrades(c)
  <2>1. PICK w \in cycle[c].wallet : \E rows \in UserTrades(w.address) :
          cycle' = [cycle EXCEPT ![c] =
            [cycle[c] EXCEPT !.batch = NewRows(rows, CursorOf(w)),
                             !.cursorMs = CursorOf(w), !.maxSeen = CursorOf(w)]]
    BY <1>5 DEF FetchTrades, SetCycle
  <2>2. PICK rows \in UserTrades(w.address) :
          cycle' = [cycle EXCEPT ![c] =
            [cycle[c] EXCEPT !.batch = NewRows(rows, CursorOf(w)),
                             !.cursorMs = CursorOf(w), !.maxSeen = CursorOf(w)]]
    BY <2>1
  <2>3. cycle'[c].batch = NewRows(rows, CursorOf(w))
    BY <1>1, <2>2 DEF CycleType
  <2>4. rows \subseteq Published(w.address)
    BY DEF UserTrades
  <2>5. QED
    BY <1>5, <2>3, <2>4 DEF NewRows, FetchTrades, At
<1>6. CASE DeliverTrade(c)
  <2>1. PICK i \in cycle[c].batch :
          cycle' = [cycle EXCEPT ![c] = [cycle[c] EXCEPT !.batch = @ \ {i},
                                           !.maxSeen = Larger(@, fills[i].time)]]
    BY <1>6 DEF DeliverTrade, SetCycle
  <2>2. cycle'[c].batch = cycle[c].batch \ {i}
    BY <1>1, <2>1 DEF CycleType
  <2>3. QED
    BY <2>2
<1>7. CASE UNCHANGED cycle
  BY <1>7
<1>8. CASE SetCycle(c, [cycle[c] EXCEPT !.snap = wallets])
  BY <1>1, <1>8 DEF SetCycle, CycleType
<1>9. CASE EndCycle(c) \/ LoadFails(c)
  BY <1>1, <1>9 DEF EndCycle, LoadFails, FinishCycle, SetCycle, NoCycle
<1>10. QED
  BY <1>2, <1>3, <1>4, <1>5, <1>6, <1>7, <1>8, <1>9 DEF CycleStep, SkipWallet, FetchFails,
     FinishBatch, LoadForLastSeen, SaveLastSeen, SaveFails

\* What was delivered before a step of a cycle stays behind it.
LEMMA DeliveredStays ==
  ASSUME OneMonitor, FreshStore, NothingLost, OnceInv, [Next]_vars,
         NEW c \in Cycles, CycleStep(c), NEW i \in DOMAIN fills, deliveries[i] > 0
  PROVE  /\ Behind(i, wallets)' \/ InHand(i)'
         /\ \A d \in Cycles : /\ Behind(i, cycle[d].todo)'
                              /\ pc'[d] = "fetch" => Behind(i, cycle[d].wallet)'
<1>1. /\ MonitorInv /\ SerialInv
      /\ pc \in [Cycles -> PC] /\ cycle \in [Cycles -> CycleType]
  BY DEF OnceInv, SerialInv, SoundInv, MonitorInv, CyclesTyped
<1>2. fills'[i].wallet = fills[i].wallet /\ fills'[i].time = fills[i].time
  BY <1>1, FillsKept
<1>3. ASSUME NEW S, NEW T, Behind(i, S), T \subseteq S
      PROVE  \A w \in T : w.address = fills'[i].wallet => fills'[i].time <= w.lastSeen
  BY <1>2, <1>3 DEF Behind
<1>4. \A d \in Cycles : /\ Behind(i, cycle[d].todo)
                        /\ pc[d] = "fetch" => Behind(i, cycle[d].wallet)
  BY DEF OnceInv
<1>5. Behind(i, wallets) \/ InHand(i)
  BY DEF OnceInv
<1>6. CASE Behind(i, wallets)
  <2>1. Behind(i, wallets)'
    BY <1>1, <1>2, <1>6, StoreBehind DEF Behind, NothingLost
  <2>2. QED
    <3>1. ASSUME NEW d \in Cycles
          PROVE  /\ Behind(i, cycle[d].todo)'
                 /\ pc'[d] = "fetch" => Behind(i, cycle[d].wallet)'
      <4>1. CASE d # c
        <5>1. pc'[d] = "idle" /\ cycle'[d].todo = {}
          BY <1>1, <4>1, OthersIdle DEF NoCycle
        <5>2. QED
          BY <5>1 DEF Behind
      <4>2. CASE d = c /\ LoadWallets(c)
        <5>1. cycle'[c].todo \subseteq wallets /\ pc'[c] = "next"
          BY <1>1, <4>2 DEF LoadWallets, SetCycle, Goto, CycleType
        <5>2. QED
          BY <1>3, <1>6, <4>2, <5>1 DEF Behind
      <4>3. CASE d = c /\ ~LoadWallets(c)
        <5>1. /\ cycle'[c].todo \subseteq cycle[c].todo
              /\ pc'[c] = "fetch" => cycle'[c].wallet \subseteq cycle[c].todo
          BY <1>1, <4>3, CycleCopies
        <5>2. QED
          BY <1>3, <1>4, <4>3, <5>1 DEF Behind
      <4>4. QED
        BY <4>1, <4>2, <4>3
    <3>2. QED
      BY <2>1, <3>1
<1>7. CASE InHand(i)
  <2>1. PICK h \in Cycles : pc[h] \in HasBatch
    BY <1>7 DEF InHand
  <2>2. h = c
    BY <1>1, <2>1, CycleShape DEF SerialInv, OneCycle, HasBatch
  <2>3. ~LoadWallets(c)
    BY <2>1, <2>2 DEF LoadWallets, At, HasBatch
  <2>4. Behind(i, wallets)' \/ InHand(i)'
    <3>1. CASE \A w \in wallets' : w.address = fills[i].wallet => fills[i].time <= w.lastSeen
      BY <1>2, <3>1 DEF Behind
    <3>2. CASE /\ pc'[c] \in HasBatch /\ cycle'[c].wallet = cycle[c].wallet
               /\ \E v \in cycle[c].wallet : v.address = fills[i].wallet
               /\ cycle'[c].cursorMs < fills[i].time /\ fills[i].time <= cycle'[c].maxSeen
      BY <1>2, <3>2 DEF InHand
    <3>3. QED
      BY <1>1, <1>7, <3>1, <3>2, HandMoves
  <2>5. ASSUME NEW d \in Cycles
        PROVE  /\ Behind(i, cycle[d].todo)'
               /\ pc'[d] = "fetch" => Behind(i, cycle[d].wallet)'
    <3>1. CASE d # c
      <4>1. pc'[d] = "idle" /\ cycle'[d].todo = {}
        BY <1>1, <3>1, OthersIdle DEF NoCycle
      <4>2. QED
        BY <4>1 DEF Behind
    <3>2. CASE d = c
      <4>1. /\ cycle'[c].todo \subseteq cycle[c].todo
            /\ pc'[c] = "fetch" => cycle'[c].wallet \subseteq cycle[c].todo
        BY <1>1, <2>3, CycleCopies
      <4>2. QED
        BY <1>3, <1>4, <3>2, <4>1 DEF Behind
    <3>3. QED
      BY <3>1, <3>2
  <2>6. QED
    BY <2>4, <2>5
<1>8. QED
  BY <1>5, <1>6, <1>7

\* The fill that a cycle hands over is in its hand, and is delivered once.
LEMMA HandedOver ==
  ASSUME OneMonitor, FreshStore, OnceInv, [Next]_vars,
         NEW c \in Cycles, DeliverTrade(c)
  PROVE  \E k \in cycle[c].batch :
           /\ k \in DOMAIN fills /\ k \in FillIds /\ cycle'[c].batch = cycle[c].batch \ {k}
           /\ deliveries' = [deliveries EXCEPT ![k] = 1]
           /\ InHand(k)'
           /\ \A d \in Cycles : Behind(k, cycle[d].todo)' /\ pc'[d] # "fetch"
<1>1. /\ MonitorInv /\ SerialInv /\ pc[c] = "deliver" /\ pc' = pc /\ fills' = fills
      /\ pc \in [Cycles -> PC] /\ cycle \in [Cycles -> CycleType]
      /\ cycle[c] \in CycleType /\ deliveries \in [FillIds -> 0 .. 2]
  BY DEF OnceInv, SerialInv, SoundInv, MonitorInv, CyclesTyped, DeliverTrade, At, TypeOK
<1>2. PICK k \in cycle[c].batch :
        /\ cycle' = [cycle EXCEPT ![c] = [cycle[c] EXCEPT !.batch = @ \ {k},
                                           !.maxSeen = Larger(@, fills[k].time)]]
        /\ deliveries' = [deliveries EXCEPT ![k] = Smaller(2, @ + 1)]
  BY DEF DeliverTrade, SetCycle
<1>3. /\ cycle'[c].wallet = cycle[c].wallet /\ cycle'[c].cursorMs = cycle[c].cursorMs
      /\ cycle'[c].maxSeen = Larger(cycle[c].maxSeen, fills[k].time)
      /\ cycle'[c].batch = cycle[c].batch \ {k} /\ cycle'[c].todo = cycle[c].todo
  BY <1>1, <1>2 DEF CycleType
<1>4. CycleSound(pc[c], cycle[c]) /\ CopiesSound(pc[c], cycle[c])
  BY <1>1 DEF SerialInv, SoundInv
<1>5. PICK v \in cycle[c].wallet : BatchSound(cycle[c], v)
  BY <1>1, <1>4 DEF CopiesSound, CycleSound, HasBatch
<1>6. v.address \in Addresses
  BY <1>1 DEF CycleType, Wallet
<1>7. /\ k \in DOMAIN fills /\ k \in FillIds /\ fills[k].wallet = v.address
      /\ cycle[c].cursorMs < fills[k].time /\ fills[k].time \in Nat
  BY <1>1, <1>5, <1>6, PublishedFacts DEF BatchSound
<1>8. deliveries' = [deliveries EXCEPT ![k] = 1]
  <2>1. deliveries[k] = 0
    BY DEF OnceInv
  <2>2. QED
    BY <1>1, <1>2, <1>7, <2>1 DEF Smaller
<1>9. InHand(k)'
  <2>1. cycle'[c].maxSeen >= fills[k].time
    BY <1>1, <1>3, <1>7 DEF Larger, CycleType
  <2>2. QED
    BY <1>1, <1>3, <1>7, <2>1 DEF InHand, HasBatch
<1>10. ASSUME NEW d \in Cycles
       PROVE  Behind(k, cycle[d].todo)' /\ pc'[d] # "fetch"
  <2>1. CASE d # c
    <3>1. CycleStep(c)
      BY DEF CycleStep
    <3>2. pc'[d] = "idle" /\ cycle'[d].todo = {}
      BY <1>1, <2>1, <3>1, OthersIdle DEF NoCycle
    <3>3. QED
      BY <3>2 DEF Behind
  <2>2. CASE d = c
    <3>1. \A w \in cycle'[c].todo : w.address # fills'[k].wallet
      BY <1>1, <1>3, <1>4, <1>7 DEF CopiesSound
    <3>2. QED
      BY <1>1, <2>2, <3>1 DEF Behind
  <2>3. QED
    BY <2>1, <2>2
<1>11. QED
  BY <1>3, <1>7, <1>8, <1>9, <1>10

\* The steps of a cycle preserve OnceInv.
LEMMA OnceCycle ==
  ASSUME OneMonitor, FreshStore, NothingLost, OnceInv, [Next]_vars,
         NEW c \in Cycles, CycleStep(c)
  PROVE  OnceInv'
<1>1. /\ MonitorInv /\ SerialInv /\ SerialInv' /\ fills' = fills
      /\ deliveries \in [FillIds -> 0 .. 2] /\ deliveries' \in [FillIds -> 0 .. 2]
      /\ DOMAIN fills \subseteq FillIds
  <2>1. MonitorInv /\ SerialInv /\ SerialInv'
    BY SerialStep DEF OnceInv, SerialInv, SoundInv
  <2>2. fills' = fills
    BY DEF CycleStep, LoadWallets, NextWallet, SkipWallet, FetchTrades, FetchFails,
       DeliverTrade, FinishBatch, LoadForLastSeen, SaveLastSeen, SaveFails, EndCycle, LoadFails
  <2>3. QED
    BY <2>1, <2>2 DEF SerialInv, SoundInv, MonitorInv, TypeOK
<1>2. \A d \in Cycles : d # c => cycle'[d].batch = {}
  BY <1>1, OthersIdle DEF NoCycle
<1>3. \A k \in cycle[c].batch : deliveries[k] = 0
  BY DEF OnceInv
<1>4. CASE DeliverTrade(c)
  <2>1. PICK k \in cycle[c].batch :
          /\ k \in DOMAIN fills /\ k \in FillIds /\ cycle'[c].batch = cycle[c].batch \ {k}
          /\ deliveries' = [deliveries EXCEPT ![k] = 1]
          /\ InHand(k)'
          /\ \A d \in Cycles : Behind(k, cycle[d].todo)' /\ pc'[d] # "fetch"
    BY <1>4, HandedOver
  <2>2. deliveries'[k] = 1 /\ \A i \in FillIds \ {k} : deliveries'[i] = deliveries[i]
    BY <1>1, <2>1
  <2>3. DeliveredOnce'
    BY <2>1, <2>2 DEF DeliveredOnce, OnceInv
  <2>4. \A i \in FillIds \ DOMAIN fills : deliveries'[i] = 0
    BY <2>1, <2>2 DEF OnceInv
  <2>5. ASSUME NEW d \in Cycles, NEW i \in cycle'[d].batch PROVE deliveries'[i] = 0
    <3>1. d = c /\ i \in cycle[c].batch \ {k}
      BY <1>2, <2>1, <2>5
    <3>2. deliveries[i] = 0
      BY <1>3, <3>1
    <3>3. QED
      BY <1>1, <2>1, <3>1, <3>2
  <2>6. ASSUME NEW i \in DOMAIN fills, deliveries'[i] > 0
        PROVE  /\ Behind(i, wallets)' \/ InHand(i)'
               /\ \A d \in Cycles : /\ Behind(i, cycle[d].todo)'
                                    /\ pc'[d] = "fetch" => Behind(i, cycle[d].wallet)'
    <3>1. CASE i = k
      BY <2>1, <3>1
    <3>2. CASE i # k
      <4>1. deliveries[i] > 0
        BY <1>1, <2>2, <2>6, <3>2
      <4>2. QED
        BY <4>1, DeliveredStays
    <3>3. QED
      BY <3>1, <3>2
  <2>7. QED
    BY <1>1, <2>3, <2>4, <2>5, <2>6 DEF OnceInv
<1>5. CASE ~DeliverTrade(c)
  <2>1. deliveries' = deliveries
    BY <1>5 DEF CycleStep, LoadWallets, NextWallet, SkipWallet, FetchTrades, FetchFails,
       FinishBatch, LoadForLastSeen, SaveLastSeen, SaveFails, EndCycle, LoadFails
  <2>2. DeliveredOnce' /\ \A i \in FillIds \ DOMAIN fills : deliveries'[i] = 0
    BY <2>1 DEF DeliveredOnce, OnceInv
  <2>3. ASSUME NEW d \in Cycles, NEW k \in cycle'[d].batch PROVE deliveries'[k] = 0
    <3>1. d = c
      BY <1>2, <2>3
    <3>2. CASE k \in cycle[c].batch
      BY <1>3, <2>1, <3>2
    <3>3. CASE k \notin cycle[c].batch
      <4>1. PICK w \in cycle[c].wallet :
              k \in Published(w.address) /\ fills[k].time > CursorOf(w)
        BY <1>1, <2>3, <3>1, <3>3, BatchOrigin
      <4>2. pc[c] = "fetch"
        BY <1>1, <2>3, <3>1, <3>3, BatchOrigin
      <4>3. w \in Wallet
        BY <1>1 DEF SerialInv, SoundInv, MonitorInv, CyclesTyped, CycleType
      <4>4. /\ k \in DOMAIN fills /\ k \in FillIds /\ fills[k].wallet = w.address
            /\ fills[k].time \in Nat
        BY <1>1, <4>1, <4>3, PublishedFacts DEF Wallet
      <4>5. ~(deliveries[k] > 0)
        <5>1. SUFFICES ASSUME deliveries[k] > 0 PROVE FALSE
          OBVIOUS
        <5>2. fills[k].time <= w.lastSeen
          BY <4>2, <4>4, <5>1 DEF OnceInv, Behind
        <5>3. QED
          BY <4>1, <4>3, <4>4, <5>2 DEF Wallet, CursorOf, Never
      <4>6. QED
        BY <1>1, <2>1, <4>4, <4>5
    <3>4. QED
      BY <3>2, <3>3
  <2>4. ASSUME NEW i \in DOMAIN fills, deliveries'[i] > 0
        PROVE  /\ Behind(i, wallets)' \/ InHand(i)'
               /\ \A d \in Cycles : /\ Behind(i, cycle[d].todo)'
                                    /\ pc'[d] = "fetch" => Behind(i, cycle[d].wallet)'
    BY <2>1, <2>4, DeliveredStays
  <2>5. QED
    BY <1>1, <2>2, <2>3, <2>4 DEF OnceInv
<1>6. QED
  BY <1>4, <1>5

\* What happens between the steps of the cycles leaves what was delivered behind.
LEMMA BetweenCycles ==
  ASSUME OneMonitor, FreshStore, NothingLost, OnceInv, [Next]_vars,
         \A c \in Cycles : ~CycleStep(c)
  PROVE  /\ deliveries' = deliveries
         /\ \/ UNCHANGED <<pc, cycle>>
            \/ \A d \in Cycles : /\ pc[d] = "idle" /\ pc'[d] # "fetch"
                                 /\ cycle'[d].batch = {} /\ cycle'[d].todo = {}
<1>1. MonitorInv /\ OneCycle
  BY DEF OnceInv, SerialInv, SoundInv
<1>2. ASSUME NEW c \in Cycles, NEW first \in BOOLEAN, RunPollingCycle(c, first), NEW d \in Cycles
      PROVE  /\ pc[d] = "idle" /\ pc'[d] # "fetch"
             /\ cycle'[d].batch = {} /\ cycle'[d].todo = {}
  <2>1. pc[d] = "idle" /\ cycle[d] = NoCycle
    BY <1>1, <1>2 DEF OneCycle, RunPollingCycle
  <2>2. QED
    BY <1>1, <1>2, <2>1 DEF RunPollingCycle, Goto, SetCycle, NoCycle, MonitorInv, CyclesTyped
<1>3. CASE \E c \in Cycles : StartMonitoring(c) \/ PollTimer(c)
  BY <1>2, <1>3 DEF StartMonitoring, PollTimer
<1>4. ~Restart /\ ~ReplaceMonitor
  BY DEF Restart, ReplaceMonitor, NothingLost, OneMonitor
<1>5. QED
  BY <1>3, <1>4 DEF Next, Control, Environment, RouteStep, Tick, Trade, Publish,
     RouteSaves, RouteFails, RouteLoads, StartMonitoringLate, StopMonitoring,
     UpdateMonitoringInterval, vars

\* OnceInv is inductive.
LEMMA OnceStep ==
  ASSUME OneMonitor, FreshStore, NothingLost, OnceInv, [Next]_vars
  PROVE  OnceInv'
<1>1. SUFFICES ASSUME \A c \in Cycles : ~CycleStep(c) PROVE OnceInv'
  BY OnceCycle
<1>2. MonitorInv /\ SerialInv /\ SerialInv' /\ deliveries' = deliveries
  BY <1>1, SerialStep, BetweenCycles DEF OnceInv, SerialInv, SoundInv
<1>3. DOMAIN fills \subseteq FillIds /\ DOMAIN fills \subseteq DOMAIN fills'
  BY <1>2, FillsKept DEF MonitorInv, TypeOK
<1>4. DeliveredOnce' /\ \A i \in FillIds \ DOMAIN fills' : deliveries'[i] = 0
  BY <1>2, <1>3 DEF OnceInv, DeliveredOnce
<1>5. \A d \in Cycles : \A k \in cycle'[d].batch : deliveries'[k] = 0
  BY <1>1, <1>2, BetweenCycles DEF OnceInv
<1>6. ASSUME NEW i \in DOMAIN fills', deliveries'[i] > 0
      PROVE  /\ Behind(i, wallets)' \/ InHand(i)'
             /\ \A d \in Cycles : /\ Behind(i, cycle[d].todo)'
                                  /\ pc'[d] = "fetch" => Behind(i, cycle[d].wallet)'
  <2>1. i \in DOMAIN fills
    <3>1. DOMAIN fills' \subseteq FillIds
      BY <1>2 DEF SerialInv, SoundInv, MonitorInv, TypeOK
    <3>2. QED
      BY <1>2, <1>6, <3>1 DEF OnceInv
  <2>2. fills'[i].wallet = fills[i].wallet /\ fills'[i].time = fills[i].time
    BY <1>2, <2>1, FillsKept
  <2>3. /\ Behind(i, wallets) \/ InHand(i)
        /\ \A d \in Cycles : /\ Behind(i, cycle[d].todo)
                             /\ pc[d] = "fetch" => Behind(i, cycle[d].wallet)
    BY <1>2, <1>6, <2>1 DEF OnceInv
  <2>4. Behind(i, wallets) => Behind(i, wallets)'
    BY <1>2, <2>1, <2>2, StoreBehind DEF Behind, NothingLost
  <2>5. CASE UNCHANGED <<pc, cycle>>
    <3>1. InHand(i) => InHand(i)'
      BY <2>2, <2>5 DEF InHand
    <3>2. ASSUME NEW d \in Cycles
          PROVE  /\ Behind(i, cycle[d].todo)'
                 /\ pc'[d] = "fetch" => Behind(i, cycle[d].wallet)'
      BY <2>2, <2>3, <2>5 DEF Behind
    <3>3. QED
      BY <2>3, <2>4, <3>1, <3>2
  <2>6. CASE \A d \in Cycles : pc[d] = "idle" /\ pc'[d] # "fetch" /\ cycle'[d].todo = {}
    <3>1. ~InHand(i)
      BY <2>6 DEF InHand, HasBatch
    <3>2. \A d \in Cycles : Behind(i, cycle[d].todo)'
      BY <2>6 DEF Behind
    <3>3. QED
      BY <2>3, <2>4, <2>6, <3>1, <3>2
  <2>7. QED
    BY <1>1, <2>5, <2>6, BetweenCycles
<1>7. QED
  BY <1>2, <1>4, <1>5, <1>6 DEF OnceInv

\* With SQLite, one monitor, saves that take place and no wallet added again, no
\* fill is ever handed to CopyTrader twice, however cycles, stops, starts,
\* failed reads, late publications and edits interleave.
THEOREM MonitorOnce ==
  ASSUME OneMonitor, FreshStore, NothingLost
  PROVE  Spec => []DeliveredOnce
<1>1. Init => OnceInv
  <2>1. SUFFICES ASSUME Init PROVE OnceInv
    OBVIOUS
  <2>2. SerialInv
    BY <2>1, SerialInit
  <2>3. /\ \A i \in FillIds : deliveries[i] = 0
        /\ DOMAIN fills = {} /\ \A c \in Cycles : cycle[c].batch = {}
    BY <2>1 DEF Init, NoCycle
  <2>4. QED
    BY <2>2, <2>3 DEF OnceInv, DeliveredOnce
<1>2. OnceInv /\ [Next]_vars => OnceInv'
  BY OnceStep
<1>3. OnceInv => DeliveredOnce
  BY DEF OnceInv
<1>4. QED
  BY <1>1, <1>2, <1>3, PTL DEF Spec

=============================================================================
