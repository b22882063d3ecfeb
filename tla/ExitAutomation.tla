--------------------------- MODULE ExitAutomation ---------------------------
(***************************************************************************)
(* priceMonitor.ts, ladderExitManager.ts, smartStopLoss.ts and the trigger *)
(* handlers of api/routes.ts: ticks that fetch prices and check the ladder *)
(* and stop-loss rules, handlers that sell and then mark a step, routes    *)
(* that change the rules, and the saves that follow every change.          *)
(*                                                                         *)
(* A step is what the code does between two awaits.  What an await without *)
(* I/O leaves for later runs before anything that waits for I/O (Turn);    *)
(* several such pieces run in any order, of which the build takes one.     *)
(* Both managers hold the rules of one tenant at a time: `sync' names it.  *)
(***************************************************************************)
EXTENDS Integers, FiniteSets, FiniteSetsExt, SequencesExt, Bags

CONSTANTS
  Tenants,
  Hosted,         \* TRUE: hosted multi-tenant mode, which implies SQLite
  AtomicStorage,  \* SQLite backend: no I/O between load and save
  Tokens, Prices,
  Ladders, Stops, \* identifiers of rules
  TokenOf,        \* the token of a rule
  Plan,           \* the steps of a ladder: a sequence of [trigger, percent]
  Shares,         \* of a rule, in hundredths of a share
  Entry,          \* the entry price of a stop-loss order
  InitialStop,    \* its hard floor
  Trail,          \* its trailing distance, in percent
  LockThreshold,  \* profit lock: the rise above the entry that locks
  Earlier,        \* the sets of rules that may exist when the process starts
  Ticks,          \* ticks that may be under way
  Events,         \* the optional events that may occur: a subset of EventKind
  MaxBusy,        \* bound: no tick starts while more handlers and saves are on
  MaxRestarts, MaxEdits   \* bounds: restarts, requests that change the rules

\* fetch: a price cannot be read; lost: the exchange sold, the answer is lost;
\* save: a save throws; other: another setting of bot_config is saved.
EventKind == {"fetch", "trade", "lost", "save", "other", "crash", "monitor"}

Nobody == "nobody"    \* tenantSync is null

ASSUME ExitAssumption ==
  /\ Nobody \notin Tenants
  /\ Hosted \in BOOLEAN /\ AtomicStorage \in BOOLEAN
  /\ Hosted => AtomicStorage
  /\ Prices \subseteq Nat /\ IsFiniteSet(Tenants)
  /\ Earlier \subseteq SUBSET (Ladders \union Stops)
  /\ \A C \in Earlier : IsFiniteSet(C)
  /\ Events \subseteq EventKind
  /\ MaxBusy \in Nat /\ MaxRestarts \in Nat /\ MaxEdits \in Nat

ASSUME RuleAssumption ==
  /\ Ladders \intersect Stops = {}
  /\ TokenOf \in [Ladders \union Stops -> Tokens]
  /\ Shares \in [Ladders \union Stops -> Nat]
  /\ Plan \in [Ladders -> Seq([trigger : Nat, percent : Nat])]
  /\ Entry \in [Stops -> Nat] /\ InitialStop \in [Stops -> Nat]
  /\ Trail \in [Stops -> Nat] /\ LockThreshold \in [Stops -> Nat]

VARIABLES
  price,      \* the market
  lm,         \* LadderExitManager: rules, live mode, tenantSync
  sm,         \* SmartStopLossManager: rules, tenantSync
  disk,       \* bot_config of each tenant: what was saved of the managers, if
              \* anything
  saves,      \* a bag of the saves under way
  running, enabled,   \* PriceMonitor.isRunning and its config.enabled
  boot,       \* the automatic start of the monitor is pending
  tick,       \* each tick: see Idle
  begun,      \* trigger handlers that are to sync first
  handlers,   \* a bag of the trigger handlers that await executeTrade
  sold,       \* history: what was sold for each rule ever created, up to Shares
  fired,      \* history: how often each order triggered since the last start
  raised,     \* history: the highest stop price it has had since then
  restarts, edits

managers == <<lm, sm>>
sales    == <<begun, handlers>>
store    == <<disk, saves>>
monitor  == <<running, enabled, boot>>
history  == <<sold, fired, raised>>
bounds   == <<restarts, edits>>
vars == <<price, managers, store, monitor, tick, sales, history, bounds>>

Step(l) == DOMAIN Plan[l]
Ladder  == [done : SUBSET Nat, remaining : Nat, active : BOOLEAN]
Order   == [stop : Nat, high : Nat, locked : BOOLEAN, active : BOOLEAN]

\* The rules of a manager: a function from some of the identifiers in I to T.
IsBook(b, I, T) == DOMAIN b \subseteq I /\ b \in [DOMAIN b -> T]
NoRules == [i \in {} |-> 0]

\* Function f with value y at x.
Put(f, x, y) == [z \in DOMAIN f \union {x} |-> IF z = x THEN y ELSE f[z]]

\* A trigger and the handler it is given to; step 0: a stop-loss order.
Handler == [tenant : Tenants, rule : Ladders \union Stops, step : Nat,
            shares : Nat]

\* A tick.  todo: tenants whose rules are still to be checked, in the order of
\* the query; left: tokens whose price is still to be fetched; prices: of the
\* tokens that had one.
Idle == [phase |-> "idle", todo |-> <<>>, left |-> {}, prices |-> NoRules]

\* A tick that has its last price checks all rules in the same turn.
MidTurn == \E i \in Ticks : tick[i].phase \in {"sync", "check"}

\* Something is left to do that waits for no I/O.  A save in SQLite is.
Turn == MidTurn \/ begun # {} \/ (AtomicStorage /\ saves # EmptyBag)

\* The managers before init.
Unloaded(t) == [book |-> NoRules, live |-> FALSE, sync |-> t]
NoStops(t)  == [book |-> NoRules, sync |-> t]

\* loadState replaces what bot_config has, and keeps the rest.
LoadLadders(t, m) ==
  LET saved == disk[t].ladders IN
  [book |-> IF saved = {} THEN m.book ELSE (CHOOSE s \in saved : TRUE).book,
   live |-> IF saved = {} THEN m.live ELSE (CHOOSE s \in saved : TRUE).live,
   sync |-> t]

LoadStops(t, m) ==
  LET saved == disk[t].stops IN
  [book |-> IF saved = {} THEN m.book ELSE (CHOOSE s \in saved : TRUE).book,
   sync |-> t]

NewLadder(l) == [done |-> {}, remaining |-> Shares[l], active |-> TRUE]
NewOrder(s)  == [stop |-> InitialStop[s], high |-> Entry[s], locked |-> FALSE,
                 active |-> TRUE]

\* What a tenant has saved of its ladders L and its orders S.
SavedRules(L, S, live) ==
  [ladders |-> IF L = {} /\ ~live THEN {}
               ELSE {[book |-> [l \in L |-> NewLadder(l)], live |-> live]},
   stops   |-> IF S = {} THEN {} ELSE {[book |-> [s \in S |-> NewOrder(s)]]}]

\* A process that starts, on rules that were created before: owner tells by
\* whom.  init loads the rules, unless hosted.
Init ==
  /\ price \in [Tokens -> Prices]
  /\ \E C \in Earlier, live \in [Tenants -> BOOLEAN] :
       \E owner \in [C -> Tenants] :
         /\ disk = [t \in Tenants |->
                      SavedRules({l \in C \intersect Ladders : owner[l] = t},
                                 {s \in C \intersect Stops : owner[s] = t},
                                 live[t])]
         /\ sold = [r \in C |-> 0]
  /\ IF Hosted
     THEN lm = Unloaded(Nobody) /\ sm = NoStops(Nobody)
     ELSE \E t \in Tenants : /\ lm = LoadLadders(t, Unloaded(t))
                             /\ sm = LoadStops(t, NoStops(t))
  /\ saves = EmptyBag
  /\ running = FALSE /\ enabled = FALSE /\ boot = TRUE
  /\ tick = [i \in Ticks |-> Idle]
  /\ begun = {} /\ handlers = EmptyBag
  /\ fired = [s \in Stops |-> 0] /\ raised = [s \in Stops |-> 0]
  /\ restarts = 0 /\ edits = 0

-----------------------------------------------------------------------------
(* Storage: load when the tenant changes, save after every change.         *)

\* syncFromCurrentTenant of the two managers.
SyncLadders(t, m) == IF m.sync = t THEN m ELSE LoadLadders(t, m)
SyncStops(t, m)   == IF m.sync = t THEN m ELSE LoadStops(t, m)

\* bot_config c with the keys of a manager replaced.
WithLadders(c, m) ==
  [c EXCEPT !.ladders = {[book |-> m.book, live |-> m.live]}]
WithStops(c, m)   == [c EXCEPT !.stops = {[book |-> m.book]}]

IsLadders(m) ==
  /\ IsBook(m.book, Ladders, Ladder) /\ m.live \in BOOLEAN
  /\ \A l \in DOMAIN m.book : /\ m.book[l].done \subseteq Step(l)
                              /\ m.book[l].remaining <= Shares[l]
IsStops(m) == IsBook(m.book, Stops, Order)

IsConfig(c) == /\ \A m \in c.ladders : IsLadders(m)
               /\ \A m \in c.stops : IsStops(m)

SaveKind == {"ladders", "stops", "other"}

\* A save under way; config: empty until it has loaded bot_config.
SaveJob(j) == /\ j.tenant \in Tenants /\ j.kind \in SaveKind
              /\ Cardinality(j.config) <= 1 /\ \A c \in j.config : IsConfig(c)

Save(t, k) == [tenant |-> t, kind |-> k, config |-> {}]

\* A save may take its next step.
Goes(j) == BagIn(j, saves) /\ (AtomicStorage \/ ~Turn)

\* saveState has read bot_config.
SaveLoads(j) ==
  /\ Goes(j) /\ j.config = {}
  /\ saves' = saves (-) SetToBag({j})
                    (+) SetToBag({[j EXCEPT !.config = {disk[j.tenant]}]})
  /\ UNCHANGED <<price, managers, disk, monitor, tick, sales, history, bounds>>

\* saveState writes: what it read, with the manager's present rules, whoever
\* they are of by now; the manager takes them for the tenant's.  A save of
\* another setting writes what it read.
SaveWrites(j) ==
  /\ Goes(j) /\ j.config # {}
  /\ saves' = saves (-) SetToBag({j})
  /\ \E c \in j.config :
       disk' = [disk EXCEPT ![j.tenant] =
                  CASE j.kind = "ladders" -> WithLadders(c, lm)
                    [] j.kind = "stops"   -> WithStops(c, sm)
                    [] OTHER              -> c]
  /\ lm' = IF j.kind = "ladders" THEN [lm EXCEPT !.sync = j.tenant] ELSE lm
  /\ sm' = IF j.kind = "stops" THEN [sm EXCEPT !.sync = j.tenant] ELSE sm
  /\ UNCHANGED <<price, monitor, tick, sales, history, bounds>>

\* Reading or writing fails: the error is logged and swallowed.
SaveFails(j) ==
  /\ "save" \in Events
  /\ Goes(j)
  /\ saves' = saves (-) SetToBag({j})
  /\ UNCHANGED <<price, managers, disk, monitor, tick, sales, history, bounds>>

\* A setter of storage.ts loads bot_config, changes another key and saves.
OtherSave(t) ==
  /\ ~Turn
  /\ "other" \in Events /\ ~AtomicStorage
  /\ edits < MaxEdits /\ edits' = edits + 1
  /\ saves' = saves (+) SetToBag({Save(t, "other")})
  /\ UNCHANGED <<price, managers, disk, monitor, tick, sales, history, restarts>>

-----------------------------------------------------------------------------
(* The rules.                                                              *)

\* What a step sells: a percentage of what remains, as hundredths of a share.
StepShares(l, k, r) == (r.remaining * Plan[l][k].percent) \div 100

\* Mutant: a step is due only above its trigger.
StepDue_Strict(l, k, r, prices) ==
  /\ r.active /\ k \notin r.done
  /\ TokenOf[l] \in DOMAIN prices
  /\ prices[TokenOf[l]] > Plan[l][k].trigger
  /\ StepShares(l, k, r) > 0

\* checkLadders: every open step of an active ladder whose price is reached,
\* all from the same remaining shares; less than 0.01 shares are skipped.
StepDue(l, k, r, prices) ==
  /\ r.active /\ k \notin r.done
  /\ TokenOf[l] \in DOMAIN prices
  /\ prices[TokenOf[l]] >= Plan[l][k].trigger
  /\ StepShares(l, k, r) > 0

CheckLadders(t, book, prices) ==
  UNION {{[tenant |-> t, rule |-> l, step |-> k,
           shares |-> StepShares(l, k, book[l])]
            : k \in {k \in Step(l) : StepDue(l, k, book[l], prices)}}
           : l \in DOMAIN book}

\* Mutant: the remaining shares are not kept above zero.
MarkStepExecuted_NoClamp(h, book) ==
  IF h.rule \notin DOMAIN book THEN book
  ELSE LET r    == book[h.rule]
           done == r.done \union {h.step}
           left == r.remaining - h.shares
       IN [book EXCEPT ![h.rule] =
             [done |-> done, remaining |-> left,
              active |-> r.active /\ done # Step(h.rule) /\ left > 0]]

\* markStepExecuted: nothing, when the manager does not hold the ladder.
MarkStepExecuted(h, book) ==
  IF h.rule \notin DOMAIN book THEN book
  ELSE LET r    == book[h.rule]
           done == r.done \union {h.step}
           left == Max({0, r.remaining - h.shares})
       IN [book EXCEPT ![h.rule] =
             [done |-> done, remaining |-> left,
              active |-> r.active /\ done # Step(h.rule) /\ left > 0]]

\* Mutant: the stop follows every price.
TrailingStop_Follows(s, o, p) == (p * (100 - Trail[s])) \div 100

\* updatePrices, the part on the stop price: the trailing stop follows a new
\* high, the profit lock raises it to the entry price.
TrailingStop(s, o, p) ==
  IF p > o.high THEN Max({o.stop, (p * (100 - Trail[s])) \div 100}) ELSE o.stop

Locks(s, o, p) == ~o.locked /\ p >= Entry[s] + LockThreshold[s]

RaiseStop(s, o, p) ==
  [o EXCEPT !.high = Max({o.high, p}),
            !.stop = IF Locks(s, o, p)
                     THEN Max({TrailingStop(s, o, p), Entry[s]})
                     ELSE TrailingStop(s, o, p),
            !.locked = o.locked \/ Locks(s, o, p)]

\* The price check is skipped in the tick that locks.
Triggers(s, o, p) ==
  o.active /\ ~Locks(s, o, p) /\ p <= RaiseStop(s, o, p).stop

Priced(book, prices) == {s \in DOMAIN book : TokenOf[s] \in DOMAIN prices}

\* Mutant: a triggered order stays active.
UpdateOrder_StaysActive(s, o, p) ==
  IF ~o.active THEN o ELSE RaiseStop(s, o, p)

UpdateOrder(s, o, p) ==
  IF ~o.active THEN o
  ELSE [RaiseStop(s, o, p) EXCEPT !.active = ~Triggers(s, o, p)]

UpdatePrices(book, prices) ==
  [s \in DOMAIN book |-> IF s \in Priced(book, prices)
                         THEN UpdateOrder(s, book[s], prices[TokenOf[s]])
                         ELSE book[s]]

Triggered(book, prices) ==
  {s \in Priced(book, prices) : Triggers(s, book[s], prices[TokenOf[s]])}

-----------------------------------------------------------------------------
(* The price monitor.                                                      *)

ActiveIn(book) == {i \in DOMAIN book : book[i].active}

\* The tenants a tick visits: when hosted, those that have saved rules.
TickTenants ==
  IF Hosted
  THEN {t \in Tenants : \E m \in disk[t].ladders \union disk[t].stops :
                           DOMAIN m.book # {}}
  ELSE Tenants

\* Mutant: only the tokens of ladders are priced.
Visit_LaddersOnly(v, t) ==
  LET l == SyncLadders(t, v.lm)
      s == SyncStops(t, v.sm)
  IN [lm |-> l, sm |-> s,
      tokens |-> v.tokens \union {TokenOf[r] : r \in ActiveIn(l.book)}]

\* One tenant after the other, in the order of the query: sync, and collect the
\* tokens of the active rules.
Visit(v, t) ==
  LET l == SyncLadders(t, v.lm)
      s == SyncStops(t, v.sm)
  IN [lm |-> l, sm |-> s,
      tokens |-> v.tokens \union
                 {TokenOf[r] : r \in ActiveIn(l.book) \union ActiveIn(s.book)}]

VisitAll(order) ==
  FoldLeft(Visit, [lm |-> lm, sm |-> sm, tokens |-> {}], order)

\* setInterval and the first tick of start: nothing keeps two ticks apart.  If no
\* rule is active the tick ends here.
TickStarts(i) ==
  /\ ~Turn
  /\ running /\ tick[i] = Idle
  /\ BagCardinality(handlers) + BagCardinality(saves) <= MaxBusy
  /\ \E order \in SetToSeqs(TickTenants) :
       LET v == VisitAll(order) IN
       /\ lm' = v.lm /\ sm' = v.sm
       /\ tick' = IF v.tokens = {} THEN tick
                  ELSE [tick EXCEPT ![i] = [Idle EXCEPT !.phase = "fetch",
                                                        !.todo = order,
                                                        !.left = v.tokens]]
  /\ UNCHANGED <<price, store, monitor, sales, history, bounds>>

\* fetchPricesForTokens: one token after the other, each at its own moment.
Fetched(i, k, prices) ==
  /\ ~Turn
  /\ tick[i].phase = "fetch" /\ k \in tick[i].left
  /\ LET left == tick[i].left \ {k}
     IN tick' = [tick EXCEPT ![i] =
                   [@ EXCEPT !.left = left, !.prices = prices,
                             !.phase = IF left # {} THEN "fetch"
                                       ELSE IF Hosted THEN "sync" ELSE "check"]]
  /\ UNCHANGED <<price, managers, store, monitor, sales, history, bounds>>

FetchPrice(i, k) == Fetched(i, k, Put(tick[i].prices, k, price[k]))

\* The order book has no price for the token, or the request fails.
FetchFails(i, k) == "fetch" \in Events /\ Fetched(i, k, tick[i].prices)

\* What the handlers in H sell.
SharesOf(H) == MapThenSumSet(LAMBDA h : h.shares, H)

\* The sales of the handlers in H happen.
Sell(H) ==
  sold' = [r \in DOMAIN sold |->
             Min({Shares[r], sold[r] + SharesOf({h \in H : h.rule = r})})]

\* When hosted, the managers sync with the tenant whose turn it is.
TickSyncs(i) ==
  /\ tick[i].phase = "sync"
  /\ lm' = SyncLadders(Head(tick[i].todo), lm)
  /\ sm' = SyncStops(Head(tick[i].todo), sm)
  /\ tick' = [tick EXCEPT ![i].phase = "check"]
  /\ UNCHANGED <<price, store, monitor, sales, history, bounds>>

\* The checks for that tenant, on the rules the managers hold: the triggers of
\* the ladders, those of the stop-loss orders, and a save if an order triggered.
TickChecks(i) ==
  /\ tick[i].phase = "check"
  /\ LET t    == Head(tick[i].todo)
         due  == CheckLadders(t, lm.book, tick[i].prices)
         hit  == Triggered(sm.book, tick[i].prices)
         stop == {[tenant |-> t, rule |-> o, step |-> 0, shares |-> Shares[o]]
                    : o \in hit}
     IN /\ sm' = [sm EXCEPT !.book = UpdatePrices(@, tick[i].prices)]
        /\ saves' = IF hit = {} THEN saves
                    ELSE saves (+) SetToBag({Save(t, "stops")})
        /\ begun' = begun \union stop \union due
        /\ fired' = [o \in Stops |-> fired[o] + IF o \in hit THEN 1 ELSE 0]
        /\ raised' = [o \in Stops |->
                        Max({raised[o]} \union {b.stop : b \in
                          {UpdatePrices(sm.book, tick[i].prices)[x]
                             : x \in {o} \intersect DOMAIN sm.book}})]
  /\ tick' = [tick EXCEPT ![i] = IF Len(@.todo) <= 1 THEN Idle
                                 ELSE [@ EXCEPT !.phase = "sync",
                                                !.todo = Tail(tick[i].todo)]]
  /\ UNCHANGED <<price, lm, disk, monitor, handlers, sold, bounds>>

\* Managers l and s are the next ones, and saves of the kinds in K start.
ChangeAndSave(t, l, s, K) ==
  /\ lm' = l /\ sm' = s
  /\ saves' = saves (+) SetToBag({Save(t, k) : k \in K})
  /\ UNCHANGED disk

\* A handler syncs and goes on: to executeTrade, or, for a ladder in paper mode,
\* the step is marked and saved, if the manager holds the ladder.
Begins(h) ==
  /\ h \in begun /\ begun' = begun \ {h}
  /\ LET l     == SyncLadders(h.tenant, lm)
         s     == SyncStops(h.tenant, sm)
         paper == h.rule \in Ladders /\ ~l.live
     IN /\ handlers' = IF paper THEN handlers ELSE handlers (+) SetToBag({h})
        /\ IF paper /\ h.rule \in DOMAIN l.book
           THEN /\ ChangeAndSave(h.tenant,
                                 [l EXCEPT !.book = MarkStepExecuted(h, @)], s,
                                 {"ladders"})
                /\ Sell({h})
           ELSE ChangeAndSave(h.tenant, l, s, {}) /\ UNCHANGED sold
  /\ UNCHANGED <<price, monitor, tick, fired, raised, bounds>>

\* Mutant: a step is marked whether or not it was sold.
HandlerReturns_MarksFailed(h, success) ==
  /\ ~Turn
  /\ BagIn(h, handlers)
  /\ success \/ "trade" \in Events
  /\ handlers' = handlers (-) SetToBag({h})
  /\ Sell(IF success THEN {h} ELSE {})
  /\ IF h.rule \in DOMAIN lm.book
     THEN ChangeAndSave(h.tenant, [lm EXCEPT !.book = MarkStepExecuted(h, @)],
                        sm, {"ladders"})
     ELSE UNCHANGED <<managers, store>>
  /\ UNCHANGED <<price, monitor, tick, begun, fired, raised, bounds>>

\* executeTrade returns.  A sold ladder step is marked in whatever rules the
\* manager holds by now; a failure is only logged.
HandlerReturns(h, success) ==
  /\ ~Turn
  /\ BagIn(h, handlers)
  /\ success \/ "trade" \in Events
  /\ handlers' = handlers (-) SetToBag({h})
  /\ Sell(IF success THEN {h} ELSE {})
  /\ IF success /\ h.rule \in DOMAIN lm.book
     THEN ChangeAndSave(h.tenant, [lm EXCEPT !.book = MarkStepExecuted(h, @)],
                        sm, {"ladders"})
     ELSE UNCHANGED <<managers, store>>
  /\ UNCHANGED <<price, monitor, tick, begun, fired, raised, bounds>>

\* The exchange sold, but executeTrade reports a failure.
AnswerLost(h) ==
  /\ ~Turn
  /\ "lost" \in Events
  /\ BagIn(h, handlers)
  /\ handlers' = handlers (-) SetToBag({h})
  /\ Sell({h})
  /\ UNCHANGED <<price, managers, store, monitor, tick, begun, fired, raised,
                 bounds>>

-----------------------------------------------------------------------------
(* The routes.  Every request first syncs the managers with its tenant.    *)

Edit == edits < MaxEdits /\ edits' = edits + 1

StartIfStopped == running' = TRUE

\* A request that changes nothing: the middleware alone.
Request(t) ==
  /\ ~Turn
  /\ lm.sync # t \/ sm.sync # t
  /\ lm' = SyncLadders(t, lm) /\ sm' = SyncStops(t, sm)
  /\ UNCHANGED <<price, store, monitor, tick, sales, history, bounds>>

CreateLadder(t, l) ==
  /\ ~Turn
  /\ Edit /\ l \notin DOMAIN sold
  /\ ChangeAndSave(t,
                   [SyncLadders(t, lm) EXCEPT !.book = Put(@, l, NewLadder(l))],
                   SyncStops(t, sm), {"ladders"})
  /\ sold' = Put(sold, l, 0)
  /\ StartIfStopped
  /\ UNCHANGED <<price, enabled, boot, tick, sales, fired, raised,
                 restarts>>

CreateStopLoss(t, s) ==
  /\ ~Turn
  /\ Edit /\ s \notin DOMAIN sold
  /\ ChangeAndSave(t, SyncLadders(t, lm),
                   [SyncStops(t, sm) EXCEPT !.book = Put(@, s, NewOrder(s))],
                   {"stops"})
  /\ sold' = Put(sold, s, 0)
  /\ StartIfStopped
  /\ UNCHANGED <<price, enabled, boot, tick, sales, fired, raised,
                 restarts>>

CancelLadder(t, l) ==
  /\ ~Turn
  /\ Edit
  /\ LET m == SyncLadders(t, lm) IN
       /\ l \in DOMAIN m.book
       /\ ChangeAndSave(t, [m EXCEPT !.book[l].active = FALSE],
                        SyncStops(t, sm), {"ladders"})
  /\ UNCHANGED <<price, monitor, tick, sales, history, restarts>>

CancelStopLoss(t, s) ==
  /\ ~Turn
  /\ Edit
  /\ LET m == SyncStops(t, sm) IN
       /\ s \in DOMAIN m.book
       /\ ChangeAndSave(t, SyncLadders(t, lm),
                        [m EXCEPT !.book[s].active = FALSE],
                        {"stops"})
  /\ UNCHANGED <<price, monitor, tick, sales, history, restarts>>

\* updateConfig of the ladders: the switch between paper and live mode.
SetLiveMode(t, live) ==
  /\ ~Turn
  /\ Edit
  /\ ChangeAndSave(t, [SyncLadders(t, lm) EXCEPT !.live = live],
                   SyncStops(t, sm), {"ladders"})
  /\ UNCHANGED <<price, monitor, tick, sales, history, restarts>>

\* updateConfig of the stop-loss orders: defaults for orders to come.
ConfigureStops(t) ==
  /\ ~Turn
  /\ Edit
  /\ ChangeAndSave(t, SyncLadders(t, lm), SyncStops(t, sm), {"stops"})
  /\ UNCHANGED <<price, monitor, tick, sales, history, restarts>>

StartMonitor ==
  /\ ~Turn
  /\ "monitor" \in Events /\ Edit
  /\ ~running /\ running' = TRUE
  /\ UNCHANGED <<price, managers, store, enabled, boot, tick, sales,
                 history, restarts>>

\* Ticks under way go on.
StopMonitor ==
  /\ ~Turn
  /\ "monitor" \in Events /\ Edit
  /\ running /\ running' = FALSE
  /\ UNCHANGED <<price, managers, store, enabled, boot, tick, sales,
                 history, restarts>>

\* updateConfig stops a running monitor, and starts it again if it is enabled.
ConfigureMonitor(on) ==
  /\ ~Turn
  /\ "monitor" \in Events /\ Edit
  /\ enabled' = on
  /\ running' = (running /\ on)
  /\ UNCHANGED <<price, managers, store, boot, tick, sales, history,
                 restarts>>

\* autoStartPriceMonitor, two seconds after the start.
AutoStart ==
  /\ ~Turn
  /\ boot /\ boot' = FALSE
  /\ \E order \in SetToSeqs(TickTenants) :
       LET v == VisitAll(order) IN
       /\ lm' = v.lm /\ sm' = v.sm
       /\ running' = (running \/ v.tokens # {})
  /\ UNCHANGED <<price, store, enabled, tick, sales, history, bounds>>

-----------------------------------------------------------------------------
(* The market, and crashes.                                                *)

PriceMoves(k, p) ==
  /\ ~Turn
  /\ p # price[k] /\ price' = [price EXCEPT ![k] = p]
  /\ UNCHANGED <<managers, store, monitor, tick, sales, history, bounds>>

\* The process stops and starts again: init loads the rules, unless hosted.
\* Of the handlers under way some have sold.
Restart ==
  /\ ~Turn
  /\ "crash" \in Events
  /\ restarts < MaxRestarts /\ restarts' = restarts + 1
  /\ IF Hosted
     THEN lm' = Unloaded(Nobody) /\ sm' = NoStops(Nobody)
     ELSE \E t \in Tenants : /\ lm' = LoadLadders(t, Unloaded(t))
                             /\ sm' = LoadStops(t, NoStops(t))
  /\ running' = FALSE /\ enabled' = FALSE /\ boot' = TRUE
  /\ tick' = [i \in Ticks |-> Idle]
  /\ saves' = EmptyBag /\ begun' = {} /\ handlers' = EmptyBag
  /\ \E got \in SUBSET BagToSet(handlers) : Sell(got)
  /\ fired' = [o \in Stops |-> 0] /\ raised' = [o \in Stops |-> 0]
  /\ UNCHANGED <<price, disk, edits>>

\* What happens in a process that is not hosted and has one tenant.
OwnNext ==
  \/ \E k \in Tokens, p \in Prices : PriceMoves(k, p)
  \/ \E i \in Ticks : TickStarts(i)
  \/ \E i \in Ticks, k \in Tokens : FetchPrice(i, k) \/ FetchFails(i, k)
  \/ \E i \in Ticks : TickChecks(i)
  \/ \E h \in begun : Begins(h)
  \/ \E h \in BagToSet(handlers) :
       \/ \E success \in BOOLEAN : HandlerReturns(h, success)
       \/ AnswerLost(h)
  \/ \E j \in BagToSet(saves) : SaveLoads(j) \/ SaveWrites(j) \/ SaveFails(j)
  \/ \E t \in Tenants :
       \/ OtherSave(t) \/ ConfigureStops(t)
       \/ \E l \in Ladders : CreateLadder(t, l) \/ CancelLadder(t, l)
       \/ \E s \in Stops : CreateStopLoss(t, s) \/ CancelStopLoss(t, s)
       \/ \E live \in BOOLEAN : SetLiveMode(t, live)
  \/ StartMonitor \/ StopMonitor
  \/ \E on \in BOOLEAN : ConfigureMonitor(on)
  \/ AutoStart
  \/ Restart

Next == \/ OwnNext
        \/ \E i \in Ticks : TickSyncs(i)
        \/ \E t \in Tenants : Request(t)

OneTenantSpec == Init /\ [][OwnNext]_vars

Spec == Init /\ [][Next]_vars

\* Ticks go on while the monitor runs, requests to the exchange return; the
\* price of a token and the sale of a step succeed again and again when tried.
FairSpec ==
  /\ Spec
  /\ WF_vars(\E i \in Ticks : TickStarts(i))
  /\ \A i \in Ticks :
       /\ WF_vars(\E k \in Tokens : FetchPrice(i, k) \/ FetchFails(i, k))
       /\ WF_vars(TickSyncs(i) \/ TickChecks(i))
  /\ WF_vars(\E h \in begun : Begins(h))
  /\ \A k \in Tokens : SF_vars(\E i \in Ticks : FetchPrice(i, k))
  /\ WF_vars(\E h \in BagToSet(handlers), success \in BOOLEAN :
               HandlerReturns(h, success))
  /\ WF_vars(\E j \in BagToSet(saves) : SaveLoads(j) \/ SaveWrites(j))
  /\ \A l \in Ladders :
       SF_vars(\E h \in BagToSet(handlers) :
                 h.rule = l /\ HandlerReturns(h, TRUE))

-----------------------------------------------------------------------------
(* Properties.                                                             *)

\* Type correctness; a ladder never has more left than it began with, and a
\* rule in memory was created.
TypeOK ==
  /\ price \in [Tokens -> Prices]
  /\ IsLadders(lm) /\ lm.sync \in Tenants \union {Nobody}
  /\ IsStops(sm) /\ sm.sync \in Tenants \union {Nobody}
  /\ DOMAIN lm.book \union DOMAIN sm.book \subseteq DOMAIN sold
  /\ \A t \in Tenants : IsConfig(disk[t])
  /\ \A j \in BagToSet(saves) : SaveJob(j)
  /\ running \in BOOLEAN /\ enabled \in BOOLEAN /\ boot \in BOOLEAN
  /\ \A i \in Ticks : IsBook(tick[i].prices, Tokens, Prices)
  /\ \A h \in begun \union BagToSet(handlers) :
       h \in Handler /\ h.rule \in DOMAIN sold
  /\ IsBook(sold, Ladders \union Stops, Nat)

Books == {lm.book} \union
         UNION {{s.book : s \in disk[t].ladders} : t \in Tenants}

\* A ladder never books a sale that did not happen: what it holds to be sold
\* was sold (on paper, in paper mode), whatever fails, overlaps or is lost in
\* a crash, in memory and on disk.
RecordedSales ==
  \A b \in Books : \A l \in DOMAIN b : b[l].remaining + sold[l] >= Shares[l]

\* "Trailing stop: moves up as price rises" (smartStopLoss.ts:27): the stop
\* price of an active order is never below one it had since the start.
StopNeverLowered ==
  \A s \in DOMAIN sm.book : sm.book[s].active => sm.book[s].stop >= raised[s]

\* Overlapping ticks sell the shares of a stop-loss order once: an order
\* triggers at most once between two starts of the process.
StopTriggersOnce == \A s \in Stops : fired[s] <= 1

StopReached(s) ==
  /\ running /\ s \in ActiveIn(sm.book)
  /\ price[TokenOf[s]] <= sm.book[s].stop

\* A stop-loss order does not stay active for ever while the monitor runs and
\* the price is at or below its stop.
StopFires == \A s \in Stops : []<>~StopReached(s)

StepReached(l, k) ==
  /\ running /\ l \in ActiveIn(lm.book)
  /\ k \notin lm.book[l].done /\ StepShares(l, k, lm.book[l]) > 0
  /\ price[TokenOf[l]] >= Plan[l][k].trigger

\* "step NOT marked executed, will retry next tick" (api/routes.ts:190): a step
\* whose sale fails is tried again, until it is sold or no longer due.
StepRetried ==
  \A l \in Ladders : \A k \in Step(l) : []<>~StepReached(l, k)

=============================================================================
