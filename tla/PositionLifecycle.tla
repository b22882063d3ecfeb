------------------------- MODULE PositionLifecycle -------------------------
(***************************************************************************)
(* positionLifecycle.ts and its routes: winnings are redeemed and complete *)
(* sets merged through Polymarket's relayer, from a timer, on request, and *)
(* when the wallets are unlocked.  Nothing keeps two runs apart; each      *)
(* works through the list it read.  One trading wallet; a token is a       *)
(* condition and an outcome, a winning share pays one.                     *)
(***************************************************************************)
EXTENDS Integers, FiniteSets, Bags

CONSTANTS
  Conditions, NegRisk,   \* markets, and those behind the neg-risk adapter
  Holding,               \* shares of each token the wallet starts with
  MinRedeemValue,
  Runs,                  \* runs that may be under way together (bound)
  Calls,                 \* start and config requests under way (bound)
  MaxEdits, MaxFailures, \* bounds: requests and restarts, failures
  MaxTotal               \* bound: the total is not counted further

Outcomes == {"yes", "no"}
Tokens   == Conditions \X Outcomes

ASSUME LifecycleAssumption ==
  /\ NegRisk \subseteq Conditions
  /\ Holding \in [Tokens -> Nat]
  /\ MinRedeemValue \in Nat \ {0} /\ IsFiniteSet(Runs)
  /\ MaxEdits \in Nat /\ MaxFailures \in Nat /\ MaxTotal \in Nat

VARIABLES
  balance, shown,   \* the wallet's shares on chain, and in the positions index
  winner,           \* "open" until the condition is resolved
  late,             \* a bag: transactions nobody waits for any more, which the
                    \* relayer may still bring to the chain
  lifecycle,        \* lifecycleConfig: the two switches
  stored,           \* the same in the configuration file, if anything
  isRunning, timer, \* the manager, and its interval
  unlocked,         \* isWalletUnlocked
  run,              \* each run: where it stands, its list, the entry in hand
  call,             \* each request of the manager that is under way
  totalRecovered,
  paid,             \* history: what the chain paid
  astray,           \* history: a transaction was sent for an entry that was out
                    \* of date, or burnt Yes for a neg-risk market that is No
  edits, failures

chain    == <<balance, shown, winner, late>>
manager  == <<lifecycle, stored, isRunning, timer, unlocked>>
totals   == <<totalRecovered, paid, astray>>
bounds   == <<edits, failures>>
lifecycleVars == <<chain, manager, run, call, totals, bounds>>

DEFAULT_LIFECYCLE == [redeem |-> FALSE, merge |-> FALSE]
Switches == [redeem : BOOLEAN, merge : BOOLEAN]

NoEntry == [token |-> "none", size |-> 0, redeem |-> FALSE]
NoRun   == [pc |-> "idle", auto |-> FALSE, seen |-> {}, list |-> {},
            entry |-> NoEntry, done |-> FALSE]

\* The process starts the manager as it makes the routes.
Booted == [c \in Calls |-> IF c = CHOOSE d \in Calls : TRUE THEN "load"
                          ELSE "idle"]

LifecycleInit ==
  /\ balance = Holding /\ shown = Holding
  /\ winner = [c \in Conditions |-> "open"] /\ late = EmptyBag
  /\ lifecycle = DEFAULT_LIFECYCLE
  /\ stored \in {{}} \union {{c} : c \in Switches}
  /\ isRunning = TRUE /\ timer = FALSE /\ unlocked = FALSE
  /\ run = [r \in Runs |-> NoRun]
  /\ call = Booted
  /\ totalRecovered = 0 /\ paid = 0 /\ astray = FALSE
  /\ edits = 0 /\ failures = 0

Edit    == edits < MaxEdits /\ edits' = edits + 1 /\ UNCHANGED failures
Failure == failures < MaxFailures /\ failures' = failures + 1 /\ UNCHANGED edits

-----------------------------------------------------------------------------
(* Polymarket: the market is decided, the index follows the chain, and the *)
(* contracts redeem and merge.                                             *)

Resolve(c) ==
  /\ winner[c] = "open"
  /\ \E o \in Outcomes : winner' = [winner EXCEPT ![c] = o]
  /\ UNCHANGED <<balance, shown, late, manager, run, call, totals, bounds>>

Reindex ==
  /\ shown # balance /\ shown' = balance
  /\ UNCHANGED <<balance, winner, late, manager, run, call, totals, bounds>>

Yes(t)   == <<t[1], "yes">>
Other(t) == IF t[2] = "yes" THEN <<t[1], "no">> ELSE Yes(t)

\* What a transaction burns; the amounts of a neg-risk redemption are
\* [size, 0] whatever the outcome.
Burns(e) ==
  IF ~e.redeem THEN [t \in Tokens |-> IF t[1] = e.token[1] THEN e.size ELSE 0]
  ELSE IF e.token[1] \in NegRisk
  THEN [t \in Tokens |-> IF t = Yes(e.token) THEN e.size ELSE 0]
  ELSE [t \in Tokens |-> IF t[1] = e.token[1] THEN balance[t] ELSE 0]

Reverts(e) == \E t \in Tokens : Burns(e)[t] > balance[t]

Pays(e) == IF ~e.redeem THEN e.size
           ELSE Burns(e)[<<e.token[1], winner[e.token[1]]>>]

\* A transaction is mined.
Mines(e) ==
  /\ astray' = (astray \/ e.size # balance[e.token]
                       \/ (e.redeem /\ e.token[1] \in NegRisk /\ e.token[2] = "no"))
  /\ IF Reverts(e) THEN UNCHANGED <<balance, paid>>
     ELSE /\ balance' = [t \in Tokens |-> balance[t] - Burns(e)[t]]
          /\ paid' = paid + Pays(e)

\* One that nobody waits for.
MinedLate(e) ==
  /\ BagIn(e, late) /\ late' = late (-) SetToBag({e})
  /\ Mines(e)
  /\ UNCHANGED <<shown, winner, manager, run, call, totalRecovered, bounds>>

-----------------------------------------------------------------------------
(* A run: checkAndProcess (auto) or redeemAll.                             *)

Starts(r, auto) == run[r] = NoRun /\ run' = [run EXCEPT ![r] =
                     [@ EXCEPT !.pc = "list", !.auto = auto]]

\* checkAndProcess returns at once if the wallets are locked.
Check == IF unlocked THEN \E r \in Runs : Starts(r, TRUE) ELSE UNCHANGED run

\* getRedeemablePositions reads the redeemable positions and keeps those of
\* value, then the mergeable ones and keeps those it has not seen.
Redeemable == {t \in Tokens : shown[t] > 0 /\ winner[t[1]] # "open"}
Mergeable  == {t \in Tokens : shown[t] > 0 /\ shown[Other(t)] > 0}

EntryOf(t, redeem) == [token |-> t, size |-> shown[t], redeem |-> redeem]

Redemptions ==
  {EntryOf(t, TRUE) : t \in {u \in Redeemable : winner[u[1]] = u[2]}}
Merges(seen) == {EntryOf(t, FALSE) : t \in Mergeable \ seen}

ListRedeemable(r) ==
  /\ run[r].pc = "list"
  /\ run' = [run EXCEPT ![r] = [@ EXCEPT !.pc = "merges", !.seen = Redeemable,
                                          !.list = Redemptions]]
  /\ UNCHANGED <<chain, manager, call, totals, bounds>>

ListMergeable(r) ==
  /\ run[r].pc = "merges"
  /\ run' = [run EXCEPT ![r] =
               [@ EXCEPT !.pc = "next", !.seen = {},
                         !.list = run[r].list \union Merges(run[r].seen)]]
  /\ UNCHANGED <<chain, manager, call, totals, bounds>>

\* The Data API fails at either: the wallet is left out.
ListFails(r) ==
  /\ run[r].pc \in {"list", "merges"} /\ Failure
  /\ run' = [run EXCEPT ![r] = NoRun]
  /\ UNCHANGED <<chain, manager, call, totals>>

\* Does the loop send a transaction for this entry?
Wanted(r, e) ==
  /\ unlocked
  /\ IF run[r].auto
     THEN /\ e.size >= MinRedeemValue
          /\ IF e.redeem THEN lifecycle.redeem ELSE lifecycle.merge
     ELSE e.redeem

NextEntry(r) ==
  /\ run[r].pc = "next"
  /\ \/ run[r].list = {} /\ run' = [run EXCEPT ![r] = NoRun]
     \/ \E e \in run[r].list :
          LET rest == [run[r] EXCEPT !.list = @ \ {e}] IN
          run' = [run EXCEPT ![r] = IF Wanted(r, e)
                    THEN [rest EXCEPT !.pc = "relay", !.entry = e] ELSE rest]
  /\ UNCHANGED <<chain, manager, call, totals, bounds>>

\* relayClient.execute: the transaction is mined while wait polls for it.
Mined(r) ==
  /\ run[r].pc = "relay"
  /\ Mines(run[r].entry)
  /\ run' = [run EXCEPT ![r].pc = "wait", ![r].done = ~Reverts(run[r].entry)]
  /\ UNCHANGED <<shown, winner, late, manager, call, totalRecovered, bounds>>

\* The relayer refuses, or wait gives up on a transaction: it is mined, or will
\* be, or never.
RelayFails(r) ==
  /\ run[r].pc \in {"relay", "wait"} /\ Failure
  /\ \/ UNCHANGED late
     \/ run[r].pc = "relay" /\ late' = late (+) SetToBag({run[r].entry})
  /\ run' = [run EXCEPT ![r] = [@ EXCEPT !.pc = "next", !.entry = NoEntry,
                                          !.done = FALSE]]
  /\ UNCHANGED <<balance, shown, winner, manager, call, totals>>

Capped(n) == IF n <= MaxTotal THEN n ELSE MaxTotal

\* Mutant: an answer counts, whatever it says.
Answered_Always(r) ==
  /\ run[r].pc = "wait"
  /\ totalRecovered' = Capped(totalRecovered + run[r].entry.size)
  /\ run' = [run EXCEPT ![r] = [@ EXCEPT !.pc = "next", !.entry = NoEntry,
                                          !.done = FALSE]]
  /\ UNCHANGED <<chain, manager, call, paid, astray, bounds>>

\* wait returns a receipt, or nothing for a transaction that reverted.
Answered(r) ==
  /\ run[r].pc = "wait"
  /\ totalRecovered' = IF run[r].done
                       THEN Capped(totalRecovered + run[r].entry.size)
                       ELSE totalRecovered
  /\ run' = [run EXCEPT ![r] = [@ EXCEPT !.pc = "next", !.entry = NoEntry,
                                          !.done = FALSE]]
  /\ UNCHANGED <<chain, manager, call, paid, astray, bounds>>

-----------------------------------------------------------------------------
(* The manager and its routes.                                             *)

On(c) == c.redeem \/ c.merge

\* scheduleCheck: a new interval, and a first check.
ScheduleCheck == timer' = TRUE /\ Check

Start(c) ==
  /\ call[c] = "idle" /\ ~isRunning
  /\ isRunning' = TRUE
  /\ call' = [call EXCEPT ![c] = "load"]
  /\ UNCHANGED <<chain, lifecycle, stored, timer, unlocked, run, totals, bounds>>

\* loadConfig: what the file has, unless it has nothing or cannot be read.
ReadConfig ==
  IF stored = {} THEN UNCHANGED <<lifecycle, bounds>>
  ELSE \/ lifecycle' \in stored /\ UNCHANGED bounds
       \/ UNCHANGED lifecycle /\ Failure

\* Mutant: start does not look at the configuration it has loaded.
LoadConfig_Stale(c) ==
  /\ call[c] = "load" /\ ReadConfig
  /\ call' = [call EXCEPT ![c] = "idle"]
  /\ IF On(lifecycle) THEN ScheduleCheck ELSE UNCHANGED <<timer, run>>
  /\ UNCHANGED <<chain, stored, isRunning, unlocked, totals>>

LoadConfig(c) ==
  /\ call[c] = "load" /\ ReadConfig
  /\ call' = [call EXCEPT ![c] = "idle"]
  /\ IF On(lifecycle') THEN ScheduleCheck ELSE UNCHANGED <<timer, run>>
  /\ UNCHANGED <<chain, stored, isRunning, unlocked, totals>>

Stop ==
  /\ isRunning /\ Edit
  /\ isRunning' = FALSE /\ timer' = FALSE
  /\ UNCHANGED <<chain, lifecycle, stored, unlocked, run, call, totals>>

UpdateLifecycleConfig(c, new) ==
  /\ call[c] = "idle" /\ Edit
  /\ lifecycle' = new
  /\ call' = [call EXCEPT ![c] = "save"]
  /\ UNCHANGED <<chain, stored, isRunning, timer, unlocked, run, totals>>

\* saveConfig writes the configuration of that moment, unless storage fails.
SaveConfig(c) ==
  /\ call[c] = "save"
  /\ \/ stored' = {lifecycle} /\ UNCHANGED bounds
     \/ UNCHANGED stored /\ Failure
  /\ call' = [call EXCEPT ![c] = "saved"]
  /\ UNCHANGED <<chain, lifecycle, isRunning, timer, unlocked, run, totals>>

Updated(c) ==
  /\ call[c] = "saved"
  /\ call' = [call EXCEPT ![c] = "idle"]
  /\ IF ~isRunning THEN UNCHANGED <<timer, run>>
     ELSE IF On(lifecycle) THEN ScheduleCheck
     ELSE timer' = FALSE /\ UNCHANGED run
  /\ UNCHANGED <<chain, lifecycle, stored, isRunning, unlocked, totals, bounds>>

\* POST /wallets/unlock, and the triggerCheck that follows it.
Unlock ==
  /\ ~unlocked /\ unlocked' = TRUE
  /\ IF isRunning /\ On(lifecycle) THEN \E r \in Runs : Starts(r, TRUE)
     ELSE UNCHANGED run
  /\ UNCHANGED <<chain, lifecycle, stored, isRunning, timer, call, totals, bounds>>

\* The interval.
Tick ==
  /\ timer /\ isRunning /\ unlocked /\ Check
  /\ UNCHANGED <<chain, manager, call, totals, bounds>>

\* POST /lifecycle/check and /lifecycle/redeem-all.
Request(auto) ==
  /\ Edit /\ unlocked
  /\ \E r \in Runs : Starts(r, auto)
  /\ UNCHANGED <<chain, manager, call, totals>>

\* The transactions that runs R had sent, each as often as it was.
SentBy(R) == [e \in {run[r].entry : r \in R} |->
                Cardinality({r \in R : run[r].entry = e})]

\* The process ends; the routes of the next one start the manager again.  Of the
\* transactions under way some have reached the relayer.
Restart ==
  /\ Edit
  /\ lifecycle' = DEFAULT_LIFECYCLE /\ timer' = FALSE /\ unlocked' = FALSE
  /\ isRunning' = TRUE
  /\ \E R \in SUBSET {r \in Runs : run[r].pc = "relay"} :
       late' = late (+) SentBy(R)
  /\ run' = [r \in Runs |-> NoRun]
  /\ call' = Booted
  /\ totalRecovered' = 0 /\ paid' = 0 /\ astray' = FALSE
  /\ UNCHANGED <<balance, shown, winner, stored>>

LifecycleNext ==
  \/ \E c \in Conditions : Resolve(c)
  \/ Reindex \/ Stop \/ Unlock \/ Tick \/ Restart
  \/ \E auto \in BOOLEAN : Request(auto)
  \/ \E c \in Calls : Start(c) \/ LoadConfig(c) \/ SaveConfig(c) \/ Updated(c)
  \/ \E c \in Calls, new \in Switches : UpdateLifecycleConfig(c, new)
  \/ \E e \in BagToSet(late) : MinedLate(e)
  \/ \E r \in Runs : \/ ListRedeemable(r) \/ ListMergeable(r) \/ ListFails(r)
                     \/ NextEntry(r) \/ Mined(r) \/ RelayFails(r) \/ Answered(r)

LifecycleFairness ==
  /\ WF_lifecycleVars(Reindex) /\ WF_lifecycleVars(Tick)
  /\ \A c \in Calls : WF_lifecycleVars(LoadConfig(c) \/ SaveConfig(c) \/ Updated(c))
  /\ \A r \in Runs :
       WF_lifecycleVars(\/ ListRedeemable(r) \/ ListMergeable(r)
                        \/ NextEntry(r) \/ Mined(r) \/ Answered(r))

LifecycleSpec     == LifecycleInit /\ [][LifecycleNext]_lifecycleVars
FairLifecycleSpec == LifecycleSpec /\ LifecycleFairness

-----------------------------------------------------------------------------
(* Properties                                                              *)

\* A redemption that can succeed: the adapter takes the size as one of Yes.
Payable(t) == winner[t[1]] = t[2] /\ (t[1] \in NegRisk => t[2] = "yes")

\* checkAndProcess: while the manager runs with auto-redeem on and the wallets
\* are unlocked, no winning position of the minimum value stays unredeemed,
\* whatever the order of the requests that started and configured the manager.
WinningsRedeemed ==
  \A t \in Tokens :
    <>[](isRunning /\ lifecycle.redeem /\ unlocked /\ Payable(t))
      => <>[](balance[t] < MinRedeemValue)

\* redeemPosition, mergePosition: the total recovered was paid by the chain,
\* unless a run worked from an entry that was out of date (each reads its list
\* once, 212-311), or redeemed the No shares of a neg-risk market, for which the
\* amounts of Yes are sent (378-380).
RecoveredWasPaid == astray \/ totalRecovered <= paid
=============================================================================
