--------------------------- MODULE PositionMirror ---------------------------
(***************************************************************************)
(* positionMirror.ts: a preview of the trades that give the user's         *)
(* portfolio the proportions of a tracked wallet, and their execution,     *)
(* sells first.  The preview is made from four reads, the execution works  *)
(* from what the browser sends back.  Shares are in tenths, prices in      *)
(* tenths of a dollar, weights in hundredths; targets are rounded down.    *)
(* An accepted order fills at the price shown.                             *)
(***************************************************************************)
EXTENDS Integers, FiniteSetsExt

CONSTANTS
  Assets, Price,         \* outcome tokens and what they cost
  Resolved,              \* tokens that can only be redeemed
  Portfolios,            \* holdings the tracked wallet may change to
  StartHolding, StartCash, \* the user's portfolio at first
  Weights,               \* allocation weights of the tracked wallet
  Disturbances,          \* optional events: "change", "fetch", "refuse"
  MaxEvents              \* bound

\* Shares, prices, money and weights are not negative.
ASSUME MirrorAssumption ==
  /\ IsFiniteSet(Assets) /\ Resolved \subseteq Assets
  /\ Price \in [Assets -> Nat]
  /\ Portfolios \subseteq [Assets -> Nat] /\ StartHolding \in [Assets -> Nat]
  /\ StartCash \in Nat /\ Weights \subseteq Nat
  /\ Disturbances \subseteq {"change", "fetch", "refuse"} /\ MaxEvents \in Nat

VARIABLES
  theirs, weight,  \* the tracked wallet: shares, and its allocation weight
  mine, cash,      \* the user
  job,             \* the preview or execution under way
  clean,           \* history: nothing changed or failed since the last preview
  events

mirrorVars == <<theirs, weight, mine, cash, job, clean, events>>

Dust    == 5     \* 0.5 shares
Minimum == 50    \* 5 shares

NoShares == [t \in Assets |-> 0]

\* "still": nothing changed since the first read of this preview.
NoPreview == [pc |-> "idle", weight |-> 0, shares |-> NoShares, total |-> 0,
              own |-> NoShares, trades |-> {}, still |-> TRUE]

MirrorInit ==
  /\ theirs \in Portfolios /\ weight \in Weights
  /\ mine = StartHolding /\ cash = StartCash
  /\ job = NoPreview /\ clean = FALSE /\ events = 0

Event(e) == e \in Disturbances /\ events < MaxEvents /\ events' = events + 1

Value(shares) == MapThenSumSet(LAMBDA t : shares[t] * Price[t], Assets)

-----------------------------------------------------------------------------
(* calculateMirrorPreview.  j holds what it has read, money is the last    *)
(* read: the user's USDC.                                                  *)

Target(t, j, money) ==
  IF j.total = 0 THEN 0
  ELSE (j.shares[t] * (money + Value(j.own)) * j.weight) \div (j.total * 100)

\* Mutant: the target is traded, whatever is held already.
Delta_Target(t, j, money) == Target(t, j, money)

\* How many shares are missing to the target.
Delta(t, j, money) == Target(t, j, money) - j.own[t]

MirrorTrade(t, j, money) ==
  LET d == Delta(t, j, money) IN
  [token |-> t, side |-> IF d > 0 THEN "BUY" ELSE "SELL",
   size |-> IF d > 0 THEN d ELSE 0 - d]

\* A position they do not have is closed.
CloseTrade(t, j) == [token |-> t, side |-> "SELL", size |-> j.own[t]]

\* The trades of a preview that may be selected: those below the minimum, of a
\* wallet the policy pauses or of resolved markets are marked as skipped.
Proposals(j, money) ==
  LET held  == {t \in Assets : j.shares[t] > 0}
      moved == IF j.weight = 0 THEN {} ELSE held \ Resolved
      alone == {t \in Assets \ (held \union Resolved) : j.own[t] >= Dust} IN
  {tr \in {MirrorTrade(t, j, money) : t \in moved}
          \union {CloseTrade(t, j) : t \in alone} : tr.size >= Minimum}

ReadPositions ==
  /\ job = NoPreview
  /\ job' = [job EXCEPT !.pc = "total", !.weight = weight, !.shares = theirs]
  /\ clean' = TRUE
  /\ UNCHANGED <<theirs, weight, mine, cash, events>>

\* getPortfolioValue reads the positions once more; it answers 0 for an error.
ReadTotal ==
  /\ job.pc = "total"
  /\ \/ /\ job' = [job EXCEPT !.pc = "own", !.total = Value(theirs)]
        /\ UNCHANGED <<clean, events>>
     \/ /\ Event("fetch")
        /\ job' = [job EXCEPT !.pc = "own", !.total = 0]
        /\ clean' = FALSE
  /\ UNCHANGED <<theirs, weight, mine, cash>>

ReadOwn ==
  /\ job.pc = "own"
  /\ job' = [job EXCEPT !.pc = "cash", !.own = mine]
  /\ UNCHANGED <<theirs, weight, mine, cash, clean, events>>

ReadCash ==
  /\ job.pc = "cash"
  /\ job' = [job EXCEPT !.pc = "shown", !.trades = Proposals(job, cash)]
  /\ UNCHANGED <<theirs, weight, mine, cash, clean, events>>

-----------------------------------------------------------------------------
(* executeMirrorTrades                                                     *)

\* The user selects some of the trades; the others are dropped.
Select(picked) ==
  /\ job.pc = "shown" /\ picked \subseteq job.trades
  /\ job' = [job EXCEPT !.pc = "trade", !.trades = picked]
  /\ clean' = (clean /\ picked = job.trades)
  /\ UNCHANGED <<theirs, weight, mine, cash, events>>

\* Sells come before buys.
Due(tr) ==
  /\ tr \in job.trades
  /\ tr.side = "BUY" => \A other \in job.trades : other.side = "BUY"

Cost(tr) == tr.size * Price[tr.token]

Covered(tr) == IF tr.side = "BUY" THEN cash >= Cost(tr)
               ELSE mine[tr.token] >= tr.size

\* executeSingleTrade: the exchange fills the order, or refuses it.
Place(tr) ==
  /\ job.pc = "trade" /\ Due(tr)
  /\ job' = [job EXCEPT !.trades = @ \ {tr}]
  /\ IF Covered(tr)
     THEN LET sign == IF tr.side = "BUY" THEN 1 ELSE 0 - 1 IN
          /\ mine' = [mine EXCEPT ![tr.token] = @ + sign * tr.size]
          /\ cash' = cash - sign * Cost(tr)
          /\ UNCHANGED clean
     ELSE clean' = FALSE /\ UNCHANGED <<mine, cash>>
  /\ UNCHANGED <<theirs, weight, events>>

\* It is refused for another reason, or left resting on the book.
PlaceFails(tr) ==
  /\ job.pc = "trade" /\ Due(tr) /\ Event("refuse")
  /\ job' = [job EXCEPT !.trades = @ \ {tr}]
  /\ clean' = FALSE
  /\ UNCHANGED <<theirs, weight, mine, cash>>

Finish ==
  /\ job.pc = "trade" /\ job.trades = {}
  /\ job' = NoPreview
  /\ UNCHANGED <<theirs, weight, mine, cash, clean, events>>

-----------------------------------------------------------------------------
(* Meanwhile: the tracked wallet trades, its allocation changes, the copy  *)
(* trader buys.                                                            *)

Change ==
  /\ Event("change") /\ clean' = FALSE
  /\ job' = [job EXCEPT !.still = job = NoPreview]

TheyTrade ==
  /\ Change
  /\ theirs' \in Portfolios /\ weight' \in Weights
  /\ UNCHANGED <<mine, cash>>

CopyBuys(t) ==
  /\ Change
  /\ cash >= Minimum * Price[t]
  /\ mine' = [mine EXCEPT ![t] = @ + Minimum]
  /\ cash' = cash - Minimum * Price[t]
  /\ UNCHANGED <<theirs, weight>>

MirrorNext ==
  \/ ReadPositions \/ ReadTotal \/ ReadOwn \/ ReadCash \/ Finish \/ TheyTrade
  \/ \E picked \in SUBSET job.trades : Select(picked)
  \/ \E tr \in job.trades : Place(tr) \/ PlaceFails(tr)
  \/ \E t \in Assets : CopyBuys(t)

MirrorSpec == MirrorInit /\ [][MirrorNext]_mirrorVars

-----------------------------------------------------------------------------
(* Properties                                                              *)

\* What a preview reads when nothing moves and no read fails.
Actual == [NoPreview EXCEPT !.weight = weight, !.shares = theirs,
                            !.total = Value(theirs), !.own = mine]

\* calculateMirrorPreview, executeMirrorTrades: after an execution of a whole
\* preview in which no order failed and nothing changed, the next preview has
\* no trade to propose.
MirrorSettles ==
  job = NoPreview /\ clean => Proposals(Actual, cash) = {}

\* positionMirror.ts:129, "what trades are needed to match the tracked wallet":
\* while nothing moves, a preview proposes to sell a token the tracked wallet
\* holds only if the user has more of it than matches.
SellsOnlySurplus ==
  job.pc = "shown" /\ job.still =>
    \A tr \in job.trades :
      tr.side = "SELL" /\ theirs[tr.token] > 0 => Delta(tr.token, Actual, cash) < 0
=============================================================================
