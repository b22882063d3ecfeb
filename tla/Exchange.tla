------------------------------ MODULE Exchange ------------------------------
(***************************************************************************)
(* The Polymarket order book and position index, as copyTrader.ts and      *)
(* tradeExecutor.ts use them.  External to the repository.                 *)
(*                                                                         *)
(* An order is live on the book until it is matched or dies (cancelled or  *)
(* expired).  A matched order shows in the positions API at once, or,      *)
(* with IndexLag, some time later.  Orders are one share each.             *)
(***************************************************************************)
EXTENDS Integers, Sequences, FiniteSets

CONSTANTS
  Holding,   \* shares of every position held by every wallet at the start
  IndexLag   \* TRUE: the positions API trails the order book

ASSUME HoldingAssumption == Holding \in Nat
ASSUME IndexLagAssumption == IndexLag \in BOOLEAN

VARIABLE orders   \* every order the exchange ever accepted; its index is its id

OrderState == {"live", "filled", "indexed", "dead"}

Order(NR, Sides, Trades) ==
  [nr : NR, side : Sides, copies : Trades, at : Nat, state : OrderState]

ExchangeInit == orders = << >>

\* The state of a freshly matched order.
Matched == IF IndexLag THEN "filled" ELSE "indexed"

Effective(o) == o.state # "dead"

\* getOpenOrders answers for the API credentials of one wallet only.
OpenOrders(target) ==
  {i \in DOMAIN orders : orders[i].state = "live" /\ orders[i].nr[2] = target}

IndexedOrders(nr, side) ==
  {i \in DOMAIN orders :
     orders[i].state = "indexed" /\ orders[i].nr = nr /\ orders[i].side = side}

\* The size getUserPositions reports for one wallet and position.
PositionSize(nr) ==
  Holding + Cardinality(IndexedOrders(nr, "BUY"))
          - Cardinality(IndexedOrders(nr, "SELL"))

Accept(nr, side, copied, at, state) ==
  orders' = Append(orders, [nr |-> nr, side |-> side, copies |-> copied,
                            at |-> at, state |-> state])

Become(i, from, to) ==
  /\ orders[i].state = from
  /\ orders' = [orders EXCEPT ![i].state = to]

Match(i)  == Become(i, "live", Matched)
Index(i)  == Become(i, "filled", "indexed")
Cancel(i) == Become(i, "live", "dead")

ExchangeStep == \E i \in DOMAIN orders : Match(i) \/ Index(i) \/ Cancel(i)

=============================================================================
