---------------------------- MODULE MCCopyTrader ----------------------------
(***************************************************************************)
(* Instances of CopyTrader for TLC.  Wallet w1 has no-repeat enabled, w2   *)
(* has the safety minimum only.  One position is enough: every record, key *)
(* and decision concerns one position at a time.                           *)
(***************************************************************************)
EXTENDS CopyTrader, TLC

CONSTANTS c1, c2, p1, w1, w2, t1, t2, x1, x2

Trade(tx, w, side, win) ==
  [tx |-> tx, wallet |-> w, pos |-> p1, side |-> side, window |-> win]

\* A BUY by the protected wallet and one by the other, of the same position.
BuysOfTwo  == {Trade(x1, w1, "BUY", 0), Trade(x2, w2, "BUY", 0)}
\* One fill reported under two transaction hashes: the compound keys agree.
SameFill   == {Trade(x1, w2, "BUY", 0), Trade(x2, w2, "BUY", 0)}
\* A BUY by the protected wallet and a SELL by the other.
BuyAndSell == {Trade(x1, w1, "BUY", 0), Trade(x2, w2, "SELL", 0)}

Periods(n)   == (w1 :> n) @@ (w2 :> 1)
TwoTicks     == Periods(2)
Forever      == Periods(0)
ForeverAndOne == (w1 :> 0) @@ (w2 :> 1)
OneTarget    == [w \in {w1, w2} |-> {t1}]
SecondTarget == [w \in {w1, w2} |-> {t2}]
TwoTargets   == [w \in {w1, w2} |-> {t1, t2}]
HourDay      == {"hour", "day"}
Lengths      == ("hour" :> 1) @@ ("day" :> 3)
Maxima       == ("hour" :> 1) @@ ("day" :> 2)
NoWindow      == [v \in {} |-> 0]
TargetEach    == (w1 :> {t1}) @@ (w2 :> {t2})

=============================================================================
