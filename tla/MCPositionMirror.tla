-------------------------- MODULE MCPositionMirror --------------------------
(***************************************************************************)
(* An instance of PositionMirror for TLC: two tokens at 50 and 20 cents;   *)
(* the tracked wallet holds both, the user too.                            *)
(***************************************************************************)
EXTENDS PositionMirror, TLC

CONSTANTS yes, no   \* outcome tokens

Costs     == (yes :> 5) @@ (no :> 2)
Shares(y, n) == (yes :> y) @@ (no :> n)
Whales    == {Shares(100, 100), Shares(200, 50)}
OwnShares == Shares(60, 80)
=============================================================================
