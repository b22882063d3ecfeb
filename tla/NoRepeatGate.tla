---------------------------- MODULE NoRepeatGate ----------------------------
(***************************************************************************)
(* What no-repeat protection promises, whatever the ledger, the            *)
(* reconciliation and the in-memory maps do: on one position of one        *)
(* trading wallet, no order is placed while an earlier one rests on the    *)
(* book, and none within the block period of an earlier one that was not   *)
(* cancelled.  The period is that of the tracked wallet being copied.      *)
(***************************************************************************)
EXTENDS Integers, Sequences

CONSTANTS
  Keys,      \* no-repeat keys: position and trading wallet
  Copied,    \* tracked wallets
  PeriodOf   \* [Copied -> Nat]: block period in ticks, 0 is forever

VARIABLES
  now,
  placed     \* the orders placed, oldest first: [nr, wallet, at, fate]

Fate == {"open", "done", "dead"}

MayPlace(nr, w) ==
  \A i \in DOMAIN placed :
    placed[i].nr = nr /\ placed[i].fate # "dead" =>
      /\ placed[i].fate = "done"
      /\ PeriodOf[w] # 0
      /\ now - placed[i].at >= PeriodOf[w]

Place(nr, w) ==
  /\ MayPlace(nr, w)
  /\ \E fate \in {"open", "done"} :
       placed' = Append(placed, [nr |-> nr, wallet |-> w, at |-> now, fate |-> fate])
  /\ UNCHANGED now

Settle(i) ==
  /\ placed[i].fate = "open"
  /\ \E fate \in {"done", "dead"} :
       placed' = [placed EXCEPT ![i].fate = fate]
  /\ UNCHANGED now

Tick == now' = now + 1 /\ UNCHANGED placed

Init == now = 0 /\ placed = << >>

Next ==
  \/ \E nr \in Keys, w \in Copied : Place(nr, w)
  \/ \E i \in DOMAIN placed : Settle(i)
  \/ Tick

Spec == Init /\ [][Next]_<<now, placed>>

=============================================================================
