-------------------------- MODULE MCExitAutomation --------------------------
(* Model checking of ExitAutomation: one token; a ladder of two steps that *)
(* sell half of 4 units, and a stop-loss order.                            *)
EXTENDS ExitAutomation, TLC

CONSTANTS l1, s1, k1

OneToken  == (l1 :> k1) @@ (s1 :> k1)
TwoSteps  == l1 :> <<[trigger |-> 30, percent |-> 50],
                     [trigger |-> 40, percent |-> 50]>>
FourUnits == (l1 :> 4) @@ (s1 :> 4)

\* Entry at 20, floor at 10, trail 25 percent, profit lock at 35.
EntryAt     == s1 :> 20
FloorAt     == s1 :> 10
TrailBy     == s1 :> 25
LockAfter   == s1 :> 15

\* The ticks are interchangeable.
TickSymmetry == Permutations(Ticks)

=============================================================================
