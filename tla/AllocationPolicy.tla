-------------------------- MODULE AllocationPolicy --------------------------
(***************************************************************************)
(* allocation/policyEngine.ts: the state machine that decides with which   *)
(* weight a discovered wallet is copied, and the gate of copyTrader.ts     *)
(* that reads it.  The discovery worker and the web server are processes   *)
(* of their own, and both evaluate: each reads the stored state, computes  *)
(* the next one, and writes states and transitions in two transactions.    *)
(* A wallet has a row of its own, so one wallet is modelled.  Scores are   *)
(* whole points, rounded down; weights are in hundredths.                  *)
(***************************************************************************)
EXTENDS Integers

CONSTANTS
  Evaluators,   \* processes that evaluate
  Inputs,       \* what discovery may say of the wallet
  Configs,      \* configurations an operator may set
  MaxChanges    \* bound: changes of the input and of the configuration

DEFAULT_CONFIG ==
  [consistentEnter |-> 62, consistentExit |-> 52, hotEnter |-> 78,
   hotExit |-> 68, resumeScore |-> 56, pausedTrust |-> 35,
   pausedCopyability |-> 35, resumeTrust |-> 45, maxHotWeight |-> 175,
   consistentWeight |-> 100, cooldownWeight |-> 50]

ASSUME PolicyAssumption == MaxChanges \in Nat

VARIABLES
  input,     \* what discovery says now
  config,    \* allocation_policy_config over the defaults
  row,       \* allocation_policy_states
  logged,    \* next_state of the last row of allocation_policy_transitions
  eval,      \* each evaluator: the row and the transition it will write
  changes,
  overlapped \* history: two evaluations overlapped, or a process died in one

policyVars ==
  <<input, config, row, logged, eval, changes, overlapped>>

NoRow  == [state |-> "none", weight |-> 0, score |-> 0]
Idle   == [pc |-> "idle", next |-> NoRow, from |-> "none"]

Init ==
  /\ input = CHOOSE i \in Inputs : TRUE
  /\ config = DEFAULT_CONFIG
  /\ row = NoRow /\ logged = "none"
  /\ eval = [e \in Evaluators |-> Idle]
  /\ changes = 0 /\ overlapped = FALSE

-----------------------------------------------------------------------------
(* evaluateOne                                                             *)

Confidence(bucket) ==
  CASE bucket = "high" -> 8 [] bucket = "medium" -> 4 [] OTHER -> 0

Composite(i) ==
  (55 * i.discovery + 25 * i.trust + 20 * i.copyability) \div 100
    + Confidence(i.bucket)

Hysteresis(previous, i) ==
  IF previous.score > 0 THEN (6 * previous.score + 4 * Composite(i)) \div 10
  ELSE Composite(i)

ShouldPause(i, c) ==
  \/ i.suspicious
  \/ i.trust < c.pausedTrust
  \/ i.copyability < c.pausedCopyability

\* Mutant: the two thresholds of CONSISTENT are swapped.
Leaves_Swapped(from, s, i, c) ==
  CASE from = "NEW" ->
         IF s >= c.consistentExit /\ i.bucket # "low" THEN "CONSISTENT" ELSE from
    [] from = "CONSISTENT" ->
         IF s >= c.hotEnter /\ i.bucket = "high" THEN "HOT_STREAK"
         ELSE IF s < c.consistentEnter THEN "COOLDOWN" ELSE from
    [] from = "HOT_STREAK" -> IF s < c.hotExit THEN "CONSISTENT" ELSE from
    [] from = "COOLDOWN" ->
         IF s >= c.consistentExit THEN "CONSISTENT" ELSE from
    [] OTHER -> from

\* Where a state that is not paused goes with hysteresis score s.
Leaves(from, s, i, c) ==
  CASE from = "NEW" ->
         IF s >= c.consistentEnter /\ i.bucket # "low" THEN "CONSISTENT" ELSE from
    [] from = "CONSISTENT" ->
         IF s >= c.hotEnter /\ i.bucket = "high" THEN "HOT_STREAK"
         ELSE IF s < c.consistentExit THEN "COOLDOWN" ELSE from
    [] from = "HOT_STREAK" -> IF s < c.hotExit THEN "CONSISTENT" ELSE from
    [] from = "COOLDOWN" ->
         IF s >= c.consistentEnter THEN "CONSISTENT" ELSE from
    [] OTHER ->
         IF /\ s >= c.resumeScore /\ i.trust >= c.resumeTrust
            /\ i.copyability >= c.pausedCopyability
         THEN "COOLDOWN" ELSE from

MaxOf(a, b) == IF a >= b THEN a ELSE b
MinOf(a, b) == IF a <= b THEN a ELSE b

WeightForState(state, composite, c) ==
  CASE state \in {"NEW", "PAUSED"} -> 0
    [] state = "COOLDOWN"          -> c.cooldownWeight
    [] state = "CONSISTENT"        -> c.consistentWeight
    [] OTHER -> MinOf(c.maxHotWeight,
                  c.consistentWeight + MaxOf(0, composite - c.hotEnter))

\* The row to write over `previous`.
EvaluateOne(previous, i, c) ==
  LET from == IF previous = NoRow THEN "NEW" ELSE previous.state
      s    == Hysteresis(previous, i)
      to   == IF ShouldPause(i, c) THEN "PAUSED" ELSE Leaves(from, s, i, c)
  IN [state |-> to, weight |-> WeightForState(to, Composite(i), c), score |-> s]

-----------------------------------------------------------------------------
(* evaluateAndPersistAllocationPolicies                                    *)

Load(e) ==
  /\ eval[e] = Idle
  /\ eval' = [eval EXCEPT ![e] =
                [pc |-> "states", next |-> EvaluateOne(row, input, config),
                 from |-> IF row = NoRow THEN "NEW" ELSE row.state]]
  /\ overlapped' = (overlapped \/ \E f \in Evaluators \ {e} : eval[f] # Idle)
  /\ UNCHANGED <<input, config, row, logged, changes>>

PersistState(e) ==
  /\ eval[e].pc = "states"
  /\ row' = eval[e].next
  /\ eval' = [eval EXCEPT ![e] = IF @.next.state = @.from THEN Idle
                                 ELSE [@ EXCEPT !.pc = "transition"]]
  /\ UNCHANGED <<input, config, logged, changes, overlapped>>

\* Mutant: the transition is logged with the state it left.
PersistTransition_From(e) ==
  /\ eval[e].pc = "transition"
  /\ logged' = eval[e].from
  /\ eval' = [eval EXCEPT ![e] = Idle]
  /\ UNCHANGED <<input, config, row, changes, overlapped>>

PersistTransition(e) ==
  /\ eval[e].pc = "transition"
  /\ logged' = eval[e].next.state
  /\ eval' = [eval EXCEPT ![e] = Idle]
  /\ UNCHANGED <<input, config, row, changes, overlapped>>

\* The process dies between two statements.
Die(e) ==
  /\ eval[e] # Idle
  /\ changes < MaxChanges /\ changes' = changes + 1
  /\ eval' = [eval EXCEPT ![e] = Idle]
  /\ overlapped' = TRUE
  /\ UNCHANGED <<input, config, row, logged>>

Discover(i) ==
  /\ changes < MaxChanges /\ changes' = changes + 1
  /\ input' = i
  /\ UNCHANGED <<config, row, logged, eval, overlapped>>

\* updateAllocationPolicyConfig: whatever the request holds; no threshold is
\* compared with another.
UpdateConfig(c) ==
  /\ changes < MaxChanges /\ changes' = changes + 1
  /\ config' = c
  /\ UNCHANGED <<input, row, logged, eval, overlapped>>

Next ==
  \/ \E e \in Evaluators :
       Load(e) \/ PersistState(e) \/ PersistTransition(e) \/ Die(e)
  \/ \E i \in Inputs : Discover(i)
  \/ \E c \in Configs : UpdateConfig(c)

Fairness == \A e \in Evaluators :
  WF_policyVars(Load(e) \/ PersistState(e) \/ PersistTransition(e))

Spec     == Init /\ [][Next]_policyVars
FairSpec == Spec /\ Fairness

-----------------------------------------------------------------------------
(* evaluateAllocationGate of copyTrader.ts                                 *)

\* The weight a trade of the wallet is copied with; 0 if it is not copied.
GateWeight(discovered) ==
  IF row = NoRow THEN IF discovered THEN 0 ELSE 100
  ELSE IF row.state = "PAUSED" THEN 0
  ELSE MaxOf(0, MinOf(200, row.weight))

-----------------------------------------------------------------------------
(* Properties                                                              *)

Overlap == \A e \in Evaluators : eval[e] # Idle

\* A score at which a state is entered and left again: the operator set its
\* exit threshold above the one it is entered at, and the score lies between.
Flaps(s, c) ==
  \/ c.consistentEnter <= s /\ s < c.consistentExit
  \/ c.hotEnter <= s /\ s < c.hotExit

\* evaluateOne: once discovery and the operator leave the wallet alone, the
\* policy comes to rest in one state, and the wallet is copied with one weight.
\* Two things can keep it from that for ever, and nothing else: processes that
\* keep overwriting each other's evaluations, and thresholds out of order, which
\* updateAllocationPolicyConfig takes as they come (policyEngine.ts:99), for a
\* wallet whose score lies between them.
PolicySettles ==
  \/ []<>(Overlap \/ Flaps(row.score, config))
  \/ <>[][row'.state = row.state /\ GateWeight(TRUE)' = GateWeight(TRUE)]_row

\* evaluateAndPersistAllocationPolicies: unless two evaluations overlapped or
\* a process died, the history of transitions ends in the stored state.
HistoryExplains ==
  \/ overlapped
  \/ \E e \in Evaluators : eval[e] # Idle
  \/ row.state \in {"none", "NEW"} /\ logged = "none"
  \/ row.state = logged
=============================================================================
