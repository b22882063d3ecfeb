--------------------------- MODULE Trading_proofs ----------------------------
(***************************************************************************)
(* Proofs about the allocation policy, the redemption of positions and the *)
(* mirror of a tracked wallet.                                             *)
(***************************************************************************)
EXTENDS FoldFacts, AllocationPolicy, PositionLifecycle, PositionMirror

-----------------------------------------------------------------------------
(***************************************************************************)
(* AllocationPolicy.                                                       *)
(*                                                                         *)
(* HistoryExplains, and the edges of the state machine, for any number of  *)
(* evaluating processes, any inputs and any configurations: the proofs     *)
(* never look at a score or a threshold.                                   *)
(***************************************************************************)

PolicyStates == {"NEW", "CONSISTENT", "HOT_STREAK", "COOLDOWN", "PAUSED"}

\* The state evaluateOne takes a wallet to be in: NEW without a row.
Stored(r) == IF r = NoRow THEN "NEW" ELSE r.state

\* Where one evaluation may take a wallet from each state.
Follows(from) ==
  CASE from = "NEW"        -> {"NEW", "CONSISTENT", "PAUSED"}
    [] from = "CONSISTENT" -> {"CONSISTENT", "HOT_STREAK", "COOLDOWN", "PAUSED"}
    [] from = "HOT_STREAK" -> {"HOT_STREAK", "CONSISTENT", "PAUSED"}
    [] from = "COOLDOWN"   -> {"COOLDOWN", "CONSISTENT", "PAUSED"}
    [] OTHER               -> {"PAUSED", "COOLDOWN"}

RowOk(r) == r = NoRow \/ r.state \in PolicyStates

\* An evaluation under way, whatever the others do.
UnderWay(v) ==
  /\ v \in [pc : {"states", "transition"}, next : {v.next}, from : PolicyStates]
  /\ v.next.state \in Follows(v.from)

\* The log ends in row r.
Explained(r, l) ==
  \/ r.state \in {"none", "NEW"} /\ l = "none"
  \/ r.state = l

\* What an evaluation that no other overlaps has found, or has still to write.
Alone(v, r, l) ==
  /\ v.pc = "states" => Explained(r, l) /\ v.from = Stored(r)
  /\ v.pc = "transition" => r.state = v.next.state

\* The inductive invariant.
HistoryInv ==
  /\ RowOk(row)
  /\ DOMAIN eval = Evaluators
  /\ eval = [e \in Evaluators |-> eval[e]]
  /\ \A e \in Evaluators : eval[e] = Idle \/ UnderWay(eval[e])
  /\ ~overlapped =>
       /\ \A e, f \in Evaluators : eval[e] # Idle /\ eval[f] # Idle => e = f
       /\ \A e \in Evaluators : Alone(eval[e], row, logged)
       /\ (\A e \in Evaluators : eval[e] = Idle) => Explained(row, logged)

-----------------------------------------------------------------------------

LEMMA FollowsStates ==
  ASSUME NEW from
  PROVE  Follows(from) \subseteq PolicyStates
BY DEF Follows, PolicyStates

\* evaluateOne follows the edges of the state machine.
LEMMA EvaluateFollows ==
  ASSUME NEW r, NEW i, NEW c, RowOk(r)
  PROVE  /\ Stored(r) \in PolicyStates
         /\ EvaluateOne(r, i, c).state \in Follows(Stored(r))
<1> DEFINE from == Stored(r)
           s    == Hysteresis(r, i)
           to   == IF ShouldPause(i, c) THEN "PAUSED" ELSE Leaves(from, s, i, c)
<1>1. from \in PolicyStates
  BY DEF Stored, RowOk, PolicyStates
<1>2. EvaluateOne(r, i, c).state = to
  BY DEF EvaluateOne, Stored
<1>3. "PAUSED" \in Follows(from)
  BY <1>1 DEF Follows, PolicyStates
<1>4. Leaves(from, s, i, c) \in Follows(from)
  <2> HIDE DEF s
  <2>1. CASE from = "NEW"        BY <2>1 DEF Leaves, Follows
  <2>2. CASE from = "CONSISTENT" BY <2>2 DEF Leaves, Follows
  <2>3. CASE from = "HOT_STREAK" BY <2>3 DEF Leaves, Follows
  <2>4. CASE from = "COOLDOWN"   BY <2>4 DEF Leaves, Follows
  <2>5. CASE from = "PAUSED"     BY <2>5 DEF Leaves, Follows
  <2> QED BY <1>1, <2>1, <2>2, <2>3, <2>4, <2>5 DEF PolicyStates
<1> QED BY <1>1, <1>2, <1>3, <1>4

LEMMA IdleIsIdle ==
  ASSUME NEW v, v = Idle \/ UnderWay(v)
  PROVE  (v = Idle) <=> (v.pc = "idle")
BY DEF Idle, UnderWay

LEMMA HistoryLoad ==
  ASSUME HistoryInv, NEW e \in Evaluators, Load(e)
  PROVE  HistoryInv'
<1> DEFINE v == [pc |-> "states", next |-> EvaluateOne(row, input, config),
                 from |-> Stored(row)]
<1>1. /\ eval' = [eval EXCEPT ![e] = v] /\ eval[e] = Idle
      /\ UNCHANGED <<row, logged>>
      /\ overlapped' = (overlapped \/ \E f \in Evaluators \ {e} : eval[f] # Idle)
  BY DEF Load, Stored
<1>2. UnderWay(v)
  <2>1. /\ Stored(row) \in PolicyStates
        /\ EvaluateOne(row, input, config).state \in Follows(Stored(row))
    BY EvaluateFollows DEF HistoryInv
  <2> HIDE DEF v
  <2>2. /\ v.next = EvaluateOne(row, input, config)
        /\ v.from = Stored(row) /\ v.pc = "states"
    BY DEF v
  <2>3. v \in [pc : {"states", "transition"}, next : {v.next}, from : PolicyStates]
    BY <2>1, <2>2 DEF v
  <2> QED BY <2>1, <2>2, <2>3 DEF UnderWay
<1>3. eval'[e] = v /\ \A f \in Evaluators \ {e} : eval'[f] = eval[f]
  BY <1>1 DEF HistoryInv
<1>4. v # Idle
  BY DEF Idle
<1>5. /\ RowOk(row') /\ DOMAIN eval' = Evaluators
      /\ eval' = [f \in Evaluators |-> eval'[f]]
      /\ \A f \in Evaluators : eval'[f] = Idle \/ UnderWay(eval'[f])
  <2> HIDE DEF v
  <2> QED BY <1>1, <1>2, <1>3 DEF HistoryInv
<1>6. ASSUME ~overlapped'
      PROVE  /\ \A a, f \in Evaluators : eval'[a] # Idle /\ eval'[f] # Idle => a = f
             /\ \A a \in Evaluators : Alone(eval'[a], row', logged')
             /\ ~ \A a \in Evaluators : eval'[a] = Idle
  <2>1. ~overlapped /\ \A f \in Evaluators \ {e} : eval[f] = Idle
    BY <1>1, <1>6
  <2>2. Explained(row, logged)
    BY <1>1, <2>1 DEF HistoryInv
  <2>3. Alone(v, row, logged)
    BY <2>2 DEF Alone
  <2>4. \A f \in Evaluators : Alone(eval[f], row, logged)
    BY <2>1 DEF HistoryInv
  <2> HIDE DEF v
  <2> QED BY <1>1, <1>3, <1>4, <2>1, <2>3, <2>4
<1> QED BY <1>5, <1>6 DEF HistoryInv

\* A write by evaluator e that leaves it with v and the row with r.
LEMMA HistoryWrite ==
  ASSUME HistoryInv, NEW e \in Evaluators, NEW v, NEW r, NEW l,
         eval[e] # Idle,
         eval' = [eval EXCEPT ![e] = v], row' = r, logged' = l,
         UNCHANGED overlapped,
         RowOk(r), v = Idle \/ UnderWay(v),
         ~overlapped => Alone(v, r, l) /\ (v = Idle => Explained(r, l))
  PROVE  HistoryInv'
<1>1. eval'[e] = v /\ \A f \in Evaluators \ {e} : eval'[f] = eval[f]
  BY DEF HistoryInv
<1>2. /\ RowOk(row') /\ DOMAIN eval' = Evaluators
      /\ eval' = [f \in Evaluators |-> eval'[f]]
      /\ \A f \in Evaluators : eval'[f] = Idle \/ UnderWay(eval'[f])
  BY <1>1 DEF HistoryInv
<1>3. ASSUME ~overlapped'
      PROVE  /\ \A a, f \in Evaluators : eval'[a] # Idle /\ eval'[f] # Idle => a = f
             /\ \A a \in Evaluators : Alone(eval'[a], row', logged')
             /\ (\A a \in Evaluators : eval'[a] = Idle) => Explained(row', logged')
  <2>1. \A f \in Evaluators \ {e} : eval[f] = Idle
    BY <1>3 DEF HistoryInv
  <2>2. Alone(Idle, r, l)
    BY DEF Alone, Idle
  <2> QED BY <1>1, <1>3, <2>1, <2>2
<1> QED BY <1>2, <1>3 DEF HistoryInv

LEMMA HistoryPersist ==
  ASSUME HistoryInv, NEW e \in Evaluators, PersistState(e) \/ PersistTransition(e)
  PROVE  HistoryInv'
<1> DEFINE v == eval[e]
<1>1. UnderWay(v) /\ v # Idle
  BY IdleIsIdle DEF HistoryInv, PersistState, PersistTransition, Idle
<1>2. v.next.state \in PolicyStates /\ v.next # NoRow /\ RowOk(v.next)
  <2>1. v.next.state \in PolicyStates
    BY <1>1, FollowsStates DEF UnderWay
  <2> QED BY <2>1 DEF NoRow, PolicyStates, RowOk
<1>3. ~overlapped => Alone(v, row, logged)
  BY DEF HistoryInv
<1>4. RowOk(row)
  BY DEF HistoryInv
<1>5. Alone(Idle, v.next, logged)
  BY DEF Alone, Idle
<1>6. CASE PersistState(e) /\ v.next.state = v.from
  <2>1. /\ eval' = [eval EXCEPT ![e] = Idle] /\ row' = v.next
        /\ UNCHANGED <<logged, overlapped>> /\ v.pc = "states"
    BY <1>6 DEF PersistState
  <2>2. ASSUME ~overlapped PROVE Explained(v.next, logged)
    <3>1. Explained(row, logged) /\ v.next.state = Stored(row)
      BY <1>3, <1>6, <2>1, <2>2 DEF Alone
    <3>2. CASE row = NoRow
      BY <3>1, <3>2 DEF Explained, Stored, NoRow
    <3>3. CASE row # NoRow
      BY <3>1, <3>3, <1>4 DEF Explained, Stored, RowOk, PolicyStates
    <3> QED BY <3>2, <3>3
  <2> HIDE DEF v
  <2> QED BY <1>1, <1>2, <1>5, <2>1, <2>2, HistoryWrite DEF v
<1>7. CASE PersistState(e) /\ v.next.state # v.from
  <2> DEFINE w == [v EXCEPT !.pc = "transition"]
  <2>1. /\ eval' = [eval EXCEPT ![e] = w] /\ row' = v.next
        /\ UNCHANGED <<logged, overlapped>>
    BY <1>7 DEF PersistState
  <2>2. /\ w.next = v.next /\ w.from = v.from /\ w.pc = "transition"
        /\ w \in [pc : {"states", "transition"}, next : {v.next}, from : PolicyStates]
    <3> HIDE DEF v
    <3> QED BY <1>1 DEF UnderWay
  <2> HIDE DEF v, w
  <2>3. UnderWay(w) /\ w # Idle
    BY <1>1, <2>2 DEF UnderWay, Idle
  <2>4. Alone(w, v.next, logged)
    BY <2>2 DEF Alone
  <2> QED BY <1>1, <1>2, <2>1, <2>3, <2>4, HistoryWrite DEF v
<1>8. CASE PersistTransition(e)
  <2>1. /\ eval' = [eval EXCEPT ![e] = Idle] /\ logged' = v.next.state
        /\ UNCHANGED <<row, overlapped>> /\ v.pc = "transition"
    BY <1>8 DEF PersistTransition
  <2>2. ~overlapped => Explained(row, v.next.state)
    BY <1>3, <2>1 DEF Alone, Explained
  <2>3. Alone(Idle, row, v.next.state)
    BY DEF Alone, Idle
  <2> HIDE DEF v
  <2> QED BY <1>1, <1>4, <2>1, <2>2, <2>3, HistoryWrite DEF v
<1> QED BY <1>6, <1>7, <1>8

LEMMA HistoryStep ==
  ASSUME HistoryInv, [Next]_policyVars
  PROVE  HistoryInv'
<1>1. CASE UNCHANGED policyVars
  BY <1>1 DEF HistoryInv, policyVars
<1>2. CASE \E i \in Inputs : Discover(i)
  BY <1>2 DEF HistoryInv, Discover
<1>3. CASE \E c \in Configs : UpdateConfig(c)
  BY <1>3 DEF HistoryInv, UpdateConfig
<1>4. ASSUME NEW e \in Evaluators, Load(e) PROVE HistoryInv'
  BY <1>4, HistoryLoad
<1>5. ASSUME NEW e \in Evaluators, PersistState(e) \/ PersistTransition(e)
      PROVE  HistoryInv'
  BY <1>5, HistoryPersist
<1>6. ASSUME NEW e \in Evaluators, Die(e) PROVE HistoryInv'
  <2>1. eval' = [eval EXCEPT ![e] = Idle] /\ overlapped' /\ row' = row
    BY <1>6 DEF Die
  <2> QED BY <2>1 DEF HistoryInv
<1> QED BY <1>1, <1>2, <1>3, <1>4, <1>5, <1>6 DEF Next

LEMMA HistoryInit == Init => HistoryInv
<1> SUFFICES ASSUME Init PROVE HistoryInv
  OBVIOUS
<1>1. /\ eval = [e \in Evaluators |-> Idle] /\ row = NoRow /\ logged = "none"
  BY DEF Init
<1>2. Alone(Idle, row, logged) /\ Explained(row, logged)
  BY <1>1 DEF Alone, Explained, Idle, NoRow
<1> QED BY <1>1, <1>2 DEF HistoryInv, RowOk

-----------------------------------------------------------------------------

\* persistStateBatch and persistTransitions write in two transactions: unless
\* two evaluations overlapped or a process died between them, the last row of
\* allocation_policy_transitions names the stored state, for any number of
\* processes, any scores and any thresholds.
THEOREM HistoryTold == Spec => []HistoryExplains
<1>1. HistoryInv => HistoryExplains
  BY DEF HistoryInv, HistoryExplains, Explained
<1> QED BY <1>1, HistoryInit, HistoryStep, PTL DEF Spec

\* evaluateOne: no evaluation takes a wallet along an edge the state machine
\* does not have, so that a PAUSED wallet is copied again only after COOLDOWN,
\* and HOT_STREAK is reached from CONSISTENT only; what may break it is an
\* evaluation written over another's.
THEOREM EdgesFollowed ==
  Spec => [][~overlapped => row'.state \in Follows(Stored(row))]_row
<1> DEFINE Edge == [~overlapped => row'.state \in Follows(Stored(row))]_row
<1>1. HistoryInv /\ [Next]_policyVars => Edge
  <2> SUFFICES ASSUME HistoryInv, [Next]_policyVars, row' # row, ~overlapped
               PROVE  row'.state \in Follows(Stored(row))
    OBVIOUS
  <2>1. PICK e \in Evaluators : PersistState(e)
    BY DEF Next, policyVars, Load, PersistTransition, Die, Discover, UpdateConfig
  <2>2. row' = eval[e].next /\ eval[e].pc = "states"
    BY <2>1 DEF PersistState
  <2>3. Alone(eval[e], row, logged) /\ UnderWay(eval[e])
    BY <2>2 DEF HistoryInv, Idle
  <2> QED BY <2>2, <2>3 DEF Alone, UnderWay
<1> QED BY <1>1, HistoryInit, HistoryStep, PTL DEF Spec

-----------------------------------------------------------------------------
(***************************************************************************)
(* PositionLifecycle, for any conditions, amounts, requests and runs.      *)
(*                                                                         *)
(* Why no more is counted than was paid: a run counts what it redeemed     *)
(* only after its own transaction was mined, and once.  What is counted    *)
(* and what the runs under way may still count is never more than what was *)
(* paid, unless a transaction paid less than the size its entry says.      *)
(***************************************************************************)

(* What the chain, the lists and the runs are made of.                     *)

Entries == [token : Tokens, size : Nat, redeem : BOOLEAN]
RunStates == [pc : {"idle", "list", "merges", "next", "relay", "wait"},
              auto : BOOLEAN, seen : SUBSET Tokens, list : SUBSET Entries,
              entry : Entries \union {NoEntry}, done : BOOLEAN]

\* A redemption is of the outcome that won.
Won(e) == e.redeem => winner[e.token[1]] = e.token[2]

\* The entries a run has listed, and the one it has sent a transaction for.
InHand(x) == x.list \union (IF x.pc \in {"relay", "wait"} THEN {x.entry} ELSE {})

RunOK(x) == /\ x \in RunStates
            /\ \A e \in InHand(x) : e \in Entries /\ Won(e)

\* So are those whose transaction may still be mined.
LateOK == \A e \in DOMAIN late : e \in Entries /\ Won(e)

ChainOK == /\ balance \in [Tokens -> Nat] /\ shown \in [Tokens -> Nat]
           /\ winner \in [Conditions -> Outcomes \union {"open"}]
           /\ LateOK

RunsOK == run \in [Runs -> RunStates] /\ \A r \in Runs : RunOK(run[r])

\* What a run still adds to the total, if it is told: its transaction was mined.
Adds(x) == IF x.pc = "wait" /\ x.done THEN x.entry.size ELSE 0

\* What has been counted and what may be is not more than was paid.
Backed == \E c, g : /\ IsTotal(g, Runs, [r \in Runs |-> Adds(run[r])], c)
                     /\ totalRecovered + g[Runs] <= paid

RecoveryInv ==
  /\ ChainOK /\ RunsOK
  /\ totalRecovered \in Nat /\ paid \in Nat
  /\ astray \/ Backed

LEMMA ChainStays ==
  ASSUME ChainOK, UNCHANGED chain
  PROVE  ChainOK'
<1>1. balance' = balance /\ shown' = shown /\ winner' = winner /\ late' = late
  BY DEF chain
<1>2. LateOK'
  BY <1>1 DEF ChainOK, LateOK, Won
<1>3. QED
  BY <1>1, <1>2 DEF ChainOK

\* Transactions are added to the late ones, or taken from them.
LEMMA LateChanges ==
  ASSUME LateOK, UNCHANGED winner, NEW B, \A e \in DOMAIN B : e \in Entries /\ Won(e),
         late' = late (+) B \/ late' = late (-) B
  PROVE  LateOK'
<1>1. \A e \in DOMAIN late' : e \in DOMAIN late \/ e \in DOMAIN B
  BY DEF (+), (-)
<1>2. QED
  BY <1>1 DEF LateOK, Won

LEMMA AddsNumber ==
  ASSUME NEW x, RunOK(x)
  PROVE  Adds(x) \in Nat
BY DEF RunOK, InHand, Adds, Entries

-----------------------------------------------------------------------------
(* Runs.                                                                   *)

\* The runs that may follow from one, as long as its transaction is not mined.
LEMMA NoRunOK == RunOK(NoRun) /\ Adds(NoRun) = 0
<1>1. NoRun \in RunStates /\ NoRun.list = {} /\ NoRun.pc = "idle"
  BY DEF NoRun, RunStates, NoEntry
<1>2. QED
  BY <1>1 DEF RunOK, InHand, Adds

LEMMA StartsOK ==
  ASSUME RunsOK, NEW r \in Runs, NEW auto \in BOOLEAN, Starts(r, auto)
  PROVE  /\ run' = [run EXCEPT ![r] = run'[r]]
         /\ RunOK(run'[r]) /\ Adds(run[r]) = 0 /\ Adds(run'[r]) = 0
<1>1. PICK x : x = [NoRun EXCEPT !.pc = "list", !.auto = auto]
  OBVIOUS
<1>2. x \in RunStates /\ x.list = {} /\ x.pc = "list"
  BY <1>1 DEF NoRun, RunStates, NoEntry
<1>3. run[r] = NoRun /\ run' = [run EXCEPT ![r] = x]
  BY <1>1 DEF Starts
<1>4. run'[r] = x
  BY <1>3 DEF RunsOK
<1>5. QED
  BY <1>2, <1>3, <1>4, NoRunOK DEF RunOK, InHand, Adds

\* One run goes on as x.
LEMMA RunGoesOn ==
  ASSUME RunsOK, UNCHANGED winner, NEW r \in Runs, NEW x, RunOK(x),
         run' = [run EXCEPT ![r] = x]
  PROVE  RunsOK'
<1>1. run' \in [Runs -> RunStates] /\ \A q \in Runs : run'[q] = IF q = r THEN x ELSE run[q]
  BY DEF RunsOK, RunOK
<1>2. \A e : Won(e)' <=> Won(e)
  BY DEF Won
<1>3. \A q \in Runs : RunOK(run'[q])
  BY <1>1 DEF RunsOK
<1>4. QED
  BY <1>1, <1>2, <1>3 DEF RunsOK, RunOK

LEMMA StillCovered ==
  ASSUME RunsOK, totalRecovered \in Nat, paid \in Nat,
         totalRecovered' \in Nat, paid' \in Nat, Backed,
         NEW r \in Runs, NEW x, RunOK(x), run' = [run EXCEPT ![r] = x],
         totalRecovered' + Adds(x) + paid <= totalRecovered + Adds(run[r]) + paid'
  PROVE  Backed'
<1>1. PICK v, w : v = [q \in Runs |-> Adds(run[q])] /\ w = [q \in Runs |-> Adds(run'[q])]
  OBVIOUS
<1>2. PICK c, g : IsTotal(g, Runs, v, c) /\ totalRecovered + g[Runs] <= paid
  BY <1>1 DEF Backed
<1>3. \A q \in Runs : run'[q] = IF q = r THEN x ELSE run[q]
  BY DEF RunsOK
<1>4. /\ v[r] = Adds(run[r]) /\ v[r] \in Nat /\ w[r] = Adds(x) /\ w[r] \in Nat
      /\ w \in [Runs -> Nat] /\ \A q \in Runs \ {r} : w[q] = v[q]
  <2>1. \A q \in Runs : Adds(run[q]) \in Nat /\ Adds(run'[q]) \in Nat
    BY <1>3, AddsNumber DEF RunsOK
  <2>2. QED
    BY <1>1, <1>3, <2>1
<1>5. PICK h : IsTotal(h, Runs, w, c) /\ h[Runs] = g[Runs] - v[r] + w[r]
  <2>1. IsFiniteSet(Runs)
    BY LifecycleAssumption
  <2>2. \E h : IsTotal(h, Runs, w, c) /\ h[Runs] = g[Runs] - v[r] + w[r]
    BY <1>2, <1>4, <2>1, TotalChanges
  <2>3. QED
    BY <2>2
<1>6. g[Runs] \in Nat
  BY <1>2 DEF IsTotal
<1>7. totalRecovered' + h[Runs] <= paid'
  <2>1. PICK i \in Nat, j \in Nat, k \in Nat, a \in Nat, b \in Nat :
          /\ i = g[Runs] /\ j = v[r] /\ k = w[r]
          /\ a = totalRecovered /\ b = totalRecovered'
    BY <1>4, <1>6
  <2>2. b + k + paid <= a + j + paid' /\ a + i <= paid /\ h[Runs] = i - j + k
    BY <1>2, <1>4, <1>5, <2>1
  <2>3. QED
    BY <2>1, <2>2
<1>8. Backed'
  BY <1>1, <1>5, <1>7 DEF Backed
<1>9. QED
  BY <1>8

\* A step that moves one run, and nothing of the totals.
LEMMA RunTold ==
  ASSUME RecoveryInv, UNCHANGED totals, ChainOK', RunsOK', NEW r \in Runs,
         NEW x, RunOK(x), run' = [run EXCEPT ![r] = x], Adds(x) = 0
  PROVE  RecoveryInv'
<1>1. totalRecovered' = totalRecovered /\ paid' = paid /\ astray' = astray
  BY DEF totals
<1>2. Adds(run[r]) \in Nat
  BY AddsNumber DEF RecoveryInv, RunsOK
<1>3. totalRecovered' + Adds(x) + paid <= totalRecovered + Adds(run[r]) + paid'
  BY <1>1, <1>2 DEF RecoveryInv
<1>4. ~astray => Backed'
  BY <1>1, <1>3, StillCovered DEF RecoveryInv
<1>5. QED
  BY <1>1, <1>4 DEF RecoveryInv

LEMMA RunMoves ==
  ASSUME RecoveryInv, UNCHANGED <<chain, totals>>, NEW r \in Runs, NEW x, RunOK(x),
         run' = [run EXCEPT ![r] = x], Adds(x) = 0
  PROVE  RecoveryInv'
<1>1. ChainOK' /\ RunsOK'
  BY RunGoesOn, ChainStays DEF RecoveryInv, chain
<1>2. QED
  BY <1>1, RunTold

LEMMA SameRuns ==
  ASSUME RecoveryInv, UNCHANGED <<run, winner, totals>>, ChainOK'
  PROVE  RecoveryInv'
<1>1. RunsOK' /\ (Backed' <=> Backed)
  BY DEF RecoveryInv, RunsOK, RunOK, Won, Backed, totals
<1>2. QED
  BY <1>1 DEF RecoveryInv, totals

LEMMA MayStart ==
  ASSUME RecoveryInv, UNCHANGED <<chain, totals>>,
         \/ Check \/ UNCHANGED run
         \/ \E r \in Runs, auto \in BOOLEAN : Starts(r, auto)
  PROVE  RecoveryInv'
<1>1. CASE UNCHANGED run
  BY <1>1, SameRuns, ChainStays DEF RecoveryInv, chain
<1>2. CASE \E r \in Runs, auto \in BOOLEAN : Starts(r, auto)
  <2>1. PICK r \in Runs, auto \in BOOLEAN : Starts(r, auto)
    BY <1>2
  <2>2. PICK x : x = run'[r]
    OBVIOUS
  <2>3. run' = [run EXCEPT ![r] = x] /\ RunOK(x) /\ Adds(run[r]) = 0 /\ Adds(x) = 0
    BY <2>1, <2>2, StartsOK DEF RecoveryInv
  <2>4. QED
    BY <2>3, RunMoves
<1>3. QED
  BY <1>1, <1>2 DEF Check

-----------------------------------------------------------------------------
(* The steps of a run.                                                     *)

\* Every redemption that is listed is of the outcome that won.
LEMMA EntryOK ==
  ASSUME ChainOK, NEW t \in Tokens, NEW b \in BOOLEAN, b => winner[t[1]] = t[2]
  PROVE  EntryOf(t, b) \in Entries /\ Won(EntryOf(t, b))
BY DEF ChainOK, Entries, Won, EntryOf

LEMMA Lists ==
  ASSUME RecoveryInv, NEW r \in Runs,
         ListRedeemable(r) \/ ListMergeable(r) \/ ListFails(r)
  PROVE  RecoveryInv'
<1>1. /\ RunOK(run[r]) /\ run[r] \in RunStates /\ run[r].pc \in {"list", "merges"}
      /\ ChainOK
  BY DEF RecoveryInv, RunsOK, RunOK, ListRedeemable, ListMergeable, ListFails
<1>2. UNCHANGED <<chain, totals>>
  BY DEF ListRedeemable, ListMergeable, ListFails
<1>3. CASE ListRedeemable(r)
  <2>1. PICK l : l = Redemptions
    OBVIOUS
  <2>2. PICK x : x = [run[r] EXCEPT !.pc = "merges", !.seen = Redeemable, !.list = l]
    OBVIOUS
  <2>3. \A e \in l : e \in Entries /\ Won(e)
    BY <1>1, <2>1, EntryOK DEF Redeemable, Redemptions
  <2>4. x \in RunStates /\ x.pc = "merges" /\ x.list = l
    <3>1. l \in SUBSET Entries /\ Redeemable \in SUBSET Tokens
      BY <2>3 DEF Redeemable
    <3>2. QED
      BY <1>1, <2>2, <3>1 DEF RunStates
  <2>5. RunOK(x) /\ Adds(x) = 0
    BY <2>3, <2>4 DEF RunOK, InHand, Adds
  <2>6. run' = [run EXCEPT ![r] = x]
    BY <1>3, <2>1, <2>2 DEF ListRedeemable
  <2>7. QED
    BY <1>2, <2>5, <2>6, RunMoves
<1>4. CASE ListMergeable(r)
  <2>1. PICK m : m = Merges(run[r].seen)
    OBVIOUS
  <2>2. PICK x : x = [run[r] EXCEPT !.pc = "next", !.seen = {},
                                    !.list = run[r].list \union m]
    OBVIOUS
  <2>3. \A e \in m : e \in Entries /\ Won(e)
    BY <1>1, <2>1, EntryOK DEF Mergeable, Merges
  <2>4. x \in RunStates /\ x.pc = "next" /\ x.list = run[r].list \union m
    <3>1. m \in SUBSET Entries
      BY <2>3
    <3>2. QED
      BY <1>1, <2>2, <3>1 DEF RunStates
  <2>5. RunOK(x) /\ Adds(x) = 0
    BY <1>1, <2>3, <2>4 DEF RunOK, InHand, Adds
  <2>6. run' = [run EXCEPT ![r] = x]
    BY <1>4, <2>1, <2>2 DEF ListMergeable
  <2>7. QED
    BY <1>2, <2>5, <2>6, RunMoves
<1>5. CASE ListFails(r)
  <2>1. run' = [run EXCEPT ![r] = NoRun]
    BY <1>5 DEF ListFails
  <2>2. QED
    BY <1>2, <2>1, NoRunOK, RunMoves
<1>6. QED
  BY <1>3, <1>4, <1>5

LEMMA TakesNext ==
  ASSUME RecoveryInv, NEW r \in Runs, NextEntry(r)
  PROVE  RecoveryInv'
<1>1. RunOK(run[r]) /\ run[r] \in RunStates /\ run[r].pc = "next"
  BY DEF RecoveryInv, RunsOK, RunOK, NextEntry
<1>2. Adds(run[r]) = 0 /\ UNCHANGED <<chain, totals>>
  BY <1>1 DEF Adds, NextEntry
<1>3. CASE run' = [run EXCEPT ![r] = NoRun]
  BY <1>2, <1>3, NoRunOK, RunMoves
<1>4. CASE \E e \in run[r].list :
             LET rest == [run[r] EXCEPT !.list = @ \ {e}] IN
             run' = [run EXCEPT ![r] = IF Wanted(r, e)
                       THEN [rest EXCEPT !.pc = "relay", !.entry = e] ELSE rest]
  <2>1. PICK e : e \in run[r].list /\
          LET rest == [run[r] EXCEPT !.list = @ \ {e}] IN
          run' = [run EXCEPT ![r] = IF Wanted(r, e)
                    THEN [rest EXCEPT !.pc = "relay", !.entry = e] ELSE rest]
    BY <1>4
  <2>2. PICK rest :
          /\ rest = [run[r] EXCEPT !.list = @ \ {e}]
          /\ run' = [run EXCEPT ![r] = IF Wanted(r, e)
                       THEN [rest EXCEPT !.pc = "relay", !.entry = e] ELSE rest]
    BY <2>1
  <2>3. e \in Entries /\ Won(e) /\ \A d \in run[r].list : d \in Entries /\ Won(d)
    BY <1>1, <2>1 DEF RunOK, InHand
  <2>4. rest \in RunStates /\ rest.pc = "next" /\ rest.list = run[r].list \ {e}
    BY <1>1, <2>2 DEF RunStates
  <2>5. RunOK(rest) /\ Adds(rest) = 0
    BY <2>3, <2>4 DEF RunOK, InHand, Adds
  <2>6. PICK x : x = [rest EXCEPT !.pc = "relay", !.entry = e]
    OBVIOUS
  <2>7. x \in RunStates /\ x.pc = "relay" /\ x.list = rest.list /\ x.entry = e
    BY <2>3, <2>4, <2>6 DEF RunStates
  <2>8. RunOK(x) /\ Adds(x) = 0
    BY <2>3, <2>4, <2>7 DEF RunOK, InHand, Adds
  <2>9. run' = [run EXCEPT ![r] = x] \/ run' = [run EXCEPT ![r] = rest]
    BY <2>2, <2>6
  <2>10. QED
    BY <1>2, <2>5, <2>8, <2>9, RunMoves
<1>5. QED
  BY <1>3, <1>4 DEF NextEntry

\* A transaction that is given up, or answered.
LEMMA GoesBack ==
  ASSUME RecoveryInv, NEW r \in Runs, run[r].pc \in {"relay", "wait"}
  PROVE  LET x == [run[r] EXCEPT !.pc = "next", !.entry = NoEntry, !.done = FALSE] IN
         RunOK(x) /\ Adds(x) = 0
<1>1. RunOK(run[r]) /\ run[r] \in RunStates
  BY DEF RecoveryInv, RunsOK, RunOK
<1>2. PICK x : x = [run[r] EXCEPT !.pc = "next", !.entry = NoEntry, !.done = FALSE]
  OBVIOUS
<1>3. x \in RunStates /\ x.pc = "next" /\ x.list = run[r].list
  BY <1>1, <1>2 DEF RunStates
<1>4. RunOK(x) /\ Adds(x) = 0
  BY <1>1, <1>3 DEF RunOK, InHand, Adds
<1>5. QED
  BY <1>2, <1>4

LEMMA Fails ==
  ASSUME RecoveryInv, NEW r \in Runs, RelayFails(r)
  PROVE  RecoveryInv'
<1>1. PICK x : x = [run[r] EXCEPT !.pc = "next", !.entry = NoEntry, !.done = FALSE]
  OBVIOUS
<1>2. /\ run[r].pc \in {"relay", "wait"} /\ run' = [run EXCEPT ![r] = x]
      /\ UNCHANGED <<balance, shown, winner, totals>>
  BY <1>1 DEF RelayFails
<1>3. RunOK(x) /\ Adds(x) = 0
  BY <1>1, <1>2, GoesBack
<1>4. LateOK'
  <2>1. CASE UNCHANGED late
    BY <1>2, <2>1 DEF RecoveryInv, ChainOK, LateOK, Won
  <2>2. CASE late' = late (+) SetToBag({run[r].entry})
    <3>1. run[r].entry \in Entries /\ Won(run[r].entry)
      BY <1>2 DEF RecoveryInv, RunsOK, RunOK, InHand
    <3>2. DOMAIN SetToBag({run[r].entry}) = {run[r].entry}
      BY DEF SetToBag
    <3>3. QED
      BY <1>2, <2>2, <3>1, <3>2, LateChanges DEF RecoveryInv, ChainOK
  <2>3. QED
    BY <2>1, <2>2 DEF RelayFails
<1>5. ChainOK' /\ RunsOK'
  BY <1>2, <1>3, <1>4, RunGoesOn DEF RecoveryInv, ChainOK
<1>6. QED
  BY <1>2, <1>3, <1>5, RunTold

\* What is counted was paid before: the size of an entry whose transaction was
\* mined.
LEMMA Answers ==
  ASSUME RecoveryInv, NEW r \in Runs, Answered(r)
  PROVE  RecoveryInv'
<1>1. PICK x : x = [run[r] EXCEPT !.pc = "next", !.entry = NoEntry, !.done = FALSE]
  OBVIOUS
<1>2. /\ run[r].pc = "wait" /\ run' = [run EXCEPT ![r] = x]
      /\ UNCHANGED chain /\ UNCHANGED paid /\ UNCHANGED astray
  BY <1>1 DEF Answered
<1>3. RunOK(x) /\ Adds(x) = 0
  BY <1>1, <1>2, GoesBack
<1>4. PICK n : n = Adds(run[r])
  OBVIOUS
<1>5. n \in Nat /\ totalRecovered \in Nat /\ paid \in Nat /\ MaxTotal \in Nat
  BY <1>4, AddsNumber, LifecycleAssumption DEF RecoveryInv, RunsOK
<1>6. totalRecovered' \in Nat /\ totalRecovered' <= totalRecovered + n
  <2>1. CASE run[r].done
    <3>1. n = run[r].entry.size
      BY <1>2, <1>4, <2>1 DEF Adds
    <3>2. totalRecovered' = Capped(totalRecovered + n)
      BY <2>1, <3>1 DEF Answered
    <3>3. QED
      BY <1>5, <3>2 DEF Capped
  <2>2. CASE ~run[r].done
    BY <1>5, <2>2 DEF Answered
  <2>3. QED
    BY <2>1, <2>2
<1>7. totalRecovered' + Adds(x) + paid <= totalRecovered + Adds(run[r]) + paid'
  BY <1>2, <1>3, <1>4, <1>5, <1>6
<1>8. ChainOK' /\ RunsOK'
  BY <1>2, <1>3, RunGoesOn, ChainStays DEF RecoveryInv, chain
<1>9. paid' \in Nat
  BY <1>2, <1>5
<1>10. ~astray => Backed'
  BY <1>2, <1>3, <1>5, <1>6, <1>7, <1>9, StillCovered DEF RecoveryInv
<1>11. QED
  BY <1>2, <1>6, <1>8, <1>9, <1>10 DEF RecoveryInv

\* The transaction of an entry that is up to date pays its size, unless it is for
\* No of a neg-risk market.
LEMMA PaysSize ==
  ASSUME ChainOK, NEW e \in Entries, Won(e), ~Reverts(e)
  PROVE  /\ [t \in Tokens |-> balance[t] - Burns(e)[t]] \in [Tokens -> Nat]
         /\ Pays(e) \in Nat
         /\ \/ Pays(e) = e.size
            \/ e.size # balance[e.token]
            \/ e.redeem /\ e.token[1] \in NegRisk /\ e.token[2] = "no"
<1>1. PICK t, n : t = e.token /\ n = e.size
  OBVIOUS
<1>2. t \in Tokens /\ n \in Nat /\ t = <<t[1], t[2]>> /\ t[2] \in Outcomes
  BY <1>1 DEF Entries, Tokens
<1>3. PICK b : b = Burns(e)
  OBVIOUS
<1>4. \A u \in Tokens : b[u] \in Nat /\ b[u] <= balance[u]
  <2>1. \A u \in Tokens : b[u] \in Nat
    BY <1>1, <1>2, <1>3 DEF Burns, ChainOK
  <2>2. \A u \in Tokens : ~(b[u] > balance[u])
    BY <1>3 DEF Reverts
  <2>3. QED
    BY <2>1, <2>2 DEF ChainOK
<1>5. \A u \in Tokens : balance[u] - b[u] \in Nat
  BY <1>4 DEF ChainOK
<1>6. CASE ~e.redeem
  BY <1>1, <1>2, <1>3, <1>5, <1>6 DEF Pays
<1>7. CASE e.redeem
  <2>1. winner[t[1]] = t[2] /\ Pays(e) = b[t]
    BY <1>1, <1>2, <1>3, <1>7 DEF Pays, Won
  <2>2. CASE t[1] \in NegRisk /\ t[2] = "yes"
    <3>1. b[t] = n
      BY <1>1, <1>2, <1>3, <1>7, <2>2 DEF Burns, Yes
    <3>2. QED
      BY <1>1, <1>2, <1>3, <1>4, <1>5, <2>1, <3>1
  <2>3. CASE t[1] \notin NegRisk
    <3>1. b[t] = balance[t]
      BY <1>1, <1>2, <1>3, <1>7, <2>3 DEF Burns
    <3>2. QED
      BY <1>1, <1>2, <1>3, <1>4, <1>5, <2>1, <3>1
  <2>4. CASE t[1] \in NegRisk /\ t[2] = "no"
    BY <1>1, <1>2, <1>3, <1>4, <1>5, <1>7, <2>1, <2>4
  <2>5. QED
    BY <1>2, <2>2, <2>3, <2>4 DEF Outcomes
<1>8. QED
  BY <1>6, <1>7

LEMMA MinesOK ==
  ASSUME RecoveryInv, NEW e \in Entries, Won(e), Mines(e)
  PROVE  /\ balance' \in [Tokens -> Nat] /\ paid' \in Nat /\ paid <= paid'
         /\ Reverts(e) \in BOOLEAN
         /\ ~astray' => /\ ~astray
                        /\ (IF Reverts(e) THEN 0 ELSE e.size) + paid <= paid'
<1>1. e.size \in Nat /\ paid \in Nat
  BY DEF Entries, RecoveryInv
<1>2. Reverts(e) \in BOOLEAN
  BY DEF Reverts
<1>3. CASE Reverts(e)
  <2>1. balance' = balance /\ paid' = paid /\ (~astray' => ~astray)
    BY <1>3 DEF Mines
  <2>2. QED
    BY <1>1, <1>2, <1>3, <2>1 DEF RecoveryInv, ChainOK
<1>4. CASE ~Reverts(e)
  <2>1. balance' = [t \in Tokens |-> balance[t] - Burns(e)[t]] /\ paid' = paid + Pays(e)
    BY <1>4 DEF Mines
  <2>2. balance' \in [Tokens -> Nat] /\ Pays(e) \in Nat
    BY <1>4, <2>1, PaysSize DEF RecoveryInv
  <2>3. ~astray' => ~astray /\ Pays(e) = e.size
    BY <1>4, PaysSize DEF RecoveryInv, Mines
  <2>4. QED
    BY <1>1, <1>2, <1>4, <2>1, <2>2, <2>3
<1>5. QED
  BY <1>3, <1>4

LEMMA IsMined ==
  ASSUME RecoveryInv, NEW r \in Runs, Mined(r)
  PROVE  RecoveryInv'
<1>1. PICK e : e = run[r].entry
  OBVIOUS
<1>2. PICK x : x = [run[r] EXCEPT !.pc = "wait", !.done = ~Reverts(e)]
  OBVIOUS
<1>3. RunOK(run[r]) /\ run[r] \in RunStates /\ run \in [Runs -> RunStates]
      /\ run[r].pc = "relay"
  BY DEF RecoveryInv, RunsOK, RunOK, Mined
<1>4. e \in Entries /\ Won(e) /\ \A d \in run[r].list : d \in Entries /\ Won(d)
  BY <1>1, <1>3 DEF RunOK, InHand
<1>5. Mines(e) /\ run' = [run EXCEPT ![r] = x]
      /\ UNCHANGED <<shown, winner, late, totalRecovered>>
  BY <1>1, <1>2, <1>3 DEF Mined
<1>6. /\ balance' \in [Tokens -> Nat] /\ paid' \in Nat /\ Reverts(e) \in BOOLEAN
      /\ ~astray' => ~astray /\ (IF Reverts(e) THEN 0 ELSE e.size) + paid <= paid'
  BY <1>4, <1>5, MinesOK
<1>7. /\ x \in RunStates /\ x.pc = "wait" /\ x.list = run[r].list /\ x.entry = e
      /\ x.done = ~Reverts(e)
  BY <1>1, <1>2, <1>3, <1>6 DEF RunStates
<1>8. RunOK(x)
  BY <1>4, <1>7 DEF RunOK, InHand
<1>9. Adds(run[r]) = 0 /\ Adds(x) = IF Reverts(e) THEN 0 ELSE e.size
  BY <1>3, <1>7 DEF Adds
<1>10. ChainOK' /\ RunsOK'
  <2>1. LateOK'
    BY <1>5 DEF RecoveryInv, ChainOK, LateOK, Won
  <2>2. QED
    BY <1>5, <1>6, <1>8, <2>1, RunGoesOn DEF RecoveryInv, ChainOK
<1>11. ASSUME ~astray' PROVE Backed'
  <2>1. Adds(x) + paid <= paid' /\ Backed
    BY <1>6, <1>9, <1>11 DEF RecoveryInv
  <2>2. /\ totalRecovered' = totalRecovered /\ Adds(x) \in Nat
        /\ paid \in Nat /\ totalRecovered \in Nat
    BY <1>5, <1>8, AddsNumber DEF RecoveryInv
  <2>3. totalRecovered' + Adds(x) + paid <= totalRecovered + Adds(run[r]) + paid'
    BY <1>6, <1>9, <2>1, <2>2
  <2>4. QED
    BY <1>5, <1>6, <1>8, <2>1, <2>2, <2>3, StillCovered DEF RecoveryInv
<1>12. QED
  BY <1>5, <1>6, <1>10, <1>11 DEF RecoveryInv

\* A transaction that is mined when nobody waits for it pays, and is not counted.
LEMMA IsMinedLate ==
  ASSUME RecoveryInv, NEW e \in BagToSet(late), MinedLate(e)
  PROVE  RecoveryInv'
<1>1. e \in Entries /\ Won(e)
  BY DEF RecoveryInv, ChainOK, LateOK, BagToSet
<1>2. Mines(e) /\ late' = late (-) SetToBag({e})
      /\ UNCHANGED <<shown, winner, run, totalRecovered>>
  BY DEF MinedLate
<1>3. /\ balance' \in [Tokens -> Nat] /\ paid' \in Nat /\ paid <= paid'
      /\ ~astray' => ~astray
  BY <1>1, <1>2, MinesOK
<1>4. ChainOK'
  <2>1. DOMAIN SetToBag({e}) = {e}
    BY DEF SetToBag
  <2>2. LateOK'
    BY <1>1, <1>2, <2>1, LateChanges DEF RecoveryInv, ChainOK
  <2>3. QED
    BY <1>2, <1>3, <2>2 DEF RecoveryInv, ChainOK
<1>5. RunsOK'
  BY <1>2 DEF RecoveryInv, RunsOK, RunOK, Won
<1>6. ASSUME ~astray' PROVE Backed'
  <2>1. PICK c, g : /\ IsTotal(g, Runs, [r \in Runs |-> Adds(run[r])], c)
                    /\ totalRecovered + g[Runs] <= paid
    BY <1>3, <1>6 DEF RecoveryInv, Backed
  <2>2. totalRecovered' + g[Runs] <= paid'
    <3>1. g[Runs] \in Nat /\ totalRecovered \in Nat /\ paid \in Nat
      BY <2>1 DEF IsTotal, RecoveryInv
    <3>2. QED
      BY <1>2, <1>3, <2>1, <3>1
  <2>3. QED
    BY <1>2, <2>1, <2>2 DEF Backed
<1>7. QED
  BY <1>2, <1>3, <1>4, <1>5, <1>6 DEF RecoveryInv

-----------------------------------------------------------------------------

\* A total of nothing.
LEMMA TotalOfNothing ==
  ASSUME NEW v, v = [r \in Runs |-> 0]
  PROVE  \E c, g : IsTotal(g, Runs, v, c) /\ g[Runs] = 0
<1>1. PICK c : c = [s \in SUBSET Runs |-> CHOOSE x \in s : TRUE]
  OBVIOUS
<1>2. PICK g : g = [s \in SUBSET Runs |-> 0]
  OBVIOUS
<1>3. \A s \in SUBSET Runs : s # {} => c[s] \in s
  BY <1>1
<1>4. g[Runs] = 0 /\ IsTotal(g, Runs, v, c)
  BY <1>2, <1>3 DEF IsTotal
<1>5. QED
  BY <1>4

LEMMA RecoveryStart == LifecycleInit => RecoveryInv
<1> SUFFICES ASSUME LifecycleInit PROVE RecoveryInv
  OBVIOUS
<1>1. ChainOK
  BY LifecycleAssumption DEF LifecycleInit, ChainOK, LateOK, EmptyBag, SetToBag
<1>2. \A r \in Runs : run[r] = NoRun
  BY DEF LifecycleInit
<1>3. RunsOK
  BY <1>2, NoRunOK DEF LifecycleInit, RunsOK, RunOK
<1>4. Backed
  <2>1. PICK v : v = [r \in Runs |-> 0]
    OBVIOUS
  <2>2. PICK c, g : IsTotal(g, Runs, v, c) /\ g[Runs] = 0
    BY <2>1, TotalOfNothing
  <2>3. [r \in Runs |-> Adds(run[r])] = v
    BY <1>2, <2>1, NoRunOK
  <2>4. QED
    BY <2>2, <2>3 DEF Backed, LifecycleInit
<1>5. QED
  BY <1>1, <1>3, <1>4 DEF LifecycleInit, RecoveryInv

LEMMA RecoveryStep == RecoveryInv /\ [LifecycleNext]_lifecycleVars => RecoveryInv'
<1> SUFFICES ASSUME RecoveryInv, [LifecycleNext]_lifecycleVars PROVE RecoveryInv'
  OBVIOUS
<1>1. ASSUME NEW c \in Conditions, Resolve(c) PROVE RecoveryInv'
  <2>1. PICK o \in Outcomes : winner' = [winner EXCEPT ![c] = o]
    BY <1>1 DEF Resolve
  <2>2. winner[c] = "open" /\ UNCHANGED <<balance, shown, late, run, totals>>
    BY <1>1 DEF Resolve
  <2>4. ASSUME NEW e \in Entries, Won(e) PROVE Won(e)'
    <3>1. e.token[1] \in Conditions /\ e.token[2] \in Outcomes
      BY DEF Entries, Tokens
    <3>2. e.redeem => e.token[1] # c
      BY <2>2, <2>4, <3>1 DEF Won, Outcomes
    <3>3. winner'[e.token[1]] = winner[e.token[1]] \/ ~e.redeem
      BY <2>1, <3>1, <3>2 DEF RecoveryInv, ChainOK
    <3>4. QED
      BY <2>4, <3>3 DEF Won
  <2>3. ChainOK'
    <3>1. LateOK'
      BY <2>2, <2>4 DEF RecoveryInv, ChainOK, LateOK
    <3>2. QED
      BY <2>1, <2>2, <3>1 DEF RecoveryInv, ChainOK
  <2>5. RunsOK'
    BY <2>2, <2>4 DEF RecoveryInv, RunsOK, RunOK
  <2>6. QED
    BY <2>2, <2>3, <2>5 DEF RecoveryInv, Backed, totals
<1>2. CASE Reindex
  BY <1>2, SameRuns DEF Reindex, RecoveryInv, ChainOK, LateOK, Won
<1>3. CASE Stop
  BY <1>3, MayStart DEF Stop
<1>4. CASE Unlock
  BY <1>4, MayStart DEF Unlock
<1>5. CASE Tick
  BY <1>5, MayStart DEF Tick
<1>6. CASE Restart
  <2>1. ChainOK' /\ UNCHANGED winner
    <3>1. PICK R \in SUBSET {r \in Runs : run[r].pc = "relay"} :
            late' = late (+) SentBy(R)
      BY <1>6 DEF Restart
    <3>2. \A e \in DOMAIN SentBy(R) : e \in Entries /\ Won(e)
      BY <3>1 DEF SentBy, RecoveryInv, RunsOK, RunOK, InHand
    <3>3. UNCHANGED <<balance, shown, winner>>
      BY <1>6 DEF Restart
    <3>4. LateOK'
      BY <3>1, <3>2, <3>3, LateChanges DEF RecoveryInv, ChainOK
    <3>5. QED
      BY <3>3, <3>4 DEF RecoveryInv, ChainOK
  <2>2. run' = [r \in Runs |-> NoRun] /\ totalRecovered' = 0 /\ paid' = 0
    BY <1>6 DEF Restart
  <2>3. RunOK(NoRun)' /\ NoRun \in RunStates
    BY NoRunOK, <2>1 DEF RunOK, Won
  <2>4. RunsOK'
    BY <2>2, <2>3 DEF RunsOK
  <2>5. Backed'
    <3>1. PICK v : v = [r \in Runs |-> 0]
      OBVIOUS
    <3>2. PICK c, g : IsTotal(g, Runs, v, c) /\ g[Runs] = 0
      BY <3>1, TotalOfNothing
    <3>3. [r \in Runs |-> Adds(run'[r])] = v
      BY <2>2, <3>1, NoRunOK
    <3>4. QED
      BY <2>2, <3>2, <3>3 DEF Backed
  <2>6. QED
    BY <2>1, <2>2, <2>4, <2>5 DEF RecoveryInv
<1>7. ASSUME NEW auto \in BOOLEAN, Request(auto) PROVE RecoveryInv'
  BY <1>7, MayStart DEF Request
<1>8. ASSUME NEW c \in Calls, Start(c) \/ LoadConfig(c) \/ SaveConfig(c) \/ Updated(c)
      PROVE  RecoveryInv'
  BY <1>8, MayStart DEF Start, LoadConfig, SaveConfig, Updated, ScheduleCheck
<1>9. ASSUME NEW c \in Calls, NEW new \in Switches, UpdateLifecycleConfig(c, new)
      PROVE  RecoveryInv'
  BY <1>9, MayStart DEF UpdateLifecycleConfig
<1>10. CASE \/ \E e \in BagToSet(late) : MinedLate(e)
            \/ \E r \in Runs :
                 \/ ListRedeemable(r) \/ ListMergeable(r) \/ ListFails(r)
                 \/ NextEntry(r) \/ Mined(r) \/ RelayFails(r) \/ Answered(r)
  BY <1>10, Lists, TakesNext, IsMined, IsMinedLate, Fails, Answers
<1>11. CASE UNCHANGED lifecycleVars
  BY <1>11, SameRuns, ChainStays DEF lifecycleVars, chain, RecoveryInv
<1>12. QED
  BY <1>1, <1>2, <1>3, <1>4, <1>5, <1>6, <1>7, <1>8, <1>9, <1>10, <1>11 DEF LifecycleNext

\* positionLifecycle.ts: the total recovered that the manager reports was paid by
\* the chain, unless a run worked from an entry that was out of date or redeemed
\* the No shares of a neg-risk market.
THEOREM RecoveredIsPaid == LifecycleSpec => []RecoveredWasPaid
<1>1. RecoveryInv => RecoveredWasPaid
  <2> SUFFICES ASSUME RecoveryInv, ~astray PROVE totalRecovered <= paid
    BY DEF RecoveredWasPaid
  <2>1. PICK c, g : /\ IsTotal(g, Runs, [r \in Runs |-> Adds(run[r])], c)
                    /\ totalRecovered + g[Runs] <= paid
    BY DEF RecoveryInv, Backed
  <2>2. g[Runs] \in Nat
    BY <2>1 DEF IsTotal
  <2>3. QED
    BY <2>1, <2>2 DEF RecoveryInv
<1>2. QED
  BY <1>1, RecoveryStart, RecoveryStep, PTL DEF LifecycleSpec

-----------------------------------------------------------------------------
(***************************************************************************)
(* PositionMirror.                                                         *)
(*                                                                         *)
(* MirrorSettles for any tokens, prices, portfolios and weights.  A trade  *)
(* at the price shown changes what the user holds, not what it is worth:   *)
(* the targets stand, and the trades a new preview would propose are those *)
(* left to execute.                                                        *)
(***************************************************************************)

(* What a portfolio is worth.                                              *)

Holdings == [Assets -> Nat]

\* The value of each position, and the order in which Value adds them up.
Worth(s) == [t \in Assets |-> s[t] * Price[t]]
Order    == [s \in SUBSET Assets |-> CHOOSE t \in s : TRUE]

\* g is the function that Value(s) computes.
Adding(g, s) ==
  g = [T \in SUBSET Assets |->
         IF T = {} THEN 0
                   ELSE LET t == CHOOSE u \in T : TRUE
                        IN s[t] * Price[t] + g[T \ {t}]]

LEMMA WorthType ==
  ASSUME NEW s \in Holdings
  PROVE  Worth(s) \in [Assets -> Nat]
<1>1. ASSUME NEW t \in Assets PROVE s[t] * Price[t] \in Nat
  <2>1. PICK m \in Nat : m = s[t]
    BY DEF Holdings
  <2>2. PICK n \in Nat : n = Price[t]
    BY MirrorAssumption
  <2>3. QED
    BY <2>1, <2>2
<1>2. QED
  BY <1>1 DEF Worth

\* Value is a sum of the values of the positions.
LEMMA ValueIsTotal ==
  ASSUME NEW s \in Holdings
  PROVE  \E g : IsTotal(g, Assets, Worth(s), Order) /\ g[{}] = 0 /\ Value(s) = g[Assets]
<1>1. PICK v : v = Worth(s)
  OBVIOUS
<1>2. v \in [Assets -> Nat] /\ \A t \in Assets : v[t] = s[t] * Price[t]
  BY <1>1, WorthType DEF Worth
<1>3. PICK f : f = [p \in Assets \X Nat |-> v[p[1]] + p[2]]
  OBVIOUS
<1>4. \A t \in Assets, n \in Nat : f[<<t, n>>] = v[t] + n
  BY <1>3
<1>5. f \in [Assets \X Nat -> Nat]
  BY <1>2, <1>3
<1>6. \A T \in SUBSET Assets : T # {} => Order[T] \in T
  BY DEF Order
<1>7. PICK g \in [SUBSET Assets -> Nat] : IsFold(g, Assets, 0, f, Order)
  BY <1>5, <1>6, FoldExists, MirrorAssumption
<1>8. \A T \in SUBSET Assets : T # {} => g[T] = v[Order[T]] + g[T \ {Order[T]}]
  <2>1. SUFFICES ASSUME NEW T \in SUBSET Assets, T # {}
                 PROVE  g[T] = v[Order[T]] + g[T \ {Order[T]}]
    OBVIOUS
  <2>2. g[T] = f[<<Order[T], g[T \ {Order[T]}]>>]
    BY <1>7, <2>1 DEF IsFold
  <2>3. Order[T] \in Assets /\ g[T \ {Order[T]}] \in Nat
    BY <1>6, <1>7, <2>1
  <2>4. QED
    BY <1>4, <2>2, <2>3
<1>9. g[{}] = 0
  BY <1>7 DEF IsFold
<1>10. Adding(g, s)
  <2>1. ASSUME NEW T \in SUBSET Assets, T # {}
        PROVE  g[T] = s[CHOOSE u \in T : TRUE] * Price[CHOOSE u \in T : TRUE]
                        + g[T \ {CHOOSE u \in T : TRUE}]
    <3>1. PICK t : t = CHOOSE u \in T : TRUE
      OBVIOUS
    <3>2. Order[T] = t /\ t \in Assets
      BY <1>6, <2>1, <3>1 DEF Order
    <3>3. g[T] = v[t] + g[T \ {t}] /\ v[t] = s[t] * Price[t]
      BY <1>2, <1>8, <2>1, <3>2
    <3>4. QED
      BY <3>1, <3>3
  <2>2. QED
    BY <1>9, <2>1 DEF Adding
<1>11. PICK it : it = CHOOSE h : Adding(h, s)
  OBVIOUS
<1>12. Adding(it, s)
  BY <1>10, <1>11
<1>13. Value(s) = it[Assets]
  BY <1>11 DEF Adding, Value, MapThenSumSet, MapThenFoldSet
<1>14. it[{}] = 0 /\ DOMAIN it = SUBSET Assets
  BY <1>12 DEF Adding
<1>15. \A T \in SUBSET Assets : T # {} => it[T] = v[Order[T]] + it[T \ {Order[T]}]
  BY <1>2, <1>6, <1>12 DEF Adding, Order
<1>16. \A T \in SUBSET Assets : it[T] = g[T]
  <2>1. PICK G : G = {T \in SUBSET Assets : it[T] = g[T]}
    OBVIOUS
  <2>2. {} \in G
    BY <1>9, <1>14, <2>1
  <2>3. ASSUME NEW T \in SUBSET Assets, \A t \in T : T \ {t} \in G PROVE T \in G
    <3>1. CASE T = {}
      BY <2>2, <3>1
    <3>2. CASE T # {}
      BY <1>6, <1>8, <1>15, <2>1, <2>3, <3>2
    <3>3. QED
      BY <3>1, <3>2
  <2>4. \A T \in SUBSET Assets : T \in G
    BY <2>2, <2>3, SubsetInduction, MirrorAssumption
  <2>5. QED
    BY <2>1, <2>4
<1>17. IsTotal(g, Assets, v, Order)
  BY <1>2, <1>6, <1>7, <1>8 DEF IsTotal
<1>18. QED
  BY <1>1, <1>9, <1>13, <1>16, <1>17

LEMMA ValueType ==
  ASSUME NEW s \in Holdings
  PROVE  Value(s) \in Nat
BY ValueIsTotal DEF IsTotal

\* When one position changes, so does the value, by as much.
LEMMA ValueChanges ==
  ASSUME NEW s \in Holdings, NEW t \in Assets, NEW n \in Nat
  PROVE  Value([s EXCEPT ![t] = n]) = Value(s) + (n - s[t]) * Price[t]
<1>1. PICK r : r = [s EXCEPT ![t] = n]
  OBVIOUS
<1>2. r \in Holdings /\ r[t] = n /\ \A u \in Assets \ {t} : r[u] = s[u]
  BY <1>1 DEF Holdings
<1>3. PICK v : v = Worth(s)
  OBVIOUS
<1>4. PICK w : w = Worth(r)
  OBVIOUS
<1>5. PICK g : IsTotal(g, Assets, v, Order) /\ g[{}] = 0 /\ Value(s) = g[Assets]
  BY <1>3, ValueIsTotal
<1>6. PICK h : IsTotal(h, Assets, w, Order) /\ h[{}] = 0 /\ Value(r) = h[Assets]
  BY <1>2, <1>4, ValueIsTotal
<1>7. \A u \in Assets \ {t} : v[u] = w[u]
  BY <1>2, <1>3, <1>4 DEF Worth
<1>8. PICK R : R = Assets \ {t}
  OBVIOUS
<1>9. g[R] = h[R]
  BY <1>5, <1>6, <1>7, <1>8, TotalsAgree, MirrorAssumption
<1>10. g[Assets] = v[t] + g[R]
  BY <1>5, <1>8, SumRest, MirrorAssumption
<1>11. h[Assets] = w[t] + h[R]
  BY <1>6, <1>8, SumRest, MirrorAssumption
<1>12. PICK p \in Nat : p = Price[t]
  BY MirrorAssumption
<1>13. PICK m \in Nat : m = s[t]
  BY DEF Holdings
<1>14. v[t] = m * p /\ w[t] = n * p
  BY <1>2, <1>3, <1>4, <1>12, <1>13 DEF Worth
<1>15. h[R] \in Nat
  BY <1>6, <1>8 DEF IsTotal
<1>16. n * p = m * p + (n - m) * p
  OBVIOUS
<1>17. m * p \in Nat /\ n * p \in Nat /\ (n - m) * p \in Int
  OBVIOUS
<1>18. Value(r) = Value(s) + (n - m) * p
  BY <1>5, <1>6, <1>9, <1>10, <1>11, <1>14, <1>15, <1>16, <1>17
<1>19. QED
  BY <1>1, <1>12, <1>13, <1>18

-----------------------------------------------------------------------------
(* The trades of a preview.                                                *)

\* The trade that changes a holding of t by d.
Adjust(t, d) ==
  [token |-> t, side |-> IF d > 0 THEN "BUY" ELSE "SELL",
   size |-> IF d > 0 THEN d ELSE 0 - d]

\* Those that take the holdings of the tokens of S to their goals.
Sought(S, goal, own) ==
  {tr \in {Adjust(t, goal[t] - own[t]) : t \in S} : tr.size >= Minimum}

\* The tokens that a preview looks at, and the goals it sets when nothing moves
\* and the user's portfolio is worth so much.
Held     == {t \in Assets : theirs[t] > 0}
Tradable == IF weight = 0 THEN Assets \ (Held \union Resolved) ELSE Assets \ Resolved

Goals(worth) ==
  [t \in Assets |-> IF t \in Held /\ Value(theirs) # 0
                      THEN (theirs[t] * worth * weight) \div (Value(theirs) * 100)
                      ELSE 0]

TradeRecord == [token : Assets, side : {"BUY", "SELL"}, size : Nat]

JobType ==
  [pc : {"idle", "total", "own", "cash", "shown", "trade"}, weight : Nat,
   shares : Holdings, total : Nat, own : Holdings, trades : SUBSET TradeRecord,
   still : BOOLEAN]

MirrorTypes ==
  /\ theirs \in Holdings /\ mine \in Holdings
  /\ weight \in Nat /\ cash \in Nat /\ job \in JobType

\* A quotient of numbers.
LEMMA Quotient ==
  ASSUME NEW a \in Nat, NEW b \in Nat, b # 0
  PROVE  a \div b \in Nat
OBVIOUS

LEMMA TargetType ==
  ASSUME NEW t \in Assets, NEW j \in JobType, NEW money \in Nat
  PROVE  Target(t, j, money) \in Nat
<1>1. PICK v \in Nat : v = Value(j.own)
  BY ValueType DEF JobType
<1>2. PICK n \in Nat : n = j.shares[t]
  BY DEF JobType, Holdings
<1>3. PICK w \in Nat : w = j.weight
  BY DEF JobType
<1>4. PICK d \in Nat : d = j.total
  BY DEF JobType
<1>5. PICK m \in Nat : m = money + v
  OBVIOUS
<1>6. PICK k \in Nat : k = n * m
  OBVIOUS
<1>7. k * w \in Nat /\ d * 100 \in Nat /\ (d # 0 => d * 100 # 0)
  OBVIOUS
<1>8. Target(t, j, money) = IF d = 0 THEN 0 ELSE (k * w) \div (d * 100)
  BY <1>1, <1>2, <1>3, <1>4, <1>5, <1>6 DEF Target
<1>9. QED
  BY <1>7, <1>8, Quotient

LEMMA ProposalType ==
  ASSUME NEW j \in JobType, NEW money \in Nat
  PROVE  Proposals(j, money) \in SUBSET TradeRecord
<1>1. ASSUME NEW t \in Assets PROVE MirrorTrade(t, j, money) \in TradeRecord
  <2>1. Target(t, j, money) \in Nat /\ j.own[t] \in Nat
    BY TargetType DEF JobType, Holdings
  <2>2. PICK d \in Int : d = Delta(t, j, money)
    BY <2>1 DEF Delta
  <2>3. MirrorTrade(t, j, money) = Adjust(t, d)
    BY <2>2 DEF MirrorTrade, Adjust
  <2>4. QED
    BY <2>2, <2>3 DEF Adjust, TradeRecord
<1>2. ASSUME NEW t \in Assets PROVE CloseTrade(t, j) \in TradeRecord
  BY DEF CloseTrade, TradeRecord, JobType, Holdings
<1>3. QED
  BY <1>1, <1>2 DEF Proposals

\* A preview is made of what has been read.
LEMMA SameReads ==
  ASSUME NEW j, NEW k, NEW money, j.shares = k.shares, j.weight = k.weight,
         j.total = k.total, j.own = k.own
  PROVE  Proposals(j, money) = Proposals(k, money)
BY DEF Proposals, MirrorTrade, CloseTrade, Delta, Target

\* What a preview proposes when nothing moves.
LEMMA ProposalsAre ==
  ASSUME MirrorTypes
  PROVE  Proposals(Actual, cash) = Sought(Tradable, Goals(cash + Value(mine)), mine)
<1>1. /\ Actual.weight = weight /\ Actual.shares = theirs
      /\ Actual.total = Value(theirs) /\ Actual.own = mine
  BY DEF Actual, NoPreview
<1>2. PICK goal : goal = Goals(cash + Value(mine))
  OBVIOUS
<1>3. /\ \A t \in Held : goal[t] = Target(t, Actual, cash)
      /\ \A t \in Assets \ Held : goal[t] = 0
  BY <1>1, <1>2 DEF Goals, Target, Held
<1>4. ASSUME NEW t \in Held
      PROVE  MirrorTrade(t, Actual, cash) = Adjust(t, goal[t] - mine[t])
  BY <1>1, <1>3 DEF MirrorTrade, Delta, Adjust
<1>5. ASSUME NEW t \in Assets \ Held
      PROVE  /\ mine[t] > 0 => CloseTrade(t, Actual) = Adjust(t, goal[t] - mine[t])
             /\ Adjust(t, goal[t] - mine[t]).size = mine[t]
  <2>1. PICK n \in Nat : n = mine[t]
    BY DEF MirrorTypes, Holdings
  <2>2. goal[t] - mine[t] = 0 - n
    BY <1>3, <2>1
  <2>3. QED
    BY <1>1, <2>1, <2>2 DEF CloseTrade, Adjust
<1>6. Held = {t \in Assets : Actual.shares[t] > 0}
  BY <1>1 DEF Held
<1>7. PICK A : A = {t \in Assets \ (Held \union Resolved) : mine[t] >= Dust}
  OBVIOUS
<1>8. PICK M : M = IF weight = 0 THEN {} ELSE Held \ Resolved
  OBVIOUS
<1>9. Proposals(Actual, cash) =
        {tr \in {MirrorTrade(t, Actual, cash) : t \in M}
                \union {CloseTrade(t, Actual) : t \in A} : tr.size >= Minimum}
  BY <1>1, <1>6, <1>7, <1>8 DEF Proposals
<1>10. /\ \A t \in M : MirrorTrade(t, Actual, cash) = Adjust(t, goal[t] - mine[t])
       /\ \A t \in A : CloseTrade(t, Actual) = Adjust(t, goal[t] - mine[t])
  <2>1. M \subseteq Held
    BY <1>8
  <2>2. \A t \in A : t \in Assets \ Held /\ mine[t] > 0
    BY <1>7 DEF MirrorTypes, Holdings, Dust
  <2>3. QED
    BY <1>4, <1>5, <2>1, <2>2
<1>11. ASSUME NEW t \in Tradable, Adjust(t, goal[t] - mine[t]).size >= Minimum
       PROVE  t \in M \union A
  <2>1. t \in Assets \ Resolved /\ (weight = 0 => t \notin Held)
    BY DEF Tradable
  <2>2. CASE t \in Held
    BY <1>8, <2>1, <2>2
  <2>3. CASE t \notin Held
    <3>1. mine[t] \in Nat /\ mine[t] >= Minimum
      BY <1>5, <1>11, <2>1, <2>3 DEF MirrorTypes, Holdings
    <3>2. QED
      BY <1>7, <2>1, <2>3, <3>1 DEF Minimum, Dust
  <2>4. QED
    BY <2>2, <2>3
<1>12. M \union A \subseteq Tradable
  BY <1>7, <1>8 DEF Tradable, Held
<1>13. {tr \in {Adjust(t, goal[t] - mine[t]) : t \in M \union A} : tr.size >= Minimum}
         = Sought(Tradable, goal, mine)
  BY <1>11, <1>12 DEF Sought
<1>14. {MirrorTrade(t, Actual, cash) : t \in M} \union {CloseTrade(t, Actual) : t \in A}
         = {Adjust(t, goal[t] - mine[t]) : t \in M \union A}
  BY <1>10
<1>15. QED
  BY <1>2, <1>9, <1>13, <1>14

\* A trade takes its token to its goal.
LEMMA ToGoal ==
  ASSUME NEW S \in SUBSET Assets, NEW goal \in [Assets -> Nat], NEW own \in Holdings,
         NEW tr \in Sought(S, goal, own)
  PROVE  /\ tr.token \in S
         /\ tr = Adjust(tr.token, goal[tr.token] - own[tr.token])
<1>1. PICK t \in S : tr = Adjust(t, goal[t] - own[t])
  BY DEF Sought
<1>2. tr.token = t
  BY <1>1 DEF Adjust
<1>3. QED
  BY <1>1, <1>2

\* Once it is executed, the others are still wanted.
LEMMA OneLess ==
  ASSUME NEW S \in SUBSET Assets, NEW goal \in [Assets -> Nat], NEW own \in Holdings,
         NEW tr \in Sought(S, goal, own)
  PROVE  Sought(S, goal, [own EXCEPT ![tr.token] = goal[tr.token]])
           = Sought(S, goal, own) \ {tr}
<1>1. PICK t \in S : t = tr.token /\ tr = Adjust(t, goal[t] - own[t])
  BY ToGoal
<1>2. t \in Assets /\ goal[t] \in Nat /\ own[t] \in Nat
  BY DEF Holdings
<1>3. PICK new : new = [own EXCEPT ![t] = goal[t]]
  OBVIOUS
<1>4. new[t] = goal[t] /\ \A u \in S \ {t} : new[u] = own[u]
  BY <1>2, <1>3 DEF Holdings
<1>5. ASSUME NEW u \in S PROVE Adjust(u, goal[u] - own[u]).token = u
  BY DEF Adjust
<1>6. Adjust(t, goal[t] - new[t]).size = 0
  BY <1>2, <1>4 DEF Adjust
<1>7. ASSUME NEW x \in Sought(S, goal, new) PROVE x \in Sought(S, goal, own) \ {tr}
  <2>1. PICK u \in S : x = Adjust(u, goal[u] - new[u]) /\ x.size >= Minimum
    BY DEF Sought
  <2>2. u # t
    BY <1>6, <2>1 DEF Minimum
  <2>3. x = Adjust(u, goal[u] - own[u])
    BY <1>4, <2>1, <2>2
  <2>4. x # tr
    BY <1>1, <1>5, <2>2, <2>3
  <2>5. QED
    BY <2>1, <2>3, <2>4 DEF Sought
<1>8. ASSUME NEW x \in Sought(S, goal, own), x # tr PROVE x \in Sought(S, goal, new)
  <2>1. PICK u \in S : x = Adjust(u, goal[u] - own[u]) /\ x.size >= Minimum
    BY DEF Sought
  <2>2. u # t
    BY <1>1, <1>8, <2>1
  <2>3. x = Adjust(u, goal[u] - new[u])
    BY <1>4, <2>1, <2>2
  <2>4. QED
    BY <2>1, <2>3 DEF Sought
<1>9. QED
  BY <1>1, <1>3, <1>7, <1>8

-----------------------------------------------------------------------------
(* The inductive invariant.                                                *)

\* While nothing fails or moves, a preview that is being made has read what there
\* is, and the trades left to execute are those a new preview would propose.
UpToDate ==
  clean =>
    /\ job = NoPreview => Proposals(Actual, cash) = {}
    /\ job.pc \in {"total", "own", "cash"} => job.weight = weight /\ job.shares = theirs
    /\ job.pc \in {"own", "cash"} => job.total = Value(theirs)
    /\ job.pc = "cash" => job.own = mine
    /\ job.pc \in {"shown", "trade"} => job.trades = Proposals(Actual, cash)

MirrorInv == MirrorTypes /\ UpToDate

LEMMA NoPreviewType == NoPreview \in JobType
BY DEF NoPreview, NoShares, JobType, Holdings

LEMMA MirrorStart == MirrorInit => MirrorInv
<1> SUFFICES ASSUME MirrorInit PROVE MirrorInv
  OBVIOUS
<1>1. MirrorTypes
  BY NoPreviewType, MirrorAssumption DEF MirrorInit, MirrorTypes, Holdings
<1>2. UpToDate
  BY DEF MirrorInit, UpToDate
<1>3. QED
  BY <1>1, <1>2 DEF MirrorInv

\* What a preview of the moment reads, it reads again when nothing moves.
LEMMA ActualStays ==
  ASSUME UNCHANGED <<theirs, weight, mine, cash>>
  PROVE  Proposals(Actual, cash)' = Proposals(Actual, cash)
BY DEF Actual

LEMMA PreviewStep ==
  ASSUME MirrorInv, ReadPositions \/ ReadTotal \/ ReadOwn \/ ReadCash
  PROVE  MirrorInv'
<1>1. MirrorTypes /\ UpToDate /\ Value(theirs) \in Nat
  BY ValueType DEF MirrorInv, MirrorTypes
<1>2. CASE ReadPositions
  <2>1. job' = [NoPreview EXCEPT !.pc = "total", !.weight = weight, !.shares = theirs]
    BY <1>2 DEF ReadPositions
  <2>2. /\ job'.pc = "total" /\ job'.weight = weight /\ job'.shares = theirs
        /\ job' \in JobType /\ job' # NoPreview
    BY <1>1, <2>1, NoPreviewType DEF MirrorTypes, JobType, NoPreview
  <2>3. QED
    BY <1>1, <1>2, <2>2 DEF ReadPositions, MirrorInv, MirrorTypes, UpToDate
<1>3. CASE ReadTotal
  <2>1. PICK n \in Nat :
          /\ job' = [job EXCEPT !.pc = "own", !.total = n]
          /\ clean' => clean /\ n = Value(theirs)
    <3>1. CASE job' = [job EXCEPT !.pc = "own", !.total = 0] /\ clean' = FALSE
      BY <3>1
    <3>2. CASE job' = [job EXCEPT !.pc = "own", !.total = Value(theirs)] /\ clean' = clean
      BY <1>1, <3>2
    <3>3. QED
      BY <1>3, <3>1, <3>2 DEF ReadTotal
  <2>2. job.pc = "total"
    BY <1>3 DEF ReadTotal
  <2>3. /\ job'.pc = "own" /\ job'.weight = job.weight /\ job'.shares = job.shares
        /\ job'.total = n /\ job' \in JobType /\ job' # NoPreview
    BY <1>1, <2>1 DEF MirrorTypes, JobType, NoPreview
  <2>4. QED
    BY <1>1, <1>3, <2>1, <2>2, <2>3 DEF ReadTotal, MirrorInv, MirrorTypes, UpToDate
<1>4. CASE ReadOwn
  <2>1. job.pc = "own" /\ job' = [job EXCEPT !.pc = "cash", !.own = mine]
    BY <1>4 DEF ReadOwn
  <2>2. /\ job'.pc = "cash" /\ job'.weight = job.weight /\ job'.shares = job.shares
        /\ job'.total = job.total /\ job'.own = mine
        /\ job' \in JobType /\ job' # NoPreview
    BY <1>1, <2>1 DEF MirrorTypes, JobType, NoPreview
  <2>3. QED
    BY <1>1, <1>4, <2>1, <2>2 DEF ReadOwn, MirrorInv, MirrorTypes, UpToDate
<1>5. CASE ReadCash
  <2>1. PICK T : T = Proposals(job, cash)
    OBVIOUS
  <2>2. job.pc = "cash" /\ job' = [job EXCEPT !.pc = "shown", !.trades = T]
    BY <1>5, <2>1 DEF ReadCash
  <2>3. T \in SUBSET TradeRecord
    BY <1>1, <2>1, ProposalType DEF MirrorTypes
  <2>4. job'.pc = "shown" /\ job'.trades = T /\ job' \in JobType /\ job' # NoPreview
    BY <1>1, <2>2, <2>3 DEF MirrorTypes, JobType, NoPreview
  <2>5. /\ Actual.weight = weight /\ Actual.shares = theirs
        /\ Actual.total = Value(theirs) /\ Actual.own = mine
    BY DEF Actual, NoPreview
  <2>6. clean => T = Proposals(Actual, cash)
    BY <1>1, <2>1, <2>2, <2>5, SameReads DEF UpToDate
  <2>7. QED
    BY <1>1, <1>5, <2>4, <2>6, ActualStays DEF ReadCash, MirrorInv, MirrorTypes, UpToDate
<1>6. QED
  BY <1>2, <1>3, <1>4, <1>5

\* An order that fills moves the user to the goal of its token, at no loss.
LEMMA FillStep ==
  ASSUME MirrorTypes, NEW tr \in job.trades, Place(tr), Covered(tr)
  PROVE  /\ mine' \in Holdings /\ cash' \in Nat
         /\ tr \in Proposals(Actual, cash) =>
              Proposals(Actual, cash)' = Proposals(Actual, cash) \ {tr}
<1>1. PICK sign \in {1, 0 - 1} : sign = IF tr.side = "BUY" THEN 1 ELSE 0 - 1
  OBVIOUS
<1>2. tr.token \in Assets /\ tr.size \in Nat /\ tr.side \in {"BUY", "SELL"}
  BY DEF MirrorTypes, JobType, TradeRecord
<1>3. PICK t \in Assets : t = tr.token
  BY <1>2
<1>4. PICK n \in Nat : n = tr.size
  BY <1>2
<1>5. PICK p \in Nat : p = Price[t]
  BY MirrorAssumption
<1>6. PICK m \in Nat : m = mine[t]
  BY DEF MirrorTypes, Holdings
<1>7. PICK k \in Nat : k = n * p
  OBVIOUS
<1>8. /\ mine' = [mine EXCEPT ![t] = m + sign * n]
      /\ cash' = cash - sign * k
      /\ theirs' = theirs /\ weight' = weight
  BY <1>1, <1>3, <1>4, <1>5, <1>6, <1>7 DEF Place, Cost
<1>9. m + sign * n \in Nat /\ cash - sign * k \in Nat
  <2>1. CASE tr.side = "BUY"
    <3>1. sign = 1 /\ cash >= k
      BY <1>1, <1>3, <1>4, <1>5, <1>7, <2>1 DEF Covered, Cost
    <3>2. QED
      BY <3>1 DEF MirrorTypes
  <2>2. CASE tr.side = "SELL"
    <3>1. sign = 0 - 1 /\ m >= n
      BY <1>1, <1>3, <1>4, <1>6, <2>2 DEF Covered
    <3>2. QED
      BY <3>1 DEF MirrorTypes
  <2>3. QED
    BY <1>2, <2>1, <2>2
<1>10. mine' \in Holdings /\ cash' \in Nat
  BY <1>8, <1>9 DEF MirrorTypes, Holdings
<1>11. MirrorTypes => Value(mine)' = Value(mine) + (sign * n) * p
  <2>1. PICK h \in Nat : h = m + sign * n
    BY <1>9
  <2>2. Value(mine') = Value(mine) + (h - m) * p
    BY <1>5, <1>6, <1>8, <2>1, ValueChanges DEF MirrorTypes
  <2>3. h - m = sign * n
    BY <2>1
  <2>4. QED
    BY <2>2, <2>3
<1>12. cash' + Value(mine)' = cash + Value(mine)
  <2>1. (sign * n) * p = sign * k
    BY <1>1, <1>7
  <2>2. Value(mine) \in Nat /\ cash \in Nat /\ sign * k \in Int
    BY <1>1, ValueType DEF MirrorTypes
  <2>3. QED
    BY <1>8, <1>11, <2>1, <2>2
<1>13. PICK goal : goal = Goals(cash + Value(mine))
  OBVIOUS
<1>14. Tradable' = Tradable /\ Goals(cash + Value(mine))' = goal
  BY <1>8, <1>12, <1>13 DEF Tradable, Held, Goals
<1>15. goal \in [Assets -> Nat]
  <2>1. ASSUME NEW u \in Assets, Value(theirs) # 0
        PROVE  (theirs[u] * (cash + Value(mine)) * weight)
                 \div (Value(theirs) * 100) \in Nat
    <3>1. PICK a \in Nat : a = theirs[u]
      BY DEF MirrorTypes, Holdings
    <3>2. PICK b \in Nat : b = cash + Value(mine)
      BY ValueType DEF MirrorTypes
    <3>3. PICK c \in Nat : c = a * b
      OBVIOUS
    <3>4. PICK w \in Nat : w = weight
      BY DEF MirrorTypes
    <3>5. PICK d \in Nat : d = Value(theirs)
      BY ValueType DEF MirrorTypes
    <3>6. c * w \in Nat /\ d * 100 \in Nat /\ d * 100 # 0
      BY <2>1, <3>5
    <3>7. (c * w) \div (d * 100) \in Nat
      BY <3>6, Quotient
    <3>8. QED
      BY <3>1, <3>2, <3>3, <3>4, <3>5, <3>7
  <2>2. QED
    BY <1>13, <2>1 DEF Goals
<1>16. ASSUME tr \in Proposals(Actual, cash)
       PROVE  Proposals(Actual, cash)' = Proposals(Actual, cash) \ {tr}
  <2>1. PICK S \in SUBSET Assets : S = Tradable
    BY DEF Tradable
  <2>2. Proposals(Actual, cash) = Sought(S, goal, mine)
    BY <1>13, <2>1, ProposalsAre
  <2>3. MirrorTypes'
    BY <1>10, <1>8 DEF MirrorTypes, Place, JobType
  <2>4. Proposals(Actual, cash)' = Sought(S, goal, mine')
    <3>1. (Proposals(Actual, cash) = Sought(Tradable, Goals(cash + Value(mine)), mine))'
      BY <2>3, ProposalsAre, PTL
    <3>2. QED
      BY <1>14, <2>1, <3>1 DEF Sought
  <2>5. tr = Adjust(t, goal[t] - m)
    BY <1>3, <1>6, <1>15, <1>16, <2>2, ToGoal DEF MirrorTypes
  <2>6. Sought(S, goal, [mine EXCEPT ![t] = goal[t]]) = Sought(S, goal, mine) \ {tr}
    BY <1>3, <1>15, <1>16, <2>2, OneLess DEF MirrorTypes
  <2>7. goal[t] = m + sign * n
    <3>1. PICK d \in Int : d = goal[t] - m
      BY <1>15
    <3>2. d = sign * n
      BY <1>1, <1>4, <2>5, <3>1 DEF Adjust
    <3>3. QED
      BY <1>15, <3>1, <3>2
  <2>8. QED
    BY <1>8, <2>2, <2>4, <2>6, <2>7
<1>17. QED
  BY <1>10, <1>16

LEMMA ExecutionStep ==
  ASSUME MirrorInv,
         \/ \E picked \in SUBSET job.trades : Select(picked)
         \/ \E tr \in job.trades : Place(tr) \/ PlaceFails(tr)
         \/ Finish
  PROVE  MirrorInv'
<1>1. MirrorTypes /\ UpToDate
  BY DEF MirrorInv
<1>2. ASSUME NEW picked \in SUBSET job.trades, Select(picked) PROVE MirrorInv'
  <2>1. /\ job.pc = "shown" /\ job' = [job EXCEPT !.pc = "trade", !.trades = picked]
        /\ clean' => clean /\ picked = job.trades
    BY <1>2 DEF Select
  <2>2. job'.pc = "trade" /\ job'.trades = picked /\ job' \in JobType /\ job' # NoPreview
    BY <1>1, <2>1 DEF MirrorTypes, JobType, NoPreview
  <2>3. QED
    BY <1>1, <1>2, <2>1, <2>2, ActualStays DEF Select, MirrorInv, MirrorTypes, UpToDate
<1>3. ASSUME NEW tr \in job.trades, Place(tr) \/ PlaceFails(tr) PROVE MirrorInv'
  <2>1. PICK T \in SUBSET TradeRecord : T = job.trades \ {tr}
    BY <1>1 DEF MirrorTypes, JobType
  <2>2. job.pc = "trade" /\ job' = [job EXCEPT !.trades = T]
    BY <1>3, <2>1 DEF Place, PlaceFails
  <2>3. job'.pc = "trade" /\ job'.trades = T /\ job' \in JobType /\ job' # NoPreview
    BY <1>1, <2>2 DEF MirrorTypes, JobType, NoPreview
  <2>4. CASE Place(tr) /\ Covered(tr)
    <3>1. /\ mine' \in Holdings /\ cash' \in Nat
          /\ tr \in Proposals(Actual, cash) =>
               Proposals(Actual, cash)' = Proposals(Actual, cash) \ {tr}
      BY <1>1, <2>4, FillStep
    <3>2. theirs' = theirs /\ weight' = weight /\ clean' = clean
      BY <2>4 DEF Place
    <3>3. QED
      BY <1>1, <2>1, <2>2, <2>3, <3>1, <3>2 DEF MirrorInv, MirrorTypes, UpToDate
  <2>5. CASE PlaceFails(tr) \/ ~Covered(tr)
    BY <1>1, <1>3, <2>3, <2>5 DEF Place, PlaceFails, MirrorInv, MirrorTypes, UpToDate
  <2>6. QED
    BY <1>3, <2>4, <2>5
<1>4. CASE Finish
  <2>1. job'.pc = "idle" /\ job' \in JobType
    BY <1>4, NoPreviewType DEF Finish, NoPreview
  <2>2. QED
    BY <1>1, <1>4, <2>1, ActualStays DEF Finish, MirrorInv, MirrorTypes, UpToDate
<1>5. QED
  BY <1>2, <1>3, <1>4

LEMMA ChangeStep ==
  ASSUME MirrorInv, TheyTrade \/ \E t \in Assets : CopyBuys(t)
  PROVE  MirrorInv'
<1>1. MirrorTypes
  BY DEF MirrorInv
<1>2. Change
  BY DEF TheyTrade, CopyBuys
<1>3. ~clean' /\ job' \in JobType
  BY <1>1, <1>2 DEF Change, MirrorTypes, JobType
<1>4. CASE TheyTrade
  BY <1>1, <1>3, <1>4, MirrorAssumption
  DEF TheyTrade, MirrorInv, MirrorTypes, UpToDate, Holdings
<1>5. ASSUME NEW t \in Assets, CopyBuys(t) PROVE MirrorInv'
  <2>1. PICK p \in Nat : p = Price[t]
    BY MirrorAssumption
  <2>2. PICK m \in Nat : m = mine[t]
    BY <1>1 DEF MirrorTypes, Holdings
  <2>3. mine' = [mine EXCEPT ![t] = m + 50] /\ cash >= 50 * p /\ cash' = cash - 50 * p
    BY <1>5, <2>1, <2>2 DEF CopyBuys, Minimum
  <2>4. mine' \in Holdings /\ cash' \in Nat
    BY <1>1, <2>3 DEF MirrorTypes, Holdings
  <2>5. QED
    BY <1>1, <1>3, <1>5, <2>4 DEF CopyBuys, MirrorInv, MirrorTypes, UpToDate
<1>6. QED
  BY <1>4, <1>5

LEMMA MirrorStep ==
  ASSUME MirrorInv, [MirrorNext]_mirrorVars
  PROVE  MirrorInv'
<1>1. CASE UNCHANGED mirrorVars
  BY <1>1, ActualStays DEF mirrorVars, MirrorInv, MirrorTypes, UpToDate
<1>2. QED
  BY <1>1, PreviewStep, ExecutionStep, ChangeStep DEF MirrorNext

\* positionMirror.ts: after an execution of a whole preview in which no order
\* failed and nothing changed, the next preview has no trade to propose.  Every
\* order fills at the price shown; targets are rounded down to a tenth of a share.
THEOREM MirrorDone == MirrorSpec => []MirrorSettles
<1>1. MirrorInv => MirrorSettles
  BY DEF MirrorInv, UpToDate, MirrorSettles
<1>2. QED
  BY <1>1, MirrorStart, MirrorStep, PTL DEF MirrorSpec

=============================================================================
