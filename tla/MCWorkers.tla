----------------------------- MODULE MCWorkers -----------------------------
(***************************************************************************)
(* Model checking of two services: the discovery worker, and the life      *)
(* cycle of the bot.  They share no state in these modules, so that        *)
(* interleaving them would add nothing: one is picked at first, the other  *)
(* stays in an initial state.                                              *)
(***************************************************************************)
EXTENDS DiscoveryV3, BotLifecycle

VARIABLE part   \* the part that runs

-----------------------------------------------------------------------------

PartsInit ==
  /\ part \in {"discovery", "bot"}
  /\ Init
  /\ BotInit
  /\ part # "bot" => /\ mode = "sqlite" /\ ~forced
                     /\ \A t \in Tenants : enabled[t] = "off" /\ ~active[t]

Discovers  == part = "discovery" /\ UNCHANGED <<part, botVars>>
BotRuns    == part = "bot" /\ UNCHANGED <<part, vars>>

Polls == Discovers /\ PollStarts
Reads == Discovers /\ PollReads
Keeps == Discovers /\ SetCursor

DiscoveryNext ==
  \/ Discovers /\ Mine
  \/ \E t \in Txs, x \in 1 .. MaxBlock :
       Discovers /\ x > head - Lag /\ x <= head /\ Reorganise(t, x)
  \/ Polls \/ Reads \/ Keeps
  \/ Discovers /\ PollFails
  \/ \E r \in Refreshes : \/ Discovers /\ StartRefresh(r)
                          \/ Discovers /\ ClearSnapshots(r)
                          \/ Discovers /\ EmitSnapshots(r)
                          \/ Discovers /\ ReadSnapshots(r)
                          \/ Discovers /\ Publish(r)
                          \/ Discovers /\ RefreshFails(r)

Boots         == BotRuns /\ BootSync
CycleBegins(g) == BotRuns /\ TimerCycle(g)
CycleStops(g) == BotRuns /\ TimerCycleEnds(g)

BotMoves ==
  \/ Boots
  \/ \E c \in Callers : \/ BotRuns /\ ReadFlag(c)
                        \/ BotRuns /\ ReadWallets(c)
                        \/ BotRuns /\ Prepared(c)
                        \/ BotRuns /\ CycleEnds(c)
                        \/ \E some \in BOOLEAN : BotRuns /\ TrackBalances(c, some)
                        \/ BotRuns /\ TimeBalances(c)
                        \/ BotRuns /\ Reinitialized(c)
                        \/ BotRuns /\ StartFails(c)
  \/ \E c \in Calls : \/ BotRuns /\ SaveEnabled(c)
                      \/ BotRuns /\ ReplaceMonitor(c)
                      \/ BotRuns /\ ReplaceTracker(c)
                      \/ BotRuns /\ Reinitialize(c)
                      \/ \E t \in Tenants, on \in BOOLEAN :
                           BotRuns /\ SetEnabled(c, t, on)
  \/ \E t \in Tenants : BotRuns /\ ToggleWallets(t)
  \/ \E g \in Gen : CycleBegins(g) \/ CycleStops(g)

PartsVars == <<part, vars, botVars>>

\* The fairness of FairSpec of each module: as one part runs, the weak fairness
\* of a disjunction over parts is that of each.
CallMoves(c)  == BotRuns /\ Awaits(c)
OneCall       == \E c \in Calls : CallMoves(c)
Refreshing(r) == Discovers /\ RefreshOn(r)
BeginRefresh  == Discovers /\ \E r \in Refreshes : StartRefresh(r)

PartsFair ==
  /\ WF_PartsVars(Polls \/ OneCall)
  /\ WF_PartsVars(Reads \/ Keeps \/ CallMoves(Boot))
  /\ WF_PartsVars(BeginRefresh \/ Boots)
  /\ \A g \in Gen : WF_PartsVars(CycleBegins(g)) /\ WF_PartsVars(CycleStops(g))
  /\ \A r \in Refreshes : WF_PartsVars(Refreshing(r))

PartsSpec == PartsInit /\ [][DiscoveryNext \/ BotMoves]_PartsVars
               /\ PartsFair
=============================================================================
