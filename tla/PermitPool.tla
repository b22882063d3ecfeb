----------------------------- MODULE PermitPool -----------------------------
(***************************************************************************)
(* What a rate limiter promises the callers of the CLOB API, whatever its  *)
(* queues and timers do: a permit is granted to a tenant that asked for    *)
(* one and holds fewer than its share, and no sliding window ever contains *)
(* more grants than its limit.                                             *)
(***************************************************************************)
EXTENDS Integers, Sequences

CONSTANTS
  Tenants,
  Windows,      \* the sliding windows: a set of records [limit, length]
  Share         \* permits one tenant may hold at a time

VARIABLES
  now,
  waiting,      \* requests of each tenant that are not answered yet
  held,         \* permits each tenant holds
  granted       \* when each permit was granted, oldest first

\* One more grant now keeps the window: the grant it pushes out is old enough.
Fits(w) ==
  Len(granted) >= w.limit =>
    now - granted[Len(granted) - w.limit + 1] >= w.length

Ask(t) ==
  /\ waiting' = [waiting EXCEPT ![t] = @ + 1]
  /\ UNCHANGED <<now, held, granted>>

Give(t) ==
  /\ waiting[t] > 0 /\ held[t] < Share
  /\ \A w \in Windows : Fits(w)
  /\ waiting' = [waiting EXCEPT ![t] = @ - 1]
  /\ held' = [held EXCEPT ![t] = @ + 1]
  /\ granted' = Append(granted, now)
  /\ UNCHANGED now

Return(t) ==
  /\ held[t] > 0
  /\ held' = [held EXCEPT ![t] = @ - 1]
  /\ UNCHANGED <<now, waiting, granted>>

Tick == now' = now + 1 /\ UNCHANGED <<waiting, held, granted>>

Init ==
  /\ now = 0
  /\ waiting = [t \in Tenants |-> 0]
  /\ held = [t \in Tenants |-> 0]
  /\ granted = << >>

Next ==
  \/ \E t \in Tenants : Ask(t) \/ Give(t) \/ Return(t)
  \/ Tick

Spec == Init /\ [][Next]_<<now, waiting, held, granted>>

=============================================================================
