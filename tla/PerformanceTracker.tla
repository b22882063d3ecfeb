------------------------- MODULE PerformanceTracker -------------------------
(***************************************************************************)
(* performanceTracker.ts: the feed of one tenant's trades, in memory and   *)
(* in a JSON file.  A call that finds the tenant not loaded loads it; a    *)
(* record is deduplicated by its key and window, and the whole feed is     *)
(* written in place.  Nothing keeps two calls apart.                       *)
(***************************************************************************)
EXTENDS Integers, Sequences, SequencesExt

CONSTANTS
  Callers,    \* calls that may be under way together
  Trades,     \* records, each handed over once
  KeyOf,      \* wallet, market, outcome and status of a record
  SideOf,     \* its side, which is not part of the key
  MaxRows,    \* tradeMetricsMaxRows
  MaxTime, MaxRestarts   \* bounds; two ticks are five minutes

\* What is assumed of the constants.
ASSUME TrackerAssumption ==
  /\ MaxRows \in Nat \ {0} /\ MaxTime \in Nat /\ MaxRestarts \in Nat

VARIABLES
  clock,
  feed, loaded, \* metricsByTenant and loadedTenants
  recent,       \* recentTradeKeys: keys with the time they were seen
  feedFile,     \* the file: its rows, how long it is, is it valid JSON?
  caller,       \* each call: where it stands, its record, rows it holds
  handed,       \* records handed over so far
  saved,        \* history: records whose save has returned, in order
  spoiled,      \* history: calls overlapped, or the process died in a save
  restarts

trackerVars == <<clock, feed, loaded, recent, feedFile, caller, handed, saved,
                 spoiled, restarts>>

Read  == "read"    \* a call that reads the feed and records nothing
Idle  == [pc |-> "idle", trade |-> Read, rows |-> <<>>]
Empty == [rows |-> <<>>, size |-> 0, torn |-> FALSE]

TrackerInit ==
  /\ clock = 0 /\ feed = <<>> /\ loaded = FALSE /\ recent = {}
  /\ feedFile = Empty
  /\ caller = [c \in Callers |-> Idle]
  /\ handed = {} /\ saved = <<>> /\ spoiled = FALSE /\ restarts = 0

Others(c) == \E d \in Callers \ {c} : caller[d] # Idle

\* What parsing the file gives; a file that does not parse counts as empty.
Parsed == IF feedFile.torn THEN <<>> ELSE feedFile.rows

Trim(rows) == IF Len(rows) <= MaxRows THEN rows
              ELSE SubSeq(rows, Len(rows) - MaxRows + 1, Len(rows))

-----------------------------------------------------------------------------
(* recordTrade and the readers                                             *)

\* The key of the feed, as the code builds it.
DedupKey(t) == <<KeyOf[t], clock \div 2>>

\* Keys are dropped five minutes after they were seen.
Recent == {k \in recent : clock - k[2] <= 2}

\* After the tenant is loaded: deduplicate, push, trim; then save.
Push(c, t) ==
  IF \E k \in Recent : k[1] = DedupKey(t)
  THEN /\ recent' = Recent /\ UNCHANGED feed
       /\ caller' = [caller EXCEPT ![c] = Idle]
  ELSE /\ recent' = Recent \union {<<DedupKey(t), clock>>}
       /\ feed' = Trim(Append(feed, t))
       /\ caller' = [caller EXCEPT ![c] = [Idle EXCEPT !.pc = "save", !.trade = t]]

\* Mutant: a record does not wait for the tenant to be loaded.
Call_NotLoaded(c, t) ==
  /\ caller[c] = Idle /\ t \notin handed /\ t # Read
  /\ handed' = handed \union {t}
  /\ spoiled' = (spoiled \/ Others(c))
  /\ Push(c, t)
  /\ UNCHANGED <<clock, loaded, feedFile, saved, restarts>>

Call(c, t) ==
  /\ caller[c] = Idle /\ t \notin handed
  /\ handed' = IF t = Read THEN handed ELSE handed \union {t}
  /\ spoiled' = (spoiled \/ Others(c))
  /\ IF ~loaded
     THEN /\ caller' = [caller EXCEPT ![c] = [Idle EXCEPT !.pc = "read", !.trade = t]]
          /\ UNCHANGED <<feed, recent>>
     ELSE t # Read /\ Push(c, t)
  /\ UNCHANGED <<clock, loaded, feedFile, saved, restarts>>

\* loadMetricsForTenant: the file is read, ...
ReadFile(c) ==
  /\ caller[c].pc = "read"
  /\ caller' = [caller EXCEPT ![c].pc = "load", ![c].rows = Parsed]
  /\ UNCHANGED <<clock, feed, loaded, recent, feedFile, handed, saved, spoiled,
                 restarts>>

\* ... and replaces what memory holds.
Load(c) ==
  /\ caller[c].pc = "load"
  /\ feed' = caller[c].rows
  /\ caller' = [caller EXCEPT ![c].pc = "issues", ![c].rows = <<>>]
  /\ UNCHANGED <<clock, loaded, recent, feedFile, handed, saved, spoiled, restarts>>

\* The issues are loaded too; the record goes on.
Loaded(c) ==
  /\ caller[c].pc = "issues"
  /\ loaded' = TRUE
  /\ IF caller[c].trade = Read
     THEN caller' = [caller EXCEPT ![c] = Idle] /\ UNCHANGED <<feed, recent>>
     ELSE Push(c, caller[c].trade)
  /\ UNCHANGED <<clock, feedFile, handed, saved, spoiled, restarts>>

\* A reader that loads without I/O in between; it throws on a torn file.
LoadSync ==
  /\ ~loaded /\ ~feedFile.torn
  /\ loaded' = TRUE /\ feed' = feedFile.rows
  /\ spoiled' = (spoiled \/ \E c \in Callers : caller[c] # Idle)
  /\ UNCHANGED <<clock, recent, feedFile, caller, handed, saved, restarts>>

\* saveMetrics: writeFile empties the file and writes the feed as it was when
\* the call was made; a shorter text over a longer one leaves its tail.
OpenFile(c) ==
  /\ caller[c].pc = "save"
  /\ feedFile' = [rows |-> <<>>, size |-> 0, torn |-> TRUE]
  /\ caller' = [caller EXCEPT ![c].pc = "write", ![c].rows = feed]
  /\ UNCHANGED <<clock, feed, loaded, recent, handed, saved, spoiled, restarts>>

WriteFile(c) ==
  /\ caller[c].pc = "write"
  /\ LET n == Len(caller[c].rows) IN
     feedFile' = [rows |-> caller[c].rows, torn |-> n < feedFile.size,
                  size |-> IF n < feedFile.size THEN feedFile.size ELSE n]
  /\ saved' = Append(saved, caller[c].trade)
  /\ caller' = [caller EXCEPT ![c] = Idle]
  /\ UNCHANGED <<clock, feed, loaded, recent, handed, spoiled, restarts>>

Restart ==
  /\ restarts < MaxRestarts /\ restarts' = restarts + 1
  /\ feed' = <<>> /\ loaded' = FALSE /\ recent' = {}
  /\ spoiled' = (spoiled \/ \E c \in Callers : caller[c].pc = "write")
  /\ caller' = [c \in Callers |-> Idle]
  /\ UNCHANGED <<clock, feedFile, handed, saved>>

ClockTicks ==
  /\ clock < MaxTime /\ clock' = clock + 1
  /\ UNCHANGED <<feed, loaded, recent, feedFile, caller, handed, saved, spoiled,
                 restarts>>

TrackerNext ==
  \/ \E c \in Callers :
       \/ \E t \in Trades \union {Read} : Call(c, t)
       \/ ReadFile(c) \/ Load(c) \/ Loaded(c) \/ OpenFile(c) \/ WriteFile(c)
  \/ LoadSync \/ Restart \/ ClockTicks

TrackerSpec == TrackerInit /\ [][TrackerNext]_trackerVars

-----------------------------------------------------------------------------
(* Properties                                                              *)

\* saveMetrics: whatever is read, and whenever the process restarts, the file
\* holds the last records that were saved, unless two calls overlapped or the
\* process died while the file was being written.
FeedKept ==
  spoiled \/ IsSuffix(Trim(saved), feedFile.rows)
          \/ \E c \in Callers : caller[c].pc = "write"

\* recordTrade says that side is part of the key: a record is only dropped for
\* one that agrees with it in key and side.
DroppedForSameSide ==
  \A t \in handed :
    \/ t \in ToSet(feed) \union ToSet(saved)
    \/ Len(saved) >= MaxRows
    \/ \E c \in Callers : caller[c].trade = t
    \/ restarts > 0
    \/ \E u \in handed \ {t} : KeyOf[u] = KeyOf[t] /\ SideOf[u] = SideOf[t]
=============================================================================
