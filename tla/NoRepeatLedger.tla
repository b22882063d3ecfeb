--------------------------- MODULE NoRepeatLedger ---------------------------
(***************************************************************************)
(* The executed-positions ledger of storage.ts (no-repeat protection) and  *)
(* the decision procedure of noRepeatReconciliation.ts, as operators.      *)
(*                                                                         *)
(* The ledger is an array of records in the code; here it is a set of      *)
(* records.  Array.find returns the first match of an array whose order    *)
(* depends on the backend (insertion order in JSON, timestamp in SQLite),  *)
(* so an operator that rewrites "the first match" returns the SET of       *)
(* ledgers it may produce, one for each possible first match.              *)
(*                                                                         *)
(* nr is the no-repeat key `${positionKey}::exec:${tradingWalletId}`, here *)
(* the pair <<position, target>>.                                          *)
(***************************************************************************)
EXTENDS Integers

\* noRepeatReconciliation.ts: const MAX_MISSING_ORDER_CHECKS = 2
MaxMissingOrderChecks == 2

LedgerRecord(NR, Sides) ==
  [nr : NR, status : {"executed", "pending"}, at : Nat, order : Nat,
   base : Int, checks : Nat, side : Sides]

Pending(p)  == p.status = "pending"
Executed(p) == p.status = "executed"

OfKey(L, nr)      == {p \in L : p.nr = nr}
OfOrder(L, order) == {p \in L : p.order = order}

NewRecord(nr, status, order, at, base, side) ==
  [nr |-> nr, status |-> status, at |-> at, order |-> order,
   base |-> base, checks |-> 0, side |-> side]

\* Every ledger that replacing one record p of S, by f(p), may give.
RewriteOne(L, S, f(_)) == {(L \ {p}) \union {f(p)} : p \in S}

\* Mutant: an executed record keeps its first timestamp
\* (docs/launch-audit-findings.md 3.1).
AddExecutedPosition_NoRefresh(L, nr, order, at) ==
  LET pend == {p \in OfKey(L, nr) : Pending(p)}
      Promote(p) == [p EXCEPT !.status = "executed", !.at = at, !.order = order]
  IN  IF pend # {} THEN RewriteOne(L, pend, Promote)
      ELSE IF OfKey(L, nr) # {} THEN {L}
      ELSE {L \union {NewRecord(nr, "executed", order, at, 0, "BUY")}}

(***************************************************************************)
(* Storage.addExecutedPosition: a pending record of the key is promoted;   *)
(* otherwise an executed one is refreshed in place; otherwise one is added.*)
(***************************************************************************)
AddExecutedPosition(L, nr, order, at) ==
  LET pend == {p \in OfKey(L, nr) : Pending(p)}
      done == {p \in OfKey(L, nr) : Executed(p)}
      Promote(p) == [p EXCEPT !.status = "executed", !.at = at, !.order = order]
      Refresh(p) == [p EXCEPT !.at = at, !.order = order]
  IN  IF pend # {} THEN RewriteOne(L, pend, Promote)
      ELSE IF done # {} THEN RewriteOne(L, done, Refresh)
      ELSE {L \union {NewRecord(nr, "executed", order, at, 0, "BUY")}}

\* Storage.addPendingPosition: replaces the record of that order id, or adds.
AddPendingPosition(L, nr, order, at, base, side) ==
  (L \ OfOrder(L, order))
    \union {NewRecord(nr, "pending", order, at, base, side)}

\* Mutant: the exchange's word for a filled order, which no reader of the
\* ledger knows.
MarkPendingPositionExecuted_Matched(L, order, at) ==
  {IF p.order = order
     THEN [p EXCEPT !.status = "matched", !.at = at, !.checks = 0]
     ELSE p : p \in L}

\* Storage.markPendingPositionExecuted: looks the order id up, whatever its status.
MarkPendingPositionExecuted(L, order, at) ==
  {IF p.order = order
     THEN [p EXCEPT !.status = "executed", !.at = at, !.checks = 0]
     ELSE p : p \in L}

\* Storage.removePendingPosition
RemovePendingPosition(L, order) ==
  {p \in L : ~(p.order = order /\ Pending(p))}

\* Storage.incrementPendingPositionMissingOrderChecks
IncrementMissingOrderChecks(L, order) ==
  {IF p.order = order /\ Pending(p)
     THEN [p EXCEPT !.checks = @ + 1] ELSE p : p \in L}

\* Storage.resetPendingPositionMissingOrderChecks
ResetMissingOrderChecks(L, order) ==
  {IF p.order = order /\ Pending(p)
     THEN [p EXCEPT !.checks = 0] ELSE p : p \in L}

(***************************************************************************)
(* Storage.isPositionBlocked: a pending record always blocks; period 0     *)
(* means forever; otherwise a record newer than the cutoff blocks.         *)
(***************************************************************************)
IsPositionBlocked(L, nr, period, now) ==
  \E p \in OfKey(L, nr) :
    \/ Pending(p)
    \/ period = 0
    \/ p.at > now - period

\* Mutant: pending records expire like the others.
CleanupExpiredPositions_All(L, period, now) ==
  IF period = 0 THEN L ELSE {p \in L : p.at > now - period}

\* Storage.cleanupExpiredPositions: pending records are kept whatever their age.
CleanupExpiredPositions(L, period, now) ==
  IF period = 0 THEN L
  ELSE {p \in L : Pending(p) \/ p.at > now - period}

\* Mutant: an order still on the book counts as missing.
DecidePendingOrder_IgnoreBook(open, delta, checks, side) ==
  IF (side = "BUY" /\ delta > 0) \/ (side = "SELL" /\ delta < 0) THEN "executed"
  ELSE IF checks + 1 < MaxMissingOrderChecks THEN "await_more_evidence"
  ELSE "clear_pending"

(***************************************************************************)
(* decidePendingOrderReconciliation.  open: the order id is among the open *)
(* orders; delta: current position size minus the recorded baseline.       *)
(***************************************************************************)
DecidePendingOrder(open, delta, checks, side) ==
  IF open THEN "still_open"
  ELSE IF (side = "BUY" /\ delta > 0) \/ (side = "SELL" /\ delta < 0) THEN "executed"
  ELSE IF checks + 1 < MaxMissingOrderChecks THEN "await_more_evidence"
  ELSE "clear_pending"

=============================================================================
