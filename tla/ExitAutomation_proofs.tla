------------------------ MODULE ExitAutomation_proofs ------------------------
(***************************************************************************)
(* The types and the sales of ExitAutomation, for any rules, prices, ticks *)
(* and tenants; the stop-loss orders of a process with one tenant.         *)
(***************************************************************************)
EXTENDS ExitAutomation, FoldFacts, SequenceTheorems, TLAPS

-----------------------------------------------------------------------------
(* Bags: the elements they have.                                           *)

\* The elements of a union of bags are those of both.
LEMMA BagUnionElements ==
  ASSUME NEW A, NEW B
  PROVE  DOMAIN (A (+) B) = DOMAIN A \union DOMAIN B
BY DEF (+)

\* Taking elements out of a bag adds none.
LEMMA BagRestElements ==
  ASSUME NEW A, NEW B
  PROVE  DOMAIN (A (-) B) \subseteq DOMAIN A
BY DEF (-)

\* The elements of a bag made from a set.
LEMMA SetBagElements ==
  /\ DOMAIN EmptyBag = {}
  /\ \A s : DOMAIN SetToBag(s) = s
BY DEF EmptyBag, SetToBag


-----------------------------------------------------------------------------
(* The invariant.  Its sets depend on the sales S, the value of `sold' now *)
(* or after a step: no ladder books a sale that did not happen.            *)

\* The rules that exist and what was sold for them.
SoldInv ==
  /\ sold \in [DOMAIN sold -> Nat]
  /\ DOMAIN sold \subseteq Ladders \union Stops /\ IsFiniteSet(DOMAIN sold)
  /\ \A r \in DOMAIN sold : sold[r] <= Shares[r]

\* Ladder l in the state r.
LadderOk(l, r, S) ==
  /\ r \in Ladder /\ r.done \subseteq Step(l)
  /\ r.remaining <= Shares[l] /\ r.remaining + S[l] >= Shares[l]

LadderBooks(S) ==
  {b \in UNION {[D -> Ladder] : D \in SUBSET (Ladders \intersect DOMAIN S)} :
     \A l \in DOMAIN b : LadderOk(l, b[l], S)}

StopBooks(S) == UNION {[D -> Order] : D \in SUBSET (Stops \intersect DOMAIN S)}

Owner == Tenants \union {Nobody}

LadderStates(S) == [book : LadderBooks(S), live : BOOLEAN, sync : Owner]
StopStates(S)   == [book : StopBooks(S), sync : Owner]

Configs(S) == [ladders : SUBSET [book : LadderBooks(S), live : BOOLEAN],
               stops   : SUBSET [book : StopBooks(S)]]

Jobs(S) == {j \in [tenant : Tenants, kind : SaveKind, config : SUBSET Configs(S)] :
              j.config = {} \/ \E c \in j.config : j.config = {c}}

\* The managers and what is stored of them.
Kept(S) ==
  /\ lm \in LadderStates(S) /\ sm \in StopStates(S)
  /\ disk \in [Tenants -> Configs(S)]
  /\ DOMAIN saves \subseteq Jobs(S)

\* A trigger; the step of a ladder is one of its plan.
Work(S) == {h \in Handler : /\ h.rule \in DOMAIN S
                            /\ h.rule \in Ladders => h.step \in Step(h.rule)}

\* The handlers that are to sync and those under way.
Workers(S) == /\ begun \subseteq Work(S) /\ DOMAIN handlers \subseteq Work(S)
              /\ IsFiniteSet(DOMAIN handlers)

PriceBooks == UNION {[D -> Prices] : D \in SUBSET Tokens}

\* A tick under way has a tenant to check.
TickState ==
  {w \in [phase : {"idle", "fetch", "sync", "check"}, todo : Seq(Tenants),
          left : SUBSET Tokens, prices : PriceBooks] :
     w.phase = "idle" \/ w.todo # <<>>}

MonitorInv ==
  /\ price \in [Tokens -> Prices]
  /\ running \in BOOLEAN /\ enabled \in BOOLEAN /\ boot \in BOOLEAN
  /\ tick \in [Ticks -> TickState]

ExitInv == SoldInv /\ Kept(sold) /\ Workers(sold) /\ MonitorInv

\* Rules are created and sales happen: S comes before T.
Before(S, T) == /\ DOMAIN S \subseteq DOMAIN T
                /\ \A r \in DOMAIN S : S[r] \in Nat /\ T[r] \in Nat /\ S[r] <= T[r]

-----------------------------------------------------------------------------
(* The sets of the invariant.                                              *)

\* What a book of ladders is.
LEMMA LadderBookIs ==
  ASSUME NEW S, NEW b
  PROVE  b \in LadderBooks(S) <=>
           /\ DOMAIN b \subseteq Ladders \intersect DOMAIN S
           /\ b = [l \in DOMAIN b |-> b[l]]
           /\ \A l \in DOMAIN b : LadderOk(l, b[l], S)
<1>1. ASSUME b \in LadderBooks(S)
      PROVE  /\ DOMAIN b \subseteq Ladders \intersect DOMAIN S
             /\ b = [l \in DOMAIN b |-> b[l]]
             /\ \A l \in DOMAIN b : LadderOk(l, b[l], S)
  BY <1>1 DEF LadderBooks
<1>2. ASSUME /\ DOMAIN b \subseteq Ladders \intersect DOMAIN S
             /\ b = [l \in DOMAIN b |-> b[l]]
             /\ \A l \in DOMAIN b : LadderOk(l, b[l], S)
      PROVE  b \in LadderBooks(S)
  <2>1. b \in [DOMAIN b -> Ladder]
    BY <1>2 DEF LadderOk
  <2>2. QED
    BY <1>2, <2>1 DEF LadderBooks
<1>3. QED
  BY <1>1, <1>2

\* What a book of stop-loss orders is.
LEMMA StopBookIs ==
  ASSUME NEW S, NEW b
  PROVE  b \in StopBooks(S) <=> /\ DOMAIN b \subseteq Stops \intersect DOMAIN S
                                /\ b \in [DOMAIN b -> Order]
BY DEF StopBooks

\* What is kept stays right when rules are created and sales happen.
LEMMA KeptGrows ==
  ASSUME NEW S, NEW T, Before(S, T), RuleAssumption
  PROVE  /\ LadderBooks(S) \subseteq LadderBooks(T)
         /\ StopBooks(S) \subseteq StopBooks(T)
         /\ LadderStates(S) \subseteq LadderStates(T)
         /\ StopStates(S) \subseteq StopStates(T)
         /\ Configs(S) \subseteq Configs(T)
         /\ Jobs(S) \subseteq Jobs(T)
         /\ Work(S) \subseteq Work(T)
<1>1. ASSUME NEW l \in DOMAIN S, l \in Ladders, NEW r, LadderOk(l, r, S)
      PROVE  LadderOk(l, r, T)
  <2>1. Shares[l] \in Nat /\ S[l] \in Nat /\ T[l] \in Nat /\ S[l] <= T[l]
    BY <1>1 DEF Before, RuleAssumption
  <2>2. r.remaining \in Nat
    BY <1>1 DEF LadderOk, Ladder
  <2>3. QED
    BY <1>1, <2>1, <2>2 DEF LadderOk
<1>2. LadderBooks(S) \subseteq LadderBooks(T)
  <2>1. SUFFICES ASSUME NEW b \in LadderBooks(S) PROVE b \in LadderBooks(T)
    OBVIOUS
  <2>2. /\ DOMAIN b \subseteq Ladders \intersect DOMAIN S
        /\ b = [l \in DOMAIN b |-> b[l]]
        /\ \A l \in DOMAIN b : LadderOk(l, b[l], S)
    BY LadderBookIs
  <2>3. \A l \in DOMAIN b : LadderOk(l, b[l], T)
    BY <1>1, <2>2
  <2>4. DOMAIN b \subseteq Ladders \intersect DOMAIN T
    BY <2>2 DEF Before
  <2>5. QED
    BY <2>2, <2>3, <2>4, LadderBookIs
<1>3. StopBooks(S) \subseteq StopBooks(T)
  BY StopBookIs DEF Before
<1>4. LadderStates(S) \subseteq LadderStates(T)
  BY <1>2 DEF LadderStates
<1>5. StopStates(S) \subseteq StopStates(T)
  BY <1>3 DEF StopStates
<1>6. Configs(S) \subseteq Configs(T)
  BY <1>2, <1>3 DEF Configs
<1>7. Jobs(S) \subseteq Jobs(T)
  BY <1>6 DEF Jobs
<1>8. Work(S) \subseteq Work(T)
  BY DEF Work, Before
<1>9. QED
  BY <1>2, <1>3, <1>4, <1>5, <1>6, <1>7, <1>8

-----------------------------------------------------------------------------
(* Loading, saving, and the tenants that a tick visits.                    *)

\* What a manager loads, or keeps, is right if what is stored is.
LEMMA SyncKept ==
  ASSUME NEW S, disk \in [Tenants -> Configs(S)], NEW t \in Tenants
  PROVE  /\ \A m \in LadderStates(S) : /\ SyncLadders(t, m) \in LadderStates(S)
                                       /\ LoadLadders(t, m) \in LadderStates(S)
         /\ \A m \in StopStates(S) : /\ SyncStops(t, m) \in StopStates(S)
                                     /\ LoadStops(t, m) \in StopStates(S)
<1>1. PICK c \in Configs(S) : c = disk[t]
  OBVIOUS
<1>2. t \in Owner
  BY DEF Owner
<1>3. ASSUME NEW m \in LadderStates(S) PROVE LoadLadders(t, m) \in LadderStates(S)
  <2>1. CASE c.ladders = {}
    BY <1>1, <1>2, <2>1 DEF LoadLadders, LadderStates
  <2>2. CASE c.ladders # {}
    <3>1. PICK s : s = CHOOSE x \in c.ladders : TRUE
      OBVIOUS
    <3>2. s \in c.ladders
      BY <2>2, <3>1
    <3>3. s.book \in LadderBooks(S) /\ s.live \in BOOLEAN
      BY <3>2 DEF Configs
    <3>4. LoadLadders(t, m) = [book |-> s.book, live |-> s.live, sync |-> t]
      BY <1>1, <2>2, <3>1 DEF LoadLadders
    <3>5. QED
      BY <1>2, <3>3, <3>4 DEF LadderStates
  <2>3. QED
    BY <2>1, <2>2
<1>4. ASSUME NEW m \in StopStates(S) PROVE LoadStops(t, m) \in StopStates(S)
  <2>1. CASE c.stops = {}
    BY <1>1, <1>2, <2>1 DEF LoadStops, StopStates
  <2>2. CASE c.stops # {}
    <3>1. PICK s : s = CHOOSE x \in c.stops : TRUE
      OBVIOUS
    <3>2. s \in c.stops
      BY <2>2, <3>1
    <3>3. s.book \in StopBooks(S)
      BY <3>2 DEF Configs
    <3>4. LoadStops(t, m) = [book |-> s.book, sync |-> t]
      BY <1>1, <2>2, <3>1 DEF LoadStops
    <3>5. QED
      BY <1>2, <3>3, <3>4 DEF StopStates
  <2>3. QED
    BY <2>1, <2>2
<1>5. QED
  BY <1>3, <1>4 DEF SyncLadders, SyncStops

\* A bot_config with the keys of a manager replaced.
LEMMA WithKept ==
  ASSUME NEW S, NEW c \in Configs(S)
  PROVE  /\ \A m \in LadderStates(S) : WithLadders(c, m) \in Configs(S)
         /\ \A m \in StopStates(S) : WithStops(c, m) \in Configs(S)
<1>1. \A m \in LadderStates(S) :
        [book |-> m.book, live |-> m.live] \in [book : LadderBooks(S), live : BOOLEAN]
  BY DEF LadderStates
<1>2. \A m \in StopStates(S) : [book |-> m.book] \in [book : StopBooks(S)]
  BY DEF StopStates
<1>3. QED
  BY <1>1, <1>2 DEF WithLadders, WithStops, Configs

\* A change of the managers, and the saves that it starts.
LEMMA ChangeKept ==
  ASSUME NEW S, Kept(S), NEW t \in Tenants,
         NEW l \in LadderStates(S), NEW s \in StopStates(S),
         NEW K \in SUBSET {"ladders", "stops"}, ChangeAndSave(t, l, s, K)
  PROVE  Kept(S)'
<1>1. PICK J : J = {Save(t, k) : k \in K}
  OBVIOUS
<1>2. J \subseteq Jobs(S)
  BY <1>1 DEF Save, Jobs, SaveKind
<1>3. PICK A : A = SetToBag(J)
  OBVIOUS
<1>4. DOMAIN A = J
  BY <1>3, SetBagElements
<1>5. saves' = saves (+) A
  BY <1>1, <1>3 DEF ChangeAndSave
<1>6. DOMAIN saves' \subseteq Jobs(S)
  <2>1. DOMAIN (saves (+) A) = DOMAIN saves \union DOMAIN A
    BY BagUnionElements
  <2>2. QED
    BY <1>2, <1>4, <1>5, <2>1 DEF Kept
<1>7. QED
  BY <1>6 DEF Kept, ChangeAndSave

\* The managers are in sets that are closed under syncing with a tenant.
SyncClosed(LS, SS) ==
  /\ lm \in LS /\ \A t \in Tenants : \A m \in LS : SyncLadders(t, m) \in LS
  /\ sm \in SS /\ \A t \in Tenants : \A m \in SS : SyncStops(t, m) \in SS
  /\ \A m \in LS \union SS : \A r \in DOMAIN m.book : TokenOf[r] \in Tokens

\* A tick, or the automatic start, syncs the managers with one tenant after the
\* other: what is closed under syncing holds of the managers in the end.
LEMMA VisitIn ==
  ASSUME IsFiniteSet(Tenants), NEW LS, NEW SS, SyncClosed(LS, SS),
         NEW order \in SetToSeqs(TickTenants)
  PROVE  /\ VisitAll(order) \in [lm : LS, sm : SS, tokens : SUBSET Tokens]
         /\ order \in Seq(Tenants)
         /\ order = <<>> => VisitAll(order).tokens = {}
<1>1. PICK V : V = [lm : LS, sm : SS, tokens : SUBSET Tokens]
  OBVIOUS
<1>2. TickTenants \subseteq Tenants /\ IsFiniteSet(TickTenants)
  BY FS_Subset DEF TickTenants
<1>3. PICK n \in Nat : n = Cardinality(TickTenants)
  BY <1>2, FS_CardinalityType
<1>4. order \in [1 .. n -> Tenants]
  BY <1>2, <1>3 DEF SetToSeqs
<1>5. PICK base : base = [lm |-> lm, sm |-> sm, tokens |-> {}]
  OBVIOUS
<1>6. base \in V
  BY <1>1, <1>5 DEF SyncClosed
<1>7. ASSUME NEW v \in V, NEW t \in Tenants PROVE Visit(v, t) \in V
  <2>1. SyncLadders(t, v.lm) \in LS /\ SyncStops(t, v.sm) \in SS
    BY <1>1 DEF SyncClosed
  <2>2. PICK l \in LS : l = SyncLadders(t, v.lm)
    BY <2>1
  <2>3. PICK s \in SS : s = SyncStops(t, v.sm)
    BY <2>1
  <2>4. {TokenOf[r] : r \in ActiveIn(l.book) \union ActiveIn(s.book)} \subseteq Tokens
    BY DEF ActiveIn, SyncClosed
  <2>5. v.tokens \subseteq Tokens
    BY <1>1
  <2>6. Visit(v, t) = [lm |-> l, sm |-> s, tokens |-> v.tokens \union
                 {TokenOf[r] : r \in ActiveIn(l.book) \union ActiveIn(s.book)}]
    BY <2>2, <2>3 DEF Visit
  <2>7. QED
    BY <1>1, <2>4, <2>5, <2>6
<1>8. PICK f : f = [p \in (1 .. n) \X V |-> Visit(p[2], order[p[1]])]
  OBVIOUS
<1>9. \A i \in 1 .. n, v \in V : f[<<i, v>>] = Visit(v, order[i]) /\ f[<<i, v>>] \in V
  BY <1>4, <1>7, <1>8
<1>10. f \in [(1 .. n) \X V -> V]
  BY <1>4, <1>7, <1>8
<1>11. PICK c : c = [s \in SUBSET (1 .. n) |-> Max(s)]
  OBVIOUS
<1>12. \A s \in SUBSET (1 .. n) : s # {} => c[s] \in s
  BY <1>3, <1>11, MaxIn
<1>13. IsFiniteSet(1 .. n)
  BY <1>3, FS_Interval
<1>14. PICK g \in [SUBSET (1 .. n) -> V] : IsFold(g, 1 .. n, base, f, c)
  BY <1>6, <1>10, <1>12, <1>13, FoldExists
<1>15. g = [s \in SUBSET (1 .. n) |->
              IF s = {} THEN base ELSE Visit(g[s \ {Max(s)}], order[Max(s)])]
  <2>1. SUFFICES ASSUME NEW s \in SUBSET (1 .. n)
                 PROVE  g[s] = IF s = {} THEN base
                               ELSE Visit(g[s \ {Max(s)}], order[Max(s)])
    OBVIOUS
  <2>2. g[s] = IF s = {} THEN base ELSE f[<<c[s], g[s \ {c[s]}]>>]
    BY <1>14 DEF IsFold
  <2>3. c[s] = Max(s)
    BY <1>11
  <2>4. s # {} => Max(s) \in 1 .. n /\ g[s \ {Max(s)}] \in V
    BY <1>12, <2>3
  <2>5. QED
    BY <1>9, <2>2, <2>3, <2>4
<1>16. PICK it : it = CHOOSE h : h = [s \in SUBSET (1 .. n) |->
              IF s = {} THEN base ELSE Visit(h[s \ {Max(s)}], order[Max(s)])]
  OBVIOUS
<1>17. it = [s \in SUBSET (1 .. n) |->
               IF s = {} THEN base ELSE Visit(it[s \ {Max(s)}], order[Max(s)])]
  BY <1>15, <1>16
<1>18. VisitAll(order) = it[1 .. n]
  <2>1. DOMAIN order = 1 .. n
    BY <1>4
  <2>2. QED
    BY <1>5, <1>16, <2>1 DEF VisitAll, FoldLeft, MapThenFoldSet
<1>19. PICK G : G = {s \in SUBSET (1 .. n) : it[s] \in V}
  OBVIOUS
<1>20. {} \in G
  BY <1>6, <1>17, <1>19
<1>21. ASSUME NEW s \in SUBSET (1 .. n), \A x \in s : s \ {x} \in G PROVE s \in G
  <2>1. CASE s = {}
    BY <1>20, <2>1
  <2>2. CASE s # {}
    <3>1. Max(s) \in s
      BY <1>11, <1>12, <2>2
    <3>2. it[s \ {Max(s)}] \in V /\ order[Max(s)] \in Tenants
      BY <1>4, <1>19, <1>21, <3>1
    <3>3. it[s] = Visit(it[s \ {Max(s)}], order[Max(s)])
      BY <1>17, <2>2
    <3>4. QED
      BY <1>7, <1>19, <3>2, <3>3
  <2>3. QED
    BY <2>1, <2>2
<1>22. \A s \in SUBSET (1 .. n) : s \in G
  BY ZenonT(30), <1>13, <1>20, <1>21, SubsetInduction
<1>23. order = <<>> => VisitAll(order).tokens = {}
  <2>1. SUFFICES ASSUME order = <<>> PROVE VisitAll(order).tokens = {}
    OBVIOUS
  <2>2. 1 .. n = {}
    <3>1. DOMAIN order = 1 .. n
      BY <1>4
    <3>2. DOMAIN order = {}
      BY <2>1
    <3>3. QED
      BY <3>1, <3>2
  <2>3. it[1 .. n] = base
    BY <1>17, <2>2
  <2>4. QED
    BY <1>5, <1>18, <2>3
<1>24. order \in Seq(Tenants)
  BY <1>4
<1>25. QED
  BY <1>1, <1>18, <1>19, <1>22, <1>23, <1>24

-----------------------------------------------------------------------------
(* What is sold, and the steps that are marked.                            *)

\* Handlers of which each sells some shares.
Sales(H) == IsFiniteSet(H) /\ \A h \in H : h.shares \in Nat

\* The sum that SharesOf takes over the handlers of a set.
IsSum(g, H) ==
  g = [s \in SUBSET H |-> IF s = {} THEN 0
                          ELSE LET x == CHOOSE y \in s : TRUE
                               IN x.shares + g[s \ {x}]]

\* SharesOf is such a sum, and its values are numbers.
LEMMA SharesSum ==
  ASSUME NEW H, Sales(H)
  PROVE  \E g \in [SUBSET H -> Nat] : IsSum(g, H) /\ SharesOf(H) = g[H]
<1>1. PICK f : f = [p \in H \X Nat |-> p[1].shares + p[2]]
  OBVIOUS
<1>2. \A x \in H, n \in Nat : f[<<x, n>>] = x.shares + n
  BY <1>1
<1>3. f \in [H \X Nat -> Nat]
  BY <1>1 DEF Sales
<1>4. PICK c : c = [s \in SUBSET H |-> CHOOSE y \in s : TRUE]
  OBVIOUS
<1>5. \A s \in SUBSET H : s # {} => c[s] \in s
  BY <1>4
<1>6. PICK g \in [SUBSET H -> Nat] : IsFold(g, H, 0, f, c)
  BY <1>3, <1>5, FoldExists DEF Sales
<1>7. \A s \in SUBSET H : s # {} => g[s] = c[s].shares + g[s \ {c[s]}]
  <2>1. SUFFICES ASSUME NEW s \in SUBSET H, s # {}
                 PROVE  g[s] = c[s].shares + g[s \ {c[s]}]
    OBVIOUS
  <2>2. g[s] = f[<<c[s], g[s \ {c[s]}]>>]
    BY <1>6, <2>1 DEF IsFold
  <2>3. c[s] \in H /\ g[s \ {c[s]}] \in Nat
    BY <1>5, <2>1
  <2>4. QED
    BY <1>2, <2>2, <2>3
<1>8. g[{}] = 0
  BY <1>6 DEF IsFold
<1>9. IsSum(g, H)
  BY <1>4, <1>7, <1>8 DEF IsSum
<1>10. PICK it : it = CHOOSE h : IsSum(h, H)
  OBVIOUS
<1>11. IsSum(it, H)
  BY <1>9, <1>10
<1>12. SharesOf(H) = it[H]
  BY <1>10 DEF IsSum, SharesOf, MapThenSumSet, MapThenFoldSet
<1>13. \A s \in SUBSET H : it[s] \in Nat
  <2>1. PICK G : G = {s \in SUBSET H : it[s] \in Nat}
    OBVIOUS
  <2>2. {} \in G
    BY <1>11, <2>1 DEF IsSum
  <2>3. ASSUME NEW s \in SUBSET H, \A x \in s : s \ {x} \in G PROVE s \in G
    <3>1. CASE s = {}
      BY <2>2, <3>1
    <3>2. CASE s # {}
      <4>1. PICK x : x = CHOOSE y \in s : TRUE
        OBVIOUS
      <4>2. x \in s /\ it[s] = x.shares + it[s \ {x}]
        BY <1>11, <3>2, <4>1 DEF IsSum
      <4>3. x.shares \in Nat /\ it[s \ {x}] \in Nat
        BY <2>1, <2>3, <4>2 DEF Sales
      <4>4. QED
        BY <2>1, <4>2, <4>3
    <3>3. QED
      BY <3>1, <3>2
  <2>4. \A s \in SUBSET H : s \in G
    BY <2>2, <2>3, SubsetInduction DEF Sales
  <2>5. QED
    BY <2>1, <2>4
<1>14. it \in [SUBSET H -> Nat]
  BY <1>11, <1>13 DEF IsSum
<1>15. QED
  BY <1>11, <1>12, <1>14

\* A subset's sum is SharesOf of it.
LEMMA SharesPart ==
  ASSUME NEW H, Sales(H), NEW g \in [SUBSET H -> Nat], IsSum(g, H)
  PROVE  \A s \in SUBSET H : SharesOf(s) = g[s]
<1>1. SUFFICES ASSUME NEW T \in SUBSET H PROVE SharesOf(T) = g[T]
  OBVIOUS
<1>2. Sales(T)
  BY FS_Subset DEF Sales
<1>3. PICK h \in [SUBSET T -> Nat] : IsSum(h, T) /\ SharesOf(T) = h[T]
  BY <1>2, SharesSum
<1>4. PICK f : f = [p \in H \X Nat |-> p[1].shares + p[2]]
  OBVIOUS
<1>5. PICK c : c = [s \in SUBSET H |-> CHOOSE y \in s : TRUE]
  OBVIOUS
<1>6. \A s \in SUBSET H : s # {} => c[s] \in s
  BY <1>5
<1>7. IsFold(g, H, 0, f, c)
  <2>1. SUFFICES ASSUME NEW s \in SUBSET H
                 PROVE  g[s] = IF s = {} THEN 0 ELSE f[<<c[s], g[s \ {c[s]}]>>]
    BY DEF IsFold
  <2>2. g[s] = IF s = {} THEN 0 ELSE c[s].shares + g[s \ {c[s]}]
    BY <1>5 DEF IsSum
  <2>3. s # {} => c[s] \in H /\ g[s \ {c[s]}] \in Nat
    BY <1>6
  <2>4. QED
    BY <1>4, <2>2, <2>3
<1>8. IsFold(h, T, 0, f, c)
  <2>1. SUFFICES ASSUME NEW s \in SUBSET T
                 PROVE  h[s] = IF s = {} THEN 0 ELSE f[<<c[s], h[s \ {c[s]}]>>]
    BY <1>3 DEF IsFold, IsSum
  <2>2. h[s] = IF s = {} THEN 0 ELSE c[s].shares + h[s \ {c[s]}]
    BY <1>3, <1>5 DEF IsSum
  <2>3. s # {} => c[s] \in T /\ h[s \ {c[s]}] \in Nat
    BY <1>3, <1>6
  <2>4. QED
    BY <1>4, <2>2, <2>3
<1>9. \A s \in SUBSET T : g[s] = h[s]
  BY <1>2, <1>6, <1>7, <1>8, FoldsAgree DEF Sales
<1>10. QED
  BY <1>3, <1>9

\* What the handlers of a set sell is what one sells and what the others sell,
\* whichever one it is.
LEMMA SharesRest ==
  ASSUME NEW H, Sales(H)
  PROVE  /\ SharesOf({}) = 0 /\ SharesOf(H) \in Nat
         /\ \A x \in H : SharesOf(H) = x.shares + SharesOf(H \ {x})
<1>1. PICK g \in [SUBSET H -> Nat] : IsSum(g, H) /\ SharesOf(H) = g[H]
  BY SharesSum
<1>2. \A s \in SUBSET H : SharesOf(s) = g[s]
  BY <1>1, SharesPart
<1>3. PICK c : c = [s \in SUBSET H |-> CHOOSE y \in s : TRUE]
  OBVIOUS
<1>4. \A s \in SUBSET H : s # {} => c[s] \in s
  BY <1>3
<1>5. PICK v : v = [x \in H |-> x.shares]
  OBVIOUS
<1>6. v \in [H -> Nat]
  BY <1>5 DEF Sales
<1>7. \A s \in SUBSET H : s # {} => g[s] = v[c[s]] + g[s \ {c[s]}]
  BY <1>1, <1>3, <1>4, <1>5 DEF IsSum
<1>8. \A x \in H : g[H] = v[x] + g[H \ {x}]
  <2>1. IsTotal(g, H, v, c)
    BY <1>1, <1>4, <1>6, <1>7 DEF IsTotal
  <2>2. SUFFICES ASSUME NEW x \in H PROVE g[H] = v[x] + g[H \ {x}]
    OBVIOUS
  <2>3. QED
    BY <2>1, SumRest DEF Sales
<1>9. g[{}] = 0
  BY <1>1 DEF IsSum
<1>10. QED
  BY <1>1, <1>2, <1>5, <1>8, <1>9

\* The handlers of H for rule r.
Of(H, r) == {h \in H : h.rule = r}

\* With one more handler, the sales of its rule grow by what it sells, those of
\* other rules do not.
LEMMA SharesOfRule ==
  ASSUME NEW H, Sales(H), NEW x \in H, NEW r
  PROVE  /\ SharesOf(Of(H, r)) \in Nat /\ SharesOf(Of(H \ {x}, r)) \in Nat
         /\ SharesOf(Of(H, r)) = SharesOf(Of(H \ {x}, r))
                                 + IF x.rule = r THEN x.shares ELSE 0
<1>1. Sales(Of(H, r)) /\ Sales(Of(H \ {x}, r))
  BY FS_Subset DEF Sales, Of
<1>2. CASE x.rule = r
  <2>1. x \in Of(H, r) /\ Of(H, r) \ {x} = Of(H \ {x}, r)
    BY <1>2 DEF Of
  <2>2. SharesOf(Of(H, r)) = x.shares + SharesOf(Of(H \ {x}, r))
    BY <1>1, <2>1, SharesRest
  <2>3. x.shares \in Nat
    BY DEF Sales
  <2>4. QED
    BY <1>1, <1>2, <2>2, <2>3, SharesRest
<1>3. CASE x.rule # r
  <2>1. Of(H, r) = Of(H \ {x}, r)
    BY <1>3 DEF Of
  <2>2. QED
    BY <1>1, <1>3, <2>1, SharesRest
<1>4. QED
  BY <1>2, <1>3

\* Nothing is sold of a rule that no handler is for.
LEMMA SharesOfNone ==
  ASSUME NEW H, NEW r, Of(H, r) = {}
  PROVE  SharesOf(Of(H, r)) = 0
<1>1. Sales({})
  BY FS_EmptySet DEF Sales
<1>2. QED
  BY <1>1, SharesRest

\* A sale of one handler.
LEMMA SharesOfOne ==
  ASSUME NEW h, h.shares \in Nat
  PROVE  /\ SharesOf(Of({h}, h.rule)) = h.shares
         /\ \A r : r # h.rule => SharesOf(Of({h}, r)) = 0
<1>1. Sales({h}) /\ h \in {h}
  BY FS_Singleton DEF Sales
<1>2. {h} \ {h} = {} /\ \A r : Of({}, r) = {}
  BY DEF Of
<1>3. \A r : SharesOf(Of({}, r)) = 0
  BY <1>2, SharesOfNone
<1>4. \A r : SharesOf(Of({h}, r)) = SharesOf(Of({}, r))
                                    + IF h.rule = r THEN h.shares ELSE 0
  BY <1>1, <1>2, SharesOfRule
<1>5. QED
  BY <1>3, <1>4

\* Sales happen: nothing that was sold before is lost, and no more is sold of a
\* rule than its shares.
LEMMA SellGrows ==
  ASSUME SoldInv, RuleAssumption, NEW H, Sales(H), Sell(H)
  PROVE  /\ SoldInv' /\ Before(sold, sold') /\ DOMAIN sold' = DOMAIN sold
         /\ \A r \in DOMAIN sold :
              sold'[r] = Shares[r] \/ sold'[r] = sold[r] + SharesOf(Of(H, r))
<1>1. sold' = [r \in DOMAIN sold |->
                 Min({Shares[r], sold[r] + SharesOf(Of(H, r))})]
  BY DEF Sell, Of
<1>2. ASSUME NEW r \in DOMAIN sold
      PROVE  /\ sold'[r] \in Nat /\ sold[r] \in Nat
             /\ sold[r] <= sold'[r] /\ sold'[r] <= Shares[r]
             /\ sold'[r] = Shares[r] \/ sold'[r] = sold[r] + SharesOf(Of(H, r))
  <2>1. Sales(Of(H, r))
    BY FS_Subset DEF Sales, Of
  <2>2. SharesOf(Of(H, r)) \in Nat
    BY <2>1, SharesRest
  <2>3. Shares[r] \in Nat /\ sold[r] \in Nat /\ sold[r] <= Shares[r]
    BY DEF SoldInv, RuleAssumption
  <2>4. PICK n \in Nat : n = sold[r] + SharesOf(Of(H, r))
    BY <2>2, <2>3
  <2>5. PICK a \in Int : a = Shares[r]
    BY <2>3
  <2>6. Min({a, n}) = IF a <= n THEN a ELSE n
    BY n \in Int, MinTwo
  <2>7. sold'[r] = Min({a, n})
    BY <1>1, <2>4, <2>5
  <2>8. QED
    BY <2>2, <2>3, <2>4, <2>5, <2>6, <2>7
<1>3. DOMAIN sold' = DOMAIN sold
  BY <1>1
<1>4. sold' \in [DOMAIN sold -> Nat]
  BY <1>1, <1>2
<1>5. SoldInv'
  BY <1>2, <1>3, <1>4 DEF SoldInv
<1>6. QED
  BY <1>2, <1>3, <1>5 DEF Before

\* What a step sells is a number.
LEMMA StepSharesNat ==
  ASSUME RuleAssumption, NEW l \in Ladders, NEW k \in Step(l), NEW r \in Ladder
  PROVE  StepShares(l, k, r) \in Nat
<1>1. Plan[l] \in Seq([trigger : Nat, percent : Nat])
  BY DEF RuleAssumption
<1>2. Plan[l][k] \in [trigger : Nat, percent : Nat]
  <2>1. PICK p \in Seq([trigger : Nat, percent : Nat]) : p = Plan[l]
    BY <1>1
  <2>2. k \in DOMAIN p
    BY <2>1 DEF Step
  <2>3. p[k] \in [trigger : Nat, percent : Nat]
    <3>1. k \in 1 .. Len(p)
      BY <2>2
    <3>2. QED
      BY <3>1, ElementOfSeq
  <2>4. QED
    BY <2>1, <2>3
<1>3. PICK a \in Nat, b \in Nat : a = r.remaining /\ b = Plan[l][k].percent
  BY <1>2 DEF Ladder
<1>4. a * b \in Nat
  OBVIOUS
<1>5. PICK m \in Nat : m = a * b
  BY <1>4
<1>6. m \div 100 \in Nat
  OBVIOUS
<1>7. QED
  BY <1>3, <1>5, <1>6 DEF StepShares

\* The handlers of H may mark the steps they are for.
Steps(H) == \A h \in H : h.rule \in Ladders => h.step \in Step(h.rule)

BookOk(b) ==
  /\ b \in [DOMAIN b -> Ladder] /\ DOMAIN b \subseteq Ladders
  /\ \A l \in DOMAIN b : /\ b[l].done \subseteq Step(l)
                         /\ b[l].remaining <= Shares[l]

\* Book m is book b after a step was sold by handler h and marked: what is left
\* of the ladder fell by no more than was sold.
Marked(b, h, m) ==
  /\ BookOk(m) /\ DOMAIN m = DOMAIN b
  /\ \A l \in DOMAIN b :
       /\ h.rule # l => m[l] = b[l]
       /\ h.rule = l => m[l].remaining + h.shares >= b[l].remaining

\* Marking a step of a ladder.
LEMMA MarkOne ==
  ASSUME RuleAssumption, NEW b, BookOk(b), NEW h, h.shares \in Nat, Steps({h})
  PROVE  Marked(b, h, MarkStepExecuted(h, b))
<1> PICK m : m = MarkStepExecuted(h, b)
  OBVIOUS
<1>0. \A l \in DOMAIN b : b[l].remaining \in Nat
  BY DEF BookOk, Ladder
<1>1. CASE h.rule \notin DOMAIN b
  <2>1. m = b
    BY <1>1 DEF MarkStepExecuted
  <2>2. QED
    BY <1>0, <1>1, <2>1 DEF Marked
<1>2. CASE h.rule \in DOMAIN b
  <2>1. PICK q : q = h.rule
    OBVIOUS
  <2>2. PICK r \in Ladder : r = b[q]
    BY <1>2, <2>1 DEF BookOk
  <2>3. r.remaining \in Nat /\ r.remaining <= Shares[q] /\ r.done \subseteq Step(q)
        /\ r.active \in BOOLEAN /\ q \in Ladders
    BY <1>2, <2>1, <2>2 DEF Ladder, BookOk
  <2>4. PICK d \in Int : d = r.remaining - h.shares
    BY <2>3
  <2>5. PICK left : left = Max({0, r.remaining - h.shares})
    OBVIOUS
  <2>6. left \in Nat /\ left <= Shares[q] /\ left + h.shares >= r.remaining
    <3>1. Max({0, d}) = IF 0 >= d THEN 0 ELSE d
      BY MaxTwo
    <3>2. Shares[q] \in Nat
      BY <2>3 DEF RuleAssumption
    <3>3. QED
      BY <2>3, <2>4, <2>5, <3>1, <3>2
  <2>7. PICK done : done = r.done \union {h.step}
    OBVIOUS
  <2>8. done \subseteq Step(q) /\ Step(q) \subseteq Nat
    <3>1. Plan[q] \in Seq([trigger : Nat, percent : Nat])
      BY <2>3 DEF RuleAssumption
    <3>2. QED
      BY SMTT(30), <2>1, <2>3, <2>7, <3>1 DEF Step, Steps
  <2>9. PICK n : n = [done |-> done, remaining |-> left,
                      active |-> r.active /\ done # Step(q) /\ left > 0]
    OBVIOUS
  <2>10. n \in Ladder
    <3>1. PICK a \in BOOLEAN : a = (r.active /\ done # Step(q) /\ left > 0)
      OBVIOUS
    <3>2. n = [done |-> done, remaining |-> left, active |-> a]
      BY <2>9, <3>1
    <3>3. done \in SUBSET Nat
      BY <2>8
    <3>4. QED
      BY <2>6, <3>2, <3>3 DEF Ladder
  <2>11. m = [b EXCEPT ![q] = n]
    BY <1>2, <2>1, <2>2, <2>5, <2>7, <2>9 DEF MarkStepExecuted
  <2>12. \A l \in DOMAIN b : m[l] = IF l = q THEN n ELSE b[l]
    BY <2>11
  <2>13. n.done = done /\ n.remaining = left
    BY <2>9
  <2>14. DOMAIN m = DOMAIN b /\ m \in [DOMAIN b -> Ladder]
    BY <2>10, <2>11 DEF BookOk
  <2>15. BookOk(m)
    BY <2>6, <2>8, <2>12, <2>13, <2>14 DEF BookOk
  <2>16. QED
    BY <2>1, <2>2, <2>6, <2>12, <2>13, <2>14, <2>15 DEF Marked
<1>3. QED
  BY <1>1, <1>2

\* The sales of the handlers in H lead from S to T: all of them, as far as a rule
\* has shares.
SoldBy(H, S, T) ==
  \A r \in DOMAIN S : T[r] = Shares[r] \/ T[r] = S[r] + SharesOf(Of(H, r))

\* When a step is sold and marked, no ladder books a sale that did not happen.
LEMMA MarkOneKept ==
  ASSUME RuleAssumption, NEW S, NEW T, Before(S, T), NEW b \in LadderBooks(S),
         NEW h, h.shares \in Nat, Steps({h}), SoldBy({h}, S, T)
  PROVE  MarkStepExecuted(h, b) \in LadderBooks(T)
<1>1. /\ DOMAIN b \subseteq Ladders \intersect DOMAIN S
      /\ b = [l \in DOMAIN b |-> b[l]]
      /\ \A l \in DOMAIN b : LadderOk(l, b[l], S)
  BY LadderBookIs
<1>2. BookOk(b)
  BY <1>1 DEF LadderOk, BookOk
<1>3. PICK m : m = MarkStepExecuted(h, b)
  OBVIOUS
<1>4. Marked(b, h, m)
  BY <1>2, <1>3, MarkOne
<1>5. \A l \in DOMAIN b :
        /\ m[l] \in Ladder /\ m[l].done \subseteq Step(l)
        /\ m[l].remaining <= Shares[l]
        /\ h.rule # l => m[l] = b[l]
        /\ h.rule = l => m[l].remaining + h.shares >= b[l].remaining
  BY <1>4 DEF Marked, BookOk
<1>6. ASSUME NEW l \in DOMAIN b PROVE LadderOk(l, m[l], T)
  <2>1. b[l].remaining + S[l] >= Shares[l] /\ l \in DOMAIN S
    BY <1>1 DEF LadderOk
  <2>2. Shares[l] \in Nat /\ S[l] \in Nat /\ T[l] \in Nat /\ S[l] <= T[l]
    BY <1>1 DEF RuleAssumption, Before
  <2>3. m[l].remaining \in Nat /\ b[l].remaining \in Nat
    BY <1>1, <1>5 DEF Ladder, LadderOk
  <2>4. CASE h.rule = l
    <3>1. T[l] = Shares[l] \/ T[l] = S[l] + h.shares
      BY <2>1, <2>4, SharesOfOne DEF SoldBy
    <3>2. m[l].remaining + h.shares >= b[l].remaining
      BY <1>5, <2>4
    <3>3. m[l].remaining + T[l] >= Shares[l]
      <4>1. CASE T[l] = Shares[l]
        BY <2>2, <2>3, <4>1
      <4>2. CASE T[l] = S[l] + h.shares
        <5>1. m[l].remaining + T[l] = (m[l].remaining + h.shares) + S[l]
          BY <2>2, <2>3, <4>2
        <5>2. QED
          BY <2>1, <2>2, <2>3, <3>2, <5>1
      <4>3. QED
        BY <3>1, <4>1, <4>2
    <3>4. QED
      BY <1>5, <3>3 DEF LadderOk
  <2>5. CASE h.rule # l
    <3>1. m[l].remaining + T[l] >= Shares[l]
      BY <1>5, <2>1, <2>2, <2>3, <2>5
    <3>2. QED
      BY <1>5, <3>1 DEF LadderOk
  <2>6. QED
    BY <2>4, <2>5
<1>7. DOMAIN m \subseteq Ladders \intersect DOMAIN T /\ m = [l \in DOMAIN m |-> m[l]]
  BY <1>1, <1>4 DEF Before, Marked, BookOk
<1>8. m \in LadderBooks(T)
  BY <1>4, <1>6, <1>7, LadderBookIs DEF Marked
<1>9. QED
  BY <1>3, <1>8

-----------------------------------------------------------------------------
(* The checks of a tick.                                                   *)

\* The steps of a ladder are numbers.
LEMMA StepsNat ==
  ASSUME RuleAssumption, NEW l \in Ladders
  PROVE  Step(l) \subseteq Nat
<1>1. PICK p \in Seq([trigger : Nat, percent : Nat]) : p = Plan[l]
  BY DEF RuleAssumption
<1>2. Step(l) = 1 .. Len(p) /\ Len(p) \in Nat
  BY <1>1 DEF Step
<1>3. QED
  BY <1>2

\* The steps that are due are of ladders that exist.
LEMMA DueSteps ==
  ASSUME RuleAssumption, NEW S, NEW b \in LadderBooks(S), NEW t \in Tenants, NEW prices
  PROVE  CheckLadders(t, b, prices) \subseteq Work(S)
<1>1. SUFFICES ASSUME NEW l \in DOMAIN b, NEW k \in Step(l)
               PROVE  [tenant |-> t, rule |-> l, step |-> k,
                       shares |-> StepShares(l, k, b[l])] \in Work(S)
  BY DEF CheckLadders
<1>2. DOMAIN b \subseteq Ladders \intersect DOMAIN S /\ b[l] \in Ladder
  BY LadderBookIs DEF LadderOk
<1>3. k \in Nat /\ StepShares(l, k, b[l]) \in Nat
  BY <1>2, StepsNat, StepSharesNat
<1>4. QED
  BY <1>2, <1>3 DEF Work, Handler

\* A new price never lowers the stop price of an order, and an order that
\* triggers was active and is so no longer.
LEMMA OrderUpdated ==
  ASSUME RuleAssumption, NEW s \in Stops, NEW o \in Order, NEW p \in Nat
  PROVE  /\ UpdateOrder(s, o, p) \in Order
         /\ UpdateOrder(s, o, p).stop >= o.stop
         /\ UpdateOrder(s, o, p).active => o.active /\ ~Triggers(s, o, p)
         /\ Triggers(s, o, p) => o.active
<1>1. /\ o.stop \in Nat /\ o.high \in Nat /\ o.locked \in BOOLEAN
      /\ o.active \in BOOLEAN
  BY DEF Order
<1>2. Entry[s] \in Nat /\ Trail[s] \in Nat
  BY DEF RuleAssumption
<1>3. PICK q \in Int : q = (p * (100 - Trail[s])) \div 100
  <2>1. PICK d \in Int : d = 100 - Trail[s]
    BY <1>2
  <2>2. PICK m \in Int : m = p * d
    OBVIOUS
  <2>3. m \div 100 \in Int
    OBVIOUS
  <2>4. QED
    BY <2>1, <2>2, <2>3
<1>4. PICK n : n = TrailingStop(s, o, p)
  OBVIOUS
<1>5. n \in Nat /\ n >= o.stop
  <2>1. PICK a \in Int : a = o.stop
    BY <1>1
  <2>2. Max({a, q}) = IF a >= q THEN a ELSE q
    BY MaxTwo
  <2>3. QED
    BY SMTT(30), <1>1, <1>3, <1>4, <2>1, <2>2 DEF TrailingStop
<1>6. PICK m : m = IF Locks(s, o, p) THEN Max({n, Entry[s]}) ELSE n
  OBVIOUS
<1>7. m \in Nat /\ m >= o.stop
  <2>1. PICK a \in Int, b \in Int : a = n /\ b = Entry[s]
    BY <1>2, <1>5
  <2>2. Max({a, b}) = IF a >= b THEN a ELSE b
    BY MaxTwo
  <2>3. QED
    BY <1>1, <1>2, <1>5, <1>6, <2>1, <2>2
<1>8. PICK hi : hi = Max({o.high, p})
  OBVIOUS
<1>9. hi \in Nat
  <2>1. PICK a \in Int, b \in Int : a = o.high /\ b = p
    BY <1>1
  <2>2. Max({a, b}) = IF a >= b THEN a ELSE b
    BY MaxTwo
  <2>3. QED
    BY <1>1, <1>8, <2>1, <2>2
<1>10. PICK r : r = RaiseStop(s, o, p)
  OBVIOUS
<1>11. PICK lk \in BOOLEAN : r = [stop |-> m, high |-> hi, locked |-> lk,
                                 active |-> o.active]
  <2>1. PICK k \in BOOLEAN : k = (o.locked \/ Locks(s, o, p))
    OBVIOUS
  <2>2. r = [o EXCEPT !.high = hi, !.stop = m, !.locked = k]
    BY <1>4, <1>6, <1>8, <1>10, <2>1 DEF RaiseStop
  <2>3. QED
    BY <2>2 DEF Order
<1>12. PICK u : u = UpdateOrder(s, o, p)
  OBVIOUS
<1>13. CASE ~o.active
  <2>1. u = o
    BY <1>12, <1>13 DEF UpdateOrder
  <2>2. QED
    BY <1>1, <1>12, <1>13, <2>1 DEF Triggers
<1>14. CASE o.active
  <2>1. PICK k \in BOOLEAN : k = ~Triggers(s, o, p)
    OBVIOUS
  <2>2. u = [r EXCEPT !.active = k]
    BY <1>10, <1>12, <1>14, <2>1 DEF UpdateOrder
  <2>3. u = [stop |-> m, high |-> hi, locked |-> lk, active |-> k]
    BY <1>11, <2>2
  <2>4. u \in Order
    BY <1>7, <1>9, <1>11, <2>3 DEF Order
  <2>5. u.stop = m /\ u.active = k
    BY <2>3
  <2>6. QED
    BY <1>7, <1>12, <1>14, <2>1, <2>4, <2>5
<1>15. QED
  BY <1>13, <1>14

\* The stop-loss orders after new prices.
LEMMA StopsUpdated ==
  ASSUME RuleAssumption, ExitAssumption, NEW S, NEW b \in StopBooks(S),
         NEW prices \in PriceBooks
  PROVE  /\ UpdatePrices(b, prices) \in StopBooks(S)
         /\ DOMAIN UpdatePrices(b, prices) = DOMAIN b
         /\ Triggered(b, prices) \subseteq DOMAIN b
         /\ \A s \in DOMAIN b :
              /\ UpdatePrices(b, prices)[s].stop >= b[s].stop
              /\ UpdatePrices(b, prices)[s].active =>
                   b[s].active /\ s \notin Triggered(b, prices)
              /\ s \in Triggered(b, prices) => b[s].active
<1>1. DOMAIN b \subseteq Stops \intersect DOMAIN S /\ b \in [DOMAIN b -> Order]
  BY StopBookIs
<1>2. \A k \in DOMAIN prices : prices[k] \in Nat
  <2>1. PICK D \in SUBSET Tokens : prices \in [D -> Prices]
    BY DEF PriceBooks
  <2>2. QED
    BY <2>1 DEF ExitAssumption
<1>3. PICK u : u = UpdatePrices(b, prices)
  OBVIOUS
<1>4. u = [s \in DOMAIN b |-> IF s \in Priced(b, prices)
                              THEN UpdateOrder(s, b[s], prices[TokenOf[s]])
                              ELSE b[s]]
  BY <1>3 DEF UpdatePrices
<1>5. ASSUME NEW s \in DOMAIN b
      PROVE  /\ u[s] \in Order /\ u[s].stop >= b[s].stop
             /\ u[s].active => b[s].active /\ s \notin Triggered(b, prices)
             /\ s \in Triggered(b, prices) => b[s].active
  <2>1. s \in Stops /\ b[s] \in Order
    BY <1>1
  <2>2. CASE s \in Priced(b, prices)
    <3>1. PICK p \in Nat : p = prices[TokenOf[s]]
      BY <1>2, <2>2 DEF Priced
    <3>2. u[s] = UpdateOrder(s, b[s], p)
      BY <1>4, <2>2, <3>1
    <3>3. s \in Triggered(b, prices) <=> Triggers(s, b[s], p)
      BY <2>2, <3>1 DEF Triggered
    <3>4. /\ UpdateOrder(s, b[s], p) \in Order
          /\ UpdateOrder(s, b[s], p).stop >= b[s].stop
          /\ UpdateOrder(s, b[s], p).active => b[s].active /\ ~Triggers(s, b[s], p)
          /\ Triggers(s, b[s], p) => b[s].active
      BY <2>1, OrderUpdated
    <3>5. QED
      BY <3>2, <3>3, <3>4
  <2>3. CASE s \notin Priced(b, prices)
    <3>1. u[s] = b[s] /\ s \notin Triggered(b, prices)
      BY <1>4, <2>3 DEF Triggered
    <3>2. b[s].stop \in Nat
      BY <2>1 DEF Order
    <3>3. QED
      BY <2>1, <3>1, <3>2
  <2>4. QED
    BY <2>2, <2>3
<1>6. DOMAIN u = DOMAIN b /\ u \in [DOMAIN b -> Order]
  BY <1>4, <1>5
<1>7. u \in StopBooks(S)
  BY <1>1, <1>6, StopBookIs
<1>8. Triggered(b, prices) \subseteq DOMAIN b
  BY DEF Triggered, Priced
<1>9. QED
  BY <1>3, <1>5, <1>6, <1>7, <1>8

-----------------------------------------------------------------------------
(* The steps of the process keep the invariant.                            *)

\* A bag that gets elements or loses some.
LEMMA JobsKept ==
  ASSUME NEW S, NEW B, DOMAIN B \subseteq Jobs(S), NEW A, DOMAIN A \subseteq Jobs(S),
         NEW R
  PROVE  /\ DOMAIN (B (-) R) \subseteq Jobs(S)
         /\ DOMAIN ((B (-) R) (+) A) \subseteq Jobs(S)
         /\ DOMAIN (B (+) A) \subseteq Jobs(S)
<1>1. DOMAIN (B (-) R) \subseteq DOMAIN B
  BY BagRestElements
<1>2. DOMAIN ((B (-) R) (+) A) = DOMAIN (B (-) R) \union DOMAIN A
  BY BagUnionElements
<1>3. DOMAIN (B (+) A) = DOMAIN B \union DOMAIN A
  BY BagUnionElements
<1>4. QED
  BY <1>1, <1>2, <1>3

\* What is kept does not depend on other variables.
LEMMA KeptSame ==
  ASSUME NEW S, Kept(S), UNCHANGED <<managers, store>>
  PROVE  Kept(S)'
BY DEF Kept, managers, store

\* A save reads, writes or fails.
LEMMA SaveStep ==
  ASSUME NEW S, Kept(S), NEW j,
         SaveLoads(j) \/ SaveWrites(j) \/ SaveFails(j)
  PROVE  Kept(S)'
<1>1. BagIn(j, saves)
  BY DEF SaveLoads, SaveWrites, SaveFails, Goes
<1>2. j \in Jobs(S) /\ DOMAIN saves \subseteq Jobs(S)
  BY <1>1 DEF BagIn, BagToSet, Kept
<1>3. CASE SaveLoads(j)
  <2>1. PICK t \in Tenants : t = j.tenant
    BY <1>2 DEF Jobs
  <2>2. PICK n : n = [j EXCEPT !.config = {disk[t]}]
    OBVIOUS
  <2>3. disk[t] \in Configs(S)
    BY DEF Kept
  <2>4. n \in Jobs(S)
    BY <1>2, <2>2, <2>3 DEF Jobs
  <2>5. PICK A : A = SetToBag({n})
    OBVIOUS
  <2>6. DOMAIN A \subseteq Jobs(S)
    BY <2>4, <2>5, SetBagElements
  <2>7. PICK R : R = SetToBag({j})
    OBVIOUS
  <2>8. saves' = (saves (-) R) (+) A
    BY <1>3, <2>1, <2>2, <2>5, <2>7 DEF SaveLoads
  <2>9. DOMAIN saves' \subseteq Jobs(S)
    BY <1>2, <2>6, <2>8, JobsKept
  <2>10. QED
    BY <1>3, <2>9 DEF Kept, SaveLoads, managers
<1>4. CASE SaveWrites(j)
  <2>1. PICK c \in j.config :
          disk' = [disk EXCEPT ![j.tenant] =
                     CASE j.kind = "ladders" -> WithLadders(c, lm)
                       [] j.kind = "stops"   -> WithStops(c, sm)
                       [] OTHER              -> c]
    BY <1>4 DEF SaveWrites
  <2>2. c \in Configs(S)
    BY <1>2 DEF Jobs
  <2>3. PICK n : n = CASE j.kind = "ladders" -> WithLadders(c, lm)
                       [] j.kind = "stops"   -> WithStops(c, sm)
                       [] OTHER              -> c
    OBVIOUS
  <2>4. WithLadders(c, lm) \in Configs(S) /\ WithStops(c, sm) \in Configs(S)
    BY <2>2, WithKept DEF Kept
  <2>5. n \in Configs(S)
    BY <2>2, <2>3, <2>4
  <2>6. disk' \in [Tenants -> Configs(S)]
    BY <2>1, <2>3, <2>5 DEF Kept
  <2>7. saves' = saves (-) SetToBag({j})
    BY <1>4 DEF SaveWrites
  <2>8. DOMAIN saves' \subseteq Jobs(S)
    BY <1>2, <2>7, BagRestElements
  <2>9. j.tenant \in Owner
    BY <1>2 DEF Jobs, Owner
  <2>10. lm' \in LadderStates(S)
    BY <1>4, <2>9 DEF SaveWrites, Kept, LadderStates
  <2>11. sm' \in StopStates(S)
    BY <1>4, <2>9 DEF SaveWrites, Kept, StopStates
  <2>12. QED
    BY <2>6, <2>8, <2>10, <2>11 DEF Kept
<1>5. CASE SaveFails(j)
  <2>1. saves' = saves (-) SetToBag({j})
    BY <1>5 DEF SaveFails
  <2>2. DOMAIN saves' \subseteq Jobs(S)
    BY <1>2, <2>1, BagRestElements
  <2>3. QED
    BY <1>5, <2>2 DEF Kept, SaveFails, managers
<1>6. QED
  BY <1>3, <1>4, <1>5

\* Another setting is saved.
LEMMA OtherStep ==
  ASSUME NEW S, Kept(S), NEW t \in Tenants, OtherSave(t)
  PROVE  Kept(S)'
<1>1. PICK n : n = Save(t, "other")
  OBVIOUS
<1>2. n \in Jobs(S)
  BY <1>1 DEF Save, Jobs, SaveKind
<1>3. saves' = saves (+) SetToBag({n})
  BY <1>1 DEF OtherSave
<1>4. DOMAIN saves' = DOMAIN saves \union {n}
  <2>1. PICK A : A = SetToBag({n})
    OBVIOUS
  <2>2. DOMAIN A = {n}
    BY <2>1, SetBagElements
  <2>3. QED
    BY <1>3, <2>1, <2>2, BagUnionElements
<1>5. QED
  BY <1>2, <1>4 DEF Kept, OtherSave, managers

\* The steps of a save, and those that change the managers by loading only, keep
\* the invariant: nothing is sold, no handler starts.
LEMMA ExitFrame ==
  ASSUME ExitInv, UNCHANGED <<sold, begun, handlers>>, NEW S, S = sold, Kept(S)', MonitorInv'
  PROVE  ExitInv'
<1>1. Kept(sold)'
  BY DEF Kept
<1>2. SoldInv' /\ Workers(sold)'
  BY DEF ExitInv, SoldInv, Workers
<1>3. QED
  BY <1>1, <1>2 DEF ExitInv

\* The rules of the managers have tokens.
LEMMA BookTokens ==
  ASSUME RuleAssumption, NEW S
  PROVE  \A m \in LadderStates(S) \union StopStates(S) :
           \A r \in DOMAIN m.book : TokenOf[r] \in Tokens
<1>1. \A m \in LadderStates(S) : DOMAIN m.book \subseteq Ladders
  BY LadderBookIs DEF LadderStates
<1>2. \A m \in StopStates(S) : DOMAIN m.book \subseteq Stops
  BY StopBookIs DEF StopStates
<1>3. QED
  BY <1>1, <1>2 DEF RuleAssumption

\* A tick starts, or the monitor does: the managers are synced.
LEMMA VisitKept ==
  ASSUME RuleAssumption, ExitAssumption, NEW S, Kept(S),
         NEW order \in SetToSeqs(TickTenants)
  PROVE  /\ VisitAll(order).lm \in LadderStates(S)
         /\ VisitAll(order).sm \in StopStates(S)
         /\ VisitAll(order).tokens \subseteq Tokens
         /\ order \in Seq(Tenants)
         /\ order = <<>> => VisitAll(order).tokens = {}
<1>1. PICK LS : LS = LadderStates(S)
  OBVIOUS
<1>2. PICK SS : SS = StopStates(S)
  OBVIOUS
<1>3. disk \in [Tenants -> Configs(S)] /\ lm \in LS /\ sm \in SS
  BY <1>1, <1>2 DEF Kept
<1>4. /\ \A t \in Tenants : \A m \in LS : SyncLadders(t, m) \in LS
      /\ \A t \in Tenants : \A m \in SS : SyncStops(t, m) \in SS
  BY <1>1, <1>2, <1>3, SyncKept
<1>5. \A m \in LS \union SS : \A r \in DOMAIN m.book : TokenOf[r] \in Tokens
  BY <1>1, <1>2, BookTokens
<1>6. SyncClosed(LS, SS)
  BY <1>3, <1>4, <1>5 DEF SyncClosed
<1>7. /\ VisitAll(order) \in [lm : LS, sm : SS, tokens : SUBSET Tokens]
      /\ order \in Seq(Tenants)
      /\ order = <<>> => VisitAll(order).tokens = {}
  BY <1>6, VisitIn DEF ExitAssumption
<1>8. QED
  BY <1>1, <1>2, <1>7

\* What the handlers in H sell is booked: the invariant holds if what is kept is
\* right after the sales.
LEMMA ExitSale ==
  ASSUME RuleAssumption, ExitInv, NEW H, Sales(H), Sell(H), NEW T, T = sold',
         Kept(T)', Workers(T)', MonitorInv'
  PROVE  ExitInv'
<1>1. SoldInv'
  BY SellGrows DEF ExitInv
<1>2. Kept(sold)' /\ Workers(sold)'
  BY DEF Kept, Workers
<1>3. QED
  BY <1>1, <1>2 DEF ExitInv

\* The sales of the handlers in H, as the lemmas above need them.
LEMMA SaleFacts ==
  ASSUME RuleAssumption, ExitInv, NEW H, Sales(H), Sell(H), NEW T, T = sold'
  PROVE  Before(sold, T) /\ SoldBy(H, sold, T) /\ Kept(T) /\ Work(sold) \subseteq Work(T)
<1>1. Before(sold, T) /\ SoldBy(H, sold, T)
  BY SellGrows DEF ExitInv, SoldBy
<1>2. PICK S : S = sold
  OBVIOUS
<1>3. Before(S, T) /\ Kept(S)
  BY <1>1, <1>2 DEF ExitInv
<1>4. Kept(T) /\ Work(S) \subseteq Work(T)
  BY <1>3, KeptGrows DEF Kept
<1>5. QED
  BY <1>1, <1>2, <1>4

\* The step of handler h is sold and marked in the ladders l.
LEMMA MarkedSale ==
  ASSUME RuleAssumption, ExitInv, NEW h \in Work(sold), Sell({h}),
         NEW S, S = sold, NEW l \in LadderStates(S), NEW s \in StopStates(S),
         ChangeAndSave(h.tenant, [l EXCEPT !.book = MarkStepExecuted(h, @)], s,
                       {"ladders"}),
         Workers(S)', MonitorInv'
  PROVE  ExitInv'
<1>1. PICK T : T = sold'
  OBVIOUS
<1>2. h \in Handler /\ h.shares \in Nat /\ Steps({h}) /\ h.tenant \in Tenants
  BY DEF Work, Handler, Steps
<1>3. Sales({h})
  BY <1>2, FS_Singleton DEF Sales
<1>4. Before(S, T) /\ SoldBy({h}, S, T) /\ Kept(T) /\ Work(S) \subseteq Work(T)
  BY <1>1, <1>3, SaleFacts
<1>5. PICK m : m = [l EXCEPT !.book = MarkStepExecuted(h, @)]
  OBVIOUS
<1>6. m \in LadderStates(T)
  <2>1. l.book \in LadderBooks(S)
    BY DEF LadderStates
  <2>2. MarkStepExecuted(h, l.book) \in LadderBooks(T)
    BY <1>2, <1>4, <2>1, MarkOneKept
  <2>3. QED
    BY <1>5, <2>2 DEF LadderStates
<1>7. s \in StopStates(T)
  BY <1>4, KeptGrows
<1>8. ChangeAndSave(h.tenant, m, s, {"ladders"})
  BY <1>5
<1>9. Kept(T)'
  BY <1>2, <1>4, <1>6, <1>7, <1>8, ChangeKept
<1>10. Workers(T)'
  BY <1>4 DEF Workers
<1>11. QED
  BY <1>1, <1>3, <1>9, <1>10, ExitSale

\* executeTrade returns for handler h, or its answer is lost.
LEMMA HandlerStep ==
  ASSUME RuleAssumption, ExitInv, NEW h,
         (\E success \in BOOLEAN : HandlerReturns(h, success)) \/ AnswerLost(h)
  PROVE  ExitInv'
<1>1. PICK S : S = sold
  OBVIOUS
<1>2. BagIn(h, handlers) /\ handlers' = handlers (-) SetToBag({h}) /\ begun' = begun
  BY DEF HandlerReturns, AnswerLost
<1>3. h \in Work(S) /\ h.shares \in Nat
  BY <1>1, <1>2 DEF BagIn, BagToSet, ExitInv, Workers, Work, Handler
<1>4. DOMAIN handlers' \subseteq DOMAIN handlers
  BY <1>2, BagRestElements
<1>5. Workers(S)'
  BY <1>1, <1>2, <1>4, FS_Subset DEF ExitInv, Workers
<1>6. MonitorInv'
  BY DEF HandlerReturns, AnswerLost, ExitInv, MonitorInv, monitor
<1>7. Sales({h}) /\ Sales({})
  BY <1>3, FS_Singleton, FS_EmptySet DEF Sales
<1>8. ASSUME NEW H, Sales(H), Sell(H), UNCHANGED <<managers, store>> PROVE ExitInv'
  <2>1. PICK T : T = sold'
    OBVIOUS
  <2>2. Kept(T) /\ Work(S) \subseteq Work(T)
    BY <1>1, <1>8, <2>1, SaleFacts
  <2>3. Kept(T)'
    BY <1>8, <2>2, KeptSame
  <2>4. Workers(T)'
    BY <1>5, <2>2 DEF Workers
  <2>5. QED
    BY <1>6, <1>8, <2>1, <2>3, <2>4, ExitSale
<1>9. CASE AnswerLost(h)
  BY <1>7, <1>8, <1>9 DEF AnswerLost
<1>10. ASSUME NEW success \in BOOLEAN, HandlerReturns(h, success) PROVE ExitInv'
  <2>1. CASE ~(success /\ h.rule \in DOMAIN lm.book)
    <3>1. PICK H : H = IF success THEN {h} ELSE {}
      OBVIOUS
    <3>2. Sales(H) /\ Sell(H)
      BY <1>7, <1>10, <3>1 DEF HandlerReturns
    <3>3. UNCHANGED <<managers, store>>
      BY <1>10, <2>1 DEF HandlerReturns
    <3>4. QED
      BY <1>8, <3>2, <3>3
  <2>2. CASE success /\ h.rule \in DOMAIN lm.book
    <3>1. Sell({h})
      BY <1>10, <2>2 DEF HandlerReturns
    <3>2. lm \in LadderStates(S) /\ sm \in StopStates(S)
      BY <1>1 DEF ExitInv, Kept
    <3>3. ChangeAndSave(h.tenant, [lm EXCEPT !.book = MarkStepExecuted(h, @)], sm,
                        {"ladders"})
      BY <1>10, <2>2 DEF HandlerReturns
    <3>4. h \in Work(sold)
      BY <1>1, <1>3
    <3>5. QED
      BY <1>1, <1>5, <1>6, <3>1, <3>2, <3>3, <3>4, MarkedSale
  <2>3. QED
    BY <2>1, <2>2
<1>11. QED
  BY <1>9, <1>10

\* An idle tick.
LEMMA IdleIs == Idle \in TickState
<1>1. NoRules \in [{} -> Prices]
  BY DEF NoRules
<1>2. NoRules \in PriceBooks
  <2>1. {} \in SUBSET Tokens
    OBVIOUS
  <2>2. QED
    BY <1>1, <2>1 DEF PriceBooks
<1>3. <<>> \in Seq(Tenants)
  OBVIOUS
<1>4. QED
  BY <1>2, <1>3 DEF Idle, TickState

\* The tenant whose turn it is, and the tick after its turn.
LEMMA TickIs ==
  ASSUME NEW w \in TickState, w.phase # "idle"
  PROVE  /\ Head(w.todo) \in Tenants /\ w.prices \in PriceBooks
         /\ Len(w.todo) > 1 => [w EXCEPT !.phase = "sync", !.todo = Tail(w.todo)]
                                 \in TickState
<1>1. w.todo \in Seq(Tenants) /\ w.todo # <<>> /\ w.prices \in PriceBooks
  BY DEF TickState
<1>2. PICK q \in Seq(Tenants) : q = w.todo
  BY <1>1
<1>3. Head(q) \in Tenants
  BY <1>1, <1>2
<1>4. ASSUME Len(q) > 1
      PROVE  [w EXCEPT !.phase = "sync", !.todo = Tail(q)] \in TickState
  <2>1. Tail(q) \in Seq(Tenants) /\ Len(Tail(q)) = Len(q) - 1 /\ Len(q) \in Nat
    BY <1>1, <1>2
  <2>2. PICK r \in Seq(Tenants) : r = Tail(q)
    BY <2>1
  <2>3. r # <<>>
    <3>1. Len(r) > 0
      BY <1>4, <2>1, <2>2
    <3>2. QED
      BY <3>1
  <2>4. QED
    BY <2>2, <2>3 DEF TickState
<1>5. QED
  BY <1>1, <1>2, <1>3, <1>4

\* The managers sync with the tenant whose turn it is.
LEMMA SyncStep ==
  ASSUME ExitInv, NEW i \in Ticks, TickSyncs(i)
  PROVE  ExitInv'
<1>1. PICK S : S = sold
  OBVIOUS
<1>2. PICK w \in TickState : w = tick[i] /\ w.phase = "sync"
  BY DEF ExitInv, MonitorInv, TickSyncs
<1>3. PICK t \in Tenants : t = Head(w.todo)
  BY <1>2, TickIs
<1>4. lm' \in LadderStates(S) /\ sm' \in StopStates(S)
  <2>1. disk \in [Tenants -> Configs(S)] /\ lm \in LadderStates(S) /\ sm \in StopStates(S)
    BY <1>1 DEF ExitInv, Kept
  <2>2. lm' = SyncLadders(t, lm) /\ sm' = SyncStops(t, sm)
    BY <1>2, <1>3 DEF TickSyncs
  <2>3. QED
    BY <2>1, <2>2, SyncKept
<1>5. Kept(S)'
  BY <1>1, <1>4 DEF TickSyncs, ExitInv, Kept, store
<1>6. [w EXCEPT !.phase = "check"] \in TickState
  BY <1>2 DEF TickState
<1>7. tick' \in [Ticks -> TickState]
  BY <1>2, <1>6 DEF TickSyncs, ExitInv, MonitorInv
<1>8. MonitorInv' /\ UNCHANGED <<sold, begun, handlers>>
  BY <1>7 DEF TickSyncs, ExitInv, MonitorInv, monitor, history, sales
<1>9. QED
  BY <1>1, <1>5, <1>8, ExitFrame

\* The handlers of the stop-loss orders that trigger.
LEMMA StopHandlers ==
  ASSUME RuleAssumption, NEW S, NEW hit \in SUBSET (Stops \intersect DOMAIN S),
         NEW t \in Tenants
  PROVE  {[tenant |-> t, rule |-> o, step |-> 0, shares |-> Shares[o]] : o \in hit}
           \subseteq Work(S)
<1>1. SUFFICES ASSUME NEW o \in hit
               PROVE  [tenant |-> t, rule |-> o, step |-> 0, shares |-> Shares[o]]
                        \in Work(S)
  OBVIOUS
<1>2. o \in Stops /\ o \in DOMAIN S /\ o \notin Ladders /\ Shares[o] \in Nat
  BY DEF RuleAssumption
<1>3. QED
  BY <1>2 DEF Work, Handler

\* A tick checks the rules that the managers hold.
LEMMA CheckStep ==
  ASSUME RuleAssumption, ExitAssumption, ExitInv, NEW i \in Ticks, TickChecks(i)
  PROVE  ExitInv'
<1>1. PICK S : S = sold
  OBVIOUS
<1>2. PICK w \in TickState : w = tick[i] /\ w.phase = "check"
  BY DEF ExitInv, MonitorInv, TickChecks
<1>3. PICK prices \in PriceBooks : prices = w.prices
  BY <1>2, TickIs
<1>4. PICK t \in Tenants : t = Head(w.todo)
  BY <1>2, TickIs
<1>5. Kept(S) /\ lm.book \in LadderBooks(S) /\ sm.book \in StopBooks(S)
  BY <1>1 DEF ExitInv, Kept, LadderStates, StopStates
<1>6. PICK due : due = CheckLadders(t, lm.book, prices)
  OBVIOUS
<1>7. due \subseteq Work(S)
  BY <1>5, <1>6, DueSteps
<1>8. PICK hit : hit = Triggered(sm.book, prices)
  OBVIOUS
<1>9. PICK stop : stop = {[tenant |-> t, rule |-> o, step |-> 0, shares |-> Shares[o]]
                            : o \in hit}
  OBVIOUS
<1>10. stop \subseteq Work(S)
  <2>1. hit \subseteq DOMAIN sm.book
    BY <1>5, <1>8, StopsUpdated
  <2>2. DOMAIN sm.book \subseteq Stops \intersect DOMAIN S
    BY <1>5, StopBookIs
  <2>3. hit \in SUBSET (Stops \intersect DOMAIN S)
    BY <2>1, <2>2
  <2>4. QED
    BY <1>9, <2>3, StopHandlers
<1>11. Workers(S)'
  <2>1. begun' = begun \union stop \union due /\ handlers' = handlers
    BY <1>2, <1>3, <1>4, <1>6, <1>8, <1>9 DEF TickChecks
  <2>2. QED
    BY <1>1, <1>7, <1>10, <2>1 DEF ExitInv, Workers
<1>12. sm' \in StopStates(S)
  <2>1. UpdatePrices(sm.book, prices) \in StopBooks(S)
    BY <1>5, StopsUpdated
  <2>2. sm' = [sm EXCEPT !.book = UpdatePrices(@, prices)]
    BY <1>2, <1>3 DEF TickChecks
  <2>3. QED
    BY <1>5, <2>1, <2>2 DEF Kept, StopStates
<1>13. DOMAIN saves' \subseteq Jobs(S)
  <2>1. PICK j : j = Save(t, "stops")
    OBVIOUS
  <2>2. j \in Jobs(S)
    BY <2>1 DEF Save, Jobs, SaveKind
  <2>3. PICK A : A = SetToBag({j})
    OBVIOUS
  <2>4. DOMAIN A = {j}
    BY <2>3, SetBagElements
  <2>5. saves' = saves \/ saves' = saves (+) A
    BY <1>2, <1>4, <2>1, <2>3 DEF TickChecks
  <2>6. DOMAIN (saves (+) A) = DOMAIN saves \union DOMAIN A
    BY BagUnionElements
  <2>7. QED
    BY <1>5, <2>2, <2>4, <2>5, <2>6 DEF Kept
<1>14. Kept(S)'
  BY <1>5, <1>12, <1>13 DEF TickChecks, Kept
<1>15. MonitorInv'
  <2>1. tick' = [tick EXCEPT ![i] = IF Len(w.todo) <= 1 THEN Idle
                                    ELSE [w EXCEPT !.phase = "sync",
                                                   !.todo = Tail(w.todo)]]
    BY <1>2 DEF TickChecks
  <2>2. w.todo \in Seq(Tenants)
    BY DEF TickState
  <2>3. Len(w.todo) \in Nat
    BY <2>2
  <2>4. tick' \in [Ticks -> TickState]
    <3>1. tick \in [Ticks -> TickState]
      BY DEF ExitInv, MonitorInv
    <3>2. CASE Len(w.todo) <= 1
      BY <2>1, <3>1, <3>2, IdleIs
    <3>3. CASE Len(w.todo) > 1
      <4>1. PICK v \in TickState : v = [w EXCEPT !.phase = "sync",
                                                 !.todo = Tail(w.todo)]
        BY <1>2, <3>3, TickIs
      <4>2. tick' = [tick EXCEPT ![i] = IF Len(w.todo) <= 1 THEN Idle ELSE v]
        BY Zenon, <2>1, <4>1
      <4>3. ~(Len(w.todo) <= 1)
        BY <2>3, <3>3
      <4>4. tick' = [tick EXCEPT ![i] = v]
        BY <4>2, <4>3
      <4>5. QED
        BY <3>1, <4>4
    <3>4. QED
      BY <2>3, <3>2, <3>3
  <2>5. QED
    BY <2>4 DEF TickChecks, ExitInv, MonitorInv, monitor
<1>16. SoldInv' /\ sold' = sold
  BY DEF TickChecks, ExitInv, SoldInv
<1>17. Kept(sold)' /\ Workers(sold)'
  BY <1>1, <1>11, <1>14, <1>16 DEF Kept, Workers
<1>18. QED
  BY <1>15, <1>16, <1>17 DEF ExitInv

\* Nothing is sold and no handler starts or ends.
LEMMA QuietStep ==
  ASSUME ExitInv, UNCHANGED <<sold, begun, handlers>>, UNCHANGED <<managers, store>>,
         MonitorInv'
  PROVE  ExitInv'
<1>1. PICK S : S = sold
  OBVIOUS
<1>2. Kept(S)
  BY <1>1 DEF ExitInv
<1>3. Kept(S)'
  BY <1>2, KeptSame
<1>4. QED
  BY <1>1, <1>3, ExitFrame

\* The managers are synced by a tick or by the automatic start.
LEMMA VisitStep ==
  ASSUME RuleAssumption, ExitAssumption, ExitInv, UNCHANGED <<sold, begun, handlers, store>>,
         NEW order \in SetToSeqs(TickTenants),
         lm' = VisitAll(order).lm, sm' = VisitAll(order).sm, MonitorInv'
  PROVE  ExitInv'
<1>1. PICK S : S = sold
  OBVIOUS
<1>2. Kept(S)
  BY <1>1 DEF ExitInv
<1>3. lm' \in LadderStates(S) /\ sm' \in StopStates(S)
  BY <1>2, VisitKept
<1>4. Kept(S)'
  BY <1>2, <1>3 DEF Kept, store
<1>5. QED
  BY <1>1, <1>4, ExitFrame

\* A tick starts; one that finds no active rule only syncs the managers.
LEMMA TickStep ==
  ASSUME RuleAssumption, ExitAssumption, ExitInv, NEW i \in Ticks, TickStarts(i)
  PROVE  ExitInv'
<1>1. PICK order \in SetToSeqs(TickTenants) :
        /\ lm' = VisitAll(order).lm /\ sm' = VisitAll(order).sm
        /\ tick' = IF VisitAll(order).tokens = {} THEN tick
                   ELSE [tick EXCEPT ![i] = [Idle EXCEPT !.phase = "fetch",
                           !.todo = order, !.left = VisitAll(order).tokens]]
  BY DEF TickStarts
<1>2. PICK w : w = [Idle EXCEPT !.phase = "fetch", !.todo = order,
                                !.left = VisitAll(order).tokens]
  OBVIOUS
<1>3. /\ VisitAll(order).tokens \subseteq Tokens /\ order \in Seq(Tenants)
      /\ order = <<>> => VisitAll(order).tokens = {}
  <2>1. PICK S : S = sold
    OBVIOUS
  <2>2. Kept(S)
    BY <2>1 DEF ExitInv
  <2>3. QED
    BY <2>2, VisitKept
<1>4. VisitAll(order).tokens # {} => w \in TickState
  BY <1>2, <1>3, IdleIs DEF TickState
<1>5. MonitorInv'
  <2>1. \/ tick' = tick
        \/ VisitAll(order).tokens # {} /\ tick' = [tick EXCEPT ![i] = w]
    BY <1>1, <1>2
  <2>2. tick' \in [Ticks -> TickState]
    BY <1>4, <2>1 DEF ExitInv, MonitorInv
  <2>3. QED
    BY <2>2 DEF TickStarts, ExitInv, MonitorInv, monitor
<1>6. UNCHANGED <<sold, begun, handlers, store>>
  BY DEF TickStarts, history, sales
<1>7. QED
  BY <1>1, <1>5, <1>6, VisitStep

\* A price is fetched, or cannot be.
LEMMA FetchStep ==
  ASSUME ExitInv, NEW i \in Ticks, NEW k \in Tokens,
         FetchPrice(i, k) \/ FetchFails(i, k)
  PROVE  ExitInv'
<1>1. tick[i] \in TickState /\ tick[i].prices \in PriceBooks
  BY DEF ExitInv, MonitorInv, TickState
<1>2. PICK prices \in PriceBooks : Fetched(i, k, prices)
  <2>1. CASE FetchFails(i, k)
    BY <1>1, <2>1 DEF FetchFails
  <2>2. CASE FetchPrice(i, k)
    <3>1. PICK D \in SUBSET Tokens : tick[i].prices \in [D -> Prices]
      BY <1>1 DEF PriceBooks
    <3>2. PICK p : p = Put(tick[i].prices, k, price[k])
      OBVIOUS
    <3>3. price[k] \in Prices
      BY DEF ExitInv, MonitorInv
    <3>4. p \in [D \union {k} -> Prices]
      BY <3>1, <3>2, <3>3 DEF Put
    <3>5. p \in PriceBooks
      <4>1. D \union {k} \in SUBSET Tokens
        OBVIOUS
      <4>2. QED
        BY <3>4, <4>1 DEF PriceBooks
    <3>6. QED
      BY <2>2, <3>2, <3>5 DEF FetchPrice
  <2>3. QED
    BY <2>1, <2>2
<1>3. PICK left : left = tick[i].left \ {k}
  OBVIOUS
<1>4. PICK w : w = [tick[i] EXCEPT !.left = left, !.prices = prices,
                      !.phase = IF left # {} THEN "fetch"
                                ELSE IF Hosted THEN "sync" ELSE "check"]
  OBVIOUS
<1>5. w \in TickState
  <2>1. tick[i].phase = "fetch"
    BY <1>2 DEF Fetched
  <2>2. QED
    BY <1>1, <1>3, <1>4, <2>1 DEF TickState
<1>6. tick' = [tick EXCEPT ![i] = w]
  BY <1>2, <1>3, <1>4 DEF Fetched
<1>7. tick' \in [Ticks -> TickState]
  BY <1>5, <1>6 DEF ExitInv, MonitorInv
<1>8. MonitorInv' /\ UNCHANGED <<managers, store>> /\ UNCHANGED <<sold, begun, handlers>>
  BY <1>2, <1>7 DEF Fetched, ExitInv, MonitorInv, monitor, history, sales
<1>9. QED
  BY <1>8, QuietStep

\* The price moves; the monitor is started, stopped or configured.
LEMMA ControlStep ==
  ASSUME ExitInv,
         \/ \E k \in Tokens, p \in Prices : PriceMoves(k, p)
         \/ StartMonitor \/ StopMonitor
         \/ \E on \in BOOLEAN : ConfigureMonitor(on)
  PROVE  ExitInv'
<1>1. CASE \E k \in Tokens, p \in Prices : PriceMoves(k, p)
  <2>1. PICK k \in Tokens, p \in Prices : PriceMoves(k, p)
    BY <1>1
  <2>2. price' \in [Tokens -> Prices]
    BY <2>1 DEF PriceMoves, ExitInv, MonitorInv
  <2>3. MonitorInv' /\ UNCHANGED <<managers, store>> /\ UNCHANGED <<sold, begun, handlers>>
    BY <2>1, <2>2 DEF PriceMoves, ExitInv, MonitorInv, monitor, history, sales
  <2>4. QED
    BY <2>3, QuietStep
<1>2. CASE StartMonitor \/ StopMonitor
  <2>1. MonitorInv' /\ UNCHANGED <<managers, store>> /\ UNCHANGED <<sold, begun, handlers>>
    BY <1>2 DEF StartMonitor, StopMonitor, ExitInv, MonitorInv, monitor, history, sales
  <2>2. QED
    BY <2>1, QuietStep
<1>3. CASE \E on \in BOOLEAN : ConfigureMonitor(on)
  <2>1. PICK on \in BOOLEAN : ConfigureMonitor(on)
    BY <1>3
  <2>2. MonitorInv' /\ UNCHANGED <<managers, store>> /\ UNCHANGED <<sold, begun, handlers>>
    BY <2>1 DEF ConfigureMonitor, ExitInv, MonitorInv, monitor, history, sales
  <2>3. QED
    BY <2>2, QuietStep
<1>4. QED
  BY <1>1, <1>2, <1>3

\* The monitor starts two seconds after the process.
LEMMA AutoStartStep ==
  ASSUME RuleAssumption, ExitAssumption, ExitInv, AutoStart
  PROVE  ExitInv'
<1>1. PICK order \in SetToSeqs(TickTenants) :
        /\ lm' = VisitAll(order).lm /\ sm' = VisitAll(order).sm
        /\ running' = (running \/ VisitAll(order).tokens # {})
  BY DEF AutoStart
<1>2. MonitorInv'
  BY <1>1 DEF AutoStart, ExitInv, MonitorInv
<1>3. UNCHANGED <<sold, begun, handlers, store>>
  BY DEF AutoStart, history, sales
<1>4. QED
  BY <1>1, <1>2, <1>3, VisitStep

\* The managers change and saves start; a route may create a rule.
LEMMA RouteStep ==
  ASSUME RuleAssumption, ExitInv, NEW T, T = sold', Before(sold, T), SoldInv',
         NEW t \in Tenants, NEW l \in LadderStates(T), NEW s \in StopStates(T),
         NEW K \in SUBSET {"ladders", "stops"}, ChangeAndSave(t, l, s, K),
         NEW S, S = sold, Workers(S)', MonitorInv'
  PROVE  ExitInv'
<1>1. Before(S, T) /\ Kept(S)
  BY DEF ExitInv
<1>2. Kept(T) /\ Work(S) \subseteq Work(T)
  BY <1>1, KeptGrows DEF Kept
<1>3. Kept(T)'
  BY <1>2, ChangeKept
<1>4. Kept(sold)'
  BY <1>3 DEF Kept
<1>5. Workers(sold)'
  BY <1>2 DEF Workers
<1>6. QED
  BY <1>4, <1>5 DEF ExitInv

\* The managers that a route changes: those of tenant t.
LEMMA Synced ==
  ASSUME ExitInv, NEW S, S = sold, NEW t \in Tenants
  PROVE  /\ SyncLadders(t, lm) \in LadderStates(S)
         /\ SyncStops(t, sm) \in StopStates(S)
<1>1. disk \in [Tenants -> Configs(S)] /\ lm \in LadderStates(S) /\ sm \in StopStates(S)
  BY DEF ExitInv, Kept
<1>2. QED
  BY <1>1, SyncKept

\* The handlers do not change.
LEMMA SameWorkers ==
  ASSUME ExitInv, NEW S, S = sold, UNCHANGED <<begun, handlers>>
  PROVE  Workers(S)'
BY DEF ExitInv, Workers

\* A handler syncs; it goes on to executeTrade, or a step is marked on paper.
LEMMA BeginStep ==
  ASSUME RuleAssumption, ExitInv, NEW h, Begins(h)
  PROVE  ExitInv'
<1>1. PICK S : S = sold
  OBVIOUS
<1>2. h \in Work(S) /\ h.tenant \in Tenants
  BY <1>1 DEF Begins, ExitInv, Workers, Work, Handler
<1>3. PICK l : l = SyncLadders(h.tenant, lm)
  OBVIOUS
<1>4. PICK s : s = SyncStops(h.tenant, sm)
  OBVIOUS
<1>5. l \in LadderStates(S) /\ s \in StopStates(S)
  BY <1>1, <1>2, <1>3, <1>4, Synced
<1>6. Workers(S)'
  <2>1. handlers' = handlers \/ handlers' = handlers (+) SetToBag({h})
    BY DEF Begins
  <2>2. PICK A : A = SetToBag({h})
    OBVIOUS
  <2>3. DOMAIN A = {h} /\ DOMAIN (handlers (+) A) = DOMAIN handlers \union DOMAIN A
    BY <2>2, SetBagElements, BagUnionElements
  <2>4. PICK D : D = DOMAIN handlers
    OBVIOUS
  <2>5. IsFiniteSet(D) /\ IsFiniteSet(D \union {h}) /\ D \subseteq Work(S)
    BY <1>1, <2>4, FS_AddElement DEF ExitInv, Workers
  <2>6. DOMAIN handlers' = D \/ DOMAIN handlers' = D \union {h}
    BY <2>1, <2>2, <2>3, <2>4
  <2>7. begun' \subseteq Work(S)
    BY <1>1 DEF Begins, ExitInv, Workers
  <2>8. QED
    BY <1>2, <2>5, <2>6, <2>7 DEF Workers
<1>7. MonitorInv'
  BY DEF Begins, ExitInv, MonitorInv, monitor
<1>8. CASE ChangeAndSave(h.tenant, l, s, {}) /\ UNCHANGED sold
  <2>1. S = sold' /\ SoldInv' /\ Before(sold, S)
    BY <1>1, <1>8 DEF ExitInv, SoldInv, Before
  <2>2. PICK t \in Tenants : t = h.tenant
    BY <1>2
  <2>3. PICK K \in SUBSET {"ladders", "stops"} : K = {}
    OBVIOUS
  <2>4. ChangeAndSave(t, l, s, K)
    BY <1>8, <2>2, <2>3
  <2>5. QED
    BY <1>1, <1>5, <1>6, <1>7, <2>1, <2>4, RouteStep
<1>9. CASE /\ ChangeAndSave(h.tenant, [l EXCEPT !.book = MarkStepExecuted(h, @)], s,
                            {"ladders"})
           /\ Sell({h})
  BY <1>1, <1>2, <1>5, <1>6, <1>7, <1>9, MarkedSale
<1>10. QED
  BY <1>3, <1>4, <1>8, <1>9 DEF Begins

\* A rule is created: nothing was sold for it.
LEMMA Created ==
  ASSUME RuleAssumption, ExitInv, NEW r \in Ladders \union Stops, r \notin DOMAIN sold,
         NEW T, T = sold', sold' = Put(sold, r, 0)
  PROVE  /\ SoldInv' /\ Before(sold, T)
         /\ DOMAIN T = DOMAIN sold \union {r} /\ T[r] = 0
<1>1. /\ DOMAIN T = DOMAIN sold \union {r} /\ T[r] = 0
      /\ \A x \in DOMAIN sold : T[x] = sold[x]
      /\ T \in [DOMAIN T -> Nat]
  BY DEF Put, ExitInv, SoldInv
<1>2. IsFiniteSet(DOMAIN T)
  BY <1>1, FS_AddElement DEF ExitInv, SoldInv
<1>3. Shares[r] \in Nat
  BY DEF RuleAssumption
<1>4. \A x \in DOMAIN T : T[x] <= Shares[x]
  BY <1>1, <1>3 DEF ExitInv, SoldInv
<1>5. DOMAIN T \subseteq Ladders \union Stops
  BY <1>1 DEF ExitInv, SoldInv
<1>6. SoldInv'
  BY <1>1, <1>2, <1>4, <1>5 DEF SoldInv
<1>7. Before(sold, T)
  BY <1>1 DEF Before, ExitInv, SoldInv
<1>8. QED
  BY <1>1, <1>6, <1>7

\* A new ladder is in the books after it is created.
LEMMA NewLadderKept ==
  ASSUME RuleAssumption, NEW T, NEW l \in Ladders, l \in DOMAIN T, T[l] \in Nat,
         NEW b \in LadderBooks(T)
  PROVE  Put(b, l, NewLadder(l)) \in LadderBooks(T)
<1>1. /\ DOMAIN b \subseteq Ladders \intersect DOMAIN T
      /\ \A x \in DOMAIN b : LadderOk(x, b[x], T)
  BY LadderBookIs
<1>2. PICK n : n = NewLadder(l)
  OBVIOUS
<1>3. LadderOk(l, n, T)
  <2>1. Shares[l] \in Nat
    BY DEF RuleAssumption
  <2>2. QED
    BY <1>2, <2>1 DEF LadderOk, NewLadder, Ladder
<1>4. PICK c : c = Put(b, l, n)
  OBVIOUS
<1>5. /\ DOMAIN c = DOMAIN b \union {l} /\ c = [x \in DOMAIN c |-> c[x]]
      /\ \A x \in DOMAIN c : c[x] = IF x = l THEN n ELSE b[x]
  BY <1>4 DEF Put
<1>6. \A x \in DOMAIN c : LadderOk(x, c[x], T)
  BY <1>1, <1>3, <1>5
<1>7. DOMAIN c \subseteq Ladders \intersect DOMAIN T
  BY <1>1, <1>5
<1>8. c \in LadderBooks(T)
  BY <1>5, <1>6, <1>7, LadderBookIs
<1>9. QED
  BY <1>2, <1>4, <1>8

\* A new stop-loss order is.
LEMMA NewOrderKept ==
  ASSUME RuleAssumption, NEW T, NEW s \in Stops, s \in DOMAIN T, NEW b \in StopBooks(T)
  PROVE  Put(b, s, NewOrder(s)) \in StopBooks(T)
<1>1. DOMAIN b \subseteq Stops \intersect DOMAIN T /\ b \in [DOMAIN b -> Order]
  BY StopBookIs
<1>2. PICK n : n = NewOrder(s)
  OBVIOUS
<1>3. n \in Order
  BY <1>2 DEF NewOrder, Order, RuleAssumption
<1>4. PICK c : c = Put(b, s, n)
  OBVIOUS
<1>5. DOMAIN c = DOMAIN b \union {s} /\ c \in [DOMAIN c -> Order]
  BY <1>1, <1>3, <1>4 DEF Put
<1>6. DOMAIN c \subseteq Stops \intersect DOMAIN T
  BY <1>1, <1>5
<1>7. c \in StopBooks(T)
  BY <1>5, <1>6, StopBookIs
<1>8. QED
  BY <1>2, <1>4, <1>7

\* A ladder or a stop-loss order is created.
LEMMA CreateStep ==
  ASSUME RuleAssumption, ExitInv, NEW t \in Tenants,
         \/ \E l \in Ladders : CreateLadder(t, l)
         \/ \E s \in Stops : CreateStopLoss(t, s)
  PROVE  ExitInv'
<1>1. PICK S : S = sold
  OBVIOUS
<1>2. PICK T : T = sold'
  OBVIOUS
<1>3. PICK l0 : l0 = SyncLadders(t, lm)
  OBVIOUS
<1>4. PICK s0 : s0 = SyncStops(t, sm)
  OBVIOUS
<1>5. l0 \in LadderStates(S) /\ s0 \in StopStates(S)
  BY <1>1, <1>3, <1>4, Synced
<1>6. CASE \E l \in Ladders : CreateLadder(t, l)
  <2>1. PICK l \in Ladders : CreateLadder(t, l)
    BY <1>6
  <2>2. l \notin DOMAIN sold /\ sold' = Put(sold, l, 0)
    BY <2>1 DEF CreateLadder
  <2>3. SoldInv' /\ Before(S, T) /\ l \in DOMAIN T /\ T[l] = 0
    <3>1. l \in Ladders \union Stops
      OBVIOUS
    <3>2. SoldInv' /\ Before(sold, T) /\ DOMAIN T = DOMAIN sold \union {l} /\ T[l] = 0
      BY <1>2, <2>2, <3>1, Created
    <3>3. QED
      BY <1>1, <3>2
  <2>4. l0 \in LadderStates(T) /\ s0 \in StopStates(T)
    BY <1>5, <2>3, KeptGrows
  <2>5. Put(l0.book, l, NewLadder(l)) \in LadderBooks(T)
    <3>1. l0.book \in LadderBooks(T) /\ T[l] \in Nat /\ l \in DOMAIN T
      BY <2>3, <2>4 DEF LadderStates
    <3>2. QED
      BY <3>1, NewLadderKept
  <2>6. PICK l1 : l1 = [l0 EXCEPT !.book = Put(@, l, NewLadder(l))]
    OBVIOUS
  <2>7. l1 \in LadderStates(T)
    BY <2>4, <2>5, <2>6 DEF LadderStates
  <2>8. ChangeAndSave(t, l1, s0, {"ladders"})
    BY <1>3, <1>4, <2>1, <2>6 DEF CreateLadder
  <2>9. MonitorInv' /\ UNCHANGED <<begun, handlers>>
    BY <2>1 DEF CreateLadder, StartIfStopped, ExitInv, MonitorInv, sales
  <2>10. Workers(S)'
    BY <1>1, <2>9, SameWorkers
  <2>11. QED
    BY <1>1, <1>2, <2>3, <2>4, <2>7, <2>8, <2>9, <2>10, RouteStep
<1>7. CASE \E s \in Stops : CreateStopLoss(t, s)
  <2>1. PICK s \in Stops : CreateStopLoss(t, s)
    BY <1>7
  <2>2. s \notin DOMAIN sold /\ sold' = Put(sold, s, 0)
    BY <2>1 DEF CreateStopLoss
  <2>3. SoldInv' /\ Before(S, T) /\ s \in DOMAIN T
    <3>1. s \in Ladders \union Stops
      OBVIOUS
    <3>2. SoldInv' /\ Before(sold, T) /\ DOMAIN T = DOMAIN sold \union {s} /\ T[s] = 0
      BY <1>2, <2>2, <3>1, Created
    <3>3. QED
      BY <1>1, <3>2
  <2>4. l0 \in LadderStates(T) /\ s0 \in StopStates(T)
    BY <1>5, <2>3, KeptGrows
  <2>5. Put(s0.book, s, NewOrder(s)) \in StopBooks(T)
    BY <2>3, <2>4, NewOrderKept DEF StopStates
  <2>6. PICK s1 : s1 = [s0 EXCEPT !.book = Put(@, s, NewOrder(s))]
    OBVIOUS
  <2>7. s1 \in StopStates(T)
    BY <2>4, <2>5, <2>6 DEF StopStates
  <2>8. ChangeAndSave(t, l0, s1, {"stops"})
    BY <1>3, <1>4, <2>1, <2>6 DEF CreateStopLoss
  <2>9. MonitorInv' /\ UNCHANGED <<begun, handlers>>
    BY <2>1 DEF CreateStopLoss, StartIfStopped, ExitInv, MonitorInv, sales
  <2>10. Workers(S)'
    BY <1>1, <2>9, SameWorkers
  <2>11. QED
    BY <1>1, <1>2, <2>3, <2>4, <2>7, <2>8, <2>9, <2>10, RouteStep
<1>8. QED
  BY <1>6, <1>7

\* A rule that is cancelled is still one.
LEMMA CancelKept ==
  ASSUME NEW T, NEW b
  PROVE  /\ b \in LadderBooks(T) =>
              \A l \in DOMAIN b : [b EXCEPT ![l].active = FALSE] \in LadderBooks(T)
         /\ b \in StopBooks(T) =>
              \A s \in DOMAIN b : [b EXCEPT ![s].active = FALSE] \in StopBooks(T)
<1>1. ASSUME b \in LadderBooks(T), NEW l \in DOMAIN b
      PROVE  [b EXCEPT ![l].active = FALSE] \in LadderBooks(T)
  <2>1. /\ DOMAIN b \subseteq Ladders \intersect DOMAIN T
        /\ b = [x \in DOMAIN b |-> b[x]]
        /\ \A x \in DOMAIN b : LadderOk(x, b[x], T)
    BY <1>1, LadderBookIs
  <2>2. PICK n : n = [b[l] EXCEPT !.active = FALSE]
    OBVIOUS
  <2>3. LadderOk(l, b[l], T)
    BY <2>1
  <2>4. LadderOk(l, n, T)
    BY <2>2, <2>3 DEF LadderOk, Ladder
  <2>5. PICK c : c = [b EXCEPT ![l].active = FALSE]
    OBVIOUS
  <2>6. DOMAIN c = DOMAIN b /\ c = [x \in DOMAIN c |-> c[x]]
        /\ \A x \in DOMAIN c : c[x] = IF x = l THEN n ELSE b[x]
    BY <2>1, <2>2, <2>5
  <2>7. \A x \in DOMAIN c : LadderOk(x, c[x], T)
    BY <2>1, <2>4, <2>6
  <2>8. c \in LadderBooks(T)
    BY <2>1, <2>6, <2>7, LadderBookIs
  <2>9. QED
    BY <2>5, <2>8
<1>2. ASSUME b \in StopBooks(T), NEW s \in DOMAIN b
      PROVE  [b EXCEPT ![s].active = FALSE] \in StopBooks(T)
  <2>1. DOMAIN b \subseteq Stops \intersect DOMAIN T /\ b \in [DOMAIN b -> Order]
    BY <1>2, StopBookIs
  <2>2. PICK c : c = [b EXCEPT ![s].active = FALSE]
    OBVIOUS
  <2>3. DOMAIN c = DOMAIN b /\ c \in [DOMAIN b -> Order]
    BY <2>1, <2>2 DEF Order
  <2>4. c \in StopBooks(T)
    BY <2>1, <2>3, StopBookIs
  <2>5. QED
    BY <2>2, <2>4
<1>3. QED
  BY <1>1, <1>2

\* A rule is cancelled, or a manager gets another configuration.
LEMMA EditStep ==
  ASSUME RuleAssumption, ExitInv, NEW t \in Tenants,
         \/ \E l \in Ladders : CancelLadder(t, l)
         \/ \E s \in Stops : CancelStopLoss(t, s)
         \/ \E live \in BOOLEAN : SetLiveMode(t, live)
         \/ ConfigureStops(t)
  PROVE  ExitInv'
<1>1. PICK S : S = sold
  OBVIOUS
<1>2. PICK l0 : l0 = SyncLadders(t, lm)
  OBVIOUS
<1>3. PICK s0 : s0 = SyncStops(t, sm)
  OBVIOUS
<1>4. l0 \in LadderStates(S) /\ s0 \in StopStates(S)
  BY <1>1, <1>2, <1>3, Synced
<1>5. /\ UNCHANGED <<sold, begun, handlers>>
      /\ MonitorInv'
  BY DEF CancelLadder, CancelStopLoss, SetLiveMode, ConfigureStops, history, sales,
         monitor, ExitInv, MonitorInv
<1>6. S = sold' /\ SoldInv' /\ Before(sold, S)
  BY <1>1, <1>5 DEF ExitInv, SoldInv, Before
<1>7. ASSUME NEW l \in LadderStates(S), NEW s \in StopStates(S),
             NEW K \in SUBSET {"ladders", "stops"}, ChangeAndSave(t, l, s, K)
      PROVE  ExitInv'
  <2>1. Workers(S)'
    BY <1>1, <1>5, SameWorkers
  <2>2. QED
    BY <1>1, <1>5, <1>6, <1>7, <2>1, RouteStep
<1>8. CASE \E l \in Ladders : CancelLadder(t, l)
  <2>1. PICK l \in Ladders : CancelLadder(t, l)
    BY <1>8
  <2>2. PICK l1 : l1 = [l0 EXCEPT !.book[l].active = FALSE]
    OBVIOUS
  <2>3. l \in DOMAIN l0.book /\ ChangeAndSave(t, l1, s0, {"ladders"})
    BY <1>2, <1>3, <2>1, <2>2 DEF CancelLadder
  <2>4. [l0.book EXCEPT ![l].active = FALSE] \in LadderBooks(S)
    BY <1>4, <2>3, CancelKept DEF LadderStates
  <2>5. l1 \in LadderStates(S)
    BY <1>4, <2>2, <2>4 DEF LadderStates
  <2>6. QED
    BY <1>4, <1>7, <2>3, <2>5
<1>9. CASE \E s \in Stops : CancelStopLoss(t, s)
  <2>1. PICK s \in Stops : CancelStopLoss(t, s)
    BY <1>9
  <2>2. PICK s1 : s1 = [s0 EXCEPT !.book[s].active = FALSE]
    OBVIOUS
  <2>3. s \in DOMAIN s0.book /\ ChangeAndSave(t, l0, s1, {"stops"})
    BY <1>2, <1>3, <2>1, <2>2 DEF CancelStopLoss
  <2>4. [s0.book EXCEPT ![s].active = FALSE] \in StopBooks(S)
    BY <1>4, <2>3, CancelKept DEF StopStates
  <2>5. s1 \in StopStates(S)
    BY <1>4, <2>2, <2>4 DEF StopStates
  <2>6. QED
    BY <1>4, <1>7, <2>3, <2>5
<1>10. CASE \E live \in BOOLEAN : SetLiveMode(t, live)
  <2>1. PICK live \in BOOLEAN : SetLiveMode(t, live)
    BY <1>10
  <2>2. PICK l1 : l1 = [l0 EXCEPT !.live = live]
    OBVIOUS
  <2>3. ChangeAndSave(t, l1, s0, {"ladders"})
    BY <1>2, <1>3, <2>1, <2>2 DEF SetLiveMode
  <2>4. l1 \in LadderStates(S)
    BY <1>4, <2>2 DEF LadderStates
  <2>5. QED
    BY <1>4, <1>7, <2>3, <2>4
<1>11. CASE ConfigureStops(t)
  <2>1. ChangeAndSave(t, l0, s0, {"stops"})
    BY <1>2, <1>3, <1>11 DEF ConfigureStops
  <2>2. QED
    BY <1>4, <1>7, <2>1
<1>12. QED
  BY <1>8, <1>9, <1>10, <1>11

\* A request syncs the managers with its tenant.
LEMMA RequestStep ==
  ASSUME ExitInv, NEW t \in Tenants, Request(t)
  PROVE  ExitInv'
<1>1. PICK S : S = sold
  OBVIOUS
<1>2. lm' \in LadderStates(S) /\ sm' \in StopStates(S)
  BY <1>1, Synced DEF Request
<1>3. Kept(S)'
  BY <1>1, <1>2 DEF Request, ExitInv, Kept, store
<1>4. MonitorInv' /\ UNCHANGED <<sold, begun, handlers>>
  BY DEF Request, ExitInv, MonitorInv, monitor, history, sales
<1>5. QED
  BY <1>1, <1>3, <1>4, ExitFrame

\* The managers of a process that starts, before they load anything.
LEMMA UnloadedKept ==
  ASSUME NEW S, NEW t \in Owner
  PROVE  Unloaded(t) \in LadderStates(S) /\ NoStops(t) \in StopStates(S)
<1>1. DOMAIN NoRules = {} /\ NoRules = [l \in DOMAIN NoRules |-> NoRules[l]]
  BY DEF NoRules
<1>2. NoRules \in LadderBooks(S)
  BY <1>1, LadderBookIs
<1>3. NoRules \in StopBooks(S)
  <2>1. NoRules \in [{} -> Order]
    BY DEF NoRules
  <2>2. QED
    BY <1>1, <2>1, StopBookIs
<1>4. QED
  BY <1>2, <1>3 DEF Unloaded, NoStops, LadderStates, StopStates

\* The process restarts.
LEMMA RestartStep ==
  ASSUME RuleAssumption, ExitInv, Restart
  PROVE  ExitInv'
<1>1. PICK T : T = sold'
  OBVIOUS
<1>2. PICK got \in SUBSET BagToSet(handlers) : Sell(got)
  BY DEF Restart
<1>3. got \subseteq DOMAIN handlers
  BY DEF BagToSet
<1>4. Sales(got)
  <2>1. IsFiniteSet(got)
    BY <1>3, FS_Subset DEF ExitInv, Workers
  <2>2. QED
    BY <1>3, <2>1 DEF Sales, ExitInv, Workers, Work, Handler
<1>5. Kept(T)
  BY <1>1, <1>2, <1>4, SaleFacts
<1>6. disk \in [Tenants -> Configs(T)]
  BY <1>5 DEF Kept
<1>7. lm' \in LadderStates(T) /\ sm' \in StopStates(T)
  <2>1. CASE Hosted
    <3>1. lm' = Unloaded(Nobody) /\ sm' = NoStops(Nobody) /\ Nobody \in Owner
      BY <2>1 DEF Restart, Owner
    <3>2. QED
      BY <3>1, UnloadedKept
  <2>2. CASE ~Hosted
    <3>1. PICK t \in Tenants : /\ lm' = LoadLadders(t, Unloaded(t))
                               /\ sm' = LoadStops(t, NoStops(t))
      BY <2>2 DEF Restart
    <3>2. Unloaded(t) \in LadderStates(T) /\ NoStops(t) \in StopStates(T)
      BY UnloadedKept DEF Owner
    <3>3. QED
      BY <1>6, <3>1, <3>2, SyncKept
  <2>3. QED
    BY <2>1, <2>2
<1>8. DOMAIN saves' = {} /\ DOMAIN handlers' = {} /\ begun' = {}
  BY SetBagElements DEF Restart
<1>9. Kept(T)'
  BY <1>6, <1>7, <1>8 DEF Kept, Restart
<1>10. Workers(T)'
  BY <1>8, FS_EmptySet DEF Workers
<1>11. tick' \in [Ticks -> TickState]
  BY IdleIs DEF Restart
<1>12. MonitorInv'
  BY <1>11 DEF Restart, ExitInv, MonitorInv
<1>13. QED
  BY <1>1, <1>2, <1>4, <1>9, <1>10, <1>12, ExitSale

\* The process starts.
LEMMA ExitInit ==
  ASSUME RuleAssumption, ExitAssumption, Init
  PROVE  ExitInv
<1>0. PICK C \in Earlier, live \in [Tenants -> BOOLEAN] :
        \E owner \in [C -> Tenants] :
          /\ disk = [t \in Tenants |->
                       SavedRules({l \in C \intersect Ladders : owner[l] = t},
                                  {s \in C \intersect Stops : owner[s] = t},
                                  live[t])]
          /\ sold = [r \in C |-> 0]
  BY DEF Init
<1>1. PICK owner \in [C -> Tenants] :
        /\ disk = [t \in Tenants |->
                     SavedRules({l \in C \intersect Ladders : owner[l] = t},
                                {s \in C \intersect Stops : owner[s] = t},
                                live[t])]
        /\ sold = [r \in C |-> 0]
  BY <1>0
<1>2. PICK S : S = sold
  OBVIOUS
<1>3. /\ C \subseteq Ladders \union Stops /\ IsFiniteSet(C)
      /\ S = [r \in C |-> 0] /\ DOMAIN S = C
  BY <1>1, <1>2 DEF ExitAssumption
<1>4. SoldInv
  <2>1. \A r \in C : Shares[r] \in Nat
    BY <1>3 DEF RuleAssumption
  <2>2. QED
    BY <1>2, <1>3, <2>1 DEF SoldInv
<1>5. disk \in [Tenants -> Configs(S)]
  <2>1. SUFFICES ASSUME NEW t \in Tenants PROVE disk[t] \in Configs(S)
    BY <1>1
  <2>2. PICK L : L = {l \in C \intersect Ladders : owner[l] = t}
    OBVIOUS
  <2>3. PICK O : O = {s \in C \intersect Stops : owner[s] = t}
    OBVIOUS
  <2>4. PICK b : b = [l \in L |-> NewLadder(l)]
    OBVIOUS
  <2>5. PICK d : d = [s \in O |-> NewOrder(s)]
    OBVIOUS
  <2>6. b \in LadderBooks(S)
    <3>1. ASSUME NEW l \in L PROVE LadderOk(l, b[l], S)
      <4>1. Shares[l] \in Nat /\ S[l] = 0
        BY <1>3, <2>2 DEF RuleAssumption
      <4>2. PICK n : n = NewLadder(l)
        OBVIOUS
      <4>3. LadderOk(l, n, S)
        BY <4>1, <4>2 DEF LadderOk, NewLadder, Ladder
      <4>4. QED
        BY <2>4, <4>2, <4>3
    <3>2. DOMAIN b = L /\ b = [l \in DOMAIN b |-> b[l]]
      BY <2>4
    <3>3. L \subseteq Ladders \intersect DOMAIN S
      BY <1>3, <2>2
    <3>4. QED
      BY <3>1, <3>2, <3>3, LadderBookIs
  <2>7. d \in StopBooks(S)
    <3>1. \A s \in O : NewOrder(s) \in Order
      BY <2>3 DEF NewOrder, Order, RuleAssumption
    <3>2. DOMAIN d = O /\ d \in [O -> Order]
      BY <2>5, <3>1
    <3>3. O \subseteq Stops \intersect DOMAIN S
      BY <1>3, <2>3
    <3>4. QED
      BY <3>2, <3>3, StopBookIs
  <2>8. disk[t] = [ladders |-> IF L = {} /\ ~live[t] THEN {}
                               ELSE {[book |-> b, live |-> live[t]]},
                   stops |-> IF O = {} THEN {} ELSE {[book |-> d]}]
    BY <1>1, <2>2, <2>3, <2>4, <2>5 DEF SavedRules
  <2>9. QED
    BY <2>6, <2>7, <2>8 DEF Configs
<1>6. lm \in LadderStates(S) /\ sm \in StopStates(S)
  <2>1. CASE Hosted
    <3>1. lm = Unloaded(Nobody) /\ sm = NoStops(Nobody) /\ Nobody \in Owner
      BY <2>1 DEF Init, Owner
    <3>2. QED
      BY <3>1, UnloadedKept
  <2>2. CASE ~Hosted
    <3>1. PICK t \in Tenants : /\ lm = LoadLadders(t, Unloaded(t))
                               /\ sm = LoadStops(t, NoStops(t))
      BY <2>2 DEF Init
    <3>2. Unloaded(t) \in LadderStates(S) /\ NoStops(t) \in StopStates(S)
      BY UnloadedKept DEF Owner
    <3>3. QED
      BY <1>5, <3>1, <3>2, SyncKept
  <2>3. QED
    BY <2>1, <2>2
<1>7. DOMAIN saves = {} /\ DOMAIN handlers = {} /\ begun = {}
  BY SetBagElements DEF Init
<1>8. Kept(sold)
  BY <1>2, <1>5, <1>6, <1>7 DEF Kept
<1>9. Workers(sold)
  BY <1>7, FS_EmptySet DEF Workers
<1>10. tick \in [Ticks -> TickState]
  BY IdleIs DEF Init
<1>11. MonitorInv
  BY <1>10 DEF Init, MonitorInv
<1>12. QED
  BY <1>4, <1>8, <1>9, <1>11 DEF ExitInv

\* Every step keeps the invariant.
LEMMA ExitNext ==
  ASSUME RuleAssumption, ExitAssumption, ExitInv, [Next]_vars
  PROVE  ExitInv'
<1>1. CASE UNCHANGED vars
  BY <1>1, QuietStep DEF vars, managers, store, monitor, sales, history, ExitInv, MonitorInv
<1>2. CASE \/ \E k \in Tokens, p \in Prices : PriceMoves(k, p)
           \/ StartMonitor \/ StopMonitor
           \/ \E on \in BOOLEAN : ConfigureMonitor(on)
  BY <1>2, ControlStep
<1>3. CASE \E i \in Ticks : TickStarts(i)
  BY <1>3, TickStep
<1>4. CASE \E i \in Ticks, k \in Tokens : FetchPrice(i, k) \/ FetchFails(i, k)
  BY <1>4, FetchStep
<1>5. CASE \/ \E i \in Ticks : TickSyncs(i) \/ TickChecks(i)
           \/ \E h \in begun : Begins(h)
  BY <1>5, SyncStep, CheckStep, BeginStep
<1>6. CASE \E h \in BagToSet(handlers) :
             \/ \E success \in BOOLEAN : HandlerReturns(h, success)
             \/ AnswerLost(h)
  BY <1>6, HandlerStep
<1>7. CASE \/ \E j \in BagToSet(saves) : SaveLoads(j) \/ SaveWrites(j) \/ SaveFails(j)
           \/ \E t \in Tenants : OtherSave(t)
  <2>1. PICK S : S = sold
    OBVIOUS
  <2>2. Kept(S)
    BY <2>1 DEF ExitInv
  <2>3. Kept(S)'
    BY <1>7, <2>2, SaveStep, OtherStep
  <2>4. UNCHANGED <<sold, begun, handlers>> /\ MonitorInv'
    BY <1>7 DEF SaveLoads, SaveWrites, SaveFails, OtherSave, history, sales, monitor,
                ExitInv, MonitorInv
  <2>5. QED
    BY <2>1, <2>3, <2>4, ExitFrame
<1>8. CASE \E t \in Tenants :
             \/ ConfigureStops(t)
             \/ \E l \in Ladders : CreateLadder(t, l) \/ CancelLadder(t, l)
             \/ \E s \in Stops : CreateStopLoss(t, s) \/ CancelStopLoss(t, s)
             \/ \E live \in BOOLEAN : SetLiveMode(t, live)
  <2>1. PICK t \in Tenants :
             \/ ConfigureStops(t)
             \/ \E l \in Ladders : CreateLadder(t, l) \/ CancelLadder(t, l)
             \/ \E s \in Stops : CreateStopLoss(t, s) \/ CancelStopLoss(t, s)
             \/ \E live \in BOOLEAN : SetLiveMode(t, live)
    BY <1>8
  <2>2. CASE \/ \E l \in Ladders : CreateLadder(t, l)
             \/ \E s \in Stops : CreateStopLoss(t, s)
    BY <2>2, CreateStep
  <2>3. CASE \/ \E l \in Ladders : CancelLadder(t, l)
             \/ \E s \in Stops : CancelStopLoss(t, s)
             \/ \E live \in BOOLEAN : SetLiveMode(t, live)
             \/ ConfigureStops(t)
    BY <2>3, EditStep
  <2>4. QED
    BY <2>1, <2>2, <2>3
<1>9. CASE AutoStart
  BY <1>9, AutoStartStep
<1>10. CASE Restart
  BY <1>10, RestartStep
<1>11. CASE \E t \in Tenants : Request(t)
  BY <1>11, RequestStep
<1>12. QED
  BY <1>1, <1>2, <1>3, <1>4, <1>5, <1>6, <1>7, <1>8, <1>9, <1>10, <1>11 DEF Next, OwnNext

-----------------------------------------------------------------------------
(* Types and sales, for any number of tenants and ticks.                   *)

\* The invariant implies that all variables have their types.
LEMMA ExitTypes ==
  ASSUME RuleAssumption, ExitInv
  PROVE  TypeOK
<1>1. PICK S : S = sold
  OBVIOUS
<1>2. /\ lm \in LadderStates(S) /\ sm \in StopStates(S)
      /\ disk \in [Tenants -> Configs(S)] /\ DOMAIN saves \subseteq Jobs(S)
  BY <1>1 DEF ExitInv, Kept
<1>3. ASSUME NEW m, m.book \in LadderBooks(S), m.live \in BOOLEAN
      PROVE  IsLadders(m) /\ DOMAIN m.book \subseteq DOMAIN S
  <2>1. PICK b : b = m.book
    OBVIOUS
  <2>2. /\ DOMAIN b \subseteq Ladders \intersect DOMAIN S
        /\ b = [l \in DOMAIN b |-> b[l]]
        /\ \A l \in DOMAIN b : LadderOk(l, b[l], S)
    BY <1>3, <2>1, LadderBookIs
  <2>3. b \in [DOMAIN b -> Ladder]
    BY <2>2 DEF LadderOk
  <2>4. \A l \in DOMAIN b : b[l].done \subseteq Step(l) /\ b[l].remaining <= Shares[l]
    BY <2>2 DEF LadderOk
  <2>5. QED
    BY <1>3, <2>1, <2>2, <2>3, <2>4 DEF IsLadders, IsBook
<1>4. ASSUME NEW m, m.book \in StopBooks(S)
      PROVE  IsStops(m) /\ DOMAIN m.book \subseteq DOMAIN S
  <2>1. PICK b : b = m.book
    OBVIOUS
  <2>2. DOMAIN b \subseteq Stops \intersect DOMAIN S /\ b \in [DOMAIN b -> Order]
    BY <1>4, <2>1, StopBookIs
  <2>3. QED
    BY <2>1, <2>2 DEF IsStops, IsBook
<1>5. /\ IsLadders(lm) /\ lm.sync \in Tenants \union {Nobody}
      /\ IsStops(sm) /\ sm.sync \in Tenants \union {Nobody}
      /\ DOMAIN lm.book \union DOMAIN sm.book \subseteq DOMAIN S
  <2>1. /\ lm.book \in LadderBooks(S) /\ lm.live \in BOOLEAN /\ lm.sync \in Owner
        /\ sm.book \in StopBooks(S) /\ sm.sync \in Owner
    BY <1>2 DEF LadderStates, StopStates
  <2>2. QED
    BY <2>1, <1>3, <1>4 DEF Owner
<1>6. ASSUME NEW c \in Configs(S) PROVE IsConfig(c)
  <2>1. \A m \in c.ladders : m.book \in LadderBooks(S) /\ m.live \in BOOLEAN
    BY DEF Configs
  <2>2. \A m \in c.stops : m.book \in StopBooks(S)
    BY DEF Configs
  <2>3. QED
    BY <1>3, <1>4, <2>1, <2>2 DEF IsConfig
<1>7. \A t \in Tenants : IsConfig(disk[t])
  BY <1>2, <1>6
<1>8. ASSUME NEW j \in BagToSet(saves) PROVE SaveJob(j)
  <2>1. j \in Jobs(S)
    BY <1>2 DEF BagToSet
  <2>2. j.tenant \in Tenants /\ j.kind \in SaveKind /\ \A c \in j.config : IsConfig(c)
    BY <1>6, <2>1 DEF Jobs
  <2>3. Cardinality(j.config) <= 1
    <3>1. CASE j.config = {}
      BY <3>1, FS_EmptySet
    <3>2. CASE \E c \in j.config : j.config = {c}
      <4>1. PICK c : j.config = {c}
        BY <3>2
      <4>2. Cardinality({c}) = 1
        BY FS_Singleton
      <4>3. QED
        BY <4>1, <4>2
    <3>3. QED
      BY <2>1, <3>1, <3>2 DEF Jobs
  <2>4. QED
    BY <2>2, <2>3 DEF SaveJob
<1>9. /\ price \in [Tokens -> Prices]
      /\ running \in BOOLEAN /\ enabled \in BOOLEAN /\ boot \in BOOLEAN
      /\ \A i \in Ticks : IsBook(tick[i].prices, Tokens, Prices)
  BY DEF ExitInv, MonitorInv, TickState, PriceBooks, IsBook
<1>10. \A h \in begun \union BagToSet(handlers) :
         h \in Handler /\ h.rule \in DOMAIN sold
  BY DEF ExitInv, Workers, Work, BagToSet
<1>11. IsBook(sold, Ladders \union Stops, Nat)
  BY DEF ExitInv, SoldInv, IsBook
<1>12. QED
  BY <1>1, <1>5, <1>7, <1>8, <1>9, <1>10, <1>11 DEF TypeOK

\* The invariant implies that no ladder books a sale that did not happen.
LEMMA ExitSales ==
  ASSUME RuleAssumption, ExitInv
  PROVE  RecordedSales
<1>1. PICK S : S = sold
  OBVIOUS
<1>2. lm \in LadderStates(S) /\ disk \in [Tenants -> Configs(S)]
  BY <1>1 DEF ExitInv, Kept
<1>3. lm.book \in LadderBooks(S)
  BY <1>2 DEF LadderStates
<1>4. \A t \in Tenants : \A s \in disk[t].ladders : s.book \in LadderBooks(S)
  BY <1>2 DEF Configs
<1>5. Books \subseteq LadderBooks(S)
  BY <1>3, <1>4 DEF Books
<1>6. SUFFICES ASSUME NEW b \in LadderBooks(S), NEW l \in DOMAIN b
               PROVE  b[l].remaining + S[l] >= Shares[l]
  BY <1>1, <1>5 DEF RecordedSales
<1>7. QED
  BY LadderBookIs DEF LadderOk

\* The invariant holds in every behaviour.
LEMMA ExitInductive == Spec => []ExitInv
<1>1. Init => ExitInv
  BY ExitInit, RuleAssumption, ExitAssumption
<1>2. ExitInv /\ [Next]_vars => ExitInv'
  BY ExitNext, RuleAssumption, ExitAssumption
<1>3. QED
  BY <1>1, <1>2, PTL DEF Spec

\* Type correctness, with any tenants, ticks, crashes and overlapping saves:
\* no ladder has more left than it began with, and the managers, bot_config
\* and the handlers name only rules that were created.
THEOREM ExitType == Spec => []TypeOK
<1>1. ExitInv => TypeOK
  BY ExitTypes, RuleAssumption
<1>2. QED
  BY <1>1, ExitInductive, PTL

\* A ladder never books a sale that did not happen, in memory and on disk:
\* with overlapping ticks and saves, tenants that replace each other's rules,
\* lost answers and crashes (markStepExecuted, saveState, loadState).
THEOREM SalesRecorded == Spec => []RecordedSales
<1>1. ExitInv => RecordedSales
  BY ExitSales, RuleAssumption
<1>2. QED
  BY <1>1, ExitInductive, PTL

-----------------------------------------------------------------------------
(* The stop-loss orders of a process with one tenant.  Only a manager that *)
(* has loaded nothing yet loads the rules, and no order has triggered, and *)
(* no stop price was raised, before it does.                               *)

OneTenant == \A t, u \in Tenants : t = u

\* Manager m of stop-loss orders, after the sales S; F and R are the values of
\* `fired' and `raised'.
StopOk(m, S, F, R) ==
  /\ F \in [Stops -> Nat] /\ R \in [Stops -> Nat]
  /\ \A s \in Stops : F[s] <= 1
  /\ \A s \in Stops : m.sync = Nobody \/ s \notin DOMAIN S => F[s] = 0 /\ R[s] = 0
  /\ \A s \in DOMAIN m.book :
       m.book[s].active => F[s] = 0 /\ m.book[s].stop >= R[s]

OneInv == StopOk(sm, sold, fired, raised)

\* A tick checks the rules of some tenant.
LoadedInv ==
  /\ ~Hosted => sm.sync # Nobody
  /\ \A i \in Ticks : tick[i].phase = "check" => sm.sync # Nobody

OneStops(S, F, R) == {m \in StopStates(S) : StopOk(m, S, F, R)}

\* A process that has just started has triggered no order and raised no stop.
LEMMA OneFresh ==
  ASSUME NEW S, NEW m \in StopStates(S), NEW F, NEW R,
         F = [s \in Stops |-> 0], R = [s \in Stops |-> 0]
  PROVE  StopOk(m, S, F, R)
<1>1. m.book \in StopBooks(S)
  BY DEF StopStates
<1>2. DOMAIN m.book \subseteq Stops /\ m.book \in [DOMAIN m.book -> Order]
  BY <1>1, StopBookIs
<1>3. \A s \in DOMAIN m.book : m.book[s].stop \in Nat
  BY <1>2 DEF Order
<1>4. QED
  BY <1>2, <1>3 DEF StopOk

\* Syncing loads the rules only when none of them has triggered.
LEMMA OneSync ==
  ASSUME OneTenant, ExitAssumption, NEW S, disk \in [Tenants -> Configs(S)],
         NEW F, NEW R, NEW m \in OneStops(S, F, R), NEW t \in Tenants
  PROVE  SyncStops(t, m) \in OneStops(S, F, R) /\ SyncStops(t, m).sync = t
<1>1. PICK n : n = SyncStops(t, m)
  OBVIOUS
<1>2. m \in StopStates(S) /\ StopOk(m, S, F, R) /\ m.sync \in Owner
  BY DEF OneStops, StopStates
<1>3. n \in StopStates(S)
  BY <1>1, <1>2, SyncKept
<1>4. CASE m.sync = t
  BY <1>1, <1>4 DEF SyncStops
<1>5. CASE m.sync # t
  <2>1. m.sync = Nobody
    BY <1>2, <1>5 DEF OneTenant, Owner
  <2>2. \A s \in Stops : F[s] = 0 /\ R[s] = 0
    BY <1>2, <2>1 DEF StopOk
  <2>3. F = [s \in Stops |-> 0] /\ R = [s \in Stops |-> 0]
    BY <1>2, <2>2 DEF StopOk
  <2>4. StopOk(n, S, F, R)
    BY <1>3, <2>3, OneFresh
  <2>5. n.sync = t
    BY <1>1, <1>5 DEF SyncStops, LoadStops
  <2>6. QED
    BY <1>1, <1>3, <2>4, <2>5 DEF OneStops
<1>6. QED
  BY <1>4, <1>5

\* Rules are created and sales happen.
LEMMA OneGrows ==
  ASSUME NEW S, NEW T, DOMAIN S \subseteq DOMAIN T, NEW m, NEW F, NEW R,
         StopOk(m, S, F, R)
  PROVE  StopOk(m, T, F, R)
BY DEF StopOk

\* What the lemmas below need of the state.
LEMMA OneNow ==
  ASSUME ExitInv, OneInv, NEW S, S = sold, NEW F, F = fired, NEW R, R = raised
  PROVE  sm \in OneStops(S, F, R) /\ disk \in [Tenants -> Configs(S)]
BY DEF ExitInv, Kept, OneInv, OneStops

\* A step that triggers no order.
LEMMA OneFrame ==
  ASSUME NEW S, S = sold, DOMAIN sold \subseteq DOMAIN sold',
         NEW F, F = fired, NEW R, R = raised, UNCHANGED <<fired, raised>>,
         StopOk(sm', S, F, R)
  PROVE  OneInv'
<1>1. PICK T : T = sold'
  OBVIOUS
<1>2. PICK m : m = sm'
  OBVIOUS
<1>3. StopOk(m, T, F, R)
  BY <1>1, <1>2, OneGrows
<1>4. QED
  BY <1>1, <1>2, <1>3 DEF OneInv

\* A save takes the rules in memory for its tenant's.
LEMMA OneSave ==
  ASSUME ExitAssumption, ExitInv, OneInv, NEW j, SaveWrites(j)
  PROVE  OneInv'
<1>1. PICK S : S = sold
  OBVIOUS
<1>2. PICK F : F = fired
  OBVIOUS
<1>3. PICK R : R = raised
  OBVIOUS
<1>4. sm \in StopStates(S) /\ StopOk(sm, S, F, R)
  BY <1>1, <1>2, <1>3, OneNow DEF OneStops
<1>5. j.tenant \in Tenants /\ j.tenant # Nobody
  BY DEF SaveWrites, Goes, BagIn, BagToSet, ExitInv, Kept, Jobs, ExitAssumption
<1>6. PICK m : m = [sm EXCEPT !.sync = j.tenant]
  OBVIOUS
<1>7. m.book = sm.book /\ m.sync # Nobody
  BY <1>4, <1>5, <1>6 DEF StopStates
<1>8. StopOk(m, S, F, R)
  BY <1>4, <1>7 DEF StopOk
<1>9. sm' = sm \/ sm' = m
  BY <1>6 DEF SaveWrites
<1>10. StopOk(sm', S, F, R)
  BY <1>4, <1>8, <1>9
<1>11. UNCHANGED <<sold, fired, raised>>
  BY DEF SaveWrites, history
<1>12. QED
  BY <1>1, <1>2, <1>3, <1>10, <1>11, OneFrame

\* A tick or the automatic start syncs the managers.
LEMMA OneVisit ==
  ASSUME RuleAssumption, ExitAssumption, OneTenant, ExitInv, OneInv,
         NEW order \in SetToSeqs(TickTenants), sm' = VisitAll(order).sm,
         UNCHANGED <<sold, fired, raised>>
  PROVE  OneInv'
<1>1. PICK S : S = sold
  OBVIOUS
<1>2. PICK F : F = fired
  OBVIOUS
<1>3. PICK R : R = raised
  OBVIOUS
<1>4. PICK LS : LS = LadderStates(S)
  OBVIOUS
<1>5. PICK SS : SS = OneStops(S, F, R)
  OBVIOUS
<1>6. sm \in SS /\ disk \in [Tenants -> Configs(S)] /\ lm \in LS
  BY <1>1, <1>2, <1>3, <1>4, <1>5, OneNow DEF ExitInv, Kept
<1>7. \A t \in Tenants : \A m \in LS : SyncLadders(t, m) \in LS
  BY <1>4, <1>6, SyncKept
<1>8. \A t \in Tenants : \A m \in SS : SyncStops(t, m) \in SS
  BY <1>5, <1>6, OneSync
<1>9. \A m \in LS \union SS : \A r \in DOMAIN m.book : TokenOf[r] \in Tokens
  BY <1>4, <1>5, BookTokens DEF OneStops
<1>10. SyncClosed(LS, SS)
  BY <1>6, <1>7, <1>8, <1>9 DEF SyncClosed
<1>11. VisitAll(order) \in [lm : LS, sm : SS, tokens : SUBSET Tokens]
  BY <1>10, VisitIn DEF ExitAssumption
<1>12. StopOk(sm', S, F, R)
  BY <1>5, <1>11 DEF OneStops
<1>13. QED
  BY <1>1, <1>2, <1>3, <1>12, OneFrame

\* A tick checks the rules: an order that triggers has not triggered before,
\* and the stop price of an active one is at least as high as it was.
LEMMA OneCheck ==
  ASSUME RuleAssumption, ExitAssumption, ExitInv, OneInv, LoadedInv,
         NEW i \in Ticks, TickChecks(i)
  PROVE  OneInv'
<1>1. PICK S : S = sold
  OBVIOUS
<1>2. PICK F : F = fired
  OBVIOUS
<1>3. PICK R : R = raised
  OBVIOUS
<1>4. PICK prices : prices = tick[i].prices
  OBVIOUS
<1>5. prices \in PriceBooks
  BY <1>4 DEF ExitInv, MonitorInv, TickState
<1>6. PICK s : s = sm
  OBVIOUS
<1>7. s \in OneStops(S, F, R) /\ s.sync # Nobody
  BY <1>1, <1>2, <1>3, <1>6, OneNow DEF LoadedInv, TickChecks
<1>8. PICK b : b = s.book
  OBVIOUS
<1>9. b \in StopBooks(S) /\ StopOk(s, S, F, R)
  BY <1>7, <1>8 DEF OneStops, StopStates
<1>10. DOMAIN b \subseteq Stops \intersect DOMAIN S /\ b \in [DOMAIN b -> Order]
  BY <1>9, StopBookIs
<1>11. PICK hit : hit = Triggered(b, prices)
  OBVIOUS
<1>12. PICK u : u = UpdatePrices(b, prices)
  OBVIOUS
<1>13. /\ u \in StopBooks(S) /\ DOMAIN u = DOMAIN b /\ hit \subseteq DOMAIN b
       /\ \A x \in DOMAIN b : /\ u[x].stop >= b[x].stop
                              /\ u[x].active => b[x].active /\ x \notin hit
                              /\ x \in hit => b[x].active
  BY <1>5, <1>9, <1>11, <1>12, StopsUpdated
<1>14. u \in [DOMAIN b -> Order]
  BY <1>13, StopBookIs
<1>15. PICK F2 : F2 = [o \in Stops |-> F[o] + IF o \in hit THEN 1 ELSE 0]
  OBVIOUS
<1>16. PICK R2 : R2 = [o \in Stops |->
                         Max({R[o]} \union {c.stop : c \in
                           {u[x] : x \in {o} \intersect DOMAIN b}})]
  OBVIOUS
<1>17. fired' = F2 /\ raised' = R2
  BY <1>2, <1>3, <1>4, <1>6, <1>8, <1>11, <1>12, <1>15, <1>16 DEF TickChecks
<1>18. /\ F \in [Stops -> Nat] /\ R \in [Stops -> Nat]
       /\ \A x \in Stops : F[x] <= 1
       /\ \A x \in Stops : x \notin DOMAIN S => F[x] = 0 /\ R[x] = 0
       /\ \A x \in DOMAIN b : b[x].active => F[x] = 0 /\ b[x].stop >= R[x]
  BY <1>8, <1>9 DEF StopOk
<1>19. ASSUME NEW o \in DOMAIN b
       PROVE  /\ R2[o] \in Nat
              /\ b[o].active => R2[o] = u[o].stop
  <2>1. PICK p \in Int, q \in Int : p = R[o] /\ q = u[o].stop
    BY <1>10, <1>14, <1>18 DEF Order
  <2>2. Max({p, q}) = IF p >= q THEN p ELSE q
    BY MaxTwo
  <2>3. {o} \intersect DOMAIN b = {o}
    OBVIOUS
  <2>4. {u[x] : x \in {o}} = {u[o]}
    OBVIOUS
  <2>5. {c.stop : c \in {u[o]}} = {q}
    BY <2>1
  <2>6. {R[o]} \union {c.stop : c \in {u[x] : x \in {o} \intersect DOMAIN b}} = {p, q}
    BY <2>1, <2>3, <2>4, <2>5
  <2>7. R2[o] = Max({p, q})
    BY <1>10, <1>16, <2>6
  <2>8. p \in Nat /\ q \in Nat /\ b[o].stop \in Nat
    BY <1>10, <1>14, <1>18, <2>1 DEF Order
  <2>9. q >= b[o].stop /\ (b[o].active => b[o].stop >= p)
    BY <1>13, <1>18, <2>1
  <2>10. b[o].active => q >= p
    <3>1. PICK c \in Nat : c = b[o].stop
      BY <2>8
    <3>2. QED
      BY <2>8, <2>9, <3>1
  <2>11. QED
    BY <2>1, <2>2, <2>7, <2>8, <2>10
<1>20. ASSUME NEW o \in Stops, o \notin DOMAIN b
       PROVE  R2[o] = R[o]
  <2>1. PICK p \in Int : p = R[o]
    BY <1>18
  <2>2. {o} \intersect DOMAIN b = {}
    BY <1>20
  <2>3. {R[o]} \union {c.stop : c \in {u[x] : x \in {o} \intersect DOMAIN b}} = {p}
    BY <2>1, <2>2
  <2>4. Max({p}) = p
    BY MaxOne
  <2>5. QED
    BY <1>16, <2>1, <2>3, <2>4
<1>21. PICK m : m = [s EXCEPT !.book = u]
  OBVIOUS
<1>22. m.book = u /\ m.sync # Nobody
  BY <1>7, <1>21 DEF OneStops, StopStates
<1>23. StopOk(m, S, F2, R2)
  <2>1. R2 \in [Stops -> Nat]
    BY <1>16, <1>18, <1>19, <1>20
  <2>2. \A o \in Stops : F2[o] \in Nat /\ F2[o] <= 1
    BY <1>10, <1>13, <1>15, <1>18
  <2>3. F2 \in [Stops -> Nat]
    BY <1>15, <2>2
  <2>4. ASSUME NEW o \in Stops, o \notin DOMAIN S
        PROVE  F2[o] = 0 /\ R2[o] = 0
    <3>1. o \notin DOMAIN b /\ o \notin hit
      BY <1>10, <1>13, <2>4
    <3>2. F[o] = 0 /\ R[o] = 0
      BY <1>18, <2>4
    <3>3. F2[o] = 0
      BY <1>15, <3>1, <3>2
    <3>4. QED
      BY <1>20, <3>1, <3>2, <3>3
  <2>5. ASSUME NEW o \in DOMAIN u, u[o].active
        PROVE  F2[o] = 0 /\ u[o].stop >= R2[o]
    <3>1. o \in DOMAIN b /\ o \in Stops /\ b[o].active /\ o \notin hit
      BY <1>10, <1>13, <2>5
    <3>2. F2[o] = 0
      BY <1>15, <1>18, <3>1
    <3>3. u[o].stop \in Nat /\ R2[o] = u[o].stop
      BY <1>14, <1>19, <3>1 DEF Order
    <3>4. QED
      BY <3>2, <3>3
  <2>6. QED
    BY <1>22, <2>1, <2>2, <2>3, <2>4, <2>5 DEF StopOk
<1>24. sm' = m
  BY <1>4, <1>6, <1>8, <1>12, <1>21 DEF TickChecks
<1>25. sold' = S
  BY <1>1 DEF TickChecks
<1>26. QED
  BY <1>17, <1>23, <1>24, <1>25 DEF OneInv

\* The managers change: no order triggers, and s is what the stop-loss manager
\* holds in the end.
LEMMA OneRoute ==
  ASSUME NEW S, S = sold, DOMAIN sold \subseteq DOMAIN sold',
         NEW F, F = fired, NEW R, R = raised, UNCHANGED <<fired, raised>>,
         NEW t, NEW l, NEW s, StopOk(s, S, F, R), NEW K, ChangeAndSave(t, l, s, K)
  PROVE  OneInv'
<1>1. StopOk(sm', S, F, R)
  BY DEF ChangeAndSave
<1>2. QED
  BY <1>1, OneFrame

\* The sales of some handlers create no rule.
LEMMA OneSells ==
  ASSUME NEW H, Sell(H)
  PROVE  DOMAIN sold \subseteq DOMAIN sold'
BY DEF Sell

\* executeTrade returns for handler h, or its answer is lost.
LEMMA OneHandler ==
  ASSUME ExitInv, OneInv, NEW h,
         \/ \E success \in BOOLEAN : HandlerReturns(h, success)
         \/ AnswerLost(h)
  PROVE  OneInv'
<1>1. PICK S : S = sold
  OBVIOUS
<1>2. PICK F : F = fired
  OBVIOUS
<1>3. PICK R : R = raised
  OBVIOUS
<1>4. StopOk(sm, S, F, R)
  BY <1>1, <1>2, <1>3, OneNow DEF OneStops
<1>5. UNCHANGED <<sm, fired, raised>>
  BY DEF HandlerReturns, AnswerLost, ChangeAndSave, managers
<1>6. DOMAIN sold \subseteq DOMAIN sold'
  <2>1. \E H : Sell(H)
    BY DEF HandlerReturns, AnswerLost
  <2>2. QED
    BY <2>1, OneSells
<1>7. StopOk(sm', S, F, R)
  BY <1>4, <1>5
<1>8. QED
  BY <1>1, <1>2, <1>3, <1>5, <1>6, <1>7, OneFrame

\* Only the sync with tenant t changes the stop-loss orders.
LEMMA OneSynced ==
  ASSUME ExitAssumption, OneTenant, ExitInv, OneInv, NEW t \in Tenants,
         sm' = SyncStops(t, sm), UNCHANGED <<fired, raised>>,
         DOMAIN sold \subseteq DOMAIN sold'
  PROVE  OneInv'
<1>1. PICK S : S = sold
  OBVIOUS
<1>2. PICK F : F = fired
  OBVIOUS
<1>3. PICK R : R = raised
  OBVIOUS
<1>4. SyncStops(t, sm) \in OneStops(S, F, R)
  BY <1>1, <1>2, <1>3, OneNow, OneSync
<1>5. StopOk(sm', S, F, R)
  BY <1>4 DEF OneStops
<1>6. QED
  BY <1>1, <1>2, <1>3, <1>5, OneFrame

\* A tick or a handler syncs, or a request that changes nothing else.
LEMMA OneSyncs ==
  ASSUME ExitAssumption, OneTenant, ExitInv, OneInv,
         \/ \E i \in Ticks : TickSyncs(i)
         \/ \E h : Begins(h)
         \/ \E t \in Tenants : Request(t)
  PROVE  OneInv'
<1>1. CASE \E i \in Ticks : TickSyncs(i)
  <2>1. PICK i \in Ticks : TickSyncs(i)
    BY <1>1
  <2>2. PICK t \in Tenants : t = Head(tick[i].todo)
    <3>1. tick[i] \in TickState /\ tick[i].phase # "idle"
      BY <2>1 DEF TickSyncs, ExitInv, MonitorInv
    <3>2. QED
      BY <3>1, TickIs
  <2>3. sm' = SyncStops(t, sm) /\ UNCHANGED <<sold, fired, raised>>
    BY <2>1, <2>2 DEF TickSyncs, history
  <2>4. QED
    BY <2>3, OneSynced
<1>2. CASE \E h : Begins(h)
  <2>1. PICK h : Begins(h)
    BY <1>2
  <2>2. PICK t \in Tenants : t = h.tenant
    BY <2>1 DEF Begins, ExitInv, Workers, Work, Handler
  <2>3. sm' = SyncStops(t, sm) /\ UNCHANGED <<fired, raised>>
    BY <2>1, <2>2 DEF Begins, ChangeAndSave
  <2>4. DOMAIN sold \subseteq DOMAIN sold'
    <3>1. sold' = sold \/ Sell({h})
      BY <2>1 DEF Begins
    <3>2. QED
      BY <3>1, OneSells
  <2>5. QED
    BY <2>3, <2>4, OneSynced
<1>3. CASE \E t \in Tenants : Request(t)
  BY <1>3, OneSynced DEF Request, history
<1>4. QED
  BY <1>1, <1>2, <1>3

\* A route creates or cancels a rule, or configures a manager.
LEMMA OneEdit ==
  ASSUME RuleAssumption, ExitAssumption, OneTenant, ExitInv, OneInv, NEW t \in Tenants,
         \/ \E l \in Ladders : CreateLadder(t, l) \/ CancelLadder(t, l)
         \/ \E s \in Stops : CreateStopLoss(t, s) \/ CancelStopLoss(t, s)
         \/ \E live \in BOOLEAN : SetLiveMode(t, live)
         \/ ConfigureStops(t)
  PROVE  OneInv'
<1>1. PICK S : S = sold
  OBVIOUS
<1>2. PICK F : F = fired
  OBVIOUS
<1>3. PICK R : R = raised
  OBVIOUS
<1>4. PICK s0 : s0 = SyncStops(t, sm)
  OBVIOUS
<1>5. s0 \in StopStates(S) /\ StopOk(s0, S, F, R) /\ s0.sync = t
  BY SMTT(30), <1>1, <1>2, <1>3, <1>4, OneNow, OneSync DEF OneStops
<1>6. /\ s0.book \in StopBooks(S)
      /\ s0 = [book |-> s0.book, sync |-> t] /\ t \in Owner /\ t # Nobody
  BY <1>5 DEF StopStates, Owner, ExitAssumption
<1>7. DOMAIN s0.book \subseteq Stops \intersect DOMAIN S /\ s0.book \in [DOMAIN s0.book -> Order]
  BY <1>6, StopBookIs
<1>8. UNCHANGED <<fired, raised>> /\ DOMAIN sold \subseteq DOMAIN sold'
  BY DEF CreateLadder, CancelLadder, CreateStopLoss, CancelStopLoss, SetLiveMode,
         ConfigureStops,         history, Put
<1>9. CASE \/ \E l \in Ladders : CreateLadder(t, l) \/ CancelLadder(t, l)
           \/ \E live \in BOOLEAN : SetLiveMode(t, live)
           \/ ConfigureStops(t)
  <2>1. PICK l, K : ChangeAndSave(t, l, s0, K)
    BY <1>4, <1>9 DEF CreateLadder, CancelLadder, SetLiveMode, ConfigureStops
  <2>2. QED
    BY <1>1, <1>2, <1>3, <1>5, <1>8, <2>1, OneRoute
<1>10. CASE \E s \in Stops : CreateStopLoss(t, s)
  <2>1. PICK s \in Stops : CreateStopLoss(t, s)
    BY <1>10
  <2>2. PICK b : b = Put(s0.book, s, NewOrder(s))
    OBVIOUS
  <2>3. PICK s1 : s1 = [s0 EXCEPT !.book = Put(@, s, NewOrder(s))]
    OBVIOUS
  <2>4. s1 = [book |-> b, sync |-> t]
    BY <1>5, <2>2, <2>3 DEF StopStates
  <2>5. s \notin DOMAIN S /\ \E l, K : ChangeAndSave(t, l, s1, K)
    BY <1>1, <1>4, <2>1, <2>3 DEF CreateStopLoss
  <2>6. /\ DOMAIN b = DOMAIN s0.book \union {s}
        /\ \A x \in DOMAIN b : b[x] = IF x = s THEN NewOrder(s) ELSE s0.book[x]
    BY <2>2 DEF Put
  <2>7. F[s] = 0 /\ R[s] = 0
    BY <1>5, <2>5 DEF StopOk
  <2>8. NewOrder(s).stop \in Nat
    BY DEF NewOrder, RuleAssumption
  <2>9. \A x \in DOMAIN b : b[x].active => F[x] = 0 /\ b[x].stop >= R[x]
    BY <1>5, <2>6, <2>7, <2>8 DEF StopOk
  <2>10. StopOk(s1, S, F, R)
    BY <1>5, <1>6, <2>4, <2>9 DEF StopOk
  <2>11. QED
    BY <1>1, <1>2, <1>3, <1>8, <2>5, <2>10, OneRoute
<1>11. CASE \E s \in Stops : CancelStopLoss(t, s)
  <2>1. PICK s \in Stops : CancelStopLoss(t, s)
    BY <1>11
  <2>2. PICK b : b = [s0.book EXCEPT ![s].active = FALSE]
    OBVIOUS
  <2>3. PICK s1 : s1 = [s0 EXCEPT !.book[s].active = FALSE]
    OBVIOUS
  <2>4. s1 = [book |-> b, sync |-> t]
    BY <1>5, <2>2, <2>3 DEF StopStates
  <2>5. s \in DOMAIN s0.book /\ \E l, K : ChangeAndSave(t, l, s1, K)
    BY <1>4, <2>1, <2>3 DEF CancelStopLoss
  <2>6. /\ DOMAIN b = DOMAIN s0.book
        /\ \A x \in DOMAIN b : x # s => b[x] = s0.book[x]
        /\ b[s].active = FALSE
    BY <1>7, <2>2, <2>5 DEF Order
  <2>7. \A x \in DOMAIN b : b[x].active => F[x] = 0 /\ b[x].stop >= R[x]
    BY <1>5, <2>6 DEF StopOk
  <2>8. StopOk(s1, S, F, R)
    BY <1>5, <1>6, <2>4, <2>7 DEF StopOk
  <2>9. QED
    BY <1>1, <1>2, <1>3, <1>8, <2>5, <2>8, OneRoute
<1>12. QED
  BY <1>9, <1>10, <1>11

\* A step that changes neither the stop-loss orders nor what they have done.
LEMMA OneQuiet ==
  ASSUME OneInv, UNCHANGED <<sm, sold, fired, raised>>
  PROVE  OneInv'
BY DEF OneInv, StopOk

\* The process restarts.
LEMMA OneRestart ==
  ASSUME RuleAssumption, ExitInv, Restart
  PROVE  OneInv'
<1>1. ExitInv'
  BY RestartStep
<1>2. PICK T : T = sold'
  OBVIOUS
<1>3. PICK n : n = sm'
  OBVIOUS
<1>4. n \in StopStates(T)
  BY <1>1, <1>2, <1>3 DEF ExitInv, Kept
<1>5. PICK F : F = fired'
  OBVIOUS
<1>6. PICK R : R = raised'
  OBVIOUS
<1>7. F = [s \in Stops |-> 0] /\ R = [s \in Stops |-> 0]
  BY <1>5, <1>6 DEF Restart
<1>8. StopOk(n, T, F, R)
  BY <1>4, <1>7, OneFresh
<1>9. QED
  BY <1>2, <1>3, <1>5, <1>6, <1>8 DEF OneInv

\* The process starts.
LEMMA OneInit ==
  ASSUME ExitInv, Init
  PROVE  OneInv
<1>1. sm \in StopStates(sold)
  BY DEF ExitInv, Kept
<1>2. fired = [s \in Stops |-> 0] /\ raised = [s \in Stops |-> 0]
  BY DEF Init
<1>3. QED
  BY <1>1, <1>2, OneFresh DEF OneInv

\* Every step keeps the invariant of the stop-loss orders.
LEMMA OneNext ==
  ASSUME RuleAssumption, ExitAssumption, OneTenant, ExitInv, OneInv, LoadedInv, [Next]_vars
  PROVE  OneInv'
<1>1. CASE UNCHANGED vars
  BY <1>1, OneQuiet DEF vars, managers, history
<1>2. CASE \/ \E k \in Tokens, p \in Prices : PriceMoves(k, p)
           \/ StartMonitor \/ StopMonitor
           \/ \E on \in BOOLEAN : ConfigureMonitor(on)
  BY <1>2, OneQuiet DEF PriceMoves, StartMonitor, StopMonitor, ConfigureMonitor,
                        managers, history
<1>3. CASE \E i \in Ticks : TickStarts(i)
  BY <1>3, OneVisit DEF TickStarts, history
<1>4. CASE \E i \in Ticks, k \in Tokens : FetchPrice(i, k) \/ FetchFails(i, k)
  BY <1>4, OneQuiet DEF FetchPrice, FetchFails, Fetched, managers, history
<1>5. CASE \E i \in Ticks : TickChecks(i)
  BY <1>5, OneCheck
<1>6. CASE \E h \in BagToSet(handlers) :
             \/ \E success \in BOOLEAN : HandlerReturns(h, success)
             \/ AnswerLost(h)
  BY <1>6, OneHandler
<1>7. CASE \/ \E j \in BagToSet(saves) : SaveLoads(j) \/ SaveFails(j)
           \/ \E t \in Tenants : OtherSave(t)
  BY <1>7, OneQuiet DEF SaveLoads, SaveFails, OtherSave, managers, history
<1>8. CASE \E t \in Tenants :
             \/ ConfigureStops(t)
             \/ \E l \in Ladders : CreateLadder(t, l) \/ CancelLadder(t, l)
             \/ \E s \in Stops : CreateStopLoss(t, s) \/ CancelStopLoss(t, s)
             \/ \E live \in BOOLEAN : SetLiveMode(t, live)
  BY <1>8, OneEdit
<1>9. CASE AutoStart
  BY <1>9, OneVisit DEF AutoStart, history
<1>10. CASE Restart
  BY <1>10, OneRestart
<1>11. CASE \E j \in BagToSet(saves) : SaveWrites(j)
  BY <1>11, OneSave
<1>12. CASE \/ \E i \in Ticks : TickSyncs(i)
            \/ \E h \in begun : Begins(h)
            \/ \E t \in Tenants : Request(t)
  BY <1>12, OneSyncs
<1>13. QED
  BY <1>1, <1>2, <1>3, <1>4, <1>5, <1>6, <1>7, <1>8, <1>9, <1>10, <1>11, <1>12
     DEF Next, OwnNext

\* The process starts.
LEMMA LoadedInit ==
  ASSUME ExitAssumption, Init
  PROVE  LoadedInv
<1>1. \A i \in Ticks : tick[i].phase # "check"
  BY DEF Init, Idle
<1>2. ASSUME ~Hosted PROVE sm.sync # Nobody
  <2>1. PICK t \in Tenants : sm = LoadStops(t, NoStops(t))
    BY <1>2 DEF Init
  <2>2. QED
    BY <2>1 DEF LoadStops, ExitAssumption
<1>3. QED
  BY <1>1, <1>2 DEF LoadedInv

\* A manager that is for some tenant stays for one, while ticks are under way.
LEMMA LoadedFrame ==
  ASSUME LoadedInv, sm.sync # Nobody => sm'.sync # Nobody,
         \A i \in Ticks : tick'[i].phase = "check" =>
           tick[i].phase = "check" \/ sm'.sync # Nobody
  PROVE  LoadedInv'
BY DEF LoadedInv

\* A tick that starts, or the automatic start, leaves the manager with a tenant
\* if it had one.
LEMMA LoadedVisit ==
  ASSUME RuleAssumption, ExitAssumption, ExitInv, NEW order \in SetToSeqs(TickTenants),
         sm' = VisitAll(order).sm, sm.sync # Nobody
  PROVE  sm'.sync # Nobody
<1>1. PICK S : S = sold
  OBVIOUS
<1>2. PICK LS : LS = LadderStates(S)
  OBVIOUS
<1>3. PICK SS : SS = {m \in StopStates(S) : m.sync # Nobody}
  OBVIOUS
<1>4. sm \in SS /\ disk \in [Tenants -> Configs(S)] /\ lm \in LS
  BY <1>1, <1>2, <1>3 DEF ExitInv, Kept
<1>5. \A t \in Tenants : \A m \in LS : SyncLadders(t, m) \in LS
  BY <1>2, <1>4, SyncKept
<1>6. \A t \in Tenants : \A m \in SS : SyncStops(t, m) \in SS
  <2>1. SUFFICES ASSUME NEW t \in Tenants, NEW m \in SS PROVE SyncStops(t, m) \in SS
    OBVIOUS
  <2>2. SyncStops(t, m) \in StopStates(S)
    BY <1>3, <1>4, SyncKept
  <2>3. SyncStops(t, m).sync # Nobody
    BY <1>3 DEF SyncStops, LoadStops, ExitAssumption
  <2>4. QED
    BY <1>3, <2>2, <2>3
<1>7. \A m \in LS \union SS : \A r \in DOMAIN m.book : TokenOf[r] \in Tokens
  BY <1>2, <1>3, BookTokens
<1>8. SyncClosed(LS, SS)
  BY <1>4, <1>5, <1>6, <1>7 DEF SyncClosed
<1>9. VisitAll(order) \in [lm : LS, sm : SS, tokens : SUBSET Tokens]
  BY <1>8, VisitIn DEF ExitAssumption
<1>10. QED
  BY <1>3, <1>9

\* Syncing leaves the manager with a tenant.
LEMMA LoadedSync ==
  ASSUME ExitAssumption, NEW t \in Tenants, NEW m
  PROVE  SyncStops(t, m).sync # Nobody
BY DEF SyncStops, LoadStops, ExitAssumption

\* A tick only checks rules when the manager is for some tenant.
LEMMA LoadedNext ==
  ASSUME RuleAssumption, ExitAssumption, ExitInv, LoadedInv, [Next]_vars
  PROVE  LoadedInv'
<1>1. CASE UNCHANGED <<sm, tick>>
  BY <1>1, LoadedFrame
<1>2. CASE \E i \in Ticks : TickStarts(i)
  <2>1. PICK i \in Ticks : TickStarts(i)
    BY <1>2
  <2>2. sm.sync # Nobody => sm'.sync # Nobody
    BY <2>1, LoadedVisit DEF TickStarts
  <2>3. \A x \in Ticks : tick'[x].phase = "check" => tick[x].phase = "check"
    BY <2>1 DEF TickStarts, ExitInv, MonitorInv, Idle
  <2>4. QED
    BY <2>2, <2>3, LoadedFrame
<1>3. CASE AutoStart
  <2>1. sm.sync # Nobody => sm'.sync # Nobody
    BY <1>3, LoadedVisit DEF AutoStart
  <2>2. QED
    BY <1>3, <2>1, LoadedFrame DEF AutoStart
<1>4. CASE \E i \in Ticks, k \in Tokens : FetchPrice(i, k) \/ FetchFails(i, k)
  <2>1. PICK i, k, prices : i \in Ticks /\ k \in Tokens /\ Fetched(i, k, prices)
    BY <1>4 DEF FetchPrice, FetchFails
  <2>2. sm' = sm
    BY <2>1 DEF Fetched, managers
  <2>3. PICK left : left = tick[i].left \ {k}
    OBVIOUS
  <2>4. tick' = [tick EXCEPT ![i] =
                   [@ EXCEPT !.left = left, !.prices = prices,
                             !.phase = IF left # {} THEN "fetch"
                                       ELSE IF Hosted THEN "sync" ELSE "check"]]
    BY <2>1, <2>3 DEF Fetched
  <2>5. /\ tick'[i].phase = "check" => ~Hosted
        /\ \A x \in Ticks : x # i => tick'[x] = tick[x]
    <3>1. tick[i] \in TickState /\ DOMAIN tick = Ticks
      BY <2>1 DEF ExitInv, MonitorInv
    <3>2. PICK w : w = [tick[i] EXCEPT !.left = left, !.prices = prices,
                          !.phase = IF left # {} THEN "fetch"
                                    ELSE IF Hosted THEN "sync" ELSE "check"]
      OBVIOUS
    <3>3. w.phase = "check" => ~Hosted
      BY <3>1, <3>2 DEF TickState
    <3>4. tick' = [tick EXCEPT ![i] = w]
      BY <2>4, <3>2
    <3>5. QED
      BY <2>1, <3>1, <3>3, <3>4
  <2>6. \A x \in Ticks : tick'[x].phase = "check" =>
           tick[x].phase = "check" \/ sm'.sync # Nobody
    BY <2>2, <2>5 DEF LoadedInv
  <2>7. QED
    BY <2>2, <2>6, LoadedFrame
<1>5. CASE \E i \in Ticks : TickSyncs(i)
  <2>1. PICK i \in Ticks : TickSyncs(i)
    BY <1>5
  <2>2. tick[i] \in TickState /\ tick[i].phase # "idle"
    BY <2>1 DEF TickSyncs, ExitInv, MonitorInv
  <2>3. PICK t \in Tenants : t = Head(tick[i].todo)
    BY <2>2, TickIs
  <2>4. sm'.sync # Nobody
    BY <2>1, <2>3, LoadedSync DEF TickSyncs
  <2>5. QED
    BY <2>4 DEF LoadedInv
<1>6. CASE \E i \in Ticks : TickChecks(i)
  <2>1. PICK i \in Ticks : TickChecks(i)
    BY <1>6
  <2>2. sm'.sync = sm.sync
    <3>1. PICK S : S = sold
      OBVIOUS
    <3>2. sm \in StopStates(S)
      BY <3>1 DEF ExitInv, Kept
    <3>3. sm' = [sm EXCEPT !.book = UpdatePrices(@, tick[i].prices)]
      BY <2>1 DEF TickChecks
    <3>4. QED
      BY <3>2, <3>3 DEF StopStates
  <2>3. sm.sync # Nobody
    BY <2>1 DEF TickChecks, LoadedInv
  <2>4. QED
    BY <2>2, <2>3 DEF LoadedInv
<1>7. CASE \E j \in BagToSet(saves) : SaveWrites(j)
  <2>1. PICK j : SaveWrites(j)
    BY <1>7
  <2>2. j.tenant \in Tenants
    BY <2>1 DEF SaveWrites, Goes, BagIn, BagToSet, ExitInv, Kept, Jobs
  <2>3. sm' = sm \/ sm' = [sm EXCEPT !.sync = j.tenant]
    BY <2>1 DEF SaveWrites
  <2>4. sm.sync # Nobody => sm'.sync # Nobody
    BY <2>2, <2>3 DEF ExitInv, Kept, StopStates, ExitAssumption
  <2>5. QED
    BY <2>1, <2>4, LoadedFrame DEF SaveWrites
<1>8. CASE \/ \E h \in begun : Begins(h)
           \/ \E h \in BagToSet(handlers), success \in BOOLEAN : HandlerReturns(h, success)
           \/ \E t \in Tenants :
                \/ ConfigureStops(t) \/ Request(t)
                \/ \E l \in Ladders : CreateLadder(t, l) \/ CancelLadder(t, l)
                \/ \E s \in Stops : CreateStopLoss(t, s) \/ CancelStopLoss(t, s)
                \/ \E live \in BOOLEAN : SetLiveMode(t, live)
  <2>1. tick' = tick
    BY <1>8 DEF Begins, HandlerReturns, ConfigureStops, Request, CreateLadder,
         CancelLadder, CreateStopLoss, CancelStopLoss, SetLiveMode
  <2>2. CASE sm' = sm
    BY <2>1, <2>2, LoadedFrame
  <2>3. CASE \E t \in Tenants : sm' = SyncStops(t, sm)
    BY <2>1, <2>3, LoadedSync, LoadedFrame
  <2>4. CASE \E t \in Tenants : \E b : sm' = [SyncStops(t, sm) EXCEPT !.book = b]
    <3>1. PICK t, b : t \in Tenants /\ sm' = [SyncStops(t, sm) EXCEPT !.book = b]
      BY <2>4
    <3>2. PICK S : S = sold
      OBVIOUS
    <3>3. SyncStops(t, sm) \in StopStates(S)
      BY <3>1, <3>2, Synced
    <3>4. sm'.sync # Nobody
      BY <3>1, <3>3, LoadedSync DEF StopStates
    <3>5. QED
      BY <2>1, <3>4, LoadedFrame
  <2>5. QED
    <3>1. CASE \E h \in begun : Begins(h)
      <4>1. PICK h \in begun : Begins(h)
        BY <3>1
      <4>2. h.tenant \in Tenants
        BY DEF ExitInv, Workers, Work, Handler
      <4>3. QED
        BY <2>3, <4>1, <4>2 DEF Begins, ChangeAndSave
    <3>2. CASE \E h \in BagToSet(handlers), success \in BOOLEAN : HandlerReturns(h, success)
      BY <2>2, <3>2 DEF HandlerReturns, ChangeAndSave, managers
    <3>3. CASE \E t \in Tenants :
                \/ ConfigureStops(t) \/ Request(t)
                \/ \E l \in Ladders : CreateLadder(t, l) \/ CancelLadder(t, l)
                \/ \E live \in BOOLEAN : SetLiveMode(t, live)
      BY <2>3, <3>3 DEF ConfigureStops, Request, CreateLadder, CancelLadder, SetLiveMode,
           ChangeAndSave
    <3>4. CASE \E t \in Tenants, s \in Stops : CreateStopLoss(t, s)
      BY <2>4, <3>4 DEF CreateStopLoss, ChangeAndSave
    <3>5. CASE \E t \in Tenants, s \in Stops : CancelStopLoss(t, s)
      BY <2>4, <3>5 DEF CancelStopLoss, ChangeAndSave
    <3>6. QED
      BY <1>8, <3>1, <3>2, <3>3, <3>4, <3>5
<1>9. CASE Restart
  <2>1. tick' = [i \in Ticks |-> Idle]
    BY <1>9 DEF Restart
  <2>2. \A i \in Ticks : tick'[i].phase # "check"
    BY <2>1 DEF Idle
  <2>3. ASSUME ~Hosted PROVE sm'.sync # Nobody
    <3>1. PICK t \in Tenants : sm' = LoadStops(t, NoStops(t))
      BY <1>9, <2>3 DEF Restart
    <3>2. QED
      BY <3>1 DEF LoadStops, ExitAssumption
  <2>4. QED
    BY <2>2, <2>3 DEF LoadedInv
<1>10. CASE \/ UNCHANGED vars
            \/ \E k \in Tokens, p \in Prices : PriceMoves(k, p)
            \/ \E h \in BagToSet(handlers) : AnswerLost(h)
            \/ \E j \in BagToSet(saves) : SaveLoads(j) \/ SaveFails(j)
            \/ \E t \in Tenants : OtherSave(t)
            \/ StartMonitor \/ StopMonitor
            \/ \E on \in BOOLEAN : ConfigureMonitor(on)
  BY <1>1, <1>10 DEF vars, managers, PriceMoves, AnswerLost, SaveLoads, SaveFails,
       OtherSave, StartMonitor, StopMonitor, ConfigureMonitor
<1>11. QED
  BY <1>2, <1>3, <1>4, <1>5, <1>6, <1>7, <1>8, <1>9, <1>10 DEF Next, OwnNext

\* The invariants hold in every behaviour of a process with one tenant.
LEMMA OneInductive ==
  ASSUME OneTenant
  PROVE  Spec => [](ExitInv /\ OneInv /\ LoadedInv)
<1>1. Init => ExitInv /\ OneInv /\ LoadedInv
  BY ExitInit, OneInit, LoadedInit, RuleAssumption, ExitAssumption
<1>2. ExitInv /\ OneInv /\ LoadedInv /\ [Next]_vars => (ExitInv /\ OneInv /\ LoadedInv)'
  BY ExitNext, OneNext, LoadedNext, OneTenant, RuleAssumption, ExitAssumption
<1>3. QED
  BY <1>1, <1>2, PTL DEF Spec

\* With one tenant, overlapping ticks sell the shares of a stop-loss order once:
\* an order triggers at most once between two starts of the process, hosted or
\* not, with both storages (updatePrices deactivates it in the turn it triggers).
THEOREM StopOnce ==
  ASSUME OneTenant
  PROVE  Spec => []StopTriggersOnce
<1>1. OneInv => StopTriggersOnce
  BY DEF OneInv, StopOk, StopTriggersOnce
<1>2. QED
  BY <1>1, OneInductive, PTL

\* With one tenant, the stop price of an active order is never below one it had
\* since the start, whatever the trail and the profit lock are, and whichever
\* old price a slow tick brings (updatePrices).
THEOREM StopKept ==
  ASSUME OneTenant
  PROVE  Spec => []StopNeverLowered
<1>1. OneInv => StopNeverLowered
  BY DEF OneInv, StopOk, StopNeverLowered
<1>2. QED
  BY <1>1, OneInductive, PTL

=============================================================================
