----------------------------- MODULE FoldFacts ------------------------------
(***************************************************************************)
(* Facts about the folds and the extrema of the community modules, for the *)
(* proofs about modules that use them.                                     *)
(*                                                                         *)
(* A fold over a finite set is a recursive function on its subsets.  The   *)
(* induction is over a set of subsets, never over an operator: a property  *)
(* of every subset is the set of the subsets that have it.                 *)
(***************************************************************************)
EXTENDS Integers, FiniteSets, FiniteSetsExt, FiniteSetTheorems, TLAPS

-----------------------------------------------------------------------------
(* Induction.                                                              *)

\* A set of natural numbers has a least one.
LEMMA LeastNumber ==
  ASSUME NEW T \in SUBSET Nat, T # {}
  PROVE  \E n \in T : \A m \in T : n <= m
<1>1. PICK R : R = OpToRel(<, Nat)
  OBVIOUS
<1>2. IsWellFoundedOn(R, Nat)
  BY <1>1, NatLessThanWellFounded
<1>3. PICK n \in T : \A m \in T : <<m, n>> \notin R
  BY <1>2, WFMin
<1>4. \A m \in Nat : m < n => <<m, n>> \in R
  BY <1>1 DEF OpToRel
<1>5. ASSUME NEW m \in T PROVE n <= m
  <2>1. m \in Nat /\ n \in Nat
    OBVIOUS
  <2>2. ~(m < n)
    BY <1>3, <1>4, <2>1
  <2>3. QED
    BY <2>1, <2>2
<1>6. QED
  BY <1>5

\* A set of natural numbers with 0, and with the successor of each, is Nat.
LEMMA NumberInduction ==
  ASSUME NEW G, 0 \in G, \A n \in Nat \ {0} : n - 1 \in G => n \in G
  PROVE  \A n \in Nat : n \in G
<1>1. SUFFICES ASSUME Nat \ G # {} PROVE FALSE
  OBVIOUS
<1>2. PICK n \in Nat \ G : \A m \in Nat \ G : n <= m
  BY <1>1, LeastNumber
<1>3. n # 0 /\ n - 1 \in Nat /\ n - 1 \notin G
  BY <1>2
<1>4. QED
  BY <1>2, <1>3

\* Induction over the subsets of a finite set: each is in G if all that lack one
\* element of it are.
LEMMA SubsetInduction ==
  ASSUME NEW S, IsFiniteSet(S), NEW G, {} \in G,
         \A s \in SUBSET S : (\A x \in s : s \ {x} \in G) => s \in G
  PROVE  \A s \in SUBSET S : s \in G
<1> DEFINE N == {n \in Nat : \A s \in SUBSET S : Cardinality(s) = n => s \in G}
<1>1. \A s \in SUBSET S : IsFiniteSet(s) /\ Cardinality(s) \in Nat
  BY FS_Subset, FS_CardinalityType
<1>2. 0 \in N
  BY <1>1, FS_EmptySet
<1>3. ASSUME NEW n \in Nat \ {0}, n - 1 \in N PROVE n \in N
  <2>1. SUFFICES ASSUME NEW s \in SUBSET S, Cardinality(s) = n PROVE s \in G
    OBVIOUS
  <2>2. \A x \in s : s \ {x} \in SUBSET S /\ Cardinality(s \ {x}) = n - 1
    BY <1>1, <2>1, FS_RemoveElement
  <2>3. QED
    BY <1>3, <2>2
<1> HIDE DEF N
<1>4. \A n \in Nat : n \in N
  BY <1>2, <1>3, NumberInduction
<1>5. QED
  BY <1>1, <1>4 DEF N

-----------------------------------------------------------------------------
(* Folds.                                                                  *)

\* g folds f over the subsets of S, from base, taking the elements as c says.
IsFold(g, S, base, f, c) ==
  g = [s \in SUBSET S |->
         IF s = {} THEN base ELSE f[<<c[s], g[s \ {c[s]}]>>]]

\* A fold over a finite set exists: over the subsets with at most n elements, for
\* every n.
LEMMA FoldExists ==
  ASSUME NEW S, IsFiniteSet(S), NEW V, NEW base \in V, NEW f \in [S \X V -> V],
         NEW c, \A s \in SUBSET S : s # {} => c[s] \in s
  PROVE  \E g \in [SUBSET S -> V] : IsFold(g, S, base, f, c)
<1> DEFINE D(n) == {s \in SUBSET S : Cardinality(s) <= n}
           Fold(g, n) == \A s \in D(n) :
             g[s] = IF s = {} THEN base ELSE f[<<c[s], g[s \ {c[s]}]>>]
           N == {n \in Nat : \E g \in [D(n) -> V] : Fold(g, n)}
<1>1. /\ \A s \in SUBSET S : IsFiniteSet(s) /\ Cardinality(s) \in Nat
      /\ \A s \in SUBSET S : Cardinality(s) <= Cardinality(S)
      /\ Cardinality(S) \in Nat
  BY FS_Subset, FS_CardinalityType
<1>2. 0 \in N
  <2>1. D(0) = {{}}
    BY <1>1, FS_EmptySet
  <2>2. PICK g : g = [s \in D(0) |-> base]
    OBVIOUS
  <2>3. g \in [D(0) -> V] /\ Fold(g, 0)
    BY <2>1, <2>2
  <2>4. QED
    BY <2>3
<1>3. ASSUME NEW n \in Nat \ {0}, n - 1 \in N PROVE n \in N
  <2>1. PICK g \in [D(n - 1) -> V] : Fold(g, n - 1)
    BY <1>3
  <2>2. ASSUME NEW s \in D(n), s # {} PROVE c[s] \in S /\ s \ {c[s]} \in D(n - 1)
    <3>1. s \in SUBSET S /\ c[s] \in s /\ Cardinality(s) <= n
      BY <2>2
    <3>2. IsFiniteSet(s) /\ Cardinality(s) \in Nat
      BY <1>1, <3>1
    <3>3. Cardinality(s \ {c[s]}) = Cardinality(s) - 1
      BY <3>1, <3>2, FS_RemoveElement
    <3>4. QED
      BY <3>1, <3>2, <3>3
  <2>3. PICK h : h = [s \in D(n) |-> IF s = {} THEN base ELSE f[<<c[s], g[s \ {c[s]}]>>]]
    OBVIOUS
  <2>4. h \in [D(n) -> V]
    <3>1. SUFFICES ASSUME NEW s \in D(n), s # {} PROVE f[<<c[s], g[s \ {c[s]}]>>] \in V
      BY <2>3
    <3>2. c[s] \in S /\ g[s \ {c[s]}] \in V
      BY <2>1, <2>2, <3>1
    <3>3. QED
      BY <3>2
  <2>5. \A s \in D(n - 1) : s \in D(n) /\ h[s] = g[s]
    <3>1. \A s \in D(n - 1) : s \in D(n)
      BY <1>1
    <3>2. QED
      BY <2>1, <2>3, <3>1
  <2>6. Fold(h, n)
    BY <2>2, <2>3, <2>5
  <2>7. QED
    BY <2>4, <2>6
<1>4. PICK n : n = Cardinality(S)
  OBVIOUS
<1>5. D(n) = SUBSET S
  BY <1>1, <1>4
<1>6. PICK g \in [D(n) -> V] : Fold(g, n)
  <2> HIDE DEF N
  <2>1. n \in N
    BY <1>1, <1>2, <1>3, <1>4, NumberInduction
  <2>2. QED
    BY <2>1 DEF N
<1>7. QED
  <2>1. g \in [SUBSET S -> V]
    BY <1>5, <1>6
  <2>2. \A s \in SUBSET S : g[s] = IF s = {} THEN base ELSE f[<<c[s], g[s \ {c[s]}]>>]
    BY <1>5, <1>6
  <2>3. IsFold(g, S, base, f, c)
    BY <2>1, <2>2 DEF IsFold
  <2>4. QED
    BY <2>1, <2>3

\* g adds up the numbers v of the elements of the subsets of S, taking the
\* elements as c says.
IsTotal(g, S, v, c) ==
  /\ v \in [S -> Nat] /\ g \in [SUBSET S -> Nat]
  /\ \A s \in SUBSET S :
       s # {} => c[s] \in s /\ g[s] = v[c[s]] + g[s \ {c[s]}]

\* The order in which numbers are added up does not matter: a sum is that of any
\* one element and of the rest.
LEMMA SumRest ==
  ASSUME NEW S, IsFiniteSet(S), NEW v, NEW c, NEW g, IsTotal(g, S, v, c)
  PROVE  \A s \in SUBSET S : \A x \in s : g[s] = v[x] + g[s \ {x}]
<1> USE DEF IsTotal
<1> DEFINE G == {s \in SUBSET S : \A x \in s : g[s] = v[x] + g[s \ {x}]}
<1>1. ASSUME NEW s \in SUBSET S, \A x \in s : s \ {x} \in G PROVE s \in G
  <2>1. SUFFICES ASSUME NEW x \in s PROVE g[s] = v[x] + g[s \ {x}]
    OBVIOUS
  <2>2. PICK y : y = c[s]
    OBVIOUS
  <2>3. y \in s /\ g[s] = v[y] + g[s \ {y}]
    BY <2>2
  <2>4. CASE x = y
    BY <2>3, <2>4
  <2>5. CASE x # y
    <3>1. PICK r : r = s \ {x, y}
      OBVIOUS
    <3>2. (s \ {y}) \ {x} = r /\ (s \ {x}) \ {y} = r /\ r \in SUBSET S
      BY <3>1
    <3>3. g[s \ {y}] = v[x] + g[r]
      BY <1>1, <2>3, <2>5, <3>2
    <3>4. g[s \ {x}] = v[y] + g[r]
      BY <1>1, <2>3, <2>5, <3>2
    <3>5. v[x] \in Nat /\ v[y] \in Nat /\ g[r] \in Nat
      BY <2>3, <3>2
    <3>6. QED
      BY <2>3, <3>3, <3>4, <3>5
  <2>6. QED
    BY <2>4, <2>5
<1>2. {} \in G
  OBVIOUS
<1> HIDE DEF G
<1>3. \A s \in SUBSET S : s \in G
  BY <1>1, <1>2, SubsetInduction
<1>4. QED
  BY <1>3 DEF G

\* When one number changes, so does the sum, by as much.
LEMMA TotalChanges ==
  ASSUME NEW S, IsFiniteSet(S), NEW v, NEW c, NEW g, IsTotal(g, S, v, c),
         NEW x \in S, NEW w \in [S -> Nat], \A y \in S \ {x} : w[y] = v[y]
  PROVE  \E h : IsTotal(h, S, w, c) /\ h[S] = g[S] - v[x] + w[x]
<1>1. /\ v[x] \in Nat /\ w[x] \in Nat
      /\ \A s \in SUBSET S : g[s] \in Nat
      /\ \A s \in SUBSET S : x \in s => g[s] = v[x] + g[s \ {x}] /\ g[s \ {x}] \in Nat
  <2>1. \A s \in SUBSET S : \A y \in s : g[s] = v[y] + g[s \ {y}]
    <3> TAKE s \in SUBSET S
    <3> TAKE y \in s
    <3>1. QED
      BY SumRest
  <2>2. QED
    BY <2>1 DEF IsTotal
<1>2. PICK h : h = [s \in SUBSET S |-> IF x \in s THEN w[x] + g[s \ {x}] ELSE g[s]]
  OBVIOUS
<1>3. h \in [SUBSET S -> Nat]
  BY <1>1, <1>2
<1>4. ASSUME NEW s \in SUBSET S, s # {}
      PROVE  c[s] \in s /\ h[s] = w[c[s]] + h[s \ {c[s]}]
  <2>1. PICK y : y = c[s]
    OBVIOUS
  <2>2. y \in s /\ g[s] = v[y] + g[s \ {y}] /\ s \ {y} \in SUBSET S /\ v[y] \in Nat
    BY <1>4, <2>1 DEF IsTotal
  <2>3. CASE y = x
    BY <1>2, <2>1, <2>2, <2>3
  <2>4. CASE y # x /\ x \in s
    <3>1. PICK r : r = s \ {x, y}
      OBVIOUS
    <3>2. (s \ {x}) \ {y} = r /\ (s \ {y}) \ {x} = r /\ r \in SUBSET S
      BY <3>1
    <3>3. g[s \ {x}] = v[y] + g[r]
      <4>1. s \ {x} \in SUBSET S /\ y \in s \ {x}
        BY <2>2, <2>4
      <4>2. QED
        BY <3>2, <4>1, SumRest
    <3>4. h[s] = w[x] + g[s \ {x}] /\ h[s \ {y}] = w[x] + g[r]
      BY <1>2, <2>2, <2>4, <3>2
    <3>5. w[y] = v[y] /\ g[r] \in Nat
      BY <1>1, <2>2, <2>4, <3>2
    <3>6. QED
      BY <1>1, <2>1, <2>2, <3>3, <3>4, <3>5
  <2>5. CASE x \notin s
    <3>1. h[s] = g[s] /\ h[s \ {y}] = g[s \ {y}] /\ w[y] = v[y]
      BY <1>2, <2>2, <2>5
    <3>2. QED
      BY <2>1, <2>2, <3>1
  <2>6. QED
    BY <2>3, <2>4, <2>5
<1>5. IsTotal(h, S, w, c)
  BY <1>3, <1>4 DEF IsTotal
<1>6. h[S] = g[S] - v[x] + w[x]
  <2>1. h[S] = w[x] + g[S \ {x}] /\ g[S] = v[x] + g[S \ {x}] /\ g[S \ {x}] \in Nat
    BY <1>1, <1>2
  <2>2. QED
    BY <1>1, <2>1
<1>7. QED
  BY <1>5, <1>6

\* Two sums of the same numbers are the same.
LEMMA TotalsAgree ==
  ASSUME NEW S, IsFiniteSet(S), NEW v, NEW w, NEW c, NEW g, NEW h,
         IsTotal(g, S, v, c), IsTotal(h, S, w, c), g[{}] = h[{}],
         NEW T \in SUBSET S, \A x \in T : v[x] = w[x]
  PROVE  g[T] = h[T]
<1> DEFINE G == {s \in SUBSET T : g[s] = h[s]}
<1>1. ASSUME NEW s \in SUBSET T, \A x \in s : s \ {x} \in G PROVE s \in G
  <2>1. CASE s = {}
    BY <2>1
  <2>2. CASE s # {}
    <3>1. PICK y : y = c[s]
      OBVIOUS
    <3>2. s \in SUBSET S /\ y \in s
      BY <2>2, <3>1 DEF IsTotal
    <3>3. g[s] = v[y] + g[s \ {y}] /\ h[s] = w[y] + h[s \ {y}]
      BY <2>2, <3>1, <3>2 DEF IsTotal
    <3>4. g[s \ {y}] = h[s \ {y}] /\ v[y] = w[y]
      BY <1>1, <3>2
    <3>5. QED
      BY <3>3, <3>4
  <2>3. QED
    BY <2>1, <2>2
<1>2. {} \in G /\ IsFiniteSet(T)
  BY FS_Subset
<1> HIDE DEF G
<1>3. \A s \in SUBSET T : s \in G
  BY <1>1, <1>2, SubsetInduction
<1>4. QED
  BY <1>3 DEF G

-----------------------------------------------------------------------------
(* The greatest and the least element.                                     *)

\* Of one number, and of two.
LEMMA MaxOne ==
  ASSUME NEW a \in Int
  PROVE  Max({a}) = a
BY DEF Max

LEMMA MaxTwo ==
  ASSUME NEW a \in Int, NEW b \in Int
  PROVE  Max({a, b}) = IF a >= b THEN a ELSE b
BY DEF Max

LEMMA MinTwo ==
  ASSUME NEW a \in Int, NEW b \in Int
  PROVE  Min({a, b}) = IF a <= b THEN a ELSE b
BY DEF Min

\* Of some of the numbers from 1 to n: it is one of them.
LEMMA MaxIn ==
  ASSUME NEW n \in Nat, NEW s \in SUBSET (1 .. n), s # {}
  PROVE  Max(s) \in s
<1>1. PICK T : T = {n - x : x \in s}
  OBVIOUS
<1>2. T \in SUBSET Nat /\ T # {}
  <2>1. \A x \in s : n - x \in Nat
    OBVIOUS
  <2>2. QED
    BY <1>1, <2>1
<1>3. PICK k \in T : \A m \in T : k <= m
  BY <1>2, LeastNumber
<1>4. PICK x \in s : k = n - x
  BY <1>1, <1>3
<1>5. \A y \in s : x >= y
  <2>1. SUFFICES ASSUME NEW y \in s PROVE x >= y
    OBVIOUS
  <2>2. n - y \in T /\ y \in 1 .. n /\ x \in 1 .. n
    BY <1>1
  <2>3. k <= n - y
    BY <1>3, <2>2
  <2>4. QED
    BY <1>4, <2>2, <2>3
<1>6. QED
  BY <1>5 DEF Max

\* Two folds of the same function agree on the subsets of both.
LEMMA FoldsAgree ==
  ASSUME NEW S, NEW T, IsFiniteSet(T), NEW base, NEW f,
         NEW c, \A s \in SUBSET T : s # {} => c[s] \in s,
         NEW d, \A s \in SUBSET T : c[s] = d[s], T \subseteq S,
         NEW g, IsFold(g, S, base, f, c), NEW h, IsFold(h, T, base, f, d)
  PROVE  \A s \in SUBSET T : g[s] = h[s]
<1> DEFINE G == {s \in SUBSET T : g[s] = h[s]}
<1>1. /\ \A s \in SUBSET T : g[s] = IF s = {} THEN base
                                   ELSE f[<<c[s], g[s \ {c[s]}]>>]
      /\ \A s \in SUBSET T : h[s] = IF s = {} THEN base
                                   ELSE f[<<d[s], h[s \ {d[s]}]>>]
  BY DEF IsFold
<1>2. {} \in G
  BY <1>1
<1>3. ASSUME NEW s \in SUBSET T, \A x \in s : s \ {x} \in G PROVE s \in G
  <2>1. CASE s = {}
    BY <1>2, <2>1
  <2>2. CASE s # {}
    <3>1. c[s] \in s /\ c[s] = d[s]
      BY <2>2
    <3>2. s \ {c[s]} \in G
      BY <1>3, <3>1
    <3>3. g[s \ {c[s]}] = h[s \ {d[s]}]
      BY <3>1, <3>2
    <3>4. /\ g[s] = f[<<c[s], g[s \ {c[s]}]>>]
          /\ h[s] = f[<<d[s], h[s \ {d[s]}]>>]
      <4> HIDE DEF G
      <4>1. QED
        BY <1>1, <2>2
    <3>5. QED
      BY <3>1, <3>3, <3>4
  <2>3. QED
    BY <2>1, <2>2
<1>4. \A s \in SUBSET T : s \in G
  <2> HIDE DEF G
  <2>1. QED
    BY <1>2, <1>3, SubsetInduction
<1>5. QED
  BY <1>4

=============================================================================
