--------------------------- MODULE RequestChain_proofs ---------------------------
(***************************************************************************)
(* Proofs about RequestChain, for any number of requests, tokens, passes    *)
(* and ticks to a window: the type invariant of the limiter, the            *)
(* idempotency middleware and the chain together, how many requests any     *)
(* window lets through, what a stored response proves, and how often the    *)
(* handler takes effect. Before them, what SumFunction computes.            *)
(***************************************************************************)
EXTENDS RequestChain, Functions, FiniteSetTheorems, TLAPS

-------------------------------------------------------------------------------
(* SumFunction counts the points under a function. It is defined by a        *)
(* recursive function on the subsets of the domain; the count satisfies its *)
(* equation, and by well-foundedness of the subsets nothing else does.      *)

\* A function to Nat drawn as columns of points, f[x] of them above x.
Column(f, x) == {x} \X (1..f[x])
Points(f, S) == UNION {Column(f, x) : x \in S}

LEMMA ColumnSize ==
  ASSUME NEW f, NEW x, f[x] \in Nat
  PROVE  IsFiniteSet(Column(f, x)) /\ Cardinality(Column(f, x)) = f[x]
<1>1. IsFiniteSet({x}) /\ Cardinality({x}) = 1
  BY FS_Singleton
<1>2. IsFiniteSet(1..f[x]) /\ Cardinality(1..f[x]) = f[x]
  BY FS_Interval
<1>3. IsFiniteSet({x} \X (1..f[x])) /\ Cardinality({x} \X (1..f[x])) = 1 * f[x]
  BY <1>1, <1>2, FS_Product
<1>4. QED BY <1>3 DEF Column

LEMMA PointsFinite ==
  ASSUME NEW S, IsFiniteSet(S), NEW f, \A x \in S : f[x] \in Nat
  PROVE  IsFiniteSet(Points(f, S)) /\ Cardinality(Points(f, S)) \in Nat
<1>1. IsFiniteSet({Column(f, x) : x \in S})
  <2>1. PICK g : g = [x \in S |-> Column(f, x)]
    OBVIOUS
  <2>2. g \in Surjection(S, {Column(f, x) : x \in S})
    BY <2>1 DEF Surjection
  <2>3. QED BY <2>2, FS_Surjection
<1>2. \A T \in {Column(f, x) : x \in S} : IsFiniteSet(T)
  BY ColumnSize
<1>3. QED BY <1>1, <1>2, FS_UNION, FS_CardinalityType DEF Points

\* One more column.
LEMMA PointsAdd ==
  ASSUME NEW S, IsFiniteSet(S), NEW f, \A x \in S : f[x] \in Nat, NEW x \in S
  PROVE  Cardinality(Points(f, S)) = f[x] + Cardinality(Points(f, S \ {x}))
<1>1. IsFiniteSet(S \ {x})
  BY FS_RemoveElement
<1>2. IsFiniteSet(Points(f, S \ {x})) /\ Cardinality(Points(f, S \ {x})) \in Nat
  BY <1>1, PointsFinite
<1>3. IsFiniteSet(Column(f, x)) /\ Cardinality(Column(f, x)) = f[x]
  BY ColumnSize
<1>4. Points(f, S) = Points(f, S \ {x}) \cup Column(f, x)
  BY DEF Points
<1>5. Points(f, S \ {x}) \cap Column(f, x) = {}
  BY DEF Points, Column
<1>6. Cardinality(Points(f, S)) = Cardinality(Points(f, S \ {x})) + Cardinality(Column(f, x))
                                    - Cardinality(Points(f, S \ {x}) \cap Column(f, x))
  BY <1>2, <1>3, <1>4, FS_Union
<1>7. Cardinality(Points(f, S \ {x}) \cap Column(f, x)) = 0
  BY <1>5, FS_EmptySet
<1>8. QED BY <1>2, <1>3, <1>6, <1>7

\* The recursive function that SumFunction folds with.
Unfolds(g, f, S) ==
  g = [s \in SUBSET S |-> IF s = {} THEN 0
                          ELSE f[CHOOSE x \in s : TRUE] + g[s \ {CHOOSE x \in s : TRUE}]]

LEMMA SumUnfolds ==
  ASSUME NEW f PROVE SumFunction(f) = (CHOOSE g : Unfolds(g, f, DOMAIN f))[DOMAIN f]
BY DEF Unfolds, SumFunction, SumFunctionOnSet, FoldFunctionOnSet, MapThenFoldSet

LEMMA PointsUnfold ==
  ASSUME NEW S, IsFiniteSet(S), NEW f, \A x \in S : f[x] \in Nat
  PROVE  Unfolds([s \in SUBSET S |-> Cardinality(Points(f, s))], f, S)
<1>1. PICK g : g = [s \in SUBSET S |-> Cardinality(Points(f, s))]
  OBVIOUS
<1>2. ASSUME NEW s \in SUBSET S
      PROVE  g[s] = IF s = {} THEN 0
                    ELSE f[CHOOSE x \in s : TRUE] + g[s \ {CHOOSE x \in s : TRUE}]
  <2>1. CASE s = {}
    <3>1. Points(f, s) = {}
      BY <2>1 DEF Points
    <3>2. QED BY <1>1, <2>1, <3>1, FS_EmptySet
  <2>2. CASE s # {}
    <3>1. PICK x \in s : x = CHOOSE y \in s : TRUE
      BY <2>2
    <3>2. IsFiniteSet(s)
      BY FS_Subset
    <3>3. s \ {x} \in SUBSET S
      OBVIOUS
    <3>4. Cardinality(Points(f, s)) = f[x] + Cardinality(Points(f, s \ {x}))
      BY <3>2, PointsAdd
    <3>5. QED BY <1>1, <2>2, <3>1, <3>3, <3>4
  <2>3. QED BY <2>1, <2>2
<1>3. QED BY <1>1, <1>2 DEF Unfolds

\* By well-founded induction on the subsets of S, nothing else unfolds so.
LEMMA UnfoldsUnique ==
  ASSUME NEW S, IsFiniteSet(S), NEW f, NEW g, NEW h, Unfolds(g, f, S), Unfolds(h, f, S)
  PROVE  g = h
<1>1. /\ g = [s \in SUBSET S |-> g[s]] /\ h = [s \in SUBSET S |-> h[s]]
      /\ \A s \in SUBSET S :
           /\ g[s] = IF s = {} THEN 0
                     ELSE f[CHOOSE x \in s : TRUE] + g[s \ {CHOOSE x \in s : TRUE}]
           /\ h[s] = IF s = {} THEN 0
                     ELSE f[CHOOSE x \in s : TRUE] + h[s \ {CHOOSE x \in s : TRUE}]
  BY DEF Unfolds
<1>2. SUFFICES ASSUME NEW T, T = {s \in SUBSET S : g[s] # h[s]}, T # {} PROVE FALSE
  BY <1>1
<1>3. IsWellFoundedOn(StrictSubsetOrdering(S), SUBSET S)
  BY FS_StrictSubsetOrderingWellFounded, FS_FiniteSubsetsOfFinite
<1>4. PICK s \in T : \A t \in T : <<t, s>> \notin StrictSubsetOrdering(S)
  BY <1>2, <1>3, WFMin
<1>5. s # {} /\ s \in SUBSET S /\ g[s] # h[s]
  BY <1>1, <1>2
<1>6. PICK x \in s : x = CHOOSE y \in s : TRUE
  BY <1>5
<1>7. s \ {x} \in SUBSET S /\ s \ {x} # s /\ s \ {x} \subseteq s
  BY <1>5
<1>8. <<s \ {x}, s>> \in StrictSubsetOrdering(S)
  BY <1>5, <1>7 DEF StrictSubsetOrdering
<1>9. g[s \ {x}] = h[s \ {x}]
  <2>1. s \ {x} \notin T
    BY <1>4, <1>8
  <2>2. QED BY <1>2, <1>7, <2>1
<1>10. /\ g[s] = f[x] + g[s \ {x}]
       /\ h[s] = f[x] + h[s \ {x}]
  BY <1>1, <1>5, <1>6
<1>11. QED BY <1>5, <1>9, <1>10

LEMMA SumIsSize ==
  ASSUME NEW f, IsFiniteSet(DOMAIN f), \A x \in DOMAIN f : f[x] \in Nat
  PROVE  SumFunction(f) = Cardinality(Points(f, DOMAIN f)) /\ SumFunction(f) \in Nat
<1>1. PICK S : S = DOMAIN f
  OBVIOUS
<1>2. PICK g : g = [s \in SUBSET S |-> Cardinality(Points(f, s))]
  OBVIOUS
<1>3. Unfolds(g, f, S)
  BY <1>1, <1>2, PointsUnfold
<1>4. PICK h : h = CHOOSE k : Unfolds(k, f, S)
  OBVIOUS
<1>5. Unfolds(h, f, S)
  BY <1>3, <1>4
<1>6. h = g
  BY <1>1, <1>3, <1>5, UnfoldsUnique
<1>7. SumFunction(f) = h[S]
  BY <1>1, <1>4, SumUnfolds
<1>8. QED BY <1>1, <1>2, <1>6, <1>7, PointsFinite

\* The same when a column is one point higher.
LEMMA PointsGrow ==
  ASSUME NEW S, IsFiniteSet(S), NEW f, NEW g, \A x \in S : f[x] \in Nat, NEW y \in S,
         g[y] = f[y] + 1, \A x \in S \ {y} : g[x] = f[x]
  PROVE  Cardinality(Points(g, S)) = Cardinality(Points(f, S)) + 1
<1>1. Points(g, S \ {y}) = Points(f, S \ {y})
  BY DEF Points, Column
<1>2. Cardinality(Points(f, S)) = f[y] + Cardinality(Points(f, S \ {y}))
  BY PointsAdd
<1>3. \A x \in S : g[x] \in Nat
  OBVIOUS
<1>4. Cardinality(Points(g, S)) = g[y] + Cardinality(Points(g, S \ {y}))
  BY <1>3, PointsAdd
<1>5. Cardinality(Points(f, S \ {y})) \in Nat
  <2>1. IsFiniteSet(S \ {y})
    BY FS_RemoveElement
  <2>2. QED BY <2>1, PointsFinite
<1>6. QED BY <1>1, <1>2, <1>4, <1>5

\* Fewer columns have no more points.
LEMMA PointsMonotonic ==
  ASSUME NEW S, IsFiniteSet(S), NEW f, \A x \in S : f[x] \in Nat, NEW R, R \subseteq S
  PROVE  Cardinality(Points(f, R)) <= Cardinality(Points(f, S))
<1>1. Points(f, R) \in SUBSET Points(f, S)
  BY DEF Points
<1>2. QED BY <1>1, PointsFinite, FS_Subset

LEMMA SumZero ==
  ASSUME NEW S, IsFiniteSet(S)
  PROVE  SumFunction([x \in S |-> 0]) = 0
<1>1. PICK f : f = [x \in S |-> 0]
  OBVIOUS
<1>2. DOMAIN f = S /\ \A x \in S : f[x] = 0
  BY <1>1
<1>3. Points(f, S) = {}
  BY <1>2 DEF Points, Column
<1>4. SumFunction(f) = Cardinality(Points(f, S))
  BY <1>2, SumIsSize
<1>5. QED BY <1>1, <1>3, <1>4, FS_EmptySet

LEMMA SumIncrement ==
  ASSUME NEW S, IsFiniteSet(S), NEW f \in [S -> Nat], NEW y \in S,
         NEW g, g = [f EXCEPT ![y] = f[y] + 1]
  PROVE  SumFunction(g) = SumFunction(f) + 1
<1>1. DOMAIN f = S /\ DOMAIN g = S /\ \A x \in S : f[x] \in Nat /\ g[x] \in Nat
  OBVIOUS
<1>2. SumFunction(f) = Cardinality(Points(f, S))
  BY <1>1, SumIsSize
<1>3. SumFunction(g) = Cardinality(Points(g, S))
  BY <1>1, SumIsSize
<1>4. g[y] = f[y] + 1 /\ \A x \in S \ {y} : g[x] = f[x]
  OBVIOUS
<1>5. Cardinality(Points(g, S)) = Cardinality(Points(f, S)) + 1
  BY <1>1, <1>4, PointsGrow
<1>6. QED BY <1>2, <1>3, <1>5

-------------------------------------------------------------------------------
(* The limiter.                                                            *)

Least(a, b) == IF a <= b THEN a ELSE b

\* What a history counts in its last k ticks.
InLast(f, k) == Cardinality(Points(f, 0..k-1))

\* What passed in the window is at most what the counter has let through, one less
\* than MaxRequests from before it, and what went on unchecked. A counter with a TTL has
\* let through what passed since it was given the TTL and was not unchecked, and one
\* more: the request that created it, which passed earlier. When it is deleted a whole
\* window has gone by, and that one request is no longer among what passed in it.
WindowInv ==
  /\ InLast(passed, Window)
       <= MaxRequests - 1 + Least(count, MaxRequests) + InLast(unchecked, Window)
  /\ ttl # Window + 1 =>
       InLast(passed, Window - ttl) + 1
         <= Least(count, MaxRequests) + InLast(unchecked, Window - ttl)

LimitInv == Limit!TypeOK /\ WindowInv

\* A tick moves every column one place; the oldest leaves the window.
LEMMA PointsShift ==
  ASSUME NEW n \in Nat, NEW f, NEW g, g[0] = 0,
         \A i \in 0..n-1 : f[i] \in Nat /\ g[i+1] = f[i]
  PROVE  Cardinality(Points(g, 0..n)) = Cardinality(Points(f, 0..n-1))
<1>1. PICK F : F = Points(f, 0..n-1)
  OBVIOUS
<1>2. PICK G : G = Points(g, 0..n)
  OBVIOUS
<1>3. \A q : q \in F <=> \E i \in 0..n-1 : \E k \in 1..f[i] : q = <<i, k>>
  BY <1>1 DEF Points, Column
<1>4. \A q : q \in G <=> \E i \in 0..n : \E k \in 1..g[i] : q = <<i, k>>
  BY <1>2 DEF Points, Column
<1>5. PICK s : s = [q \in F |-> <<q[1] + 1, q[2]>>]
  OBVIOUS
<1>6. \A i \in 0..n-1 : \A k \in 1..f[i] : <<i, k>> \in F /\ s[<<i, k>>] = <<i + 1, k>>
  BY <1>3, <1>5
<1>7. s \in [F -> G]
  <2>1. ASSUME NEW q \in F PROVE s[q] \in G
    <3>1. PICK i \in 0..n-1, k \in Nat : k \in 1..f[i] /\ q = <<i, k>>
      BY <1>3
    <3>2. s[q] = <<i + 1, k>> /\ i + 1 \in 0..n /\ k \in 1..g[i+1]
      BY <1>6, <3>1
    <3>3. QED BY <1>4, <3>2
  <2>2. QED BY <1>5, <2>1
<1>8. \A a, b \in F : s[a] = s[b] => a = b
  <2>1. ASSUME NEW a \in F, NEW b \in F, s[a] = s[b] PROVE a = b
    <3>1. PICK i \in 0..n-1, k \in Nat : k \in 1..f[i] /\ a = <<i, k>>
      BY <1>3
    <3>2. PICK j \in 0..n-1, l \in Nat : l \in 1..f[j] /\ b = <<j, l>>
      BY <1>3
    <3>3. <<i + 1, k>> = <<j + 1, l>>
      BY <1>6, <2>1, <3>1, <3>2
    <3>4. i = j /\ k = l
      BY <3>3
    <3>5. QED BY <3>1, <3>2, <3>4
  <2>2. QED BY <2>1
<1>9. \A t \in G : \E q \in F : s[q] = t
  <2>1. ASSUME NEW t \in G PROVE \E q \in F : s[q] = t
    <3>1. PICK i \in 0..n, k \in Nat : k \in 1..g[i] /\ t = <<i, k>>
      BY <1>4
    <3>2. i # 0
      BY <3>1
    <3>3. PICK j \in 0..n-1 : i = j + 1
      BY <3>2
    <3>4. k \in 1..f[j]
      BY <3>1, <3>3
    <3>5. QED BY <1>6, <3>1, <3>3, <3>4
  <2>2. QED BY <2>1
<1>10. s \in Bijection(F, G)
  BY <1>7, <1>8, <1>9 DEF Bijection, Injection, Surjection, IsInjective
<1>11. IsFiniteSet(F)
  <2>1. IsFiniteSet(0..n-1)
    BY FS_Interval
  <2>2. QED BY <1>1, <2>1, PointsFinite
<1>12. QED BY <1>1, <1>2, <1>10, <1>11, FS_Bijection DEF ExistsBijection

\* The last k ticks of a history.
LEMMA HistoryFacts ==
  ASSUME NEW f \in [0..Window-1 -> Nat]
  PROVE  /\ \A k \in 0..Window : InLast(f, k) \in Nat /\ InLast(f, k) <= InLast(f, Window)
         /\ InLast(f, 0) = 0
<1> USE LimitAssumption
<1>1. ASSUME NEW k \in 0..Window PROVE IsFiniteSet(0..k-1) /\ 0..k-1 \subseteq 0..Window-1
  <2>1. IsFiniteSet(0..k-1)
    <3>1. k - 1 \in Int
      OBVIOUS
    <3>2. QED BY <3>1, FS_Interval
  <2>2. QED BY <2>1
<1>2. ASSUME NEW k \in 0..Window PROVE InLast(f, k) \in Nat /\ InLast(f, k) <= InLast(f, Window)
  <2>1. InLast(f, k) \in Nat
    BY <1>1, PointsFinite DEF InLast
  <2>2. Window \in 0..Window
    OBVIOUS
  <2>3. InLast(f, k) <= InLast(f, Window)
    BY <1>1, <2>2, PointsMonotonic DEF InLast
  <2>4. QED BY <2>1, <2>3
<1>3. InLast(f, 0) = 0
  <2>1. Points(f, 0..0-1) = {}
    BY DEF Points
  <2>2. QED BY <2>1, FS_EmptySet DEF InLast
<1>4. QED BY <1>2, <1>3

\* One more request is let through.
LEMMA HistoryGrows ==
  ASSUME NEW f \in [0..Window-1 -> Nat], NEW g, g = [f EXCEPT ![0] = f[0] + 1],
         NEW k \in 1..Window
  PROVE  InLast(g, k) = InLast(f, k) + 1
<1> USE LimitAssumption
<1>1. IsFiniteSet(0..k-1) /\ 0 \in 0..k-1 /\ 0..k-1 \subseteq 0..Window-1
  <2>1. k - 1 \in Int
    OBVIOUS
  <2>2. IsFiniteSet(0..k-1)
    BY <2>1, FS_Interval
  <2>3. QED BY <2>2
<1>2. /\ g[0] = f[0] + 1 /\ \A i \in (0..k-1) \ {0} : g[i] = f[i]
      /\ \A i \in 0..k-1 : f[i] \in Nat
  BY <1>1
<1>3. QED BY <1>1, <1>2, PointsGrow DEF InLast

\* A tick passes.
LEMMA HistoryShifts ==
  ASSUME NEW f \in [0..Window-1 -> Nat],
         NEW g, g = [i \in 0..Window-1 |-> IF i = 0 THEN 0 ELSE f[i-1]],
         NEW k \in 0..Window-1
  PROVE  InLast(g, k + 1) = InLast(f, k)
<1> USE LimitAssumption
<1>1. k \in Nat /\ g[0] = 0 /\ \A i \in 0..k-1 : f[i] \in Nat /\ g[i+1] = f[i]
  OBVIOUS
<1>2. Cardinality(Points(g, 0..k)) = Cardinality(Points(f, 0..k-1))
  BY <1>1, PointsShift
<1>3. k + 1 - 1 = k
  OBVIOUS
<1>4. QED BY <1>2, <1>3 DEF InLast

\* The sum in RateLimiter is this one.
LEMMA WindowSum ==
  ASSUME NEW f \in [0..Window-1 -> Nat]
  PROVE  Limit!SumFunction(f) = InLast(f, Window)
<1>1. Limit!SumFunction(f) = SumFunction(f)
  BY DEF Limit!SumFunction, Limit!SumFunctionOnSet, Limit!FoldFunctionOnSet, Limit!MapThenFoldSet,
         SumFunction, SumFunctionOnSet, FoldFunctionOnSet, MapThenFoldSet
<1>2. IsFiniteSet(DOMAIN f) /\ DOMAIN f = 0..Window-1 /\ \A i \in DOMAIN f : f[i] \in Nat
  <2>1. Window - 1 \in Int
    BY LimitAssumption
  <2>2. IsFiniteSet(0..Window-1)
    BY <2>1, FS_Interval
  <2>3. QED BY <2>2
<1>3. SumFunction(f) = Cardinality(Points(f, DOMAIN f))
  BY <1>2, SumIsSize
<1>4. QED BY <1>1, <1>2, <1>3 DEF InLast

\* The type invariant without the names of RateLimiter.
LimitShape ==
  /\ count \in 0..MaxRequests + 1
  /\ ttl \in 1..Window + 1 /\ (ttl # Window + 1 => count > 0)
  /\ (Expiring => count > 0 /\ ttl = Window + 1)
  /\ passed \in [0..Window-1 -> Nat] /\ unchecked \in [0..Window-1 -> Nat]
  /\ \A i \in 0..Window-1 : unchecked[i] <= passed[i]

LEMMA LimitTypes == Limit!TypeOK <=> LimitShape
<1>1. Expiring \in BOOLEAN
  BY DEF Expiring
<1>2. QED BY <1>1 DEF Limit!TypeOK, Limit!NoTTL, LimitShape

\* A window without the last tick.
LEMMA HistoryDrops ==
  ASSUME NEW f \in [0..Window-1 -> Nat]
  PROVE  InLast(f, Window) = f[Window-1] + InLast(f, Window-1)
<1> USE LimitAssumption
<1>1. PICK S : S = 0..Window-1
  OBVIOUS
<1>2. IsFiniteSet(S) /\ \A i \in S : f[i] \in Nat
  <2>1. Window - 1 \in Int
    OBVIOUS
  <2>2. IsFiniteSet(0..Window-1)
    BY <2>1, FS_Interval
  <2>3. \A i \in S : f[i] \in Nat
    BY <1>1
  <2>4. QED BY <1>1, <2>2, <2>3
<1>3. Window - 1 \in S /\ S \ {Window - 1} = 0..(Window-1)-1
  BY <1>1
<1>4. Cardinality(Points(f, S)) = f[Window-1] + Cardinality(Points(f, S \ {Window - 1}))
  BY <1>2, <1>3, PointsAdd
<1>5. QED BY <1>1, <1>3, <1>4 DEF InLast

LEMMA LimitInit == Init => LimitInv
<1> SUFFICES ASSUME Init PROVE LimitInv
  OBVIOUS
<1> USE LimitAssumption
<1>1. PICK f : f = [i \in 0..Window-1 |-> 0]
  OBVIOUS
<1>2. /\ count = 0 /\ ttl = Window + 1 /\ Expiring = FALSE
      /\ passed = f /\ unchecked = f
  BY <1>1 DEF Init, Limit!Init, Limit!NoTTL
<1>3. f \in [0..Window-1 -> Nat] /\ \A i \in 0..Window-1 : f[i] <= f[i]
  BY <1>1
<1>4. InLast(f, Window) \in Nat
  <2>1. Window \in 0..Window
    OBVIOUS
  <2>2. QED BY <1>3, <2>1, HistoryFacts
<1>5. WindowInv
  BY <1>2, <1>4 DEF WindowInv, Least
<1>6. Limit!TypeOK
  BY <1>2, <1>3, LimitTypes DEF LimitShape
<1>7. QED BY <1>5, <1>6 DEF LimitInv

\* What LimitInv says, with constants for the histories.
LimitSays(f, u) ==
  /\ f = passed /\ u = unchecked
  /\ \A i \in 0..Window-1 : u[i] <= f[i]
  /\ count \in 0..MaxRequests + 1
  /\ ttl \in 1..Window + 1 /\ (ttl # Window + 1 => count > 0)
  /\ (Expiring => count > 0 /\ ttl = Window + 1)
  /\ InLast(f, Window) <= MaxRequests - 1 + Least(count, MaxRequests) + InLast(u, Window)
  /\ ttl # Window + 1 =>
       InLast(f, Window - ttl) + 1 <= Least(count, MaxRequests) + InLast(u, Window - ttl)
  /\ \A k \in 0..Window : InLast(f, k) \in Nat /\ InLast(u, k) \in Nat
  /\ InLast(f, 0) = 0 /\ InLast(u, 0) = 0

LEMMA LimitFacts ==
  ASSUME LimitInv
  PROVE  \E f, u \in [0..Window-1 -> Nat] : LimitSays(f, u)
<1>1. LimitShape
  BY LimitTypes DEF LimitInv
<1>2. PICK f \in [0..Window-1 -> Nat], u \in [0..Window-1 -> Nat] : f = passed /\ u = unchecked
  BY <1>1 DEF LimitShape
<1>3. /\ \A k \in 0..Window : InLast(f, k) \in Nat /\ InLast(u, k) \in Nat
      /\ InLast(f, 0) = 0 /\ InLast(u, 0) = 0
  BY HistoryFacts
<1>4. /\ \A i \in 0..Window-1 : u[i] <= f[i]
      /\ count \in 0..MaxRequests + 1
      /\ ttl \in 1..Window + 1 /\ (ttl # Window + 1 => count > 0)
      /\ (Expiring => count > 0 /\ ttl = Window + 1)
  BY <1>1, <1>2 DEF LimitShape
<1>5. /\ InLast(f, Window) <= MaxRequests - 1 + Least(count, MaxRequests) + InLast(u, Window)
      /\ ttl # Window + 1 =>
           InLast(f, Window - ttl) + 1 <= Least(count, MaxRequests) + InLast(u, Window - ttl)
  BY <1>2 DEF LimitInv, WindowInv
<1>6. QED BY <1>2, <1>3, <1>4, <1>5 DEF LimitSays

LEMMA LeastFacts ==
  ASSUME NEW a \in Nat, NEW b \in Nat
  PROVE  /\ Least(a, b) \in Nat /\ Least(a, b) <= b
         /\ a + 1 <= b => Least(a + 1, b) = Least(a, b) + 1
         /\ Least(a, b) <= Least(a + 1, b)
         /\ a >= b => Least(a, b) = b
BY DEF Least

\* A history grows by one in every stretch that ends now, but the empty one.
Grown(f, g) ==
  /\ g = [f EXCEPT ![0] = f[0] + 1]
  /\ \A k \in 0..Window :
       /\ InLast(f, k) \in Nat /\ InLast(g, k) \in Nat
       /\ InLast(g, k) = IF k = 0 THEN InLast(f, k) ELSE InLast(f, k) + 1

LEMMA Grows ==
  ASSUME NEW f \in [0..Window-1 -> Nat]
  PROVE  \E g \in [0..Window-1 -> Nat] : Grown(f, g)
<1> USE LimitAssumption
<1>1. PICK g : g = [f EXCEPT ![0] = f[0] + 1]
  OBVIOUS
<1>2. g \in [0..Window-1 -> Nat]
  <2>1. 0 \in 0..Window-1 /\ f[0] + 1 \in Nat
    OBVIOUS
  <2>2. QED BY <1>1, <2>1
<1>3. ASSUME NEW k \in 0..Window
      PROVE  /\ InLast(f, k) \in Nat /\ InLast(g, k) \in Nat
             /\ InLast(g, k) = IF k = 0 THEN InLast(f, k) ELSE InLast(f, k) + 1
  <2>1. InLast(f, k) \in Nat /\ InLast(f, 0) = 0
    BY HistoryFacts
  <2>2. InLast(g, k) \in Nat /\ InLast(g, 0) = 0
    BY <1>2, HistoryFacts
  <2>3. CASE k = 0
    BY <2>1, <2>2, <2>3
  <2>4. CASE k # 0
    <3>1. k \in 1..Window
      BY <2>4
    <3>2. InLast(g, k) = InLast(f, k) + 1
      BY <1>1, <3>1, HistoryGrows
    <3>3. QED BY <2>1, <2>2, <2>4, <3>2
  <2>5. QED BY <2>3, <2>4
<1>4. QED BY <1>1, <1>2, <1>3 DEF Grown

\* A counted request: RequestChain decides with Expiring which one is to send EXPIRE.
LEMMA IncrKeeps ==
  ASSUME LimitInv, Limit!Incr
  PROVE  LimitInv'
<1> USE LimitAssumption
<1>1. PICK f \in [0..Window-1 -> Nat], u \in [0..Window-1 -> Nat] : LimitSays(f, u)
  BY LimitFacts
<1>2. /\ count' = IF count <= MaxRequests THEN count + 1 ELSE count
      /\ Expiring' => Expiring \/ count = 0
      /\ passed' = IF count + 1 <= MaxRequests THEN [f EXCEPT ![0] = f[0] + 1] ELSE f
      /\ ttl' = ttl /\ unchecked' = u
  BY <1>1 DEF LimitSays, Limit!Incr, Limit!Within, Limit!LetThrough
<1>3. /\ count \in 0..MaxRequests + 1 /\ count \in Nat /\ MaxRequests \in Nat
      /\ ttl \in 1..Window + 1 /\ (ttl # Window + 1 => count > 0)
      /\ (Expiring => count > 0 /\ ttl = Window + 1)
  BY <1>1 DEF LimitSays
<1>4. InLast(f, Window) <= MaxRequests - 1 + Least(count, MaxRequests) + InLast(u, Window)
  BY <1>1 DEF LimitSays
<1>5. ttl # Window + 1 =>
        InLast(f, Window - ttl) + 1 <= Least(count, MaxRequests) + InLast(u, Window - ttl)
  BY <1>1 DEF LimitSays
<1>6. \A k \in 0..Window : InLast(f, k) \in Nat /\ InLast(u, k) \in Nat
  BY <1>1 DEF LimitSays
<1>7. \A i \in 0..Window-1 : u[i] <= f[i]
  BY <1>1 DEF LimitSays
<1>8. /\ Least(count, MaxRequests) \in Nat
      /\ count + 1 <= MaxRequests => Least(count + 1, MaxRequests) = Least(count, MaxRequests) + 1
      /\ count >= MaxRequests => Least(count, MaxRequests) = MaxRequests
  BY <1>3, LeastFacts
<1>9. /\ count' \in 0..MaxRequests + 1 /\ ttl' \in 1..Window + 1
      /\ ttl' # Window + 1 => count' > 0
      /\ Expiring' => count' > 0 /\ ttl' = Window + 1
  BY <1>2, <1>3
<1>10. CASE count + 1 <= MaxRequests
  <2>1. PICK g \in [0..Window-1 -> Nat] : Grown(f, g)
    BY Grows
  <2>2. passed' = g /\ count' = count + 1
    BY <1>2, <1>3, <1>10, <2>1 DEF Grown
  <2>3. ASSUME NEW k \in 0..Window PROVE InLast(g, k) \in Nat /\ InLast(g, k) <= InLast(f, k) + 1
    <3>1. /\ InLast(f, k) \in Nat /\ InLast(g, k) \in Nat
          /\ InLast(g, k) = IF k = 0 THEN InLast(f, k) ELSE InLast(f, k) + 1
      BY <2>1 DEF Grown
    <3>2. QED BY <3>1
  <2>4. InLast(g, Window) <= MaxRequests - 1 + Least(count', MaxRequests) + InLast(u, Window)
    <3>1. /\ InLast(g, Window) <= InLast(f, Window) + 1 /\ InLast(g, Window) \in Nat
          /\ InLast(f, Window) \in Nat /\ InLast(u, Window) \in Nat
      BY <1>6, <2>3
    <3>2. Least(count', MaxRequests) = Least(count, MaxRequests) + 1
      BY <1>8, <1>10, <2>2
    <3>3. Least(count, MaxRequests) \in Nat
      BY <1>8
    <3>4. QED BY <1>4, <3>1, <3>2, <3>3
  <2>5. ttl # Window + 1 =>
          InLast(g, Window - ttl) + 1 <= Least(count', MaxRequests) + InLast(u, Window - ttl)
    <3>1. SUFFICES ASSUME ttl # Window + 1
                   PROVE  InLast(g, Window - ttl) + 1
                            <= Least(count', MaxRequests) + InLast(u, Window - ttl)
      OBVIOUS
    <3>2. Window - ttl \in 0..Window
      BY <1>3, <3>1
    <3>3. /\ InLast(g, Window - ttl) <= InLast(f, Window - ttl) + 1
          /\ InLast(g, Window - ttl) \in Nat /\ InLast(f, Window - ttl) \in Nat
          /\ InLast(u, Window - ttl) \in Nat
      BY <1>6, <2>3, <3>2
    <3>4. QED BY <1>5, <1>8, <1>10, <2>2, <3>1, <3>3
  <2>6. \A i \in 0..Window-1 : u[i] <= g[i]
    <3>1. SUFFICES ASSUME NEW i \in 0..Window-1 PROVE u[i] <= g[i]
      OBVIOUS
    <3>2. u[i] \in Nat /\ f[i] \in Nat /\ u[i] <= f[i] /\ (g[i] = f[i] \/ g[i] = f[i] + 1)
      BY <1>7, <2>1 DEF Grown
    <3>3. QED BY <3>2
  <2>7. WindowInv'
    BY <1>2, <2>2, <2>4, <2>5 DEF WindowInv
  <2>8. LimitShape'
    BY <1>2, <1>9, <2>2, <2>6 DEF LimitShape
  <2>9. Limit!TypeOK'
    BY <2>8, LimitTypes, PTL
  <2>10. QED BY <2>7, <2>9 DEF LimitInv
<1>11. CASE ~(count + 1 <= MaxRequests)
  <2>1. /\ passed' = f /\ ttl' = ttl /\ unchecked' = u
        /\ Least(count', MaxRequests) = Least(count, MaxRequests)
    <3>1. count >= MaxRequests /\ count' >= MaxRequests /\ count' \in Nat
      BY <1>2, <1>3, <1>11
    <3>2. Least(count', MaxRequests) = MaxRequests
      BY <1>3, <3>1, LeastFacts
    <3>3. QED BY <1>2, <1>8, <1>11, <3>1, <3>2
  <2>2. WindowInv'
    BY <1>4, <1>5, <2>1 DEF WindowInv
  <2>3. LimitShape'
    BY <1>7, <1>9, <2>1 DEF LimitShape
  <2>4. Limit!TypeOK'
    BY <2>3, LimitTypes, PTL
  <2>5. QED BY <2>2, <2>4 DEF LimitInv
<1>12. QED BY <1>10, <1>11

\* A request whose INCR has an error: both histories grow, and the counter perhaps.
LEMMA IncrFailsKeeps ==
  ASSUME LimitInv, Limit!IncrFails
  PROVE  LimitInv'
<1> USE LimitAssumption
<1>1. PICK f \in [0..Window-1 -> Nat], u \in [0..Window-1 -> Nat] : LimitSays(f, u)
  BY LimitFacts
<1>2. /\ count' = count \/ (count <= MaxRequests /\ count' = count + 1)
      /\ Expiring' = Expiring /\ ttl' = ttl
      /\ passed' = [f EXCEPT ![0] = f[0] + 1] /\ unchecked' = [u EXCEPT ![0] = u[0] + 1]
  BY <1>1 DEF LimitSays, Limit!IncrFails, Limit!Within, Limit!LetThrough
<1>3. PICK g \in [0..Window-1 -> Nat] : Grown(f, g)
  BY Grows
<1>4. PICK v \in [0..Window-1 -> Nat] : Grown(u, v)
  BY Grows
<1>5. passed' = g /\ unchecked' = v
  BY <1>2, <1>3, <1>4 DEF Grown
<1>6. /\ count \in 0..MaxRequests + 1 /\ count \in Nat /\ MaxRequests \in Nat
      /\ ttl \in 1..Window + 1 /\ (ttl # Window + 1 => count > 0)
      /\ (Expiring => count > 0 /\ ttl = Window + 1)
  BY <1>1 DEF LimitSays
<1>7. count' \in 0..MaxRequests + 1 /\ (count > 0 => count' > 0)
  BY <1>2, <1>6
<1>8. /\ Least(count, MaxRequests) <= Least(count', MaxRequests)
      /\ Least(count, MaxRequests) \in Nat /\ Least(count', MaxRequests) \in Nat
  <2>1. /\ Least(count, MaxRequests) <= Least(count + 1, MaxRequests)
        /\ Least(count, MaxRequests) \in Nat /\ Least(count + 1, MaxRequests) \in Nat
    <3>1. count \in Nat /\ count + 1 \in Nat /\ MaxRequests \in Nat
      BY <1>6
    <3>2. QED BY <3>1, LeastFacts
  <2>2. QED BY <1>2, <2>1
<1>9. ASSUME NEW k \in 0..Window, NEW w \in Int,
             InLast(f, k) <= w + Least(count, MaxRequests) + InLast(u, k)
      PROVE  InLast(g, k) <= w + Least(count', MaxRequests) + InLast(v, k)
  <2>1. PICK l \in Nat, l1 \in Nat :
          l = Least(count, MaxRequests) /\ l1 = Least(count', MaxRequests) /\ l <= l1
    BY <1>8
  <2>2. PICK x \in Nat, x1 \in Nat : x = InLast(f, k) /\ x1 = InLast(g, k)
                                    /\ x1 = IF k = 0 THEN x ELSE x + 1
    BY <1>3 DEF Grown
  <2>3. PICK y \in Nat, y1 \in Nat : y = InLast(u, k) /\ y1 = InLast(v, k)
                                    /\ y1 = IF k = 0 THEN y ELSE y + 1
    BY <1>4 DEF Grown
  <2>4. x <= w + l + y
    BY <1>9, <2>1, <2>2, <2>3
  <2>5. x1 <= w + l1 + y1
    <3>1. CASE k = 0
      <4>1. x1 = x /\ y1 = y
        BY <2>2, <2>3, <3>1
      <4>2. w + l <= w + l1
        BY <2>1
      <4>3. QED BY <2>4, <4>1, <4>2
    <3>2. CASE k # 0
      <4>1. x1 = x + 1 /\ y1 = y + 1
        BY <2>2, <2>3, <3>2
      <4>2. w + l <= w + l1
        BY <2>1
      <4>3. QED BY <2>4, <4>1, <4>2
    <3>3. QED BY <3>1, <3>2
  <2>6. QED BY <2>1, <2>2, <2>3, <2>5
<1>10. InLast(g, Window) <= MaxRequests - 1 + Least(count', MaxRequests) + InLast(v, Window)
  <2>1. Window \in 0..Window /\ MaxRequests - 1 \in Int
    OBVIOUS
  <2>2. InLast(f, Window) <= MaxRequests - 1 + Least(count, MaxRequests) + InLast(u, Window)
    BY <1>1 DEF LimitSays
  <2>3. QED BY <1>9, <2>1, <2>2
<1>11. ttl # Window + 1 =>
         InLast(g, Window - ttl) + 1 <= Least(count', MaxRequests) + InLast(v, Window - ttl)
  <2>1. SUFFICES ASSUME ttl # Window + 1
                 PROVE  InLast(g, Window - ttl) + 1
                          <= Least(count', MaxRequests) + InLast(v, Window - ttl)
    OBVIOUS
  <2>2. PICK k \in 0..Window : k = Window - ttl
    BY <1>6, <2>1
  <2>3. /\ InLast(f, k) \in Nat /\ InLast(u, k) \in Nat
        /\ InLast(g, k) \in Nat /\ InLast(v, k) \in Nat
    BY <1>3, <1>4 DEF Grown
  <2>4. InLast(f, k) + 1 <= Least(count, MaxRequests) + InLast(u, k)
    BY <1>1, <2>1, <2>2 DEF LimitSays
  <2>5. InLast(f, k) <= -1 + Least(count, MaxRequests) + InLast(u, k)
    BY SMTT(40), <1>8, <2>3, <2>4
  <2>6. InLast(g, k) <= -1 + Least(count', MaxRequests) + InLast(v, k)
    <3>1. -1 \in Int
      OBVIOUS
    <3>2. QED BY <1>9, <2>5, <3>1
  <2>7. InLast(g, k) + 1 <= Least(count', MaxRequests) + InLast(v, k)
    BY SMTT(40), <1>8, <2>3, <2>6
  <2>8. QED BY <2>2, <2>7
<1>12. \A i \in 0..Window-1 : v[i] <= g[i]
  <2>1. SUFFICES ASSUME NEW i \in 0..Window-1 PROVE v[i] <= g[i]
    OBVIOUS
  <2>2. u[i] \in Nat /\ f[i] \in Nat /\ u[i] <= f[i]
    BY <1>1 DEF LimitSays
  <2>3. /\ g[i] = IF i = 0 THEN f[i] + 1 ELSE f[i]
        /\ v[i] = IF i = 0 THEN u[i] + 1 ELSE u[i]
    BY <1>3, <1>4 DEF Grown
  <2>4. QED BY <2>2, <2>3
<1>13. WindowInv'
  BY <1>2, <1>5, <1>10, <1>11 DEF WindowInv
<1>14. LimitShape'
  BY <1>2, <1>5, <1>6, <1>7, <1>12 DEF LimitShape
<1>15. Limit!TypeOK'
  BY <1>14, LimitTypes, PTL
<1>16. QED BY <1>13, <1>15 DEF LimitInv

LEMMA ExpireKeeps ==
  ASSUME LimitInv, Limit!Expire \/ Limit!ExpireLost
  PROVE  LimitInv'
<1> USE LimitAssumption
<1>1. PICK f \in [0..Window-1 -> Nat], u \in [0..Window-1 -> Nat] : LimitSays(f, u)
  BY LimitFacts
<1>2. /\ Expiring /\ count' = count /\ passed' = f /\ unchecked' = u /\ Expiring' = FALSE
      /\ ttl' = Window \/ ttl' = ttl
  BY <1>1 DEF LimitSays, Limit!Expire, Limit!ExpireLost
<1>3. /\ count > 0 /\ ttl = Window + 1 /\ count \in 0..MaxRequests + 1 /\ InLast(f, 0) = 0
      /\ InLast(u, 0) = 0
  BY <1>1, <1>2 DEF LimitSays
<1>4. ttl' # Window + 1 =>
        InLast(f, Window - ttl') + 1 <= Least(count, MaxRequests) + InLast(u, Window - ttl')
  <2>1. SUFFICES ASSUME ttl' # Window + 1
                 PROVE  InLast(f, Window - ttl') + 1
                          <= Least(count, MaxRequests) + InLast(u, Window - ttl')
    OBVIOUS
  <2>2. Window - ttl' = 0
    BY <1>2, <1>3, <2>1
  <2>3. Least(count, MaxRequests) >= 1 /\ Least(count, MaxRequests) \in Nat
    BY <1>3 DEF Least
  <2>4. QED BY <1>3, <2>2, <2>3
<1>5. WindowInv'
  BY <1>1, <1>2, <1>4 DEF WindowInv, LimitSays
<1>6. LimitShape'
  <2>1. ttl' \in 1..Window + 1
    BY <1>2, <1>3
  <2>2. \A i \in 0..Window-1 : u[i] <= f[i]
    BY <1>1 DEF LimitSays
  <2>3. QED BY <1>2, <1>3, <2>1, <2>2 DEF LimitShape
<1>7. Limit!TypeOK'
  BY <1>6, LimitTypes, PTL
<1>8. QED BY <1>5, <1>7 DEF LimitInv

\* A history ages: every stretch is the one of before, a tick longer.
Older(f, g) ==
  /\ g = [i \in 0..Window-1 |-> IF i = 0 THEN 0 ELSE f[i-1]]
  /\ \A k \in 0..Window-1 : InLast(g, k + 1) = InLast(f, k)
  /\ InLast(g, Window) = InLast(f, Window) - f[Window-1]
  /\ InLast(f, Window) \in Nat /\ InLast(f, Window-1) \in Nat /\ f[Window-1] \in Nat

LEMMA Ages ==
  ASSUME NEW f \in [0..Window-1 -> Nat]
  PROVE  \E g \in [0..Window-1 -> Nat] : Older(f, g)
<1> USE LimitAssumption
<1>1. PICK g : g = [i \in 0..Window-1 |-> IF i = 0 THEN 0 ELSE f[i-1]]
  OBVIOUS
<1>2. g \in [0..Window-1 -> Nat]
  <2>1. \A i \in 0..Window-1 : i # 0 => i - 1 \in 0..Window-1
    OBVIOUS
  <2>2. QED BY <1>1, <2>1
<1>3. \A k \in 0..Window-1 : InLast(g, k + 1) = InLast(f, k)
  BY <1>1, HistoryShifts
<1>4. PICK k \in 0..Window-1 : k = Window - 1
  OBVIOUS
<1>5. k + 1 = Window /\ k \in 0..Window /\ Window \in 0..Window
  BY <1>4
<1>6. InLast(g, k + 1) = InLast(f, k)
  BY <1>3
<1>7. InLast(f, k) \in Nat /\ InLast(f, Window) \in Nat /\ f[k] \in Nat
  BY <1>5, HistoryFacts
<1>8. InLast(f, Window) = f[Window-1] + InLast(f, Window-1)
  BY HistoryDrops
<1>9. InLast(g, Window) = InLast(f, Window) - f[Window-1]
  BY <1>4, <1>5, <1>6, <1>7, <1>8
<1>10. QED BY <1>1, <1>2, <1>3, <1>4, <1>7, <1>9 DEF Older

LEMMA TickKeeps ==
  ASSUME LimitInv, Limit!Tick
  PROVE  LimitInv'
<1> USE LimitAssumption
<1>1. PICK f \in [0..Window-1 -> Nat], u \in [0..Window-1 -> Nat] : LimitSays(f, u)
  BY LimitFacts
<1>2. PICK g \in [0..Window-1 -> Nat] : Older(f, g)
  BY Ages
<1>3. PICK v \in [0..Window-1 -> Nat] : Older(u, v)
  BY Ages
<1>4. /\ passed' = g /\ unchecked' = v
      /\ count' = IF ttl = 1 THEN 0 ELSE count
      /\ ttl' = IF ttl = 1 \/ ttl = Window + 1 THEN Window + 1 ELSE ttl - 1
      /\ Expiring' = Expiring
  BY <1>1, <1>2, <1>3 DEF LimitSays, Older, Limit!Tick, Limit!Aged, Limit!NoTTL
<1>5. /\ count \in 0..MaxRequests + 1 /\ count \in Nat /\ MaxRequests \in Nat
      /\ ttl \in 1..Window + 1 /\ (ttl # Window + 1 => count > 0)
      /\ (Expiring => count > 0 /\ ttl = Window + 1)
  BY <1>1 DEF LimitSays
<1>6. Least(count, MaxRequests) \in Nat /\ Least(count, MaxRequests) <= MaxRequests
  BY <1>5, LeastFacts
<1>7. /\ \A k \in 0..Window-1 : InLast(g, k + 1) = InLast(f, k) /\ InLast(v, k + 1) = InLast(u, k)
      /\ \A k \in 0..Window : InLast(f, k) \in Nat /\ InLast(u, k) \in Nat
  BY <1>1, <1>2, <1>3 DEF LimitSays, Older
<1>8. InLast(g, Window) <= MaxRequests - 1 + Least(count', MaxRequests) + InLast(v, Window)
  <2>1. CASE ttl = 1
    <3>1. PICK k \in 0..Window-1 : k = Window - 1 /\ k + 1 = Window /\ k \in 0..Window
      OBVIOUS
    <3>2. InLast(g, Window) = InLast(f, k) /\ InLast(v, Window) = InLast(u, k)
      BY <1>7, <3>1
    <3>3. InLast(f, k) + 1 <= Least(count, MaxRequests) + InLast(u, k)
      <4>1. ttl # Window + 1 /\ Window - ttl = k
        BY <2>1, <3>1
      <4>2. QED BY <1>1, <4>1 DEF LimitSays
    <3>4. InLast(f, k) \in Nat /\ InLast(u, k) \in Nat
      BY <1>7, <3>1
    <3>5. Least(count', MaxRequests) = 0
      <4>1. count' = 0 /\ 0 <= MaxRequests
        BY <1>4, <1>5, <2>1
      <4>2. QED BY <4>1 DEF Least
    <3>6. MaxRequests \in Nat
      OBVIOUS
    <3>7. InLast(f, k) <= MaxRequests - 1 + InLast(u, k)
      BY SMTT(40), <1>6, <3>3, <3>4, <3>6
    <3>8. MaxRequests - 1 + Least(count', MaxRequests) = MaxRequests - 1
      BY <3>5, <3>6
    <3>9. QED BY <3>2, <3>7, <3>8
  <2>2. CASE ttl # 1
    <3>1. u[Window-1] <= f[Window-1]
      <4>1. Window - 1 \in 0..Window-1
        OBVIOUS
      <4>2. QED BY <1>1, <4>1 DEF LimitSays
    <3>2. /\ InLast(g, Window) = InLast(f, Window) - f[Window-1]
          /\ InLast(v, Window) = InLast(u, Window) - u[Window-1]
          /\ InLast(f, Window) \in Nat /\ f[Window-1] \in Nat
          /\ InLast(u, Window) \in Nat /\ u[Window-1] \in Nat
      BY <1>2, <1>3 DEF Older
    <3>3. InLast(f, Window) <= MaxRequests - 1 + Least(count, MaxRequests) + InLast(u, Window)
      BY <1>1 DEF LimitSays
    <3>4. count' = count
      BY <1>4, <2>2
    <3>5. QED BY <1>5, <1>6, <3>1, <3>2, <3>3, <3>4
  <2>3. QED BY <2>1, <2>2
<1>9. ttl' # Window + 1 =>
        InLast(g, Window - ttl') + 1 <= Least(count', MaxRequests) + InLast(v, Window - ttl')
  <2>1. SUFFICES ASSUME ttl' # Window + 1
                 PROVE  InLast(g, Window - ttl') + 1
                          <= Least(count', MaxRequests) + InLast(v, Window - ttl')
    OBVIOUS
  <2>2. ttl # 1 /\ ttl # Window + 1 /\ count' = count /\ ttl' = ttl - 1
    BY <1>4, <2>1
  <2>3. PICK k \in 0..Window-1 : k = Window - ttl /\ Window - ttl' = k + 1
    BY <1>5, <2>2
  <2>4. InLast(g, k + 1) = InLast(f, k) /\ InLast(v, k + 1) = InLast(u, k)
    BY <1>7
  <2>5. InLast(f, k) + 1 <= Least(count, MaxRequests) + InLast(u, k)
    BY <1>1, <2>2, <2>3 DEF LimitSays
  <2>6. QED BY <2>2, <2>3, <2>4, <2>5
<1>10. \A i \in 0..Window-1 : v[i] <= g[i]
  <2>1. SUFFICES ASSUME NEW i \in 0..Window-1 PROVE v[i] <= g[i]
    OBVIOUS
  <2>2. CASE i = 0
    <3>1. v[i] = 0 /\ g[i] = 0
      BY <1>2, <1>3, <2>2 DEF Older
    <3>2. QED BY <3>1
  <2>3. CASE i # 0
    <3>1. PICK j \in 0..Window-1 : j = i - 1
      BY <2>3
    <3>2. v[i] = u[j] /\ g[i] = f[j]
      BY <1>2, <1>3, <2>3, <3>1 DEF Older
    <3>3. u[j] <= f[j]
      BY <1>1 DEF LimitSays
    <3>4. QED BY <3>2, <3>3
  <2>4. QED BY <2>2, <2>3
<1>11. WindowInv'
  BY <1>4, <1>8, <1>9 DEF WindowInv
<1>12. LimitShape'
  <2>1. count' \in 0..MaxRequests + 1 /\ ttl' \in 1..Window + 1
    BY <1>4, <1>5
  <2>2. ttl' # Window + 1 => count' > 0
    BY <1>4, <1>5
  <2>3. Expiring' => count' > 0 /\ ttl' = Window + 1
    BY <1>4, <1>5
  <2>4. QED BY <1>4, <1>10, <2>1, <2>2, <2>3 DEF LimitShape
<1>13. Limit!TypeOK'
  BY <1>12, LimitTypes, PTL
<1>14. QED BY <1>11, <1>13 DEF LimitInv

LEMMA LimitStutters ==
  ASSUME LimitInv, UNCHANGED limiter, Expiring' => Expiring
  PROVE  LimitInv'
<1>1. count' = count /\ ttl' = ttl /\ passed' = passed /\ unchecked' = unchecked
  BY DEF limiter
<1>2. WindowInv'
  BY <1>1 DEF LimitInv, WindowInv
<1>3. Limit!TypeOK'
  <2>1. LimitShape'
    BY <1>1, LimitTypes DEF LimitInv, LimitShape
  <2>2. QED BY <2>1, LimitTypes, PTL
<1>4. QED BY <1>2, <1>3 DEF LimitInv

-------------------------------------------------------------------------------
(* The idempotency middleware.                                             *)

\* The requests that the handler is at work for.
Active == {"run", "run_uncached"}
RunningIn(p) == {r \in Requests : p[r] \in Active}

\* What pays for an effect that a look-up allowed: a request of a tenant is
\* charged while it runs on an empty look-up and until its response is stored, and
\* from then on every request of the tenant is, since none will run again so.
ChargedIn(s, p, l) ==
  {c \in Tenants \X Requests :
     s[c[1]] # "none" \/ (p[c[2]] \in {"run", "store"} /\ l[c[2]] = c[1])}

OnceInv ==
  /\ stored \in [Tenants -> Once!Bodies \cup {"none"}]
  /\ pc \in [Requests -> Once!Pcs]
  /\ attempts \in 0..MaxAttempts /\ done \in [Tenants -> Nat] /\ misfires \in Nat
  /\ SumFunction(done) + Cardinality(RunningIn(pc)) <= attempts
  /\ SumFunction(done) + Cardinality(RunningIn(pc))
       <= Cardinality(ChargedIn(stored, pc, locals)) + misfires
  /\ \A r \in Requests : pc[r] = "store" => done[locals[r]] > 0
  /\ \A t \in Tenants : stored[t] # "none" => t <= issued
  /\ \A t \in Tenants : stored[t] \in Once!Decodable => done[t] > 0

\* The shape of the chain, as in TypeOK: a valid token is one that was issued.
ChainShape ==
  /\ issued \in 0..MaxTokens /\ valid \in BOOLEAN /\ (valid => issued > 0)
  /\ gate \in [Requests -> {"out", "expire", "in"}]
  /\ locals \in [Requests -> 0..issued]
  /\ \A r \in Requests :
       /\ pc[r] # "idle" => gate[r] = "in"
       /\ gate[r] = "out" <=> locals[r] = Nobody

\* The inductive invariant.
IInv == LimitInv /\ OnceInv /\ ChainShape

LEMMA TenantsFinite == IsFiniteSet(Tenants) /\ Cardinality(Tenants) = MaxTokens
<1>1. 1 \in Int /\ MaxTokens \in Int
  BY BoundAssumption
<1>2. QED BY <1>1, FS_Interval, BoundAssumption DEF Tenants

LEMMA OnceSum ==
  ASSUME NEW f \in [Tenants -> Nat]
  PROVE  Once!SumFunction(f) = SumFunction(f) /\ SumFunction(f) \in Nat
<1>1. Once!SumFunction(f) = SumFunction(f)
  BY DEF Once!SumFunction, Once!SumFunctionOnSet, Once!FoldFunctionOnSet, Once!MapThenFoldSet,
         SumFunction, SumFunctionOnSet, FoldFunctionOnSet, MapThenFoldSet
<1>2. IsFiniteSet(DOMAIN f) /\ \A t \in DOMAIN f : f[t] \in Nat
  BY TenantsFinite
<1>3. QED BY <1>1, <1>2, SumIsSize

LEMMA RunningFinite ==
  ASSUME NEW p
  PROVE  IsFiniteSet(RunningIn(p)) /\ Cardinality(RunningIn(p)) \in Nat
BY FiniteAssumption, FS_Subset, FS_CardinalityType DEF RunningIn

\* A request begins its work, or ends it, or neither.
LEMMA RunningMoves ==
  ASSUME NEW p, NEW q, NEW r \in Requests, \A o \in Requests \ {r} : q[o] = p[o]
  PROVE  Cardinality(RunningIn(q)) =
           CASE p[r] \notin Active /\ q[r] \in Active -> Cardinality(RunningIn(p)) + 1
             [] p[r] \in Active /\ q[r] \notin Active -> Cardinality(RunningIn(p)) - 1
             [] OTHER                                 -> Cardinality(RunningIn(p))
<1>1. IsFiniteSet(RunningIn(p))
  BY RunningFinite
<1>2. ASSUME p[r] \notin Active, q[r] \in Active
      PROVE  Cardinality(RunningIn(q)) = Cardinality(RunningIn(p)) + 1
  <2>1. RunningIn(q) = RunningIn(p) \cup {r} /\ r \notin RunningIn(p)
    BY <1>2 DEF RunningIn
  <2>2. QED BY <1>1, <2>1, FS_AddElement
<1>3. ASSUME p[r] \in Active, q[r] \notin Active
      PROVE  Cardinality(RunningIn(q)) = Cardinality(RunningIn(p)) - 1
  <2>1. RunningIn(q) = RunningIn(p) \ {r} /\ r \in RunningIn(p)
    BY <1>3 DEF RunningIn
  <2>2. QED BY <1>1, <2>1, FS_RemoveElement
<1>4. ASSUME p[r] \in Active <=> q[r] \in Active
      PROVE  Cardinality(RunningIn(q)) = Cardinality(RunningIn(p))
  <2>1. RunningIn(q) = RunningIn(p)
    BY <1>4 DEF RunningIn
  <2>2. QED BY <2>1
<1>5. QED BY <1>2, <1>3, <1>4

LEMMA ChargedFinite ==
  ASSUME NEW s, NEW p, NEW l
  PROVE  IsFiniteSet(ChargedIn(s, p, l)) /\ Cardinality(ChargedIn(s, p, l)) \in Nat
<1>1. IsFiniteSet(Tenants \X Requests)
  BY TenantsFinite, FiniteAssumption, FS_Product
<1>2. IsFiniteSet(ChargedIn(s, p, l))
  BY <1>1, FS_Subset DEF ChargedIn
<1>3. QED BY <1>2, FS_CardinalityType

\* A change that takes at most one element away.
LEMMA LosesOne ==
  ASSUME NEW S, NEW T, NEW c, IsFiniteSet(S), IsFiniteSet(T), S \ {c} \subseteq T
  PROVE  Cardinality(S) <= Cardinality(T) + 1
<1>1. IsFiniteSet(S \ {c}) /\ Cardinality(S \ {c}) \in Nat
  BY FS_RemoveElement, FS_CardinalityType
<1>2. Cardinality(S \ {c}) = IF c \in S THEN Cardinality(S) - 1 ELSE Cardinality(S)
  BY FS_RemoveElement
<1>3. Cardinality(S \ {c}) <= Cardinality(T) /\ Cardinality(T) \in Nat /\ Cardinality(S) \in Nat
  BY FS_Subset, FS_CardinalityType
<1>4. QED BY <1>1, <1>2, <1>3

\* The counts in Idempotency are these ones.
LEMMA HandlerCounts ==
  ASSUME OnceInv
  PROVE  Once!Effects + Once!InHandler = SumFunction(done) + Cardinality(RunningIn(pc))
<1>1. Once!Effects = SumFunction(done)
  BY OnceSum DEF OnceInv, Once!Effects
<1>2. Once!Cardinality(RunningIn(pc)) = Cardinality(RunningIn(pc))
  BY DEF Once!Cardinality, Cardinality
<1>3. Once!InHandler = Once!Cardinality(RunningIn(pc))
  BY DEF Once!InHandler, Once!Running, RunningIn, Active
<1>4. QED BY <1>1, <1>2, <1>3

LEMMA TypesHold == IInv => TypeOK
<1> SUFFICES ASSUME IInv PROVE TypeOK
  OBVIOUS
<1>1. Once!Effects + Once!InHandler = SumFunction(done) + Cardinality(RunningIn(pc))
  BY HandlerCounts DEF IInv
<1>2. Once!TypeOK
  BY <1>1 DEF IInv, OnceInv, Once!TypeOK
<1>3. QED BY <1>2 DEF IInv, LimitInv, ChainShape, TypeOK, At

\* A step of the middleware concerns a tenant with a token, and one request.
LEMMA OnceBooks ==
  ASSUME OnceInv, ChainShape, NEW r \in Requests, At(r, "in"), NEW x \in Once!Pcs,
         pc' = [pc EXCEPT ![r] = x],
         locals' = IF x = "idle" THEN [locals EXCEPT ![r] = Nobody] ELSE locals
  PROVE  /\ pc' \in [Requests -> Once!Pcs] /\ pc'[r] = x
         /\ \A o \in Requests \ {r} : pc'[o] = pc[o] /\ locals'[o] = locals[o]
         /\ x # "idle" => locals'[r] = locals[r]
         /\ locals[r] \in Tenants /\ locals[r] <= issued
         /\ SumFunction(done) \in Nat
         /\ Cardinality(RunningIn(pc)) \in Nat /\ Cardinality(RunningIn(pc')) \in Nat
         /\ Cardinality(ChargedIn(stored, pc, locals)) \in Nat
         /\ Cardinality(ChargedIn(stored', pc', locals')) \in Nat
<1>1. locals \in [Requests -> 0..issued] /\ locals[r] # 0 /\ issued \in 0..MaxTokens
  BY DEF ChainShape, At, Nobody
<1>2. locals[r] \in Tenants /\ locals[r] <= issued
  BY <1>1, BoundAssumption DEF Tenants
<1>3. pc \in [Requests -> Once!Pcs] /\ done \in [Tenants -> Nat]
  BY DEF OnceInv
<1>4. /\ pc' \in [Requests -> Once!Pcs] /\ pc'[r] = x
      /\ \A o \in Requests \ {r} : pc'[o] = pc[o] /\ locals'[o] = locals[o]
      /\ x # "idle" => locals'[r] = locals[r]
  BY <1>1, <1>3
<1>5. QED BY <1>2, <1>3, <1>4, OnceSum, RunningFinite, ChargedFinite

\* A step of the middleware or of the handler keeps the books.
LEMMA WorkKeeps ==
  ASSUME OnceInv, ChainShape, NEW r \in Requests, At(r, "in"), Once!Work(r), issued' = issued,
         locals' = IF pc'[r] = "idle" THEN [locals EXCEPT ![r] = Nobody] ELSE locals
  PROVE  OnceInv' /\ \E x \in Once!Pcs : pc' = [pc EXCEPT ![r] = x]
<1>1. PICK x \in Once!Pcs : pc' = [pc EXCEPT ![r] = x]
  <2>1. pc \in [Requests -> Once!Pcs]
    BY DEF OnceInv
  <2>2. \E x \in Once!Pcs : pc' = [pc EXCEPT ![r] = x]
    <3>1. CASE Once!Replay(r)
      <4>1. pc' = [pc EXCEPT ![r] = pc[r]]
        BY <2>1, <3>1 DEF Once!Replay
      <4>2. QED BY <2>1, <4>1
    <3>2. CASE ~Once!Replay(r)
      BY <3>2 DEF Once!Work, Once!Miss, Once!Blank, Once!FailOpen, Once!Refuse, Once!FailLate,
                  Once!Raise, Once!Succeed, Once!Store, Once!Cut, Once!Goto, Once!Pcs
    <3>3. QED BY <3>1, <3>2
  <2>3. QED BY <2>2
<1>2. /\ stored \in [Tenants -> Once!Bodies \cup {"none"}]
      /\ pc \in [Requests -> Once!Pcs]
      /\ attempts \in 0..MaxAttempts /\ done \in [Tenants -> Nat] /\ misfires \in Nat
      /\ SumFunction(done) + Cardinality(RunningIn(pc)) <= attempts
      /\ SumFunction(done) + Cardinality(RunningIn(pc))
           <= Cardinality(ChargedIn(stored, pc, locals)) + misfires
      /\ \A o \in Requests : pc[o] = "store" => done[locals[o]] > 0
      /\ \A t \in Tenants : stored[t] # "none" => t <= issued
      /\ \A t \in Tenants : stored[t] \in Once!Decodable => done[t] > 0
  BY DEF OnceInv
<1>3. locals' = IF x = "idle" THEN [locals EXCEPT ![r] = Nobody] ELSE locals
  BY <1>1, <1>2
<1>4. /\ pc' \in [Requests -> Once!Pcs] /\ pc'[r] = x
      /\ \A o \in Requests \ {r} : pc'[o] = pc[o] /\ locals'[o] = locals[o]
      /\ x # "idle" => locals'[r] = locals[r]
      /\ locals[r] \in Tenants /\ locals[r] <= issued
      /\ SumFunction(done) \in Nat
      /\ Cardinality(RunningIn(pc)) \in Nat /\ Cardinality(RunningIn(pc')) \in Nat
      /\ Cardinality(ChargedIn(stored, pc, locals)) \in Nat
      /\ Cardinality(ChargedIn(stored', pc', locals')) \in Nat
  BY <1>1, <1>3, OnceBooks
<1>5. /\ IsFiniteSet(ChargedIn(stored, pc, locals))
      /\ IsFiniteSet(ChargedIn(stored', pc', locals'))
  BY ChargedFinite
<1>6. Cardinality(RunningIn(pc')) =
        CASE pc[r] \notin Active /\ x \in Active -> Cardinality(RunningIn(pc)) + 1
          [] pc[r] \in Active /\ x \notin Active -> Cardinality(RunningIn(pc)) - 1
          [] OTHER                               -> Cardinality(RunningIn(pc))
  BY <1>4, RunningMoves
<1>7. pc[r] \in Once!Pcs /\ Once!Pcs = {"idle", "run", "run_uncached", "store", "store_empty"}
  BY <1>2 DEF Once!Pcs
\* Charges are not given up, but for the one of r when it does not go on to "store".
<1>8. ASSUME \A t \in Tenants : stored[t] # "none" => stored'[t] # "none",
             x \notin {"run", "store"}, stored'[locals[r]] = stored[locals[r]]
      PROVE  Cardinality(ChargedIn(stored, pc, locals)) <= Cardinality(ChargedIn(stored', pc', locals')) + 1
  <2>1. ChargedIn(stored, pc, locals) \ {<<locals[r], r>>} \subseteq ChargedIn(stored', pc', locals')
    BY <1>4, <1>8 DEF ChargedIn
  <2>2. QED BY <1>5, <2>1, LosesOne
<1>9. ASSUME \A t \in Tenants : stored[t] # "none" => stored'[t] # "none",
             pc[r] \in {"run", "store"} => x \in {"run", "store"} \/ stored'[locals[r]] # "none"
      PROVE  Cardinality(ChargedIn(stored, pc, locals)) <= Cardinality(ChargedIn(stored', pc', locals'))
  <2>1. ChargedIn(stored, pc, locals) \subseteq ChargedIn(stored', pc', locals')
    BY <1>4, <1>9 DEF ChargedIn
  <2>2. QED BY <1>5, <2>1, FS_Subset
<1>10. CASE Once!Miss(r)
  <2>1. /\ pc[r] = "idle" /\ attempts < MaxAttempts /\ attempts' = attempts + 1
        /\ stored[locals[r]] = "none" /\ x = "run"
        /\ stored' = stored /\ done' = done /\ misfires' = misfires
    BY <1>1, <1>4, <1>10 DEF Once!Miss, Once!Arrive, Once!At, Once!Cached, Once!Goto
  <2>2. ChargedIn(stored, pc, locals) \cup {<<locals[r], r>>} = ChargedIn(stored', pc', locals')
        /\ <<locals[r], r>> \notin ChargedIn(stored, pc, locals)
    BY <1>4, <2>1 DEF ChargedIn
  <2>3. Cardinality(ChargedIn(stored', pc', locals')) = Cardinality(ChargedIn(stored, pc, locals)) + 1
    BY <1>5, <2>2, FS_AddElement
  <2>4. Cardinality(RunningIn(pc')) = Cardinality(RunningIn(pc)) + 1
    BY <1>6, <2>1 DEF Active
  <2>5. \A o \in Requests : pc'[o] = "store" => done'[locals'[o]] > 0
    BY <1>2, <1>4, <2>1
  <2>6. attempts' \in 0..MaxAttempts
    BY <1>2, <2>1, BoundAssumption
  <2>7. QED BY <1>2, <1>4, <2>1, <2>3, <2>4, <2>5, <2>6 DEF OnceInv
<1>11. CASE Once!Replay(r)
  <2>1. /\ pc[r] = "idle" /\ attempts < MaxAttempts /\ attempts' = attempts + 1
        /\ pc' = pc /\ stored' = stored /\ done' = done /\ misfires' = misfires
    BY <1>11 DEF Once!Replay, Once!Arrive, Once!At
  <2>2. Cardinality(ChargedIn(stored, pc, locals)) <= Cardinality(ChargedIn(stored', pc', locals'))
    BY <1>9, <2>1
  <2>3. \A o \in Requests : pc'[o] = "store" => done'[locals'[o]] > 0
    BY <1>2, <1>4, <2>1
  <2>4. attempts' \in 0..MaxAttempts
    BY <1>2, <2>1, BoundAssumption
  <2>5. QED BY <1>2, <1>4, <2>1, <2>2, <2>3, <2>4 DEF OnceInv
<1>12. CASE Once!Blank(r) \/ Once!FailOpen(r)
  <2>1. /\ pc[r] = "idle" /\ attempts < MaxAttempts /\ attempts' = attempts + 1
        /\ x \in {"run", "run_uncached"}
        /\ stored' = stored /\ done' = done /\ misfires' = misfires + 1
    BY <1>1, <1>4, <1>12 DEF Once!Blank, Once!FailOpen, Once!Arrive, Once!At, Once!Goto
  <2>2. Cardinality(ChargedIn(stored, pc, locals)) <= Cardinality(ChargedIn(stored', pc', locals'))
    BY <1>9, <2>1
  <2>3. Cardinality(RunningIn(pc')) = Cardinality(RunningIn(pc)) + 1
    BY <1>6, <2>1 DEF Active
  <2>4. \A o \in Requests : pc'[o] = "store" => done'[locals'[o]] > 0
    BY <1>2, <1>4, <2>1
  <2>5. attempts' \in 0..MaxAttempts
    BY <1>2, <2>1, BoundAssumption
  <2>6. QED BY <1>2, <1>4, <2>1, <2>2, <2>3, <2>4, <2>5 DEF OnceInv
<1>13. CASE Once!Refuse(r) \/ Once!Raise(r)
  <2>1. /\ pc[r] \in {"run", "run_uncached"} /\ x \in {"idle", "store_empty"}
        /\ stored' = stored /\ done' = done /\ misfires' = misfires /\ attempts' = attempts
    BY <1>1, <1>4, <1>13 DEF Once!Refuse, Once!Raise, Once!Running, Once!At, Once!Goto
  <2>2. Cardinality(ChargedIn(stored, pc, locals)) <= Cardinality(ChargedIn(stored', pc', locals')) + 1
    BY <1>8, <2>1
  <2>3. Cardinality(RunningIn(pc')) = Cardinality(RunningIn(pc)) - 1
    BY <1>6, <2>1 DEF Active
  <2>4. \A o \in Requests : pc'[o] = "store" => done'[locals'[o]] > 0
    BY <1>2, <1>4, <2>1
  <2>5. QED BY <1>2, <1>4, <2>1, <2>2, <2>3, <2>4 DEF OnceInv
<1>14. CASE Once!Succeed(r) \/ Once!FailLate(r)
  <2>1. /\ pc[r] \in {"run", "run_uncached"} /\ x \in {"store", "idle"}
        /\ stored' = stored /\ attempts' = attempts
        /\ done' = [done EXCEPT ![locals[r]] = done[locals[r]] + 1]
    BY <1>1, <1>4, <1>14 DEF Once!Succeed, Once!FailLate, Once!TakeEffect, Once!Running, Once!At, Once!Goto
\* Either the charge of r is kept, or its effect is not remembered.
  <2>2. /\ misfires' \in Nat
        /\ Cardinality(ChargedIn(stored, pc, locals)) + misfires
             <= Cardinality(ChargedIn(stored', pc', locals')) + misfires'
    <3>1. CASE x = "idle" /\ pc[r] = "run" /\ stored[locals[r]] = "none"
      <4>1. misfires' = misfires + 1
        BY <1>1, <1>4, <1>14, <3>1
           DEF Once!Succeed, Once!FailLate, Once!Forgets, Once!Cached, Once!At, Once!Goto
      <4>2. Cardinality(ChargedIn(stored, pc, locals)) <= Cardinality(ChargedIn(stored', pc', locals')) + 1
        BY <1>8, <2>1, <3>1
      <4>3. QED BY <1>2, <1>4, <4>1, <4>2
    <3>2. CASE ~(x = "idle" /\ pc[r] = "run" /\ stored[locals[r]] = "none")
      <4>1. misfires' = misfires
        BY <1>1, <1>4, <1>14, <3>2
           DEF Once!Succeed, Once!FailLate, Once!Forgets, Once!Cached, Once!At, Once!Goto
      <4>2. Cardinality(ChargedIn(stored, pc, locals)) <= Cardinality(ChargedIn(stored', pc', locals'))
        BY <1>9, <2>1, <3>2
      <4>3. QED BY <1>2, <1>4, <4>1, <4>2
    <3>3. QED BY <3>1, <3>2
  <2>3. Cardinality(RunningIn(pc')) = Cardinality(RunningIn(pc)) - 1
    BY <1>6, <2>1 DEF Active
  <2>4. SumFunction(done') = SumFunction(done) + 1
    BY <1>2, <1>4, <2>1, TenantsFinite, SumIncrement
  <2>5. /\ done' \in [Tenants -> Nat] /\ done'[locals[r]] > 0
        /\ \A t \in Tenants : done'[t] >= done[t]
    BY <1>2, <1>4, <2>1
  <2>6. \A o \in Requests : locals[o] \in Tenants \cup {0}
    BY BoundAssumption DEF ChainShape, Tenants
  <2>7. \A o \in Requests : pc'[o] = "store" => done'[locals'[o]] > 0
    <3>1. SUFFICES ASSUME NEW o \in Requests, pc'[o] = "store" PROVE done'[locals'[o]] > 0
      OBVIOUS
    <3>2. CASE o = r
      BY <1>4, <2>1, <2>5, <3>1, <3>2
    <3>3. CASE o # r
      <4>1. pc[o] = "store" /\ locals'[o] = locals[o]
        BY <1>4, <3>1, <3>3
      <4>2. locals[o] \in Tenants
        BY <2>6, <4>1 DEF ChainShape, Nobody
      <4>3. done[locals[o]] > 0 /\ done'[locals[o]] >= done[locals[o]]
        BY <1>2, <2>5, <4>1, <4>2
      <4>4. QED BY <1>2, <2>5, <4>1, <4>2, <4>3
    <3>4. QED BY <3>2, <3>3
  <2>8. \A t \in Tenants : stored'[t] \in Once!Decodable => done'[t] > 0
    BY <1>2, <2>1, <2>5
  <2>9. QED BY <1>2, <1>4, <2>1, <2>2, <2>3, <2>4, <2>5, <2>7, <2>8 DEF OnceInv
<1>15. CASE Once!Store(r)
  <2>1. /\ pc[r] \in {"store", "store_empty"} /\ x = "idle"
        /\ misfires' = misfires /\ attempts' = attempts /\ done' = done
        /\ \E body \in Once!Bodies :
             /\ stored' = [stored EXCEPT ![locals[r]] = body]
             /\ body # "opaque" => pc[r] = "store"
    BY <1>1, <1>4, <1>15 DEF Once!Store, Once!Stores, Once!At, Once!Goto
  <2>2. PICK body \in Once!Bodies :
             /\ stored' = [stored EXCEPT ![locals[r]] = body]
             /\ body # "opaque" => pc[r] = "store"
    BY <2>1
  <2>3. /\ stored' \in [Tenants -> Once!Bodies \cup {"none"}]
        /\ stored'[locals[r]] = body /\ body # "none"
        /\ \A t \in Tenants \ {locals[r]} : stored'[t] = stored[t]
    BY <1>2, <1>4, <2>2 DEF Once!Bodies, Once!Decodable
  <2>4. Cardinality(ChargedIn(stored, pc, locals)) <= Cardinality(ChargedIn(stored', pc', locals'))
    BY <1>9, <2>3
  <2>5. Cardinality(RunningIn(pc')) = Cardinality(RunningIn(pc))
    BY <1>6, <2>1 DEF Active
  <2>6. \A o \in Requests : pc'[o] = "store" => done'[locals'[o]] > 0
    BY <1>2, <1>4, <2>1
  <2>7. \A t \in Tenants : stored'[t] # "none" => t <= issued
    BY <1>2, <1>4, <2>3
  <2>8. \A t \in Tenants : stored'[t] \in Once!Decodable => done'[t] > 0
    <3>1. body \in Once!Decodable => done[locals[r]] > 0
      BY <1>2, <1>4, <2>2 DEF Once!Decodable
    <3>2. QED BY <1>2, <1>4, <2>1, <2>3, <3>1
  <2>9. QED BY <1>2, <1>4, <2>1, <2>3, <2>4, <2>5, <2>6, <2>7, <2>8 DEF OnceInv
<1>16. CASE Once!Cut(r)
  <2>1. /\ pc[r] # "idle" /\ x = "idle"
        /\ stored' = stored /\ attempts' = attempts /\ done' = done
        /\ misfires' = IF pc[r] = "store" /\ stored[locals[r]] = "none" THEN misfires + 1 ELSE misfires
    BY <1>1, <1>4, <1>16 DEF Once!Cut, Once!Forgets, Once!Cached, Once!At, Once!Goto
  <2>2. Cardinality(ChargedIn(stored, pc, locals)) <= Cardinality(ChargedIn(stored', pc', locals')) + 1
    BY <1>8, <2>1
  <2>3. pc[r] = "store_empty" \/ (pc[r] = "store" /\ stored[locals[r]] # "none") =>
          Cardinality(ChargedIn(stored, pc, locals)) <= Cardinality(ChargedIn(stored', pc', locals'))
    BY <1>9, <2>1
  <2>4. \A o \in Requests : pc'[o] = "store" => done'[locals'[o]] > 0
    BY <1>2, <1>4, <2>1
  <2>5. /\ Cardinality(RunningIn(pc')) <= Cardinality(RunningIn(pc))
        /\ pc[r] \in {"run", "run_uncached"} =>
             Cardinality(RunningIn(pc')) = Cardinality(RunningIn(pc)) - 1
    BY <1>4, <1>6, <1>7, <2>1 DEF Active
  <2>6. misfires' \in Nat
    BY <1>2, <2>1
  <2>7. SumFunction(done') + Cardinality(RunningIn(pc'))
          <= Cardinality(ChargedIn(stored', pc', locals')) + misfires'
    BY <1>2, <1>4, <1>7, <2>1, <2>2, <2>3, <2>5
  <2>8. SumFunction(done') + Cardinality(RunningIn(pc')) <= attempts'
    BY <1>2, <1>4, <2>1, <2>5
  <2>9. QED BY <1>2, <1>4, <2>1, <2>4, <2>6, <2>7, <2>8 DEF OnceInv
<1>17. OnceInv'
  BY <1>10, <1>11, <1>12, <1>13, <1>14, <1>15, <1>16 DEF Once!Work
<1>18. QED BY <1>1, <1>17

\* Steps of the rest of the chain leave the books alone: they move only requests
\* that have not reached the middleware.
LEMMA OnceRests ==
  ASSUME OnceInv, UNCHANGED idempotency, \A o \in Requests : pc[o] # "idle" => locals'[o] = locals[o],
         issued \in 0..MaxTokens, issued' \in {issued, issued + 1}
  PROVE  OnceInv'
<1>1. /\ stored' = stored /\ pc' = pc /\ attempts' = attempts
      /\ done' = done /\ misfires' = misfires
  BY DEF idempotency
<1>2. ChargedIn(stored, pc, locals') = ChargedIn(stored, pc, locals)
  BY DEF ChargedIn
<1>3. \A o \in Requests : pc[o] = "store" => done[locals'[o]] > 0
  BY DEF OnceInv
<1>4. \A t \in Tenants : stored[t] # "none" => t <= issued'
  <2>1. \A t \in Tenants : t \in Nat /\ MaxTokens \in Nat
    BY BoundAssumption DEF Tenants
  <2>2. QED BY <2>1 DEF OnceInv
<1>5. QED BY <1>1, <1>2, <1>3, <1>4 DEF OnceInv

LEMMA InitHolds == Init => IInv
<1> SUFFICES ASSUME Init PROVE IInv
  OBVIOUS
<1>1. /\ stored = [t \in Tenants |-> "none"] /\ pc = [r \in Requests |-> "idle"]
      /\ attempts = 0 /\ done = [t \in Tenants |-> 0] /\ misfires = 0
      /\ issued = 0 /\ valid = FALSE
      /\ gate = [r \in Requests |-> "out"] /\ locals = [r \in Requests |-> 0]
  BY DEF Init, Once!Init, Nobody
<1>2. SumFunction(done) = 0
  BY <1>1, TenantsFinite, SumZero
<1>3. Cardinality(RunningIn(pc)) = 0
  <2>1. RunningIn(pc) = {}
    BY <1>1 DEF RunningIn, Active
  <2>2. QED BY <2>1, FS_EmptySet
<1>4. Cardinality(ChargedIn(stored, pc, locals)) \in Nat
  BY ChargedFinite
<1>5. OnceInv
  BY <1>1, <1>2, <1>3, <1>4, BoundAssumption DEF OnceInv, Once!Pcs, Once!Bodies, Once!Decodable
<1>6. ChainShape
  <2>1. valid \in BOOLEAN /\ (valid => issued > 0)
    BY <1>1
  <2>2. QED BY <1>1, <2>1, BoundAssumption DEF ChainShape, Nobody
<1>7. QED BY <1>5, <1>6, LimitInit DEF IInv

LEMMA StepHolds == IInv /\ [Next]_vars => IInv'
<1> SUFFICES ASSUME IInv, [Next]_vars PROVE IInv'
  OBVIOUS
<1> USE DEF Nobody
<1>1. LimitInv /\ OnceInv /\ ChainShape
  BY DEF IInv
<1>2. /\ issued \in 0..MaxTokens /\ valid \in BOOLEAN /\ (valid => issued > 0)
      /\ gate \in [Requests -> {"out", "expire", "in"}]
      /\ locals \in [Requests -> 0..issued]
      /\ \A r \in Requests : pc[r] # "idle" => gate[r] = "in"
      /\ \A r \in Requests : gate[r] = "out" <=> locals[r] = 0
  BY <1>1 DEF ChainShape
<1>3. CASE Tick
  <2>1. /\ Limit!Tick /\ UNCHANGED idempotency /\ issued' = issued /\ valid' = valid
        /\ gate' = gate /\ locals' = locals /\ pc' = pc
    BY <1>3 DEF Tick, token, idempotency
  <2>2. LimitInv'
    BY <1>1, <2>1, TickKeeps
  <2>3. OnceInv'
    BY <1>1, <1>2, <2>1, OnceRests
  <2>4. ChainShape'
    BY <1>1, <2>1 DEF ChainShape
  <2>5. QED BY <2>2, <2>3, <2>4 DEF IInv
<1>4. CASE GenerateAccessToken \/ TokenExpires
  <2>1. /\ UNCHANGED limiter /\ UNCHANGED idempotency
        /\ gate' = gate /\ locals' = locals /\ pc' = pc
        /\ issued' \in {issued, issued + 1} /\ issued' \in 0..MaxTokens
        /\ valid' \in BOOLEAN /\ (valid' => issued' > 0)
    <3>1. UNCHANGED limiter /\ UNCHANGED idempotency /\ gate' = gate /\ locals' = locals /\ pc' = pc
      BY <1>4 DEF GenerateAccessToken, TokenExpires, idempotency
    <3>2. issued' \in {issued, issued + 1} /\ issued' \in 0..MaxTokens
      <4>1. (issued < MaxTokens /\ issued' = issued + 1) \/ issued' = issued
        BY <1>4 DEF GenerateAccessToken, TokenExpires
      <4>2. QED BY <1>2, <4>1, BoundAssumption
    <3>3. valid' \in BOOLEAN
      BY <1>4 DEF GenerateAccessToken, TokenExpires
    <3>4. valid' => issued' = issued + 1
      BY <1>4 DEF GenerateAccessToken, TokenExpires
    <3>5. QED BY <1>2, <3>1, <3>2, <3>3, <3>4
  <2>2. Expiring' => Expiring
    BY <2>1 DEF Expiring, At
  <2>3. LimitInv'
    BY <1>1, <2>1, <2>2, LimitStutters
  <2>4. OnceInv'
    BY <1>1, <1>2, <2>1, OnceRests
  <2>5. ChainShape'
    <3>1. locals \in [Requests -> 0..issued']
      BY <1>2, <2>1
    <3>2. QED BY <1>2, <2>1, <3>1 DEF ChainShape
  <2>6. QED BY <2>3, <2>4, <2>5 DEF IInv
\* RequireAuth: the request comes in, and no other is touched.
<1>5. ASSUME NEW r \in Requests, NEW g \in {"out", "expire", "in"}, RequireAuth(r, g),
             issued' = issued, valid' = valid, UNCHANGED idempotency
      PROVE  /\ OnceInv' /\ ChainShape'
             /\ gate' = [gate EXCEPT ![r] = g]
  <2>1. /\ gate[r] = "out" /\ valid /\ gate' = [gate EXCEPT ![r] = g]
        /\ locals' = IF g = "out" THEN locals ELSE [locals EXCEPT ![r] = issued]
    BY <1>5 DEF RequireAuth, At
  <2>2. pc[r] = "idle" /\ pc' = pc /\ locals[r] = 0 /\ issued > 0
    BY <1>2, <1>5, <2>1 DEF idempotency
  <2>3. \A o \in Requests : pc[o] # "idle" => locals'[o] = locals[o]
    BY <1>2, <2>1, <2>2
  <2>4. OnceInv'
    BY <1>1, <1>2, <1>5, <2>3, OnceRests
  <2>5. locals' \in [Requests -> 0..issued] /\ gate' \in [Requests -> {"out", "expire", "in"}]
    BY <1>2, <1>5, <2>1
  <2>6. /\ gate'[r] = g /\ (g = "out" <=> locals'[r] = 0)
        /\ \A o \in Requests \ {r} : gate'[o] = gate[o] /\ locals'[o] = locals[o]
    BY <1>2, <2>1, <2>2
  <2>7. ChainShape'
    BY <1>2, <1>5, <2>2, <2>5, <2>6 DEF ChainShape
  <2>8. QED BY <2>1, <2>4, <2>7
\* Move: a request that has not reached the middleware goes on or goes away.
<1>6. ASSUME NEW r \in Requests, NEW g \in {"out", "in"}, Move(r, g), gate[r] # "out", pc[r] = "idle",
             issued' = issued, valid' = valid, UNCHANGED idempotency
      PROVE  OnceInv' /\ ChainShape'
  <2>1. /\ gate' = [gate EXCEPT ![r] = g] /\ pc' = pc
        /\ locals' = IF g = "out" THEN [locals EXCEPT ![r] = 0] ELSE locals
    BY <1>6 DEF Move, idempotency
  <2>2. \A o \in Requests : pc[o] # "idle" => locals'[o] = locals[o]
    BY <1>2, <1>6, <2>1
  <2>3. OnceInv'
    BY <1>1, <1>2, <1>6, <2>2, OnceRests
  <2>4. locals' \in [Requests -> 0..issued] /\ gate' \in [Requests -> {"out", "expire", "in"}]
    BY <1>2, <1>6, <2>1
  <2>5. /\ gate'[r] = g /\ (g = "out" <=> locals'[r] = 0)
        /\ \A o \in Requests \ {r} : gate'[o] = gate[o] /\ locals'[o] = locals[o]
    BY <1>2, <1>6, <2>1
  <2>6. ChainShape'
    BY <1>2, <1>6, <2>1, <2>4, <2>5 DEF ChainShape
  <2>7. QED BY <2>3, <2>6
<1>7. ASSUME NEW r \in Requests, Count(r) PROVE IInv'
  <2>1. /\ Limit!Incr /\ UNCHANGED idempotency /\ issued' = issued /\ valid' = valid
    BY <1>7 DEF Count, token
  <2>2. PICK g \in {"out", "expire", "in"} : RequireAuth(r, g)
    BY <1>7 DEF Count
  <2>3. OnceInv' /\ ChainShape'
    BY <1>5, <2>1, <2>2
  <2>4. LimitInv'
    BY <1>1, <2>1, IncrKeeps
  <2>5. QED BY <2>3, <2>4 DEF IInv
<1>8. ASSUME NEW r \in Requests, CountFails(r) PROVE IInv'
  <2>1. /\ RequireAuth(r, "in") /\ Limit!IncrFails /\ UNCHANGED idempotency
        /\ issued' = issued /\ valid' = valid
    BY <1>8 DEF CountFails, token
  <2>2. OnceInv' /\ ChainShape'
    BY <1>5, <2>1
  <2>3. LimitInv'
    BY <1>1, <2>1, IncrFailsKeeps
  <2>4. QED BY <2>2, <2>3 DEF IInv
<1>9. ASSUME NEW r \in Requests, Expire(r) PROVE IInv'
  <2>1. /\ gate[r] = "expire" /\ Move(r, "in") /\ (Limit!Expire \/ Limit!ExpireLost)
        /\ UNCHANGED idempotency /\ issued' = issued /\ valid' = valid
    BY <1>9 DEF Expire, token, At
  <2>2. pc[r] = "idle"
    BY <1>2, <2>1
  <2>3. OnceInv' /\ ChainShape'
    BY <1>6, <2>1, <2>2
  <2>4. LimitInv'
    BY <1>1, <2>1, ExpireKeeps
  <2>5. QED BY <2>3, <2>4 DEF IInv
<1>10. ASSUME NEW r \in Requests, Serve(r) PROVE IInv'
  <2>1. /\ gate[r] = "in" /\ Once!Work(r) /\ UNCHANGED limiter /\ issued' = issued /\ valid' = valid
        /\ gate' = [gate EXCEPT ![r] = IF pc'[r] = "idle" THEN "out" ELSE "in"]
        /\ locals' = IF pc'[r] = "idle" THEN [locals EXCEPT ![r] = 0] ELSE locals
    BY <1>10 DEF Serve, Move, token, At
  <2>2. OnceInv' /\ \E x \in Once!Pcs : pc' = [pc EXCEPT ![r] = x]
    BY <1>1, <2>1, WorkKeeps DEF At
  <2>3. \A o \in Requests \ {r} : pc'[o] = pc[o] /\ gate'[o] = gate[o] /\ locals'[o] = locals[o]
    BY <1>1, <1>2, <2>1, <2>2 DEF OnceInv
  <2>4. /\ gate'[r] = (IF pc'[r] = "idle" THEN "out" ELSE "in")
        /\ locals'[r] = 0 <=> pc'[r] = "idle"
    BY <1>2, <2>1
  <2>5. locals' \in [Requests -> 0..issued] /\ gate' \in [Requests -> {"out", "expire", "in"}]
    BY <1>2, <2>1
  <2>6. ChainShape'
    BY <1>2, <2>1, <2>3, <2>4, <2>5 DEF ChainShape
  <2>7. Expiring' => Expiring
    BY <2>3, <2>4 DEF Expiring, At
  <2>8. LimitInv'
    BY <1>1, <2>1, <2>7, LimitStutters
  <2>9. QED BY <2>2, <2>6, <2>8 DEF IInv
<1>11. ASSUME NEW r \in Requests, CutOff(r) PROVE IInv'
  <2>1. /\ gate[r] # "out" /\ pc[r] = "idle" /\ Move(r, "out")
        /\ UNCHANGED idempotency /\ issued' = issued /\ valid' = valid
    BY <1>11 DEF CutOff, token, At
  <2>2. OnceInv' /\ ChainShape'
    BY <1>6, <2>1
  <2>3. CASE gate[r] = "expire"
    <3>1. Limit!ExpireLost
      BY <1>11, <2>3 DEF CutOff, At
    <3>2. LimitInv'
      BY <1>1, <3>1, ExpireKeeps
    <3>3. QED BY <2>2, <3>2 DEF IInv
  <2>4. CASE gate[r] # "expire"
    <3>1. UNCHANGED limiter
      BY <1>11, <2>4 DEF CutOff, At
    <3>2. gate' = [gate EXCEPT ![r] = "out"]
      BY <2>1 DEF Move
    <3>3. Expiring' => Expiring
      BY <1>2, <3>2 DEF Expiring, At
    <3>4. LimitInv'
      BY <1>1, <3>1, <3>3, LimitStutters
    <3>5. QED BY <2>2, <3>4 DEF IInv
  <2>5. QED BY <2>3, <2>4
<1>12. CASE UNCHANGED vars
  <2>1. /\ UNCHANGED limiter /\ UNCHANGED idempotency /\ issued' = issued /\ valid' = valid
        /\ gate' = gate /\ locals' = locals /\ pc' = pc
    BY <1>12 DEF vars, token, idempotency
  <2>2. Expiring' => Expiring
    BY <2>1 DEF Expiring, At
  <2>3. LimitInv'
    BY <1>1, <2>1, <2>2, LimitStutters
  <2>4. OnceInv'
    BY <1>1, <1>2, <2>1, OnceRests
  <2>5. ChainShape'
    BY <1>1, <2>1 DEF ChainShape
  <2>6. QED BY <2>3, <2>4, <2>5 DEF IInv
<1>13. QED BY <1>3, <1>4, <1>7, <1>8, <1>9, <1>10, <1>11, <1>12 DEF Next, Step

\* The invariant behind the theorems.
THEOREM Invariance == Spec => []IInv
BY InitHolds, StepHolds, PTL DEF Spec

\* The limiter, the idempotency middleware and the chain have their shape whatever
\* requests interleave: a request is in the middleware only after the limiter let it
\* pass, and no attempt takes effect twice.
THEOREM TypeCorrect == Spec => []TypeOK
BY Invariance, TypesHold, PTL

\* RateLimiter lets fewer than twice MaxRequests through in any stretch of a window,
\* whatever EXPIREs come late or are lost, and beside them only requests whose INCR had
\* an error, however many those are.
THEOREM TwoWindowsHold == Spec => []TwoWindows
<1>1. IInv => TwoWindows
  <2>1. SUFFICES ASSUME IInv PROVE TwoWindows
    OBVIOUS
  <2>2. PICK f \in [0..Window-1 -> Nat], u \in [0..Window-1 -> Nat] : LimitSays(f, u)
    BY <2>1, LimitFacts DEF IInv
  <2>3. Limit!PassedInWindow = InLast(f, Window) /\ Limit!UncheckedInWindow = InLast(u, Window)
    BY <2>2, WindowSum DEF Limit!PassedInWindow, Limit!UncheckedInWindow, LimitSays
  <2>4. InLast(f, Window) \in Nat /\ InLast(u, Window) \in Nat
    <3>1. Window \in 0..Window
      BY LimitAssumption
    <3>2. QED BY <3>1, HistoryFacts
  <2>5. Least(count, MaxRequests) \in Nat /\ Least(count, MaxRequests) <= MaxRequests
    BY <2>2, LimitAssumption DEF LimitSays, Least
  <2>6. InLast(f, Window) <= MaxRequests - 1 + Least(count, MaxRequests) + InLast(u, Window)
    BY <2>2 DEF LimitSays
  <2>7. QED BY <2>3, <2>4, <2>5, <2>6, LimitAssumption DEF TwoWindows
<1>2. QED BY <1>1, Invariance, PTL

\* Idempotency keeps a response that can be replayed only of a request that took
\* effect, for the tenant it took effect for.
THEOREM ReplaysAreEarned == Spec => []ReplayIsEarned
<1>1. IInv => ReplayIsEarned
  BY DEF IInv, OnceInv, ReplayIsEarned
<1>2. QED BY <1>1, Invariance, PTL

\* However retries, lost processes and Redis failures interleave, the handler takes
\* effect at most once for each request in flight and token, once for every look-up
\* that failed open or found a body that decodes to nothing, and once for every
\* effect that is not remembered, be it lost or answered with a failure.
THEOREM EffectsAreBounded == Spec => []EffectBound
<1>1. IInv => EffectBound
  <2>1. SUFFICES ASSUME IInv PROVE EffectBound
    OBVIOUS
  <2>2. PICK C : C = ChargedIn(stored, pc, locals)
    OBVIOUS
  <2>3. OnceInv /\ ChainShape /\ issued \in Nat /\ issued <= MaxTokens
    BY <2>1, BoundAssumption DEF IInv, ChainShape
  <2>4. C \subseteq (1..issued) \X Requests
    <3>1. SUFFICES ASSUME NEW c \in C PROVE c \in (1..issued) \X Requests
      OBVIOUS
    <3>2. PICK t \in Tenants, r \in Requests : c = <<t, r>>
      BY <2>2, <3>1 DEF ChargedIn
    <3>3. stored[t] # "none" \/ locals[r] = t
      BY <2>2, <3>1, <3>2 DEF ChargedIn
    <3>4. t \in 1..MaxTokens /\ MaxTokens \in Nat
      BY BoundAssumption DEF Tenants
    <3>5. t <= issued
      BY <2>3, <3>3, <3>4 DEF OnceInv, ChainShape
    <3>6. QED BY <2>3, <3>2, <3>4, <3>5
  <2>5. IsFiniteSet(1..issued) /\ Cardinality(1..issued) = issued
    <3>1. 1 \in Int /\ issued \in Int
      BY <2>3
    <3>2. QED BY <2>3, <3>1, FS_Interval
  <2>6. /\ IsFiniteSet((1..issued) \X Requests)
        /\ Cardinality((1..issued) \X Requests) = issued * Cardinality(Requests)
    BY <2>5, FiniteAssumption, FS_Product
  <2>7. Cardinality(C) <= issued * Cardinality(Requests) /\ Cardinality(C) \in Nat
    BY <2>4, <2>6, FS_Subset, FS_CardinalityType
  <2>8. Cardinality(Requests) \in Nat /\ issued * Cardinality(Requests) = Cardinality(Requests) * issued
    <3>1. Cardinality(Requests) \in Nat
      BY FiniteAssumption, FS_CardinalityType
    <3>2. QED BY <2>3, <3>1
  <2>9. Once!Effects + Once!InHandler <= Cardinality(C) + misfires /\ misfires \in Nat
    BY <2>2, <2>3, HandlerCounts DEF OnceInv
  <2>10. Once!Effects + Once!InHandler \in Nat
    BY <2>3, HandlerCounts, OnceSum, RunningFinite DEF OnceInv
  <2>11. Cardinality(Requests) * issued \in Nat
    BY <2>3, <2>8
  <2>12. QED BY <2>7, <2>8, <2>9, <2>10, <2>11 DEF EffectBound
<1>2. QED BY <1>1, Invariance, PTL
===============================================================================
