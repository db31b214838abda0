----------------------------- MODULE FiguresProofs -----------------------------
(***************************************************************************)
(* That the figures of the dashboard and the reports are exact, whatever   *)
(* the collections hold.  Sums are cardinalities (Counting), so what the   *)
(* library knows of finite sets tells how they split and agree; a proof by *)
(* induction takes the least counterexample (LeastNumber).                 *)
(***************************************************************************)
EXTENDS Figures, FiniteSetTheorems, FunctionTheorems, SequenceTheorems, WellFoundedInduction, TLAPS

-----------------------------------------------------------------------------
(* Numbers, finite sets and sums.                                          *)

\* A set of natural numbers that is not empty has a least element.
LEMMA LeastNumber ==
  ASSUME NEW T \in SUBSET Nat, T # {}
  PROVE  \E x \in T : \A y \in T : x <= y
<1> DEFINE R == {ss \in Nat \X Nat : ss[1] < ss[2]}
<1>1. IsWellFoundedOn(R, Nat)
  BY NatLessThanWellFounded DEF OpToRel
<1>2. PICK x \in T : \A y \in T : ~(<<y, x>> \in R)
  <2> HIDE DEF R
  <2> QED
    BY <1>1, WFMin
<1>3. \A y \in T : ~(y < x)
  BY <1>2
<1> QED
  BY <1>3

\* What a bijection is.
LEMMA BijectionIs ==
  ASSUME NEW S, NEW T, NEW f
  PROVE  f \in Bijection(S, T) <=>
           /\ f \in [S -> T]
           /\ \A x, y \in S : f[x] = f[y] => x = y
           /\ \A t \in T : \E x \in S : f[x] = t
<1>1. f \in [S -> T] => (IsInjective(f) <=> \A x, y \in S : f[x] = f[y] => x = y)
  BY DEF IsInjective
<1>2. f \in Injection(S, T) <=> f \in [S -> T] /\ IsInjective(f)
  BY DEF Injection
<1>3. f \in Surjection(S, T) <=> f \in [S -> T] /\ \A t \in T : \E x \in S : f[x] = t
  BY DEF Surjection
<1> QED
  BY <1>1, <1>2, <1>3 DEF Bijection

LEMMA UnitsFinite ==
  ASSUME NEW S, IsFiniteSet(S), NEW n, \A x \in S : n[x] \in Nat
  PROVE  IsFiniteSet(Units(n, S)) /\ SumOver(n, S) \in Nat
<1> DEFINE Pile(x) == {x} \X (1..n[x])
           Piles == {Pile(x) : x \in S}
<1>1. [x \in S |-> Pile(x)] \in Surjection(S, Piles)
  BY DEF Surjection
<1>2. IsFiniteSet(Piles)
  BY <1>1, FS_Surjection
<1>3. ASSUME NEW x \in S
      PROVE  IsFiniteSet(Pile(x))
  <2>1. IsFiniteSet(1..n[x])
    BY FS_Interval
  <2>2. IsFiniteSet({x})
    BY FS_Singleton
  <2> QED
    BY <2>1, <2>2, FS_Product
<1>4. \A T \in Piles : IsFiniteSet(T)
  BY <1>3
<1>5. IsFiniteSet(UNION Piles)
  BY <1>2, <1>4, FS_UNION
<1>6. Units(n, S) = UNION Piles
  BY DEF Units
<1> QED
  BY <1>5, <1>6, FS_CardinalityType DEF SumOver

LEMMA UnitOf ==
  ASSUME NEW n, NEW S, NEW u
  PROVE  u \in Units(n, S) <=> \E x \in S : \E k \in 1..n[x] : u = <<x, k>>
BY DEF Units

\* Sums depend on what is summed only.
LEMMA SumSame ==
  ASSUME NEW m, NEW n, NEW S, \A x \in S : m[x] = n[x]
  PROVE  SumOver(m, S) = SumOver(n, S)
<1>1. {{x} \X (1..m[x]) : x \in S} = {{x} \X (1..n[x]) : x \in S}
  OBVIOUS
<1> QED
  BY <1>1 DEF SumOver, Units

(* The elements of finite sets that are disjoint, counted set by set.      *)
LEMMA CountParts ==
  ASSUME NEW I, IsFiniteSet(I), NEW X, \A i \in I : IsFiniteSet(X[i]),
         \A i, j \in I : i # j => X[i] \cap X[j] = {}
  PROVE  /\ IsFiniteSet(UNION {X[i] : i \in I})
         /\ Cardinality(UNION {X[i] : i \in I}) = Total([i \in I |-> Cardinality(X[i])])
<1> DEFINE n == [i \in I |-> Cardinality(X[i])]
           All == UNION {X[i] : i \in I}
           b == [i \in I |-> CHOOSE f : f \in Bijection(1..n[i], X[i])]
           g == [u \in Units(n, I) |-> b[u[1]][u[2]]]
<1>1. \A i \in I : n[i] \in Nat /\ n[i] = Cardinality(X[i])
  BY FS_CardinalityType
<1>2. ASSUME NEW i \in I
      PROVE  b[i] \in Bijection(1..n[i], X[i])
  <2>1. ExistsBijection(1..n[i], X[i])
    BY FS_CardinalityType
  <2> QED
    BY <2>1, Fun_ExistsBij DEF ExistsBijection
<1> HIDE DEF b
<1>3. IsFiniteSet(Units(n, I)) /\ DOMAIN n = I
  BY <1>1, UnitsFinite
<1> HIDE DEF n
<1> HIDE DEF All, g
<1>4. \A i \in I : /\ \A k \in 1..n[i] : b[i][k] \in X[i]
                   /\ \A k, m \in 1..n[i] : b[i][k] = b[i][m] => k = m
                   /\ \A x \in X[i] : \E k \in 1..n[i] : b[i][k] = x
  <2> SUFFICES ASSUME NEW i \in I
               PROVE  /\ \A k \in 1..n[i] : b[i][k] \in X[i]
                      /\ \A k, m \in 1..n[i] : b[i][k] = b[i][m] => k = m
                      /\ \A x \in X[i] : \E k \in 1..n[i] : b[i][k] = x
    OBVIOUS
  <2>1. b[i] \in Bijection(1..n[i], X[i]) /\ n[i] \in Nat
    BY <1>1, <1>2
  <2> HIDE DEF n
  <2> QED
    BY <2>1, BijectionIs
<1>5. \A u \in Units(n, I) : /\ u[1] \in I /\ u[2] \in 1..n[u[1]]
                             /\ u = <<u[1], u[2]>>
  BY UnitOf
<1>6. g \in [Units(n, I) -> All]
  BY <1>4, <1>5 DEF All, g
<1>7. ASSUME NEW u \in Units(n, I), NEW w \in Units(n, I), g[u] = g[w]
      PROVE  u = w
  <2>1. b[u[1]][u[2]] \in X[u[1]] /\ b[w[1]][w[2]] \in X[w[1]]
    BY <1>4, <1>5
  <2>2. b[u[1]][u[2]] = b[w[1]][w[2]]
    BY <1>7 DEF g
  <2>3. u[1] = w[1]
    BY <2>1, <2>2, <1>5
  <2>4. u[2] = w[2]
    BY <2>2, <2>3, <1>4, <1>5
  <2> QED
    BY <2>3, <2>4, <1>5
<1>8. ASSUME NEW x \in All
      PROVE  \E u \in Units(n, I) : g[u] = x
  <2>1. PICK i \in I : x \in X[i]
    BY DEF All
  <2>2. PICK k \in 1..n[i] : b[i][k] = x
    BY <2>1, <1>4
  <2>3. <<i, k>> \in Units(n, I)
    BY <2>1, <2>2, UnitOf
  <2> QED
    BY <2>2, <2>3 DEF g
<1>9. g \in Bijection(Units(n, I), All)
  BY <1>6, <1>7, <1>8, BijectionIs
<1>10. ExistsBijection(Units(n, I), All)
  BY <1>9, Fun_ExistsBij
<1>11. IsFiniteSet(All) /\ Cardinality(All) = Cardinality(Units(n, I))
  BY <1>3, <1>10, FS_Bijection
<1>12. Total(n) = Cardinality(Units(n, I))
  BY <1>3 DEF Total, SumOver
<1> QED
  BY <1>11, <1>12 DEF n, All

(* The sum over a set, part by part.                                       *)
LEMMA SumOfParts ==
  ASSUME NEW I, IsFiniteSet(I), NEW X, NEW n,
         \A i \in I : IsFiniteSet(X[i]) /\ \A x \in X[i] : n[x] \in Nat,
         \A i, j \in I : i # j => X[i] \cap X[j] = {}
  PROVE  SumOver(n, UNION {X[i] : i \in I}) = Total([i \in I |-> SumOver(n, X[i])])
<1> DEFINE Y == [i \in I |-> Units(n, X[i])]
<1>1. \A i \in I : IsFiniteSet(Y[i]) /\ Y[i] = Units(n, X[i])
  BY UnitsFinite
<1>2. ASSUME NEW i \in I, NEW j \in I, i # j
      PROVE  Y[i] \cap Y[j] = {}
  BY <1>1, <1>2, UnitOf
<1>3. UNION {Y[i] : i \in I} = Units(n, UNION {X[i] : i \in I})
  <2>1. ASSUME NEW u
        PROVE  u \in UNION {Y[i] : i \in I} <=> u \in Units(n, UNION {X[i] : i \in I})
    BY <1>1, UnitOf
  <2> QED
    BY <2>1
<1>4. [i \in I |-> Cardinality(Y[i])] = [i \in I |-> SumOver(n, X[i])]
  BY <1>1 DEF SumOver
<1> HIDE DEF Y
<1>5. Cardinality(UNION {Y[i] : i \in I}) = Total([i \in I |-> Cardinality(Y[i])])
  BY <1>1, <1>2, CountParts
<1> QED
  BY <1>3, <1>4, <1>5 DEF SumOver

\* What is worth nothing may be left out of a sum.
LEMMA ZerosDrop ==
  ASSUME NEW S, NEW T \in SUBSET S, NEW n, \A x \in S : n[x] \in Nat, \A x \in S \ T : n[x] = 0
  PROVE  SumOver(n, S) = SumOver(n, T)
<1>1. ASSUME NEW u
      PROVE  u \in Units(n, S) <=> u \in Units(n, T)
  <2>1. ASSUME NEW x \in S, NEW k \in 1..n[x]
        PROVE  x \in T
    BY <2>1
  <2> QED
    BY <2>1, UnitOf
<1>2. Units(n, S) = Units(n, T)
  BY <1>1
<1> QED
  BY <1>2 DEF SumOver

\* The sum over a set whose elements fall into classes, class by class.
LEMMA SumByClass ==
  ASSUME NEW S, IsFiniteSet(S), NEW I, IsFiniteSet(I), NEW n, \A x \in S : n[x] \in Nat,
         NEW c, \A x \in S : c[x] \in I
  PROVE  SumOver(n, S) = Total([i \in I |-> SumOver(n, {x \in S : c[x] = i})])
<1> DEFINE X == [i \in I |-> {x \in S : c[x] = i}]
<1>1. \A i \in I : X[i] = {x \in S : c[x] = i}
  OBVIOUS
<1>2. UNION {X[i] : i \in I} = S
  BY <1>1
<1>3. \A i \in I : IsFiniteSet(X[i])
  BY <1>1, FS_Subset
<1>4. \A i, j \in I : i # j => X[i] \cap X[j] = {}
  BY <1>1
<1>5. [i \in I |-> SumOver(n, X[i])] = [i \in I |-> SumOver(n, {x \in S : c[x] = i})]
  BY <1>1
<1> HIDE DEF X
<1>6. SumOver(n, UNION {X[i] : i \in I}) = Total([i \in I |-> SumOver(n, X[i])])
  BY <1>1, <1>3, <1>4, SumOfParts
<1> QED
  BY <1>2, <1>5, <1>6

\* The sum over what stands for the elements of a set, one for each.
LEMMA SumOfImage ==
  ASSUME NEW I, IsFiniteSet(I), NEW R, NEW g \in Bijection(I, R),
         NEW m, NEW n, \A i \in I : m[i] \in Nat /\ n[g[i]] = m[i]
  PROVE  IsFiniteSet(R) /\ SumOver(n, R) = SumOver(m, I)
<1> DEFINE f == [u \in Units(m, I) |-> <<g[u[1]], u[2]>>]
<1>1. /\ g \in [I -> R]
      /\ \A x, y \in I : g[x] = g[y] => x = y
      /\ \A t \in R : \E x \in I : g[x] = t
  BY BijectionIs
<1>2. ExistsBijection(I, R)
  BY Fun_ExistsBij
<1>3. \A u \in Units(m, I) : u[1] \in I /\ u[2] \in 1..m[u[1]] /\ u = <<u[1], u[2]>>
  BY UnitOf
<1>4. \A u \in Units(m, I) : f[u] \in Units(n, R)
  BY <1>1, <1>3, UnitOf
<1>5. f \in [Units(m, I) -> Units(n, R)]
  BY <1>4
<1>6. \A u, w \in Units(m, I) : f[u] = f[w] => u = w
  BY <1>1, <1>3
<1>7. ASSUME NEW w \in Units(n, R)
      PROVE  \E u \in Units(m, I) : f[u] = w
  <2>1. PICK t \in R : \E k \in 1..n[t] : w = <<t, k>>
    BY UnitOf
  <2>2. PICK k \in 1..n[t] : w = <<t, k>>
    BY <2>1
  <2>3. PICK i \in I : g[i] = t
    BY <1>1
  <2>4. <<i, k>> \in Units(m, I)
    BY <2>2, <2>3, UnitOf
  <2> QED
    BY <2>2, <2>3, <2>4
<1> HIDE DEF f
<1>8. f \in Bijection(Units(m, I), Units(n, R))
  BY <1>5, <1>6, <1>7, BijectionIs
<1>9. ExistsBijection(Units(m, I), Units(n, R))
  BY <1>8, Fun_ExistsBij
<1>10. IsFiniteSet(Units(m, I))
  BY UnitsFinite
<1> QED
  BY <1>2, <1>9, <1>10, FS_Bijection DEF SumOver

\* The sum of sums: the units of the second are put on top of the first.
LEMMA SumAdds ==
  ASSUME NEW I, IsFiniteSet(I), NEW m, NEW n, NEW s,
         \A i \in I : m[i] \in Nat /\ n[i] \in Nat /\ s[i] = m[i] + n[i]
  PROVE  SumOver(s, I) = SumOver(m, I) + SumOver(n, I)
<1> DEFINE f == [u \in Units(n, I) |-> <<u[1], m[u[1]] + u[2]>>]
           Top == {u \in Units(s, I) : u[2] > m[u[1]]}
<1>1. /\ IsFiniteSet(Units(m, I)) /\ IsFiniteSet(Units(n, I))
      /\ SumOver(m, I) \in Nat /\ SumOver(n, I) \in Nat
  BY UnitsFinite
<1>2. \A u \in Units(n, I) : u[1] \in I /\ u[2] \in 1..n[u[1]] /\ u = <<u[1], u[2]>>
  BY UnitOf
<1>3. \A u \in Units(s, I) : u[1] \in I /\ u[2] \in 1..s[u[1]] /\ u = <<u[1], u[2]>>
  BY UnitOf
<1>4. ASSUME NEW u \in Units(n, I)
      PROVE  f[u] \in Top
  <2>1. u[1] \in I /\ u[2] \in 1..n[u[1]]
    BY <1>2
  <2>2. m[u[1]] + u[2] \in 1..s[u[1]] /\ m[u[1]] + u[2] > m[u[1]]
    BY <2>1
  <2>3. <<u[1], m[u[1]] + u[2]>> \in Units(s, I)
    BY <2>1, <2>2, UnitOf
  <2> QED
    BY <2>2, <2>3
<1>5. ASSUME NEW u \in Units(n, I), NEW w \in Units(n, I), f[u] = f[w]
      PROVE  u = w
  <2>1. u[1] = w[1] /\ m[u[1]] + u[2] = m[w[1]] + w[2]
    BY <1>5
  <2>2. u[2] = w[2]
    BY <2>1, <1>2
  <2> QED
    BY <2>1, <2>2, <1>2
<1>6. ASSUME NEW w \in Top
      PROVE  \E u \in Units(n, I) : f[u] = w
  <2>1. w[1] \in I /\ w[2] \in 1..s[w[1]] /\ w = <<w[1], w[2]>> /\ w[2] > m[w[1]]
    BY <1>3
  <2>2. w[2] - m[w[1]] \in 1..n[w[1]] /\ m[w[1]] + (w[2] - m[w[1]]) = w[2]
    BY <2>1
  <2>3. <<w[1], w[2] - m[w[1]]>> \in Units(n, I)
    BY <2>1, <2>2, UnitOf
  <2>4. f[<<w[1], w[2] - m[w[1]]>>] = w
    BY <2>1, <2>2, <2>3
  <2> QED
    BY <2>3, <2>4
<1>7. f \in [Units(n, I) -> Top]
  BY <1>4
<1> HIDE DEF f
<1>8. ExistsBijection(Units(n, I), Top)
  <2>1. f \in Bijection(Units(n, I), Top)
    BY <1>5, <1>6, <1>7, BijectionIs
  <2> QED
    BY <2>1, Fun_ExistsBij
<1>9. IsFiniteSet(Top) /\ Cardinality(Top) = SumOver(n, I)
  BY <1>1, <1>8, FS_Bijection DEF SumOver
<1>10. ASSUME NEW u
       PROVE  u \in Units(s, I) <=> u \in Units(m, I) \/ u \in Top
  <2>1. ASSUME NEW x \in I, NEW k
        PROVE  k \in 1..m[x] <=> k \in 1..s[x] /\ ~(k > m[x])
    OBVIOUS
  <2>2. u \in Units(m, I) <=> u \in Units(s, I) /\ ~(u[2] > m[u[1]])
    BY <2>1, UnitOf
  <2> QED
    BY <2>2
<1>11. Units(s, I) = Units(m, I) \cup Top
  BY <1>10
<1>12. ASSUME NEW u \in Units(m, I)
       PROVE  u \notin Top
  <2>1. u[1] \in I /\ u[2] \in 1..m[u[1]]
    BY UnitOf
  <2> QED
    BY <2>1
<1>13. Units(m, I) \cap Top = {}
  BY <1>12
<1> HIDE DEF Top
<1>14. Cardinality(Units(m, I) \cup Top) = Cardinality(Units(m, I)) + Cardinality(Top) - Cardinality({})
  BY <1>1, <1>9, <1>13, FS_Union
<1> QED
  BY <1>1, <1>9, <1>11, <1>14, FS_EmptySet DEF SumOver

-----------------------------------------------------------------------------
(* The reports.                                                            *)

LEMMA MinIs ==
  ASSUME NEW T \in SUBSET Nat, NEW x \in T, \A y \in T : x <= y
  PROVE  Min(T) = x
<1>1. Min(T) \in T /\ \A y \in T : Min(T) <= y
  BY DEF Min
<1>2. Min(T) \in Nat /\ x \in Nat
  BY <1>1
<1>3. Min(T) <= x /\ x <= Min(T)
  BY <1>1
<1> QED
  BY <1>2, <1>3

\* The first field that is there counts, of three or fewer.
LEMMA CoalesceThree ==
  ASSUME NEW doc, NEW a, NEW b, NEW c
  PROVE  Coalesce(doc, <<a, b, c>>) = IF a \in DOMAIN doc THEN doc[a]
                                      ELSE IF b \in DOMAIN doc THEN doc[b]
                                      ELSE IF c \in DOMAIN doc THEN doc[c] ELSE 0
<1> DEFINE fields == <<a, b, c>>
           has == {i \in 1..3 : fields[i] \in DOMAIN doc}
<1>1. DOMAIN fields = 1..3 /\ fields[1] = a /\ fields[2] = b /\ fields[3] = c
  OBVIOUS
<1>2. has = {i \in DOMAIN fields : fields[i] \in DOMAIN doc}
  BY <1>1
<1>3. Coalesce(doc, fields) = IF has = {} THEN 0 ELSE doc[fields[Min(has)]]
  BY <1>2 DEF Coalesce
<1>4. /\ 1 \in has <=> a \in DOMAIN doc
      /\ 2 \in has <=> b \in DOMAIN doc
      /\ 3 \in has <=> c \in DOMAIN doc
      /\ has \subseteq 1..3
  BY <1>1
<1> HIDE DEF has, fields
<1>5. CASE 1 \in has
  <2>1. has \in SUBSET Nat /\ 1 \in has /\ \A y \in has : 1 <= y
    BY <1>4, <1>5
  <2>2. Min(has) = 1
    BY <2>1, MinIs
  <2> QED
    BY <1>1, <1>3, <1>4, <1>5, <2>2 DEF fields
<1>6. CASE 1 \notin has /\ 2 \in has
  <2>1. has \in SUBSET Nat /\ 2 \in has /\ \A y \in has : 2 <= y
    BY <1>4, <1>6
  <2>2. Min(has) = 2
    BY <2>1, MinIs
  <2> QED
    BY <1>1, <1>3, <1>4, <1>6, <2>2 DEF fields
<1>7. CASE 1 \notin has /\ 2 \notin has /\ 3 \in has
  <2>1. has \in SUBSET Nat /\ 3 \in has /\ \A y \in has : 3 <= y
    BY <1>4, <1>7
  <2>2. Min(has) = 3
    BY <2>1, MinIs
  <2> QED
    BY <1>1, <1>3, <1>4, <1>7, <2>2 DEF fields
<1>8. CASE has = {}
  BY <1>3, <1>4, <1>8 DEF fields
<1> QED
  BY <1>4, <1>5, <1>6, <1>7, <1>8

LEMMA CoalesceTwo ==
  ASSUME NEW doc, NEW a, NEW b
  PROVE  Coalesce(doc, <<a, b>>) = IF a \in DOMAIN doc THEN doc[a]
                                   ELSE IF b \in DOMAIN doc THEN doc[b] ELSE 0
<1> DEFINE fields == <<a, b>>
           has == {i \in 1..2 : fields[i] \in DOMAIN doc}
<1>1. DOMAIN fields = 1..2 /\ fields[1] = a /\ fields[2] = b
  OBVIOUS
<1>2. has = {i \in DOMAIN fields : fields[i] \in DOMAIN doc}
  BY <1>1
<1>3. Coalesce(doc, fields) = IF has = {} THEN 0 ELSE doc[fields[Min(has)]]
  BY <1>2 DEF Coalesce
<1>4. (1 \in has <=> a \in DOMAIN doc) /\ (2 \in has <=> b \in DOMAIN doc) /\ has \subseteq 1..2
  BY <1>1
<1> HIDE DEF has, fields
<1>5. CASE 1 \in has
  <2>1. has \in SUBSET Nat /\ 1 \in has /\ \A y \in has : 1 <= y
    BY <1>4, <1>5
  <2>2. Min(has) = 1
    BY <2>1, MinIs
  <2> QED
    BY <1>1, <1>3, <1>4, <1>5, <2>2 DEF fields
<1>6. CASE 1 \notin has /\ 2 \in has
  <2>1. has \in SUBSET Nat /\ 2 \in has /\ \A y \in has : 2 <= y
    BY <1>4, <1>6
  <2>2. Min(has) = 2
    BY <2>1, MinIs
  <2> QED
    BY <1>1, <1>3, <1>4, <1>6, <2>2 DEF fields
<1>7. CASE has = {}
  BY <1>3, <1>4, <1>7 DEF fields
<1> QED
  BY <1>4, <1>5, <1>6, <1>7

LEMMA CoalesceOne ==
  ASSUME NEW doc, NEW a
  PROVE  Coalesce(doc, <<a>>) = IF a \in DOMAIN doc THEN doc[a] ELSE 0
<1> DEFINE fields == <<a>>
           has == {i \in {1} : fields[i] \in DOMAIN doc}
<1>1. DOMAIN fields = {1} /\ fields[1] = a
  OBVIOUS
<1>2. has = {i \in DOMAIN fields : fields[i] \in DOMAIN doc}
  BY <1>1
<1>3. Coalesce(doc, fields) = IF has = {} THEN 0 ELSE doc[fields[Min(has)]]
  BY <1>2 DEF Coalesce
<1>4. (1 \in has <=> a \in DOMAIN doc) /\ has \subseteq {1}
  BY <1>1
<1> HIDE DEF has, fields
<1>5. CASE 1 \in has
  <2>1. has \in SUBSET Nat /\ 1 \in has /\ \A y \in has : 1 <= y
    BY <1>4, <1>5
  <2>2. Min(has) = 1
    BY <2>1, MinIs
  <2> QED
    BY <1>1, <1>3, <1>4, <1>5, <2>2 DEF fields
<1> QED
  BY <1>3, <1>4, <1>5 DEF fields

\* What a projection leaves of a document.
LEMMA ProjectedHas ==
  ASSUME NEW doc, NEW type
  PROVE  /\ DOMAIN Projected(doc, type) = DOMAIN doc \cap Profile(type)
         /\ \A f \in DOMAIN doc \cap Profile(type) : Projected(doc, type)[f] = doc[f]
BY DEF Projected, Restrict

LEMMA ProductRow ==
  ASSUME NEW doc, DOMAIN doc \subseteq SchemaFields["product"]
  PROVE  InventoryRow(Projected(doc, "product")) = InventoryRow(doc)
<1> DEFINE some == Projected(doc, "product")
<1>1. /\ DOMAIN some = DOMAIN doc
      /\ \A f \in DOMAIN doc : some[f] = doc[f]
      /\ "quantity" \notin DOMAIN doc
  BY ProjectedHas DEF Profile, SchemaFields
<1> HIDE DEF some
<1>2. /\ Coalesce(some, <<"stock", "quantity">>) = Coalesce(doc, <<"stock", "quantity">>)
      /\ Coalesce(some, <<"cost", "price">>) = Coalesce(doc, <<"cost", "price">>)
      /\ Coalesce(some, <<"reorderLevel", "minStock">>) = Coalesce(doc, <<"reorderLevel", "minStock">>)
  BY <1>1, CoalesceTwo
<1>3. InventoryRow(some) = InventoryRow(doc)
  BY <1>2 DEF InventoryRow
<1> QED
  BY <1>3 DEF some

LEMMA MaterialRow ==
  ASSUME NEW doc, DOMAIN doc \subseteq SchemaFields["rawMaterial"],
         \A f \in DOMAIN doc : doc[f] \in Nat
  PROVE  /\ InventoryRow(Projected(doc, "rawMaterial")) = InventoryRow(doc)
         /\ "price" \in DOMAIN doc =>
              InventoryRow(Projected(doc, "rawMaterial")).value = SummaryValue(doc, "rawMaterial")
<1> DEFINE some == Projected(doc, "rawMaterial")
           pieces == IF "quantity" \in DOMAIN doc THEN doc["quantity"] ELSE 0
           price == IF "price" \in DOMAIN doc THEN doc["price"] ELSE 0
<1> HIDE DEF some
<1>1. /\ DOMAIN doc \subseteq {"quantity", "price", "supplierPrice"}
      /\ Profile("rawMaterial") = {"quantity", "stock", "reorderLevel", "cost", "price"}
  BY DEF Profile, SchemaFields
<1>2. /\ DOMAIN some = DOMAIN doc \cap {"quantity", "price"}
      /\ \A f \in DOMAIN some : some[f] = doc[f]
      /\ DOMAIN doc \subseteq {"quantity", "price", "supplierPrice"}
  <2>1. /\ DOMAIN some = DOMAIN doc \cap Profile("rawMaterial")
        /\ \A f \in DOMAIN doc \cap Profile("rawMaterial") : some[f] = doc[f]
    BY ProjectedHas DEF some
  <2> QED
    BY <1>1, <2>1
<1>3. /\ Coalesce(some, <<"stock", "quantity">>) = pieces
      /\ Coalesce(doc, <<"stock", "quantity">>) = pieces
      /\ Coalesce(doc, <<"quantity">>) = pieces
  BY <1>2, CoalesceTwo, CoalesceOne
<1>4. /\ Coalesce(some, <<"cost", "price">>) = price
      /\ Coalesce(doc, <<"cost", "price">>) = price
  BY <1>2, CoalesceTwo
<1>5. "price" \in DOMAIN doc => Coalesce(doc, <<"cost", "price", "supplierPrice">>) = price
  BY <1>2, CoalesceThree
<1>6. /\ Coalesce(some, <<"reorderLevel", "minStock">>) = 0
      /\ Coalesce(doc, <<"reorderLevel", "minStock">>) = 0
  BY <1>2, CoalesceTwo
<1> HIDE DEF pieces, price
<1>7. InventoryRow(some) = InventoryRow(doc) /\ InventoryRow(some).value = pieces * price
  BY <1>3, <1>4, <1>6 DEF InventoryRow
<1>8. "price" \in DOMAIN doc => SummaryValue(doc, "rawMaterial") = pieces * price
  BY <1>3, <1>5 DEF SummaryValue
<1> QED
  BY <1>7, <1>8 DEF some

LEMMA InventoryLemma ==
  ASSUME NEW s, ForStockReport(s)
  PROVE  InventoryAgrees(s.doc, s.type)
<1>1. CASE s.type = "product"
  BY <1>1, ProductRow DEF ForStockReport, InventoryAgrees
<1>2. CASE s.type = "rawMaterial"
  BY <1>2, MaterialRow DEF ForStockReport, InventoryAgrees
<1> QED
  BY <1>1, <1>2 DEF InventoryAgrees

\* A query that is not cut off returns all there is.
LEMMA UpToLimitAll ==
  ASSUME NEW S, IsFiniteSet(S), Cardinality(S) <= ReportLimit, NEW T \in UpToLimit(S)
  PROVE  T = S
<1>1. Cardinality(S) \in Nat /\ ReportLimit \in Nat
  BY FS_CardinalityType, ReportsAssumption
<1>2. T \in SUBSET S /\ Cardinality(T) = Cardinality(S)
  BY <1>1 DEF UpToLimit, kSubset
<1> QED
  BY <1>2, FS_Subset

LEMMA TotalOf ==
  ASSUME NEW n, NEW S
  PROVE  Total([x \in S |-> n[x]]) = SumOver(n, S)
<1> DEFINE m == [x \in S |-> n[x]]
<1>1. DOMAIN m = S /\ \A x \in S : m[x] = n[x]
  OBVIOUS
<1> HIDE DEF m
<1>2. Total(m) = SumOver(n, S)
  BY <1>1, SumSame DEF Total
<1> QED
  BY <1>2 DEF m

LEMMA PartyLemma ==
  ASSUME NEW s, ForPartyReport(s)
  PROVE  PartiesAgree(s.parties, s.invoices)
<1> DEFINE P == s.parties
           V == s.invoices
           amount == [i \in V |-> i.amount]
           own == [p \in P |-> {i \in V : Concerns(i, p)}]
           spent == [p \in P |-> SumOver(amount, own[p])]
           due == [p \in P |-> p.due]
           g == [p \in P |-> PartyRow(p, V)]
<1> SUFFICES ASSUME NEW rows \in PartyReports(P, V),
                    Cardinality(P) <= ReportLimit,
                    Cardinality(V) <= ReportLimit,
                    \A p, q \in P : p # q => p.id # q.id /\ p.name # q.name,
                    \A i \in V : \E p \in P :
                      \/ i.of = p.id /\ i.name \in {p.name, Missing}
                      \/ i.of = Missing /\ i.name = p.name
             PROVE  /\ Total([r \in rows |-> r.totalSpent]) = Total([i \in V |-> i.amount])
                    /\ Total([r \in rows |-> r.due]) = DueSummary(P).total
                    /\ Cardinality({r \in rows : r.due > 0}) = DueSummary(P).count
  BY DEF PartiesAgree
<1>1. /\ IsFiniteSet(P) /\ IsFiniteSet(V)
      /\ \A p \in P : p.due \in Nat /\ Missing \notin {p.id, p.name}
      /\ \A i \in V : i.amount \in Nat
  BY DEF ForPartyReport
<1> HIDE DEF P, V
<1>2. rows = {PartyRow(p, V) : p \in P}
  <2>1. PICK ps \in UpToLimit(P), vs \in UpToLimit(V) : rows = {PartyRow(p, vs) : p \in ps}
    BY DEF PartyReports
  <2> QED
    BY <1>1, <2>1, UpToLimitAll
<1>3. \A p \in P : own[p] = {i \in V : Concerns(i, p)} /\ IsFiniteSet(own[p])
  BY <1>1, FS_Subset
<1>4. \A i \in V : amount[i] = i.amount /\ amount[i] \in Nat
  BY <1>1
<1>5. V = UNION {own[p] : p \in P}
  BY <1>3 DEF Concerns
<1>6. \A p, q \in P : p # q => own[p] \cap own[q] = {}
  BY <1>1, <1>3 DEF Concerns
<1> HIDE DEF own, amount
<1>7. \A p \in P : /\ spent[p] = SumOver(amount, own[p])
                   /\ spent[p] = Total([i \in own[p] |-> i.amount])
                   /\ spent[p] \in Nat
  <2> SUFFICES ASSUME NEW p \in P
               PROVE  /\ SumOver(amount, own[p]) = Total([i \in own[p] |-> i.amount])
                      /\ SumOver(amount, own[p]) \in Nat
    OBVIOUS
  <2>1. own[p] \subseteq V /\ IsFiniteSet(own[p])
    BY <1>3
  <2>2. [i \in own[p] |-> i.amount] = [i \in own[p] |-> amount[i]]
    BY <1>4, <2>1
  <2>3. SumOver(amount, own[p]) \in Nat
    BY <1>4, <2>1, UnitsFinite
  <2>4. Total([i \in own[p] |-> amount[i]]) = SumOver(amount, own[p])
    BY TotalOf
  <2> QED
    BY <2>2, <2>3, <2>4
<1>8. SumOver(amount, V) = SumOver(spent, P)
  <2>1. \A p \in P : IsFiniteSet(own[p]) /\ \A i \in own[p] : amount[i] \in Nat
    BY <1>3, <1>4
  <2>2. SumOver(amount, UNION {own[p] : p \in P}) = Total([p \in P |-> SumOver(amount, own[p])])
    BY <1>1, <2>1, <1>6, SumOfParts
  <2>3. Total(spent) = SumOver(spent, P)
    BY DEF Total
  <2> QED
    BY <1>5, <2>2, <2>3
<1>9. \A p \in P : /\ g[p] = PartyRow(p, V) /\ g[p].id = p.id
                   /\ g[p].totalSpent = spent[p] /\ g[p].due = p.due
  BY <1>3, <1>7 DEF PartyRow
<1> HIDE DEF spent
<1>10. g \in Bijection(P, rows)
  <2>1. g \in [P -> rows] /\ \A r \in rows : \E p \in P : g[p] = r
    BY <1>2
  <2>2. \A p, q \in P : g[p] = g[q] => p = q
    BY <1>9
  <2> HIDE DEF g
  <2> QED
    BY <2>1, <2>2, BijectionIs
<1> HIDE DEF g
<1>11. Total([r \in rows |-> r.totalSpent]) = SumOver(spent, P)
  <2> DEFINE n == [r \in rows |-> r.totalSpent]
  <2>1. \A p \in P : g[p] \in rows
    BY <1>10, BijectionIs
  <2>2. \A p \in P : spent[p] \in Nat /\ n[g[p]] = spent[p]
    BY <1>7, <1>9, <2>1
  <2>3. DOMAIN n = rows
    OBVIOUS
  <2> HIDE DEF n
  <2>4. SumOver(n, rows) = SumOver(spent, P)
    BY <1>1, <1>10, <2>2, SumOfImage
  <2>5. Total(n) = SumOver(spent, P)
    BY <2>3, <2>4 DEF Total
  <2> QED
    BY <2>5 DEF n
<1>12. Total([r \in rows |-> r.due]) = SumOver(due, P)
  <2> DEFINE n == [r \in rows |-> r.due]
  <2>1. \A p \in P : g[p] \in rows
    BY <1>10, BijectionIs
  <2>2. \A p \in P : due[p] \in Nat /\ n[g[p]] = due[p]
    BY <1>1, <1>9, <2>1
  <2>3. DOMAIN n = rows
    OBVIOUS
  <2> HIDE DEF n, due
  <2>4. SumOver(n, rows) = SumOver(due, P)
    BY <1>1, <1>10, <2>2, SumOfImage
  <2>5. Total(n) = SumOver(due, P)
    BY <2>3, <2>4 DEF Total
  <2> QED
    BY <2>5 DEF n
<1>13. Cardinality({r \in rows : r.due > 0}) = Cardinality({p \in P : p.due > 0})
  <2> DEFINE S == {p \in P : p.due > 0}
             R == {r \in rows : r.due > 0}
             h == [p \in S |-> g[p]]
  <2>1. /\ g \in [P -> rows]
        /\ \A p, q \in P : g[p] = g[q] => p = q
        /\ \A r \in rows : \E p \in P : g[p] = r
    BY <1>10, BijectionIs
  <2>2. /\ h \in [S -> R]
        /\ \A p, q \in S : h[p] = h[q] => p = q
        /\ \A r \in R : \E p \in S : h[p] = r
    BY <1>9, <2>1
  <2>3. IsFiniteSet(S)
    BY <1>1, FS_Subset
  <2> HIDE DEF S, R, h
  <2>4. h \in Bijection(S, R)
    BY <2>2, BijectionIs
  <2>5. ExistsBijection(S, R)
    BY <2>4, Fun_ExistsBij
  <2>6. Cardinality(R) = Cardinality(S)
    BY <2>3, <2>5, FS_Bijection
  <2> QED
    BY <2>6 DEF S, R
<1>14. /\ Total([i \in V |-> i.amount]) = SumOver(amount, V)
       /\ DueSummary(P).total = SumOver(due, P)
       /\ DueSummary(P).count = Cardinality({p \in P : p.due > 0})
  BY DEF DueSummary, Total, amount
<1> QED
  BY <1>8, <1>11, <1>12, <1>13, <1>14

\* The lines of a collection with an SKU, and their group.
LinesOf(lines, c, sku) == {l \in lines : l.collection = c /\ l.sku = sku}
GroupOf(lines, c, sku) ==
  [collection |-> c, sku |-> sku,
   qty |-> Total([l \in LinesOf(lines, c, sku) |-> l.qty]),
   revenue |-> Total([l \in LinesOf(lines, c, sku) |-> l.revenue])]
Revenue(S) == Total([x \in S |-> x.revenue])
Groups(lines) == UNION {LineGroups(lines, c) : c \in Collections}

LEMMA GroupsAre ==
  ASSUME NEW lines, \A l \in lines : l.status \notin CancelledOrDraft, NEW g
  PROVE  g \in Groups(lines) <=>
           \E c \in Collections : \E l \in lines :
             /\ l.collection = c /\ l.sku # Missing
             /\ g = GroupOf(lines, c, l.sku)
             /\ g.qty > 0 \/ g.revenue > 0
<1> DEFINE skus(c) == {l.sku : l \in {x \in lines : x.collection = c}} \ {Missing}
<1>1. ASSUME NEW c
      PROVE  LineGroups(lines, c) =
               {h \in {GroupOf(lines, c, sku) : sku \in skus(c)} : h.qty > 0 \/ h.revenue > 0}
  <2> DEFINE counted == {l \in lines : l.collection = c /\ l.status \notin CancelledOrDraft}
  <2>1. counted = {x \in lines : x.collection = c}
    OBVIOUS
  <2>2. \A sku : {l \in counted : l.sku = sku} = LinesOf(lines, c, sku)
    BY <2>1 DEF LinesOf
  <2> DEFINE r(sku) == [collection |-> c, sku |-> sku,
                        qty |-> Total([l \in {y \in counted : y.sku = sku} |-> l.qty]),
                        revenue |-> Total([l \in {y \in counted : y.sku = sku} |-> l.revenue])]
             Q == {l.sku : l \in counted} \ {Missing}
  <2>3. LineGroups(lines, c) = {h \in {r(sku) : sku \in Q} : h.qty > 0 \/ h.revenue > 0}
    BY DEF LineGroups
  <2>4. \A sku : r(sku) = GroupOf(lines, c, sku)
    <3> SUFFICES ASSUME NEW sku
                 PROVE  r(sku) = GroupOf(lines, c, sku)
      OBVIOUS
    <3>1. {y \in counted : y.sku = sku} = LinesOf(lines, c, sku)
      BY <2>2
    <3> HIDE DEF counted
    <3> QED
      BY <3>1 DEF GroupOf
  <2>5. Q = skus(c)
    BY <2>1
  <2> HIDE DEF r, Q, skus
  <2>6. {r(sku) : sku \in Q} = {GroupOf(lines, c, sku) : sku \in skus(c)}
    BY <2>4, <2>5
  <2> QED
    BY <2>3, <2>6
<1>2. ASSUME NEW c
      PROVE  g \in LineGroups(lines, c) <=>
               \E l \in lines : /\ l.collection = c /\ l.sku # Missing
                                /\ g = GroupOf(lines, c, l.sku)
                                /\ g.qty > 0 \/ g.revenue > 0
  <2>1. \A sku : sku \in skus(c) <=> \E l \in lines : l.collection = c /\ l.sku = sku /\ sku # Missing
    OBVIOUS
  <2> HIDE DEF skus
  <2> QED
    BY <1>1, <2>1
<1> QED
  BY <1>2 DEF Groups

\* The revenue of the groups of some SKUs is that of their lines.
LEMMA GroupsCount ==
  ASSUME NEW lines, IsFiniteSet(lines), \A l \in lines : l.status \notin CancelledOrDraft,
         \A l \in lines : l.collection \in Collections /\ l.qty \in Nat /\ l.revenue \in Nat,
         NEW Q, Missing \notin Q
  PROVE  /\ IsFiniteSet({g \in Groups(lines) : g.sku \in Q})
         /\ \A g \in Groups(lines) : g.revenue \in Nat
         /\ Revenue({g \in Groups(lines) : g.sku \in Q}) = Revenue({l \in lines : l.sku \in Q})
<1> DEFINE S == {l \in lines : l.sku \in Q}
           T == {l \in S : l.revenue > 0}
           G == {g \in Groups(lines) : g.sku \in Q}
           n == [l \in lines |-> l.revenue]
           c == [l \in lines |-> GroupOf(lines, l.collection, l.sku)]
<1>1. /\ \A l \in lines : n[l] = l.revenue /\ n[l] \in Nat
      /\ T \subseteq S /\ S \subseteq lines
  OBVIOUS
<1>2. IsFiniteSet(S) /\ IsFiniteSet(T)
  BY <1>1, FS_Subset
<1>3. ASSUME NEW k, NEW sku
      PROVE  /\ LinesOf(lines, k, sku) \subseteq lines
             /\ IsFiniteSet(LinesOf(lines, k, sku))
             /\ GroupOf(lines, k, sku).collection = k
             /\ GroupOf(lines, k, sku).sku = sku
             /\ GroupOf(lines, k, sku).revenue = SumOver(n, LinesOf(lines, k, sku))
             /\ GroupOf(lines, k, sku).revenue \in Nat
             /\ GroupOf(lines, k, sku).qty \in Nat
  <2> DEFINE L == LinesOf(lines, k, sku)
             q == [l \in L |-> l.qty]
  <2>1. L \subseteq lines /\ IsFiniteSet(L)
    BY FS_Subset DEF LinesOf
  <2> HIDE DEF L
  <2>2. [l \in L |-> l.revenue] = [l \in L |-> n[l]]
    BY <1>1, <2>1
  <2>3. Total([l \in L |-> n[l]]) = SumOver(n, L)
    BY TotalOf
  <2>4. SumOver(n, L) \in Nat
    BY <1>1, <2>1, UnitsFinite
  <2>5. \A l \in L : q[l] \in Nat
    BY <2>1
  <2>6. DOMAIN q = L
    OBVIOUS
  <2> HIDE DEF q
  <2>7. Total(q) \in Nat
    BY <2>1, <2>5, <2>6, UnitsFinite DEF Total
  <2> QED
    BY <2>1, <2>2, <2>3, <2>4, <2>7 DEF GroupOf, L, q
<1>4. \A g \in Groups(lines) : \E l \in lines : l.sku # Missing /\ g = c[l]
  BY GroupsAre
<1>5. \A g \in Groups(lines) : g.revenue \in Nat
  <2> SUFFICES ASSUME NEW g \in Groups(lines)
               PROVE  g.revenue \in Nat
    OBVIOUS
  <2>1. PICK l \in lines : g = c[l]
    BY <1>4
  <2>2. g = GroupOf(lines, l.collection, l.sku)
    BY <2>1
  <2> QED
    BY <1>3, <2>2
<1> HIDE DEF n
<1>6. IsFiniteSet(G)
  <2> DEFINE C == {c[l] : l \in lines}
  <2>1. [l \in lines |-> c[l]] \in Surjection(lines, C)
    BY DEF Surjection
  <2>2. IsFiniteSet(C)
    BY <2>1, FS_Surjection
  <2>3. G \subseteq C
    BY <1>4
  <2> HIDE DEF C, G
  <2> QED
    BY <2>2, <2>3, FS_Subset
<1>7. \A l \in T : c[l] \in G
  <2> SUFFICES ASSUME NEW l \in T
               PROVE  GroupOf(lines, l.collection, l.sku) \in G
    OBVIOUS
  <2> DEFINE L == LinesOf(lines, l.collection, l.sku)
  <2>1. l \in L /\ L \subseteq lines /\ IsFiniteSet(L)
    <3>1. l \in L
      BY <1>1 DEF LinesOf
    <3>2. L \subseteq lines /\ IsFiniteSet(L)
      BY <1>3
    <3> QED
      BY <3>1, <3>2
  <2>2. SumOver(n, L) > 0
    <3> HIDE DEF L
    <3>1. <<l, 1>> \in Units(n, L)
      BY <1>1, <2>1, UnitOf
    <3>2. IsFiniteSet(Units(n, L)) /\ Cardinality(Units(n, L)) \in Nat
      BY <1>1, <2>1, UnitsFinite DEF SumOver
    <3>3. Cardinality(Units(n, L)) # 0
      BY <3>1, <3>2, FS_EmptySet
    <3> QED
      BY <3>2, <3>3 DEF SumOver
  <2>3. GroupOf(lines, l.collection, l.sku).revenue > 0
    BY <1>3, <2>2
  <2>4. l.sku # Missing /\ l.collection \in Collections /\ l.sku \in Q
    BY <1>1
  <2>5. GroupOf(lines, l.collection, l.sku) \in Groups(lines)
    BY <2>3, <2>4, <1>1, GroupsAre
  <2> QED
    BY <1>3, <2>4, <2>5
<1>8. \A g \in G : SumOver(n, {l \in T : c[l] = g}) = g.revenue
  <2> SUFFICES ASSUME NEW g \in G
               PROVE  SumOver(n, {l \in T : c[l] = g}) = g.revenue
    OBVIOUS
  <2>1. PICK m \in lines : m.sku # Missing /\ g = GroupOf(lines, m.collection, m.sku)
    BY <1>4
  <2> DEFINE L == LinesOf(lines, m.collection, m.sku)
             U == {l \in T : c[l] = g}
  <2>2. g.sku = m.sku /\ g.collection = m.collection /\ g.revenue = SumOver(n, L) /\ m.sku \in Q
    BY <1>3, <2>1
  <2>3. U \subseteq L
    <3> SUFFICES ASSUME NEW l \in U
                 PROVE  l \in L
      OBVIOUS
    <3>1. l \in lines /\ g = GroupOf(lines, l.collection, l.sku)
      BY <1>1
    <3>2. l.sku = g.sku /\ l.collection = g.collection
      BY <1>3, <3>1
    <3> QED
      BY <2>2, <3>1, <3>2 DEF LinesOf
  <2>4. \A l \in L \ U : n[l] = 0
    <3> SUFFICES ASSUME NEW l \in L, n[l] # 0
                 PROVE  l \in U
      OBVIOUS
    <3>1. l \in lines /\ l.collection = m.collection /\ l.sku = m.sku
      BY DEF LinesOf
    <3>2. l.revenue > 0
      BY <1>1, <3>1
    <3> QED
      BY <2>1, <2>2, <3>1, <3>2
  <2>5. \A l \in L : n[l] \in Nat
    BY <1>1, <1>3
  <2> HIDE DEF L, U
  <2>6. SumOver(n, L) = SumOver(n, U)
    BY <2>3, <2>4, <2>5, ZerosDrop
  <2> QED
    BY <2>2, <2>6 DEF U
<1>9. \A l \in T : n[l] \in Nat
  BY <1>1
<1>10. \A l \in S : n[l] \in Nat
  BY <1>1
<1>11. \A l \in S \ T : n[l] = 0
  BY <1>1
<1>12. \A l \in T : l \in lines
  BY <1>1
<1> HIDE DEF S, T, G, c
<1>13. SumOver(n, S) = SumOver(n, T)
  BY <1>1, <1>10, <1>11, ZerosDrop
<1>14. SumOver(n, T) = Total([g \in G |-> SumOver(n, {l \in T : c[l] = g})])
  BY <1>2, <1>6, <1>7, <1>9, SumByClass
<1>15. [g \in G |-> SumOver(n, {l \in T : c[l] = g})] = [g \in G |-> g.revenue]
  BY <1>8
<1>16. Total([l \in S |-> l.revenue]) = SumOver(n, S)
  <2>1. [l \in S |-> l.revenue] = [l \in S |-> n[l]]
    BY <1>1
  <2> QED
    BY <2>1, TotalOf
<1> QED
  BY <1>5, <1>6, <1>13, <1>14, <1>15, <1>16 DEF S, G, Revenue

\* The rows of some identities, and the groups counted under them.
RowsOf(groups, names, catalog, J) == {r \in TopProducts(groups, names, catalog) : r.identity \in J}
CountedUnder(groups, names, catalog, J) ==
  {g \in groups : Identity(g, names, catalog) \in J}

\* The revenue of the rows of some identities is that of their groups.
LEMMA RowsCount ==
  ASSUME NEW groups, NEW names, NEW catalog, IsFiniteSet(groups),
         \A g \in groups : g.revenue \in Nat, NEW J
  PROVE  Revenue(RowsOf(groups, names, catalog, J)) =
           Revenue(CountedUnder(groups, names, catalog, J))
<1> DEFINE G == groups
           H == {g \in G : Identity(g, names, catalog) \in J}
           c == [g \in G |-> Identity(g, names, catalog)]
           called(i) == {g \in G : Identity(g, names, catalog) = i}
           Ids == {Identity(g, names, catalog) : g \in G}
           I == {i \in Ids : i \in J}
           row(i) == [identity |-> i, sold |-> Total([g \in called(i) |-> g.qty]),
                      revenue |-> Total([g \in called(i) |-> g.revenue])]
           rows == TopProducts(groups, names, catalog)
           R == {r \in rows : r.identity \in J}
           n == [g \in G |-> g.revenue]
           m == [i \in I |-> SumOver(n, called(i))]
           p == [i \in I |-> row(i)]
           v == [r \in R |-> r.revenue]
<1>1. rows = {row(i) : i \in Ids}
  BY DEF TopProducts
<1>2. \A g \in G : n[g] \in Nat /\ n[g] = g.revenue /\ c[g] = Identity(g, names, catalog)
  OBVIOUS
<1>3. IsFiniteSet(H) /\ H \subseteq G
  BY FS_Subset
<1>4. IsFiniteSet(Ids)
  <2>1. [g \in G |-> c[g]] \in Surjection(G, Ids)
    BY DEF Surjection
  <2> HIDE DEF G, Ids, c
  <2> QED
    BY <2>1, FS_Surjection DEF G
<1>5. IsFiniteSet(I)
  BY <1>4, FS_Subset
<1>6. \A g \in H : c[g] \in I /\ n[g] \in Nat
  BY <1>2, <1>3
<1>7. \A i \in I : {g \in H : c[g] = i} = called(i)
  BY <1>2
<1>8. \A i \in I : /\ called(i) \subseteq G /\ IsFiniteSet(called(i))
                   /\ row(i).identity = i
                   /\ row(i).revenue = Total([g \in called(i) |-> g.revenue])
  BY FS_Subset
<1>9. \A i \in I : m[i] = SumOver(n, called(i)) /\ p[i] = row(i) /\ p[i].identity = i
  BY <1>8
<1>10. p \in Bijection(I, R)
  <2>1. p \in [I -> R]
    <3> SUFFICES ASSUME NEW i \in I
                 PROVE  row(i) \in R
      OBVIOUS
    <3>1. row(i) \in rows /\ row(i).identity = i
      BY <1>1, <1>8
    <3> HIDE DEF row, rows
    <3> QED
      BY <3>1
  <2>2. \A r \in R : \E i \in I : p[i] = r
    <3> SUFFICES ASSUME NEW r \in R
                 PROVE  \E i \in I : p[i] = r
      OBVIOUS
    <3>1. PICK i \in Ids : r = row(i)
      BY <1>1
    <3>2. i \in I
      BY <3>1
    <3> QED
      BY <3>1, <3>2, <1>9
  <2>3. \A i, k \in I : p[i] = p[k] => i = k
    BY <1>9
  <2> HIDE DEF p, I, R
  <2> QED
    BY <2>1, <2>2, <2>3, BijectionIs
<1> HIDE DEF G, H, c, Ids, I, row, rows, n, m, p
<1>11. \A i \in I : m[i] \in Nat /\ v[p[i]] = m[i]
  <2> SUFFICES ASSUME NEW i \in I
               PROVE  m[i] \in Nat /\ v[p[i]] = m[i]
    OBVIOUS
  <2>1. p[i] \in R
    BY <1>10, BijectionIs
  <2>2. v[p[i]] = Total([g \in called(i) |-> g.revenue])
    BY <2>1, <1>8, <1>9
  <2>3. called(i) \subseteq G /\ IsFiniteSet(called(i)) /\ m[i] = SumOver(n, called(i))
    BY <1>8, <1>9
  <2> HIDE DEF called, v
  <2>4. [g \in called(i) |-> g.revenue] = [g \in called(i) |-> n[g]]
    BY <1>2, <2>3
  <2>5. Total([g \in called(i) |-> n[g]]) = SumOver(n, called(i))
    BY TotalOf
  <2>6. SumOver(n, called(i)) \in Nat
    BY <1>2, <2>3, UnitsFinite
  <2> QED
    BY <2>2, <2>3, <2>4, <2>5, <2>6
<1>12. SumOver(n, H) = Total([i \in I |-> SumOver(n, {g \in H : c[g] = i})])
  BY <1>3, <1>5, <1>6, SumByClass
<1>13. DOMAIN m = I /\ DOMAIN v = R
  BY DEF m
<1>14. [i \in I |-> SumOver(n, {g \in H : c[g] = i})] = m
  BY <1>7 DEF m
<1> HIDE DEF R, v
<1>15. SumOver(v, R) = SumOver(m, I)
  BY <1>5, <1>10, <1>11, SumOfImage
<1>16. Total(v) = SumOver(n, H)
  BY <1>12, <1>13, <1>14, <1>15 DEF Total
<1>17. Total([g \in H |-> g.revenue]) = SumOver(n, H)
  <2>1. [g \in H |-> g.revenue] = [g \in H |-> n[g]]
    BY <1>2, <1>3
  <2> QED
    BY <2>1, TotalOf
<1> QED
  BY <1>16, <1>17 DEF H, G, v, R, rows, Revenue, RowsOf, CountedUnder

\* Fewer groups have no more revenue.
LEMMA FewerGroups ==
  ASSUME NEW T, IsFiniteSet(T), \A g \in T : g.revenue \in Nat, NEW S \in SUBSET T
  PROVE  Revenue(S) \in Nat /\ Revenue(T) \in Nat /\ Revenue(S) <= Revenue(T)
<1> DEFINE n == [g \in T |-> g.revenue]
<1>1. IsFiniteSet(S) /\ \A g \in T : n[g] \in Nat
  BY FS_Subset
<1>2. [g \in S |-> g.revenue] = [g \in S |-> n[g]] /\ [g \in T |-> g.revenue] = [g \in T |-> n[g]]
  OBVIOUS
<1> HIDE DEF n
<1>3. Revenue(S) = SumOver(n, S) /\ Revenue(T) = SumOver(n, T)
  BY <1>2, TotalOf DEF Revenue
<1>4. IsFiniteSet(Units(n, T)) /\ SumOver(n, S) \in Nat /\ SumOver(n, T) \in Nat
  BY <1>1, UnitsFinite
<1>5. Units(n, S) \subseteq Units(n, T)
  BY UnitOf
<1>6. Cardinality(Units(n, S)) <= Cardinality(Units(n, T))
  BY <1>4, <1>5, FS_Subset
<1> QED
  BY <1>3, <1>4, <1>6 DEF SumOver

\* What the queries return are groups of lines that count, all of them if none
\* is cut off.
LEMMA FetchedGroups ==
  ASSUME NEW lines, NEW fetched \in Fetched(lines)
  PROVE  LET counted == {l \in lines : l.status \notin CancelledOrDraft}
         IN /\ fetched \subseteq Groups(counted)
            /\ /\ \A c \in Collections : IsFiniteSet(LineGroups(lines, c))
               /\ \A c \in Collections : Cardinality(LineGroups(lines, c)) <= ReportLimit
               => fetched = Groups(counted)
<1> DEFINE counted == {l \in lines : l.status \notin CancelledOrDraft}
<1>1. \A c : LineGroups(lines, c) = LineGroups(counted, c)
  <2> SUFFICES ASSUME NEW c
               PROVE  LineGroups(lines, c) = LineGroups(counted, c)
    OBVIOUS
  <2>1. {l \in lines : l.collection = c /\ l.status \notin CancelledOrDraft}
          = {l \in counted : l.collection = c /\ l.status \notin CancelledOrDraft}
    OBVIOUS
  <2> HIDE DEF counted
  <2> QED
    BY <2>1 DEF LineGroups
<1> HIDE DEF counted
<1>2. PICK x \in Leading(LineGroups(lines, "salesorders")), y \in Leading(LineGroups(lines, "invoices")),
           z \in Leading(LineGroups(lines, "postransactions")) : fetched = x \cup y \cup z
  BY DEF Fetched
<1>3. /\ x \in UpToLimit(LineGroups(lines, "salesorders"))
      /\ y \in UpToLimit(LineGroups(lines, "invoices"))
      /\ z \in UpToLimit(LineGroups(lines, "postransactions"))
  BY DEF Leading
<1>4. \A S : \A T \in UpToLimit(S) : T \subseteq S
  BY DEF UpToLimit, kSubset
<1>5. Groups(counted) = LineGroups(lines, "salesorders") \cup LineGroups(lines, "invoices")
                          \cup LineGroups(lines, "postransactions")
  BY <1>1 DEF Groups, Collections
<1>6. fetched \subseteq Groups(counted)
  BY <1>2, <1>3, <1>4, <1>5
<1>7. ASSUME \A c \in Collections : IsFiniteSet(LineGroups(lines, c)),
             \A c \in Collections : Cardinality(LineGroups(lines, c)) <= ReportLimit
      PROVE  fetched = Groups(counted)
  <2>1. x = LineGroups(lines, "salesorders") /\ y = LineGroups(lines, "invoices")
          /\ z = LineGroups(lines, "postransactions")
    BY <1>3, <1>7, UpToLimitAll DEF Collections
  <2> QED
    BY <1>2, <1>5, <2>1
<1> QED
  BY <1>6, <1>7 DEF counted

LEMMA TopLemma ==
  ASSUME NEW s, ForTopProducts(s)
  PROVE  TopAgrees(s.lines, s.names, s.catalog)
<1> DEFINE lines == {l \in s.lines : l.status \notin CancelledOrDraft}
           names == s.names
           catalog == s.catalog
           counted == {l \in s.lines : l.status \notin CancelledOrDraft /\ l.sku # Missing}
           All == Groups(lines)
           skus == {l.sku : l \in s.lines} \ {Missing}
           Called(g) == Identity(g, names, catalog)
<1>1. /\ IsFiniteSet(s.lines) /\ lines \subseteq s.lines
      /\ \A l \in lines : l.collection \in Collections /\ l.qty \in Nat /\ l.revenue \in Nat
      /\ \A l \in lines : l.status \notin CancelledOrDraft
      /\ \A l \in lines : l \in s.lines
      /\ Missing \notin catalog
      /\ DOMAIN names = Collections \X skus
      /\ counted = {l \in lines : l.sku # Missing}
      /\ \A k : {l \in counted : l.sku = k} = {l \in lines : l.sku # Missing /\ l.sku = k}
  BY DEF ForTopProducts
<1> HIDE DEF lines, names, catalog, counted
<1>2. IsFiniteSet(lines)
  BY <1>1, FS_Subset
<1>2a. \A l \in lines : l.collection \in Collections /\ l.qty \in Nat /\ l.revenue \in Nat
  BY <1>1
<1>2b. \A l \in lines : l.status \notin CancelledOrDraft
  BY <1>1
<1>3. \A g \in All : g.sku \in skus /\ g.collection \in Collections
  <2> SUFFICES ASSUME NEW g \in All
               PROVE  g.sku \in skus /\ g.collection \in Collections
    OBVIOUS
  <2>1. PICK c \in Collections, l \in lines : l.sku # Missing /\ g = GroupOf(lines, c, l.sku)
    BY <1>1, GroupsAre
  <2> QED
    BY <1>1, <2>1 DEF GroupOf
<1>4. /\ IsFiniteSet({g \in All : g.sku \in skus})
      /\ \A g \in All : g.revenue \in Nat
      /\ Revenue({g \in All : g.sku \in skus}) = Revenue({l \in lines : l.sku \in skus})
  <2>1. Missing \notin skus
    OBVIOUS
  <2> HIDE DEF skus
  <2> QED
    BY <1>2, <1>2a, <1>2b, <2>1, GroupsCount
<1>5. {g \in All : g.sku \in skus} = All /\ {l \in lines : l.sku \in skus} = counted
  BY <1>1, <1>3
<1>6. IsFiniteSet(All) /\ Revenue(All) = Revenue(counted)
  BY <1>4, <1>5
<1>7. ASSUME NEW k \in catalog
      PROVE  Revenue({g \in All : g.sku = k}) = Revenue({l \in counted : l.sku = k})
  <2>1. Missing \notin {k}
    BY <1>1
  <2>2. Revenue({g \in All : g.sku \in {k}}) = Revenue({l \in lines : l.sku \in {k}})
    BY <1>2, <1>2a, <1>2b, <2>1, GroupsCount
  <2>3. {l \in lines : l.sku \in {k}} = {l \in counted : l.sku = k}
    BY <1>1, <2>1
  <2>4. {g \in All : g.sku \in {k}} = {g \in All : g.sku = k}
    OBVIOUS
  <2> QED
    BY <2>2, <2>3, <2>4
<1>8. ASSUME NEW groups \in Fetched(s.lines)
      PROVE  LET rows == TopProducts(groups, names, catalog)
             IN /\ groups \subseteq All
                /\ Revenue(rows) = Revenue(groups)
                /\ \A k \in catalog : (\A x \in DOMAIN names : names[x] # k) =>
                     Revenue({r \in rows : r.identity = k}) = Revenue({g \in groups : g.sku = k})
  <2> DEFINE rows == TopProducts(groups, names, catalog)
  <2>1. groups \subseteq All
    BY FetchedGroups DEF lines
  <2>2. IsFiniteSet(groups) /\ \A g \in groups : g.revenue \in Nat
    BY <1>4, <1>6, <2>1, FS_Subset
  <2>3. ASSUME NEW J
        PROVE  Revenue({r \in rows : r.identity \in J}) = Revenue({g \in groups : Called(g) \in J})
    <3>1. Revenue(RowsOf(groups, names, catalog, J)) = Revenue(CountedUnder(groups, names, catalog, J))
      BY <2>2, RowsCount
    <3> QED
      BY <3>1 DEF RowsOf, CountedUnder
  <2>4. Revenue(rows) = Revenue(groups)
    <3> DEFINE J == {Called(g) : g \in groups}
    <3>1. {r \in rows : r.identity \in J} = rows
      <4> DEFINE called(i) == {g \in groups : Called(g) = i}
                 row(i) == [identity |-> i, sold |-> Total([g \in called(i) |-> g.qty]),
                            revenue |-> Total([g \in called(i) |-> g.revenue])]
      <4>1. rows = {row(i) : i \in J}
        BY DEF TopProducts
      <4>2. \A i \in J : row(i).identity = i
        OBVIOUS
      <4> HIDE DEF rows, J, row
      <4> QED
        BY <4>1, <4>2
    <3>2. {g \in groups : Called(g) \in J} = groups
      OBVIOUS
    <3>3. Revenue({r \in rows : r.identity \in J}) = Revenue({g \in groups : Called(g) \in J})
      BY <2>3
    <3> QED
      BY <3>1, <3>2, <3>3
  <2>5. ASSUME NEW k \in catalog, \A x \in DOMAIN names : names[x] # k
        PROVE  Revenue({r \in rows : r.identity = k}) = Revenue({g \in groups : g.sku = k})
    <3>1. \A g \in groups : Called(g) = k <=> g.sku = k
      <4> SUFFICES ASSUME NEW g \in groups
                   PROVE  Called(g) = k <=> g.sku = k
        OBVIOUS
      <4>1. names[<<g.collection, g.sku>>] # k
        BY <1>1, <1>3, <2>1, <2>5
      <4> QED
        BY <4>1 DEF Identity
    <3>2. /\ {r \in rows : r.identity \in {k}} = {r \in rows : r.identity = k}
          /\ {g \in groups : Called(g) \in {k}} = {g \in groups : g.sku = k}
      BY <3>1
    <3>3. Revenue({r \in rows : r.identity \in {k}}) = Revenue({g \in groups : Called(g) \in {k}})
      BY <2>3
    <3> QED
      BY <3>2, <3>3
  <2> HIDE DEF rows
  <2> QED
    BY <2>1, <2>4, <2>5 DEF rows
<1>9. \A c \in Collections : IsFiniteSet(LineGroups(s.lines, c))
  <2> SUFFICES ASSUME NEW c \in Collections
               PROVE  IsFiniteSet(LineGroups(s.lines, c))
    OBVIOUS
  <2>1. LineGroups(s.lines, c) = LineGroups(lines, c)
    <3>1. {l \in s.lines : l.collection = c /\ l.status \notin CancelledOrDraft}
            = {l \in lines : l.collection = c /\ l.status \notin CancelledOrDraft}
      BY DEF lines
    <3> QED
      BY <3>1 DEF LineGroups
  <2>2. LineGroups(lines, c) \subseteq All
    BY DEF Groups
  <2> QED
    BY <1>6, <2>1, <2>2, FS_Subset
<1>10. ASSUME NEW groups \in Fetched(s.lines), \A c \in Collections : Cardinality(LineGroups(s.lines, c)) <= ReportLimit
       PROVE  groups = All
  BY <1>9, <1>10, FetchedGroups DEF lines
<1> HIDE DEF All
<1>11. ASSUME NEW groups \in Fetched(s.lines)
       PROVE  LET rows == TopProducts(groups, names, catalog)
                  known == {k \in catalog : \A x \in DOMAIN names : names[x] # k}
              IN /\ Revenue(rows) <= Revenue(counted)
                 /\ \A k \in known : Revenue({r \in rows : r.identity = k}) <= Revenue({l \in counted : l.sku = k})
                 /\ (\A c \in Collections : Cardinality(LineGroups(s.lines, c)) <= ReportLimit) =>
                      /\ Revenue(rows) = Revenue(counted)
                      /\ \A k \in known : Revenue({r \in rows : r.identity = k}) = Revenue({l \in counted : l.sku = k})
  <2> DEFINE rows == TopProducts(groups, names, catalog)
             known == {k \in catalog : \A x \in DOMAIN names : names[x] # k}
  <2>1. /\ groups \subseteq All /\ Revenue(rows) = Revenue(groups)
        /\ \A k \in known : Revenue({r \in rows : r.identity = k}) = Revenue({g \in groups : g.sku = k})
    BY <1>8
  <2> HIDE DEF rows
  <2>2. Revenue(rows) <= Revenue(counted)
    BY <1>4, <1>6, <2>1, FewerGroups
  <2>3. ASSUME NEW k \in known
        PROVE  Revenue({r \in rows : r.identity = k}) <= Revenue({l \in counted : l.sku = k})
    <3>1. /\ {g \in groups : g.sku = k} \subseteq {g \in All : g.sku = k}
          /\ IsFiniteSet({g \in All : g.sku = k}) /\ \A g \in {x \in All : x.sku = k} : g.revenue \in Nat
      BY <1>4, <1>6, <2>1, FS_Subset
    <3>2. Revenue({g \in groups : g.sku = k}) <= Revenue({g \in All : g.sku = k})
      BY <3>1, FewerGroups
    <3> QED
      BY <1>7, <2>1, <3>2
  <2>4. ASSUME \A c \in Collections : Cardinality(LineGroups(s.lines, c)) <= ReportLimit
        PROVE  /\ Revenue(rows) = Revenue(counted)
               /\ \A k \in known : Revenue({r \in rows : r.identity = k}) = Revenue({l \in counted : l.sku = k})
    <3>1. groups = All
      BY <1>10, <2>4
    <3> QED
      BY <1>6, <1>7, <2>1, <3>1
  <2> QED
    BY <2>2, <2>3, <2>4 DEF rows
<1> QED
  BY <1>11 DEF TopAgrees, Revenue, names, catalog, counted

(* The reports agree with each other and with the documents, whatever the  *)
(* collections hold: every document is counted once, whatever the queries  *)
(* group it by.                                                            *)
THEOREM ReportsAgreeThm == Admissible => ReportsAgree
BY InventoryLemma, PartyLemma, TopLemma DEF Admissible, ReportsAgree

-----------------------------------------------------------------------------
(* The alerts.                                                             *)

\* The sequences of a set have each element once.
LEMMA SeqOfSet ==
  ASSUME NEW S, IsFiniteSet(S), NEW s \in SetToSeqs(S)
  PROVE  /\ s \in Seq(S) /\ Len(s) = Cardinality(S) /\ DOMAIN s = 1..Len(s) /\ Len(s) \in Nat
         /\ \A k, m \in DOMAIN s : s[k] = s[m] => k = m
         /\ \A x \in S : \E k \in DOMAIN s : s[k] = x
<1> DEFINE n == Cardinality(S)
<1>1. n \in Nat
  BY FS_CardinalityType
<1>2. s \in [1..n -> S] /\ \A k, m \in 1..n : s[k] = s[m] => k = m
  BY DEF SetToSeqs
<1> HIDE DEF n
<1>3. s \in Injection(1..n, S)
  BY <1>2 DEF Injection, IsInjective
<1>4. Cardinality(1..n) = n
  BY <1>1, FS_Interval
<1>5. s \in Surjection(1..n, S)
  BY <1>3, <1>4, FS_Injection DEF n
<1>6. \A x \in S : \E k \in 1..n : s[k] = x
  BY <1>1, <1>5 DEF Surjection
<1>7. s \in Seq(S) /\ Len(s) = n /\ DOMAIN s = 1..n
  BY <1>1, <1>2
<1> QED
  BY <1>1, <1>2, <1>6, <1>7 DEF n

LEMMA SetToSeqIs ==
  ASSUME NEW S, IsFiniteSet(S)
  PROVE  SetToSeq(S) \in SetToSeqs(S)
<1> DEFINE n == Cardinality(S)
<1>1. n \in Nat /\ ExistsBijection(1..n, S)
  BY FS_CardinalityType
<1> HIDE DEF n
<1>2. PICK f : f \in Bijection(1..n, S)
  BY <1>1, Fun_ExistsBij
<1>3. f \in [1..n -> S] /\ IsInjective(f)
  BY <1>2 DEF Bijection, Injection
<1>4. SetToSeq(S) \in [1..n -> S] /\ IsInjective(SetToSeq(S))
  BY <1>3 DEF SetToSeq, n
<1> QED
  BY <1>4 DEF SetToSeqs, IsInjective, n

LEMMA TypesFinite == IsFiniteSet(Types)
<1>1. Types = {"product"} \cup {"rawMaterial"} \cup {"semiFinished"} \cup {"finishedGood"}
  BY DEF Types
<1>2. /\ IsFiniteSet({"product"}) /\ IsFiniteSet({"rawMaterial"})
      /\ IsFiniteSet({"semiFinished"}) /\ IsFiniteSet({"finishedGood"})
  BY FS_Singleton
<1>3. IsFiniteSet({"product"} \cup {"rawMaterial"})
  BY <1>2, FS_Union
<1>4. IsFiniteSet({"product"} \cup {"rawMaterial"} \cup {"semiFinished"})
  BY <1>2, <1>3, FS_Union
<1>5. IsFiniteSet({"product"} \cup {"rawMaterial"} \cup {"semiFinished"} \cup {"finishedGood"})
  BY <1>2, <1>4, FS_Union
<1> QED
  BY <1>1, <1>5

\* All items that are low.
AllLow(items) == UNION {Low(items, t) : t \in Types}

LEMMA LowIs ==
  ASSUME NEW items \in Seq(ListedItem)
  PROVE  /\ \A t \in Types : IsFiniteSet(Low(items, t))
         /\ IsFiniteSet(AllLow(items)) /\ AllLow(items) \subseteq DOMAIN items
         /\ Cardinality(AllLow(items)) = CountLowStock(items)
         /\ \A i \in AllLow(items) : /\ items[i] \in ListedItem
                                     /\ IsQtyLowStock(items[i].qty, ResolveMin(items[i]))
<1>1. DOMAIN items = 1..Len(items) /\ Len(items) \in Nat /\ \A i \in DOMAIN items : items[i] \in ListedItem
  OBVIOUS
<1>2. IsFiniteSet(DOMAIN items)
  BY <1>1, FS_Interval
<1> DEFINE X == [t \in Types |-> Low(items, t)]
<1>3. \A t \in Types : X[t] = Low(items, t) /\ Low(items, t) \subseteq DOMAIN items
  BY DEF Low
<1>4. \A t \in Types : IsFiniteSet(Low(items, t))
  BY <1>2, <1>3, FS_Subset
<1>5. \A t, u \in Types : t # u => X[t] \cap X[u] = {}
  BY <1>3 DEF Low
<1>6. \A t \in Types : IsFiniteSet(X[t])
  BY <1>3, <1>4
<1>7. /\ UNION {X[t] : t \in Types} = AllLow(items)
      /\ [t \in Types |-> Cardinality(X[t])] = [t \in Types |-> Cardinality(Low(items, t))]
  BY <1>3 DEF AllLow
<1> HIDE DEF X
<1>8. /\ IsFiniteSet(UNION {X[t] : t \in Types})
      /\ Cardinality(UNION {X[t] : t \in Types}) = Total([t \in Types |-> Cardinality(X[t])])
  BY <1>5, <1>6, TypesFinite, CountParts
<1>9. ASSUME NEW i \in AllLow(items)
      PROVE  /\ i \in DOMAIN items
             /\ items[i] \in ListedItem
             /\ IsQtyLowStock(items[i].qty, ResolveMin(items[i]))
  <2>1. i \in DOMAIN items /\ LowFilter(items[i])
    BY DEF AllLow, Low
  <2> QED
    BY <1>1, <2>1 DEF LowFilter, IsQtyLowStock, ResolveMin
<1> QED
  BY <1>4, <1>7, <1>8, <1>9 DEF CountLowStock

LEMMA LeastIs ==
  ASSUME NEW m \in Nat, NEW n \in Nat
  PROVE  Least(m, n) \in Nat /\ Least(m, n) <= m /\ Least(m, n) <= n /\ Least(m, n) \in {m, n}
BY DEF Least

\* What the queries find, and that they find everything if none is cut off.
LEMMA CutOffIs ==
  ASSUME NEW items \in Seq(ListedItem), NEW cap \in Nat, NEW found \in CutOff(items, Types, cap)
  PROVE  /\ found \subseteq AllLow(items) /\ IsFiniteSet(found)
         /\ (\A t \in Types : Cardinality(Low(items, t)) <= cap) => found = AllLow(items)
<1>1. found \subseteq AllLow(items) /\ IsFiniteSet(found)
  BY LowIs, FS_Subset DEF CutOff, AllLow
<1>2. ASSUME \A t \in Types : Cardinality(Low(items, t)) <= cap
      PROVE  AllLow(items) \subseteq found
  <2>1. ASSUME NEW t \in Types
        PROVE  Low(items, t) \subseteq found
    <3>1. IsFiniteSet(Low(items, t)) /\ Cardinality(Low(items, t)) \in Nat
      BY LowIs, FS_CardinalityType
    <3>2. Cardinality(found \cap Low(items, t)) = Cardinality(Low(items, t))
      BY <1>2, <3>1 DEF CutOff, Least
    <3>3. found \cap Low(items, t) = Low(items, t)
      BY <3>1, <3>2, FS_Subset
    <3> QED
      BY <3>3
  <2> QED
    BY <2>1 DEF AllLow
<1> QED
  BY <1>1, <1>2

\* The rows of the list stand for the items found, one each.
LEMMA RowsStand ==
  ASSUME NEW items, NEW found, IsFiniteSet(found),
         NEW s \in SetToSeqs({AlertRow(items, i) : i \in found})
  PROVE  /\ s \in Seq({AlertRow(items, i) : i \in found})
         /\ DOMAIN s = 1..Len(s) /\ Len(s) = Cardinality(found)
         /\ \A k \in DOMAIN s : \E i \in found : s[k] = AlertRow(items, i) /\ s[k].name = i
         /\ \A i \in found : \E k \in DOMAIN s : s[k].name = i
<1> DEFINE S == {AlertRow(items, i) : i \in found}
           row == [i \in found |-> AlertRow(items, i)]
<1>1. \A i : AlertRow(items, i).name = i
  BY DEF AlertRow
<1>2. /\ row \in [found -> S]
      /\ \A i, j \in found : row[i] = row[j] => i = j
      /\ \A x \in S : \E i \in found : row[i] = x
  BY <1>1
<1>3. S = {row[i] : i \in found} /\ \A i \in found : row[i] = AlertRow(items, i)
  OBVIOUS
<1> HIDE DEF S, row
<1>4. row \in Bijection(found, S)
  BY <1>2, BijectionIs
<1>5. ExistsBijection(found, S)
  BY <1>4, Fun_ExistsBij
<1>6. IsFiniteSet(S) /\ Cardinality(S) = Cardinality(found)
  BY <1>5, FS_Bijection
<1>7. /\ s \in Seq(S) /\ Len(s) = Cardinality(S) /\ DOMAIN s = 1..Len(s)
      /\ \A x \in S : \E k \in DOMAIN s : s[k] = x
  BY <1>6, SeqOfSet DEF S
<1>8. \A k \in DOMAIN s : s[k] \in S
  BY <1>7
<1>9. \A k \in DOMAIN s : \E i \in found : s[k] = AlertRow(items, i) /\ s[k].name = i
  BY <1>1, <1>3, <1>8
<1>10. \A i \in found : \E k \in DOMAIN s : s[k].name = i
  BY <1>1, <1>3, <1>7
<1> QED
  BY <1>6, <1>7, <1>9, <1>10 DEF S

\* A ratio has the sign of the time left.
LEMMA RatioIs ==
  ASSUME NEW items, NEW i, items[i] \in ListedItem
  PROVE  LET r == AlertRow(items, i)
         IN \/ r.ratio = NoTarget /\ ~r.overdue
            \/ r.ratio \in Int /\ (r.overdue <=> r.ratio < 0)
<1> DEFINE e == items[i].expected
           l == items[i].elapsed
<1>1. e \in Nat /\ l \in Nat /\ (e = 0 \/ Scale % e = 0)
  BY DEF ListedItem
<1> HIDE DEF e, l
<1>2. CASE e = 0
  BY <1>2 DEF AlertRow, Measures, e
<1>3. CASE e # 0
  <2> DEFINE q == Scale \div e
             a == e - l
  <2>1. Scale \in Nat \ {0}
    BY DurationAssumption
  <2>2. q \in Int /\ Scale = e * q + (Scale % e)
    BY <1>1, <1>3, <2>1
  <2>3. q > 0
    <3> HIDE DEF q
    <3>1. e * q = Scale
      BY <1>1, <1>3, <2>1, <2>2
    <3>2. CASE q <= 0
      <4>1. e * q <= 0
        BY <1>1, <2>2, <3>2
      <4> QED
        BY <2>1, <3>1, <4>1
    <3> QED
      BY <2>2, <3>2
  <2> HIDE DEF q
  <2>4. a \in Int
    BY <1>1
  <2> HIDE DEF a
  <2>5. a * q \in Int /\ (a < 0 <=> a * q < 0)
    <3>1. a < 0 => a * q < 0
      BY <2>2, <2>3, <2>4
    <3>2. a >= 0 => a * q >= 0
      BY <2>2, <2>3, <2>4
    <3> QED
      BY <2>2, <2>4, <3>1, <3>2
  <2>6. a < 0 <=> l > e
    BY <1>1 DEF a
  <2>7. AlertRow(items, i).ratio = a * q /\ AlertRow(items, i).overdue = (l > e)
    BY <1>3 DEF AlertRow, Measures, a, q, e, l
  <2> QED
    BY <2>5, <2>6, <2>7
<1> QED
  BY <1>2, <1>3

\* What the order of the list means.
LEMMA CompareIs ==
  ASSUME NEW a, NEW b, Compare(a, b) <= 0,
         (a.ratio = NoTarget /\ ~a.overdue) \/ (a.ratio \in Int /\ (a.overdue <=> a.ratio < 0)),
         (b.ratio = NoTarget /\ ~b.overdue) \/ (b.ratio \in Int /\ (b.overdue <=> b.ratio < 0))
  PROVE  /\ b.overdue => a.overdue
         /\ a.ratio \in Nat /\ b.ratio \in Nat => a.ratio >= b.ratio
<1>1. NoTarget \notin Int
  BY DurationAssumption
<1> DEFINE x == a.ratio
           y == b.ratio
<1>2. CASE x = NoTarget
  BY <1>1, <1>2 DEF Compare
<1>3. CASE y = NoTarget
  BY <1>1, <1>3 DEF Compare
<1>4. CASE x \in Int /\ y \in Int
  <2>1. Compare(a, b) = IF (x < 0) # (y < 0) THEN (IF x < 0 THEN -1 ELSE 1)
                        ELSE IF x = y THEN Before(a.name, b.name)
                        ELSE IF x < 0 THEN Before(x, y) ELSE Before(y, x)
    BY <1>1, <1>4 DEF Compare
  <2> HIDE DEF x, y
  <2>2. y < 0 => x < 0
    BY <1>4, <2>1
  <2>3. x >= 0 /\ y >= 0 => x >= y
    BY <1>4, <2>1 DEF Before
  <2> QED
    BY <1>1, <1>4, <2>2, <2>3 DEF x, y
<1> QED
  BY <1>2, <1>3, <1>4

\* Functions that grow by one part at a time in the same way are the same.
LEMMA GrowAlike ==
  ASSUME NEW n \in Nat \ {0}, NEW seqs, NEW f, NEW g,
         \A i \in 1..n : f[i] = IF i = 1 THEN seqs[i] ELSE f[i - 1] \o seqs[i],
         \A i \in 1..n : g[i] = IF i = 1 THEN seqs[i] ELSE g[i - 1] \o seqs[i]
  PROVE  f[n] = g[n]
<1> DEFINE T == {i \in 1..n : g[i] # f[i]}
<1>1. CASE T # {}
  <2>1. T \in SUBSET Nat
    OBVIOUS
  <2>2. PICK i \in T : \A j \in T : i <= j
    <3> HIDE DEF T
    <3> QED
      BY <1>1, <2>1, LeastNumber
  <2>3. i \in 1..n
    OBVIOUS
  <2>4. CASE i = 1
    BY <2>3, <2>4
  <2>5. CASE i # 1
    <3>1. i - 1 \in 1..n /\ i - 1 \notin T
      BY <2>2, <2>3, <2>5
    <3>2. f[i - 1] = g[i - 1]
      BY <3>1
    <3>3. f[i] = f[i - 1] \o seqs[i] /\ g[i] = g[i - 1] \o seqs[i]
      BY <2>3, <2>5
    <3> QED
      BY <3>2, <3>3
  <2> QED
    BY <2>4, <2>5
<1>2. CASE T = {}
  BY <1>2
<1> QED
  BY <1>1, <1>2

\* FlattenSeq is any function that grows so.
LEMMA FlattenIs ==
  ASSUME NEW n \in Nat \ {0}, NEW seqs, Len(seqs) = n,
         NEW f, f = [i \in 1..n |-> IF i = 1 THEN seqs[i] ELSE f[i - 1] \o seqs[i]]
  PROVE  FlattenSeq(seqs) = f[n]
<1> DEFINE g == CHOOSE h : h = [i \in 1..n |-> IF i = 1 THEN seqs[i] ELSE h[i - 1] \o seqs[i]]
<1>1. g = [i \in 1..n |-> IF i = 1 THEN seqs[i] ELSE g[i - 1] \o seqs[i]]
  OBVIOUS
<1>2. FlattenSeq(seqs) = g[n]
  BY DEF FlattenSeq
<1> HIDE DEF g
<1>3. \A i \in 1..n : g[i] = IF i = 1 THEN seqs[i] ELSE g[i - 1] \o seqs[i]
  BY <1>1
<1>4. \A i \in 1..n : f[i] = IF i = 1 THEN seqs[i] ELSE f[i - 1] \o seqs[i]
  OBVIOUS
<1>5. f[n] = g[n]
  BY ONLY n \in Nat \ {0}, <1>3, <1>4, GrowAlike
<1> QED
  BY <1>2, <1>5

LEMMA JoinParts ==
  ASSUME NEW S, NEW s \in Seq(S), NEW a \in Nat, NEW b \in Nat, a <= b, b <= Len(s)
  PROVE  SubSeq(s, 1, a) \o SubSeq(s, a + 1, b) = SubSeq(s, 1, b)
<1> DEFINE u == SubSeq(s, 1, a)
           v == SubSeq(s, a + 1, b)
           w == SubSeq(s, 1, b)
<1>1. Len(s) \in Nat /\ \A i \in 1..Len(s) : s[i] \in S
  OBVIOUS
<1>2. u \in Seq(S) /\ Len(u) = a /\ \A i \in 1..a : u[i] = s[i]
  BY <1>1, SubSeqProperties
<1>3. v \in Seq(S) /\ Len(v) = b - a /\ \A i \in 1..b - a : v[i] = s[a + i]
  <2>1. \A i \in (a + 1)..b : s[i] \in S
    BY <1>1
  <2>2. a + 1 \in Int /\ b \in Int
    OBVIOUS
  <2>3. /\ v \in Seq(S) /\ Len(v) = IF a + 1 <= b THEN b - (a + 1) + 1 ELSE 0
        /\ \A i \in 1..b - (a + 1) + 1 : v[i] = s[(a + 1) + i - 1]
    BY <2>1, <2>2, SubSeqProperties
  <2>4. b - (a + 1) + 1 = b - a
    OBVIOUS
  <2>5. \A i \in 1..b - a : v[i] = s[a + i]
    BY <2>3, <2>4
  <2> QED
    BY <2>3, <2>5
<1>4. w \in Seq(S) /\ Len(w) = b /\ \A i \in 1..b : w[i] = s[i]
  BY <1>1, SubSeqProperties
<1> HIDE DEF u, v, w
<1>5. /\ u \o v \in Seq(S) /\ Len(u \o v) = b
      /\ \A i \in 1..b : (u \o v)[i] = IF i <= a THEN u[i] ELSE v[i - a]
  <2>1. Len(u) + Len(v) = b
    BY <1>2, <1>3
  <2> QED
    BY ZenonT(30), <1>2, <1>3, <2>1, ConcatProperties
<1>6. ASSUME NEW i \in 1..b
      PROVE  (u \o v)[i] = w[i]
  <2>1. CASE i <= a
    BY <1>2, <1>4, <1>5, <2>1
  <2>2. CASE i > a
    <3>1. (u \o v)[i] = v[i - a]
      BY SMTT(30), <1>5, <2>2
    <3>2. i - a \in 1..b - a /\ a + (i - a) = i
      BY <2>2
    <3>3. v[i - a] = s[a + (i - a)]
      BY <1>3, <3>2
    <3> QED
      BY <1>4, <3>1, <3>2, <3>3
  <2>3. i <= a \/ i > a
    OBVIOUS
  <2> QED
    BY <2>1, <2>2, <2>3
<1>7. u \o v = w
  BY <1>4, <1>5, <1>6, SeqEqual
<1> QED
  BY <1>7 DEF u, v, w

\* The pages together are the list, at any page size.
LEMMA PagesTogether ==
  ASSUME NEW S, NEW rows \in Seq(S), NEW limit \in Nat \ {0}
  PROVE  FlattenSeq([p \in 1..TotalPages(Len(rows), limit) |-> Page(rows, p, limit)]) = rows
<1> DEFINE total == Len(rows)
           n == TotalPages(total, limit)
           seqs == [p \in 1..n |-> Page(rows, p, limit)]
           f == [i \in 1..n |-> SubSeq(rows, 1, Least(i * limit, total))]
<1>1. total \in Nat
  OBVIOUS
<1>2. /\ n \in Nat \ {0} /\ n * limit >= total
      /\ \A i \in 1..n : i # 1 => (i - 1) * limit < total
  <2>1. CASE total = 0
    <3>1. n = 1
      BY <2>1 DEF TotalPages
    <3>2. 1 * limit >= 0
      OBVIOUS
    <3> HIDE DEF n, total
    <3> QED
      BY <2>1, <3>1, <3>2
  <2>2. CASE total # 0
    <3> DEFINE a == total + limit - 1
    <3>1. a \in Nat /\ a >= limit
      BY <1>1, <2>2
    <3>2. n = a \div limit
      BY <2>2 DEF TotalPages
    <3> HIDE DEF n, total, a
    <3>3. n \in Int /\ a % limit \in 0..limit - 1 /\ a = limit * n + (a % limit)
      BY <3>1, <3>2
    <3>4. n * limit = limit * n
      BY <3>3
    <3>5. n >= 1
      <4>1. CASE n <= 0
        <5>1. limit * n <= 0
          BY <3>3, <4>1
        <5> QED
          BY <3>1, <3>3, <5>1
      <4> QED
        BY <3>3, <4>1
    <3>6. n * limit >= total
      BY <1>1, <3>3, <3>4 DEF a
    <3>7. ASSUME NEW i \in 1..n, i # 1
          PROVE  (i - 1) * limit < total
      <4> DEFINE x == (i - 1) * limit
                 y == n * limit
      <4>1. y - x = (n - i + 1) * limit
        BY <3>3
      <4>2. n - i + 1 >= 1
        BY <3>3
      <4>3. (n - i + 1) * limit >= limit
        BY <3>3, <4>2
      <4>4. x \in Int /\ y \in Int
        BY <3>3
      <4> HIDE DEF x, y
      <4>5. y <= a
        BY <3>3, <3>4 DEF y
      <4>6. x <= a - limit
        BY <3>1, <4>1, <4>3, <4>4, <4>5
      <4> QED
        BY <1>1, <4>4, <4>6 DEF a, x
    <3> QED
      BY <3>3, <3>5, <3>6, <3>7
  <2> QED
    BY <2>1, <2>2
<1>3. Len(seqs) = n
  BY <1>2
<1> HIDE DEF n
<1>4. ASSUME NEW i \in 1..n
      PROVE  f[i] = IF i = 1 THEN seqs[i] ELSE f[i - 1] \o seqs[i]
  <2> DEFINE b == Least(i * limit, total)
  <2>1. i \in Nat /\ i * limit \in Nat /\ (i - 1) * limit = i * limit - limit
    BY <1>2
  <2>2. b \in Nat /\ b <= total /\ b <= i * limit
    BY <1>1, <2>1, LeastIs
  <2>3. seqs[i] = SubSeq(rows, (i - 1) * limit + 1, b)
    BY DEF Page
  <2>4. f[i] = SubSeq(rows, 1, b)
    OBVIOUS
  <2>5. CASE i = 1
    <3>1. (i - 1) * limit + 1 = 1
      BY <2>5
    <3> QED
      BY <2>3, <2>4, <2>5, <3>1
  <2>6. CASE i # 1
    <3> DEFINE c == (i - 1) * limit
    <3>1. c \in Nat /\ c < total /\ c <= i * limit /\ i - 1 \in 1..n
      <4>1. i - 1 \in Nat /\ i - 1 \in 1..n
        BY <1>2, <2>6
      <4>2. c \in Nat
        BY <4>1
      <4> QED
        BY <1>2, <2>1, <2>6, <4>1, <4>2
    <3>2. Least(c, total) = c
      BY <3>1 DEF Least
    <3>3. f[i - 1] = SubSeq(rows, 1, Least(c, total))
      BY <3>1
    <3>4. c <= b
      BY <1>1, <2>1, <3>1 DEF Least
    <3> HIDE DEF b, c, total, f, seqs
    <3>5. SubSeq(rows, 1, c) \o SubSeq(rows, c + 1, b) = SubSeq(rows, 1, b)
      BY <2>2, <3>1, <3>4, JoinParts DEF total
    <3>6. f[i - 1] \o seqs[i] = f[i]
      BY <2>3, <2>4, <3>2, <3>3, <3>5 DEF c
    <3> QED
      BY <2>6, <3>6
  <2> QED
    BY <2>5, <2>6
<1>5. f = [i \in 1..n |-> IF i = 1 THEN seqs[i] ELSE f[i - 1] \o seqs[i]]
  <2>1. f = [i \in 1..n |-> f[i]]
    OBVIOUS
  <2> HIDE DEF f, seqs
  <2> QED
    BY <1>4, <2>1
<1>6. f[n] = rows
  <2>1. n \in 1..n /\ n * limit \in Nat
    BY <1>2
  <2>2. Least(n * limit, total) = total
    BY <1>1, <1>2, <2>1 DEF Least
  <2>3. f[n] = SubSeq(rows, 1, total)
    BY <2>1, <2>2
  <2> QED
    BY <2>3, SubSeqFull
<1> HIDE DEF f, seqs
<1>7. FlattenSeq(seqs) = f[n]
  BY ZenonT(30), <1>2, <1>3, <1>5, FlattenIs
<1> QED
  BY <1>6, <1>7 DEF seqs, n

LEMMA ListLemma ==
  ASSUME NEW items \in Seq(ListedItem)
  PROVE  ListExact(items)
<1> SUFFICES ASSUME NEW rows \in AlertLists(items, Types)
             PROVE  /\ (\A t \in Types : Cardinality(Low(items, t)) <= ListCap) =>
                         {rows[k].name : k \in DOMAIN rows} = UNION {Low(items, t) : t \in Types}
                         /\ Counts(rows).total = CountLowStock(items)
                    /\ \A k \in DOMAIN rows : IsQtyLowStock(rows[k].qty, rows[k].min)
                    /\ \A k, m \in DOMAIN rows : k < m =>
                         /\ rows[m].overdue => rows[k].overdue
                         /\ {rows[k].ratio, rows[m].ratio} \subseteq Nat => rows[k].ratio >= rows[m].ratio
                    /\ \A limit \in 1..3 :
                         FlattenSeq([p \in 1..TotalPages(Len(rows), limit) |-> Page(rows, p, limit)]) = rows
  BY DEF ListExact
<1>1. PICK found \in CutOff(items, Types, ListCap) :
        rows \in Sorted({AlertRow(items, i) : i \in found})
  BY DEF AlertLists
<1>2. /\ rows \in SetToSeqs({AlertRow(items, i) : i \in found})
      /\ \A k, m \in DOMAIN rows : k < m => Compare(rows[k], rows[m]) <= 0
  BY <1>1 DEF Sorted
<1>3. ListCap \in Nat
  BY AlertsAssumption
<1>4. /\ found \subseteq AllLow(items) /\ IsFiniteSet(found)
      /\ (\A t \in Types : Cardinality(Low(items, t)) <= ListCap) => found = AllLow(items)
  BY <1>3, CutOffIs
<1>5. /\ rows \in Seq({AlertRow(items, i) : i \in found})
      /\ DOMAIN rows = 1..Len(rows) /\ Len(rows) = Cardinality(found)
      /\ \A k \in DOMAIN rows : \E i \in found : rows[k] = AlertRow(items, i) /\ rows[k].name = i
      /\ \A i \in found : \E k \in DOMAIN rows : rows[k].name = i
  BY <1>2, <1>4, RowsStand
<1>6. ASSUME \A t \in Types : Cardinality(Low(items, t)) <= ListCap
      PROVE  /\ {rows[k].name : k \in DOMAIN rows} = UNION {Low(items, t) : t \in Types}
             /\ Counts(rows).total = CountLowStock(items)
  <2>1. found = AllLow(items)
    BY <1>4, <1>6
  <2>2. {rows[k].name : k \in DOMAIN rows} = found
    BY <1>5
  <2>3. Counts(rows).total = Cardinality(found)
    BY <1>5 DEF Counts
  <2> QED
    BY <2>1, <2>2, <2>3, LowIs DEF AllLow
<1>7. ASSUME NEW k \in DOMAIN rows
      PROVE  /\ IsQtyLowStock(rows[k].qty, rows[k].min)
             /\ \/ rows[k].ratio = NoTarget /\ ~rows[k].overdue
                \/ rows[k].ratio \in Int /\ (rows[k].overdue <=> rows[k].ratio < 0)
  <2>1. PICK i \in found : rows[k] = AlertRow(items, i)
    BY <1>5
  <2>2. items[i] \in ListedItem /\ IsQtyLowStock(items[i].qty, ResolveMin(items[i]))
    BY <1>4, LowIs
  <2>3. rows[k].qty = items[i].qty /\ rows[k].min = ResolveMin(items[i])
    BY <2>1 DEF AlertRow
  <2> QED
    BY <2>1, <2>2, <2>3, RatioIs
<1>8. ASSUME NEW k \in DOMAIN rows, NEW m \in DOMAIN rows, k < m
      PROVE  /\ rows[m].overdue => rows[k].overdue
             /\ {rows[k].ratio, rows[m].ratio} \subseteq Nat => rows[k].ratio >= rows[m].ratio
  <2>1. Compare(rows[k], rows[m]) <= 0
    BY <1>2, <1>8
  <2>2. /\ \/ rows[k].ratio = NoTarget /\ ~rows[k].overdue
           \/ rows[k].ratio \in Int /\ (rows[k].overdue <=> rows[k].ratio < 0)
        /\ \/ rows[m].ratio = NoTarget /\ ~rows[m].overdue
           \/ rows[m].ratio \in Int /\ (rows[m].overdue <=> rows[m].ratio < 0)
    BY <1>7
  <2> QED
    <3> DEFINE x == rows[k]
               y == rows[m]
    <3>1. /\ Compare(x, y) <= 0
          /\ ((x.ratio = NoTarget /\ ~x.overdue) \/ (x.ratio \in Int /\ (x.overdue <=> x.ratio < 0)))
          /\ ((y.ratio = NoTarget /\ ~y.overdue) \/ (y.ratio \in Int /\ (y.overdue <=> y.ratio < 0)))
      BY <2>1, <2>2
    <3> HIDE DEF x, y
    <3>2. y.overdue => x.overdue
      BY <3>1, CompareIs
    <3>3. x.ratio \in Nat /\ y.ratio \in Nat => x.ratio >= y.ratio
      BY <3>1, CompareIs
    <3> QED
      BY <3>2, <3>3 DEF x, y
<1>9. ASSUME NEW limit \in 1..3
      PROVE  FlattenSeq([p \in 1..TotalPages(Len(rows), limit) |-> Page(rows, p, limit)]) = rows
  <2>1. limit \in Nat \ {0}
    OBVIOUS
  <2> QED
    BY <1>5, <2>1, PagesTogether
<1> QED
  BY <1>6, <1>7, <1>8, <1>9

\* What is sorted by rank leads with what ranks highest.
LEMMA FirstRanks ==
  ASSUME NEW S, IsFiniteSet(S), S # {}, NEW s \in ByRank(S), \A x \in S : x.rank \in Int
  PROVE  /\ DOMAIN s = 1..Len(s) /\ Len(s) \in Nat \ {0} /\ s[1] \in S
         /\ \A x \in S : s[1].rank >= x.rank
<1>1. s \in SetToSeqs(S) /\ \A k, m \in DOMAIN s : k < m => s[k].rank >= s[m].rank
  BY DEF ByRank
<1>2. /\ s \in Seq(S) /\ DOMAIN s = 1..Len(s) /\ Len(s) \in Nat
      /\ \A x \in S : \E k \in DOMAIN s : s[k] = x
  BY <1>1, SeqOfSet
<1>3. Len(s) # 0
  BY <1>2
<1>4. 1 \in DOMAIN s /\ s[1] \in S
  BY <1>2, <1>3
<1>5. ASSUME NEW x \in S
      PROVE  s[1].rank >= x.rank
  <2>1. PICK k \in DOMAIN s : s[k] = x
    BY <1>2
  <2>2. CASE k = 1
    BY <1>4, <2>1, <2>2
  <2>3. CASE k # 1
    BY <1>1, <1>2, <1>4, <2>1, <2>3
  <2> QED
    BY <2>2, <2>3
<1> QED
  BY <1>2, <1>3, <1>4, <1>5

LEMMA PreviewLemma ==
  ASSUME NEW items \in Seq(ListedItem)
  PROVE  PreviewExact(items)
<1> SUFFICES ASSUME NEW b \in LowStockBuckets(items),
                    \A t \in Types : Cardinality(Low(items, t)) <= PreviewCap
             PROVE  /\ b.count = CountLowStock(items)
                    /\ /\ \E t \in Types : \E i \in Low(items, t) : items[i].qty <= 1
                       /\ \A t \in Types : \A i \in Low(items, t) : Need(items[i]) < Urgent
                       => b.items[1].priority = "critical" /\ HighestPriority(b.items) = "critical"
  BY DEF PreviewExact
<1>1. PreviewCap \in Nat \ {0} /\ Urgent \in Nat
  BY AlertsAssumption
<1>2. PICK found \in CutOff(items, Types, PreviewCap) :
        b \in [count : {Cardinality(found)}, items : Previews({StockItem(items, i) : i \in found})]
  BY DEF LowStockBuckets
<1>3. found = AllLow(items) /\ IsFiniteSet(found)
  BY <1>1, CutOffIs
<1>4. b.count = CountLowStock(items)
  BY <1>2, <1>3, LowIs
<1>5. ASSUME \E t \in Types : \E i \in Low(items, t) : items[i].qty <= 1,
             \A t \in Types : \A i \in Low(items, t) : Need(items[i]) < Urgent
      PROVE  b.items[1].priority = "critical" /\ HighestPriority(b.items) = "critical"
  <2> DEFINE item == [i \in found |-> StockItem(items, i)]
             S == {StockItem(items, i) : i \in found}
  <2>1. PICK s \in ByRank(S) : b.items = First(s)
    BY <1>2 DEF Previews
  <2>2. PICK j \in found : items[j].qty <= 1
    BY <1>3, <1>5 DEF AllLow
  <2>3. \A i \in found : Need(items[i]) < Urgent /\ items[i] \in ListedItem
    BY <1>3, <1>5, LowIs DEF AllLow
  <2>4. \A i \in found : Need(items[i]) \in Nat /\ items[i].qty \in Nat
    BY <2>3 DEF Need, ResolveMin, ListedItem
  <2>5. \A i \in found :
          /\ item[i].rank = Need(items[i]) + (IF items[i].qty <= 1 THEN Urgent ELSE 0)
          /\ item[i].priority = IF items[i].qty <= 1 THEN "critical" ELSE "warning"
    BY DEF StockItem
  <2>6. S = {item[i] : i \in found}
    OBVIOUS
  <2>7. IsFiniteSet(S)
    <3>1. item \in Surjection(found, S)
      BY DEF Surjection
    <3> HIDE DEF item, S
    <3> QED
      BY <1>3, <3>1, FS_Surjection
  <2> HIDE DEF item, S
  <2>8. \A x \in S : x.rank \in Int
    BY <1>1, <2>4, <2>5, <2>6
  <2>9. /\ DOMAIN s = 1..Len(s) /\ Len(s) \in Nat \ {0} /\ s[1] \in S
        /\ \A x \in S : s[1].rank >= x.rank
    BY ZenonT(30), <2>1, <2>2, <2>6, <2>7, <2>8, FirstRanks
  <2>10. PICK i \in found : s[1] = item[i]
    BY <2>6, <2>9
  <2>11. item[i].rank >= item[j].rank
    BY <2>2, <2>6, <2>9, <2>10
  <2>12. item[j].rank >= Urgent
    BY <1>1, <2>2, <2>4, <2>5
  <2>13. items[i].qty <= 1
    <3>1. CASE ~(items[i].qty <= 1)
      <4>1. item[i].rank = Need(items[i])
        BY <2>4, <2>5, <3>1
      <4>2. item[j].rank = Need(items[j]) + Urgent
        BY <2>2, <2>5
      <4> QED
        BY <1>1, <2>3, <2>4, <2>11, <4>1, <4>2
    <3> QED
      BY <3>1
  <2>14. s[1].priority = "critical"
    BY <2>5, <2>10, <2>13
  <2> DEFINE n == Least(Len(s), PreviewCap)
  <2>15. n \in Nat /\ n >= 1 /\ n <= Len(s)
    BY <1>1, <2>9 DEF Least
  <2>16. First(s) = SubSeq(s, 1, n)
    BY DEF First
  <2> HIDE DEF n
  <2>17. 1 \in DOMAIN First(s) /\ First(s)[1] = s[1]
    BY <2>15, <2>16
  <2>18. HighestPriority(First(s)) = "critical"
    BY <2>14, <2>17 DEF HighestPriority
  <2> QED
    BY <2>1, <2>14, <2>17, <2>18
<1> QED
  BY <1>4, <1>5

LEMMA SummariesLemma ==
  ASSUME NEW docs \in Seq(AlertDocument)
  PROVE  SummariesExact(docs)
<1> SUFFICES ASSUME NEW c \in {docs[i].category : i \in DOMAIN docs}, NEW b \in Buckets(docs, c)
             PROVE  LET found == {i \in DOMAIN docs : docs[i].category = c /\ Wanted(docs[i])}
                        row == [category |-> c, count |-> Cardinality(found),
                                priority |-> HighestPriority(b.items)]
                    IN /\ Summaries([x \in {c} |-> b]) = IF found = {} THEN {} ELSE {row}
                       /\ Len(b.items) <= b.count
                       /\ Cardinality(found) <= PreviewCap =>
                            (row.priority = "critical" <=> \E i \in found : Priority(docs[i]) = "critical")
  BY DEF SummariesExact
<1> DEFINE found == {i \in DOMAIN docs : docs[i].category = c /\ Wanted(docs[i])}
           row == [category |-> c, count |-> Cardinality(found), priority |-> HighestPriority(b.items)]
           item(i) == [of |-> i, priority |-> Priority(docs[i]), rank |-> 0]
<1>1. DOMAIN docs = 1..Len(docs) /\ Len(docs) \in Nat /\ \A i \in DOMAIN docs : docs[i] \in AlertDocument
  OBVIOUS
<1>2. IsFiniteSet(found)
  <2>1. IsFiniteSet(DOMAIN docs)
    BY <1>1, FS_Interval
  <2> QED
    BY <2>1, FS_Subset
<1>3. PICK some \in Capped(found, PreviewCap) :
        b = [count |-> Cardinality(found),
             items |-> SetToSeq({item(i) : i \in {x \in some : Presented(docs[x])}})]
  BY DEF Buckets
<1> DEFINE shown == {x \in some : Presented(docs[x])}
           S == {item(i) : i \in shown}
           it == [i \in shown |-> item(i)]
<1>4. Cardinality(found) \in Nat /\ PreviewCap \in Nat
  BY <1>2, FS_CardinalityType, AlertsAssumption
<1>5. some \in SUBSET found /\ (Cardinality(found) <= PreviewCap => Cardinality(some) = Cardinality(found))
  BY <1>4 DEF Capped, kSubset, Least
<1>6. Cardinality(found) <= PreviewCap => some = found
  BY <1>2, <1>5, FS_Subset
<1>7. IsFiniteSet(shown) /\ Cardinality(shown) <= Cardinality(found)
  <2>1. shown \in SUBSET found
    BY <1>5
  <2> QED
    BY <1>2, <2>1, FS_Subset
<1>8. IsFiniteSet(S) /\ Cardinality(S) <= Cardinality(shown)
  <2>1. it \in Surjection(shown, S)
    BY DEF Surjection
  <2> HIDE DEF it, S, shown
  <2> QED
    BY <1>7, <2>1, FS_Surjection
<1> DEFINE s == SetToSeq(S)
<1>9. /\ s \in Seq(S) /\ Len(s) = Cardinality(S) /\ DOMAIN s = 1..Len(s)
      /\ \A x \in S : \E k \in DOMAIN s : s[k] = x
  <2> HIDE DEF S
  <2> QED
    BY <1>8, SetToSeqIs, SeqOfSet
<1>10. b.items = s /\ b.count = Cardinality(found)
  BY <1>3
<1>11. Len(b.items) <= b.count
  <2>1. Cardinality(S) \in Nat /\ Cardinality(shown) \in Nat
    BY <1>7, <1>8, FS_CardinalityType
  <2> HIDE DEF s, S, shown, found
  <2> QED
    BY <1>4, <1>7, <1>8, <1>9, <1>10, <2>1
<1>12. Summaries([x \in {c} |-> b]) = IF found = {} THEN {} ELSE {row}
  <2>1. b.count > 0 <=> found # {}
    <3> HIDE DEF found, s
    <3>1. Cardinality(found) = 0 <=> found = {}
      BY <1>2, FS_EmptySet
    <3>2. b.count = Cardinality(found)
      BY <1>10
    <3> QED
      BY <1>4, <3>1, <3>2
  <2> DEFINE buckets == [x \in {c} |-> b]
  <2>2. DOMAIN buckets = {c} /\ buckets[c] = b
    OBVIOUS
  <2> HIDE DEF buckets, found
  <2>3. {x \in DOMAIN buckets : buckets[x].count > 0} = IF found = {} THEN {} ELSE {c}
    BY <2>1, <2>2
  <2>4. Summaries(buckets) = {[category |-> x, count |-> buckets[x].count,
                               priority |-> HighestPriority(buckets[x].items)] :
                                x \in {y \in DOMAIN buckets : buckets[y].count > 0}}
    BY DEF Summaries
  <2>5. Summaries(buckets) = IF found = {} THEN {} ELSE {row}
    BY ZenonT(30), <1>10, <2>2, <2>3, <2>4
  <2> QED
    BY <2>5 DEF buckets
<1>13. ASSUME Cardinality(found) <= PreviewCap
       PROVE  HighestPriority(b.items) = "critical" <=> \E i \in found : Priority(docs[i]) = "critical"
  <2>1. HighestPriority(s) = "critical" <=> \E k \in DOMAIN s : s[k].priority = "critical"
    BY DEF HighestPriority
  <2>2. \A k \in DOMAIN s : s[k] \in S
    <3> HIDE DEF S, s
    <3> QED
      BY <1>9
  <2>3. (\E k \in DOMAIN s : s[k].priority = "critical") <=> \E x \in S : x.priority = "critical"
    <3> HIDE DEF S, s
    <3> QED
      BY <1>9, <2>2
  <2>4. (\E x \in S : x.priority = "critical") <=> \E i \in shown : Priority(docs[i]) = "critical"
    <3>1. S = {it[i] : i \in shown} /\ \A i \in shown : it[i].priority = Priority(docs[i])
      OBVIOUS
    <3> HIDE DEF S, shown, it
    <3> QED
      BY <3>1
  <2>5. some = found
    BY <1>6, <1>13
  <2>6. \A i \in found : Priority(docs[i]) = "critical" => Presented(docs[i])
    BY DEF Priority, Presented
  <2>7. (\E i \in shown : Priority(docs[i]) = "critical") <=> \E i \in found : Priority(docs[i]) = "critical"
    BY <2>5, <2>6
  <2> HIDE DEF s
  <2> QED
    BY <1>10, <2>1, <2>3, <2>4, <2>7
<1> QED
  BY <1>11, <1>12, <1>13

(* The alerts are exact and in order, whatever the collections hold: the   *)
(* list, its pages, the previews and the summaries.                        *)
THEOREM AlertsExactThm == Admissible => AlertsExact
BY ListLemma, PreviewLemma, SummariesLemma DEF Admissible, AlertsExact, ForAlerts

-----------------------------------------------------------------------------
(* The calendar.  A day is counted by its month, from the year 0 on, and   *)
(* its day of the month.                                                   *)

At(n, d) == Date(n \div 12, (n % 12) + 1, d)
Days(n) == DaysIn(n \div 12, (n % 12) + 1)

LEMMA MonthParts ==
  ASSUME NEW n \in Int
  PROVE  /\ n \div 12 \in Int /\ n % 12 \in 0..11 /\ 12 * (n \div 12) + (n % 12) = n
         /\ \A y \in Int, m \in 0..11 : n = 12 * y + m => n \div 12 = y /\ n % 12 = m
OBVIOUS

LEMMA DaysIs ==
  ASSUME NEW n \in Int
  PROVE  Days(n) \in 28..31
BY DEF Days, DaysIn

\* The number of a day's month.
MonthOf(p) == 12 * p.year + (p.month - 1)

LEMMA DayIs ==
  ASSUME NEW p \in [year : Int, month : 1..12, day : Int]
  PROVE  MonthOf(p) \in Int /\ p = At(MonthOf(p), p.day) /\ DaysIn(p.year, p.month) = Days(MonthOf(p))
<1>1. p.year \in Int /\ p.month - 1 \in 0..11 /\ p.month - 1 + 1 = p.month
  OBVIOUS
<1>2. MonthOf(p) \in Int
  BY <1>1 DEF MonthOf
<1>3. MonthOf(p) \div 12 = p.year /\ MonthOf(p) % 12 = p.month - 1
  BY <1>1, <1>2, MonthParts DEF MonthOf
<1> QED
  BY <1>1, <1>2, <1>3 DEF At, Days, Date

LEMMA AtIs ==
  ASSUME NEW n \in Int, NEW d
  PROVE  /\ At(n, d).year = n \div 12 /\ At(n, d).month = (n % 12) + 1 /\ At(n, d).day = d
         /\ MonthOf(At(n, d)) = n
<1>1. n \div 12 \in Int /\ n % 12 \in 0..11 /\ 12 * (n \div 12) + (n % 12) = n
  BY MonthParts
<1>2. /\ At(n, d).year = n \div 12 /\ At(n, d).month = (n % 12) + 1 /\ At(n, d).day = d
  BY DEF At, Date
<1>3. MonthOf(At(n, d)) = 12 * (n \div 12) + ((n % 12) + 1 - 1)
  BY <1>2 DEF MonthOf
<1> QED
  BY <1>1, <1>2, <1>3

LEMMA AddMonthsAt ==
  ASSUME NEW n \in Int, NEW d, NEW k \in Int
  PROVE  AddMonths(At(n, d), k) = At(n + k, 1)
<1> DEFINE p == At(n, d)
           m == 12 * p.year + p.month - 1 + k
<1>1. n \div 12 \in Int /\ n % 12 \in 0..11 /\ 12 * (n \div 12) + (n % 12) = n
  BY MonthParts
<1>2. p.year = n \div 12 /\ p.month = (n % 12) + 1
  BY AtIs
<1>3. m = n + k
  BY <1>1, <1>2
<1>4. AddMonths(p, k) = Date(m \div 12, (m % 12) + 1, 1)
  BY DEF AddMonths
<1> HIDE DEF p, m
<1> QED
  BY <1>3, <1>4 DEF At, p

LEMMA AddDaysAt ==
  ASSUME NEW n \in Int, NEW d \in Int, NEW k \in Int
  PROVE  /\ d + k < 1 => AddDays(At(n, d), k) = At(n - 1, Days(n - 1) + (d + k))
         /\ d + k > Days(n) => AddDays(At(n, d), k) = At(n + 1, d + k - Days(n))
         /\ d + k \in 1..Days(n) => AddDays(At(n, d), k) = At(n, d + k)
<1> DEFINE p == At(n, d)
           last == At(n - 1, 1)
           next == At(n + 1, 1)
<1>1. AddMonths(p, -1) = last /\ AddMonths(p, 1) = next
  <2>1. AddMonths(p, -1) = At(n + (-1), 1) /\ n + (-1) = n - 1
    BY AddMonthsAt
  <2>2. AddMonths(p, 1) = next
    BY AddMonthsAt
  <2> QED
    BY <2>1, <2>2
<1>2. p.day = d /\ DaysIn(p.year, p.month) = Days(n)
  BY AtIs DEF Days
<1>3. DaysIn(last.year, last.month) = Days(n - 1)
  <2>1. n - 1 \in Int
    OBVIOUS
  <2> QED
    BY <2>1, AtIs DEF Days
<1>4. \A e : /\ Date(last.year, last.month, e) = At(n - 1, e)
             /\ Date(next.year, next.month, e) = At(n + 1, e)
             /\ Date(p.year, p.month, e) = At(n, e)
  BY DEF At, Date
<1>5. Days(n) \in Int /\ Days(n) >= 1 /\ Days(n - 1) \in Int
  BY DaysIs
<1>6. /\ p.day + k < 1 =>
           AddDays(p, k) = Date(last.year, last.month, DaysIn(last.year, last.month) + (p.day + k))
      /\ ~(p.day + k < 1) /\ p.day + k > DaysIn(p.year, p.month) =>
           AddDays(p, k) = Date(next.year, next.month, p.day + k - DaysIn(p.year, p.month))
      /\ ~(p.day + k < 1) /\ ~(p.day + k > DaysIn(p.year, p.month)) =>
           AddDays(p, k) = Date(p.year, p.month, p.day + k)
  <2> HIDE DEF p, last, next
  <2> QED
    BY <1>1, <1>2, <1>3, <1>5 DEF AddDays
<1> HIDE DEF p, last, next
<1>7. /\ d + k < 1 => AddDays(p, k) = At(n - 1, Days(n - 1) + (d + k))
      /\ ~(d + k < 1) /\ d + k > Days(n) => AddDays(p, k) = At(n + 1, d + k - Days(n))
      /\ ~(d + k < 1) /\ ~(d + k > Days(n)) => AddDays(p, k) = At(n, d + k)
  BY <1>2, <1>3, <1>4, <1>6
<1>8. /\ d + k \in 1..Days(n) => ~(d + k < 1) /\ ~(d + k > Days(n))
      /\ d + k > Days(n) => ~(d + k < 1)
  BY <1>5
<1> QED
  BY <1>5, <1>7, <1>8 DEF p

\* The order of the keys is that of the days.
LEMMA KeyOrder ==
  ASSUME NEW n \in Int, NEW d \in 1..31, NEW m \in Int, NEW e \in 1..31
  PROVE  /\ Key(At(n, d)) \in Int
         /\ Key(At(m, e)) > Key(At(n, d)) <=> n < m \/ (n = m /\ d < e)
         /\ Key(At(m, e)) >= Key(At(n, d)) <=> n < m \/ (n = m /\ d <= e)
<1> DEFINE x == n \div 12
           r == n % 12
           y == m \div 12
           s == m % 12
<1>1. x \in Int /\ r \in 0..11 /\ 12 * x + r = n
  BY MonthParts
<1>2. y \in Int /\ s \in 0..11 /\ 12 * y + s = m
  BY MonthParts
<1>3. Key(At(n, d)) = 10000 * x + 100 * (r + 1) + d
  BY AtIs DEF Key
<1>4. Key(At(m, e)) = 10000 * y + 100 * (s + 1) + e
  BY AtIs DEF Key
<1> HIDE DEF x, r, y, s
<1>5. Key(At(n, d)) \in Int
  BY <1>1, <1>3
<1>6. 10000 * y + 100 * (s + 1) + e > 10000 * x + 100 * (r + 1) + d <=> n < m \/ (n = m /\ d < e)
  BY SMTT(30), <1>1, <1>2
<1>7. 10000 * y + 100 * (s + 1) + e >= 10000 * x + 100 * (r + 1) + d <=> n < m \/ (n = m /\ d <= e)
  BY <1>1, <1>2
<1> QED
  BY <1>3, <1>4, <1>5, <1>6, <1>7

LEMMA SameReach ==
  ASSUME NEW n \in Int, NEW d \in Int, NEW e \in Int, NEW a \in Int, NEW b \in Int, d + a = e + b
  PROVE  AddDays(At(n, d), a) = AddDays(At(n, e), b)
<1>1. Days(n) \in Int /\ Days(n - 1) \in Int
  BY DaysIs
<1>2. PICK x \in Int : x = d + a
  OBVIOUS
<1>3. /\ x < 1 => AddDays(At(n, d), a) = At(n - 1, Days(n - 1) + x)
      /\ x > Days(n) => AddDays(At(n, d), a) = At(n + 1, x - Days(n))
      /\ x \in 1..Days(n) => AddDays(At(n, d), a) = At(n, x)
  <2>1. /\ d + a < 1 => AddDays(At(n, d), a) = At(n - 1, Days(n - 1) + (d + a))
        /\ d + a > Days(n) => AddDays(At(n, d), a) = At(n + 1, d + a - Days(n))
        /\ d + a \in 1..Days(n) => AddDays(At(n, d), a) = At(n, d + a)
    BY AddDaysAt
  <2>2. d + a = x
    BY <1>2
  <2> QED
    BY <1>1, <2>1, <2>2
<1>4. /\ x < 1 => AddDays(At(n, e), b) = At(n - 1, Days(n - 1) + x)
      /\ x > Days(n) => AddDays(At(n, e), b) = At(n + 1, x - Days(n))
      /\ x \in 1..Days(n) => AddDays(At(n, e), b) = At(n, x)
  <2>1. /\ e + b < 1 => AddDays(At(n, e), b) = At(n - 1, Days(n - 1) + (e + b))
        /\ e + b > Days(n) => AddDays(At(n, e), b) = At(n + 1, e + b - Days(n))
        /\ e + b \in 1..Days(n) => AddDays(At(n, e), b) = At(n, e + b)
    BY AddDaysAt
  <2>2. e + b = x
    BY <1>2
  <2> QED
    BY <1>1, <2>1, <2>2
<1>5. x < 1 \/ x > Days(n) \/ x \in 1..Days(n)
  BY DaysIs
<1> QED
  BY <1>3, <1>4, <1>5

\* Steps of days, of four weeks in all, may be taken in two.
LEMMA AddDaysTwice ==
  ASSUME NEW n \in Int, NEW d \in 1..Days(n), NEW a \in (-28)..28, NEW b \in (-28)..28,
         a + b \in (-28)..28
  PROVE  AddDays(AddDays(At(n, d), a), b) = AddDays(At(n, d), a + b)
<1> DEFINE c == a + b
<1>1. Days(n) \in 28..31 /\ Days(n - 1) \in 28..31 /\ Days(n + 1) \in 28..31
  BY DaysIs
<1>2. d \in Int /\ a \in Int /\ b \in Int /\ c \in Int /\ n - 1 \in Int /\ n + 1 \in Int
  BY <1>1
<1>3. /\ d + a < 1 => AddDays(At(n, d), a) = At(n - 1, Days(n - 1) + (d + a))
      /\ d + a > Days(n) => AddDays(At(n, d), a) = At(n + 1, d + a - Days(n))
      /\ d + a \in 1..Days(n) => AddDays(At(n, d), a) = At(n, d + a)
  BY <1>2, AddDaysAt
<1>4. /\ d + c < 1 => AddDays(At(n, d), c) = At(n - 1, Days(n - 1) + (d + c))
      /\ d + c > Days(n) => AddDays(At(n, d), c) = At(n + 1, d + c - Days(n))
      /\ d + c \in 1..Days(n) => AddDays(At(n, d), c) = At(n, d + c)
  <2> HIDE DEF c
  <2> QED
    BY <1>2, AddDaysAt
<1>5. CASE d + a < 1
  <2> DEFINE e == Days(n - 1) + (d + a)
             m == n - 1
  <2>1. e \in 1..Days(m) /\ e \in Int /\ m \in Int /\ m + 1 = n /\ Days(m) \in 28..31
    BY <1>1, <1>5
  <2>2. AddDays(At(n, d), a) = At(m, e)
    BY <1>3, <1>5
  <2>3. ~(e + b < 1)
    BY <1>1
  <2> HIDE DEF e, m
  <2>4. /\ e + b > Days(m) => AddDays(At(m, e), b) = At(m + 1, e + b - Days(m))
        /\ e + b \in 1..Days(m) => AddDays(At(m, e), b) = At(m, e + b)
    BY <1>2, <2>1, AddDaysAt
  <2>5. CASE e + b > Days(m)
    <3>1. e + b - Days(m) = d + c /\ d + c \in 1..Days(n)
      BY <1>1, <1>5, <2>5 DEF e, m
    <3> QED
      BY <1>4, <2>1, <2>2, <2>4, <2>5, <3>1
  <2>6. CASE ~(e + b > Days(m))
    <3>1. e + b \in 1..Days(m)
      BY <1>2, <2>1, <2>3, <2>6
    <3>2. e + b = Days(n - 1) + (d + c) /\ d + c < 1
      BY <1>1, <1>5, <2>6 DEF e, m
    <3>3. AddDays(At(n, d), c) = At(m, e + b)
      BY <1>4, <3>2 DEF m
    <3> QED
      BY <2>2, <2>4, <3>1, <3>3
  <2> QED
    BY <2>5, <2>6
<1>6. CASE d + a > Days(n)
  <2> DEFINE e == d + a - Days(n)
             m == n + 1
  <2>1. e \in 1..Days(m) /\ e \in Int /\ m \in Int /\ Days(m) \in 28..31
    BY <1>1, <1>6
  <2>2. m - 1 = n
    OBVIOUS
  <2>3. AddDays(At(n, d), a) = At(m, e)
    BY <1>3, <1>6
  <2>4. ~(e + b > Days(m))
    BY <1>1
  <2> HIDE DEF e, m
  <2>5. /\ e + b < 1 => AddDays(At(m, e), b) = At(m - 1, Days(m - 1) + (e + b))
        /\ e + b \in 1..Days(m) => AddDays(At(m, e), b) = At(m, e + b)
    <3>1. e \in Int /\ m \in Int /\ b \in Int
      BY <2>1
    <3> HIDE DEF c
    <3> QED
      BY ONLY <3>1, AddDaysAt
  <2>6. CASE e + b < 1
    <3>1. Days(n) + (e + b) = d + c /\ d + c \in 1..Days(n)
      BY <1>1, <1>6, <2>6 DEF e, m
    <3>2. Days(m - 1) + (e + b) = d + c
      BY <2>2, <3>1
    <3> QED
      BY <1>4, <2>3, <2>5, <2>6, <2>2, <3>1, <3>2
  <2>7. CASE ~(e + b < 1)
    <3>1. e + b \in 1..Days(m)
      BY <1>2, <2>1, <2>4, <2>7
    <3>2. e + b = d + c - Days(n) /\ d + c > Days(n)
      BY <1>1, <1>6, <2>7 DEF e, m
    <3>3. AddDays(At(n, d), c) = At(m, e + b)
      BY <1>4, <3>2 DEF m
    <3> QED
      BY <2>3, <2>5, <3>1, <3>3
  <2> QED
    BY <2>6, <2>7
<1>7. CASE d + a \in 1..Days(n)
  <2>1. AddDays(At(n, d), a) = At(n, d + a) /\ d + a \in Int /\ (d + a) + b = d + c /\ d + c \in Int
    BY <1>2, <1>3, <1>7
  <2> HIDE DEF c
  <2>2. AddDays(At(n, d + a), b) = AddDays(At(n, d), c)
    BY <1>2, <2>1, SameReach
  <2> QED
    BY <2>1, <2>2 DEF c
<1>8. d + a < 1 \/ d + a > Days(n) \/ d + a \in 1..Days(n)
  BY <1>1, <1>2
<1> QED
  BY <1>5, <1>6, <1>7, <1>8

-----------------------------------------------------------------------------
(* The days of the calendar and their keys.                                *)

RealDay(p) == \E n \in Int : \E d \in 1..Days(n) : p = At(n, d)
DayKeys == {k \in Int : \E p : RealDay(p) /\ k = Key(p)}

LEMMA RealKey ==
  ASSUME NEW p, RealDay(p)
  PROVE  Key(p) \in DayKeys /\ Key(p) \in Int
<1>1. PICK n \in Int : \E d \in 1..Days(n) : p = At(n, d)
  BY DEF RealDay
<1>2. PICK d \in 1..Days(n) : p = At(n, d)
  BY <1>1
<1>3. d \in 1..31
  BY DaysIs
<1>4. Key(p) \in Int
  BY <1>2, <1>3, KeyOrder
<1> QED
  BY <1>4 DEF DayKeys

LEMMA RealAt ==
  ASSUME NEW n \in Int, NEW d \in 1..Days(n)
  PROVE  RealDay(At(n, d)) /\ d \in 1..31 /\ d \in Int
BY DaysIs DEF RealDay

LEMMA CalendarReal ==
  ASSUME NEW p \in CalendarDays
  PROVE  /\ RealDay(p)
         /\ \E n \in Int : p = At(n, p.day) /\ p.day \in 1..Days(n) /\ n = MonthOf(p) /\ n \in Nat
<1>1. p \in [year : Int, month : 1..12, day : Int] /\ p.day \in 1..31 /\ p.day <= DaysIn(p.year, p.month)
      /\ p.year \in Nat /\ p.month \in 1..12
  BY DEF CalendarDays
<1>2. MonthOf(p) \in Int /\ p = At(MonthOf(p), p.day) /\ DaysIn(p.year, p.month) = Days(MonthOf(p))
  BY <1>1, DayIs
<1>3. MonthOf(p) \in Nat
  BY <1>1 DEF MonthOf
<1>4. p.day \in 1..Days(MonthOf(p))
  <2>1. Days(MonthOf(p)) \in Int
    BY <1>2, DaysIs
  <2> QED
    BY <1>1, <1>2, <2>1
<1> QED
  BY <1>2, <1>3, <1>4 DEF RealDay

\* The key of a document is that of a day.
LEMMA DecodeKey ==
  ASSUME NEW k, IsDayKey(k), k # NoKey
  PROVE  k \in DayKeys
<1> DEFINE p == Date(k \div 10000, (k \div 100) % 100, k % 100)
<1>1. k \in Nat /\ p \in CalendarDays
  BY DEF IsDayKey
<1>2. p.year = k \div 10000 /\ p.month = (k \div 100) % 100 /\ p.day = k % 100
  BY DEF Date
<1>3. 10000 * (k \div 10000) + 100 * ((k \div 100) % 100) + (k % 100) = k
  <2>1. k = 100 * (k \div 100) + (k % 100)
    BY <1>1
  <2>2. k \div 100 = 100 * ((k \div 100) \div 100) + ((k \div 100) % 100)
    BY <1>1
  <2>3. (k \div 100) \div 100 = k \div 10000
    BY <1>1
  <2> QED
    BY <1>1, <2>1, <2>2, <2>3
<1> HIDE DEF p
<1>4. Key(p) = k
  BY <1>2, <1>3 DEF Key
<1>5. RealDay(p)
  BY <1>1, CalendarReal
<1> QED
  BY <1>4, <1>5, RealKey

LEMMA AddDaysReal ==
  ASSUME NEW p, RealDay(p), NEW k \in (-28)..28
  PROVE  RealDay(AddDays(p, k))
<1>1. PICK n \in Int : \E d \in 1..Days(n) : p = At(n, d)
  BY DEF RealDay
<1>2. PICK d \in 1..Days(n) : p = At(n, d)
  BY <1>1
<1>3. Days(n) \in 28..31 /\ Days(n - 1) \in 28..31 /\ Days(n + 1) \in 28..31 /\ d \in Int /\ k \in Int
  BY DaysIs
<1>4. /\ d + k < 1 => AddDays(At(n, d), k) = At(n - 1, Days(n - 1) + (d + k))
      /\ d + k > Days(n) => AddDays(At(n, d), k) = At(n + 1, d + k - Days(n))
      /\ d + k \in 1..Days(n) => AddDays(At(n, d), k) = At(n, d + k)
  BY <1>3, AddDaysAt
<1>5. CASE d + k < 1
  <2>1. Days(n - 1) + (d + k) \in 1..Days(n - 1) /\ n - 1 \in Int
    BY <1>3, <1>5
  <2>2. AddDays(p, k) = At(n - 1, Days(n - 1) + (d + k))
    BY <1>2, <1>4, <1>5
  <2> QED
    BY <2>1, <2>2 DEF RealDay
<1>6. CASE d + k > Days(n)
  <2>1. d + k - Days(n) \in 1..Days(n + 1) /\ n + 1 \in Int
    BY <1>3, <1>6
  <2>2. AddDays(p, k) = At(n + 1, d + k - Days(n))
    BY <1>2, <1>4, <1>6
  <2> QED
    BY <2>1, <2>2 DEF RealDay
<1>7. CASE d + k \in 1..Days(n)
  BY <1>2, <1>4, <1>7 DEF RealDay
<1> QED
  BY <1>3, <1>5, <1>6, <1>7

LEMMA TwoSteps ==
  ASSUME NEW p, RealDay(p), NEW a \in (-28)..28, NEW b \in (-28)..28, a + b \in (-28)..28
  PROVE  AddDays(AddDays(p, a), b) = AddDays(p, a + b)
<1>1. PICK n \in Int : \E d \in 1..Days(n) : p = At(n, d)
  BY DEF RealDay
<1>2. PICK d \in 1..Days(n) : p = At(n, d)
  BY <1>1
<1> QED
  BY <1>2, AddDaysTwice

\* Between a day and the next there is no other.
LEMMA NextDay ==
  ASSUME NEW p, RealDay(p), NEW k \in DayKeys
  PROVE  k > Key(p) <=> k >= Key(AddDays(p, 1))
<1>1. PICK n \in Int : \E d \in 1..Days(n) : p = At(n, d)
  BY DEF RealDay
<1>2. PICK d \in 1..Days(n) : p = At(n, d)
  BY <1>1
<1>3. PICK m \in Int : \E e \in 1..Days(m) : k = Key(At(m, e))
  BY DEF DayKeys, RealDay
<1>4. PICK e \in 1..Days(m) : k = Key(At(m, e))
  BY <1>3
<1>5. /\ Days(n) \in 28..31 /\ Days(m) \in 28..31
      /\ d \in 1..31 /\ e \in 1..31 /\ d \in Int /\ k \in Int /\ Key(p) \in Int
  BY <1>2, DaysIs, RealKey DEF DayKeys
<1>6. k > Key(p) <=> n < m \/ (n = m /\ d < e)
  BY <1>2, <1>4, <1>5, KeyOrder
<1>7. CASE d < Days(n)
  <2>1. AddDays(p, 1) = At(n, d + 1)
    BY <1>2, <1>5, <1>7, AddDaysAt
  <2>2. PICK f \in 1..31 : f = d + 1
    BY <1>5, <1>7
  <2>3. k >= Key(At(n, f)) <=> n < m \/ (n = m /\ f <= e)
    BY <1>4, <1>5, KeyOrder
  <2> QED
    BY <1>5, <1>6, <2>1, <2>2, <2>3
<1>8. CASE d = Days(n)
  <2>1. AddDays(p, 1) = At(n + 1, 1)
    <3>1. d + 1 > Days(n) /\ d + 1 - Days(n) = 1
      BY <1>5, <1>8
    <3>2. AddDays(At(n, d), 1) = At(n + 1, d + 1 - Days(n))
      BY <1>5, <3>1, AddDaysAt
    <3> QED
      BY <1>2, <3>1, <3>2
  <2>2. PICK f \in Int : f = n + 1
    OBVIOUS
  <2>3. PICK g \in 1..31 : g = 1
    OBVIOUS
  <2>4. k >= Key(At(f, g)) <=> f < m \/ (f = m /\ g <= e)
    BY <1>4, <1>5, KeyOrder
  <2> QED
    BY <1>5, <1>6, <1>8, <2>1, <2>2, <2>3, <2>4
<1> QED
  BY <1>5, <1>7, <1>8

\* The days that some number of steps lead to, in order.
LEMMA LaterDay ==
  ASSUME NEW p, RealDay(p), NEW a \in (-28)..27, NEW k \in DayKeys
  PROVE  k > Key(AddDays(p, a)) <=> k >= Key(AddDays(p, a + 1))
<1>1. RealDay(AddDays(p, a))
  BY AddDaysReal
<1>2. AddDays(AddDays(p, a), 1) = AddDays(p, a + 1)
  BY TwoSteps
<1> QED
  BY <1>1, <1>2, NextDay

-----------------------------------------------------------------------------
(* The points of a chart.                                                  *)

(* Points that follow one another without a gap hold each day from the     *)
(* first of them to the last in one point and no other.                    *)
LEMMA Chain ==
  ASSUME NEW N \in Nat \ {0}, NEW f \in [1..N -> DayKeys], NEW g \in [1..N -> DayKeys],
         \A i \in 1..N : f[i] <= g[i],
         \A i \in 1..N : i < N => \A k \in DayKeys : k > g[i] <=> k >= f[i + 1]
  PROVE  \A k \in DayKeys :
           /\ (\E i \in 1..N : f[i] <= k /\ k <= g[i]) <=> f[1] <= k /\ k <= g[N]
           /\ \A i, j \in 1..N : f[i] <= k /\ k <= g[i] /\ f[j] <= k /\ k <= g[j] => i = j
<1>1. \A i \in 1..N : f[i] \in DayKeys /\ g[i] \in DayKeys /\ f[i] \in Int /\ g[i] \in Int
  BY DEF DayKeys
<1>2. ASSUME NEW i \in 1..N
      PROVE  \A j \in 1..N : i < j => g[i] < f[j]
  <2> DEFINE T == {j \in 1..N : i < j /\ ~(g[i] < f[j])}
  <2>1. SUFFICES ASSUME T # {}
                 PROVE  FALSE
    OBVIOUS
  <2>2. T \in SUBSET Nat
    OBVIOUS
  <2> HIDE DEF T
  <2>3. PICK j \in T : \A y \in T : j <= y
    BY <2>1, <2>2, LeastNumber
  <2>4. j \in 1..N /\ i < j /\ ~(g[i] < f[j])
    BY <2>3 DEF T
  <2>5. j - 1 \in 1..N /\ j - 1 < N /\ (j - 1) + 1 = j
    BY <2>4
  <2>6. g[j - 1] < f[j]
    BY <1>1, <2>4, <2>5
  <2>7. CASE j - 1 = i
    BY <2>4, <2>6, <2>7
  <2>8. CASE j - 1 # i
    <3>1. i < j - 1
      BY <2>4, <2>8
    <3>2. ~(j - 1 \in T)
      BY <2>3, <2>4
    <3>3. g[i] < f[j - 1]
      BY <2>5, <3>1, <3>2 DEF T
    <3> QED
      BY <1>1, <2>4, <2>5, <2>6, <3>3
  <2> QED
    BY <2>7, <2>8
<1>3. ASSUME NEW k \in DayKeys, NEW i \in 1..N, NEW j \in 1..N,
             f[i] <= k, k <= g[i], f[j] <= k, k <= g[j]
      PROVE  i = j
  <2>1. k \in Int /\ f[i] \in Int /\ g[i] \in Int /\ f[j] \in Int /\ g[j] \in Int
    BY <1>1 DEF DayKeys
  <2>2. ~(i < j)
    BY <1>2, <1>3, <2>1
  <2>3. ~(j < i)
    BY <1>2, <1>3, <2>1
  <2> QED
    BY <2>2, <2>3
<1>4. ASSUME NEW k \in DayKeys, NEW i \in 1..N, f[i] <= k, k <= g[i]
      PROVE  f[1] <= k /\ k <= g[N]
  <2>1. /\ 1 \in 1..N /\ N \in 1..N /\ k \in Int /\ f[i] \in Int /\ g[i] \in Int
        /\ f[1] \in Int /\ g[1] \in Int /\ f[N] \in Int /\ g[N] \in Int
        /\ f[1] <= g[1] /\ f[N] <= g[N]
    BY <1>1 DEF DayKeys
  <2>2. f[1] <= f[i]
    BY <1>2, <2>1
  <2>3. g[i] <= g[N]
    BY <1>2, <2>1
  <2> QED
    BY <1>4, <2>1, <2>2, <2>3
<1>5. ASSUME NEW k \in DayKeys, f[1] <= k, k <= g[N]
      PROVE  \E i \in 1..N : f[i] <= k /\ k <= g[i]
  <2> DEFINE T == {i \in 1..N : k <= g[i]}
  <2>1. T \in SUBSET Nat /\ T # {}
    BY <1>5
  <2> HIDE DEF T
  <2>2. PICK i \in T : \A y \in T : i <= y
    BY <2>1, LeastNumber
  <2>3. i \in 1..N /\ k <= g[i]
    BY <2>2 DEF T
  <2>4. CASE i = 1
    BY <1>5, <2>3, <2>4
  <2>5. CASE i # 1
    <3>1. i - 1 \in 1..N /\ i - 1 < N /\ (i - 1) + 1 = i
      BY <2>3, <2>5
    <3>2. ~(i - 1 \in T)
      BY <2>2, <2>3
    <3>3. ~(k <= g[i - 1])
      BY <3>1, <3>2 DEF T
    <3>4. k > g[i - 1]
      BY <1>1, <3>1, <3>3 DEF DayKeys
    <3>5. k >= f[i]
      BY <3>1, <3>4
    <3> QED
      BY <1>1, <2>3, <3>5 DEF DayKeys
  <2> QED
    BY <2>4, <2>5
<1> QED
  BY <1>3, <1>4, <1>5

\* The day is drawn in some point just if it is in the range, and in one only.
Shown(range, t, k) ==
  /\ (\E i \in DOMAIN Points(range, t) : k \in Points(range, t)[i].from..Points(range, t)[i].to) <=>
       k \in Key(StartOf(range, t))..LastShown(range, t)
  /\ \A i, j \in DOMAIN Points(range, t) :
       k \in Points(range, t)[i].from..Points(range, t)[i].to
         /\ k \in Points(range, t)[j].from..Points(range, t)[j].to => i = j

IsChain(N, f, g) ==
  /\ N \in Nat \ {0} /\ f \in [1..N -> DayKeys] /\ g \in [1..N -> DayKeys]
  /\ \A i \in 1..N : f[i] <= g[i]
  /\ \A i \in 1..N : i < N => \A k \in DayKeys : k > g[i] <=> k >= f[i + 1]
\* The points hold what the chain holds, up to the day they are drawn.
Follows(range, t, k, N, f, g) ==
  /\ DOMAIN Points(range, t) = 1..N
  /\ \A i \in 1..N : k \in Points(range, t)[i].from..Points(range, t)[i].to <=> f[i] <= k /\ k <= g[i]
  /\ k \in Key(StartOf(range, t))..LastShown(range, t) <=> f[1] <= k /\ k <= g[N]

LEMMA ChainShows ==
  ASSUME NEW range, NEW t, NEW N, NEW f, NEW g, IsChain(N, f, g),
         NEW k \in DayKeys, Follows(range, t, k, N, f, g)
  PROVE  Shown(range, t, k)
<1>1. /\ (\E i \in 1..N : f[i] <= k /\ k <= g[i]) <=> f[1] <= k /\ k <= g[N]
      /\ \A i, j \in 1..N : f[i] <= k /\ k <= g[i] /\ f[j] <= k /\ k <= g[j] => i = j
  BY Chain DEF IsChain
<1> QED
  BY <1>1 DEF Shown, Follows

LEMMA AddNone ==
  ASSUME NEW p, RealDay(p)
  PROVE  AddDays(p, 0) = p
<1>1. PICK n \in Int : \E d \in 1..Days(n) : p = At(n, d)
  BY DEF RealDay
<1>2. PICK d \in 1..Days(n) : p = At(n, d)
  BY <1>1
<1>3. d \in Int /\ d + 0 = d /\ Days(n) \in Int
  BY DaysIs
<1> QED
  BY <1>2, <1>3, AddDaysAt

LEMMA Forward ==
  ASSUME NEW p, RealDay(p), NEW k \in 0..28
  PROVE  Key(AddDays(p, k)) >= Key(p)
<1>1. PICK n \in Int : \E d \in 1..Days(n) : p = At(n, d)
  BY DEF RealDay
<1>2. PICK d \in 1..Days(n) : p = At(n, d)
  BY <1>1
<1>3. d \in Int /\ d \in 1..31 /\ Days(n) \in 28..31 /\ k \in Int
  BY DaysIs
<1>4. CASE d + k > Days(n)
  <2>1. AddDays(p, k) = At(n + 1, d + k - Days(n))
    BY <1>2, <1>3, <1>4, AddDaysAt
  <2>2. PICK m \in Int : m = n + 1
    OBVIOUS
  <2>3. PICK e \in 1..31 : e = d + k - Days(n)
    BY <1>3, <1>4
  <2>4. Key(At(m, e)) >= Key(At(n, d)) <=> n < m \/ (n = m /\ d <= e)
    BY <1>3, KeyOrder
  <2> QED
    BY <1>2, <2>1, <2>2, <2>3, <2>4
<1>5. CASE d + k \in 1..Days(n)
  <2>1. AddDays(p, k) = At(n, d + k)
    BY <1>2, <1>3, <1>5, AddDaysAt
  <2>2. PICK e \in 1..31 : e = d + k
    BY <1>3, <1>5
  <2>3. Key(At(n, e)) >= Key(At(n, d)) <=> n < n \/ (n = n /\ d <= e)
    BY <1>3, KeyOrder
  <2> QED
    BY <1>2, <1>3, <2>1, <2>2, <2>3
<1> QED
  BY <1>3, <1>4, <1>5

LEMMA DayShown ==
  ASSUME NEW t, RealDay(t), NEW k \in DayKeys, k <= Key(t)
  PROVE  Shown("day", t, k)
<1> DEFINE P == Points("day", t)
           f == [i \in 1..7 |-> Key(AddDays(t, i - 7))]
<1>1. P = [i \in 1..7 |-> [from |-> Key(AddDays(t, i - 7)), to |-> Key(AddDays(t, i - 7))]]
  BY DEF Points, DayPoints
<1>2. \A i \in 1..7 : f[i] = Key(AddDays(t, i - 7)) /\ f[i] \in DayKeys /\ f[i] \in Int
  <2>1. ASSUME NEW i \in 1..7
        PROVE  Key(AddDays(t, i - 7)) \in DayKeys /\ Key(AddDays(t, i - 7)) \in Int
    <3>1. i - 7 \in (-28)..28
      OBVIOUS
    <3> QED
      BY <3>1, AddDaysReal, RealKey
  <2> QED
    BY <2>1
<1>3. f \in [1..7 -> DayKeys] /\ 7 \in Nat \ {0}
  BY <1>2
<1>4. \A i \in 1..7 : f[i] <= f[i]
  BY <1>2
<1>5. ASSUME NEW i \in 1..7, i < 7, NEW x \in DayKeys
      PROVE  x > f[i] <=> x >= f[i + 1]
  <2>1. i - 7 \in (-28)..27 /\ (i - 7) + 1 = (i + 1) - 7 /\ i + 1 \in 1..7
    BY <1>5
  <2>2. x > Key(AddDays(t, i - 7)) <=> x >= Key(AddDays(t, (i - 7) + 1))
    BY <2>1, LaterDay
  <2> QED
    BY <2>1, <2>2
<1>6. DOMAIN P = 1..7 /\ \A i \in 1..7 : P[i].from = f[i] /\ P[i].to = f[i]
  BY <1>1
<1>7. f[1] = Key(StartOf("day", t)) /\ f[7] = Key(t) /\ LastShown("day", t) = Key(t)
  <2>1. f[1] = Key(AddDays(t, -6)) /\ f[7] = Key(AddDays(t, 0))
    OBVIOUS
  <2> QED
    BY <2>1, AddNone DEF StartOf, LastShown
<1> HIDE DEF P, f
<1>8. k \in Int /\ Key(t) \in Int /\ f[1] \in Int /\ f[7] \in Int
  BY <1>2, RealKey DEF DayKeys
<1>9. k \in Key(StartOf("day", t))..LastShown("day", t) <=> f[1] <= k /\ k <= f[7]
  BY <1>7, <1>8
<1>10. \A i \in 1..7 : k \in P[i].from..P[i].to <=> f[i] <= k /\ k <= f[i]
  BY <1>2, <1>6, <1>8
<1>11. IsChain(7, f, f)
  BY <1>3, <1>4, <1>5 DEF IsChain
<1>12. Follows("day", t, k, 7, f, f)
  BY <1>6, <1>9, <1>10 DEF Follows, P
<1> QED
  BY <1>11, <1>12, ChainShows

LEMMA RealFields ==
  ASSUME NEW p, RealDay(p)
  PROVE  /\ p.year \in Int /\ p.month \in 1..12 /\ p.day \in Int /\ p.day \in 1..Days(MonthOf(p))
         /\ MonthOf(p) \in Int /\ p = At(MonthOf(p), p.day)
<1>1. PICK n \in Int : \E d \in 1..Days(n) : p = At(n, d)
  BY DEF RealDay
<1>2. PICK d \in 1..Days(n) : p = At(n, d)
  BY <1>1
<1>3. p.year = n \div 12 /\ p.month = (n % 12) + 1 /\ p.day = d /\ MonthOf(p) = n
  BY <1>2, AtIs
<1>4. n \div 12 \in Int /\ n % 12 \in 0..11 /\ d \in Int
  BY MonthParts, DaysIs
<1> QED
  BY <1>2, <1>3, <1>4

\* Monday is at most six days back.
LEMMA MondayIs ==
  ASSUME NEW t, RealDay(t)
  PROVE  \E x \in (-6)..0 : Monday(t) = AddDays(t, x)
<1> DEFINE y == t.year - 1
           past == Total([m \in 1..(t.month - 1) |-> DaysIn(t.year, m)])
<1>1. t.year \in Int /\ t.month \in 1..12 /\ t.day \in Int
  BY RealFields
<1>2. past \in Nat
  <2> DEFINE n == [m \in 1..(t.month - 1) |-> DaysIn(t.year, m)]
  <2>1. IsFiniteSet(1..(t.month - 1))
    BY SMTT(30), <1>1, FS_Interval
  <2>2. \A m \in 1..(t.month - 1) : n[m] \in Nat
    BY DEF DaysIn
  <2>3. DOMAIN n = 1..(t.month - 1)
    OBVIOUS
  <2> HIDE DEF n
  <2>4. SumOver(n, 1..(t.month - 1)) \in Nat
    BY <2>1, <2>2, UnitsFinite
  <2> QED
    BY <2>3, <2>4 DEF Total, n
<1>3. y \in Int
  BY <1>1
<1>4. Weekday(t) = (365 * y + y \div 4 - y \div 100 + y \div 400 + past + t.day) % 7
  BY DEF Weekday
<1> HIDE DEF y, past
<1>5. y \div 4 \in Int /\ y \div 100 \in Int /\ y \div 400 \in Int
  BY <1>3
<1>6. Weekday(t) \in 0..6
  BY <1>1, <1>2, <1>3, <1>4, <1>5
<1>7. (IF Weekday(t) = 0 THEN -6 ELSE 1 - Weekday(t)) \in (-6)..0
  BY <1>6
<1>8. Monday(t) = AddDays(t, IF Weekday(t) = 0 THEN -6 ELSE 1 - Weekday(t))
  BY DEF Monday
<1> QED
  BY <1>7, <1>8

LEMMA WeekShown ==
  ASSUME NEW t, RealDay(t), NEW k \in DayKeys, k <= Key(t)
  PROVE  Shown("week", t, k)
<1>1. PICK x \in (-6)..0 : Monday(t) = AddDays(t, x)
  BY MondayIs
<1> DEFINE M == Monday(t)
           f == [i \in 1..4 |-> Key(AddDays(M, 7 * (i - 4)))]
           g == [i \in 1..4 |-> Key(AddDays(AddDays(M, 7 * (i - 4)), 6))]
<1>2. RealDay(M)
  <2>1. x \in (-28)..28
    OBVIOUS
  <2> QED
    BY <1>1, <2>1, AddDaysReal
<1>3. Points("week", t) =
        [i \in 1..4 |-> [from |-> f[i], to |-> IF g[i] > Key(t) THEN Key(t) ELSE g[i]]]
  BY DEF Points, WeekPoints
<1>4. f[1] = Key(StartOf("week", t)) /\ f[4] = Key(AddDays(M, 0))
  <2>1. 7 * (1 - 4) = -21 /\ 7 * (4 - 4) = 0
    OBVIOUS
  <2> QED
    BY <2>1 DEF StartOf
<1>5. LastShown("week", t) = Key(t)
  BY DEF LastShown
<1> HIDE DEF M
<1>6. \A i \in 1..4 : /\ f[i] \in DayKeys /\ f[i] \in Int /\ g[i] \in DayKeys /\ g[i] \in Int
                      /\ f[i] <= g[i]
                      /\ g[i] = Key(AddDays(M, 7 * (i - 4) + 6))
  <2> SUFFICES ASSUME NEW i \in 1..4
               PROVE  /\ f[i] \in DayKeys /\ f[i] \in Int /\ g[i] \in DayKeys /\ g[i] \in Int
                      /\ f[i] <= g[i]
                      /\ g[i] = Key(AddDays(M, 7 * (i - 4) + 6))
    OBVIOUS
  <2>1. PICK a \in (-28)..28 : a = 7 * (i - 4) /\ a + 6 \in (-28)..28
    OBVIOUS
  <2>2. 6 \in (-28)..28 /\ 6 \in 0..28
    OBVIOUS
  <2>3. RealDay(AddDays(M, a))
    BY <1>2, AddDaysReal
  <2>4. RealDay(AddDays(AddDays(M, a), 6))
    BY <2>2, <2>3, AddDaysReal
  <2>5. Key(AddDays(AddDays(M, a), 6)) >= Key(AddDays(M, a))
    BY <2>2, <2>3, Forward
  <2>6. AddDays(AddDays(M, a), 6) = AddDays(M, a + 6)
    BY <1>2, <2>1, <2>2, TwoSteps
  <2>7. f[i] = Key(AddDays(M, a)) /\ g[i] = Key(AddDays(AddDays(M, a), 6))
    BY <2>1
  <2>8. f[i] \in DayKeys /\ f[i] \in Int /\ g[i] \in DayKeys /\ g[i] \in Int
    BY <2>3, <2>4, <2>7, RealKey
  <2>9. f[i] <= g[i]
    BY <2>5, <2>7, <2>8
  <2> QED
    BY <2>1, <2>6, <2>7, <2>8, <2>9
<1>7. ASSUME NEW i \in 1..4, i < 4, NEW e \in DayKeys
      PROVE  e > g[i] <=> e >= f[i + 1]
  <2>1. PICK a \in (-28)..27 : a = 7 * (i - 4) + 6
    BY <1>7
  <2>2. i + 1 \in 1..4 /\ a + 1 = 7 * ((i + 1) - 4)
    BY <1>7, <2>1
  <2>3. e > Key(AddDays(M, a)) <=> e >= Key(AddDays(M, a + 1))
    BY <1>2, LaterDay
  <2>4. g[i] = Key(AddDays(M, a)) /\ f[i + 1] = Key(AddDays(M, a + 1))
    BY <1>6, <2>1, <2>2
  <2> QED
    BY <2>3, <2>4
<1>8. f \in [1..4 -> DayKeys] /\ g \in [1..4 -> DayKeys] /\ 4 \in Nat \ {0}
  BY <1>6
<1>9. g[4] >= Key(t)
  <2>1. PICK a \in 0..28 : a = x + 6
    OBVIOUS
  <2>2. 7 * (4 - 4) + 6 = 6 /\ 4 \in 1..4 /\ 6 \in (-28)..28 /\ x \in (-28)..28 /\ a \in (-28)..28
    OBVIOUS
  <2>3. g[4] = Key(AddDays(M, 6))
    BY <1>6, <2>2
  <2>4. AddDays(AddDays(t, x), 6) = AddDays(t, x + 6)
    BY <2>1, <2>2, TwoSteps
  <2>5. Key(AddDays(t, a)) >= Key(t)
    BY Forward
  <2> QED
    BY <1>1, <2>1, <2>3, <2>4, <2>5 DEF M
<1>10. \A i \in 1..4 : /\ Points("week", t)[i].from = f[i]
                       /\ Points("week", t)[i].to = IF g[i] > Key(t) THEN Key(t) ELSE g[i]
  BY <1>3
<1>11. DOMAIN Points("week", t) = 1..4
  BY <1>3
<1> HIDE DEF f, g
<1>12. k \in Int /\ Key(t) \in Int
  BY RealKey DEF DayKeys
<1>13. \A i \in 1..4 : k \in Points("week", t)[i].from..Points("week", t)[i].to <=> f[i] <= k /\ k <= g[i]
  BY <1>6, <1>10, <1>12
<1>14. k \in Key(StartOf("week", t))..LastShown("week", t) <=> f[1] <= k /\ k <= g[4]
  BY <1>4, <1>5, <1>6, <1>9, <1>12
<1>15. IsChain(4, f, g)
  BY <1>6, <1>7, <1>8 DEF IsChain
<1>16. Follows("week", t, k, 4, f, g)
  BY <1>11, <1>13, <1>14 DEF Follows
<1> QED
  BY <1>15, <1>16, ChainShows

\* A whole month is a point.
LEMMA MonthSpan ==
  ASSUME NEW n \in Int
  PROVE  /\ WholeMonth(At(n, 1)) = [from |-> Key(At(n, 1)), to |-> Key(At(n, Days(n)))]
         /\ Key(At(n, 1)) \in DayKeys /\ Key(At(n, Days(n))) \in DayKeys
         /\ Key(At(n, 1)) \in Int /\ Key(At(n, Days(n))) \in Int
         /\ Key(At(n, 1)) <= Key(At(n, Days(n)))
         /\ \A k \in DayKeys : k > Key(At(n, Days(n))) <=> k >= Key(At(n + 1, 1))
<1>1. Days(n) \in 28..31 /\ 1 \in 1..Days(n) /\ Days(n) \in 1..Days(n) /\ Days(n) \in 1..31
  BY DaysIs
<1>2. WholeMonth(At(n, 1)) = [from |-> Key(At(n, 1)), to |-> Key(At(n, Days(n)))]
  <2>1. At(n, 1).year = n \div 12 /\ At(n, 1).month = (n % 12) + 1
    BY AtIs
  <2>2. LastDay(n \div 12, (n % 12) + 1) = At(n, Days(n))
    BY DEF LastDay, At, Days
  <2> QED
    BY <2>1, <2>2 DEF WholeMonth
<1>3. RealDay(At(n, 1)) /\ RealDay(At(n, Days(n)))
  BY <1>1, RealAt
<1>4. /\ Key(At(n, 1)) \in DayKeys /\ Key(At(n, Days(n))) \in DayKeys
      /\ Key(At(n, 1)) \in Int /\ Key(At(n, Days(n))) \in Int
  BY <1>3, RealKey
<1>5. Key(At(n, 1)) <= Key(At(n, Days(n)))
  <2>1. PICK d \in 1..31 : d = 1
    OBVIOUS
  <2>2. PICK e \in 1..31 : e = Days(n)
    BY <1>1
  <2>3. Key(At(n, e)) >= Key(At(n, d)) <=> n < n \/ (n = n /\ d <= e)
    BY KeyOrder
  <2> QED
    BY <1>1, <1>4, <2>1, <2>2, <2>3
<1>6. AddDays(At(n, Days(n)), 1) = At(n + 1, 1)
  <2>1. PICK d \in Int : d = Days(n) /\ d + 1 > Days(n) /\ d + 1 - Days(n) = 1
    BY <1>1
  <2>2. AddDays(At(n, d), 1) = At(n + 1, d + 1 - Days(n))
    BY <2>1, AddDaysAt
  <2> QED
    BY <2>1, <2>2
<1>7. \A k \in DayKeys : k > Key(At(n, Days(n))) <=> k >= Key(At(n + 1, 1))
  BY <1>3, <1>6, NextDay
<1> QED
  BY <1>2, <1>4, <1>5, <1>7

\* Whole months, one after another.
MonthStarts(b, N) == [i \in 1..N |-> Key(At(b + i, 1))]
MonthEnds(b, N) == [i \in 1..N |-> Key(At(b + i, Days(b + i)))]

LEMMA MonthChain ==
  ASSUME NEW N \in Nat \ {0}, NEW b \in Int
  PROVE  /\ IsChain(N, MonthStarts(b, N), MonthEnds(b, N))
         /\ \A i \in 1..N : MonthStarts(b, N)[i] \in Int /\ MonthEnds(b, N)[i] \in Int
<1> DEFINE f == MonthStarts(b, N)
           g == MonthEnds(b, N)
<1>1. \A i \in 1..N : f[i] = Key(At(b + i, 1)) /\ g[i] = Key(At(b + i, Days(b + i))) /\ b + i \in Int
  BY DEF MonthStarts, MonthEnds
<1>2. DOMAIN f = 1..N /\ DOMAIN g = 1..N /\ f = [i \in 1..N |-> f[i]] /\ g = [i \in 1..N |-> g[i]]
  BY DEF MonthStarts, MonthEnds
<1> HIDE DEF f, g
<1>3. ASSUME NEW i \in 1..N
      PROVE  /\ f[i] \in DayKeys /\ g[i] \in DayKeys /\ f[i] \in Int /\ g[i] \in Int /\ f[i] <= g[i]
             /\ i < N => \A k \in DayKeys : k > g[i] <=> k >= f[i + 1]
  <2>1. PICK n \in Int : n = b + i
    OBVIOUS
  <2>2. f[i] = Key(At(n, 1)) /\ g[i] = Key(At(n, Days(n)))
    BY <1>1, <2>1
  <2>3. i < N => f[i + 1] = Key(At(n + 1, 1))
    <3>1. SUFFICES ASSUME i < N
                   PROVE  f[i + 1] = Key(At(n + 1, 1))
      OBVIOUS
    <3>2. i + 1 \in 1..N /\ b + (i + 1) = n + 1
      BY <2>1, <3>1
    <3> QED
      BY <1>1, <3>2
  <2> QED
    BY <2>2, <2>3, MonthSpan
<1>4. f \in [1..N -> DayKeys] /\ g \in [1..N -> DayKeys]
  BY <1>2, <1>3
<1>5. IsChain(N, f, g)
  BY <1>3, <1>4 DEF IsChain
<1> QED
  BY <1>3, <1>5 DEF f, g

LEMMA YearShown ==
  ASSUME NEW t, RealDay(t), NEW k \in DayKeys, k <= Key(t)
  PROVE  Shown("year", t, k)
<1> DEFINE n == MonthOf(t)
           b == n - 12
           f == MonthStarts(b, 12)
           g == MonthEnds(b, 12)
           P == Points("year", t)
<1>1. n \in Int /\ b \in Int /\ t = At(n, t.day) /\ t.day \in 1..Days(n) /\ 12 \in Nat \ {0}
  BY RealFields
<1>2. P = [i \in 1..12 |-> WholeMonth(AddMonths(t, i - 12))]
  BY DEF Points, YearPoints
<1>3. StartOf("year", t) = AddMonths(t, -11) /\ LastShown("year", t) = Key(t)
  BY DEF StartOf, LastShown
<1>4. \A i \in 1..12 : f[i] = Key(At(b + i, 1)) /\ g[i] = Key(At(b + i, Days(b + i)))
  BY DEF MonthStarts, MonthEnds
<1> HIDE DEF n, b, f, g, P
<1>5. ASSUME NEW i \in 1..12
      PROVE  P[i].from = f[i] /\ P[i].to = g[i] /\ AddMonths(t, i - 12) = At(b + i, 1)
  <2>1. PICK x \in Int : x = i - 12 /\ n + x = b + i /\ b + i \in Int
    BY <1>1 DEF b
  <2>2. AddMonths(t, x) = At(n + x, 1)
    BY <1>1, AddMonthsAt
  <2>3. WholeMonth(At(b + i, 1)) = [from |-> Key(At(b + i, 1)), to |-> Key(At(b + i, Days(b + i)))]
    BY <2>1, MonthSpan
  <2> QED
    BY <1>2, <1>4, <2>1, <2>2, <2>3
<1>6. IsChain(12, f, g) /\ \A i \in 1..12 : f[i] \in Int /\ g[i] \in Int
  BY <1>1, MonthChain DEF f, g
<1>7. f[1] = Key(StartOf("year", t))
  <2>1. 1 \in 1..12 /\ 1 - 12 = -11
    OBVIOUS
  <2> QED
    BY <1>3, <1>4, <1>5, <2>1
<1>8. g[12] >= Key(t)
  <2>1. 12 \in 1..12 /\ b + 12 = n
    BY <1>1 DEF b
  <2>2. g[12] = Key(At(n, Days(n)))
    BY <1>4, <2>1
  <2>3. PICK d \in 1..31 : d = t.day
    BY <1>1, DaysIs
  <2>4. PICK e \in 1..31 : e = Days(n) /\ d <= e
    BY <1>1, <2>3, DaysIs
  <2>5. Key(At(n, e)) >= Key(At(n, d)) <=> n < n \/ (n = n /\ d <= e)
    BY <1>1, KeyOrder
  <2> QED
    BY <1>1, <2>2, <2>3, <2>4, <2>5
<1>9. k \in Int /\ Key(t) \in Int
  BY RealKey DEF DayKeys
<1>10. DOMAIN P = 1..12
  BY <1>2
<1>11. \A i \in 1..12 : k \in P[i].from..P[i].to <=> f[i] <= k /\ k <= g[i]
  BY <1>5, <1>6, <1>9
<1>12. k \in Key(StartOf("year", t))..LastShown("year", t) <=> f[1] <= k /\ k <= g[12]
  BY <1>3, <1>6, <1>7, <1>8, <1>9
<1>13. Follows("year", t, k, 12, f, g)
  BY <1>10, <1>11, <1>12 DEF Follows, P
<1> QED
  BY <1>6, <1>13, ChainShows

LEMMA MonthShown ==
  ASSUME NEW t, RealDay(t), NEW k \in DayKeys, k <= Key(t)
  PROVE  Shown("month", t, k)
<1> DEFINE n == MonthOf(t)
           N == t.day
           f == [i \in 1..N |-> Key(At(n, i))]
           P == Points("month", t)
<1>1. n \in Int /\ t = At(n, N) /\ N \in 1..Days(n) /\ Days(n) \in 28..31 /\ N \in Nat \ {0}
  BY RealFields, DaysIs
<1>2. P = [i \in 1..N |-> [from |-> Key([t EXCEPT !.day = i]), to |-> Key([t EXCEPT !.day = i])]]
  BY DEF Points, MonthPoints
<1>3. StartOf("month", t) = Date(t.year, t.month, 1) /\ LastShown("month", t) = Key(t)
  BY DEF StartOf, LastShown
<1>4. \A i : Date(t.year, t.month, i) = At(n, i) /\ [t EXCEPT !.day = i] = At(n, i)
  <2>1. t.year = n \div 12 /\ t.month = (n % 12) + 1
    BY <1>1, AtIs
  <2>2. t = Date(n \div 12, (n % 12) + 1, N)
    BY <1>1 DEF At
  <2> HIDE DEF n, N
  <2>3. \A i : [t EXCEPT !.day = i] = Date(n \div 12, (n % 12) + 1, i)
    BY <2>2 DEF Date
  <2> QED
    BY <2>1, <2>3 DEF At
<1>5. \A i \in 1..N : f[i] = Key(At(n, i))
  OBVIOUS
<1>6. f = [i \in 1..N |-> f[i]]
  OBVIOUS
<1> HIDE DEF n, N, f, P
<1>7. ASSUME NEW i \in 1..N
      PROVE  /\ P[i].from = f[i] /\ P[i].to = f[i] /\ f[i] \in DayKeys /\ f[i] \in Int /\ f[i] <= f[i]
             /\ i < N => \A e \in DayKeys : e > f[i] <=> e >= f[i + 1]
  <2>1. i \in 1..Days(n) /\ i \in Int
    BY <1>1
  <2>2. RealDay(At(n, i))
    BY <1>1, <2>1, RealAt
  <2>3. f[i] \in DayKeys /\ f[i] \in Int
    BY <1>5, <2>2, RealKey
  <2>4. P[i].from = f[i] /\ P[i].to = f[i]
    BY <1>2, <1>4, <1>5
  <2>5. ASSUME i < N, NEW e \in DayKeys
        PROVE  e > f[i] <=> e >= f[i + 1]
    <3>1. i + 1 \in 1..Days(n) /\ i + 1 \in 1..N
      BY <1>1, <2>1, <2>5
    <3>2. AddDays(At(n, i), 1) = At(n, i + 1)
      BY <1>1, <2>1, <3>1, AddDaysAt
    <3>3. e > Key(At(n, i)) <=> e >= Key(AddDays(At(n, i), 1))
      BY <2>2, NextDay
    <3> QED
      BY <1>5, <3>1, <3>2, <3>3
  <2> QED
    BY <2>3, <2>4, <2>5
<1>8. f \in [1..N -> DayKeys]
  BY <1>6, <1>7
<1>9. IsChain(N, f, f)
  BY <1>1, <1>7, <1>8 DEF IsChain
<1>10. k \in Int /\ Key(t) \in Int
  BY RealKey DEF DayKeys
<1>11. 1 \in 1..N /\ N \in 1..N
  BY <1>1
<1>12. f[1] = Key(StartOf("month", t)) /\ f[N] = Key(t)
  BY <1>1, <1>3, <1>4, <1>5, <1>11
<1>13. DOMAIN P = 1..N
  BY <1>2
<1>14. \A i \in 1..N : k \in P[i].from..P[i].to <=> f[i] <= k /\ k <= f[i]
  BY <1>7, <1>10
<1>15. k \in Key(StartOf("month", t))..LastShown("month", t) <=> f[1] <= k /\ k <= f[N]
  BY <1>3, <1>7, <1>10, <1>11, <1>12
<1>16. Follows("month", t, k, N, f, f)
  BY <1>13, <1>14, <1>15 DEF Follows, P
<1> QED
  BY <1>9, <1>16, ChainShows

\* The quarter before this one begins three months after a multiple of three.
LEMMA QuarterIs ==
  ASSUME NEW t, RealDay(t)
  PROVE  \E q \in Int :
           /\ QuarterStart(t) = At(q, 1)
           /\ q % 12 \in {0, 3, 6, 9}
           /\ (IF (t.month - 1) \div 3 = 0 THEN Date(t.year - 1, 10, 1)
               ELSE Date(t.year, 3 * ((t.month - 1) \div 3 - 1) + 1, 1)) = At(q, 1)
<1> DEFINE c == (t.month - 1) \div 3
<1>1. t.year \in Int /\ t.month \in 1..12 /\ c \in 0..3
  BY RealFields
<1>2. CASE t.month <= 3
  <2>1. c = 0
    BY <1>1, <1>2
  <2>2. PICK q \in Int : q = 12 * (t.year - 1) + 9
    BY <1>1
  <2>3. q \div 12 = t.year - 1 /\ q % 12 = 9
    <3>1. t.year - 1 \in Int /\ 9 \in 0..11
      BY <1>1
    <3> QED
      BY <2>2, <3>1, MonthParts
  <2>4. At(q, 1) = Date(t.year - 1, 10, 1)
    BY <2>3 DEF At
  <2>5. QuarterStart(t) = Date(t.year - 1, 10, 1)
    BY <1>2 DEF QuarterStart
  <2> QED
    BY <2>1, <2>3, <2>4, <2>5
<1>3. CASE ~(t.month <= 3)
  <2>1. c \in 1..3
    BY <1>1, <1>3
  <2>2. PICK q \in Int : q = 12 * t.year + (3 * c - 3)
    BY <1>1, <2>1
  <2>3. q \div 12 = t.year /\ q % 12 = 3 * c - 3
    <3>1. 3 * c - 3 \in 0..11
      BY <2>1
    <3> QED
      BY ZenonT(30), <1>1, <2>2, <3>1, MonthParts
  <2>4. At(q, 1) = Date(t.year, 3 * c - 2, 1)
    <3>1. 3 * c - 3 + 1 = 3 * c - 2
      BY <2>1
    <3> QED
      BY <2>3, <3>1 DEF At
  <2>5. QuarterStart(t) = Date(t.year, 3 * c - 2, 1)
    BY <1>3 DEF QuarterStart
  <2>6. 3 * (c - 1) + 1 = 3 * c - 2 /\ c # 0 /\ 3 * c - 3 \in {0, 3, 6, 9}
    BY <2>1
  <2> QED
    BY <2>3, <2>4, <2>5, <2>6
<1> QED
  BY <1>2, <1>3

LEMMA QuarterShown ==
  ASSUME NEW t, RealDay(t), NEW k \in DayKeys
  PROVE  Shown("quarter", t, k)
<1>1. PICK q \in Int :
        /\ QuarterStart(t) = At(q, 1)
        /\ q % 12 \in {0, 3, 6, 9}
        /\ (IF (t.month - 1) \div 3 = 0 THEN Date(t.year - 1, 10, 1)
            ELSE Date(t.year, 3 * ((t.month - 1) \div 3 - 1) + 1, 1)) = At(q, 1)
  BY QuarterIs
<1> DEFINE b == q - 1
           f == MonthStarts(b, 3)
           g == MonthEnds(b, 3)
           P == Points("quarter", t)
<1>2. P = [i \in 1..3 |-> WholeMonth([At(q, 1) EXCEPT !.month = @ + i - 1])]
  BY <1>1 DEF Points, QuarterPoints
<1>3. StartOf("quarter", t) = At(q, 1) /\ LastShown("quarter", t) = Key(AddDays(AddMonths(At(q, 1), 3), -1))
  BY <1>1 DEF StartOf, LastShown
<1>4. \A i \in 1..3 : f[i] = Key(At(b + i, 1)) /\ g[i] = Key(At(b + i, Days(b + i)))
  BY DEF MonthStarts, MonthEnds
<1>5. b \in Int /\ 3 \in Nat \ {0}
  OBVIOUS
<1>6. IsChain(3, f, g) /\ \A i \in 1..3 : f[i] \in Int /\ g[i] \in Int
  BY <1>5, MonthChain
<1>7. ASSUME NEW i \in 1..3
      PROVE  [At(q, 1) EXCEPT !.month = @ + i - 1] = At(b + i, 1)
  <2>1. q \div 12 \in Int /\ 12 * (q \div 12) + (q % 12) = q
    BY MonthParts
  <2>2. PICK m \in Int : m = b + i
    BY <1>5
  <2>3. m = 12 * (q \div 12) + ((q % 12) + (i - 1)) /\ (q % 12) + (i - 1) \in 0..11
    BY <1>1, <2>1, <2>2
  <2>4. m \div 12 = q \div 12 /\ m % 12 = (q % 12) + (i - 1)
    BY SMTT(30), <2>1, <2>3, MonthParts
  <2>5. (q % 12) + 1 + i - 1 = (m % 12) + 1
    BY <1>1, <2>4
  <2>6. [At(q, 1) EXCEPT !.month = @ + i - 1] = Date(q \div 12, (q % 12) + 1 + i - 1, 1)
    BY DEF At, Date
  <2> QED
    BY <2>2, <2>4, <2>5, <2>6 DEF At
<1> HIDE DEF b, f, g, P
<1>8. ASSUME NEW i \in 1..3
      PROVE  P[i].from = f[i] /\ P[i].to = g[i]
  <2>1. b + i \in Int
    BY <1>5
  <2>2. WholeMonth(At(b + i, 1)) = [from |-> Key(At(b + i, 1)), to |-> Key(At(b + i, Days(b + i)))]
    BY <2>1, MonthSpan
  <2> QED
    BY <1>2, <1>4, <1>7, <2>2
<1>9. f[1] = Key(StartOf("quarter", t)) /\ g[3] = LastShown("quarter", t)
  <2>1. 1 \in 1..3 /\ 3 \in 1..3 /\ b + 1 = q
    BY DEF b
  <2>2. AddMonths(At(q, 1), 3) = At(q + 3, 1)
    BY AddMonthsAt
  <2>3. PICK m \in Int : m = q + 3 /\ m - 1 = b + 3
    BY DEF b
  <2>4. PICK x \in Int : x = -1 /\ 1 + x < 1 /\ 1 + x = 0
    OBVIOUS
  <2>5. AddDays(At(m, 1), x) = At(m - 1, Days(m - 1) + (1 + x))
    BY <2>4, AddDaysAt
  <2>6. Days(m - 1) + (1 + x) = Days(m - 1)
    <3>1. Days(m - 1) \in Int
      BY DaysIs
    <3> QED
      BY <2>4, <3>1
  <2>7. LastShown("quarter", t) = Key(At(b + 3, Days(b + 3)))
    BY <1>3, <2>2, <2>3, <2>4, <2>5, <2>6
  <2> QED
    BY <1>3, <1>4, <2>1, <2>7
<1>10. k \in Int
  BY DEF DayKeys
<1>11. DOMAIN P = 1..3
  BY <1>2
<1>12. \A i \in 1..3 : k \in P[i].from..P[i].to <=> f[i] <= k /\ k <= g[i]
  BY <1>6, <1>8, <1>10
<1>13. k \in Key(StartOf("quarter", t))..LastShown("quarter", t) <=> f[1] <= k /\ k <= g[3]
  BY <1>6, <1>9, <1>10
<1>14. Follows("quarter", t, k, 3, f, g)
  BY <1>11, <1>12, <1>13 DEF Follows, P
<1> QED
  BY <1>6, <1>14, ChainShows

LEMMA EachShown ==
  ASSUME NEW range \in Ranges, NEW t, RealDay(t), NEW k \in DayKeys, k <= Key(t)
  PROVE  Shown(range, t, k)
BY DayShown, WeekShown, MonthShown, QuarterShown, YearShown DEF Ranges

-----------------------------------------------------------------------------
(* What the points add up to.                                              *)

RowsFor(Z, K) == {[of |-> d, key |-> K[d], amount |-> d.amount] : d \in Z}
Amounts(Z) == [d \in Z |-> d.amount]
Between(Z, K, a, b) == {d \in Z : K[d] \in a..b}

LEMMA AmountsOf ==
  ASSUME NEW Z, NEW S \in SUBSET Z
  PROVE  Total([d \in S |-> d.amount]) = SumOver(Amounts(Z), S)
<1> DEFINE n == [d \in S |-> d.amount]
<1>1. \A d \in S : n[d] = Amounts(Z)[d]
  BY DEF Amounts
<1>2. DOMAIN n = S
  OBVIOUS
<1> HIDE DEF n
<1>3. SumOver(n, S) = SumOver(Amounts(Z), S)
  BY <1>1, SumSame
<1>4. Total(n) = SumOver(n, S)
  BY <1>2 DEF Total
<1> QED
  BY <1>3, <1>4 DEF n

LEMMA PointsFinite ==
  ASSUME NEW range \in Ranges, NEW t, RealDay(t)
  PROVE  IsFiniteSet(DOMAIN Points(range, t))
<1>1. \A n \in Int : IsFiniteSet(1..n)
  <2>1. 1 \in Int
    OBVIOUS
  <2> QED
    BY <2>1, FS_Interval
<1>2. IsFiniteSet(1..t.day)
  <2>1. t.day \in Int /\ 1 \in Int
    BY RealFields
  <2> QED
    BY <2>1, FS_Interval
<1>3. CASE range = "day"
  <2>1. PICK n \in Int : n = 7
    OBVIOUS
  <2>2. DOMAIN Points(range, t) = 1..n
    BY <1>3, <2>1 DEF Points, DayPoints
  <2> QED
    BY <1>1, <2>2
<1>4. CASE range = "week"
  <2>1. PICK n \in Int : n = 4
    OBVIOUS
  <2>2. DOMAIN Points(range, t) = 1..n
    BY <1>4, <2>1 DEF Points, WeekPoints
  <2> QED
    BY <1>1, <2>2
<1>5. CASE range = "month"
  BY <1>2, <1>5 DEF Points, MonthPoints
<1>6. CASE range = "quarter"
  <2>1. PICK n \in Int : n = 3
    OBVIOUS
  <2>2. DOMAIN Points(range, t) = 1..n
    BY <1>6, <2>1 DEF Points, QuarterPoints
  <2> QED
    BY <1>1, <2>2
<1>7. CASE range = "year"
  <2>1. PICK n \in Int : n = 12
    OBVIOUS
  <2>2. DOMAIN Points(range, t) = 1..n
    BY <1>7, <2>1 DEF Points, YearPoints
  <2> QED
    BY <1>1, <2>2
<1> QED
  BY <1>3, <1>4, <1>5, <1>6, <1>7 DEF Ranges

LEMMA PointSum ==
  ASSUME NEW range, NEW t, NEW Z, IsFiniteSet(Z), \A d \in Z : d.amount \in Nat, NEW K,
         NEW i \in DOMAIN Points(range, t)
  PROVE  Series(RowsFor(Z, K), range, t)[i] =
           SumOver(Amounts(Z), Between(Z, K, Points(range, t)[i].from, Points(range, t)[i].to))
<1> DEFINE a == Points(range, t)[i].from
           b == Points(range, t)[i].to
           I == Between(Z, K, a, b)
           R == {x \in RowsFor(Z, K) : x.key \in a..b}
           n == [r \in R |-> r.amount]
           g == [d \in I |-> [of |-> d, key |-> K[d], amount |-> d.amount]]
<1>1. Series(RowsFor(Z, K), range, t)[i] = Total(n)
  BY DEF Series
<1>2. IsFiniteSet(I)
  BY FS_Subset DEF Between
<1>3. \A d \in I : d \in Z /\ K[d] \in a..b
  BY DEF Between
<1>4. \A d \in I : g[d] = [of |-> d, key |-> K[d], amount |-> d.amount]
  OBVIOUS
<1>5. \A d \in I : g[d] \in R
  BY <1>3, <1>4 DEF RowsFor
<1>6. g \in [I -> R]
  BY <1>5
<1>7. \A d, e \in I : g[d] = g[e] => d = e
  BY <1>4
<1>8. \A r \in R : \E d \in I : g[d] = r
  <2> SUFFICES ASSUME NEW r \in R
               PROVE  \E d \in I : g[d] = r
    OBVIOUS
  <2>1. PICK d \in Z : r = [of |-> d, key |-> K[d], amount |-> d.amount]
    BY DEF RowsFor
  <2>2. d \in I
    BY <2>1 DEF Between
  <2> QED
    BY <2>1, <2>2
<1>9. \A d \in I : n[g[d]] = d.amount
  BY <1>4, <1>5
<1>10. DOMAIN n = R
  OBVIOUS
<1> HIDE DEF a, b, I, R, n, g
<1>11. g \in Bijection(I, R)
  BY <1>6, <1>7, <1>8, BijectionIs
<1>12. \A d \in I : Amounts(Z)[d] \in Nat /\ n[g[d]] = Amounts(Z)[d]
  BY <1>3, <1>9 DEF Amounts
<1>13. SumOver(n, R) = SumOver(Amounts(Z), I)
  BY <1>2, <1>11, <1>12, SumOfImage
<1> QED
  BY <1>1, <1>10, <1>13 DEF Total, I, a, b

(* A chart of documents of days that are over adds up to the documents of  *)
(* the days it shows.                                                      *)
LEMMA TrendTotal ==
  ASSUME NEW range \in Ranges, NEW t, RealDay(t), NEW Z, IsFiniteSet(Z), \A d \in Z : d.amount \in Nat,
         NEW K, \A d \in Z : K[d] \in DayKeys /\ K[d] <= Key(t)
  PROVE  Total(Series(RowsFor(Z, K), range, t)) =
           SumOver(Amounts(Z), Between(Z, K, Key(StartOf(range, t)), LastShown(range, t)))
<1> DEFINE P == Points(range, t)
           I == DOMAIN P
           X == [i \in I |-> Between(Z, K, P[i].from, P[i].to)]
           S == Series(RowsFor(Z, K), range, t)
<1>1. IsFiniteSet(I)
  BY PointsFinite
<1>2. \A i \in I : S[i] = SumOver(Amounts(Z), X[i])
  BY PointSum
<1>3. S = [i \in I |-> S[i]]
  BY DEF Series
<1>4. \A d \in Z : Shown(range, t, K[d])
  BY EachShown
<1>5. \A i \in I : \A d : d \in X[i] <=> d \in Z /\ K[d] \in P[i].from..P[i].to
  BY DEF Between
<1>6. \A i, j \in I : i # j => X[i] \cap X[j] = {}
  BY <1>4, <1>5 DEF Shown
<1>7. UNION {X[i] : i \in I} = Between(Z, K, Key(StartOf(range, t)), LastShown(range, t))
  <2>1. ASSUME NEW d
        PROVE  d \in UNION {X[i] : i \in I} <=>
                 d \in Between(Z, K, Key(StartOf(range, t)), LastShown(range, t))
    <3>1. d \in UNION {X[i] : i \in I} <=> \E i \in I : d \in X[i]
      OBVIOUS
    <3>2. (\E i \in I : d \in X[i]) <=> d \in Z /\ \E i \in I : K[d] \in P[i].from..P[i].to
      BY <1>5
    <3>3. d \in Z => ((\E i \in I : K[d] \in P[i].from..P[i].to) <=>
                        K[d] \in Key(StartOf(range, t))..LastShown(range, t))
      BY <1>4 DEF Shown
    <3> QED
      BY <3>1, <3>2, <3>3 DEF Between
  <2> QED
    BY <2>1
<1>8. \A i \in I : IsFiniteSet(X[i]) /\ \A x \in X[i] : Amounts(Z)[x] \in Nat
  <2>1. ASSUME NEW i \in I
        PROVE  IsFiniteSet(X[i])
    <3>1. X[i] \subseteq Z
      BY <1>5
    <3> QED
      BY <3>1, FS_Subset
  <2>2. \A i \in I : \A x \in X[i] : Amounts(Z)[x] \in Nat
    BY <1>5 DEF Amounts
  <2> QED
    BY <2>1, <2>2
<1> HIDE DEF P, I, X, S
<1>9. SumOver(Amounts(Z), UNION {X[i] : i \in I}) = Total([i \in I |-> SumOver(Amounts(Z), X[i])])
  BY <1>1, <1>6, <1>8, SumOfParts
<1>10. [i \in I |-> SumOver(Amounts(Z), X[i])] = S
  BY <1>2, <1>3
<1> QED
  BY <1>7, <1>9, <1>10 DEF S

\* The rows of a trend are those of the documents it matches.
SalesOf(docs, range, today) == {x \in docs : Matches(x, range, today)}
RevenueOf(docs, range, today) == {x \in docs : Matches(x, range, today) /\ x.status \notin OffChart}
SaleKeys(Z) == [d \in Z |-> SaleKey(d)]
InvoiceKeys(Z) == [d \in Z |-> InvoiceKey(d)]

LEMMA TrendRows ==
  ASSUME NEW docs, NEW range, NEW today, NEW drawn
  PROVE  /\ SalesTrend(docs, range, today, drawn) =
              Series(RowsFor(SalesOf(docs, range, today), SaleKeys(SalesOf(docs, range, today))), range, drawn)
         /\ BilledTrend(docs, range, today, drawn) =
              Series(RowsFor(RevenueOf(docs, range, today), InvoiceKeys(RevenueOf(docs, range, today))),
                     range, drawn)
<1>1. {[of |-> d, key |-> SaleKey(d), amount |-> d.amount] : d \in {x \in docs : Matches(x, range, today)}}
        = RowsFor(SalesOf(docs, range, today), SaleKeys(SalesOf(docs, range, today)))
  BY DEF RowsFor, SaleKeys, SalesOf
<1>2. {[of |-> d, key |-> InvoiceKey(d), amount |-> d.amount] :
          d \in {x \in docs : Matches(x, range, today) /\ x.status \notin OffChart}}
        = RowsFor(RevenueOf(docs, range, today), InvoiceKeys(RevenueOf(docs, range, today)))
  BY DEF RowsFor, InvoiceKeys, RevenueOf
<1> QED
  BY <1>1, <1>2 DEF SalesTrend, BilledTrend

LEMMA DrawnLater ==
  ASSUME NEW today, RealDay(today), NEW pass \in 0..1
  PROVE  /\ RealDay(AddDays(today, pass)) /\ Key(today) <= Key(AddDays(today, pass))
         /\ Key(today) \in DayKeys /\ Key(today) \in Int /\ Key(AddDays(today, pass)) \in Int
<1>1. pass \in (-28)..28 /\ pass \in 0..28
  OBVIOUS
<1>2. RealDay(AddDays(today, pass))
  BY <1>1, AddDaysReal
<1>3. Key(AddDays(today, pass)) >= Key(today)
  BY <1>1, Forward
<1>4. Key(today) \in DayKeys /\ Key(today) \in Int /\ Key(AddDays(today, pass)) \in Int
  BY <1>2, RealKey
<1> QED
  BY <1>2, <1>3, <1>4

\* The documents of a sales trend, which have one date each.
LEMMA SalesAre ==
  ASSUME NEW docs, IsFiniteSet(docs), \A d \in docs : IsDated(d),
         \A d \in docs : ~d.timed /\ d.issueDate = NoKey,
         NEW range, NEW today, RealDay(today)
  PROVE  /\ IsFiniteSet(SalesOf(docs, range, today)) /\ SalesOf(docs, range, today) \in SUBSET docs
         /\ \A d \in docs : d \in SalesOf(docs, range, today) <=>
              d.date # NoKey /\ Key(StartOf(range, today)) <= d.date /\ d.date <= Key(today)
         /\ \A d \in SalesOf(docs, range, today) :
              /\ d.amount \in Nat /\ SaleKeys(SalesOf(docs, range, today))[d] = d.date
              /\ d.date \in DayKeys /\ d.date <= Key(today)
<1>1. IsFiniteSet(SalesOf(docs, range, today)) /\ SalesOf(docs, range, today) \in SUBSET docs
  BY FS_Subset DEF SalesOf
<1>2. \A d \in docs : d \in SalesOf(docs, range, today) <=>
        d.date # NoKey /\ Key(StartOf(range, today)) <= d.date /\ d.date <= Key(today)
  BY DEF SalesOf, Matches, Within
<1>3. ASSUME NEW d \in SalesOf(docs, range, today)
      PROVE  /\ d.amount \in Nat /\ SaleKeys(SalesOf(docs, range, today))[d] = d.date
             /\ d.date \in DayKeys /\ d.date <= Key(today)
  <2>1. d \in docs /\ d.date # NoKey /\ d.date <= Key(today)
    BY <1>1, <1>2
  <2>2. IsDayKey(d.date) /\ d.amount \in Nat
    BY <2>1 DEF IsDated
  <2>3. d.date \in DayKeys
    BY <2>1, <2>2, DecodeKey
  <2>4. SaleKeys(SalesOf(docs, range, today))[d] = d.date
    BY DEF SaleKeys, SaleKey
  <2> QED
    BY <2>1, <2>2, <2>3, <2>4
<1> QED
  BY <1>1, <1>2, <1>3

LEMMA StartInt ==
  ASSUME NEW range \in Ranges, NEW today, RealDay(today)
  PROVE  Key(StartOf(range, today)) \in Int
<1>1. CASE range = "day"
  <2>1. RealDay(AddDays(today, -6))
    <3>1. -6 \in (-28)..28
      OBVIOUS
    <3> QED
      BY <3>1, AddDaysReal
  <2> QED
    BY <1>1, <2>1, RealKey DEF StartOf
<1>2. CASE range = "week"
  <2>1. PICK x \in (-28)..28 : Monday(today) = AddDays(today, x)
    <3>1. (-6)..0 \subseteq (-28)..28
      OBVIOUS
    <3> QED
      BY <3>1, MondayIs
  <2>2. -21 \in (-28)..28
    OBVIOUS
  <2>3. RealDay(Monday(today))
    BY <2>1, AddDaysReal
  <2>4. RealDay(AddDays(Monday(today), -21))
    BY <2>2, <2>3, AddDaysReal
  <2> QED
    BY <1>2, <2>4, RealKey DEF StartOf
<1>3. ASSUME NEW n \in Int
      PROVE  Key(At(n, 1)) \in Int
  BY MonthSpan
<1>4. MonthOf(today) \in Int /\ today = At(MonthOf(today), today.day)
  BY RealFields
<1>5. CASE range = "month"
  <2>1. Date(today.year, today.month, 1) = At(MonthOf(today), 1)
    BY <1>4, AtIs DEF At, Date
  <2> QED
    BY <1>3, <1>4, <1>5, <2>1 DEF StartOf
<1>6. CASE range = "quarter"
  <2>1. PICK q \in Int : QuarterStart(today) = At(q, 1)
    BY QuarterIs
  <2> QED
    BY <1>3, <1>6, <2>1 DEF StartOf
<1>7. CASE range = "year"
  <2>1. PICK x \in Int : x = -11
    OBVIOUS
  <2>2. PICK n \in Int : today = At(n, today.day)
    BY <1>4
  <2>3. AddMonths(At(n, today.day), x) = At(n + x, 1)
    BY AddMonthsAt
  <2>4. n + x \in Int
    OBVIOUS
  <2> QED
    BY <1>3, <1>7, <2>1, <2>2, <2>3, <2>4 DEF StartOf
<1> QED
  BY <1>1, <1>2, <1>5, <1>6, <1>7 DEF Ranges

LEMMA DrawnOnceLemma ==
  ASSUME NEW docs, IsFiniteSet(docs), \A d \in docs : IsDated(d), NEW range \in Ranges,
         NEW today, RealDay(today), NEW pass \in 0..1
  PROVE  DrawnOnce(docs, range, today, AddDays(today, pass))
<1> DEFINE drawn == AddDays(today, pass)
           Z == SalesOf(docs, range, today)
           K == SaleKeys(Z)
           seen == Key(StartOf(range, today))..Key(today)
           shown == Key(StartOf(range, drawn))..LastShown(range, drawn)
           S == {x \in docs : x.date \in seen /\ x.date \in shown}
<1>1. SUFFICES ASSUME \A d \in docs : ~d.timed /\ d.issueDate = NoKey
               PROVE  Total(SalesTrend(docs, range, today, drawn)) = Total([d \in S |-> d.amount])
  BY DEF DrawnOnce
<1>2. /\ RealDay(drawn) /\ Key(today) <= Key(drawn)
      /\ Key(today) \in Int /\ Key(drawn) \in Int
  BY DrawnLater
<1>3. /\ IsFiniteSet(Z) /\ Z \in SUBSET docs
      /\ \A d \in docs : d \in Z <=> d.date # NoKey /\ Key(StartOf(range, today)) <= d.date /\ d.date <= Key(today)
      /\ \A d \in Z : d.amount \in Nat /\ K[d] = d.date /\ d.date \in DayKeys /\ d.date <= Key(today)
  BY <1>1, SalesAre
<1>4. SalesTrend(docs, range, today, drawn) = Series(RowsFor(Z, K), range, drawn)
  BY TrendRows
<1> HIDE DEF drawn, Z, K
<1>5. \A d \in Z : K[d] \in DayKeys /\ K[d] <= Key(drawn)
  <2> SUFFICES ASSUME NEW d \in Z
               PROVE  K[d] \in DayKeys /\ K[d] <= Key(drawn)
    OBVIOUS
  <2>1. K[d] \in DayKeys /\ K[d] \in Int /\ K[d] <= Key(today)
    BY <1>3 DEF DayKeys
  <2> QED
    BY <1>2, <2>1
<1>6. Total(Series(RowsFor(Z, K), range, drawn)) =
        SumOver(Amounts(Z), Between(Z, K, Key(StartOf(range, drawn)), LastShown(range, drawn)))
  BY <1>2, <1>3, <1>5, TrendTotal
<1>7. Between(Z, K, Key(StartOf(range, drawn)), LastShown(range, drawn)) = S
  <2>1. ASSUME NEW d \in S
        PROVE  d \in Z /\ K[d] \in shown
    <3>1. d.date \in seen /\ d.date \in Int /\ d \in docs
      OBVIOUS
    <3>2. d.date # NoKey
      BY <3>1, ChartAssumption
    <3>3. d \in Z
      BY <1>3, <3>1, <3>2
    <3> QED
      BY <1>3, <3>3
  <2>2. ASSUME NEW d \in Z, K[d] \in shown
        PROVE  d \in S
    <3>1. /\ d \in docs /\ K[d] = d.date /\ d.date \in DayKeys /\ d.date \in Int
          /\ Key(StartOf(range, today)) <= d.date /\ d.date <= Key(today)
      BY <1>3 DEF DayKeys
    <3>2. Key(StartOf(range, today)) \in Int
      BY StartInt
    <3> QED
      BY <1>2, <2>2, <3>1, <3>2
  <2> QED
    BY <2>1, <2>2 DEF Between
<1>8. S \in SUBSET Z
  BY <1>7 DEF Between
<1> QED
  BY <1>4, <1>6, <1>7, <1>8, AmountsOf

LEMMA OnePoint ==
  ASSUME NEW n, NEW j, n[j] \in Nat
  PROVE  SumOver(n, {j}) = n[j]
<1>1. Units(n, {j}) = {j} \X (1..n[j])
  BY DEF Units
<1>2. IsFiniteSet({j}) /\ Cardinality({j}) = 1
  BY FS_Singleton
<1>3. IsFiniteSet(1..n[j]) /\ Cardinality(1..n[j]) = n[j]
  BY FS_Interval
<1>4. Cardinality({j} \X (1..n[j])) = 1 * n[j]
  BY ZenonT(30), <1>2, <1>3, FS_Product
<1>5. PICK k \in Nat : k = n[j] /\ 1 * k = k
  OBVIOUS
<1> QED
  BY <1>1, <1>4, <1>5 DEF SumOver

LEMMA TodayLemma ==
  ASSUME NEW docs, IsFiniteSet(docs), \A d \in docs : IsDated(d),
         NEW today, RealDay(today), NEW pass \in 0..1
  PROVE  TodayExact(docs, today, AddDays(today, pass))
<1> DEFINE drawn == AddDays(today, pass)
           Z == SalesOf(docs, "day", today)
           K == SaleKeys(Z)
           spot == {i \in DOMAIN DayPoints(drawn) : DayPoints(drawn)[i].from = Key(today)}
           S == {x \in docs : x.date = Key(today)}
           T == SalesTrend(docs, "day", today, drawn)
           j == 7 - pass
           k == Key(today)
<1>1. SUFFICES ASSUME \A d \in docs : ~d.timed /\ d.issueDate = NoKey
               PROVE  TodaySales(docs, today, drawn) = Total([d \in S |-> d.amount])
  BY DEF TodayExact
<1>2. /\ RealDay(drawn) /\ k <= Key(drawn) /\ k \in DayKeys
      /\ k \in Int /\ Key(drawn) \in Int
  BY DrawnLater
<1>3. /\ IsFiniteSet(Z) /\ Z \in SUBSET docs
      /\ \A d \in docs : d \in Z <=> d.date # NoKey /\ Key(StartOf("day", today)) <= d.date /\ d.date <= k
      /\ \A d \in Z : d.amount \in Nat /\ K[d] = d.date
  BY <1>1, SalesAre
<1>4. T = Series(RowsFor(Z, K), "day", drawn)
  BY TrendRows
<1>5. TodaySales(docs, today, drawn) = SumOver(T, spot)
  BY DEF TodaySales
<1>6. j \in 1..7 /\ j - 7 = -pass
  OBVIOUS
<1>7. /\ DOMAIN DayPoints(drawn) = 1..7 /\ DayPoints(drawn) = Points("day", drawn)
      /\ \A i \in 1..7 : /\ DayPoints(drawn)[i].from = Key(AddDays(drawn, i - 7))
                         /\ DayPoints(drawn)[i].to = Key(AddDays(drawn, i - 7))
  BY DEF DayPoints, Points
<1>8. AddDays(drawn, j - 7) = today
  <2>1. PICK x \in (-28)..28 : x = -pass /\ pass + x = 0 /\ pass + x \in (-28)..28
    OBVIOUS
  <2>2. pass \in (-28)..28
    OBVIOUS
  <2>3. AddDays(AddDays(today, pass), x) = AddDays(today, pass + x)
    BY <2>1, <2>2, TwoSteps
  <2>4. AddDays(today, pass + x) = today
    BY <2>1, AddNone
  <2> QED
    BY <1>6, <2>1, <2>3, <2>4
<1> HIDE DEF drawn, Z, K, S, T, j, k
<1>9. DayPoints(drawn)[j].from = k /\ DayPoints(drawn)[j].to = k
  BY <1>6, <1>7, <1>8 DEF k
<1>10. spot = {j}
  <2>1. Shown("day", drawn, k)
    BY <1>2, EachShown DEF Ranges
  <2>2. ASSUME NEW i \in spot
        PROVE  i = j
    <3>1. i \in 1..7 /\ DayPoints(drawn)[i].from = k /\ DayPoints(drawn)[i].to = k
      BY <1>7 DEF k
    <3> QED
      BY <1>2, <1>6, <1>7, <1>9, <2>1, <3>1 DEF Shown
  <2>3. j \in spot
    BY <1>6, <1>7, <1>9 DEF k
  <2> QED
    BY <2>2, <2>3
<1>11. T[j] = SumOver(Amounts(Z), Between(Z, K, k, k))
  BY <1>3, <1>4, <1>6, <1>7, <1>9, PointSum
<1>12. Between(Z, K, k, k) = S
  <2>1. Key(StartOf("day", today)) <= k
    <3>1. Shown("day", today, k)
      <4>1. k <= k
        BY <1>2
      <4> QED
        BY <1>2, <4>1, EachShown DEF Ranges, k
    <3>2. Points("day", today)[7].from = k /\ Points("day", today)[7].to = k /\ 7 \in DOMAIN Points("day", today)
      <4>1. 7 - 7 = 0
        OBVIOUS
      <4>2. Points("day", today)[7].from = Key(AddDays(today, 7 - 7))
            /\ Points("day", today)[7].to = Key(AddDays(today, 7 - 7)) /\ 7 \in DOMAIN Points("day", today)
        BY DEF Points, DayPoints
      <4> QED
        BY <4>1, <4>2, AddNone DEF k
    <3>3. k \in Key(StartOf("day", today))..LastShown("day", today)
      BY <1>2, <3>1, <3>2 DEF Shown
    <3>4. Key(StartOf("day", today)) \in Int /\ LastShown("day", today) \in Int
      BY <1>2, StartInt DEF Ranges, LastShown, k
    <3> QED
      BY <3>3, <3>4
  <2>2. ASSUME NEW d
        PROVE  d \in Between(Z, K, k, k) <=> d \in S
    <3>1. d \in Between(Z, K, k, k) <=> d \in Z /\ K[d] \in k..k
      BY DEF Between
    <3>2. d \in Z => (K[d] \in k..k <=> d.date = k)
      BY <1>2, <1>3
    <3>3. d \in docs /\ d.date = k => d \in Z
      BY <1>2, <1>3, <2>1, ChartAssumption
    <3> QED
      BY <1>3, <3>1, <3>2, <3>3 DEF S, k
  <2> QED
    BY <2>2
<1>13. IsFiniteSet(S) /\ S \in SUBSET Z
  <2>1. S \in SUBSET Z
    BY <1>12 DEF Between
  <2> QED
    BY <1>3, <2>1, FS_Subset
<1>14. T[j] \in Nat
  <2>1. \A d \in S : Amounts(Z)[d] \in Nat
    BY <1>3, <1>13 DEF Amounts
  <2> QED
    BY <1>11, <1>12, <1>13, <2>1, UnitsFinite
<1>15. SumOver(T, {j}) = T[j]
  BY <1>14, OnePoint
<1>16. Total([d \in S |-> d.amount]) = SumOver(Amounts(Z), S)
  BY <1>13, AmountsOf
<1> QED
  BY <1>5, <1>10, <1>11, <1>12, <1>15, <1>16 DEF S, k

\* What begins with this month, of the days until today.
LEMMA InMonthIs ==
  ASSUME NEW today, RealDay(today), NEW k \in DayKeys, k # NoKey, k <= Key(today)
  PROVE  InMonth(k, today) <=> Key(StartOf("month", today)) <= k
<1>1. today.year \in Int /\ today.month \in 1..12 /\ today.day \in 1..31
  BY RealFields, DaysIs
<1>2. PICK m \in Int : \E e \in 1..Days(m) : k = Key(At(m, e))
  BY DEF DayKeys, RealDay
<1>3. PICK e \in 1..Days(m) : k = Key(At(m, e))
  BY <1>2
<1>4. e \in 1..31
  BY DaysIs
<1>5. PICK y \in Int : \E r \in 1..12 : k = 10000 * y + 100 * r + e
  <2>1. m \div 12 \in Int /\ m % 12 \in 0..11
    BY MonthParts
  <2>2. At(m, e).year = m \div 12 /\ At(m, e).month = (m % 12) + 1 /\ At(m, e).day = e
    BY AtIs
  <2>3. k = 10000 * (m \div 12) + 100 * ((m % 12) + 1) + e /\ (m % 12) + 1 \in 1..12
    BY <1>3, <2>1, <2>2 DEF Key
  <2> QED
    BY <2>1, <2>3
<1>6. PICK r \in 1..12 : k = 10000 * y + 100 * r + e
  BY <1>5
<1>7. PICK c \in Int : c = today.year
  BY <1>1
<1>8. PICK f \in 1..12 : f = today.month
  BY <1>1
<1>9. PICK g \in 1..31 : g = today.day
  BY <1>1
<1>10. /\ Key(StartOf("month", today)) = 10000 * c + 100 * f + 1
       /\ Key(today) = 10000 * c + 100 * f + g
       /\ MonthKey(today) = 100 * c + f
  BY <1>7, <1>8, <1>9 DEF StartOf, Key, Date, MonthKey
<1>11. k < 100 * MonthKey(AddMonths(today, 1))
  <2>1. PICK x \in Int : x = 12 * c + f - 1 + 1
    OBVIOUS
  <2>2. MonthKey(AddMonths(today, 1)) = 100 * (x \div 12) + ((x % 12) + 1)
    BY <1>7, <1>8, <2>1 DEF AddMonths, MonthKey, Date
  <2>3. PICK a \in Int : a = x \div 12
    BY MonthParts
  <2>4. PICK b \in 0..11 : b = x % 12
    BY MonthParts
  <2>5. 12 * a + b = x
    BY <2>3, <2>4, MonthParts
  <2>6. 100 * a + (b + 1) >= 100 * c + f + 1
    BY <2>1, <2>5
  <2>7. k < 100 * (100 * a + (b + 1))
    BY <1>6, <1>4, <1>10, <2>6
  <2> QED
    BY <2>2, <2>3, <2>4, <2>7
<1>12. 100 * (100 * c + f) <= k <=> 10000 * c + 100 * f + 1 <= k
  BY <1>4, <1>6
<1> QED
  BY <1>10, <1>11, <1>12 DEF InMonth

\* The month's chart of what is billed.
LEMMA BilledLemma ==
  ASSUME NEW docs, IsFiniteSet(docs), \A d \in docs : IsDated(d), NEW today, RealDay(today),
         \A d \in docs :
           /\ ~d.timed /\ (d.issueDate = NoKey \/ d.date = NoKey \/ d.issueDate = d.date)
           /\ \A k \in {d.date, d.issueDate} \ {NoKey} : k <= Key(today)
  PROVE  Total(BilledTrend(docs, "month", today, today)) =
           MonthRevenue({d \in docs : d.status \notin OffChart}, today)
<1> DEFINE Z == RevenueOf(docs, "month", today)
           K == InvoiceKeys(Z)
           a == Key(StartOf("month", today))
           b == Key(today)
           S == {x \in docs : x.status \notin OffChart /\ (InMonth(x.issueDate, today) \/ InMonth(x.date, today))}
<1>1. MonthRevenue({d \in docs : d.status \notin OffChart}, today) = Total([d \in S |-> d.amount])
  <2>1. {x \in {d \in docs : d.status \notin OffChart} :
           x.status \notin OffSummary /\ (InMonth(x.issueDate, today) \/ InMonth(x.date, today))} = S
    BY DEF OffChart, OffSummary
  <2> QED
    BY <2>1 DEF MonthRevenue
<1>2. BilledTrend(docs, "month", today, today) = Series(RowsFor(Z, K), "month", today)
  BY TrendRows
<1>3. a \in Int /\ b \in Int /\ LastShown("month", today) = b
  BY StartInt, RealKey DEF Ranges, LastShown
<1>4. IsFiniteSet(Z) /\ Z \in SUBSET docs
  BY FS_Subset DEF RevenueOf
<1>5. \A d \in docs : d \in Z <=> /\ d.status \notin OffChart
                                  /\ \/ d.date # NoKey /\ a <= d.date /\ d.date <= b
                                     \/ d.issueDate # NoKey /\ a <= d.issueDate /\ d.issueDate <= b
  BY DEF RevenueOf, Matches, Within
<1>6. \A d \in Z : K[d] = IF d.issueDate # NoKey THEN d.issueDate ELSE d.date
  BY DEF InvoiceKeys, InvoiceKey
<1>7. ASSUME NEW d \in docs
      PROVE  /\ d.amount \in Nat
             /\ d.date # NoKey => d.date \in DayKeys /\ d.date \in Int /\ d.date <= b
             /\ d.issueDate # NoKey => d.issueDate \in DayKeys /\ d.issueDate \in Int /\ d.issueDate <= b
  <2>1. IsDayKey(d.date) /\ IsDayKey(d.issueDate) /\ d.amount \in Nat
    BY DEF IsDated
  <2>2. d.date # NoKey => d.date \in DayKeys /\ d.date <= b
    BY <2>1, DecodeKey
  <2>3. d.issueDate # NoKey => d.issueDate \in DayKeys /\ d.issueDate <= b
    BY <2>1, DecodeKey
  <2> QED
    BY <2>1, <2>2, <2>3 DEF DayKeys
<1>8. ASSUME NEW k, k # NoKey => k \in DayKeys /\ k <= b
      PROVE  InMonth(k, today) <=> k # NoKey /\ a <= k
  <2>1. CASE k = NoKey
    BY <2>1 DEF InMonth
  <2>2. CASE k # NoKey
    BY <1>8, <2>2, InMonthIs
  <2> QED
    BY <2>1, <2>2
<1> HIDE DEF Z, K, a, b, S
<1>9. ASSUME NEW d \in Z
      PROVE  K[d] \in DayKeys /\ K[d] \in Int /\ K[d] <= b /\ d.amount \in Nat
  <2>1. d \in docs
    BY <1>4
  <2>2. d.date # NoKey \/ d.issueDate # NoKey
    BY <1>5, <2>1
  <2> QED
    BY <1>6, <1>7, <2>1, <2>2
<1>10. Total(Series(RowsFor(Z, K), "month", today)) = SumOver(Amounts(Z), Between(Z, K, a, b))
  BY <1>3, <1>4, <1>9, TrendTotal DEF Ranges, a, b
<1>11. ASSUME NEW d \in docs
       PROVE  d \in S <=> d \in Between(Z, K, a, b)
  <2>1. d \in S <=> d.status \notin OffChart /\ ((d.issueDate # NoKey /\ a <= d.issueDate) \/ (d.date # NoKey /\ a <= d.date))
    BY <1>7, <1>8 DEF S
  <2>2. d \in Z <=> d \in S
    BY <1>5, <1>7, <2>1
  <2>3. d \in Z => a <= K[d] /\ K[d] <= b /\ K[d] \in Int
    <3>1. SUFFICES ASSUME d \in Z
                   PROVE  a <= K[d] /\ K[d] <= b /\ K[d] \in Int
      OBVIOUS
    <3>2. K[d] \in Int /\ K[d] <= b
      BY <1>9, <3>1
    <3>3. d.issueDate = NoKey \/ d.date = NoKey \/ d.issueDate = d.date
      OBVIOUS
    <3>4. a <= K[d]
      BY <1>5, <1>6, <3>1, <3>3
    <3> QED
      BY <3>2, <3>4
  <2>4. d \in Between(Z, K, a, b) <=> d \in Z /\ K[d] \in a..b
    BY DEF Between
  <2> QED
    BY <1>3, <2>2, <2>3, <2>4
<1>12. S = Between(Z, K, a, b)
  <2>1. S \subseteq docs /\ Between(Z, K, a, b) \subseteq docs
    BY <1>4 DEF S, Between
  <2> QED
    BY <1>11, <2>1
<1>13. S \in SUBSET Z
  BY <1>12 DEF Between
<1>14. Total([d \in S |-> d.amount]) = SumOver(Amounts(Z), S)
  BY <1>13, AmountsOf
<1> QED
  BY <1>1, <1>2, <1>10, <1>12, <1>14

\* The month's chart of receipts.
LEMMA ReceiptsLemma ==
  ASSUME NEW docs, IsFiniteSet(docs), \A d \in docs : IsDated(d), NEW today, RealDay(today),
         \A d \in docs : ~d.timed /\ d.issueDate = NoKey /\ (d.date # NoKey => d.date <= Key(today))
  PROVE  Total(SalesTrend(docs, "month", today, today)) =
           Total([d \in {x \in docs : InMonth(x.date, today)} |-> d.amount])
<1> DEFINE Z == SalesOf(docs, "month", today)
           K == SaleKeys(Z)
           a == Key(StartOf("month", today))
           b == Key(today)
           S == {x \in docs : InMonth(x.date, today)}
<1>1. SalesTrend(docs, "month", today, today) = Series(RowsFor(Z, K), "month", today)
  BY TrendRows
<1>2. a \in Int /\ b \in Int /\ LastShown("month", today) = b
  BY StartInt, RealKey DEF Ranges, LastShown
<1>3. /\ IsFiniteSet(Z) /\ Z \in SUBSET docs
      /\ \A d \in docs : d \in Z <=> d.date # NoKey /\ a <= d.date /\ d.date <= b
      /\ \A d \in Z : d.amount \in Nat /\ K[d] = d.date /\ d.date \in DayKeys /\ d.date <= b
  BY SalesAre
<1>4. ASSUME NEW d \in docs
      PROVE  InMonth(d.date, today) <=> d.date # NoKey /\ a <= d.date
  <2>1. CASE d.date = NoKey
    BY <2>1 DEF InMonth
  <2>2. CASE d.date # NoKey
    <3>1. d.date \in DayKeys /\ d.date <= b
      <4>1. IsDayKey(d.date)
        BY DEF IsDated
      <4> QED
        BY <2>2, <4>1, DecodeKey
    <3> QED
      BY <2>2, <3>1, InMonthIs
  <2> QED
    BY <2>1, <2>2
<1> HIDE DEF Z, K, a, b
<1>5. Total(Series(RowsFor(Z, K), "month", today)) = SumOver(Amounts(Z), Between(Z, K, a, b))
  BY <1>2, <1>3, TrendTotal DEF Ranges, a, b
<1>6. ASSUME NEW d \in docs
      PROVE  d \in S <=> d \in Between(Z, K, a, b)
  <2>1. d \in S <=> d \in Z
    BY <1>3, <1>4 DEF b
  <2>2. d \in Z => K[d] \in a..b
    <3>1. d \in Z => d.date \in Int
      BY <1>3 DEF DayKeys
    <3> QED
      BY <1>2, <1>3, <3>1
  <2> QED
    BY <2>1, <2>2 DEF Between
<1>7. S = Between(Z, K, a, b)
  <2>1. Between(Z, K, a, b) \subseteq docs
    BY <1>3 DEF Between
  <2> QED
    BY <1>6, <2>1
<1>8. S \in SUBSET Z
  BY <1>7 DEF Between
<1>9. Total([d \in S |-> d.amount]) = SumOver(Amounts(Z), S)
  BY <1>8, AmountsOf
<1> QED
  BY <1>1, <1>5, <1>7, <1>9

LEMMA MonthLemma ==
  ASSUME NEW invoices, IsFiniteSet(invoices), \A d \in invoices : IsDated(d),
         NEW receipts, IsFiniteSet(receipts), \A d \in receipts : IsDated(d), NEW today, RealDay(today)
  PROVE  MonthAgrees(invoices, receipts, today)
<1> DEFINE B == BilledTrend(invoices, "month", today, today)
           R == SalesTrend(receipts, "month", today, today)
           T == RevenueTrend(invoices, receipts, "month", today, today)
           I == DOMAIN Points("month", today)
<1>1. SUFFICES ASSUME \A d \in invoices :
                        /\ ~d.timed /\ (d.issueDate = NoKey \/ d.date = NoKey \/ d.issueDate = d.date)
                        /\ \A k \in {d.date, d.issueDate} \ {NoKey} : k <= Key(today),
                      \A d \in receipts :
                        ~d.timed /\ d.issueDate = NoKey /\ (d.date # NoKey => d.date <= Key(today))
               PROVE  Total(T) = MonthRevenue({d \in invoices : d.status \notin OffChart}, today)
                                 + Total([d \in {x \in receipts : InMonth(x.date, today)} |-> d.amount])
  BY DEF MonthAgrees
<1>2. Total(B) = MonthRevenue({d \in invoices : d.status \notin OffChart}, today)
  BY <1>1, BilledLemma
<1>3. Total(R) = Total([d \in {x \in receipts : InMonth(x.date, today)} |-> d.amount])
  BY <1>1, ReceiptsLemma
<1>4. IsFiniteSet(I)
  BY PointsFinite DEF Ranges
<1>5. DOMAIN B = I /\ DOMAIN R = I /\ DOMAIN T = I
  BY DEF BilledTrend, SalesTrend, RevenueTrend, Series
<1>6. ASSUME NEW Z, IsFiniteSet(Z), \A d \in Z : d.amount \in Nat, NEW K, NEW i \in I
      PROVE  Series(RowsFor(Z, K), "month", today)[i] \in Nat
  <2> DEFINE X == Between(Z, K, Points("month", today)[i].from, Points("month", today)[i].to)
  <2>1. Series(RowsFor(Z, K), "month", today)[i] = SumOver(Amounts(Z), X)
    BY <1>6, PointSum
  <2>2. X \subseteq Z
    BY DEF Between
  <2>3. IsFiniteSet(X) /\ \A d \in X : Amounts(Z)[d] \in Nat
    BY <1>6, <2>2, FS_Subset DEF Amounts
  <2> HIDE DEF X
  <2> QED
    BY <2>1, <2>3, UnitsFinite
<1>7. \A i \in I : B[i] \in Nat
  <2>1. B = Series(RowsFor(RevenueOf(invoices, "month", today), InvoiceKeys(RevenueOf(invoices, "month", today))),
                   "month", today)
    BY TrendRows
  <2>2. IsFiniteSet(RevenueOf(invoices, "month", today))
    BY FS_Subset DEF RevenueOf
  <2>3. \A d \in RevenueOf(invoices, "month", today) : d.amount \in Nat
    BY DEF RevenueOf, IsDated
  <2> QED
    BY <1>6, <2>1, <2>2, <2>3
<1>8. \A i \in I : R[i] \in Nat
  <2>1. R = Series(RowsFor(SalesOf(receipts, "month", today), SaleKeys(SalesOf(receipts, "month", today))),
                   "month", today)
    BY TrendRows
  <2>2. IsFiniteSet(SalesOf(receipts, "month", today))
    BY FS_Subset DEF SalesOf
  <2>3. \A d \in SalesOf(receipts, "month", today) : d.amount \in Nat
    BY DEF SalesOf, IsDated
  <2> QED
    BY <1>6, <2>1, <2>2, <2>3
<1>9. \A i \in I : T[i] = B[i] + R[i]
  BY DEF RevenueTrend
<1> HIDE DEF B, R, T, I
<1>10. SumOver(T, I) = SumOver(B, I) + SumOver(R, I)
  BY <1>4, <1>7, <1>8, <1>9, SumAdds
<1> QED
  BY <1>2, <1>3, <1>5, <1>10 DEF Total

(* Of every day, range and set of documents: each document read is drawn   *)
(* in one point of a chart (buildChartSeries, chartRangeDateBounds), the   *)
(* day's sales are those of the day, also if midnight passes before the    *)
(* chart is drawn (getTodaySales), and the month's chart of revenue is the *)
(* month's revenue on the summary (invoiceMonthMatch) and the receipts that*)
(* getRevenueTrend adds to it.                                             *)
THEOREM SeriesExactThm == Admissible => SeriesExact
<1>1. SUFFICES ASSUME Admissible, part = "charts"
               PROVE  /\ DrawnOnce(sample.sales, sample.range, sample.today, Drawn)
                      /\ TodayExact(sample.sales, sample.today, Drawn)
                      /\ MonthAgrees(sample.invoices, sample.sales, sample.today)
  BY DEF SeriesExact
<1>2. ForCharts(sample)
  BY <1>1 DEF Admissible
<1>3. /\ sample.range \in Ranges /\ sample.today \in CalendarDays /\ sample.pass \in 0..1
      /\ IsFiniteSet(sample.sales) /\ IsFiniteSet(sample.invoices)
      /\ \A d \in sample.sales : IsDated(d)
      /\ \A d \in sample.invoices : IsDated(d)
  BY <1>2 DEF ForCharts
<1>4. RealDay(sample.today)
  BY <1>3, CalendarReal
<1> QED
  BY <1>3, <1>4, DrawnOnceLemma, TodayLemma, MonthLemma DEF Drawn
=============================================================================
