-------------------------- MODULE Federated_proofs --------------------------
(***************************************************************************)
(* Proofs about what brains do together: a query put to several of them    *)
(* (FanOut) and the sets they replicate (ReplicatedSet), for any brains,   *)
(* memories, contents, policies and bounds.                                *)
(*                                                                         *)
(* FanOut.  A sum over a finite set is compared with another by mapping    *)
(* summands (SumCompares): this gives that agreement scores higher, by     *)
(* more than rounding can take back, and that the order of the members     *)
(* changes a score by nothing else than rounding.  A sorted sequence       *)
(* has each element at the place given by how many come before it          *)
(* (InOrderPlaces), so the ranking is decided by the order of the keys.    *)
(* The invariant says what may be merged at any moment of a call.          *)
(*                                                                         *)
(* ReplicatedSet.  Its inductive invariant, what a step may remove, and    *)
(* that the tables implement the lattice of JoinSet.                       *)
(***************************************************************************)
EXTENDS FanOut, ReplicatedSet, FiniteSetTheorems, FunctionTheorems, NaturalsInduction,
        WellFoundedInduction, TLAPS

-----------------------------------------------------------------------------
(* Sums over finite sets. *)

\* Among the subsets of a finite set that have some property, given as a set, one
\* has no smaller one below it (SumFunctionOnSet).
LEMMA SmallestSubset ==
  ASSUME NEW T, IsFiniteSet(T), NEW B, B \subseteq SUBSET T, B # {}
  PROVE  \E s \in B : \A r \in B : r \subseteq s => r = s
<1>1. IsWellFoundedOn(StrictSubsetOrdering(T), SUBSET T)
  BY FS_StrictSubsetOrderingWellFounded, FS_FiniteSubsetsOfFinite
<1>2. PICK s \in B : \A r \in B : ~ (<<r, s>> \in StrictSubsetOrdering(T))
  BY <1>1, WFMin
<1>3. ASSUME NEW r \in B, r \subseteq s, r # s PROVE FALSE
  BY <1>2, <1>3 DEF StrictSubsetOrdering
<1> QED BY <1>2, <1>3

Some(s) == CHOOSE x \in s : TRUE
\* What the fold computes on the subsets of s.
IsFold(w, s, it) ==
  it = [r \in SUBSET s |-> IF r = {} THEN 0 ELSE w[Some(r)] + it[r \ {Some(r)}]]

\* A sum is what the fold chosen gives for the whole set.
LEMMA SumIsFold ==
  ASSUME NEW w, NEW s
  PROVE  SumFunctionOnSet(w, s) = (CHOOSE it : IsFold(w, s, it))[s]
BY DEF SumFunctionOnSet, FoldFunctionOnSet, MapThenFoldSet, IsFold, Some

\* The step of the sum.
Unfolds(w, r) ==
  SumFunctionOnSet(w, r) =
    IF r = {} THEN 0 ELSE w[Some(r)] + SumFunctionOnSet(w, r \ {Some(r)})

\* The sum takes out one element after the other (SumFunctionOnSet).
LEMMA SumUnfolds ==
  ASSUME NEW w, NEW T, IsFiniteSet(T)
  PROVE  Unfolds(w, T)
<1> SUFFICES ASSUME ~Unfolds(w, T) PROVE FALSE
  OBVIOUS
<1> DEFINE B == {s \in SUBSET T : ~Unfolds(w, s)}
<1>1. PICK s \in B : \A r \in B : r \subseteq s => r = s
  <2>1. T \in B OBVIOUS
  <2> HIDE DEF B
  <2>2. B # {} BY <2>1
  <2>3. B \subseteq SUBSET T BY DEF B
  <2> QED BY <2>2, <2>3, SmallestSubset
<1>2. \A r \in SUBSET s : r # s => Unfolds(w, r)
  BY <1>1
<1> DEFINE Sum(r) == SumFunctionOnSet(w, r)
           rhs == IF s = {} THEN 0 ELSE w[Some(s)] + Sum(s \ {Some(s)})
           fold == [r \in SUBSET s |-> IF r = s THEN rhs ELSE Sum(r)]
<1>3. \A r \in SUBSET s : r # {} => Some(r) \in r
  BY DEF Some
<1>4. IsFold(w, s, fold)
  <2>1. ASSUME NEW r \in SUBSET s
        PROVE  fold[r] = IF r = {} THEN 0 ELSE w[Some(r)] + fold[r \ {Some(r)}]
    <3>1. r # {} => r \ {Some(r)} \in SUBSET s /\ r \ {Some(r)} # s
      BY <1>3
    <3>2. r # {} => fold[r \ {Some(r)}] = Sum(r \ {Some(r)})
      BY <3>1
    <3>3. fold[r] = IF r = s THEN rhs ELSE Sum(r)
      OBVIOUS
    <3> HIDE DEF fold
    <3>4. CASE r = s
      BY <3>2, <3>3, <3>4
    <3>5. CASE r # s
      <4>1. Sum(r) = IF r = {} THEN 0 ELSE w[Some(r)] + Sum(r \ {Some(r)})
        BY <1>2, <3>5 DEF Unfolds
      <4> QED BY <3>2, <3>3, <3>5, <4>1
    <3> QED BY <3>4, <3>5
  <2> DEFINE other == [r \in SUBSET s |-> IF r = {} THEN 0 ELSE w[Some(r)] + fold[r \ {Some(r)}]]
  <2>2. fold = [r \in SUBSET s |-> fold[r]]
    OBVIOUS
  <2>3. other = [r \in SUBSET s |-> other[r]]
    OBVIOUS
  <2>4. \A r \in SUBSET s : other[r] = fold[r]
    BY <2>1
  <2> HIDE DEF fold, other
  <2>5. fold = other
    BY <2>2, <2>3, <2>4
  <2> QED BY <2>5 DEF IsFold, other
<1> DEFINE it == CHOOSE it : IsFold(w, s, it)
<1>5. IsFold(w, s, it)
  BY <1>4
<1>6. Sum(s) = it[s]
  BY SumIsFold
<1> HIDE DEF it
<1>7. \A r \in SUBSET s : it[r] = IF r = {} THEN 0 ELSE w[Some(r)] + it[r \ {Some(r)}]
  <2> DEFINE body == [r \in SUBSET s |-> IF r = {} THEN 0 ELSE w[Some(r)] + it[r \ {Some(r)}]]
  <2>1. it = body
    BY <1>5 DEF IsFold
  <2>2. \A r \in SUBSET s : body[r] = IF r = {} THEN 0 ELSE w[Some(r)] + it[r \ {Some(r)}]
    OBVIOUS
  <2> HIDE DEF body
  <2> QED BY <2>1, <2>2
<1>8. \A r \in SUBSET s : r # s => it[r] = Sum(r)
  <2> SUFFICES ASSUME \E r \in SUBSET s : r # s /\ it[r] # Sum(r) PROVE FALSE
    OBVIOUS
  <2> DEFINE C == {r \in SUBSET s : r # s /\ it[r] # Sum(r)}
  <2>1. PICK r \in C : \A q \in C : q \subseteq r => q = r
    <3>1. C # {} OBVIOUS
    <3>2. C \subseteq SUBSET s OBVIOUS
    <3>3. IsFiniteSet(s) BY FS_Subset
    <3> HIDE DEF C
    <3> QED BY <3>1, <3>2, <3>3, SmallestSubset
  <2>2. Unfolds(w, r)
    BY <1>2
  <2>3. it[r] = IF r = {} THEN 0 ELSE w[Some(r)] + it[r \ {Some(r)}]
    BY <1>7
  <2>4. r # {} => it[r \ {Some(r)}] = Sum(r \ {Some(r)})
    BY <1>3, <2>1
  <2> QED BY <2>2, <2>3, <2>4 DEF Unfolds
<1>9. s # {} => it[s \ {Some(s)}] = Sum(s \ {Some(s)})
  BY <1>3, <1>8
<1>10. it[s] = IF s = {} THEN 0 ELSE w[Some(s)] + it[s \ {Some(s)}]
  BY <1>7
<1>11. Unfolds(w, s)
  BY <1>6, <1>9, <1>10 DEF Unfolds
<1> QED BY <1>11

\* A sum of natural numbers is one, and any element can be taken out of it
\* (SumFunctionOnSet).
LEMMA SumTakesOut ==
  ASSUME NEW w, NEW T, IsFiniteSet(T), \A y \in T : w[y] \in Nat
  PROVE  /\ SumFunctionOnSet(w, T) \in Nat
         /\ \A x \in T : SumFunctionOnSet(w, T) = w[x] + SumFunctionOnSet(w, T \ {x})
<1> DEFINE Sum(r) == SumFunctionOnSet(w, r)
           Good(r) == Sum(r) \in Nat /\ \A x \in r : Sum(r) = w[x] + Sum(r \ {x})
<1> SUFFICES ASSUME ~Good(T) PROVE FALSE
  OBVIOUS
<1> DEFINE B == {s \in SUBSET T : ~Good(s)}
<1>1. PICK s \in B : \A r \in B : r \subseteq s => r = s
  <2>1. B # {} /\ B \subseteq SUBSET T OBVIOUS
  <2> HIDE DEF B
  <2> QED BY <2>1, SmallestSubset
<1>2. s \in SUBSET T /\ ~Good(s) /\ \A r \in SUBSET s : r # s => Good(r)
  BY <1>1
<1> HIDE DEF B
<1>3. IsFiniteSet(s)
  BY <1>2, FS_Subset
<1>4. Unfolds(w, s)
  BY <1>3, SumUnfolds
<1>5. s # {}
  <2>1. s = {} => Sum(s) = 0 BY <1>4 DEF Unfolds
  <2> QED BY <1>2, <2>1
<1> DEFINE c == Some(s)
<1>6. c \in s
  BY <1>5 DEF Some
<1>7. Sum(s) = w[c] + Sum(s \ {c})
  BY <1>4, <1>5 DEF Unfolds
<1> HIDE DEF c
<1>8. Sum(s \ {c}) \in Nat /\ \A x \in s \ {c} : Sum(s \ {c}) = w[x] + Sum((s \ {c}) \ {x})
  BY <1>2, <1>6
<1>9. Sum(s) \in Nat
  BY <1>2, <1>6, <1>7, <1>8
<1>10. ASSUME NEW x \in s PROVE Sum(s) = w[x] + Sum(s \ {x})
  <2>1. CASE x = c BY <1>7, <2>1
  <2>2. CASE x # c
    <3>1. Sum(s \ {c}) = w[x] + Sum((s \ {c}) \ {x})
      BY <1>8, <2>2
    <3>2. Sum(s \ {x}) = w[c] + Sum((s \ {x}) \ {c})
      BY <1>2, <1>6, <2>2
    <3>3. (s \ {c}) \ {x} = (s \ {x}) \ {c}
      OBVIOUS
    <3>4. Sum((s \ {x}) \ {c}) \in Nat
      <4>1. Good((s \ {x}) \ {c}) BY <1>2, <1>6
      <4> QED BY <4>1
    <3>5. w[x] \in Nat /\ w[c] \in Nat
      BY <1>2, <1>6
    <3> DEFINE rest == Sum((s \ {x}) \ {c})
    <3>6. Sum(s) = w[c] + (w[x] + rest) /\ Sum(s \ {x}) = w[c] + rest
      BY <1>7, <3>1, <3>2, <3>3
    <3> HIDE DEF rest, Sum
    <3> QED BY <3>4, <3>5, <3>6 DEF rest
  <2> QED BY <2>1, <2>2
<1> QED BY <1>2, <1>9, <1>10

\* A sum is at least another when each of the other's summands above 0 has one of
\* its own that is no less (Fused).
Covers(m, u, S, w, T) ==
  /\ \A x \in S : u[x] > 0 => m[x] \in T /\ u[x] <= w[m[x]]
  /\ \A x, y \in S : u[x] > 0 /\ u[y] > 0 /\ m[x] = m[y] => x = y
LEMMA SumCompares ==
  ASSUME NEW u, NEW S, IsFiniteSet(S), \A x \in S : u[x] \in Nat,
         NEW w, NEW T, IsFiniteSet(T), \A y \in T : w[y] \in Nat,
         NEW m, Covers(m, u, S, w, T)
  PROVE  SumFunctionOnSet(u, S) <= SumFunctionOnSet(w, T)
<1> DEFINE Below(s) == \A t \in SUBSET T : Covers(m, u, s, w, t) =>
                          SumFunctionOnSet(u, s) <= SumFunctionOnSet(w, t)
<1> SUFFICES ASSUME ~Below(S) PROVE FALSE
  OBVIOUS
<1> DEFINE B == {s \in SUBSET S : ~Below(s)}
<1>1. PICK s \in B : \A r \in B : r \subseteq s => r = s
  <2>1. B # {} /\ B \subseteq SUBSET S OBVIOUS
  <2> HIDE DEF B
  <2> QED BY <2>1, SmallestSubset
<1>2. s \in SUBSET S /\ ~Below(s) /\ \A r \in SUBSET s : r # s => Below(r)
  BY <1>1
<1> HIDE DEF B
<1>3. PICK t \in SUBSET T : Covers(m, u, s, w, t) /\ ~(SumFunctionOnSet(u, s) <= SumFunctionOnSet(w, t))
  BY <1>2
<1>4. IsFiniteSet(s) /\ IsFiniteSet(t)
  BY <1>2, FS_Subset
<1>5. \A r \in SUBSET T : IsFiniteSet(r) /\ SumFunctionOnSet(w, r) \in Nat
  BY FS_Subset, SumTakesOut
<1>6. \A r \in SUBSET s : IsFiniteSet(r) /\ SumFunctionOnSet(u, r) \in Nat
  <2> TAKE r \in SUBSET s
  <2>1. IsFiniteSet(r) BY <1>4, FS_Subset
  <2>2. \A x \in r : u[x] \in Nat BY <1>2
  <2> QED BY <2>1, <2>2, SumTakesOut
<1>7. s # {}
  <2>1. s = {} => SumFunctionOnSet(u, s) = 0
    BY <1>4, SumUnfolds DEF Unfolds
  <2>2. SumFunctionOnSet(w, t) \in Nat BY <1>5
  <2> QED BY <1>3, <2>1, <2>2
<1>8. PICK x \in s : TRUE
  BY <1>7
<1>9. SumFunctionOnSet(u, s) = u[x] + SumFunctionOnSet(u, s \ {x})
  <2>1. \A y \in s : u[y] \in Nat BY <1>2
  <2> QED BY <1>4, <2>1, SumTakesOut
<1>10. Below(s \ {x})
  BY <1>2
<1>11. u[x] \in Nat /\ SumFunctionOnSet(u, s \ {x}) \in Nat /\ SumFunctionOnSet(w, t) \in Nat
  BY <1>2, <1>5, <1>6
<1>12. CASE u[x] = 0
  <2>1. Covers(m, u, s \ {x}, w, t)
    BY <1>3 DEF Covers
  <2>2. SumFunctionOnSet(u, s \ {x}) <= SumFunctionOnSet(w, t)
    BY <1>10, <2>1
  <2> QED BY <1>3, <1>9, <1>11, <1>12, <2>2
<1>13. CASE u[x] > 0
  <2>1. m[x] \in t /\ u[x] <= w[m[x]]
    BY <1>3, <1>13 DEF Covers
  <2>2. Covers(m, u, s \ {x}, w, t \ {m[x]})
    BY <1>3, <1>13 DEF Covers
  <2>3. SumFunctionOnSet(u, s \ {x}) <= SumFunctionOnSet(w, t \ {m[x]})
    BY <1>10, <2>2
  <2>4. SumFunctionOnSet(w, t) = w[m[x]] + SumFunctionOnSet(w, t \ {m[x]})
    <3>1. \A y \in t : w[y] \in Nat OBVIOUS
    <3> QED BY <1>4, <2>1, <3>1, SumTakesOut
  <2>5. w[m[x]] \in Nat /\ SumFunctionOnSet(w, t \ {m[x]}) \in Nat
    BY <1>5, <2>1
  <2> QED BY <1>3, <1>9, <1>11, <2>1, <2>3, <2>4, <2>5
<1> QED BY <1>11, <1>12, <1>13

-----------------------------------------------------------------------------
(* Sets in order. *)

StrictOrder(S, before) ==
  /\ \A x \in S : <<x, x>> \notin before
  /\ \A x, y, z \in S : <<x, y>> \in before /\ <<y, z>> \in before => <<x, z>> \in before
  /\ \A x, y \in S : x = y \/ <<x, y>> \in before \/ <<y, x>> \in before
Before(S, before, x) == {y \in S : <<y, x>> \in before}
Place(S, before, x) == Cardinality(Before(S, before, x))

\* How many come before an element says where it is among the others (InOrder).
LEMMA PlacesRise ==
  ASSUME NEW S, IsFiniteSet(S), NEW before, StrictOrder(S, before)
  PROVE  /\ \A x \in S : Place(S, before, x) \in 0 .. Cardinality(S) - 1
         /\ \A x, y \in S : <<x, y>> \in before <=> Place(S, before, x) < Place(S, before, y)
         /\ \A x, y \in S : Place(S, before, x) = Place(S, before, y) => x = y
<1>1. Cardinality(S) \in Nat
  BY FS_CardinalityType
<1>2. \A x \in S : IsFiniteSet(Before(S, before, x)) /\ Place(S, before, x) \in Nat
  <2> TAKE x \in S
  <2>1. Before(S, before, x) \in SUBSET S BY DEF Before
  <2> QED BY <2>1, FS_Subset, FS_CardinalityType DEF Place
<1>3. ASSUME NEW x \in S PROVE Place(S, before, x) \in 0 .. Cardinality(S) - 1
  <2>1. Before(S, before, x) \in SUBSET S /\ Before(S, before, x) # S
    BY DEF Before, StrictOrder
  <2>2. Place(S, before, x) <= Cardinality(S) /\ Place(S, before, x) # Cardinality(S)
    BY <2>1, FS_Subset DEF Place
  <2> QED BY <1>1, <1>2, <2>2
<1>4. ASSUME NEW x \in S, NEW y \in S, <<x, y>> \in before
      PROVE  Place(S, before, x) < Place(S, before, y)
  <2>1. Before(S, before, x) \in SUBSET Before(S, before, y)
    BY <1>4 DEF Before, StrictOrder
  <2>2. x \in Before(S, before, y) /\ x \notin Before(S, before, x)
    BY <1>4 DEF Before, StrictOrder
  <2>3. Place(S, before, x) <= Place(S, before, y) /\ Place(S, before, x) # Place(S, before, y)
    BY <1>2, <2>1, <2>2, FS_Subset DEF Place
  <2> QED BY <1>2, <2>3
<1>5. \A x, y \in S : x = y \/ <<x, y>> \in before \/ <<y, x>> \in before
  BY DEF StrictOrder
<1>6. ASSUME NEW x \in S, NEW y \in S, Place(S, before, x) = Place(S, before, y) PROVE x = y
  <2>1. Place(S, before, x) \in Nat /\ Place(S, before, y) \in Nat
    BY <1>2
  <2>2. ~(<<x, y>> \in before)
    <3> SUFFICES ASSUME <<x, y>> \in before PROVE FALSE OBVIOUS
    <3>1. Place(S, before, x) < Place(S, before, y) BY <1>4
    <3> QED BY <1>6, <2>1, <3>1
  <2>3. ~(<<y, x>> \in before)
    <3> SUFFICES ASSUME <<y, x>> \in before PROVE FALSE OBVIOUS
    <3>1. Place(S, before, y) < Place(S, before, x) BY <1>4
    <3> QED BY <1>6, <2>1, <3>1
  <2> QED BY <1>5, <2>2, <2>3
<1>7. ASSUME NEW x \in S, NEW y \in S, Place(S, before, x) < Place(S, before, y)
      PROVE  <<x, y>> \in before
  <2>1. Place(S, before, x) \in Nat /\ Place(S, before, y) \in Nat
    BY <1>2
  <2>2. x # y BY <1>7, <2>1
  <2>3. ~(<<y, x>> \in before)
    BY <1>4, <1>7, <2>1
  <2> QED BY <1>5, <2>2, <2>3
<1> QED BY <1>3, <1>4, <1>6, <1>7

\* The sequence of a set in order has each element at its place (InOrder).
LEMMA InOrderPlaces ==
  ASSUME NEW S, IsFiniteSet(S), NEW before, StrictOrder(S, before)
  PROVE  LET s == InOrder(S, before)
             n == Cardinality(S)
         IN  /\ n \in Nat /\ s \in [1 .. n -> S]
             /\ \A i \in 1 .. n : Place(S, before, s[i]) = i - 1
             /\ \A x \in S : Place(S, before, x) + 1 \in 1 .. n /\ s[Place(S, before, x) + 1] = x
             /\ \A i, j \in 1 .. n : i < j <=> <<s[i], s[j]>> \in before
             /\ \A i, j \in 1 .. n : s[i] = s[j] => i = j
<1> DEFINE s == InOrder(S, before)
           n == Cardinality(S)
           at == [x \in S |-> Place(S, before, x) + 1]
<1>1. n \in Nat
  BY FS_CardinalityType
<1>2. /\ \A x \in S : Place(S, before, x) \in 0 .. n - 1
      /\ \A x, y \in S : <<x, y>> \in before <=> Place(S, before, x) < Place(S, before, y)
      /\ \A x, y \in S : Place(S, before, x) = Place(S, before, y) => x = y
  BY PlacesRise
<1>3. at \in [S -> 1 .. n] /\ \A x, y \in S : at[x] = at[y] => x = y
  BY <1>1, <1>2
<1>4. at \in Injection(S, 1 .. n)
  BY <1>3 DEF Injection, IsInjective
<1>5. IsFiniteSet(1 .. n) /\ Cardinality(1 .. n) = n
  BY <1>1, FS_Interval
<1>6. at \in Surjection(S, 1 .. n)
  BY <1>4, <1>5, FS_Injection
<1>7. \A i \in 1 .. n : \E x \in S : at[x] = i
  BY <1>6 DEF Surjection
<1>8. \A i \in 1 .. n : \E x \in S : Place(S, before, x) = i - 1
  BY <1>1, <1>2, <1>7
<1>9. s = [i \in 1 .. n |-> CHOOSE x \in S : Place(S, before, x) = i - 1]
  BY DEF InOrder, Place, Before
<1> HIDE DEF s, at
<1>10. ASSUME NEW i \in 1 .. n PROVE s[i] \in S /\ Place(S, before, s[i]) = i - 1
  <2>1. s[i] = CHOOSE x \in S : Place(S, before, x) = i - 1
    BY <1>9
  <2> QED BY <1>8, <2>1
<1>11. s \in [1 .. n -> S]
  BY <1>9, <1>10
<1>12. ASSUME NEW x \in S
       PROVE  Place(S, before, x) + 1 \in 1 .. n /\ s[Place(S, before, x) + 1] = x
  <2> DEFINE p == Place(S, before, x)
  <2>1. p \in 0 .. n - 1 BY <1>2
  <2>2. p + 1 \in 1 .. n /\ (p + 1) - 1 = p BY <1>1, <2>1
  <2>3. Place(S, before, s[p + 1]) = p /\ s[p + 1] \in S BY <1>10, <2>2
  <2> QED BY <1>2, <2>2, <2>3
<1>13. ASSUME NEW i \in 1 .. n, NEW j \in 1 .. n
       PROVE  /\ i < j <=> <<s[i], s[j]>> \in before
              /\ s[i] = s[j] => i = j
  <2>1. /\ s[i] \in S /\ Place(S, before, s[i]) = i - 1
        /\ s[j] \in S /\ Place(S, before, s[j]) = j - 1
    BY <1>10
  <2>2. <<s[i], s[j]>> \in before <=> i - 1 < j - 1
    BY <1>2, <2>1
  <2>3. s[i] = s[j] => i - 1 = j - 1
    BY <2>1
  <2> QED BY <1>1, <2>2, <2>3
<1> QED BY <1>1, <1>10, <1>11, <1>12, <1>13 DEF s

\* What is selected is in the sequence, at different places (Answer: the hits that
\* the context admits and those that verify).
LEMMA SelectedIs ==
  ASSUME NEW H, NEW s \in Seq(H), NEW places, places \subseteq DOMAIN s
  PROVE  LET r == Selected(s, places)
         IN  /\ r \in Seq(H) /\ Len(r) <= Len(s)
             /\ \E from \in [DOMAIN r -> places] :
                  /\ \A j \in DOMAIN r : r[j] = s[from[j]]
                  /\ \A j, k \in DOMAIN r : from[j] = from[k] => j = k
<1> DEFINE before == {p \in places \X places : p[1] < p[2]}
           from == InOrder(places, before)
           n == Cardinality(places)
           r == Selected(s, places)
<1>1. Len(s) \in Nat /\ DOMAIN s = 1 .. Len(s)
  OBVIOUS
<1>2. IsFiniteSet(1 .. Len(s)) /\ Cardinality(1 .. Len(s)) = Len(s)
  <2> DEFINE m == Len(s)
  <2>1. m \in Nat BY <1>1
  <2> HIDE DEF m
  <2>2. IsFiniteSet(1 .. m) /\ Cardinality(1 .. m) = m
    BY <2>1, FS_Interval
  <2> QED BY <2>2 DEF m
<1>3. IsFiniteSet(places) /\ n <= Len(s)
  BY <1>1, <1>2, FS_Subset
<1>4. StrictOrder(places, before)
  <2>1. \A x, y \in places : <<x, y>> \in before <=> x < y
    OBVIOUS
  <2> HIDE DEF before
  <2>2. \A x \in places : x \in Nat
    BY <1>1
  <2> QED BY <2>1, <2>2 DEF StrictOrder
<1>5. /\ n \in Nat /\ from \in [1 .. n -> places]
      /\ \A j, k \in 1 .. n : from[j] = from[k] => j = k
  BY <1>3, <1>4, InOrderPlaces
<1>6. r = [j \in 1 .. n |-> s[from[j]]]
  BY DEF Selected
<1> HIDE DEF from, before, n, r
<1>7. \A j \in 1 .. n : s[from[j]] \in H
  BY <1>1, <1>5
<1>8. r \in Seq(H) /\ Len(r) = n /\ DOMAIN r = 1 .. n
  BY <1>5, <1>6, <1>7
<1> QED BY <1>3, <1>5, <1>6, <1>8 DEF r

-----------------------------------------------------------------------------
(* What is merged. *)

Answered == [origin : Brain, weight : Weights, hits : Seq(Hit)]
\* What the coordinator has when it merges.
Mergeable(cs) ==
  /\ cs \in Seq(Answered)
  /\ \A i \in DOMAIN cs : Len(cs[i].hits) <= Limit
  /\ \A i \in DOMAIN cs : \A j, k \in DOMAIN cs[i].hits :
       cs[i].hits[j].key = cs[i].hits[k].key => j = k
  /\ \A i, j \in DOMAIN cs : cs[i].origin = cs[j].origin => i = j

\* A member's answer is cut at the policy's cap (merge_and_rank).
LEMMA CappedIs ==
  ASSUME NEW H, NEW hits \in Seq(H), NEW policy, policy.cap \in Nat
  PROVE  /\ Len(Capped(hits, policy)) \in Nat /\ Len(Capped(hits, policy)) <= Len(hits)
         /\ DOMAIN Capped(hits, policy) = 1 .. Len(Capped(hits, policy))
         /\ \A j \in 1 .. Len(Capped(hits, policy)) :
              j \in DOMAIN hits /\ Capped(hits, policy)[j] = hits[j]
<1> DEFINE m == IF Len(hits) <= policy.cap THEN Len(hits) ELSE policy.cap
<1>1. m \in Nat /\ m <= Len(hits) /\ Len(hits) \in Nat
  OBVIOUS
<1>2. Capped(hits, policy) = SubSeq(hits, 1, m)
  BY DEF Capped
<1> HIDE DEF m
<1>3. /\ SubSeq(hits, 1, m) \in Seq(H) /\ Len(SubSeq(hits, 1, m)) = m
      /\ \A j \in 1 .. m : SubSeq(hits, 1, m)[j] = hits[j]
  BY <1>1
<1>4. DOMAIN SubSeq(hits, 1, m) = 1 .. m
  BY <1>3
<1> QED BY <1>1, <1>2, <1>3, <1>4

Count(cs, policy, i) == Len(Capped(cs[i].hits, policy))
Entry(cs, i, j) == [child |-> i, origin |-> cs[i].origin, weight |-> cs[i].weight,
                    rank |-> j - 1, hit |-> cs[i].hits[j]]
Rounded == [Content -> -Error .. Error]
Mark(cs, policy, e, i, j) ==
  [score |-> Effective(Flat(cs, policy), Entry(cs, i, j), policy, e), child |-> i, rank |-> j - 1,
   origin |-> cs[i].origin, hit |-> cs[i].hits[j]]

\* What a member's answer is made of.
LEMMA AnswerIs ==
  ASSUME NEW cs, Mergeable(cs), NEW policy \in Policies, NEW i \in DOMAIN cs
  PROVE  /\ Len(cs) \in Nat /\ DOMAIN cs = 1 .. Len(cs)
         /\ cs[i].origin \in Brain /\ cs[i].weight \in Weights /\ cs[i].hits \in Seq(Hit)
         /\ Count(cs, policy, i) \in Nat /\ Count(cs, policy, i) <= Limit
         /\ \A j \in 1 .. Count(cs, policy, i) :
              /\ j \in DOMAIN cs[i].hits /\ cs[i].hits[j] \in Hit
              /\ Capped(cs[i].hits, policy)[j] = cs[i].hits[j]
<1>1. cs \in Seq(Answered) /\ Len(cs[i].hits) <= Limit
  BY DEF Mergeable
<1>2. Len(cs) \in Nat /\ DOMAIN cs = 1 .. Len(cs) /\ cs[i] \in Answered
  BY <1>1
<1>3. cs[i].origin \in Brain /\ cs[i].weight \in Weights /\ cs[i].hits \in Seq(Hit)
  BY <1>2 DEF Answered
<1>4. policy.cap \in Nat /\ Limit \in Nat
  BY FanOutConstants
<1> DEFINE hits == cs[i].hits
<1>5. hits \in Seq(Hit) BY <1>3
<1>6. /\ Len(Capped(hits, policy)) \in Nat /\ Len(Capped(hits, policy)) <= Len(hits)
      /\ \A j \in 1 .. Len(Capped(hits, policy)) :
           j \in DOMAIN hits /\ Capped(hits, policy)[j] = hits[j]
  BY <1>4, <1>5, CappedIs
<1>7. Count(cs, policy, i) = Len(Capped(hits, policy))
  BY DEF Count
<1>8. Len(hits) \in Nat /\ \A j \in DOMAIN hits : hits[j] \in Hit
  BY <1>5
<1> QED BY <1>1, <1>2, <1>3, <1>4, <1>6, <1>7, <1>8

\* The hits with their members and ranks (merge_and_rank).
LEMMA FlatHas ==
  ASSUME NEW cs, Mergeable(cs), NEW policy \in Policies
  PROVE  \A f : f \in Flat(cs, policy) <=>
           \E i \in DOMAIN cs : \E j \in 1 .. Count(cs, policy, i) : f = Entry(cs, i, j)
<1> DEFINE Of(i) == {[child |-> i, origin |-> cs[i].origin, weight |-> cs[i].weight,
                      rank |-> j - 1, hit |-> cs[i].hits[j]] : j \in 1 .. Count(cs, policy, i)}
<1>1. Flat(cs, policy) = UNION {Of(i) : i \in DOMAIN cs}
  BY DEF Flat, Count
<1>2. \A i \in DOMAIN cs : \A f : f \in Of(i) <=> \E j \in 1 .. Count(cs, policy, i) : f = Entry(cs, i, j)
  BY DEF Entry
<1> HIDE DEF Of
<1> QED BY <1>1, <1>2

\* What is made of finitely many things is finite.
LEMMA FiniteRange ==
  ASSUME NEW S, IsFiniteSet(S), NEW f, DOMAIN f = S, f = [x \in S |-> f[x]]
  PROVE  IsFiniteSet({f[x] : x \in S})
<1> DEFINE T == {f[x] : x \in S}
<1>1. f \in Surjection(S, T)
  BY DEF Surjection
<1> QED BY <1>1, FS_Surjection

\* Finitely many hits are merged (merge_and_rank).
LEMMA FlatFinite ==
  ASSUME NEW cs, Mergeable(cs), NEW policy \in Policies
  PROVE  IsFiniteSet(Flat(cs, policy))
<1>1. cs \in Seq(Answered) /\ Len(cs) \in Nat /\ DOMAIN cs = 1 .. Len(cs) /\ Limit \in Nat
  BY FanOutConstants DEF Mergeable
<1> DEFINE S == (1 .. Len(cs)) \X (1 .. Limit)
           entry == [p \in S |-> Entry(cs, p[1], p[2])]
<1>2. IsFiniteSet(S)
  <2>1. IsFiniteSet(1 .. Len(cs)) /\ IsFiniteSet(1 .. Limit)
    BY <1>1, FS_Interval
  <2> QED BY <2>1, FS_Product
<1>3. IsFiniteSet({entry[p] : p \in S})
  <2>1. DOMAIN entry = S /\ entry = [p \in S |-> entry[p]] OBVIOUS
  <2> HIDE DEF entry, S
  <2> QED BY <1>2, <2>1, FiniteRange
<1>4. ASSUME NEW f \in Flat(cs, policy) PROVE f \in {entry[p] : p \in S}
  <2>1. PICK i \in DOMAIN cs : \E j \in 1 .. Count(cs, policy, i) : f = Entry(cs, i, j)
    BY FlatHas
  <2>2. PICK j \in 1 .. Count(cs, policy, i) : f = Entry(cs, i, j)
    BY <2>1
  <2>3. <<i, j>> \in S
    BY <1>1, AnswerIs
  <2>4. entry[<<i, j>>] = Entry(cs, i, j)
    BY <2>3
  <2> HIDE DEF entry, S
  <2> QED BY <2>2, <2>3, <2>4
<1> HIDE DEF entry
<1> QED BY <1>3, <1>4, FS_Subset

-----------------------------------------------------------------------------
(* Scores and keys. *)

Part(r) == Denominator \div (K + r)

\* A better rank is worth more, and by more than rounding can take back (Fused:
\* reciprocal ranks).
LEMMA PartFalls ==
  /\ \A a \in 0 .. Limit : Part(a) \in Nat /\ Part(a) > 0
  /\ \A a, b \in 0 .. Limit : a < b => Part(b) + 2 * Error < Part(a)
<1>1. K \in Nat /\ K > 0 /\ Limit \in Nat /\ Denominator \in Nat /\ Denominator > 0
  BY FanOutConstants
<1>2. ASSUME NEW a \in 0 .. Limit
      PROVE  Part(a) \in Nat /\ Part(a) > 0 /\ Denominator = (K + a) * Part(a)
  <2> DEFINE d == K + a
             q == Denominator \div d
  <2>1. d \in Nat /\ d > 0
    BY <1>1
  <2>2. Denominator % d = 0
    BY FanOutConstants
  <2>3. q \in Int /\ Denominator = d * q + (Denominator % d)
    BY <1>1, <2>1
  <2>4. q \in Int /\ Denominator = d * q
    BY <2>2, <2>3, <1>1, <2>1
  <2>5. Part(a) = q
    BY DEF Part
  <2> HIDE DEF q, d
  <2>6. q > 0
    BY <1>1, <2>1, <2>4
  <2> QED BY <2>4, <2>5, <2>6 DEF d
<1>3. ASSUME NEW a \in 0 .. Limit, NEW b \in 0 .. Limit, a < b
      PROVE  Part(b) < Part(a)
  <2>1. /\ Part(a) \in Nat /\ Part(a) > 0 /\ Denominator = (K + a) * Part(a)
        /\ Part(b) \in Nat /\ Part(b) > 0 /\ Denominator = (K + b) * Part(b)
    BY <1>2
  <2> DEFINE p == Part(a)
             q == Part(b)
             c == K + a
             d == K + b
  <2>2. p \in Nat /\ q \in Nat /\ c \in Nat /\ d \in Nat /\ c < d /\ c > 0 /\ q > 0 /\ c * p = d * q
    BY <1>1, <1>3, <2>1
  <2> HIDE DEF p, q, c, d
  <2>3. c * q < d * q
    BY <2>2
  <2>4. c * q < c * p
    BY <2>2, <2>3
  <2>5. q < p
    BY <2>2, <2>4
  <2> QED BY <2>5 DEF p, q
<1>4. ASSUME NEW a \in 0 .. Limit, NEW b \in 0 .. Limit, a < b
      PROVE  Part(b) + 2 * Error < Part(a)
  <2>1. a \in 0 .. Limit - 1 /\ a + 1 \in 0 .. Limit /\ Error \in Nat
    BY <1>1, <1>4, FanOutConstants
  <2>2. (Denominator \div (K + a)) - (Denominator \div (K + a + 1)) > 2 * Error
    BY <2>1, FanOutConstants
  <2>3. K + a + 1 = K + (a + 1)
    BY <1>1, <2>1
  <2>4. Part(a) - Part(a + 1) > 2 * Error
    BY <2>2, <2>3 DEF Part
  <2>5. b = a + 1 \/ a + 1 < b
    BY <1>1, <1>4
  <2>6. Part(b) = Part(a + 1) \/ Part(b) < Part(a + 1)
    BY <1>3, <2>1, <2>5
  <2>7. Part(a) \in Nat /\ Part(b) \in Nat /\ Part(a + 1) \in Nat
    BY <1>2, <2>1
  <2> QED BY <2>1, <2>4, <2>6, <2>7
<1> QED BY <1>2, <1>4

\* A hit's weighted reciprocal rank (Fused).
LEMMA ReciprocalIs ==
  ASSUME NEW cs, Mergeable(cs), NEW policy \in Policies, NEW i \in DOMAIN cs,
         NEW j \in 1 .. Count(cs, policy, i)
  PROVE  /\ j - 1 \in 0 .. Limit
         /\ Reciprocal(Entry(cs, i, j)) = cs[i].weight * Part(j - 1)
         /\ Reciprocal(Entry(cs, i, j)) \in Nat
         /\ Reciprocal(Entry(cs, i, j)) > 0 <=> cs[i].weight > 0
<1>1. Count(cs, policy, i) \in Nat /\ Count(cs, policy, i) <= Limit /\ cs[i].weight \in Nat /\ Limit \in Nat
  BY AnswerIs, FanOutConstants
<1>2. j - 1 \in 0 .. Limit
  BY <1>1
<1>3. Reciprocal(Entry(cs, i, j)) = cs[i].weight * Part(j - 1)
  BY DEF Reciprocal, Entry, Part
<1>4. Part(j - 1) \in Nat /\ Part(j - 1) > 0
  BY <1>2, PartFalls
<1> DEFINE w == cs[i].weight
           p == Part(j - 1)
<1>5. w \in Nat /\ p \in Nat /\ p > 0
  BY <1>1, <1>4
<1> HIDE DEF w, p
<1>6. w * p \in Nat /\ (w * p > 0 <=> w > 0)
  BY <1>5
<1> QED BY <1>2, <1>3, <1>6 DEF w, p

\* The fused score of a content is a number (merge_and_rank).
LEMMA FusedIs ==
  ASSUME NEW cs, Mergeable(cs), NEW policy \in Policies, NEW c
  PROVE  LET best == Best(Flat(cs, policy), c)
         IN  /\ IsFiniteSet(best) /\ best \subseteq Flat(cs, policy)
             /\ \A f \in best : Reciprocal(f) \in Nat
             /\ Fused(Flat(cs, policy), c) = SumFunctionOnSet([f \in best |-> Reciprocal(f)], best)
             /\ Fused(Flat(cs, policy), c) \in Nat
<1> DEFINE best == Best(Flat(cs, policy), c)
           w == [f \in best |-> Reciprocal(f)]
<1>1. best \subseteq Flat(cs, policy)
  BY DEF Best, Copies
<1>2. IsFiniteSet(best)
  BY <1>1, FlatFinite, FS_Subset
<1>3. ASSUME NEW f \in best PROVE Reciprocal(f) \in Nat
  <2>1. PICK i \in DOMAIN cs : \E j \in 1 .. Count(cs, policy, i) : f = Entry(cs, i, j)
    BY <1>1, FlatHas
  <2> QED BY <2>1, ReciprocalIs
<1>4. Fused(Flat(cs, policy), c) = SumFunctionOnSet(w, best)
  BY DEF Fused, Total
<1>5. \A f \in best : w[f] \in Nat
  BY <1>3
<1> HIDE DEF w, best
<1>6. SumFunctionOnSet(w, best) \in Nat
  BY <1>2, <1>5, SumTakesOut
<1> QED BY <1>1, <1>2, <1>3, <1>4, <1>6 DEF w, best

\* The members of what is sorted (merge_and_rank).
LEMMA ScoredHas ==
  ASSUME NEW cs, Mergeable(cs), NEW policy \in Policies, NEW e \in Rounded
  PROVE  /\ \A g : g \in Scored(cs, policy, e) <=>
              \E i \in DOMAIN cs : \E j \in 1 .. Count(cs, policy, i) : g = Mark(cs, policy, e, i, j)
         /\ IsFiniteSet(Scored(cs, policy, e))
<1> DEFINE flat == Flat(cs, policy)
           mark == [f \in flat |-> [score |-> Effective(flat, f, policy, e), child |-> f.child,
                                    rank |-> f.rank, origin |-> f.origin, hit |-> f.hit]]
<1>1. Scored(cs, policy, e) = {mark[f] : f \in flat}
  BY DEF Scored
<1>2. ASSUME NEW i \in DOMAIN cs, NEW j \in 1 .. Count(cs, policy, i)
      PROVE  Entry(cs, i, j) \in flat /\ mark[Entry(cs, i, j)] = Mark(cs, policy, e, i, j)
  <2>1. Entry(cs, i, j) \in flat BY FlatHas
  <2>2. /\ Entry(cs, i, j).child = i /\ Entry(cs, i, j).rank = j - 1
        /\ Entry(cs, i, j).origin = cs[i].origin /\ Entry(cs, i, j).hit = cs[i].hits[j]
    BY DEF Entry
  <2> QED BY <2>1, <2>2 DEF Mark
<1>3. DOMAIN mark = flat /\ mark = [f \in flat |-> mark[f]]
  OBVIOUS
<1>4. IsFiniteSet(flat)
  BY FlatFinite
<1>5. \A f \in flat : \E i \in DOMAIN cs : \E j \in 1 .. Count(cs, policy, i) : f = Entry(cs, i, j)
  BY FlatHas
<1> HIDE DEF mark, flat
<1>6. IsFiniteSet({mark[f] : f \in flat})
  BY <1>3, <1>4, FiniteRange
<1>7. \A g : g \in Scored(cs, policy, e) <=> \E f \in flat : g = mark[f]
  BY <1>1
<1> QED BY <1>1, <1>2, <1>5, <1>6, <1>7

\* What an entry of the sort is made of, and that it has numbers for its key.
LEMMA MarkIs ==
  ASSUME NEW cs, Mergeable(cs), NEW policy \in Policies, NEW e \in Rounded, NEW i \in DOMAIN cs,
         NEW j \in 1 .. Count(cs, policy, i)
  PROVE  LET g == Mark(cs, policy, e, i, j)
         IN  /\ g.child = i /\ g.rank = j - 1 /\ g.origin = cs[i].origin /\ g.hit = cs[i].hits[j]
             /\ g.score = Effective(Flat(cs, policy), Entry(cs, i, j), policy, e)
             /\ g.score \in Int /\ g.child \in Nat /\ g.rank \in Nat /\ g.origin \in Nat
             /\ g.hit \in Hit /\ g.hit.key \in Nat /\ g.hit.row.content \in Content
             /\ g.hit.row.content \in Nat
<1> DEFINE g == Mark(cs, policy, e, i, j)
<1>1. /\ g.child = i /\ g.rank = j - 1 /\ g.origin = cs[i].origin /\ g.hit = cs[i].hits[j]
      /\ g.score = Effective(Flat(cs, policy), Entry(cs, i, j), policy, e)
  BY DEF Mark
<1>2. /\ i \in Nat /\ j - 1 \in Nat /\ cs[i].origin \in Brain /\ cs[i].weight \in Weights
      /\ cs[i].hits[j] \in Hit
  BY AnswerIs
<1>3. cs[i].hits[j].key \in Key /\ cs[i].hits[j].row.content \in Content
  BY <1>2 DEF Hit, Row
<1>4. Effective(Flat(cs, policy), Entry(cs, i, j), policy, e) \in Int
  <2>1. Entry(cs, i, j).hit = cs[i].hits[j] /\ Entry(cs, i, j).weight = cs[i].weight
    BY DEF Entry
  <2>2. Fused(Flat(cs, policy), cs[i].hits[j].row.content) \in Nat
    BY FusedIs
  <2>3. cs[i].weight \in Nat /\ Signal[cs[i].hits[j].row.content] \in Nat
    BY <1>2, <1>3, FanOutConstants
  <2>4. cs[i].weight * Signal[cs[i].hits[j].row.content] \in Nat
    BY <2>3
  <2>5. e[cs[i].hits[j].row.content] \in Int
    <3> DEFINE x == cs[i].hits[j].row.content
    <3>1. x \in Content
      BY <1>3
    <3> HIDE DEF x
    <3>2. e[x] \in -Error .. Error /\ Error \in Nat
      BY <3>1, FanOutConstants DEF Rounded
    <3> QED BY <3>2 DEF x
  <2> QED BY <2>1, <2>2, <2>4, <2>5 DEF Effective
<1>5. Brain \subseteq Nat /\ Key \subseteq Nat /\ Content \subseteq Nat
  BY FanOutConstants
<1> HIDE DEF g
<1> QED BY <1>1, <1>2, <1>3, <1>4, <1>5 DEF g

\* What comes before what, spelt out (merge_and_rank: higher scores first, then
\* content, brain and memory).
Earlier(f, g) ==
  \/ f.score > g.score
  \/ f.score = g.score /\ f.hit.row.content < g.hit.row.content
  \/ f.score = g.score /\ f.hit.row.content = g.hit.row.content /\ f.origin < g.origin
  \/ /\ f.score = g.score /\ f.hit.row.content = g.hit.row.content /\ f.origin = g.origin
     /\ f.hit.key < g.hit.key
  \/ /\ f.score = g.score /\ f.hit.row.content = g.hit.row.content /\ f.origin = g.origin
     /\ f.hit.key = g.hit.key /\ f.child < g.child
  \/ /\ f.score = g.score /\ f.hit.row.content = g.hit.row.content /\ f.origin = g.origin
     /\ f.hit.key = g.hit.key /\ f.child = g.child /\ f.rank < g.rank
Keyed(f) == /\ f.score \in Int /\ f.hit.row.content \in Nat /\ f.origin \in Nat
            /\ f.hit.key \in Nat /\ f.child \in Nat /\ f.rank \in Nat

\* Keys are compared part by part (merge_and_rank).
LEMMA KeyOrder ==
  ASSUME NEW f, NEW g, Keyed(f), Keyed(g)
  PROVE  Precedes(SortKey(f), SortKey(g)) <=> Earlier(f, g)
<1> DEFINE s == SortKey(f)
           t == SortKey(g)
<1>1. /\ DOMAIN s = 1 .. 6
      /\ s[1] = 0 - f.score /\ s[2] = f.hit.row.content /\ s[3] = f.origin
      /\ s[4] = f.hit.key /\ s[5] = f.child /\ s[6] = f.rank
  BY DEF SortKey
<1>2. /\ t[1] = 0 - g.score /\ t[2] = g.hit.row.content /\ t[3] = g.origin
      /\ t[4] = g.hit.key /\ t[5] = g.child /\ t[6] = g.rank
  BY DEF SortKey
<1>3. Precedes(s, t) <=> \E i \in 1 .. 6 : s[i] < t[i] /\ \A j \in 1 .. i - 1 : s[j] = t[j]
  BY <1>1 DEF Precedes
<1> HIDE DEF s, t
<1> DEFINE P(i) == s[i] < t[i] /\ \A j \in 1 .. i - 1 : s[j] = t[j]
<1>4. (\E i \in 1 .. 6 : P(i)) <=> P(1) \/ P(2) \/ P(3) \/ P(4) \/ P(5) \/ P(6)
  <2>1. \A i : i \in 1 .. 6 <=> i = 1 \/ i = 2 \/ i = 3 \/ i = 4 \/ i = 5 \/ i = 6
    OBVIOUS
  <2> HIDE DEF P
  <2> QED BY <2>1
<1>5. P(1) <=> s[1] < t[1]
  OBVIOUS
<1>6. P(2) <=> s[2] < t[2] /\ s[1] = t[1]
  OBVIOUS
<1>7. P(3) <=> s[3] < t[3] /\ s[1] = t[1] /\ s[2] = t[2]
  OBVIOUS
<1>8. P(4) <=> s[4] < t[4] /\ s[1] = t[1] /\ s[2] = t[2] /\ s[3] = t[3]
  OBVIOUS
<1>9. P(5) <=> s[5] < t[5] /\ s[1] = t[1] /\ s[2] = t[2] /\ s[3] = t[3] /\ s[4] = t[4]
  OBVIOUS
<1>10. P(6) <=> s[6] < t[6] /\ s[1] = t[1] /\ s[2] = t[2] /\ s[3] = t[3] /\ s[4] = t[4] /\ s[5] = t[5]
  OBVIOUS
<1>11. /\ s[1] < t[1] <=> f.score > g.score
       /\ s[1] = t[1] <=> f.score = g.score
  BY <1>1, <1>2 DEF Keyed
<1>12. Precedes(s, t) <=> P(1) \/ P(2) \/ P(3) \/ P(4) \/ P(5) \/ P(6)
  BY <1>3, <1>4
<1> HIDE DEF P
<1>13. Precedes(s, t) <=> Earlier(f, g)
  BY <1>1, <1>2, <1>5, <1>6, <1>7, <1>8, <1>9, <1>10, <1>11, <1>12 DEF Earlier
<1> QED BY <1>13 DEF s, t

Order(S) == {p \in S \X S : Precedes(SortKey(p[1]), SortKey(p[2]))}

\* The sorted entries: each is at one place, earlier ones first (merge_and_rank).
LEMMA SortedIs ==
  ASSUME NEW cs, Mergeable(cs), NEW policy \in Policies, NEW e \in Rounded
  PROVE  LET S == Scored(cs, policy, e)
             s == Sorted(cs, policy, e)
             n == Cardinality(S)
             before == Order(S)
         IN  /\ n \in Nat /\ s \in [1 .. n -> S]
             /\ \A x, y \in S : <<x, y>> \in before <=> Earlier(x, y)
             /\ \A i \in 1 .. n : Place(S, before, s[i]) = i - 1
             /\ \A x \in S : Place(S, before, x) + 1 \in 1 .. n /\ s[Place(S, before, x) + 1] = x
             /\ \A i, j \in 1 .. n : i < j <=> Earlier(s[i], s[j])
             /\ \A i, j \in 1 .. n : s[i] = s[j] => i = j
             /\ Ranked(cs, policy, e) = [i \in 1 .. n |-> [origin |-> s[i].origin, hit |-> s[i].hit]]
<1> DEFINE S == Scored(cs, policy, e)
           s == Sorted(cs, policy, e)
           n == Cardinality(S)
           before == Order(S)
<1>1. s = InOrder(S, before) /\ Ranked(cs, policy, e) = [i \in DOMAIN s |-> [origin |-> s[i].origin, hit |-> s[i].hit]]
  BY DEF Sorted, Ranked, Order
<1>2. IsFiniteSet(S)
  BY ScoredHas
<1>3. \A x \in S : \E i \in DOMAIN cs : \E j \in 1 .. Count(cs, policy, i) : x = Mark(cs, policy, e, i, j)
  BY ScoredHas
<1>4. \A x \in S : Keyed(x)
  BY <1>3, MarkIs DEF Keyed
<1>5. \A x, y \in S : <<x, y>> \in before <=> Precedes(SortKey(x), SortKey(y))
  BY DEF Order
<1>6. \A x, y \in S : <<x, y>> \in before <=> Earlier(x, y)
  BY <1>4, <1>5, KeyOrder
<1>7. \A x, y \in S : x.child = y.child /\ x.rank = y.rank => x = y
  <2> TAKE x, y \in S
  <2> HAVE x.child = y.child /\ x.rank = y.rank
  <2>1. PICK i \in DOMAIN cs : \E j \in 1 .. Count(cs, policy, i) : x = Mark(cs, policy, e, i, j)
    BY <1>3
  <2>2. PICK j \in 1 .. Count(cs, policy, i) : x = Mark(cs, policy, e, i, j)
    BY <2>1
  <2>3. PICK k \in DOMAIN cs : \E l \in 1 .. Count(cs, policy, k) : y = Mark(cs, policy, e, k, l)
    BY <1>3
  <2>4. PICK l \in 1 .. Count(cs, policy, k) : y = Mark(cs, policy, e, k, l)
    BY <2>3
  <2>5. i = k /\ j - 1 = l - 1
    BY <2>2, <2>4, MarkIs
  <2>6. Count(cs, policy, i) \in Nat
    BY AnswerIs
  <2>7. j = l
    BY <2>5, <2>6
  <2> QED BY <2>2, <2>4, <2>5, <2>7
<1> HIDE DEF S, s, before
<1>8. StrictOrder(S, before)
  <2>1. \A x \in S : ~Earlier(x, x)
    BY <1>4 DEF Earlier, Keyed
  <2>2. \A x, y, z \in S : Earlier(x, y) /\ Earlier(y, z) => Earlier(x, z)
    BY <1>4 DEF Earlier, Keyed
  <2>3. \A x, y \in S : x = y \/ Earlier(x, y) \/ Earlier(y, x)
    BY <1>4, <1>7 DEF Earlier, Keyed
  <2> QED BY <1>6, <2>1, <2>2, <2>3 DEF StrictOrder
<1>9. /\ n \in Nat /\ s \in [1 .. n -> S]
      /\ \A i \in 1 .. n : Place(S, before, s[i]) = i - 1
      /\ \A x \in S : Place(S, before, x) + 1 \in 1 .. n /\ s[Place(S, before, x) + 1] = x
      /\ \A i, j \in 1 .. n : i < j <=> <<s[i], s[j]>> \in before
      /\ \A i, j \in 1 .. n : s[i] = s[j] => i = j
  BY <1>1, <1>2, <1>8, InOrderPlaces
<1>10. \A i, j \in 1 .. n : i < j <=> Earlier(s[i], s[j])
  BY <1>6, <1>9
<1>11. Ranked(cs, policy, e) = [i \in 1 .. n |-> [origin |-> s[i].origin, hit |-> s[i].hit]]
  BY <1>1, <1>9
<1> QED BY <1>6, <1>9, <1>10, <1>11 DEF S, s, before

-----------------------------------------------------------------------------
(* The ranking. *)

\* Every place of the ranking has a hit that a member gave, at a rank under the cap
\* (merge_and_rank).
LEMMA RankedFrom ==
  ASSUME NEW cs, Mergeable(cs), NEW policy \in Policies, NEW e \in Rounded
  PROVE  \A p \in DOMAIN Ranked(cs, policy, e) :
           /\ p \in 1 .. Cardinality(Scored(cs, policy, e))
           /\ \E i \in DOMAIN cs : \E j \in 1 .. Count(cs, policy, i) :
                /\ Sorted(cs, policy, e)[p] = Mark(cs, policy, e, i, j)
                /\ Ranked(cs, policy, e)[p] = [origin |-> cs[i].origin, hit |-> cs[i].hits[j]]
<1> DEFINE S == Scored(cs, policy, e)
           s == Sorted(cs, policy, e)
           n == Cardinality(S)
           ranked == Ranked(cs, policy, e)
<1>1. /\ s \in [1 .. n -> S]
      /\ ranked = [p \in 1 .. n |-> [origin |-> s[p].origin, hit |-> s[p].hit]]
  BY SortedIs
<1>2. ASSUME NEW p \in 1 .. n
      PROVE  \E i \in DOMAIN cs : \E j \in 1 .. Count(cs, policy, i) :
               /\ s[p] = Mark(cs, policy, e, i, j)
               /\ ranked[p] = [origin |-> cs[i].origin, hit |-> cs[i].hits[j]]
  <2>1. s[p] \in S BY <1>1
  <2>2. PICK i \in DOMAIN cs : \E j \in 1 .. Count(cs, policy, i) : s[p] = Mark(cs, policy, e, i, j)
    BY <2>1, ScoredHas
  <2>3. PICK j \in 1 .. Count(cs, policy, i) : s[p] = Mark(cs, policy, e, i, j)
    BY <2>2
  <2>4. s[p].origin = cs[i].origin /\ s[p].hit = cs[i].hits[j]
    BY <2>3, MarkIs
  <2>5. ranked[p] = [origin |-> s[p].origin, hit |-> s[p].hit]
    BY <1>1
  <2> QED BY <2>3, <2>4, <2>5
<1>3. DOMAIN ranked = 1 .. n
  BY <1>1
<1> QED BY <1>2, <1>3

\* The ranking has every hit under the cap of every member, and no other
\* (merge_and_rank: per-brain counts).
LEMMA RankedCounts ==
  ASSUME NEW cs, Mergeable(cs), NEW policy \in Policies, NEW e \in Rounded
  PROVE  LET ranked == Ranked(cs, policy, e)
         IN  /\ \A m \in DOMAIN cs :
                  Cardinality({p \in DOMAIN ranked : ranked[p].origin = cs[m].origin})
                    = Count(cs, policy, m)
             /\ \A b : (\A m \in DOMAIN cs : cs[m].origin # b) =>
                  {p \in DOMAIN ranked : ranked[p].origin = b} = {}
<1> DEFINE S == Scored(cs, policy, e)
           s == Sorted(cs, policy, e)
           n == Cardinality(S)
           ranked == Ranked(cs, policy, e)
           before == Order(S)
<1>1. /\ n \in Nat /\ s \in [1 .. n -> S]
      /\ \A i \in 1 .. n : Place(S, before, s[i]) = i - 1
      /\ \A x \in S : Place(S, before, x) + 1 \in 1 .. n /\ s[Place(S, before, x) + 1] = x
      /\ ranked = [i \in 1 .. n |-> [origin |-> s[i].origin, hit |-> s[i].hit]]
  BY SortedIs
<1>2. \A p \in DOMAIN ranked : \E i \in DOMAIN cs : \E j \in 1 .. Count(cs, policy, i) :
        s[p] = Mark(cs, policy, e, i, j) /\ ranked[p] = [origin |-> cs[i].origin, hit |-> cs[i].hits[j]]
  BY RankedFrom
<1>3. ASSUME NEW i \in DOMAIN cs, NEW j \in 1 .. Count(cs, policy, i)
      PROVE  Mark(cs, policy, e, i, j) \in S /\ Mark(cs, policy, e, i, j).rank = j - 1
  BY ScoredHas, MarkIs
<1> HIDE DEF S, s, ranked, before
<1>4. ASSUME NEW m \in DOMAIN cs
      PROVE  Cardinality({p \in DOMAIN ranked : ranked[p].origin = cs[m].origin}) = Count(cs, policy, m)
  <2> DEFINE k == Count(cs, policy, m)
             T == {p \in DOMAIN ranked : ranked[p].origin = cs[m].origin}
             at == [j \in 1 .. k |-> Place(S, before, Mark(cs, policy, e, m, j)) + 1]
  <2>1. k \in Nat
    BY AnswerIs
  <2>2. ASSUME NEW j \in 1 .. k
        PROVE  at[j] \in T /\ s[at[j]] = Mark(cs, policy, e, m, j)
    <3>1. Mark(cs, policy, e, m, j) \in S /\ Mark(cs, policy, e, m, j).origin = cs[m].origin
      BY <1>3, MarkIs
    <3>2. at[j] = Place(S, before, Mark(cs, policy, e, m, j)) + 1
      OBVIOUS
    <3> HIDE DEF at
    <3>3. at[j] \in 1 .. n /\ s[at[j]] = Mark(cs, policy, e, m, j)
      BY <1>1, <3>1, <3>2
    <3>4. at[j] \in DOMAIN ranked /\ ranked[at[j]].origin = s[at[j]].origin
      BY <1>1, <3>3
    <3> QED BY <3>1, <3>3, <3>4
  <2>3. at \in [1 .. k -> T]
    <3>1. at = [j \in 1 .. k |-> at[j]] OBVIOUS
    <3>2. \A j \in 1 .. k : at[j] \in T BY <2>2
    <3> HIDE DEF at, T
    <3> QED BY <3>1, <3>2
  <2>4. ASSUME NEW j \in 1 .. k, NEW l \in 1 .. k, at[j] = at[l] PROVE j = l
    <3>1. Mark(cs, policy, e, m, j) = Mark(cs, policy, e, m, l)
      BY <2>2, <2>4
    <3>2. j - 1 = l - 1
      BY <1>3, <3>1
    <3> QED BY <2>1, <3>2
  <2>5. ASSUME NEW p \in T PROVE \E j \in 1 .. k : at[j] = p
    <3>1. p \in DOMAIN ranked /\ ranked[p].origin = cs[m].origin
      OBVIOUS
    <3>2. PICK i \in DOMAIN cs : \E j \in 1 .. Count(cs, policy, i) :
            s[p] = Mark(cs, policy, e, i, j) /\ ranked[p] = [origin |-> cs[i].origin, hit |-> cs[i].hits[j]]
      BY <1>2, <3>1
    <3>3. i = m
      BY <3>1, <3>2 DEF Mergeable
    <3>4. PICK j \in 1 .. k : s[p] = Mark(cs, policy, e, m, j)
      BY <3>2, <3>3
    <3>5. s[at[j]] = s[p] /\ p \in 1 .. n /\ at[j] \in 1 .. n
      <4>1. at[j] \in T /\ s[at[j]] = Mark(cs, policy, e, m, j) BY <2>2
      <4>2. DOMAIN ranked = 1 .. n BY <1>1
      <4> QED BY <3>1, <3>4, <4>1, <4>2
    <3> HIDE DEF at
    <3>6. at[j] - 1 = p - 1
      BY <1>1, <3>5
    <3>7. at[j] = p
      BY <1>1, <3>5, <3>6
    <3> QED BY <3>7
  <2> HIDE DEF at, T, k
  <2>6. at \in Bijection(1 .. k, T)
    BY <2>3, <2>4, <2>5 DEF Bijection, Injection, Surjection, IsInjective
  <2>7. Cardinality(T) = k
    BY <2>1, <2>6, FS_CountingElements DEF ExistsBijection
  <2> QED BY <2>7 DEF T, k
<1>5. ASSUME NEW b, \A m \in DOMAIN cs : cs[m].origin # b
      PROVE  {p \in DOMAIN ranked : ranked[p].origin = b} = {}
  BY <1>2, <1>5
<1> QED BY <1>4, <1>5 DEF ranked

-----------------------------------------------------------------------------
(* Agreement. *)

\* BestRank of contributions that need not be the last result's.
BestAt(cs, policy, c, i) ==
  LET hits == Capped(cs[i].hits, policy)
      at == {j \in DOMAIN hits : hits[j].row.content = c}
  IN  IF at = {} THEN Limit + 1 ELSE Least(at)
Votes(cs, policy, c, i) == \E j \in 1 .. Count(cs, policy, i) : cs[i].hits[j].row.content = c

\* A set of natural numbers has a least one (Least).
LEMMA LeastIs ==
  ASSUME NEW T, T \subseteq Nat, T # {}
  PROVE  Least(T) \in T /\ \A k \in T : Least(T) <= k
<1>1. PICK m \in T : \A k \in T : ~ (<<k, m>> \in OpToRel(<, Nat))
  BY NatLessThanWellFounded, WFMin
<1>2. ASSUME NEW k \in T PROVE m <= k
  <2>1. <<k, m>> \notin OpToRel(<, Nat)
    BY <1>1
  <2>2. ~(k < m)
    BY <2>1, Zenon DEF OpToRel
  <2> QED BY <2>2
<1>3. \E x \in T : \A y \in T : x <= y
  BY <1>2
<1> QED BY <1>3, Zenon DEF Least

\* The best rank a member gives to a content, one past the most there are if it
\* gives none.
LEMMA BestAtIs ==
  ASSUME NEW cs, Mergeable(cs), NEW policy \in Policies, NEW i \in DOMAIN cs, NEW c
  PROVE  LET b == BestAt(cs, policy, c, i)
         IN  /\ b \in 1 .. Limit + 1
             /\ Votes(cs, policy, c, i) <=> b <= Limit
             /\ Votes(cs, policy, c, i) =>
                  /\ b \in 1 .. Count(cs, policy, i) /\ cs[i].hits[b].row.content = c
                  /\ \A j \in 1 .. Count(cs, policy, i) : cs[i].hits[j].row.content = c => b <= j
<1> DEFINE hits == Capped(cs[i].hits, policy)
           k == Count(cs, policy, i)
           at == {j \in DOMAIN hits : hits[j].row.content = c}
           b == BestAt(cs, policy, c, i)
<1>1. /\ cs[i].hits \in Seq(Hit) /\ k \in Nat /\ k <= Limit /\ Limit \in Nat /\ policy.cap \in Nat
      /\ \A j \in 1 .. k : hits[j] = cs[i].hits[j]
  BY AnswerIs, FanOutConstants
<1>2. DOMAIN hits = 1 .. k
  BY <1>1, CappedIs DEF Count
<1>3. \A j : j \in at <=> j \in 1 .. k /\ cs[i].hits[j].row.content = c
  BY <1>1, <1>2
<1>4. b = IF at = {} THEN Limit + 1 ELSE Least(at)
  BY DEF BestAt
<1>5. Votes(cs, policy, c, i) <=> at # {}
  BY <1>3 DEF Votes
<1> HIDE DEF at, b, hits, k
<1>6. at # {} => Least(at) \in at /\ \A j \in at : Least(at) <= j
  <2>1. at \subseteq Nat BY <1>1, <1>3
  <2> QED BY <2>1, LeastIs
<1>7. CASE at = {}
  <2>1. b = Limit + 1 /\ ~Votes(cs, policy, c, i) BY <1>4, <1>5, <1>7
  <2> QED BY <1>1, <2>1 DEF b
<1>8. CASE at # {}
  <2>1. b \in 1 .. k /\ cs[i].hits[b].row.content = c /\ \A j \in at : b <= j
    BY <1>3, <1>4, <1>6, <1>8
  <2>2. Votes(cs, policy, c, i)
    BY <1>5, <1>8
  <2>3. \A j \in 1 .. k : cs[i].hits[j].row.content = c => b <= j
    BY <1>3, <2>1
  <2> QED BY <1>1, <2>1, <2>2, <2>3 DEF b, k
<1> QED BY <1>7, <1>8

\* Each member that has a content counts for it once, with its best rank (Fused).
LEMMA BestHas ==
  ASSUME NEW cs, Mergeable(cs), NEW policy \in Policies, NEW c
  PROVE  \A f : f \in Best(Flat(cs, policy), c) <=>
           \E i \in DOMAIN cs : Votes(cs, policy, c, i) /\ f = Entry(cs, i, BestAt(cs, policy, c, i))
<1> DEFINE flat == Flat(cs, policy)
           b(i) == BestAt(cs, policy, c, i)
<1>1. \A i, j : /\ Entry(cs, i, j).origin = cs[i].origin /\ Entry(cs, i, j).rank = j - 1
                /\ Entry(cs, i, j).hit = cs[i].hits[j] /\ Entry(cs, i, j).child = i
  BY DEF Entry
<1>2. \A f : f \in Copies(flat, c) <=> f \in flat /\ f.hit.row.content = c
  BY DEF Copies
<1>3. \A f : f \in flat <=> \E i \in DOMAIN cs : \E j \in 1 .. Count(cs, policy, i) : f = Entry(cs, i, j)
  BY FlatHas
<1>4. \A f : f \in Best(flat, c) <=>
        f \in Copies(flat, c) /\ \A g \in Copies(flat, c) : g.origin = f.origin => f.rank <= g.rank
  BY DEF Best
<1> HIDE DEF flat
<1>5. ASSUME NEW f \in Best(flat, c)
      PROVE  \E i \in DOMAIN cs : Votes(cs, policy, c, i) /\ f = Entry(cs, i, b(i))
  <2>1. PICK i \in DOMAIN cs : \E j \in 1 .. Count(cs, policy, i) : f = Entry(cs, i, j)
    BY <1>2, <1>3, <1>4
  <2>2. PICK j \in 1 .. Count(cs, policy, i) : f = Entry(cs, i, j)
    BY <2>1
  <2>3. cs[i].hits[j].row.content = c
    BY <1>1, <1>2, <1>4, <2>2
  <2>4. Votes(cs, policy, c, i)
    BY <2>3 DEF Votes
  <2>5. b(i) \in 1 .. Count(cs, policy, i) /\ cs[i].hits[b(i)].row.content = c /\ b(i) <= j
    BY <2>3, <2>4, BestAtIs
  <2>6. Entry(cs, i, b(i)) \in Copies(flat, c)
    BY <1>1, <1>2, <1>3, <2>5
  <2>7. j - 1 <= b(i) - 1
    BY <1>1, <1>4, <2>2, <2>6
  <2>8. Count(cs, policy, i) \in Nat
    BY AnswerIs
  <2>9. j = b(i)
    BY <2>5, <2>7, <2>8
  <2> QED BY <2>2, <2>4, <2>9
<1>6. ASSUME NEW i \in DOMAIN cs, Votes(cs, policy, c, i)
      PROVE  Entry(cs, i, b(i)) \in Best(flat, c)
  <2>1. b(i) \in 1 .. Count(cs, policy, i) /\ cs[i].hits[b(i)].row.content = c
    BY <1>6, BestAtIs
  <2>2. Entry(cs, i, b(i)) \in Copies(flat, c)
    BY <1>1, <1>2, <1>3, <2>1
  <2>3. ASSUME NEW g \in Copies(flat, c), g.origin = cs[i].origin
        PROVE  b(i) - 1 <= g.rank
    <3>1. PICK k \in DOMAIN cs : \E j \in 1 .. Count(cs, policy, k) : g = Entry(cs, k, j)
      BY <1>2, <1>3
    <3>2. PICK j \in 1 .. Count(cs, policy, k) : g = Entry(cs, k, j)
      BY <3>1
    <3>3. k = i
      BY <1>1, <2>3, <3>2 DEF Mergeable
    <3>4. cs[i].hits[j].row.content = c
      BY <1>1, <1>2, <3>2, <3>3
    <3>5. b(i) <= j
      BY <1>6, <3>2, <3>3, <3>4, BestAtIs
    <3>6. Count(cs, policy, i) \in Nat
      BY AnswerIs
    <3>7. b(i) - 1 <= j - 1
      BY <2>1, <3>2, <3>3, <3>5, <3>6
    <3> QED BY <1>1, <3>2, <3>7
  <2> QED BY <1>1, <1>4, <2>2, <2>3
<1> QED BY <1>5, <1>6 DEF flat

\* A content that every member with a weight gives at a rank no worse than another,
\* and one of them at a better one, has the higher fused score, by more than rounding
\* can take back, however often a member repeats the other (Fused).
LEMMA AgreementWins ==
  ASSUME NEW cs, Mergeable(cs), NEW policy \in Policies, NEW c, NEW d,
         \A i \in DOMAIN cs : cs[i].weight > 0 => BestAt(cs, policy, c, i) <= BestAt(cs, policy, d, i),
         NEW i0 \in DOMAIN cs, cs[i0].weight > 0,
         BestAt(cs, policy, c, i0) < BestAt(cs, policy, d, i0)
  PROVE  Fused(Flat(cs, policy), d) + 2 * Error < Fused(Flat(cs, policy), c)
<1> DEFINE flat == Flat(cs, policy)
           C == Best(flat, c)
           D == Best(flat, d)
           u == [f \in D |-> Reciprocal(f)]
           w == [f \in C |-> Reciprocal(f)]
           bc(i) == BestAt(cs, policy, c, i)
           bd(i) == BestAt(cs, policy, d, i)
           y == Entry(cs, i0, bc(i0))
           x == Entry(cs, i0, bd(i0))
           m == [f \in D |-> Entry(cs, f.child, bc(f.child))]
           S == {f \in D : f.child # i0}
<1>1. /\ IsFiniteSet(C) /\ \A f \in C : w[f] = Reciprocal(f) /\ w[f] \in Nat
      /\ Fused(flat, c) = SumFunctionOnSet(w, C)
  BY FusedIs
<1>2. /\ IsFiniteSet(D) /\ \A f \in D : u[f] = Reciprocal(f) /\ u[f] \in Nat
      /\ Fused(flat, d) = SumFunctionOnSet(u, D)
  BY FusedIs
<1>3. \A f : f \in C <=> \E i \in DOMAIN cs : Votes(cs, policy, c, i) /\ f = Entry(cs, i, bc(i))
  BY BestHas
<1>4. \A f : f \in D <=> \E i \in DOMAIN cs : Votes(cs, policy, d, i) /\ f = Entry(cs, i, bd(i))
  BY BestHas
<1>5. \A i, j : Entry(cs, i, j).child = i
  BY DEF Entry
<1>6. \A f \in D : m[f] = Entry(cs, f.child, bc(f.child))
  OBVIOUS
<1>7. Limit \in Nat /\ Error \in Nat
  BY FanOutConstants
<1> HIDE DEF flat, C, D, u, w, m
<1>8. ASSUME NEW i \in DOMAIN cs, cs[i].weight > 0, Votes(cs, policy, d, i)
      PROVE  /\ Votes(cs, policy, c, i)
             /\ Entry(cs, i, bc(i)) \in C
             /\ Reciprocal(Entry(cs, i, bd(i))) <= Reciprocal(Entry(cs, i, bc(i)))
             /\ bc(i) < bd(i) =>
                  Reciprocal(Entry(cs, i, bd(i))) + 2 * Error < Reciprocal(Entry(cs, i, bc(i)))
  <2>1. bd(i) \in 1 .. Count(cs, policy, i) /\ bd(i) <= Limit
    BY <1>8, BestAtIs
  <2>2. bc(i) <= bd(i)
    BY <1>8
  <2>3. bc(i) \in 1 .. Limit + 1
    BY BestAtIs
  <2>4. bd(i) \in 1 .. Limit + 1
    BY BestAtIs
  <2>5. bc(i) <= Limit
    BY <1>7, <2>1, <2>2, <2>3, <2>4
  <2>6. Votes(cs, policy, c, i)
    BY <2>5, BestAtIs
  <2>7. bc(i) \in 1 .. Count(cs, policy, i)
    BY <2>6, BestAtIs
  <2> DEFINE a == bc(i)
             b == bd(i)
  <2> HIDE DEF a, b
  <2>8. /\ a - 1 \in 0 .. Limit /\ b - 1 \in 0 .. Limit
        /\ Reciprocal(Entry(cs, i, a)) = cs[i].weight * Part(a - 1)
        /\ Reciprocal(Entry(cs, i, b)) = cs[i].weight * Part(b - 1)
    BY <2>1, <2>7, ReciprocalIs DEF a, b
  <2> DEFINE k == cs[i].weight
             p == Part(a - 1)
             q == Part(b - 1)
  <2>9. k \in Nat /\ k > 0
    BY <1>8, AnswerIs, FanOutConstants
  <2>10. p \in Nat /\ q \in Nat
    BY <2>8, PartFalls
  <2>11. a < b => q + 2 * Error < p
    <3> SUFFICES ASSUME a < b PROVE q + 2 * Error < p OBVIOUS
    <3>1. a - 1 < b - 1 BY <2>3, <2>4 DEF a, b
    <3> QED BY <2>8, <3>1, PartFalls
  <2>12. a <= b /\ (~(a < b) => a = b)
    BY <2>2, <2>3, <2>4 DEF a, b
  <2>13. ~(a < b) => p = q
    BY <2>12
  <2> HIDE DEF k, p, q
  <2>14. q + 2 * Error < p => k * q + 2 * Error < k * p
    <3> DEFINE x1 == 2 * Error
               g == p - q
    <3> HAVE q + 2 * Error < p
    <3>1. x1 \in Nat /\ g \in Nat /\ x1 < g /\ p = q + g
      BY <1>7, <2>10
    <3> HIDE DEF x1, g
    <3>2. k * p = k * q + k * g /\ k * g \in Int /\ k * q \in Int
      BY <2>9, <2>10, <3>1
    <3>3. k * g >= g
      BY <2>9, <3>1
    <3>4. k * q + x1 < k * p
      BY <3>1, <3>2, <3>3
    <3> QED BY <3>4 DEF x1
  <2>16. k * q \in Int /\ k * p \in Int
    BY <2>9, <2>10
  <2>15. (a < b => k * q + 2 * Error < k * p) /\ k * q <= k * p
    BY <1>7, <2>9, <2>10, <2>11, <2>13, <2>14, <2>16
  <2> QED BY <1>3, <2>6, <2>8, <2>15 DEF k, p, q, a, b
<1>9. Votes(cs, policy, c, i0) /\ y \in C /\ w[y] > 2 * Error
  <2>1. bc(i0) \in 1 .. Limit + 1 /\ bd(i0) \in 1 .. Limit + 1
    BY BestAtIs
  <2>2. bc(i0) <= Limit
    BY <1>7, <2>1
  <2>3. Votes(cs, policy, c, i0)
    BY <2>2, BestAtIs
  <2>4. bc(i0) \in 1 .. Count(cs, policy, i0)
    BY <2>3, BestAtIs
  <2>5. y \in C
    BY <1>3, <2>3
  <2> DEFINE b == bc(i0)
             k == cs[i0].weight
             p == Part(b - 1)
  <2>6. b \in 1 .. Limit /\ b - 1 \in 0 .. Limit /\ b \in 0 .. Limit /\ b - 1 < b
    BY <1>7, <2>1, <2>2
  <2>7. Part(b) + 2 * Error < p /\ Part(b) \in Nat /\ p \in Nat
    <3> HIDE DEF b
    <3> QED BY <2>6, PartFalls
  <2>8. k \in Nat /\ k > 0
    BY AnswerIs, FanOutConstants
  <2>9. Reciprocal(y) = k * p
    BY <2>4, ReciprocalIs
  <2> HIDE DEF b, k, p
  <2>10. 2 * Error < p
    BY <1>7, <2>7
  <2>11. p <= k * p /\ k * p \in Nat
    BY <2>7, <2>8
  <2>12. w[y] = k * p
    BY <1>1, <2>5, <2>9
  <2> QED BY <1>7, <2>3, <2>5, <2>7, <2>10, <2>11, <2>12
<1>10. ASSUME NEW f \in D
       PROVE  f.child \in DOMAIN cs /\ Votes(cs, policy, d, f.child) /\ f = Entry(cs, f.child, bd(f.child))
  BY <1>4, <1>5
<1>11. S \subseteq D /\ IsFiniteSet(S) /\ \A f \in S : u[f] \in Nat
  BY <1>2, FS_Subset
<1>12. C \ {y} \subseteq C /\ IsFiniteSet(C \ {y}) /\ \A f \in C \ {y} : w[f] \in Nat
  BY <1>1, FS_Subset
<1>13. Covers(m, u, S, w, C \ {y})
  <2>1. ASSUME NEW f \in S, u[f] > 0 PROVE m[f] \in C \ {y} /\ u[f] <= w[m[f]]
    <3>1. f \in D /\ f.child # i0 /\ f.child \in DOMAIN cs /\ Votes(cs, policy, d, f.child)
          /\ f = Entry(cs, f.child, bd(f.child))
      BY <1>10
    <3> DEFINE i == f.child
    <3>2. bd(i) \in 1 .. Count(cs, policy, i)
      BY <3>1, BestAtIs
    <3>3. cs[i].weight > 0
      BY <1>2, <2>1, <3>1, <3>2, ReciprocalIs
    <3>4. Entry(cs, i, bc(i)) \in C /\ Reciprocal(Entry(cs, i, bd(i))) <= Reciprocal(Entry(cs, i, bc(i)))
      BY <1>8, <3>1, <3>3
    <3>5. m[f] = Entry(cs, i, bc(i))
      BY <1>6, <3>1
    <3>6. m[f] # y
      BY <1>5, <3>1, <3>5
    <3> QED BY <1>1, <1>2, <3>1, <3>4, <3>5, <3>6
  <2>2. ASSUME NEW f \in S, NEW g \in S, m[f] = m[g] PROVE f = g
    <3>1. f.child = g.child
      BY <1>5, <1>6, <2>2
    <3> QED BY <1>10, <3>1
  <2> QED BY <2>1, <2>2 DEF Covers
<1>14. SumFunctionOnSet(u, S) <= SumFunctionOnSet(w, C \ {y})
  <2> HIDE DEF S
  <2> QED BY <1>11, <1>12, <1>13, SumCompares
<1>15. SumFunctionOnSet(u, S) \in Nat /\ SumFunctionOnSet(w, C \ {y}) \in Nat
  <2> HIDE DEF S
  <2> QED BY <1>11, <1>12, SumTakesOut
<1>16. SumFunctionOnSet(w, C) = w[y] + SumFunctionOnSet(w, C \ {y})
  BY <1>1, <1>9, SumTakesOut
<1>17. CASE Votes(cs, policy, d, i0)
  <2>1. x \in D
    BY <1>4, <1>17
  <2>2. S = D \ {x}
    BY <1>5, <1>10, <2>1
  <2>3. SumFunctionOnSet(u, D) = u[x] + SumFunctionOnSet(u, D \ {x})
    BY <1>2, <2>1, SumTakesOut
  <2>4. u[x] + 2 * Error < w[y]
    BY <1>1, <1>2, <1>8, <1>9, <1>17, <2>1
  <2>5. u[x] \in Nat /\ w[y] \in Nat
    BY <1>1, <1>2, <1>9, <2>1
  <2> DEFINE ux == u[x]
             wy == w[y]
             us == SumFunctionOnSet(u, S)
             ws == SumFunctionOnSet(w, C \ {y})
  <2>6. /\ ux \in Nat /\ wy \in Nat /\ us \in Nat /\ ws \in Nat /\ ux + 2 * Error < wy /\ us <= ws
        /\ Fused(flat, d) = ux + us /\ Fused(flat, c) = wy + ws
    BY <1>1, <1>2, <1>14, <1>15, <1>16, <2>2, <2>3, <2>4, <2>5
  <2> HIDE DEF ux, wy, us, ws
  <2> QED BY <1>7, <2>6 DEF flat
<1>18. CASE ~Votes(cs, policy, d, i0)
  <2>1. S = D
    BY <1>10, <1>18
  <2> DEFINE wy == w[y]
             us == SumFunctionOnSet(u, S)
             ws == SumFunctionOnSet(w, C \ {y})
  <2>2. /\ wy \in Nat /\ us \in Nat /\ ws \in Nat /\ wy > 2 * Error /\ us <= ws
        /\ Fused(flat, d) = us /\ Fused(flat, c) = wy + ws
    BY <1>1, <1>2, <1>9, <1>14, <1>15, <1>16, <2>1
  <2> HIDE DEF wy, us, ws
  <2> QED BY <1>7, <2>2 DEF flat
<1> QED BY <1>17, <1>18

\* So it comes first (merge_and_rank).
LEMMA AgreementFirst ==
  ASSUME NEW cs, Mergeable(cs), NEW policy \in Policies, NEW e \in Rounded, policy.fusion = "Rrf", NEW c, NEW d,
         Fused(Flat(cs, policy), d) + 2 * Error < Fused(Flat(cs, policy), c),
         NEW p \in DOMAIN Ranked(cs, policy, e), NEW q \in DOMAIN Ranked(cs, policy, e),
         Ranked(cs, policy, e)[p].hit.row.content = c, Ranked(cs, policy, e)[q].hit.row.content = d
  PROVE  p < q
<1> DEFINE s == Sorted(cs, policy, e)
           n == Cardinality(Scored(cs, policy, e))
           ranked == Ranked(cs, policy, e)
           score(x) == Fused(Flat(cs, policy), x) + e[x]
<1>1. \A r \in DOMAIN ranked :
        /\ r \in 1 .. n /\ ranked[r].hit.row.content \in Content
        /\ s[r].score = score(ranked[r].hit.row.content)
  <2> TAKE r \in DOMAIN ranked
  <2>1. r \in 1 .. n
    BY RankedFrom
  <2>2. PICK i \in DOMAIN cs : \E j \in 1 .. Count(cs, policy, i) :
          s[r] = Mark(cs, policy, e, i, j) /\ ranked[r] = [origin |-> cs[i].origin, hit |-> cs[i].hits[j]]
    BY RankedFrom
  <2>3. PICK j \in 1 .. Count(cs, policy, i) :
          s[r] = Mark(cs, policy, e, i, j) /\ ranked[r] = [origin |-> cs[i].origin, hit |-> cs[i].hits[j]]
    BY <2>2
  <2>4. s[r].score = Effective(Flat(cs, policy), Entry(cs, i, j), policy, e)
    BY <2>3, MarkIs
  <2>5. Entry(cs, i, j).hit = ranked[r].hit
    BY <2>3 DEF Entry
  <2>6. s[r].score = score(ranked[r].hit.row.content)
    BY <2>4, <2>5 DEF Effective
  <2>7. s[r].hit = ranked[r].hit /\ s[r].hit.row.content \in Content
    BY <2>3, MarkIs
  <2> QED BY <2>1, <2>6, <2>7
<1>2. p \in 1 .. n /\ q \in 1 .. n /\ s[p].score > s[q].score
  <2>1. c \in Content /\ d \in Content /\ s[p].score = score(c) /\ s[q].score = score(d)
    BY <1>1
  <2>2. e[c] \in -Error .. Error /\ e[d] \in -Error .. Error /\ Error \in Nat
    BY <2>1, FanOutConstants DEF Rounded
  <2>3. Fused(Flat(cs, policy), c) \in Nat /\ Fused(Flat(cs, policy), d) \in Nat
    BY FusedIs
  <2>4. score(d) < score(c)
    BY <2>2, <2>3
  <2> QED BY <1>1, <2>1, <2>4
<1>3. Earlier(s[p], s[q])
  BY <1>2 DEF Earlier
<1> QED BY <1>2, <1>3, SortedIs

-----------------------------------------------------------------------------
(* The order of the members. *)

\* Every answer in cs is one in ds, at the position To.
Among(cs, ds) == \A i \in DOMAIN cs : \E k \in DOMAIN ds : ds[k] = cs[i]
To(cs, ds, i) == CHOOSE k \in DOMAIN ds : ds[k] = cs[i]

\* What is said of an answer does not depend on its position (merge_and_rank).
LEMMA ToIs ==
  ASSUME NEW cs, Mergeable(cs), NEW ds, Mergeable(ds), Among(cs, ds), NEW policy, NEW i \in DOMAIN cs
  PROVE  LET k == To(cs, ds, i)
         IN  /\ k \in DOMAIN ds /\ ds[k] = cs[i]
             /\ Count(ds, policy, k) = Count(cs, policy, i)
             /\ \A c : Votes(ds, policy, c, k) <=> Votes(cs, policy, c, i)
             /\ \A c : BestAt(ds, policy, c, k) = BestAt(cs, policy, c, i)
             /\ \A j \in DOMAIN cs : To(cs, ds, j) = k => j = i
<1> DEFINE k == To(cs, ds, i)
<1>1. \A j \in DOMAIN cs : To(cs, ds, j) \in DOMAIN ds /\ ds[To(cs, ds, j)] = cs[j]
  <2> TAKE j \in DOMAIN cs
  <2>1. \E l \in DOMAIN ds : ds[l] = cs[j]
    BY DEF Among
  <2> QED BY <2>1 DEF To
<1>2. \A j \in DOMAIN cs : To(cs, ds, j) = k => j = i
  <2> TAKE j \in DOMAIN cs
  <2> HAVE To(cs, ds, j) = k
  <2>1. cs[j] = cs[i]
    BY <1>1
  <2> QED BY <2>1 DEF Mergeable
<1>3. k \in DOMAIN ds /\ ds[k] = cs[i]
  BY <1>1
<1> HIDE DEF k
<1>4. Count(ds, policy, k) = Count(cs, policy, i)
  BY <1>3 DEF Count
<1>5. \A c : Votes(ds, policy, c, k) <=> Votes(cs, policy, c, i)
  BY <1>3, <1>4 DEF Votes
<1>6. \A c : BestAt(ds, policy, c, k) = BestAt(cs, policy, c, i)
  BY <1>3, Zenon DEF BestAt
<1> QED BY <1>2, <1>3, <1>4, <1>5, <1>6 DEF k

\* More answers give no content less (Fused).
LEMMA FusedWithin ==
  ASSUME NEW cs, Mergeable(cs), NEW ds, Mergeable(ds), Among(cs, ds),
         NEW policy \in Policies, NEW c
  PROVE  Fused(Flat(cs, policy), c) <= Fused(Flat(ds, policy), c)
<1> DEFINE C == Best(Flat(cs, policy), c)
           D == Best(Flat(ds, policy), c)
           u == [f \in C |-> Reciprocal(f)]
           w == [f \in D |-> Reciprocal(f)]
           m == [f \in C |-> Entry(ds, To(cs, ds, f.child), BestAt(cs, policy, c, f.child))]
<1>1. /\ IsFiniteSet(C) /\ \A f \in C : u[f] = Reciprocal(f) /\ u[f] \in Nat
      /\ Fused(Flat(cs, policy), c) = SumFunctionOnSet(u, C)
  BY FusedIs
<1>2. /\ IsFiniteSet(D) /\ \A f \in D : w[f] = Reciprocal(f) /\ w[f] \in Nat
      /\ Fused(Flat(ds, policy), c) = SumFunctionOnSet(w, D)
  BY FusedIs
<1>3. \A f : f \in C <=> \E i \in DOMAIN cs : Votes(cs, policy, c, i) /\ f = Entry(cs, i, BestAt(cs, policy, c, i))
  BY BestHas
<1>4. \A f : f \in D <=> \E i \in DOMAIN ds : Votes(ds, policy, c, i) /\ f = Entry(ds, i, BestAt(ds, policy, c, i))
  BY BestHas
<1>5. \A f \in C : m[f] = Entry(ds, To(cs, ds, f.child), BestAt(cs, policy, c, f.child))
  OBVIOUS
<1>6. \A i, j : Entry(cs, i, j).child = i /\ Entry(ds, i, j).child = i
  BY DEF Entry
<1> HIDE DEF C, D, u, w, m
<1>7. ASSUME NEW f \in C
      PROVE  /\ f.child \in DOMAIN cs /\ f = Entry(cs, f.child, BestAt(cs, policy, c, f.child))
             /\ m[f] \in D /\ w[m[f]] = u[f]
  <2>1. PICK i \in DOMAIN cs : Votes(cs, policy, c, i) /\ f = Entry(cs, i, BestAt(cs, policy, c, i))
    BY <1>3
  <2>2. f.child = i
    BY <1>6, <2>1
  <2> DEFINE k == To(cs, ds, i)
             b == BestAt(cs, policy, c, i)
  <2>3. k \in DOMAIN ds /\ ds[k] = cs[i] /\ Votes(ds, policy, c, k) /\ BestAt(ds, policy, c, k) = b
    BY <2>1, ToIs
  <2>4. m[f] = Entry(ds, k, b)
    BY <1>5, <2>2
  <2> HIDE DEF k, b
  <2>5. m[f] \in D
    BY <1>4, <2>3, <2>4
  <2>6. Reciprocal(Entry(ds, k, b)) = Reciprocal(Entry(cs, i, b))
    BY <2>3 DEF Entry, Reciprocal
  <2> QED BY <1>1, <1>2, <2>1, <2>2, <2>4, <2>5, <2>6 DEF b
<1>8. \A f, g \in C : m[f] = m[g] => f = g
  <2> TAKE f, g \in C
  <2> HAVE m[f] = m[g]
  <2>1. To(cs, ds, f.child) = To(cs, ds, g.child)
    BY <1>5, <1>6
  <2>2. f.child = g.child
    BY <1>7, <2>1, ToIs
  <2> QED BY <1>7, <2>2
<1>9. Covers(m, u, C, w, D)
  <2>1. ASSUME NEW f \in C PROVE m[f] \in D /\ u[f] <= w[m[f]]
    BY <1>1, <1>7
  <2> QED BY <1>8, <2>1 DEF Covers
<1> QED BY <1>1, <1>2, <1>9, SumCompares

\* The same answers in another order are scored the same (merge_and_rank).
LEMMA SameScores ==
  ASSUME NEW cs, Mergeable(cs), NEW ds, Mergeable(ds), Among(cs, ds), Among(ds, cs),
         NEW policy \in Policies, NEW e \in Rounded, NEW i \in DOMAIN cs, NEW k \in DOMAIN ds, ds[k] = cs[i],
         NEW j \in 1 .. Count(cs, policy, i)
  PROVE  Mark(ds, policy, e, k, j).score = Mark(cs, policy, e, i, j).score
<1> DEFINE c == cs[i].hits[j].row.content
<1>1. Fused(Flat(cs, policy), c) = Fused(Flat(ds, policy), c)
  <2>1. Fused(Flat(cs, policy), c) <= Fused(Flat(ds, policy), c)
    BY FusedWithin
  <2>2. Fused(Flat(ds, policy), c) <= Fused(Flat(cs, policy), c)
    BY FusedWithin
  <2>3. Fused(Flat(cs, policy), c) \in Nat /\ Fused(Flat(ds, policy), c) \in Nat
    BY FusedIs
  <2> QED BY <2>1, <2>2, <2>3
<1>2. /\ Entry(cs, i, j).hit = cs[i].hits[j] /\ Entry(cs, i, j).weight = cs[i].weight
      /\ Entry(ds, k, j).hit = cs[i].hits[j] /\ Entry(ds, k, j).weight = cs[i].weight
  BY DEF Entry
<1>3. Effective(Flat(ds, policy), Entry(ds, k, j), policy, e)
        = Effective(Flat(cs, policy), Entry(cs, i, j), policy, e)
  BY <1>1, <1>2 DEF Effective
<1> QED BY <1>3 DEF Mark

\* They are compared the same: two hits of one memory of one member are one hit, so
\* the position of a member is never asked for (SortKey).
LEMMA SameOrder ==
  ASSUME NEW cs, Mergeable(cs), NEW ds, Mergeable(ds), Among(cs, ds), Among(ds, cs),
         NEW policy \in Policies, NEW e \in Rounded,
         NEW i1 \in DOMAIN cs, NEW k1 \in DOMAIN ds, ds[k1] = cs[i1], NEW j1 \in 1 .. Count(cs, policy, i1),
         NEW i2 \in DOMAIN cs, NEW k2 \in DOMAIN ds, ds[k2] = cs[i2], NEW j2 \in 1 .. Count(cs, policy, i2),
         Earlier(Mark(cs, policy, e, i1, j1), Mark(cs, policy, e, i2, j2))
  PROVE  Earlier(Mark(ds, policy, e, k1, j1), Mark(ds, policy, e, k2, j2))
<1> DEFINE f == Mark(cs, policy, e, i1, j1)
           g == Mark(cs, policy, e, i2, j2)
           x == Mark(ds, policy, e, k1, j1)
           y == Mark(ds, policy, e, k2, j2)
<1>1. /\ f.child = i1 /\ f.rank = j1 - 1 /\ f.origin = cs[i1].origin /\ f.hit = cs[i1].hits[j1]
      /\ g.child = i2 /\ g.rank = j2 - 1 /\ g.origin = cs[i2].origin /\ g.hit = cs[i2].hits[j2]
      /\ x.origin = f.origin /\ x.hit = f.hit /\ y.origin = g.origin /\ y.hit = g.hit
  BY DEF Mark
<1>2. x.score = f.score /\ y.score = g.score
  BY SameScores
<1>3. f.child \in Nat /\ f.rank \in Nat /\ g.child \in Nat /\ g.rank \in Nat
  BY MarkIs
<1>4. f.origin = g.origin /\ f.hit.key = g.hit.key => f.child = g.child /\ f.rank = g.rank
  <2> HAVE f.origin = g.origin /\ f.hit.key = g.hit.key
  <2>1. i1 = i2
    BY <1>1 DEF Mergeable
  <2>2. j1 \in DOMAIN cs[i1].hits /\ j2 \in DOMAIN cs[i2].hits
    BY AnswerIs
  <2>3. j1 = j2
    BY <1>1, <2>1, <2>2 DEF Mergeable
  <2> QED BY <1>1, <2>1, <2>3
<1>5. Earlier(f, g)
  OBVIOUS
<1> HIDE DEF f, g, x, y
<1>6. Earlier(x, y)
  BY <1>1, <1>2, <1>3, <1>4, <1>5 DEF Earlier
<1> QED BY <1>6 DEF x, y

\* So as many come before a hit in the one as in the other.
LEMMA PlaceWithin ==
  ASSUME NEW cs, Mergeable(cs), NEW ds, Mergeable(ds), Among(cs, ds), Among(ds, cs),
         NEW policy \in Policies, NEW e \in Rounded, NEW i \in DOMAIN cs, NEW k \in DOMAIN ds, ds[k] = cs[i],
         NEW j \in 1 .. Count(cs, policy, i)
  PROVE  Place(Scored(cs, policy, e), Order(Scored(cs, policy, e)), Mark(cs, policy, e, i, j))
           <= Place(Scored(ds, policy, e), Order(Scored(ds, policy, e)), Mark(ds, policy, e, k, j))
<1> DEFINE S == Scored(cs, policy, e)
           T == Scored(ds, policy, e)
           x == Mark(cs, policy, e, i, j)
           y == Mark(ds, policy, e, k, j)
           P == Before(S, Order(S), x)
           Q == Before(T, Order(T), y)
           m == [f \in P |-> Mark(ds, policy, e, To(cs, ds, f.child), f.rank + 1)]
<1>1. \A f : f \in S <=> \E a \in DOMAIN cs : \E b \in 1 .. Count(cs, policy, a) : f = Mark(cs, policy, e, a, b)
  BY ScoredHas
<1>2. /\ IsFiniteSet(T)
      /\ \A f : f \in T <=> \E a \in DOMAIN ds : \E b \in 1 .. Count(ds, policy, a) : f = Mark(ds, policy, e, a, b)
  BY ScoredHas
<1>3. Count(ds, policy, k) = Count(cs, policy, i)
  BY DEF Count
<1>4. x \in S /\ y \in T
  BY <1>1, <1>2, <1>3
<1>5. \A f \in S : <<f, x>> \in Order(S) <=> Earlier(f, x)
  BY <1>4, SortedIs
<1>6. \A f \in T : <<f, y>> \in Order(T) <=> Earlier(f, y)
  BY <1>4, SortedIs
<1>7. \A f : f \in P <=> f \in S /\ Earlier(f, x)
  BY <1>5 DEF Before
<1>8. \A f : f \in Q <=> f \in T /\ Earlier(f, y)
  BY <1>6 DEF Before
<1>9. \A f \in P : m[f] = Mark(ds, policy, e, To(cs, ds, f.child), f.rank + 1)
  OBVIOUS
<1>10. m = [f \in P |-> m[f]]
  OBVIOUS
<1> HIDE DEF S, T, P, Q, m
<1>11. ASSUME NEW f \in P
       PROVE  \E a \in DOMAIN cs : \E b \in 1 .. Count(cs, policy, a) :
                /\ f = Mark(cs, policy, e, a, b) /\ m[f] = Mark(ds, policy, e, To(cs, ds, a), b)
                /\ To(cs, ds, a) \in DOMAIN ds /\ ds[To(cs, ds, a)] = cs[a]
                /\ b \in 1 .. Count(ds, policy, To(cs, ds, a)) /\ b \in Nat
  <2>1. PICK a \in DOMAIN cs : \E b \in 1 .. Count(cs, policy, a) : f = Mark(cs, policy, e, a, b)
    BY <1>1, <1>7
  <2>2. PICK b \in 1 .. Count(cs, policy, a) : f = Mark(cs, policy, e, a, b)
    BY <2>1
  <2>3. f.child = a /\ f.rank = b - 1
    BY <2>2, MarkIs
  <2>4. b \in Nat /\ f.rank + 1 = b
    BY <2>3, AnswerIs
  <2>5. To(cs, ds, a) \in DOMAIN ds /\ ds[To(cs, ds, a)] = cs[a]
        /\ Count(ds, policy, To(cs, ds, a)) = Count(cs, policy, a)
    BY ToIs
  <2>6. m[f] = Mark(ds, policy, e, To(cs, ds, a), b)
    BY <1>9, <2>3, <2>4
  <2> QED BY <2>2, <2>4, <2>5, <2>6
<1>12. ASSUME NEW f \in P PROVE m[f] \in Q
  <2>1. PICK a \in DOMAIN cs : \E b \in 1 .. Count(cs, policy, a) :
          /\ f = Mark(cs, policy, e, a, b) /\ m[f] = Mark(ds, policy, e, To(cs, ds, a), b)
          /\ To(cs, ds, a) \in DOMAIN ds /\ ds[To(cs, ds, a)] = cs[a]
          /\ b \in 1 .. Count(ds, policy, To(cs, ds, a)) /\ b \in Nat
    BY <1>11
  <2>2. PICK b \in 1 .. Count(cs, policy, a) :
          /\ f = Mark(cs, policy, e, a, b) /\ m[f] = Mark(ds, policy, e, To(cs, ds, a), b)
          /\ b \in 1 .. Count(ds, policy, To(cs, ds, a)) /\ b \in Nat
    BY <2>1
  <2> DEFINE l == To(cs, ds, a)
  <2>3. l \in DOMAIN ds /\ ds[l] = cs[a]
    BY <2>1
  <2>4. m[f] = Mark(ds, policy, e, l, b) /\ b \in 1 .. Count(ds, policy, l)
    BY <2>2
  <2> HIDE DEF l
  <2>5. m[f] \in T
    BY <1>2, <2>3, <2>4
  <2>6. Earlier(Mark(cs, policy, e, a, b), x)
    BY <1>7, <2>2
  <2>7. Earlier(m[f], y)
    BY <2>2, <2>3, <2>4, <2>6, SameOrder
  <2> QED BY <1>8, <2>5, <2>7
<1>13. ASSUME NEW f \in P, NEW g \in P, m[f] = m[g] PROVE f = g
  <2>1. PICK a \in DOMAIN cs : \E b \in 1 .. Count(cs, policy, a) :
          /\ f = Mark(cs, policy, e, a, b) /\ m[f] = Mark(ds, policy, e, To(cs, ds, a), b) /\ b \in Nat
    BY <1>11
  <2>2. PICK b \in Nat : f = Mark(cs, policy, e, a, b) /\ m[f] = Mark(ds, policy, e, To(cs, ds, a), b)
    BY <2>1
  <2>3. PICK c \in DOMAIN cs : \E d \in 1 .. Count(cs, policy, c) :
          /\ g = Mark(cs, policy, e, c, d) /\ m[g] = Mark(ds, policy, e, To(cs, ds, c), d) /\ d \in Nat
    BY <1>11
  <2>4. PICK d \in Nat : g = Mark(cs, policy, e, c, d) /\ m[g] = Mark(ds, policy, e, To(cs, ds, c), d)
    BY <2>3
  <2>5. To(cs, ds, a) = To(cs, ds, c) /\ b - 1 = d - 1
    BY <1>13, <2>2, <2>4 DEF Mark
  <2>6. a = c
    BY <2>5, ToIs
  <2>7. b = d
    BY <2>5
  <2> QED BY <2>2, <2>4, <2>6, <2>7
<1>14. IsFiniteSet(Q)
  <2>1. Q \subseteq T BY <1>8
  <2> QED BY <1>2, <2>1, FS_Subset
<1>15. m \in Injection(P, Q)
  BY <1>10, <1>12, <1>13 DEF Injection, IsInjective
<1>16. Cardinality(P) <= Cardinality(Q)
  BY <1>14, <1>15, FS_Injection
<1> QED BY <1>16 DEF P, Q, S, T, Place

\* There are no more to rank.
LEMMA ScoredWithin ==
  ASSUME NEW cs, Mergeable(cs), NEW ds, Mergeable(ds), Among(cs, ds), NEW policy \in Policies, NEW e \in Rounded
  PROVE  Cardinality(Scored(cs, policy, e)) <= Cardinality(Scored(ds, policy, e))
<1> DEFINE S == Scored(cs, policy, e)
           T == Scored(ds, policy, e)
           m == [f \in S |-> Mark(ds, policy, e, To(cs, ds, f.child), f.rank + 1)]
<1>1. \A f : f \in S <=> \E a \in DOMAIN cs : \E b \in 1 .. Count(cs, policy, a) : f = Mark(cs, policy, e, a, b)
  BY ScoredHas
<1>2. /\ IsFiniteSet(T)
      /\ \A f : f \in T <=> \E a \in DOMAIN ds : \E b \in 1 .. Count(ds, policy, a) : f = Mark(ds, policy, e, a, b)
  BY ScoredHas
<1>3. \A f \in S : m[f] = Mark(ds, policy, e, To(cs, ds, f.child), f.rank + 1)
  OBVIOUS
<1>4. m = [f \in S |-> m[f]]
  OBVIOUS
<1> HIDE DEF S, T, m
<1>5. ASSUME NEW f \in S
      PROVE  \E a \in DOMAIN cs : \E b \in Nat :
               f = Mark(cs, policy, e, a, b) /\ m[f] = Mark(ds, policy, e, To(cs, ds, a), b) /\ m[f] \in T
  <2>1. PICK a \in DOMAIN cs : \E b \in 1 .. Count(cs, policy, a) : f = Mark(cs, policy, e, a, b)
    BY <1>1
  <2>2. PICK b \in 1 .. Count(cs, policy, a) : f = Mark(cs, policy, e, a, b)
    BY <2>1
  <2>3. f.child = a /\ f.rank = b - 1
    BY <2>2, MarkIs
  <2>4. b \in Nat /\ f.rank + 1 = b
    BY <2>3, AnswerIs
  <2>5. To(cs, ds, a) \in DOMAIN ds /\ Count(ds, policy, To(cs, ds, a)) = Count(cs, policy, a)
    BY ToIs
  <2>6. m[f] = Mark(ds, policy, e, To(cs, ds, a), b)
    BY <1>3, <2>3, <2>4
  <2>7. m[f] \in T
    BY <1>2, <2>5, <2>6
  <2> QED BY <2>2, <2>4, <2>6, <2>7
<1>6. ASSUME NEW f \in S, NEW g \in S, m[f] = m[g] PROVE f = g
  <2>1. PICK a \in DOMAIN cs : \E b \in Nat :
          f = Mark(cs, policy, e, a, b) /\ m[f] = Mark(ds, policy, e, To(cs, ds, a), b)
    BY <1>5
  <2>2. PICK b \in Nat : f = Mark(cs, policy, e, a, b) /\ m[f] = Mark(ds, policy, e, To(cs, ds, a), b)
    BY <2>1
  <2>3. PICK c \in DOMAIN cs : \E d \in Nat :
          g = Mark(cs, policy, e, c, d) /\ m[g] = Mark(ds, policy, e, To(cs, ds, c), d)
    BY <1>5
  <2>4. PICK d \in Nat : g = Mark(cs, policy, e, c, d) /\ m[g] = Mark(ds, policy, e, To(cs, ds, c), d)
    BY <2>3
  <2>5. To(cs, ds, a) = To(cs, ds, c) /\ b - 1 = d - 1
    BY <1>6, <2>2, <2>4 DEF Mark
  <2>6. a = c
    BY <2>5, ToIs
  <2>7. b = d
    BY <2>5
  <2> QED BY <2>2, <2>4, <2>6, <2>7
<1>7. m \in Injection(S, T)
  BY <1>4, <1>5, <1>6 DEF Injection, IsInjective
<1> QED BY <1>2, <1>7, FS_Injection DEF S, T

\* The ranking is decided by which answers there are and by what each content's sum
\* was rounded to: members and hits have no other order, however many there are
\* (merge_and_rank: ties end with the content, the brain and the memory).
THEOREM AnyOrder ==
  ASSUME NEW cs, Mergeable(cs), NEW ds, Mergeable(ds), Among(cs, ds), Among(ds, cs),
         NEW policy \in Policies, NEW e \in Rounded
  PROVE  Ranked(ds, policy, e) = Ranked(cs, policy, e)
<1> DEFINE S == Scored(cs, policy, e)
           T == Scored(ds, policy, e)
           s == Sorted(cs, policy, e)
           t == Sorted(ds, policy, e)
           n == Cardinality(S)
           place(x) == Place(S, Order(S), x)
           spot(x) == Place(T, Order(T), x)
           rs == Ranked(cs, policy, e)
           rt == Ranked(ds, policy, e)
<1>1. Cardinality(T) = n
  <2>1. Cardinality(T) <= n /\ n <= Cardinality(T)
    BY ScoredWithin
  <2>2. Cardinality(T) \in Nat /\ n \in Nat
    BY SortedIs
  <2> QED BY <2>1, <2>2
<1>2. /\ n \in Nat /\ s \in [1 .. n -> S]
      /\ \A p \in 1 .. n : place(s[p]) = p - 1
      /\ rs = [p \in 1 .. n |-> [origin |-> s[p].origin, hit |-> s[p].hit]]
  BY SortedIs
<1>3. /\ \A x \in T : spot(x) + 1 \in 1 .. n /\ t[spot(x) + 1] = x
      /\ rt = [p \in 1 .. n |-> [origin |-> t[p].origin, hit |-> t[p].hit]]
  BY <1>1, SortedIs
<1>4. \A x \in S : \E i \in DOMAIN cs : \E j \in 1 .. Count(cs, policy, i) : x = Mark(cs, policy, e, i, j)
  BY ScoredHas
<1>5. \A k \in DOMAIN ds : \A j \in 1 .. Count(ds, policy, k) : Mark(ds, policy, e, k, j) \in T
  BY ScoredHas
<1>6. \A x \in S : place(x) \in Nat
  <2> TAKE x \in S
  <2>1. place(x) + 1 \in 1 .. n BY SortedIs
  <2>2. IsFiniteSet(Before(S, Order(S), x))
    <3>1. Before(S, Order(S), x) \subseteq S BY DEF Before
    <3>2. IsFiniteSet(S) BY ScoredHas
    <3> HIDE DEF S
    <3> QED BY <3>1, <3>2, FS_Subset
  <2> QED BY <2>2, FS_CardinalityType DEF Place
<1>7. ASSUME NEW p \in 1 .. n PROVE rs[p] = rt[p]
  <2>1. s[p] \in S
    BY <1>2
  <2>2. PICK i \in DOMAIN cs : \E j \in 1 .. Count(cs, policy, i) : s[p] = Mark(cs, policy, e, i, j)
    BY <1>4, <2>1
  <2>3. PICK j \in 1 .. Count(cs, policy, i) : s[p] = Mark(cs, policy, e, i, j)
    BY <2>2
  <2>4. PICK k \in DOMAIN ds : ds[k] = cs[i]
    BY DEF Among
  <2>5. j \in 1 .. Count(ds, policy, k)
    BY <2>4 DEF Count
  <2> DEFINE y == Mark(ds, policy, e, k, j)
  <2>6. y \in T
    BY <1>5, <2>5
  <2>7. place(s[p]) <= spot(y) /\ spot(y) <= place(s[p])
    <3>1. place(Mark(cs, policy, e, i, j)) <= spot(Mark(ds, policy, e, k, j))
      BY <2>4, PlaceWithin
    <3>2. spot(Mark(ds, policy, e, k, j)) <= place(Mark(cs, policy, e, i, j))
      BY <2>4, <2>5, PlaceWithin
    <3> QED BY <2>3, <3>1, <3>2
  <2>8. y.origin = s[p].origin /\ y.hit = s[p].hit
    BY <2>3, <2>4 DEF Mark
  <2> HIDE DEF S, T, s, t, place, spot, rs, rt, y, n
  <2>9. spot(y) + 1 \in 1 .. n /\ t[spot(y) + 1] = y /\ place(s[p]) = p - 1 /\ n \in Nat
    BY <1>2, <1>3, <2>6
  <2>10. spot(y) + 1 = p
    <3> DEFINE a == spot(y)
               b == place(s[p])
    <3>1. a <= b /\ b <= a /\ b = p - 1 /\ b \in Nat /\ a + 1 \in 1 .. n
      BY <1>6, <2>1, <2>7, <2>9
    <3>2. a \in Int
      <4>1. IsFiniteSet(Before(T, Order(T), y))
        <5>1. Before(T, Order(T), y) \subseteq T BY DEF Before
        <5>2. IsFiniteSet(T) BY ScoredHas DEF T
        <5> QED BY <5>1, <5>2, FS_Subset
      <4> QED BY <4>1, FS_CardinalityType DEF Place, spot
    <3> HIDE DEF a, b
    <3>3. a + 1 = p BY <2>9, <3>1, <3>2
    <3> QED BY <3>3 DEF a
  <2>11. t[p] = y
    BY <2>9, <2>10
  <2> QED BY <1>2, <1>3, <2>8, <2>11
<1> HIDE DEF S, T, s, t, place, spot, rs, rt, n
<1>8. DOMAIN rs = 1 .. n /\ DOMAIN rt = 1 .. n /\ rs = [p \in DOMAIN rs |-> rs[p]] /\ rt = [p \in DOMAIN rt |-> rt[p]]
  BY <1>2, <1>3
<1>9. rs = rt
  BY <1>7, <1>8
<1> QED BY <1>9 DEF rs, rt

\* In particular they may be reversed (ChildOrderIsIrrelevant).
LEMMA ReverseIs ==
  ASSUME NEW cs, Mergeable(cs)
  PROVE  Mergeable(Reverse(cs)) /\ Among(cs, Reverse(cs)) /\ Among(Reverse(cs), cs)
<1> DEFINE n == Len(cs)
           rs == Reverse(cs)
<1>1. cs \in Seq(Answered) /\ n \in Nat /\ DOMAIN cs = 1 .. n
  BY DEF Mergeable
<1>2. rs = [i \in 1 .. n |-> cs[(n - i) + 1]]
  BY DEF Reverse
<1>3. \A i \in 1 .. n : (n - i) + 1 \in 1 .. n
  BY <1>1
<1>4. \A i \in 1 .. n : cs[i] \in Answered
  BY <1>1
<1> HIDE DEF n, rs
<1>5. rs \in Seq(Answered) /\ Len(rs) = n /\ DOMAIN rs = 1 .. n
  BY <1>1, <1>2, <1>3, <1>4
<1>6. \A i \in 1 .. n : rs[i] = cs[(n - i) + 1]
  BY <1>2
<1>7. \A i, j \in 1 .. n : rs[i].origin = rs[j].origin => i = j
  <2> TAKE i, j \in 1 .. n
  <2> HAVE rs[i].origin = rs[j].origin
  <2>1. (n - i) + 1 = (n - j) + 1
    BY <1>1, <1>3, <1>6 DEF Mergeable
  <2> QED BY <1>1, <2>1
<1>8. Mergeable(rs)
  BY <1>1, <1>3, <1>5, <1>6, <1>7 DEF Mergeable
<1>9. Among(rs, cs)
  BY <1>1, <1>3, <1>5, <1>6 DEF Among
<1>10. Among(cs, rs)
  <2>1. ASSUME NEW i \in 1 .. n PROVE rs[(n - i) + 1] = cs[i]
    <3>1. (n - ((n - i) + 1)) + 1 = i
      BY <1>1
    <3> QED BY <1>3, <1>6, <3>1
  <2> QED BY <1>1, <1>3, <1>5, <2>1 DEF Among
<1> QED BY <1>8, <1>9, <1>10 DEF rs

-----------------------------------------------------------------------------
(* The inductive invariant. *)

\* A hit says what a granted brain signed, if the policy asks for that.
Covered(b, h, certs) == Attestation(b, h.key, h.row) \in certs \/ LegacyAttestation(b, h.row) \in certs
Vouched(h, policy, certs) == policy.signed => \E b \in policy.grants : Covered(b, h, certs)
\* What the members have answered may be shown.
Fit(cs, context, policy, certs) ==
  /\ Mergeable(cs)
  /\ \A i \in DOMAIN cs : \A j \in DOMAIN cs[i].hits :
       cs[i].hits[j].row.vis >= context /\ Vouched(cs[i].hits[j], policy, certs)
\* A member has answered or failed, and once.
Once(cs, failed) ==
  /\ \A i, j \in DOMAIN failed : failed[i] = failed[j] => i = j
  /\ \A i \in DOMAIN cs : \A j \in DOMAIN failed : cs[i].origin # failed[j]
Call == [pc : {"asking"}, context : Clearance, policy : Policies, next : Nat,
         contributions : Seq(Answered), failed : Seq(Brain), unverified : Int]

Table == [Brain -> [Key -> Row \union {NoRow}]]
Handle == [brain : Brain, weight : Weights]
\* Each signature on a row was made, by a brain that had read what it covers.
MembersOK ==
  /\ rows \in Table /\ signing \in [Brain -> SUBSET Signature]
  /\ signed \subseteq Signature \union LegacySignature
  /\ changes \in 0 .. MaxChanges
  /\ \A b \in Brain, k \in Key : rows[b][k].sig # NoSignature => rows[b][k].sig \in signed
\* Each member has one handle, and its directory is recorded.
ChildrenOK ==
  /\ children \in Seq(Handle)
  /\ \A i, j \in DOMAIN children : children[i].brain = children[j].brain => i = j
  /\ registry = {children[i].brain : i \in DOMAIN children}
\* Only members before the next one have answered or failed.
CallOK ==
  call # NoCall =>
    /\ call \in Call /\ call.next \in 1 .. Len(children) + 1
    /\ Fit(call.contributions, call.context, call.policy, signed)
    /\ Once(call.contributions, call.failed)
    /\ \A i \in DOMAIN call.contributions : \E m \in 1 .. call.next - 1 :
         call.contributions[i].origin = children[m].brain
    /\ \A i \in DOMAIN call.failed : \E m \in 1 .. call.next - 1 : call.failed[i] = children[m].brain
ResultOK ==
  result # NoResult =>
    /\ result.policy \in Policies
    /\ Fit(result.contributions, result.context, result.policy, signed)
    /\ Once(result.contributions, result.failed)
    /\ \E e \in Roundings(Flat(result.contributions, result.policy)) :
         result.ranked = Ranked(result.contributions, result.policy, e)
    /\ result.per_brain = [i \in DOMAIN result.contributions |->
         [brain |-> result.contributions[i].origin,
          count |-> Count(result.contributions, result.policy, i)]]
IInv == MembersOK /\ ChildrenOK /\ CallOK /\ ResultOK

\* What a row may be, and that there is no signature that is not one.
LEMMA RowIs ==
  /\ NoSignature \notin Signature \union LegacySignature
  /\ NoRow \notin Row /\ NoRow.sig = NoSignature
  /\ \A r \in Row : /\ r.content \in Content /\ r.vis \in Clearance
                   /\ r.sig \in Signature \union LegacySignature \union {NoSignature}
<1>1. Brain \subseteq Nat /\ Content \subseteq Nat
  BY FanOutConstants
<1>2. \A s \in Signature \union LegacySignature : s.by \in Nat
  BY <1>1 DEF Signature, LegacySignature
<1>3. NoSignature.by \notin Nat
  BY DEF NoSignature, NoBrain
<1>4. \A r \in Row : r.content \in Nat
  BY <1>1 DEF Row
<1>5. NoRow.content \notin Nat
  BY DEF NoRow
<1>6. NoRow.sig = NoSignature
  BY DEF NoRow
<1>7. \A r \in Row : /\ r.content \in Content /\ r.vis \in Clearance
                    /\ r.sig \in Signature \union LegacySignature \union {NoSignature}
  BY DEF Row
<1> QED BY <1>2, <1>3, <1>4, <1>5, <1>6, <1>7

\* What is held is a row.
LEMMA HeldIs ==
  ASSUME MembersOK, NEW b \in Brain, NEW k \in Held(b)
  PROVE  k \in Key /\ rows[b][k] \in Row
BY DEF Held, MembersOK, Table

\* A change of one row keeps what is known of the members if the row's signature, if
\* it has one, was made (the writes of the members).
LEMMA RowChanges ==
  ASSUME MembersOK, NEW b \in Brain, NEW k \in Key, NEW r \in Row \union {NoRow},
         SetRow(b, k, r), signed \subseteq signed',
         r.sig # NoSignature => r.sig \in signed'
  PROVE  /\ rows' \in Table
         /\ \A d \in Brain, x \in Key : rows'[d][x].sig # NoSignature => rows'[d][x].sig \in signed'
<1>1. rows \in Table /\ rows' = [rows EXCEPT ![b][k] = r]
  BY DEF MembersOK, SetRow
<1>2. rows' \in Table
  BY <1>1 DEF Table
<1>3. \A d \in Brain, x \in Key : rows'[d][x] = r \/ rows'[d][x] = rows[d][x]
  BY <1>1 DEF Table
<1>4. \A d \in Brain, x \in Key : rows'[d][x].sig # NoSignature => rows'[d][x].sig \in signed'
  <2> TAKE d \in Brain, x \in Key
  <2> HAVE rows'[d][x].sig # NoSignature
  <2>1. CASE rows'[d][x] = r BY <2>1
  <2>2. CASE rows'[d][x] = rows[d][x] BY <2>2 DEF MembersOK
  <2> QED BY <1>3, <2>1, <2>2
<1> QED BY <1>2, <1>4

\* Each step of a member keeps what is known of the members, and no signature is
\* unmade (MemberStep).
LEMMA MembersKeep ==
  ASSUME MembersOK, MemberStep
  PROVE  MembersOK' /\ signed \subseteq signed'
<1>1. /\ rows \in Table /\ signing \in [Brain -> SUBSET Signature]
      /\ signed \subseteq Signature \union LegacySignature
      /\ changes \in 0 .. MaxChanges /\ MaxChanges \in Nat
      /\ Writes \subseteq Brain \X Key \X Content \X Clearance
  BY FanOutConstants DEF MembersOK
<1>2. Counted => changes' \in 0 .. MaxChanges
  BY <1>1 DEF Counted
<1>3. \A b \in Brain, k \in Key, r \in Row : Attestation(b, k, r) \in Signature
  BY RowIs DEF Attestation, Signature
<1>4. \A b \in Brain, T \in SUBSET Signature :
        [signing EXCEPT ![b] = T] \in [Brain -> SUBSET Signature]
  BY <1>1
<1>5. ASSUME NEW w \in Writes, Remember(w[1], w[2], w[3], w[4]) PROVE MembersOK' /\ signed \subseteq signed'
  <2> DEFINE b == w[1]
             k == w[2]
             c == w[3]
             v == w[4]
             old == rows[b][k]
             r == IF k \in Held(b) THEN [old EXCEPT !.content = c]
                  ELSE [content |-> c, vis |-> v, author |-> NoBrain, sig |-> NoSignature]
  <2>1. b \in Brain /\ k \in Key /\ c \in Content /\ v \in Clearance
    BY <1>1
  <2>2. /\ Counted /\ SetRow(b, k, r) /\ signed' = signed
        /\ signing' = [signing EXCEPT ![b] = @ \union {Attestation(b, k, r)}]
    BY <1>5 DEF Remember
  <2> HIDE DEF b, k, c, v
  <2>3. r \in Row /\ (r.sig # NoSignature => r.sig \in signed)
    <3>1. CASE k \in Held(b)
      <4>1. old \in Row BY <2>1, <3>1, HeldIs
      <4>2. old.sig # NoSignature => old.sig \in signed BY <2>1 DEF MembersOK
      <4>3. r = [old EXCEPT !.content = c] BY <3>1
      <4> HIDE DEF old, r
      <4>4. r \in Row /\ r.sig = old.sig BY <2>1, <4>1, <4>3 DEF Row
      <4> QED BY <4>2, <4>4
    <3>2. CASE k \notin Held(b)
      <4>1. r = [content |-> c, vis |-> v, author |-> NoBrain, sig |-> NoSignature] BY <3>2
      <4> HIDE DEF r
      <4> QED BY <2>1, <4>1 DEF Row
    <3> QED BY <3>1, <3>2
  <2> HIDE DEF r
  <2>4. rows' \in Table
        /\ \A d \in Brain, x \in Key : rows'[d][x].sig # NoSignature => rows'[d][x].sig \in signed'
    BY <1>1, <2>1, <2>2, <2>3, RowChanges
  <2>5. signing' \in [Brain -> SUBSET Signature]
    <3>1. signing[b] \union {Attestation(b, k, r)} \in SUBSET Signature
      BY <1>1, <1>3, <2>1, <2>3
    <3> QED BY <1>4, <2>1, <2>2, <3>1
  <2> QED BY <1>1, <1>2, <2>2, <2>4, <2>5 DEF MembersOK
<1>6. ASSUME NEW b \in Brain, NEW k \in Key, NEW x \in Key, NEW from \in Brain, Import(b, k, from, x)
      PROVE  MembersOK' /\ signed \subseteq signed'
  <2> DEFINE old == rows[from][x]
             r == [old EXCEPT !.sig = NoSignature]
  <2>1. Counted /\ x \in Held(from) /\ SetRow(b, k, r) /\ UNCHANGED <<signing, signed>>
    BY <1>6 DEF Import
  <2>2. old \in Row
    BY <2>1, HeldIs
  <2> HIDE DEF old
  <2>3. r \in Row /\ r.sig = NoSignature
    BY <2>2 DEF Row
  <2> HIDE DEF r
  <2>4. rows' \in Table
        /\ \A d \in Brain, y \in Key : rows'[d][y].sig # NoSignature => rows'[d][y].sig \in signed'
    BY <1>1, <2>1, <2>3, RowChanges
  <2> QED BY <1>1, <1>2, <2>1, <2>4 DEF MembersOK
<1>7. ASSUME NEW b \in Brain, NEW k \in Key, Repair(b, k) PROVE MembersOK' /\ signed \subseteq signed'
  <2>1. /\ Counted /\ k \in Held(b) /\ UNCHANGED <<rows, signed>>
        /\ signing' = [signing EXCEPT ![b] = @ \union {Attestation(b, k, rows[b][k])}]
    BY <1>7 DEF Repair
  <2>2. rows[b][k] \in Row
    BY <2>1, HeldIs
  <2>3. signing' \in [Brain -> SUBSET Signature]
    <3>1. signing[b] \union {Attestation(b, k, rows[b][k])} \in SUBSET Signature
      BY <1>1, <1>3, <2>2
    <3> QED BY <1>4, <2>1, <3>1
  <2> QED BY <1>1, <1>2, <2>1, <2>3 DEF MembersOK
<1>8. ASSUME NEW b \in Brain, NEW k \in Key, Forget(b, k) PROVE MembersOK' /\ signed \subseteq signed'
  <2>1. Counted /\ SetRow(b, k, NoRow) /\ UNCHANGED <<signing, signed>>
    BY <1>8 DEF Forget
  <2>2. rows' \in Table
        /\ \A d \in Brain, y \in Key : rows'[d][y].sig # NoSignature => rows'[d][y].sig \in signed'
    BY <1>1, <2>1, RowIs, RowChanges
  <2> QED BY <1>1, <1>2, <2>1, <2>2 DEF MembersOK
<1>9. ASSUME NEW b \in Brain, NEW s \in signing[b], set_signature(b, s)
      PROVE  MembersOK' /\ signed \subseteq signed'
  <2> DEFINE old == rows[b][s.key]
             r == [old EXCEPT !.author = b, !.sig = s]
  <2>1. /\ signing' = [signing EXCEPT ![b] = @ \ {s}] /\ signed' = signed \union {s} /\ changes' = changes
        /\ IF s.key \in Held(b) THEN SetRow(b, s.key, r) ELSE rows' = rows
    BY <1>9 DEF set_signature
  <2>2. s \in Signature /\ signed' \subseteq Signature \union LegacySignature /\ signed \subseteq signed'
    BY <1>1, <2>1
  <2>3. signing' \in [Brain -> SUBSET Signature]
    <3>1. signing[b] \ {s} \in SUBSET Signature
      BY <1>1
    <3> QED BY <1>4, <2>1, <3>1
  <2>4. CASE s.key \in Held(b)
    <3>1. old \in Row /\ s.key \in Key
      BY <2>4, HeldIs
    <3> HIDE DEF old
    <3>2. r \in Row /\ r.sig = s
      BY <2>2, <3>1 DEF Row
    <3>3. SetRow(b, s.key, r)
      BY <2>1, <2>4
    <3> HIDE DEF r
    <3>4. rows' \in Table
          /\ \A d \in Brain, y \in Key : rows'[d][y].sig # NoSignature => rows'[d][y].sig \in signed'
      BY <2>1, <2>2, <3>1, <3>2, <3>3, RowChanges
    <3> QED BY <1>1, <2>1, <2>2, <2>3, <3>4 DEF MembersOK
  <2>5. CASE s.key \notin Held(b)
    <3>1. rows' = rows BY <2>1, <2>5
    <3> QED BY <1>1, <2>1, <2>2, <2>3, <3>1 DEF MembersOK
  <2> QED BY <2>4, <2>5
<1>10. ASSUME NEW b \in Brain, Crash(b) PROVE MembersOK' /\ signed \subseteq signed'
  <2>1. signing' = [signing EXCEPT ![b] = {}] /\ UNCHANGED <<rows, signed, changes>>
    BY <1>10 DEF Crash
  <2>2. signing' \in [Brain -> SUBSET Signature]
    BY <1>4, <2>1
  <2> QED BY <1>1, <2>1, <2>2 DEF MembersOK
<1> QED BY <1>5, <1>6, <1>7, <1>8, <1>9, <1>10 DEF MemberStep

\* A member's answer, after what the caller may not see and what is not verified has
\* been left out, has each memory once and only what may be shown (Answer).
LEMMA AnswerFits ==
  ASSUME MembersOK, call \in Call, NEW b \in Brain, NEW hits \in recall_cascade_scoped(b)
  PROVE  LET visible == Selected(hits, {i \in DOMAIN hits : Admits(hits[i].row.vis)})
             kept == Selected(visible, {i \in DOMAIN visible : Authentic(visible[i])})
         IN  /\ Len(visible) - Len(kept) \in Int
             /\ kept \in Seq(Hit) /\ Len(kept) <= Limit
             /\ \A j, k \in DOMAIN kept : kept[j].key = kept[k].key => j = k
             /\ \A j \in DOMAIN kept :
                  kept[j].row.vis >= call.context /\ Vouched(kept[j], call.policy, signed)
<1> DEFINE H == {[key |-> k, row |-> rows[b][k]] : k \in Admissible(b)}
           seen == {i \in DOMAIN hits : Admits(hits[i].row.vis)}
           visible == Selected(hits, seen)
           passed == {i \in DOMAIN visible : Authentic(visible[i])}
           kept == Selected(visible, passed)
<1>1. hits \in BoundedSeq(H, Limit) /\ \A i, j \in DOMAIN hits : hits[i] = hits[j] => i = j
  BY DEF recall_cascade_scoped
<1>2. \A h \in H : /\ h \in Hit /\ h.key \in Key /\ h.row = rows[b][h.key] /\ h.row \in Row
                   /\ h.row.vis >= call.context
  <2> TAKE h \in H
  <2>1. PICK k \in Admissible(b) : h = [key |-> k, row |-> rows[b][k]]
    OBVIOUS
  <2>2. k \in Held(b) /\ rows[b][k].vis >= call.context
    BY DEF Admissible, Admits
  <2>3. k \in Key /\ rows[b][k] \in Row
    BY <2>2, HeldIs
  <2> QED BY <2>1, <2>2, <2>3 DEF Hit
<1>3. hits \in Seq(H) /\ Len(hits) <= Limit /\ Len(hits) \in Nat
  <2>1. Limit \in Nat BY FanOutConstants
  <2>2. PICK m \in 0 .. Limit : hits \in [1 .. m -> H]
    BY <1>1 DEF BoundedSeq, SeqOf
  <2> HIDE DEF H
  <2>3. m \in Nat /\ m <= Limit BY <2>1
  <2>4. hits \in Seq(H) /\ Len(hits) = m BY <2>2, <2>3
  <2> QED BY <2>3, <2>4
<1> HIDE DEF H
<1>4. seen \subseteq DOMAIN hits /\ passed \subseteq DOMAIN visible
  OBVIOUS
<1>5. \A j \in passed : Authentic(visible[j])
  OBVIOUS
<1> HIDE DEF seen, passed
<1>6. /\ visible \in Seq(H) /\ Len(visible) <= Len(hits)
      /\ \E from \in [DOMAIN visible -> seen] :
           /\ \A j \in DOMAIN visible : visible[j] = hits[from[j]]
           /\ \A j, k \in DOMAIN visible : from[j] = from[k] => j = k
  BY <1>3, <1>4, SelectedIs
<1> HIDE DEF visible
<1>7. PICK g \in [DOMAIN visible -> seen] :
        /\ \A j \in DOMAIN visible : visible[j] = hits[g[j]]
        /\ \A j, k \in DOMAIN visible : g[j] = g[k] => j = k
  BY <1>6
<1>8. /\ kept \in Seq(H) /\ Len(kept) <= Len(visible)
      /\ \E from \in [DOMAIN kept -> passed] :
           /\ \A j \in DOMAIN kept : kept[j] = visible[from[j]]
           /\ \A j, k \in DOMAIN kept : from[j] = from[k] => j = k
  BY <1>4, <1>6, SelectedIs
<1> HIDE DEF kept
<1>9. PICK f \in [DOMAIN kept -> passed] :
        /\ \A j \in DOMAIN kept : kept[j] = visible[f[j]]
        /\ \A j, k \in DOMAIN kept : f[j] = f[k] => j = k
  BY <1>8
<1>10. Len(visible) \in Nat /\ Len(kept) \in Nat
  BY <1>6, <1>8
<1>11. H \subseteq Hit
  BY <1>2
<1>12. kept \in Seq(Hit)
  <2>1. \A j \in 1 .. Len(kept) : kept[j] \in Hit BY <1>8, <1>11
  <2>2. kept = [j \in 1 .. Len(kept) |-> kept[j]] BY <1>8
  <2> QED BY <1>10, <2>1, <2>2
<1>13. \A j \in DOMAIN kept : kept[j] \in H
  BY <1>8
<1>14. \A j, k \in DOMAIN kept : kept[j].key = kept[k].key => j = k
  <2> TAKE j, k \in DOMAIN kept
  <2> HAVE kept[j].key = kept[k].key
  <2>1. kept[j] = kept[k]
    <3>1. \A h \in H : h = [key |-> h.key, row |-> rows[b][h.key]]
      BY DEF H
    <3> QED BY <1>13, <3>1
  <2>2. f[j] \in DOMAIN visible /\ f[k] \in DOMAIN visible
    BY <1>4, <1>9
  <2>3. g[f[j]] \in DOMAIN hits /\ g[f[k]] \in DOMAIN hits /\ hits[g[f[j]]] = hits[g[f[k]]]
    BY <1>4, <1>7, <1>9, <2>1, <2>2
  <2>4. g[f[j]] = g[f[k]]
    BY <1>1, <2>3
  <2>5. f[j] = f[k]
    BY <1>7, <2>2, <2>4
  <2> QED BY <1>9, <2>5
<1>15. ASSUME NEW j \in DOMAIN kept
       PROVE  kept[j].row.vis >= call.context /\ Vouched(kept[j], call.policy, signed)
  <2> DEFINE h == kept[j]
  <2>1. h \in H
    BY <1>13
  <2>2. Authentic(h)
    BY <1>5, <1>9
  <2> HIDE DEF h
  <2>3. ASSUME call.policy.signed PROVE \E a \in call.policy.grants : Covered(a, h, signed)
    <3>1. h.row.author \in call.policy.grants /\ verify_hit(h)
      BY <2>2, <2>3 DEF Authentic
    <3>2. /\ h.row.sig # NoSignature
          /\ \/ h.row.sig = Attestation(h.row.author, h.key, h.row)
             \/ h.row.sig = LegacyAttestation(h.row.author, h.row)
      BY <3>1 DEF verify_hit, verify_memory_signature
    <3>3. h.row.sig \in signed
      BY <1>2, <2>1, <3>2 DEF MembersOK
    <3>4. Covered(h.row.author, h, signed)
      BY <3>2, <3>3 DEF Covered
    <3> QED BY <3>1, <3>4
  <2>4. Vouched(h, call.policy, signed)
    BY <2>3 DEF Vouched
  <2> QED BY <1>2, <2>1, <2>4 DEF h
<1>16. Len(kept) <= Limit
  <2>1. Limit \in Nat BY FanOutConstants
  <2> QED BY <1>3, <1>6, <1>8, <1>10, <2>1
<1>17. Len(visible) - Len(kept) \in Int
  BY <1>10
<1> QED BY <1>12, <1>14, <1>15, <1>16, <1>17 DEF kept, passed, visible, seen

\* More signatures take nothing back.
LEMMA FitGrows ==
  ASSUME NEW cs, NEW context, NEW policy, NEW A, NEW B, A \subseteq B, Fit(cs, context, policy, A)
  PROVE  Fit(cs, context, policy, B)
BY DEF Fit, Vouched, Covered

\* Answers stay fit when a member that has not answered adds its own.
LEMMA FitAppends ==
  ASSUME NEW cs, NEW context, NEW policy, NEW certs, Fit(cs, context, policy, certs),
         NEW a \in Answered, Len(a.hits) <= Limit,
         \A j, k \in DOMAIN a.hits : a.hits[j].key = a.hits[k].key => j = k,
         \A j \in DOMAIN a.hits : a.hits[j].row.vis >= context /\ Vouched(a.hits[j], policy, certs),
         \A i \in DOMAIN cs : cs[i].origin # a.origin
  PROVE  Fit(Append(cs, a), context, policy, certs)
<1> DEFINE n == Len(cs)
           ds == Append(cs, a)
<1>1. cs \in Seq(Answered) /\ n \in Nat /\ DOMAIN cs = 1 .. n
  BY DEF Fit, Mergeable
<1>2. /\ ds \in Seq(Answered) /\ DOMAIN ds = 1 .. n + 1
      /\ \A i \in 1 .. n : ds[i] = cs[i]
      /\ ds[n + 1] = a
  BY <1>1
<1> HIDE DEF n, ds
<1>3. \A i \in DOMAIN ds : (i \in DOMAIN cs /\ ds[i] = cs[i]) \/ (i = n + 1 /\ ds[i] = a)
  BY <1>1, <1>2
<1>4. \A i, j \in DOMAIN ds : ds[i].origin = ds[j].origin => i = j
  BY <1>3 DEF Fit, Mergeable
<1>5. \A i \in DOMAIN ds : Len(ds[i].hits) <= Limit
  BY <1>3 DEF Fit, Mergeable
<1>6. \A i \in DOMAIN ds : \A j, k \in DOMAIN ds[i].hits : ds[i].hits[j].key = ds[i].hits[k].key => j = k
  BY <1>3 DEF Fit, Mergeable
<1>7. \A i \in DOMAIN ds : \A j \in DOMAIN ds[i].hits :
        ds[i].hits[j].row.vis >= context /\ Vouched(ds[i].hits[j], policy, certs)
  BY <1>3 DEF Fit
<1>8. Fit(ds, context, policy, certs)
  BY <1>2, <1>4, <1>5, <1>6, <1>7 DEF Fit, Mergeable
<1> QED BY <1>8 DEF ds

\* At first there is no call and no answer, and what the members hold is signed.
LEMMA InitIInv ==
  ASSUME Init PROVE IInv
<1>1. /\ rows \in Table /\ signing = [b \in Brain |-> {}]
      /\ signed = {rows[b][k].sig : b \in Brain, k \in Key} \ {NoSignature}
      /\ children = <<>> /\ registry = {} /\ call = NoCall /\ result = NoResult
      /\ changes \in 0 .. MaxChanges
  BY CorporaHoldRows, FanOutConstants DEF Init, Table
<1>2. \A b \in Brain, k \in Key : rows[b][k].sig # NoSignature => rows[b][k].sig \in signed
  BY <1>1
<1>3. signed \subseteq Signature \union LegacySignature
  <2>1. \A b \in Brain, k \in Key : rows[b][k].sig \in Signature \union LegacySignature \union {NoSignature}
    <3> TAKE b \in Brain, k \in Key
    <3>1. rows[b][k] \in Row \union {NoRow} BY <1>1 DEF Table
    <3> QED BY <3>1, RowIs
  <2> QED BY <1>1, <2>1
<1>4. MembersOK
  BY <1>1, <1>2, <1>3 DEF MembersOK
<1>5. ChildrenOK
  BY <1>1 DEF ChildrenOK
<1> QED BY <1>1, <1>4, <1>5 DEF IInv, CallOK, ResultOK

\* A member's step leaves the call as it is (MemberStep).
LEMMA MemberKeeps ==
  ASSUME IInv, MemberStep PROVE IInv'
<1>1. MembersOK' /\ signed \subseteq signed'
  BY MembersKeep DEF IInv
<1>2. result' = NoResult /\ UNCHANGED <<children, registry, call>>
  BY DEF MemberStep
<1>3. ChildrenOK'
  BY <1>2 DEF IInv, ChildrenOK
<1>4. CallOK'
  <2> SUFFICES ASSUME call' # NoCall PROVE CallOK' BY DEF CallOK
  <2>1. /\ call \in Call /\ call.next \in 1 .. Len(children) + 1
        /\ Fit(call.contributions, call.context, call.policy, signed)
        /\ Once(call.contributions, call.failed)
        /\ \A i \in DOMAIN call.contributions : \E m \in 1 .. call.next - 1 :
             call.contributions[i].origin = children[m].brain
        /\ \A i \in DOMAIN call.failed : \E m \in 1 .. call.next - 1 : call.failed[i] = children[m].brain
    BY <1>2 DEF IInv, CallOK
  <2>2. Fit(call.contributions, call.context, call.policy, signed')
    BY <1>1, <2>1, FitGrows
  <2> QED BY <1>2, <2>1, <2>2 DEF CallOK
<1>5. ResultOK'
  BY <1>2 DEF ResultOK
<1> QED BY <1>1, <1>3, <1>4, <1>5 DEF IInv

\* A brain added again keeps its place (add_brain_weighted).
LEMMA AddKeeps ==
  ASSUME IInv, NEW b \in Brain, NEW w \in Weights, add_brain_weighted(b, w) PROVE IInv'
<1> DEFINE member == [brain |-> b, weight |-> w]
           n == Len(children)
<1>1. /\ call = NoCall /\ registry' = registry \union {b}
      /\ children' = IF \E i \in DOMAIN children : children[i].brain = b
                     THEN [i \in DOMAIN children |-> IF children[i].brain = b THEN member ELSE children[i]]
                     ELSE Append(children, member)
      /\ result' = NoResult /\ UNCHANGED <<memberVars, call>>
  BY DEF add_brain_weighted
<1>2. /\ children \in Seq(Handle)
      /\ \A i, j \in DOMAIN children : children[i].brain = children[j].brain => i = j
      /\ registry = {children[i].brain : i \in DOMAIN children}
  BY DEF IInv, ChildrenOK
<1>3. n \in Nat /\ DOMAIN children = 1 .. n /\ \A i \in 1 .. n : children[i] \in Handle
  BY <1>2
<1>4. member \in Handle /\ member.brain = b
  BY DEF Handle
<1> HIDE DEF member, n
<1>5. ChildrenOK'
  <2>1. CASE \E i \in DOMAIN children : children[i].brain = b
    <3>1. children' = [i \in 1 .. n |-> IF children[i].brain = b THEN member ELSE children[i]]
      BY <1>1, <1>3, <2>1
    <3>2. children' \in Seq(Handle) /\ DOMAIN children' = 1 .. n
      BY <1>3, <1>4, <3>1
    <3>3. \A i \in 1 .. n : children'[i].brain = children[i].brain
      BY <1>4, <3>1
    <3>4. registry' = registry
      BY <1>1, <1>2, <2>1
    <3>5. registry' = {children'[i].brain : i \in DOMAIN children'}
      BY <1>2, <1>3, <3>2, <3>3, <3>4
    <3> QED BY <1>2, <1>3, <3>2, <3>3, <3>5 DEF ChildrenOK
  <2>2. CASE ~ \E i \in DOMAIN children : children[i].brain = b
    <3>1. children' = Append(children, member)
      BY <1>1, <2>2
    <3>2. /\ children' \in Seq(Handle) /\ DOMAIN children' = 1 .. n + 1
          /\ \A i \in 1 .. n : children'[i] = children[i]
          /\ children'[n + 1] = member
      BY <1>2, <1>3, <1>4, <3>1 DEF n
    <3>3. \A i \in DOMAIN children' : (i \in DOMAIN children /\ children'[i] = children[i])
                                      \/ (i = n + 1 /\ children'[i].brain = b)
      BY <1>3, <1>4, <3>2
    <3>4. \A i, j \in DOMAIN children' : children'[i].brain = children'[j].brain => i = j
      BY <1>2, <2>2, <3>3
    <3>5. n + 1 \in DOMAIN children' /\ \A i \in DOMAIN children : i \in DOMAIN children'
      BY <1>3, <3>2
    <3>6. \A x : x \in registry' <=> \E i \in DOMAIN children' : x = children'[i].brain
      <4>1. \A x : x \in registry' <=> x = b \/ \E i \in DOMAIN children : x = children[i].brain
        BY <1>1, <1>2
      <4> QED BY <1>3, <1>4, <3>2, <3>3, <3>5, <4>1
    <3>7. registry' = {children'[i].brain : i \in DOMAIN children'}
      BY <3>6
    <3> QED BY <3>2, <3>4, <3>7 DEF ChildrenOK
  <2> QED BY <2>1, <2>2
<1>6. MembersOK'
  BY <1>1 DEF IInv, MembersOK, memberVars
<1> QED BY <1>1, <1>5, <1>6 DEF IInv, CallOK, ResultOK

\* A call starts with no answer (Start).
LEMMA StartKeeps ==
  ASSUME IInv, NEW context \in Clearance, NEW policy \in Policies, Start(context, policy) PROVE IInv'
<1>1. /\ call' = [pc |-> "asking", context |-> context, policy |-> policy, next |-> 1,
                  contributions |-> <<>>, failed |-> <<>>, unverified |-> 0]
      /\ result' = NoResult /\ UNCHANGED <<memberVars, children, registry>>
  BY DEF Start
<1>2. call' \in Call
  BY <1>1 DEF Call
<1>3. Len(children) \in Nat
  BY DEF IInv, ChildrenOK
<1>4. Fit(<<>>, context, policy, signed)
  BY DEF Fit, Mergeable
<1>5. Once(<<>>, <<>>)
  BY DEF Once
<1>6. CallOK'
  BY <1>1, <1>2, <1>3, <1>4, <1>5 DEF CallOK, memberVars
<1>7. MembersOK' /\ ChildrenOK'
  BY <1>1 DEF IInv, MembersOK, ChildrenOK, memberVars
<1> QED BY <1>1, <1>6, <1>7 DEF IInv, ResultOK

\* What is known of a call that still has a member to ask.
LEMMA AskingIs ==
  ASSUME IInv, call # NoCall, call.next <= Len(children)
  PROVE  /\ call \in Call /\ Len(children) \in Nat /\ call.next \in 1 .. Len(children)
         /\ Asked \in Brain /\ children[call.next].weight \in Weights
         /\ \A i \in DOMAIN call.contributions : call.contributions[i].origin # Asked
         /\ \A i \in DOMAIN call.failed : call.failed[i] # Asked
<1>1. /\ call \in Call /\ call.next \in 1 .. Len(children) + 1
      /\ \A i \in DOMAIN call.contributions : \E m \in 1 .. call.next - 1 :
           call.contributions[i].origin = children[m].brain
      /\ \A i \in DOMAIN call.failed : \E m \in 1 .. call.next - 1 : call.failed[i] = children[m].brain
  BY DEF IInv, CallOK
<1>2. /\ children \in Seq(Handle)
      /\ \A i, j \in DOMAIN children : children[i].brain = children[j].brain => i = j
  BY DEF IInv, ChildrenOK
<1> DEFINE n == Len(children)
           next == call.next
<1>3. n \in Nat /\ DOMAIN children = 1 .. n
  BY <1>2
<1>4. next \in 1 .. n
  BY <1>1, <1>3
<1>5. children[next] \in Handle /\ children[next].brain \in Brain /\ children[next].weight \in Weights
  <2> HIDE DEF n, next
  <2>1. children[next] \in Handle BY <1>2, <1>3, <1>4
  <2> QED BY <2>1 DEF Handle
<1>6. \A m \in 1 .. next - 1 : children[m].brain # children[next].brain
  <2> HIDE DEF n, next
  <2>1. \A m \in 1 .. next - 1 : m \in DOMAIN children /\ m # next /\ next \in DOMAIN children
    BY <1>3, <1>4
  <2> QED BY <1>2, <2>1
<1> QED BY <1>1, <1>3, <1>4, <1>5, <1>6 DEF Asked

\* A member that answers is added to those that have (Answer).
LEMMA AnswerKeeps ==
  ASSUME IInv, Answer PROVE IInv'
<1>1. call # NoCall /\ call.next <= Len(children) /\ UNCHANGED <<memberVars, children, registry, result>>
  BY DEF Answer
<1>2. /\ call \in Call /\ Len(children) \in Nat /\ call.next \in 1 .. Len(children)
      /\ Asked \in Brain /\ children[call.next].weight \in Weights
      /\ \A i \in DOMAIN call.contributions : call.contributions[i].origin # Asked
      /\ \A i \in DOMAIN call.failed : call.failed[i] # Asked
  BY <1>1, AskingIs
<1>3. PICK hits \in recall_cascade_scoped(Asked) :
        LET visible == Selected(hits, {i \in DOMAIN hits : Admits(hits[i].row.vis)})
            kept == Selected(visible, {i \in DOMAIN visible : Authentic(visible[i])})
        IN  call' = [call EXCEPT
              !.next = @ + 1, !.unverified = @ + (Len(visible) - Len(kept)),
              !.contributions = Append(@, [origin |-> Asked, weight |-> children[call.next].weight,
                                           hits |-> kept])]
  BY DEF Answer
<1> DEFINE visible == Selected(hits, {i \in DOMAIN hits : Admits(hits[i].row.vis)})
           kept == Selected(visible, {i \in DOMAIN visible : Authentic(visible[i])})
           lost == Len(visible) - Len(kept)
           a == [origin |-> Asked, weight |-> children[call.next].weight, hits |-> kept]
           cs == call.contributions
<1>4. /\ lost \in Int /\ kept \in Seq(Hit) /\ Len(kept) <= Limit
      /\ \A j, k \in DOMAIN kept : kept[j].key = kept[k].key => j = k
      /\ \A j \in DOMAIN kept :
           kept[j].row.vis >= call.context /\ Vouched(kept[j], call.policy, signed)
  BY <1>2, AnswerFits DEF IInv
<1>5. call' = [call EXCEPT !.next = @ + 1, !.unverified = @ + lost, !.contributions = Append(@, a)]
  BY <1>3
<1> HIDE DEF visible, kept, lost
<1>6. a \in Answered /\ a.origin = Asked /\ a.hits = kept
  BY <1>2, <1>4 DEF Answered
<1> HIDE DEF a
<1>7. /\ Fit(cs, call.context, call.policy, signed)
      /\ Once(cs, call.failed)
      /\ \A i \in DOMAIN cs : \E m \in 1 .. call.next - 1 : cs[i].origin = children[m].brain
      /\ \A i \in DOMAIN call.failed : \E m \in 1 .. call.next - 1 : call.failed[i] = children[m].brain
  BY <1>1 DEF IInv, CallOK
<1>8. /\ call' \in Call /\ call'.next = call.next + 1 /\ call'.contributions = Append(cs, a)
      /\ call'.failed = call.failed /\ call'.context = call.context /\ call'.policy = call.policy
  <2> DEFINE ds == Append(cs, a)
  <2>1. cs \in Seq(Answered) BY <1>2 DEF Call
  <2>2. ds \in Seq(Answered) BY <1>6, <2>1
  <2> DEFINE d == [call EXCEPT !.next = @ + 1, !.unverified = @ + lost, !.contributions = ds]
  <2>3. call' = d
    BY <1>5
  <2> HIDE DEF ds
  <2>5. call \in Call /\ call.next + 1 \in Nat /\ call.unverified + lost \in Int
    BY <1>2, <1>4 DEF Call
  <2>6. d \in Call
    BY <2>2, <2>5 DEF Call
  <2>7. /\ d.next = call.next + 1 /\ d.contributions = ds
        /\ d.failed = call.failed /\ d.context = call.context /\ d.policy = call.policy
    BY <2>5 DEF Call
  <2> HIDE DEF d
  <2>4. /\ call' \in Call /\ call'.next = call.next + 1 /\ call'.contributions = ds
        /\ call'.failed = call.failed /\ call'.context = call.context /\ call'.policy = call.policy
    BY <2>3, <2>6, <2>7
  <2> QED BY <2>4 DEF ds
<1>9. Fit(Append(cs, a), call.context, call.policy, signed)
  BY <1>2, <1>4, <1>6, <1>7, FitAppends
<1>10. /\ Len(cs) \in Nat
       /\ \A i \in DOMAIN Append(cs, a) : (i \in DOMAIN cs /\ Append(cs, a)[i] = cs[i]) \/ Append(cs, a)[i] = a
  <2>1. cs \in Seq(Answered) BY <1>2 DEF Call
  <2> QED BY <2>1
<1>11. Once(Append(cs, a), call.failed)
  BY <1>2, <1>6, <1>7, <1>10 DEF Once
<1>12. \A m \in 1 .. call.next - 1 : m \in 1 .. (call.next + 1) - 1
  BY <1>2
<1>13. call.next \in 1 .. (call.next + 1) - 1 /\ children[call.next].brain = Asked
  BY <1>2 DEF Asked
<1>14. \A i \in DOMAIN Append(cs, a) : \E m \in 1 .. (call.next + 1) - 1 : Append(cs, a)[i].origin = children[m].brain
  BY <1>6, <1>7, <1>10, <1>12, <1>13
<1>15. \A i \in DOMAIN call.failed : \E m \in 1 .. (call.next + 1) - 1 : call.failed[i] = children[m].brain
  BY <1>7, <1>12
<1>16. call.next + 1 \in 1 .. Len(children) + 1
  BY <1>2
<1>17. children' = children /\ signed' = signed
  BY <1>1 DEF memberVars
<1>18. CallOK'
  BY <1>8, <1>9, <1>11, <1>14, <1>15, <1>16, <1>17 DEF CallOK
<1>19. MembersOK' /\ ChildrenOK' /\ ResultOK'
  BY <1>1 DEF IInv, MembersOK, ChildrenOK, ResultOK, memberVars
<1> QED BY <1>18, <1>19 DEF IInv

\* One that fails is added to those that have (Fails).
LEMMA FailsKeeps ==
  ASSUME IInv, Fails PROVE IInv'
<1>1. /\ call # NoCall /\ call.next <= Len(children) /\ UNCHANGED <<memberVars, children, registry, result>>
      /\ call' = [call EXCEPT !.next = @ + 1, !.failed = Append(@, Asked)]
  BY DEF Fails
<1> DEFINE cs == call.contributions
           fs == call.failed
           ds == Append(fs, Asked)
<1>2. /\ call \in Call /\ Len(children) \in Nat /\ call.next \in 1 .. Len(children)
      /\ Asked \in Brain
      /\ \A i \in DOMAIN cs : cs[i].origin # Asked
      /\ \A i \in DOMAIN fs : fs[i] # Asked
  BY <1>1, AskingIs
<1>3. /\ Fit(cs, call.context, call.policy, signed)
      /\ Once(cs, fs)
      /\ \A i \in DOMAIN cs : \E m \in 1 .. call.next - 1 : cs[i].origin = children[m].brain
      /\ \A i \in DOMAIN fs : \E m \in 1 .. call.next - 1 : fs[i] = children[m].brain
  BY <1>1 DEF IInv, CallOK
<1>4. /\ call' \in Call /\ call'.next = call.next + 1 /\ call'.contributions = cs
      /\ call'.failed = ds /\ call'.context = call.context /\ call'.policy = call.policy
  <2>1. fs \in Seq(Brain) BY <1>2 DEF Call
  <2>2. ds \in Seq(Brain) BY <1>2, <2>1
  <2> DEFINE d == [call EXCEPT !.next = @ + 1, !.failed = ds]
  <2>3. call' = d
    BY <1>1
  <2> HIDE DEF ds
  <2>4. call \in Call /\ call.next + 1 \in Nat
    BY <1>2 DEF Call
  <2>5. d \in Call
    BY <2>2, <2>4 DEF Call
  <2>6. /\ d.next = call.next + 1 /\ d.contributions = cs
        /\ d.failed = ds /\ d.context = call.context /\ d.policy = call.policy
    BY <2>4 DEF Call
  <2> HIDE DEF d
  <2> QED BY <2>3, <2>5, <2>6
<1>5. fs \in Seq(Brain)
  BY <1>2 DEF Call
<1> HIDE DEF cs, fs
<1>6. \A i \in DOMAIN ds : (i \in DOMAIN fs /\ ds[i] = fs[i]) \/ (i = Len(fs) + 1 /\ ds[i] = Asked)
  BY <1>2, <1>5
<1> HIDE DEF ds
<1>7. Once(cs, ds)
  BY <1>2, <1>3, <1>6 DEF Once
<1>8. \A m \in 1 .. call.next - 1 : m \in 1 .. (call.next + 1) - 1
  BY <1>2
<1>9. call.next \in 1 .. (call.next + 1) - 1 /\ children[call.next].brain = Asked
  BY <1>2 DEF Asked
<1>10. \A i \in DOMAIN cs : \E m \in 1 .. (call.next + 1) - 1 : cs[i].origin = children[m].brain
  BY <1>3, <1>8
<1>11. \A i \in DOMAIN ds : \E m \in 1 .. (call.next + 1) - 1 : ds[i] = children[m].brain
  BY <1>3, <1>6, <1>8, <1>9
<1>12. call.next + 1 \in 1 .. Len(children) + 1
  BY <1>2
<1>13. children' = children /\ signed' = signed
  BY <1>1 DEF memberVars
<1>14. CallOK'
  BY <1>3, <1>4, <1>7, <1>10, <1>11, <1>12, <1>13 DEF CallOK
<1>15. MembersOK' /\ ChildrenOK' /\ ResultOK'
  BY <1>1 DEF IInv, MembersOK, ChildrenOK, ResultOK, memberVars
<1> QED BY <1>14, <1>15 DEF IInv

\* The answer is made of what the call has (merge_and_rank).
LEMMA MergeKeeps ==
  ASSUME IInv, merge_and_rank PROVE IInv'
<1> DEFINE cs == call.contributions
<1>0. call # NoCall /\ call' = NoCall /\ UNCHANGED <<memberVars, children, registry>>
  BY DEF merge_and_rank
<1>1. PICK e \in Roundings(Flat(cs, call.policy)) :
         result' = [pc |-> "done", context |-> call.context, policy |-> call.policy,
                    contributions |-> cs,
                    ranked |-> Ranked(cs, call.policy, e),
                    per_brain |-> [i \in DOMAIN cs |->
                      [brain |-> cs[i].origin, count |-> Count(cs, call.policy, i)]],
                    failed |-> call.failed, unverified |-> call.unverified]
  BY DEF merge_and_rank, Count
<1>2. call \in Call /\ Fit(cs, call.context, call.policy, signed) /\ Once(cs, call.failed)
  BY <1>0 DEF IInv, CallOK
<1>3. call.policy \in Policies
  BY <1>2 DEF Call
<1> DEFINE r == result'
<1>4. /\ r.policy = call.policy /\ r.context = call.context /\ r.contributions = cs /\ r.failed = call.failed
      /\ r.ranked = Ranked(cs, call.policy, e)
      /\ r.per_brain = [i \in DOMAIN cs |-> [brain |-> cs[i].origin, count |-> Count(cs, call.policy, i)]]
  BY <1>1
<1>5. signed' = signed
  BY <1>0 DEF memberVars
<1> HIDE DEF cs, r
<1>6. ResultOK'
  BY <1>2, <1>3, <1>4, <1>5 DEF ResultOK, r
<1>7. MembersOK' /\ ChildrenOK'
  BY <1>0 DEF IInv, MembersOK, ChildrenOK, memberVars
<1> QED BY <1>0, <1>6, <1>7 DEF IInv, CallOK

\* The invariant is inductive (Next).
LEMMA FanOutInductive ==
  /\ Init => IInv
  /\ IInv /\ [Next]_vars => IInv'
<1>1. ASSUME IInv, UNCHANGED vars PROVE IInv'
  BY <1>1 DEF IInv, MembersOK, ChildrenOK, CallOK, ResultOK, vars
<1>2. ASSUME IInv, Next PROVE IInv'
  BY <1>2, MemberKeeps, AddKeeps, StartKeeps, AnswerKeeps, FailsKeeps, MergeKeeps DEF Next
<1> QED BY <1>1, <1>2, InitIInv

\* It holds in every state of every behaviour.
LEMMA FanOutAlways == Spec => []IInv
<1> QED BY FanOutInductive, PTL DEF Spec

-----------------------------------------------------------------------------
(* The properties of FanOut. *)

\* A set of positions at which a sequence has a value it has once is empty or has one
\* member.
LEMMA OneAtMost ==
  ASSUME NEW T, \A x, y \in T : x = y
  PROVE  IsFiniteSet(T) /\ Cardinality(T) \in {0, 1} /\ (Cardinality(T) = 1 <=> T # {})
<1>1. CASE T = {} BY <1>1, FS_EmptySet
<1>2. CASE T # {}
  <2>1. PICK x \in T : TRUE BY <1>2
  <2>2. T = {x} BY <2>1
  <2> QED BY <1>2, <2>2, FS_Singleton
<1> QED BY <1>1, <1>2

\* The types, and that there is one directory recorded for each member.
LEMMA TypesHold ==
  ASSUME IInv PROVE TypeOK /\ Cardinality(registry) = Len(children)
<1> DEFINE n == Len(children)
           at == [i \in 1 .. n |-> children[i].brain]
<1>1. /\ children \in Seq(Handle)
      /\ \A i, j \in DOMAIN children : children[i].brain = children[j].brain => i = j
      /\ registry = {children[i].brain : i \in DOMAIN children}
  BY DEF IInv, ChildrenOK
<1>2. n \in Nat /\ DOMAIN children = 1 .. n
  BY <1>1
<1>3. \A i \in 1 .. n : children[i].brain \in Brain
  <2> TAKE i \in 1 .. n
  <2>1. children[i] \in Handle BY <1>1, <1>2
  <2> QED BY <2>1 DEF Handle
<1> HIDE DEF n
<1>4. at \in Bijection(1 .. n, registry)
  BY <1>1, <1>2 DEF Bijection, Injection, Surjection, IsInjective
<1>5. Cardinality(registry) = n
  BY <1>2, <1>4, FS_CountingElements DEF ExistsBijection
<1>6. call.pc \in {"idle", "asking"}
  BY DEF IInv, CallOK, Call, NoCall
<1>7. registry \subseteq Brain
  BY <1>1, <1>2, <1>3
<1>8. TypeOK
  BY <1>1, <1>6, <1>7 DEF TypeOK, IInv, MembersOK, Table, Handle
<1> QED BY <1>5, <1>8 DEF n

\* What an answer says, in terms of what was merged.
LEMMA ResultIs ==
  ASSUME IInv, Done
  PROVE  LET cs == result.contributions
         IN  /\ Mergeable(cs) /\ result.policy \in Policies
             /\ Fit(cs, result.context, result.policy, signed) /\ Once(cs, result.failed)
             /\ \E e \in Roundings(Flat(cs, result.policy)) :
                  e \in Rounded /\ result.ranked = Ranked(cs, result.policy, e)
             /\ DOMAIN result.per_brain = DOMAIN cs
             /\ \A i \in DOMAIN cs : /\ result.per_brain[i].brain = cs[i].origin
                                     /\ result.per_brain[i].count = Count(cs, result.policy, i)
BY DEF IInv, ResultOK, Done, Fit, Roundings, Rounded

\* Each brain is asked once, and has in the ranking the hits counted for it and no
\* more than its cap (FanOutInv).
LEMMA CountsHold ==
  ASSUME IInv PROVE FanOutInv
<1> DEFINE cs == result.contributions
           policy == result.policy
           T(b) == {i \in DOMAIN result.per_brain : result.per_brain[i].brain = b}
           F(b) == {i \in DOMAIN result.failed : result.failed[i] = b}
<1>1. TypeOK /\ Cardinality(registry) = Len(children)
  BY TypesHold
<1>2. ASSUME Done PROVE
        /\ Mergeable(cs) /\ policy \in Policies /\ Once(cs, result.failed)
        /\ \E e \in Rounded : result.ranked = Ranked(cs, policy, e)
        /\ DOMAIN result.per_brain = DOMAIN cs
        /\ \A i \in DOMAIN cs : /\ result.per_brain[i].brain = cs[i].origin
                                /\ result.per_brain[i].count = Count(cs, policy, i)
  BY <1>2, ResultIs
<1> HIDE DEF cs, policy
<1>3. ASSUME Done, NEW b \in Brain PROVE Cardinality(T(b)) + Cardinality(F(b)) <= 1
  <2>1. \A i \in T(b) : i \in DOMAIN cs /\ cs[i].origin = b
    BY <1>2, <1>3
  <2>2. \A i \in F(b) : i \in DOMAIN result.failed /\ result.failed[i] = b
    OBVIOUS
  <2> HIDE DEF T, F
  <2>3. \A i, j \in T(b) : i = j
    BY <1>2, <1>3, <2>1 DEF Mergeable
  <2>4. \A i, j \in F(b) : i = j
    BY <1>2, <1>3, <2>2 DEF Once
  <2>5. T(b) = {} \/ F(b) = {}
    BY <1>2, <1>3, <2>1, <2>2 DEF Once
  <2>6. Cardinality(T(b)) \in {0, 1} /\ (Cardinality(T(b)) = 1 <=> T(b) # {})
    BY <2>3, OneAtMost
  <2>7. Cardinality(F(b)) \in {0, 1} /\ (Cardinality(F(b)) = 1 <=> F(b) # {})
    BY <2>4, OneAtMost
  <2> QED BY <2>5, <2>6, <2>7
<1>4. ASSUME Done, NEW i \in DOMAIN result.per_brain
      PROVE  Cardinality(Places(result.per_brain[i].brain)) = result.per_brain[i].count
  <2>1. i \in DOMAIN cs /\ result.per_brain[i].brain = cs[i].origin
        /\ result.per_brain[i].count = Count(cs, policy, i)
    BY <1>2, <1>4
  <2>3. PICK e \in Rounded : result.ranked = Ranked(cs, policy, e)
    BY <1>2, <1>4
  <2>2. Places(cs[i].origin)
          = {p \in DOMAIN Ranked(cs, policy, e) : Ranked(cs, policy, e)[p].origin = cs[i].origin}
    BY <2>3 DEF Places
  <2> QED BY <1>2, <1>4, <2>1, <2>2, RankedCounts
<1>5. ASSUME Done, NEW i \in DOMAIN result.failed PROVE Places(result.failed[i]) = {}
  <2>1. \A m \in DOMAIN cs : cs[m].origin # result.failed[i]
    BY <1>2, <1>5 DEF Once
  <2>3. PICK e \in Rounded : result.ranked = Ranked(cs, policy, e)
    BY <1>2, <1>5
  <2>2. Places(result.failed[i])
          = {p \in DOMAIN Ranked(cs, policy, e) : Ranked(cs, policy, e)[p].origin = result.failed[i]}
    BY <2>3 DEF Places
  <2> QED BY <1>2, <1>5, <2>1, <2>2, RankedCounts
<1> QED BY <1>1, <1>3, <1>4, <1>5 DEF FanOutInv

\* What is ranked is a hit of an answer, so may be shown (OnlyAdmissible).
LEMMA AdmissibleHolds ==
  ASSUME IInv PROVE OnlyAdmissible
<1> SUFFICES ASSUME Done, NEW p \in DOMAIN result.ranked
             PROVE  LET h == result.ranked[p].hit IN
                    /\ h.row.vis >= result.context
                    /\ Vouched(h, result.policy, signed)
  BY DEF OnlyAdmissible, Vouched, Covered
<1> DEFINE cs == result.contributions
           policy == result.policy
<1>1. /\ Mergeable(cs) /\ policy \in Policies /\ Fit(cs, result.context, policy, signed)
      /\ \E e \in Rounded : result.ranked = Ranked(cs, policy, e)
  BY ResultIs
<1> HIDE DEF cs, policy
<1>5. PICK e \in Rounded : result.ranked = Ranked(cs, policy, e)
  BY <1>1
<1>2. PICK i \in DOMAIN cs : \E j \in 1 .. Count(cs, policy, i) :
        result.ranked[p] = [origin |-> cs[i].origin, hit |-> cs[i].hits[j]]
  BY <1>1, <1>5, RankedFrom
<1>3. PICK j \in 1 .. Count(cs, policy, i) :
        result.ranked[p] = [origin |-> cs[i].origin, hit |-> cs[i].hits[j]]
  BY <1>2
<1>4. j \in DOMAIN cs[i].hits /\ result.ranked[p].hit = cs[i].hits[j]
  BY <1>1, <1>3, AnswerIs
<1> QED BY <1>1, <1>4 DEF Fit, policy

\* What the members agree on comes first (AgreementOutranks).
LEMMA AgreementHolds ==
  ASSUME IInv PROVE AgreementOutranks
<1> DEFINE cs == result.contributions
           policy == result.policy
<1> SUFFICES ASSUME Done, policy.fusion = "Rrf", NEW c \in Content, NEW d \in Content,
                    \A i \in {m \in DOMAIN cs : cs[m].weight > 0} : BestRank(c, i) <= BestRank(d, i),
                    NEW i0 \in {m \in DOMAIN cs : cs[m].weight > 0}, BestRank(c, i0) < BestRank(d, i0),
                    NEW p \in DOMAIN result.ranked, NEW q \in DOMAIN result.ranked,
                    result.ranked[p].hit.row.content = c, result.ranked[q].hit.row.content = d
             PROVE  p < q
  BY DEF AgreementOutranks
<1>1. Mergeable(cs) /\ policy \in Policies /\ \E e \in Rounded : result.ranked = Ranked(cs, policy, e)
  BY ResultIs
<1>2. \A x, i : BestRank(x, i) = BestAt(cs, policy, x, i)
  BY DEF BestRank, BestAt
<1> HIDE DEF cs, policy
<1>3. \A i \in DOMAIN cs : cs[i].weight > 0 => BestAt(cs, policy, c, i) <= BestAt(cs, policy, d, i)
  BY <1>2
<1>4. i0 \in DOMAIN cs /\ cs[i0].weight > 0 /\ BestAt(cs, policy, c, i0) < BestAt(cs, policy, d, i0)
  BY <1>2
<1>5. Fused(Flat(cs, policy), d) + 2 * Error < Fused(Flat(cs, policy), c)
  BY <1>1, <1>3, <1>4, AgreementWins
<1>6. PICK e \in Rounded : result.ranked = Ranked(cs, policy, e)
  BY <1>1
<1> QED BY <1>1, <1>5, <1>6, AgreementFirst

\* A raw score is not a sum (FusionMethod::RawScore).
LEMMA RawScores ==
  ASSUME NEW cs, NEW policy, policy.fusion # "Rrf", NEW e, NEW f
  PROVE  Ranked(cs, policy, e) = Ranked(cs, policy, f)
<1>1. \A x : Effective(Flat(cs, policy), x, policy, e) = Effective(Flat(cs, policy), x, policy, f)
  BY DEF Effective
<1>2. Scored(cs, policy, e) = Scored(cs, policy, f)
  BY <1>1 DEF Scored
<1>3. Sorted(cs, policy, e) = Sorted(cs, policy, f)
  BY <1>2 DEF Sorted
<1> QED BY <1>3 DEF Ranked

\* The members' order is not part of the answer (ChildOrderIsIrrelevant).
LEMMA OrderHolds ==
  ASSUME IInv PROVE ChildOrderIsIrrelevant
<1> DEFINE cs == result.contributions
           policy == result.policy
           flat == Flat(cs, policy)
<1> SUFFICES ASSUME Done, policy.fusion = "Rrf" => \A c \in Content : OrderFree(flat, c),
                    NEW r \in Roundings(flat)
             PROVE  result.ranked = Ranked(Reverse(cs), policy, r)
  BY DEF ChildOrderIsIrrelevant, AskedRoundings
<1>1. PICK e \in Roundings(flat) : e \in Rounded /\ result.ranked = Ranked(cs, policy, e)
  BY ResultIs
<1>2. Mergeable(cs) /\ policy \in Policies
  BY ResultIs
<1> HIDE DEF cs, policy
<1>3. Ranked(cs, policy, e) = Ranked(cs, policy, r)
  <2>1. CASE policy.fusion = "Rrf"
    <3>1. \A c \in Content : e[c] = 0 /\ r[c] = 0
      BY <2>1 DEF Roundings
    <3>2. e \in [Content -> -Error .. Error] /\ r \in [Content -> -Error .. Error]
      BY DEF Roundings
    <3>3. e = r
      BY <3>1, <3>2
    <3> QED BY <3>3
  <2>2. CASE policy.fusion # "Rrf"
    BY <2>2, RawScores
  <2> QED BY <2>1, <2>2
<1>4. Mergeable(Reverse(cs)) /\ Among(cs, Reverse(cs)) /\ Among(Reverse(cs), cs)
  BY <1>2, ReverseIs
<1>5. r \in Rounded
  BY DEF Roundings, Rounded
<1>6. Ranked(Reverse(cs), policy, r) = Ranked(cs, policy, r)
  BY <1>2, <1>4, <1>5, AnyOrder
<1> QED BY <1>1, <1>3, <1>6 DEF cs, policy

\* Every member is asked once, whatever is added again, and either named as failed or
\* has in the ranking exactly the hits counted for it (recall_fan_out_ranked).
THEOREM EachAskedOnce == Spec => []FanOutInv
<1> QED BY FanOutAlways, CountsHold, PTL

\* Whatever the members do between their answers, what is merged may be shown to the
\* caller and, under a grant set, is what a granted brain signed: for that very memory
\* or, in the earlier scheme, under any key (verify_hit, verify_memory_signature).
THEOREM MergedIsAdmissible == Spec => []OnlyAdmissible
<1> QED BY FanOutAlways, AdmissibleHolds, PTL

\* A content that all members with a weight rank no lower than another, and one higher,
\* comes first, however often the other is repeated (merge_and_rank: "it cannot
\* self-corroborate by flooding identical copies").
THEOREM AgreementIsFirst == Spec => []AgreementOutranks
<1> QED BY FanOutAlways, AgreementHolds, PTL

\* The ranking does not depend on the order in which members were added as long as no
\* content's score is added up from more than two (merge_and_rank).
THEOREM RankingIsOfTheSet == Spec => []ChildOrderIsIrrelevant
<1> QED BY FanOutAlways, OrderHolds, PTL

-----------------------------------------------------------------------------
(* Replicated sets. *)

\* Empty tables are consistent (ensure_set_tables).
LEMMA SetInitInv == SetInit => SetInv
  BY DEF SetInit, SetInv, SetTypeOK, RetractedIsGone, SetPack

\* Every operation keeps the tables typed and retracted objects out of them.
LEMMA SetNextInv == SetInv /\ [SetNext]_setVars => SetInv'
  <1> SUFFICES ASSUME SetInv, [SetNext]_setVars PROVE SetInv'
    OBVIOUS
  <1> USE DEF SetInv, SetTypeOK, RetractedIsGone, SetPack
  <1>1. ASSUME NEW b \in Replica, NEW ns \in Namespace, NEW h \in Hash, put(b, ns, h)
        PROVE  SetInv'
    BY <1>1 DEF put
  <1>2. ASSUME NEW b \in Replica, NEW ns \in Namespace, NEW h \in Hash,
               tombstone_set(b, ns, h)
        PROVE  SetInv'
    BY <1>2 DEF tombstone_set
  <1>3. ASSUME NEW b \in Replica, NEW ns \in Namespace, Export(b, ns)
        PROVE  SetInv'
    BY <1>3 DEF Export, export_set
  <1>4. ASSUME NEW b \in Replica, NEW p \in packs, import_set(b, p)
        PROVE  SetInv'
    BY <1>4 DEF import_set, MergedMembers, MergedTombstones
  <1>5. CASE UNCHANGED setVars
    BY <1>5 DEF setVars
  <1>6. QED
    BY <1>1, <1>2, <1>3, <1>4, <1>5 DEF SetNext

\* No brain ever stores or ships an object it has retracted, whatever packs it
\* merged and in whatever order (put, import_set, apply_tombstone_tx).
THEOREM Safety == SetSpec => []SetInv
  BY SetInitInv, SetNextInv, PTL DEF SetSpec

\* Once a brain has merged what another exports, it wants nothing the other
\* advertises: each advertised object is stored or retracted there by then
\* (want_scoped, export_set, import_set).
THEOREM WantSettles == SetSpec => []MergeSettlesWant
  <1>1. SetInv => MergeSettlesWant
    BY DEF SetInv, SetTypeOK, MergeSettlesWant, want_scoped, want, enumerate, export_set,
           MergedMembers, MergedTombstones
  <1>2. QED
    BY <1>1, Safety, PTL

\* A member leaves a brain only by being retracted there, and only the rows of
\* one brain's one namespace change at a time (apply_tombstone_tx).
THEOREM Removal == SetSpec => OnlyRetractionRemoves
  <1> DEFINE A == /\ \A b \in Replica, ns \in Namespace :
                       members[b][ns] \ members'[b][ns] \subseteq tombstones'[b][ns]
                  /\ \A b, c \in Replica, ns, other \in Namespace :
                       (members'[b][ns] # members[b][ns]
                        /\ members'[c][other] # members[c][other])
                         => b = c /\ ns = other
  <1>1. SetInv /\ [SetNext]_setVars => [A]_setVars
    <2> SUFFICES ASSUME SetInv, SetNext PROVE A
      OBVIOUS
    <2> USE DEF SetInv, SetTypeOK, SetPack
    <2>1. ASSUME NEW b \in Replica, NEW ns \in Namespace, NEW h \in Hash, put(b, ns, h)
          PROVE  A
      BY <2>1 DEF put
    <2>2. ASSUME NEW b \in Replica, NEW ns \in Namespace, NEW h \in Hash,
                 tombstone_set(b, ns, h)
          PROVE  A
      BY <2>2 DEF tombstone_set
    <2>3. ASSUME NEW b \in Replica, NEW ns \in Namespace, Export(b, ns)
          PROVE  A
      BY <2>3 DEF Export
    <2>4. ASSUME NEW b \in Replica, NEW p \in packs, import_set(b, p)
          PROVE  A
      BY <2>4 DEF import_set, MergedMembers, MergedTombstones
    <2>5. QED
      BY <2>1, <2>2, <2>3, <2>4 DEF SetNext
  <1>2. QED
    BY <1>1, Safety, PTL DEF SetSpec, OnlyRetractionRemoves

\* Empty tables are the bottom of the lattice.
LEMMA InitRefines == SetInit => Lattice!Init
  BY DEF SetInit, Lattice!Init, Seen, Sent

\* Each operation is one step of the lattice or leaves it as it is: put adds,
\* tombstone_set removes, Export sends exactly what is known, and importing a
\* pack takes the union with what the pack carries.
LEMMA NextRefines == SetInv /\ [SetNext]_setVars => [Lattice!Next]_(Lattice!joinVars)
  <1> SUFFICES ASSUME SetInv, [SetNext]_setVars
               PROVE  Lattice!Next \/ UNCHANGED Lattice!joinVars
    OBVIOUS
  <1> USE DEF SetInv, SetTypeOK, RetractedIsGone, SetPack
  <1>1. ASSUME NEW b \in Replica, NEW ns \in Namespace, NEW h \in Hash, put(b, ns, h)
        PROVE  Lattice!Add(b, ns, h)
    BY <1>1 DEF put, Lattice!Add, Seen, Sent
  <1>2. ASSUME NEW b \in Replica, NEW ns \in Namespace, NEW h \in Hash,
               tombstone_set(b, ns, h)
        PROVE  Lattice!Remove(b, ns, h)
    BY <1>2 DEF tombstone_set, Lattice!Remove, Seen, Sent
  <1>3. ASSUME NEW b \in Replica, NEW ns \in Namespace, Export(b, ns)
        PROVE  Lattice!Send(b, ns)
    <2> DEFINE e == export_set(b, ns)
    <2>1. /\ e.namespace = ns
          /\ e.tombstones = tombstones[b][ns]
          /\ e.objects \union e.tombstones = Seen[b][ns]
      BY DEF export_set, Seen
    <2>2. /\ packs' = packs \union {e}
          /\ UNCHANGED <<members, tombstones>>
      BY <1>3 DEF Export
    <2>3. UNCHANGED Seen
      BY <2>2 DEF Seen
    <2> HIDE DEF e
    <2>4. Sent' = Sent \union {[space |-> e.namespace, seen |-> e.objects \union e.tombstones,
                               removed |-> e.tombstones]}
      BY <2>2 DEF Sent
    <2>5. QED
      BY <2>1, <2>2, <2>3, <2>4 DEF Lattice!Send
  <1>4. ASSUME NEW b \in Replica, NEW p \in packs, import_set(b, p)
        PROVE  \E m \in Sent : Lattice!Receive(b, m)
    <2> DEFINE m == [space |-> p.namespace, seen |-> p.objects \union p.tombstones,
                     removed |-> p.tombstones]
    <2>1. m \in Sent
      BY DEF Sent
    <2>2. Lattice!Receive(b, m)
      <3>1. /\ p.namespace \in Namespace
            /\ p.objects \subseteq Hash
            /\ p.tombstones \subseteq Hash
        OBVIOUS
      <3>2. tombstones' = [tombstones EXCEPT ![b][p.namespace] = @ \union p.tombstones]
        BY <1>4 DEF import_set, MergedTombstones
      <3>3. members' = [members EXCEPT ![b][p.namespace] =
              (@ \union (p.objects \ (p.tombstones \union tombstones[b][p.namespace])))
                 \ p.tombstones]
        BY <1>4 DEF import_set, MergedMembers
      <3>4. \A c \in Replica, ns \in Namespace :
              Seen'[c][ns] = IF c = b /\ ns = p.namespace
                               THEN Seen[c][ns] \union (p.objects \union p.tombstones)
                               ELSE Seen[c][ns]
        BY <3>1, <3>2, <3>3 DEF Seen
      <3>5. Seen' = [Seen EXCEPT ![b][p.namespace] =
                       @ \union (p.objects \union p.tombstones)]
        <4> DEFINE new == [Seen EXCEPT ![b][p.namespace] =
                             @ \union (p.objects \union p.tombstones)]
        <4>1. /\ Seen' = [c \in Replica |-> Seen'[c]]
              /\ new = [c \in Replica |-> new[c]]
          BY DEF Seen
        <4>2. ASSUME NEW c \in Replica PROVE Seen'[c] = new[c]
          <5>1. /\ Seen'[c] = [ns \in Namespace |-> Seen'[c][ns]]
                /\ new[c] = [ns \in Namespace |-> new[c][ns]]
            BY DEF Seen
          <5>2. \A ns \in Namespace : new[c][ns] = Seen'[c][ns]
            BY <3>1, <3>4 DEF Seen
          <5> HIDE DEF new
          <5>3. QED
            BY <5>1, <5>2
        <4> HIDE DEF new
        <4>3. Seen' = new
          BY <4>1, <4>2
        <4>4. QED
          BY <4>3 DEF new
      <3>6. UNCHANGED Sent
        BY <1>4 DEF import_set, Sent
      <3>7. QED
        BY <3>2, <3>5, <3>6 DEF Lattice!Receive
    <2>3. QED
      BY <2>1, <2>2
  <1>5. CASE UNCHANGED setVars
    BY <1>5 DEF setVars, Lattice!joinVars, Seen, Sent
  <1>6. QED
    BY <1>1, <1>2, <1>3, <1>4, <1>5 DEF SetNext, Lattice!Next

\* A brain's two tables implement the join lattice: replication converges by
\* union and a retraction dominates (replicated_set.rs module documentation).
THEOREM Refinement == SetSpec => ImplementsJoinSet
  <1>1. SetInv /\ [SetNext]_setVars => [Lattice!Next]_(Lattice!joinVars)
    BY NextRefines
  <1>2. QED
    BY InitRefines, <1>1, Safety, PTL DEF SetSpec, ImplementsJoinSet, Lattice!Spec
=============================================================================
