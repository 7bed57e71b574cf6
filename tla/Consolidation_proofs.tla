------------------------ MODULE Consolidation_proofs ------------------------
(***************************************************************************)
(* Proofs about Consolidation for any threads, memories, requests, batches *)
(* and bounds.  The argument: as long as no memory was linked to a hidden  *)
(* one, the edges are a strict order (Layered): linking an unhidden source *)
(* to an unhidden target, with what is behind the source, keeps it one, and *)
(* so does every deletion.  In a finite strict order each hidden memory is *)
(* behind a maximal one, which is not hidden, and transitivity makes that  *)
(* one edge away.  What a target is paid is a sum over a set, which takes  *)
(* its elements in any order (SumTakesOut); an open transaction has added  *)
(* each source it hides once (Pays).                                       *)
(***************************************************************************)
EXTENDS Consolidation, FiniteSetTheorems, NaturalsInduction, WellFoundedInduction, TLAPS

\* The edges are a strict order.
Layered(E) ==
  /\ \A x, y, z \in Key : <<x, y>> \in E /\ <<y, z>> \in E => <<x, z>> \in E
  /\ \A x \in Key : <<x, x>> \notin E

\* An edge leads from a memory that is there to one that is, unless pruned.
Supported(E, P, pr) == \A e \in E : e[1] \in P /\ e[2] \in P \union pr

\* What a call may rely on, given the rows P and the edges E.
CallIn(l, P, E, n, pr) ==
  /\ l.pc # "idle" => l.req \in Requests
  /\ l.pc = "idle" => l.req.summarise = FALSE
  /\ l.pc = "link" =>
       /\ l.req.target \in P
       /\ Supported(l.edges, P, pr)
       /\ ~n /\ l.req.target \notin HiddenIn(E) =>
            Layered(l.edges) /\ l.req.target \notin HiddenIn(l.edges)
       /\ l.req.summarise => HiddenIn(l.edges) \ HiddenIn(E) \subseteq l.read \union l.touched
  /\ l.req.summarise =>
       \A i \in 1 .. Len(l.req.sources) :
         (l.pc = "gather" => i < l.next) /\ l.req.sources[i] \in P =>
           l.req.sources[i] \in l.read \union l.touched \union {l.req.target}

LockInv == \A th \in Thread : At(th, "link") <=> lock = th

IInv ==
  /\ TypeOK
  /\ LockInv
  /\ Supported(edge, present, pruned)
  /\ ~nested => Layered(edge)
  /\ \A th \in Thread : CallIn(call[th], present, edge, nested, pruned)

-----------------------------------------------------------------------------
(* Sums over finite sets. *)

\* Among the subsets of a finite set that have some property, given as a set, one
\* has no smaller one below it (SumFunctionOnSet).
LEMMA SmallestSubset ==
  ASSUME NEW T, IsFiniteSet(T), NEW B, B \subseteq SUBSET T, B # {}
  PROVE  \E s \in B : \A r \in B : r \subseteq s => r = s
<1>1. IsWellFoundedOn(StrictSubsetOrdering(T), SUBSET T)
  BY FS_StrictSubsetOrderingWellFounded, FS_FiniteSubsetsOfFinite
<1>2. PICK s \in B : \A r \in B : ~ (<<r, s>> \in StrictSubsetOrdering(T))
  BY <1>1, WFMin
<1>3. ASSUME NEW r \in B, r \subseteq s, r # s PROVE FALSE
  BY <1>2, <1>3 DEF StrictSubsetOrdering
<1> QED BY <1>2, <1>3

Some(s) == CHOOSE x \in s : TRUE
\* What the fold computes on the subsets of s.
IsFold(w, s, it) ==
  it = [r \in SUBSET s |-> IF r = {} THEN 0 ELSE w[Some(r)] + it[r \ {Some(r)}]]

\* A sum is what the fold chosen gives for the whole set.
LEMMA SumIsFold ==
  ASSUME NEW w, NEW s
  PROVE  SumFunctionOnSet(w, s) = (CHOOSE it : IsFold(w, s, it))[s]
BY DEF SumFunctionOnSet, FoldFunctionOnSet, MapThenFoldSet, IsFold, Some

\* The step of the sum.
Unfolds(w, r) ==
  SumFunctionOnSet(w, r) =
    IF r = {} THEN 0 ELSE w[Some(r)] + SumFunctionOnSet(w, r \ {Some(r)})

\* The sum takes out one element after the other (SumFunctionOnSet).
LEMMA SumUnfolds ==
  ASSUME NEW w, NEW T, IsFiniteSet(T)
  PROVE  Unfolds(w, T)
<1> SUFFICES ASSUME ~Unfolds(w, T) PROVE FALSE
  OBVIOUS
<1> DEFINE B == {s \in SUBSET T : ~Unfolds(w, s)}
<1>1. PICK s \in B : \A r \in B : r \subseteq s => r = s
  <2>1. T \in B OBVIOUS
  <2> HIDE DEF B
  <2>2. B # {} BY <2>1
  <2>3. B \subseteq SUBSET T BY DEF B
  <2> QED BY <2>2, <2>3, SmallestSubset
<1>2. \A r \in SUBSET s : r # s => Unfolds(w, r)
  BY <1>1
<1> DEFINE Sum(r) == SumFunctionOnSet(w, r)
           rhs == IF s = {} THEN 0 ELSE w[Some(s)] + Sum(s \ {Some(s)})
           fold == [r \in SUBSET s |-> IF r = s THEN rhs ELSE Sum(r)]
<1>3. \A r \in SUBSET s : r # {} => Some(r) \in r
  BY DEF Some
<1>4. IsFold(w, s, fold)
  <2>1. ASSUME NEW r \in SUBSET s
        PROVE  fold[r] = IF r = {} THEN 0 ELSE w[Some(r)] + fold[r \ {Some(r)}]
    <3>1. r # {} => r \ {Some(r)} \in SUBSET s /\ r \ {Some(r)} # s
      BY <1>3
    <3>2. r # {} => fold[r \ {Some(r)}] = Sum(r \ {Some(r)})
      BY <3>1
    <3>3. fold[r] = IF r = s THEN rhs ELSE Sum(r)
      OBVIOUS
    <3> HIDE DEF fold
    <3>4. CASE r = s
      BY <3>2, <3>3, <3>4
    <3>5. CASE r # s
      <4>1. Sum(r) = IF r = {} THEN 0 ELSE w[Some(r)] + Sum(r \ {Some(r)})
        BY <1>2, <3>5 DEF Unfolds
      <4> QED BY <3>2, <3>3, <3>5, <4>1
    <3> QED BY <3>4, <3>5
  <2> DEFINE other == [r \in SUBSET s |-> IF r = {} THEN 0 ELSE w[Some(r)] + fold[r \ {Some(r)}]]
  <2>2. fold = [r \in SUBSET s |-> fold[r]]
    OBVIOUS
  <2>3. other = [r \in SUBSET s |-> other[r]]
    OBVIOUS
  <2>4. \A r \in SUBSET s : other[r] = fold[r]
    BY <2>1
  <2> HIDE DEF fold, other
  <2>5. fold = other
    BY <2>2, <2>3, <2>4
  <2> QED BY <2>5 DEF IsFold, other
<1> DEFINE it == CHOOSE it : IsFold(w, s, it)
<1>5. IsFold(w, s, it)
  BY <1>4
<1>6. Sum(s) = it[s]
  BY SumIsFold
<1> HIDE DEF it
<1>7. \A r \in SUBSET s : it[r] = IF r = {} THEN 0 ELSE w[Some(r)] + it[r \ {Some(r)}]
  <2> DEFINE body == [r \in SUBSET s |-> IF r = {} THEN 0 ELSE w[Some(r)] + it[r \ {Some(r)}]]
  <2>1. it = body
    BY <1>5 DEF IsFold
  <2>2. \A r \in SUBSET s : body[r] = IF r = {} THEN 0 ELSE w[Some(r)] + it[r \ {Some(r)}]
    OBVIOUS
  <2> HIDE DEF body
  <2> QED BY <2>1, <2>2
<1>8. \A r \in SUBSET s : r # s => it[r] = Sum(r)
  <2> SUFFICES ASSUME \E r \in SUBSET s : r # s /\ it[r] # Sum(r) PROVE FALSE
    OBVIOUS
  <2> DEFINE C == {r \in SUBSET s : r # s /\ it[r] # Sum(r)}
  <2>1. PICK r \in C : \A q \in C : q \subseteq r => q = r
    <3>1. C # {} OBVIOUS
    <3>2. C \subseteq SUBSET s OBVIOUS
    <3>3. IsFiniteSet(s) BY FS_Subset
    <3> HIDE DEF C
    <3> QED BY <3>1, <3>2, <3>3, SmallestSubset
  <2>2. Unfolds(w, r)
    BY <1>2
  <2>3. it[r] = IF r = {} THEN 0 ELSE w[Some(r)] + it[r \ {Some(r)}]
    BY <1>7
  <2>4. r # {} => it[r \ {Some(r)}] = Sum(r \ {Some(r)})
    BY <1>3, <2>1
  <2> QED BY <2>2, <2>3, <2>4 DEF Unfolds
<1>9. s # {} => it[s \ {Some(s)}] = Sum(s \ {Some(s)})
  BY <1>3, <1>8
<1>10. it[s] = IF s = {} THEN 0 ELSE w[Some(s)] + it[s \ {Some(s)}]
  BY <1>7
<1>11. Unfolds(w, s)
  BY <1>6, <1>9, <1>10 DEF Unfolds
<1> QED BY <1>11

\* A sum of natural numbers is one, and any element can be taken out of it
\* (SumFunctionOnSet).
LEMMA SumTakesOut ==
  ASSUME NEW w, NEW T, IsFiniteSet(T), \A y \in T : w[y] \in Nat
  PROVE  /\ SumFunctionOnSet(w, T) \in Nat
         /\ \A x \in T : SumFunctionOnSet(w, T) = w[x] + SumFunctionOnSet(w, T \ {x})
<1> DEFINE Sum(r) == SumFunctionOnSet(w, r)
           Good(r) == Sum(r) \in Nat /\ \A x \in r : Sum(r) = w[x] + Sum(r \ {x})
<1> SUFFICES ASSUME ~Good(T) PROVE FALSE
  OBVIOUS
<1> DEFINE B == {s \in SUBSET T : ~Good(s)}
<1>1. PICK s \in B : \A r \in B : r \subseteq s => r = s
  <2>1. B # {} /\ B \subseteq SUBSET T OBVIOUS
  <2> HIDE DEF B
  <2> QED BY <2>1, SmallestSubset
<1>2. s \in SUBSET T /\ ~Good(s) /\ \A r \in SUBSET s : r # s => Good(r)
  BY <1>1
<1> HIDE DEF B
<1>3. IsFiniteSet(s)
  BY <1>2, FS_Subset
<1>4. Unfolds(w, s)
  BY <1>3, SumUnfolds
<1>5. s # {}
  <2>1. s = {} => Sum(s) = 0 BY <1>4 DEF Unfolds
  <2> QED BY <1>2, <2>1
<1> DEFINE c == Some(s)
<1>6. c \in s
  BY <1>5 DEF Some
<1>7. Sum(s) = w[c] + Sum(s \ {c})
  BY <1>4, <1>5 DEF Unfolds
<1> HIDE DEF c
<1>8. Sum(s \ {c}) \in Nat /\ \A x \in s \ {c} : Sum(s \ {c}) = w[x] + Sum((s \ {c}) \ {x})
  BY <1>2, <1>6
<1>9. Sum(s) \in Nat
  BY <1>2, <1>6, <1>7, <1>8
<1>10. ASSUME NEW x \in s PROVE Sum(s) = w[x] + Sum(s \ {x})
  <2>1. CASE x = c BY <1>7, <2>1
  <2>2. CASE x # c
    <3>1. Sum(s \ {c}) = w[x] + Sum((s \ {c}) \ {x})
      BY <1>8, <2>2
    <3>2. Sum(s \ {x}) = w[c] + Sum((s \ {x}) \ {c})
      BY <1>2, <1>6, <2>2
    <3>3. (s \ {c}) \ {x} = (s \ {x}) \ {c}
      OBVIOUS
    <3>4. Sum((s \ {x}) \ {c}) \in Nat
      <4>1. Good((s \ {x}) \ {c}) BY <1>2, <1>6
      <4> QED BY <4>1
    <3>5. w[x] \in Nat /\ w[c] \in Nat
      BY <1>2, <1>6
    <3> DEFINE rest == Sum((s \ {x}) \ {c})
    <3>6. Sum(s) = w[c] + (w[x] + rest) /\ Sum(s \ {x}) = w[c] + rest
      BY <1>7, <3>1, <3>2, <3>3
    <3> HIDE DEF rest, Sum
    <3> QED BY <3>4, <3>5, <3>6 DEF rest
  <2> QED BY <2>1, <2>2
<1> QED BY <1>2, <1>9, <1>10

\* A sum is no less than that of a part (SumFunctionOnSet).
LEMMA SumGrows ==
  ASSUME NEW w, NEW T, IsFiniteSet(T), \A y \in T : w[y] \in Nat, NEW S \in SUBSET T
  PROVE  SumFunctionOnSet(w, S) <= SumFunctionOnSet(w, T)
<1> DEFINE Sum(r) == SumFunctionOnSet(w, r)
           B == {r \in SUBSET T : S \subseteq r /\ ~(Sum(S) <= Sum(r))}
<1> SUFFICES ASSUME T \in B PROVE FALSE
  OBVIOUS
<1>1. PICK s \in B : \A r \in B : r \subseteq s => r = s
  <2>1. B # {} /\ B \subseteq SUBSET T OBVIOUS
  <2> HIDE DEF B
  <2> QED BY <2>1, SmallestSubset
<1>2. \A r \in SUBSET T : Sum(r) \in Nat /\ \A x \in r : Sum(r) = w[x] + Sum(r \ {x})
  <2> TAKE r \in SUBSET T
  <2>1. IsFiniteSet(r) /\ \A y \in r : w[y] \in Nat BY FS_Subset
  <2> QED BY <2>1, SumTakesOut
<1>3. S \subseteq s /\ s \in SUBSET T /\ ~(Sum(S) <= Sum(s))
  BY <1>1
<1> HIDE DEF Sum
<1>4. PICK x \in s : x \notin S
  <2>1. s # S BY <1>2, <1>3
  <2> QED BY <1>3, <2>1
<1>5. Sum(S) <= Sum(s \ {x})
  BY <1>1, <1>3, <1>4
<1>6. w[x] \in Nat /\ Sum(S) \in Nat /\ Sum(s \ {x}) \in Nat /\ Sum(s) = w[x] + Sum(s \ {x})
  BY <1>2, <1>3, <1>4
<1> QED BY <1>3, <1>5, <1>6

-----------------------------------------------------------------------------
(* Edges. *)

\* A memory is hidden when it has an edge.
LEMMA HiddenHasEdge ==
  ASSUME NEW E, NEW k \in Key
  PROVE  k \in HiddenIn(E) <=> \E t \in Key : <<k, t>> \in E
BY DEF HiddenIn, TargetsIn

\* Removing memories with all their edges, or with those they are the source of,
\* leaves a strict order (delete_memory_by_key, DeleteRows).
LEMMA FewerLayered ==
  ASSUME NEW E \in SUBSET (Key \X Key), Layered(E), NEW keys
  PROVE  /\ Layered({e \in E : e[1] \notin keys})
         /\ \A k : Layered({e \in E : k \notin {e[1], e[2]}})
BY DEF Layered

\* Linking an unhidden source to an unhidden target keeps a strict order in which
\* the target is not hidden.
LEMMA LinkedLayered ==
  ASSUME NEW E \in SUBSET (Key \X Key), Layered(E), NEW s \in Key, NEW t \in Key, s # t,
         s \notin HiddenIn(E), t \notin HiddenIn(E)
  PROVE  Layered(Linked(E, s, t)) /\ t \notin HiddenIn(Linked(E, s, t))
<1> DEFINE F == Linked(E, s, t)
<1>1. \A x, y \in Key : <<x, y>> \in F <=> <<x, y>> \in E \/ (y = t /\ (x = s \/ (<<x, s>> \in E /\ x # t)))
  BY DEF Linked
<1>2. \A y \in Key : <<s, y>> \notin E /\ <<t, y>> \notin E
  BY HiddenHasEdge
<1> HIDE DEF F
<1>3. \A x, y, z \in Key : <<x, y>> \in F /\ <<y, z>> \in F => <<x, z>> \in F
  BY <1>1, <1>2 DEF Layered
<1>4. \A x \in Key : <<x, x>> \notin F
  BY <1>1, <1>2 DEF Layered
<1>5. t \notin HiddenIn(F)
  BY <1>1, <1>2, HiddenHasEdge
<1> QED BY <1>3, <1>4, <1>5 DEF F, Layered

\* An edge that linking adds leads from the source, or from behind it, to the target.
LEMMA LinkedFrom ==
  ASSUME NEW E \in SUBSET (Key \X Key), NEW s \in Key, NEW t \in Key
  PROVE  /\ Linked(E, s, t) \subseteq Key \X Key
         /\ \A e \in Linked(E, s, t) :
              e \in E \/ (e[2] = t /\ (e[1] = s \/ \E d \in E : d[1] = e[1] /\ d[2] = s))
<1>1. ASSUME NEW e \in Linked(E, s, t)
      PROVE  /\ e \in Key \X Key
             /\ e \in E \/ (e[2] = t /\ (e[1] = s \/ \E d \in E : d[1] = e[1] /\ d[2] = s))
  <2>1. e \in E \/ \E x \in Key : e = <<x, t>> /\ (x = s \/ <<x, s>> \in E)
    BY <1>1 DEF Linked
  <2>2. CASE e \in E
    BY <2>2
  <2>3. ASSUME NEW x \in Key, e = <<x, t>>, x = s \/ <<x, s>> \in E
        PROVE  /\ e \in Key \X Key
               /\ e[2] = t /\ (e[1] = s \/ \E d \in E : d[1] = e[1] /\ d[2] = s)
    <3>1. e \in Key \X Key /\ e[1] = x /\ e[2] = t BY <2>3
    <3>2. CASE <<x, s>> \in E
      <4>1. <<x, s>>[1] = x /\ <<x, s>>[2] = s OBVIOUS
      <4> QED BY <3>1, <3>2, <4>1
    <3> QED BY <2>3, <3>1, <3>2
  <2> QED BY <2>1, <2>2, <2>3
<1> QED BY <1>1

\* In a strict order each hidden memory is one edge from one that is not hidden.
LEMMA LayeredReachable ==
  ASSUME NEW E \in SUBSET (Key \X Key), Layered(E), NEW s \in HiddenIn(E)
  PROVE  TargetsIn(E, s) \ HiddenIn(E) # {}
<1> DEFINE N(t) == Cardinality(TargetsIn(E, t))
           S == {N(t) : t \in TargetsIn(E, s)}
<1>1. \A t \in Key : IsFiniteSet(TargetsIn(E, t)) /\ N(t) \in Nat
  <2> TAKE t \in Key
  <2>1. TargetsIn(E, t) \subseteq Key BY DEF TargetsIn
  <2> QED BY <2>1, ConsolidationConstants, FS_Subset, FS_CardinalityType
<1>2. S \subseteq Nat /\ S # {}
  BY <1>1 DEF HiddenIn, TargetsIn
<1>3. PICK m \in S : \A i \in S : <<i, m>> \notin OpToRel(<, Nat)
  BY <1>2, WFMin, NatLessThanWellFounded
<1>4. PICK t \in TargetsIn(E, s) : m = N(t)
  BY <1>3
<1>5. ASSUME NEW u \in TargetsIn(E, t) PROVE FALSE
  <2>1. t \in Key /\ u \in Key /\ s \in Key /\ <<s, t>> \in E /\ <<t, u>> \in E
    BY <1>4, <1>5 DEF TargetsIn, HiddenIn
  <2>2. u \in TargetsIn(E, s) BY <2>1 DEF TargetsIn, Layered
  <2>3. TargetsIn(E, u) \subseteq TargetsIn(E, t) /\ u \notin TargetsIn(E, u)
    BY <2>1 DEF TargetsIn, Layered
  <2>4. TargetsIn(E, u) # TargetsIn(E, t)
    BY <2>3, <1>5
  <2>5. N(u) < N(t)
    BY <2>1, <2>3, <2>4, <1>1, FS_Subset
  <2>6. N(u) \in Nat /\ N(t) \in Nat BY <1>1, <2>1
  <2>7. <<N(u), m>> \in OpToRel(<, Nat)
    BY <2>5, <2>6, <1>4 DEF OpToRel
  <2>8. N(u) \in S BY <2>2
  <2> QED BY <1>3, <2>7, <2>8
<1>6. t \notin HiddenIn(E)
  BY <1>5 DEF HiddenIn
<1> QED BY <1>4, <1>6

-----------------------------------------------------------------------------
(* What a call relies on. *)

\* A call without a transaction loses nothing when rows go or edges change.
LEMMA CallKept ==
  ASSUME NEW l, NEW P, NEW E, NEW n, NEW pr, CallIn(l, P, E, n, pr), l.pc # "link",
         NEW P2 \in SUBSET P, NEW E2, NEW n2, NEW pr2
  PROVE  CallIn(l, P2, E2, n2, pr2)
BY DEF CallIn

\* Nor when a row is written, which it takes note of.
LEMMA CallTouched ==
  ASSUME NEW l \in Call, NEW P \in SUBSET Key, NEW E, NEW n, NEW pr, CallIn(l, P, E, n, pr),
         l.pc # "link", NEW k \in Key
  PROVE  CallIn(Touched(l, k), P \union {k}, E, n, pr) /\ Touched(l, k) \in Call
<1>1. CASE l.pc = "idle"
  BY <1>1 DEF CallIn, Touched
<1>2. CASE l.pc # "idle"
  <2>1. Touched(l, k) = [l EXCEPT !.touched = @ \union {k}]
    BY <1>2 DEF Touched
  <2>2. Touched(l, k) \in Call
    BY <2>1 DEF Call
  <2>3. /\ Touched(l, k).pc = l.pc /\ Touched(l, k).req = l.req /\ Touched(l, k).next = l.next
        /\ Touched(l, k).read = l.read /\ Touched(l, k).touched = l.touched \union {k}
    BY <2>1 DEF Call
  <2> QED BY <2>2, <2>3 DEF CallIn
<1> QED BY <1>1, <1>2

\* A call that is over relies on nothing.
LEMMA CallIdle ==
  /\ Idle \in Call /\ Idle.pc = "idle"
  /\ \A P, E, n, pr : CallIn(Idle, P, E, n, pr)
BY DEF Idle, Call, CallIn, NoRequest

\* A call that changes in one field, which is all that its fields say of it.
LEMMA CallChanged ==
  ASSUME NEW l \in Call
  PROVE  /\ \A pc \in {"idle", "gather", "begin", "link"} :
              To(l, pc) \in Call /\ To(l, pc).pc = pc /\ To(l, pc).req = l.req /\ To(l, pc).next = l.next
              /\ To(l, pc).read = l.read /\ To(l, pc).touched = l.touched /\ To(l, pc).edges = l.edges
              /\ To(l, pc).linked = l.linked /\ To(l, pc).gain = l.gain
         /\ Past(l) \in Call /\ Past(l).pc = l.pc /\ Past(l).req = l.req /\ Past(l).next = l.next + 1
         /\ Past(l).read = l.read /\ Past(l).touched = l.touched /\ Past(l).edges = l.edges
         /\ Past(l).linked = l.linked /\ Past(l).gain = l.gain
<1>1. \A pc \in {"idle", "gather", "begin", "link"} : To(l, pc) \in Call
  BY DEF To, Call
<1>2. \A pc \in {"idle", "gather", "begin", "link"} :
        To(l, pc).pc = pc /\ To(l, pc).req = l.req /\ To(l, pc).next = l.next
        /\ To(l, pc).read = l.read /\ To(l, pc).touched = l.touched /\ To(l, pc).edges = l.edges
        /\ To(l, pc).linked = l.linked /\ To(l, pc).gain = l.gain
  BY DEF To, Call
<1>3. Past(l) \in Call
  BY DEF Past, Call
<1>4. /\ Past(l).pc = l.pc /\ Past(l).req = l.req /\ Past(l).next = l.next + 1
      /\ Past(l).read = l.read /\ Past(l).touched = l.touched /\ Past(l).edges = l.edges
      /\ Past(l).linked = l.linked /\ Past(l).gain = l.gain
  BY DEF Past, Call
<1> QED BY <1>1, <1>2, <1>3, <1>4

\* A request names memories.
LEMMA RequestTyped ==
  ASSUME NEW r \in Requests
  PROVE  /\ r.target \in Key /\ r.sources \in Seq(Key)
         /\ r.summarise \in BOOLEAN /\ r.abort \in BOOLEAN
         /\ Len(r.sources) \in Nat
         /\ \A i \in 1 .. Len(r.sources) : r.sources[i] \in Key
BY ConsolidationConstants

\* The call a thread is in, and that of the others, after it goes somewhere.
LEMMA Gone ==
  ASSUME TypeOK, NEW th \in Thread, NEW l \in Call, Goto(th, l)
  PROVE  /\ call' \in [Thread -> Call] /\ call'[th] = l
         /\ \A x \in Thread : x # th => call'[x] = call[x]
BY DEF TypeOK, Goto

\* When no transaction is open, no call links.
LEMMA NoLink ==
  ASSUME LockInv, lock = Nobody, NEW th \in Thread
  PROVE  call[th].pc # "link"
BY ConsolidationConstants DEF LockInv, At, Nobody

LEMMA InvInit == Init => IInv
<1> SUFFICES ASSUME Init PROVE IInv
  OBVIOUS
<1>1. TypeOK
  <2>1. present \subseteq Key /\ edge \subseteq Key \X Key /\ pruned \subseteq Key /\ nested \in BOOLEAN
    BY ConsolidationConstants DEF Init
  <2>2. score \in [Key -> 0 .. Cap]
    BY ConsolidationConstants DEF Init
  <2>3. call \in [Thread -> Call] /\ lock \in Thread \union {Nobody}
    BY CallIdle DEF Init
  <2>4. ops \in 0 .. MaxOps
    BY ConsolidationConstants DEF Init
  <2> QED BY <2>1, <2>2, <2>3, <2>4 DEF TypeOK
<1>2. LockInv
  BY CallIdle, ConsolidationConstants DEF Init, LockInv, At, Nobody
<1>3. Supported(edge, present, pruned) /\ Layered(edge)
  BY DEF Init, Supported, Layered
<1>4. \A th \in Thread : CallIn(call[th], present, edge, nested, pruned)
  BY CallIdle DEF Init
<1> QED BY <1>1, <1>2, <1>3, <1>4 DEF IInv

-----------------------------------------------------------------------------
(* The rows. *)

LEMMA RememberStep ==
  ASSUME IInv, NEW k \in Key, Remember(k)
  PROVE  IInv'
<1>1. /\ present' = present \union {k} /\ edge' = edge /\ lock = Nobody /\ lock' = lock
      /\ nested' = nested /\ pruned' = pruned /\ ops < MaxOps /\ ops' = ops + 1
      /\ score' = [score EXCEPT ![k] = IF k \in present THEN @ ELSE Initial]
      /\ call' = [th \in Thread |-> Touched(call[th], k)]
  BY DEF Remember, Counted, Put
<1>2. \A th \in Thread : /\ CallIn(Touched(call[th], k), present', edge', nested', pruned')
                         /\ Touched(call[th], k) \in Call
  BY <1>1, NoLink, CallTouched DEF IInv, TypeOK
<1>3. TypeOK'
  BY <1>1, <1>2, ConsolidationConstants DEF IInv, TypeOK
<1>4. \A th \in Thread : Touched(call[th], k).pc = call[th].pc
  BY DEF IInv, TypeOK, Call, Touched
<1>5. LockInv'
  BY <1>1, <1>4 DEF IInv, LockInv, At
<1>6. Supported(edge, present, pruned)' /\ (~nested => Layered(edge))'
  BY <1>1 DEF IInv, Supported
<1>7. \A th \in Thread : CallIn(call[th], present, edge, nested, pruned)'
  BY <1>1, <1>2
<1> QED BY <1>3, <1>5, <1>6, <1>7 DEF IInv

\* What takes rows away, with edges that stay supported and a strict order, keeps
\* what the calls rely on: no transaction is open.
LEMMA RowsGo ==
  ASSUME IInv, TypeOK', lock = Nobody, UNCHANGED <<lock, call, nested>>, present' \subseteq present,
         Supported(edge', present', pruned'), ~nested => Layered(edge')
  PROVE  IInv'
<1>1. \A th \in Thread : CallIn(call[th], present', edge', nested', pruned')
  BY NoLink, CallKept DEF IInv
<1>2. LockInv'
  BY DEF IInv, LockInv, At
<1> QED BY <1>1, <1>2 DEF IInv

LEMMA ForgetStep ==
  ASSUME IInv, NEW k \in Key, delete_memory_by_key(k)
  PROVE  IInv'
<1>1. /\ present' = present \ {k} /\ edge' = {e \in edge : k \notin {e[1], e[2]}} /\ lock = Nobody
      /\ UNCHANGED <<score, lock, call, nested, pruned>> /\ ops < MaxOps /\ ops' = ops + 1
  BY DEF delete_memory_by_key, Counted
<1>2. TypeOK'
  BY <1>1, ConsolidationConstants DEF IInv, TypeOK
<1>3. Supported(edge', present', pruned')
  BY <1>1 DEF IInv, TypeOK, Supported
<1>4. ~nested => Layered(edge')
  BY <1>1, FewerLayered DEF IInv, TypeOK
<1> QED BY <1>1, <1>2, <1>3, <1>4, RowsGo

LEMMA PruneStep ==
  ASSUME IInv, NEW keys \in Batches, DeleteRows(keys)
  PROVE  IInv'
<1>1. /\ present' = present \ keys /\ edge' = {e \in edge : e[1] \notin keys} /\ lock = Nobody
      /\ pruned' = pruned \union {e[2] : e \in {e \in edge' : e[2] \in keys}}
      /\ UNCHANGED <<score, lock, call, nested>> /\ ops < MaxOps /\ ops' = ops + 1
  BY DEF DeleteRows, Counted
<1>2. keys \subseteq Key /\ pruned' \subseteq Key
  BY <1>1, ConsolidationConstants DEF IInv, TypeOK
<1>3. TypeOK'
  BY <1>1, <1>2, ConsolidationConstants DEF IInv, TypeOK
<1>4. Supported(edge', present', pruned')
  BY <1>1 DEF IInv, TypeOK, Supported
<1>5. ~nested => Layered(edge')
  BY <1>1, FewerLayered DEF IInv, TypeOK
<1> QED BY <1>1, <1>3, <1>4, <1>5, RowsGo

LEMMA DecayStep ==
  ASSUME IInv, NEW keys \in Batches, apply_decay(keys)
  PROVE  IInv'
<1>1. /\ UNCHANGED <<present, edge, lock, call, nested, pruned>> /\ lock = Nobody
      /\ ops < MaxOps /\ ops' = ops + 1
      /\ score' = [k \in Key |->
                 IF k \notin present THEN score[k]
                 ELSE IF k \in keys THEN (IF score[k] < Cap THEN score[k] + 1 ELSE Cap)
                 ELSE IF score[k] > 0 THEN score[k] - 1 ELSE 0]
  BY DEF apply_decay, Counted
<1>2. score' \in [Key -> 0 .. Cap]
  BY <1>1, ConsolidationConstants DEF IInv, TypeOK
<1>3. TypeOK'
  BY <1>1, <1>2, ConsolidationConstants DEF IInv, TypeOK
<1> QED BY <1>1, <1>3, RowsGo DEF IInv

-----------------------------------------------------------------------------
(* The calls. *)

\* A call goes on, and the rows and edges stay.
LEMMA CallMoves ==
  ASSUME IInv, NEW th \in Thread, NEW l \in Call, Goto(th, l),
         UNCHANGED <<present, edge, score, nested, pruned>>, ops' \in 0 .. MaxOps,
         lock' \in Thread \union {Nobody}, l.pc = "link" <=> lock' = th,
         \A x \in Thread : x # th => (lock' = x <=> lock = x),
         CallIn(l, present, edge, nested, pruned)
  PROVE  IInv'
<1>1. TypeOK BY DEF IInv
<1>2. /\ call' \in [Thread -> Call] /\ call'[th] = l
      /\ \A x \in Thread : x # th => call'[x] = call[x]
  BY <1>1, Gone
<1>3. TypeOK'
  BY <1>1, <1>2 DEF TypeOK
<1>4. LockInv'
  BY <1>2 DEF IInv, LockInv, At
<1>5. Supported(edge, present, pruned)' /\ (~nested => Layered(edge))'
  BY DEF IInv, Supported
<1>6. \A x \in Thread : CallIn(call[x], present, edge, nested, pruned)'
  BY <1>2 DEF IInv
<1> QED BY <1>3, <1>4, <1>5, <1>6 DEF IInv

\* A call that is not linking has no transaction, and a request once it runs.
LEMMA CallFacts ==
  ASSUME IInv, NEW th \in Thread
  PROVE  /\ call[th] \in Call /\ call[th].pc \in {"idle", "gather", "begin", "link"}
         /\ call[th].pc = "link" <=> lock = th
         /\ lock \in Thread \union {Nobody} /\ Nobody \notin Thread
         /\ CallIn(call[th], present, edge, nested, pruned)
         /\ call[th].pc # "idle" => call[th].req \in Requests
         /\ ops \in 0 .. MaxOps
BY ConsolidationConstants DEF IInv, TypeOK, LockInv, At, Call, CallIn, Nobody

LEMMA StartStep ==
  ASSUME IInv, NEW th \in Thread, NEW r \in Requests, Start(th, r)
  PROVE  IInv'
<1> DEFINE p == IF r.summarise THEN "gather" ELSE "begin"
           l == [To(Idle, p) EXCEPT !.req = r]
<1>1. /\ call[th].pc = "idle" /\ Goto(th, l) /\ ops' \in 0 .. MaxOps
      /\ UNCHANGED <<present, edge, score, lock, nested, pruned>>
  BY CallFacts, ConsolidationConstants DEF Start, Counted, At
<1>2. /\ l.pc = (IF r.summarise THEN "gather" ELSE "begin") /\ l.req = r /\ l.next = 1 /\ l \in Call
  <2>1. p \in {"idle", "gather", "begin", "link"} /\ r \in Requests \union {NoRequest} /\ Idle.next = 1
    BY DEF Idle
  <2> HIDE DEF p
  <2>2. To(Idle, p) \in Call /\ To(Idle, p).pc = p /\ To(Idle, p).next = 1
    BY <2>1, CallIdle, CallChanged
  <2>3. l \in Call /\ l.req = r
    BY <2>1, <2>2 DEF Call
  <2>4. l.pc = To(Idle, p).pc /\ l.next = To(Idle, p).next
    BY <2>2 DEF Call
  <2> QED BY <2>2, <2>3, <2>4 DEF p
<1>3. CallIn(l, present, edge, nested, pruned)
  <2> HIDE DEF l, p
  <2>1. r.summarise \in BOOLEAN /\ Len(r.sources) \in Nat BY RequestTyped
  <2> QED BY <1>2, <2>1 DEF CallIn
<1> HIDE DEF l
<1>4. l.pc # "link"
  BY <1>2
<1> QED BY <1>1, <1>2, <1>3, <1>4, CallFacts, CallMoves

LEMMA GatherStep ==
  ASSUME IInv, NEW th \in Thread, Gather(th)
  PROVE  IInv'
<1> DEFINE l == call[th]
           m == [Past(l) EXCEPT !.read = @ \union Gathered(l)]
<1>1. /\ l.pc = "gather" /\ ~Exhausted(l) /\ Goto(th, m)
      /\ UNCHANGED <<present, edge, score, lock, nested, pruned, ops>>
  BY DEF Gather, At
<1>2. l \in Call /\ l.req \in Requests /\ CallIn(l, present, edge, nested, pruned)
  BY <1>1, CallFacts
<1>3. l.next \in Nat \ {0} /\ l.next <= Len(l.req.sources) /\ Len(l.req.sources) \in Nat
  BY <1>1, <1>2, RequestTyped DEF Call, Exhausted
<1>4. Source(l) \in Key /\ Source(l) = l.req.sources[l.next]
  BY <1>2, <1>3, RequestTyped DEF Source
<1>5. /\ m.pc = "gather" /\ m.req = l.req /\ m.next = l.next + 1 /\ m.touched = l.touched
      /\ m.read = l.read \union ({Source(l)} \intersect present) /\ m \in Call
  <2> DEFINE rd == l.read \union ({Source(l)} \intersect present)
  <2> HIDE DEF l
  <2>1. rd \in SUBSET Key /\ l.next + 1 \in Nat \ {0} /\ Past(l) \in Call
    BY <1>2, <1>3, <1>4 DEF Call, Past
  <2>2. Past(l).read = l.read BY <1>2 DEF Call, Past
  <2> HIDE DEF rd
  <2>3. m = [Past(l) EXCEPT !.read = rd]
    BY <2>2, <2>1 DEF rd, Gathered, Call
  <2> HIDE DEF m
  <2>4. m \in Call BY <2>1, <2>3 DEF Call
  <2>5. /\ m.pc = Past(l).pc /\ m.req = Past(l).req /\ m.next = Past(l).next
        /\ m.touched = Past(l).touched /\ m.read = rd
    BY <2>1, <2>3 DEF Call
  <2> QED BY <1>1, <1>2, <2>4, <2>5 DEF rd, Past, Call
<1>6. CallIn(m, present, edge, nested, pruned)
  <2> HIDE DEF m, l
  <2> QED BY <1>1, <1>2, <1>3, <1>4, <1>5 DEF CallIn
<1> HIDE DEF m, l
<1>7. m.pc # "link" /\ l.pc # "link"
  BY <1>1, <1>5
<1> QED BY <1>1, <1>5, <1>6, <1>7, CallFacts, CallMoves DEF l

\* A call that is over, and holds the lock no more.
LEMMA ReturnStep ==
  ASSUME IInv, NEW th \in Thread, Return(th), UNCHANGED <<present, edge, score, nested, pruned, ops>>,
         lock' = IF lock = th THEN Nobody ELSE lock
  PROVE  IInv'
<1>1. Goto(th, Idle) BY DEF Return
<1>2. Idle \in Call /\ Idle.pc # "link" /\ CallIn(Idle, present, edge, nested, pruned)
  BY CallIdle
<1>3. lock' \in Thread \union {Nobody} /\ lock' # th /\ ops' \in 0 .. MaxOps
      /\ \A x \in Thread : x # th => (lock' = x <=> lock = x)
  BY CallFacts
<1> QED BY <1>1, <1>2, <1>3, CallMoves

LEMMA WriteSummaryStep ==
  ASSUME IInv, NEW th \in Thread, WriteSummary(th)
  PROVE  IInv'
<1> DEFINE l == call[th]
           t == l.req.target
           m == [To(l, "begin") EXCEPT !.next = 1]
<1>1. l.pc = "gather" /\ Exhausted(l) /\ UNCHANGED <<edge, lock, nested, pruned, ops>>
  BY DEF WriteSummary, At
<1>2. l \in Call /\ l.req \in Requests /\ CallIn(l, present, edge, nested, pruned) /\ lock # th
  BY <1>1, CallFacts
<1>3. CASE l.read = {}
  BY <1>1, <1>2, <1>3, ReturnStep DEF WriteSummary
<1>4. CASE l.read # {}
  <2>1. /\ lock = Nobody /\ present' = present \union {t}
        /\ score' = [score EXCEPT ![t] = IF t \in present THEN @ ELSE Initial]
        /\ call' = [x \in Thread |-> IF x = th THEN m ELSE Touched(call[x], t)]
    BY <1>4 DEF WriteSummary, Put
  <2>2. t \in Key /\ Len(l.req.sources) \in Nat /\ \A i \in 1 .. Len(l.req.sources) : i < l.next
    BY <1>1, <1>2, RequestTyped DEF Exhausted, Call
  <2>3. m.pc = "begin" /\ m.req = l.req /\ m.read = l.read /\ m.touched = l.touched /\ m \in Call
    <3> HIDE DEF l
    <3>1. "begin" \in {"idle", "gather", "begin", "link"} OBVIOUS
    <3>2. /\ To(l, "begin") \in Call /\ To(l, "begin").pc = "begin" /\ To(l, "begin").req = l.req
          /\ To(l, "begin").read = l.read /\ To(l, "begin").touched = l.touched
      BY <1>2, <3>1, CallChanged
    <3>3. m \in Call BY <3>2 DEF Call
    <3>4. /\ m.pc = To(l, "begin").pc /\ m.req = To(l, "begin").req
          /\ m.read = To(l, "begin").read /\ m.touched = To(l, "begin").touched
      BY <3>2 DEF Call
    <3> QED BY <3>2, <3>3, <3>4
  <2>4. CallIn(m, present', edge', nested', pruned')
    <3> HIDE DEF m, l
    <3>1. present' = present \union {l.req.target} BY <2>1
    <3> HIDE DEF t
    <3> QED BY <1>1, <1>2, <2>2, <2>3, <3>1 DEF CallIn
  <2>5. \A x \in Thread : x # th =>
          CallIn(Touched(call[x], t), present', edge', nested', pruned') /\ Touched(call[x], t) \in Call
    <3> HIDE DEF t
    <3> QED BY <1>1, <2>1, <2>2, NoLink, CallTouched DEF IInv, TypeOK
  <2>6. \A x \in Thread : CallIn(call[x], present, edge, nested, pruned)' /\ call'[x] \in Call
    <3> HIDE DEF t, m, l
    <3> QED BY <2>1, <2>3, <2>4, <2>5
  <2>7. TypeOK'
    <3> HIDE DEF t, m, l
    <3>1. call' \in [Thread -> Call] BY <2>1, <2>6
    <3> QED BY <1>1, <2>1, <2>2, <3>1, ConsolidationConstants DEF IInv, TypeOK
  <2>8. LockInv'
    <3>1. \A x \in Thread : call'[x].pc = "link" <=> call[x].pc = "link"
      <4>1. \A x \in Thread : Touched(call[x], t).pc = call[x].pc
        BY DEF IInv, TypeOK, Call, Touched
      <4> HIDE DEF t, m
      <4> QED BY <1>1, <2>1, <2>3, <4>1
    <3> QED BY <1>1, <3>1 DEF IInv, LockInv, At
  <2>9. Supported(edge, present, pruned)' /\ (~nested => Layered(edge))'
    BY <1>1, <2>1 DEF IInv, Supported
  <2> QED BY <2>6, <2>7, <2>8, <2>9 DEF IInv
<1> QED BY <1>3, <1>4

LEMMA BeginTxStep ==
  ASSUME IInv, NEW th \in Thread, BeginTx(th)
  PROVE  IInv'
<1> DEFINE l == call[th]
           m == [To(l, "link") EXCEPT !.edges = edge]
<1>1. l.pc = "begin" /\ lock = Nobody /\ UNCHANGED <<present, edge, score, nested, pruned, ops>>
  BY DEF BeginTx, At
<1>2. l \in Call /\ l.req \in Requests /\ CallIn(l, present, edge, nested, pruned) /\ ops \in 0 .. MaxOps
  BY <1>1, CallFacts
<1>3. CASE l.req.target \notin present
  <2>1. Return(th) /\ lock' = lock BY <1>3 DEF BeginTx
  <2> QED BY <1>1, <2>1, CallFacts, ReturnStep
<1>4. CASE l.req.target \in present
  <2>1. lock' = th /\ Goto(th, m) BY <1>4 DEF BeginTx
  <2>2. /\ m.pc = "link" /\ m.req = l.req /\ m.read = l.read /\ m.touched = l.touched
        /\ m.edges = edge /\ m \in Call
    <3> HIDE DEF l
    <3>1. "link" \in {"idle", "gather", "begin", "link"} /\ edge \in SUBSET (Key \X Key)
      BY DEF IInv, TypeOK
    <3>2. /\ To(l, "link") \in Call /\ To(l, "link").pc = "link" /\ To(l, "link").req = l.req
          /\ To(l, "link").read = l.read /\ To(l, "link").touched = l.touched
      BY <1>2, <3>1, CallChanged
    <3>3. m \in Call /\ m.edges = edge BY <3>1, <3>2 DEF Call
    <3>4. /\ m.pc = To(l, "link").pc /\ m.req = To(l, "link").req
          /\ m.read = To(l, "link").read /\ m.touched = To(l, "link").touched
      BY <3>2 DEF Call
    <3> QED BY <3>2, <3>3, <3>4
  <2>3. CallIn(m, present, edge, nested, pruned)
    <3> HIDE DEF m, l
    <3> QED BY <1>1, <1>2, <1>4, <2>2 DEF CallIn, IInv
  <2> HIDE DEF m, l
  <2> QED BY <1>1, <1>2, <2>1, <2>2, <2>3, CallFacts, CallMoves
<1> QED BY <1>3, <1>4

\* What a transaction adds to the edges: the source was read, or written since.
LEMMA LinkedEdges ==
  ASSUME NEW l \in Call, l.pc = "link", l.req \in Requests, l.next \in 1 .. Len(l.req.sources),
         CallIn(l, present, edge, nested, pruned), Source(l) # l.req.target, Source(l) \in present,
         TargetsIn(l.edges, Source(l)) = {},
         NEW m \in Call, m.pc = "link", m.req = l.req, m.read = l.read, m.touched = l.touched,
         m.edges = Linked(l.edges, Source(l), l.req.target)
  PROVE  CallIn(m, present, edge, nested, pruned)
<1> DEFINE s == Source(l)
           t == l.req.target
<1>1. s \in Key /\ t \in Key /\ s = l.req.sources[l.next]
  BY RequestTyped DEF Source
<1>2. s \notin HiddenIn(l.edges) /\ l.edges \in SUBSET (Key \X Key)
  BY <1>1 DEF HiddenIn, Call
<1>3. Supported(m.edges, present, pruned)
  <2>1. Supported(l.edges, present, pruned) /\ t \in present BY DEF CallIn
  <2> HIDE DEF s, t
  <2> QED BY <1>1, <1>2, <2>1, LinkedFrom DEF Supported, s, t
<1>4. ~nested /\ t \notin HiddenIn(edge) => Layered(m.edges) /\ t \notin HiddenIn(m.edges)
  BY <1>1, <1>2, LinkedLayered DEF CallIn
<1>5. HiddenIn(m.edges) \subseteq HiddenIn(l.edges) \union {s}
  <2> SUFFICES ASSUME NEW x \in HiddenIn(m.edges), x # s PROVE x \in HiddenIn(l.edges)
    OBVIOUS
  <2>1. x \in Key BY DEF HiddenIn
  <2>2. PICK y \in Key : <<x, y>> \in m.edges BY <2>1, HiddenHasEdge
  <2>3. <<x, y>> \in l.edges \/ <<x, s>> \in l.edges
    BY <1>1, <2>1, <2>2 DEF Linked
  <2> QED BY <1>1, <2>1, <2>3, HiddenHasEdge
<1>6. l.req.summarise => s \in l.read \union l.touched
  BY <1>1 DEF CallIn
<1>7. l.req.summarise => HiddenIn(m.edges) \ HiddenIn(edge) \subseteq m.read \union m.touched
  BY <1>5, <1>6 DEF CallIn
<1> HIDE DEF s, t
<1> QED BY <1>3, <1>4, <1>7 DEF CallIn, t

LEMMA LinkStep ==
  ASSUME IInv, NEW th \in Thread, Link(th)
  PROVE  IInv'
<1> DEFINE l == call[th]
           s == Source(l)
           w == WithLinked(l, s)
           f == [w EXCEPT !.edges = Linked(@, s, l.req.target)]
<1>1. /\ l.pc = "link" /\ ~Exhausted(l) /\ UNCHANGED <<present, edge, score, lock, nested, pruned, ops>>
      /\ Skip(th) \/ LinkAgain(th) \/ LinkNew(th)
  BY DEF Link, At
<1>2. l \in Call /\ l.req \in Requests /\ CallIn(l, present, edge, nested, pruned) /\ lock = th
  BY <1>1, CallFacts
<1>3. l.next \in 1 .. Len(l.req.sources)
  BY <1>1, <1>2, RequestTyped DEF Call, Exhausted
<1>4. s \in Key /\ l.req.target \in Key
  BY <1>2, <1>3, RequestTyped DEF Source
<1>5. \A m \in Call : m.pc = "link" /\ m.req = l.req /\ m.read = l.read /\ m.touched = l.touched
                      /\ m.edges = l.edges => CallIn(m, present, edge, nested, pruned)
  <2> HIDE DEF l
  <2> QED BY <1>1, <1>2 DEF CallIn
<1>6. \A m \in Call : m.pc = "link" /\ Goto(th, m) /\ CallIn(m, present, edge, nested, pruned) => IInv'
  BY <1>1, <1>2, CallFacts, CallMoves
<1>7. CASE Skip(th)
  <2>1. Goto(th, Past(l)) BY <1>7 DEF Skip
  <2> QED BY <1>1, <1>2, <1>5, <1>6, <2>1, CallChanged
<1>8. /\ w \in Call /\ w.pc = "link" /\ w.req = l.req /\ w.read = l.read /\ w.touched = l.touched
      /\ w.edges = l.edges
  <2> DEFINE g == WithGain(l, s)
  <2>1. score[s] \in Nat
    BY <1>4, ConsolidationConstants DEF IInv, TypeOK
  <2> HIDE DEF s, l
  <2>2. g \in Call
    BY <1>2, <2>1 DEF WithGain, Call
  <2>3. g.pc = "link" /\ g.req = l.req /\ g.read = l.read /\ g.touched = l.touched
        /\ g.edges = l.edges /\ g.linked = l.linked
    BY <1>1, <1>2 DEF WithGain, Call
  <2> HIDE DEF g
  <2>4. /\ Past(g) \in Call /\ Past(g).pc = "link" /\ Past(g).req = l.req /\ Past(g).read = l.read
        /\ Past(g).touched = l.touched /\ Past(g).edges = l.edges
    BY <2>2, <2>3, CallChanged
  <2>5. w = [Past(g) EXCEPT !.linked = @ \union {s}]
    BY DEF g, WithLinked
  <2> HIDE DEF w
  <2>6. w \in Call
    BY <1>4, <2>4, <2>5 DEF Call
  <2>7. /\ w.pc = Past(g).pc /\ w.req = Past(g).req /\ w.read = Past(g).read
        /\ w.touched = Past(g).touched /\ w.edges = Past(g).edges
    BY <2>4, <2>5 DEF Call
  <2> QED BY <2>4, <2>6, <2>7
<1>9. CASE LinkAgain(th)
  <2>1. Goto(th, w) BY <1>9 DEF LinkAgain
  <2> HIDE DEF w
  <2> QED BY <1>5, <1>6, <1>8, <2>1
<1>10. CASE LinkNew(th)
  <2>1. s # l.req.target /\ s \in present /\ TargetsIn(l.edges, s) = {} /\ Goto(th, f)
    BY <1>10 DEF LinkNew
  <2> DEFINE F == Linked(l.edges, s, l.req.target)
  <2>2. F \in SUBSET (Key \X Key)
    <3>1. l.edges \in SUBSET (Key \X Key) BY <1>2 DEF Call
    <3> QED BY <1>4, <3>1, LinkedFrom
  <2> HIDE DEF w, s, l
  <2>3. f = [w EXCEPT !.edges = F]
    BY <1>8 DEF Call
  <2> HIDE DEF f, F
  <2>4. f \in Call /\ f.edges = F
    BY <1>8, <2>2, <2>3 DEF Call
  <2>5. f.pc = w.pc /\ f.req = w.req /\ f.read = w.read /\ f.touched = w.touched
    BY <1>8, <2>3 DEF Call
  <2>6. CallIn(f, present, edge, nested, pruned)
    BY <1>1, <1>2, <1>3, <1>8, <2>1, <2>4, <2>5, LinkedEdges DEF F, s
  <2> QED BY <1>6, <1>8, <2>1, <2>4, <2>5, <2>6
<1> QED BY <1>1, <1>7, <1>9, <1>10

LEMMA CommitStep ==
  ASSUME IInv, NEW th \in Thread, CommitTx(th)
  PROVE  IInv'
<1> DEFINE l == call[th]
           t == l.req.target
           v == IF l.linked = {} THEN score[t] ELSE Merged(l, t)
<1>1. /\ l.pc = "link" /\ edge' = l.edges /\ score' = [score EXCEPT ![t] = v] /\ lock' = Nobody
      /\ Goto(th, Idle) /\ nested' = (nested \/ (edge' # edge /\ t \in HiddenIn(edge)))
      /\ UNCHANGED <<present, pruned, ops>>
  BY DEF CommitTx, At, Return, Hidden
<1>2. /\ l \in Call /\ l.req \in Requests /\ CallIn(l, present, edge, nested, pruned) /\ lock = th
      /\ TypeOK
  BY <1>1, CallFacts DEF IInv
<1>3. t \in Key /\ l.edges \in SUBSET (Key \X Key)
  BY <1>2, RequestTyped DEF Call
<1>4. v \in 0 .. Cap
  <2>1. score[t] \in 0 .. Cap /\ l.gain \in Nat
    BY <1>2, <1>3 DEF TypeOK, Call
  <2> HIDE DEF t
  <2> QED BY <2>1, ConsolidationConstants DEF Merged
<1>5. /\ call' \in [Thread -> Call] /\ call'[th] = Idle
      /\ \A x \in Thread : x # th => call'[x] = call[x]
  BY <1>1, <1>2, CallIdle, Gone
<1> HIDE DEF v, l, t
<1>6. TypeOK'
  <2>1. nested' \in BOOLEAN /\ lock' \in Thread \union {Nobody}
    BY <1>1, <1>2 DEF TypeOK
  <2>2. score' \in [Key -> 0 .. Cap]
    BY <1>1, <1>2, <1>3, <1>4 DEF TypeOK
  <2> QED BY <1>1, <1>2, <1>3, <1>5, <2>1, <2>2 DEF TypeOK
<1>7. \A x \in Thread : x # th => call[x].pc # "link"
  BY <1>2 DEF IInv, LockInv, At
<1>8. LockInv'
  BY <1>1, <1>5, <1>7, CallIdle, CallFacts DEF LockInv, At
<1>9. Supported(edge', present', pruned')
  BY <1>1, <1>2 DEF CallIn
<1>10. ASSUME ~nested' PROVE Layered(edge')
  <2>1. ~nested /\ (edge' = edge \/ t \notin HiddenIn(edge))
    BY <1>1, <1>10
  <2>2. CASE edge' = edge
    BY <2>1, <2>2 DEF IInv
  <2>3. CASE t \notin HiddenIn(edge)
    BY <1>1, <1>2, <2>1, <2>3 DEF CallIn, t
  <2> QED BY <2>1, <2>2, <2>3
<1>11. \A x \in Thread : CallIn(call'[x], present', edge', nested', pruned')
  <2> TAKE x \in Thread
  <2>1. CASE x = th
    BY <2>1, <1>5, CallIdle
  <2>2. CASE x # th
    BY <2>2, <1>1, <1>5, <1>7, CallKept DEF IInv
  <2> QED BY <2>1, <2>2
<1> QED BY <1>6, <1>8, <1>9, <1>10, <1>11 DEF IInv

LEMMA FailStep ==
  ASSUME IInv, NEW th \in Thread, Abort(th) \/ Fail(th)
  PROVE  IInv'
<1>1. CASE Abort(th)
  <2>1. At(th, "link") /\ edge' = edge /\ lock' = Nobody /\ Return(th)
        /\ UNCHANGED <<present, score, nested, pruned, ops>>
    BY <1>1 DEF Abort, RolledBack
  <2>2. lock = th BY <2>1 DEF IInv, LockInv
  <2> QED BY <2>1, <2>2, ReturnStep
<1>2. CASE Fail(th)
  BY <1>2, ReturnStep DEF Fail, RolledBack
<1> QED BY <1>1, <1>2

LEMMA CrashStep ==
  ASSUME IInv, Crash
  PROVE  IInv'
<1>1. /\ lock' = Nobody /\ call' = [th \in Thread |-> Idle]
      /\ UNCHANGED <<present, edge, score, nested, pruned, ops>>
  BY DEF Crash
<1>2. TypeOK'
  BY <1>1, CallIdle DEF IInv, TypeOK
<1>3. LockInv'
  BY <1>1, CallIdle, ConsolidationConstants DEF LockInv, At, Nobody
<1>4. Supported(edge, present, pruned)' /\ (~nested => Layered(edge))'
  BY <1>1 DEF IInv, Supported
<1>5. \A th \in Thread : CallIn(call[th], present, edge, nested, pruned)'
  BY <1>1, CallIdle
<1> QED BY <1>2, <1>3, <1>4, <1>5 DEF IInv

LEMMA InvNext == IInv /\ [Next]_vars => IInv'
<1> SUFFICES ASSUME IInv, [Next]_vars PROVE IInv'
  OBVIOUS
<1>1. CASE UNCHANGED vars
  <2>1. UNCHANGED <<present, edge, score, lock, call, nested, pruned, ops>>
    BY <1>1 DEF vars
  <2>2. TypeOK' /\ LockInv' /\ Supported(edge, present, pruned)' /\ (~nested => Layered(edge))'
    BY <2>1 DEF IInv, TypeOK, LockInv, At, Supported
  <2>3. \A th \in Thread : CallIn(call[th], present, edge, nested, pruned)'
    BY <2>1 DEF IInv
  <2> QED BY <2>2, <2>3 DEF IInv
<1>2. ASSUME NEW k \in Key, Remember(k) \/ delete_memory_by_key(k) PROVE IInv'
  BY <1>2, RememberStep, ForgetStep
<1>3. ASSUME NEW keys \in Batches, DeleteRows(keys) \/ apply_decay(keys) PROVE IInv'
  BY <1>3, PruneStep, DecayStep
<1>4. ASSUME NEW th \in Thread, NEW r \in Requests, Start(th, r) PROVE IInv'
  BY <1>4, StartStep
<1>5. ASSUME NEW th \in Thread, Gather(th) \/ WriteSummary(th) PROVE IInv'
  BY <1>5, GatherStep, WriteSummaryStep
<1>6. ASSUME NEW th \in Thread, BeginTx(th) \/ Link(th) \/ CommitTx(th) PROVE IInv'
  BY <1>6, BeginTxStep, LinkStep, CommitStep
<1>7. ASSUME NEW th \in Thread, Abort(th) \/ Fail(th) PROVE IInv'
  BY <1>7, FailStep
<1> QED BY <1>1, <1>2, <1>3, <1>4, <1>5, <1>6, <1>7, CrashStep DEF Next

-----------------------------------------------------------------------------
(* The theorems. *)

\* The inductive invariant, which the others rest on.
THEOREM Invariance == Spec => []IInv
BY InvInit, InvNext, PTL DEF Spec

\* consolidate_into never leaves a transaction open without its thread, nor an edge
\* to a memory that is gone, except where rows were pruned.
THEOREM EdgesHold == Spec => []ConsolidationInv
<1>1. IInv => ConsolidationInv
  BY DEF IInv, LockInv, Supported, ConsolidationInv
<1> QED BY <1>1, Invariance, PTL

\* As long as nothing is linked to a hidden memory, one look behind a memory that recall
\* can return finds whatever consolidate_into hid, through any interleaving of
\* consolidations, failures, crashes and forgets; only a pruned target can be missing.
THEOREM Reachable == Spec => []SourcesStayReachable
<1>1. IInv => SourcesStayReachable
  <2> SUFFICES ASSUME IInv, ~nested, NEW s \in Hidden
               PROVE  Fronts(s) # {} \/ \E t \in TargetsIn(edge, s) : t \in pruned \ present
    BY DEF SourcesStayReachable
  <2>1. Layered(edge) /\ edge \in SUBSET (Key \X Key)
    BY DEF IInv, TypeOK
  <2>2. PICK t \in TargetsIn(edge, s) : t \notin Hidden
    BY <2>1, LayeredReachable DEF Hidden
  <2>3. t \in present \union pruned
    <3>1. <<s, t>> \in edge BY <2>2 DEF TargetsIn
    <3>2. <<s, t>>[2] = t OBVIOUS
    <3> QED BY <3>1, <3>2 DEF IInv, Supported
  <2>4. CASE t \in present
    BY <2>2, <2>4 DEF Fronts
  <2>5. CASE t \notin present
    BY <2>2, <2>3, <2>5
  <2> QED BY <2>4, <2>5
<1> QED BY <1>1, Invariance, PTL

\* While a transaction is open the edges stay, until it commits its own.
LEMMA EdgeSteps ==
  ASSUME IInv, [Next]_vars, NEW th \in Thread, lock = th
  PROVE  edge' = edge \/ edge' = call[th].edges
<1>1. lock # Nobody
  BY ConsolidationConstants DEF Nobody
<1>2. ASSUME NEW x \in Thread, CommitTx(x) PROVE edge' = call[th].edges
  BY <1>2 DEF CommitTx, IInv, LockInv
<1>3. ASSUME NEW x \in Thread,
             \/ \E r \in Requests : Start(x, r)
             \/ Gather(x) \/ WriteSummary(x) \/ BeginTx(x) \/ Link(x) \/ Abort(x) \/ Fail(x)
      PROVE  edge' = edge
  BY <1>3 DEF Start, Gather, WriteSummary, BeginTx, Link, Abort, Fail, RolledBack
<1>4. ASSUME NEW k \in Key, Remember(k) \/ delete_memory_by_key(k) PROVE FALSE
  BY <1>1, <1>4 DEF Remember, delete_memory_by_key
<1>5. ASSUME NEW keys \in Batches, DeleteRows(keys) \/ apply_decay(keys) PROVE FALSE
  BY <1>1, <1>5 DEF DeleteRows, apply_decay
<1>6. CASE Crash \/ UNCHANGED vars
  BY <1>6 DEF Crash, vars
<1> QED BY <1>2, <1>3, <1>4, <1>5, <1>6 DEF Next

\* consolidate_with hides only what its summary was made from, or what was written
\* while it ran.
THEOREM HiddenRead == Spec => HiddenWasRead
<1> DEFINE A(th) == call[th].req.summarise /\ At(th, "link") /\ ~(At(th, "link"))' =>
                      Hidden' \ Hidden \subseteq call[th].read \union call[th].touched
<1>1. ASSUME IInv, [Next]_vars PROVE \A th \in Thread : A(th)
  <2> TAKE th \in Thread
  <2> SUFFICES ASSUME call[th].req.summarise, call[th].pc = "link"
               PROVE  Hidden' \ Hidden \subseteq call[th].read \union call[th].touched
    BY DEF At
  <2>1. lock = th BY <1>1, CallFacts
  <2>2. HiddenIn(call[th].edges) \ HiddenIn(edge) \subseteq call[th].read \union call[th].touched
    BY <1>1, CallFacts DEF CallIn
  <2>3. edge' = edge \/ edge' = call[th].edges
    BY <1>1, <2>1, EdgeSteps
  <2>4. Hidden' = HiddenIn(edge') /\ Hidden = HiddenIn(edge)
    BY DEF Hidden, HiddenIn, TargetsIn
  <2> QED BY <2>2, <2>3, <2>4
<1>2. IInv /\ [Next]_vars => [\A th \in Thread : A(th)]_vars
  BY <1>1
<1> QED BY <1>2, Invariance, PTL DEF Spec, HiddenWasRead

-----------------------------------------------------------------------------
(* What a target is paid. *)

\* What a call has done of its transaction, given the edges E and the scores: a
\* memory that it would hide goes behind the target, and was counted once.
Pays(l, E, sc) ==
  /\ l.pc # "link" => l.linked = {} /\ l.gain = 0
  /\ l.pc = "link" =>
       /\ l.gain = SumFunctionOnSet(sc, l.linked)
       /\ \A s, t \in Key : s \notin HiddenIn(E) /\ <<s, t>> \in l.edges =>
            t = l.req.target /\ s \in l.linked

PaidInv == \A th \in Thread : Pays(call[th], edge, score)

\* A call that is not linking has counted nothing, whatever the rows are, nor has
\* one that begins.
LEMMA PaysNothing ==
  /\ Idle.linked = {} /\ Idle.gain = 0
  /\ \A E, sc : Pays(Idle, E, sc)
  /\ \A l, E, sc, E2, sc2 : l.pc # "link" /\ Pays(l, E, sc) => Pays(l, E2, sc2)
  /\ \A sc : SumFunctionOnSet(sc, {}) = 0
<1>1. \A sc : SumFunctionOnSet(sc, {}) = 0
  BY FS_EmptySet, SumUnfolds DEF Unfolds
<1> QED BY <1>1 DEF Pays, Idle

\* A call that takes note of a row that was written.
LEMMA PaysTouched ==
  ASSUME NEW l \in Call, NEW k \in Key, NEW E, NEW sc, l.pc # "link", Pays(l, E, sc), NEW sc2
  PROVE  Pays(Touched(l, k), E, sc2)
<1>1. CASE l.pc = "idle"
  BY <1>1 DEF Touched, Pays
<1>2. CASE l.pc # "idle"
  <2>1. /\ Touched(l, k).pc = l.pc /\ Touched(l, k).linked = l.linked
        /\ Touched(l, k).gain = l.gain
    BY <1>2 DEF Touched, Call
  <2> QED BY <2>1 DEF Pays
<1> QED BY <1>1, <1>2

\* One call goes on, and edges and scores stay.
LEMMA PaidMoves ==
  ASSUME IInv, PaidInv, NEW th \in Thread, NEW l \in Call, Goto(th, l), UNCHANGED <<edge, score>>,
         Pays(l, edge, score)
  PROVE  PaidInv'
<1>1. call'[th] = l /\ \A x \in Thread : x # th => call'[x] = call[x]
  BY Gone DEF IInv
<1> QED BY <1>1 DEF PaidInv

\* No transaction is open, and the calls stay but for a row they take note of.
LEMMA PaidRows ==
  ASSUME IInv, PaidInv, lock = Nobody,
         call' = call \/ \E k \in Key : call' = [th \in Thread |-> Touched(call[th], k)]
  PROVE  PaidInv'
<1> SUFFICES ASSUME NEW th \in Thread PROVE Pays(call'[th], edge', score')
  BY DEF PaidInv
<1>1. call[th] \in Call /\ call[th].pc # "link" /\ Pays(call[th], edge, score)
  BY NoLink DEF IInv, TypeOK, PaidInv
<1>2. Pays(call[th], edge', score)
  BY <1>1, PaysNothing
<1>3. CASE call' = call
  BY <1>1, <1>3, PaysNothing
<1>4. ASSUME NEW k \in Key, call' = [x \in Thread |-> Touched(call[x], k)]
      PROVE  Pays(call'[th], edge', score')
  <2>1. call'[th] = Touched(call[th], k) BY <1>4
  <2> QED BY <1>1, <1>2, <2>1, PaysTouched
<1> QED BY <1>3, <1>4

\* What the statement for one source does to the call.
LEMMA LinkCounts ==
  ASSUME NEW l \in Call, NEW s \in Key, score[s] \in Nat
  PROVE  LET w == WithLinked(l, s)
         IN  /\ w \in Call /\ w.pc = l.pc /\ w.req = l.req /\ w.edges = l.edges
             /\ w.linked = l.linked \union {s}
             /\ w.gain = IF s \in l.linked THEN l.gain ELSE l.gain + score[s]
<1> DEFINE g == WithGain(l, s)
           w == WithLinked(l, s)
           n == IF s \in l.linked THEN l.gain ELSE l.gain + score[s]
<1>1. n \in Nat
  BY DEF Call
<1>2. g = [l EXCEPT !.gain = n]
  BY DEF WithGain, Call
<1> HIDE DEF g, n
<1>3. g \in Call /\ g.pc = l.pc /\ g.req = l.req /\ g.edges = l.edges /\ g.linked = l.linked /\ g.gain = n
  BY <1>1, <1>2 DEF Call
<1>4. /\ Past(g) \in Call /\ Past(g).pc = l.pc /\ Past(g).req = l.req /\ Past(g).edges = l.edges
      /\ Past(g).linked = l.linked /\ Past(g).gain = n
  BY <1>3, CallChanged
<1>5. w = [Past(g) EXCEPT !.linked = @ \union {s}]
  BY DEF g, WithLinked
<1> HIDE DEF w
<1>6. w \in Call /\ w.linked = l.linked \union {s}
  BY <1>4, <1>5 DEF Call
<1>7. w.pc = l.pc /\ w.req = l.req /\ w.edges = l.edges /\ w.gain = n
  BY <1>4, <1>5 DEF Call
<1> QED BY <1>6, <1>7 DEF w, n

\* A source is counted once, however often it is linked.
LEMMA GainIsSum ==
  ASSUME TypeOK, NEW l \in Call, NEW s \in Key, l.gain = SumFunctionOnSet(score, l.linked)
  PROVE  WithLinked(l, s).gain = SumFunctionOnSet(score, l.linked \union {s})
<1>1. \A k \in Key : score[k] \in Nat
  BY ConsolidationConstants DEF TypeOK
<1>2. WithLinked(l, s).gain = IF s \in l.linked THEN l.gain ELSE l.gain + score[s]
  BY <1>1, LinkCounts
<1>3. CASE s \in l.linked
  <2>1. l.linked \union {s} = l.linked BY <1>3
  <2> QED BY <1>2, <1>3, <2>1
<1>4. CASE s \notin l.linked
  <2> DEFINE S == l.linked \union {s}
  <2>1. S \in SUBSET Key BY DEF Call
  <2>2. IsFiniteSet(S) /\ \A k \in S : score[k] \in Nat
    BY <1>1, <2>1, ConsolidationConstants, FS_Subset
  <2>3. s \in S /\ S \ {s} = l.linked BY <1>4
  <2> HIDE DEF S
  <2>4. SumFunctionOnSet(score, S) = score[s] + SumFunctionOnSet(score, l.linked)
    BY <2>2, <2>3, SumTakesOut
  <2>5. l.gain \in Nat /\ score[s] \in Nat BY <1>1 DEF Call
  <2> QED BY <1>2, <1>4, <2>4, <2>5 DEF S
<1> QED BY <1>3, <1>4

LEMMA PaidLink ==
  ASSUME IInv, PaidInv, NEW th \in Thread, Link(th)
  PROVE  PaidInv'
<1> DEFINE l == call[th]
           s == Source(l)
           w == WithLinked(l, s)
           f == [w EXCEPT !.edges = Linked(@, s, l.req.target)]
<1>1. l.pc = "link" /\ ~Exhausted(l) /\ UNCHANGED <<edge, score>> /\ (Skip(th) \/ LinkAgain(th) \/ LinkNew(th))
  BY DEF Link, At
<1>2. l \in Call /\ l.req \in Requests /\ TypeOK /\ Pays(l, edge, score)
  BY <1>1, CallFacts DEF IInv, PaidInv
<1>3. l.next \in 1 .. Len(l.req.sources)
  BY <1>1, <1>2, RequestTyped DEF Call, Exhausted
<1>4. s \in Key /\ l.req.target \in Key
  BY <1>2, <1>3, RequestTyped DEF Source
<1>5. /\ l.gain = SumFunctionOnSet(score, l.linked)
      /\ \A x, t \in Key : x \notin HiddenIn(edge) /\ <<x, t>> \in l.edges =>
           t = l.req.target /\ x \in l.linked
  BY <1>1, <1>2 DEF Pays
<1>6. CASE Skip(th)
  <2>1. Goto(th, Past(l)) BY <1>6 DEF Skip
  <2> HIDE DEF l
  <2>2. Past(l) \in Call /\ Pays(Past(l), edge, score)
    BY <1>1, <1>2, CallChanged DEF Pays
  <2> QED BY <1>1, <2>1, <2>2, PaidMoves
<1> HIDE DEF l, s
<1>7. score[s] \in Nat
  BY <1>2, <1>4, ConsolidationConstants DEF TypeOK
<1>8. /\ w \in Call /\ w.pc = "link" /\ w.req = l.req /\ w.edges = l.edges
      /\ w.linked = l.linked \union {s}
  BY <1>1, <1>2, <1>4, <1>7, LinkCounts
<1>9. w.gain = SumFunctionOnSet(score, w.linked)
  BY <1>2, <1>4, <1>5, <1>8, GainIsSum
<1> HIDE DEF w
<1>10. CASE LinkAgain(th)
  <2>1. Goto(th, w) BY <1>10 DEF LinkAgain, w, l, s
  <2>2. Pays(w, edge, score)
    BY <1>5, <1>8, <1>9 DEF Pays
  <2> QED BY <1>1, <1>8, <2>1, <2>2, PaidMoves
<1>11. CASE LinkNew(th)
  <2> DEFINE F == Linked(l.edges, s, l.req.target)
  <2>1. s # l.req.target /\ TargetsIn(l.edges, s) = {} /\ Goto(th, f)
    BY <1>11 DEF LinkNew, l, s, w
  <2>2. F \in SUBSET (Key \X Key)
    <3>1. l.edges \in SUBSET (Key \X Key) BY <1>2 DEF Call
    <3> QED BY <1>4, <3>1, LinkedFrom
  <2>3. f = [w EXCEPT !.edges = F]
    BY <1>8 DEF Call
  <2>4. ASSUME NEW x \in Key, NEW t \in Key, x \notin HiddenIn(edge), <<x, t>> \in F
        PROVE  t = l.req.target /\ x \in l.linked \union {s}
    <3>1. <<x, t>> \in l.edges \/ (t = l.req.target /\ (x = s \/ <<x, s>> \in l.edges))
      BY <2>4 DEF Linked
    <3> QED BY <1>4, <1>5, <2>1, <2>4, <3>1
  <2> HIDE DEF f, F
  <2>5. f \in Call /\ f.edges = F
    BY <1>8, <2>2, <2>3 DEF Call
  <2>6. f.pc = w.pc /\ f.req = w.req /\ f.linked = w.linked /\ f.gain = w.gain
    BY <1>8, <2>3 DEF Call
  <2>7. Pays(f, edge, score)
    BY <1>8, <1>9, <2>4, <2>5, <2>6 DEF Pays
  <2> QED BY <1>1, <2>1, <2>5, <2>7, PaidMoves
<1> QED BY <1>1, <1>6, <1>10, <1>11

LEMMA PaidBegin ==
  ASSUME IInv, PaidInv, NEW th \in Thread, BeginTx(th)
  PROVE  PaidInv'
<1> DEFINE l == call[th]
           m == [To(l, "link") EXCEPT !.edges = edge]
<1>1. l.pc = "begin" /\ UNCHANGED <<edge, score>> /\ (Goto(th, m) \/ Return(th))
  BY DEF BeginTx, At
<1>2. l \in Call /\ l.linked = {} /\ l.gain = 0 /\ edge \in SUBSET (Key \X Key)
  BY <1>1, CallFacts DEF PaidInv, Pays, IInv, TypeOK
<1>3. CASE Return(th)
  BY <1>1, <1>3, CallIdle, PaysNothing, PaidMoves DEF Return
<1>4. CASE Goto(th, m)
  <2> HIDE DEF l
  <2>1. /\ To(l, "link") \in Call /\ To(l, "link").pc = "link"
        /\ To(l, "link").linked = {} /\ To(l, "link").gain = 0
    BY <1>2, CallChanged
  <2>2. m \in Call /\ m.edges = edge
    BY <1>2, <2>1 DEF Call
  <2>3. m.pc = "link" /\ m.linked = {} /\ m.gain = 0
    BY <1>2, <2>1 DEF Call
  <2>4. \A s, t \in Key : <<s, t>> \in edge => s \in HiddenIn(edge)
    BY HiddenHasEdge
  <2> HIDE DEF m
  <2>5. Pays(m, edge, score)
    BY <2>2, <2>3, <2>4, PaysNothing DEF Pays
  <2> QED BY <1>1, <1>4, <2>2, <2>5, PaidMoves
<1> QED BY <1>1, <1>3, <1>4

LEMMA PaidSummary ==
  ASSUME IInv, PaidInv, NEW th \in Thread, WriteSummary(th)
  PROVE  PaidInv'
<1> DEFINE l == call[th]
           t == l.req.target
           m == [To(l, "begin") EXCEPT !.next = 1]
<1>1. l.pc = "gather" /\ edge' = edge /\ lock' = lock
  BY DEF WriteSummary, At
<1>2. l \in Call /\ l.linked = {} /\ l.gain = 0 /\ t \in Key
  BY <1>1, CallFacts, RequestTyped DEF PaidInv, Pays
<1>3. CASE l.read = {}
  BY <1>1, <1>3, CallIdle, PaysNothing, PaidMoves DEF WriteSummary, Return
<1>4. CASE l.read # {}
  <2>1. /\ lock = Nobody
        /\ call' = [x \in Thread |-> IF x = th THEN m ELSE Touched(call[x], t)]
    BY <1>4 DEF WriteSummary
  <2>2. m.pc = "begin" /\ m.linked = {} /\ m.gain = 0
    <3> HIDE DEF l
    <3>1. /\ To(l, "begin") \in Call /\ To(l, "begin").pc = "begin"
          /\ To(l, "begin").linked = {} /\ To(l, "begin").gain = 0
      BY <1>2, CallChanged
    <3> QED BY <3>1 DEF Call
  <2> HIDE DEF m, t, l
  <2>3. Pays(m, edge', score')
    BY <2>2 DEF Pays
  <2>4. \A x \in Thread : Pays(Touched(call[x], t), edge', score')
    <3> TAKE x \in Thread
    <3>1. call[x] \in Call /\ call[x].pc # "link" /\ Pays(call[x], edge, score)
      BY <2>1, NoLink DEF IInv, TypeOK, PaidInv
    <3> QED BY <1>1, <1>2, <3>1, PaysTouched
  <2> QED BY <2>1, <2>3, <2>4 DEF PaidInv
<1> QED BY <1>3, <1>4

LEMMA PaidStarts ==
  ASSUME IInv, PaidInv, NEW th \in Thread, (\E r \in Requests : Start(th, r)) \/ Gather(th)
  PROVE  PaidInv'
<1>1. ASSUME NEW r \in Requests, Start(th, r) PROVE PaidInv'
  <2> DEFINE p == IF r.summarise THEN "gather" ELSE "begin"
             l == [To(Idle, p) EXCEPT !.req = r]
  <2>1. Goto(th, l) /\ UNCHANGED <<edge, score>>
    BY <1>1 DEF Start
  <2>2. p \in {"gather", "begin"} /\ r \in Requests \union {NoRequest}
    OBVIOUS
  <2> HIDE DEF p
  <2>3. /\ To(Idle, p) \in Call /\ To(Idle, p).pc = p
        /\ To(Idle, p).linked = {} /\ To(Idle, p).gain = 0
    BY <2>2, CallIdle, CallChanged, PaysNothing
  <2>4. l \in Call /\ l.pc = p /\ l.linked = {} /\ l.gain = 0
    BY <2>2, <2>3 DEF Call
  <2> HIDE DEF l
  <2>5. Pays(l, edge, score)
    BY <2>2, <2>4 DEF Pays
  <2> QED BY <2>1, <2>4, <2>5, PaidMoves
<1>2. CASE Gather(th)
  <2> DEFINE l == call[th]
             rd == Past(l).read \union Gathered(l)
             m == [Past(l) EXCEPT !.read = rd]
  <2>1. l.pc = "gather" /\ Goto(th, m) /\ UNCHANGED <<edge, score>>
    BY <1>2 DEF Gather, At
  <2>2. l \in Call /\ l.linked = {} /\ l.gain = 0 /\ present \subseteq Key
    BY <2>1, CallFacts DEF PaidInv, Pays, IInv, TypeOK
  <2> HIDE DEF l
  <2>3. /\ Past(l) \in Call /\ Past(l).pc = "gather"
        /\ Past(l).linked = {} /\ Past(l).gain = 0
    BY <2>1, <2>2, CallChanged
  <2>4. rd \in SUBSET Key
    BY <2>2, <2>3 DEF Gathered, Call
  <2> HIDE DEF rd
  <2>5. m \in Call /\ m.pc = "gather" /\ m.linked = {} /\ m.gain = 0
    BY <2>3, <2>4 DEF Call
  <2> HIDE DEF m
  <2>6. Pays(m, edge, score)
    BY <2>5 DEF Pays
  <2> QED BY <2>1, <2>5, <2>6, PaidMoves
<1> QED BY <1>1, <1>2

\* A call is over: that of the committing thread, one that failed, or all of them.
LEMMA PaidReturns ==
  ASSUME IInv, PaidInv, NEW th \in Thread, CommitTx(th) \/ Abort(th) \/ Fail(th)
  PROVE  PaidInv'
<1>1. Goto(th, Idle)
  BY DEF CommitTx, Abort, Fail, Return
<1>2. CASE CommitTx(th)
  <2>1. lock = th BY <1>2, CallFacts DEF CommitTx, At
  <2>2. call'[th] = Idle /\ \A x \in Thread : x # th => call'[x] = call[x]
    BY <1>1, CallIdle, Gone DEF IInv
  <2>3. \A x \in Thread : x # th => call[x].pc # "link"
    BY <2>1, CallFacts
  <2> QED BY <2>2, <2>3, PaysNothing DEF PaidInv
<1>3. CASE Abort(th) \/ Fail(th)
  <2>1. UNCHANGED <<edge, score>> BY <1>3 DEF Abort, Fail, RolledBack
  <2> QED BY <1>1, <2>1, CallIdle, PaysNothing, PaidMoves
<1> QED BY <1>2, <1>3

LEMMA PaidNext == IInv /\ PaidInv /\ [Next]_vars => PaidInv'
<1> SUFFICES ASSUME IInv, PaidInv, [Next]_vars PROVE PaidInv'
  OBVIOUS
<1>1. CASE UNCHANGED vars
  BY <1>1 DEF vars, PaidInv
<1>2. ASSUME NEW k \in Key, Remember(k) \/ delete_memory_by_key(k) PROVE PaidInv'
  BY <1>2, PaidRows DEF Remember, delete_memory_by_key
<1>3. ASSUME NEW keys \in Batches, DeleteRows(keys) \/ apply_decay(keys) PROVE PaidInv'
  BY <1>3, PaidRows DEF DeleteRows, apply_decay
<1>4. ASSUME NEW th \in Thread, (\E r \in Requests : Start(th, r)) \/ Gather(th) \/ WriteSummary(th)
      PROVE  PaidInv'
  BY <1>4, PaidStarts, PaidSummary
<1>5. ASSUME NEW th \in Thread, BeginTx(th) \/ Link(th) PROVE PaidInv'
  BY <1>5, PaidBegin, PaidLink
<1>6. ASSUME NEW th \in Thread, CommitTx(th) \/ Abort(th) \/ Fail(th) PROVE PaidInv'
  BY <1>6, PaidReturns
<1>7. CASE Crash
  BY <1>7, PaysNothing DEF Crash, PaidInv
<1> QED BY <1>1, <1>2, <1>3, <1>4, <1>5, <1>6, <1>7 DEF Next

\* Only a commit adds edges.
LEMMA OthersAddNoEdge ==
  ASSUME [Next]_vars, \A th \in Thread : ~CommitTx(th)
  PROVE  edge' \subseteq edge
<1>1. ASSUME NEW th \in Thread,
             \/ \E r \in Requests : Start(th, r)
             \/ Gather(th) \/ WriteSummary(th) \/ BeginTx(th) \/ Link(th) \/ Abort(th) \/ Fail(th)
      PROVE  edge' = edge
  BY <1>1 DEF Start, Gather, WriteSummary, BeginTx, Link, Abort, Fail, RolledBack
<1>2. ASSUME NEW k \in Key, Remember(k) \/ delete_memory_by_key(k) PROVE edge' \subseteq edge
  BY <1>2 DEF Remember, delete_memory_by_key
<1>3. ASSUME NEW keys \in Batches, DeleteRows(keys) \/ apply_decay(keys) PROVE edge' \subseteq edge
  BY <1>3 DEF DeleteRows, apply_decay
<1>4. CASE Crash \/ UNCHANGED vars
  BY <1>4 DEF Crash, vars
<1> QED BY <1>1, <1>2, <1>3, <1>4 DEF Next

\* What the memories that a step hides behind t are worth, and that t gets it.
Paid(t) == {s \in Key \ Hidden : <<s, t>> \in edge'}
Worth(t) == score[t] + SumFunctionOnSet(score, Paid(t))

LEMMA CommitPays ==
  ASSUME IInv, PaidInv, NEW th \in Thread, CommitTx(th), NEW t \in Key, Paid(t) # {}
  PROVE  score'[t] >= IF Worth(t) < Cap THEN Worth(t) ELSE Cap
<1> DEFINE l == call[th]
           u == l.req.target
<1>1. /\ l.pc = "link" /\ edge' = l.edges
      /\ score' = [score EXCEPT ![u] = IF l.linked = {} THEN score[u] ELSE Merged(l, u)]
  BY DEF CommitTx, At
<1>2. l \in Call /\ TypeOK /\ Pays(l, edge, score) /\ \A k \in Key : score[k] \in Nat
  BY ConsolidationConstants DEF IInv, PaidInv, TypeOK
<1>3. Paid(t) \subseteq l.linked /\ t = u
  BY <1>1, <1>2 DEF Pays, Paid, Hidden
<1>4. l.linked \in SUBSET Key /\ IsFiniteSet(l.linked) /\ IsFiniteSet(Paid(t))
  BY <1>2, <1>3, ConsolidationConstants, FS_Subset DEF Call
<1>5. SumFunctionOnSet(score, Paid(t)) <= l.gain
  <2>1. l.gain = SumFunctionOnSet(score, l.linked)
    BY <1>1, <1>2 DEF Pays
  <2> HIDE DEF l
  <2> QED BY <1>2, <1>3, <1>4, <2>1, SumGrows
<1>6. SumFunctionOnSet(score, Paid(t)) \in Nat /\ l.gain \in Nat /\ score[t] \in Nat
  <2>1. \A k \in Paid(t) : score[k] \in Nat BY <1>2 DEF Paid
  <2>2. l.gain \in Nat BY <1>2 DEF Call
  <2> QED BY <1>2, <1>4, <2>1, <2>2, SumTakesOut
<1>7. score'[t] = Merged(l, t)
  <2>1. l.linked # {} BY <1>3
  <2> QED BY <1>1, <1>2, <1>3, <2>1 DEF TypeOK
<1> HIDE DEF l
<1> QED BY <1>5, <1>6, <1>7, ConsolidationConstants DEF Merged, Worth

\* No memory is hidden without its score going to what hides it, up to the cap, in
\* the same step: through any interleaving of consolidations, decay, writes and
\* deletions, with sources linked twice, skipped or behind others.
THEOREM HiddenPays == Spec => HiddenPaysTarget
<1> DEFINE A(t) ==
      LET paid == {s \in Key \ Hidden : <<s, t>> \in edge'}
          sum == score[t] + SumFunctionOnSet(score, paid)
      IN  paid # {} => score'[t] >= IF sum < Cap THEN sum ELSE Cap
<1>1. Init => PaidInv
  BY PaysNothing DEF Init, PaidInv
<1>2. ASSUME IInv, PaidInv, [Next]_vars PROVE \A t \in Key : A(t)
  <2> TAKE t \in Key
  <2> SUFFICES ASSUME Paid(t) # {}
               PROVE  score'[t] >= IF Worth(t) < Cap THEN Worth(t) ELSE Cap
    BY DEF Paid, Worth
  <2>1. CASE \E th \in Thread : CommitTx(th)
    BY <1>2, <2>1, CommitPays
  <2>2. CASE \A th \in Thread : ~CommitTx(th)
    <3>1. edge' \subseteq edge BY <1>2, <2>2, OthersAddNoEdge
    <3>2. Paid(t) = {} BY <3>1, HiddenHasEdge DEF Paid, Hidden
    <3> QED BY <3>2
  <2> QED BY <2>1, <2>2
<1>3. IInv /\ PaidInv /\ [Next]_vars => [\A t \in Key : A(t)]_vars
  BY <1>2
<1> QED BY <1>1, <1>3, PaidNext, Invariance, PTL DEF Spec, HiddenPaysTarget
=============================================================================
