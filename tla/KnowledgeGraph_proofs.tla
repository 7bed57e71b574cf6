------------------------ MODULE KnowledgeGraph_proofs ------------------------
(***************************************************************************)
(* Theorems about KnowledgeGraph, for any names, types, predicates,        *)
(* threads and bounds.  What a statement over the triple table preserves   *)
(* is proved first, as lemmas about FactLedger; then that every step       *)
(* preserves the invariant IInv; then that every step is one of            *)
(* CurrentFacts or changes no current fact; last, what holds besides when  *)
(* no two asserts overlap (SerialInv).                                     *)
(***************************************************************************)
EXTENDS KnowledgeGraph, WellFoundedInduction, TLAPS

-----------------------------------------------------------------------------
(* The least of a set of numbers, which the look-ups choose. *)

\* A set of natural numbers has a least one: the first hit of a look-up.
LEMMA LeastExists ==
  ASSUME NEW T, T \subseteq Nat, T # {}
  PROVE  \E m \in T : \A k \in T : m <= k
<1>1. PICK m \in T : \A k \in T : ~ (<<k, m>> \in OpToRel(<, Nat))
  BY NatLessThanWellFounded, WFMin
<1>2. ASSUME NEW k \in T PROVE m <= k
  <2>1. <<k, m>> \notin OpToRel(<, Nat)
    BY <1>1
  <2>2. ~(k < m)
    BY <2>1, Zenon DEF OpToRel
  <2>. QED BY <2>2
<1>. QED BY <1>2

Ids(list) == {list[i].id : i \in DOMAIN list}

\* A look-up in a list answers nothing or an entity of the list.
LEMMA FirstListed ==
  ASSUME NEW list \in Seq(Record), NEW m, First(list, m) # NoEntity
  PROVE  First(list, m) \in Ids(list)
<1>. DEFINE hits == {i \in DOMAIN list : m \in {list[i].id[2]} \union list[i].aliases}
<1>1. hits # {}
  BY DEF First
<1>2. hits \subseteq Nat
  OBVIOUS
<1>3. \E i \in hits : \A j \in hits : i <= j
  BY <1>1, <1>2, LeastExists
<1>4. First(list, m) = list[CHOOSE i \in hits : \A j \in hits : i <= j].id
  BY <1>1 DEF First
<1>. HIDE DEF hits
<1>5. (CHOOSE i \in hits : \A j \in hits : i <= j) \in hits
  BY <1>3
<1>. QED BY <1>4, <1>5 DEF Ids, hits

\* So does the look-up by similarity.
LEMMA BestListed ==
  ASSUME NEW list \in Seq(Record), NEW ms \in Seq(Mention), Best(list, ms) # NoEntity
  PROVE  Best(list, ms) \in Ids(list)
<1>. DEFINE hits == {i \in DOMAIN ms : First(list, ms[i]) # NoEntity}
            i == CHOOSE i \in hits : \A j \in hits : i <= j
<1>1. hits # {} /\ Best(list, ms) = First(list, ms[i])
  BY DEF Best
<1>. QED BY <1>1, FirstListed

\* A name resolves to nothing or to an entity that was loaded or created.
LEMMA ResolvedListed ==
  ASSUME loaded \in Seq(Record), runtime \in Seq(Record), NEW m \in Mention,
         Resolved(m) # NoEntity
  PROVE  Resolved(m) \in Ids(loaded) \union Ids(runtime)
<1>1. Canon[m] \in Mention /\ \A n \in Mention : Near[n] \in Seq(Mention)
  BY GraphConstants
<1>2. ASSUME NEW n \in Mention, Known(loaded, runtime, n) # NoEntity
      PROVE  Known(loaded, runtime, n) \in Ids(loaded) \union Ids(runtime)
  <2>1. CASE resolve_one(loaded, n) # NoEntity
    <3>1. Known(loaded, runtime, n) = resolve_one(loaded, n)
      BY <2>1 DEF Known
    <3>. QED BY <2>1, <3>1, <1>1, FirstListed, BestListed DEF resolve_one
  <2>2. CASE resolve_one(loaded, n) = NoEntity
    <3>1. Known(loaded, runtime, n) = First(runtime, n)
      BY <2>2 DEF Known
    <3>. QED BY <3>1, <1>2, FirstListed
  <2>. QED BY <2>1, <2>2
<1>. QED BY <1>1, <1>2 DEF Resolved, ResolvedIn

\* An alias is added to an entry of the list and changes no entity.
LEMMA AliasKeepsIds ==
  ASSUME runtime \in Seq(Record), NEW e, NEW m \in Mention
  PROVE  /\ ensure_alias(e, m) \in Seq(Record)
         /\ Ids(ensure_alias(e, m)) = Ids(runtime)
<1>. DEFINE at == {i \in DOMAIN runtime : runtime[i].id = e}
            i == CHOOSE i \in at : \A j \in at : i <= j
<1>1. CASE ensure_alias(e, m) = runtime
  BY <1>1
<1>2. CASE ensure_alias(e, m) # runtime
  <2>1. /\ at # {}
        /\ ensure_alias(e, m) =
             [runtime EXCEPT ![i] = [id |-> e, aliases |-> runtime[i].aliases \union {m}]]
    BY <1>2 DEF ensure_alias
  <2>2. at \subseteq Nat
    OBVIOUS
  <2>3. \E k \in at : \A j \in at : k <= j
    BY <2>1, <2>2, LeastExists
  <2>4. i \in DOMAIN runtime
    <3>. HIDE DEF at
    <3>1. i \in at
      BY <2>3
    <3>. QED BY <3>1 DEF at
  <2>5. runtime[i].id = e
    <3>. HIDE DEF at
    <3>1. i \in at
      BY <2>3
    <3>. QED BY <3>1 DEF at
  <2>. HIDE DEF i
  <2>. DEFINE entry == [id |-> e, aliases |-> runtime[i].aliases \union {m}]
  <2>6. entry \in Record /\ entry.id = runtime[i].id
    <3>1. runtime[i] \in Record
      BY <2>4
    <3>2. runtime[i].id \in Entity /\ runtime[i].aliases \in SUBSET Mention
      BY <3>1 DEF Record
    <3>. QED BY <3>2, <2>5 DEF Record
  <2>7. ensure_alias(e, m) = [runtime EXCEPT ![i] = entry]
    BY <2>1
  <2>. HIDE DEF entry
  <2>8. [runtime EXCEPT ![i] = entry] \in Seq(Record)
    BY <2>4, <2>6
  <2>9. DOMAIN ensure_alias(e, m) = DOMAIN runtime
    BY <2>7
  <2>10. \A k \in DOMAIN runtime : ensure_alias(e, m)[k].id = runtime[k].id
    BY <2>4, <2>6, <2>7
  <2>. QED BY <2>7, <2>8, <2>9, <2>10 DEF Ids
<1>. QED BY <1>1, <1>2

-----------------------------------------------------------------------------
(* The triple table. *)

Traceable(t) ==
  \A r \in DOMAIN t : t[r].by # Nobody =>
    /\ t[r].by \in DOMAIN t /\ SlotOf(t[t[r].by]) = SlotOf(t[r])
    /\ t[t[r].by].to # t[r].to /\ t[r].valid_to # Open
OneLive(t, s) == \A r1, r2 \in Live(t, s) : r1 = r2
\* No row has replaced two rows of the slot: its undoing brings back only one.
OneBy(t, s) ==
  \A r1, r2 \in DOMAIN t :
    /\ SlotOf(t[r1]) = s /\ SlotOf(t[r2]) = s
    /\ t[r1].by # Nobody /\ t[r1].by = t[r2].by
    => r1 = r2
Sound(t, s) == OneLive(t, s) /\ OneBy(t, s)
\* u holds the facts of t, each about the same slot and object, from the same time.
SameFacts(t, u) ==
  /\ DOMAIN u = DOMAIN t
  /\ \A r \in DOMAIN t : /\ u[r].from = t[r].from /\ u[r].pred = t[r].pred
                         /\ u[r].to = t[r].to /\ u[r].at = t[r].at

\* u and t hold the same facts in the other slots.
SameElsewhere(t, u, slot) == \A s : s # slot => Objects(u, s) = Objects(t, s)

\* A row that is changed only in its retirement is still a row of the same fact.
LEMMA RowRetired ==
  ASSUME NEW row \in Row, NEW at \in 0 .. MaxTime, NEW by \in Nat
  PROVE  /\ Ended(row, at, by) \in Row
         /\ Ended(row, at, by).from = row.from
         /\ Ended(row, at, by).pred = row.pred
         /\ Ended(row, at, by).to = row.to
         /\ Ended(row, at, by).at = row.at
         /\ Ended(row, at, by).valid_to = at
         /\ Ended(row, at, by).by = by
BY DEF Row, Ended

\* What the UPDATE that retires a slot's other objects does to each row.
LEMMA RetireRows ==
  ASSUME NEW t \in Seq(Row), NEW slot, NEW keep, NEW by \in Nat, NEW at \in 1 .. MaxTime,
         NEW u, u = Retire(t, slot, keep, by, at)
  PROVE  /\ u \in Seq(Row) /\ SameFacts(t, u)
         /\ \A r \in DOMAIN t :
              IF r \in Live(t, slot) /\ t[r].to # keep
              THEN u[r].valid_to = at /\ u[r].by = by ELSE u[r] = t[r]
<1>. DEFINE new(r) == Ended(t[r], at, by)
            f == [r \in DOMAIN t |-> IF r \in Live(t, slot) /\ t[r].to # keep THEN new(r) ELSE t[r]]
<1>1. u = f
  BY DEF Retire
<1>2. ASSUME NEW r \in DOMAIN t
      PROVE  /\ new(r) \in Row /\ new(r).valid_to = at /\ new(r).by = by
             /\ new(r).from = t[r].from /\ new(r).pred = t[r].pred /\ new(r).to = t[r].to
             /\ new(r).at = t[r].at
  <2>1. t[r] \in Row
    OBVIOUS
  <2>2. at \in 0 .. MaxTime
    BY GraphConstants
  <2>. QED BY <2>1, <2>2, RowRetired
<1>. HIDE DEF new
<1>3. f \in Seq(Row)
  <2>1. \A r \in 1 .. Len(t) : f[r] \in Row
    BY <1>2
  <2>2. DOMAIN f = 1 .. Len(t)
    OBVIOUS
  <2>. HIDE DEF f
  <2>3. Len(t) \in Nat
    OBVIOUS
  <2>4. f \in [1 .. Len(t) -> Row]
    <3>1. f = [r \in 1 .. Len(t) |-> f[r]]
      BY <2>2 DEF f
    <3>. QED BY <2>1, <3>1
  <2>. QED BY <2>3, <2>4
<1>. QED BY <1>1, <1>2, <1>3 DEF SameFacts

\* Rows of the same facts have the same slots.
LEMMA SameSlots ==
  ASSUME NEW t, NEW u, SameFacts(t, u)
  PROVE  \A r \in DOMAIN t : SlotOf(u[r]) = SlotOf(t[r])
BY DEF SameFacts, SlotOf

\* Retiring the other objects of a slot for a row of it that holds the kept one:
\* retirements stay traceable, and the slot's facts become the kept one.
LEMMA RetireTraceable ==
  ASSUME NEW t \in Seq(Row), NEW r \in DOMAIN t, NEW at \in 1 .. MaxTime, Traceable(t),
         NEW u, u = Retire(t, SlotOf(t[r]), t[r].to, r, at)
  PROVE  Traceable(u)
<1>1. /\ SameFacts(t, u)
      /\ \A x \in DOMAIN t :
           IF x \in Live(t, SlotOf(t[r])) /\ t[x].to # t[r].to
           THEN u[x].valid_to = at /\ u[x].by = r ELSE u[x] = t[x]
  <2>1. r \in Nat
    OBVIOUS
  <2>. QED BY <2>1, RetireRows
<1>2. SUFFICES ASSUME NEW x \in DOMAIN u, u[x].by # Nobody
               PROVE  /\ u[x].by \in DOMAIN u /\ SlotOf(u[u[x].by]) = SlotOf(u[x])
                      /\ u[u[x].by].to # u[x].to /\ u[x].valid_to # Open
  BY DEF Traceable
<1>3. DOMAIN u = DOMAIN t /\ x \in DOMAIN t
  BY <1>1 DEF SameFacts
<1>4. CASE x \in Live(t, SlotOf(t[r])) /\ t[x].to # t[r].to
  <2>1. u[x].valid_to = at /\ u[x].by = r
    BY <1>1, <1>3, <1>4
  <2>2. SlotOf(t[x]) = SlotOf(t[r])
    BY <1>4 DEF Live
  <2>3. SlotOf(u[x]) = SlotOf(t[x]) /\ SlotOf(u[r]) = SlotOf(t[r])
    BY <1>1, <1>3, SameSlots
  <2>4. u[x].to = t[x].to /\ u[r].to = t[r].to
    BY <1>1, <1>3 DEF SameFacts
  <2>. QED BY <2>1, <2>2, <2>3, <2>4, <1>3, <1>4 DEF Open
<1>5. CASE ~(x \in Live(t, SlotOf(t[r])) /\ t[x].to # t[r].to)
  <2>1. u[x] = t[x]
    BY <1>1, <1>3, <1>5
  <2>. DEFINE y == t[x].by
  <2>2. /\ y \in DOMAIN t /\ SlotOf(t[y]) = SlotOf(t[x]) /\ t[y].to # t[x].to
        /\ t[x].valid_to # Open
    BY <2>1, <1>2, <1>3 DEF Traceable
  <2>3. SlotOf(u[y]) = SlotOf(t[y]) /\ u[y].to = t[y].to
    BY <2>2, <1>1, SameSlots DEF SameFacts
  <2>. QED BY <2>1, <2>2, <2>3, <1>3
<1>. QED BY <1>4, <1>5

\* A slot in which every row but one had been retired keeps at most one fact, and
\* at most one row for each cause, when the others are retired for that row.
LEMMA RetireSound ==
  ASSUME NEW t \in Seq(Row), NEW r \in DOMAIN t, NEW at \in 1 .. MaxTime, Traceable(t),
         NEW u, u = Retire(t, SlotOf(t[r]), t[r].to, r, at), NEW s,
         OneBy(t, s),
         s # SlotOf(t[r]) => OneLive(t, s),
         s = SlotOf(t[r]) =>
           /\ \A x \in Live(t, s) : t[x].to = t[r].to => x = r
           /\ \A x, y \in Live(t, s) \ {r} : x = y
           /\ Retired(t, r) = {} \/ Live(t, s) \subseteq {r}
  PROVE  Sound(u, s)
<1>1. /\ SameFacts(t, u) /\ DOMAIN u = DOMAIN t
      /\ \A x \in DOMAIN t :
           IF x \in Live(t, SlotOf(t[r])) /\ t[x].to # t[r].to
           THEN u[x].valid_to = at /\ u[x].by = r ELSE u[x] = t[x]
  <2>1. r \in Nat
    OBVIOUS
  <2>. QED BY <2>1, RetireRows DEF SameFacts
<1>2. \A x \in DOMAIN t : SlotOf(u[x]) = SlotOf(t[x])
  BY <1>1, SameSlots
<1>3. r \in Nat \ {0} /\ at # Open
  BY DEF Open
<1>4. CASE s # SlotOf(t[r])
  <2>1. \A x \in DOMAIN t : SlotOf(t[x]) = s => u[x] = t[x]
    BY <1>1, <1>4 DEF Live
  <2>2. OneLive(u, s)
    BY <2>1, <1>1, <1>2, <1>4 DEF OneLive, Live
  <2>3. OneBy(u, s)
    BY <2>1, <1>1, <1>2, <1>4 DEF OneBy
  <2>. QED BY <2>2, <2>3 DEF Sound
<1>5. CASE s = SlotOf(t[r])
  <2>1. OneLive(u, s)
    <3>1. ASSUME NEW x \in Live(u, s) PROVE x = r
      <4>1. x \in DOMAIN t /\ SlotOf(t[x]) = s /\ u[x].valid_to = Open
        BY <3>1, <1>1, <1>2 DEF Live
      <4>2. u[x] = t[x]
        BY <4>1, <1>1, <1>3
      <4>3. x \in Live(t, s)
        BY <4>1, <4>2 DEF Live
      <4>4. t[x].to = t[r].to
        BY <4>1, <4>3, <1>1, <1>3, <1>5
      <4>. QED BY <4>3, <4>4, <1>5
    <3>. QED BY <3>1 DEF OneLive
  <2>2. OneBy(u, s)
    <3>1. SUFFICES ASSUME NEW x \in DOMAIN t, NEW y \in DOMAIN t,
                          SlotOf(t[x]) = s, SlotOf(t[y]) = s,
                          u[x].by # Nobody, u[x].by = u[y].by
                   PROVE  x = y
      BY <1>1, <1>2 DEF OneBy
    <3>. DEFINE closed(z) == z \in Live(t, s) /\ t[z].to # t[r].to
    <3>2. CASE closed(x) /\ closed(y)
      BY <3>2, <1>5
    <3>3. CASE ~closed(x) /\ ~closed(y)
      <4>1. u[x] = t[x] /\ u[y] = t[y]
        BY <3>3, <1>1, <1>5
      <4>. QED BY <4>1, <3>1 DEF OneBy
    <3>4. ASSUME NEW z \in DOMAIN t, NEW w \in DOMAIN t, closed(z), ~closed(w),
                 u[z].by = u[w].by
          PROVE  FALSE
      <4>1. u[z].by = r /\ u[w] = t[w]
        BY <3>4, <1>1, <1>5
      <4>2. w \in Retired(t, r)
        BY <3>4, <4>1 DEF Retired
      <4>3. Live(t, s) \subseteq {r}
        BY <4>2, <1>5
      <4>. QED BY <4>3, <3>4
    <3>. QED BY <3>1, <3>2, <3>3, <3>4
  <2>. QED BY <2>1, <2>2 DEF Sound
<1>. QED BY <1>4, <1>5

\* A row that is new has replaced nothing.
LEMMA AppendRows ==
  ASSUME NEW t \in Seq(Row), NEW row \in Row, row.valid_to = Open, row.by = Nobody,
         Traceable(t), NEW u, u = Append(t, row)
  PROVE  /\ u \in Seq(Row) /\ Len(u) = Len(t) + 1 /\ DOMAIN u = DOMAIN t \union {Len(t) + 1}
         /\ Len(t) + 1 \notin DOMAIN t
         /\ u[Len(t) + 1] = row /\ \A r \in DOMAIN t : u[r] = t[r]
         /\ Traceable(u) /\ Retired(u, Len(t) + 1) = {}
         /\ \A s : OneBy(t, s) => OneBy(u, s)
         /\ \A s : Live(u, s) = IF s = SlotOf(row) THEN Live(t, s) \union {Len(t) + 1}
                                ELSE Live(t, s)
<1>. DEFINE n == Len(t) + 1
<1>1. /\ u \in Seq(Row) /\ Len(u) = n /\ DOMAIN u = DOMAIN t \union {n} /\ n \notin DOMAIN t
      /\ u[n] = row /\ \A r \in DOMAIN t : u[r] = t[r]
  OBVIOUS
<1>. HIDE DEF n
<1>2. Traceable(u)
  BY <1>1 DEF Traceable
<1>3. Retired(u, n) = {}
  <2>1. ASSUME NEW x \in DOMAIN u, u[x].by = n PROVE FALSE
    <3>1. CASE x = n
      <4>1. n # Nobody
        BY DEF n, Nobody
      <4>. QED BY <3>1, <2>1, <4>1, <1>1
    <3>2. CASE x \in DOMAIN t
      <4>1. t[x].by = n /\ n # Nobody
        BY <3>2, <2>1, <1>1 DEF n, Nobody
      <4>. QED BY <4>1, <3>2, <1>1 DEF Traceable
    <3>. QED BY <3>1, <3>2, <1>1
  <2>. QED BY <2>1 DEF Retired
<1>4. ASSUME NEW s, OneBy(t, s) PROVE OneBy(u, s)
  BY <1>1, <1>4 DEF OneBy
<1>5. \A s : Live(u, s) = IF s = SlotOf(row) THEN Live(t, s) \union {n} ELSE Live(t, s)
  BY <1>1 DEF Live
<1>. QED BY <1>1, <1>2, <1>3, <1>4, <1>5 DEF n

EndsIn(t, X) == \A r \in DOMAIN t : t[r].from \in X /\ t[r].to \in X

\* Retiring the other objects for a live row leaves the slot that row's object, and
\* the other slots theirs.
LEMMA RetireObjects ==
  ASSUME NEW t \in Seq(Row), NEW r \in DOMAIN t, NEW at \in 1 .. MaxTime,
         t[r].valid_to = Open,
         NEW u, u = Retire(t, SlotOf(t[r]), t[r].to, r, at)
  PROVE  /\ Objects(u, SlotOf(t[r])) = {t[r].to}
         /\ \A s : s # SlotOf(t[r]) => Objects(u, s) = Objects(t, s)
         /\ \A X : EndsIn(t, X) => EndsIn(u, X)
<1>1. /\ SameFacts(t, u) /\ DOMAIN u = DOMAIN t
      /\ \A x \in DOMAIN t :
           IF x \in Live(t, SlotOf(t[r])) /\ t[x].to # t[r].to
           THEN u[x].valid_to = at /\ u[x].by = r ELSE u[x] = t[x]
  <2>1. r \in Nat
    OBVIOUS
  <2>. QED BY <2>1, RetireRows DEF SameFacts
<1>2. \A x \in DOMAIN t : SlotOf(u[x]) = SlotOf(t[x]) /\ u[x].to = t[x].to
  BY <1>1, SameSlots DEF SameFacts
<1>3. at # Open
  BY DEF Open
<1>4. Objects(u, SlotOf(t[r])) = {t[r].to}
  <2>1. r \in Live(u, SlotOf(t[r]))
    BY <1>1, <1>2 DEF Live
  <2>2. ASSUME NEW x \in Live(u, SlotOf(t[r])) PROVE u[x].to = t[r].to
    <3>1. x \in DOMAIN t /\ SlotOf(t[x]) = SlotOf(t[r]) /\ u[x].valid_to = Open
      BY <2>2, <1>1, <1>2 DEF Live
    <3>2. u[x] = t[x] => x \in Live(t, SlotOf(t[r]))
      BY <3>1 DEF Live
    <3>. QED BY <3>1, <3>2, <1>1, <1>2, <1>3
  <2>. QED BY <2>1, <2>2, <1>2 DEF Objects
<1>5. ASSUME NEW s, s # SlotOf(t[r]) PROVE Objects(u, s) = Objects(t, s)
  <2>1. \A x \in DOMAIN t : SlotOf(t[x]) = s => u[x] = t[x]
    BY <1>1, <1>5 DEF Live
  <2>2. Live(u, s) = Live(t, s)
    BY <2>1, <1>1, <1>2 DEF Live
  <2>3. \A x \in Live(t, s) : u[x].to = t[x].to
    BY <1>2 DEF Live
  <2>. QED BY <2>2, <2>3 DEF Objects
<1>6. \A X : EndsIn(t, X) => EndsIn(u, X)
  BY <1>1 DEF EndsIn, SameFacts
<1>. QED BY <1>4, <1>5, <1>6

\* What a plain insert preserves and adds.
LEMMA InsertEffect ==
  ASSUME NEW t \in Seq(Row), NEW row \in Row, row.valid_to = Open, row.by = Nobody,
         Traceable(t), NEW u, u = insert_triple(t, row, TRUE)
  PROVE  /\ u \in Seq(Row) /\ Traceable(u)
         /\ \A X : EndsIn(t, X) /\ row.from \in X /\ row.to \in X => EndsIn(u, X)
         /\ \A s : s # SlotOf(row) /\ Sound(t, s) => Sound(u, s)
         /\ Objects(u, SlotOf(row)) = Objects(t, SlotOf(row)) \union {row.to}
         /\ SameElsewhere(t, u, SlotOf(row))
<1>. DEFINE n == Len(t) + 1
            v == Append(t, row)
<1>0. /\ v \in Seq(Row) /\ DOMAIN v = DOMAIN t \union {n} /\ n \notin DOMAIN t
      /\ v[n] = row /\ \A r \in DOMAIN t : v[r] = t[r]
      /\ Traceable(v)
      /\ \A s : OneBy(t, s) => OneBy(v, s)
      /\ \A s : Live(v, s) = IF s = SlotOf(row) THEN Live(t, s) \union {n} ELSE Live(t, s)
  BY AppendRows
<1>1. /\ u \in Seq(Row) /\ DOMAIN u = DOMAIN t \union {n} /\ n \notin DOMAIN t
      /\ u[n] = row /\ \A r \in DOMAIN t : u[r] = t[r]
      /\ Traceable(u)
      /\ \A s : OneBy(t, s) => OneBy(u, s)
      /\ \A s : Live(u, s) = IF s = SlotOf(row) THEN Live(t, s) \union {n} ELSE Live(t, s)
  <2>1. u = v
    BY DEF insert_triple
  <2>. HIDE DEF v
  <2>. QED BY <2>1, <1>0
<1>. HIDE DEF n, v
<1>2. \A X : EndsIn(t, X) /\ row.from \in X /\ row.to \in X => EndsIn(u, X)
  BY <1>1 DEF EndsIn
<1>3. ASSUME NEW s, s # SlotOf(row), Sound(t, s) PROVE Sound(u, s)
  BY <1>1, <1>3 DEF Sound, OneLive
<1>4. \A s : \A r \in Live(t, s) : r \in DOMAIN t /\ u[r].to = t[r].to
  BY <1>1 DEF Live
<1>5. Objects(u, SlotOf(row)) = Objects(t, SlotOf(row)) \union {row.to}
  <2>1. Live(u, SlotOf(row)) = Live(t, SlotOf(row)) \union {n}
    BY <1>1
  <2>2. Objects(u, SlotOf(row)) = {u[r].to : r \in Live(t, SlotOf(row))} \union {u[n].to}
    BY <2>1 DEF Objects
  <2>3. {u[r].to : r \in Live(t, SlotOf(row))} = Objects(t, SlotOf(row))
    BY <1>4 DEF Objects
  <2>. QED BY <2>2, <2>3, <1>1
<1>6. ASSUME NEW s, s # SlotOf(row) PROVE Objects(u, s) = Objects(t, s)
  <2>1. Live(u, s) = Live(t, s)
    BY <1>1, <1>6
  <2>. QED BY <2>1, <1>4 DEF Objects
<1>. QED BY <1>1, <1>2, <1>3, <1>5, <1>6 DEF SameElsewhere

\* What a superseding insert preserves, and the one fact it leaves in its slot
\* unless the slot held it already.
LEMMA SupersedeEffect ==
  ASSUME NEW t \in Seq(Row), NEW row \in Row, row.valid_to = Open, row.by = Nobody,
         Traceable(t), NEW last, NEW u, u = insert_triple_superseding(t, row, TRUE, last)
  PROVE  /\ u \in Seq(Row) /\ Traceable(u)
         /\ \A X : EndsIn(t, X) /\ row.from \in X /\ row.to \in X => EndsIn(u, X)
         /\ \A s : Sound(t, s) => Sound(u, s)
         /\ u = t \/ Objects(u, SlotOf(row)) = {row.to}
         /\ SameElsewhere(t, u, SlotOf(row))
<1>1. CASE row.to \in Objects(t, SlotOf(row))
  <2>1. u = t
    BY <1>1 DEF insert_triple_superseding
  <2>. QED BY <2>1 DEF SameElsewhere
<1>2. CASE row.to \notin Objects(t, SlotOf(row))
  <2>. DEFINE n == Len(t) + 1
              v == Append(t, row)
  <2>1. u = Retire(v, SlotOf(row), row.to, n, row.at)
    BY <1>2 DEF insert_triple_superseding
  <2>2. /\ v \in Seq(Row) /\ DOMAIN v = DOMAIN t \union {n} /\ n \notin DOMAIN t
        /\ v[n] = row /\ \A r \in DOMAIN t : v[r] = t[r]
        /\ Traceable(v) /\ Retired(v, n) = {}
        /\ \A s : OneBy(t, s) => OneBy(v, s)
        /\ \A s : Live(v, s) = IF s = SlotOf(row) THEN Live(t, s) \union {n} ELSE Live(t, s)
    BY AppendRows
  <2>. HIDE DEF n, v
  <2>3. n \in DOMAIN v /\ row.at \in 1 .. MaxTime /\ v[n].valid_to = Open
    BY <2>2 DEF Row
  <2>4. u = Retire(v, SlotOf(v[n]), v[n].to, n, row.at)
    BY <2>1, <2>2
  <2>5. u \in Seq(Row)
    <3>1. n \in Nat
      BY DEF n
    <3>2. v \in Seq(Row) /\ row.at \in 1 .. MaxTime
      BY <2>2, <2>3
    <3>3. \A w : w = Retire(v, SlotOf(row), row.to, n, row.at) => w \in Seq(Row)
      BY <3>1, <3>2, RetireRows
    <3>. QED BY <2>1, <3>3
  <2>6. Traceable(u)
    BY <2>2, <2>3, <2>4, RetireTraceable
  <2>7. /\ Objects(u, SlotOf(v[n])) = {v[n].to}
        /\ \A s : s # SlotOf(v[n]) => Objects(u, s) = Objects(v, s)
        /\ \A X : EndsIn(v, X) => EndsIn(u, X)
    BY <2>2, <2>3, <2>4, RetireObjects
  <2>8. \A X : EndsIn(t, X) /\ row.from \in X /\ row.to \in X => EndsIn(v, X)
    BY <2>2 DEF EndsIn
  <2>10. ASSUME NEW s, s # SlotOf(row) PROVE Objects(u, s) = Objects(t, s)
    <3>1. Live(v, s) = Live(t, s) /\ \A r \in Live(t, s) : v[r].to = t[r].to
      BY <2>2, <2>10 DEF Live
    <3>2. Objects(v, s) = Objects(t, s)
      BY <3>1 DEF Objects
    <3>. QED BY <3>2, <2>7, <2>10, <2>2
  <2>9. ASSUME NEW s, Sound(t, s) PROVE Sound(u, s)
    <3>1. OneBy(v, s) /\ OneLive(t, s)
      BY <2>2, <2>9 DEF Sound
    <3>2. CASE s # SlotOf(row)
      <4>1. OneLive(v, s)
        BY <3>1, <3>2, <2>2 DEF OneLive
      <4>. QED BY <4>1, <3>1, <3>2, <2>2, <2>3, <2>4, RetireSound
    <3>3. CASE s = SlotOf(row)
      <4>1. \A x \in Live(v, s) : x = n \/ x \in Live(t, s)
        BY <3>3, <2>2
      <4>2. \A x \in Live(t, s) : v[x] = t[x] /\ t[x].to # row.to
        BY <3>3, <1>2, <2>2 DEF Live, Objects
      <4>3. \A x \in Live(v, s) : v[x].to = v[n].to => x = n
        BY <4>1, <4>2, <2>2
      <4>4. \A x, y \in Live(v, s) \ {n} : x = y
        BY <4>1, <3>1 DEF OneLive
      <4>5. s = SlotOf(v[n])
        BY <3>3, <2>2
      <4>. QED BY <4>3, <4>4, <4>5, <3>1, <2>2, <2>3, <2>4, RetireSound
    <3>. QED BY <3>2, <3>3
  <2>. QED BY <2>2, <2>5, <2>6, <2>7, <2>8, <2>9, <2>10 DEF SameElsewhere
<1>. QED BY <1>1, <1>2

\* What choosing one of a slot's objects preserves, and that it leaves that one.
LEMMA ChooseEffect ==
  ASSUME NEW t \in Seq(Row), Traceable(t), NEW slot, NEW keep, NEW at \in 1 .. MaxTime,
         NEW u \in retire_conflicting_objects(t, slot, keep, at)
  PROVE  /\ u \in Seq(Row) /\ Traceable(u) /\ \A X : EndsIn(t, X) => EndsIn(u, X)
         /\ \A s : Sound(t, s) => Sound(u, s)
         /\ u = t \/ (keep \in Objects(t, slot) /\ Objects(u, slot) = {keep})
         /\ SameElsewhere(t, u, slot)
<1>1. CASE u = t
  BY <1>1 DEF SameElsewhere
<1>2. CASE u # t
  <2>1. PICK r \in Live(t, slot) : t[r].to = keep /\ u = Retire(t, slot, keep, r, at)
    BY <1>2 DEF retire_conflicting_objects
  <2>2. r \in DOMAIN t /\ SlotOf(t[r]) = slot /\ t[r].valid_to = Open /\ r \in Nat
    BY DEF Live
  <2>3. u = Retire(t, SlotOf(t[r]), t[r].to, r, at)
    BY <2>1, <2>2
  <2>4. u \in Seq(Row)
    BY <2>1, <2>2, RetireRows
  <2>5. Traceable(u)
    BY <2>2, <2>3, RetireTraceable
  <2>6. /\ Objects(u, slot) = {keep} /\ \A X : EndsIn(t, X) => EndsIn(u, X)
        /\ \A s : s # slot => Objects(u, s) = Objects(t, s)
    <3>1. /\ Objects(u, SlotOf(t[r])) = {t[r].to} /\ \A X : EndsIn(t, X) => EndsIn(u, X)
          /\ \A s : s # SlotOf(t[r]) => Objects(u, s) = Objects(t, s)
      <4>1. \A w : w = Retire(t, SlotOf(t[r]), t[r].to, r, at) =>
              /\ Objects(w, SlotOf(t[r])) = {t[r].to} /\ (\A X : EndsIn(t, X) => EndsIn(w, X))
              /\ \A s : s # SlotOf(t[r]) => Objects(w, s) = Objects(t, s)
        BY <2>2, RetireObjects
      <4>. QED BY <4>1, <2>3
    <3>. QED BY <2>1, <2>2, <3>1
  <2>7. keep \in Objects(t, slot)
    BY <2>1 DEF Objects
  <2>8. ASSUME NEW s, Sound(t, s) PROVE Sound(u, s)
    <3>1. OneBy(t, s) /\ OneLive(t, s)
      BY <2>8 DEF Sound
    <3>2. s = slot => \A x \in Live(t, s) : x = r
      BY <3>1, <2>1 DEF OneLive
    <3>. QED BY <3>1, <3>2, <2>2, <2>3, RetireSound
  <2>. QED BY <2>4, <2>5, <2>6, <2>7, <2>8 DEF SameElsewhere
<1>. QED BY <1>1, <1>2

\* What undoing a replacement does to each row.
LEMMA UndoRows ==
  ASSUME NEW t \in Seq(Row), NEW r \in DOMAIN t, NEW at \in 1 .. MaxTime, Retired(t, r) # {},
         NEW u, u = undo_supersession(t, r, at)
  PROVE  /\ u \in Seq(Row) /\ SameFacts(t, u)
         /\ \A x \in DOMAIN t :
              IF t[x].by = r THEN u[x].valid_to = Open /\ u[x].by = Nobody
              ELSE IF x = r /\ t[x].valid_to = Open
                   THEN u[x].valid_to = at /\ u[x].by = t[x].by ELSE u[x] = t[x]
<1>. DEFINE back(x) == Ended(t[x], Open, Nobody)
            out(x) == Ended(t[x], at, t[x].by)
            f == [x \in DOMAIN t |-> IF t[x].by = r THEN back(x)
                                     ELSE IF x = r /\ t[x].valid_to = Open THEN out(x) ELSE t[x]]
<1>1. u = f
  BY DEF undo_supersession
<1>2. ASSUME NEW x \in DOMAIN t
      PROVE  /\ back(x) \in Row /\ back(x).valid_to = Open /\ back(x).by = Nobody
             /\ back(x).from = t[x].from /\ back(x).pred = t[x].pred /\ back(x).to = t[x].to
             /\ back(x).at = t[x].at
  <2>1. t[x] \in Row
    OBVIOUS
  <2>2. 0 \in 0 .. MaxTime /\ 0 \in Nat
    BY GraphConstants
  <2>. QED BY <2>1, <2>2, RowRetired DEF Open, Nobody
<1>3. ASSUME NEW x \in DOMAIN t
      PROVE  /\ out(x) \in Row /\ out(x).valid_to = at /\ out(x).by = t[x].by
             /\ out(x).from = t[x].from /\ out(x).pred = t[x].pred /\ out(x).to = t[x].to
             /\ out(x).at = t[x].at
  <2>1. t[x] \in Row
    OBVIOUS
  <2>2. at \in 0 .. MaxTime /\ t[x].by \in Nat
    BY <2>1, GraphConstants DEF Row
  <2>. QED BY <2>1, <2>2, RowRetired
<1>. HIDE DEF back, out
<1>4. f \in Seq(Row)
  <2>1. \A x \in 1 .. Len(t) : f[x] \in Row
    BY <1>2, <1>3
  <2>2. f = [x \in 1 .. Len(t) |-> f[x]] /\ Len(t) \in Nat
    OBVIOUS
  <2>. HIDE DEF f
  <2>. QED BY <2>1, <2>2
<1>. QED BY <1>1, <1>2, <1>3, <1>4 DEF SameFacts

\* What an undo preserves; in its slot, provided that the row undone still holds.
\* The slot keeps its facts but that row's, and gets others.
LEMMA UndoEffect ==
  ASSUME NEW t \in Seq(Row), Traceable(t), NEW r \in DOMAIN t, NEW at \in 1 .. MaxTime,
         Retired(t, r) # {}, NEW u, u = undo_supersession(t, r, at)
  PROVE  /\ u \in Seq(Row) /\ Traceable(u) /\ (\A X : EndsIn(t, X) => EndsIn(u, X))
         /\ \A s : Sound(t, s) /\ (s = SlotOf(t[r]) => t[r].valid_to = Open) => Sound(u, s)
         /\ SameElsewhere(t, u, SlotOf(t[r]))
         /\ Objects(t, SlotOf(t[r])) \ {t[r].to} \subseteq Objects(u, SlotOf(t[r]))
         /\ Objects(u, SlotOf(t[r])) \ {t[r].to} # {}
<1>1. /\ u \in Seq(Row) /\ SameFacts(t, u) /\ DOMAIN u = DOMAIN t
      /\ \A x \in DOMAIN t :
           IF t[x].by = r THEN u[x].valid_to = Open /\ u[x].by = Nobody
           ELSE IF x = r /\ t[x].valid_to = Open
                THEN u[x].valid_to = at /\ u[x].by = t[x].by ELSE u[x] = t[x]
  BY UndoRows DEF SameFacts
<1>2. \A x \in DOMAIN t : SlotOf(u[x]) = SlotOf(t[x]) /\ u[x].to = t[x].to
  BY <1>1, SameSlots DEF SameFacts
<1>3. r # Nobody /\ at # Open
  BY DEF Nobody, Open
<1>4. \A x \in DOMAIN t : t[x].by = r => SlotOf(t[x]) = SlotOf(t[r]) /\ t[r].to # t[x].to
  BY <1>3 DEF Traceable
<1>5. \A x \in DOMAIN t : u[x].by # Nobody => u[x] = t[x]
  BY <1>1 DEF Traceable
<1>6. Traceable(u)
  BY <1>1, <1>2, <1>5 DEF Traceable
<1>7. \A X : EndsIn(t, X) => EndsIn(u, X)
  BY <1>1 DEF EndsIn, SameFacts
<1>8. \A x \in DOMAIN t : SlotOf(t[x]) # SlotOf(t[r]) => u[x] = t[x]
  BY <1>1, <1>4
<1>9. ASSUME NEW s, Sound(t, s), s = SlotOf(t[r]) => t[r].valid_to = Open PROVE Sound(u, s)
  <2>1. OneBy(u, s)
    BY <1>9, <1>1, <1>2, <1>5 DEF Sound, OneBy
  <2>2. CASE s # SlotOf(t[r])
    <3>1. Live(u, s) = Live(t, s)
      BY <2>2, <1>1, <1>2, <1>8 DEF Live
    <3>. QED BY <3>1, <2>1, <1>9 DEF Sound, OneLive
  <2>3. CASE s = SlotOf(t[r])
    <3>1. r \in Live(t, s)
      BY <2>3, <1>9 DEF Live
    <3>2. ASSUME NEW x \in Live(u, s) PROVE x \in DOMAIN t /\ t[x].by = r
      <4>1. x \in DOMAIN t /\ SlotOf(t[x]) = s /\ u[x].valid_to = Open
        BY <1>1, <1>2 DEF Live
      <4>2. CASE u[x] = t[x]
        <5>1. x \in Live(t, s)
          BY <4>1, <4>2 DEF Live
        <5>2. x = r
          BY <5>1, <3>1, <1>9 DEF Sound, OneLive
        <5>. QED BY <5>2, <4>1, <4>2, <1>1, <1>3, <3>1 DEF Live
      <4>3. CASE u[x] # t[x]
        BY <4>1, <4>3, <1>1, <1>3
      <4>. QED BY <4>2, <4>3
    <3>3. ASSUME NEW x \in Live(u, s), NEW y \in Live(u, s) PROVE x = y
      <4>1. t[x].by = r /\ t[y].by = r /\ x \in DOMAIN t /\ y \in DOMAIN t
        BY <3>2
      <4>. QED BY <4>1, <1>3, <1>4, <1>9, <2>3 DEF Sound, OneBy
    <3>. QED BY <3>3, <2>1 DEF Sound, OneLive
  <2>. QED BY <2>2, <2>3
<1>10. ASSUME NEW s, s # SlotOf(t[r]) PROVE Objects(u, s) = Objects(t, s)
  <2>1. Live(u, s) = Live(t, s)
    BY <1>10, <1>1, <1>2, <1>8 DEF Live
  <2>2. \A x \in Live(t, s) : u[x].to = t[x].to
    BY <1>2 DEF Live
  <2>. QED BY <2>1, <2>2 DEF Objects
<1>11. Objects(t, SlotOf(t[r])) \ {t[r].to} \subseteq Objects(u, SlotOf(t[r]))
  <2>1. ASSUME NEW x \in Live(t, SlotOf(t[r])), x # r PROVE x \in Live(u, SlotOf(t[r]))
    BY <2>1, <1>1, <1>2 DEF Live
  <2>2. \A x \in Live(t, SlotOf(t[r])) : u[x].to = t[x].to
    BY <1>2 DEF Live
  <2>. QED BY <2>1, <2>2 DEF Objects
<1>12. Objects(u, SlotOf(t[r])) \ {t[r].to} # {}
  <2>1. PICK x \in DOMAIN t : t[x].by = r
    BY DEF Retired
  <2>2. x \in Live(u, SlotOf(t[r])) /\ u[x].to # t[r].to
    BY <2>1, <1>1, <1>2, <1>4 DEF Live
  <2>. QED BY <2>2 DEF Objects
<1>. QED BY <1>1, <1>6, <1>7, <1>9, <1>10, <1>11, <1>12 DEF SameElsewhere

-----------------------------------------------------------------------------
(* The invariant. *)

NameInv ==
  /\ file \in Seq(Record) /\ loaded \in Seq(Record) /\ runtime \in Seq(Record)
  /\ Ids(loaded) \subseteq Registered /\ Ids(runtime) \subseteq Registered
  /\ up \in BOOLEAN /\ serial \in BOOLEAN /\ clock \in 1 .. MaxTime
  /\ entity \subseteq Entity

\* What a call has made sure of at each of its steps, given the registered
\* entities and the entity table.
CallReady(l, reg, ents) ==
  /\ l.pc \notin {"idle", "judge"} => l.c \in Calls
  /\ l.pc = "append subject" => l.subj \in Entity
  /\ l.pc \in {"object", "append object", "upsert subject", "upsert object", "write"} => l.subj \in reg
  /\ l.pc = "append object" => l.obj \in Entity
  /\ l.pc \in {"upsert subject", "upsert object", "write"} => l.obj \in reg
  /\ l.pc \in {"upsert object", "write"} => l.subj \in ents /\ l.at \in 1 .. MaxTime
  /\ l.pc = "write" => l.obj \in ents
CallInv ==
  /\ call \in [Thread -> Call]
  /\ \A th \in Thread : CallReady(call[th], Registered, entity)

\* undo_supersession needs, besides one fact for each functional slot, that no row
\* of it has replaced two others.
FunctionalSound ==
  \A s \in Slot : predicate_is_single_valued(s) /\ undone[s] # "late" => Sound(triple, s)
TableInv ==
  /\ triple \in Seq(Row) /\ undone \in [Slot -> {"never", "undone", "late"}]
  /\ Traceable(triple)
  /\ EndsIn(triple, entity) /\ EndsIn(triple, Registered)
  /\ FunctionalSound

IInv == NameInv /\ CallInv /\ TableInv

\* The invariant holds what the runs check.
LEMMA InvImplied ==
  ASSUME IInv
  PROVE  GraphInv /\ OneLiveObject
<1>1. TypeOK
  BY DEF IInv, NameInv, CallInv, TableInv, TypeOK
<1>2. RetirementTraceable
  BY DEF IInv, TableInv, Traceable, RetirementTraceable
<1>3. EndsSurvive
  BY DEF IInv, TableInv, EndsIn, EndsSurvive
<1>4. OneLiveObject
  BY DEF IInv, TableInv, FunctionalSound, Sound, OneLive, OneLiveObject
<1>. QED BY <1>1, <1>2, <1>3, <1>4 DEF GraphInv

\* Every entity of the file is one that may come to be.
LEMMA RegisteredEntities ==
  ASSUME file \in Seq(Record)
  PROVE  Registered \subseteq Entity /\ Registered = Ids(file)
<1>1. ASSUME NEW i \in DOMAIN file PROVE file[i].id \in Entity
  <2>1. file[i] \in Record
    OBVIOUS
  <2>. QED BY <2>1 DEF Record
<1>. QED BY <1>1 DEF Registered, Ids

\* A thread in no call is ready for anything.
LEMMA IdleReady == Idle \in Call /\ \A reg, ents : CallReady(Idle, reg, ents)
<1>1. 0 \in 0 .. MaxTime
  BY GraphConstants
<1>2. {} \in SUBSET (Slot \X SUBSET Entity)
  OBVIOUS
<1>. QED BY <1>1, <1>2 DEF Idle, Call, PC, CallReady

\* A new brain satisfies it.
LEMMA InitInv == Init => IInv
<1>. SUFFICES ASSUME Init PROVE IInv
  OBVIOUS
<1>1. NameInv
  BY GraphConstants DEF Init, NameInv, Registered, Ids
<1>2. CallInv
  <2>. QED BY IdleReady DEF Init, CallInv
<1>3. TableInv
  <2>1. triple = <<>> /\ triple \in Seq(Row) /\ DOMAIN triple = {}
    BY DEF Init
  <2>2. undone \in [Slot -> {"never", "undone", "late"}]
    BY DEF Init
  <2>. QED BY <2>1, <2>2 DEF TableInv, Traceable, EndsIn, FunctionalSound, Sound, OneLive, OneBy, Live
<1>. QED BY <1>1, <1>2, <1>3 DEF IInv

\* A step that sends one thread on, while entities are only added.
LEMMA CallStep ==
  ASSUME CallInv, Registered \subseteq Registered', entity \subseteq entity',
         NEW th \in Thread, NEW l \in Call, CallReady(l, Registered', entity'), Goto(th, l)
  PROVE  CallInv'
<1>1. call' \in [Thread -> Call]
  BY DEF CallInv, Goto
<1>2. ASSUME NEW x \in Thread PROVE CallReady(call'[x], Registered', entity')
  <2>1. CASE x = th
    BY <2>1 DEF CallInv, Goto
  <2>2. CASE x # th
    <3>1. call'[x] = call[x] /\ CallReady(call[x], Registered, entity)
      BY <2>2 DEF CallInv, Goto
    <3>. QED BY <3>1 DEF CallReady
  <2>. QED BY <2>1, <2>2
<1>. QED BY <1>1, <1>2 DEF CallInv

\* A thread that returns is ready for anything.
LEMMA ReturnStep ==
  ASSUME CallInv, Registered \subseteq Registered', entity \subseteq entity',
         NEW th \in Thread, Return(th)
  PROVE  CallInv'
<1>1. Goto(th, Idle)
  BY DEF Return
<1>. QED BY <1>1, IdleReady, CallStep

\* No step on names or calls disturbs the table.
LEMMA TableKept ==
  ASSUME TableInv, triple' = triple, undone' = undone,
         Registered \subseteq Registered', entity \subseteq entity'
  PROVE  TableInv'
BY DEF TableInv, EndsIn, FunctionalSound

\* A step on calls and tables disturbs no name.
LEMMA NamesKept ==
  ASSUME NameInv, UNCHANGED <<file, up, loaded, runtime>>, clock' \in 1 .. MaxTime,
         serial' = serial, entity' \subseteq Entity
  PROVE  NameInv' /\ Registered' = Registered
BY DEF NameInv, Registered, Ids

-----------------------------------------------------------------------------
(* Each action preserves the invariant. *)

\* The names of a call are names, and what it may have to create is an entity.
LEMMA CallNames ==
  ASSUME NEW c \in Calls
  PROVE  /\ c.s \in Mention /\ c.p \in Predicate /\ c.o \in Mention
         /\ \A type \in SubjectTypes(c) : <<type, Canon[c.s]>> \in Entity
         /\ \A type \in ObjectTypes(c) : <<type, Canon[c.o]>> \in Entity
<1>1. c.s \in Mention /\ c.p \in Predicate /\ c.o \in Mention
  BY CallsOK
<1>2. /\ SubjectTypes(c) \X {Canon[c.s]} \subseteq Entity
      /\ ObjectTypes(c) \X {Canon[c.o]} \subseteq Entity
  BY EntitiesSuffice
<1>. QED BY <1>1, <1>2

\* An assert begins with the names it is given.
LEMMA StartPreserves ==
  ASSUME IInv, NEW th \in Thread, NEW c \in Calls, StartAssert(th, c)
  PROVE  IInv'
<1>. DEFINE l == [Idle EXCEPT !.pc = "subject", !.c = c]
<1>1. l \in Call /\ l.pc = "subject" /\ l.c = c
  <2>1. Idle \in Call /\ "subject" \in PC
    BY IdleReady DEF PC
  <2>. QED BY <2>1 DEF Call
<1>. HIDE DEF l
<1>2. CallReady(l, Registered', entity')
  BY <1>1 DEF CallReady
<1>3. NameInv' /\ Registered' = Registered
  BY NamesKept DEF IInv, NameInv, StartAssert, names
<1>4. CallInv'
  BY <1>1, <1>2, <1>3, CallStep DEF IInv, StartAssert, l
<1>5. TableInv'
  BY <1>3, TableKept DEF IInv, StartAssert
<1>. QED BY <1>3, <1>4, <1>5 DEF IInv

\* A look-up: what it found is registered, what it did not may be created.
LEMMA ResolvePreserves ==
  ASSUME IInv, NEW th \in Thread, NEW from, NEW m \in Mention, NEW types,
         NEW found \in [Entity -> Call], NEW create \in [Entity -> Call],
         \A e \in Registered : CallReady(found[e], Registered, entity),
         \A type \in types : /\ <<type, Canon[m]>> \in Entity
                             /\ CallReady(create[<<type, Canon[m]>>], Registered, entity),
         resolve_or_create(th, from, found, create, m, types)
  PROVE  IInv'
<1>. DEFINE e == Resolved(m)
<1>1. runtime' = ensure_alias(e, m)
  BY DEF resolve_or_create
<1>2. runtime' \in Seq(Record) /\ Ids(runtime') = Ids(runtime)
  BY <1>1, AliasKeepsIds DEF IInv, NameInv
<1>3. Registered' = Registered /\ entity' = entity /\ triple' = triple /\ undone' = undone
  BY DEF resolve_or_create, Registered
<1>4. NameInv'
  BY <1>2, <1>3 DEF IInv, NameInv, resolve_or_create, Ids
<1>5. Registered \subseteq Entity
  BY RegisteredEntities DEF IInv, NameInv
<1>6. CallInv'
  <2>1. CASE e # NoEntity /\ Goto(th, found[e])
    <3>1. e \in Registered
      BY <2>1, ResolvedListed DEF IInv, NameInv
    <3>2. found[e] \in Call /\ CallReady(found[e], Registered', entity')
      BY <3>1, <1>3, <1>5
    <3>. QED BY <2>1, <3>2, <1>3, CallStep DEF IInv
  <2>2. CASE \E type \in types : Goto(th, create[<<type, Canon[m]>>])
    <3>1. PICK type \in types : Goto(th, create[<<type, Canon[m]>>])
      BY <2>2
    <3>2. create[<<type, Canon[m]>>] \in Call
      OBVIOUS
    <3>3. CallReady(create[<<type, Canon[m]>>], Registered', entity')
      BY <1>3
    <3>. QED BY <3>1, <3>2, <3>3, <1>3, CallStep DEF IInv
  <2>3. CASE Return(th)
    BY <2>3, <1>3, ReturnStep DEF IInv
  <2>. QED BY <2>1, <2>2, <2>3 DEF resolve_or_create
<1>7. TableInv'
  BY <1>3, TableKept DEF IInv
<1>. QED BY <1>4, <1>6, <1>7 DEF IInv

\* The names of a call that has begun are found or have to be created.
LEMMA ResolveSubjectPreserves ==
  ASSUME IInv, NEW th \in Thread, ResolveSubject(th)
  PROVE  IInv'
<1>. DEFINE l == call[th]
            found == [e \in Entity |-> [l EXCEPT !.pc = "object", !.subj = e]]
            create == [e \in Entity |-> [l EXCEPT !.pc = "append subject", !.subj = e]]
<1>1. l \in Call /\ l.pc = "subject" /\ l.c \in Calls
  BY DEF IInv, CallInv, CallReady, ResolveSubject, resolve_or_create, At
<1>2. "object" \in PC /\ "append subject" \in PC
  BY DEF PC
<1>3. resolve_or_create(th, "subject", found, create, l.c.s, SubjectTypes(l.c))
  BY DEF ResolveSubject
<1>. HIDE DEF l
<1>4. ASSUME NEW e \in Entity
      PROVE  /\ found[e] \in Call /\ found[e].pc = "object" /\ found[e].subj = e
             /\ found[e].c = l.c
  BY <1>1, <1>2 DEF Call
<1>5. ASSUME NEW e \in Entity
      PROVE  /\ create[e] \in Call /\ create[e].pc = "append subject" /\ create[e].subj = e
             /\ create[e].c = l.c
  BY <1>1, <1>2 DEF Call
<1>6. found \in [Entity -> Call] /\ create \in [Entity -> Call]
  BY <1>4, <1>5
<1>. HIDE DEF found, create
<1>7. \A e \in Registered : CallReady(found[e], Registered, entity)
  <2>1. Registered \subseteq Entity
    BY RegisteredEntities DEF IInv, NameInv
  <2>. QED BY <2>1, <1>1, <1>4 DEF CallReady
<1>8. \A e \in Entity : CallReady(create[e], Registered, entity)
  BY <1>1, <1>5 DEF CallReady
<1>9. l.c.s \in Mention /\ \A type \in SubjectTypes(l.c) : <<type, Canon[l.c.s]>> \in Entity
  BY <1>1, CallNames
<1>. QED BY <1>3, <1>6, <1>7, <1>8, <1>9, ResolvePreserves

\* So are those of its object.
LEMMA ResolveObjectPreserves ==
  ASSUME IInv, NEW th \in Thread, ResolveObject(th)
  PROVE  IInv'
<1>. DEFINE l == call[th]
            found == [e \in Entity |-> [l EXCEPT !.pc = "upsert subject", !.obj = e]]
            create == [e \in Entity |-> [l EXCEPT !.pc = "append object", !.obj = e]]
<1>1. l \in Call /\ l.pc = "object" /\ l.c \in Calls /\ l.subj \in Registered
  BY DEF IInv, CallInv, CallReady, ResolveObject, resolve_or_create, At
<1>2. "upsert subject" \in PC /\ "append object" \in PC
  BY DEF PC
<1>3. resolve_or_create(th, "object", found, create, l.c.o, ObjectTypes(l.c))
  BY DEF ResolveObject
<1>. HIDE DEF l
<1>4. ASSUME NEW e \in Entity
      PROVE  /\ found[e] \in Call /\ found[e].pc = "upsert subject" /\ found[e].obj = e
             /\ found[e].c = l.c /\ found[e].subj = l.subj
  BY <1>1, <1>2 DEF Call
<1>5. ASSUME NEW e \in Entity
      PROVE  /\ create[e] \in Call /\ create[e].pc = "append object" /\ create[e].obj = e
             /\ create[e].c = l.c /\ create[e].subj = l.subj
  BY <1>1, <1>2 DEF Call
<1>6. found \in [Entity -> Call] /\ create \in [Entity -> Call]
  BY <1>4, <1>5
<1>. HIDE DEF found, create
<1>7. \A e \in Registered : CallReady(found[e], Registered, entity)
  <2>1. Registered \subseteq Entity
    BY RegisteredEntities DEF IInv, NameInv
  <2>. QED BY <2>1, <1>1, <1>4 DEF CallReady
<1>8. \A e \in Entity : CallReady(create[e], Registered, entity)
  BY <1>1, <1>5 DEF CallReady
<1>9. l.c.o \in Mention /\ \A type \in ObjectTypes(l.c) : <<type, Canon[l.c.o]>> \in Entity
  BY <1>1, CallNames
<1>. QED BY <1>3, <1>6, <1>7, <1>8, <1>9, ResolvePreserves

\* Creating an entity registers it.
LEMMA CreatePreserves ==
  ASSUME IInv, NEW th \in Thread, NEW from, NEW to \in PC, NEW e \in Entity, NEW m \in Mention,
         auto_create_entity(th, from, to, e, m),
         \A n \in Call : n.pc = to /\ n.c = call[th].c /\ n.subj = call[th].subj /\ n.obj = call[th].obj
                         => CallReady(n, Registered \union {e}, entity)
  PROVE  IInv'
<1>1. New(e, m) \in Record /\ New(e, m).id = e
  BY DEF New, Record
<1>2. /\ file' = Append(file, New(e, m)) /\ runtime' = Append(runtime, New(e, m))
      /\ loaded' = loaded /\ triple' = triple /\ entity' = entity /\ undone' = undone
      /\ up' = up /\ clock' = clock /\ serial' = serial
  BY DEF auto_create_entity, append_entity_to_ontology
<1>3. ASSUME NEW list \in Seq(Record)
      PROVE  /\ Append(list, New(e, m)) \in Seq(Record)
             /\ Ids(Append(list, New(e, m))) = Ids(list) \union {e}
  <2>. DEFINE n == Len(list) + 1
              v == Append(list, New(e, m))
  <2>1. /\ v \in Seq(Record) /\ DOMAIN v = DOMAIN list \union {n} /\ v[n] = New(e, m)
        /\ \A i \in DOMAIN list : v[i] = list[i]
    BY <1>1
  <2>2. n \notin DOMAIN list
    OBVIOUS
  <2>. HIDE DEF v, n
  <2>3. Ids(v) = Ids(list) \union {e}
    <3>1. ASSUME NEW i \in DOMAIN v PROVE v[i].id \in Ids(list) \union {e}
      BY <2>1, <1>1 DEF Ids
    <3>2. ASSUME NEW i \in DOMAIN list PROVE list[i].id \in Ids(v)
      BY <2>1 DEF Ids
    <3>3. e \in Ids(v)
      BY <2>1, <1>1 DEF Ids
    <3>. QED BY <3>1, <3>2, <3>3 DEF Ids
  <2>. QED BY <2>1, <2>3 DEF v
<1>4. Registered' = Registered \union {e}
  <2>1. Registered = Ids(file) /\ Registered' = Ids(file')
    BY DEF Registered, Ids
  <2>. QED BY <2>1, <1>2, <1>3 DEF IInv, NameInv
<1>5. NameInv'
  <2>1. Ids(loaded)' = Ids(loaded) /\ Ids(runtime)' = Ids(runtime) \union {e}
    <3>1. Ids(loaded)' = Ids(loaded') /\ Ids(runtime)' = Ids(runtime')
      BY DEF Ids
    <3>. QED BY <3>1, <1>2, <1>3 DEF IInv, NameInv
  <2>. QED BY <2>1, <1>2, <1>3, <1>4 DEF IInv, NameInv
<1>6. CallInv'
  <2>. DEFINE n == [call[th] EXCEPT !.pc = to]
  <2>1. call[th] \in Call
    BY DEF IInv, CallInv
  <2>2. n \in Call /\ n.pc = to /\ n.c = call[th].c /\ n.subj = call[th].subj /\ n.obj = call[th].obj
    BY <2>1 DEF Call
  <2>3. Goto(th, n)
    BY DEF auto_create_entity
  <2>. HIDE DEF n
  <2>4. CallReady(n, Registered', entity')
    BY <2>2, <1>2, <1>4
  <2>. QED BY <2>2, <2>3, <2>4, <1>2, <1>4, CallStep DEF IInv
<1>7. TableInv'
  BY <1>2, <1>4, TableKept DEF IInv
<1>. QED BY <1>5, <1>6, <1>7 DEF IInv

\* The subject is created before the object is looked up.
LEMMA CreateSubjectPreserves ==
  ASSUME IInv, NEW th \in Thread, CreateSubject(th)
  PROVE  IInv'
<1>1. call[th].c \in Calls /\ call[th].subj \in Entity /\ "object" \in PC
  BY DEF IInv, CallInv, CallReady, CreateSubject, auto_create_entity, At, PC
<1>2. call[th].c.s \in Mention
  BY <1>1, CallNames
<1>3. \A n \in Call : n.pc = "object" /\ n.c = call[th].c /\ n.subj = call[th].subj
        => CallReady(n, Registered \union {call[th].subj}, entity)
  BY <1>1 DEF CallReady
<1>. QED BY <1>1, <1>2, <1>3, CreatePreserves DEF CreateSubject

\* The object is created before either end is written.
LEMMA CreateObjectPreserves ==
  ASSUME IInv, NEW th \in Thread, CreateObject(th)
  PROVE  IInv'
<1>1. /\ call[th].c \in Calls /\ call[th].obj \in Entity /\ "upsert subject" \in PC
      /\ call[th].subj \in Registered
  BY DEF IInv, CallInv, CallReady, CreateObject, auto_create_entity, At, PC
<1>2. call[th].c.o \in Mention
  BY <1>1, CallNames
<1>3. \A n \in Call : n.pc = "upsert subject" /\ n.c = call[th].c /\ n.subj = call[th].subj
                      /\ n.obj = call[th].obj
        => CallReady(n, Registered \union {call[th].obj}, entity)
  BY <1>1 DEF CallReady
<1>. QED BY <1>1, <1>2, <1>3, CreatePreserves DEF CreateObject

\* Writing an end makes it one of the entity table.
LEMMA UpsertPreserves ==
  ASSUME IInv, NEW th \in Thread, UpsertSubject(th) \/ UpsertObject(th)
  PROVE  IInv'
<1>. DEFINE l == call[th]
<1>1. l \in Call /\ l.c \in Calls /\ l.subj \in Registered /\ l.obj \in Registered
  <2>1. l \in Call /\ l.pc \in {"upsert subject", "upsert object"}
    BY DEF IInv, CallInv, UpsertSubject, UpsertObject, At
  <2>2. CallReady(l, Registered, entity)
    BY DEF IInv, CallInv
  <2>. QED BY <2>1, <2>2 DEF CallReady
<1>2. Registered \subseteq Entity
  BY RegisteredEntities DEF IInv, NameInv
<1>3. /\ entity \subseteq entity' /\ entity' \subseteq Entity /\ triple' = triple /\ undone' = undone
      /\ UNCHANGED <<file, up, loaded, runtime>> /\ clock' = clock /\ serial' = serial
  BY <1>1, <1>2 DEF UpsertSubject, UpsertObject, names, IInv, NameInv
<1>4. NameInv' /\ Registered' = Registered
  <2>1. clock' \in 1 .. MaxTime
    BY <1>3 DEF IInv, NameInv
  <2>. QED BY <2>1, <1>3, NamesKept DEF IInv
<1>5. CallInv'
  <2>1. CASE Return(th)
    BY <2>1, <1>3, <1>4, ReturnStep DEF IInv
  <2>2. CASE ~Return(th) /\ UpsertSubject(th)
    <3>. DEFINE n == [l EXCEPT !.pc = "upsert object", !.at = clock]
    <3>1. "upsert object" \in PC /\ clock \in 0 .. MaxTime /\ clock \in 1 .. MaxTime
      BY DEF PC, IInv, NameInv
    <3>2. /\ n \in Call /\ n.pc = "upsert object" /\ n.at = clock
          /\ n.c = l.c /\ n.subj = l.subj /\ n.obj = l.obj
      BY <1>1, <3>1 DEF Call
    <3>3. Goto(th, n) /\ entity' = entity \union {l.subj}
      BY <2>2 DEF UpsertSubject
    <3>. HIDE DEF n, l
    <3>4. CallReady(n, Registered', entity')
      BY <1>1, <1>4, <3>1, <3>2, <3>3 DEF CallReady
    <3>. QED BY <1>3, <1>4, <3>2, <3>3, <3>4, CallStep DEF IInv
  <2>3. CASE UpsertObject(th)
    <3>. DEFINE n == [l EXCEPT !.pc = "write"]
    <3>1. "write" \in PC
      BY DEF PC
    <3>2. /\ n \in Call /\ n.pc = "write" /\ n.at = l.at
          /\ n.c = l.c /\ n.subj = l.subj /\ n.obj = l.obj
      BY <1>1, <3>1 DEF Call
    <3>3. Goto(th, n) /\ entity' = entity \union {l.obj}
      BY <2>3 DEF UpsertObject
    <3>4. l.subj \in entity /\ l.at \in 1 .. MaxTime
      BY <2>3 DEF UpsertObject, At, IInv, CallInv, CallReady
    <3>. HIDE DEF n, l
    <3>5. CallReady(n, Registered', entity')
      BY <1>1, <1>4, <3>2, <3>3, <3>4 DEF CallReady
    <3>. QED BY <1>3, <1>4, <3>2, <3>3, <3>5, CallStep DEF IInv
  <2>. QED BY <2>1, <2>2, <2>3
<1>6. TableInv'
  BY <1>3, <1>4, TableKept DEF IInv
<1>. QED BY <1>4, <1>5, <1>6 DEF IInv

\* A step that changes the triple table alone, and the calls: what has to hold of
\* the new table.
LEMMA TableStep ==
  ASSUME IInv, UNCHANGED <<names, entity, clock, serial>>, CallInv',
         triple' \in Seq(Row), Traceable(triple'),
         \A X : EndsIn(triple, X) => EndsIn(triple', X),
         undone' \in [Slot -> {"never", "undone", "late"}],
         \A s \in Slot : predicate_is_single_valued(s) /\ undone'[s] # "late" => Sound(triple', s)
  PROVE  IInv'
<1>1. NameInv' /\ Registered' = Registered
  BY NamesKept DEF IInv, NameInv, names
<1>2. EndsIn(triple', entity') /\ EndsIn(triple', Registered')
  BY <1>1 DEF IInv, TableInv
<1>3. FunctionalSound'
  BY DEF FunctionalSound, predicate_is_single_valued
<1>4. TableInv'
  BY <1>2, <1>3 DEF TableInv, Traceable, EndsIn
<1>. QED BY <1>1, <1>4 DEF IInv

\* What an assert writes: a row of its own, both ends being there; where the
\* predicate is functional it replaces the others or the object is there already.
LEMMA WriteEffect ==
  ASSUME IInv, NEW th \in Thread, WriteTriple(th)
  PROVE  LET slot == <<call[th].subj, call[th].c.p>>  o == call[th].obj
         IN  /\ slot \in Slot /\ o \in Entity
             /\ triple' \in Seq(Row) /\ Traceable(triple')
             /\ \A X : EndsIn(triple, X) /\ call[th].subj \in X /\ o \in X => EndsIn(triple', X)
             /\ call[th].subj \in entity \cap Registered /\ o \in entity \cap Registered
             /\ \A s \in Slot : predicate_is_single_valued(s) /\ Sound(triple, s) => Sound(triple', s)
             /\ \/ triple' = triple
                \/ Objects(triple', slot) = IF predicate_is_single_valued(slot) THEN {o}
                                            ELSE Objects(triple, slot) \union {o}
             /\ SameElsewhere(triple, triple', slot)
<1>. DEFINE l == call[th]
            slot == <<l.subj, l.c.p>>
            row == Assertion(l.subj, l.c.p, l.obj, l.at)
<1>1. /\ l.pc = "write" /\ l.c \in Calls /\ l.subj \in Registered /\ l.obj \in Registered
      /\ l.subj \in entity /\ l.obj \in entity /\ l.at \in 1 .. MaxTime
  BY DEF WriteTriple, At, IInv, CallInv, CallReady
<1>2. l.subj \in Entity /\ l.obj \in Entity /\ l.c.p \in Predicate
  BY <1>1, CallNames DEF IInv, NameInv
<1>. HIDE DEF l
<1>3. /\ row \in Row /\ row.valid_to = Open /\ row.by = Nobody
      /\ row.from = l.subj /\ row.pred = l.c.p /\ row.to = l.obj
  <2>1. 0 \in 0 .. MaxTime /\ 0 \in Nat
    BY GraphConstants
  <2>. QED BY <1>1, <1>2, <2>1 DEF Assertion, Row, Open, Nobody
<1>4. SlotOf(row) = slot /\ slot \in Slot
  BY <1>2, <1>3 DEF SlotOf, Slot
<1>5. triple' = Written(row)
  BY DEF WriteTriple, l
<1>6. {row.from, row.to} \subseteq entity
  BY <1>1, <1>3
<1>. HIDE DEF row
<1>7. triple \in Seq(Row) /\ Traceable(triple)
  BY DEF IInv, TableInv
<1>8. CASE predicate_is_single_valued(slot)
  <2>1. triple' = insert_triple_superseding(triple, row, TRUE, LastInserted)
    BY <1>4, <1>5, <1>6, <1>8 DEF Written
  <2>2. /\ triple' \in Seq(Row) /\ Traceable(triple')
        /\ \A X : EndsIn(triple, X) /\ row.from \in X /\ row.to \in X => EndsIn(triple', X)
        /\ \A s : Sound(triple, s) => Sound(triple', s)
        /\ triple' = triple \/ Objects(triple', SlotOf(row)) = {row.to}
        /\ SameElsewhere(triple, triple', SlotOf(row))
    <3>1. ASSUME NEW u, u = insert_triple_superseding(triple, row, TRUE, LastInserted)
          PROVE  /\ u \in Seq(Row) /\ Traceable(u)
                 /\ \A X : EndsIn(triple, X) /\ row.from \in X /\ row.to \in X => EndsIn(u, X)
                 /\ \A s : Sound(triple, s) => Sound(u, s)
                 /\ u = triple \/ Objects(u, SlotOf(row)) = {row.to}
                 /\ SameElsewhere(triple, u, SlotOf(row))
      <4>1. row \in Row /\ row.valid_to = Open /\ row.by = Nobody
        BY <1>3
      <4>2. u \in Seq(Row) /\ Traceable(u)
        BY <3>1, <4>1, <1>7, SupersedeEffect
      <4>3. \A X : EndsIn(triple, X) /\ row.from \in X /\ row.to \in X => EndsIn(u, X)
        BY <3>1, <4>1, <1>7, SupersedeEffect
      <4>4. \A s : Sound(triple, s) => Sound(u, s)
        BY <3>1, <4>1, <1>7, SupersedeEffect
      <4>5. u = triple \/ Objects(u, SlotOf(row)) = {row.to}
        BY <3>1, <4>1, <1>7, SupersedeEffect
      <4>6. SameElsewhere(triple, u, SlotOf(row))
        BY <3>1, <4>1, <1>7, SupersedeEffect
      <4>. QED BY <4>2, <4>3, <4>4, <4>5, <4>6
    <3>. QED BY <2>1, <3>1
  <2>. QED BY <2>2, <1>1, <1>2, <1>3, <1>4, <1>8 DEF l
<1>9. CASE ~predicate_is_single_valued(slot)
  <2>1. triple' = insert_triple(triple, row, TRUE)
    BY <1>4, <1>5, <1>6, <1>9 DEF Written
  <2>2. /\ triple' \in Seq(Row) /\ Traceable(triple')
        /\ \A X : EndsIn(triple, X) /\ row.from \in X /\ row.to \in X => EndsIn(triple', X)
        /\ \A s : s # SlotOf(row) /\ Sound(triple, s) => Sound(triple', s)
        /\ Objects(triple', SlotOf(row)) = Objects(triple, SlotOf(row)) \union {row.to}
        /\ SameElsewhere(triple, triple', SlotOf(row))
    <3>1. ASSUME NEW u, u = insert_triple(triple, row, TRUE)
          PROVE  /\ u \in Seq(Row) /\ Traceable(u)
                 /\ \A X : EndsIn(triple, X) /\ row.from \in X /\ row.to \in X => EndsIn(u, X)
                 /\ \A s : s # SlotOf(row) /\ Sound(triple, s) => Sound(u, s)
                 /\ Objects(u, SlotOf(row)) = Objects(triple, SlotOf(row)) \union {row.to}
                 /\ SameElsewhere(triple, u, SlotOf(row))
      <4>1. row \in Row /\ row.valid_to = Open /\ row.by = Nobody
        BY <1>3
      <4>2. u \in Seq(Row) /\ Traceable(u)
        BY <3>1, <4>1, <1>7, InsertEffect
      <4>3. \A X : EndsIn(triple, X) /\ row.from \in X /\ row.to \in X => EndsIn(u, X)
        BY <3>1, <4>1, <1>7, InsertEffect
      <4>4. \A s : s # SlotOf(row) /\ Sound(triple, s) => Sound(u, s)
        BY <3>1, <4>1, <1>7, InsertEffect
      <4>5. Objects(u, SlotOf(row)) = Objects(triple, SlotOf(row)) \union {row.to}
        BY <3>1, <4>1, <1>7, InsertEffect
      <4>6. SameElsewhere(triple, u, SlotOf(row))
        BY <3>1, <4>1, <1>7, InsertEffect
      <4>. QED BY <4>2, <4>3, <4>4, <4>5, <4>6
    <3>. QED BY <2>1, <3>1
  <2>. QED BY <2>2, <1>1, <1>2, <1>3, <1>4, <1>9 DEF l
<1>. QED BY <1>8, <1>9

\* An assert's row keeps the table's invariant.
LEMMA WritePreserves ==
  ASSUME IInv, NEW th \in Thread, WriteTriple(th)
  PROVE  IInv'
<1>1. UNCHANGED <<names, entity, clock, serial, undone>> /\ Return(th)
  BY DEF WriteTriple
<1>2. Registered' = Registered
  BY <1>1 DEF Registered, names
<1>3. CallInv'
  BY <1>1, <1>2, ReturnStep DEF IInv
<1>. DEFINE subj == call[th].subj
            o == call[th].obj
<1>4. /\ triple' \in Seq(Row) /\ Traceable(triple')
      /\ \A X : EndsIn(triple, X) /\ subj \in X /\ o \in X => EndsIn(triple', X)
      /\ subj \in entity \cap Registered /\ o \in entity \cap Registered
      /\ \A s \in Slot : predicate_is_single_valued(s) /\ Sound(triple, s) => Sound(triple', s)
  BY WriteEffect
<1>5. NameInv'
  BY <1>1, NamesKept DEF IInv, NameInv, names
<1>6. EndsIn(triple', entity') /\ EndsIn(triple', Registered')
  BY <1>1, <1>2, <1>4 DEF IInv, TableInv
<1>7. FunctionalSound'
  BY <1>1, <1>4 DEF IInv, TableInv, FunctionalSound, predicate_is_single_valued
<1>8. TableInv'
  BY <1>1, <1>4, <1>6, <1>7 DEF IInv, TableInv, Traceable, EndsIn
<1>. QED BY <1>3, <1>5, <1>8 DEF IInv

\* A call that fails keeps what it had done, and a verdict pass that ends touches
\* nothing.
LEMMA FailPreserves ==
  ASSUME IInv, NEW th \in Thread, Fail(th) \/ JudgeFails(th)
  PROVE  IInv'
<1>1. Return(th) /\ UNCHANGED <<names, entity, triple, clock, serial, undone>>
  BY DEF Fail, JudgeFails
<1>2. Registered' = Registered
  BY <1>1 DEF Registered, names
<1>3. NameInv'
  BY <1>1, NamesKept DEF IInv, NameInv, names
<1>4. CallInv'
  BY <1>1, <1>2, ReturnStep DEF IInv
<1>5. TableInv'
  BY <1>1, <1>2, TableKept DEF IInv
<1>. QED BY <1>3, <1>4, <1>5 DEF IInv

\* A verdict pass begins with slots and what is listed for them.
LEMMA DetectPreserves ==
  ASSUME IInv, NEW th \in Thread, Detect(th)
  PROVE  IInv'
<1>. DEFINE open == {s \in multi_valued_live_groups : ~predicate_is_single_valued(s)}
<1>1. UNCHANGED <<names, entity, triple, clock, serial, undone>>
  BY DEF Detect
<1>2. PICK considered \in SUBSET open :
        Goto(th, [Idle EXCEPT !.pc = "judge",
                    !.todo = {<<s, Objects(triple, s)>> : s \in considered}])
  BY DEF Detect
<1>3. considered \subseteq Slot
  BY DEF multi_valued_live_groups
<1>. HIDE DEF open
<1>. DEFINE todo == {<<s, Objects(triple, s)>> : s \in considered}
<1>4. todo \in SUBSET (Slot \X SUBSET Entity)
  <2>1. ASSUME NEW s PROVE Objects(triple, s) \subseteq Entity
    <3>1. ASSUME NEW r \in DOMAIN triple PROVE triple[r].to \in Entity
      <4>1. triple[r] \in Row
        BY DEF IInv, TableInv
      <4>. QED BY <4>1 DEF Row
    <3>. QED BY <3>1 DEF Objects, Live
  <2>. QED BY <2>1, <1>3
<1>. HIDE DEF todo
<1>. DEFINE l == [Idle EXCEPT !.pc = "judge", !.todo = todo]
<1>5. l \in Call /\ l.pc = "judge"
  <2>1. Idle \in Call /\ "judge" \in PC
    BY IdleReady DEF PC
  <2>. QED BY <2>1, <1>4 DEF Call
<1>6. Goto(th, l)
  BY <1>2 DEF todo
<1>. HIDE DEF l
<1>7. CallReady(l, Registered', entity')
  BY <1>5 DEF CallReady
<1>8. Registered' = Registered
  BY <1>1 DEF Registered, names
<1>9. NameInv'
  BY <1>1, NamesKept DEF IInv, NameInv, names
<1>10. CallInv'
  BY <1>1, <1>5, <1>6, <1>7, <1>8, CallStep DEF IInv
<1>11. TableInv'
  BY <1>1, <1>8, TableKept DEF IInv
<1>. QED BY <1>9, <1>10, <1>11 DEF IInv

\* What choosing one object of a slot does, as an assertion about the table.
LEMMA RetireStep ==
  ASSUME IInv, NEW slot, NEW keep, RetireConflicting(slot, keep)
  PROVE  /\ triple' \in Seq(Row) /\ Traceable(triple')
         /\ \A X : EndsIn(triple, X) => EndsIn(triple', X)
         /\ \A s : Sound(triple, s) => Sound(triple', s)
         /\ triple' = triple \/ (keep \in Objects(triple, slot) /\ Objects(triple', slot) = {keep})
         /\ SameElsewhere(triple, triple', slot)
<1>1. triple \in Seq(Row) /\ Traceable(triple) /\ clock \in 1 .. MaxTime
  BY DEF IInv, TableInv, NameInv
<1>2. triple' \in retire_conflicting_objects(triple, slot, keep, clock)
  BY DEF RetireConflicting
<1>. QED BY <1>1, <1>2, ChooseEffect

\* A verdict retires or leaves; either way the pass goes on with fewer slots.
LEMMA JudgePreserves ==
  ASSUME IInv, NEW th \in Thread, Judge(th)
  PROVE  IInv'
<1>1. PICK candidate \in call[th].todo :
        LET rest == [call[th] EXCEPT !.todo = @ \ {candidate}]
        IN  /\ Goto(th, IF rest.todo = {} THEN Idle ELSE rest)
            /\ \/ UNCHANGED triple
               \/ \E keep \in candidate[2] : RetireConflicting(candidate[1], keep)
  BY DEF Judge
<1>2. UNCHANGED <<names, entity, clock, serial, undone>>
  BY DEF Judge
<1>. DEFINE rest == [call[th] EXCEPT !.todo = @ \ {candidate}]
<1>3. rest \in Call /\ rest.pc = "judge"
  <2>1. call[th] \in Call /\ call[th].pc = "judge"
    BY DEF IInv, CallInv, Judge, At
  <2>. QED BY <2>1 DEF Call
<1>4. Goto(th, rest) \/ Return(th)
  BY <1>1 DEF Return
<1>5. Registered' = Registered
  BY <1>2 DEF Registered, names
<1>. HIDE DEF rest
<1>6. CallReady(rest, Registered', entity')
  BY <1>3 DEF CallReady
<1>7. CallInv'
  <2>1. CASE Goto(th, rest)
    BY <2>1, <1>2, <1>3, <1>5, <1>6, CallStep DEF IInv
  <2>2. CASE Return(th)
    BY <2>2, <1>2, <1>5, ReturnStep DEF IInv
  <2>. QED BY <1>4, <2>1, <2>2
<1>8. CASE triple' = triple
  <2>1. NameInv'
    BY <1>2, NamesKept DEF IInv, NameInv, names
  <2>2. TableInv'
    BY <1>2, <1>5, <1>8, TableKept DEF IInv
  <2>. QED BY <2>1, <2>2, <1>7 DEF IInv
<1>9. CASE \E keep \in candidate[2] : RetireConflicting(candidate[1], keep)
  <2>1. PICK keep \in candidate[2] : RetireConflicting(candidate[1], keep)
    BY <1>9
  <2>2. /\ triple' \in Seq(Row) /\ Traceable(triple')
        /\ \A X : EndsIn(triple, X) => EndsIn(triple', X)
        /\ \A s : Sound(triple, s) => Sound(triple', s)
    BY <2>1, RetireStep
  <2>3. \A s \in Slot : predicate_is_single_valued(s) /\ undone'[s] # "late" => Sound(triple', s)
    BY <1>2, <2>2 DEF IInv, TableInv, FunctionalSound
  <2>4. undone' \in [Slot -> {"never", "undone", "late"}]
    BY <1>2 DEF IInv, TableInv
  <2>. QED BY <1>2, <1>7, <2>2, <2>3, <2>4, TableStep
<1>. QED BY <1>1, <1>8, <1>9

\* So does a choice the host makes itself.
LEMMA ChoosePreserves ==
  ASSUME IInv, NEW slot, NEW keep, Choose(slot, keep)
  PROVE  IInv'
<1>1. RetireConflicting(slot, keep) /\ UNCHANGED <<names, entity, clock, call, serial, undone>>
  BY DEF Choose
<1>2. /\ triple' \in Seq(Row) /\ Traceable(triple')
      /\ \A X : EndsIn(triple, X) => EndsIn(triple', X)
      /\ \A s : Sound(triple, s) => Sound(triple', s)
  BY <1>1, RetireStep
<1>3. \A s \in Slot : predicate_is_single_valued(s) /\ undone'[s] # "late" => Sound(triple', s)
  BY <1>1, <1>2 DEF IInv, TableInv, FunctionalSound
<1>4. CallInv'
  BY <1>1 DEF IInv, CallInv, Registered, names
<1>5. undone' \in [Slot -> {"never", "undone", "late"}]
  BY <1>1 DEF IInv, TableInv
<1>. QED BY <1>1, <1>2, <1>3, <1>4, <1>5, TableStep

\* What undoing a replacement does, as an assertion about the table.
LEMMA UndoStep ==
  ASSUME IInv, NEW r \in DOMAIN triple, Undo(r)
  PROVE  /\ triple' \in Seq(Row) /\ Traceable(triple')
         /\ \A X : EndsIn(triple, X) => EndsIn(triple', X)
         /\ \A s : Sound(triple, s) /\ (s = SlotOf(triple[r]) => triple[r].valid_to = Open)
                   => Sound(triple', s)
         /\ SameElsewhere(triple, triple', SlotOf(triple[r]))
         /\ Objects(triple, SlotOf(triple[r])) \ {triple[r].to} \subseteq Objects(triple', SlotOf(triple[r]))
         /\ Objects(triple', SlotOf(triple[r])) \ {triple[r].to} # {}
<1>1. triple \in Seq(Row) /\ Traceable(triple) /\ clock \in 1 .. MaxTime
  BY DEF IInv, TableInv, NameInv
<1>2. triple' = undo_supersession(triple, r, clock) /\ Retired(triple, r) # {}
  BY DEF Undo
<1>. QED BY <1>1, <1>2, UndoEffect

\* An undo of a row that still holds keeps its slot's facts to one; a late one is
\* remembered as such.
LEMMA UndoPreserves ==
  ASSUME IInv, NEW r \in DOMAIN triple, Undo(r)
  PROVE  IInv'
<1>. DEFINE slot == SlotOf(triple[r])
<1>1. UNCHANGED <<names, entity, clock, call, serial>>
  BY DEF Undo
<1>2. undone' = [undone EXCEPT ![slot] =
                   IF undone[slot] = "late" \/ triple[r].valid_to # Open THEN "late" ELSE "undone"]
  BY DEF Undo
<1>3. slot \in Slot
  <2>1. triple[r] \in Row
    BY DEF IInv, TableInv
  <2>. QED BY <2>1 DEF Row, SlotOf, Slot
<1>4. /\ triple' \in Seq(Row) /\ Traceable(triple')
      /\ \A X : EndsIn(triple, X) => EndsIn(triple', X)
      /\ \A s : Sound(triple, s) /\ (s = slot => triple[r].valid_to = Open) => Sound(triple', s)
  BY UndoStep
<1>. HIDE DEF slot
<1>5. undone' \in [Slot -> {"never", "undone", "late"}]
  BY <1>2 DEF IInv, TableInv
<1>6. ASSUME NEW s \in Slot, predicate_is_single_valued(s), undone'[s] # "late"
      PROVE  Sound(triple', s)
  <2>1. undone[s] # "late" /\ (s = slot => triple[r].valid_to = Open)
    BY <1>2, <1>3, <1>6 DEF IInv, TableInv
  <2>. QED BY <2>1, <1>4, <1>6 DEF IInv, TableInv, FunctionalSound
<1>7. CallInv'
  BY <1>1 DEF IInv, CallInv, Registered, names
<1>. QED BY <1>1, <1>4, <1>5, <1>6, <1>7, TableStep

\* Time passing, the process dying and the brain opening again touch no table; a
\* call that dies leaves what it had done.
LEMMA ProcessPreserves ==
  ASSUME IInv, Tick \/ Crash \/ BrainOpen
  PROVE  IInv'
<1>1. /\ file' = file /\ entity' = entity /\ triple' = triple /\ undone' = undone
      /\ serial' = serial
  BY DEF Tick, Crash, BrainOpen, names
<1>2. Registered' = Registered /\ Registered = Ids(file)
  BY <1>1 DEF Registered, Ids
<1>3. TableInv'
  BY <1>1, <1>2, TableKept DEF IInv
<1>4. CallInv'
  <2>1. CASE call' = call
    BY <2>1, <1>1, <1>2 DEF IInv, CallInv
  <2>2. CASE call' = [th \in Thread |-> Idle]
    BY <2>2, IdleReady DEF CallInv
  <2>. QED BY <2>1, <2>2 DEF Tick, Crash, BrainOpen
<1>5. NameInv'
  <2>1. CASE Tick
    <3>1. clock' \in 1 .. MaxTime
      BY <2>1, GraphConstants DEF Tick, IInv, NameInv
    <3>. QED BY <2>1, <3>1, <1>1, NamesKept DEF Tick, IInv, NameInv, names
  <2>2. CASE Crash
    <3>1. loaded' = <<>> /\ runtime' = <<>> /\ up' = FALSE /\ clock' = clock
      BY <2>2 DEF Crash
    <3>2. <<>> \in Seq(Record) /\ Ids(<<>>) = {}
      BY DEF Ids
    <3>3. Ids(loaded)' = {} /\ Ids(runtime)' = {}
      BY <3>1 DEF Ids
    <3>. QED BY <3>1, <3>2, <3>3, <1>1, <1>2 DEF IInv, NameInv
  <2>3. CASE BrainOpen
    <3>1. loaded' = file /\ runtime' = runtime /\ up' = TRUE /\ clock' = clock
      BY <2>3 DEF BrainOpen
    <3>2. Ids(loaded)' = Ids(file) /\ Ids(runtime)' = Ids(runtime)
      BY <3>1 DEF Ids
    <3>. QED BY <3>1, <3>2, <1>1, <1>2 DEF IInv, NameInv
  <2>. QED BY <2>1, <2>2, <2>3
<1>. QED BY <1>3, <1>4, <1>5 DEF IInv

-----------------------------------------------------------------------------
(* The theorems. *)

\* IInv is inductive: it holds of a new brain and every step keeps it.
THEOREM Invariance == Spec => []IInv
<1>1. Init => IInv
  BY InitInv
<1>2. IInv /\ [Next]_vars => IInv'
  <2>. SUFFICES ASSUME IInv, [Next]_vars PROVE IInv'
    OBVIOUS
  <2>1. CASE Next
    <3>1. ASSUME NEW th \in Thread, NEW c \in Calls, StartAssert(th, c) PROVE IInv'
      BY <3>1, StartPreserves
    <3>2. ASSUME NEW th \in Thread, ResolveSubject(th) \/ ResolveObject(th) PROVE IInv'
      BY <3>2, ResolveSubjectPreserves, ResolveObjectPreserves
    <3>3. ASSUME NEW th \in Thread, CreateSubject(th) \/ CreateObject(th) PROVE IInv'
      BY <3>3, CreateSubjectPreserves, CreateObjectPreserves
    <3>4. ASSUME NEW th \in Thread, UpsertSubject(th) \/ UpsertObject(th) PROVE IInv'
      BY <3>4, UpsertPreserves
    <3>5. ASSUME NEW th \in Thread, WriteTriple(th) PROVE IInv'
      BY <3>5, WritePreserves
    <3>6. ASSUME NEW th \in Thread, Fail(th) \/ JudgeFails(th) PROVE IInv'
      BY <3>6, FailPreserves
    <3>7. ASSUME NEW th \in Thread, Detect(th) PROVE IInv'
      BY <3>7, DetectPreserves
    <3>8. ASSUME NEW th \in Thread, Judge(th) PROVE IInv'
      BY <3>8, JudgePreserves
    <3>9. ASSUME NEW slot, NEW keep, Choose(slot, keep) PROVE IInv'
      BY <3>9, ChoosePreserves
    <3>10. ASSUME NEW r \in DOMAIN triple, Undo(r) PROVE IInv'
      BY <3>10, UndoPreserves
    <3>11. ASSUME Tick \/ Crash \/ BrainOpen PROVE IInv'
      BY <3>11, ProcessPreserves
    <3>. QED BY <2>1, <3>1, <3>2, <3>3, <3>4, <3>5, <3>6, <3>7, <3>8, <3>9, <3>10, <3>11
             DEF Next
  <2>2. CASE UNCHANGED vars
    BY <2>2 DEF vars, names, IInv, NameInv, CallInv, TableInv, Registered, Ids, EndsIn,
                Traceable, FunctionalSound, predicate_is_single_valued
  <2>. QED BY <2>1, <2>2
<1>. QED BY <1>1, <1>2, PTL DEF Spec

\* No crash or failure between the ontology file, the list in memory and the
\* database leaves a fact whose ends a reopened brain does not know, and every
\* retirement can be traced to the row of its slot that caused it.
THEOREM GraphSafety == Spec => []GraphInv
<1>1. IInv => GraphInv
  BY InvImplied
<1>. QED BY <1>1, Invariance, PTL

\* A functional slot holds one fact at a time under any overlap of asserts,
\* verdicts and undos of rows that still hold.
THEOREM OneFact == Spec => []OneLiveObject
<1>1. IInv => OneLiveObject
  BY InvImplied
<1>. QED BY <1>1, Invariance, PTL

-----------------------------------------------------------------------------
(* The refinement. *)

current == [s \in Slot |-> Objects(triple, s)]

\* A step that leaves the table leaves the facts.
LEMMA FactsKept == ASSUME triple' = triple PROVE current' = current
BY DEF current, Objects, Live

\* A change of one slot's facts, as a change of the function.
LEMMA FactsAt ==
  ASSUME NEW slot \in Slot, SameElsewhere(triple, triple', slot)
  PROVE  current' = [current EXCEPT ![slot] = Objects(triple', slot)]
<1>1. current' = [s \in Slot |-> Objects(triple', s)]
  BY DEF current, Objects, Live
<1>2. \A s \in Slot : s # slot => Objects(triple', s) = Objects(triple, s)
  BY DEF SameElsewhere
<1>. QED BY <1>1, <1>2 DEF current

\* An assert that writes is Learn.
LEMMA WriteLearns ==
  ASSUME IInv, NEW th \in Thread, WriteTriple(th)
  PROVE  Facts!Next \/ current' = current
<1>. DEFINE slot == <<call[th].subj, call[th].c.p>>
            o == call[th].obj
<1>1. /\ slot \in Slot /\ o \in Entity /\ SameElsewhere(triple, triple', slot)
      /\ \/ triple' = triple
         \/ Objects(triple', slot) = IF predicate_is_single_valued(slot) THEN {o}
                                     ELSE Objects(triple, slot) \union {o}
  BY WriteEffect
<1>. HIDE DEF slot, o
<1>2. CASE triple' = triple
  BY <1>2, FactsKept
<1>3. CASE Objects(triple', slot) = IF predicate_is_single_valued(slot) THEN {o}
                                    ELSE Objects(triple, slot) \union {o}
  <2>1. current' = [current EXCEPT ![slot] = Objects(triple', slot)]
    BY <1>1, FactsAt
  <2>2. current[slot] = Objects(triple, slot)
    BY <1>1 DEF current
  <2>3. Facts!Learn(slot, o)
    BY <1>3, <2>1, <2>2 DEF Facts!Learn, current
  <2>. QED BY <1>1, <2>3 DEF Facts!Next
<1>. QED BY <1>1, <1>2, <1>3

\* A verdict that retires is Settle.
LEMMA RetireSettles ==
  ASSUME IInv, NEW slot \in Slot, NEW keep, RetireConflicting(slot, keep)
  PROVE  Facts!Next \/ current' = current
<1>1. /\ triple' = triple \/ (keep \in Objects(triple, slot) /\ Objects(triple', slot) = {keep})
      /\ SameElsewhere(triple, triple', slot)
  BY RetireStep
<1>2. CASE triple' = triple
  BY <1>2, FactsKept
<1>3. CASE keep \in Objects(triple, slot) /\ Objects(triple', slot) = {keep}
  <2>1. current' = [current EXCEPT ![slot] = {keep}]
    BY <1>1, <1>3, FactsAt
  <2>2. keep \in current[slot]
    BY <1>3 DEF current
  <2>3. Facts!Settle(slot)
    BY <2>1, <2>2 DEF Facts!Settle, current
  <2>. QED BY <2>3 DEF Facts!Next
<1>. QED BY <1>1, <1>2, <1>3

\* An undo is Undo.
LEMMA UndoUndoes ==
  ASSUME IInv, NEW r \in DOMAIN triple, Undo(r)
  PROVE  Facts!Next
<1>. DEFINE slot == SlotOf(triple[r])
            o == triple[r].to
<1>1. triple[r] \in Row
  BY DEF IInv, TableInv
<1>2. slot \in Slot /\ o \in Entity
  BY <1>1 DEF Row, SlotOf, Slot
<1>3. /\ SameElsewhere(triple, triple', slot)
      /\ Objects(triple, slot) \ {o} \subseteq Objects(triple', slot)
      /\ Objects(triple', slot) \ {o} # {}
  BY UndoStep
<1>. HIDE DEF slot, o
<1>4. current' = [current EXCEPT ![slot] = Objects(triple', slot)]
  BY <1>2, <1>3, FactsAt
<1>5. current[slot] = Objects(triple, slot) /\ current'[slot] = Objects(triple', slot)
  BY <1>2, <1>4 DEF current
<1>6. current' = [current EXCEPT ![slot] = current'[slot]]
  BY <1>4, <1>5
<1>7. Facts!Undo(slot)
  BY <1>2, <1>3, <1>5, <1>6 DEF Facts!Undo, current
<1>. QED BY <1>2, <1>7 DEF Facts!Next

\* A slot that holds a fact never loses its last one, whatever asserts, verdicts on
\* slots that have changed since, undos and crashes overlap: every step is one of
\* CurrentFacts or leaves the facts alone.
THEOREM FactsRefinement == Spec => ImplementsCurrentFacts
<1>1. Init => Facts!Init
  <2>. SUFFICES ASSUME Init PROVE Facts!Init
    OBVIOUS
  <2>1. \A s : Objects(triple, s) = {}
    BY DEF Init, Objects, Live
  <2>. QED BY <2>1 DEF Facts!Init
<1>2. IInv /\ [Next]_vars => Facts!Next \/ current' = current
  <2>. SUFFICES ASSUME IInv, [Next]_vars PROVE Facts!Next \/ current' = current
    OBVIOUS
  <2>1. ASSUME triple' = triple PROVE current' = current
    BY <2>1, FactsKept
  <2>2. ASSUME NEW th \in Thread, WriteTriple(th) PROVE Facts!Next \/ current' = current
    BY <2>2, WriteLearns
  <2>3. ASSUME NEW th \in Thread, Judge(th) PROVE Facts!Next \/ current' = current
    <3>1. PICK candidate \in call[th].todo :
            \/ UNCHANGED triple
            \/ \E keep \in candidate[2] : RetireConflicting(candidate[1], keep)
      BY <2>3 DEF Judge
    <3>2. candidate[1] \in Slot
      <4>1. call[th] \in Call
        BY DEF IInv, CallInv
      <4>2. call[th].todo \in SUBSET (Slot \X SUBSET Entity)
        BY <4>1 DEF Call
      <4>. QED BY <4>2
    <3>. QED BY <3>1, <3>2, <2>1, RetireSettles
  <2>4. ASSUME NEW slot \in Slot, NEW keep, Choose(slot, keep)
        PROVE  Facts!Next \/ current' = current
    BY <2>4, RetireSettles DEF Choose
  <2>5. ASSUME NEW r \in DOMAIN triple, Undo(r) PROVE Facts!Next
    BY <2>5, UndoUndoes
  <2>6. ASSUME NEW th \in Thread,
               \/ \E c \in Calls : StartAssert(th, c)
               \/ ResolveSubject(th) \/ ResolveObject(th) \/ CreateSubject(th) \/ CreateObject(th)
               \/ UpsertSubject(th) \/ UpsertObject(th) \/ Fail(th) \/ Detect(th) \/ JudgeFails(th)
        PROVE  triple' = triple
    BY <2>6 DEF StartAssert, ResolveSubject, ResolveObject, resolve_or_create, CreateSubject,
                CreateObject, auto_create_entity, UpsertSubject, UpsertObject, Fail, Detect,
                JudgeFails
  <2>7. ASSUME Tick \/ Crash \/ BrainOpen \/ UNCHANGED vars PROVE triple' = triple
    BY <2>7 DEF Tick, Crash, BrainOpen, vars
  <2>. QED BY <2>1, <2>2, <2>3, <2>4, <2>5, <2>6, <2>7 DEF Next
<1>3. Spec => []IInv
  BY Invariance
<1>4. IInv /\ [Next]_vars => [Facts!Next]_current
  BY <1>2
<1>. QED BY <1>1, <1>3, <1>4, PTL DEF Spec, ImplementsCurrentFacts, Facts!Spec, current

-----------------------------------------------------------------------------
(* One assert at a time.  When the host lets no two asserts overlap, the times *)
(* of a functional slot's rows follow one another, the lists in memory and the *)
(* ontology file tell the same story, and what a look-up has missed is still   *)
(* missing when it is created.                                                 *)

\* The rows of a slot, in the order they were written, each end before the next
\* begins, and the last one holds.
InSequence(t, s) ==
  /\ \A x, y \in DOMAIN t : SlotOf(t[x]) = s /\ SlotOf(t[y]) = s /\ x < y =>
       t[x].valid_to # Open /\ t[x].valid_to <= t[y].at
  /\ \A x \in DOMAIN t : SlotOf(t[x]) = s /\ t[x].valid_to # Open =>
       \E y \in DOMAIN t : SlotOf(t[y]) = s /\ x < y
NoLater(t, at) == \A r \in DOMAIN t : t[r].at <= at

\* What a table answers about a slot for an instant when its rows are in sequence.
LEMMA SequenceAnswersOnce ==
  ASSUME NEW t \in Seq(Row), NEW s, InSequence(t, s), NEW instant \in Nat,
         NEW a \in find_triples_as_of(t, s, instant), NEW b \in find_triples_as_of(t, s, instant)
  PROVE  a = b
<1>. DEFINE hits == {x \in DOMAIN t : /\ SlotOf(t[x]) = s /\ t[x].at <= instant
                                      /\ t[x].valid_to = Open \/ t[x].valid_to > instant}
<1>1. PICK x \in hits : a = t[x].to
  BY DEF find_triples_as_of
<1>2. PICK y \in hits : b = t[y].to
  BY DEF find_triples_as_of
<1>3. ASSUME NEW v \in hits, NEW w \in hits PROVE ~(v < w)
  <2>1. v \in DOMAIN t /\ w \in DOMAIN t /\ t[v] \in Row /\ t[w] \in Row
    OBVIOUS
  <2>2. t[v].valid_to \in Nat /\ t[w].at \in Nat
    BY <2>1, GraphConstants DEF Row
  <2>3. SlotOf(t[v]) = s /\ SlotOf(t[w]) = s /\ t[w].at <= instant
        /\ (t[v].valid_to = Open \/ t[v].valid_to > instant)
    OBVIOUS
  <2>4. v < w => t[v].valid_to # Open /\ t[v].valid_to <= t[w].at
    BY <2>1, <2>3 DEF InSequence
  <2>. QED BY <2>2, <2>3, <2>4
<1>4. x \in Nat /\ y \in Nat
  OBVIOUS
<1>5. x = y
  BY <1>3, <1>4
<1>. QED BY <1>1, <1>2, <1>5

\* Rows in sequence hold one at a time.
LEMMA SequenceHoldsOne ==
  ASSUME NEW t \in Seq(Row), NEW s, InSequence(t, s), NEW x \in Live(t, s), NEW y \in Live(t, s)
  PROVE  x = y
<1>1. x \in Nat /\ y \in Nat
  BY DEF Live
<1>2. ~(x < y) /\ ~(y < x)
  BY DEF Live, InSequence
<1>. QED BY <1>1, <1>2

\* A table whose rows of a slot are left alone.
LEMMA SequenceKept ==
  ASSUME NEW t, NEW u, DOMAIN u = DOMAIN t, NEW s, InSequence(t, s),
         \A x \in DOMAIN t : SlotOf(u[x]) = SlotOf(t[x]),
         \A x \in DOMAIN t : SlotOf(t[x]) = s => u[x] = t[x]
  PROVE  InSequence(u, s)
BY DEF InSequence

\* An assert that supersedes, its time not before any other row's, is the next in
\* sequence.
LEMMA SupersedeInOrder ==
  ASSUME NEW t \in Seq(Row), NEW row \in Row, row.valid_to = Open, row.by = Nobody,
         Traceable(t), NoLater(t, row.at),
         NEW last, NEW u, u = insert_triple_superseding(t, row, TRUE, last)
  PROVE  NoLater(u, row.at) /\ \A s : InSequence(t, s) => InSequence(u, s)
<1>1. CASE row.to \in Objects(t, SlotOf(row))
  BY <1>1 DEF insert_triple_superseding
<1>2. CASE row.to \notin Objects(t, SlotOf(row))
  <2>. DEFINE n == Len(t) + 1
              v == Append(t, row)
  <2>1. u = Retire(v, SlotOf(row), row.to, n, row.at)
    BY <1>2 DEF insert_triple_superseding
  <2>2. /\ v \in Seq(Row) /\ DOMAIN v = DOMAIN t \union {n} /\ n \notin DOMAIN t
        /\ v[n] = row /\ \A r \in DOMAIN t : v[r] = t[r]
        /\ \A s : Live(v, s) = IF s = SlotOf(row) THEN Live(t, s) \union {n} ELSE Live(t, s)
    BY AppendRows
  <2>3. n \in Nat /\ DOMAIN t \subseteq Nat /\ \A r \in DOMAIN t : r < n
    OBVIOUS
  <2>4. row.at \in 1 .. MaxTime /\ row.at \in Nat /\ row.at <= row.at /\ row.at # Open
    <3>1. row.at \in 1 .. MaxTime
      BY DEF Row
    <3>. QED BY <3>1, GraphConstants DEF Open
  <2>. HIDE DEF n, v
  <2>5. /\ SameFacts(v, u) /\ DOMAIN u = DOMAIN v
        /\ \A r \in DOMAIN v :
             IF r \in Live(v, SlotOf(row)) /\ v[r].to # row.to
             THEN u[r].valid_to = row.at ELSE u[r] = v[r]
    <3>1. ASSUME NEW w, w = Retire(v, SlotOf(row), row.to, n, row.at)
          PROVE  /\ SameFacts(v, w)
                 /\ \A r \in DOMAIN v :
                      IF r \in Live(v, SlotOf(row)) /\ v[r].to # row.to
                      THEN w[r].valid_to = row.at /\ w[r].by = n ELSE w[r] = v[r]
      <4>1. v \in Seq(Row) /\ n \in Nat /\ row.at \in 1 .. MaxTime
        BY <2>2, <2>3, <2>4
      <4>. QED BY <3>1, <4>1, RetireRows
    <3>. QED BY <2>1, <3>1 DEF SameFacts
  <2>6. \A r \in DOMAIN v : SlotOf(u[r]) = SlotOf(v[r]) /\ u[r].at = v[r].at
    BY <2>5, SameSlots DEF SameFacts
  <2>t. \A r \in DOMAIN t : /\ r \in DOMAIN u /\ r # n /\ r < n
                            /\ SlotOf(u[r]) = SlotOf(t[r]) /\ u[r].at = t[r].at
    BY <2>2, <2>3, <2>5, <2>6
  <2>n. n \in DOMAIN u /\ u[n] = row
    BY <2>2, <2>5
  <2>d. \A r \in DOMAIN u : r \in DOMAIN t \/ r = n
    BY <2>2, <2>5
  <2>7. NoLater(u, row.at)
    BY <2>4, <2>t, <2>n, <2>d DEF NoLater
  <2>8. ASSUME NEW s, InSequence(t, s) PROVE InSequence(u, s)
    <3>1. CASE s # SlotOf(row)
      <4>1. \A r \in DOMAIN u : SlotOf(u[r]) = s => r \in DOMAIN t /\ SlotOf(t[r]) = s
        BY <3>1, <2>t, <2>n, <2>d
      <4>2. \A r \in DOMAIN t : SlotOf(t[r]) = s => u[r] = t[r]
        BY <3>1, <2>2, <2>5 DEF Live
      <4>3. ASSUME NEW x \in DOMAIN u, NEW y \in DOMAIN u, SlotOf(u[x]) = s, SlotOf(u[y]) = s, x < y
            PROVE  u[x].valid_to # Open /\ u[x].valid_to <= u[y].at
        BY <4>1, <4>2, <4>3, <2>8 DEF InSequence
      <4>4. ASSUME NEW x \in DOMAIN u, SlotOf(u[x]) = s, u[x].valid_to # Open
            PROVE  \E y \in DOMAIN u : SlotOf(u[y]) = s /\ x < y
        <5>1. x \in DOMAIN t /\ SlotOf(t[x]) = s /\ t[x].valid_to # Open
          BY <4>1, <4>2, <4>4
        <5>2. PICK y \in DOMAIN t : SlotOf(t[y]) = s /\ x < y
          BY <5>1, <2>8 DEF InSequence
        <5>. QED BY <5>2, <2>t
      <4>. QED BY <4>3, <4>4 DEF InSequence
    <3>2. CASE s = SlotOf(row)
      <4>1. u[n] = row
        BY <2>n
      <4>2. ASSUME NEW x \in DOMAIN t, SlotOf(t[x]) = s
            PROVE  /\ u[x].valid_to = (IF t[x].valid_to = Open THEN row.at ELSE t[x].valid_to)
                   /\ u[x].valid_to # Open /\ u[x].at = t[x].at /\ SlotOf(u[x]) = s
        <5>1. t[x].valid_to = Open => x \in Live(v, SlotOf(row)) /\ v[x].to # row.to
          <6>1. t[x].valid_to = Open => x \in Live(t, SlotOf(row))
            BY <3>2, <4>2 DEF Live
          <6>2. t[x].valid_to = Open => t[x].to # row.to
            BY <1>2, <6>1 DEF Objects
          <6>. QED BY <6>1, <6>2, <2>2
        <5>2. t[x].valid_to # Open => u[x] = v[x]
          BY <2>2, <2>5 DEF Live
        <5>. QED BY <4>2, <5>1, <5>2, <2>2, <2>4, <2>5, <2>6
      <4>3. ASSUME NEW x \in DOMAIN t, SlotOf(t[x]) = s, t[x].valid_to # Open
            PROVE  t[x].valid_to <= row.at
        <5>1. PICK y \in DOMAIN t : SlotOf(t[y]) = s /\ x < y
          BY <2>8, <4>3 DEF InSequence
        <5>2. t[x].valid_to <= t[y].at
          BY <2>8, <4>3, <5>1 DEF InSequence
        <5>3. t[y].at <= row.at
          BY DEF NoLater
        <5>4. t[x].valid_to \in Nat /\ t[y].at \in Nat
          <6>1. t[x] \in Row /\ t[y] \in Row
            OBVIOUS
          <6>. QED BY <6>1, GraphConstants DEF Row
        <5>. QED BY <2>4, <5>2, <5>3, <5>4
      <4>4. ASSUME NEW x \in DOMAIN u, NEW y \in DOMAIN u, SlotOf(u[x]) = s, SlotOf(u[y]) = s, x < y
            PROVE  u[x].valid_to # Open /\ u[x].valid_to <= u[y].at
        <5>1. x \in DOMAIN t /\ SlotOf(t[x]) = s
          <6>1. x # n
            <7>1. y = n \/ y < n
              BY <2>d, <2>t
            <7>2. y \in Nat /\ x \in Nat
              BY <2>3, <2>d
            <7>. QED BY <4>4, <7>1, <7>2, <2>3
          <6>. QED BY <4>4, <6>1, <2>t, <2>d
        <5>2. CASE y = n
          BY <4>1, <4>2, <4>3, <5>1, <5>2, <2>4
        <5>3. CASE y \in DOMAIN t
          <6>1. SlotOf(t[y]) = s
            BY <4>4, <5>3, <2>t
          <6>2. t[x].valid_to # Open /\ t[x].valid_to <= t[y].at
            BY <2>8, <4>4, <5>1, <5>3, <6>1 DEF InSequence
          <6>. QED BY <4>2, <5>1, <5>3, <6>1, <6>2
        <5>. QED BY <5>2, <5>3, <2>d
      <4>5. ASSUME NEW x \in DOMAIN u, SlotOf(u[x]) = s, u[x].valid_to # Open
            PROVE  \E y \in DOMAIN u : SlotOf(u[y]) = s /\ x < y
        <5>1. x # n
          BY <4>1, <4>5
        <5>2. x < n /\ n \in DOMAIN u /\ SlotOf(u[n]) = s
          BY <5>1, <2>t, <2>n, <2>d, <3>2
        <5>. QED BY <5>2
      <4>. QED BY <4>4, <4>5 DEF InSequence
    <3>. QED BY <3>1, <3>2
  <2>. QED BY <2>7, <2>8
<1>. QED BY <1>1, <1>2

\* An assert that accumulates is in another slot.
LEMMA InsertInOrder ==
  ASSUME NEW t \in Seq(Row), NEW row \in Row, NoLater(t, row.at)
  PROVE  /\ NoLater(Append(t, row), row.at)
         /\ \A s : s # SlotOf(row) /\ InSequence(t, s) => InSequence(Append(t, row), s)
<1>. DEFINE n == Len(t) + 1
            u == Append(t, row)
<1>1. /\ DOMAIN u = DOMAIN t \union {n} /\ n \notin DOMAIN t
      /\ u[n] = row /\ \A r \in DOMAIN t : u[r] = t[r]
  OBVIOUS
<1>2. row.at <= row.at
  BY GraphConstants DEF Row
<1>. HIDE DEF n, u
<1>3. NoLater(u, row.at)
  BY <1>1, <1>2 DEF NoLater
<1>4. ASSUME NEW s, s # SlotOf(row), InSequence(t, s) PROVE InSequence(u, s)
  BY <1>1, <1>4 DEF InSequence
<1>. QED BY <1>3, <1>4 DEF u

\* A verdict on a slot in sequence finds one row that holds and retires nothing.
LEMMA ChooseInOrder ==
  ASSUME NEW t \in Seq(Row), NEW slot, NEW keep, NEW at \in 1 .. MaxTime,
         NEW u \in retire_conflicting_objects(t, slot, keep, at)
  PROVE  /\ \A n : NoLater(t, n) => NoLater(u, n)
         /\ \A s : InSequence(t, s) => InSequence(u, s)
<1>1. CASE u = t
  BY <1>1
<1>2. CASE u # t
  <2>1. PICK r \in Live(t, slot) : t[r].to = keep /\ u = Retire(t, slot, keep, r, at)
    BY <1>2 DEF retire_conflicting_objects
  <2>2. r \in DOMAIN t /\ r \in Nat
    BY DEF Live
  <2>3. /\ SameFacts(t, u) /\ DOMAIN u = DOMAIN t
        /\ \A x \in DOMAIN t : ~(x \in Live(t, slot) /\ t[x].to # keep) => u[x] = t[x]
    BY <2>1, <2>2, RetireRows DEF SameFacts
  <2>4. \A x \in DOMAIN t : SlotOf(u[x]) = SlotOf(t[x]) /\ u[x].at = t[x].at
    BY <2>3, SameSlots DEF SameFacts
  <2>5. \A n : NoLater(t, n) => NoLater(u, n)
    BY <2>3, <2>4 DEF NoLater
  <2>6. ASSUME NEW s, InSequence(t, s) PROVE InSequence(u, s)
    <3>1. ASSUME NEW x \in DOMAIN t, SlotOf(t[x]) = s PROVE u[x] = t[x]
      <4>1. CASE x \in Live(t, slot) /\ t[x].to # keep
        <5>1. s = slot
          BY <3>1, <4>1 DEF Live
        <5>2. x = r
          BY <2>1, <2>6, <4>1, <5>1, SequenceHoldsOne
        <5>. QED BY <2>1, <4>1, <5>2
      <4>2. CASE ~(x \in Live(t, slot) /\ t[x].to # keep)
        BY <2>3, <4>2
      <4>. QED BY <4>1, <4>2
    <3>. QED BY <2>3, <2>4, <2>6, <3>1, SequenceKept
  <2>. QED BY <2>5, <2>6
<1>. QED BY <1>1, <1>2

\* An undo touches the slot of the row it undoes and no other.
LEMMA UndoInOrder ==
  ASSUME NEW t \in Seq(Row), Traceable(t), NEW r \in DOMAIN t, NEW at \in 1 .. MaxTime,
         Retired(t, r) # {}, NEW u, u = undo_supersession(t, r, at)
  PROVE  /\ \A n : NoLater(t, n) => NoLater(u, n)
         /\ \A s : s # SlotOf(t[r]) /\ InSequence(t, s) => InSequence(u, s)
<1>1. /\ SameFacts(t, u) /\ DOMAIN u = DOMAIN t
      /\ \A x \in DOMAIN t : t[x].by # r /\ x # r => u[x] = t[x]
  BY UndoRows DEF SameFacts
<1>2. \A x \in DOMAIN t : SlotOf(u[x]) = SlotOf(t[x]) /\ u[x].at = t[x].at
  BY <1>1, SameSlots DEF SameFacts
<1>3. \A x \in DOMAIN t : t[x].by = r => SlotOf(t[x]) = SlotOf(t[r])
  <2>1. r # Nobody
    BY DEF Nobody
  <2>. QED BY <2>1 DEF Traceable
<1>4. \A n : NoLater(t, n) => NoLater(u, n)
  BY <1>1, <1>2 DEF NoLater
<1>5. ASSUME NEW s, s # SlotOf(t[r]), InSequence(t, s) PROVE InSequence(u, s)
  <2>1. \A x \in DOMAIN t : SlotOf(t[x]) = s => u[x] = t[x]
    BY <1>1, <1>3, <1>5
  <2>. QED BY <1>1, <1>2, <1>5, <2>1, SequenceKept
<1>. QED BY <1>4, <1>5

\* The names of an entry: its entity's own and its aliases.
Names(rec) == {rec.id[2]} \union rec.aliases

\* An entry has its entity's name, and all its names are names.
LEMMA EntryNames ==
  ASSUME NEW list \in Seq(Record), NEW i \in DOMAIN list
  PROVE  /\ list[i] \in Record /\ list[i].id \in Entity /\ list[i].id # NoEntity
         /\ Names(list[i]) \subseteq Mention
         /\ list[i].id[2] \in Names(list[i])
<1>1. list[i] \in Record
  OBVIOUS
<1>2. list[i].id \in Entity /\ list[i].aliases \in SUBSET Mention
  BY <1>1 DEF Record
<1>3. list[i].id[2] \in Mention
  BY <1>2, GraphConstants
<1>. QED BY <1>1, <1>2, <1>3, GraphConstants DEF Names

\* The first entry that has a name is the one a look-up answers.
LEMMA FirstIs ==
  ASSUME NEW list \in Seq(Record), NEW m
  PROVE  /\ First(list, m) = NoEntity <=> \A i \in DOMAIN list : m \notin Names(list[i])
         /\ First(list, m) # NoEntity =>
              \E i \in DOMAIN list : /\ m \in Names(list[i]) /\ First(list, m) = list[i].id
                                     /\ \A j \in DOMAIN list : m \in Names(list[j]) => i <= j
<1>. DEFINE hits == {i \in DOMAIN list : m \in {list[i].id[2]} \union list[i].aliases}
            i == CHOOSE i \in hits : \A j \in hits : i <= j
<1>1. hits = {k \in DOMAIN list : m \in Names(list[k])}
  BY DEF Names
<1>2. hits = {} => First(list, m) = NoEntity
  BY DEF First
<1>3. hits # {} => First(list, m) = list[i].id
  BY DEF First
<1>4. hits \subseteq Nat
  OBVIOUS
<1>. HIDE DEF hits
<1>5. hits # {} => i \in hits /\ \A j \in hits : i <= j
  <2>1. hits # {} => \E k \in hits : \A j \in hits : k <= j
    BY <1>4, LeastExists
  <2>. QED BY <2>1
<1>. HIDE DEF i
<1>6. hits # {} => i \in DOMAIN list /\ list[i].id # NoEntity
  <2>1. hits # {} => i \in DOMAIN list
    BY <1>1, <1>5
  <2>. QED BY <2>1, EntryNames
<1>7. hits # {} =>
        \E k \in DOMAIN list : /\ m \in Names(list[k]) /\ First(list, m) = list[k].id
                               /\ \A j \in DOMAIN list : m \in Names(list[j]) => k <= j
  <2>1. hits # {} => /\ i \in DOMAIN list /\ m \in Names(list[i]) /\ First(list, m) = list[i].id
                     /\ \A j \in DOMAIN list : m \in Names(list[j]) => i <= j
    BY <1>1, <1>3, <1>5
  <2>. QED BY <2>1
<1>8. hits = {} <=> \A k \in DOMAIN list : m \notin Names(list[k])
  BY <1>1
<1>. QED BY <1>2, <1>3, <1>6, <1>7, <1>8

\* The look-up by similarity answers what the best known of the names does.
LEMMA BestIs ==
  ASSUME NEW list \in Seq(Record), NEW ms \in Seq(Mention)
  PROVE  /\ Best(list, ms) = NoEntity <=> \A i \in DOMAIN ms : First(list, ms[i]) = NoEntity
         /\ Best(list, ms) # NoEntity => \E i \in DOMAIN ms : Best(list, ms) = First(list, ms[i])
<1>. DEFINE hits == {i \in DOMAIN ms : First(list, ms[i]) # NoEntity}
            i == CHOOSE i \in hits : \A j \in hits : i <= j
<1>1. hits = {} => Best(list, ms) = NoEntity
  BY DEF Best
<1>2. hits # {} => Best(list, ms) = First(list, ms[i])
  BY DEF Best
<1>3. hits \subseteq Nat
  OBVIOUS
<1>4. \A k : k \in hits <=> k \in DOMAIN ms /\ First(list, ms[k]) # NoEntity
  OBVIOUS
<1>. HIDE DEF hits
<1>5. hits # {} => i \in hits
  <2>1. hits # {} => \E k \in hits : \A j \in hits : k <= j
    BY <1>3, LeastExists
  <2>. QED BY <2>1
<1>. HIDE DEF i
<1>. QED BY <1>1, <1>2, <1>4, <1>5

\* Lists that know the same of the names resolve them to the same.
LEMMA BestSame ==
  ASSUME NEW f, NEW l, NEW ms \in Seq(Mention),
         \A i \in DOMAIN ms : First(f, ms[i]) = First(l, ms[i])
  PROVE  Best(f, ms) = Best(l, ms)
<1>. DEFINE hits(x) == {i \in DOMAIN ms : First(x, ms[i]) # NoEntity}
            known == hits(f)
            i == CHOOSE i \in known : \A j \in known : i <= j
<1>1. hits(l) = known
  OBVIOUS
<1>2. /\ Best(f, ms) = IF known = {} THEN NoEntity ELSE First(f, ms[i])
      /\ Best(l, ms) = IF known = {} THEN NoEntity ELSE First(l, ms[i])
  <2>1. Best(f, ms) = IF known = {} THEN NoEntity ELSE First(f, ms[i])
    BY DEF Best
  <2>2. Best(l, ms) = IF hits(l) = {} THEN NoEntity
                      ELSE First(l, ms[CHOOSE k \in hits(l) : \A j \in hits(l) : k <= j])
    BY DEF Best
  <2>. HIDE DEF hits
  <2>. QED BY <1>1, <2>1, <2>2
<1>3. known \subseteq Nat /\ known \subseteq DOMAIN ms
  OBVIOUS
<1>. HIDE DEF known
<1>4. known # {} => i \in known
  <2>1. known # {} => \E k \in known : \A j \in known : k <= j
    BY <1>3, LeastExists
  <2>. QED BY <2>1
<1>5. known # {} => First(f, ms[i]) = First(l, ms[i])
  BY <1>3, <1>4
<1>. HIDE DEF i
<1>6. CASE known = {}
  BY <1>2, <1>6
<1>7. CASE known # {}
  <2>1. Best(f, ms) = First(f, ms[i]) /\ Best(l, ms) = First(l, ms[i])
    BY <1>2, <1>7
  <2>. QED BY <1>5, <1>7, <2>1
<1>. QED BY <1>6, <1>7

\* A look-up by exact name and by similarity, in terms of exact ones.
LEMMA ResolveIs ==
  ASSUME NEW list \in Seq(Record), NEW m \in Mention
  PROVE  /\ Near[m] \in Seq(Mention)
         /\ resolve_one(list, m) = NoEntity <=>
              /\ First(list, m) = NoEntity
              /\ \A i \in DOMAIN Near[m] : First(list, Near[m][i]) = NoEntity
         /\ First(list, m) # NoEntity => resolve_one(list, m) = First(list, m)
         /\ First(list, m) = NoEntity => resolve_one(list, m) = Best(list, Near[m])
<1>1. Near[m] \in Seq(Mention)
  BY GraphConstants
<1>2. /\ First(list, m) # NoEntity => resolve_one(list, m) = First(list, m)
      /\ First(list, m) = NoEntity => resolve_one(list, m) = Best(list, Near[m])
  BY DEF resolve_one
<1>. QED BY <1>1, <1>2, BestIs

\* Whatever the list knows has a canonical name that it knows.
Closed(list) ==
  \A m \in Mention : First(list, m) # NoEntity => resolve_one(list, Canon[m]) # NoEntity

\* The file is what was loaded and, after it, what was created since; in memory
\* the entries created may have got aliases.
FileExtends ==
  /\ Len(file) = Len(loaded) + Len(runtime)
  /\ \A i \in DOMAIN loaded : file[i] = loaded[i]
  /\ \A i \in DOMAIN runtime :
       /\ file[Len(loaded) + i].id = runtime[i].id
       /\ file[Len(loaded) + i].aliases \subseteq runtime[i].aliases

\* An entry was created under names nothing else resolved, all of one canonical
\* form.
CreatedNew ==
  \A i \in DOMAIN runtime :
    /\ ~Strict
    /\ \A n \in Names(runtime[i]) :
         /\ resolve_one(loaded, n) = NoEntity
         /\ \A j \in DOMAIN runtime : n \in Names(runtime[j]) => i = j
         /\ CanonAgrees => Canon[n] = runtime[i].id[2]

ListsAgree ==
  /\ validate(file) /\ (CanonAgrees => Closed(file))
  /\ up => FileExtends /\ CreatedNew /\ (CanonAgrees => Closed(loaded))
  /\ ~up => runtime = <<>>

\* What the file knows by a name: what was loaded, or else an entry created since.
LEMMA FileFirst ==
  ASSUME NameInv, FileExtends, NEW n
  PROVE  /\ First(loaded, n) # NoEntity => First(file, n) = First(loaded, n)
         /\ First(loaded, n) = NoEntity /\ First(file, n) # NoEntity =>
              \E i \in DOMAIN runtime : n \in Names(runtime[i]) /\ First(file, n) = runtime[i].id
         /\ \A i \in DOMAIN runtime : n = runtime[i].id[2] => First(file, n) # NoEntity
<1>1. file \in Seq(Record) /\ loaded \in Seq(Record) /\ runtime \in Seq(Record)
  BY DEF NameInv
<1>2. Len(file) \in Nat /\ Len(loaded) \in Nat /\ Len(runtime) \in Nat
      /\ Len(file) = Len(loaded) + Len(runtime)
      /\ DOMAIN file = 1 .. Len(file) /\ DOMAIN loaded = 1 .. Len(loaded)
      /\ DOMAIN runtime = 1 .. Len(runtime)
  BY <1>1 DEF FileExtends
<1>3. ASSUME NEW i \in DOMAIN loaded
      PROVE  i \in DOMAIN file /\ i \in Nat /\ file[i] = loaded[i] /\ Names(file[i]) = Names(loaded[i])
  BY <1>2 DEF FileExtends, Names
<1>4. ASSUME NEW i \in DOMAIN runtime
      PROVE  /\ Len(loaded) + i \in DOMAIN file /\ file[Len(loaded) + i].id = runtime[i].id
             /\ Names(file[Len(loaded) + i]) \subseteq Names(runtime[i])
             /\ runtime[i].id[2] \in Names(file[Len(loaded) + i])
  BY <1>2 DEF FileExtends, Names
<1>5. ASSUME NEW k \in DOMAIN file, k \notin DOMAIN loaded
      PROVE  \E i \in DOMAIN runtime : k = Len(loaded) + i
  <2>1. k - Len(loaded) \in DOMAIN runtime /\ k = Len(loaded) + (k - Len(loaded))
    BY <1>2, <1>5
  <2>. QED BY <2>1
<1>6. CASE First(loaded, n) # NoEntity
  <2>1. PICK i \in DOMAIN loaded : /\ n \in Names(loaded[i]) /\ First(loaded, n) = loaded[i].id
                                   /\ \A j \in DOMAIN loaded : n \in Names(loaded[j]) => i <= j
    BY <1>1, <1>6, FirstIs
  <2>2. First(file, n) # NoEntity
    BY <1>1, <1>3, <2>1, FirstIs
  <2>3. PICK k \in DOMAIN file : /\ n \in Names(file[k]) /\ First(file, n) = file[k].id
                                 /\ \A j \in DOMAIN file : n \in Names(file[j]) => k <= j
    BY <1>1, <2>2, FirstIs
  <2>4. k <= i
    BY <1>3, <2>1, <2>3
  <2>5. k \in DOMAIN loaded
    BY <1>2, <2>4
  <2>6. i <= k
    BY <1>3, <2>1, <2>3, <2>5
  <2>7. k = i
    BY <1>2, <2>4, <2>6
  <2>. QED BY <1>3, <1>6, <2>1, <2>2, <2>3, <2>7
<1>7. ASSUME First(loaded, n) = NoEntity, First(file, n) # NoEntity
      PROVE  \E i \in DOMAIN runtime : n \in Names(runtime[i]) /\ First(file, n) = runtime[i].id
  <2>1. PICK k \in DOMAIN file : n \in Names(file[k]) /\ First(file, n) = file[k].id
    BY <1>1, <1>7, FirstIs
  <2>2. k \notin DOMAIN loaded
    BY <1>1, <1>3, <1>7, <2>1, FirstIs
  <2>3. PICK i \in DOMAIN runtime : k = Len(loaded) + i
    BY <1>5, <2>2
  <2>. QED BY <1>4, <2>1, <2>3
<1>8. ASSUME NEW i \in DOMAIN runtime, n = runtime[i].id[2] PROVE First(file, n) # NoEntity
  BY <1>1, <1>4, <1>8, FirstIs
<1>9. First(loaded, n) # NoEntity => First(file, n) = First(loaded, n)
  BY <1>6
<1>. QED BY <1>7, <1>8, <1>9

\* After a restart a name means what it meant before: what was loaded hides what
\* was created, for names of one canonical form are loaded or created together.
LEMMA NamesSurvive ==
  ASSUME NameInv, ListsAgree, up, CanonAgrees, NEW m \in Mention, Resolved(m) # NoEntity
  PROVE  ResolvedIn(file, <<>>, m) = Resolved(m)
<1>. DEFINE Old(n) == resolve_one(loaded, n)
            Now(n) == resolve_one(file, n)
<1>1. /\ file \in Seq(Record) /\ loaded \in Seq(Record) /\ runtime \in Seq(Record)
      /\ FileExtends /\ CreatedNew /\ Closed(loaded)
  BY DEF NameInv, ListsAgree
<1>2. \A n \in Mention : Canon[n] \in Mention /\ Canon[Canon[n]] = Canon[n]
  BY GraphConstants DEF CanonAgrees
<1>3. ASSUME NEW n \in Mention, NEW k \in DOMAIN Near[n]
      PROVE  Near[n][k] \in Mention /\ Canon[Near[n][k]] = Canon[n]
  <2>1. Near[n] \in Seq(Mention)
    BY GraphConstants
  <2>. QED BY <2>1 DEF CanonAgrees
<1>4. ASSUME NEW i \in DOMAIN runtime
      PROVE  /\ runtime[i].id # NoEntity /\ Names(runtime[i]) \subseteq Mention
             /\ runtime[i].id[2] \in Names(runtime[i]) /\ runtime[i].id[2] \in Mention
             /\ ~Strict
             /\ \A n \in Names(runtime[i]) : Old(n) = NoEntity /\ Canon[n] = runtime[i].id[2]
  BY <1>1, EntryNames DEF CreatedNew
<1>5. ASSUME NEW i \in DOMAIN runtime, NEW j \in DOMAIN runtime, runtime[i].id[2] = runtime[j].id[2]
      PROVE  i = j
  BY <1>1, <1>4, <1>5 DEF CreatedNew
\* A name that was loaded is not hidden by one of its like that was created.
<1>6. ASSUME NEW n \in Mention, Old(n) # NoEntity PROVE Now(n) = Old(n)
  <2>1. CASE First(loaded, n) # NoEntity
    <3>1. First(file, n) = First(loaded, n)
      BY <1>1, <2>1, FileFirst
    <3>. QED BY <1>1, <2>1, <3>1, ResolveIs
  <2>2. CASE First(loaded, n) = NoEntity
    <3>1. First(file, n) = NoEntity
      <4>1. First(file, n) # NoEntity => \E i \in DOMAIN runtime : n \in Names(runtime[i])
        BY <1>1, <2>2, FileFirst
      <4>. QED BY <1>4, <1>6, <4>1
    <3>2. Old(n) = Best(loaded, Near[n]) /\ Near[n] \in Seq(Mention) /\ Now(n) = Best(file, Near[n])
      BY <1>1, <2>2, <3>1, ResolveIs
    <3>3. PICK k \in DOMAIN Near[n] : First(loaded, Near[n][k]) # NoEntity
      BY <1>1, <1>6, <2>2, ResolveIs
    <3>4. Old(Canon[n]) # NoEntity
      BY <1>1, <1>3, <3>3 DEF Closed
    <3>5. ASSUME NEW j \in DOMAIN Near[n] PROVE First(file, Near[n][j]) = First(loaded, Near[n][j])
      <4>1. CASE First(loaded, Near[n][j]) # NoEntity
        BY <1>1, <4>1, FileFirst
      <4>2. CASE First(loaded, Near[n][j]) = NoEntity /\ First(file, Near[n][j]) # NoEntity
        <5>1. PICK i \in DOMAIN runtime : Near[n][j] \in Names(runtime[i])
          BY <1>1, <4>2, FileFirst
        <5>2. Canon[n] = runtime[i].id[2]
          BY <1>3, <1>4, <5>1
        <5>. QED BY <1>4, <3>4, <5>2
      <4>. QED BY <4>1, <4>2
    <3>6. Best(file, Near[n]) = Best(loaded, Near[n])
      BY <3>2, <3>5, BestSame
    <3>. QED BY <3>2, <3>6
  <2>. QED BY <2>1, <2>2
\* What the file knows and the ontology did not was created, under this canonical
\* form.
<1>7. ASSUME NEW n \in Mention, Old(n) = NoEntity, Now(n) # NoEntity
      PROVE  \E i \in DOMAIN runtime : Now(n) = runtime[i].id /\ Canon[n] = runtime[i].id[2]
  <2>1. First(loaded, n) = NoEntity /\ \A k \in DOMAIN Near[n] : First(loaded, Near[n][k]) = NoEntity
    BY <1>1, <1>7, ResolveIs
  <2>2. CASE First(file, n) # NoEntity
    <3>1. PICK i \in DOMAIN runtime : n \in Names(runtime[i]) /\ First(file, n) = runtime[i].id
      BY <1>1, <2>1, <2>2, FileFirst
    <3>2. Now(n) = First(file, n)
      BY <1>1, <2>2, ResolveIs
    <3>. QED BY <1>4, <3>1, <3>2
  <2>3. CASE First(file, n) = NoEntity
    <3>1. Now(n) = Best(file, Near[n]) /\ Near[n] \in Seq(Mention)
      BY <1>1, <2>3, ResolveIs
    <3>2. PICK k \in DOMAIN Near[n] : Now(n) = First(file, Near[n][k])
      <4>1. Best(file, Near[n]) # NoEntity
        BY <1>7, <3>1
      <4>2. \E k \in DOMAIN Near[n] : Best(file, Near[n]) = First(file, Near[n][k])
        BY <1>1, <3>1, <4>1, BestIs
      <4>. QED BY <3>1, <4>2
    <3>3. PICK i \in DOMAIN runtime : /\ Near[n][k] \in Names(runtime[i])
                                      /\ First(file, Near[n][k]) = runtime[i].id
      BY <1>1, <1>7, <2>1, <3>2, FileFirst
    <3>. QED BY <1>3, <1>4, <3>2, <3>3
  <2>. QED BY <2>2, <2>3
<1>8. ASSUME NEW i \in DOMAIN runtime PROVE Now(runtime[i].id[2]) = runtime[i].id
  <2>. DEFINE c == runtime[i].id[2]
  <2>1. c \in Mention /\ Old(c) = NoEntity /\ Canon[c] = c
    BY <1>4
  <2>2. First(file, c) # NoEntity
    BY <1>1, FileFirst
  <2>3. Now(c) # NoEntity
    BY <1>1, <2>1, <2>2, ResolveIs
  <2>4. PICK j \in DOMAIN runtime : Now(c) = runtime[j].id /\ Canon[c] = runtime[j].id[2]
    BY <1>7, <2>1, <2>3
  <2>5. i = j
    BY <1>5, <2>1, <2>4
  <2>. QED BY <2>4, <2>5
<1>9. \A n : First(<<>>, n) = NoEntity
  BY DEF First
<1>10. \A n : /\ Known(file, <<>>, n) = Now(n)
              /\ Known(loaded, runtime, n) = IF Old(n) # NoEntity THEN Old(n) ELSE First(runtime, n)
  BY <1>9 DEF Known
<1>11. ResolvedIn(file, <<>>, m) = IF Now(m) # NoEntity \/ Strict THEN Now(m) ELSE Now(Canon[m])
  BY <1>10 DEF ResolvedIn
<1>12. Resolved(m) = IF Known(loaded, runtime, m) # NoEntity \/ Strict
                     THEN Known(loaded, runtime, m) ELSE Known(loaded, runtime, Canon[m])
  BY DEF Resolved, ResolvedIn
<1>. HIDE DEF Old, Now
<1>13. CASE Old(m) # NoEntity
  BY <1>6, <1>10, <1>11, <1>12, <1>13
<1>14. CASE Old(m) = NoEntity /\ First(runtime, m) # NoEntity
  <2>1. PICK i \in DOMAIN runtime : m \in Names(runtime[i]) /\ First(runtime, m) = runtime[i].id
    BY <1>1, <1>14, FirstIs
  <2>2. Resolved(m) = runtime[i].id /\ ~Strict /\ Canon[m] = runtime[i].id[2]
    BY <1>4, <1>10, <1>12, <1>14, <2>1
  <2>3. CASE Now(m) # NoEntity
    <3>1. PICK j \in DOMAIN runtime : Now(m) = runtime[j].id /\ Canon[m] = runtime[j].id[2]
      BY <1>7, <1>14, <2>3
    <3>. QED BY <1>5, <1>11, <2>2, <2>3, <3>1
  <2>4. CASE Now(m) = NoEntity
    BY <1>8, <1>11, <2>2, <2>4
  <2>. QED BY <2>3, <2>4
<1>15. CASE Old(m) = NoEntity /\ First(runtime, m) = NoEntity
  <2>. DEFINE c == Canon[m]
  <2>1. c \in Mention /\ Canon[c] = c /\ ~Strict /\ Resolved(m) = Known(loaded, runtime, c)
    BY <1>2, <1>10, <1>12, <1>15
  <2>. HIDE DEF c
  <2>2. Now(m) # NoEntity => \E i \in DOMAIN runtime : Now(m) = runtime[i].id /\ c = runtime[i].id[2]
    BY <1>7, <1>15 DEF c
  <2>3. CASE Old(c) # NoEntity
    <3>1. Now(m) = NoEntity
      BY <1>4, <2>2, <2>3
    <3>. QED BY <1>6, <1>10, <1>11, <2>1, <2>3, <3>1 DEF c
  <2>4. CASE Old(c) = NoEntity
    <3>1. Resolved(m) = First(runtime, c)
      BY <1>10, <2>1, <2>4
    <3>2. PICK i \in DOMAIN runtime : c \in Names(runtime[i]) /\ First(runtime, c) = runtime[i].id
      BY <1>1, <3>1, FirstIs
    <3>3. c = runtime[i].id[2]
      BY <1>4, <2>1, <3>2
    <3>4. CASE Now(m) # NoEntity
      BY <1>5, <1>11, <2>2, <3>1, <3>2, <3>3, <3>4
    <3>5. CASE Now(m) = NoEntity
      BY <1>8, <1>11, <2>1, <3>1, <3>2, <3>3, <3>5 DEF c
    <3>. QED BY <3>4, <3>5
  <2>. QED BY <2>3, <2>4
<1>. QED BY <1>13, <1>14, <1>15

\* What a call relies on when no other assert runs: what it is about to create is
\* still unknown, under the name it was given and under the canonical one, and no
\* row is later than the time it took.
Fresh(m, e, ontology, created) ==
  /\ ~Strict /\ e[2] = Canon[m]
  /\ Known(ontology, created, m) = NoEntity /\ Known(ontology, created, Canon[m]) = NoEntity
FreshIn(l, ontology, created) ==
  /\ l.pc = "append subject" => Fresh(l.c.s, l.subj, ontology, created)
  /\ l.pc = "append object" => Fresh(l.c.o, l.obj, ontology, created)
Timely(l, t, now) == l.pc \in {"upsert object", "write"} => l.at <= now /\ NoLater(t, l.at)

Alone ==
  /\ \A a, b \in Thread : Asserting(a) /\ Asserting(b) => a = b
  /\ ~up => \A th \in Thread : call[th] = Idle
  /\ \A th \in Thread : FreshIn(call[th], loaded, runtime)
InOrder ==
  /\ NoLater(triple, clock)
  /\ \A th \in Thread : Timely(call[th], triple, clock)
  /\ \A s \in Slot : predicate_is_single_valued(s) /\ undone[s] = "never" => InSequence(triple, s)

SerialInv == serial => Alone /\ ListsAgree /\ InOrder

\* A step that sends one thread on: into an assert only when none runs, and it
\* changes the list of created entities only from within an assert.
LEMMA AloneStep ==
  ASSUME Alone, CallInv, NEW th \in Thread, NEW l \in Call, Goto(th, l), up' = TRUE,
         loaded' = loaded, runtime' = runtime \/ Asserting(th),
         Asserting(th) \/ InFlight = {} \/ l.pc \in {"idle", "judge"},
         FreshIn(l, loaded', runtime')
  PROVE  Alone'
<1>1. call' = [call EXCEPT ![th] = l] /\ call \in [Thread -> Call]
  BY DEF Goto, CallInv
<1>2. call'[th] = l /\ \A x \in Thread : x # th => call'[x] = call[x]
  BY <1>1
<1>3. ASSUME NEW a \in Thread, NEW b \in Thread, Asserting(a)', Asserting(b)' PROVE a = b
  <2>1. \A x \in Thread : x # th /\ Asserting(x)' => Asserting(x)
    BY <1>2 DEF Asserting
  <2>2. Asserting(th)' => Asserting(th) \/ InFlight = {}
    BY <1>2 DEF Asserting
  <2>. QED BY <1>3, <2>1, <2>2 DEF Alone, InFlight
<1>4. ASSUME NEW x \in Thread PROVE FreshIn(call'[x], loaded', runtime')
  <2>1. CASE x = th
    BY <1>2, <2>1
  <2>2. CASE x # th /\ Asserting(x)
    <3>1. runtime' = runtime
      BY <2>2 DEF Alone
    <3>2. FreshIn(call[x], loaded, runtime)
      BY DEF Alone
    <3>. QED BY <1>2, <2>2, <3>1, <3>2
  <2>3. CASE x # th /\ ~Asserting(x)
    BY <1>2, <2>3 DEF Asserting, FreshIn
  <2>. QED BY <2>1, <2>2, <2>3
<1>. QED BY <1>3, <1>4 DEF Alone

\* A step that sends one thread on and leaves the triple table alone.
LEMMA OrderStep ==
  ASSUME InOrder, CallInv, NEW th \in Thread, NEW l \in Call, Goto(th, l),
         triple' = triple, clock' = clock, undone' = undone, Timely(l, triple, clock)
  PROVE  InOrder'
<1>1. call' = [call EXCEPT ![th] = l] /\ call \in [Thread -> Call]
  BY DEF Goto, CallInv
<1>2. \A x \in Thread : call'[x] = IF x = th THEN l ELSE call[x]
  BY <1>1
<1>3. ASSUME NEW x \in Thread PROVE Timely(call'[x], triple', clock')
  BY <1>2 DEF InOrder
<1>4. \A s \in Slot : predicate_is_single_valued(s) /\ undone'[s] = "never" => InSequence(triple', s)
  BY DEF InOrder
<1>. QED BY <1>3, <1>4 DEF InOrder, predicate_is_single_valued

\* Nothing the lists say is disturbed.
LEMMA ListsKept ==
  ASSUME ListsAgree, names' = names
  PROVE  ListsAgree'
BY DEF ListsAgree, names, FileExtends, CreatedNew


\* A new brain is in order.
LEMMA InitSerial == Init => SerialInv
<1>. SUFFICES ASSUME Init PROVE SerialInv
  OBVIOUS
<1>1. file = Given /\ loaded = Given /\ runtime = <<>> /\ up = TRUE /\ triple = <<>>
      /\ \A th \in Thread : call[th] = Idle
  BY DEF Init
<1>0. Idle.pc = "idle"
  BY DEF Idle
<1>2. Given \in Seq(Record) /\ validate(Given)
  BY GraphConstants, GivenOK
<1>3. Alone
  <2>1. \A th \in Thread : ~Asserting(th)
    BY <1>0, <1>1 DEF Asserting
  <2>2. \A th \in Thread : FreshIn(call[th], loaded, runtime)
    BY <1>0, <1>1 DEF FreshIn
  <2>. QED BY <1>1, <2>1, <2>2 DEF Alone
<1>4. ListsAgree
  <2>1. CanonAgrees => Closed(Given)
    BY DEF CanonAgrees, Closed
  <2>2. Len(<<>>) = 0 /\ DOMAIN runtime = {} /\ Len(Given) \in Nat
    BY <1>1, <1>2
  <2>3. FileExtends
    BY <1>1, <2>2 DEF FileExtends
  <2>4. CreatedNew
    BY <2>2 DEF CreatedNew
  <2>. QED BY <1>1, <1>2, <2>1, <2>3, <2>4 DEF ListsAgree
<1>5. InOrder
  <2>1. DOMAIN triple = {}
    BY <1>1
  <2>2. \A th \in Thread : Timely(call[th], triple, clock)
    BY <1>0, <1>1 DEF Timely
  <2>. QED BY <2>1, <2>2 DEF InOrder, NoLater, InSequence
<1>. QED BY <1>3, <1>4, <1>5 DEF SerialInv

\* The steps of calls that change no name and no row.
LEMMA CallsSerial ==
  ASSUME SerialInv, IInv, NEW th \in Thread, NEW l \in Call, Goto(th, l), up,
         UNCHANGED <<names, triple, clock, serial, undone>>,
         Asserting(th) \/ InFlight = {} \/ ~serial \/ l.pc \in {"idle", "judge"},
         FreshIn(l, loaded, runtime), serial => Timely(l, triple, clock)
  PROVE  SerialInv'
<1>. SUFFICES ASSUME serial PROVE Alone' /\ ListsAgree' /\ InOrder'
  BY DEF SerialInv
<1>1. Alone /\ ListsAgree /\ InOrder /\ CallInv
  BY DEF SerialInv, IInv
<1>2. up' = TRUE /\ loaded' = loaded /\ runtime' = runtime
  BY DEF names, IInv, NameInv
<1>3. Alone'
  BY <1>1, <1>2, AloneStep
<1>4. ListsAgree'
  BY <1>1, ListsKept
<1>5. InOrder'
  BY <1>1, OrderStep
<1>. QED BY <1>3, <1>4, <1>5

\* An assert begins when no other runs.
LEMMA StartSerial ==
  ASSUME SerialInv, IInv, NEW th \in Thread, NEW c \in Calls, StartAssert(th, c)
  PROVE  SerialInv'
<1>. DEFINE l == [Idle EXCEPT !.pc = "subject", !.c = c]
<1>1. l \in Call /\ l.pc = "subject"
  <2>1. Idle \in Call /\ "subject" \in PC
    BY IdleReady DEF PC
  <2>. QED BY <2>1 DEF Call
<1>2. /\ Goto(th, l) /\ up /\ (serial => InFlight = {})
      /\ UNCHANGED <<names, triple, clock, serial, undone>>
  BY DEF StartAssert, At
<1>. HIDE DEF l
<1>3. FreshIn(l, loaded, runtime) /\ Timely(l, triple, clock)
  BY <1>1 DEF FreshIn, Timely
<1>. QED BY <1>1, <1>2, <1>3, CallsSerial

\* A call that ends or only lists claims nothing.
LEMMA EndsSerial ==
  ASSUME SerialInv, IInv, NEW th \in Thread, Fail(th) \/ JudgeFails(th) \/ Detect(th)
  PROVE  SerialInv'
<1>1. /\ UNCHANGED <<names, triple, clock, serial, undone>> /\ up
      /\ \E l \in Call : Goto(th, l) /\ l.pc \in {"idle", "judge"}
  <2>1. CASE Fail(th) \/ JudgeFails(th)
    <3>1. Idle \in Call /\ Idle.pc = "idle"
      BY IdleReady DEF Idle
    <3>. QED BY <2>1, <3>1 DEF Fail, JudgeFails, Return, At
  <2>2. CASE Detect(th)
    <3>1. UNCHANGED <<names, triple, clock, serial, undone>> /\ up
      BY <2>2 DEF Detect, At
    <3>2. PICK todo : Goto(th, [Idle EXCEPT !.pc = "judge", !.todo = todo])
      BY <2>2 DEF Detect
    <3>. DEFINE l == [Idle EXCEPT !.pc = "judge", !.todo = todo]
    <3>3. l.pc = "judge"
      BY DEF Idle
    <3>4. IInv'
      BY <2>2, DetectPreserves
    <3>5. call'[th] = l /\ call'[th] \in Call
      BY <3>2, <3>4 DEF Goto, IInv, CallInv
    <3>. QED BY <3>1, <3>2, <3>3, <3>5
  <2>. QED BY <2>1, <2>2
<1>2. PICK l \in Call : Goto(th, l) /\ l.pc \in {"idle", "judge"}
  BY <1>1
<1>3. FreshIn(l, loaded, runtime) /\ Timely(l, triple, clock)
  BY <1>2 DEF FreshIn, Timely
<1>. QED BY <1>1, <1>2, <1>3, CallsSerial

\* The time is taken when no row can be later, and kept until the row is written.
LEMMA UpsertSerial ==
  ASSUME SerialInv, IInv, NEW th \in Thread, UpsertSubject(th) \/ UpsertObject(th)
  PROVE  SerialInv'
<1>1. /\ call[th] \in Call /\ up /\ UNCHANGED <<names, triple, clock, serial, undone>>
      /\ clock \in 1 .. MaxTime /\ clock \in 0 .. MaxTime
  <2>1. call[th] \in Call /\ clock \in 1 .. MaxTime
    BY DEF IInv, CallInv, NameInv
  <2>2. clock \in 0 .. MaxTime
    BY <2>1, GraphConstants
  <2>3. up
    BY DEF UpsertSubject, UpsertObject, At
  <2>4. UNCHANGED <<names, triple, clock, serial, undone>>
    BY DEF UpsertSubject, UpsertObject
  <2>. QED BY <2>1, <2>2, <2>3, <2>4
<1>2. Asserting(th)
  BY DEF UpsertSubject, UpsertObject, At, Asserting
<1>3. CASE Return(th)
  <2>1. Idle \in Call /\ Goto(th, Idle) /\ Idle.pc = "idle"
    BY <1>3, IdleReady DEF Return, Idle
  <2>2. FreshIn(Idle, loaded, runtime) /\ Timely(Idle, triple, clock)
    BY <2>1 DEF FreshIn, Timely
  <2>. QED BY <1>1, <1>2, <2>1, <2>2, CallsSerial
<1>4. CASE ~Return(th) /\ UpsertSubject(th)
  <2>. DEFINE n == [call[th] EXCEPT !.pc = "upsert object", !.at = clock]
  <2>1. "upsert object" \in PC
    BY DEF PC
  <2>2. n \in Call /\ n.pc = "upsert object" /\ n.at = clock
    BY <1>1, <2>1 DEF Call
  <2>3. Goto(th, n)
    BY <1>4 DEF UpsertSubject
  <2>. HIDE DEF n
  <2>4. FreshIn(n, loaded, runtime)
    BY <2>2 DEF FreshIn
  <2>5. serial => Timely(n, triple, clock)
    <3>1. clock <= clock
      BY <1>1
    <3>. QED BY <2>2, <3>1 DEF Timely, SerialInv, InOrder
  <2>. QED BY <1>1, <1>2, <2>2, <2>3, <2>4, <2>5, CallsSerial
<1>5. CASE UpsertObject(th)
  <2>. DEFINE n == [call[th] EXCEPT !.pc = "write"]
  <2>1. "write" \in PC
    BY DEF PC
  <2>2. n \in Call /\ n.pc = "write" /\ n.at = call[th].at
    BY <1>1, <2>1 DEF Call
  <2>3. Goto(th, n) /\ call[th].pc = "upsert object"
    BY <1>5 DEF UpsertObject, At
  <2>. HIDE DEF n
  <2>4. FreshIn(n, loaded, runtime)
    BY <2>2 DEF FreshIn
  <2>5. serial => Timely(n, triple, clock)
    BY <2>2, <2>3 DEF Timely, SerialInv, InOrder
  <2>. QED BY <1>1, <1>2, <2>2, <2>3, <2>4, <2>5, CallsSerial
<1>. QED BY <1>3, <1>4, <1>5


\* While the lists agree, an entity that was loaded is not created again.
LEMMA CreatedApart ==
  ASSUME NameInv, FileExtends, validate(file)
  PROVE  /\ \A i \in DOMAIN loaded : \A j \in DOMAIN runtime : loaded[i].id # runtime[j].id
         /\ \A i, j \in DOMAIN runtime : runtime[i].id = runtime[j].id => i = j
         /\ Registered \subseteq Ids(loaded) \union Ids(runtime)
<1>1. /\ DOMAIN loaded = 1 .. Len(loaded) /\ DOMAIN runtime = 1 .. Len(runtime)
      /\ DOMAIN file = 1 .. Len(file) /\ Len(file) = Len(loaded) + Len(runtime)
      /\ Len(file) \in Nat /\ Len(loaded) \in Nat /\ Len(runtime) \in Nat
  BY DEF NameInv, FileExtends
<1>2. \A i, j \in DOMAIN file : file[i].id = file[j].id => i = j
  BY DEF validate
<1>3. ASSUME NEW i \in DOMAIN loaded PROVE i \in DOMAIN file /\ i \in Nat /\ file[i].id = loaded[i].id
  BY <1>1 DEF FileExtends
<1>4. ASSUME NEW i \in DOMAIN runtime
      PROVE  /\ Len(loaded) + i \in DOMAIN file /\ i \in Nat /\ file[Len(loaded) + i].id = runtime[i].id
             /\ Len(loaded) + i \notin DOMAIN loaded
  BY <1>1 DEF FileExtends
<1>5. \A i \in DOMAIN loaded : \A j \in DOMAIN runtime : loaded[i].id # runtime[j].id
  BY <1>2, <1>3, <1>4
<1>6. ASSUME NEW i \in DOMAIN runtime, NEW j \in DOMAIN runtime, runtime[i].id = runtime[j].id
      PROVE  i = j
  <2>1. Len(loaded) + i = Len(loaded) + j
    BY <1>2, <1>4, <1>6
  <2>. QED BY <1>1, <1>4, <2>1
<1>7. ASSUME NEW k \in DOMAIN file PROVE file[k].id \in Ids(loaded) \union Ids(runtime)
  <2>1. CASE k \in DOMAIN loaded
    BY <1>3, <2>1 DEF Ids
  <2>2. CASE k \notin DOMAIN loaded
    <3>1. k - Len(loaded) \in DOMAIN runtime /\ k = Len(loaded) + (k - Len(loaded))
      BY <1>1, <2>2
    <3>2. file[k].id = runtime[k - Len(loaded)].id
      BY <1>4, <3>1
    <3>. QED BY <3>1, <3>2 DEF Ids
  <2>. QED BY <2>1, <2>2
<1>. QED BY <1>5, <1>6, <1>7 DEF Registered

\* An alias goes to the entry whose canonical form the name shares.
LEMMA AliasAgrees ==
  ASSUME NameInv, ListsAgree, up, NEW m \in Mention,
         NEW w, w = ensure_alias(Resolved(m), m)
  PROVE  \/ w = runtime
         \/ /\ ~Strict /\ Resolved(m) # NoEntity
            /\ resolve_one(loaded, m) = NoEntity /\ First(runtime, m) = NoEntity
            /\ \E i \in DOMAIN runtime :
                 /\ w = [runtime EXCEPT ![i] = [id |-> runtime[i].id, aliases |-> runtime[i].aliases \union {m}]]
                 /\ CanonAgrees => Canon[m] = runtime[i].id[2]
<1>. DEFINE e == Resolved(m)
            at == {i \in DOMAIN runtime : runtime[i].id = e}
            i == CHOOSE i \in at : \A j \in at : i <= j
            c == Canon[m]
<1>0. /\ file \in Seq(Record) /\ loaded \in Seq(Record) /\ runtime \in Seq(Record)
      /\ FileExtends /\ CreatedNew /\ validate(file) /\ c \in Mention
  BY GraphConstants DEF NameInv, ListsAgree
<1>. SUFFICES ASSUME w # runtime
              PROVE  /\ ~Strict /\ e # NoEntity
                     /\ resolve_one(loaded, m) = NoEntity /\ First(runtime, m) = NoEntity
                     /\ \E k \in DOMAIN runtime :
                          /\ w = [runtime EXCEPT ![k] = [id |-> runtime[k].id, aliases |-> runtime[k].aliases \union {m}]]
                          /\ CanonAgrees => c = runtime[k].id[2]
  OBVIOUS
<1>1. /\ Known(loaded, runtime, m) = NoEntity /\ at # {}
      /\ w = [runtime EXCEPT ![i] = [id |-> e, aliases |-> runtime[i].aliases \union {m}]]
  BY DEF ensure_alias
<1>2. i \in DOMAIN runtime /\ runtime[i].id = e
  <2>1. at \subseteq Nat /\ \A k : k \in at <=> k \in DOMAIN runtime /\ runtime[k].id = e
    BY <1>0
  <2>. HIDE DEF at
  <2>2. \E k \in at : \A j \in at : k <= j
    BY <1>1, <2>1, LeastExists
  <2>3. i \in at
    BY <2>2
  <2>. QED BY <2>1, <2>3
<1>. HIDE DEF i
<1>3. e # NoEntity
  BY <1>0, <1>2, EntryNames
<1>4. ~Strict /\ e = Known(loaded, runtime, c)
  BY <1>1, <1>3 DEF Resolved, ResolvedIn
<1>5. resolve_one(loaded, m) = NoEntity /\ First(runtime, m) = NoEntity
  BY <1>1 DEF Known
<1>. HIDE DEF e
<1>6. resolve_one(loaded, c) = NoEntity
  <2>1. SUFFICES ASSUME resolve_one(loaded, c) # NoEntity PROVE FALSE
    OBVIOUS
  <2>2. e = resolve_one(loaded, c)
    BY <1>4, <2>1 DEF Known
  <2>3. Near[c] \in Seq(Mention)
    BY <1>0, ResolveIs
  <2>4. e \in Ids(loaded)
    BY <1>0, <2>1, <2>2, <2>3, FirstListed, BestListed DEF resolve_one
  <2>5. PICK k \in DOMAIN loaded : loaded[k].id = e
    BY <2>4 DEF Ids
  <2>. QED BY <1>0, <1>2, <2>5, CreatedApart
<1>7. e = First(runtime, c)
  BY <1>4, <1>6 DEF Known
<1>8. PICK k \in DOMAIN runtime : c \in Names(runtime[k]) /\ e = runtime[k].id
  <2>1. First(runtime, c) # NoEntity
    BY <1>3, <1>7
  <2>2. PICK k \in DOMAIN runtime : c \in Names(runtime[k]) /\ First(runtime, c) = runtime[k].id
    BY <1>0, <2>1, FirstIs
  <2>. QED BY <1>7, <2>2
<1>9. k = i
  BY <1>0, <1>2, <1>8, CreatedApart
<1>10. CanonAgrees => c = runtime[i].id[2]
  <2>1. CanonAgrees => Canon[c] = runtime[i].id[2]
    BY <1>0, <1>8, <1>9 DEF CreatedNew
  <2>2. CanonAgrees => Canon[c] = c
    BY DEF CanonAgrees
  <2>. QED BY <2>1, <2>2
<1>. QED BY <1>1, <1>2, <1>3, <1>4, <1>5, <1>10

\* A look-up leaves the lists in agreement.
LEMMA AliasKeepsLists ==
  ASSUME NameInv, ListsAgree, up, up' = up, file' = file, loaded' = loaded, NEW m \in Mention,
         runtime' = ensure_alias(Resolved(m), m)
  PROVE  ListsAgree' /\ (Resolved(m) = NoEntity => runtime' = runtime)
<1>1. CASE runtime' = runtime
  BY <1>1, ListsKept DEF names
<1>2. CASE runtime' # runtime
  <2>1. /\ ~Strict /\ Resolved(m) # NoEntity
        /\ resolve_one(loaded, m) = NoEntity /\ First(runtime, m) = NoEntity
        /\ \E i \in DOMAIN runtime :
             /\ runtime' = [runtime EXCEPT ![i] = [id |-> runtime[i].id, aliases |-> runtime[i].aliases \union {m}]]
             /\ CanonAgrees => Canon[m] = runtime[i].id[2]
    BY <1>2, AliasAgrees
  <2>2. PICK i \in DOMAIN runtime :
          /\ runtime' = [runtime EXCEPT ![i] = [id |-> runtime[i].id, aliases |-> runtime[i].aliases \union {m}]]
          /\ CanonAgrees => Canon[m] = runtime[i].id[2]
    BY <2>1
  <2>3. runtime \in Seq(Record) /\ loaded \in Seq(Record) /\ FileExtends /\ CreatedNew
    BY DEF NameInv, ListsAgree
  <2>4. /\ DOMAIN runtime' = DOMAIN runtime /\ Len(runtime') = Len(runtime)
        /\ \A k \in DOMAIN runtime : runtime'[k].id = runtime[k].id
        /\ \A k \in DOMAIN runtime :
             runtime'[k].aliases = IF k = i THEN runtime[k].aliases \union {m} ELSE runtime[k].aliases
    <3>. DEFINE entry == [id |-> runtime[i].id, aliases |-> runtime[i].aliases \union {m}]
    <3>1. entry.id = runtime[i].id /\ entry.aliases = runtime[i].aliases \union {m}
      OBVIOUS
    <3>2. runtime' = [runtime EXCEPT ![i] = entry]
      BY <2>2
    <3>. HIDE DEF entry
    <3>3. DOMAIN runtime' = DOMAIN runtime /\ Len(runtime') = Len(runtime)
      BY <2>3, <3>2
    <3>4. \A k \in DOMAIN runtime : runtime'[k] = IF k = i THEN entry ELSE runtime[k]
      BY <2>3, <3>2
    <3>. QED BY <3>1, <3>3, <3>4
  <2>5. \A k \in DOMAIN runtime : Names(runtime'[k]) = IF k = i THEN Names(runtime[k]) \union {m} ELSE Names(runtime[k])
    BY <2>4 DEF Names
  <2>6. \A k \in DOMAIN runtime : m \notin Names(runtime[k])
    BY <2>1, <2>3, FirstIs
  <2>7. FileExtends'
    <3>1. \A k \in DOMAIN runtime : runtime[k].aliases \subseteq runtime'[k].aliases
      BY <2>4
    <3>. QED BY <2>3, <2>4, <3>1 DEF FileExtends
  <2>8. CreatedNew'
    <3>1. ASSUME NEW k \in DOMAIN runtime, NEW n \in Names(runtime'[k])
          PROVE  /\ resolve_one(loaded, n) = NoEntity
                 /\ \A j \in DOMAIN runtime : n \in Names(runtime'[j]) => k = j
                 /\ CanonAgrees => Canon[n] = runtime'[k].id[2]
      <4>1. CASE n = m
        <5>1. \A j \in DOMAIN runtime : m \in Names(runtime'[j]) => j = i
          BY <2>5, <2>6
        <5>. QED BY <2>1, <2>2, <2>4, <3>1, <4>1, <5>1
      <4>2. CASE n # m
        <5>1. \A j \in DOMAIN runtime : n \in Names(runtime'[j]) => n \in Names(runtime[j])
          BY <2>5, <4>2
        <5>. QED BY <2>3, <2>4, <3>1, <5>1 DEF CreatedNew
      <4>. QED BY <4>1, <4>2
    <3>2. CanonAgrees' <=> CanonAgrees
      BY DEF CanonAgrees
    <3>3. DOMAIN runtime' = DOMAIN runtime /\ ~Strict
      BY <2>1, <2>4
    <3>4. \A k \in DOMAIN runtime' :
            /\ ~Strict
            /\ \A n \in Names(runtime'[k]) :
                 /\ resolve_one(loaded', n) = NoEntity
                 /\ \A j \in DOMAIN runtime' : n \in Names(runtime'[j]) => k = j
                 /\ CanonAgrees' => Canon[n] = runtime'[k].id[2]
      BY <3>1, <3>2, <3>3
    <3>. QED BY <3>4 DEF CreatedNew
  <2>. QED BY <2>1, <2>7, <2>8 DEF ListsAgree
<1>. QED BY <1>1, <1>2


\* What a look-up did not find, in memory or in the file, is unknown under both
\* forms of the name until it is created: no other assert runs.
LEMMA ResolveSerial ==
  ASSUME SerialInv, IInv, NEW th \in Thread, NEW from, NEW m \in Mention, NEW types,
         NEW found \in [Entity -> Call], NEW create \in [Entity -> Call],
         from \in {"subject", "object"},
         \A e \in Entity : found[e].pc \in {"object", "upsert subject"},
         \A e \in Entity : create[e].pc \in {"append subject", "append object"},
         \A type \in types : /\ <<type, Canon[m]>> \in Entity
           /\ \A ontology, created :
                Fresh(m, <<type, Canon[m]>>, ontology, created) => FreshIn(create[<<type, Canon[m]>>], ontology, created),
         resolve_or_create(th, from, found, create, m, types)
  PROVE  SerialInv'
<1>. DEFINE e == Resolved(m)
<1>1. /\ up /\ Asserting(th) /\ runtime' = ensure_alias(e, m)
      /\ UNCHANGED <<file, up, loaded, entity, triple, clock, serial, undone>>
  BY DEF resolve_or_create, At, Asserting
<1>. SUFFICES ASSUME serial PROVE Alone' /\ ListsAgree' /\ InOrder'
  BY <1>1 DEF SerialInv
<1>2. Alone /\ ListsAgree /\ InOrder /\ CallInv /\ NameInv
  BY DEF SerialInv, IInv
<1>3. ListsAgree' /\ (e = NoEntity => runtime' = runtime)
  BY <1>1, <1>2, AliasKeepsLists
<1>4. \E l \in Call : Goto(th, l) /\ FreshIn(l, loaded, runtime') /\ Timely(l, triple, clock)
  <2>1. CASE e # NoEntity /\ Goto(th, found[e])
    <3>1. e \in Entity
      <4>1. e \in Ids(loaded) \union Ids(runtime)
        BY <1>2, <2>1, ResolvedListed DEF NameInv
      <4>. QED BY <1>2, <4>1, RegisteredEntities DEF NameInv
    <3>2. found[e] \in Call /\ found[e].pc \in {"object", "upsert subject"}
      BY <3>1
    <3>. QED BY <2>1, <3>2 DEF FreshIn, Timely
  <2>2. CASE e = NoEntity /\ ~Strict /\ \E type \in types : Goto(th, create[<<type, Canon[m]>>])
    <3>1. PICK type \in types : Goto(th, create[<<type, Canon[m]>>])
      BY <2>2
    <3>. DEFINE n == <<type, Canon[m]>>
    <3>2. n \in Entity /\ n[2] = Canon[m] /\ create[n] \in Call
          /\ create[n].pc \in {"append subject", "append object"}
      OBVIOUS
    <3>3. Known(loaded, runtime, m) = NoEntity /\ Known(loaded, runtime, Canon[m]) = NoEntity
      BY <2>2 DEF Resolved, ResolvedIn
    <3>4. Fresh(m, n, loaded, runtime')
      BY <1>3, <2>2, <3>2, <3>3 DEF Fresh
    <3>5. FreshIn(create[n], loaded, runtime')
      BY <3>4
    <3>6. Timely(create[n], triple, clock)
      BY <3>2 DEF Timely
    <3>. QED BY <3>1, <3>2, <3>5, <3>6
  <2>3. CASE Return(th)
    <3>1. Idle \in Call /\ Goto(th, Idle) /\ Idle.pc = "idle"
      BY <2>3, IdleReady DEF Return, Idle
    <3>. QED BY <3>1 DEF FreshIn, Timely
  <2>. QED BY <2>1, <2>2, <2>3 DEF resolve_or_create
<1>5. PICK l \in Call : Goto(th, l) /\ FreshIn(l, loaded, runtime') /\ Timely(l, triple, clock)
  BY <1>4
<1>6. up' = TRUE /\ loaded' = loaded /\ triple' = triple /\ clock' = clock /\ undone' = undone
  BY <1>1, <1>2 DEF NameInv
<1>7. Alone'
  BY <1>1, <1>2, <1>5, <1>6, AloneStep
<1>8. InOrder'
  BY <1>2, <1>5, <1>6, OrderStep
<1>. QED BY <1>3, <1>7, <1>8

\* The look-up of the subject is such a look-up.
LEMMA ResolveSubjectSerial ==
  ASSUME SerialInv, IInv, NEW th \in Thread, ResolveSubject(th)
  PROVE  SerialInv'
<1>. DEFINE l == call[th]
            found == [e \in Entity |-> [l EXCEPT !.pc = "object", !.subj = e]]
            create == [e \in Entity |-> [l EXCEPT !.pc = "append subject", !.subj = e]]
<1>1. l \in Call /\ l.pc = "subject" /\ l.c \in Calls
  BY DEF IInv, CallInv, CallReady, ResolveSubject, resolve_or_create, At
<1>2. "object" \in PC /\ "append subject" \in PC
  BY DEF PC
<1>3. resolve_or_create(th, "subject", found, create, l.c.s, SubjectTypes(l.c))
  BY DEF ResolveSubject
<1>. HIDE DEF l
<1>4. ASSUME NEW e \in Entity
      PROVE  found[e] \in Call /\ found[e].pc = "object"
  BY <1>1, <1>2 DEF Call
<1>5. ASSUME NEW e \in Entity
      PROVE  create[e] \in Call /\ create[e].pc = "append subject" /\ create[e].subj = e /\ create[e].c = l.c
  BY <1>1, <1>2 DEF Call
<1>6. found \in [Entity -> Call] /\ create \in [Entity -> Call]
  BY <1>4, <1>5
<1>. HIDE DEF found, create
<1>7. \A type \in SubjectTypes(l.c) :
        /\ <<type, Canon[l.c.s]>> \in Entity
        /\ \A ontology, created : Fresh(l.c.s, <<type, Canon[l.c.s]>>, ontology, created) =>
             FreshIn(create[<<type, Canon[l.c.s]>>], ontology, created)
  <2>1. \A type \in SubjectTypes(l.c) : <<type, Canon[l.c.s]>> \in Entity
    BY <1>1, CallNames
  <2>. QED BY <2>1, <1>5 DEF FreshIn
<1>8. l.c.s \in Mention
  BY <1>1, CallNames
<1>9. /\ \A e \in Entity : found[e].pc \in {"object", "upsert subject"}
      /\ \A e \in Entity : create[e].pc \in {"append subject", "append object"}
  BY <1>4, <1>5
<1>. QED BY <1>3, <1>6, <1>7, <1>8, <1>9, ResolveSerial

\* So is that of the object.
LEMMA ResolveObjectSerial ==
  ASSUME SerialInv, IInv, NEW th \in Thread, ResolveObject(th)
  PROVE  SerialInv'
<1>. DEFINE l == call[th]
            found == [e \in Entity |-> [l EXCEPT !.pc = "upsert subject", !.obj = e]]
            create == [e \in Entity |-> [l EXCEPT !.pc = "append object", !.obj = e]]
<1>1. l \in Call /\ l.pc = "object" /\ l.c \in Calls
  BY DEF IInv, CallInv, CallReady, ResolveObject, resolve_or_create, At
<1>2. "upsert subject" \in PC /\ "append object" \in PC
  BY DEF PC
<1>3. resolve_or_create(th, "object", found, create, l.c.o, ObjectTypes(l.c))
  BY DEF ResolveObject
<1>. HIDE DEF l
<1>4. ASSUME NEW e \in Entity
      PROVE  found[e] \in Call /\ found[e].pc = "upsert subject"
  BY <1>1, <1>2 DEF Call
<1>5. ASSUME NEW e \in Entity
      PROVE  create[e] \in Call /\ create[e].pc = "append object" /\ create[e].obj = e /\ create[e].c = l.c
  BY <1>1, <1>2 DEF Call
<1>6. found \in [Entity -> Call] /\ create \in [Entity -> Call]
  BY <1>4, <1>5
<1>. HIDE DEF found, create
<1>7. \A type \in ObjectTypes(l.c) :
        /\ <<type, Canon[l.c.o]>> \in Entity
        /\ \A ontology, created : Fresh(l.c.o, <<type, Canon[l.c.o]>>, ontology, created) =>
             FreshIn(create[<<type, Canon[l.c.o]>>], ontology, created)
  <2>1. \A type \in ObjectTypes(l.c) : <<type, Canon[l.c.o]>> \in Entity
    BY <1>1, CallNames
  <2>. QED BY <2>1, <1>5 DEF FreshIn
<1>8. l.c.o \in Mention
  BY <1>1, CallNames
<1>9. /\ \A e \in Entity : found[e].pc \in {"object", "upsert subject"}
      /\ \A e \in Entity : create[e].pc \in {"append subject", "append object"}
  BY <1>4, <1>5
<1>. QED BY <1>3, <1>6, <1>7, <1>8, <1>9, ResolveSerial


\* A longer list knows the names it knew and those of the entry it got.
LEMMA AppendKnows ==
  ASSUME NEW list \in Seq(Record), NEW rec \in Record
  PROVE  /\ \A n : First(Append(list, rec), n) # NoEntity <=> First(list, n) # NoEntity \/ n \in Names(rec)
         /\ \A n \in Mention :
              resolve_one(list, n) # NoEntity \/ n \in Names(rec) => resolve_one(Append(list, rec), n) # NoEntity
<1>. DEFINE u == Append(list, rec)
            k == Len(list) + 1
<1>1. /\ u \in Seq(Record) /\ DOMAIN u = DOMAIN list \union {k} /\ u[k] = rec
      /\ \A i \in DOMAIN list : u[i] = list[i]
  OBVIOUS
<1>. HIDE DEF u, k
<1>2. ASSUME NEW n PROVE First(u, n) # NoEntity <=> First(list, n) # NoEntity \/ n \in Names(rec)
  <2>1. First(u, n) # NoEntity <=> \E i \in DOMAIN u : n \in Names(u[i])
    BY <1>1, FirstIs
  <2>2. First(list, n) # NoEntity <=> \E i \in DOMAIN list : n \in Names(list[i])
    BY FirstIs
  <2>3. (\E i \in DOMAIN u : n \in Names(u[i])) <=> (\E i \in DOMAIN list : n \in Names(list[i])) \/ n \in Names(rec)
    BY <1>1
  <2>. QED BY <2>1, <2>2, <2>3
<1>3. ASSUME NEW n \in Mention, resolve_one(list, n) # NoEntity \/ n \in Names(rec)
      PROVE  resolve_one(u, n) # NoEntity
  <2>1. \/ First(list, n) # NoEntity \/ n \in Names(rec)
        \/ \E i \in DOMAIN Near[n] : First(list, Near[n][i]) # NoEntity
    BY <1>3, ResolveIs
  <2>2. First(u, n) # NoEntity \/ \E i \in DOMAIN Near[n] : First(u, Near[n][i]) # NoEntity
    BY <1>2, <2>1
  <2>. QED BY <1>1, <2>2, ResolveIs
<1>. QED BY <1>2, <1>3 DEF u

\* Creating what is still unknown leaves the lists in agreement.
LEMMA CreateAgrees ==
  ASSUME NameInv, ListsAgree, up, up' = up, loaded' = loaded, NEW m \in Mention, NEW e \in Entity,
         Fresh(m, e, loaded, runtime),
         file' = Append(file, New(e, m)), runtime' = Append(runtime, New(e, m))
  PROVE  ListsAgree'
<1>. DEFINE rec == New(e, m)
            k == Len(runtime) + 1
            j == Len(file) + 1
            c == e[2]
<1>0. /\ file \in Seq(Record) /\ loaded \in Seq(Record) /\ runtime \in Seq(Record)
      /\ FileExtends /\ CreatedNew /\ validate(file) /\ (CanonAgrees => Closed(file) /\ Closed(loaded))
  BY DEF NameInv, ListsAgree
<1>1. /\ c \in Mention /\ c = Canon[m] /\ ~Strict
      /\ resolve_one(loaded, m) = NoEntity /\ First(runtime, m) = NoEntity
      /\ resolve_one(loaded, c) = NoEntity /\ First(runtime, c) = NoEntity
  BY GraphConstants DEF Fresh, Known
<1>2. rec \in Record /\ rec.id = e /\ Names(rec) = {m, c} /\ Names(rec) \subseteq Mention
  <2>1. rec.id = e /\ rec.aliases = {m} \ {c}
    BY DEF New
  <2>2. rec \in Record
    BY <2>1 DEF New, Record
  <2>. QED BY <1>1, <2>1, <2>2 DEF Names
<1>. HIDE DEF rec
<1>3. /\ file' \in Seq(Record) /\ DOMAIN file' = DOMAIN file \union {j} /\ file'[j] = rec
      /\ \A i \in DOMAIN file : file'[i] = file[i]
      /\ Len(file') = j /\ j \notin DOMAIN file
  BY <1>0, <1>2 DEF rec
<1>4. /\ runtime' \in Seq(Record) /\ DOMAIN runtime' = DOMAIN runtime \union {k} /\ runtime'[k] = rec
      /\ \A i \in DOMAIN runtime : runtime'[i] = runtime[i]
      /\ Len(runtime') = k /\ k \notin DOMAIN runtime
  BY <1>0, <1>2 DEF rec
<1>5. /\ DOMAIN loaded = 1 .. Len(loaded) /\ DOMAIN runtime = 1 .. Len(runtime) /\ DOMAIN file = 1 .. Len(file)
      /\ Len(loaded) \in Nat /\ Len(runtime) \in Nat /\ Len(file) \in Nat
      /\ Len(file) = Len(loaded) + Len(runtime) /\ j = Len(loaded) + k
  BY <1>0 DEF FileExtends
<1>6. \A i \in DOMAIN loaded : i \in DOMAIN file
  BY <1>5
<1>7. \A i \in DOMAIN runtime : Len(loaded) + i \in DOMAIN file
  BY <1>5
<1>. HIDE DEF j, k, c
<1>8. FileExtends'
  <2>1. Len(file') = Len(loaded) + Len(runtime')
    BY <1>3, <1>4, <1>5
  <2>2. \A i \in DOMAIN loaded : file'[i] = loaded[i]
    BY <1>0, <1>3, <1>6 DEF FileExtends
  <2>3. \A i \in DOMAIN runtime' : /\ file'[Len(loaded) + i].id = runtime'[i].id
                                   /\ file'[Len(loaded) + i].aliases \subseteq runtime'[i].aliases
    <3>1. ASSUME NEW i \in DOMAIN runtime
          PROVE  /\ file'[Len(loaded) + i].id = runtime'[i].id
                 /\ file'[Len(loaded) + i].aliases \subseteq runtime'[i].aliases
      BY <1>0, <1>3, <1>4, <1>7 DEF FileExtends
    <3>. QED BY <3>1, <1>3, <1>4, <1>5
  <2>. QED BY <2>1, <2>2, <2>3 DEF FileExtends
<1>9. \A i \in DOMAIN runtime : m \notin Names(runtime[i]) /\ c \notin Names(runtime[i])
  BY <1>0, <1>1, FirstIs
<1>10. CreatedNew'
  <2>1. ASSUME NEW i \in DOMAIN runtime', NEW n \in Names(runtime'[i])
        PROVE  /\ resolve_one(loaded, n) = NoEntity
               /\ \A l \in DOMAIN runtime' : n \in Names(runtime'[l]) => i = l
               /\ CanonAgrees => Canon[n] = runtime'[i].id[2]
    <3>1. CASE i = k
      <4>1. n = m \/ n = c
        BY <1>2, <1>4, <2>1, <3>1
      <4>2. CanonAgrees => Canon[c] = c
        BY <1>1 DEF CanonAgrees
      <4>3. runtime'[i].id[2] = c
        BY <1>2, <1>4, <3>1 DEF c
      <4>4. \A l \in DOMAIN runtime' : n \in Names(runtime'[l]) => i = l
        BY <1>4, <1>9, <3>1, <4>1
      <4>. QED BY <1>1, <4>1, <4>2, <4>3, <4>4
    <3>2. CASE i \in DOMAIN runtime
      <4>1. n \in Names(runtime[i]) /\ n \notin Names(rec)
        BY <1>2, <1>4, <1>9, <2>1, <3>2
      <4>2. /\ resolve_one(loaded, n) = NoEntity
            /\ \A l \in DOMAIN runtime : n \in Names(runtime[l]) => i = l
            /\ CanonAgrees => Canon[n] = runtime[i].id[2]
        BY <1>0, <3>2, <4>1 DEF CreatedNew
      <4>3. \A l \in DOMAIN runtime' : n \in Names(runtime'[l]) => i = l
        BY <1>4, <4>1, <4>2
      <4>. QED BY <1>4, <3>2, <4>2, <4>3
    <3>. QED BY <1>4, <3>1, <3>2
  <2>2. CanonAgrees' <=> CanonAgrees
    BY DEF CanonAgrees
  <2>3. \A i \in DOMAIN runtime' :
          /\ ~Strict
          /\ \A n \in Names(runtime'[i]) :
               /\ resolve_one(loaded', n) = NoEntity
               /\ \A l \in DOMAIN runtime' : n \in Names(runtime'[l]) => i = l
               /\ CanonAgrees' => Canon[n] = runtime'[i].id[2]
    BY <1>1, <2>1, <2>2
  <2>. QED BY <2>3 DEF CreatedNew
<1>11. validate(file')
  <2>1. ASSUME NEW i \in DOMAIN file PROVE file[i].id # e
    <3>1. file[i].id \in Ids(loaded) \union Ids(runtime)
      BY <1>0, CreatedApart DEF Registered
    <3>2. ASSUME NEW l \in DOMAIN loaded PROVE loaded[l].id # e
      <4>1. First(loaded, c) = NoEntity
        BY <1>0, <1>1, ResolveIs
      <4>2. c \notin Names(loaded[l])
        BY <1>0, <4>1, FirstIs
      <4>. QED BY <4>2 DEF Names, c
    <3>3. ASSUME NEW l \in DOMAIN runtime PROVE runtime[l].id # e
      BY <1>9 DEF Names, c
    <3>. QED BY <3>1, <3>2, <3>3 DEF Ids
  <2>2. \A i, l \in DOMAIN file' : file'[i].id = file'[l].id => i = l
    <3>1. \A i, l \in DOMAIN file : file[i].id = file[l].id => i = l
      BY <1>0 DEF validate
    <3>. QED BY <1>2, <1>3, <2>1, <3>1
  <2>3. \A p \in Predicate : DomainTypes[p] \union RangeTypes[p] \subseteq {file'[i].id[1] : i \in DOMAIN file'}
    <3>1. {file[i].id[1] : i \in DOMAIN file} \subseteq {file'[i].id[1] : i \in DOMAIN file'}
      BY <1>3
    <3>. QED BY <1>0, <3>1 DEF validate
  <2>. QED BY <2>2, <2>3 DEF validate
<1>12. CanonAgrees => Closed(file')
  <2>. SUFFICES ASSUME CanonAgrees, NEW n \in Mention, First(file', n) # NoEntity
                PROVE  resolve_one(file', Canon[n]) # NoEntity
    BY DEF Closed
  <2>1. Canon[n] \in Mention /\ Canon[c] = c
    BY <1>1, GraphConstants DEF CanonAgrees
  <2>2. file' = Append(file, rec)
    BY DEF rec
  <2>3. CASE First(file, n) # NoEntity
    <3>1. resolve_one(file, Canon[n]) # NoEntity
      BY <1>0, <2>3 DEF Closed
    <3>. QED BY <1>0, <1>2, <2>1, <2>2, <3>1, AppendKnows
  <2>4. CASE n \in Names(rec)
    <3>1. Canon[n] = c /\ c \in Names(rec)
      BY <1>1, <1>2, <2>1, <2>4
    <3>. QED BY <1>0, <1>2, <2>1, <2>2, <3>1, AppendKnows
  <2>5. First(file, n) # NoEntity \/ n \in Names(rec)
    BY <1>0, <1>2, <2>2, AppendKnows
  <2>. QED BY <2>3, <2>4, <2>5
<1>13. CanonAgrees' <=> CanonAgrees
  BY DEF CanonAgrees
<1>. QED BY <1>0, <1>8, <1>10, <1>11, <1>12, <1>13 DEF ListsAgree

\* What a call creates is what its look-up missed.
LEMMA CreateSerial ==
  ASSUME SerialInv, IInv, NEW th \in Thread, CreateSubject(th) \/ CreateObject(th)
  PROVE  SerialInv'
<1>1. /\ up /\ Asserting(th) /\ call[th] \in Call /\ call[th].c \in Calls
      /\ UNCHANGED <<up, loaded, entity, triple, clock, serial, undone>>
      /\ call[th].pc \in {"append subject", "append object"}
  BY DEF CreateSubject, CreateObject, auto_create_entity, At, Asserting, IInv, CallInv, CallReady
<1>. SUFFICES ASSUME serial PROVE Alone' /\ ListsAgree' /\ InOrder'
  BY <1>1 DEF SerialInv
<1>2. Alone /\ ListsAgree /\ InOrder /\ CallInv /\ NameInv
  BY DEF SerialInv, IInv
<1>3. \E to \in {"object", "upsert subject"} : Goto(th, [call[th] EXCEPT !.pc = to])
  BY DEF CreateSubject, CreateObject, auto_create_entity
<1>4. PICK to \in {"object", "upsert subject"} : Goto(th, [call[th] EXCEPT !.pc = to])
  BY <1>3
<1>. DEFINE l == [call[th] EXCEPT !.pc = to]
<1>5. l \in Call /\ l.pc \in {"object", "upsert subject"}
  BY <1>1 DEF Call, PC
<1>6. Goto(th, l)
  BY <1>4
<1>. HIDE DEF l
<1>7. FreshIn(l, loaded', runtime') /\ Timely(l, triple, clock)
  BY <1>5 DEF FreshIn, Timely
<1>8. up' = TRUE
  BY <1>1, <1>2 DEF NameInv
<1>9. Alone'
  BY <1>1, <1>2, <1>5, <1>6, <1>7, <1>8, AloneStep
<1>10. InOrder'
  BY <1>1, <1>2, <1>5, <1>6, <1>7, OrderStep
<1>11. ListsAgree'
  <2>1. CASE CreateSubject(th)
    <3>1. /\ call[th].subj \in Entity /\ call[th].c.s \in Mention
          /\ Fresh(call[th].c.s, call[th].subj, loaded, runtime)
      BY <1>1, <1>2, <2>1, CallNames DEF CreateSubject, auto_create_entity, At, CallInv, CallReady, Alone, FreshIn
    <3>2. /\ file' = Append(file, New(call[th].subj, call[th].c.s))
          /\ runtime' = Append(runtime, New(call[th].subj, call[th].c.s))
      BY <2>1 DEF CreateSubject, auto_create_entity, append_entity_to_ontology
    <3>. QED BY <1>1, <1>2, <3>1, <3>2, CreateAgrees
  <2>2. CASE CreateObject(th)
    <3>1. /\ call[th].obj \in Entity /\ call[th].c.o \in Mention
          /\ Fresh(call[th].c.o, call[th].obj, loaded, runtime)
      BY <1>1, <1>2, <2>2, CallNames DEF CreateObject, auto_create_entity, At, CallInv, CallReady, Alone, FreshIn
    <3>2. /\ file' = Append(file, New(call[th].obj, call[th].c.o))
          /\ runtime' = Append(runtime, New(call[th].obj, call[th].c.o))
      BY <2>2 DEF CreateObject, auto_create_entity, append_entity_to_ontology
    <3>. QED BY <1>1, <1>2, <3>1, <3>2, CreateAgrees
  <2>. QED BY <2>1, <2>2
<1>. QED BY <1>9, <1>10, <1>11


\* What is not later than one time is not later than the next.
LEMMA NoLaterThan ==
  ASSUME NEW t \in Seq(Row), NEW a \in Nat, NEW b \in Nat, a <= b, NoLater(t, a)
  PROVE  NoLater(t, b)
<1>1. ASSUME NEW r \in DOMAIN t PROVE t[r].at <= b
  <2>1. t[r] \in Row /\ t[r].at <= a
    BY DEF NoLater
  <2>2. t[r].at \in Nat
    BY <2>1, GraphConstants DEF Row
  <2>. QED BY <2>1, <2>2
<1>. QED BY <1>1 DEF NoLater

\* The row is written with the time its call took, which no other row's is later than.
LEMMA WriteSerial ==
  ASSUME SerialInv, IInv, NEW th \in Thread, WriteTriple(th)
  PROVE  SerialInv'
<1>. DEFINE l == call[th]
            slot == <<l.subj, l.c.p>>
            row == Assertion(l.subj, l.c.p, l.obj, l.at)
<1>1. /\ l.pc = "write" /\ l.c \in Calls /\ l.subj \in Registered /\ l.obj \in Registered
      /\ l.subj \in entity /\ l.obj \in entity /\ l.at \in 1 .. MaxTime /\ up /\ Asserting(th)
  BY DEF WriteTriple, At, IInv, CallInv, CallReady, Asserting
<1>2. l.subj \in Entity /\ l.obj \in Entity /\ l.c.p \in Predicate
  BY <1>1, CallNames DEF IInv, NameInv
<1>3. UNCHANGED <<names, entity, clock, serial, undone>> /\ Return(th) /\ triple' = Written(row)
  BY DEF WriteTriple
<1>. SUFFICES ASSUME serial PROVE Alone' /\ ListsAgree' /\ InOrder'
  BY <1>3 DEF SerialInv
<1>4. Alone /\ ListsAgree /\ InOrder /\ CallInv /\ NameInv /\ TableInv
  BY DEF SerialInv, IInv
<1>5. l.at <= clock /\ NoLater(triple, l.at)
  BY <1>1, <1>4 DEF InOrder, Timely
<1>. HIDE DEF l
<1>6. /\ row \in Row /\ row.valid_to = Open /\ row.by = Nobody /\ row.at = l.at
      /\ row.from = l.subj /\ row.pred = l.c.p /\ row.to = l.obj
  <2>1. 0 \in 0 .. MaxTime /\ 0 \in Nat
    BY GraphConstants
  <2>. QED BY <1>1, <1>2, <2>1 DEF Assertion, Row, Open, Nobody
<1>7. SlotOf(row) = slot
  BY <1>6 DEF SlotOf
<1>8. {row.from, row.to} \subseteq entity
  BY <1>1, <1>6
<1>. HIDE DEF row
<1>9. triple \in Seq(Row) /\ Traceable(triple) /\ NoLater(triple, row.at)
  BY <1>4, <1>5, <1>6 DEF TableInv
<1>10. /\ NoLater(triple', l.at)
       /\ \A s \in Slot : predicate_is_single_valued(s) /\ InSequence(triple, s) => InSequence(triple', s)
  <2>1. CASE predicate_is_single_valued(slot)
    <3>1. triple' = insert_triple_superseding(triple, row, TRUE, LastInserted)
      BY <1>3, <1>7, <1>8, <2>1 DEF Written
    <3>2. ASSUME NEW u, u = insert_triple_superseding(triple, row, TRUE, LastInserted)
          PROVE  NoLater(u, row.at) /\ \A s : InSequence(triple, s) => InSequence(u, s)
      BY <1>6, <1>9, <3>2, SupersedeInOrder
    <3>. QED BY <1>6, <3>1, <3>2
  <2>2. CASE ~predicate_is_single_valued(slot)
    <3>1. triple' = Append(triple, row)
      BY <1>3, <1>7, <1>8, <2>2 DEF Written, insert_triple
    <3>2. /\ NoLater(Append(triple, row), row.at)
          /\ \A s : s # SlotOf(row) /\ InSequence(triple, s) => InSequence(Append(triple, row), s)
      BY <1>6, <1>9, InsertInOrder
    <3>. QED BY <1>6, <1>7, <2>2, <3>1, <3>2
  <2>. QED BY <2>1, <2>2
<1>11. Idle \in Call /\ Goto(th, Idle) /\ Idle.pc = "idle"
  BY <1>3, IdleReady DEF Return, Idle
<1>12. FreshIn(Idle, loaded', runtime')
  BY <1>11 DEF FreshIn
<1>13. up' = TRUE /\ loaded' = loaded /\ runtime' = runtime
  BY <1>1, <1>3, <1>4 DEF names, NameInv
<1>14. Alone'
  BY <1>4, <1>11, <1>12, <1>13, AloneStep
<1>15. ListsAgree'
  BY <1>3, <1>4, ListsKept
<1>16. InOrder'
  <2>1. NoLater(triple', clock')
    <3>1. triple' \in Seq(Row)
      BY WritePreserves DEF IInv, TableInv
    <3>2. l.at \in Nat /\ clock \in Nat /\ clock' = clock
      BY <1>1, <1>3, <1>4, GraphConstants DEF NameInv, l
    <3>. QED BY <1>5, <1>10, <3>1, <3>2, NoLaterThan
  <2>2. ASSUME NEW x \in Thread PROVE Timely(call'[x], triple', clock')
    <3>1. CASE x = th
      <4>1. call'[x].pc = "idle"
        BY <1>4, <1>11, <3>1 DEF Goto, CallInv
      <4>. QED BY <4>1 DEF Timely
    <3>2. CASE x # th
      <4>1. ~Asserting(x) /\ call'[x] = call[x]
        BY <1>1, <1>4, <1>11, <3>2 DEF Alone, Goto, CallInv
      <4>. QED BY <4>1 DEF Asserting, Timely
    <3>. QED BY <3>1, <3>2
  <2>3. \A s \in Slot : predicate_is_single_valued(s) /\ undone'[s] = "never" => InSequence(triple', s)
    BY <1>3, <1>4, <1>10 DEF InOrder
  <2>. QED BY <2>1, <2>2, <2>3 DEF InOrder, predicate_is_single_valued
<1>. QED BY <1>14, <1>15, <1>16

\* What a step on the triple table alone, outside any assert, has to keep.
LEMMA TableSerial ==
  ASSUME SerialInv, IInv, UNCHANGED <<names, clock, serial>>, up,
         call' = call \/ \E th \in Thread : \E l \in Call : Goto(th, l) /\ l.pc \in {"idle", "judge"},
         \A n : NoLater(triple, n) => NoLater(triple', n),
         \A s \in Slot : predicate_is_single_valued(s) /\ undone'[s] = "never" =>
           undone[s] = "never" /\ (InSequence(triple, s) => InSequence(triple', s))
  PROVE  SerialInv'
<1>. SUFFICES ASSUME serial PROVE Alone' /\ ListsAgree' /\ InOrder'
  BY DEF SerialInv
<1>1. Alone /\ ListsAgree /\ InOrder /\ CallInv /\ NameInv
  BY DEF SerialInv, IInv
<1>2. up' = TRUE /\ loaded' = loaded /\ runtime' = runtime /\ clock' = clock
  BY <1>1 DEF names, NameInv
<1>3. ListsAgree'
  BY <1>1, ListsKept
<1>4. Alone'
  <2>1. CASE call' = call
    BY <1>1, <1>2, <2>1 DEF Alone, Asserting
  <2>2. CASE call' # call
    <3>1. PICK th \in Thread : \E l \in Call : Goto(th, l) /\ l.pc \in {"idle", "judge"}
      BY <2>2
    <3>2. PICK l \in Call : Goto(th, l) /\ l.pc \in {"idle", "judge"}
      BY <3>1
    <3>3. FreshIn(l, loaded', runtime')
      BY <3>2 DEF FreshIn
    <3>. QED BY <1>1, <1>2, <3>2, <3>3, AloneStep
  <2>. QED BY <2>1, <2>2
<1>5. \A x \in Thread : call'[x] = call[x] \/ call'[x].pc \in {"idle", "judge"}
  <2>1. CASE call' = call
    BY <2>1
  <2>2. CASE call' # call
    <3>1. PICK th \in Thread : \E l \in Call : Goto(th, l) /\ l.pc \in {"idle", "judge"}
      BY <2>2
    <3>2. PICK l \in Call : Goto(th, l) /\ l.pc \in {"idle", "judge"}
      BY <3>1
    <3>. QED BY <1>1, <3>2 DEF Goto, CallInv
  <2>. QED BY <2>1, <2>2
<1>6. InOrder'
  <2>1. NoLater(triple', clock')
    BY <1>1, <1>2 DEF InOrder
  <2>2. \A x \in Thread : Timely(call'[x], triple', clock')
    BY <1>1, <1>2, <1>5 DEF InOrder, Timely
  <2>3. \A s \in Slot : predicate_is_single_valued(s) /\ undone'[s] = "never" => InSequence(triple', s)
    BY <1>1 DEF InOrder
  <2>. QED BY <2>1, <2>2, <2>3 DEF InOrder, predicate_is_single_valued
<1>. QED BY <1>3, <1>4, <1>6

\* Retiring the other objects of a slot ends no row of a slot in sequence.
LEMMA RetireKeepsOrder ==
  ASSUME IInv, NEW slot, NEW keep, RetireConflicting(slot, keep)
  PROVE  /\ \A n : NoLater(triple, n) => NoLater(triple', n)
         /\ \A s : InSequence(triple, s) => InSequence(triple', s)
<1>1. triple \in Seq(Row) /\ clock \in 1 .. MaxTime
  BY DEF IInv, TableInv, NameInv
<1>2. triple' \in retire_conflicting_objects(triple, slot, keep, clock)
  BY DEF RetireConflicting
<1>. QED BY <1>1, <1>2, ChooseInOrder

\* A verdict keeps the order.
LEMMA JudgeSerial ==
  ASSUME SerialInv, IInv, NEW th \in Thread, Judge(th)
  PROVE  SerialInv'
<1>1. PICK candidate \in call[th].todo :
        LET rest == [call[th] EXCEPT !.todo = @ \ {candidate}]
        IN  /\ Goto(th, IF rest.todo = {} THEN Idle ELSE rest)
            /\ \/ UNCHANGED triple
               \/ \E keep \in candidate[2] : RetireConflicting(candidate[1], keep)
  BY DEF Judge
<1>2. UNCHANGED <<names, entity, clock, serial, undone>> /\ up
  BY DEF Judge, At
<1>. DEFINE rest == [call[th] EXCEPT !.todo = @ \ {candidate}]
<1>3. rest \in Call /\ rest.pc = "judge"
  <2>1. call[th] \in Call /\ call[th].pc = "judge"
    BY DEF IInv, CallInv, Judge, At
  <2>. QED BY <2>1 DEF Call
<1>4. Goto(th, rest) \/ Goto(th, Idle)
  BY <1>1
<1>. HIDE DEF rest
<1>5. \E l \in Call : Goto(th, l) /\ l.pc \in {"idle", "judge"}
  <2>1. Idle \in Call /\ Idle.pc = "idle"
    BY IdleReady DEF Idle
  <2>. QED BY <1>3, <1>4, <2>1
<1>6. /\ \A n : NoLater(triple, n) => NoLater(triple', n)
      /\ \A s : InSequence(triple, s) => InSequence(triple', s)
  <2>1. CASE triple' = triple
    BY <2>1
  <2>2. CASE \E keep \in candidate[2] : RetireConflicting(candidate[1], keep)
    BY <2>2, RetireKeepsOrder
  <2>. QED BY <1>1, <2>1, <2>2
<1>. QED BY <1>2, <1>5, <1>6, TableSerial

\* So does a choice of the host.
LEMMA ChooseSerial ==
  ASSUME SerialInv, IInv, NEW slot, NEW keep, Choose(slot, keep)
  PROVE  SerialInv'
<1>1. /\ RetireConflicting(slot, keep) /\ UNCHANGED <<names, entity, clock, call, serial, undone>> /\ up
  BY DEF Choose
<1>2. /\ \A n : NoLater(triple, n) => NoLater(triple', n)
      /\ \A s : InSequence(triple, s) => InSequence(triple', s)
  BY <1>1, RetireKeepsOrder
<1>. QED BY <1>1, <1>2, TableSerial

\* An undo marks the slot whose history it rewrites.
LEMMA UndoSerial ==
  ASSUME SerialInv, IInv, NEW r \in DOMAIN triple, Undo(r)
  PROVE  SerialInv'
<1>1. /\ up /\ Retired(triple, r) # {} /\ triple' = undo_supersession(triple, r, clock)
      /\ UNCHANGED <<names, entity, clock, call, serial>>
  BY DEF Undo
<1>2. triple \in Seq(Row) /\ Traceable(triple) /\ clock \in 1 .. MaxTime
  BY DEF IInv, TableInv, NameInv
<1>3. /\ \A n : NoLater(triple, n) => NoLater(triple', n)
      /\ \A s : s # SlotOf(triple[r]) /\ InSequence(triple, s) => InSequence(triple', s)
  BY <1>1, <1>2, UndoInOrder
<1>4. ASSUME NEW s \in Slot, undone'[s] = "never" PROVE s # SlotOf(triple[r]) /\ undone[s] = "never"
  <2>. DEFINE mark == IF undone[SlotOf(triple[r])] = "late" \/ triple[r].valid_to # Open THEN "late" ELSE "undone"
  <2>1. undone' = [undone EXCEPT ![SlotOf(triple[r])] = mark] /\ mark # "never"
    BY DEF Undo
  <2>2. undone \in [Slot -> {"never", "undone", "late"}]
    BY DEF IInv, TableInv
  <2>. HIDE DEF mark
  <2>. QED BY <1>4, <2>1, <2>2
<1>. QED BY <1>1, <1>3, <1>4, TableSerial


\* The clock goes on, the process dies and opens what is in the file.
LEMMA ProcessSerial ==
  ASSUME SerialInv, IInv, Tick \/ Crash \/ BrainOpen
  PROVE  SerialInv'
<1>1. serial' = serial
  BY DEF Tick, Crash, BrainOpen
<1>. SUFFICES ASSUME serial PROVE Alone' /\ ListsAgree' /\ InOrder'
  BY <1>1 DEF SerialInv
<1>2. Alone /\ ListsAgree /\ InOrder /\ CallInv /\ NameInv /\ TableInv
  BY DEF SerialInv, IInv
<1>0. Idle.pc = "idle"
  BY DEF Idle
<1>3. CASE Tick
  <2>1. UNCHANGED <<names, call, triple, undone>> /\ clock' = clock + 1
    BY <1>3 DEF Tick
  <2>2. clock \in Nat /\ clock' \in Nat /\ clock <= clock'
    BY <1>2, <2>1, GraphConstants DEF NameInv
  <2>3. Alone'
    BY <1>2, <2>1 DEF Alone, Asserting, names
  <2>4. NoLater(triple', clock')
    BY <1>2, <2>1, <2>2, NoLaterThan DEF InOrder, TableInv
  <2>5. ASSUME NEW th \in Thread PROVE Timely(call'[th], triple', clock')
    <3>1. call[th].at \in Nat
      <4>1. call[th] \in Call
        BY <1>2 DEF CallInv
      <4>. QED BY <4>1, GraphConstants DEF Call
    <3>2. Timely(call[th], triple, clock)
      BY <1>2 DEF InOrder
    <3>3. call'[th] = call[th] /\ triple' = triple
      BY <2>1
    <3>4. call[th].at <= clock => call[th].at <= clock'
      BY <2>2, <3>1
    <3>. QED BY <3>2, <3>3, <3>4 DEF Timely
  <2>6. InOrder'
    BY <1>2, <2>1, <2>4, <2>5 DEF InOrder, predicate_is_single_valued
  <2>7. ListsAgree'
    BY <1>2, <2>1, ListsKept
  <2>. QED BY <2>3, <2>6, <2>7
<1>4. CASE Crash
  <2>1. /\ up' = FALSE /\ loaded' = <<>> /\ runtime' = <<>> /\ call' = [th \in Thread |-> Idle]
        /\ UNCHANGED <<file, triple, clock, undone>>
    BY <1>4 DEF Crash
  <2>2. \A th \in Thread : call'[th] = Idle
    BY <2>1
  <2>3. Alone'
    BY <1>0, <2>2 DEF Alone, Asserting, FreshIn
  <2>4. InOrder'
    <3>1. \A th \in Thread : Timely(call'[th], triple', clock')
      BY <1>0, <2>2 DEF Timely
    <3>. QED BY <1>2, <2>1, <3>1 DEF InOrder, predicate_is_single_valued
  <2>5. ListsAgree'
    BY <1>2, <2>1 DEF ListsAgree
  <2>. QED BY <2>3, <2>4, <2>5
<1>5. CASE BrainOpen
  <2>1. /\ ~up /\ up' = TRUE /\ loaded' = file
        /\ UNCHANGED <<file, runtime, triple, clock, call, undone>>
    BY <1>5 DEF BrainOpen
  <2>2. runtime = <<>> /\ \A th \in Thread : call[th] = Idle
    BY <1>2, <2>1 DEF Alone, ListsAgree
  <2>3. Alone'
    BY <1>0, <2>1, <2>2 DEF Alone, Asserting, FreshIn
  <2>4. InOrder'
    BY <1>2, <2>1 DEF InOrder, predicate_is_single_valued
  <2>5. ListsAgree'
    <3>1. file \in Seq(Record) /\ Len(runtime) = 0 /\ DOMAIN runtime = {} /\ Len(file) \in Nat
      BY <1>2, <2>2 DEF NameInv
    <3>2. FileExtends'
      BY <2>1, <3>1 DEF FileExtends
    <3>3. CreatedNew'
      BY <2>1, <3>1 DEF CreatedNew
    <3>4. validate(file) /\ (CanonAgrees => Closed(file))
      BY <1>2 DEF ListsAgree
    <3>5. CanonAgrees' <=> CanonAgrees
      BY DEF CanonAgrees
    <3>. QED BY <2>1, <3>2, <3>3, <3>4, <3>5 DEF ListsAgree
  <2>. QED BY <2>3, <2>4, <2>5
<1>. QED BY <1>3, <1>4, <1>5

\* What one assert at a time keeps, whatever verdicts, failures, crashes and
\* restarts come between its steps.
THEOREM OneAssertAtATime == Spec => []SerialInv
<1>1. Init => SerialInv
  BY InitSerial
<1>2. ASSUME IInv, SerialInv, [Next]_vars PROVE SerialInv'
  <2>1. ASSUME NEW th \in Thread, NEW c \in Calls, StartAssert(th, c) PROVE SerialInv'
    BY <1>2, <2>1, StartSerial
  <2>2. ASSUME NEW th \in Thread, ResolveSubject(th) PROVE SerialInv'
    BY <1>2, <2>2, ResolveSubjectSerial
  <2>3. ASSUME NEW th \in Thread, ResolveObject(th) PROVE SerialInv'
    BY <1>2, <2>3, ResolveObjectSerial
  <2>4. ASSUME NEW th \in Thread, CreateSubject(th) \/ CreateObject(th) PROVE SerialInv'
    BY <1>2, <2>4, CreateSerial
  <2>5. ASSUME NEW th \in Thread, UpsertSubject(th) \/ UpsertObject(th) PROVE SerialInv'
    BY <1>2, <2>5, UpsertSerial
  <2>6. ASSUME NEW th \in Thread, WriteTriple(th) PROVE SerialInv'
    BY <1>2, <2>6, WriteSerial
  <2>7. ASSUME NEW th \in Thread, Fail(th) \/ JudgeFails(th) \/ Detect(th) PROVE SerialInv'
    BY <1>2, <2>7, EndsSerial
  <2>8. ASSUME NEW th \in Thread, Judge(th) PROVE SerialInv'
    BY <1>2, <2>8, JudgeSerial
  <2>9. ASSUME NEW slot \in Slot, NEW keep \in Objects(triple, slot), Choose(slot, keep) PROVE SerialInv'
    BY <1>2, <2>9, ChooseSerial
  <2>10. ASSUME NEW r \in DOMAIN triple, Undo(r) PROVE SerialInv'
    BY <1>2, <2>10, UndoSerial
  <2>11. ASSUME Tick \/ Crash \/ BrainOpen PROVE SerialInv'
    BY <1>2, <2>11, ProcessSerial
  <2>12. ASSUME UNCHANGED vars PROVE SerialInv'
    <3>1. UNCHANGED <<names, file, up, loaded, runtime, triple, clock, call, serial, undone>>
      BY <2>12 DEF vars, names
    <3>2. serial => Alone'
      BY <1>2, <3>1 DEF SerialInv, Alone, Asserting
    <3>3. serial => ListsAgree'
      BY <1>2, <3>1, ListsKept DEF SerialInv
    <3>4. serial => InOrder'
      BY <1>2, <3>1 DEF SerialInv, InOrder, predicate_is_single_valued
    <3>. QED BY <3>1, <3>2, <3>3, <3>4 DEF SerialInv
  <2>. QED BY <1>2, <2>1, <2>2, <2>3, <2>4, <2>5, <2>6, <2>7, <2>8, <2>9, <2>10, <2>11, <2>12 DEF Next
<1>. QED BY <1>1, <1>2, Invariance, PTL DEF Spec

\* When no two asserts overlap, find_triples_as_of answers at most one object of a
\* functional slot that no undo has touched, for every instant of the past.
THEOREM History == Spec => []HistoryIsFunctional
<1>1. ASSUME IInv, SerialInv PROVE HistoryIsFunctional
  <2>1. SUFFICES ASSUME serial, NEW s \in Slot, predicate_is_single_valued(s), undone[s] = "never",
                        NEW instant \in 1 .. clock,
                        NEW a \in find_triples_as_of(triple, s, instant),
                        NEW b \in find_triples_as_of(triple, s, instant)
                 PROVE  a = b
    BY DEF HistoryIsFunctional
  <2>2. InSequence(triple, s) /\ triple \in Seq(Row) /\ instant \in Nat
    BY <1>1, <2>1, GraphConstants DEF IInv, TableInv, NameInv, SerialInv, InOrder
  <2>. QED BY <2>2, SequenceAnswersOnce
<1>. QED BY <1>1, Invariance, OneAssertAtATime, PTL

\* When no two asserts overlap, no crash or failure leaves an ontology file that
\* the brain refuses to open.
THEOREM Reopens == Spec => []ReopensWhenSerial
<1>1. SerialInv => ReopensWhenSerial
  BY DEF SerialInv, ListsAgree, ReopensWhenSerial, OntologyReopens
<1>. QED BY <1>1, OneAssertAtATime, PTL

\* When no two asserts overlap, a restart changes what no name means, for a
\* canonicalizing function that agrees with the ontology.
THEOREM Resolution == Spec => []ResolutionSurvivesRestart
<1>1. ASSUME IInv, SerialInv PROVE ResolutionSurvivesRestart
  BY <1>1, NamesSurvive DEF IInv, SerialInv, ResolutionSurvivesRestart
<1>. QED BY <1>1, Invariance, OneAssertAtATime, PTL
=============================================================================
