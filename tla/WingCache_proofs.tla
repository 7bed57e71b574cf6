--------------------------- MODULE WingCache_proofs ---------------------------
(* The cache invariants of WingCache hold whatever the threads, memories,    *)
(* wings, capacity and number of changes.                                    *)
EXTENDS WingCache, FiniteSetTheorems, TLAPS

\* What a step that gives the rows of new to its keys may do to keep the cache
\* explained: wings holds every wing whose rows it changes.
Covers(new, wings) ==
  \A k \in DOMAIN new : new[k] # row[k] =>
    /\ row[k] # NoRow => row[k].wing \in wings
    /\ new[k] # NoRow => new[k].wing \in wings

\* The values a call goes through are calls.
LEMMA CallUpdates ==
  /\ Idle \in Call
  /\ \A wings \in SUBSET Wing :
       /\ [Idle EXCEPT !.pc = "miss", !.wings = wings] \in Call
       /\ [Idle EXCEPT !.pc = "invalidate", !.wings = wings] \in Call
  /\ \A c \in Call, hits \in SUBSET Hit : [c EXCEPT !.pc = "fill", !.hits = hits] \in Call
BY DEF Idle, Call

\* Initially nothing is cached, nor is any row.
LEMMA CacheInit == Init => CacheInv /\ StaleOnlyByRace
<1> SUFFICES ASSUME Init PROVE CacheInv /\ StaleOnlyByRace
  OBVIOUS
<1>1. Cached = {} /\ Cardinality(Cached) = 0 /\ IsFiniteSet(Cached)
  BY FS_EmptySet DEF Init, Cached
<1>2. TypeOK
  <2>1. Cached \subseteq Wing /\ cache \in [Cached -> SUBSET Hit]
    BY <1>1 DEF Init
  <2>2. row \in [Key -> Row]
    BY DEF Init, Row
  <2>3. call \in [Thread -> Call] /\ pooled \in BOOLEAN
    BY CallUpdates DEF Init
  <2>4. rev \in 0 .. MaxRev /\ lock \in Thread \union {Nobody} /\ tainted \subseteq Wing
    BY ConstantsOK DEF Init
  <2> QED
    BY <2>1, <2>2, <2>3, <2>4 DEF TypeOK
<1> QED
  BY <1>1, <1>2, ConstantsOK DEF CacheInv, StaleOnlyByRace, Init

\* A step that leaves the rows of a wing alone leaves its SELECT alone.
LEMMA CurrentKept ==
  ASSUME row \in [Key -> Row], row' \in [Key -> Row], NEW w \in Wing,
         \A k \in Key : row'[k] # row[k] =>
            /\ row[k] # NoRow => row[k].wing # w
            /\ row'[k] # NoRow => row'[k].wing # w
  PROVE  Current(w)' = Current(w)
<1> DEFINE In(r) == {k \in Key : r[k] # NoRow /\ r[k].wing = w}
<1>1. In(row') = In(row)
  OBVIOUS
<1>2. \A k \in In(row) : row'[k].rev = row[k].rev
  OBVIOUS
<1>3. Current(w) = {[key |-> k, rev |-> row[k].rev] : k \in In(row)}
  BY DEF Current, Present
<1>4. Current(w)' = {[key |-> k, rev |-> row'[k].rev] : k \in In(row')}
  BY DEF Current, Present
<1> HIDE DEF In
<1> QED
  BY <1>1, <1>2, <1>3, <1>4

\* A writer's transaction keeps the cache explained when it is about to
\* invalidate every wing it touches.
LEMMA CommitStep ==
  ASSUME CacheInv, StaleOnlyByRace, NEW th \in Thread, rev < MaxRev,
         NEW S \in SUBSET Key, NEW new \in [S -> Row],
         NEW wings \in SUBSET Wing, NEW held \in BOOLEAN,
         Commit(th, new, wings, held), Covers(new, wings)
  PROVE  CacheInv' /\ StaleOnlyByRace'
<1> USE DEF CacheInv
<1>1. row' \in [Key -> Row]
  BY DEF Commit, TypeOK
<1>2. rev' \in 0 .. MaxRev
  BY ConstantsOK DEF Commit, TypeOK
<1>3. /\ call' \in [Thread -> Call]
      /\ call'[th].pc = "invalidate" /\ call'[th].wings = wings
      /\ \A x \in Thread \ {th} : call'[x] = call[x]
  <2>1. [Idle EXCEPT !.pc = "invalidate", !.wings = wings] \in Call
    BY CallUpdates
  <2> QED
    BY <2>1 DEF Commit, TypeOK, Idle, Call
<1>4. lock' \in Thread \union {Nobody} /\ (lock' # Nobody => lock' = th)
  BY DEF Commit
<1>5. Cached' = Cached /\ cache' = cache /\ tainted' = tainted
  BY DEF Commit, Cached
<1>6. CacheInv'
  <2>1. TypeOK'
    BY <1>1, <1>2, <1>3, <1>4, <1>5 DEF Commit, TypeOK
  <2> QED
    BY <2>1, <1>3, <1>4, <1>5
<1>7. ASSUME NEW w \in Cached
      PROVE  \/ cache'[w] = Current(w)'
             \/ w \in tainted'
             \/ \E x \in Thread : call'[x].pc = "invalidate" /\ w \in call'[x].wings
  <2>1. CASE w \in wings
    BY <2>1, <1>3
  <2>2. CASE w \notin wings
    <3>1. w \in Wing
      BY DEF TypeOK
    <3>2. \A k \in Key : row'[k] # row[k] =>
            /\ row[k] # NoRow => row[k].wing # w
            /\ row'[k] # NoRow => row'[k].wing # w
      BY <2>2 DEF Commit, Covers, TypeOK
    <3>3. Current(w)' = Current(w)
      BY <3>1, <3>2, <1>1, CurrentKept DEF TypeOK
    <3>4. \A x \in Thread : call[x].pc = "invalidate" => x # th
      BY DEF Commit
    <3> QED
      BY <3>3, <3>4, <1>3, <1>5 DEF StaleOnlyByRace
  <2> QED
    BY <2>1, <2>2
<1> QED
  BY <1>5, <1>6, <1>7 DEF StaleOnlyByRace

\* A change that never invalidates marks the cached wings it touches.
LEMMA SilentStep ==
  ASSUME CacheInv, StaleOnlyByRace, rev < MaxRev,
         NEW keys \in SUBSET Key, Touch(keys)
  PROVE  CacheInv' /\ StaleOnlyByRace'
<1> USE DEF CacheInv
<1>1. row' \in [Key -> Row]
  BY ConstantsOK DEF Touch, Changed, TypeOK, Row, NoRow, Present
<1>2. rev' \in 0 .. MaxRev
  BY ConstantsOK DEF Touch, TypeOK
<1>3. Cached' = Cached /\ cache' = cache
  BY DEF Touch, Cached
<1>4. CacheInv'
  BY <1>1, <1>2, <1>3 DEF Touch, TypeOK
<1>5. ASSUME NEW w \in Cached
      PROVE  \/ cache'[w] = Current(w)'
             \/ w \in tainted'
             \/ \E x \in Thread : call'[x].pc = "invalidate" /\ w \in call'[x].wings
  <2>1. CASE w \in WingsOf(keys)
    BY <2>1 DEF Touch
  <2>2. CASE w \notin WingsOf(keys)
    <3>1. w \in Wing
      BY DEF TypeOK
    <3>2. \A k \in keys : row[k] # NoRow /\ row[k].wing # w
      BY <2>2 DEF WingsOf, Touch, Present
    <3>3. \A k \in keys : row'[k].wing = row[k].wing
      BY <3>2 DEF Touch, Changed, TypeOK, Row, NoRow
    <3>4. \A k \in Key : row'[k] # row[k] => k \in keys
      BY DEF Touch, TypeOK
    <3>5. Current(w)' = Current(w)
      BY <3>1, <3>2, <3>3, <3>4, <1>1, CurrentKept DEF TypeOK
    <3> QED
      BY <3>5, <1>3 DEF StaleOnlyByRace, Touch
  <2> QED
    BY <2>1, <2>2
<1> QED
  BY <1>3, <1>4, <1>5 DEF StaleOnlyByRace

\* A lookup that misses changes only the thread's own call.
LEMMA SearchStep ==
  ASSUME CacheInv, StaleOnlyByRace, NEW th \in Thread, NEW w \in Wing, Search(th, w)
  PROVE  CacheInv' /\ StaleOnlyByRace'
<1> USE DEF CacheInv
<1>1. Cached' = Cached /\ \A v \in Wing : Current(v)' = Current(v)
  BY DEF Search, Cached, Current, Present
<1>2. call' \in [Thread -> Call] /\ \A x \in Thread : call[x].pc # "idle" => call'[x] = call[x]
  <2>1. [Idle EXCEPT !.pc = "miss", !.wings = {w}] \in Call
    BY CallUpdates
  <2> QED
    BY <2>1 DEF Search, TypeOK
<1>3. lock # Nobody => lock \in Thread
  BY DEF TypeOK
<1>4. CacheInv'
  BY <1>1, <1>2, <1>3 DEF Search, TypeOK
<1> QED
  BY <1>1, <1>2, <1>4 DEF StaleOnlyByRace, Search, TypeOK

\* Nor does the read.
LEMMA ReadStep ==
  ASSUME CacheInv, StaleOnlyByRace, NEW th \in Thread, Read(th)
  PROVE  CacheInv' /\ StaleOnlyByRace'
<1> USE DEF CacheInv
<1>1. Cached' = Cached /\ \A v \in Wing : Current(v)' = Current(v)
  BY DEF Read, Cached, Current, Present
<1>2. PICK w \in call[th].wings :
        call' = [call EXCEPT ![th] = [call[th] EXCEPT !.pc = "fill", !.hits = Current(w)]]
  BY DEF Read, TypeOK
<1>3. Current(w) \in SUBSET Hit
  BY DEF Current, Hit, TypeOK, Row, Present
<1>4. call' \in [Thread -> Call] /\ \A x \in Thread : call[x].pc # "miss" => call'[x] = call[x]
  <2>1. [call[th] EXCEPT !.pc = "fill", !.hits = Current(w)] \in Call
    BY <1>3, CallUpdates DEF TypeOK
  <2> QED
    BY <2>1, <1>2 DEF Read, TypeOK
<1>5. lock # Nobody => lock \in Thread
  BY DEF TypeOK
<1>6. CacheInv'
  BY <1>1, <1>4, <1>5 DEF Read, TypeOK
<1> QED
  BY <1>1, <1>4, <1>6 DEF StaleOnlyByRace, Read, TypeOK

\* A put leaves at most Capacity wings cached, and marks its wing when what it
\* puts is outdated.
LEMMA FillStep ==
  ASSUME CacheInv, StaleOnlyByRace, NEW th \in Thread, Fill(th)
  PROVE  CacheInv' /\ StaleOnlyByRace'
<1> USE DEF CacheInv
<1>1. PICK w \in call[th].wings, evicted \in SUBSET Cached :
        /\ Cardinality(evicted) = IF Evicts(w) THEN 1 ELSE 0
        /\ cache' = [x \in (Cached \ evicted) \union {w} |->
                       IF x = w THEN call[th].hits ELSE cache[x]]
        /\ tainted' = (tainted \ (evicted \union {w}))
                        \union (IF call[th].hits = Current(w) THEN {} ELSE {w})
  BY DEF Fill
<1>2. w \in Wing /\ call[th].hits \in SUBSET Hit
  BY DEF TypeOK, Call
<1>3. Cached' = (Cached \ evicted) \union {w}
  BY <1>1 DEF Cached
<1>4. \A v \in Wing : Current(v)' = Current(v)
  BY DEF Fill, Current, Present
<1>5. call' \in [Thread -> Call] /\ \A x \in Thread : call[x].pc # "fill" => call'[x] = call[x]
  BY CallUpdates DEF Fill, TypeOK
<1>6. IsFiniteSet(Cached') /\ Cardinality(Cached') <= Capacity
  <2>1. IsFiniteSet(evicted) /\ IsFiniteSet(Cached \ evicted)
    BY FS_Subset
  <2>2. CASE Evicts(w)
    <3>1. PICK e : evicted = {e}
      BY <1>1, <2>1, <2>2, FS_Singleton
    <3>2. Cardinality(Cached \ evicted) = Cardinality(Cached) - 1
      BY <3>1, FS_RemoveElement
    <3>3. w \notin Cached \ evicted
      BY <2>2 DEF Evicts
    <3>4. Cardinality(Cached') = Cardinality(Cached \ evicted) + 1
      BY <1>3, <2>1, <3>3, FS_AddElement
    <3>5. IsFiniteSet(Cached')
      BY <1>3, <2>1, FS_AddElement
    <3>6. Cardinality(Cached) \in Nat
      BY FS_CardinalityType
    <3> QED
      BY <3>2, <3>4, <3>5, <3>6, ConstantsOK
  <2>3. CASE ~Evicts(w)
    <3>1. evicted = {}
      BY <1>1, <2>1, <2>3, FS_EmptySet
    <3>2. Cached' = Cached \union {w}
      BY <1>3, <3>1
    <3>3. /\ IsFiniteSet(Cached')
          /\ Cardinality(Cached') = IF w \in Cached THEN Cardinality(Cached)
                                    ELSE Cardinality(Cached) + 1
      BY <3>2, FS_AddElement
    <3>4. w \in Cached \/ Cardinality(Cached) < Capacity
      BY <2>3, FS_CardinalityType, ConstantsOK DEF Evicts
    <3> QED
      BY <3>3, <3>4, FS_CardinalityType, ConstantsOK
  <2> QED
    BY <2>2, <2>3
<1>7. CacheInv'
  <2>1. Cached' \subseteq Wing /\ cache' \in [Cached' -> SUBSET Hit]
    BY <1>1, <1>2, <1>3 DEF TypeOK
  <2>2. tainted' \subseteq Wing
    BY <1>1, <1>2 DEF TypeOK
  <2>3. lock # Nobody => lock \in Thread
    BY DEF TypeOK
  <2> QED
    BY <2>1, <2>2, <2>3, <1>5, <1>6 DEF Fill, TypeOK
<1>8. ASSUME NEW v \in Cached'
      PROVE  \/ cache'[v] = Current(v)'
             \/ v \in tainted'
             \/ \E x \in Thread : call'[x].pc = "invalidate" /\ v \in call'[x].wings
  <2>1. CASE v = w
    BY <2>1, <1>1, <1>2, <1>4
  <2>2. CASE v # w
    <3>1. v \in Cached /\ v \notin evicted /\ cache'[v] = cache[v] /\ v \in Wing
      BY <2>2, <1>1, <1>3 DEF TypeOK
    <3>2. v \in tainted => v \in tainted'
      BY <2>2, <3>1, <1>1
    <3>3. Current(v)' = Current(v)
      BY <3>1, <1>4
    <3> QED
      BY <3>1, <3>2, <3>3, <1>5 DEF StaleOnlyByRace
  <2> QED
    BY <2>1, <2>2
<1> QED
  BY <1>7, <1>8 DEF StaleOnlyByRace

\* An invalidation only takes wings out of the cache.
LEMMA InvalidateStep ==
  ASSUME CacheInv, StaleOnlyByRace, NEW th \in Thread, Invalidate(th)
  PROVE  CacheInv' /\ StaleOnlyByRace'
<1> USE DEF CacheInv
<1>1. Cached' = Cached \ call[th].wings
  BY DEF Invalidate, Cached
<1>2. \A v \in Wing : Current(v)' = Current(v)
  BY DEF Invalidate, Current, Present
<1>3. call' \in [Thread -> Call] /\ \A x \in Thread \ {th} : call'[x] = call[x]
  BY CallUpdates DEF Invalidate, TypeOK
<1>4. IsFiniteSet(Cached') /\ Cardinality(Cached') <= Capacity
  BY <1>1, FS_Subset, FS_CardinalityType, ConstantsOK
<1>5. Cached' \subseteq Wing /\ cache' \in [Cached' -> SUBSET Hit]
  BY <1>1 DEF Invalidate, TypeOK
<1>6. CacheInv'
  BY <1>3, <1>4, <1>5 DEF Invalidate, TypeOK
<1>7. \A v \in Cached' : v \in Cached /\ v \in Wing /\ v \notin call[th].wings /\ cache'[v] = cache[v]
  BY <1>1 DEF Invalidate, TypeOK
<1>8. \A v \in Cached' : v \in tainted => v \in tainted'
  BY <1>7 DEF Invalidate
<1> QED
  BY <1>2, <1>3, <1>6, <1>7, <1>8 DEF StaleOnlyByRace

\* Facts about the rows a writer gives: a row changed or written is a row of its
\* wing, and the wings of a set of memories are wings.
LEMMA RowFacts ==
  ASSUME TypeOK, rev < MaxRev
  PROVE  /\ NoRow \in Row
         /\ \A k \in Present : /\ row[k].wing \in Wing
                               /\ Changed(k) \in Row /\ Changed(k) # NoRow
                               /\ Changed(k).wing = row[k].wing
         /\ \A w \in Wing : [wing |-> w, rev |-> rev + 1] \in Row
         /\ \A k \in Present, w \in Wing : [row[k] EXCEPT !.wing = w] = [wing |-> w, rev |-> row[k].rev]
         /\ \A k \in Present, w \in Wing : [wing |-> w, rev |-> row[k].rev] \in Row
         /\ \A keys \in SUBSET Key : WingsOf(keys) \in SUBSET Wing
<1>1. \A k \in Present : row[k] \in [wing : Wing, rev : 0 .. MaxRev]
  BY DEF TypeOK, Row, Present
<1>2. rev + 1 \in 0 .. MaxRev
  BY ConstantsOK DEF TypeOK
<1>3. \A k \in Present : Changed(k) = [wing |-> row[k].wing, rev |-> rev + 1]
  BY <1>1 DEF Changed
<1>4. \A w \in Wing : w # NoWing
  BY ConstantsOK
<1>5. \A k \in Present : Changed(k) # NoRow
  BY <1>1, <1>3, <1>4 DEF NoRow
<1>6. \A keys \in SUBSET Key : WingsOf(keys) \in SUBSET Wing
  BY <1>1 DEF WingsOf
<1> QED
  BY <1>1, <1>2, <1>3, <1>5, <1>6 DEF Row

\* Every method that invalidates covers what it changes.
LEMMA WriterCovers ==
  ASSUME CacheInv, rev < MaxRev, NEW th \in Thread, WriterStep(th)
  PROVE  \/ \E S \in SUBSET Key : \E new \in [S -> Row] :
              \E wings \in SUBSET Wing, held \in BOOLEAN :
                Commit(th, new, wings, held) /\ Covers(new, wings)
         \/ \E keys \in SUBSET Key : ChangeSilently(th, keys)
<1> DEFINE Commits == \E S \in SUBSET Key : \E new \in [S -> Row] :
                        \E wings \in SUBSET Wing, held \in BOOLEAN :
                          Commit(th, new, wings, held) /\ Covers(new, wings)
           Silent == \E keys \in SUBSET Key : ChangeSilently(th, keys)
<1>0. TypeOK /\ row \in [Key -> Row] /\ Present \subseteq Key
  BY DEF CacheInv, TypeOK, Present
<1>1. ASSUME NEW S \in SUBSET Key, NEW new \in [S -> Row],
             NEW wings \in SUBSET Wing, NEW held \in BOOLEAN,
             Commit(th, new, wings, held), Covers(new, wings)
      PROVE  Commits
  BY <1>1
<1> HIDE DEF Commits
<1>2. ASSUME NEW S \in SUBSET Key, NEW new \in [S -> Row], NEW held \in BOOLEAN,
             Commit(th, new, Wing, held)
      PROVE  Commits
  <2>1. Covers(new, Wing)
    BY <1>0, ConstantsOK DEF Covers, Row, NoRow
  <2> QED
    BY <1>1, <1>2, <2>1
<1>3. ASSUME NEW k \in Key, SetField(th, k) PROVE Commits
  <2> DEFINE new == [x \in {k} \intersect Present |-> Changed(x)]
  <2>1. new \in [{k} \intersect Present -> Row]
    BY <1>0, RowFacts
  <2> QED
    BY <1>2, <1>3, <2>1 DEF SetField
<1>4. ASSUME NEW keys \in SUBSET Key, NEW into \in [keys -> Wing], NEW differs \in SUBSET keys,
             Write(th, into, differs)
      PROVE  Commits
  <2> DEFINE new == [k \in differs |-> Written(k, into[k])]
             wings == {into[k] : k \in differs} \union WingsOf(differs)
  <2>1. \A k \in differs : Written(k, into[k]) \in Row
    BY <1>0, RowFacts DEF Written
  <2>2. new \in [differs -> Row] /\ wings \in SUBSET Wing
    BY <1>0, <2>1, RowFacts
  <2>3. \A k \in differs : /\ row[k] # NoRow => row[k].wing \in wings
                           /\ Written(k, into[k]).wing \in wings
    BY <1>0, RowFacts DEF Written, WingsOf, Present
  <2> HIDE DEF wings
  <2>4. Covers(new, wings)
    <3>1. DOMAIN new = differs /\ \A k \in differs : new[k] = Written(k, into[k])
      OBVIOUS
    <3> HIDE DEF new
    <3>2. \A k \in differs : new[k].wing \in wings
      BY <2>3, <3>1
    <3> QED
      BY <2>3, <3>1, <3>2 DEF Covers
  <2> HIDE DEF new
  <2>5. Commit(th, new, wings, TRUE)
    BY <1>4 DEF Write, new, wings
  <2> QED
    BY <1>1, <2>2, <2>4, <2>5
<1>5. ASSUME NEW keys \in SUBSET Key, NEW into \in [keys -> Wing], NEW gone \in SUBSET Key,
             import_pack(th, into, gone)
      PROVE  Commits
  <2> DEFINE S == (keys \ Present) \union gone
             new == [k \in S |-> IF k \in gone THEN NoRow ELSE [wing |-> into[k], rev |-> rev + 1]]
  <2>1. new \in [S -> Row]
    BY <1>0, RowFacts
  <2>2. Commit(th, new, Wing, FALSE)
    BY <1>5 DEF import_pack
  <2> QED
    BY <1>2, <2>1, <2>2
<1>6. ASSUME NEW k \in Key, NEW w \in Wing, set_wing(th, k, w) PROVE Commits
  <2> DEFINE new == [x \in {k} \intersect Present |-> [row[x] EXCEPT !.wing = w]]
  <2>1. \A x \in {k} \intersect Present : [row[x] EXCEPT !.wing = w] \in Row
    <3>1. \A x \in Present : [wing |-> w, rev |-> row[x].rev] \in Row
      BY <1>0, RowFacts
    <3>2. \A x \in Present : [row[x] EXCEPT !.wing = w] = [wing |-> w, rev |-> row[x].rev]
      BY <1>0, RowFacts
    <3> QED
      BY <3>1, <3>2
  <2>2. new \in [{k} \intersect Present -> Row]
    BY <2>1
  <2>3. Commit(th, new, Wing, TRUE)
    BY <1>6 DEF set_wing
  <2> HIDE DEF new
  <2> QED
    BY <1>2, <2>2, <2>3
<1>7. ASSUME NEW keys \in SUBSET Key, reinforce_batch(th, keys) PROVE Commits
  <2> DEFINE new == [k \in keys \intersect Present |-> Changed(k)]
  <2>1. new \in [keys \intersect Present -> Row] /\ WingsOf(keys) \in SUBSET Wing
    BY <1>0, RowFacts
  <2>2. Covers(new, WingsOf(keys))
    BY <1>0, RowFacts DEF Covers, WingsOf
  <2> QED
    BY <1>1, <1>7, <2>1, <2>2 DEF reinforce_batch
<1>8. ASSUME NEW w \in Wing, NEW old \in SUBSET Key,
             \/ delete_wing_memories_before(th, w, old)
             \/ prune_wing_keeping_recent_per_source(th, w, old)
      PROVE  Commits
  <2> DEFINE new == [k \in old |-> NoRow]
  <2>1. new \in [old -> Row]
    BY <1>0, RowFacts
  <2>2. \A k \in old : row[k].wing = w
    BY <1>8 DEF delete_wing_memories_before, prune_wing_keeping_recent_per_source
  <2>3. Covers(new, {w}) /\ (old = {} => Covers(new, {}))
    BY <2>2 DEF Covers
  <2>4. \/ Commit(th, new, {w}, FALSE)
        \/ old = {} /\ Commit(th, new, {}, FALSE)
    BY <1>8 DEF delete_wing_memories_before, prune_wing_keeping_recent_per_source
  <2> HIDE DEF new
  <2> QED
    BY <1>1, <2>1, <2>3, <2>4
<1>9. ASSUME NEW k \in Key, delete_memory_by_key(th, k) \/ tombstone(th, k) PROVE Commits
  <2> DEFINE new == [x \in {k} |-> NoRow]
  <2>1. new \in [{k} -> Row] /\ {k} \in SUBSET Key
    BY <1>0, RowFacts
  <2> QED
    BY <1>2, <1>9, <2>1 DEF delete_memory_by_key, tombstone
<1>10. ASSUME NEW k \in Key,
              \/ consolidate_into(th, k) \/ set_signature(th, k) \/ set_declarative_density(th, k)
              \/ set_compaction_tier(th, k) \/ set_description(th, k)
              \/ invalidate_at(th, k) \/ set_valid_from(th, k)
       PROVE  Commits
  BY <1>3, <1>10 DEF consolidate_into, set_signature, set_declarative_density,
                     set_compaction_tier, set_description, invalidate_at, set_valid_from
<1>11. ASSUME NEW keys \in SUBSET Key,
              commit_turn_outcomes(th, keys) \/ reinforce_batch_fails(th, keys)
       PROVE  Silent
  BY <1>11 DEF commit_turn_outcomes, reinforce_batch_fails
<1>12. ASSUME NEW k \in Key, set_hall(th, k) PROVE Silent
  BY <1>12 DEF set_hall
<1> HIDE DEF Silent
<1>13. \A keys \in SUBSET Key, w \in [Key -> Wing] : [k \in keys |-> w[k]] \in [keys -> Wing]
  OBVIOUS
<1>14. Commits \/ Silent
  BY <1>4, <1>5, <1>6, <1>7, <1>8, <1>9, <1>10, <1>11, <1>12, <1>13 DEF WriterStep
<1> QED
  BY <1>14 DEF Commits, Silent

\* Both properties are inductive together.
LEMMA CacheStep == CacheInv /\ StaleOnlyByRace /\ [Next]_vars => CacheInv' /\ StaleOnlyByRace'
<1> SUFFICES ASSUME CacheInv, StaleOnlyByRace, [Next]_vars
             PROVE  CacheInv' /\ StaleOnlyByRace'
  OBVIOUS
<1>1. ASSUME NEW th \in Thread, rev < MaxRev, WriterStep(th)
      PROVE  CacheInv' /\ StaleOnlyByRace'
  <2>1. ASSUME NEW keys \in SUBSET Key, ChangeSilently(th, keys) PROVE Touch(keys)
    BY <2>1 DEF ChangeSilently
  <2> QED
    BY <1>1, <2>1, WriterCovers, CommitStep, SilentStep
<1>2. CASE UNCHANGED vars
  <2>1. Cached' = Cached /\ \A w \in Wing : Current(w)' = Current(w)
    BY <1>2 DEF vars, Cached, Current, Present
  <2> QED
    BY <1>2, <2>1 DEF vars, CacheInv, TypeOK, StaleOnlyByRace
<1>3. ASSUME NEW keys \in SUBSET Key, rev < MaxRev, apply_decay(keys)
      PROVE  CacheInv' /\ StaleOnlyByRace'
  BY <1>3, SilentStep DEF apply_decay
<1> QED
  BY <1>1, <1>2, <1>3, SearchStep, ReadStep, FillStep, InvalidateStep DEF Next

\* The cache never outgrows its capacity, whatever the threads and wings, and a
\* writer keeps the connection from its commit to its invalidation or releases it
\* before (wing_cache and conn of SqliteStore).
THEOREM CacheBounded == Spec => []CacheInv
<1> QED
  BY CacheInit, CacheStep, PTL DEF Spec

\* A cached wing is outdated only while its writer is about to drop it, after a
\* put of what another commit had outdated, or after a change that never
\* invalidates (wing_search and the writers of SqliteStore, and the archivist).
THEOREM Freshness == Spec => []StaleOnlyByRace
<1> QED
  BY CacheInit, CacheStep, PTL DEF Spec
===============================================================================
