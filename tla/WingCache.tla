----------------------------- MODULE WingCache -----------------------------
(***************************************************************************)
(* The wing read-cache of crates/spectral-ingest/src/sqlite_store.rs: an   *)
(* LRU map from a wing to the rows of that wing, filled by wing_search and *)
(* invalidated by every store method that changes rows.                    *)
(*                                                                         *)
(* A writer commits under the connection lock and drops the cached wings   *)
(* afterwards, before or after it releases that lock.  A search looks the  *)
(* wing up, reads it on a reader connection and puts what it read: three   *)
(* steps under three locks.  A restart only empties the cache.             *)
(***************************************************************************)
EXTENDS Naturals, FiniteSets

CONSTANTS
  Thread, Key, Wing,
  Capacity,    \* WING_CACHE_CAPACITY
  MaxRev       \* bound: transactions that change rows

NoWing == "no wing"
Nobody == "nobody"

ASSUME ConstantsOK ==
  /\ NoWing \notin Wing /\ Nobody \notin Thread
  /\ Capacity \in Nat \ {0} /\ MaxRev \in Nat

VARIABLES
  pooled,   \* whether reads have connections of their own
  row,      \* row[k]: the wing of the memory k and the last change of its fields
  rev,      \* changes committed so far
  lock,     \* the thread that holds the write connection
  cache,    \* the cached wings, each with the rows that were put for it
  call,     \* the store method each thread is in
  tainted   \* history: cached wings that were outdated when they were put, or
            \* whose rows a method changed that never invalidates

vars == <<pooled, row, rev, lock, cache, call, tainted>>

NoRow == [wing |-> NoWing, rev |-> 0]
Row == [wing : Wing, rev : 0 .. MaxRev] \union {NoRow}
Present == {k \in Key : row[k] # NoRow}

\* What a SELECT of wing w returns.
Current(w) == {[key |-> k, rev |-> row[k].rev] : k \in {x \in Present : row[x].wing = w}}
Hit == [key : Key, rev : 0 .. MaxRev]

\* wings: what a search is about, or what a writer has still to invalidate.
Call == [pc : {"idle", "miss", "fill", "invalidate"}, wings : SUBSET Wing, hits : SUBSET Hit]
Idle == [pc |-> "idle", wings |-> {}, hits |-> {}]

Cached == DOMAIN cache

TypeOK ==
  /\ pooled \in BOOLEAN
  /\ row \in [Key -> Row] /\ rev \in 0 .. MaxRev
  /\ lock \in Thread \union {Nobody}
  /\ Cached \subseteq Wing /\ cache \in [Cached -> SUBSET Hit]
  /\ call \in [Thread -> Call]
  /\ tainted \subseteq Wing

Init ==
  /\ pooled \in BOOLEAN
  /\ row = [k \in Key |-> NoRow] /\ rev = 0
  /\ lock = Nobody
  /\ cache = [w \in {} |-> {}]
  /\ call = [th \in Thread |-> Idle]
  /\ tainted = {}

-----------------------------------------------------------------------------
(* wing_search. *)

\* A hit is served from the cache and changes nothing but the LRU order.
Search(th, w) ==
  /\ call[th].pc = "idle" /\ w \notin Cached
  /\ call' = [call EXCEPT ![th] = [Idle EXCEPT !.pc = "miss", !.wings = {w}]]
  /\ UNCHANGED <<pooled, row, rev, lock, cache, tainted>>

\* The last committed rows; without a reader pool the read waits for the lock.
Read(th) ==
  /\ call[th].pc = "miss"
  /\ pooled \/ lock = Nobody
  /\ \E w \in call[th].wings :
       call' = [call EXCEPT ![th].pc = "fill", ![th].hits = Current(w)]
  /\ UNCHANGED <<pooled, row, rev, lock, cache, tainted>>

\* Putting another wing into a full cache evicts one: any, as hits reorder them.
Evicts_late(w) == w \notin Cached /\ Cardinality(Cached) > Capacity
Evicts(w) == w \notin Cached /\ Cardinality(Cached) >= Capacity

Fill(th) ==
  /\ call[th].pc = "fill"
  /\ \E w \in call[th].wings, evicted \in SUBSET Cached :
       /\ Cardinality(evicted) = IF Evicts(w) THEN 1 ELSE 0
       /\ cache' = [x \in (Cached \ evicted) \union {w} |->
                      IF x = w THEN call[th].hits ELSE cache[x]]
       /\ tainted' = (tainted \ (evicted \union {w}))
                       \union (IF call[th].hits = Current(w) THEN {} ELSE {w})
  /\ call' = [call EXCEPT ![th] = Idle]
  /\ UNCHANGED <<pooled, row, rev, lock>>

-----------------------------------------------------------------------------
(* Writers. *)

\* One transaction that gives the rows of new to its keys; then wings are to be
\* invalidated, with the connection still held or already released.
Commit(th, new, wings, held) ==
  /\ call[th].pc = "idle" /\ lock = Nobody
  /\ row' = [k \in Key |-> IF k \in DOMAIN new THEN new[k] ELSE row[k]]
  /\ rev' = IF row' = row THEN rev ELSE rev + 1
  /\ lock' = IF held THEN th ELSE Nobody
  /\ call' = [call EXCEPT ![th] = [Idle EXCEPT !.pc = "invalidate", !.wings = wings]]
  /\ UNCHANGED <<pooled, cache, tainted>>

Changed(k) == [row[k] EXCEPT !.rev = rev + 1]
WingsOf(keys) == {row[k].wing : k \in keys \intersect Present}

\* wing_cache_pop of each wing or wing_cache_clear, and the end of the method.
Invalidate(th) ==
  /\ call[th].pc = "invalidate"
  /\ cache' = [w \in Cached \ call[th].wings |-> cache[w]]
  /\ tainted' = tainted \ call[th].wings
  /\ lock' = IF lock = th THEN Nobody ELSE lock
  /\ call' = [call EXCEPT ![th] = Idle]
  /\ UNCHANGED <<pooled, row, rev>>

\* A row is inserted with the wing it is classified into and keeps it when its
\* content is written again.
Written(k, w) == IF k \in Present THEN Changed(k) ELSE [wing |-> w, rev |-> rev + 1]

\* write and write_batch: into[k] is the wing the incoming content of k is
\* classified into, differs the keys whose content is new.
Write_incoming_only(th, into, differs) ==
  /\ DOMAIN into \ Present \subseteq differs /\ differs \subseteq DOMAIN into
  /\ Commit(th, [k \in differs |-> Written(k, into[k])], {into[k] : k \in differs}, TRUE)
Write(th, into, differs) ==
  /\ DOMAIN into \ Present \subseteq differs /\ differs \subseteq DOMAIN into
  /\ Commit(th, [k \in differs |-> Written(k, into[k])],
            {into[k] : k \in differs} \union WingsOf(differs), TRUE)

set_wing(th, k, w) ==
  Commit(th, [x \in {k} \intersect Present |-> [row[x] EXCEPT !.wing = w]], Wing, TRUE)

\* reinforce_memory and reinforce_batch.
reinforce_batch(th, keys) ==
  Commit(th, [k \in keys \intersect Present |-> Changed(k)], WingsOf(keys), TRUE)

\* delete_memory_by_key, which returns early when there is no such row.
delete_memory_by_key(th, k) ==
  k \in Present /\ Commit(th, [x \in {k} |-> NoRow], Wing, FALSE)

\* Of the rows of a wing, those before a date go.
delete_wing_memories_before(th, w, old) ==
  /\ \A k \in old : k \in Present /\ row[k].wing = w
  /\ Commit(th, [k \in old |-> NoRow], {w}, FALSE)

\* Of the rows of a wing, those beyond the most recent of each source go.
prune_wing_keeping_recent_per_source(th, w, old) ==
  /\ \A k \in old : k \in Present /\ row[k].wing = w
  /\ Commit(th, [k \in old |-> NoRow], IF old = {} THEN {} ELSE {w}, FALSE)

\* One served field of one row; the whole cache goes, for some methods only when
\* there was such a row.
SetField(th, k) ==
  Commit(th, [x \in {k} \intersect Present |-> Changed(x)], Wing, FALSE)
set_declarative_density(th, k) == SetField(th, k)
set_compaction_tier(th, k) == SetField(th, k)
invalidate_at(th, k) == SetField(th, k)
set_valid_from(th, k) == SetField(th, k)
set_signature(th, k) == k \in Present /\ SetField(th, k)
set_description(th, k) == k \in Present /\ SetField(th, k)

\* The target takes the score of its sources.
consolidate_into(th, k) == k \in Present /\ SetField(th, k)

\* Federation writes rows of its own: a pack adds the objects that are new here
\* and deletes those it retracts, in one transaction; a retraction deletes one.
import_pack(th, into, gone) ==
  Commit(th, [k \in (DOMAIN into \ Present) \union gone |->
                IF k \in gone THEN NoRow ELSE [wing |-> into[k], rev |-> rev + 1]],
         Wing, FALSE)
tombstone(th, k) == Commit(th, [x \in {k} |-> NoRow], Wing, FALSE)

-----------------------------------------------------------------------------
(* Changes that leave the cache alone. *)

Touch(keys) ==
  /\ keys \subseteq Present /\ keys # {}
  /\ row' = [k \in Key |-> IF k \in keys THEN Changed(k) ELSE row[k]]
  /\ rev' = rev + 1
  /\ tainted' = tainted \union (WingsOf(keys) \intersect Cached)
  /\ UNCHANGED <<pooled, lock, cache, call>>
ChangeSilently(th, keys) == call[th].pc = "idle" /\ lock = Nobody /\ Touch(keys)

\* The scores of the members a turn used.
commit_turn_outcomes(th, keys) == ChangeSilently(th, keys)
set_hall(th, k) == ChangeSilently(th, {k})

\* reinforce_batch updates its keys in chunks, each a transaction of its own, and
\* returns at the first error: the chunks before it stay, nothing is invalidated.
reinforce_batch_fails(th, done) == ChangeSilently(th, done)

\* The archivist lowers and raises scores from a process of its own, which knows
\* neither this process's connection nor its cache.
apply_decay(keys) == Touch(keys)

-----------------------------------------------------------------------------
WriterStep(th) ==
  \/ \E keys \in SUBSET Key, w \in [Key -> Wing] :
       LET into == [k \in keys |-> w[k]]
       IN  \/ \E differs \in SUBSET keys : Write(th, into, differs)
           \/ \E gone \in SUBSET Key : import_pack(th, into, gone)
  \/ \E k \in Key, w \in Wing : set_wing(th, k, w)
  \/ \E keys \in SUBSET Key :
       \/ reinforce_batch(th, keys) \/ reinforce_batch_fails(th, keys)
       \/ commit_turn_outcomes(th, keys)
  \/ \E w \in Wing, old \in SUBSET Key :
       \/ delete_wing_memories_before(th, w, old)
       \/ prune_wing_keeping_recent_per_source(th, w, old)
  \/ \E k \in Key :
       \/ delete_memory_by_key(th, k) \/ tombstone(th, k) \/ consolidate_into(th, k)
       \/ set_signature(th, k) \/ set_declarative_density(th, k) \/ set_compaction_tier(th, k)
       \/ set_description(th, k) \/ invalidate_at(th, k) \/ set_valid_from(th, k)
       \/ set_hall(th, k)

Next ==
  \/ \E th \in Thread :
       \/ \E w \in Wing : Search(th, w)
       \/ Read(th) \/ Fill(th) \/ Invalidate(th)
       \/ rev < MaxRev /\ WriterStep(th)
  \/ rev < MaxRev /\ \E keys \in SUBSET Key : apply_decay(keys)

Spec == Init /\ [][Next]_vars

-----------------------------------------------------------------------------
(* Properties. *)

\* The types; the cache never holds more wings than its capacity; the connection
\* is held by a writer that has still to invalidate, so writers exclude each
\* other up to their release.
CacheInv ==
  /\ TypeOK
  /\ IsFiniteSet(Cached) /\ Cardinality(Cached) <= Capacity
  /\ lock # Nobody => call[lock].pc = "invalidate"

\* A cached wing is what a SELECT would return, unless a writer is about to drop
\* it, or it was put by a search whose read another commit had outdated, or a
\* method that never invalidates, or another process, has changed its rows since
\* ("The cache is invalidated on writes that affect the cached wing", SqliteStore).
StaleOnlyByRace ==
  \A w \in Cached :
    \/ cache[w] = Current(w)
    \/ w \in tainted
    \/ \E th \in Thread : call[th].pc = "invalidate" /\ w \in call[th].wings
=============================================================================
