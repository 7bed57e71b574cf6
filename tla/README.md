# Spectral in TLA+

Spectral is a local-first memory engine for agents, written in Rust: memories
live in SQLite databases of one *brain*, are recalled by text and graph search,
recognised when met again, credited when a turn used them, and shared with other
brains. The modules here model its stateful protocols, are checked with TLC on
small instances, and carry proofs that TLAPS checks for all instances.

Paths below are relative to the repository; `brain.rs` is
`crates/spectral-graph/src/brain.rs`, the other files are named where they first
occur. `PROJECT.json` maps each definition to the lines it models.

## 1. Inventory

| Component | State | Operations | Talks to | What makes it correct |
|---|---|---|---|---|
| **Replicated set** (`spectral-ingest/src/replicated_set.rs`) | members and tombstones per namespace | put, tombstone_set, export_set, import_set, want_scoped | other brains, by packs the host carries | a retracted object never returns; merging is a join; what was merged is not wanted again; brains converge |
| **Memory federation** (`federation_sync.rs`, `federation_recall.rs`) | shared_wing_members, sync_tombstones, imported rows | share, tombstone, export_pack, import_pack_with_policy, enumerate | memory store, other brains, host (signatures) | only shared objects travel; retraction is wing-scoped and final; imports keep their provenance; attestations survive relays |
| **Turn ledger** (`spectral/src/turn.rs`, `brain.rs`, `sqlite_store.rs`) | turn_events, turn_members, in-flight deliveries, queued voids | turn, record_turn_outcome, void_turn(_deferred), drain_pending_voids, flush_turn_deliveries, memory_outcome_evidence | memory store, tokio runtime, host | an acknowledged outcome is durable; credit equals evidence; adjudication is final |
| **Brain write path** (`brain.rs`) | one call per thread | remember_with, forget, repair_derivations, drain_enrolment_retries | memory store, recognition | derived state follows the row; forgetting is complete; failures heal |
| **Recognition** (`spectral-recognition`) | enrolled features, retry queue | enroll, recognize, forget, mark/clear_pending | Brain, under one lock | every live memory is enrolled or queued, nothing else is enrolled |
| **Memory store and wing cache** (`sqlite_store.rs`) | memories, FTS, episodes, per-wing LRU of results | write(_batch), delete, set_wing, wing_search, reinforce | everything above | a cached wing never outlives a committed change to it |
| **Consolidation and archivist** (`brain.rs`, `sqlite_store.rs`, `spectral-archivist`) | consolidation edges, decayed scores | consolidate_with, consolidate_into, list_unconsolidated, apply_decay | memory store | what is hidden was summarised, is paid for and stays one look away (not after pruning) |
| **Ingest pipeline** (`ingest.rs`, classifier, scorer) | episodes | prepare_ingest, ingest_with, ingest_batch_with | memory store | a memory's episode is there; an episode quotes nothing forgotten; joining one adds to it |
| **Fan-out recall** (`spectral-graph/src/federation.rs`) | registry of member brains | add_brain_weighted, fan_out_recall_with_policy, merge_and_rank | member brains (read-only) | a failing member is named, the others' results survive; nothing inadmissible or unsigned is merged; repetition lifts nothing |
| **Knowledge graph** (`graph_store.rs`, ontology, canonicalize, supersession) | ontology file, entities, triples with validity, runtime list | assert, assert_typed, adjudicate, undo_supersession, find_triples_as_of | Brain | a functional slot holds one fact now and at any past instant; no slot loses its last fact; a restart knows every name |
| **Retrieval** (cascade, ranking, spreading, TACT) | none of its own | recall variants | store, graph | visibility and ordering; otherwise numeric |
| **Identity** (`spectral-core`) | key file, brain id | load_or_create, sign, verify | federation | a signature covers exactly one payload |
| Facade, rendering, LLM clients, benchmarks | none | | | not part of the protocols |

How they interact: a host thread calls a `Brain`; a Brain method is a sequence
of store calls, each one SQLite transaction or one holding of a mutex, and no
transaction spans `memory.db`, `recognition.db` and the graph database. Deferred
work (delivery writes) is spawned on a tokio runtime and tracked in a map of join
handles. Brains never talk to each other: the host moves packs.

Hard behaviours: threads interleave between the store calls of a method
(`docs/operational-considerations.md`: a Brain may be shared across threads);
spawned writes race with commits, voids, flushes and `forget`; the process can
die between two databases; each derivation can fail on its own; packs are lost,
replayed, reordered and relayed; content is edited or deleted after something
derived from it was stored.

## 2. Modules

| Module | Models |
|---|---|
| `JoinSet` | what a replicated set promises: what is seen and what is removed only grow, by local changes or by merging what was sent |
| `ReplicatedSet` | `replicated_set.rs`; refines `JoinSet` |
| `FederationSync`, `MCFederationSync` | `federation_sync.rs` and its wrappers |
| `FederationSync_proofs` | proofs about it |
| `TurnLedger`, `MCTurnLedger` | the turn-outcome ledger |
| `TurnLedger_proofs` | proofs about it |
| `MemoryLifecycle`, `MCMemoryLifecycle` | remember, forget, repair and the retry queue |
| `MemoryLifecycle_proofs` | proofs about it |
| `WingCache`, `MCWingCache` | the per-wing read cache of the memory store and everything that changes rows |
| `WingCache_proofs` | proofs about it |
| `CurrentFacts` | what the knowledge graph promises: a slot never loses its last fact |
| `FactLedger` | the triple table of `graph_store.rs` and the statements over it, as operators |
| `KnowledgeGraph`, `MCKnowledgeGraph` | asserting, adjudicating and undoing over ontology file, runtime list and triple table; composes `FactLedger`, refines `CurrentFacts` |
| `KnowledgeGraph_proofs` | proofs about it |
| `Consolidation`, `MCConsolidation` | consolidate_with and consolidate_into beside everything that writes or deletes rows |
| `Consolidation_proofs` | proofs about it |
| `FanOut`, `MCFanOut` | the federation coordinator over members that change while they are asked |
| `Federated_proofs` | proofs about `FanOut` and `ReplicatedSet` |
| `Episodes`, `MCEpisodes` | ingest from the choice of the episode to the rows, beside forget and retention |
| `Episodes_proofs` | proofs about it |

The `MC` modules add symmetry sets and the small instances' vocabularies.

### ReplicatedSet

State: `members[b][ns]` and `tombstones[b][ns]` are the two SQLite tables of
brain `b`; `packs` is every pack ever exported. `import_set` picks any of them,
any number of times, so loss, replay and reordering need no actions of their own.
Blobs are opaque in the code: an object is its hash. The merge follows the
code's order: tombstones first, then the objects that no tombstone covers.
The refinement maps *seen* to members plus tombstones and *removed* to
tombstones; the abstract module states that both only grow and that a merge is a
union. That is the precise content of the "union converges" claim of the design
documents.

### TurnLedger

Each store method is one transaction and one action; each Brain method is a path
through the `pc` of a thread. `write[t]` is the delivery write of a turn, run by the
runtime; `pending` is the map `pending_turn_deliveries`. The handle leaves the map
*before* it is awaited (`TakeHandle`), as in `await_pending_delivery`, so
overlapping calls can miss it. `track` is a step after the spawn because the
code spawns first and inserts into the map afterwards, pruning finished handles.
`forget` is one transaction with its cascade, at any moment between retrieval,
delivery and commit. A crash loses handles, queued voids and receipts and keeps
tables. `signal` counts increments of the used-reinforcement, clamped as in SQL. Other writers of signal_score
(`write_back`, archivist) are outside the ledger and left out: `CreditMatchesEvidence`
is about the ledger's own contribution. An outcome list that names one key twice is not modelled.

### FederationSync

An object hash is modelled by what it covers: author, key, version (creation
time, content and visibility together), and how often the object was shared on
under a synthetic key (`hops`). A shared object is exported only if rehashing the
present row still gives its hash, which is how the code handles edits and forgets
after a share. A signature is modelled by the payload it covers; for a
retraction that is the time signed. `Attests` are brains whose host signs outgoing
packs, `Strict` those that import under `RequireSigned`. `shared_wing_want` compares what the remote
advertises with the local list and, as in the code, not with the tombstones; so `MergeSettlesWant` does not
say that nothing is wanted after a merge, but names what still is. `source_brain_id`, stamped
after the write of an import, is not modelled.

### MemoryLifecycle

`row` is `memories` in `memory.db`; `enrolled` and `pending` are
`recognition.db`. A row's `dense` and `sig` say whether its declarative density
is set and which content its signature covers. `remember_with` is
write, (session), density, read-back, sign, enrol, drain; each step can fail in the
way the code handles: a failed session ends the call with an error, the other failures
become warnings, a failed enrolment is queued, or fails to be. `forget` reads the
content, deletes, untraces (ignoring failure), probes recall and recognition and
reports. `repair_derivations` lists rows, completes each from the *listing*, and
prunes what it did not list if the listing was shorter than its limit. `forgotten`
and `derived` are history: keys reported fully forgotten (and not written since),
and keys whose remember collected no warning (and not forgotten since).

Abstracted: the recognition verdict is free to be wrong in either direction
except that it never clears a key that is still enrolled (the residue check);
second-granularity ties in the retry queue; the recurrence feedback, which only changes
scores; created_at and visibility under the signature.

### WingCache

`row[k]` is the wing of memory `k` and the number of the last transaction that changed
a served field of it, so two rows are equal exactly if a search would show the same.
`wing_search` is three steps, as it holds three locks one after the other: look the wing up
(`Search`; a hit changes nothing), read it (`Read`; on a reader connection, or waiting for
the one connection when there is no pool), put it (`Fill`, evicting a wing when
full). Every writer is a `Commit` followed by an `Invalidate`: of the wings it
touched or of all, with the connection still held (write, write_batch, set_wing,
reinforce) or released before (the deletions, field updates, consolidation and
federation). `ChangeSilently` stands for the changes after which nothing is
invalidated: the reinforcement of `commit_turn_outcomes`, `set_hall`, and an error of
`reinforce_batch` after its first chunk. `tainted` is history: cached wings that were put outdated, or
changed in one of those ways since. The several `wing_cache_pop`s of a write are one step: they
concern different wings and commute with everything in between. `apply_decay` is
the archivist, a process of its own: it changes rows without this process's lock and cannot
reach its cache.

### KnowledgeGraph, FactLedger, CurrentFacts

An assert is a path through a thread's `pc`: resolve the subject against the
loaded ontology, then the runtime list; create it if unknown (file, then list);
the same for the object; check the predicate's types; upsert both entities; write
the triple. `file` is the ontology file, `loaded` what the open brain read of it,
`entity` and `triple` the graph database. The look-up is outside the file's lock, as in
the code. `serial` says whether asserts overlap in this behaviour. A triple row is never
deleted, so the table is a sequence and a rowid a place in it. Functional predicates go through
`insert_triple_superseding`, whose UPDATE names the connection's last inserted row; an adjudication
pass lists slots and later applies verdicts to whatever the slots hold by then. `undone`
records per slot whether a replacement was undone, and whether too late. Times are values of a
clock read where the code reads it, before the lock. A name's similarity to others is the constant
`Near`, the host's canonicalizer the constant `Canon`.

### Consolidation

A memory is its key. `edge` is `consolidation_edges`, `score` `signal_score` in equal
parts of 1.0. `consolidate_with` is gather (source by source), write the summary,
then `consolidate_into`: one transaction whose statements are steps on the
call's own copy of the edges (`edges`) until `CommitTx`. `lock` is the connection; other
threads' writes wait for it, their reads of single sources do not. Three kinds of
deletion differ in the edges they take: forget both sides, the pruning of a wing
and federation's retractions only the source's side (a foreign key). `nested` is history: a link was made
to a memory already hidden, which `consolidate_into` does not refuse. `pruned` is history:
targets deleted under their edges. `Fronts(s)` are the memories that are there, not hidden, and have `s` among
their sources; `SourcesStayReachable` asks for one unless a target of `s` was pruned and is gone. Without that
exception TLC refutes it: prunings may leave a source hidden behind nothing (observations).

### FanOut

`children` is the coordinator's list in the order added, `registry` what keeps a brain from being
added twice. The members are asked one by one (`Answer`, `Fails`); between two answers
any member may write, sign, import, forget or crash. What a member returns is any
sequence of distinct admissible rows up to the limit, since ranking inside a member is numeric and
not modelled. `signing` holds attestations made over a row as it was read and not
written yet, so a signature can land on other content. `merge_and_rank` is operators: cap,
reciprocal ranks or raw scores with the weights, best rank per member, and the total
order. The sort is `InOrder` (each element after as many as come before it) and the filters are `Selected`, which say
what the library's recursive operators compute in a form that can be reasoned about. Reciprocal ranks are
multiplied by the constant `Denominator`, which every K + rank divides. The code adds them as `f64`s in the order of
a `HashMap`: two numbers have one sum, three or more may have several. `merge_and_rank` therefore
moves a sum of more than two by any number up to `Error` (`Roundings`), which is assumed less than half the difference between
two ranks. That a sum of one or two is rounded too, the same way in every query, is left out.
A signature covers author, content, visibility and, except in the scheme before `v2`, the key; `verify_memory_signature` accepts
both, so a signature of the earlier scheme (`LegacyAttestation`) holds under any key, as the test
`legacy_v1_signatures_still_verify` says. No operation makes such signatures any more: they come with the rows a
brain held at first. created_at is left out of what is signed.

### Episodes

`row` is `memories` (content and `episode_id`), `episode` the `episodes` table, where the id
`ep-<id of k>` is written `k`. A call of `ingest_with` or `ingest_batch_with` is in `call`: for
each item `Find` (`find_recent_episode` and what `prepare_ingest` makes of its answer) and
`WriteEpisode` (the upsert), then `WriteRows`, one transaction. `todo`, `ready` and `draft` are the
locals between those steps. A content stands for its first 200 characters, the part a preview
quotes; whether a join replaces the preview depends on the signal score, which is a choice
here. A failed query in `find_recent_episode` answers none (`.ok()`, 2999). `Forget` is
`delete_memory_by_key` on these two tables, `Prune` what deletes rows and leaves episodes (retention; federation's
retractions do the same), `Activity` rows without an episode. `erased` is history.

## 3. Runs

| Run | Expected | Question and bounds |
|---|---|---|
| `ReplicatedSet` | pass | three brains (so that packs are relayed), two namespaces (so that a pack can leak), one hash: retraction is a property of one object at a time |
| `TurnOwned` | pass | two threads and two turns, both delivery modes, queued voids up to 2, calls about one turn never overlapping: an acknowledged outcome is durable, a flush leaves nothing in flight |
| `TurnOverlap` | pass | the same without that restriction on one turn: rows, credit, evidence and adjudication agree, calls return |
| `Federation` | pass | author, relay and strict importer; two wings, two versions, two shares, two packs; no import is shared on (`MaxHops = 0`) |
| `Lifecycle` | pass | two threads, two keys, two contents; repair limits below and above the number of keys; batch 2; every step may fail, crash anywhere |
| `LifecycleDrains` | pass | one thread, two keys, batch 1 so that the order of the queue matters |
| `LifecycleForgetRace` | violation | two threads, one key, forget not excluded |
| `WingCache` | pass | two threads, two memories, two wings, capacity 1 so that every second put evicts, four changes; with and without reader pool |
| `Graph` | pass | two threads; one functional and one accumulating predicate; names that are known, aliased, misspelt and new; three rows asserted serially (so that a replacement is replaced) or two overlapped (so that two asserts race); two clock values |
| `Consolidation` | pass | two threads, two sources and two summaries that can be each other's sources (chains of two), aborting and summarising requests, four calls or changes of rows; cap twice the first score, so that it saturates |
| `FanOut` | pass | two members, three keys, two contents (agreement against repetition), two visibilities, signatures of both schemes, three policies, two changes while they are asked; with two members no sum is rounded, so what `Error` allows for three or more is a matter of the proofs alone |
| `Episodes` | pass | two threads, two keys of one content (what one memory says must not be kept by the episode of another), a provided episode beside the detected ones, a gap of one tick, failed reads; one item a call, batches are covered by the proofs |

Why the bounds are enough: every property but convergence and the liveness ones
is about one object, turn or memory and at most one other actor racing on it; the second
key, turn, wing or version is there to be confused with the first. Three brains
are the smallest relay. `MaxSignal = 2` reaches the clamp. `MaxShares`, `MaxPacks`
and `MaxQueue` cap otherwise unbounded histories; packs are never consumed, so
two suffice for "old pack imported after the newer one". Symmetry is used only where no
temporal property with fairness is checked and only over interchangeable values.

Deadlock is checked in every run but `Graph`, where a brain whose ontology file was spoilt by
overlapping asserts cannot be opened again, which is the code's behaviour (observations).

### Fairness

* `ReplicatedSet!SyncLoop`: each brain keeps exporting each namespace and keeps
  importing some received pack. The repository leaves transport to the host; the
  assumption is the host's sync loop, and puts and retractions are not forced. A pack
  that keeps arriving is not needed: an export can be repeated.
* `TurnLedger!FairSpec`: threads that are inside a method run, and the tokio
  runtime runs the tasks spawned on it. Calls are never forced to start.
* `MemoryLifecycle!Fairness`: the host keeps writing (each write drains a batch), a
  running call keeps running, and a retry that is attempted again and again
  does not fail every time. Strong fairness is needed because a crash or a failed read can
  interrupt each attempt; without the last assumption (a memory whose enrolment
  fails for ever) the four oldest entries would block the queue, as they would in
  the code.

### What the violation shows

* **LifecycleForgetRace**: enrolment uses content read earlier and does not look
  at the row again. `forget` is complete when it runs alone (`Lifecycle`), not when
  it runs between another call's read and enrolment.

### Observations

Met while modelling; each is either a named case of a property above or outside what a run checks.

*Turns.* `await_pending_delivery` takes the handle out of the map and waits outside the lock. A
second commit of the turn finds nothing to wait for, updates no row and returns Ok (`brain.rs` 4329; TLC refutes
`AcknowledgedOutcomeIsDurable` with `Exclusive = FALSE`, against "an adjudicated outcome can never be lost" in
`deferred-delivery-prereg-2026-08-04.md`). If hosts serialise calls about one turn the property
holds (`TurnOwned`), and even if they do not, credit and evidence never disagree
(`TurnOverlap`). The error of a deferred delivery is told once, or never if the next turn prunes the
finished handle; a commit after it is acknowledged and records nothing (`brain.rs` 4271).

*Federation.* Sharing an import on gives it a second hash; the guard of a retraction's delete
looks for other wings by hash and misjudges the copy (`federation_sync.rs` 624), which is why
`ImportedIsListed`, `FedInv` and `RetractionIsWingScoped` are stated for systems that do not
(`MaxHops = 0`). The importer of a retraction stores its own time beside the author's signature
(566), so a relayed signature does not verify. A retracted hash that the remote still lists is wanted again in every round, and refused by the merge each time, since
`shared_wing_want` does not look at tombstones (`federation_recall.rs` 83); so is one that the remote lists and
cannot serve (named cases of `MergeSettlesWant`). An edit after a share silently stops the export of that object.

*Memories.* `forget` leaves the memory's entry in `recognition_pending` until a later drain;
an edit that crashes before signing keeps a signature over the old content, which repair does not
replace; a repair running beside a remember can un-enrol the new memory; an edit never re-enrols.
`repair_derivations` signs every row without a signature with this brain's identity, imported ones
included, although its comment says primary rows are never changed (`brain.rs` 3641): what a
peer wrote is then attributed here and no longer hashes to what was shared.

*Wing cache.* A search that read a wing before a forget and puts it after the forget's invalidation
serves the forgotten memory until the wing is dropped again; changes by
`commit_turn_outcomes`, `set_hall` and the archivist stay invisible in a cached wing (all named cases of
`StaleOnlyByRace`).

*Episodes.* A preview of an earlier content outlives the memory: one memory is filed with another and
quoted, then edited, then forgotten; the scrub compares previews with the content the row has now
(`sqlite_store.rs` 2817, against the comment above it). The id `ep-<id>` of a founder stays in
the episode and in its members when the founder is forgotten first (2834). A provided episode counts as
existing only if it is the newest of the item's wing; otherwise the row is overwritten as
if new and counts one again (`ingest.rs` 236, against the comment at 232). A forget between an ingest's episode and its row drops the
episode that the memory is then filed under, or has its
scrubbed preview written back (with `Exclusive = FALSE` TLC finds both in `Episodes`). Two ingests that join one episode together lose one of the two counts; an
edit adds one although no member is new, and retention subtracts nothing, until the next forget in the
episode recounts it. `ep-<id>` is used again when its memory is ingested anew after the gap: the row keeps its
wing and start, and counts one. After a failed read a second episode is opened beside the running one.

*Knowledge graph.* Two overlapping asserts of one unknown name both append it; the file then fails
`validate` and `Brain::open` (`brain.rs` 1826; `ReopensWhenSerial` is therefore about serial
asserts). Undoing a replacement that was itself replaced leaves two facts in a functional slot
(`graph_store.rs` 424). `asserted_at` is read before the lock, so two facts can hold at one past
instant. `assert_typed` checks the declared types, not those resolved. A superseding insert whose entity
is missing retires the others in the name of an unrelated row. An error while retiring ends the
adjudication pass, and each pass considers the slots in the same order up to its limit. Aliases learned at
run time are not in the file.

*Consolidation.* Pruning a wing deletes a summary's row and not the edges that lead to it (`sqlite_store.rs` 2730, 2927: only the
source's side has a foreign key), and so do federation's retractions. Its sources stay hidden from recall, and if nothing else
stands in front of them no memory is left whose sources they are, although `consolidate_as` says that "the sources stay reachable via
[`recall_with_provenance`]" (`brain.rs` 3426) and `forget` deletes these edges "so no edge dangles" (`sqlite_store.rs` 2783).
`consolidate_into` into a hidden memory hides the sources two looks away. A repeated
call adds the sources' scores once more. A source already behind another summary is
skipped even under AbortAll. An edit of a hidden source does not bring it back, and `wing_search`
does not hide sources.

*Fan-out.* From three members on, the ranking of the same answers may differ between two queries, although it is called "a total
deterministic order" (`federation.rs` 369, 624). At k = 60 a content with 2/60 + 3/60 + 5/61 and one with 2/61 + 3/61 + 5/60
should tie; added as `f64`s in the iteration order of a `HashMap` (593), which differs between queries, each sum takes one of
two values that differ in the last bit, and the tie-break by content sees only scores that are equal to the bit.
`ChildOrderIsIrrelevant` therefore speaks of scores of at most two summands. A signature of the scheme before `v2` lets a granted brain's content be served under another key
(`identity.rs` 385; the second case of `OnlyAdmissible`), until the memory is written and signed again: `repair_derivations` signs
only rows without a signature.

## 4. Proofs

For every value of the constants:

* `Federated_proofs`, about `ReplicatedSet`: `Safety` (no retracted object is stored or exported),
  `WantSettles` (after a merge nothing the other advertises is wanted), `Removal` (only retraction removes; a step touches one namespace of one brain) and
  `Refinement` (the tables and packs implement `JoinSet`). The inductive
  invariant is `SetInv`: types plus disjointness of members and tombstones, *in the
  tables and in every pack*. The pack half is needed because an import adds what the pack
  carries. The refinement uses `SetInv` in each step: without
  disjointness a merge that drops covered objects would not be a union. No assumptions on the constants.
* `Federated_proofs`, about `FanOut`: `EachAskedOnce`, `MergedIsAdmissible`, `AgreementIsFirst`, `RankingIsOfTheSet` and `AnyOrder`, from
  `FanOutConstants` and `CorporaHoldRows`. `IInv` says what may be merged at any moment of a call, whatever the members do
  meanwhile: every signature on a row or about to be written was made (`MembersOK`), there is one handle per member (`ChildrenOK`),
  and only members before the next one have answered or failed, each once, with rows that the context admits and, under
  grants, that a granted brain signed, in either scheme (`CallOK`). What a member changes after it answered does not matter: the call keeps the
  rows it was given. The ranking is then a matter of operators, in three lemmas.
  `SumCompares`: one sum is at least another when the summands of the other map into its own, one to one, none above its image; hence
  `AgreementWins`. `InOrderPlaces`: a strict total order puts each element after as many as come before it; hence
  `AgreementFirst`, and that no hit is lost or doubled. `AnyOrder`: contributions in any permutation give the same ranking, since the
  permutation of the handles carries one set of hits to the other and keeps every score, given the same rounding of each content's
  sum; `RankingIsOfTheSet` asks it of the reversed order and drops the rounding, for scores of at most two summands. With
  more the code does not keep what it promises (observations). `AgreementWins` gives an advantage of more than twice `Error`, from
  the assumption on `Error` in `FanOutConstants`: at k = 60 and ordinary weights the rounding of `f64`s is far below that.
* `TurnLedger_proofs`: `LedgerSafety`, `Adjudication` and `Evidence`, from
  `ConstantsOK` (the outcome alphabet and a finite set of turns). `LedgerInv` is inductive:
  `DeliveredOnce` (a turn has an event row exactly if its one write is done) needs
  `CallsKnowTheirTurn` (the only call that may write a turn's rows is the one that delivered it).
  `Evidence` is an induction on steps over the number of turns counted as
  used: a commit moves an open turn to committed and adds one to the score of each used member
  (`CommitAgrees`, with `ClampAdds` for saturation at 1.0), and no void or replay
  touches a committed turn. `Durability` and `Drained` assume besides that the calls about one turn do not
  overlap (`Exclusive`; without it TLC refutes the first). Their invariant `OwnedInv` follows a delivery's
  handle: while the write runs it is in the map, in the call that took it out, or in the turn about to put
  it there (`RunningIsHeld`), and no two calls touch one turn (`NoOverlap`). So a commit that finds no handle
  has nothing to wait for, and behind a flush that emptied the map nothing can join it.
* `MemoryLifecycle_proofs`: `Lifecycle` without restriction, from `CallsInv`: each call knows the memory it works
  on, a retry has ids left, a repair visits what it listed. `Forgotten`, `Recognised` and `Repaired` assume `Exclusive`:
  forget and repair run while nothing else does (the run `LifecycleForgetRace` shows what happens otherwise). Their invariant
  `StageInv` says what each call relies on between its transactions: a remember that its row is there and
  holds what succeeded so far (`WrittenIn`), a retry that a row it has read is still there (`RetriedIn`), a forget that it
  deletes the content it has read (`ForgottenIn`), a repair that its listing is still true of the rows, since nobody else
  writes, and that what it visited is whole (`RepairedIn`).
* `WingCache_proofs`: `CacheBounded` and `Freshness`, from `ConstantsOK`; the two
  properties are inductive together. `WriterCovers` shows that each invalidating method
  drops every wing whose rows it changes (`Covers`: the wing a row leaves and the one it
  enters), `CommitStep` that this keeps every other wing's SELECT as it was, and
  `FillStep` counts the wings through eviction. The sets of threads, memories and wings may be infinite.

* `FederationSync_proofs`: `SharedOnly` (Sovereignty) and `WantSettles` (what is still wanted after a merge) without restriction,
  from `ConstantsOK`. `SovInv` adds to the types that every list names only what was shared and
  that a pack retracts only in its own wing; `ImportRows`, `ImportTombs` and `NewFacts` say once what a
  pack does to rows, retractions and lists. `OneRow`, `ImportsListed` and `WingScoped` assume `MaxHops = 0` and
  `KeysAreGiven`. Their invariant `OneHop` says that the row of an entry follows from its object (`Listed`),
  which needs that an author never merges an object of its own as new; that holds because it
  keeps each on its list or retracts it there (`Remembered`).
* `KnowledgeGraph_proofs`: `GraphSafety`, `OneFact`, `FactsRefinement`, `History`, `Reopens` and `Resolution`, from the
  module's assumptions on its constants. First what each statement over the table preserves, as lemmas about `FactLedger`; then one lemma per
  action that `IInv` is inductive: it adds what a call under way relies on (its names are in the file, its
  entities in the table once upserted), since crash and failure may fall between any two steps. The refinement maps a
  slot to the objects of its live rows; each step is one of `CurrentFacts` or leaves them alone.
  The last three are about asserts that do not overlap, as are their properties (`serial`). `SerialInv` adds to `IInv` that
  one assert runs at most; that the rows of a functional slot no undo has touched follow one another, each ending before the
  next begins (`InSequence`, for which the time a call took is not before any row's: `Timely`); that the file is what was loaded and then
  what was created, whose names nothing else resolves (`ListsAgree`); and that what a look-up missed is still
  missing when it is created (`Fresh`), whatever verdicts, failures and the clock do between the two.
  `NamesSurvive` draws from the lists that a restart changes no name. What that asks of the host's canonicalizer
  is `CanonAgrees`. A first attempt with less, that similar names have one canonical form, failed, and TLC then found why: a
  function that is not idempotent (roma to rome, rome to rom) files aliases under a name they do not canonicalize to; and one that sends a
  name of the original file to a form unknown there (lisbon to rome) lets a new entity take over, after the restart,
  a name that was similar to a known one before it.
* `Consolidation_proofs`: `EdgesHold`, `Reachable`, `HiddenRead` and `HiddenPays`, from `ConsolidationConstants`. While no memory was
  linked to a hidden one, the edges are a strict order (`Layered`): `LinkedLayered` shows that
  flattening keeps it one, `FewerLayered` that deletions do. In a finite strict order every hidden memory has
  a target that is not hidden (`LayeredReachable`, by a target with the fewest targets of its own); an edge leads to a row that
  is there or was pruned (`EdgesHold`), so that target is there unless it was pruned.
  `CallIn` says what an open transaction may rely on although others run: nothing moves while it holds the
  connection, and before that whatever was written since is in `touched`. `HiddenPays` has an invariant of its own: what an open
  transaction has added up is the sum of the scores of the sources it linked, each once (`LinkAgain` links one a second time), and
  a memory that its commit would hide is one of them and goes behind its target (`Pays`). For the memories behind a source that
  the flattening moves along, this holds because they were hidden before. Only a commit adds edges (`OthersAddNoEdge`), and no
  score changes while its transaction is open, so what the commit hides is worth no more than what the target gets (`SumGrows`).
* `Episodes_proofs`: `EpisodesTyped`, `MembersKeepEpisodes` and `ErasedStaysUnquoted`, from `ConstantsOK` and
  `Exclusive` (without which TLC refutes the second and the third). `PipelineInv` adds to the three properties what an
  ingest relies on between its steps (`PreparedIn`): the episodes of its prepared items are there,
  and neither its items nor its draft quote what is erased. `StepOfOne` shows once that a step of
  one ingest leaves this true of the others: they add episodes and erase nothing. Only forget does otherwise, when
  every call is idle.

The library's sum over a set is a fold that chooses its next element. `SumUnfolds` and `SumTakesOut`, in both modules that
need them, derive from its definition that any element can be taken out; where induction over the set would be the way, they take a
smallest counterexample among its subsets (`SmallestSubset`), which the library's well-foundedness of strict inclusion gives.

Only model-checked: liveness under fairness (`Convergence`, `CallsReturn`, `PendingDrains`), which is not in the
prover's reach. Every safety property of the passing runs is proved. What the proofs leave to TLC besides is whether the assumptions on the
constants can be met and the interesting cases reached, which every run evaluates on its instance.

## 5. Not modelled

The classification, signal scoring and fingerprints of ingest, ranking inside a brain, tokenisation, TACT and
spectrogram: numeric functions of text without state. Recognition's scoring and stream
segmentation; the archivist's reports, which only read; documents, mentions and neighbourhoods of the graph,
which only add or read; LLM clients, rendering, benchmarks; key files and
cryptography; SQLite itself (a committed transaction is taken as durable and atomic); several writer
processes on one brain, which `docs/operational-considerations.md` excludes, but for the archivist; lock
poisoning; migrations and backfills.

## 6. Plan

1. The constellation fingerprints as state (peers read before they are written, `set_hall` rehashing them) and
   the co-retrieval index (its rebuild beside forget and late access-log writes).
2. The recurrence feedback of `remember_with`, and created_at under the signature.
