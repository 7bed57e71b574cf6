------------------------------ MODULE Episodes ------------------------------
(***************************************************************************)
(* Ingest and the episodes it files memories under.                        *)
(*                                                                         *)
(*   crates/spectral-ingest/src/ingest.rs        prepare_ingest, ingest,   *)
(*                                               ingest_batch_with         *)
(*   crates/spectral-ingest/src/sqlite_store.rs  find_recent_episode,      *)
(*                 write_episode, write_batch, delete_memory_by_key        *)
(*                                                                         *)
(* An ingest reads the episode to join, writes the episode it made of what *)
(* it read, and only then writes the memory: three steps, between which    *)
(* other threads run, a statement fails or the process dies.  A single     *)
(* ingest is a batch of one.  A content stands for its first 200           *)
(* characters, which is what an episode's preview quotes.                  *)
(***************************************************************************)
EXTENDS Naturals, Sequences, FiniteSets

CONSTANTS
  Thread, Key, Content, Wing,
  Label,      \* episode ids the consumer provides
  Gap,        \* EPISODE_GAP_MINUTES, in ticks
  BatchSize,  \* bound: items of one call
  MaxTime,    \* bound: ticks
  MaxCount,   \* bound: what an episode counts
  ReadsFail,  \* TRUE: the episode's read may fail
  Exclusive   \* TRUE: the host runs forget while no ingest is running

AutoDetect == "detect"
NoId == "no episode"
NoContent == "no content"
NoPreview == NoContent

ASSUME ConstantsOK ==
  /\ AutoDetect \notin Label /\ NoId \notin Key \union Label \union Wing /\ NoContent \notin Content
  /\ IsFiniteSet(Key) /\ Key \intersect Label = {}
  /\ Gap \in Nat \ {0} /\ BatchSize \in Nat \ {0}
  /\ MaxTime \in Nat /\ MaxCount \in Nat \ {0}
  /\ ReadsFail \in BOOLEAN /\ Exclusive \in BOOLEAN

VARIABLES
  row,      \* row[k]: the memories row of k
  episode,  \* episode[e]: the episodes row of e
  now,      \* the wall clock
  call,     \* the ingest each thread is in
  erased    \* history: contents forget has erased, not ingested since

vars == <<row, episode, now, call, erased>>

\* The id "ep-<id of k>" that auto-detection gives is written k.
EpisodeId == Key \union Label

Row == [content : Content, episode : EpisodeId \union {NoId}]
NoRow == [content |-> NoContent, episode |-> NoId]
Episode == [ended : Nat, count : Nat, wing : Wing, preview : Content \union {NoPreview}]
NoEpisode == [ended |-> 0, count |-> 0, wing |-> NoId, preview |-> NoPreview]

\* todo are the items still to prepare, ready the prepared ones, draft the
\* episode about to be written for the first of todo, as id.
Item == [key : Key, content : Content, wing : Wing, label : Label \union {AutoDetect}]
Prepared == [key : Key, content : Content, episode : EpisodeId \union {NoId}]
Call == [pc : {"idle", "find", "episode", "write"}, todo : Seq(Item), ready : Seq(Prepared),
         id : EpisodeId \union {NoId}, draft : Episode \union {NoEpisode}]
Idle == [pc |-> "idle", todo |-> <<>>, ready |-> <<>>, id |-> NoId, draft |-> NoEpisode]

EpisodesInv ==
  /\ row \in [Key -> Row \union {NoRow}]
  /\ episode \in [EpisodeId -> Episode \union {NoEpisode}]
  /\ now \in Nat
  /\ call \in [Thread -> Call]
  /\ erased \subseteq Content
  /\ \A th \in Thread :
       /\ call[th].pc \in {"find", "episode"} <=> call[th].todo # <<>>
       /\ call[th].pc = "episode" => call[th].draft \in Episode /\ call[th].id # NoId
       /\ call[th].pc = "write" => call[th].ready # <<>>

Init ==
  /\ row = [k \in Key |-> NoRow]
  /\ episode = [e \in EpisodeId |-> NoEpisode]
  /\ now = 0
  /\ call = [th \in Thread |-> Idle]
  /\ erased = {}

-----------------------------------------------------------------------------
Goto(th, c) == call' = [call EXCEPT ![th] = c]
Stored == {k \in Key : row[k] # NoRow}
Members(rows, e) == {k \in Key : rows[k] # NoRow /\ rows[k].episode = e}

\* ingest_with or ingest_batch_with, with its items.
Ingest(th, items) ==
  /\ call[th].pc = "idle"
  /\ Goto(th, [Idle EXCEPT !.pc = "find", !.todo = items])
  /\ erased' = erased \ {items[i].content : i \in DOMAIN items}
  /\ UNCHANGED <<row, episode, now>>

\* ORDER BY ended_at DESC: the newest episode of the wing, if any; for a
\* provided id of any age, else ended within the gap.
Newest(item) ==
  LET candidates == {e \in EpisodeId :
        /\ episode[e] # NoEpisode /\ episode[e].wing = item.wing
        /\ item.label = AutoDetect => episode[e].ended + Gap > now}
  IN {e \in candidates : \A other \in candidates : episode[other].ended <= episode[e].ended}

FirstOf(item) ==
  [ended |-> now, count |-> 1, wing |-> item.wing, preview |-> item.content]

\* Joining keeps the preview, or replaces one that is there by this content
\* when its signal is high enough.
Joined(item, e) ==
  {[episode[e] EXCEPT !.count = @ + 1, !.ended = now, !.preview = quoted] :
     quoted \in {episode[e].preview,
                 IF episode[e].preview = NoPreview THEN NoPreview ELSE item.content}}

\* find_recent_episode, and what is made of its answer.  A read that fails
\* answers none, as an empty one does.
Find(th) ==
  LET item == Head(call[th].todo)
      newest == Newest(item)
      joins == {e \in newest : item.label \in {AutoDetect, e}}
  IN
  /\ call[th].pc = "find"
  /\ \/ \E e \in joins : \E draft \in Joined(item, e) :
          /\ draft.count <= MaxCount
          /\ Goto(th, [call[th] EXCEPT !.pc = "episode", !.id = e, !.draft = draft])
     \/ /\ ReadsFail \/ newest = {} \/ newest # joins
        /\ Goto(th, [call[th] EXCEPT !.pc = "episode", !.draft = FirstOf(item),
             !.id = IF item.label = AutoDetect THEN item.key ELSE item.label])
  /\ UNCHANGED <<row, episode, now, erased>>

WriteEpisode_update_only(th) ==
  LET c == call[th]
      rest == Tail(c.todo)
  IN
  /\ c.pc = "episode"
  /\ episode' = [episode EXCEPT ![c.id] =
       [@ EXCEPT !.ended = c.draft.ended, !.count = c.draft.count, !.preview = c.draft.preview]]
  /\ Goto(th, [Idle EXCEPT !.pc = IF rest = <<>> THEN "write" ELSE "find", !.todo = rest,
       !.ready = Append(c.ready, [key |-> Head(c.todo).key, content |-> Head(c.todo).content,
                                  episode |-> c.id])])
  /\ UNCHANGED <<row, now, erased>>
\* INSERT ... ON CONFLICT(id) DO UPDATE: the wing of a row that is there stays
\* as it is.
WriteEpisode(th) ==
  LET c == call[th]
      rest == Tail(c.todo)
  IN
  /\ c.pc = "episode"
  /\ episode' = [episode EXCEPT ![c.id] =
       IF @ = NoEpisode THEN c.draft
       ELSE [@ EXCEPT !.ended = c.draft.ended, !.count = c.draft.count,
                      !.preview = c.draft.preview]]
  /\ Goto(th, [Idle EXCEPT !.pc = IF rest = <<>> THEN "write" ELSE "find", !.todo = rest,
       !.ready = Append(c.ready, [key |-> Head(c.todo).key, content |-> Head(c.todo).content,
                                  episode |-> c.id])])
  /\ UNCHANGED <<row, now, erased>>

\* write_batch: one transaction.  A new row takes its content and episode, a row
\* that is there keeps everything but its content.
WriteRows(th) ==
  LET ready == call[th].ready
      Of(k) == {i \in DOMAIN ready : ready[i].key = k}
      First(k) == ready[CHOOSE i \in Of(k) : \A j \in Of(k) : i <= j]
      Last(k) == ready[CHOOSE i \in Of(k) : \A j \in Of(k) : j <= i]
  IN
  /\ call[th].pc = "write"
  /\ row' = [k \in Key |->
       IF Of(k) = {} THEN row[k]
       ELSE [content |-> Last(k).content,
             episode |-> IF row[k] = NoRow THEN First(k).episode ELSE row[k].episode]]
  /\ Goto(th, Idle)
  /\ UNCHANGED <<episode, now, erased>>

\* Any of the three writes fails, or the read of the peers in between: the call
\* ends, the episodes it has written stay.
IngestFails(th) ==
  /\ call[th].pc # "idle"
  /\ Goto(th, Idle)
  /\ UNCHANGED <<row, episode, now, erased>>

\* ingest_activity: a row without an episode, written directly.
Activity(k, v) ==
  /\ row' = [row EXCEPT ![k] =
       IF @ = NoRow THEN [content |-> v, episode |-> NoId] ELSE [@ EXCEPT !.content = v]]
  /\ erased' = erased \ {v}
  /\ UNCHANGED <<episode, now, call>>

-----------------------------------------------------------------------------
\* Previews that quote the content are scrubbed, wherever they are.
Scrubbed_own(e, k) ==
  IF row[k].episode = e /\ episode[e] # NoEpisode /\ episode[e].preview = row[k].content
  THEN [episode[e] EXCEPT !.preview = NoPreview] ELSE episode[e]
Scrubbed(e, k) ==
  IF episode[e] # NoEpisode /\ episode[e].preview = row[k].content
  THEN [episode[e] EXCEPT !.preview = NoPreview] ELSE episode[e]

\* delete_memory_by_key, one transaction: the memory's episode goes with its
\* last member and is recounted otherwise.
Forget_drops(k) ==
  /\ Exclusive => \A th \in Thread : call[th].pc = "idle"
  /\ row[k] # NoRow
  /\ row' = [row EXCEPT ![k] = NoRow]
  /\ episode' = [e \in EpisodeId |->
       IF e = row[k].episode THEN NoEpisode ELSE Scrubbed(e, k)]
  /\ erased' = erased \union {row[k].content}
  /\ UNCHANGED <<now, call>>
Forget(k) ==
  /\ Exclusive => \A th \in Thread : call[th].pc = "idle"
  /\ row[k] # NoRow
  /\ row' = [row EXCEPT ![k] = NoRow]
  /\ episode' = [e \in EpisodeId |->
       IF e # row[k].episode \/ episode[e] = NoEpisode THEN Scrubbed(e, k)
       ELSE IF Members(row', e) = {} THEN NoEpisode
       ELSE [Scrubbed(e, k) EXCEPT !.count = Cardinality(Members(row', e))]]
  /\ erased' = erased \union {row[k].content}
  /\ UNCHANGED <<now, call>>

\* Retention (delete_wing_memories_before, prune_wing_keeping_recent_per_source)
\* deletes rows and leaves the episodes.
Prune(keys) ==
  /\ keys \subseteq Stored /\ keys # {}
  /\ row' = [k \in Key |-> IF k \in keys THEN NoRow ELSE row[k]]
  /\ UNCHANGED <<episode, now, call, erased>>

Tick ==
  /\ now < MaxTime
  /\ now' = now + 1
  /\ UNCHANGED <<row, episode, call, erased>>

Crash ==
  /\ \E th \in Thread : call[th].pc # "idle"
  /\ call' = [th \in Thread |-> Idle]
  /\ UNCHANGED <<row, episode, now, erased>>

Items == UNION {[1..n -> Item] : n \in 1..BatchSize}

ThreadStep(th) ==
  \/ \E items \in Items : Ingest(th, items)
  \/ Find(th) \/ WriteEpisode(th) \/ WriteRows(th) \/ IngestFails(th)

Next ==
  \/ \E th \in Thread : ThreadStep(th)
  \/ \E k \in Key, v \in Content : Activity(k, v)
  \/ \E k \in Key : Forget(k)
  \/ \E keys \in SUBSET Key : Prune(keys)
  \/ Tick
  \/ Crash

Spec == Init /\ [][Next]_vars

-----------------------------------------------------------------------------
(* Properties. *)

\* A memory never names an episode that is not there, whatever fails between
\* the episode and the memory, and whatever forget removes: the episode is
\* committed first and goes with its last member only (prepare_ingest,
\* delete_memory_by_key).
MembersHaveEpisodes ==
  \A k \in Stored : row[k].episode # NoId => episode[row[k].episode] # NoEpisode

\* Content that forget has erased is quoted by no episode, also not by one the
\* memory never was a member of (docs/DELETION_GUARANTEES.md, D1).
ErasedIsUnquoted ==
  \A e \in EpisodeId : episode[e] # NoEpisode => episode[e].preview \notin erased
=============================================================================
