--------------------------- MODULE Episodes_proofs ---------------------------
(***************************************************************************)
(* Proofs about Episodes for any threads, keys, contents, wings, batches   *)
(* and bounds, when forget runs while no ingest does (Exclusive).  The     *)
(* argument: an episode is removed by forget only, and what forget erases  *)
(* enters it only then, so what an ingest has prepared or drafted stays    *)
(* true until it is written.                                               *)
(***************************************************************************)
EXTENDS Episodes, FiniteSetTheorems, SequenceTheorems, WellFoundedInduction, TLAPS

\* What an ingest may rely on, given the episodes that are there and what is
\* erased.
PreparedIn(c, there, gone) ==
  /\ c.pc = "idle" => c = Idle
  /\ \A i \in DOMAIN c.ready : c.ready[i].episode \in there
  /\ \A i \in DOMAIN c.todo : c.todo[i].content \notin gone
  /\ c.pc = "episode" => c.draft.preview \notin gone

There(es) == {e \in EpisodeId : es[e] # NoEpisode}

PipelineInv ==
  /\ EpisodesInv
  /\ MembersHaveEpisodes
  /\ ErasedIsUnquoted
  /\ \A th \in Thread : PreparedIn(call[th], There(episode), erased)

-----------------------------------------------------------------------------
(* Numbers and sequences. *)

\* A non-empty set of positions has a first one.
LEMMA FirstIndex ==
  ASSUME NEW S \in SUBSET Nat, S # {}
  PROVE  \E i \in S : \A j \in S : i <= j
<1>1. PICK i \in S : \A j \in S : ~(<<j, i>> \in OpToRel(<, Nat))
  BY NatLessThanWellFounded, WFMin
<1>2. ASSUME NEW j \in S PROVE i <= j
  <2>1. ~(j < i)
    BY <1>1 DEF OpToRel
  <2> QED
    BY <2>1
<1> QED
  BY <1>2

\* Among finitely many positions there is a last one.
LEMMA LastIndex ==
  ASSUME NEW n \in Nat, NEW S \in SUBSET (1 .. n), S # {}
  PROVE  \E i \in S : \A j \in S : j <= i
<1> DEFINE T == {n - i : i \in S}
<1>1. T \in SUBSET Nat /\ T # {}
  <2>1. \A i \in S : i \in 1 .. n /\ n - i \in Nat
    OBVIOUS
  <2>2. PICK i \in S : TRUE
    OBVIOUS
  <2>3. n - i \in T
    OBVIOUS
  <2> QED
    BY <2>1, <2>3
<1>2. PICK m \in T : \A j \in T : m <= j
  BY <1>1, FirstIndex
<1>3. PICK i \in S : m = n - i
  OBVIOUS
<1>4. \A j \in S : j <= i
  <2> TAKE j \in S
  <2>1. n - j \in T
    OBVIOUS
  <2> QED
    BY <1>2, <1>3, <2>1
<1> QED
  BY <1>4

-----------------------------------------------------------------------------
(* What a step of one ingest leaves true of the others. *)

StageOK(c) ==
  /\ c.pc \in {"find", "episode"} <=> c.todo # <<>>
  /\ c.pc = "episode" => c.draft \in Episode /\ c.id # NoId
  /\ c.pc = "write" => c.ready # <<>>

\* An ingest that only adds episodes and erases nothing disturbs no other one.
LEMMA StepOfOne ==
  ASSUME PipelineInv, NEW th \in Thread, NEW c \in Call, Goto(th, c),
         StageOK(c), PreparedIn(c, There(episode'), erased'),
         There(episode) \subseteq There(episode'), erased' \subseteq erased
  PROVE  /\ call' \in [Thread -> Call]
         /\ \A t \in Thread : StageOK(call'[t])
         /\ \A t \in Thread : PreparedIn(call'[t], There(episode'), erased')
<1>1. call \in [Thread -> Call]
  BY DEF PipelineInv, EpisodesInv
<1>2. call' \in [Thread -> Call] /\ \A t \in Thread : call'[t] = IF t = th THEN c ELSE call[t]
  BY <1>1 DEF Goto
<1>3. \A t \in Thread : StageOK(call[t]) /\ PreparedIn(call[t], There(episode), erased)
  BY DEF PipelineInv, EpisodesInv, StageOK
<1>4. \A t \in Thread : PreparedIn(call[t], There(episode'), erased')
  BY <1>3 DEF PreparedIn
<1> QED
  BY <1>2, <1>3, <1>4

\* Idle is a call, and expects nothing.
LEMMA IdleIsPrepared ==
  Idle \in Call /\ StageOK(Idle) /\ \A there, gone : PreparedIn(Idle, there, gone)
BY DEF Idle, Call, StageOK, PreparedIn

\* Neither absent row nor absent episode looks like one that is there.
LEMMA AbsentIsAbsent == NoRow \notin Row /\ NoEpisode \notin Episode
BY ConstantsOK DEF NoRow, Row, NoEpisode, Episode, NoContent, NoId

\* The parts of PipelineInv, for the lemmas on the actions.
LEMMA PipelineParts ==
  PipelineInv <=>
    /\ row \in [Key -> Row \union {NoRow}]
    /\ episode \in [EpisodeId -> Episode \union {NoEpisode}]
    /\ now \in Nat
    /\ erased \subseteq Content
    /\ MembersHaveEpisodes
    /\ ErasedIsUnquoted
    /\ call \in [Thread -> Call]
    /\ \A t \in Thread : StageOK(call[t])
    /\ \A t \in Thread : PreparedIn(call[t], There(episode), erased)
BY DEF PipelineInv, EpisodesInv, StageOK

-----------------------------------------------------------------------------
(* The actions. *)

LEMMA InitPipeline == Init => PipelineInv
<1> SUFFICES ASSUME Init PROVE PipelineInv
  OBVIOUS
<1>1. \A th \in Thread : call[th] = Idle
  BY DEF Init
<1> QED
  BY <1>1, IdleIsPrepared
  DEF Init, PipelineInv, EpisodesInv, MembersHaveEpisodes, ErasedIsUnquoted, Stored, StageOK

LEMMA IngestKeeps ==
  ASSUME PipelineInv, NEW th \in Thread, NEW items \in Items, Ingest(th, items)
  PROVE  PipelineInv'
<1> DEFINE c == [Idle EXCEPT !.pc = "find", !.todo = items]
<1>1. items \in Seq(Item) /\ items # <<>>
  BY ConstantsOK, SeqDef DEF Items
<1>2. c \in Call /\ StageOK(c)
  <2>1. c \in Call
    BY <1>1, IdleIsPrepared DEF Call
  <2>2. c.pc = "find" /\ c.todo = items
    BY DEF Idle
  <2> QED
    BY <1>1, <2>1, <2>2 DEF StageOK
<1>3. There(episode') = There(episode) /\ erased' \subseteq erased
  BY DEF Ingest, There
<1>4. PreparedIn(c, There(episode'), erased')
  BY DEF PreparedIn, Idle, Ingest
<1>5. Goto(th, c)
  BY DEF Ingest
<1>6. /\ call' \in [Thread -> Call]
      /\ \A t \in Thread : StageOK(call'[t])
      /\ \A t \in Thread : PreparedIn(call'[t], There(episode'), erased')
  BY <1>2, <1>3, <1>4, <1>5, StepOfOne
<1> QED
  BY <1>3, <1>6
  DEF PipelineInv, EpisodesInv, MembersHaveEpisodes, ErasedIsUnquoted, Ingest, Stored, StageOK

\* The draft quotes the item, or what an episode already quotes.
LEMMA FindKeeps ==
  ASSUME PipelineInv, NEW th \in Thread, Find(th)
  PROVE  PipelineInv'
<1> DEFINE old == call[th]
           item == Head(old.todo)
<1>1. /\ old \in Call /\ old.pc = "find" /\ old.todo # <<>>
      /\ PreparedIn(old, There(episode), erased)
  BY DEF PipelineInv, EpisodesInv, Find
<1>2. item \in Item /\ item = old.todo[1] /\ 1 \in DOMAIN old.todo
  BY <1>1 DEF Call
<1>3. item.content \in Content \ erased
  BY <1>1, <1>2 DEF PreparedIn, Item
<1>4. PICK id \in EpisodeId, draft \in Episode :
        /\ Goto(th, [old EXCEPT !.pc = "episode", !.id = id, !.draft = draft])
        /\ draft.preview \notin erased
  <2>1. CASE \E e \in Newest(item) : \E draft \in Joined(item, e) :
               Goto(th, [old EXCEPT !.pc = "episode", !.id = e, !.draft = draft])
    <3>1. PICK e \in Newest(item) : \E draft \in Joined(item, e) :
               Goto(th, [old EXCEPT !.pc = "episode", !.id = e, !.draft = draft])
      BY <2>1
    <3>2. PICK draft \in Joined(item, e) :
               Goto(th, [old EXCEPT !.pc = "episode", !.id = e, !.draft = draft])
      BY <3>1
    <3>3. e \in EpisodeId /\ episode[e] \in Episode
      BY AbsentIsAbsent DEF Newest, PipelineInv, EpisodesInv
    <3>4. /\ episode[e].preview \notin erased
          /\ NoPreview \notin erased
      BY <3>3, AbsentIsAbsent, ConstantsOK
      DEF PipelineInv, EpisodesInv, ErasedIsUnquoted, NoPreview
    <3>5. PICK quoted \in {episode[e].preview, NoPreview, item.content} :
            draft = [episode[e] EXCEPT !.count = @ + 1, !.ended = now, !.preview = quoted]
      BY DEF Joined
    <3>6. quoted \in (Content \union {NoPreview}) \ erased
      BY <1>3, <3>3, <3>4, <3>5 DEF Episode
    <3>7. now \in Nat /\ episode[e].count + 1 \in Nat /\ draft.preview = quoted
      BY <3>3, <3>5 DEF Episode, PipelineInv, EpisodesInv
    <3>8. draft \in Episode /\ draft.preview \notin erased
      BY <3>3, <3>5, <3>6, <3>7 DEF Episode
    <3> QED
      BY <3>2, <3>3, <3>8
  <2>2. CASE Goto(th, [old EXCEPT !.pc = "episode", !.draft = FirstOf(item),
               !.id = IF item.label = AutoDetect THEN item.key ELSE item.label])
    <3>1. (IF item.label = AutoDetect THEN item.key ELSE item.label) \in EpisodeId
      BY <1>2 DEF Item, EpisodeId
    <3>2. FirstOf(item) \in Episode /\ FirstOf(item).preview \notin erased
      BY <1>2, <1>3 DEF FirstOf, Episode, Item, PipelineInv, EpisodesInv
    <3>3. [old EXCEPT !.pc = "episode", !.draft = FirstOf(item),
               !.id = IF item.label = AutoDetect THEN item.key ELSE item.label]
          = [old EXCEPT !.pc = "episode",
               !.id = IF item.label = AutoDetect THEN item.key ELSE item.label,
               !.draft = FirstOf(item)]
      BY <1>1 DEF Call
    <3> QED
      BY <2>2, <3>1, <3>2, <3>3
  <2>3. \/ \E e \in Newest(item) : \E draft \in Joined(item, e) :
               Goto(th, [old EXCEPT !.pc = "episode", !.id = e, !.draft = draft])
        \/ Goto(th, [old EXCEPT !.pc = "episode", !.draft = FirstOf(item),
               !.id = IF item.label = AutoDetect THEN item.key ELSE item.label])
    BY DEF Find
  <2> QED
    BY <2>1, <2>2, <2>3
<1> DEFINE c == [old EXCEPT !.pc = "episode", !.id = id, !.draft = draft]
<1>5. c \in Call /\ StageOK(c)
  BY <1>1, ConstantsOK DEF Call, StageOK, EpisodeId
<1>6. There(episode') = There(episode) /\ erased' = erased
  BY DEF Find, There
<1>7. PreparedIn(c, There(episode'), erased')
  BY <1>1, <1>4, <1>6 DEF PreparedIn, Call
<1>8. /\ call' \in [Thread -> Call]
      /\ \A t \in Thread : StageOK(call'[t])
      /\ \A t \in Thread : PreparedIn(call'[t], There(episode'), erased')
  BY <1>4, <1>5, <1>6, <1>7, StepOfOne
<1> QED
  BY <1>8
  DEF PipelineInv, EpisodesInv, MembersHaveEpisodes, ErasedIsUnquoted, Find, Stored, StageOK

\* The episode is there when the item counts as prepared.
LEMMA WriteEpisodeKeeps ==
  ASSUME PipelineInv, NEW th \in Thread, WriteEpisode(th)
  PROVE  PipelineInv'
<1> DEFINE old == call[th]
           rest == Tail(old.todo)
           made == [key |-> Head(old.todo).key, content |-> Head(old.todo).content,
                    episode |-> old.id]
           c == [Idle EXCEPT !.pc = IF rest = <<>> THEN "write" ELSE "find", !.todo = rest,
                   !.ready = Append(old.ready, made)]
<1>1. /\ old \in Call /\ old.todo # <<>> /\ old.draft \in Episode
      /\ old.id \in EpisodeId /\ old.draft.preview \notin erased
      /\ PreparedIn(old, There(episode), erased)
  BY DEF PipelineInv, EpisodesInv, WriteEpisode, Call, PreparedIn
<1>2. /\ old.todo \in Seq(Item) /\ old.ready \in Seq(Prepared)
      /\ Head(old.todo) \in Item
  BY <1>1 DEF Call
<1>3. made \in Prepared
  BY <1>1, <1>2 DEF Prepared, Item
<1>4. /\ rest \in Seq(Item)
      /\ \A i \in DOMAIN rest : i + 1 \in DOMAIN old.todo /\ rest[i] = old.todo[i + 1]
  BY <1>1, <1>2
<1>5. /\ Append(old.ready, made) \in Seq(Prepared) /\ Append(old.ready, made) # <<>>
      /\ \A i \in DOMAIN Append(old.ready, made) :
           IF i \in DOMAIN old.ready THEN Append(old.ready, made)[i] = old.ready[i]
           ELSE Append(old.ready, made)[i] = made
  BY <1>2, <1>3
<1>6. /\ c.pc = (IF rest = <<>> THEN "write" ELSE "find")
      /\ c.todo = rest /\ c.ready = Append(old.ready, made)
  BY DEF Idle
<1>7. c \in Call
  BY <1>4, <1>5, IdleIsPrepared DEF Call
<1>8. /\ episode' \in [EpisodeId -> Episode \union {NoEpisode}]
      /\ episode'[old.id] \in Episode /\ episode'[old.id].preview = old.draft.preview
      /\ \A e \in EpisodeId \ {old.id} : episode'[e] = episode[e]
  <2>1. episode \in [EpisodeId -> Episode \union {NoEpisode}]
    BY DEF PipelineInv, EpisodesInv
  <2>2. episode' = [episode EXCEPT ![old.id] =
          IF @ = NoEpisode THEN old.draft
          ELSE [@ EXCEPT !.ended = old.draft.ended, !.count = old.draft.count,
                         !.preview = old.draft.preview]]
    BY DEF WriteEpisode
  <2>3. CASE episode[old.id] = NoEpisode
    BY <1>1, <2>1, <2>2, <2>3
  <2>4. CASE episode[old.id] # NoEpisode
    <3>1. episode[old.id] \in Episode
      BY <1>1, <2>1, <2>4
    <3>2. [episode[old.id] EXCEPT !.ended = old.draft.ended, !.count = old.draft.count,
             !.preview = old.draft.preview] \in Episode
      BY <1>1, <3>1 DEF Episode
    <3> QED
      BY <1>1, <2>1, <2>2, <2>4, <3>1, <3>2 DEF Episode
  <2> QED
    BY <2>3, <2>4
<1>9. There(episode') = There(episode) \union {old.id} /\ erased' = erased
  BY <1>1, <1>8, AbsentIsAbsent DEF There, WriteEpisode
<1>10. StageOK(c) /\ PreparedIn(c, There(episode'), erased')
  <2>1. StageOK(c)
    BY <1>5, <1>6 DEF StageOK
  <2>2. \A i \in DOMAIN c.ready : c.ready[i].episode \in There(episode')
    BY <1>1, <1>5, <1>6, <1>9 DEF PreparedIn
  <2>3. \A i \in DOMAIN c.todo : c.todo[i].content \notin erased'
    BY <1>1, <1>4, <1>6, <1>9 DEF PreparedIn
  <2> QED
    BY <1>6, <2>1, <2>2, <2>3 DEF PreparedIn
<1>11. Goto(th, c)
  BY DEF WriteEpisode
<1>12. /\ call' \in [Thread -> Call]
       /\ \A t \in Thread : StageOK(call'[t])
       /\ \A t \in Thread : PreparedIn(call'[t], There(episode'), erased')
  BY <1>7, <1>9, <1>10, <1>11, StepOfOne
<1>13. ErasedIsUnquoted'
  BY <1>1, <1>8, <1>9 DEF PipelineInv, ErasedIsUnquoted
<1>14. MembersHaveEpisodes'
  <2>1. row' = row
    BY DEF WriteEpisode
  <2>2. \A k \in Stored : row[k].episode # NoId => row[k].episode \in There(episode)
    <3> TAKE k \in Stored
    <3>1. row[k] \in Row /\ k \in Key
      BY DEF PipelineInv, EpisodesInv, Stored
    <3> QED
      BY <3>1 DEF PipelineInv, MembersHaveEpisodes, There, Row
  <2>3. \A e \in There(episode') : episode'[e] # NoEpisode
    BY DEF There
  <2> QED
    BY <1>9, <2>1, <2>2, <2>3 DEF MembersHaveEpisodes, Stored
<1> QED
  BY <1>8, <1>12, <1>13, <1>14 DEF PipelineInv, EpisodesInv, WriteEpisode, StageOK

\* Every row written is one of the prepared items.
LEMMA WriteRowsKeeps ==
  ASSUME PipelineInv, NEW th \in Thread, WriteRows(th)
  PROVE  PipelineInv'
<1> DEFINE ready == call[th].ready
           Of(k) == {i \in DOMAIN ready : ready[i].key = k}
           First(k) == ready[CHOOSE i \in Of(k) : \A j \in Of(k) : i <= j]
           Last(k) == ready[CHOOSE i \in Of(k) : \A j \in Of(k) : j <= i]
<1>1. ready \in Seq(Prepared) /\ \A i \in DOMAIN ready : ready[i].episode \in There(episode)
  BY DEF PipelineInv, EpisodesInv, Call, PreparedIn
<1>2. ASSUME NEW k \in Key, Of(k) # {}
      PROVE  /\ First(k) \in Prepared /\ First(k).episode \in There(episode)
             /\ Last(k) \in Prepared
  <2>1. Of(k) \in SUBSET (1 .. Len(ready)) /\ Of(k) \in SUBSET Nat /\ Len(ready) \in Nat
    BY <1>1
  <2>2. \E i \in Of(k) : \A j \in Of(k) : i <= j
    BY <1>2, <2>1, FirstIndex
  <2>3. \E i \in Of(k) : \A j \in Of(k) : j <= i
    BY <1>2, <2>1, LastIndex
  <2>4. /\ (CHOOSE i \in Of(k) : \A j \in Of(k) : i <= j) \in DOMAIN ready
        /\ (CHOOSE i \in Of(k) : \A j \in Of(k) : j <= i) \in DOMAIN ready
    BY <2>2, <2>3
  <2>5. \A i \in DOMAIN ready : ready[i] \in Prepared /\ ready[i].episode \in There(episode)
    BY <1>1
  <2> QED
    BY <2>4, <2>5, Zenon
<1>3. row' = [k \in Key |->
        IF Of(k) = {} THEN row[k]
        ELSE [content |-> Last(k).content,
              episode |-> IF row[k] = NoRow THEN First(k).episode ELSE row[k].episode]]
  BY DEF WriteRows
<1> HIDE DEF Of, First, Last
<1>4. episode' = episode /\ erased' = erased /\ now' = now /\ Goto(th, Idle)
  BY DEF WriteRows
<1>5. ASSUME NEW k \in Key
      PROVE  /\ row'[k] \in Row \union {NoRow}
             /\ row'[k] # NoRow /\ row'[k].episode # NoId => row'[k].episode \in There(episode)
  <2>1. /\ row[k] \in Row \union {NoRow}
        /\ row[k] # NoRow /\ row[k].episode # NoId => row[k].episode \in There(episode)
    BY DEF PipelineInv, EpisodesInv, MembersHaveEpisodes, Stored, There, Row
  <2>2. CASE Of(k) = {}
    BY <1>3, <2>1, <2>2
  <2>3. CASE Of(k) # {} /\ row[k] = NoRow
    <3>1. row'[k] = [content |-> Last(k).content, episode |-> First(k).episode]
      BY <1>3, <2>3
    <3> QED
      BY <1>2, <2>3, <3>1 DEF Row, Prepared, There
  <2>4. CASE Of(k) # {} /\ row[k] # NoRow
    <3>1. row'[k] = [content |-> Last(k).content, episode |-> row[k].episode]
      BY <1>3, <2>4
    <3> QED
      BY <1>2, <2>1, <2>4, <3>1 DEF Row, Prepared
  <2> QED
    BY <2>2, <2>3, <2>4
<1>7. /\ call' \in [Thread -> Call]
      /\ \A t \in Thread : StageOK(call'[t])
      /\ \A t \in Thread : PreparedIn(call'[t], There(episode'), erased')
  BY <1>4, IdleIsPrepared, StepOfOne DEF There
<1>8. MembersHaveEpisodes' /\ ErasedIsUnquoted'
  BY <1>4, <1>5
  DEF PipelineInv, MembersHaveEpisodes, ErasedIsUnquoted, Stored, There
<1>9. row' \in [Key -> Row \union {NoRow}]
  BY <1>3, <1>5
<1> QED
  BY <1>4, <1>7, <1>8, <1>9 DEF PipelineInv, EpisodesInv, StageOK

\* What ends a call, or only moves the clock or the rows that no episode counts.
LEMMA IngestFailsKeeps ==
  ASSUME PipelineInv, NEW th \in Thread, IngestFails(th)
  PROVE  PipelineInv'
<1>1. Goto(th, Idle) /\ There(episode') = There(episode) /\ erased' = erased
  BY DEF IngestFails, There
<1>2. /\ call' \in [Thread -> Call]
      /\ \A t \in Thread : StageOK(call'[t])
      /\ \A t \in Thread : PreparedIn(call'[t], There(episode'), erased')
  BY <1>1, IdleIsPrepared, StepOfOne
<1> QED
  BY <1>2
  DEF PipelineInv, EpisodesInv, MembersHaveEpisodes, ErasedIsUnquoted, IngestFails, Stored,
      StageOK

LEMMA ActivityKeeps ==
  ASSUME PipelineInv, NEW k \in Key, NEW v \in Content, Activity(k, v)
  PROVE  PipelineInv'
<1>1. /\ row \in [Key -> Row \union {NoRow}]
      /\ row' = [row EXCEPT ![k] =
           IF @ = NoRow THEN [content |-> v, episode |-> NoId] ELSE [@ EXCEPT !.content = v]]
      /\ erased' = erased \ {v} /\ episode' = episode /\ call' = call /\ now' = now
  BY DEF PipelineInv, EpisodesInv, Activity
<1>2. /\ row'[k] \in Row
      /\ row[k] = NoRow => row'[k].episode = NoId
      /\ row[k] # NoRow => row'[k].episode = row[k].episode
  <2>1. CASE row[k] = NoRow
    BY <1>1, <2>1 DEF Row
  <2>2. CASE row[k] # NoRow
    <3>1. row[k] \in Row /\ row'[k] = [row[k] EXCEPT !.content = v]
      BY <1>1, <2>2
    <3> QED
      BY <2>2, <3>1 DEF Row
  <2> QED
    BY <2>1, <2>2
<1>3. row' \in [Key -> Row \union {NoRow}]
  BY <1>1, <1>2
<1>4. MembersHaveEpisodes'
  BY <1>1, <1>2 DEF PipelineInv, MembersHaveEpisodes, Stored
<1>5. ErasedIsUnquoted' /\ \A t \in Thread : PreparedIn(call'[t], There(episode'), erased')
  BY <1>1 DEF PipelineInv, ErasedIsUnquoted, PreparedIn, There
<1> QED
  BY <1>1, <1>3, <1>4, <1>5 DEF PipelineInv, EpisodesInv

LEMMA PruneKeeps ==
  ASSUME PipelineInv, NEW keys \in SUBSET Key, Prune(keys)
  PROVE  PipelineInv'
<1>1. /\ row' = [k \in Key |-> IF k \in keys THEN NoRow ELSE row[k]]
      /\ erased' = erased /\ episode' = episode /\ call' = call /\ now' = now
  BY DEF Prune
<1>2. row' \in [Key -> Row \union {NoRow}]
  BY <1>1 DEF PipelineInv, EpisodesInv
<1>3. MembersHaveEpisodes' /\ ErasedIsUnquoted'
  BY <1>1 DEF PipelineInv, MembersHaveEpisodes, ErasedIsUnquoted, Stored
<1> QED
  BY <1>1, <1>2, <1>3 DEF PipelineInv, EpisodesInv, There

LEMMA TickKeeps == ASSUME PipelineInv, Tick PROVE PipelineInv'
BY DEF PipelineInv, EpisodesInv, MembersHaveEpisodes, ErasedIsUnquoted, Tick, Stored, There

LEMMA CrashKeeps == ASSUME PipelineInv, Crash PROVE PipelineInv'
<1>1. /\ call' = [t \in Thread |-> Idle]
      /\ UNCHANGED <<row, episode, now, erased>>
  BY DEF Crash
<1>2. /\ call' \in [Thread -> Call]
      /\ \A t \in Thread : StageOK(call'[t])
      /\ \A t \in Thread : PreparedIn(call'[t], There(episode'), erased')
  BY <1>1, IdleIsPrepared
<1> QED
  BY <1>1, <1>2
  DEF PipelineInv, EpisodesInv, MembersHaveEpisodes, ErasedIsUnquoted, Stored, StageOK

\* Forget runs alone; the episodes it removes have no member left, and those it
\* keeps no longer quote what it erases.
LEMMA ForgetKeeps ==
  ASSUME Exclusive, PipelineInv, NEW k \in Key, Forget(k)
  PROVE  PipelineInv'
<1> DEFINE v == row[k].content
<1>1. /\ row \in [Key -> Row \union {NoRow}]
      /\ episode \in [EpisodeId -> Episode \union {NoEpisode}]
      /\ erased \subseteq Content /\ row[k] \in Row /\ v \in Content
  BY DEF PipelineInv, EpisodesInv, Forget, Row
<1>2. /\ row' = [row EXCEPT ![k] = NoRow]
      /\ erased' = erased \union {v} /\ now' = now /\ call' = call
  BY DEF Forget
<1>3. row' \in [Key -> Row \union {NoRow}]
  BY <1>1, <1>2
<1>4. \A t \in Thread : PreparedIn(call'[t], There(episode'), erased')
  <2>1. \A t \in Thread : call[t] = Idle
    BY DEF PipelineInv, PreparedIn, Forget
  <2> QED
    BY <1>2, <2>1, IdleIsPrepared
<1>5. ASSUME NEW e \in EpisodeId
      PROVE  /\ Scrubbed(e, k) \in Episode \union {NoEpisode}
             /\ Scrubbed(e, k) = NoEpisode <=> episode[e] = NoEpisode
             /\ episode[e] # NoEpisode => Scrubbed(e, k).preview \notin erased \union {v}
  <2>1. episode[e] # NoEpisode => episode[e] \in Episode /\ episode[e].preview \notin erased
    BY <1>1, <1>5 DEF PipelineInv, ErasedIsUnquoted
  <2>2. NoPreview \notin erased \union {v}
    BY <1>1, ConstantsOK DEF NoPreview
  <2>3. CASE episode[e] # NoEpisode /\ episode[e].preview = v
    <3>1. Scrubbed(e, k) = [episode[e] EXCEPT !.preview = NoPreview]
      BY <2>3 DEF Scrubbed
    <3>2. Scrubbed(e, k) \in Episode /\ Scrubbed(e, k).preview = NoPreview
      BY <2>1, <2>3, <3>1 DEF Episode
    <3> QED
      BY <2>2, <2>3, <3>2, AbsentIsAbsent
  <2>4. CASE ~(episode[e] # NoEpisode /\ episode[e].preview = v)
    <3>1. Scrubbed(e, k) = episode[e]
      BY <2>4 DEF Scrubbed
    <3> QED
      BY <1>1, <1>5, <2>1, <2>4, <3>1
  <2> QED
    BY <2>3, <2>4
<1>6. episode' = [e \in EpisodeId |->
        IF e # row[k].episode \/ episode[e] = NoEpisode THEN Scrubbed(e, k)
        ELSE IF Members(row', e) = {} THEN NoEpisode
        ELSE [Scrubbed(e, k) EXCEPT !.count = Cardinality(Members(row', e))]]
  BY DEF Forget
<1>7. ASSUME NEW e \in EpisodeId
      PROVE  /\ episode'[e] \in Episode \union {NoEpisode}
             /\ episode'[e] # NoEpisode => episode'[e].preview \notin erased'
             /\ episode'[e] = NoEpisode => episode[e] = NoEpisode \/ Members(row', e) = {}
  <2>1. CASE e # row[k].episode \/ episode[e] = NoEpisode
    BY <1>2, <1>5, <1>6, <2>1
  <2>2. CASE e = row[k].episode /\ episode[e] # NoEpisode /\ Members(row', e) = {}
    BY <1>6, <2>2
  <2>3. CASE e = row[k].episode /\ episode[e] # NoEpisode /\ Members(row', e) # {}
    <3>1. Scrubbed(e, k) \in Episode /\ Scrubbed(e, k).preview \notin erased \union {v}
      BY <1>5, <2>3
    <3>2. episode'[e] = [Scrubbed(e, k) EXCEPT !.count = Cardinality(Members(row', e))]
      BY <1>6, <2>3
    <3>3. Cardinality(Members(row', e)) \in Nat
      BY <1>3, ConstantsOK, FS_Subset, FS_CardinalityType DEF Members
    <3>4. episode'[e] \in Episode /\ episode'[e].preview = Scrubbed(e, k).preview
      BY <3>1, <3>2, <3>3 DEF Episode
    <3> QED
      BY <1>2, <3>1, <3>4, AbsentIsAbsent
  <2> QED
    BY <2>1, <2>2, <2>3
<1>8. episode' \in [EpisodeId -> Episode \union {NoEpisode}] /\ erased' \subseteq Content
  BY <1>1, <1>2, <1>6, <1>7
<1>9. ErasedIsUnquoted'
  BY <1>7 DEF ErasedIsUnquoted
<1>10. MembersHaveEpisodes'
  <2> SUFFICES ASSUME NEW m \in Key, row'[m] # NoRow, row'[m].episode # NoId
               PROVE  episode'[row'[m].episode] # NoEpisode
    BY DEF MembersHaveEpisodes, Stored
  <2>1. row'[m] = row[m] /\ row[m] \in Row
    BY <1>1, <1>2
  <2>2. row[m].episode \in EpisodeId /\ episode[row[m].episode] # NoEpisode
    BY <2>1 DEF PipelineInv, MembersHaveEpisodes, Stored, Row
  <2>3. m \in Members(row', row[m].episode)
    BY <2>1 DEF Members
  <2> QED
    BY <1>7, <2>1, <2>2, <2>3
<1> QED
  BY <1>2, <1>3, <1>4, <1>8, <1>9, <1>10 DEF PipelineInv, EpisodesInv

-----------------------------------------------------------------------------
(* The theorems. *)

LEMMA StepPipeline == Exclusive /\ PipelineInv /\ [Next]_vars => PipelineInv'
<1> SUFFICES ASSUME Exclusive, PipelineInv, [Next]_vars PROVE PipelineInv'
  OBVIOUS
<1>1. CASE \E th \in Thread : ThreadStep(th)
  BY <1>1, IngestKeeps, FindKeeps, WriteEpisodeKeeps, WriteRowsKeeps, IngestFailsKeeps
  DEF ThreadStep
<1>2. CASE \E k \in Key, v \in Content : Activity(k, v)
  BY <1>2, ActivityKeeps
<1>3. CASE \E k \in Key : Forget(k)
  BY <1>3, ForgetKeeps
<1>4. CASE \E keys \in SUBSET Key : Prune(keys)
  BY <1>4, PruneKeeps
<1>5. CASE Tick
  BY <1>5, TickKeeps
<1>6. CASE Crash
  BY <1>6, CrashKeeps
<1>7. CASE UNCHANGED vars
  BY <1>7
  DEF vars, PipelineInv, EpisodesInv, MembersHaveEpisodes, ErasedIsUnquoted, Stored,
      There
<1> QED
  BY <1>1, <1>2, <1>3, <1>4, <1>5, <1>6, <1>7 DEF Next

LEMMA PipelineInvariant == ASSUME Exclusive PROVE Spec => []PipelineInv
<1>1. Init => PipelineInv
  BY InitPipeline
<1>2. PipelineInv /\ [Next]_vars => PipelineInv'
  BY StepPipeline
<1> QED
  BY <1>1, <1>2, PTL DEF Spec

\* Every variable has its type and every call is at the stage its items say, for
\* any number of ingests (prepare_ingest, ingest_batch_with).
THEOREM EpisodesTyped == ASSUME Exclusive PROVE Spec => []EpisodesInv
<1>1. PipelineInv => EpisodesInv
  BY DEF PipelineInv
<1> QED
  BY <1>1, PipelineInvariant, PTL

\* Whatever fails between the episode and the memory, a memory's episode is there
\* (prepare_ingest, delete_memory_by_key).
THEOREM MembersKeepEpisodes == ASSUME Exclusive PROVE Spec => []MembersHaveEpisodes
<1>1. PipelineInv => MembersHaveEpisodes
  BY DEF PipelineInv
<1> QED
  BY <1>1, PipelineInvariant, PTL

\* No episode quotes what forget has erased, however many episodes quoted it and
\* whichever ingests ended in between (delete_memory_by_key).
THEOREM ErasedStaysUnquoted == ASSUME Exclusive PROVE Spec => []ErasedIsUnquoted
<1>1. PipelineInv => ErasedIsUnquoted
  BY DEF PipelineInv
<1> QED
  BY <1>1, PipelineInvariant, PTL
=============================================================================
