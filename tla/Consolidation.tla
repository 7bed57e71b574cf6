--------------------------- MODULE Consolidation ---------------------------
(***************************************************************************)
(* Layered memory: sources are hidden from recall behind a summary that    *)
(* stands for them.                                                        *)
(*                                                                         *)
(*   crates/spectral-graph/src/brain.rs          consolidate_with          *)
(*   crates/spectral-ingest/src/sqlite_store.rs  consolidate_into, what    *)
(*                         deletes rows, and the searches that skip them   *)
(*   crates/spectral-archivist/src/decay.rs      the scores over time      *)
(*                                                                         *)
(* consolidate_with reads its sources one by one, writes the summary and   *)
(* links the sources to it, each in a transaction of its own; other        *)
(* threads, failures and the end of the process come between.  The linking *)
(* is one transaction, whose statements are steps here: what it has done   *)
(* is its own until it commits.  A memory is its key; a score is a number  *)
(* of equal parts of 1.0.                                                  *)
(***************************************************************************)
EXTENDS Integers, Sequences, FiniteSets, Functions

CONSTANTS
  Thread,
  Key,
  Requests,  \* the calls that hosts make
  Batches,   \* the sets of memories that are pruned or reinforced together
  Given,     \* the memories there at first
  Cap,       \* the greatest score
  Initial,   \* the score of a memory when it is written first
  MaxOps     \* bound on the calls made and the changes to rows

ASSUME ConsolidationConstants ==
  /\ IsFiniteSet(Key) /\ "none" \notin Thread /\ Cap \in Nat /\ Initial \in 0 .. Cap /\ MaxOps \in Nat
  /\ Batches \subseteq SUBSET Key /\ Given \subseteq SUBSET Key
  /\ Requests \subseteq [sources : Seq(Key), target : Key, summarise : BOOLEAN, abort : BOOLEAN]

VARIABLES
  present,  \* the keys that have a row of the memories table
  edge,     \* consolidation_edges: pairs <<source, target>>
  score,    \* signal_score of each key present
  lock,     \* the thread whose transaction is open, or none
  call,     \* the call each thread is in
  nested,   \* history: a link was made to a memory that was itself hidden
  pruned,   \* history: keys whose rows went while their edges stayed
  ops       \* how many calls were made and rows changed, up to the bound

vars == <<present, edge, score, lock, call, nested, pruned, ops>>

Nobody == "none"
NoRequest == [sources |-> <<>>, target |-> "none", summarise |-> FALSE, abort |-> FALSE]

\* A call: the step it is at, the request and the place of its next source, the
\* sources it has read and the keys written since, and the edges of its
\* transaction, with the sources linked and the sum of their scores.
Call == [pc : {"idle", "gather", "begin", "link"}, req : Requests \union {NoRequest}, next : Nat \ {0},
         read : SUBSET Key, touched : SUBSET Key, edges : SUBSET (Key \X Key), linked : SUBSET Key,
         gain : Nat]
Idle == [pc |-> "idle", req |-> NoRequest, next |-> 1, read |-> {}, touched |-> {},
         edges |-> {}, linked |-> {}, gain |-> 0]

TypeOK ==
  /\ present \subseteq Key /\ edge \subseteq Key \X Key
  /\ score \in [Key -> 0 .. Cap]
  /\ lock \in Thread \union {Nobody}
  /\ call \in [Thread -> Call]
  /\ nested \in BOOLEAN /\ pruned \subseteq Key /\ ops \in 0 .. MaxOps

Init ==
  /\ present \in Given /\ edge = {}
  /\ score = [k \in Key |-> IF k \in present THEN Initial ELSE 0]
  /\ lock = Nobody
  /\ call = [th \in Thread |-> Idle]
  /\ nested = FALSE /\ pruned = {} /\ ops = 0

TargetsIn(edges, k) == {t \in Key : <<k, t>> \in edges}
\* What fts_search and fingerprint_search leave out.
HiddenIn(edges) == {k \in Key : TargetsIn(edges, k) # {}}
Hidden == HiddenIn(edge)

Counted == ops < MaxOps /\ ops' = ops + 1
Goto(th, l) == call' = [call EXCEPT ![th] = l]
Return(th) == Goto(th, Idle)
At(th, pc) == call[th].pc = pc
Source(l) == l.req.sources[l.next]
Exhausted(l) == l.next > Len(l.req.sources)
\* The call at another step, and after its current source.
To(l, pc) == [l EXCEPT !.pc = pc]
Past(l) == [l EXCEPT !.next = @ + 1]

-----------------------------------------------------------------------------
(* The rows. *)

\* A row is new or keeps its score; calls under way have not read this one.
Put(k) ==
  /\ present' = present \union {k}
  /\ score' = [score EXCEPT ![k] = IF k \in present THEN @ ELSE Initial]
Touched(l, k) == IF l.pc = "idle" THEN l ELSE [l EXCEPT !.touched = @ \union {k}]

Remember(k) ==
  /\ Counted
  /\ lock = Nobody
  /\ Put(k)
  /\ call' = [th \in Thread |-> Touched(call[th], k)]
  /\ UNCHANGED <<edge, lock, nested, pruned>>

\* forget deletes the edges of both sides.
delete_memory_by_key_sources(k) ==
  /\ Counted
  /\ lock = Nobody /\ k \in present
  /\ present' = present \ {k}
  /\ edge' = {e \in edge : e[1] # k}
  /\ UNCHANGED <<score, lock, call, nested, pruned>>
delete_memory_by_key(k) ==
  /\ Counted
  /\ lock = Nobody /\ k \in present
  /\ present' = present \ {k}
  /\ edge' = {e \in edge : k \notin {e[1], e[2]}}
  /\ UNCHANGED <<score, lock, call, nested, pruned>>

\* delete_wing_memories_before, prune_wing_keeping_recent_per_source and the
\* retractions of federation delete rows: a foreign key takes the edges of the
\* sources among them, none those of the targets.
DeleteRows(keys) ==
  /\ Counted
  /\ lock = Nobody /\ keys # {} /\ keys \subseteq present
  /\ present' = present \ keys
  /\ edge' = {e \in edge : e[1] \notin keys}
  /\ pruned' = pruned \union {e[2] : e \in {e \in edge' : e[2] \in keys}}
  /\ UNCHANGED <<score, lock, call, nested>>

\* The archivist lowers the scores of the rows not reinforced and raises those of
\* the others, as far as they go.
apply_decay(reinforced) ==
  /\ Counted
  /\ lock = Nobody
  /\ score' = [k \in Key |->
                 IF k \notin present THEN score[k]
                 ELSE IF k \in reinforced THEN (IF score[k] < Cap THEN score[k] + 1 ELSE Cap)
                 ELSE IF score[k] > 0 THEN score[k] - 1 ELSE 0]
  /\ UNCHANGED <<present, edge, lock, call, nested, pruned>>

-----------------------------------------------------------------------------
(* consolidate_with: the sources that are there are read, then the summary is   *)
(* written as a memory like any other.                                          *)

Start(th, r) ==
  /\ Counted
  /\ At(th, "idle")
  /\ Goto(th, [To(Idle, IF r.summarise THEN "gather" ELSE "begin") EXCEPT !.req = r])
  /\ UNCHANGED <<present, edge, score, lock, nested, pruned>>

Gathered_without_hidden(l) == {Source(l)} \intersect (present \ Hidden)
Gathered(l) == {Source(l)} \intersect present
Gather(th) ==
  LET l == call[th] IN
  /\ At(th, "gather") /\ ~Exhausted(l)
  /\ Goto(th, [Past(l) EXCEPT !.read = @ \union Gathered(l)])
  /\ UNCHANGED <<present, edge, score, lock, nested, pruned, ops>>

\* Without a source there is nothing to summarise.
WriteSummary(th) ==
  LET l == call[th] IN
  /\ At(th, "gather") /\ Exhausted(l)
  /\ IF l.read = {}
     THEN Return(th) /\ UNCHANGED <<present, score>>
     ELSE /\ lock = Nobody
          /\ Put(l.req.target)
          /\ call' = [x \in Thread |->
               IF x = th THEN [To(l, "begin") EXCEPT !.next = 1]
               ELSE Touched(call[x], l.req.target)]
  /\ UNCHANGED <<edge, lock, nested, pruned, ops>>

-----------------------------------------------------------------------------
(* consolidate_into. *)

\* Without its target the call fails.
BeginTx(th) ==
  LET l == call[th] IN
  /\ At(th, "begin") /\ lock = Nobody
  /\ IF l.req.target \in present
     THEN lock' = th /\ Goto(th, [To(l, "link") EXCEPT !.edges = edge])
     ELSE Return(th) /\ UNCHANGED lock
  /\ UNCHANGED <<present, edge, score, nested, pruned, ops>>

\* The source goes behind the target, and so does what was behind the source.
Linked_without_chains(edges, s, t) == edges \union {<<s, t>>}
Linked(edges, s, t) ==
  edges \union {<<s, t>>}
        \union {<<x, t>> : x \in {x \in Key : <<x, s>> \in edges /\ x # t}}

\* A source that is the target, or missing, is skipped.  One that has edges is
\* judged by the first row found: when that is the target's it counts as linked
\* once more, otherwise it is skipped.
Skip(th) ==
  LET l == call[th]  s == Source(l)  t == l.req.target
  IN  /\ \/ s = t
         \/ s # t /\ s \notin present /\ ~l.req.abort
         \/ s # t /\ s \in present /\ TargetsIn(l.edges, s) \ {t} # {}
      /\ Goto(th, Past(l))
\* No score changes while the transaction is open, so each source's is added here.
WithGain(l, s) == [l EXCEPT !.gain = IF s \in l.linked THEN @ ELSE @ + score[s]]
WithLinked(l, s) == [Past(WithGain(l, s)) EXCEPT !.linked = @ \union {s}]
LinkAgain(th) ==
  LET l == call[th]  s == Source(l)  t == l.req.target
  IN  /\ s # t /\ s \in present /\ t \in TargetsIn(l.edges, s)
      /\ Goto(th, WithLinked(l, s))
LinkNew(th) ==
  LET l == call[th]  s == Source(l)  t == l.req.target
  IN  /\ s # t /\ s \in present /\ TargetsIn(l.edges, s) = {}
      /\ Goto(th, [WithLinked(l, s) EXCEPT !.edges = Linked(@, s, t)])
Link(th) ==
  /\ At(th, "link") /\ ~Exhausted(call[th])
  /\ Skip(th) \/ LinkAgain(th) \/ LinkNew(th)
  /\ UNCHANGED <<present, edge, score, lock, nested, pruned, ops>>

\* The target takes the scores of all it has linked.
Merged(l, t) ==
  LET sum == score[t] + l.gain
  IN  IF sum < Cap THEN sum ELSE Cap
CommitTx(th) ==
  LET l == call[th]  t == l.req.target
  IN  /\ At(th, "link") /\ Exhausted(l)
      /\ edge' = l.edges
      /\ score' = [score EXCEPT ![t] = IF l.linked = {} THEN @ ELSE Merged(l, t)]
      /\ lock' = Nobody /\ Return(th)
      /\ nested' = (nested \/ (edge' # edge /\ t \in Hidden))
      /\ UNCHANGED <<present, pruned, ops>>

\* An error rolls the transaction back.
RolledBack_not(th) == edge' = call[th].edges
RolledBack(th) == edge' = edge
Abort(th) ==
  LET l == call[th] IN
  /\ At(th, "link") /\ ~Exhausted(l)
  /\ Source(l) \notin present \union {l.req.target} /\ l.req.abort
  /\ RolledBack(th)
  /\ lock' = Nobody /\ Return(th)
  /\ UNCHANGED <<present, score, nested, pruned, ops>>

\* Any statement may fail.
Fail(th) ==
  /\ ~At(th, "idle")
  /\ RolledBack(th)
  /\ lock' = IF lock = th THEN Nobody ELSE lock
  /\ Return(th)
  /\ UNCHANGED <<present, score, nested, pruned, ops>>

\* The process dies, and with it a transaction that has not committed.
Crash ==
  /\ lock' = Nobody
  /\ call' = [th \in Thread |-> Idle]
  /\ UNCHANGED <<present, edge, score, nested, pruned, ops>>

Next ==
  \/ \E k \in Key : Remember(k) \/ delete_memory_by_key(k)
  \/ \E keys \in Batches : DeleteRows(keys) \/ apply_decay(keys)
  \/ \E th \in Thread :
       \/ \E r \in Requests : Start(th, r)
       \/ Gather(th) \/ WriteSummary(th)
       \/ BeginTx(th) \/ Link(th) \/ CommitTx(th) \/ Abort(th) \/ Fail(th)
  \/ Crash

Spec == Init /\ [][Next]_vars

-----------------------------------------------------------------------------
(* Properties. *)

\* The state is well formed, a transaction is open exactly while its thread links,
\* and an edge leads from a memory that is there to one that is ("so no edge
\* dangles", delete_memory_by_key), unless rows were pruned without their edges.
ConsolidationInv ==
  /\ TypeOK
  /\ \A th \in Thread : At(th, "link") <=> lock = th
  /\ \A e \in edge : e[1] \in present /\ e[2] \in present \union pruned

\* The memories that recall can return and whose sources s is among.
Fronts(s) == (TargetsIn(edge, s) \intersect present) \ Hidden

\* Whatever is hidden is one edge away from a memory that is there and not hidden, so
\* one look at the sources of what recall returns finds it: chains are flattened as
\* they grow, in whatever order consolidations and forgets come ("because the sources
\* stay reachable via recall_with_provenance").  The only exception is a memory one of
\* whose targets was pruned and is gone: it may stay hidden behind nothing.  All this
\* ends once a memory is linked to one that is hidden already, of which
\* consolidate_into does not ask.
SourcesStayReachable ==
  ~nested => \A s \in Hidden : Fronts(s) # {} \/ \E t \in TargetsIn(edge, s) : t \in pruned \ present

\* A memory that gets hidden gives its score to what hides it in the same step, up
\* to the cap, and none is hidden by a call that fails.
HiddenPaysTarget ==
  [][\A t \in Key :
       LET paid == {s \in Key \ Hidden : <<s, t>> \in edge'}
           sum == score[t] + SumFunctionOnSet(score, paid)
       IN  paid # {} => score'[t] >= IF sum < Cap THEN sum ELSE Cap]_vars

\* consolidate_with hides no memory that its summary was not made from, unless the
\* memory was written while the call was under way.
HiddenWasRead ==
  [][\A th \in Thread : call[th].req.summarise /\ At(th, "link") /\ ~(At(th, "link"))' =>
       Hidden' \ Hidden \subseteq call[th].read \union call[th].touched]_vars
=============================================================================
