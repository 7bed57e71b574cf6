--------------------------- MODULE KnowledgeGraph ---------------------------
(***************************************************************************)
(* Asserting facts: names are resolved against the ontology, unknown ones  *)
(* become entities of the ontology file, and the fact goes into the graph  *)
(* database, where it may replace an older one.                            *)
(*                                                                         *)
(*   crates/spectral-graph/src/brain.rs         assert, assert_typed,      *)
(*                 resolve_or_create, append_entity_to_ontology            *)
(*   crates/spectral-graph/src/ontology.rs      the file and its checks    *)
(*   crates/spectral-graph/src/canonicalize.rs  resolve_one                *)
(*   crates/spectral-graph/src/graph_store.rs   through FactLedger         *)
(*   crates/spectral-graph/src/supersession.rs  detect, adjudicate, retire *)
(*                                                                         *)
(* An assert is a sequence of steps over a file, a list in memory and a    *)
(* database.  Other threads run, a step fails and the process dies between *)
(* them.  An entity's id is its type and canonical name, a time is the     *)
(* clock's value when the code reads it.                                   *)
(***************************************************************************)
EXTENDS FactLedger, FiniteSets

CONSTANTS
  Thread,
  Mention,       \* the names an assert may use
  Type,          \* entity types
  Entity,        \* pairs <<type, name>>: those that may come to be
  Predicate,
  DomainTypes, RangeTypes, \* DomainTypes[p], RangeTypes[p]: the types predicate p relates
  SingleValued,  \* pairs <<p, type>>: functional for subjects of that type
  Given,         \* the ontology file's entities when the brain is created
  Strict,        \* EntityPolicy::Strict: an unknown name is an error
  Canon,         \* Canon[m]: what AutoCreateWithCanonicalizer's function returns
  Near,          \* Near[m]: the names similar enough to m to match it, the best first
  Calls,         \* the asserts the hosts make
  Modes,         \* the values of serial
  Limit,         \* how many slots one adjudication pass considers
  MaxRows,       \* bound on the rows asserted one at a time
  MaxOverlapped, \* bound on the rows asserted when asserts may overlap
  MaxTime        \* bound on the clock

Slot == Entity \X Predicate
NoEntity == <<"", "">>
Record == [id : Entity, aliases : SUBSET Mention]

ASSUME GraphConstants ==
  /\ Entity \subseteq Type \X Mention
  /\ DomainTypes \in [Predicate -> SUBSET Type] /\ RangeTypes \in [Predicate -> SUBSET Type]
  /\ SingleValued \subseteq Predicate \X Type
  /\ Given \in Seq(Record) /\ Strict \in BOOLEAN /\ Modes \subseteq BOOLEAN
  /\ Canon \in [Mention -> Mention] /\ Near \in [Mention -> Seq(Mention)]
  /\ NoEntity \notin Entity
  /\ Limit \in Nat /\ MaxRows \in Nat /\ MaxOverlapped \in Nat /\ MaxTime \in Nat \ {0}
\* assert takes the types from the predicate, assert_typed from its caller.
ASSUME CallsOK ==
  Calls \subseteq [s : Mention, p : Predicate, o : Mention, types : Type \X Type]
            \union [s : Mention, p : Predicate, o : Mention, types : {<<>>}]

VARIABLES
  file,     \* the entities in the ontology file, in order
  up,       \* the brain is open
  loaded,   \* Brain::ontology: the file's entities when it was opened
  runtime,  \* runtime_entities: those created since
  entity,   \* the entity table
  triple,   \* the triple table
  clock,
  call,     \* the Brain method each thread is in
  serial,   \* the host lets no two asserts overlap
  undone    \* history: undone[s] says whether an undo has touched slot s

names == <<file, up, loaded, runtime>>
vars == <<names, entity, triple, clock, call, serial, undone>>

\* pc is the step a call stands before; c its arguments, subj and obj the
\* entities resolved so far, at the time it took, todo the slots its
\* adjudication pass has still to judge, each with the objects listed for it.
PC == {"idle", "subject", "append subject", "object", "append object", "upsert subject",
       "upsert object", "write", "judge"}
NoCall == [s |-> "", p |-> "", o |-> "", types |-> <<>>]
Call == [pc : PC, c : Calls \union {NoCall}, subj : Entity \union {NoEntity},
         obj : Entity \union {NoEntity}, at : 0 .. MaxTime,
         todo : SUBSET (Slot \X SUBSET Entity)]
Idle == [pc |-> "idle", c |-> NoCall, subj |-> NoEntity, obj |-> NoEntity, at |-> 0,
         todo |-> {}]

Row == [from : Entity, pred : Predicate, to : Entity, at : 1 .. MaxTime,
        valid_to : 0 .. MaxTime, by : Nat]

TypeOK ==
  /\ file \in Seq(Record) /\ loaded \in Seq(Record) /\ runtime \in Seq(Record)
  /\ up \in BOOLEAN /\ serial \in BOOLEAN /\ clock \in 1 .. MaxTime
  /\ entity \subseteq Entity
  /\ triple \in Seq(Row)
  /\ call \in [Thread -> Call]
  /\ undone \in [Slot -> {"never", "undone", "late"}]

Init ==
  /\ file = Given /\ up = TRUE /\ loaded = Given /\ runtime = <<>>
  /\ entity = {} /\ triple = <<>> /\ clock = 1
  /\ call = [th \in Thread |-> Idle]
  /\ serial \in Modes
  /\ undone = [s \in Slot |-> "never"]

Goto(th, l) == call' = [call EXCEPT ![th] = l]
Return(th) == Goto(th, Idle)
At(th, pc) == up /\ call[th].pc = pc
Asserting(th) == call[th].pc \notin {"idle", "judge"}

-----------------------------------------------------------------------------
(* Names. *)

\* An ontology must not have an entity twice, and every type of a predicate must
\* have an entity.
validate(list) ==
  /\ \A i, j \in DOMAIN list : list[i].id = list[j].id => i = j
  /\ \A p \in Predicate : DomainTypes[p] \union RangeTypes[p] \subseteq {list[i].id[1] : i \in DOMAIN list}
ASSUME GivenOK == validate(Given)

\* The first entity of a list that has a name, as its own or as an alias.
First(list, m) ==
  LET hits == {i \in DOMAIN list : m \in {list[i].id[2]} \union list[i].aliases}
  IN  IF hits = {} THEN NoEntity ELSE list[CHOOSE i \in hits : \A j \in hits : i <= j].id
Best(list, ms) ==
  LET hits == {i \in DOMAIN ms : First(list, ms[i]) # NoEntity}
  IN  IF hits = {} THEN NoEntity ELSE First(list, ms[CHOOSE i \in hits : \A j \in hits : i <= j])

\* The ontology exactly, then by similarity; then the runtime entities.
resolve_one(ontology, m) ==
  IF First(ontology, m) # NoEntity THEN First(ontology, m) ELSE Best(ontology, Near[m])
Known_loaded_only(ontology, created, m) == resolve_one(ontology, m)
Known(ontology, created, m) ==
  IF resolve_one(ontology, m) # NoEntity THEN resolve_one(ontology, m) ELSE First(created, m)
ResolvedIn(ontology, created, m) ==
  IF Known(ontology, created, m) # NoEntity \/ Strict THEN Known(ontology, created, m)
  ELSE Known(ontology, created, Canon[m])
Resolved(m) == ResolvedIn(loaded, runtime, m)

\* A name found through its canonical form becomes an alias, in memory only.
ensure_alias(e, m) ==
  LET at == {i \in DOMAIN runtime : runtime[i].id = e}
      i == CHOOSE i \in at : \A j \in at : i <= j
  IN  IF Known(loaded, runtime, m) # NoEntity \/ at = {} THEN runtime
      ELSE [runtime EXCEPT ![i] = [id |-> e, aliases |-> @.aliases \union {m}]]

\* The type of an entity to create: the one the caller gives, or the only one
\* the predicate allows.
Inferred(given, allowed) ==
  IF given # {} THEN given ELSE IF Cardinality(allowed) = 1 THEN allowed ELSE {}
SubjectTypes(c) == Inferred(IF c.types = <<>> THEN {} ELSE {c.types[1]}, DomainTypes[c.p])
ObjectTypes(c) == Inferred(IF c.types = <<>> THEN {} ELSE {c.types[2]}, RangeTypes[c.p])
ASSUME EntitiesSuffice ==
  \A c \in Calls : /\ SubjectTypes(c) \X {Canon[c.s]} \subseteq Entity
                    /\ ObjectTypes(c) \X {Canon[c.o]} \subseteq Entity

New(e, m) == [id |-> e, aliases |-> {m} \ {e[2]}]

-----------------------------------------------------------------------------
(* assert and assert_typed. *)

InFlight == {th \in Thread : Asserting(th)}
StartAssert(th, c) ==
  /\ At(th, "idle")
  /\ serial => InFlight = {}
  /\ Len(triple) + Cardinality(InFlight) < IF serial THEN MaxRows ELSE MaxOverlapped
  /\ Goto(th, [Idle EXCEPT !.pc = "subject", !.c = c])
  /\ UNCHANGED <<names, entity, triple, clock, serial, undone>>

\* Each name is found, or has to be created, or is an error.
resolve_or_create(th, from, found, create, m, types) ==
  LET e == Resolved(m)
  IN  /\ At(th, from)
      /\ runtime' = ensure_alias(e, m)
      /\ \/ e # NoEntity /\ Goto(th, found[e])
         \/ e = NoEntity /\ ~Strict /\ \E type \in types : Goto(th, create[<<type, Canon[m]>>])
         \/ e = NoEntity /\ (Strict \/ types = {}) /\ Return(th)
      /\ UNCHANGED <<file, up, loaded, entity, triple, clock, serial, undone>>
ResolveSubject(th) ==
  LET l == call[th] IN
  resolve_or_create(th, "subject",
    [e \in Entity |-> [l EXCEPT !.pc = "object", !.subj = e]],
    [e \in Entity |-> [l EXCEPT !.pc = "append subject", !.subj = e]],
    l.c.s, SubjectTypes(l.c))
ResolveObject(th) ==
  LET l == call[th] IN
  resolve_or_create(th, "object",
    [e \in Entity |-> [l EXCEPT !.pc = "upsert subject", !.obj = e]],
    [e \in Entity |-> [l EXCEPT !.pc = "append object", !.obj = e]],
    l.c.o, ObjectTypes(l.c))

\* The file is read, extended and replaced under ontology_write, by a rename: it
\* holds the entity or it does not.  The list follows at once: a look-up between
\* the two misses the name, as one before both does.
append_entity_to_ontology_nothing(e, m) == file
append_entity_to_ontology(e, m) == Append(file, New(e, m))
auto_create_entity(th, from, to, e, m) ==
  /\ At(th, from)
  /\ file' = append_entity_to_ontology(e, m)
  /\ runtime' = Append(runtime, New(e, m))
  /\ Goto(th, [call[th] EXCEPT !.pc = to])
  /\ UNCHANGED <<up, loaded, entity, triple, clock, serial, undone>>
CreateSubject(th) ==
  auto_create_entity(th, "append subject", "object", call[th].subj, call[th].c.s)
CreateObject(th) ==
  auto_create_entity(th, "append object", "upsert subject", call[th].obj, call[th].c.o)

\* assert checks the types of the entities it resolved, assert_typed the types it
\* was given.
WellTyped(l) ==
  LET types == IF l.c.types = <<>> THEN <<l.subj[1], l.obj[1]>> ELSE l.c.types
  IN  types[1] \in DomainTypes[l.c.p] /\ types[2] \in RangeTypes[l.c.p]
UpsertSubject(th) ==
  LET l == call[th] IN
  /\ At(th, "upsert subject")
  /\ \/ /\ WellTyped(l)
        /\ entity' = entity \union {l.subj}
        /\ Goto(th, [l EXCEPT !.pc = "upsert object", !.at = clock])
     \/ ~WellTyped(l) /\ Return(th) /\ UNCHANGED entity
  /\ UNCHANGED <<names, triple, clock, serial, undone>>
UpsertObject(th) ==
  /\ At(th, "upsert object")
  /\ entity' = entity \union {call[th].obj}
  /\ Goto(th, [call[th] EXCEPT !.pc = "write"])
  /\ UNCHANGED <<names, triple, clock, serial, undone>>

predicate_is_single_valued(slot) == <<slot[2], slot[1][1]>> \in SingleValued
\* What the connection inserted last, when it was not this row: any row.
LastInserted == Len(triple)
Written(row) ==
  LET ends == {row.from, row.to} \subseteq entity
  IN  IF predicate_is_single_valued(SlotOf(row))
      THEN insert_triple_superseding(triple, row, ends, LastInserted)
      ELSE insert_triple(triple, row, ends)
WriteTriple(th) ==
  LET l == call[th] IN
  /\ At(th, "write")
  /\ triple' = Written(Assertion(l.subj, l.c.p, l.obj, l.at))
  /\ Return(th)
  /\ UNCHANGED <<names, entity, clock, serial, undone>>

\* A statement or a file operation may fail: the call returns the error and what
\* it had done stays.
Fallible == {"append subject", "append object", "upsert subject", "upsert object", "write"}
Fail(th) ==
  /\ up /\ call[th].pc \in Fallible
  /\ Return(th)
  /\ UNCHANGED <<names, entity, triple, clock, serial, undone>>

-----------------------------------------------------------------------------
(* Verdicts on slots that hold several objects, and their undoing. *)

multi_valued_live_groups == {s \in Slot : Cardinality(Live(triple, s)) > 1}
\* Functional slots are the assert path's own.  The groups come in an order the
\* ids give, of which the first Limit are considered: any, as far as a host knows.
Detect(th) ==
  LET open == {s \in multi_valued_live_groups : ~predicate_is_single_valued(s)}
  IN  /\ At(th, "idle") /\ open # {}
      /\ \E considered \in SUBSET open :
           /\ Cardinality(considered) = IF Cardinality(open) < Limit
                                        THEN Cardinality(open) ELSE Limit
           /\ Goto(th, [Idle EXCEPT !.pc = "judge",
                          !.todo = {<<s, Objects(triple, s)>> : s \in considered}])
      /\ UNCHANGED <<names, entity, triple, clock, serial, undone>>

RetireConflicting(slot, keep) ==
  triple' \in retire_conflicting_objects(triple, slot, keep, clock)

\* A verdict may leave the slot alone, keep one of the objects that were listed,
\* or fail to be applied, which ends the pass.
Judge(th) ==
  /\ At(th, "judge")
  /\ \E candidate \in call[th].todo :
       LET rest == [call[th] EXCEPT !.todo = @ \ {candidate}]
       IN  /\ Goto(th, IF rest.todo = {} THEN Idle ELSE rest)
           /\ \/ UNCHANGED triple
              \/ \E keep \in candidate[2] : RetireConflicting(candidate[1], keep)
  /\ UNCHANGED <<names, entity, clock, serial, undone>>
JudgeFails(th) ==
  /\ At(th, "judge")
  /\ Return(th)
  /\ UNCHANGED <<names, entity, triple, clock, serial, undone>>

\* Brain::retire_conflicting_objects, called by a host directly.
Choose(slot, keep) ==
  /\ up
  /\ RetireConflicting(slot, keep)
  /\ UNCHANGED <<names, entity, clock, call, serial, undone>>

Undo(r) ==
  /\ up /\ Retired(triple, r) # {}
  /\ triple' = undo_supersession(triple, r, clock)
  /\ undone' = [undone EXCEPT ![SlotOf(triple[r])] =
                  IF @ = "late" \/ triple[r].valid_to # Open THEN "late" ELSE "undone"]
  /\ UNCHANGED <<names, entity, clock, call, serial>>

-----------------------------------------------------------------------------
Tick ==
  /\ clock < MaxTime
  /\ clock' = clock + 1
  /\ UNCHANGED <<names, entity, triple, call, serial, undone>>

\* The process dies; the file and the database stay.
Crash ==
  /\ up /\ up' = FALSE
  /\ loaded' = <<>> /\ runtime' = <<>>
  /\ call' = [th \in Thread |-> Idle]
  /\ UNCHANGED <<file, entity, triple, clock, serial, undone>>

BrainOpen ==
  /\ ~up /\ validate(file) /\ up' = TRUE
  /\ loaded' = file
  /\ UNCHANGED <<file, runtime, entity, triple, clock, call, serial, undone>>

Next ==
  \/ \E th \in Thread :
       \/ \E c \in Calls : StartAssert(th, c)
       \/ ResolveSubject(th) \/ ResolveObject(th) \/ CreateSubject(th) \/ CreateObject(th)
       \/ UpsertSubject(th) \/ UpsertObject(th) \/ WriteTriple(th) \/ Fail(th)
       \/ Detect(th) \/ Judge(th) \/ JudgeFails(th)
  \/ \E slot \in Slot : \E keep \in Objects(triple, slot) : Choose(slot, keep)
  \/ \E r \in DOMAIN triple : Undo(r)
  \/ Tick \/ Crash \/ BrainOpen

Spec == Init /\ [][Next]_vars

-----------------------------------------------------------------------------
(* Properties. *)

\* A retired row names the row of its slot that replaced it, by another object,
\* unless it was retired by an undo: what undo_supersession goes by.
RetirementTraceable ==
  \A r \in DOMAIN triple :
    LET by == triple[r].by
    IN  by # Nobody => /\ by \in DOMAIN triple /\ SlotOf(triple[by]) = SlotOf(triple[r])
                       /\ triple[by].to # triple[r].to /\ triple[r].valid_to # Open
\* The ends of every fact are entities of the graph and of the ontology file, so
\* a brain opened again still knows them.
Registered == {file[i].id : i \in DOMAIN file}
EndsSurvive ==
  \A r \in DOMAIN triple : {triple[r].from, triple[r].to} \subseteq entity \cap Registered
\* The state is well formed, retirements can be traced and undone, and no crash
\* or failure between the file, the list and the database leaves a fact whose
\* ends a reopened brain does not know.
GraphInv == TypeOK /\ RetirementTraceable /\ EndsSurvive

\* A functional slot holds at most one fact at a time, whatever asserts, verdicts
\* and undos overlap, unless a replacement was undone after it had itself been
\* replaced: undo_supersession then brings back the old fact and leaves the
\* newest where it is.
OneLiveObject ==
  \A s \in Slot : predicate_is_single_valued(s) /\ undone[s] # "late" =>
    \A r1, r2 \in Live(triple, s) : r1 = r2

\* find_triples_as_of answers at most one object of a functional slot for any
\* instant of the past.  Asserts that overlap may take their times in one order
\* and write in the other, and an undo rewrites history; without either it holds.
HistoryIsFunctional ==
  \A s \in Slot : predicate_is_single_valued(s) /\ undone[s] = "never" /\ serial =>
    \A instant \in 1 .. clock :
      \A a, b \in find_triples_as_of(triple, s, instant) : a = b

\* A brain can be opened again: no entity is in the ontology file twice.  Two
\* asserts that overlap may both miss a name and both append it, as only the
\* rewriting of the file is under a lock, not the look-up before it.
OntologyReopens == validate(file)
ReopensWhenSerial == serial => OntologyReopens

\* A name means the same entity after a restart: what it resolves to now, through
\* what was loaded and what was created since, is what the file alone will give,
\* provided the host's function leaves a canonical name as it is, gives similar
\* names one name, and gives a name the file began with one that resolves in it.
CanonAgrees ==
  /\ \A m \in Mention : Canon[Canon[m]] = Canon[m]
  /\ \A m \in Mention : \A i \in DOMAIN Near[m] : Canon[Near[m][i]] = Canon[m]
  /\ \A m \in Mention : First(Given, m) # NoEntity => resolve_one(Given, Canon[m]) # NoEntity
ResolutionSurvivesRestart ==
  up /\ serial /\ CanonAgrees => \A m \in Mention :
    Resolved(m) # NoEntity => ResolvedIn(file, <<>>, m) = Resolved(m)

\* The facts that hold now follow CurrentFacts: a slot never loses its last one,
\* and a verdict on slots that changed since they were listed only chooses among
\* the facts still there.
Facts == INSTANCE CurrentFacts WITH
  Object <- Entity, Functional <- predicate_is_single_valued,
  current <- [s \in Slot |-> Objects(triple, s)]
ImplementsCurrentFacts == Facts!Spec
=============================================================================
