----------------------------- MODULE FactLedger -----------------------------
(***************************************************************************)
(* The triple table of crates/spectral-graph/src/graph_store.rs and the    *)
(* statements over it, each one transaction.  A row is never deleted, so   *)
(* the table is a sequence and a rowid is a place in it.  A row that is    *)
(* retired keeps the time until which it held and the row that replaced it.*)
(***************************************************************************)
EXTENDS Naturals, Sequences

Open == 0    \* valid_to IS NULL
Nobody == 0  \* superseded_by IS NULL

Assertion(s, p, o, at) ==
  [from |-> s, pred |-> p, to |-> o, at |-> at, valid_to |-> Open, by |-> Nobody]

SlotOf(row) == <<row.from, row.pred>>
Live(t, slot) == {r \in DOMAIN t : SlotOf(t[r]) = slot /\ t[r].valid_to = Open}
Objects(t, slot) == {t[r].to : r \in Live(t, slot)}

\* A row with the end of its validity and the row that caused it.
Ended(row, at, by) == [row EXCEPT !.valid_to = at, !.by = by]

\* UPDATE triple SET valid_to, superseded_by WHERE to_id <> keep AND valid_to IS NULL
Retire(t, slot, keep, by, at) ==
  [r \in DOMAIN t |->
    IF r \in Live(t, slot) /\ t[r].to # keep
    THEN Ended(t[r], at, by) ELSE t[r]]

\* Both inserts are a SELECT over the entity table: no row unless its ends exist.
insert_triple(t, row, ends) == IF ends THEN Append(t, row) ELSE t

\* An object that is live already is left as it is.  Without its ends nothing is
\* inserted, and the retirement that follows names whatever the connection
\* inserted last.
insert_triple_superseding_always(t, row, ends, last) ==
  Retire(Append(t, row), SlotOf(row), row.to, Len(t) + 1, row.at)
insert_triple_superseding(t, row, ends, last) ==
  IF row.to \in Objects(t, SlotOf(row)) THEN t
  ELSE IF ends
       THEN Retire(Append(t, row), SlotOf(row), row.to, Len(t) + 1, row.at)
       ELSE Retire(t, SlotOf(row), row.to, last, row.at)

\* The outcomes of choosing keep for a slot: the row that survives is any live row
\* of keep, and without one nothing is retired.
retire_conflicting_objects_blindly(t, slot, keep, at) ==
  {Retire(t, slot, keep, r, at) : r \in DOMAIN t}
retire_conflicting_objects(t, slot, keep, at) ==
  LET survivors == {r \in Live(t, slot) : t[r].to = keep}
  IN  IF survivors = {} THEN {t} ELSE {Retire(t, slot, keep, r, at) : r \in survivors}

Retired(t, r) == {x \in DOMAIN t : t[x].by = r}
undo_supersession(t, r, at) ==
  [x \in DOMAIN t |->
    IF t[x].by = r THEN Ended(t[x], Open, Nobody)
    ELSE IF x = r /\ t[x].valid_to = Open /\ Retired(t, r) # {}
         THEN Ended(t[x], at, t[x].by) ELSE t[x]]

\* What find_triples_as_of answers for a slot at an instant.
find_triples_as_of_inclusive(t, slot, instant) ==
  {t[r].to : r \in {x \in DOMAIN t :
     /\ SlotOf(t[x]) = slot /\ t[x].at <= instant
     /\ t[x].valid_to = Open \/ t[x].valid_to >= instant}}
find_triples_as_of(t, slot, instant) ==
  {t[r].to : r \in {x \in DOMAIN t :
     /\ SlotOf(t[x]) = slot /\ t[x].at <= instant
     /\ t[x].valid_to = Open \/ t[x].valid_to > instant}}
=============================================================================
