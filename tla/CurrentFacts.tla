---------------------------- MODULE CurrentFacts ----------------------------
(***************************************************************************)
(* What the knowledge graph promises about the facts that hold now: a slot *)
(* is a subject and a predicate, and a slot that holds a fact never loses  *)
(* its last one.  Asserting adds a fact, and replaces the others where the *)
(* predicate is functional; a verdict only chooses among the facts there;  *)
(* undoing a replacement brings back what it replaced.                     *)
(***************************************************************************)
CONSTANTS Slot, Object, Functional(_)

VARIABLE current  \* current[s]: the objects slot s holds now

Init == current = [s \in Slot |-> {}]

Learn(s, o) ==
  current' = [current EXCEPT ![s] = IF Functional(s) THEN {o} ELSE @ \union {o}]

Settle(s) == \E keep \in current[s] : current' = [current EXCEPT ![s] = {keep}]

\* Others come back; of those there at most one goes, the one that had replaced
\* them.
Undo(s) ==
  /\ \E o \in Object : current[s] \ {o} \subseteq current'[s] /\ current'[s] \ {o} # {}
  /\ current' = [current EXCEPT ![s] = current'[s]]

Next == \E s \in Slot : (\E o \in Object : Learn(s, o)) \/ Settle(s) \/ Undo(s)
Spec == Init /\ [][Next]_current
=============================================================================
