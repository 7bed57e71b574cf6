------------------------------ MODULE JoinSet ------------------------------
(***************************************************************************)
(* What a replicated, retractable set promises, without tables or packs.   *)
(*                                                                         *)
(* For every namespace a replica knows which objects it has ever learnt    *)
(* of (seen) and which of those are retracted (removed).  Both only grow,  *)
(* and what a replica learns from another is the union of what the two     *)
(* know: a join in the lattice of pairs ordered by inclusion.  The objects *)
(* a replica serves are seen minus removed, so a retraction always wins.   *)
(* A message is a copy of what its sender knew when it was made; nothing   *)
(* is said about when, in which order or how often messages arrive.        *)
(***************************************************************************)
CONSTANTS Replica, Space, Object

VARIABLES seen, removed, sent

joinVars == <<seen, removed, sent>>

Message == [space : Space, seen : SUBSET Object, removed : SUBSET Object]

Init ==
  /\ seen    = [r \in Replica |-> [s \in Space |-> {}]]
  /\ removed = [r \in Replica |-> [s \in Space |-> {}]]
  /\ sent    = {}

Add(r, s, o) ==
  /\ seen' = [seen EXCEPT ![r][s] = @ \union {o}]
  /\ UNCHANGED <<removed, sent>>

Remove(r, s, o) ==
  /\ seen'    = [seen EXCEPT ![r][s] = @ \union {o}]
  /\ removed' = [removed EXCEPT ![r][s] = @ \union {o}]
  /\ UNCHANGED sent

Send(r, s) ==
  /\ sent' = sent \union
       {[space |-> s, seen |-> seen[r][s], removed |-> removed[r][s]]}
  /\ UNCHANGED <<seen, removed>>

Receive(r, m) ==
  /\ seen'    = [seen EXCEPT ![r][m.space] = @ \union m.seen]
  /\ removed' = [removed EXCEPT ![r][m.space] = @ \union m.removed]
  /\ UNCHANGED sent

Next ==
  \/ \E r \in Replica, s \in Space, o \in Object : Add(r, s, o) \/ Remove(r, s, o)
  \/ \E r \in Replica, s \in Space : Send(r, s)
  \/ \E r \in Replica, m \in sent : Receive(r, m)

Spec == Init /\ [][Next]_joinVars
=============================================================================
