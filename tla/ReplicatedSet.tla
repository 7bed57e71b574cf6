--------------------------- MODULE ReplicatedSet ---------------------------
(***************************************************************************)
(* crates/spectral-ingest/src/replicated_set.rs: a namespaced set of       *)
(* opaque, content-addressed objects that brains replicate by exchanging   *)
(* packs.  Every brain keeps two tables, replicated_set_members and        *)
(* replicated_set_tombstones, both keyed by (namespace, hash).             *)
(*                                                                         *)
(* A blob travels verbatim with its hash and is never looked at, so a      *)
(* member is its hash.  Each function holds the connection lock or one     *)
(* transaction from its first read to its last write, so each is one step. *)
(* Packs are kept for ever: a pack may be imported late, twice, after a    *)
(* newer one, by anyone, or never.                                         *)
(***************************************************************************)
CONSTANTS
  Replica,     \* the brains
  Namespace, Hash

VARIABLES
  members,     \* members[b][ns]: rows of replicated_set_members
  tombstones,  \* tombstones[b][ns]: rows of replicated_set_tombstones
  packs        \* every SetPack exported so far

setVars == <<members, tombstones, packs>>

SetPack == [namespace : Namespace, objects : SUBSET Hash, tombstones : SUBSET Hash]

SetTypeOK ==
  /\ members    \in [Replica -> [Namespace -> SUBSET Hash]]
  /\ tombstones \in [Replica -> [Namespace -> SUBSET Hash]]
  /\ packs \subseteq SetPack

SetInit ==
  /\ members    = [b \in Replica |-> [ns \in Namespace |-> {}]]
  /\ tombstones = [b \in Replica |-> [ns \in Namespace |-> {}]]
  /\ packs = {}

-----------------------------------------------------------------------------
(* Reads. *)

\* The "have" list: members that are not retracted.
enumerate(mem, tomb) == mem \ tomb

\* What to request of an advertised list: want is the plain difference,
\* want_scoped also leaves out what was retracted here.
want(local, remote) == remote \ local
want_scoped_unfiltered(mem, tomb, remote) == want(enumerate(mem, tomb), remote)
want_scoped(mem, tomb, remote) == want(enumerate(mem, tomb), remote) \ tomb

\* The pack b would ship now: live members and every tombstone.
export_set_objects_only(b, ns) ==
  [namespace |-> ns, objects |-> members[b][ns] \ tombstones[b][ns], tombstones |-> {}]
export_set(b, ns) ==
  [namespace  |-> ns,
   objects    |-> members[b][ns] \ tombstones[b][ns],
   tombstones |-> tombstones[b][ns]]

\* The rows left after importing pack p over rows (mem, tomb): the objects
\* retracted neither in the pack nor locally are inserted, then every tombstone
\* of the pack is recorded and its member deleted.
MergedMembers(mem, tomb, p) ==
  (mem \union (p.objects \ (p.tombstones \union tomb))) \ p.tombstones
MergedTombstones_not_kept(tomb, p) == tomb
MergedTombstones(tomb, p) == tomb \union p.tombstones

-----------------------------------------------------------------------------
(* Writes. *)

put_unchecked(b, ns, h) ==
  /\ members' = [members EXCEPT ![b][ns] = @ \union {h}]
  /\ UNCHANGED <<tombstones, packs>>
put(b, ns, h) ==
  /\ h \notin tombstones[b][ns]
  /\ members' = [members EXCEPT ![b][ns] = @ \union {h}]
  /\ UNCHANGED <<tombstones, packs>>

tombstone_set_unscoped(b, ns, h) ==
  /\ tombstones' = [tombstones EXCEPT ![b][ns] = @ \union {h}]
  /\ members' = [members EXCEPT ![b] = [s \in Namespace |-> @[s] \ {h}]]
  /\ UNCHANGED packs
tombstone_set(b, ns, h) ==
  /\ tombstones' = [tombstones EXCEPT ![b][ns] = @ \union {h}]
  /\ members' = [members EXCEPT ![b][ns] = @ \ {h}]
  /\ UNCHANGED packs

Export(b, ns) ==
  /\ packs' = packs \union {export_set(b, ns)}
  /\ UNCHANGED <<members, tombstones>>

import_set(b, p) ==
  /\ members' = [members EXCEPT ![b][p.namespace] =
                   MergedMembers(@, tombstones[b][p.namespace], p)]
  /\ tombstones' = [tombstones EXCEPT ![b][p.namespace] = MergedTombstones(@, p)]
  /\ UNCHANGED packs

SetNext ==
  \/ \E b \in Replica, ns \in Namespace, h \in Hash :
        put(b, ns, h) \/ tombstone_set(b, ns, h)
  \/ \E b \in Replica, ns \in Namespace : Export(b, ns)
  \/ \E b \in Replica, p \in packs : import_set(b, p)

SetSpec == SetInit /\ [][SetNext]_setVars

\* The host's sync loop: every brain keeps exporting its namespaces and keeps
\* importing what reached it.  put and tombstone_set need not happen.
SyncLoop ==
  /\ \A b \in Replica, ns \in Namespace : WF_setVars(Export(b, ns))
  /\ \A b \in Replica : WF_setVars(\E p \in packs : import_set(b, p))

SetFairSpec == SetSpec /\ SyncLoop

-----------------------------------------------------------------------------
(* Properties. *)

\* A retracted object is stored nowhere and rides out in no pack, whatever the
\* order in which the packs that carried it and its retraction were merged
\* (apply_tombstone_tx: "a tombstoned-but-still-stored (and thus
\* still-exportable) object" must not exist).
RetractedIsGone ==
  /\ \A b \in Replica, ns \in Namespace : members[b][ns] \cap tombstones[b][ns] = {}
  /\ \A p \in packs : p.objects \cap p.tombstones = {}

\* The inductive invariant: the tables are well formed and no retracted object
\* is stored (put, import_set and apply_tombstone_tx together).
SetInv == SetTypeOK /\ RetractedIsGone

\* Once b has merged what c exports now, b wants nothing c advertises: the
\* have/want loop ends even while c still advertises what b has retracted
\* (want_scoped: "does not make you re-request it forever").
MergeSettlesWant ==
  \A b, c \in Replica, ns \in Namespace :
    LET p == export_set(c, ns)
    IN  want_scoped(MergedMembers(members[b][ns], tombstones[b][ns], p),
                    MergedTombstones(tombstones[b][ns], p),
                    enumerate(members[c][ns], tombstones[c][ns])) = {}

\* A member leaves a brain only by being retracted there, and a step touches
\* the rows of one namespace of one brain, an imported pack included
\* (apply_tombstone_tx: "can never touch another namespace's copy").
OnlyRetractionRemoves ==
  [][/\ \A b \in Replica, ns \in Namespace :
          members[b][ns] \ members'[b][ns] \subseteq tombstones'[b][ns]
     /\ \A b, c \in Replica, ns, other \in Namespace :
          (members'[b][ns] # members[b][ns] /\ members'[c][other] # members[c][other])
            => b = c /\ ns = other]_setVars

\* The tables implement the lattice of JoinSet: what a brain has seen is what
\* it stores or has retracted, and a pack carries exactly what its exporter
\* knew (export_set, import_set: merge is set union).
Seen == [b \in Replica |-> [ns \in Namespace |-> members[b][ns] \union tombstones[b][ns]]]
Sent == {[space |-> p.namespace, seen |-> p.objects \union p.tombstones,
          removed |-> p.tombstones] : p \in packs}

Lattice == INSTANCE JoinSet WITH
  Replica <- Replica, Space <- Namespace, Object <- Hash,
  seen <- Seen, removed <- tombstones, sent <- Sent

ImplementsJoinSet == Lattice!Spec

\* While the sync loop keeps running, every brain ends up serving the same
\* objects (federation-sync-design.md: "union converges automatically").
InSync ==
  \A b, c \in Replica : members[b] = members[c] /\ tombstones[b] = tombstones[c]
Convergence == <>[]InSync
=============================================================================
