--------------------------- MODULE FederationSync ---------------------------
(***************************************************************************)
(* crates/spectral-ingest/src/federation_sync.rs and its wrappers in       *)
(* crates/spectral-graph/src/federation_recall.rs: brains share memories   *)
(* into wings and replicate the wings by exchanging packs.                 *)
(*                                                                         *)
(* A memory object is its content address.  The hash covers the author,    *)
(* the key, the creation time, the content and the visibility; the last    *)
(* three are one version here.  Sharing a memory that was itself imported  *)
(* hashes its synthetic local key, which holds the hash it was imported    *)
(* under: hops counts how often that happened.                             *)
(*                                                                         *)
(* Every function holds the connection lock or one transaction from its    *)
(* first read to its last write, but for share, which reads the memory     *)
(* first; an edit or forget in between leaves what one right after the     *)
(* share would.  Packs are kept for ever: they may be imported late, twice *)
(* or never.  Clocks of brains are unrelated, so now is any time.          *)
(***************************************************************************)
EXTENDS Naturals, FiniteSets

CONSTANTS
  Brain, Key, Version, Wing, Time,
  Author,      \* the brains that write memories of their own
  Attests,     \* the brains whose host signs the packs it sends
  Strict,      \* the brains that import under RequireSigned
  MaxHops,     \* bound: re-sharings of one object
  MaxShares,   \* bound: objects shared, counted per wing
  MaxPacks     \* bound: packs exported

Unsigned == 0   \* in the place of a signature's time

ASSUME ConstantsOK ==
  /\ Author \subseteq Brain
  /\ Attests \subseteq Brain /\ Strict \subseteq Brain
  /\ Time \subseteq Nat \ {Unsigned}
  /\ MaxHops \in Nat /\ MaxShares \in Nat /\ MaxPacks \in Nat

VARIABLES
  native,    \* native[b][k]: the memory b wrote under k, NoRow if none
  imported,  \* imported[b]: objects stored as rows with id = object hash
  manifest,  \* manifest[b]: rows of shared_wing_members
  tombs,     \* tombs[b]: rows of sync_tombstones
  packs,     \* every pack exported, as the exporter's host sent it
  shares     \* history: what was ever shared into which wing

store == <<native, imported, manifest, tombs>>
vars == <<store, packs, shares>>

NoRow == "no row"

Object == [author : Brain, key : Key, version : Version, hops : 0 .. MaxHops]
MemKey == Key \union Object      \* memories.key: given, or synthetic
ASSUME KeysAreGiven == Key \intersect Object = {}
Entry  == [wing : Wing, obj : Object, mem : MemKey, sig : BOOLEAN]
\* sig of a retraction is the time its signature covers.
Tombstone == [wing : Wing, obj : Object, ts : Time, sig : Time \union {Unsigned}]
Pack == [wing : Wing,
         objects : SUBSET [obj : Object, sig : BOOLEAN],
         tombstones : SUBSET Tombstone]

TypeOK ==
  /\ native \in [Brain -> [Key -> Version \union {NoRow}]]
  /\ imported \in [Brain -> SUBSET Object]
  /\ manifest \in [Brain -> SUBSET Entry]
  /\ tombs \in [Brain -> SUBSET Tombstone]
  /\ packs \subseteq Pack
  /\ shares \subseteq Wing \X Object

Init ==
  /\ native = [b \in Brain |-> [k \in Key |-> NoRow]]
  /\ imported = [b \in Brain |-> {}]
  /\ manifest = [b \in Brain |-> {}]
  /\ tombs = [b \in Brain |-> {}]
  /\ packs = {}
  /\ shares = {}

-----------------------------------------------------------------------------
(* Reads. *)

HasRow(b, mk) == IF mk \in Key THEN native[b][mk] # NoRow ELSE mk \in imported[b]

\* The object a row hashes to under its own key, and under an entry's orig_key.
ObjectForKey(b, mk) ==
  IF mk \in Key
    THEN [author |-> b, key |-> mk, version |-> native[b][mk], hops |-> 0]
    ELSE [mk EXCEPT !.hops = @ + 1]
Rebuilt(b, e) ==
  IF e.mem \in Key THEN [e.obj EXCEPT !.version = native[b][e.mem]] ELSE e.obj

Retracted(tomb, w, o) == \E t \in tomb : t.wing = w /\ t.obj = o

\* The "have" list of a wing.
enumerate(man, tomb, w) == {e.obj : e \in {x \in man : x.wing = w /\ ~Retracted(tomb, w, x.obj)}}

\* What to ask of a peer that advertises remote.  Only the list is looked at: a hash that
\* was retracted here is asked for as long as a peer advertises it.
missing_locally(local, remote) == remote \ local
shared_wing_want(man, tomb, w, remote) == missing_locally(enumerate(man, tomb, w), remote)

\* The entries of a wing that export can serve: not retracted, joined to their
\* row, and still hashing to the entry.
Served_unhashed(b, w) ==
  {e \in manifest[b] : e.wing = w /\ ~Retracted(tombs[b], w, e.obj) /\ HasRow(b, e.mem)}
Served(b, w) ==
  {e \in manifest[b] : /\ e.wing = w
                       /\ ~Retracted(tombs[b], w, e.obj)
                       /\ HasRow(b, e.mem)
                       /\ Rebuilt(b, e) = e.obj}

-----------------------------------------------------------------------------
(* Exchange. *)

export_pack(b, w) ==
  [wing |-> w,
   objects |-> {[obj |-> Rebuilt(b, e), sig |-> e.sig] : e \in Served(b, w)},
   tombstones |-> {t \in tombs[b] : t.wing = w}]

\* A host that attests signs the objects of its own authorship and the
\* retractions nobody has signed yet.
Signed(b, p) ==
  IF b \notin Attests THEN p ELSE
  [wing |-> p.wing,
   objects |-> {[obj |-> o.obj, sig |-> o.sig \/ o.obj.author = b] : o \in p.objects},
   tombstones |-> {[wing |-> t.wing, obj |-> t.obj, ts |-> t.ts,
                    sig |-> IF t.sig = Unsigned THEN t.ts ELSE t.sig] : t \in p.tombstones}]

\* ImportPolicy: a strict brain verifies every signature.
Admits(b, o) == b \in Strict => o.sig
AdmitsTombstone(b, t) == b \in Strict => t.sig = t.ts

\* apply_tombstone_tx for the objects gone: their rows go unless another wing
\* still lists the same object, and this wing's entries go.
DropRows_unguarded(rows, man, w, gone) == rows \ gone
DropRows(rows, man, w, gone) ==
  {o \in rows : o \in gone => \E e \in man : e.obj = o /\ e.wing # w}
DropEntries(man, w, gone) == {e \in man : ~(e.wing = w /\ e.obj \in gone)}

\* The objects of a pack that are merged: admitted, and retracted neither by
\* the pack nor here.
Merged_resurrects(b, p, gone) == {o \in p.objects : Admits(b, o) /\ o.obj \notin gone}
Merged(b, p, gone) ==
  {o \in p.objects : Admits(b, o) /\ o.obj \notin gone /\ ~Retracted(tombs[b], p.wing, o.obj)}

\* The keys an object is already listed under, in any wing; LIMIT 1 takes one.
existing_key_none(b, o) == {}
existing_key(b, o) == {e.mem : e \in {x \in manifest[b] : x.obj = o}}

\* INSERT OR IGNORE: an object this wing lists keeps its entry.
NewEntries_if_new_row(b, w, objs) ==
  {[wing |-> w, obj |-> o.obj, sig |-> o.sig, mem |-> o.obj] :
     o \in {x \in objs : existing_key(b, x.obj) = {}}}
NewEntries(b, w, objs) ==
  {[wing |-> w, obj |-> o.obj, sig |-> o.sig,
    mem |-> IF existing_key(b, o.obj) = {} THEN o.obj
            ELSE CHOOSE mk \in existing_key(b, o.obj) : TRUE] :
     o \in {x \in objs : \A e \in manifest[b] : e.wing = w => e.obj # x.obj}}

\* Everything a pack does to brain b, in one transaction; a retraction already
\* recorded keeps its time and takes the pack's signature.
Import(b, p, now) ==
  LET retractions == {t \in p.tombstones : AdmitsTombstone(b, t)}
      gone == {t.obj : t \in retractions}
      objs == Merged(b, p, gone)
      man  == manifest[b] \union NewEntries(b, p.wing, objs)
      rows == imported[b] \union {o.obj : o \in {x \in objs : existing_key(b, x.obj) = {}}}
      old  == {t \in tombs[b] : t.wing = p.wing /\ t.obj \in gone}
      Recorded(t) == IF \E x \in old : x.obj = t.obj
                       THEN (CHOOSE x \in old : x.obj = t.obj).ts
                       ELSE now
  IN  [imported |-> DropRows(rows, man, p.wing, gone),
       manifest |-> DropEntries(man, p.wing, gone),
       tombs    |-> (tombs[b] \ old) \union {[t EXCEPT !.ts = Recorded(t)] : t \in retractions}]

-----------------------------------------------------------------------------
(* Operations. *)

\* remember writes or edits a memory of the brain's own.
Remember(b, k, v) ==
  /\ native[b][k] # v
  /\ native' = [native EXCEPT ![b][k] = v]
  /\ UNCHANGED <<imported, manifest, tombs, packs, shares>>

\* forget deletes the row; the manifest is not among the tables it scrubs.
Forget(b, mk) ==
  /\ HasRow(b, mk)
  /\ IF mk \in Key
       THEN native' = [native EXCEPT ![b][mk] = NoRow] /\ UNCHANGED imported
       ELSE imported' = [imported EXCEPT ![b] = @ \ {mk}] /\ UNCHANGED native
  /\ UNCHANGED <<manifest, tombs, packs, shares>>

share(b, mk, w) ==
  LET o == ObjectForKey(b, mk) IN
  /\ HasRow(b, mk)
  /\ mk \in Object => mk.hops < MaxHops
  /\ <<w, o>> \in shares \/ Cardinality(shares) < MaxShares
  /\ manifest' = [manifest EXCEPT ![b] =
        IF \E e \in @ : e.wing = w /\ e.obj = o THEN @
        ELSE @ \union {[wing |-> w, obj |-> o, mem |-> mk, sig |-> FALSE]}]
  /\ shares' = shares \union {<<w, o>>}
  /\ UNCHANGED <<native, imported, tombs, packs>>

tombstone(b, w, o, now) ==
  /\ tombs' = [tombs EXCEPT ![b] =
        IF Retracted(@, w, o) THEN @
        ELSE @ \union {[wing |-> w, obj |-> o, ts |-> now, sig |-> Unsigned]}]
  /\ imported' = [imported EXCEPT ![b] = DropRows(@, manifest[b], w, {o})]
  /\ manifest' = [manifest EXCEPT ![b] = DropEntries(@, w, {o})]
  /\ UNCHANGED <<native, packs, shares>>

Export(b, w) ==
  /\ Cardinality(packs) < MaxPacks
  /\ packs' = packs \union {Signed(b, export_pack(b, w))}
  /\ UNCHANGED <<store, shares>>

import_pack_with_policy(b, p, now) ==
  LET new == Import(b, p, now) IN
  /\ imported' = [imported EXCEPT ![b] = new.imported]
  /\ manifest' = [manifest EXCEPT ![b] = new.manifest]
  /\ tombs'    = [tombs EXCEPT ![b] = new.tombs]
  /\ UNCHANGED <<native, packs, shares>>

Next ==
  \/ \E b \in Author, k \in Key, v \in Version : Remember(b, k, v)
  \/ \E b \in Brain : \E mk \in Key \union imported[b] : Forget(b, mk)
  \/ \E b \in Brain, w \in Wing : \E mk \in Key \union imported[b] : share(b, mk, w)
  \/ \E b \in Brain, s \in shares, now \in Time : tombstone(b, s[1], s[2], now)
  \/ \E b \in Brain, w \in Wing : Export(b, w)
  \/ \E b \in Brain, p \in packs, now \in Time : import_pack_with_policy(b, p, now)

Spec == Init /\ [][Next]_vars

-----------------------------------------------------------------------------
(* Properties. *)

\* Sovereignty: nothing leaves a brain, and nothing is stored by another, that
\* was not itself shared into that wing; an edit after the share stays private
\* (export_pack: "only objects the wing manifest references are packable").
Sovereignty ==
  /\ \A p \in packs, o \in Object :
       (\E x \in p.objects : x.obj = o) => <<p.wing, o>> \in shares
  /\ \A b \in Brain : \A o \in imported[b] : \E w \in Wing : <<w, o>> \in shares

\* An imported memory is kept only while some wing that has not retracted it
\* lists it under that very row: retracted content is hard-deleted however late
\* the packs that carry it arrive, and imported content never turns private.
ImportedIsListed ==
  \A b \in Brain : \A o \in imported[b] :
    \E e \in manifest[b] : e.obj = o /\ e.mem = o /\ ~Retracted(tombs[b], e.wing, o)

\* A brain holds one row per object: its own object gossiped back is neither
\* duplicated nor listed under a second key.  (An object two brains made by
\* re-sharing the same import may be: each of them lists its source row.)
OneRowPerObject ==
  \A b \in Brain : \A e \in manifest[b] : e.obj.hops = 0 =>
    /\ \A f \in manifest[b] : e.obj = f.obj => e.mem = f.mem
    /\ e.mem \in Key => e.obj \notin imported[b]
FedInv == TypeOK /\ OneRowPerObject

\* A retraction in one wing leaves alone what the other wings serve
\* (apply_tombstone_tx: "a wing-scoped retraction must not destroy the copy the
\* other wings still serve").  It fails once an import is shared on.
RetractionIsWingScoped ==
  [][\A b \in Brain, w \in Wing :
       tombs'[b] # tombs[b] =>
         \A e \in Served(b, w) : e \in Served(b, w)' \/ Retracted(tombs'[b], w, e.obj)]_vars

\* A round of have/want settles all it can: once b has merged what c exports, b wants of
\* what c advertises only what b has retracted, what c's pack does not carry (its row was
\* edited or is gone), and what b's policy refuses.  These are wanted again in each round.
MergeSettlesWant ==
  \A b, c \in Brain, w \in Wing, now \in Time :
    LET p   == Signed(c, export_pack(c, w))
        new == Import(b, p, now)
    IN  \A o \in shared_wing_want(new.manifest, new.tombs, w, enumerate(manifest[c], tombs[c], w)) :
          \/ Retracted(new.tombs, w, o)
          \/ \A x \in p.objects : x.obj = o => ~Admits(b, x)
=============================================================================
