------------------------ MODULE FederationSync_proofs ------------------------
(***************************************************************************)
(* Proofs about FederationSync for any brains, keys, versions, wings, times *)
(* and bounds: types and sovereignty.  For systems in which no import is    *)
(* shared on (MaxHops = 0) also that a brain keeps one row per object, that *)
(* an import is listed as long as it is kept, and that a retraction stays   *)
(* in its wing.  There an entry's row is known from its object: the key for *)
(* an object of the brain's own, the object itself for an import (Listed).  *)
(* That needs an author to keep its own objects on its lists or retract     *)
(* them (Remembered): otherwise one could come back as an import.           *)
(***************************************************************************)
EXTENDS FederationSync, TLAPS

-----------------------------------------------------------------------------
(* What a pack does. *)

Gone(b, p) == {t.obj : t \in {x \in p.tombstones : AdmitsTombstone(b, x)}}
Objs(b, p) == Merged(b, p, Gone(b, p))
Unlisted(b, p) == {o.obj : o \in {x \in Objs(b, p) : existing_key(b, x.obj) = {}}}
Listing(b, p) == manifest[b] \union NewEntries(b, p.wing, Objs(b, p))

\* The lists and rows after a pack.
LEMMA ImportRows ==
  ASSUME NEW b, NEW p, NEW now
  PROVE  /\ Import(b, p, now).manifest = DropEntries(Listing(b, p), p.wing, Gone(b, p))
         /\ Import(b, p, now).imported =
              DropRows(imported[b] \union Unlisted(b, p), Listing(b, p), p.wing, Gone(b, p))
BY DEF Import, Gone, Objs, Unlisted, Listing

\* A pack retracts in its own wing.
Scoped(p) == \A t \in p.tombstones : t.wing = p.wing

\* The retractions after a pack: those before, and those of the pack.
LEMMA ImportTombs ==
  ASSUME TypeOK, NEW b \in Brain, NEW p \in Pack, Scoped(p), NEW now \in Time
  PROVE  /\ Import(b, p, now).tombs \in SUBSET Tombstone
         /\ \A w, o : Retracted(Import(b, p, now).tombs, w, o) <=>
              Retracted(tombs[b], w, o) \/ (w = p.wing /\ o \in Gone(b, p))
<1> DEFINE retractions == {t \in p.tombstones : AdmitsTombstone(b, t)}
           old == {t \in tombs[b] : t.wing = p.wing /\ t.obj \in Gone(b, p)}
           Recorded(t) == IF \E x \in old : x.obj = t.obj
                          THEN (CHOOSE x \in old : x.obj = t.obj).ts ELSE now
           New(t) == [t EXCEPT !.ts = Recorded(t)]
<1>1. Import(b, p, now).tombs = (tombs[b] \ old) \union {New(t) : t \in retractions}
  BY DEF Import, Gone
<1>2. tombs[b] \subseteq Tombstone /\ p.tombstones \subseteq Tombstone
  BY DEF TypeOK, Pack
<1>3. \A t \in Tombstone : Recorded(t) \in Time
  <2> SUFFICES ASSUME NEW t \in Tombstone, NEW x \in old, x.obj = t.obj
               PROVE  (CHOOSE y \in old : y.obj = t.obj).ts \in Time
    OBVIOUS
  <2>1. (CHOOSE y \in old : y.obj = t.obj) \in old
    OBVIOUS
  <2> QED BY <1>2, <2>1 DEF Tombstone
<1> HIDE DEF Recorded
<1>4. \A t \in Tombstone : New(t) \in Tombstone /\ New(t).wing = t.wing /\ New(t).obj = t.obj
  BY <1>3 DEF Tombstone
<1> HIDE DEF New
<1>5. Import(b, p, now).tombs \in SUBSET Tombstone
  BY <1>1, <1>2, <1>4
<1>6. \A o \in Gone(b, p) : \E t \in retractions : t.obj = o
  BY DEF Gone
<1>7. \A t \in retractions : /\ New(t) \in Import(b, p, now).tombs /\ t.obj \in Gone(b, p)
                              /\ New(t).wing = p.wing /\ New(t).obj = t.obj
  BY <1>1, <1>2, <1>4 DEF Gone, Scoped
<1>8. \A x \in Import(b, p, now).tombs : x \in tombs[b] \/ (x.wing = p.wing /\ x.obj \in Gone(b, p))
  BY <1>1, <1>7
<1>9. \A x \in tombs[b] : x \in Import(b, p, now).tombs \/ (x.wing = p.wing /\ x.obj \in Gone(b, p))
  BY <1>1
<1> HIDE DEF retractions, old
<1>10. ASSUME NEW w, NEW o
       PROVE  Retracted(Import(b, p, now).tombs, w, o) <=>
                Retracted(tombs[b], w, o) \/ (w = p.wing /\ o \in Gone(b, p))
  <2>1. w = p.wing /\ o \in Gone(b, p) => Retracted(Import(b, p, now).tombs, w, o)
    BY <1>6, <1>7 DEF Retracted
  <2> QED BY <1>8, <1>9, <2>1 DEF Retracted
<1> QED BY <1>5, <1>10

\* What is merged is admitted, travelled in the pack, and is retracted by neither side.
LEMMA MergedFacts ==
  ASSUME NEW b, NEW p, NEW x \in Objs(b, p)
  PROVE  x \in p.objects /\ x.obj \notin Gone(b, p) /\ ~Retracted(tombs[b], p.wing, x.obj)
BY DEF Objs, Merged

\* An entry e made for the merged object x; an entry that lists x.
EntryOf(b, p, e, x) ==
  /\ \A f \in manifest[b] : f.wing = p.wing => f.obj # x.obj
  /\ e.wing = p.wing /\ e.obj = x.obj /\ e.sig = x.sig
  /\ IF existing_key(b, x.obj) = {} THEN e.mem = x.obj ELSE e.mem \in existing_key(b, x.obj)
Lists(b, p, e, x) ==
  /\ e.wing = p.wing /\ e.obj = x.obj
  /\ existing_key(b, x.obj) = {} => e.mem = x.obj

\* A new entry lists a merged object that the wing did not list, under a key it is
\* listed under elsewhere or else under itself; every merged object is listed then.
LEMMA NewFacts ==
  ASSUME NEW b, NEW p
  PROVE  /\ \A e \in NewEntries(b, p.wing, Objs(b, p)) : \E x \in Objs(b, p) : EntryOf(b, p, e, x)
         /\ \A x \in Objs(b, p) : \E e \in Listing(b, p) : Lists(b, p, e, x)
<1> DEFINE mem(x) == IF existing_key(b, x.obj) = {} THEN x.obj
                     ELSE CHOOSE mk \in existing_key(b, x.obj) : TRUE
           entry(x) == [wing |-> p.wing, obj |-> x.obj, sig |-> x.sig, mem |-> mem(x)]
           fresh == {x \in Objs(b, p) : \A e \in manifest[b] : e.wing = p.wing => e.obj # x.obj}
<1>1. NewEntries(b, p.wing, Objs(b, p)) = {entry(x) : x \in fresh}
  BY DEF NewEntries
<1>2. \A x : IF existing_key(b, x.obj) = {} THEN mem(x) = x.obj ELSE mem(x) \in existing_key(b, x.obj)
  OBVIOUS
<1> HIDE DEF mem
<1>3. \A x : /\ entry(x).wing = p.wing /\ entry(x).obj = x.obj /\ entry(x).sig = x.sig
             /\ entry(x).mem = mem(x)
  OBVIOUS
<1> HIDE DEF entry
<1>4. ASSUME NEW e \in NewEntries(b, p.wing, Objs(b, p))
      PROVE  \E x \in Objs(b, p) : EntryOf(b, p, e, x)
  <2>1. PICK x \in fresh : e = entry(x) BY <1>1, <1>4
  <2> QED BY <1>2, <1>3, <2>1 DEF EntryOf
<1>5. ASSUME NEW x \in Objs(b, p)
      PROVE  \E e \in Listing(b, p) : Lists(b, p, e, x)
  <2>1. CASE x \in fresh
    <3>1. entry(x) \in Listing(b, p) BY <1>1, <2>1 DEF Listing
    <3> QED BY <1>2, <1>3, <3>1 DEF Lists
  <2>2. CASE x \notin fresh
    <3>1. PICK e \in manifest[b] : e.wing = p.wing /\ e.obj = x.obj BY <1>5, <2>2
    <3>2. e.mem \in existing_key(b, x.obj) BY <3>1 DEF existing_key
    <3> QED BY <3>1, <3>2 DEF Listing, Lists
  <2> QED BY <2>1, <2>2
<1> QED BY <1>4, <1>5

-----------------------------------------------------------------------------
(* What travels. *)

\* Packs carry what was shared into their wing, lists name it, and imports are it.
Shared(man, sh) == \A e \in man : <<e.wing, e.obj>> \in sh
Carried(p, sh) == Scoped(p) /\ \A x \in p.objects : <<p.wing, x.obj>> \in sh
Known(rows, sh) == \A o \in rows : \E w \in Wing : <<w, o>> \in sh

SovInv ==
  /\ TypeOK
  /\ \A p \in packs : Carried(p, shares)
  /\ \A b \in Brain : Shared(manifest[b], shares) /\ Known(imported[b], shares)

\* What a brain exports is its wing's retractions and the entries it serves, signed or
\* not.
LEMMA ExportFacts ==
  ASSUME TypeOK, NEW b \in Brain, NEW w \in Wing, NEW p, p = Signed(b, export_pack(b, w))
  PROVE  /\ p \in Pack /\ p.wing = w /\ Scoped(p)
         /\ \A x \in p.objects : \E e \in Served(b, w) : x.obj = e.obj
<1> DEFINE q == export_pack(b, w)
<1>1. /\ q.wing = w /\ q.objects = {[obj |-> Rebuilt(b, e), sig |-> e.sig] : e \in Served(b, w)}
      /\ q.tombstones = {t \in tombs[b] : t.wing = w}
      /\ q = [wing |-> w, objects |-> q.objects, tombstones |-> q.tombstones]
  BY DEF export_pack
<1>2. \A e \in Served(b, w) : e \in Entry /\ Rebuilt(b, e) = e.obj /\ e.obj \in Object /\ e.sig \in BOOLEAN
  BY DEF Served, TypeOK, Entry
<1>3. \A x \in q.objects : /\ x \in [obj : Object, sig : BOOLEAN]
                           /\ \E e \in Served(b, w) : x.obj = e.obj
  BY <1>1, <1>2
<1>4. \A t \in q.tombstones : t \in Tombstone /\ t.wing = w
  BY <1>1 DEF TypeOK
<1> HIDE DEF q
<1>5. CASE b \notin Attests
  <2>1. p = q BY <1>5 DEF Signed, q
  <2>2. q \in Pack BY <1>1, <1>3, <1>4 DEF Pack
  <2> QED BY <1>1, <1>3, <1>4, <2>1, <2>2 DEF Scoped
<1>6. CASE b \in Attests
  <2> DEFINE so(o) == [obj |-> o.obj, sig |-> o.sig \/ o.obj.author = b]
             st(t) == [wing |-> t.wing, obj |-> t.obj, ts |-> t.ts,
                       sig |-> IF t.sig = Unsigned THEN t.ts ELSE t.sig]
  <2>1. p = [wing |-> q.wing, objects |-> {so(o) : o \in q.objects},
             tombstones |-> {st(t) : t \in q.tombstones}]
    BY <1>6 DEF Signed, q
  <2>2. \A x \in q.objects : so(x) \in [obj : Object, sig : BOOLEAN] /\ so(x).obj = x.obj
    BY <1>3
  <2>3. \A t \in Tombstone : st(t) \in Tombstone /\ st(t).wing = t.wing
    BY DEF Tombstone
  <2> HIDE DEF so, st
  <2>4. p.wing = w /\ p.objects = {so(o) : o \in q.objects} /\ p.tombstones = {st(t) : t \in q.tombstones}
    BY <1>1, <2>1
  <2>5. \A x \in p.objects : /\ x \in [obj : Object, sig : BOOLEAN]
                             /\ \E e \in Served(b, w) : x.obj = e.obj
    BY <1>3, <2>2, <2>4
  <2>6. \A t \in p.tombstones : t \in Tombstone /\ t.wing = w
    BY <1>4, <2>3, <2>4
  <2>7. p \in Pack
    BY <2>1, <2>4, <2>5, <2>6 DEF Pack
  <2> QED BY <2>4, <2>5, <2>6, <2>7 DEF Scoped
<1> QED BY <1>5, <1>6

\* A served entry is one of the brain's own list.
LEMMA ServedListed ==
  ASSUME NEW b, NEW w, NEW e \in Served(b, w)
  PROVE  e \in manifest[b] /\ e.wing = w
BY DEF Served

\* The object a row is shared as.
LEMMA ObjectTyped ==
  ASSUME TypeOK, NEW b \in Brain, NEW mk \in Key \union imported[b], HasRow(b, mk),
         mk \in Object => mk.hops < MaxHops
  PROVE  ObjectForKey(b, mk) \in Object /\ mk \in MemKey
<1>1. CASE mk \in Key
  BY <1>1, ConstantsOK DEF HasRow, ObjectForKey, Object, TypeOK, MemKey
<1>2. CASE mk \notin Key
  <2>1. mk \in Object /\ MaxHops \in Nat BY <1>2, ConstantsOK DEF TypeOK
  <2>2. mk.hops + 1 \in 0 .. MaxHops BY <2>1 DEF Object
  <2> QED BY <1>2, <2>1, <2>2 DEF ObjectForKey, Object, MemKey
<1> QED BY <1>1, <1>2

LEMMA ShareStep ==
  ASSUME SovInv, NEW b \in Brain, NEW w \in Wing, NEW mk \in Key \union imported[b], share(b, mk, w)
  PROVE  SovInv'
<1> DEFINE o == ObjectForKey(b, mk)
           e == [wing |-> w, obj |-> o, mem |-> mk, sig |-> FALSE]
<1>1. /\ HasRow(b, mk)
      /\ mk \in Object => mk.hops < MaxHops
      /\ shares' = shares \union {<<w, o>>} /\ UNCHANGED <<native, imported, tombs, packs>>
  BY DEF share
<1>2. manifest' = [manifest EXCEPT ![b] = manifest'[b]] /\ manifest'[b] \subseteq manifest[b] \union {e}
  BY DEF share, SovInv, TypeOK
<1>3. o \in Object /\ mk \in MemKey
  BY <1>1, ObjectTyped DEF SovInv
<1> HIDE DEF o
<1>4. e \in Entry /\ e.wing = w /\ e.obj = o
  BY <1>3 DEF Entry
<1> HIDE DEF e
<1>5. TypeOK'
  BY <1>1, <1>2, <1>3, <1>4 DEF SovInv, TypeOK
<1>6. \A p \in packs' : Carried(p, shares')
  BY <1>1 DEF SovInv, Carried
<1>7. ASSUME NEW x \in Brain PROVE Shared(manifest'[x], shares') /\ Known(imported'[x], shares')
  <2>1. \A f \in manifest'[x] : f \in manifest[x] \/ f = e
    BY <1>2 DEF SovInv, TypeOK
  <2>2. Shared(manifest'[x], shares')
    BY <1>1, <1>4, <2>1 DEF SovInv, Shared
  <2>3. Known(imported'[x], shares')
    BY <1>1 DEF SovInv, Known
  <2> QED BY <2>2, <2>3
<1> QED BY <1>5, <1>6, <1>7 DEF SovInv

LEMMA TombstoneStep ==
  ASSUME SovInv, NEW b \in Brain, NEW s \in shares, NEW now \in Time, tombstone(b, s[1], s[2], now)
  PROVE  SovInv'
<1> DEFINE w == s[1]
           o == s[2]
           t == [wing |-> w, obj |-> o, ts |-> now, sig |-> Unsigned]
<1>1. /\ imported' = [imported EXCEPT ![b] = DropRows(@, manifest[b], w, {o})]
      /\ manifest' = [manifest EXCEPT ![b] = DropEntries(@, w, {o})]
      /\ tombs' = [tombs EXCEPT ![b] = IF Retracted(@, w, o) THEN @ ELSE @ \union {t}]
      /\ UNCHANGED <<native, packs, shares>>
  BY DEF tombstone
<1>2. w \in Wing /\ o \in Object
  BY DEF SovInv, TypeOK
<1> HIDE DEF w, o
<1>3. t \in Tombstone
  BY <1>2 DEF Tombstone
<1> HIDE DEF t
<1>4. \A x \in Brain : /\ manifest'[x] \subseteq manifest[x] /\ imported'[x] \subseteq imported[x]
                       /\ tombs'[x] \subseteq tombs[x] \union {t}
  BY <1>1 DEF SovInv, TypeOK, DropRows, DropEntries
<1>5. TypeOK'
  <2>1. imported' \in [Brain -> SUBSET Object]
    BY <1>1 DEF SovInv, TypeOK, DropRows
  <2>2. manifest' \in [Brain -> SUBSET Entry]
    BY <1>1 DEF SovInv, TypeOK, DropEntries
  <2>3. tombs' \in [Brain -> SUBSET Tombstone]
    BY <1>1, <1>3 DEF SovInv, TypeOK
  <2> QED BY <1>1, <2>1, <2>2, <2>3 DEF SovInv, TypeOK
<1> QED BY <1>1, <1>4, <1>5 DEF SovInv, Shared, Known

LEMMA ExportStep ==
  ASSUME SovInv, NEW b \in Brain, NEW w \in Wing, Export(b, w)
  PROVE  SovInv'
<1> DEFINE p == Signed(b, export_pack(b, w))
<1>1. packs' = packs \union {p} /\ UNCHANGED <<native, imported, manifest, tombs, shares>>
  BY DEF Export, store
<1>2. p \in Pack /\ p.wing = w /\ Scoped(p) /\ \A x \in p.objects : \E e \in Served(b, w) : x.obj = e.obj
  BY ExportFacts DEF SovInv
<1>3. Carried(p, shares)
  BY <1>2, ServedListed DEF SovInv, Shared, Carried
<1> HIDE DEF p
<1>4. TypeOK'
  BY <1>1, <1>2 DEF SovInv, TypeOK
<1> QED BY <1>1, <1>3, <1>4 DEF SovInv

LEMMA ImportStep ==
  ASSUME SovInv, NEW b \in Brain, NEW p \in packs, NEW now \in Time, import_pack_with_policy(b, p, now)
  PROVE  SovInv'
<1> DEFINE new == Import(b, p, now)
<1>1. /\ imported' = [imported EXCEPT ![b] = new.imported] /\ manifest' = [manifest EXCEPT ![b] = new.manifest]
      /\ tombs' = [tombs EXCEPT ![b] = new.tombs] /\ UNCHANGED <<native, packs, shares>>
  BY DEF import_pack_with_policy
<1>2. TypeOK /\ p \in Pack /\ Carried(p, shares) /\ Scoped(p)
  BY DEF SovInv, TypeOK, Carried
<1>3. new.tombs \in SUBSET Tombstone
  BY <1>2, ImportTombs
<1>4. \A x \in Objs(b, p) : x \in p.objects /\ x.obj \in Object /\ x.sig \in BOOLEAN /\ <<p.wing, x.obj>> \in shares
  BY <1>2, MergedFacts DEF Pack, Carried
<1>5. p.wing \in Wing
  BY <1>2 DEF Pack
<1>6. new.imported \subseteq imported[b] \union Unlisted(b, p)
  BY ImportRows DEF DropRows
<1>7. \A o \in new.imported : o \in Object /\ \E w \in Wing : <<w, o>> \in shares
  <2>1. \A o \in Unlisted(b, p) : \E x \in Objs(b, p) : o = x.obj
    BY DEF Unlisted
  <2>2. \A o \in imported[b] : o \in Object /\ \E w \in Wing : <<w, o>> \in shares
    BY DEF SovInv, TypeOK, Known
  <2> QED BY <1>4, <1>5, <1>6, <2>1, <2>2
<1>8. \A e \in new.manifest : e \in Entry /\ <<e.wing, e.obj>> \in shares
  <2>1. new.manifest \subseteq manifest[b] \union NewEntries(b, p.wing, Objs(b, p))
    <3>1. new.manifest = DropEntries(Listing(b, p), p.wing, Gone(b, p)) BY ImportRows
    <3> HIDE DEF new
    <3>2. new.manifest \subseteq Listing(b, p) BY <3>1 DEF DropEntries
    <3> QED BY <3>2 DEF Listing
  <2>2. \A e \in manifest[b] : e \in Entry /\ <<e.wing, e.obj>> \in shares
    BY DEF SovInv, TypeOK, Shared
  <2>3. ASSUME NEW e \in NewEntries(b, p.wing, Objs(b, p)) PROVE e \in Entry /\ <<e.wing, e.obj>> \in shares
    <3>1. PICK x \in Objs(b, p) : EntryOf(b, p, e, x) BY <2>3, NewFacts
    <3>2. e = [wing |-> e.wing, obj |-> e.obj, sig |-> e.sig, mem |-> e.mem]
      BY <2>3 DEF NewEntries
    <3>3. e.mem \in MemKey
      <4>1. existing_key(b, x.obj) \subseteq MemKey
        BY <1>2 DEF existing_key, TypeOK, Entry
      <4> QED BY <1>4, <3>1, <4>1 DEF EntryOf, MemKey
    <3> QED BY <1>4, <1>5, <3>1, <3>2, <3>3 DEF EntryOf, Entry
  <2> QED BY <2>1, <2>2, <2>3
<1> HIDE DEF new
<1>9. TypeOK'
  <2>1. new.imported \in SUBSET Object /\ new.manifest \in SUBSET Entry
    BY <1>7, <1>8
  <2> QED BY <1>1, <1>2, <1>3, <2>1 DEF TypeOK
<1>10. \A x \in Brain : Shared(manifest'[x], shares') /\ Known(imported'[x], shares')
  BY <1>1, <1>2, <1>7, <1>8 DEF SovInv, TypeOK, Shared, Known
<1> QED BY <1>1, <1>9, <1>10 DEF SovInv

LEMMA RowStep ==
  ASSUME SovInv, NEW b \in Brain,
         \/ \E k \in Key, v \in Version : Remember(b, k, v)
         \/ \E mk \in Key \union imported[b] : Forget(b, mk)
  PROVE  SovInv'
<1>1. /\ UNCHANGED <<manifest, tombs, packs, shares>>
      /\ native' \in [Brain -> [Key -> Version \union {NoRow}]]
      /\ imported' \in [Brain -> SUBSET Object] /\ \A x \in Brain : imported'[x] \subseteq imported[x]
  <2>1. ASSUME NEW k \in Key, NEW v \in Version, Remember(b, k, v)
        PROVE  /\ UNCHANGED <<imported, manifest, tombs, packs, shares>>
               /\ native' \in [Brain -> [Key -> Version \union {NoRow}]]
    BY <2>1 DEF Remember, SovInv, TypeOK
  <2>2. ASSUME NEW mk \in Key \union imported[b], Forget(b, mk)
        PROVE  /\ UNCHANGED <<manifest, tombs, packs, shares>>
               /\ native' \in [Brain -> [Key -> Version \union {NoRow}]]
               /\ imported' \in [Brain -> SUBSET Object]
               /\ \A x \in Brain : imported'[x] \subseteq imported[x]
    <3>1. CASE mk \in Key
      BY <2>2, <3>1 DEF Forget, SovInv, TypeOK
    <3>2. CASE mk \notin Key
      BY <2>2, <3>2 DEF Forget, SovInv, TypeOK
    <3> QED BY <3>1, <3>2
  <2> QED BY <2>1, <2>2 DEF SovInv, TypeOK
<1>2. TypeOK'
  BY <1>1 DEF SovInv, TypeOK
<1> QED BY <1>1, <1>2 DEF SovInv, Known

LEMMA SovNext == SovInv /\ [Next]_vars => SovInv'
<1> SUFFICES ASSUME SovInv, [Next]_vars PROVE SovInv'
  OBVIOUS
<1>1. ASSUME NEW b \in Author, NEW k \in Key, NEW v \in Version, Remember(b, k, v) PROVE SovInv'
  <2>1. b \in Brain BY ConstantsOK
  <2> QED BY <1>1, <2>1, RowStep
<1>2. ASSUME NEW b \in Brain, NEW mk \in Key \union imported[b], Forget(b, mk) PROVE SovInv'
  BY <1>2, RowStep
<1>3. CASE UNCHANGED vars
  BY <1>3 DEF vars, store, SovInv, TypeOK
<1> QED BY <1>1, <1>2, <1>3, ShareStep, TombstoneStep, ExportStep, ImportStep DEF Next

LEMMA SovInit == Init => SovInv
BY DEF Init, SovInv, TypeOK, Shared, Known

\* Only what was shared into a wing leaves a brain in that wing's packs or is stored
\* by another brain, whatever is edited, forgotten, retracted, relayed or replayed
\* (export_pack, import_pack_with_policy).
THEOREM SharedOnly == Spec => []Sovereignty
<1>1. SovInv => Sovereignty
  BY DEF SovInv, Carried, Known, Sovereignty
<1> QED BY <1>1, SovInit, SovNext, PTL DEF Spec

-----------------------------------------------------------------------------
(* Have and want. *)

\* After a brain has merged what a peer exports, all it still wants of what that peer
\* advertises is retracted here, not in the pack, or refused by the policy
\* (shared_wing_want, import_pack_with_policy).
THEOREM WantSettles == Spec => []MergeSettlesWant
<1>1. ASSUME SovInv, NEW b \in Brain, NEW c \in Brain, NEW w \in Wing, NEW now \in Time,
             NEW p, p = Signed(c, export_pack(c, w)), NEW o \in p.objects, Admits(b, o)
      PROVE  \/ o.obj \in enumerate(Import(b, p, now).manifest, Import(b, p, now).tombs, w)
             \/ Retracted(Import(b, p, now).tombs, w, o.obj)
  <2> DEFINE new == Import(b, p, now)
  <2>1. TypeOK /\ p \in Pack /\ p.wing = w /\ Scoped(p)
    BY <1>1, ExportFacts DEF SovInv
  <2>2. \A x : Retracted(new.tombs, w, x) <=> Retracted(tombs[b], w, x) \/ x \in Gone(b, p)
    BY <2>1, ImportTombs
  <2>3. new.manifest = DropEntries(Listing(b, p), w, Gone(b, p))
    BY <2>1, ImportRows
  <2> HIDE DEF new
  <2>4. CASE Retracted(tombs[b], w, o.obj) \/ o.obj \in Gone(b, p)
    BY <2>2, <2>4 DEF new
  <2>5. CASE ~Retracted(tombs[b], w, o.obj) /\ o.obj \notin Gone(b, p)
    <3>1. o \in Objs(b, p)
      BY <1>1, <2>1, <2>5 DEF Objs, Merged
    <3>2. PICK e \in Listing(b, p) : Lists(b, p, e, o)
      BY <3>1, NewFacts
    <3>3. e \in new.manifest /\ e.wing = w /\ e.obj = o.obj
      BY <2>1, <2>3, <2>5, <3>2 DEF DropEntries, Lists
    <3>4. o.obj \in enumerate(new.manifest, new.tombs, w)
      BY <2>2, <2>5, <3>3 DEF enumerate
    <3> QED BY <3>4 DEF new
  <2> QED BY <2>4, <2>5
<1>2. SovInv => MergeSettlesWant
  <2> SUFFICES ASSUME SovInv, NEW b \in Brain, NEW c \in Brain, NEW w \in Wing, NEW now \in Time,
                      NEW p, p = Signed(c, export_pack(c, w)), NEW o,
                      o \in shared_wing_want(Import(b, p, now).manifest, Import(b, p, now).tombs, w,
                                            enumerate(manifest[c], tombs[c], w)),
                      NEW x \in p.objects, x.obj = o, Admits(b, x)
               PROVE  Retracted(Import(b, p, now).tombs, w, o)
    BY DEF MergeSettlesWant
  <2>1. o \notin enumerate(Import(b, p, now).manifest, Import(b, p, now).tombs, w)
    BY DEF shared_wing_want, missing_locally
  <2> QED BY <1>1, <2>1
<1> QED BY <1>2, SovInit, SovNext, PTL DEF Spec

-----------------------------------------------------------------------------
(* No import is shared on. *)

\* The row of an entry, and its standing.
RowOf(b, e) == IF e.obj.author = b THEN e.mem = e.obj.key ELSE e.mem = e.obj
Listed(b, man, tomb) ==
  \A e \in man : RowOf(b, e) /\ (e.obj.author # b => ~Retracted(tomb, e.wing, e.obj))
Imports(b, man, rows) == \A o \in rows : o.author # b /\ \E e \in man : e.obj = o
Remembered(b, man, tomb, sh) ==
  \A w \in Wing, o \in Object :
    <<w, o>> \in sh /\ o.author = b =>
      (\E e \in man : e.wing = w /\ e.obj = o) \/ Retracted(tomb, w, o)

Sound(b, man, tomb, rows, sh) ==
  Listed(b, man, tomb) /\ Imports(b, man, rows) /\ Remembered(b, man, tomb, sh)
OneHop ==
  /\ SovInv
  /\ \A b \in Brain : Sound(b, manifest[b], tombs[b], imported[b], shares)

SoundAt(b) == Sound(b, manifest[b], tombs[b], imported[b], shares)

\* Rows that go leave a list sound.
LEMMA FewerRows ==
  ASSUME NEW b, NEW man, NEW tomb, NEW rows, NEW sh, Sound(b, man, tomb, rows, sh), NEW rows2 \in SUBSET rows
  PROVE  Sound(b, man, tomb, rows2, sh)
BY DEF Sound, Imports

\* A share adds an object of the brain's own, and others remember what they did.
LEMMA ShareSound ==
  ASSUME MaxHops = 0, OneHop, NEW b \in Brain, NEW w \in Wing, NEW mk \in Key \union imported[b],
         share(b, mk, w), NEW x \in Brain
  PROVE  Sound(x, manifest[x], tombs[x], imported[x], shares)'
<1> DEFINE o == ObjectForKey(b, mk)
           e == [wing |-> w, obj |-> o, mem |-> mk, sig |-> FALSE]
<1>1. /\ HasRow(b, mk)
      /\ mk \in Object => mk.hops < MaxHops
      /\ manifest' = [manifest EXCEPT ![b] =
            IF \E f \in @ : f.wing = w /\ f.obj = o THEN @ ELSE @ \union {e}]
      /\ shares' = shares \union {<<w, o>>} /\ UNCHANGED <<native, imported, tombs, packs>>
  BY DEF share
<1>2. mk \in Key
  <2>1. \A m \in Object : m.hops = 0 BY DEF Object
  <2>2. imported[b] \subseteq Object BY DEF OneHop, SovInv, TypeOK
  <2> QED BY <1>1, <2>1, <2>2
<1>3. o.author = b /\ o.key = mk /\ o \in Object
  BY <1>1, <1>2, ObjectTyped DEF ObjectForKey, OneHop, SovInv
<1> HIDE DEF o
<1>4. e.wing = w /\ e.obj = o /\ e.mem = mk
  OBVIOUS
<1> HIDE DEF e
<1>5. manifest \in [Brain -> SUBSET Entry] /\ Sound(x, manifest[x], tombs[x], imported[x], shares)
  BY DEF OneHop, SovInv, TypeOK
<1>6. manifest[x] \subseteq manifest'[x] /\ manifest'[x] \subseteq manifest[x] \union {e}
      /\ (x # b => manifest'[x] = manifest[x])
  BY <1>1, <1>5
<1>7. \E f \in manifest'[b] : f.wing = w /\ f.obj = o
  BY <1>1, <1>4, <1>5
<1>8. Listed(x, manifest'[x], tombs'[x])
  <2>1. ASSUME NEW f \in manifest'[x] PROVE RowOf(x, f) /\ (f.obj.author # x => ~Retracted(tombs[x], f.wing, f.obj))
    <3>1. CASE f \in manifest[x]
      BY <1>5, <3>1 DEF Sound, Listed
    <3>2. CASE f \notin manifest[x]
      <4>1. x = b /\ f = e BY <1>6, <3>2
      <4> QED BY <1>3, <1>4, <4>1 DEF RowOf
    <3> QED BY <3>1, <3>2
  <2> QED BY <1>1, <2>1 DEF Listed
<1>9. Imports(x, manifest'[x], imported'[x])
  BY <1>1, <1>5, <1>6 DEF Sound, Imports
<1>10. Remembered(x, manifest'[x], tombs'[x], shares')
  <2> SUFFICES ASSUME NEW v \in Wing, NEW q \in Object, <<v, q>> \in shares', q.author = x
               PROVE  (\E f \in manifest'[x] : f.wing = v /\ f.obj = q) \/ Retracted(tombs[x], v, q)
    BY <1>1 DEF Remembered
  <2>1. CASE <<v, q>> \in shares
    BY <1>5, <1>6, <2>1 DEF Sound, Remembered
  <2>2. CASE <<v, q>> \notin shares
    <3>1. v = w /\ q = o BY <1>1, <2>2
    <3> QED BY <1>3, <1>7, <3>1
  <2> QED BY <2>1, <2>2
<1> QED BY <1>8, <1>9, <1>10 DEF Sound

\* A list and its rows stay sound when a wing retracts the objects gone and drops them.
LEMMA RetractSound ==
  ASSUME NEW b, NEW man, NEW tomb, NEW rows, NEW sh, NEW w, NEW gone, NEW tomb2,
         Listed(b, man, tomb), Imports(b, man, rows), Remembered(b, man, tomb, sh),
         \A v, o : Retracted(tomb2, v, o) <=> Retracted(tomb, v, o) \/ (v = w /\ o \in gone)
  PROVE  Sound(b, DropEntries(man, w, gone), tomb2, DropRows(rows, man, w, gone), sh)
<1>1. Listed(b, DropEntries(man, w, gone), tomb2)
  BY DEF Listed, DropEntries
<1>2. ASSUME NEW o \in DropRows(rows, man, w, gone)
      PROVE  o.author # b /\ \E e \in DropEntries(man, w, gone) : e.obj = o
  BY <1>2 DEF DropRows, DropEntries, Imports
<1>3. Remembered(b, DropEntries(man, w, gone), tomb2, sh)
  BY DEF Remembered, DropEntries
<1> QED BY <1>1, <1>2, <1>3 DEF Sound, Imports

LEMMA TombstoneSound ==
  ASSUME OneHop, NEW b \in Brain, NEW s \in shares, NEW now \in Time, tombstone(b, s[1], s[2], now),
         NEW x \in Brain
  PROVE  Sound(x, manifest[x], tombs[x], imported[x], shares)'
<1> DEFINE w == s[1]
           o == s[2]
           t == [wing |-> w, obj |-> o, ts |-> now, sig |-> Unsigned]
<1>1. /\ imported' = [imported EXCEPT ![b] = DropRows(@, manifest[b], w, {o})]
      /\ manifest' = [manifest EXCEPT ![b] = DropEntries(@, w, {o})]
      /\ tombs' = [tombs EXCEPT ![b] = IF Retracted(@, w, o) THEN @ ELSE @ \union {t}]
      /\ shares' = shares
  BY DEF tombstone
<1> HIDE DEF w, o
<1>2. t.wing = w /\ t.obj = o OBVIOUS
<1> HIDE DEF t
<1>3. /\ imported \in [Brain -> SUBSET Object] /\ manifest \in [Brain -> SUBSET Entry]
      /\ tombs \in [Brain -> SUBSET Tombstone] /\ Sound(x, manifest[x], tombs[x], imported[x], shares)
  BY DEF OneHop, SovInv, TypeOK
<1>4. CASE x # b
  BY <1>1, <1>3, <1>4
<1>5. CASE x = b
  <2>1. /\ imported'[b] = DropRows(imported[b], manifest[b], w, {o})
        /\ manifest'[b] = DropEntries(manifest[b], w, {o})
        /\ tombs'[b] = IF Retracted(tombs[b], w, o) THEN tombs[b] ELSE tombs[b] \union {t}
    BY <1>1, <1>3
  <2>2. \A v, q : Retracted(tombs'[b], v, q) <=> Retracted(tombs[b], v, q) \/ (v = w /\ q \in {o})
    BY <1>2, <2>1 DEF Retracted
  <2> QED BY <1>1, <1>3, <1>5, <2>1, <2>2, RetractSound DEF Sound
<1> QED BY <1>4, <1>5

\* An object of the brain's own that it merges is listed already; what a pack adds is
\* listed under itself.
LEMMA ImportSound ==
  ASSUME OneHop, NEW b \in Brain, NEW p \in packs, NEW now \in Time
  PROVE  LET new == Import(b, p, now)
         IN  Sound(b, new.manifest, new.tombs, new.imported, shares)
<1> DEFINE new == Import(b, p, now)
<1>1. TypeOK /\ p \in Pack /\ Carried(p, shares) /\ Scoped(p) /\ p.wing \in Wing
  BY DEF OneHop, SovInv, TypeOK, Carried, Pack
<1>2. /\ Listed(b, manifest[b], tombs[b]) /\ Imports(b, manifest[b], imported[b])
      /\ Remembered(b, manifest[b], tombs[b], shares)
  BY DEF OneHop, Sound
<1>3. \A x \in Objs(b, p) : /\ x.obj \in Object /\ <<p.wing, x.obj>> \in shares
                            /\ ~Retracted(tombs[b], p.wing, x.obj)
  BY <1>1, MergedFacts DEF Carried, Pack
<1>4. \A x \in Objs(b, p) : x.obj.author = b => \E f \in manifest[b] : f.wing = p.wing /\ f.obj = x.obj
  BY <1>1, <1>2, <1>3 DEF Remembered
<1>5. ASSUME NEW e \in NewEntries(b, p.wing, Objs(b, p))
      PROVE  e.obj.author # b /\ e.mem = e.obj /\ ~Retracted(tombs[b], e.wing, e.obj)
  <2>1. PICK x \in Objs(b, p) : EntryOf(b, p, e, x) BY <1>5, NewFacts
  <2>2. e.obj = x.obj /\ e.wing = p.wing /\ x.obj.author # b
    BY <1>4, <2>1 DEF EntryOf
  <2>3. \A mk \in existing_key(b, x.obj) : mk = x.obj
    BY <1>2, <2>2 DEF existing_key, Listed, RowOf
  <2>4. e.mem = x.obj
    BY <2>1, <2>3 DEF EntryOf
  <2> QED BY <1>3, <2>2, <2>4
<1>6. Listed(b, Listing(b, p), tombs[b])
  BY <1>2, <1>5 DEF Listed, RowOf, Listing
<1>7. Imports(b, Listing(b, p), imported[b] \union Unlisted(b, p))
  <2>1. ASSUME NEW o \in Unlisted(b, p)
        PROVE  o.author # b /\ \E e \in Listing(b, p) : e.obj = o
    <3>1. PICK x \in Objs(b, p) : o = x.obj /\ existing_key(b, x.obj) = {}
      BY <2>1 DEF Unlisted
    <3>2. \A f \in manifest[b] : f.obj # x.obj
      BY <3>1 DEF existing_key
    <3>3. PICK e \in Listing(b, p) : Lists(b, p, e, x)
      BY NewFacts
    <3> QED BY <1>4, <3>1, <3>2, <3>3 DEF Lists
  <2>2. ASSUME NEW o \in imported[b]
        PROVE  o.author # b /\ \E e \in Listing(b, p) : e.obj = o
    BY <1>2, <2>2 DEF Imports, Listing
  <2> QED BY <2>1, <2>2 DEF Imports
<1>8. Remembered(b, Listing(b, p), tombs[b], shares)
  BY <1>2 DEF Remembered, Listing
<1>9. \A w, o : Retracted(new.tombs, w, o) <=> Retracted(tombs[b], w, o) \/ (w = p.wing /\ o \in Gone(b, p))
  BY <1>1, ImportTombs
<1>10. /\ new.manifest = DropEntries(Listing(b, p), p.wing, Gone(b, p))
       /\ new.imported = DropRows(imported[b] \union Unlisted(b, p), Listing(b, p), p.wing, Gone(b, p))
  BY ImportRows
<1> HIDE DEF new
<1>11. Sound(b, new.manifest, new.tombs, new.imported, shares)
  BY <1>6, <1>7, <1>8, <1>9, <1>10, RetractSound
<1> QED BY <1>11 DEF new

LEMMA OneHopInit == Init => OneHop
BY SovInit DEF Init, OneHop, Sound, Listed, Imports, Remembered

LEMMA OneHopNext == ASSUME MaxHops = 0 PROVE OneHop /\ [Next]_vars => OneHop'
<1> SUFFICES ASSUME OneHop, [Next]_vars, NEW x \in Brain
             PROVE  SoundAt(x)'
  BY SovNext DEF OneHop, SoundAt
<1>1. Sound(x, manifest[x], tombs[x], imported[x], shares)
      /\ imported \in [Brain -> SUBSET Object] /\ manifest \in [Brain -> SUBSET Entry]
      /\ tombs \in [Brain -> SUBSET Tombstone]
  BY DEF OneHop, SovInv, TypeOK
<1>2. ASSUME UNCHANGED <<manifest, tombs, shares>>, imported'[x] \subseteq imported[x] PROVE SoundAt(x)'
  BY <1>1, <1>2, FewerRows DEF SoundAt
<1>3. ASSUME NEW b \in Author, NEW k \in Key, NEW v \in Version, Remember(b, k, v) PROVE SoundAt(x)'
  BY <1>2, <1>3 DEF Remember
<1>4. ASSUME NEW b \in Brain, NEW mk \in Key \union imported[b], Forget(b, mk) PROVE SoundAt(x)'
  BY <1>1, <1>2, <1>4 DEF Forget
<1>5. ASSUME NEW b \in Brain, NEW w \in Wing, NEW mk \in Key \union imported[b], share(b, mk, w) PROVE SoundAt(x)'
  BY <1>5, ShareSound DEF SoundAt
<1>6. ASSUME NEW b \in Brain, NEW s \in shares, NEW now \in Time, tombstone(b, s[1], s[2], now) PROVE SoundAt(x)'
  BY <1>6, TombstoneSound DEF SoundAt
<1>7. ASSUME NEW b \in Brain, NEW w \in Wing, Export(b, w) PROVE SoundAt(x)'
  BY <1>2, <1>7 DEF Export, store
<1>8. ASSUME NEW b \in Brain, NEW p \in packs, NEW now \in Time, import_pack_with_policy(b, p, now) PROVE SoundAt(x)'
  <2> DEFINE new == Import(b, p, now)
  <2>1. /\ imported' = [imported EXCEPT ![b] = new.imported] /\ manifest' = [manifest EXCEPT ![b] = new.manifest]
        /\ tombs' = [tombs EXCEPT ![b] = new.tombs] /\ shares' = shares
    BY <1>8 DEF import_pack_with_policy
  <2>2. Sound(b, new.manifest, new.tombs, new.imported, shares)
    BY ImportSound
  <2> HIDE DEF new
  <2>3. CASE x = b
    BY <1>1, <2>1, <2>2, <2>3 DEF SoundAt
  <2>4. CASE x # b
    BY <1>1, <2>1, <2>4 DEF SoundAt
  <2> QED BY <2>3, <2>4
<1>9. CASE UNCHANGED vars
  BY <1>2, <1>9 DEF vars, store
<1> QED BY <1>3, <1>4, <1>5, <1>6, <1>7, <1>8, <1>9 DEF Next

\* When no import is shared on, a brain keeps one row per object: its own objects,
\* gossiped back in whatever order, get no second row (import_pack_with_policy's look
\* for an existing key).
THEOREM OneRow == ASSUME MaxHops = 0 PROVE Spec => []FedInv
<1>1. OneHop => FedInv
  <2> SUFFICES ASSUME OneHop, NEW b \in Brain, NEW e \in manifest[b]
               PROVE  /\ \A f \in manifest[b] : e.obj = f.obj => e.mem = f.mem
                      /\ e.mem \in Key => e.obj \notin imported[b]
    BY DEF OneHop, SovInv, FedInv, OneRowPerObject
  <2>1. \A f \in manifest[b] : RowOf(b, f)
    BY DEF OneHop, Sound, Listed
  <2>2. e.obj \in Object /\ \A o \in imported[b] : o.author # b
    BY DEF OneHop, Sound, Imports, SovInv, TypeOK, Entry
  <2>3. e.mem \in Key => e.obj.author = b
    BY <2>1, <2>2, KeysAreGiven DEF RowOf
  <2> QED BY <2>1, <2>2, <2>3 DEF RowOf
<1> QED BY <1>1, OneHopInit, OneHopNext, PTL DEF Spec

\* When no import is shared on, an import is kept only while a wing that has not
\* retracted it lists it (apply_tombstone_tx, import_pack_with_policy).
THEOREM ImportsListed == ASSUME MaxHops = 0 PROVE Spec => []ImportedIsListed
<1>1. OneHop => ImportedIsListed
  BY DEF OneHop, Sound, Imports, Listed, RowOf, ImportedIsListed
<1> QED BY <1>1, OneHopInit, OneHopNext, PTL DEF Spec

\* An entry that a wing served and has not retracted since, still on the list and with
\* its row as it was, is served.
LEMMA StillServed ==
  ASSUME NEW b \in Brain, NEW w \in Wing, NEW e \in Served(b, w), e \in manifest'[b],
         ~Retracted(tombs'[b], w, e.obj), native' = native,
         e.mem \notin Key => e.mem \in imported'[b]
  PROVE  e \in Served(b, w)'
BY DEF Served, HasRow, Rebuilt

\* When no import is shared on, a retraction leaves alone what the other wings serve
\* (apply_tombstone_tx).
THEOREM WingScoped == ASSUME MaxHops = 0 PROVE Spec => RetractionIsWingScoped
<1> DEFINE A == \A b \in Brain, w \in Wing :
                  tombs'[b] # tombs[b] =>
                    \A e \in Served(b, w) : e \in Served(b, w)' \/ Retracted(tombs'[b], w, e.obj)
\* What the entries that remain refer to stays.
<1>1. ASSUME OneHop, NEW b \in Brain, NEW w \in Wing, NEW e \in Served(b, w), ~Retracted(tombs'[b], w, e.obj),
             NEW man, manifest[b] \subseteq man, NEW rows, imported[b] \subseteq rows, NEW v, NEW gone,
             \A o \in gone : Retracted(tombs'[b], v, o), native' = native,
             manifest'[b] = DropEntries(man, v, gone), imported'[b] = DropRows(rows, man, v, gone)
      PROVE  e \in Served(b, w)'
  <2>1. e \in man /\ e.wing = w /\ (e.mem \notin Key => e.mem \in rows)
    BY <1>1 DEF Served, HasRow
  <2>2. ~(w = v /\ e.obj \in gone)
    BY <1>1
  <2>3. e \in manifest'[b]
    BY <1>1, <2>1, <2>2 DEF DropEntries
  <2>4. e.mem \notin Key => e.mem = e.obj
    <3>1. RowOf(b, e) /\ e.obj \in Object /\ e.mem \in MemKey
      BY <1>1, ServedListed DEF OneHop, Sound, Listed, SovInv, TypeOK, Entry
    <3>2. e.obj.key \in Key BY <3>1 DEF Object
    <3> QED BY <3>1, <3>2 DEF RowOf
  <2>5. e.mem \notin Key => e.mem \in imported'[b]
    BY <1>1, <2>1, <2>2, <2>4 DEF DropRows
  <2> QED BY <1>1, <2>3, <2>5, StillServed
<1>2. ASSUME OneHop, Next, NEW b \in Brain, NEW w \in Wing, tombs'[b] # tombs[b], NEW e \in Served(b, w),
             ~Retracted(tombs'[b], w, e.obj)
      PROVE  e \in Served(b, w)'
  <2>1. /\ imported \in [Brain -> SUBSET Object] /\ manifest \in [Brain -> SUBSET Entry]
        /\ tombs \in [Brain -> SUBSET Tombstone] /\ TypeOK
    BY <1>2 DEF OneHop, SovInv, TypeOK
  <2>2. ASSUME NEW s \in shares, NEW now \in Time, tombstone(b, s[1], s[2], now)
        PROVE  e \in Served(b, w)'
    <3>1. /\ manifest'[b] = DropEntries(manifest[b], s[1], {s[2]}) /\ native' = native
          /\ imported'[b] = DropRows(imported[b], manifest[b], s[1], {s[2]})
      BY <2>1, <2>2 DEF tombstone
    <3>2. Retracted(tombs'[b], s[1], s[2])
      <4> DEFINE t == [wing |-> s[1], obj |-> s[2], ts |-> now, sig |-> Unsigned]
      <4>1. tombs'[b] = IF Retracted(tombs[b], s[1], s[2]) THEN tombs[b] ELSE tombs[b] \union {t}
        BY <2>1, <2>2 DEF tombstone
      <4>2. t.wing = s[1] /\ t.obj = s[2] OBVIOUS
      <4> HIDE DEF t
      <4> QED BY <4>1, <4>2 DEF Retracted
    <3> QED BY <1>1, <1>2, <3>1, <3>2
  <2>3. ASSUME NEW p \in packs, NEW now \in Time, import_pack_with_policy(b, p, now)
        PROVE  e \in Served(b, w)'
    <3> DEFINE new == Import(b, p, now)
    <3>1. manifest'[b] = new.manifest /\ imported'[b] = new.imported /\ tombs'[b] = new.tombs /\ native' = native
      BY <2>1, <2>3 DEF import_pack_with_policy
    <3>2. /\ new.manifest = DropEntries(Listing(b, p), p.wing, Gone(b, p))
          /\ new.imported = DropRows(imported[b] \union Unlisted(b, p), Listing(b, p), p.wing, Gone(b, p))
      BY ImportRows
    <3>3. p \in Pack /\ Scoped(p)
      BY <1>2 DEF OneHop, SovInv, TypeOK, Carried
    <3>4. \A o \in Gone(b, p) : Retracted(new.tombs, p.wing, o)
      BY <2>1, <3>3, ImportTombs
    <3> HIDE DEF new
    <3>5. manifest[b] \subseteq Listing(b, p) BY DEF Listing
    <3> QED BY <1>1, <1>2, <3>1, <3>2, <3>4, <3>5
  <2>4. \/ \E s \in shares, now \in Time : tombstone(b, s[1], s[2], now)
        \/ \E p \in packs, now \in Time : import_pack_with_policy(b, p, now)
    <3>1. ASSUME NEW c \in Brain, NEW s \in shares, NEW now \in Time, tombstone(c, s[1], s[2], now) PROVE c = b
      BY <1>2, <2>1, <3>1 DEF tombstone
    <3>2. ASSUME NEW c \in Brain, NEW p \in packs, NEW now \in Time, import_pack_with_policy(c, p, now) PROVE c = b
      BY <1>2, <2>1, <3>2 DEF import_pack_with_policy
    <3> QED BY <1>2, <3>1, <3>2 DEF Next, Remember, Forget, share, Export, store
  <2> QED BY <2>2, <2>3, <2>4
<1>3. OneHop /\ [Next]_vars => [A]_vars
  BY <1>2
<1> QED BY <1>3, OneHopInit, OneHopNext, PTL DEF Spec, RetractionIsWingScoped
=============================================================================
