------------------------ MODULE MemoryLifecycle_proofs ------------------------
(***************************************************************************)
(* Proofs about MemoryLifecycle.  LifecycleInv holds whatever the host     *)
(* overlaps.  What forgetting and repairing promise holds when the host    *)
(* runs forget and repair alone: then whoever reads a row and enrols it    *)
(* later still finds the row there.  StageInv says, step by step, what a   *)
(* call may rely on; it is inductive together with the properties.         *)
(***************************************************************************)
EXTENDS MemoryLifecycle, SequenceTheorems, WellFoundedInduction, TLAPS

-----------------------------------------------------------------------------
(* The inductive invariants. *)

Writing == {"density", "readback", "sign", "enroll"}
Forgetting == {"delete", "untrace", "probe_recall", "probe_recognition"}
Visiting == {"visit_density", "visit_sign", "visit_enroll"}
Repairing == Visiting \union {"visit", "prune"}

\* What both databases and the histories are at any time.
StoreOK ==
  /\ row \in [Key -> MaybeRow]
  /\ enrolled \in [Key -> Version \union {NoVersion}]
  /\ pending \in Seq(Key)
  /\ \A i, j \in DOMAIN pending : pending[i] = pending[j] => i = j
  /\ forgotten \subseteq Key /\ derived \subseteq Key

\* A call that works on one memory knows its key, and one that writes it the
\* content; a retry has ids left, and a repair visits what it listed.
CallIn(c) ==
  /\ c.pc \in Writing \union Forgetting \union Visiting => c.key \in Key
  /\ c.pc \in Writing => c.version \in Version
  /\ c.pc \in {"fetch", "retry"} => c.todo # <<>>
  /\ Live(c.snap) \subseteq c.live
  /\ c.pc \in Visiting => c.key \in Live(c.snap)

CallsInv ==
  /\ StoreOK
  /\ call \in [Thread -> Call] /\ \A th \in Thread : CallIn(call[th])

\* A remember has written its row, and what succeeded without a warning is in it.
WrittenIn(c) ==
  /\ c.pc \in Writing => row[c.key] # NoRow
  /\ c.pc = "sign" => c.read \in Version
  /\ c.pc \in {"readback", "sign", "enroll"} /\ ~c.warned => row[c.key].dense
  /\ c.pc = "enroll" /\ ~c.warned => row[c.key].sig # NoVersion

\* A retry enrols only what still has a row.
RetriedIn(c) ==
  c.pc = "retry" /\ c.read # NoVersion => row[Head(c.todo)] # NoRow

\* A forget has read the content it deletes, and its memory is promised to nobody.
ForgottenIn(c) ==
  /\ c.pc \in Forgetting => c.key \notin derived
  /\ c.pc = "delete" => c.read = row[c.key].content
  /\ c.pc \in Forgetting \ {"delete"} =>
       row[c.key] = NoRow /\ (c.existed => c.read # NoVersion)

\* A repair's rows are there; unless the listing was cut off they are all rows.
\* What it visited is whole, and a row it has still to visit lacks nothing that
\* the listing showed it to have.
RepairedIn(c) ==
  c.pc \in Repairing =>
    /\ c.live \subseteq Live(row)
    /\ Cardinality(c.live) >= c.limit \/ c.live = Live(row)
    /\ \A k \in c.live \ Live(c.snap) : Whole(k)
    /\ \A k \in Live(c.snap) :
         /\ c.snap[k].dense => row[k].dense
         /\ c.snap[k].sig # NoVersion => row[k].sig # NoVersion
    /\ c.pc \in {"visit_sign", "visit_enroll"} => row[c.key].dense
    /\ c.pc = "visit_enroll" => row[c.key].sig # NoVersion
    /\ c.pc = "prune" => Live(c.snap) = {}

StageIn(c) == WrittenIn(c) /\ RetriedIn(c) /\ ForgottenIn(c) /\ RepairedIn(c)

\* forget and repair run alone.
Alone ==
  \A th, other \in Thread :
    call[th].pc \in Maintenance /\ other # th => call[other].pc = "idle"

StageInv ==
  /\ CallsInv
  /\ Alone
  /\ \A th \in Thread : StageIn(call[th])
  /\ ForgottenStaysForgotten
  /\ DerivedIsRecognised

-----------------------------------------------------------------------------
(* The retry queue: its ids are removed one by one and never doubled. *)

\* A sequence without its i-th element.
LEMMA Removed ==
  ASSUME NEW S, NEW s \in Seq(S), NEW i \in 1 .. Len(s)
  PROVE  /\ RemoveAt(s, i) \in Seq(S)
         /\ Len(RemoveAt(s, i)) = Len(s) - 1
         /\ \A j \in 1 .. Len(s) - 1 :
              RemoveAt(s, i)[j] = s[IF j < i THEN j ELSE j + 1]
<1> DEFINE a == SubSeq(s, 1, i - 1)
           b == SubSeq(s, i + 1, Len(s))
<1>1. Len(s) \in Nat /\ \A j \in 1 .. Len(s) : s[j] \in S
  BY ElementOfSeq, LenProperties
<1>2. /\ a \in Seq(S) /\ Len(a) = i - 1
      /\ \A j \in 1 .. i - 1 : a[j] = s[j]
  BY <1>1, SubSeqProperties
<1>3. /\ b \in Seq(S) /\ Len(b) = Len(s) - i
      /\ \A j \in 1 .. Len(s) - i : b[j] = s[i + j]
  <2>1. \A j \in (i + 1) .. Len(s) : s[j] \in S
    BY <1>1
  <2> QED
    BY <2>1, <1>1, SubSeqProperties
<1>4. RemoveAt(s, i) = a \o b
  BY DEF RemoveAt
<1> HIDE DEF a, b
<1>5. /\ a \o b \in Seq(S) /\ Len(a \o b) = Len(s) - 1
      /\ \A j \in 1 .. Len(s) - 1 :
           (a \o b)[j] = IF j <= i - 1 THEN a[j] ELSE b[j - (i - 1)]
  <2>1. /\ a \o b \in Seq(S) /\ Len(a \o b) = Len(a) + Len(b)
        /\ \A j \in 1 .. Len(a) + Len(b) :
             (a \o b)[j] = IF j <= Len(a) THEN a[j] ELSE b[j - Len(a)]
    BY <1>2, <1>3, ConcatProperties
  <2> QED
    BY <2>1, <1>1, <1>2, <1>3
<1>6. \A j \in 1 .. Len(s) - 1 : (a \o b)[j] = s[IF j < i THEN j ELSE j + 1]
  BY <1>1, <1>2, <1>3, <1>5
<1> QED
  BY <1>4, <1>5, <1>6

\* A non-empty set of positions has a first one.
LEMMA FirstPosition ==
  ASSUME NEW I \in SUBSET Nat, I # {}
  PROVE  Min(I) \in I
<1>1. PICK i \in I : \A j \in I : ~(<<j, i>> \in OpToRel(<, Nat))
  BY NatLessThanWellFounded, WFMin
<1>2. ASSUME NEW j \in I PROVE i <= j
  <2>1. ~(j < i)
    BY <1>1 DEF OpToRel
  <2> QED
    BY <2>1
<1> QED
  BY <1>2 DEF Min

\* Clearing an id takes out one place of the queue, if it was there.
LEMMA Cleared ==
  ASSUME NEW S, NEW s \in Seq(S), NEW e
  PROVE  \/ RemoveFirst(s, e) = s
         \/ \E i \in 1 .. Len(s) : s[i] = e /\ RemoveFirst(s, e) = RemoveAt(s, i)
<1> DEFINE I == {i \in 1 .. Len(s) : s[i] = e}
<1>1. I = {} => RemoveFirst(s, e) = s
  BY DEF RemoveFirst
<1>2. I # {} => Min(I) \in I
  <2>1. I \in SUBSET Nat
    BY LenProperties
  <2> HIDE DEF I
  <2> QED
    BY <2>1, FirstPosition
<1>3. I # {} => RemoveFirst(s, e) = RemoveAt(s, Min(I))
  BY DEF RemoveFirst, SelectInSeq
<1> QED
  BY <1>1, <1>2, <1>3

\* clear_pending and mark_pending keep the queue free of repetitions.
LEMMA QueueKept ==
  ASSUME StoreOK, NEW k \in Key,
         NEW q, q \in {pending, ClearPending(k), MarkPending(k)}
  PROVE  /\ q \in Seq(Key)
         /\ \A i, j \in DOMAIN q : q[i] = q[j] => i = j
<1> USE DEF StoreOK
<1>1. CASE q = pending
  BY <1>1
<1>2. CASE q = ClearPending(k) /\ q # pending
  <2>1. PICK n \in 1 .. Len(pending) : q = RemoveAt(pending, n)
    BY <1>2, Cleared DEF ClearPending
  <2>2. /\ q \in Seq(Key) /\ Len(q) = Len(pending) - 1
        /\ \A j \in 1 .. Len(pending) - 1 :
             q[j] = pending[IF j < n THEN j ELSE j + 1]
    BY <2>1, Removed
  <2>3. Len(pending) \in Nat /\ DOMAIN pending = 1 .. Len(pending)
    BY LenProperties
  <2>4. DOMAIN q = 1 .. Len(pending) - 1
    BY <2>2, LenProperties
  <2>5. ASSUME NEW i \in DOMAIN q, NEW j \in DOMAIN q, q[i] = q[j]
        PROVE  i = j
    <3> DEFINE at(m) == IF m < n THEN m ELSE m + 1
    <3>1. at(i) \in DOMAIN pending /\ at(j) \in DOMAIN pending
      BY <2>3, <2>4
    <3>2. pending[at(i)] = pending[at(j)]
      BY <2>2, <2>4, <2>5
    <3>3. at(i) = at(j)
      BY <3>1, <3>2, Zenon
    <3> QED
      BY <3>3, <2>3, <2>4
  <2> QED
    BY <2>2, <2>5
<1>3. CASE q = MarkPending(k) /\ q # pending
  <2>1. q = Append(pending, k) /\ k \notin Listed(pending)
    BY <1>3 DEF MarkPending
  <2>2. /\ q \in Seq(Key) /\ Len(q) = Len(pending) + 1
        /\ \A i \in 1 .. Len(pending) : q[i] = pending[i]
        /\ q[Len(pending) + 1] = k
    BY <2>1, AppendProperties
  <2>3. Len(pending) \in Nat /\ DOMAIN pending = 1 .. Len(pending)
    BY LenProperties
  <2>4. DOMAIN q = 1 .. Len(pending) + 1
    BY <2>2, LenProperties
  <2>5. \A i \in DOMAIN pending : pending[i] # k
    BY <2>1 DEF Listed
  <2> QED
    BY <2>2, <2>3, <2>4, <2>5
<1> QED
  BY <1>1, <1>2, <1>3

-----------------------------------------------------------------------------
(* Rows and calls. *)

\* Only a row that is there is updated, and it stays a row.
LEMMA RowUpdates ==
  ASSUME NEW r \in Row, NEW v \in Version, NEW w \in Version \union {NoVersion}
  PROVE  /\ r # NoRow /\ r.content \in Version /\ r.dense \in BOOLEAN
         /\ r.sig \in Version \union {NoVersion}
         /\ LET e == [r EXCEPT !.content = v]
            IN  e \in Row /\ e.dense = r.dense /\ e.sig = r.sig
         /\ LET e == [r EXCEPT !.dense = TRUE]
            IN  e \in Row /\ e.dense /\ e.sig = r.sig
         /\ LET e == [r EXCEPT !.sig = w]
            IN  e \in Row /\ e.dense = r.dense /\ e.sig = w
<1>1. /\ r.content \in Version /\ r.dense \in BOOLEAN
      /\ r.sig \in Version \union {NoVersion}
  BY DEF Row
<1>2. r # NoRow
  BY <1>1, ConstantsOK DEF NoRow
<1>3. LET e == [r EXCEPT !.content = v]
      IN  e \in Row /\ e.dense = r.dense /\ e.sig = r.sig
  BY DEF Row
<1>4. LET e == [r EXCEPT !.dense = TRUE]
      IN  e \in Row /\ e.dense /\ e.sig = r.sig
  BY DEF Row
<1>5. LET e == [r EXCEPT !.sig = w]
      IN  e \in Row /\ e.dense = r.dense /\ e.sig = w
  BY DEF Row
<1> QED
  BY <1>1, <1>2, <1>3, <1>4, <1>5

\* Rows are not deleted, and neither is what was derived from them.
RowsGrow ==
  /\ row' \in [Key -> MaybeRow]
  /\ \A k \in Key : row[k] # NoRow =>
       /\ row'[k] # NoRow
       /\ row[k].dense => row'[k].dense
       /\ row[k].sig # NoVersion => row'[k].sig # NoVersion

\* set_declarative_density and set_signature of a row that may be gone.
LEMMA DensityGrows ==
  ASSUME row \in [Key -> MaybeRow], NEW k \in Key, SetDensity(k)
  PROVE  RowsGrow /\ (row[k] # NoRow => row'[k].dense)
<1> DEFINE e == [row[k] EXCEPT !.dense = TRUE]
<1>1. row[k] # NoRow => row[k] \in Row /\ e \in Row /\ e # NoRow /\ e.dense /\ e.sig = row[k].sig
  <2>1. row[k] # NoRow => row[k] \in Row
    BY DEF MaybeRow
  <2>2. row[k] # NoRow => row[k].content \in Version
    BY <2>1 DEF Row
  <2> QED
    BY <2>1, <2>2, RowUpdates
<1>2. row' = [row EXCEPT ![k] = IF row[k] = NoRow THEN row[k] ELSE e]
  BY DEF SetDensity
<1> HIDE DEF e
<1> QED
  BY <1>1, <1>2 DEF RowsGrow, MaybeRow

LEMMA SignatureGrows ==
  ASSUME row \in [Key -> MaybeRow], NEW k \in Key, NEW v \in Version \union {NoVersion},
         SetSignature(k, v)
  PROVE  /\ row' \in [Key -> MaybeRow]
         /\ v # NoVersion => RowsGrow /\ (row[k] # NoRow => row'[k].sig # NoVersion)
<1> DEFINE e == [row[k] EXCEPT !.sig = v]
<1>1. row[k] # NoRow => row[k] \in Row /\ e \in Row /\ e # NoRow /\ e.dense = row[k].dense /\ e.sig = v
  <2>1. row[k] # NoRow => row[k] \in Row
    BY DEF MaybeRow
  <2>2. row[k] # NoRow => row[k].content \in Version
    BY <2>1 DEF Row
  <2>3. row[k] # NoRow => e \in Row /\ e.dense = row[k].dense /\ e.sig = v
    BY <2>1 DEF Row
  <2>4. row[k] # NoRow => e # NoRow
    BY <2>2, <2>3, RowUpdates
  <2> QED
    BY <2>1, <2>3, <2>4
<1>2. row' = [row EXCEPT ![k] = IF row[k] = NoRow THEN row[k] ELSE e]
  BY DEF SetSignature
<1> HIDE DEF e
<1> QED
  BY <1>1, <1>2 DEF RowsGrow, MaybeRow

\* The write of a remember keeps what was derived for the row.
LEMMA RememberGrows ==
  ASSUME row \in [Key -> MaybeRow], NEW th \in Thread, NEW k \in Key, NEW v \in Version,
         Remember(th, k, v)
  PROVE  RowsGrow /\ row'[k] # NoRow
<1> DEFINE n == [content |-> v, dense |-> FALSE, sig |-> NoVersion]
           e == [row[k] EXCEPT !.content = v]
<1>1. row[k] # NoRow =>
        row[k] \in Row /\ e \in Row /\ e # NoRow /\ e.dense = row[k].dense /\ e.sig = row[k].sig
  <2>1. row[k] # NoRow => row[k] \in Row
    BY DEF MaybeRow
  <2> QED
    BY <2>1, RowUpdates
<1>2. n \in Row /\ n # NoRow
  <2>1. n \in Row
    BY DEF Row
  <2> QED
    BY <2>1, RowUpdates
<1>3. row' = [row EXCEPT ![k] = IF row[k] = NoRow THEN n ELSE e]
  BY DEF Remember
<1> HIDE DEF e, n
<1> QED
  BY <1>1, <1>2, <1>3 DEF RowsGrow, MaybeRow

\* What an enrolment leaves enrolled.
LEMMA Enrolled ==
  ASSUME enrolled \in [Key -> Version \union {NoVersion}],
         NEW k \in Key, NEW v \in Version \union {NoVersion}
  PROVE  /\ EnrollAs(k, v) \in [Key -> Version \union {NoVersion}]
         /\ \A x \in Key : x # k => EnrollAs(k, v)[x] = enrolled[x]
         /\ \A x \in Key : enrolled[x] # NoVersion => EnrollAs(k, v)[x] # NoVersion
         /\ v # NoVersion => EnrollAs(k, v)[k] # NoVersion
  BY DEF EnrollAs

LEMMA IdleCall == Idle \in Call /\ CallIn(Idle) /\ Live(Idle.snap) = {}
<1>1. NoRows \in [Key -> MaybeRow] /\ <<>> \in Seq(Key)
  BY EmptySeq DEF NoRows, MaybeRow
<1>2. Idle \in Call
  BY <1>1 DEF Idle, Call, PC
<1>3. Live(Idle.snap) = {}
  BY DEF Idle, NoRows, Live
<1> QED
  BY <1>2, <1>3 DEF CallIn, Idle, Writing, Forgetting, Visiting

\* One thread moves, the others stay where they are.
LEMMA CallMoves ==
  ASSUME call \in [Thread -> Call], NEW th \in Thread, NEW c \in Call, Goto(th, c)
  PROVE  /\ call' \in [Thread -> Call] /\ call'[th] = c
         /\ \A other \in Thread : other # th => call'[other] = call[other]
  BY DEF Goto

LEMMA CallsMove ==
  ASSUME CallsInv, NEW th \in Thread, NEW c \in Call, CallIn(c), Goto(th, c), StoreOK'
  PROVE  CallsInv'
  BY CallMoves DEF CallsInv

-----------------------------------------------------------------------------
(* Every step keeps store and calls well formed, whatever overlaps. *)

LEMMA CallsInit == Init => CallsInv
<1> SUFFICES ASSUME Init PROVE CallsInv
  OBVIOUS
<1>1. StoreOK
  <2>1. row \in [Key -> MaybeRow]
    BY DEF Init, NoRows, MaybeRow
  <2>2. pending \in Seq(Key) /\ \A i, j \in DOMAIN pending : pending[i] = pending[j] => i = j
    BY EmptySeq DEF Init
  <2> QED
    BY <2>1, <2>2 DEF Init, StoreOK
<1> QED
  BY <1>1, IdleCall DEF Init, CallsInv

\* remember_with up to the retries.
LEMMA WritingCalls ==
  ASSUME CallsInv, NEW th \in Thread,
         \/ \E k \in Key, v \in Version : Remember(th, k, v)
         \/ SessionFails(th) \/ Density(th) \/ ReadBack(th) \/ Sign(th)
         \/ Enroll(th) \/ EnrollFails(th)
  PROVE  CallsInv'
<1> USE DEF CallsInv
<1> DEFINE c == call[th]
<1>0. c \in Call /\ CallIn(c) /\ row \in [Key -> MaybeRow]
      /\ enrolled \in [Key -> Version \union {NoVersion}]
  BY DEF StoreOK
<1>a. c.pc \in Writing => c.key \in Key /\ c.version \in Version
  BY <1>0 DEF CallIn
<1>1. ASSUME NEW k \in Key, NEW v \in Version, Remember(th, k, v) PROVE CallsInv'
  <2>1. RowsGrow
    BY <1>0, <1>1, RememberGrows
  <2>2. StoreOK'
    BY <1>1, <2>1 DEF Remember, StoreOK, RowsGrow
  <2> DEFINE d == [Idle EXCEPT !.pc = "density", !.key = k, !.version = v]
  <2>3. d \in Call /\ CallIn(d)
    BY IdleCall DEF Call, CallIn, PC, Idle, Writing, Forgetting, Visiting
  <2>4. Goto(th, d)
    BY <1>1 DEF Remember
  <2> HIDE DEF d
  <2> QED
    BY <2>2, <2>3, <2>4, CallsMove
<1>2. ASSUME SessionFails(th) PROVE CallsInv'
  <2>1. StoreOK' /\ Goto(th, Idle)
    BY <1>2 DEF SessionFails, StoreOK, disk, Return
  <2> QED
    BY <2>1, IdleCall, CallsMove
<1>3. ASSUME Density(th) PROVE CallsInv'
  <2>0. c.key \in Key
    BY <1>3, <1>a DEF Density, Writing
  <2>1. row' \in [Key -> MaybeRow]
    BY <1>0, <1>3, <2>0, DensityGrows DEF Density, RowsGrow
  <2>2. StoreOK'
    BY <1>3, <2>1 DEF Density, StoreOK
  <2>3. PICK w \in BOOLEAN : Goto(th, [c EXCEPT !.pc = "readback", !.warned = w])
    <3>1. CASE Step(th, "readback")
      <4>1. [c EXCEPT !.pc = "readback"] = [c EXCEPT !.pc = "readback", !.warned = c.warned]
        BY <1>0 DEF Call
      <4> QED
        BY <3>1, <4>1, <1>0 DEF Step, Call
    <3>2. CASE Warn(th, "readback")
      BY <3>2 DEF Warn
    <3> QED
      BY <1>3, <3>1, <3>2 DEF Density
  <2> DEFINE d == [c EXCEPT !.pc = "readback", !.warned = w]
  <2>4. d \in Call /\ CallIn(d)
    BY <1>0, <1>3, <1>a DEF Density, Call, CallIn, PC, Writing, Forgetting, Visiting
  <2> HIDE DEF d
  <2> QED
    BY <2>2, <2>3, <2>4, CallsMove DEF d
<1>4. ASSUME ReadBack(th) PROVE CallsInv'
  <2>1. StoreOK'
    BY <1>4 DEF ReadBack, StoreOK, disk
  <2>2. c.key \in Key /\ c.version \in Version
    BY <1>4, <1>a DEF ReadBack, Writing
  <2>3. CASE Warn(th, "enroll")
    <3> DEFINE d == [c EXCEPT !.pc = "enroll", !.warned = TRUE]
    <3>1. d \in Call /\ CallIn(d)
      BY <1>0, <2>2 DEF Call, CallIn, PC, Writing, Forgetting, Visiting
    <3>2. Goto(th, d)
      BY <2>3 DEF Warn
    <3> HIDE DEF d
    <3> QED
      BY <2>1, <3>1, <3>2, CallsMove
  <2>4. CASE row[c.key] # NoRow /\ Goto(th, [c EXCEPT !.pc = "sign", !.read = row[c.key].content])
    <3> DEFINE d == [c EXCEPT !.pc = "sign", !.read = row[c.key].content]
    <3>1. row[c.key].content \in Version
      BY <1>0, <2>2, <2>4 DEF MaybeRow, Row
    <3>2. d \in Call /\ CallIn(d)
      BY <1>0, <2>2, <3>1 DEF Call, CallIn, PC, Writing, Forgetting, Visiting
    <3> HIDE DEF d
    <3> QED
      BY <2>1, <2>4, <3>2, CallsMove DEF d
  <2> QED
    BY <1>4, <2>3, <2>4 DEF ReadBack
<1>5. ASSUME Sign(th) PROVE CallsInv'
  <2>2. c.key \in Key /\ c.version \in Version /\ c.read \in Version \union {NoVersion}
    BY <1>5, <1>a, <1>0 DEF Sign, Writing, Call
  <2> DEFINE e == [c EXCEPT !.pc = "enroll", !.read = NoVersion]
             f == [e EXCEPT !.warned = TRUE]
  <2>3. e \in Call /\ CallIn(e) /\ f \in Call /\ CallIn(f) /\ e.key = c.key
    BY <1>0, <2>2 DEF Call, CallIn, PC, Writing, Forgetting, Visiting
  <2>4. /\ SetSignature(e.key, c.read) \/ UNCHANGED row
        /\ Goto(th, e) \/ Goto(th, f)
        /\ UNCHANGED <<enrolled, pending, forgotten, derived>>
    BY <1>5 DEF Sign
  <2> HIDE DEF e, f
  <2>5. StoreOK'
    <3>1. row' \in [Key -> MaybeRow]
      BY <1>0, <2>2, <2>3, <2>4, SignatureGrows
    <3> QED
      BY <2>4, <3>1 DEF StoreOK
  <2> QED
    BY <2>3, <2>4, <2>5, CallsMove
<1>6. ASSUME Enroll(th) \/ EnrollFails(th) PROVE CallsInv'
  <2>1. c.key \in Key /\ c.version \in Version
    BY <1>6, <1>a DEF Enroll, EnrollFails, Writing
  <2>2. StoreOK'
    <3>1. CASE Enroll(th)
      <4>1. enrolled' \in [Key -> Version \union {NoVersion}]
        BY <1>0, <2>1, <3>1, Enrolled DEF Enroll
      <4> QED
        BY <2>1, <3>1, <4>1 DEF Enroll, StoreOK
    <3>2. CASE EnrollFails(th)
      <4>1. pending' \in {pending, ClearPending(c.key), MarkPending(c.key)}
        BY <3>2 DEF EnrollFails
      <4>2. /\ pending' \in Seq(Key)
            /\ \A i, j \in DOMAIN pending' : pending'[i] = pending'[j] => i = j
        BY <2>1, <4>1, QueueKept
      <4> QED
        BY <3>2, <4>2 DEF EnrollFails, StoreOK
    <3> QED
      BY <1>6, <3>1, <3>2
  <2> DEFINE d == [Idle EXCEPT !.pc = "drain"]
  <2>3. d \in Call /\ CallIn(d)
    BY IdleCall DEF Call, CallIn, PC, Idle, Writing, Forgetting, Visiting
  <2>4. Goto(th, d)
    BY <1>6 DEF Enroll, EnrollFails
  <2> HIDE DEF d
  <2> QED
    BY <2>2, <2>3, <2>4, CallsMove
<1> QED
  BY <1>1, <1>2, <1>3, <1>4, <1>5, <1>6

\* A retry under way has a key to fetch or to enrol.
LEMMA TodoTyped ==
  ASSUME CallsInv, NEW th \in Thread, call[th].pc \in {"fetch", "retry"}
  PROVE  /\ call[th].todo \in Seq(Key) /\ Head(call[th].todo) \in Key
         /\ Tail(call[th].todo) \in Seq(Key)
         /\ call[th].read \in Version \union {NoVersion}
<1>1. /\ call[th].todo \in Seq(Key) /\ call[th].todo # <<>>
      /\ call[th].read \in Version \union {NoVersion}
  BY DEF CallsInv, CallIn, Call
<1> QED
  BY <1>1, HeadTailProperties

\* drain_enrolment_retries.
LEMMA DrainCalls ==
  ASSUME CallsInv, NEW th \in Thread,
         StartDrain(th) \/ Drain(th) \/ Fetch(th) \/ Retry(th) \/ RetryFails(th)
  PROVE  CallsInv'
<1> USE DEF CallsInv
<1> DEFINE c == call[th]
<1>0. c \in Call /\ CallIn(c) /\ row \in [Key -> MaybeRow]
      /\ enrolled \in [Key -> Version \union {NoVersion}]
      /\ pending \in Seq(Key)
  BY DEF StoreOK
<1>a. c.pc \in {"fetch", "retry"} =>
        /\ c.todo \in Seq(Key) /\ Head(c.todo) \in Key /\ Tail(c.todo) \in Seq(Key)
        /\ c.read \in Version \union {NoVersion}
  BY TodoTyped
<1>b. ASSUME NextRetry(th), c.pc \in {"fetch", "retry"}, StoreOK'
      PROVE  CallsInv'
  <2> DEFINE rest == Tail(c.todo)
             d == [Idle EXCEPT !.pc = "fetch", !.todo = rest]
  <2>1. rest \in Seq(Key)
    BY <1>a, <1>b
  <2> HIDE DEF rest
  <2>2. rest # <<>> => d \in Call /\ CallIn(d)
    BY <2>1, IdleCall DEF Call, CallIn, PC, Idle, Writing, Forgetting, Visiting
  <2>3. Goto(th, IF rest = <<>> THEN Idle ELSE d)
    BY <1>b DEF NextRetry, rest
  <2> HIDE DEF d
  <2>4. CASE rest = <<>>
    BY <1>b, <2>3, <2>4, IdleCall, CallsMove
  <2>5. CASE rest # <<>>
    <3>1. Goto(th, d)
      BY <2>3, <2>5
    <3> QED
      BY <1>b, <2>2, <2>5, <3>1, CallsMove
  <2> QED
    BY <2>4, <2>5
<1>1. ASSUME StartDrain(th) PROVE CallsInv'
  <2>1. StoreOK'
    BY <1>1 DEF StartDrain, StoreOK, disk
  <2> DEFINE d == [Idle EXCEPT !.pc = "drain"]
  <2>2. d \in Call /\ CallIn(d)
    BY IdleCall DEF Call, CallIn, PC, Idle, Writing, Forgetting, Visiting
  <2>3. Goto(th, d)
    BY <1>1 DEF StartDrain
  <2> HIDE DEF d
  <2> QED
    BY <2>1, <2>2, <2>3, CallsMove
<1>2. ASSUME Drain(th) PROVE CallsInv'
  <2>1. StoreOK'
    BY <1>2 DEF Drain, StoreOK, disk
  <2>2. CASE Return(th)
    BY <2>1, <2>2, IdleCall, CallsMove DEF Return
  <2>3. CASE pending # <<>> /\ ~Return(th)
    <3> DEFINE n == IF Batch < Len(pending) THEN Batch ELSE Len(pending)
               q == SubSeq(pending, 1, n)
               d == [c EXCEPT !.pc = "fetch", !.todo = q]
    <3>1. n \in 1 .. Len(pending) /\ \A i \in 1 .. n : pending[i] \in Key
      <4>1. Len(pending) \in Nat \ {0}
        BY <1>0, <2>3, EmptySeq
      <4>2. n \in 1 .. Len(pending)
        BY <4>1, ConstantsOK
      <4> HIDE DEF n
      <4> QED
        BY <4>1, <4>2, <1>0, ElementOfSeq
    <3>2. q \in Seq(Key) /\ q # <<>>
      <4> HIDE DEF n
      <4>1. n \in Int /\ 1 <= n
        BY <3>1
      <4>2. q \in Seq(Key) /\ Len(q) = n
        BY <3>1, <4>1, SubSeqProperties
      <4> HIDE DEF q
      <4> QED
        BY <4>1, <4>2, EmptySeq
    <3>3. Goto(th, d)
      BY <1>2, <2>3 DEF Drain
    <3> HIDE DEF q
    <3>4. d \in Call /\ CallIn(d)
      BY <1>0, <3>2 DEF Call, CallIn, PC, Writing, Forgetting, Visiting
    <3> HIDE DEF d
    <3> QED
      BY <2>1, <3>3, <3>4, CallsMove
  <2> QED
    BY <1>2, <2>2, <2>3 DEF Drain
<1>3. ASSUME Fetch(th) PROVE CallsInv'
  <2>1. StoreOK' /\ c.pc = "fetch"
    BY <1>3 DEF Fetch, StoreOK, disk
  <2>2. CASE NextRetry(th)
    BY <1>b, <2>1, <2>2
  <2>3. CASE ~NextRetry(th)
    <3> DEFINE r == row[Head(c.todo)].content
               d == [c EXCEPT !.pc = "retry", !.read = r]
    <3>1. r \in Version \union {NoVersion}
      BY <1>0, <1>a, <2>1 DEF MaybeRow, Row, NoRow
    <3>2. Goto(th, d)
      BY <1>3, <2>3 DEF Fetch
    <3> HIDE DEF r
    <3>3. d \in Call /\ CallIn(d)
      BY <1>0, <2>1, <3>1 DEF Call, CallIn, PC, Writing, Forgetting, Visiting
    <3> HIDE DEF d
    <3> QED
      BY <2>1, <3>2, <3>3, CallsMove
  <2> QED
    BY <2>2, <2>3
<1>4. ASSUME Retry(th) \/ RetryFails(th) PROVE CallsInv'
  <2> DEFINE k == Head(c.todo)
  <2>1. k \in Key /\ c.read \in Version \union {NoVersion} /\ c.pc = "retry"
    BY <1>4, <1>a DEF Retry, RetryFails
  <2>2. /\ enrolled' \in {enrolled, EnrollAs(k, c.read)}
        /\ pending' \in {pending, ClearPending(k), MarkPending(k)}
        /\ NextRetry(th) /\ UNCHANGED <<row, forgotten, derived>>
    BY <1>4 DEF Retry, RetryFails
  <2> HIDE DEF k
  <2>3. enrolled' \in [Key -> Version \union {NoVersion}]
    BY <1>0, <2>1, <2>2, Enrolled
  <2>4. /\ pending' \in Seq(Key)
        /\ \A i, j \in DOMAIN pending' : pending'[i] = pending'[j] => i = j
    BY <2>1, <2>2, QueueKept
  <2>5. StoreOK'
    BY <2>2, <2>3, <2>4 DEF StoreOK
  <2> QED
    BY <1>b, <2>1, <2>2, <2>5
<1> QED
  BY <1>1, <1>2, <1>3, <1>4

\* forget.
LEMMA ForgettingCalls ==
  ASSUME CallsInv, NEW th \in Thread,
         \/ \E k \in Key : Forget(th, k)
         \/ Delete(th) \/ Untrace(th) \/ ProbeRecall(th) \/ ProbeRecognition(th)
  PROVE  CallsInv'
<1> USE DEF CallsInv
<1> DEFINE c == call[th]
<1>0. c \in Call /\ CallIn(c) /\ row \in [Key -> MaybeRow]
      /\ enrolled \in [Key -> Version \union {NoVersion}]
  BY DEF StoreOK
<1>a. c.pc \in Forgetting => c.key \in Key
  BY <1>0 DEF CallIn
<1>b. ASSUME Report(th, TRUE) \/ Report(th, FALSE), c.pc \in Forgetting,
             UNCHANGED <<disk, derived>>
      PROVE  CallsInv'
  <2>1. Goto(th, Idle) /\ forgotten' \in {forgotten, forgotten \union {c.key}}
    BY <1>b DEF Report, Return
  <2>2. StoreOK'
    BY <1>a, <1>b, <2>1 DEF StoreOK, disk
  <2> QED
    BY <2>1, <2>2, IdleCall, CallsMove
<1>1. ASSUME NEW k \in Key, Forget(th, k) PROVE CallsInv'
  <2>1. StoreOK'
    BY <1>1 DEF Forget, StoreOK, disk
  <2> DEFINE r == row[k].content
             d == [Idle EXCEPT !.pc = "delete", !.key = k, !.read = r]
  <2>2. r \in Version \union {NoVersion}
    BY <1>0 DEF MaybeRow, Row, NoRow
  <2>3. Goto(th, d)
    BY <1>1 DEF Forget
  <2> HIDE DEF r
  <2>4. d \in Call /\ CallIn(d)
    BY <2>2, IdleCall DEF Call, CallIn, PC, Idle, Writing, Forgetting, Visiting
  <2> HIDE DEF d
  <2> QED
    BY <2>1, <2>3, <2>4, CallsMove
<1>2. ASSUME Delete(th) PROVE CallsInv'
  <2>1. c.key \in Key
    BY <1>2, <1>a DEF Delete, Forgetting
  <2>2. StoreOK'
    <3>1. row' \in [Key -> MaybeRow]
      BY <1>0, <1>2 DEF Delete, MaybeRow
    <3> QED
      BY <1>2, <3>1 DEF Delete, StoreOK
  <2> DEFINE d == [c EXCEPT !.pc = "untrace", !.existed = (row[c.key] # NoRow)]
  <2>3. Goto(th, d) \/ Goto(th, Idle)
    BY <1>2 DEF Delete, Return
  <2>4. d \in Call /\ CallIn(d)
    BY <1>0, <2>1 DEF Call, CallIn, PC, Writing, Forgetting, Visiting
  <2> HIDE DEF d
  <2> QED
    BY <2>2, <2>3, <2>4, IdleCall, CallsMove
<1>3. ASSUME Untrace(th) PROVE CallsInv'
  <2>1. c.key \in Key
    BY <1>3, <1>a DEF Untrace, Forgetting
  <2>2. StoreOK'
    <3>1. enrolled' \in [Key -> Version \union {NoVersion}]
      BY <1>0, <1>3 DEF Untrace
    <3> QED
      BY <1>3, <3>1 DEF Untrace, StoreOK
  <2> DEFINE d == [c EXCEPT !.pc = "probe_recall"]
  <2>3. Goto(th, d)
    BY <1>3 DEF Untrace, Step
  <2>4. d \in Call /\ CallIn(d)
    BY <1>0, <2>1 DEF Call, CallIn, PC, Writing, Forgetting, Visiting
  <2> HIDE DEF d
  <2> QED
    BY <2>2, <2>3, <2>4, CallsMove
<1>4. ASSUME ProbeRecall(th) PROVE CallsInv'
  <2>1. c.key \in Key /\ c.pc \in Forgetting /\ UNCHANGED <<disk, derived>>
    BY <1>4, <1>a DEF ProbeRecall, Forgetting
  <2>2. CASE Report(th, TRUE)
    BY <1>b, <2>1, <2>2
  <2>3. CASE ~Report(th, TRUE)
    <3> DEFINE d == [c EXCEPT !.pc = "probe_recognition"]
               e == [c EXCEPT !.pc = "probe_recognition", !.warned = TRUE]
    <3>1. (Goto(th, d) \/ Goto(th, e)) /\ UNCHANGED forgotten
      BY <1>4, <2>3 DEF ProbeRecall, Step, Warn
    <3>2. d \in Call /\ CallIn(d) /\ e \in Call /\ CallIn(e)
      BY <1>0, <2>1 DEF Call, CallIn, PC, Writing, Forgetting, Visiting
    <3> HIDE DEF d, e
    <3>3. StoreOK'
      BY <2>1, <3>1 DEF StoreOK, disk
    <3> QED
      BY <3>1, <3>2, <3>3, CallsMove
  <2> QED
    BY <2>2, <2>3
<1>5. ASSUME ProbeRecognition(th) PROVE CallsInv'
  <2>1. c.pc \in Forgetting /\ UNCHANGED <<disk, derived>>
    BY <1>5 DEF ProbeRecognition, Forgetting
  <2>2. Report(th, TRUE) \/ Report(th, FALSE)
    BY <1>5 DEF ProbeRecognition
  <2> QED
    BY <1>b, <2>1, <2>2
<1> QED
  BY <1>1, <1>2, <1>3, <1>4, <1>5

\* repair_derivations.
LEMMA RepairingCalls ==
  ASSUME CallsInv, NEW th \in Thread,
         \/ \E limit \in Limits, listed \in SUBSET Key : Repair(th, limit, listed)
         \/ Visit(th) \/ VisitDensity(th) \/ VisitSign(th) \/ VisitEnroll(th)
         \/ RepairFails(th) \/ Prune(th)
  PROVE  CallsInv'
<1> USE DEF CallsInv
<1> DEFINE c == call[th]
<1>0. c \in Call /\ CallIn(c) /\ row \in [Key -> MaybeRow]
      /\ enrolled \in [Key -> Version \union {NoVersion}]
  BY DEF StoreOK
<1>a. c.pc \in Visiting =>
        /\ c.key \in Key /\ c.key \in Live(c.snap)
        /\ c.snap[c.key].content \in Version
        /\ c.snap[c.key].content \in Version \union {NoVersion}
  BY <1>0 DEF CallIn, Live, Call, MaybeRow, Row
<1>1. ASSUME NEW limit \in Limits, NEW listed \in SUBSET Key, Repair(th, limit, listed)
      PROVE  CallsInv'
  <2>1. StoreOK'
    BY <1>1 DEF Repair, StoreOK, disk
  <2> DEFINE snap == [k \in Key |-> IF k \in listed THEN row[k] ELSE NoRow]
             d == [Idle EXCEPT !.pc = "visit", !.live = listed, !.limit = limit, !.snap = snap]
  <2>2. snap \in [Key -> MaybeRow] /\ Live(snap) \subseteq listed
    BY <1>0 DEF MaybeRow, Live
  <2>3. Goto(th, d)
    BY <1>1 DEF Repair
  <2> HIDE DEF snap
  <2>4. d \in Call /\ CallIn(d)
    BY <2>2, IdleCall DEF Call, CallIn, PC, Idle, Writing, Forgetting, Visiting
  <2> HIDE DEF d
  <2> QED
    BY <2>1, <2>3, <2>4, CallsMove
<1>2. ASSUME Visit(th) PROVE CallsInv'
  <2>1. StoreOK'
    BY <1>2 DEF Visit, StoreOK, disk
  <2>2. CASE Step(th, "prune")
    <3> DEFINE d == [c EXCEPT !.pc = "prune"]
    <3>1. d \in Call /\ CallIn(d)
      BY <1>0 DEF Call, CallIn, PC, Writing, Forgetting, Visiting
    <3>2. Goto(th, d)
      BY <2>2 DEF Step
    <3> HIDE DEF d
    <3> QED
      BY <2>1, <3>1, <3>2, CallsMove
  <2>3. CASE ~Step(th, "prune")
    <3>1. PICK k \in Live(c.snap) : Goto(th, [c EXCEPT !.pc = "visit_density", !.key = k])
      BY <1>2, <2>3 DEF Visit
    <3> DEFINE d == [c EXCEPT !.pc = "visit_density", !.key = k]
    <3>2. k \in Key
      BY DEF Live
    <3>3. d \in Call /\ CallIn(d)
      BY <1>0, <3>2 DEF Call, CallIn, PC, Writing, Forgetting, Visiting
    <3> HIDE DEF d
    <3> QED
      BY <2>1, <3>1, <3>3, CallsMove DEF d
  <2> QED
    BY <2>2, <2>3
<1>3. ASSUME VisitDensity(th) \/ VisitSign(th) PROVE CallsInv'
  <2>1. c.pc \in Visiting
    BY <1>3 DEF VisitDensity, VisitSign, Visiting
  <2>2. /\ UNCHANGED row \/ SetDensity(c.key) \/ SetSignature(c.key, c.snap[c.key].content)
        /\ UNCHANGED <<enrolled, pending, forgotten, derived>>
        /\ Step(th, "visit_sign") \/ Step(th, "visit_enroll")
    BY <1>3 DEF VisitDensity, VisitSign
  <2>3. StoreOK'
    <3>1. row' \in [Key -> MaybeRow]
      BY <1>0, <1>a, <2>1, <2>2, DensityGrows, SignatureGrows DEF RowsGrow
    <3> QED
      BY <2>2, <3>1 DEF StoreOK
  <2> DEFINE d == [c EXCEPT !.pc = "visit_sign"]
             e == [c EXCEPT !.pc = "visit_enroll"]
  <2>4. Goto(th, d) \/ Goto(th, e)
    BY <2>2 DEF Step
  <2>5. d \in Call /\ CallIn(d) /\ e \in Call /\ CallIn(e)
    BY <1>0, <1>a, <2>1 DEF Call, CallIn, PC, Writing, Forgetting, Visiting
  <2> HIDE DEF d, e
  <2> QED
    BY <2>3, <2>4, <2>5, CallsMove
<1>4. ASSUME VisitEnroll(th) PROVE CallsInv'
  <2>1. c.pc \in Visiting
    BY <1>4 DEF VisitEnroll, Visiting
  <2> DEFINE v == c.snap[c.key].content
             snap == [c.snap EXCEPT ![c.key] = NoRow]
             d == [c EXCEPT !.pc = "visit", !.key = NoKey, !.snap = snap]
  <2>2. StoreOK'
    <3>1. enrolled' = EnrollAs(c.key, v) /\ UNCHANGED <<row, pending, forgotten, derived>>
      BY <1>4 DEF VisitEnroll
    <3>2. v \in Version \union {NoVersion} /\ c.key \in Key
      BY <1>a, <2>1
    <3> HIDE DEF v
    <3>3. enrolled' \in [Key -> Version \union {NoVersion}]
      BY <1>0, <3>1, <3>2, Enrolled
    <3> QED
      BY <3>1, <3>3 DEF StoreOK
  <2>3. Goto(th, d)
    BY <1>4 DEF VisitEnroll
  <2>4. snap \in [Key -> MaybeRow] /\ Live(snap) \subseteq Live(c.snap)
    BY <1>0 DEF Call, MaybeRow, Live
  <2> HIDE DEF snap
  <2>5. d \in Call /\ CallIn(d)
    BY <1>0, <2>4 DEF Call, CallIn, PC, Writing, Forgetting, Visiting
  <2> HIDE DEF d
  <2> QED
    BY <2>2, <2>3, <2>5, CallsMove
<1>5. ASSUME RepairFails(th) PROVE CallsInv'
  <2>1. StoreOK' /\ Goto(th, Idle)
    BY <1>5 DEF RepairFails, StoreOK, disk, Return
  <2> QED
    BY <2>1, IdleCall, CallsMove
<1>6. ASSUME Prune(th) PROVE CallsInv'
  <2>1. enrolled' \in [Key -> Version \union {NoVersion}]
    BY <1>0, <1>6 DEF Prune
  <2>2. StoreOK' /\ Goto(th, Idle)
    BY <1>6, <2>1 DEF Prune, StoreOK, Return
  <2> QED
    BY <2>2, IdleCall, CallsMove
<1> QED
  BY <1>1, <1>2, <1>3, <1>4, <1>5, <1>6

LEMMA CallsStep == CallsInv /\ [Next]_vars => CallsInv'
<1> SUFFICES ASSUME CallsInv, [Next]_vars PROVE CallsInv'
  OBVIOUS
<1>1. CASE Crash
  <2>1. StoreOK'
    BY <1>1 DEF Crash, CallsInv, StoreOK, disk
  <2> QED
    BY <1>1, <2>1, IdleCall DEF Crash, CallsInv
<1>2. ASSUME NEW th \in Thread, ThreadStep(th) PROVE CallsInv'
  BY <1>2, WritingCalls, DrainCalls, ForgettingCalls, RepairingCalls DEF ThreadStep
<1>3. ASSUME NEW th \in Thread, NewCall(th) PROVE CallsInv'
  BY <1>3, WritingCalls, DrainCalls, ForgettingCalls, RepairingCalls DEF NewCall
<1>4. CASE UNCHANGED vars
  BY <1>4 DEF vars, disk, CallsInv, StoreOK
<1> QED
  BY <1>1, <1>2, <1>3, <1>4 DEF Next

\* No id waits twice for its retry, a retry in progress has ids left and a
\* repair visits only what it listed, whatever calls overlap (mark_pending,
\* drain_enrolment_retries, repair_derivations).
THEOREM Lifecycle == Spec => []LifecycleInv
<1>1. Spec => []CallsInv
  BY CallsInit, CallsStep, PTL DEF Spec
<1>2. CallsInv => LifecycleInv
  BY DEF CallsInv, StoreOK, CallIn, LifecycleInv, TypeOK, Visiting
<1> QED
  BY <1>1, <1>2, PTL

-----------------------------------------------------------------------------
(* When forget and repair run alone: what a call relies on stays true. *)

\* While a call uses the brain no forget or repair is under way, and while one
\* of those is, every other thread is idle.
LEMMA Owned ==
  ASSUME Exclusive, StageInv, NEW th \in Thread
  PROVE  /\ MayUse(th) \/ call[th].pc \notin Maintenance \union {"idle"} =>
              \A other \in Thread : call[other].pc \notin Maintenance
         /\ MayMaintain(th) \/ call[th].pc \in Maintenance =>
              \A other \in Thread : other # th => call[other].pc = "idle"
<1>1. ASSUME call[th].pc \notin Maintenance \union {"idle"}, NEW other \in Thread
      PROVE  call[other].pc \notin Maintenance
  BY <1>1 DEF StageInv, Alone
<1>2. ASSUME call[th].pc \in Maintenance, NEW other \in Thread, other # th
      PROVE  call[other].pc = "idle"
  BY <1>2 DEF StageInv, Alone
<1> QED
  BY <1>1, <1>2 DEF MayUse, MayMaintain

\* A step of a remember or a drain deletes no row and takes nothing from one, so
\* the other calls, none of which maintains, may go on as before.
LEMMA OthersUse ==
  ASSUME StageInv, NEW th \in Thread,
         \A other \in Thread : call[other].pc \notin Maintenance,
         \A other \in Thread : other # th => call'[other] = call[other],
         call'[th].pc \notin Maintenance, RowsGrow,
         WrittenIn(call[th])', RetriedIn(call[th])'
  PROVE  Alone' /\ \A other \in Thread : StageIn(call[other])'
<1>1. \A other \in Thread : call'[other].pc \notin Maintenance
  OBVIOUS
<1>2. ASSUME NEW c, c.pc \notin Maintenance PROVE (ForgottenIn(c) /\ RepairedIn(c))'
  BY <1>2 DEF ForgottenIn, RepairedIn, Maintenance, Forgetting, Repairing, Visiting
<1>3. ASSUME NEW other \in Thread, other # th
      PROVE  WrittenIn(call[other])' /\ RetriedIn(call[other])'
  <2> DEFINE c == call[other]
  <2>1. call'[other] = c /\ WrittenIn(c) /\ RetriedIn(c) /\ CallIn(c)
    BY <1>3 DEF StageInv, StageIn, CallsInv
  <2>2. c.pc \in Writing => c.key \in Key
    BY <2>1 DEF CallIn
  <2>3. c.pc = "retry" => Head(c.todo) \in Key
    BY TodoTyped DEF StageInv
  <2>4. c.pc \in {"readback", "sign", "enroll"} => c.pc \in Writing
    BY DEF Writing
  <2>5. c.pc \in Writing =>
          /\ row'[c.key] # NoRow
          /\ row[c.key].dense => row'[c.key].dense
          /\ row[c.key].sig # NoVersion => row'[c.key].sig # NoVersion
    BY <2>1, <2>2 DEF WrittenIn, RowsGrow
  <2>6. WrittenIn(call[other])'
    BY <2>1, <2>4, <2>5 DEF WrittenIn
  <2>7. RetriedIn(call[other])'
    BY <2>1, <2>3 DEF RetriedIn, RowsGrow
  <2> QED
    BY <2>6, <2>7
<1> QED
  BY <1>1, <1>2, <1>3 DEF Alone, StageIn

\* A step of a forget or a repair is nobody else's concern.
LEMMA OthersIdle ==
  ASSUME NEW th \in Thread,
         \A other \in Thread : other # th => call'[other].pc = "idle",
         call'[th].pc \notin Writing \union {"retry"},
         ForgottenIn(call[th])', RepairedIn(call[th])'
  PROVE  Alone' /\ \A other \in Thread : StageIn(call[other])'
<1>1. ASSUME NEW c, c.pc \notin Writing \union {"retry"} PROVE (WrittenIn(c) /\ RetriedIn(c))'
  BY <1>1 DEF WrittenIn, RetriedIn, Writing
<1>2. ASSUME NEW c, c.pc = "idle" PROVE StageIn(c)'
  BY <1>2 DEF StageIn, WrittenIn, RetriedIn, ForgottenIn, RepairedIn,
              Writing, Forgetting, Repairing, Visiting
<1>3. \A other \in Thread : call'[other].pc \in Maintenance => other = th
  BY DEF Maintenance
<1> QED
  BY <1>1, <1>2, <1>3 DEF Alone, StageIn

\* Steps that change no row and leave both histories and the index alone.
LEMMA Untouched ==
  ASSUME CallsInv, UNCHANGED row
  PROVE  RowsGrow
  BY DEF CallsInv, StoreOK, RowsGrow

LEMMA WritingStages ==
  ASSUME Exclusive, StageInv, CallsInv', NEW th \in Thread,
         \/ \E k \in Key, v \in Version : Remember(th, k, v)
         \/ SessionFails(th) \/ Density(th) \/ ReadBack(th) \/ Sign(th)
         \/ Enroll(th) \/ EnrollFails(th)
  PROVE  StageInv'
<1> DEFINE c == call[th]
           Rest == /\ Alone' /\ (\A other \in Thread : StageIn(call[other]))'
                   /\ ForgottenStaysForgotten' /\ DerivedIsRecognised'
<1> SUFFICES Rest
  BY DEF StageInv
<1>0. /\ CallsInv /\ c \in Call /\ CallIn(c) /\ WrittenIn(c)
      /\ call \in [Thread -> Call]
      /\ row \in [Key -> MaybeRow] /\ enrolled \in [Key -> Version \union {NoVersion}]
      /\ forgotten \subseteq Key /\ derived \subseteq Key
      /\ ForgottenStaysForgotten /\ DerivedIsRecognised
  BY DEF StageInv, CallsInv, StoreOK, StageIn
<1>a. c.pc \in Writing =>
        c.key \in Key /\ c.version \in Version /\ c.version # NoVersion /\ row[c.key] # NoRow
  BY <1>0, ConstantsOK DEF CallIn, WrittenIn
<1>b. c.pc \in Writing => \A other \in Thread : call[other].pc \notin Maintenance
  BY Owned DEF Writing, Maintenance
\* Growing rows and unchanged histories keep what the histories say.
<1>c. ASSUME RowsGrow, \A k \in Key : row[k] = NoRow => row'[k] = NoRow,
             UNCHANGED <<enrolled, forgotten, derived>>
      PROVE  ForgottenStaysForgotten' /\ DerivedIsRecognised'
  <2>1. ForgottenStaysForgotten'
    BY <1>c, <1>0 DEF ForgottenStaysForgotten
  <2>2. DerivedIsRecognised'
    BY <1>c, <1>0 DEF DerivedIsRecognised, Whole, RowsGrow
  <2> QED
    BY <2>1, <2>2
<1>1. ASSUME NEW k \in Key, NEW v \in Version, Remember(th, k, v) PROVE Rest
  <2>1. RowsGrow /\ row'[k] # NoRow
    BY <1>0, <1>1, RememberGrows
  <2> DEFINE d == [Idle EXCEPT !.pc = "density", !.key = k, !.version = v]
  <2>2. d \in Call /\ d.pc = "density" /\ d.key = k
    BY IdleCall DEF Call, PC, Idle
  <2>3. Goto(th, d) /\ MayUse(th)
    BY <1>1 DEF Remember
  <2> HIDE DEF d
  <2>4. call'[th] = d /\ \A other \in Thread : other # th => call'[other] = call[other]
    BY <1>0, <2>2, <2>3, CallMoves
  <2>5. WrittenIn(call[th])' /\ RetriedIn(call[th])' /\ call'[th].pc \notin Maintenance
    BY <2>1, <2>2, <2>4 DEF WrittenIn, RetriedIn, Writing, Maintenance
  <2>6. Alone' /\ \A other \in Thread : StageIn(call[other])'
    BY <2>1, <2>3, <2>4, <2>5, Owned, OthersUse
  <2>7. ForgottenStaysForgotten'
    <3>1. row' = [row EXCEPT ![k] = row'[k]]
      BY <1>0, <1>1 DEF Remember
    <3> QED
      BY <1>0, <1>1, <3>1 DEF Remember, ForgottenStaysForgotten
  <2>8. DerivedIsRecognised'
    BY <1>0, <1>1, <2>1 DEF Remember, DerivedIsRecognised, Whole, RowsGrow
  <2> QED
    BY <2>6, <2>7, <2>8
<1>2. ASSUME SessionFails(th) PROVE Rest
  <2>1. /\ call'[th] = Idle
        /\ \A other \in Thread : other # th => call'[other] = call[other]
        /\ c.pc \in Writing /\ UNCHANGED <<row, enrolled, forgotten, derived>>
    BY <1>0, <1>2, IdleCall, CallMoves DEF SessionFails, Return, disk, Writing
  <2>2. WrittenIn(call[th])' /\ RetriedIn(call[th])' /\ call'[th].pc \notin Maintenance
    BY <2>1 DEF WrittenIn, RetriedIn, Writing, Maintenance, Idle
  <2> QED
    BY <1>0, <1>b, <1>c, <2>1, <2>2, Untouched, OthersUse
<1>3. ASSUME Density(th) PROVE Rest
  <2>0. c.pc \in Writing /\ c.pc = "density"
    BY <1>3 DEF Density, Writing
  <2> DEFINE d == [c EXCEPT !.pc = "readback"]
             e == [c EXCEPT !.pc = "readback", !.warned = TRUE]
  <2>1. /\ d \in Call /\ d.pc = "readback" /\ d.key = c.key
        /\ e \in Call /\ e.pc = "readback" /\ e.key = c.key /\ e.warned
    BY <1>0 DEF Call, PC
  <2>2. \/ SetDensity(c.key) /\ Goto(th, d)
        \/ UNCHANGED row /\ Goto(th, e)
    BY <1>3 DEF Density, Step, Warn
  <2> HIDE DEF d, e
  <2>3. RowsGrow
    BY <1>0, <1>a, <2>0, <2>2, DensityGrows, Untouched
  <2>4. /\ call'[th] \in {d, e}
        /\ \A other \in Thread : other # th => call'[other] = call[other]
    BY <1>0, <2>1, <2>2, CallMoves
  <2>5. call'[th].warned \/ row'[c.key].dense
    BY <1>0, <1>a, <2>0, <2>1, <2>2, DensityGrows, CallMoves
  <2>6. row'[c.key] # NoRow
    BY <1>a, <2>0, <2>3 DEF RowsGrow
  <2>7. WrittenIn(call[th])' /\ RetriedIn(call[th])' /\ call'[th].pc \notin Maintenance
    BY <2>1, <2>4, <2>5, <2>6 DEF WrittenIn, RetriedIn, Writing, Maintenance
  <2>8. \A k \in Key : row[k] = NoRow => row'[k] = NoRow
    BY <1>0, <2>2 DEF SetDensity
  <2> QED
    BY <1>3, <1>b, <1>c, <2>0, <2>3, <2>4, <2>7, <2>8, OthersUse DEF Density
<1>4. ASSUME ReadBack(th) PROVE Rest
  <2>0. c.pc \in Writing /\ c.pc = "readback" /\ UNCHANGED <<row, enrolled, forgotten, derived>>
    BY <1>4 DEF ReadBack, Writing, disk
  <2> DEFINE r == row[c.key].content
             d == [c EXCEPT !.pc = "sign", !.read = r]
             e == [c EXCEPT !.pc = "enroll", !.warned = TRUE]
  <2>1. r \in Version
    BY <1>0, <1>a, <2>0 DEF MaybeRow, Row
  <2>2. Goto(th, d) \/ Goto(th, e)
    BY <1>4 DEF ReadBack, Warn
  <2> HIDE DEF r
  <2>3. /\ d \in Call /\ d.pc = "sign" /\ d.key = c.key /\ d.read \in Version
        /\ d.warned = c.warned
        /\ e \in Call /\ e.pc = "enroll" /\ e.key = c.key /\ e.warned
    BY <1>0, <2>1 DEF Call, PC
  <2> HIDE DEF d, e
  <2>4. /\ call'[th] \in {d, e}
        /\ \A other \in Thread : other # th => call'[other] = call[other]
    BY <1>0, <2>2, <2>3, CallMoves
  <2>5. WrittenIn(call[th])' /\ RetriedIn(call[th])' /\ call'[th].pc \notin Maintenance
    BY <1>0, <1>a, <2>0, <2>3, <2>4 DEF WrittenIn, RetriedIn, Writing, Maintenance
  <2> QED
    BY <1>0, <1>b, <1>c, <2>0, <2>4, <2>5, Untouched, OthersUse
<1>5. ASSUME Sign(th) PROVE Rest
  <2>0. c.pc \in Writing /\ c.pc = "sign" /\ UNCHANGED <<enrolled, forgotten, derived>>
    BY <1>5 DEF Sign, Writing
  <2>1. c.read \in Version /\ c.read # NoVersion /\ (c.warned \/ row[c.key].dense)
    BY <1>0, <2>0, ConstantsOK DEF WrittenIn
  <2> DEFINE d == [c EXCEPT !.pc = "enroll", !.read = NoVersion]
             e == [d EXCEPT !.warned = TRUE]
  <2>2. /\ d \in Call /\ d.pc = "enroll" /\ d.key = c.key /\ d.warned = c.warned
        /\ e \in Call /\ e.pc = "enroll" /\ e.key = c.key /\ e.warned
    BY <1>0 DEF Call, PC
  <2>3. \/ SetSignature(d.key, c.read) /\ Goto(th, d)
        \/ UNCHANGED row /\ Goto(th, e)
    BY <1>5 DEF Sign
  <2> HIDE DEF d, e
  <2>4. RowsGrow
    BY <1>0, <1>a, <2>0, <2>1, <2>2, <2>3, SignatureGrows, Untouched
  <2>5. /\ call'[th] \in {d, e}
        /\ \A other \in Thread : other # th => call'[other] = call[other]
    BY <1>0, <2>2, <2>3, CallMoves
  <2>6. call'[th].warned \/ row'[c.key].sig # NoVersion
    BY <1>0, <1>a, <2>0, <2>1, <2>2, <2>3, SignatureGrows, CallMoves
  <2>7. row'[c.key] # NoRow /\ (c.warned \/ row'[c.key].dense)
    BY <1>a, <2>0, <2>1, <2>4 DEF RowsGrow
  <2>8. WrittenIn(call[th])' /\ RetriedIn(call[th])' /\ call'[th].pc \notin Maintenance
    BY <2>2, <2>5, <2>6, <2>7 DEF WrittenIn, RetriedIn, Writing, Maintenance
  <2>9. \A k \in Key : row[k] = NoRow => row'[k] = NoRow
    BY <1>0, <2>3 DEF SetSignature
  <2> QED
    BY <1>b, <1>c, <2>0, <2>4, <2>5, <2>8, <2>9, OthersUse
<1>6. ASSUME Enroll(th) \/ EnrollFails(th) PROVE Rest
  <2>0. c.pc \in Writing /\ c.pc = "enroll" /\ UNCHANGED <<row, forgotten>>
    BY <1>6 DEF Enroll, EnrollFails, Writing
  <2> DEFINE d == [Idle EXCEPT !.pc = "drain"]
  <2>1. d \in Call /\ d.pc = "drain"
    BY IdleCall DEF Call, PC, Idle
  <2>2. Goto(th, d)
    BY <1>6 DEF Enroll, EnrollFails
  <2> HIDE DEF d
  <2>3. /\ call'[th] = d
        /\ \A other \in Thread : other # th => call'[other] = call[other]
    BY <1>0, <2>1, <2>2, CallMoves
  <2>4. WrittenIn(call[th])' /\ RetriedIn(call[th])' /\ call'[th].pc \notin Maintenance
    BY <2>1, <2>3 DEF WrittenIn, RetriedIn, Writing, Maintenance
  <2>5. Alone' /\ \A other \in Thread : StageIn(call[other])'
    BY <1>0, <1>b, <2>0, <2>3, <2>4, Untouched, OthersUse
  <2>6. CASE EnrollFails(th)
    BY <1>0, <1>c, <2>0, <2>5, <2>6, Untouched DEF EnrollFails
  <2>7. CASE Enroll(th)
    <3>1. /\ enrolled'[c.key] # NoVersion
          /\ \A k \in Key : k # c.key => enrolled'[k] = enrolled[k]
          /\ \A k \in Key : enrolled[k] # NoVersion => enrolled'[k] # NoVersion
      BY <1>0, <1>a, <2>0, <2>7, Enrolled DEF Enroll
    <3>2. ForgottenStaysForgotten'
      BY <1>0, <1>a, <2>0, <3>1 DEF ForgottenStaysForgotten
    <3>3. derived' \in {derived, derived \union {c.key}} /\ (c.warned => derived' = derived)
      BY <2>7 DEF Enroll
    <3>4. ~c.warned => row[c.key].dense /\ row[c.key].sig # NoVersion
      BY <1>0, <2>0 DEF WrittenIn
    <3>5. DerivedIsRecognised'
      BY <1>0, <1>a, <2>0, <3>1, <3>3, <3>4 DEF DerivedIsRecognised, Whole
    <3> QED
      BY <2>5, <3>2, <3>5
  <2> QED
    BY <1>6, <2>6, <2>7
<1> QED
  BY <1>1, <1>2, <1>3, <1>4, <1>5, <1>6

LEMMA DrainStages ==
  ASSUME Exclusive, StageInv, CallsInv', NEW th \in Thread,
         StartDrain(th) \/ Drain(th) \/ Fetch(th) \/ Retry(th) \/ RetryFails(th)
  PROVE  StageInv'
<1> DEFINE c == call[th]
           Rest == /\ Alone' /\ (\A other \in Thread : StageIn(call[other]))'
                   /\ ForgottenStaysForgotten' /\ DerivedIsRecognised'
<1> SUFFICES Rest
  BY DEF StageInv
<1>0. /\ CallsInv /\ c \in Call /\ RetriedIn(c)
      /\ row \in [Key -> MaybeRow] /\ enrolled \in [Key -> Version \union {NoVersion}]
      /\ ForgottenStaysForgotten /\ DerivedIsRecognised
      /\ UNCHANGED <<row, forgotten, derived>>
  BY DEF StageInv, CallsInv, StoreOK, StageIn, StartDrain, Drain, Fetch, Retry, RetryFails, disk
<1>1. \A other \in Thread : call[other].pc \notin Maintenance
  <2>1. MayUse(th) \/ call[th].pc \notin Maintenance \union {"idle"}
    BY DEF StartDrain, Drain, Fetch, Retry, RetryFails, Maintenance
  <2> QED
    BY <2>1, Owned
\* Only a retry changes anything, and it enrols what still has a row.
<1>2. /\ \A k \in Key : enrolled[k] # NoVersion => enrolled'[k] # NoVersion
      /\ \A k \in Key : row[k] = NoRow => enrolled'[k] = enrolled[k]
  <2>1. CASE Retry(th) \/ RetryFails(th)
    <3> DEFINE k == Head(c.todo)
    <3>1. c.pc = "retry" /\ k \in Key /\ c.read \in Version \union {NoVersion}
      BY <1>0, <2>1, TodoTyped DEF Retry, RetryFails
    <3>2. enrolled' = enrolled \/ (c.read # NoVersion /\ enrolled' = EnrollAs(k, c.read))
      BY <2>1 DEF Retry, RetryFails
    <3>3. c.read # NoVersion => row[k] # NoRow
      BY <1>0, <3>1 DEF RetriedIn
    <3> HIDE DEF k
    <3>4. CASE enrolled' = enrolled
      BY <3>4
    <3>5. CASE c.read # NoVersion /\ enrolled' = EnrollAs(k, c.read)
      <4>1. /\ \A x \in Key : x # k => enrolled'[x] = enrolled[x]
            /\ \A x \in Key : enrolled[x] # NoVersion => enrolled'[x] # NoVersion
        BY <1>0, <3>1, <3>5, Enrolled
      <4> QED
        BY <3>3, <3>5, <4>1
    <3> QED
      BY <3>2, <3>4, <3>5
  <2>2. CASE StartDrain(th) \/ Drain(th) \/ Fetch(th)
    BY <2>2 DEF StartDrain, Drain, Fetch, disk
  <2> QED
    BY <2>1, <2>2
<1>3. ForgottenStaysForgotten' /\ DerivedIsRecognised'
  <2>1. forgotten \subseteq Key /\ derived \subseteq Key
    BY <1>0 DEF CallsInv, StoreOK
  <2>2. ForgottenStaysForgotten'
    BY <1>0, <1>2, <2>1 DEF ForgottenStaysForgotten
  <2>3. DerivedIsRecognised'
    BY <1>0, <1>2, <2>1 DEF DerivedIsRecognised, Whole
  <2> QED
    BY <2>2, <2>3
<1>4. PICK d :
        /\ Goto(th, d) /\ d.pc \in {"idle", "drain", "fetch", "retry"}
        /\ d.pc = "retry" => d.read = row[Head(d.todo)].content /\ Head(d.todo) \in Key
  <2>1. CASE StartDrain(th)
    BY <2>1 DEF StartDrain, Idle
  <2>2. CASE Return(th)
    BY <2>2 DEF Return, Idle
  <2>3. CASE Drain(th) /\ ~Return(th)
    <3> DEFINE q == SubSeq(pending, 1, IF Batch < Len(pending) THEN Batch ELSE Len(pending))
    <3>1. Goto(th, [c EXCEPT !.pc = "fetch", !.todo = q])
      BY <2>3 DEF Drain
    <3> HIDE DEF q
    <3>2. [c EXCEPT !.pc = "fetch", !.todo = q].pc = "fetch"
      BY <1>0 DEF Call
    <3> QED
      BY <3>1, <3>2
  <2>4. CASE NextRetry(th)
    <3> DEFINE rest == Tail(c.todo)
    <3>1. Goto(th, Idle) \/ Goto(th, [Idle EXCEPT !.pc = "fetch", !.todo = rest])
      BY <2>4 DEF NextRetry
    <3> HIDE DEF rest
    <3>2. Idle.pc = "idle" /\ [Idle EXCEPT !.pc = "fetch", !.todo = rest].pc = "fetch"
      BY DEF Idle
    <3> QED
      BY <3>1, <3>2
  <2>5. CASE Fetch(th) /\ ~NextRetry(th)
    <3> DEFINE e == [c EXCEPT !.pc = "retry", !.read = row[Head(c.todo)].content]
    <3>1. Goto(th, e) /\ c.pc = "fetch"
      BY <2>5 DEF Fetch
    <3>2. e.pc = "retry" /\ e.todo = c.todo /\ e.read = row[Head(c.todo)].content
      BY <1>0 DEF Call
    <3>3. Head(c.todo) \in Key
      BY <1>0, <3>1, TodoTyped
    <3> HIDE DEF e
    <3> QED
      BY <3>1, <3>2, <3>3
  <2> QED
    BY <2>1, <2>2, <2>3, <2>4, <2>5 DEF Drain, Retry, RetryFails
<1>5. /\ call'[th] = d
      /\ \A other \in Thread : other # th => call'[other] = call[other]
  BY <1>0, <1>4 DEF CallsInv, Goto
<1>6. WrittenIn(call[th])' /\ call'[th].pc \notin Maintenance
  BY <1>4, <1>5 DEF WrittenIn, Writing, Maintenance
<1>7. RetriedIn(call[th])'
  BY <1>0, <1>4, <1>5 DEF RetriedIn, NoRow
<1> QED
  BY <1>0, <1>1, <1>3, <1>5, <1>6, <1>7, Untouched, OthersUse

LEMMA ForgettingStages ==
  ASSUME Exclusive, StageInv, CallsInv', NEW th \in Thread,
         \/ \E k \in Key : Forget(th, k)
         \/ Delete(th) \/ Untrace(th) \/ ProbeRecall(th) \/ ProbeRecognition(th)
  PROVE  StageInv'
<1> DEFINE c == call[th]
           Rest == /\ Alone' /\ (\A other \in Thread : StageIn(call[other]))'
                   /\ ForgottenStaysForgotten' /\ DerivedIsRecognised'
<1> SUFFICES Rest
  BY DEF StageInv
<1>0. /\ CallsInv /\ c \in Call /\ CallIn(c) /\ ForgottenIn(c)
      /\ call \in [Thread -> Call]
      /\ row \in [Key -> MaybeRow] /\ enrolled \in [Key -> Version \union {NoVersion}]
      /\ forgotten \subseteq Key /\ derived \subseteq Key
      /\ ForgottenStaysForgotten /\ DerivedIsRecognised
  BY DEF StageInv, CallsInv, StoreOK, StageIn
<1>a. c.pc \in Forgetting => c.key \in Key /\ c.key \notin derived
  BY <1>0 DEF CallIn, ForgottenIn
<1>b. \A other \in Thread : other # th => call[other].pc = "idle"
  <2>1. MayMaintain(th) \/ c.pc \in Maintenance
    BY DEF Forget, Delete, Untrace, ProbeRecall, ProbeRecognition, Maintenance
  <2> QED
    BY <2>1, Owned
<1>c. ASSUME NEW d, Goto(th, d), d.pc \notin Writing \union {"retry"},
             ForgottenIn(call[th])', d.pc \notin Repairing
      PROVE  Alone' /\ (\A other \in Thread : StageIn(call[other]))'
  <2>1. call'[th] = d /\ \A other \in Thread : other # th => call'[other] = call[other]
    BY <1>0, <1>c DEF Goto
  <2>2. RepairedIn(call[th])'
    BY <1>c, <2>1 DEF RepairedIn
  <2> QED
    BY <1>b, <1>c, <2>1, <2>2, OthersIdle
<1>d. ASSUME Report(th, TRUE) \/ Report(th, FALSE), UNCHANGED <<disk, derived>>,
             c.pc \in Forgetting,
             Report(th, TRUE) => ~c.existed \/ enrolled[c.key] = NoVersion
      PROVE  Rest
  <2>1. Goto(th, Idle) /\ Idle.pc = "idle"
    BY <1>d DEF Report, Return, Idle
  <2>2. call'[th] = Idle
    BY <1>0, <2>1 DEF Goto
  <2>3. ForgottenIn(call[th])'
    BY <2>1, <2>2 DEF ForgottenIn, Forgetting
  <2>4. \A k \in forgotten' \ forgotten : k = c.key /\ row[k] = NoRow /\ enrolled[k] = NoVersion
    BY <1>d DEF Report
  <2>5. ForgottenStaysForgotten'
    BY <1>0, <1>d, <2>4 DEF ForgottenStaysForgotten, disk
  <2>6. DerivedIsRecognised'
    BY <1>0, <1>d DEF DerivedIsRecognised, Whole, disk
  <2> QED
    BY <1>c, <2>1, <2>3, <2>5, <2>6 DEF Writing, Repairing, Visiting
<1>1. ASSUME NEW k \in Key, Forget(th, k) PROVE Rest
  <2> DEFINE d == [Idle EXCEPT !.pc = "delete", !.key = k, !.read = row[k].content]
  <2>1. Goto(th, d) /\ derived' = derived \ {k} /\ UNCHANGED <<row, enrolled, forgotten>>
    BY <1>1 DEF Forget, disk
  <2>2. d.pc = "delete" /\ d.key = k /\ d.read = row[k].content
    BY DEF Idle
  <2> HIDE DEF d
  <2>3. call'[th] = d
    BY <1>0, <2>1 DEF Goto
  <2>4. ForgottenIn(call[th])'
    BY <2>1, <2>2, <2>3 DEF ForgottenIn
  <2>5. ForgottenStaysForgotten' /\ DerivedIsRecognised'
    BY <1>0, <2>1 DEF ForgottenStaysForgotten, DerivedIsRecognised, Whole
  <2> QED
    BY <1>c, <2>1, <2>2, <2>4, <2>5 DEF Writing, Repairing, Visiting
<1>2. ASSUME Delete(th) PROVE Rest
  <2>0. c.pc = "delete" /\ c.pc \in Forgetting /\ UNCHANGED <<enrolled, forgotten, derived>>
    BY <1>2 DEF Delete, Forgetting
  <2>1. CASE UNCHANGED row /\ Return(th)
    <3>1. Goto(th, Idle) /\ Idle.pc = "idle"
      BY <2>1 DEF Return, Idle
    <3>2. call'[th] = Idle
      BY <1>0, <3>1 DEF Goto
    <3>3. ForgottenIn(call[th])'
      BY <3>1, <3>2 DEF ForgottenIn, Forgetting
    <3>4. ForgottenStaysForgotten' /\ DerivedIsRecognised'
      BY <1>0, <2>0, <2>1 DEF ForgottenStaysForgotten, DerivedIsRecognised, Whole
    <3> QED
      BY <1>c, <3>1, <3>3, <3>4 DEF Writing, Repairing, Visiting
  <2> DEFINE d == [c EXCEPT !.pc = "untrace", !.existed = (row[c.key] # NoRow)]
  <2>2. CASE row' = [row EXCEPT ![c.key] = NoRow] /\ Goto(th, d)
    <3>1. Goto(th, d)
      BY <2>2
    <3>2. /\ d.pc = "untrace" /\ d.key = c.key /\ d.read = c.read
          /\ d.existed = (row[c.key] # NoRow)
      BY <1>0 DEF Call
    <3> HIDE DEF d
    <3>3. call'[th] = d
      BY <1>0, <3>1 DEF Goto
    <3>4. row[c.key] # NoRow => c.read # NoVersion
      <4>1. row[c.key] # NoRow => row[c.key].content \in Version
        BY <1>0, <1>a, <2>0 DEF MaybeRow, Row
      <4> QED
        BY <1>0, <2>0, <4>1, ConstantsOK DEF ForgottenIn
    <3>5. row'[c.key] = NoRow /\ \A k \in Key : k # c.key => row'[k] = row[k]
      BY <1>0, <1>a, <2>0, <2>2
    <3>6. ForgottenIn(call[th])'
      BY <1>a, <2>0, <3>2, <3>3, <3>4, <3>5 DEF ForgottenIn
    <3>7. ForgottenStaysForgotten' /\ DerivedIsRecognised'
      BY <1>0, <1>a, <2>0, <3>5 DEF ForgottenStaysForgotten, DerivedIsRecognised, Whole
    <3> QED
      BY <1>c, <3>1, <3>2, <3>6, <3>7 DEF Writing, Repairing, Visiting
  <2> QED
    BY <1>2, <2>1, <2>2 DEF Delete
<1>3. ASSUME Untrace(th) PROVE Rest
  <2>0. c.pc = "untrace" /\ c.pc \in Forgetting /\ UNCHANGED <<row, forgotten, derived>>
    BY <1>3 DEF Untrace, Forgetting
  <2> DEFINE d == [c EXCEPT !.pc = "probe_recall"]
  <2>1. Goto(th, d)
    BY <1>3 DEF Untrace, Step
  <2>2. d.pc = "probe_recall" /\ d.key = c.key /\ d.read = c.read /\ d.existed = c.existed
    BY <1>0 DEF Call
  <2> HIDE DEF d
  <2>3. call'[th] = d
    BY <1>0, <2>1 DEF Goto
  <2>4. ForgottenIn(call[th])'
    BY <1>0, <2>0, <2>2, <2>3 DEF ForgottenIn, Forgetting
  <2>5. \A k \in Key : /\ k # c.key => enrolled'[k] = enrolled[k]
                       /\ enrolled'[k] \in {enrolled[k], NoVersion}
    BY <1>0, <1>3 DEF Untrace
  <2>6. ForgottenStaysForgotten'
    <3>1. \A k \in forgotten : row[k] = NoRow /\ enrolled'[k] = NoVersion
      BY <1>0, <2>5 DEF ForgottenStaysForgotten
    <3> QED
      BY <2>0, <3>1 DEF ForgottenStaysForgotten
  <2>7. DerivedIsRecognised'
    <3>1. \A k \in derived : k \in Key /\ enrolled'[k] = enrolled[k]
      BY <1>0, <1>a, <2>0, <2>5
    <3> QED
      BY <1>0, <2>0, <3>1 DEF DerivedIsRecognised, Whole
  <2> QED
    BY <1>c, <2>1, <2>2, <2>4, <2>6, <2>7 DEF Writing, Repairing, Visiting
<1>4. ASSUME ProbeRecall(th) PROVE Rest
  <2>0. /\ c.pc = "probe_recall" /\ c.pc \in Forgetting
        /\ UNCHANGED <<disk, derived>> /\ UNCHANGED <<row, enrolled>>
    BY <1>4 DEF ProbeRecall, Forgetting, disk
  <2>1. CASE Report(th, TRUE)
    <3>1. ~c.existed
      <4>1. CASE ~c.existed \/ c.read = NoVersion
        BY <1>0, <2>0, <4>1 DEF ForgottenIn, Forgetting
      <4>2. CASE ~(~c.existed \/ c.read = NoVersion)
        <5>1. Goto(th, [c EXCEPT !.pc = "probe_recognition"])
              \/ Goto(th, [c EXCEPT !.pc = "probe_recognition", !.warned = TRUE])
          BY <1>4, <4>2 DEF ProbeRecall, Step, Warn
        <5>2. call'[th].pc = "probe_recognition"
          BY <1>0, <5>1 DEF Goto, Call
        <5>3. call'[th].pc = "idle"
          BY <1>0, <2>1 DEF Report, Return, Goto, Idle
        <5> QED
          BY <5>2, <5>3
      <4> QED
        BY <4>1, <4>2
    <3> QED
      BY <1>d, <2>0, <2>1, <3>1
  <2>2. CASE ~Report(th, TRUE)
    <3> DEFINE d == [c EXCEPT !.pc = "probe_recognition"]
               e == [c EXCEPT !.pc = "probe_recognition", !.warned = TRUE]
    <3>1. (Goto(th, d) \/ Goto(th, e)) /\ UNCHANGED forgotten
      BY <1>4, <2>2 DEF ProbeRecall, Step, Warn
    <3>2. /\ d.pc = "probe_recognition" /\ d.key = c.key /\ d.read = c.read
          /\ d.existed = c.existed
          /\ e.pc = "probe_recognition" /\ e.key = c.key /\ e.read = c.read
          /\ e.existed = c.existed
      BY <1>0 DEF Call
    <3> HIDE DEF d, e
    <3>3. call'[th] \in {d, e}
      BY <1>0, <3>1 DEF Goto
    <3>4. ForgottenIn(call[th])'
      BY <1>0, <2>0, <3>2, <3>3 DEF ForgottenIn, Forgetting
    <3>5. ForgottenStaysForgotten' /\ DerivedIsRecognised'
      BY <1>0, <2>0, <3>1 DEF ForgottenStaysForgotten, DerivedIsRecognised, Whole
    <3> QED
      BY <1>c, <3>1, <3>2, <3>4, <3>5 DEF Writing, Repairing, Visiting
  <2> QED
    BY <2>1, <2>2
<1>5. ASSUME ProbeRecognition(th) PROVE Rest
  <2>0. c.pc \in Forgetting /\ UNCHANGED <<disk, derived>>
    BY <1>5 DEF ProbeRecognition, Forgetting
  <2>1. PICK clear \in BOOLEAN :
          (clear => enrolled[c.key] = NoVersion) /\ Report(th, clear)
    BY <1>5 DEF ProbeRecognition
  <2>2. CASE enrolled[c.key] = NoVersion
    BY <1>d, <2>0, <2>1, <2>2
  <2>3. CASE enrolled[c.key] # NoVersion
    <3>1. Report(th, FALSE) /\ UNCHANGED forgotten
      BY <2>1, <2>3 DEF Report
    <3>2. Goto(th, Idle) /\ Idle.pc = "idle"
      BY <3>1 DEF Report, Return, Idle
    <3>3. call'[th] = Idle
      BY <1>0, <3>2 DEF Goto
    <3>4. ForgottenIn(call[th])'
      BY <3>2, <3>3 DEF ForgottenIn, Forgetting
    <3>5. ForgottenStaysForgotten' /\ DerivedIsRecognised'
      BY <1>0, <2>0, <3>1 DEF ForgottenStaysForgotten, DerivedIsRecognised, Whole, disk
    <3> QED
      BY <1>c, <3>2, <3>4, <3>5 DEF Writing, Repairing, Visiting
  <2> QED
    BY <2>2, <2>3
<1> QED
  BY <1>1, <1>2, <1>3, <1>4, <1>5

LEMMA RepairingStages ==
  ASSUME Exclusive, StageInv, CallsInv', NEW th \in Thread,
         \/ \E limit \in Limits, listed \in SUBSET Key : Repair(th, limit, listed)
         \/ Visit(th) \/ VisitDensity(th) \/ VisitSign(th) \/ VisitEnroll(th)
         \/ RepairFails(th) \/ Prune(th)
  PROVE  StageInv'
<1> DEFINE c == call[th]
           Rest == /\ Alone' /\ (\A other \in Thread : StageIn(call[other]))'
                   /\ ForgottenStaysForgotten' /\ DerivedIsRecognised'
<1> SUFFICES Rest
  BY DEF StageInv
<1>0. /\ CallsInv /\ c \in Call /\ CallIn(c) /\ RepairedIn(c)
      /\ call \in [Thread -> Call]
      /\ row \in [Key -> MaybeRow] /\ enrolled \in [Key -> Version \union {NoVersion}]
      /\ forgotten \subseteq Key /\ derived \subseteq Key
      /\ ForgottenStaysForgotten /\ DerivedIsRecognised
      /\ UNCHANGED <<forgotten, derived>>
  BY DEF StageInv, CallsInv, StoreOK, StageIn, Repair, Visit, VisitDensity, VisitSign,
         VisitEnroll, RepairFails, Prune
<1>b. \A other \in Thread : other # th => call[other].pc = "idle"
  <2>1. MayMaintain(th) \/ c.pc \in Maintenance
    BY DEF Repair, Visit, VisitDensity, VisitSign, VisitEnroll, RepairFails, Prune, Maintenance
  <2> QED
    BY <2>1, Owned
<1>c. ASSUME NEW d, Goto(th, d), d.pc \in Repairing \union {"idle"}, RepairedIn(call[th])'
      PROVE  Alone' /\ (\A other \in Thread : StageIn(call[other]))'
  <2>1. call'[th] = d /\ \A other \in Thread : other # th => call'[other] = call[other]
    BY <1>0, <1>c DEF Goto
  <2>2. d.pc \notin Forgetting \union Writing \union {"retry"}
    BY <1>c DEF Repairing, Visiting, Forgetting, Writing
  <2>3. ForgottenIn(call[th])'
    BY <2>1, <2>2 DEF ForgottenIn, Forgetting
  <2> QED
    BY <1>b, <1>c, <2>1, <2>2, <2>3, OthersIdle
\* The end of a repair.
<1>d. Goto(th, Idle) => Alone' /\ (\A other \in Thread : StageIn(call[other]))'
  <2>1. Idle.pc = "idle" /\ "idle" \notin Repairing
    BY DEF Idle, Repairing, Visiting
  <2>2. Goto(th, Idle) => RepairedIn(call[th])'
    BY <1>0, <2>1 DEF Goto, RepairedIn
  <2> QED
    BY <1>c, <2>1, <2>2
\* What a visited row lacks is added, and so is its enrolment; nothing is lost.
<1>e. ASSUME RowsGrow, \A k \in Key : row[k] = NoRow => row'[k] = NoRow,
             \A k \in Key : /\ enrolled[k] # NoVersion => enrolled'[k] # NoVersion
                            /\ row[k] = NoRow => enrolled'[k] = enrolled[k]
      PROVE  /\ ForgottenStaysForgotten' /\ DerivedIsRecognised'
             /\ \A k \in Key : Whole(k) => Whole(k)'
             /\ Live(row)' = Live(row)
  <2>1. \A k \in Key : Whole(k) => Whole(k)'
    BY <1>e DEF Whole, RowsGrow
  <2>2. ForgottenStaysForgotten'
    BY <1>0, <1>e DEF ForgottenStaysForgotten
  <2>3. DerivedIsRecognised'
    BY <1>0, <2>1 DEF DerivedIsRecognised
  <2>4. Live(row)' = Live(row)
    BY <1>e DEF Live, RowsGrow
  <2> QED
    BY <2>1, <2>2, <2>3, <2>4
<1>f. Live(c.snap) \subseteq c.live /\ c.live \subseteq Key
  BY <1>0 DEF CallIn, Call
<1>g. c.pc \in Visiting => c.key \in Live(c.snap) /\ c.key \in Key /\ c.pc \in Repairing
  BY <1>0 DEF CallIn, Repairing
<1>h. c.pc \in Repairing =>
        /\ c.live \subseteq Live(row)
        /\ Cardinality(c.live) >= c.limit \/ c.live = Live(row)
        /\ \A k \in c.live \ Live(c.snap) : Whole(k)
        /\ \A k \in Live(c.snap) : /\ c.snap[k].dense => row[k].dense
                                   /\ c.snap[k].sig # NoVersion => row[k].sig # NoVersion
  BY <1>0 DEF RepairedIn
<1>1. ASSUME NEW limit \in Limits, NEW listed \in SUBSET Key, Repair(th, limit, listed)
      PROVE  Rest
  <2> DEFINE snap == [k \in Key |-> IF k \in listed THEN row[k] ELSE NoRow]
             d == [Idle EXCEPT !.pc = "visit", !.live = listed, !.limit = limit, !.snap = snap]
  <2>1. Goto(th, d) /\ UNCHANGED <<row, enrolled>>
    BY <1>1 DEF Repair, disk
  <2>2. d.pc = "visit" /\ d.live = listed /\ d.limit = limit /\ d.snap = snap
    BY DEF Idle
  <2>3. Live(snap) = listed /\ \A k \in Live(snap) : snap[k] = row[k]
    BY <1>1 DEF Repair, Live
  <2> HIDE DEF snap, d
  <2>4. listed \subseteq Live(row) /\ (Cardinality(listed) >= limit \/ listed = Live(row))
    <3>1. limit \in Nat
      BY ConstantsOK
    <3>2. /\ listed \subseteq Live(row)
          /\ listed = Live(row) \/ Cardinality(listed) = limit
      BY <1>1 DEF Repair
    <3> QED
      BY <3>1, <3>2
  <2>5. call'[th] = d
    BY <1>0, <2>1 DEF Goto
  <2>6. Live(row)' = Live(row)
    BY <2>1 DEF Live
  <2>7. RepairedIn(call[th])'
    BY <2>1, <2>2, <2>3, <2>4, <2>5, <2>6 DEF RepairedIn
  <2>8. ForgottenStaysForgotten' /\ DerivedIsRecognised'
    BY <1>0, <2>1 DEF ForgottenStaysForgotten, DerivedIsRecognised, Whole
  <2> QED
    BY <1>c, <2>1, <2>2, <2>7, <2>8 DEF Repairing
<1>2. ASSUME Visit(th) PROVE Rest
  <2>0. c.pc \in Repairing /\ UNCHANGED <<row, enrolled>>
    BY <1>2 DEF Visit, Repairing, disk
  <2>1. PICK d : /\ Goto(th, d) /\ d.snap = c.snap /\ d.live = c.live /\ d.limit = c.limit
                 /\ d.pc = "visit_density" \/ (d.pc = "prune" /\ Live(c.snap) = {})
    <3>1. CASE Live(c.snap) = {} /\ Step(th, "prune")
      <4> DEFINE d == [c EXCEPT !.pc = "prune"]
      <4>1. d.snap = c.snap /\ d.live = c.live /\ d.limit = c.limit /\ d.pc = "prune"
        BY <1>0 DEF Call
      <4> QED
        BY <3>1, <4>1 DEF Step
    <3>2. ASSUME NEW k \in Live(c.snap), Goto(th, [c EXCEPT !.pc = "visit_density", !.key = k])
          PROVE  \E d : /\ Goto(th, d) /\ d.snap = c.snap /\ d.live = c.live
                        /\ d.limit = c.limit /\ d.pc = "visit_density"
      <4> DEFINE d == [c EXCEPT !.pc = "visit_density", !.key = k]
      <4>1. /\ d.snap = c.snap /\ d.live = c.live /\ d.limit = c.limit
            /\ d.pc = "visit_density"
        BY <1>0 DEF Call
      <4> HIDE DEF d
      <4>2. Goto(th, d)
        BY <3>2 DEF d
      <4> QED
        BY <4>1, <4>2
    <3> QED
      BY <1>2, <3>1, <3>2 DEF Visit
  <2>2. call'[th] = d
    BY <1>0, <2>1 DEF Goto
  <2>3. Live(row)' = Live(row) /\ \A k : Whole(k)' <=> Whole(k)
    BY <2>0 DEF Live, Whole
  <2>4. RepairedIn(call[th])'
    BY <1>h, <2>0, <2>1, <2>2, <2>3 DEF RepairedIn
  <2>5. ForgottenStaysForgotten' /\ DerivedIsRecognised'
    BY <1>0, <2>0 DEF ForgottenStaysForgotten, DerivedIsRecognised, Whole
  <2>6. d.pc \in Repairing
    BY <2>1 DEF Repairing, Visiting
  <2> QED
    BY <1>c, <2>1, <2>4, <2>5, <2>6
<1>3. ASSUME VisitDensity(th) PROVE Rest
  <2>0. c.pc = "visit_density" /\ c.pc \in Visiting /\ UNCHANGED enrolled
    BY <1>3 DEF VisitDensity, Visiting
  <2> DEFINE d == [c EXCEPT !.pc = "visit_sign"]
  <2>1. /\ Goto(th, d) /\ d.pc = "visit_sign" /\ d.snap = c.snap /\ d.live = c.live
        /\ d.limit = c.limit /\ d.key = c.key
    BY <1>0, <1>3 DEF VisitDensity, Step, Call
  <2> HIDE DEF d
  <2>2. call'[th] = d
    BY <1>0, <2>1 DEF Goto
  <2>3. row[c.key] # NoRow
    BY <1>f, <1>g, <1>h, <2>0 DEF Live
  <2>4. RowsGrow /\ row'[c.key].dense
    <3>1. CASE c.snap[c.key].dense
      BY <1>0, <1>3, <1>g, <1>h, <2>0, <3>1, Untouched DEF VisitDensity
    <3>2. CASE ~c.snap[c.key].dense
      BY <1>0, <1>3, <1>g, <2>0, <2>3, <3>2, DensityGrows DEF VisitDensity
    <3> QED
      BY <3>1, <3>2
  <2>5. \A k \in Key : row[k] = NoRow => row'[k] = NoRow
    BY <1>0, <1>3 DEF VisitDensity, SetDensity
  <2>6. /\ ForgottenStaysForgotten' /\ DerivedIsRecognised'
        /\ \A k \in Key : Whole(k) => Whole(k)'
        /\ Live(row)' = Live(row)
    BY <1>e, <2>0, <2>4, <2>5
  <2>7. RepairedIn(call[th])'
    <3>1. \A k \in Live(c.snap) : row[k] # NoRow /\ k \in Key
      BY <1>f, <1>g, <1>h, <2>0 DEF Live
    <3>2. \A k \in Live(c.snap) : /\ c.snap[k].dense => row'[k].dense
                                  /\ c.snap[k].sig # NoVersion => row'[k].sig # NoVersion
      BY <1>g, <1>h, <2>0, <2>4, <3>1 DEF RowsGrow
    <3>3. \A k \in c.live \ Live(c.snap) : Whole(k)'
      BY <1>f, <1>g, <1>h, <2>0, <2>6
    <3> QED
      BY <1>g, <1>h, <2>0, <2>1, <2>2, <2>4, <2>6, <3>2, <3>3 DEF RepairedIn
  <2> QED
    BY <1>c, <2>1, <2>6, <2>7 DEF Repairing, Visiting
<1>4. ASSUME VisitSign(th) PROVE Rest
  <2>0. c.pc = "visit_sign" /\ c.pc \in Visiting /\ UNCHANGED enrolled
    BY <1>4 DEF VisitSign, Visiting
  <2> DEFINE d == [c EXCEPT !.pc = "visit_enroll"]
             v == c.snap[c.key].content
  <2>1. /\ Goto(th, d) /\ d.pc = "visit_enroll" /\ d.snap = c.snap /\ d.live = c.live
        /\ d.limit = c.limit /\ d.key = c.key
    BY <1>0, <1>4 DEF VisitSign, Step, Call
  <2> HIDE DEF d
  <2>2. call'[th] = d
    BY <1>0, <2>1 DEF Goto
  <2>3. row[c.key] # NoRow /\ row[c.key].dense
    BY <1>0, <1>f, <1>g, <1>h, <2>0 DEF Live, RepairedIn
  <2>v. v \in Version /\ v # NoVersion
    BY <1>0, <1>g, <2>0, ConstantsOK DEF Live, Call, MaybeRow, Row
  <2>4. RowsGrow /\ row'[c.key].sig # NoVersion
    <3>1. CASE c.snap[c.key].sig # NoVersion
      BY <1>0, <1>4, <1>g, <1>h, <2>0, <3>1, Untouched DEF VisitSign
    <3>2. CASE c.snap[c.key].sig = NoVersion
      <4>1. SetSignature(c.key, v)
        BY <1>4, <3>2 DEF VisitSign
      <4> HIDE DEF v
      <4> QED
        BY <1>0, <1>g, <2>0, <2>3, <2>v, <4>1, SignatureGrows
    <3> QED
      BY <3>1, <3>2
  <2>5. \A k \in Key : row[k] = NoRow => row'[k] = NoRow
    BY <1>0, <1>4 DEF VisitSign, SetSignature
  <2>6. /\ ForgottenStaysForgotten' /\ DerivedIsRecognised'
        /\ \A k \in Key : Whole(k) => Whole(k)'
        /\ Live(row)' = Live(row)
    BY <1>e, <2>0, <2>4, <2>5
  <2>7. RepairedIn(call[th])'
    <3>1. \A k \in Live(c.snap) : row[k] # NoRow /\ k \in Key
      BY <1>f, <1>g, <1>h, <2>0 DEF Live
    <3>2. \A k \in Live(c.snap) : /\ c.snap[k].dense => row'[k].dense
                                  /\ c.snap[k].sig # NoVersion => row'[k].sig # NoVersion
      BY <1>g, <1>h, <2>0, <2>4, <3>1 DEF RowsGrow
    <3>3. \A k \in c.live \ Live(c.snap) : Whole(k)'
      BY <1>f, <1>g, <1>h, <2>0, <2>6
    <3>4. row'[c.key].dense
      BY <1>g, <2>0, <2>3, <2>4 DEF RowsGrow
    <3> QED
      BY <1>g, <1>h, <2>0, <2>1, <2>2, <2>4, <2>6, <3>2, <3>3, <3>4 DEF RepairedIn
  <2> QED
    BY <1>c, <2>1, <2>6, <2>7 DEF Repairing, Visiting
<1>5. ASSUME VisitEnroll(th) PROVE Rest
  <2>0. c.pc = "visit_enroll" /\ c.pc \in Visiting /\ UNCHANGED row
    BY <1>5 DEF VisitEnroll, Visiting
  <2> DEFINE v == c.snap[c.key].content
             snap == [c.snap EXCEPT ![c.key] = NoRow]
             d == [c EXCEPT !.pc = "visit", !.key = NoKey, !.snap = snap]
  <2>1. /\ Goto(th, d) /\ d.pc = "visit" /\ d.snap = snap /\ d.live = c.live
        /\ d.limit = c.limit
    BY <1>0, <1>5 DEF VisitEnroll, Call
  <2>2. /\ Live(snap) = Live(c.snap) \ {c.key}
        /\ \A k \in Live(snap) : snap[k] = c.snap[k]
    BY <1>0, <1>g, <2>0 DEF Live, Call
  <2> HIDE DEF d, snap
  <2>3. call'[th] = d
    BY <1>0, <2>1 DEF Goto
  <2>4. row[c.key] # NoRow /\ row[c.key].dense /\ row[c.key].sig # NoVersion
    BY <1>0, <1>f, <1>g, <1>h, <2>0 DEF Live, RepairedIn
  <2>v. v \in Version /\ v # NoVersion
    BY <1>0, <1>g, <2>0, ConstantsOK DEF Live, Call, MaybeRow, Row
  <2>5. enrolled' = EnrollAs(c.key, v)
    BY <1>5 DEF VisitEnroll
  <2> HIDE DEF v
  <2>6. /\ enrolled'[c.key] # NoVersion
        /\ \A k \in Key : k # c.key => enrolled'[k] = enrolled[k]
        /\ \A k \in Key : enrolled[k] # NoVersion => enrolled'[k] # NoVersion
    BY <1>0, <1>g, <2>0, <2>v, <2>5, Enrolled
  <2>7. /\ ForgottenStaysForgotten' /\ DerivedIsRecognised'
        /\ \A k \in Key : Whole(k) => Whole(k)'
        /\ Live(row)' = Live(row)
    <3>1. RowsGrow
      BY <1>0, <2>0, Untouched
    <3>2. \A k \in Key : row[k] = NoRow => row'[k] = NoRow
      BY <2>0
    <3>3. \A k \in Key : row[k] = NoRow => enrolled'[k] = enrolled[k]
      BY <2>4, <2>6
    <3> QED
      BY <1>e, <2>6, <3>1, <3>2, <3>3
  <2>8. \A k \in Key : k = c.key => Whole(k)'
    BY <2>0, <2>4, <2>6 DEF Whole
  <2>9. RepairedIn(call[th])'
    <3>1. \A k \in c.live \ Live(snap) : Whole(k)'
      BY <1>f, <1>g, <1>h, <2>0, <2>2, <2>7, <2>8
    <3> QED
      BY <1>g, <1>h, <2>0, <2>1, <2>2, <2>3, <2>7, <3>1 DEF RepairedIn
  <2> QED
    BY <1>c, <2>1, <2>7, <2>9 DEF Repairing
<1>6. ASSUME RepairFails(th) PROVE Rest
  <2>1. Goto(th, Idle) /\ UNCHANGED <<row, enrolled>>
    BY <1>6 DEF RepairFails, Return, disk
  <2>2. ForgottenStaysForgotten' /\ DerivedIsRecognised'
    BY <1>0, <2>1 DEF ForgottenStaysForgotten, DerivedIsRecognised, Whole
  <2> QED
    BY <1>d, <2>1, <2>2
\* Pruning drops no row's enrolment: it runs only if every row was listed.
<1>7. ASSUME Prune(th) PROVE Rest
  <2>0. c.pc \in Repairing /\ UNCHANGED row /\ Goto(th, Idle)
    BY <1>7 DEF Prune, Repairing, Return
  <2>1. PICK kept \in SUBSET (Key \ c.live) :
          /\ Cardinality(c.live) >= c.limit => kept = Key \ c.live
          /\ enrolled' = [k \in Key |-> IF k \in c.live \union kept THEN enrolled[k]
                                                                 ELSE NoVersion]
    BY <1>7 DEF Prune
  <2>2. \A k \in Key : /\ enrolled'[k] \in {enrolled[k], NoVersion}
                       /\ row[k] # NoRow => enrolled'[k] = enrolled[k]
    <3>1. \A k \in Key : row[k] # NoRow => k \in c.live \union kept
      BY <1>h, <2>0, <2>1 DEF Live
    <3> QED
      BY <2>1, <3>1
  <2>3. ForgottenStaysForgotten'
    <3>1. \A k \in forgotten : row[k] = NoRow /\ enrolled'[k] = NoVersion
      BY <1>0, <2>2 DEF ForgottenStaysForgotten
    <3> QED
      BY <1>0, <2>0, <3>1 DEF ForgottenStaysForgotten
  <2>4. DerivedIsRecognised'
    <3>1. \A k \in derived : k \in Key /\ enrolled'[k] = enrolled[k]
      BY <1>0, <2>2 DEF DerivedIsRecognised, Whole
    <3> QED
      BY <1>0, <2>0, <3>1 DEF DerivedIsRecognised, Whole
  <2> QED
    BY <1>d, <2>0, <2>3, <2>4
<1> QED
  BY <1>1, <1>2, <1>3, <1>4, <1>5, <1>6, <1>7

LEMMA StageInit == Init => StageInv
<1> SUFFICES ASSUME Init PROVE StageInv
  OBVIOUS
<1>1. \A th \in Thread : call[th].pc = "idle"
  BY DEF Init, Idle
<1>2. ASSUME NEW c, c.pc = "idle" PROVE StageIn(c)
  BY <1>2 DEF StageIn, WrittenIn, RetriedIn, ForgottenIn, RepairedIn,
              Writing, Forgetting, Repairing, Visiting
<1>3. ForgottenStaysForgotten /\ DerivedIsRecognised
  BY DEF Init, ForgottenStaysForgotten, DerivedIsRecognised
<1> QED
  BY <1>1, <1>2, <1>3, CallsInit DEF StageInv, Alone

LEMMA StageStep ==
  ASSUME Exclusive, StageInv, [Next]_vars
  PROVE  StageInv'
<1>0. CallsInv'
  BY CallsStep DEF StageInv
<1>1. CASE Crash
  <2>1. \A th \in Thread : call'[th].pc = "idle"
    BY <1>1 DEF Crash, Idle
  <2>2. ASSUME NEW c, c.pc = "idle" PROVE StageIn(c)'
    BY <2>2 DEF StageIn, WrittenIn, RetriedIn, ForgottenIn, RepairedIn,
                Writing, Forgetting, Repairing, Visiting
  <2>3. ForgottenStaysForgotten' /\ DerivedIsRecognised'
    BY <1>1 DEF Crash, disk, StageInv, ForgottenStaysForgotten, DerivedIsRecognised, Whole
  <2> QED
    BY <1>0, <2>1, <2>2, <2>3 DEF StageInv, Alone
<1>2. ASSUME NEW th \in Thread, ThreadStep(th) PROVE StageInv'
  BY <1>0, <1>2, WritingStages, DrainStages, ForgettingStages, RepairingStages DEF ThreadStep
<1>3. ASSUME NEW th \in Thread, NewCall(th) PROVE StageInv'
  BY <1>0, <1>3, WritingStages, DrainStages, ForgettingStages, RepairingStages DEF NewCall
<1>4. CASE UNCHANGED vars
  BY <1>0, <1>4 DEF vars, disk, StageInv, Alone, StageIn, WrittenIn, RetriedIn, ForgottenIn,
                    RepairedIn, Whole, Live, ForgottenStaysForgotten, DerivedIsRecognised
<1> QED
  BY <1>1, <1>2, <1>3, <1>4 DEF Next

-----------------------------------------------------------------------------
(* What holds when the host runs forget and repair alone. *)

LEMMA Stages == ASSUME Exclusive PROVE Spec => []StageInv
<1>1. StageInv /\ [Next]_vars => StageInv'
  BY StageStep
<1> QED
  BY <1>1, StageInit, PTL DEF Spec

\* A memory that forget reported fully forgotten stays out of recall and of
\* recognition until it is written again, whatever is queued for retry, repaired,
\* failed or restarted (ForgetReport::fully_forgotten).
THEOREM Forgotten == ASSUME Exclusive PROVE Spec => []ForgottenStaysForgotten
<1>1. StageInv => ForgottenStaysForgotten
  BY DEF StageInv
<1> QED
  BY <1>1, Stages, PTL

\* A memory remembered without a warning stays dense, signed and enrolled
\* (RememberResult::has_no_reported_derivation_error).
THEOREM Recognised == ASSUME Exclusive PROVE Spec => []DerivedIsRecognised
<1>1. StageInv => DerivedIsRecognised
  BY DEF StageInv
<1> QED
  BY <1>1, Stages, PTL

\* A repair that reaches its end, or dies there, leaves what it listed whole and
\* takes the enrolment of no row (repair_derivations).
THEOREM Repaired == ASSUME Exclusive PROVE Spec => RepairHeals
<1> DEFINE A == \A th \in Thread : call[th].pc = "prune" /\ call'[th].pc = "idle" =>
                  /\ \A k \in call[th].live : Whole(k)'
                  /\ \A k \in Live(row) : enrolled[k] # NoVersion => enrolled'[k] # NoVersion
<1>1. StageInv /\ [Next]_vars => [A]_vars
  <2> SUFFICES ASSUME StageInv, Next, NEW th \in Thread,
                      call[th].pc = "prune", call'[th].pc = "idle"
               PROVE  /\ \A k \in call[th].live : Whole(k)'
                      /\ \A k \in Live(row) : enrolled[k] # NoVersion => enrolled'[k] # NoVersion
    OBVIOUS
  <2> DEFINE c == call[th]
  <2>1. /\ c.live \subseteq Live(row) /\ \A k \in c.live : Whole(k)
        /\ Cardinality(c.live) >= c.limit \/ c.live = Live(row)
    BY DEF StageInv, StageIn, RepairedIn, Repairing
  <2>2. \A other \in Thread : other # th => call[other].pc = "idle"
    BY DEF StageInv, Alone, Maintenance
  <2>3. /\ call \in [Thread -> Call]
        /\ enrolled \in [Key -> Version \union {NoVersion}]
    BY DEF StageInv, CallsInv, StoreOK
  \* Only the crash and the pruning end a call that stands before its pruning.
  <2>4. Crash \/ Prune(th)
    <3>1. ASSUME NEW other \in Thread, NewCall(other) PROVE FALSE
      <4>1. other # th => FALSE
        BY <2>3, <3>1 DEF NewCall, Remember, StartDrain, Forget, Repair, MayUse, MayMaintain, Goto
      <4>2. other = th => FALSE
        BY <3>1 DEF NewCall, Remember, StartDrain, Forget, Repair, MayUse, MayMaintain
      <4> QED
        BY <4>1, <4>2
    <3>2. ASSUME NEW other \in Thread, ThreadStep(other), other # th PROVE FALSE
      <4>1. call[other].pc = "idle"
        BY <2>2, <3>2
      <4> QED
        BY <3>2, <4>1 DEF ThreadStep, SessionFails, Density, ReadBack, Sign, Enroll, EnrollFails,
             Drain, Fetch, Retry, RetryFails, Delete, Untrace, ProbeRecall, ProbeRecognition,
             Visit, VisitDensity, VisitSign, VisitEnroll, RepairFails, Prune
    <3>3. ThreadStep(th) => Prune(th)
      BY DEF ThreadStep, SessionFails, Density, ReadBack, Sign, Enroll, EnrollFails,
             Drain, Fetch, Retry, RetryFails, Delete, Untrace, ProbeRecall, ProbeRecognition,
             Visit, VisitDensity, VisitSign, VisitEnroll, RepairFails
    <3> QED
      BY <3>1, <3>2, <3>3 DEF Next
  <2>5. CASE Crash
    BY <2>1, <2>5 DEF Crash, disk, Whole
  <2>6. CASE Prune(th)
    <3>1. PICK kept \in SUBSET (Key \ c.live) :
            /\ Cardinality(c.live) >= c.limit => kept = Key \ c.live
            /\ enrolled' = [k \in Key |-> IF k \in c.live \union kept THEN enrolled[k]
                                                                   ELSE NoVersion]
      BY <2>6 DEF Prune
    <3>2. \A k \in Live(row) : k \in Key /\ enrolled'[k] = enrolled[k]
      BY <2>1, <3>1 DEF Live
    <3>3. UNCHANGED row
      BY <2>6 DEF Prune
    <3> QED
      BY <2>1, <3>2, <3>3 DEF Whole
  <2> QED
    BY <2>4, <2>5, <2>6
<1> QED
  BY <1>1, Stages, PTL DEF Spec, RepairHeals
=============================================================================
