--------------------------- MODULE MemoryLifecycle ---------------------------
(***************************************************************************)
(* The life of a memory across two databases: memory.db holds the row,     *)
(* recognition.db what recognition knows of it and the enrolments that     *)
(* have to be retried.                                                     *)
(*                                                                         *)
(*   crates/spectral-graph/src/brain.rs      remember_with, forget,        *)
(*                 repair_derivations, drain_enrolment_retries             *)
(*   crates/spectral-recognition/src/store.rs   enrolled and pending rows  *)
(*   crates/spectral-ingest/src/sqlite_store.rs             memories rows  *)
(*                                                                         *)
(* No transaction spans both, so each of these calls is a sequence of      *)
(* steps: a step is one SQLite transaction, or one holding of the          *)
(* recognition lock.  Other threads run, stores fail and the process dies  *)
(* between them.  A memory's content is a version; its id is its key.      *)
(***************************************************************************)
EXTENDS Naturals, SequencesExt

CONSTANTS
  Thread, Key, Version,
  Batch,      \* ENROLMENT_RETRY_BATCH
  Limits,     \* the limits a host gives repair_derivations
  Exclusive   \* TRUE: the host runs forget and repair while nothing else runs

NoVersion == "no version"
NoKey == "no key"

ASSUME ConstantsOK ==
  /\ NoVersion \notin Version /\ NoKey \notin Key
  /\ Batch \in Nat \ {0} /\ Limits \subseteq Nat
  /\ Exclusive \in BOOLEAN

VARIABLES
  row,        \* row[k]: the memories row of k
  enrolled,   \* enrolled[k]: the content whose features are indexed for k
  pending,    \* recognition_pending, oldest failure first
  call,       \* the Brain method each thread is in
  forgotten,  \* history: keys reported fully forgotten, not written since
  derived     \* history: keys remembered without a warning, not forgotten since

disk == <<row, enrolled, pending>>
vars == <<disk, call, forgotten, derived>>

\* sig is the content the stored signature covers.
Row == [content : Version, dense : BOOLEAN, sig : Version \union {NoVersion}]
NoRow == [content |-> NoVersion, dense |-> FALSE, sig |-> NoVersion]
MaybeRow == Row \union {NoRow}

\* pc is the step a call stands before.  remember: version is its argument and
\* warned whether it has collected a warning; drain: todo is what it still has
\* to retry; forget: existed and warned are its report; repair: live is what it
\* listed, snap the listed rows it has not visited, limit the most it lists.
\* read is the content a call read last.
PC == {"idle", "density", "readback", "sign", "enroll", "drain", "fetch", "retry",
       "delete", "untrace", "probe_recall", "probe_recognition",
       "visit", "visit_density", "visit_sign", "visit_enroll", "prune"}
Call == [pc : PC, key : Key \union {NoKey},
         version : Version \union {NoVersion}, read : Version \union {NoVersion},
         warned : BOOLEAN, existed : BOOLEAN, todo : Seq(Key),
         snap : [Key -> MaybeRow], live : SUBSET Key, limit : Limits \union {0}]
NoRows == [k \in Key |-> NoRow]
Idle == [pc |-> "idle", key |-> NoKey, version |-> NoVersion, read |-> NoVersion,
         warned |-> FALSE, existed |-> FALSE, todo |-> <<>>, snap |-> NoRows,
         live |-> {}, limit |-> 0]

TypeOK ==
  /\ row \in [Key -> MaybeRow]
  /\ enrolled \in [Key -> Version \union {NoVersion}]
  /\ pending \in Seq(Key)
  /\ call \in [Thread -> Call]
  /\ forgotten \subseteq Key /\ derived \subseteq Key

Init ==
  /\ row = NoRows
  /\ enrolled = [k \in Key |-> NoVersion]
  /\ pending = <<>>
  /\ call = [th \in Thread |-> Idle]
  /\ forgotten = {} /\ derived = {}

-----------------------------------------------------------------------------
Live(rows) == {k \in Key : rows[k] # NoRow}
Listed(queue) == {queue[i] : i \in DOMAIN queue}

Goto(th, c) == call' = [call EXCEPT ![th] = c]
Step(th, pc) == Goto(th, [call[th] EXCEPT !.pc = pc])
Return(th) == Goto(th, Idle)
Warn(th, pc) == Goto(th, [call[th] EXCEPT !.pc = pc, !.warned = TRUE])

\* forget and repair are the calls a host may run alone.
Maintenance == {"delete", "untrace", "probe_recall", "probe_recognition",
                "visit", "visit_density", "visit_sign", "visit_enroll", "prune"}
MayUse(th) ==
  /\ call[th].pc = "idle"
  /\ Exclusive => \A other \in Thread : call[other].pc \notin Maintenance
MayMaintain(th) ==
  /\ call[th].pc = "idle"
  /\ Exclusive => \A other \in Thread : call[other].pc = "idle"

-----------------------------------------------------------------------------
(* Single statements on either database. *)

\* UPDATE memories ... WHERE id = ?: nothing to update when the row is gone.
SetDensity(k) ==
  row' = [row EXCEPT ![k] = IF @ = NoRow THEN @ ELSE [@ EXCEPT !.dense = TRUE]]
SetSignature(k, v) ==
  row' = [row EXCEPT ![k] = IF @ = NoRow THEN @ ELSE [@ EXCEPT !.sig = v]]

\* RecognitionEngine::enroll: what is enrolled is left as it is.
EnrollAs(k, v) == [enrolled EXCEPT ![k] = IF @ = NoVersion THEN v ELSE @]
\* INSERT OR IGNORE: a key waiting already keeps its place.
MarkPending_again(k) == Append(pending, k)
MarkPending(k) == IF k \in Listed(pending) THEN pending ELSE Append(pending, k)
\* DELETE of the one row of k.
ClearPending(k) == RemoveFirst(pending, k)

-----------------------------------------------------------------------------
(* remember_with. *)

\* The write: a new row, the same content (nothing), or new content in the row,
\* which keeps every other column.
Remember(th, k, v) ==
  /\ MayUse(th)
  /\ row' = [row EXCEPT ![k] =
       IF @ = NoRow THEN [content |-> v, dense |-> FALSE, sig |-> NoVersion]
                    ELSE [@ EXCEPT !.content = v]]
  /\ forgotten' = forgotten \ {k}
  /\ Goto(th, [Idle EXCEPT !.pc = "density", !.key = k, !.version = v])
  /\ UNCHANGED <<enrolled, pending, derived>>

\* The session could not be recorded: the call fails, the row stays.
SessionFails(th) ==
  /\ call[th].pc = "density"
  /\ Return(th)
  /\ UNCHANGED <<disk, forgotten, derived>>

Density(th) ==
  /\ call[th].pc = "density"
  /\ \/ SetDensity(call[th].key) /\ Step(th, "readback")
     \/ UNCHANGED row /\ Warn(th, "readback")
  /\ UNCHANGED <<enrolled, pending, forgotten, derived>>

\* The stored row is read back and what was read is signed.
ReadBack(th) ==
  LET r == row[call[th].key] IN
  /\ call[th].pc = "readback"
  /\ \/ r # NoRow /\ Goto(th, [call[th] EXCEPT !.pc = "sign", !.read = r.content])
     \/ Warn(th, "enroll")
  /\ UNCHANGED <<disk, forgotten, derived>>

Sign(th) ==
  LET c == [call[th] EXCEPT !.pc = "enroll", !.read = NoVersion] IN
  /\ call[th].pc = "sign"
  /\ \/ SetSignature(c.key, call[th].read) /\ Goto(th, c)
     \/ UNCHANGED row /\ Goto(th, [c EXCEPT !.warned = TRUE])
  /\ UNCHANGED <<enrolled, pending, forgotten, derived>>

\* The last derivation: without a warning so far the call reports none.
Enroll(th) ==
  LET c == call[th] IN
  /\ c.pc = "enroll"
  /\ enrolled' = EnrollAs(c.key, c.version)
  /\ derived' = IF ~c.warned /\ row[c.key] # NoRow THEN derived \union {c.key} ELSE derived
  /\ Goto(th, [Idle EXCEPT !.pc = "drain"])
  /\ UNCHANGED <<row, pending, forgotten>>

\* The enrolment fails and is queued, or cannot even be queued.
EnrollFails(th) ==
  /\ call[th].pc = "enroll"
  /\ pending' \in {pending, MarkPending(call[th].key)}
  /\ Goto(th, [Idle EXCEPT !.pc = "drain"])
  /\ UNCHANGED <<row, enrolled, forgotten, derived>>

-----------------------------------------------------------------------------
(* drain_enrolment_retries: on its own, or at the end of remember_with. *)

StartDrain(th) ==
  /\ MayUse(th)
  /\ Goto(th, [Idle EXCEPT !.pc = "drain"])
  /\ UNCHANGED <<disk, forgotten, derived>>

\* The oldest ids, or none when the queue is empty or cannot be read.
Drain_newest_first(th) ==
  /\ call[th].pc = "drain"
  /\ \/ /\ pending # <<>>
        /\ Goto(th, [call[th] EXCEPT !.pc = "fetch",
             !.todo = <<pending[Len(pending)]>>])
     \/ Return(th)
  /\ UNCHANGED <<disk, forgotten, derived>>
Drain(th) ==
  /\ call[th].pc = "drain"
  /\ \/ /\ pending # <<>>
        /\ Goto(th, [call[th] EXCEPT !.pc = "fetch",
             !.todo = SubSeq(pending, 1, IF Batch < Len(pending) THEN Batch ELSE Len(pending))])
     \/ Return(th)
  /\ UNCHANGED <<disk, forgotten, derived>>

\* On to the next id.
NextRetry(th) ==
  LET rest == Tail(call[th].todo) IN
  Goto(th, IF rest = <<>> THEN Idle ELSE [Idle EXCEPT !.pc = "fetch", !.todo = rest])

\* get_memory of the next id.
Fetch(th) ==
  /\ call[th].pc = "fetch"
  /\ \/ Goto(th, [call[th] EXCEPT !.pc = "retry", !.read = row[Head(call[th].todo)].content])
     \/ NextRetry(th)     \* the read failed
  /\ UNCHANGED <<disk, forgotten, derived>>

\* A memory that is gone leaves the queue; another is enrolled and then leaves
\* it, if that last statement succeeds.
Retry(th) ==
  LET k == Head(call[th].todo) IN
  /\ call[th].pc = "retry"
  /\ IF call[th].read = NoVersion THEN UNCHANGED enrolled
                                  ELSE enrolled' = EnrollAs(k, call[th].read)
  /\ pending' = ClearPending(k)
  /\ NextRetry(th)
  /\ UNCHANGED <<row, forgotten, derived>>

RetryFails(th) ==
  /\ call[th].pc = "retry"
  /\ enrolled' \in {enrolled, IF call[th].read = NoVersion THEN enrolled
                              ELSE EnrollAs(Head(call[th].todo), call[th].read)}
  /\ NextRetry(th)
  /\ UNCHANGED <<row, pending, forgotten, derived>>

-----------------------------------------------------------------------------
(* forget. *)

\* The content is read first, for the probes.
Forget(th, k) ==
  /\ MayMaintain(th)
  /\ Goto(th, [Idle EXCEPT !.pc = "delete", !.key = k,
                 !.read = row[k].content])
  /\ derived' = derived \ {k}
  /\ UNCHANGED <<disk, forgotten>>

Delete(th) ==
  LET k == call[th].key IN
  /\ call[th].pc = "delete"
  /\ \/ /\ row' = [row EXCEPT ![k] = NoRow]
        /\ Goto(th, [call[th] EXCEPT !.pc = "untrace", !.existed = row[k] # NoRow])
     \/ UNCHANGED row /\ Return(th)     \* the store failed
  /\ UNCHANGED <<enrolled, pending, forgotten, derived>>

\* RecognitionEngine::forget, whose failure is ignored here and left to the
\* probe.  The queue of retries is not touched.
Untrace(th) ==
  LET k == call[th].key IN
  /\ call[th].pc = "untrace"
  /\ enrolled' \in {enrolled, [enrolled EXCEPT ![k] = NoVersion]}
  /\ Step(th, "probe_recall")
  /\ UNCHANGED <<row, pending, forgotten, derived>>

\* fully_forgotten() of the report: the memory existed and no probe found it or
\* failed.  A key another thread has written again meanwhile is not forgotten.
Report(th, clear) ==
  LET k == call[th].key IN
  /\ Return(th)
  /\ forgotten' = IF call[th].existed /\ clear /\ row[k] = NoRow THEN forgotten \union {k}
                                                                 ELSE forgotten

\* Without content there is nothing to probe with; otherwise recall must not
\* find the row.
ProbeRecall(th) ==
  LET c == call[th]
      r == row[c.key]
  IN
  /\ c.pc = "probe_recall"
  /\ IF ~c.existed \/ c.read = NoVersion THEN Report(th, TRUE)
     ELSE /\ \/ (r # NoRow => r.content # c.read) /\ Step(th, "probe_recognition")
             \/ Warn(th, "probe_recognition")
          /\ UNCHANGED forgotten
  /\ UNCHANGED <<disk, derived>>

\* Neither a verdict nor an enrolment may name the key.
ProbeRecognition_skipped(th) ==
  /\ call[th].pc = "probe_recognition"
  /\ Report(th, ~call[th].warned)
  /\ UNCHANGED <<disk, derived>>
ProbeRecognition(th) ==
  LET c == call[th] IN
  /\ c.pc = "probe_recognition"
  /\ \E clear \in BOOLEAN :
       /\ clear => enrolled[c.key] = NoVersion /\ ~c.warned
       /\ Report(th, clear)
  /\ UNCHANGED <<disk, derived>>

-----------------------------------------------------------------------------
(* repair_derivations. *)

\* The listing: every row, or as many as the limit allows.
Repair(th, limit, listed) ==
  /\ MayMaintain(th)
  /\ listed \subseteq Live(row)
  /\ \/ listed = Live(row) /\ Cardinality(listed) <= limit
     \/ Cardinality(listed) = limit
  /\ Goto(th, [Idle EXCEPT !.pc = "visit", !.live = listed, !.limit = limit,
                 !.snap = [k \in Key |-> IF k \in listed THEN row[k] ELSE NoRow]])
  /\ UNCHANGED <<disk, forgotten, derived>>

\* Rows are visited by signal score, that is in any order.
Visit(th) ==
  /\ call[th].pc = "visit"
  /\ \/ \E k \in Live(call[th].snap) :
          Goto(th, [call[th] EXCEPT !.pc = "visit_density", !.key = k])
     \/ Live(call[th].snap) = {} /\ Step(th, "prune")
  /\ UNCHANGED <<disk, forgotten, derived>>

\* What the listing showed to be missing is set ...
VisitDensity(th) ==
  LET c == call[th] IN
  /\ c.pc = "visit_density"
  /\ IF c.snap[c.key].dense THEN UNCHANGED row ELSE SetDensity(c.key)
  /\ Step(th, "visit_sign")
  /\ UNCHANGED <<enrolled, pending, forgotten, derived>>

VisitSign(th) ==
  LET c == call[th]
      r == c.snap[c.key]
  IN
  /\ c.pc = "visit_sign"
  /\ IF r.sig = NoVersion THEN SetSignature(c.key, r.content) ELSE UNCHANGED row
  /\ Step(th, "visit_enroll")
  /\ UNCHANGED <<enrolled, pending, forgotten, derived>>

\* ... and the listed content is enrolled.
VisitEnroll_only_queued(th) ==
  LET c == call[th] IN
  /\ c.pc = "visit_enroll"
  /\ enrolled' = IF c.key \in Listed(pending)
                 THEN EnrollAs(c.key, c.snap[c.key].content) ELSE enrolled
  /\ Goto(th, [c EXCEPT !.pc = "visit", !.key = NoKey, !.snap[c.key] = NoRow])
  /\ UNCHANGED <<row, pending, forgotten, derived>>
VisitEnroll(th) ==
  LET c == call[th] IN
  /\ c.pc = "visit_enroll"
  /\ enrolled' = EnrollAs(c.key, c.snap[c.key].content)
  /\ Goto(th, [c EXCEPT !.pc = "visit", !.key = NoKey, !.snap[c.key] = NoRow])
  /\ UNCHANGED <<row, pending, forgotten, derived>>

\* Any failure up to here ends the repair.
RepairFails(th) ==
  /\ call[th].pc \in {"visit_density", "visit_sign", "visit_enroll"}
  /\ Return(th)
  /\ UNCHANGED <<disk, forgotten, derived>>

\* Enrolments of what was not listed go, if the listing was complete.
\* Failures leave some of them in place.
Prune_always(th) ==
  /\ call[th].pc = "prune"
  /\ \E kept \in SUBSET (Key \ call[th].live) :
       enrolled' = [k \in Key |-> IF k \in call[th].live \union kept THEN enrolled[k]
                                                                     ELSE NoVersion]
  /\ Return(th)
  /\ UNCHANGED <<row, pending, forgotten, derived>>
Prune(th) ==
  /\ call[th].pc = "prune"
  /\ \E kept \in SUBSET (Key \ call[th].live) :
       /\ Cardinality(call[th].live) >= call[th].limit => kept = Key \ call[th].live
       /\ enrolled' = [k \in Key |-> IF k \in call[th].live \union kept THEN enrolled[k]
                                                                        ELSE NoVersion]
  /\ Return(th)
  /\ UNCHANGED <<row, pending, forgotten, derived>>

-----------------------------------------------------------------------------
\* The process dies and restarts: the databases survive.
Crash ==
  /\ \E th \in Thread : call[th].pc # "idle"
  /\ call' = [th \in Thread |-> Idle]
  /\ UNCHANGED <<disk, forgotten, derived>>

ThreadStep(th) ==
  \/ SessionFails(th) \/ Density(th) \/ ReadBack(th) \/ Sign(th)
  \/ Enroll(th) \/ EnrollFails(th)
  \/ Drain(th) \/ Fetch(th) \/ Retry(th) \/ RetryFails(th)
  \/ Delete(th) \/ Untrace(th) \/ ProbeRecall(th) \/ ProbeRecognition(th)
  \/ Visit(th) \/ VisitDensity(th) \/ VisitSign(th) \/ VisitEnroll(th)
  \/ RepairFails(th) \/ Prune(th)

NewCall(th) ==
  \/ \E k \in Key, v \in Version : Remember(th, k, v)
  \/ StartDrain(th)
  \/ \E k \in Key : Forget(th, k)
  \/ \E limit \in Limits, listed \in SUBSET Key : Repair(th, limit, listed)

Next == Crash \/ \E th \in Thread : ThreadStep(th) \/ NewCall(th)

Spec == Init /\ [][Next]_vars

\* What a retry needs to succeed: the queue and the row can be read, the
\* enrolment and the clearing of the queue work.
DrainReads(th) == Drain(th) /\ call'[th].pc = "fetch"
FetchReads(th) == Fetch(th) /\ call'[th].pc = "retry"

\* The host keeps writing, a call that is running keeps running unless the
\* process dies, and a retry that keeps being tried does not fail every time.
Fairness ==
  \A th \in Thread :
    /\ WF_vars(ThreadStep(th))
    /\ SF_vars(StartDrain(th)) /\ SF_vars(DrainReads(th))
    /\ SF_vars(FetchReads(th)) /\ SF_vars(Retry(th))

FairSpec == Spec /\ Fairness

-----------------------------------------------------------------------------
(* Properties. *)

\* The types; no id waits twice in the retry queue (mark_pending ignores a
\* second failure); a retry in progress has ids left; a repair visits only what
\* it listed.
LifecycleInv ==
  /\ TypeOK
  /\ \A i, j \in DOMAIN pending : pending[i] = pending[j] => i = j
  /\ \A th \in Thread :
       /\ call[th].pc \in {"fetch", "retry"} => call[th].todo # <<>>
       /\ Live(call[th].snap) \subseteq call[th].live
       /\ call[th].pc \in {"visit_density", "visit_sign", "visit_enroll"} =>
            call[th].key \in Live(call[th].snap)

\* Once forget has reported a memory fully forgotten, neither recall nor
\* recognition can return it until it is written again: no retry of a queued
\* enrolment, no repair and no restart brings it back.
\* (docs/DELETION_GUARANTEES.md, D4; ForgetReport::fully_forgotten.)
ForgottenStaysForgotten ==
  \A k \in forgotten : row[k] = NoRow /\ enrolled[k] = NoVersion

\* A memory whose remember reported no derivation error is dense, signed and
\* enrolled, and stays so through edits that fail half way, crashes and repairs
\* (RememberResult::has_no_reported_derivation_error).
Whole(k) ==
  /\ row[k] # NoRow /\ row[k].dense /\ row[k].sig # NoVersion
  /\ enrolled[k] # NoVersion
DerivedIsRecognised == \A k \in derived : Whole(k)

\* A repair that reaches its end has made every memory it listed whole, whatever
\* failed or crashed before, and un-enrols no memory that still has a row
\* (repair_derivations; a truncated listing must not prune).
RepairHeals ==
  [][\A th \in Thread : call[th].pc = "prune" /\ call'[th].pc = "idle" =>
       /\ \A k \in call[th].live : Whole(k)'
       /\ \A k \in Live(row) : enrolled[k] # NoVersion => enrolled'[k] # NoVersion]_vars

\* Every queued enrolment leaves the queue, whatever is queued behind or before
\* it and however often the process dies: "the index converges without anyone
\* remembering to repair" (the comment in remember_with).
PendingDrains ==
  \A k \in Key : k \in Listed(pending) ~> k \notin Listed(pending)
=============================================================================
