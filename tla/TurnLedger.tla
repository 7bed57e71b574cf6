----------------------------- MODULE TurnLedger -----------------------------
(***************************************************************************)
(* The turn-outcome ledger: what an agent turn delivered, what became of   *)
(* it, and the credit it earned.                                           *)
(*                                                                         *)
(*   crates/spectral/src/turn.rs              turn, record_turn_outcome    *)
(*   crates/spectral-graph/src/brain.rs       deferred delivery, voids     *)
(*   crates/spectral-ingest/src/sqlite_store.rs    the ledger's tables     *)
(*                                                                         *)
(* A Brain is shared by threads.  A store method is one SQLite transaction *)
(* and so one step; a Brain method is several steps, and other threads,    *)
(* the spawned delivery writes and forget run between them.  call[th] is   *)
(* where thread th is inside a Brain method.                               *)
(***************************************************************************)
EXTENDS Naturals, Sequences, FiniteSets

CONSTANTS
  Thread, Turn, Memory,
  Negative,    \* the outcomes other than used that the host reports
  Modes,       \* values async_turn_delivery may have: a subset of BOOLEAN
  Exclusive,   \* TRUE: the host never lets two calls about one turn overlap
  MaxSignal,   \* increments after which signal_score is clamped at 1.0
  MaxQueue     \* bound: deferred voids enqueued and not yet drained

NoTurn == "no turn"

ASSUME ConstantsOK ==
  /\ NoTurn \notin Turn
  /\ Negative \subseteq {"wrong", "ignored"}
  /\ Modes \subseteq BOOLEAN
  /\ Exclusive \in BOOLEAN
  /\ MaxSignal \in Nat /\ MaxQueue \in Nat
  /\ IsFiniteSet(Turn)

VARIABLES
  async,      \* async_turn_delivery
  memories,   \* ids in the memories table
  signal,     \* signal_score, in increments of USED_REINFORCE_STRENGTH
  event,      \* turn_events: no row, or its committed_at / voided_at state
  outcome,    \* turn_members.outcome, "none" for no row
  write,      \* the delivery write of each turn
  pending,    \* keys of pending_turn_deliveries
  voidQueue,  \* pending_voids
  delivered,  \* the members each turn delivered, as its receipt lists them
  receipts,   \* turns whose receipt the host holds
  log,        \* used sets of the retrieval events logged for each turn
  call        \* the Brain method each thread is in

tables  == <<memories, signal, event, outcome, log>>
volatile == <<write, pending, voidQueue, delivered, receipts>>
vars == <<async, tables, volatile, call>>

Reported == {"used"} \union Negative           \* MemoryOutcome
Report == [Memory -> Reported \union {"silent"}]
NoReport == [m \in Memory |-> "silent"]
UsedIn(report) == {m \in Memory : report[m] = "used"}

\* pc is the step a method stands before; report, the outcomes being committed;
\* held, the delivery handles it took out of the map; todo, the voids it still
\* has to apply; flush, whether it is flush_turn_deliveries.
PC == {"idle", "deliver", "track", "commit", "log", "void", "voiding",
       "flush_take", "flush_await"}
Call == [pc : PC, turn : Turn \union {NoTurn}, report : Report,
         held : SUBSET Turn, todo : Seq(Turn), flush : BOOLEAN]
Idle == [pc |-> "idle", turn |-> NoTurn, report |-> NoReport,
         held |-> {}, todo |-> <<>>, flush |-> FALSE]

TypeOK ==
  /\ async \in Modes
  /\ memories \subseteq Memory
  /\ signal \in [Memory -> 0 .. MaxSignal]
  /\ event \in [Turn -> {"absent", "open", "committed", "voided"}]
  /\ outcome \in [Turn -> [Memory -> Reported \union {"none", "unreported"}]]
  /\ write \in [Turn -> {"none", "running", "done", "failed", "lost"}]
  /\ pending \subseteq Turn
  /\ voidQueue \in Seq(Turn)
  /\ delivered \in [Turn -> SUBSET Memory]
  /\ receipts \subseteq Turn
  /\ log \in [Turn -> SUBSET SUBSET Memory]
  /\ call \in [Thread -> Call]

Init ==
  /\ async \in Modes
  /\ memories = Memory
  /\ signal = [m \in Memory |-> 0]
  /\ event = [t \in Turn |-> "absent"]
  /\ outcome = [t \in Turn |-> [m \in Memory |-> "none"]]
  /\ write = [t \in Turn |-> "none"]
  /\ pending = {}
  /\ voidQueue = <<>>
  /\ delivered = [t \in Turn |-> {}]
  /\ receipts = {}
  /\ log = [t \in Turn |-> {}]
  /\ call = [th \in Thread |-> Idle]

-----------------------------------------------------------------------------
(* Threads, handles and what the host may overlap. *)

Goto(th, c) == call' = [call EXCEPT ![th] = c]
Return(th) == Goto(th, Idle)

Finished_ok(t) == write[t] = "done"
Finished(t) == write[t] \in {"done", "failed"}     \* JoinHandle::is_finished

\* The turns a call is about: a flush is about all of them.
Touches(c) ==
  IF c.pc = "idle" THEN {}
  ELSE IF c.flush THEN Turn
  ELSE ({c.turn} \ {NoTurn}) \union {c.todo[i] : i \in DOMAIN c.todo}

MayCall(th, turns) ==
  /\ call[th].pc = "idle"
  /\ Exclusive =>
       \A other \in Thread \ {th} : Touches(call[other]) \intersect turns = {}

Queued == {voidQueue[i] : i \in DOMAIN voidQueue}

-----------------------------------------------------------------------------
(* The delivery: Brain::turn and record_turn_delivery. *)

\* turn() retrieves.  Its occurrence id is new; what it delivers was in the
\* memories table when it read it.
Retrieve(th, t, hits) ==
  /\ MayCall(th, {t})
  /\ write[t] = "none" /\ \A other \in Thread : call[other].turn # t
  /\ hits \subseteq memories
  /\ delivered' = [delivered EXCEPT ![t] = hits]
  /\ Goto(th, [Idle EXCEPT !.pc = "deliver", !.turn = t])
  /\ UNCHANGED <<async, tables, write, pending, voidQueue, receipts>>

\* The ledger transaction: one turn_events row and a member row per hit, each
\* referring to a row of memories.
DeliveryTx(t) ==
  /\ delivered[t] \subseteq memories
  /\ event' = [event EXCEPT ![t] = IF @ = "absent" THEN "open" ELSE @]
  /\ outcome' = [outcome EXCEPT ![t] =
        [m \in Memory |-> IF m \in delivered[t] /\ @[m] = "none"
                            THEN "unreported" ELSE @[m]]]
  /\ write' = [write EXCEPT ![t] = "done"]

\* Synchronous mode: turn() blocks on the write and fails with it.
DeliverSync(th) ==
  LET t == call[th].turn IN
  /\ call[th].pc = "deliver" /\ ~async
  /\ DeliveryTx(t)
  /\ receipts' = receipts \union {t}
  /\ Return(th)
  /\ UNCHANGED <<async, memories, signal, log, pending, voidQueue, delivered>>

DeliverSyncFails(th) ==
  /\ call[th].pc = "deliver" /\ ~async
  /\ write' = [write EXCEPT ![call[th].turn] = "failed"]
  /\ Return(th)
  /\ UNCHANGED <<async, tables, pending, voidQueue, delivered, receipts>>

\* Asynchronous mode: spawn the write, then, under the map's lock, prune the
\* finished handles and insert the new one.  turn() returns its receipt.
SpawnDelivery(th) ==
  /\ call[th].pc = "deliver" /\ async
  /\ write' = [write EXCEPT ![call[th].turn] = "running"]
  /\ Goto(th, [call[th] EXCEPT !.pc = "track"])
  /\ UNCHANGED <<async, tables, pending, voidQueue, delivered, receipts>>

TrackDelivery(th) ==
  LET t == call[th].turn IN
  /\ call[th].pc = "track"
  /\ pending' = {p \in pending : ~Finished(p)} \union {t}
  /\ receipts' = receipts \union {t}
  /\ Return(th)
  /\ UNCHANGED <<async, tables, write, voidQueue, delivered>>

\* The spawned task.  It fails when a member was forgotten meanwhile (the row
\* would refer to no memory) or when SQLite fails.
WriteLands(t) ==
  /\ write[t] = "running"
  /\ DeliveryTx(t)
  /\ UNCHANGED <<async, memories, signal, log, pending, voidQueue, delivered,
                 receipts, call>>

WriteFails(t) ==
  /\ write[t] = "running"
  /\ write' = [write EXCEPT ![t] = "failed"]
  /\ UNCHANGED <<async, tables, pending, voidQueue, delivered, receipts, call>>

-----------------------------------------------------------------------------
(* The outcome: record_turn_outcome, commit_turn_outcomes, commit_outcome. *)

\* await_pending_delivery takes the turn's handle out of the map, if it is
\* there, and waits for that one.
TakeHandle(th, t, c) ==
  /\ Goto(th, [c EXCEPT !.turn = t, !.held = {t} \intersect pending])
  /\ pending' = pending \ {t}
HeldFinished_unchecked(th) == TRUE
HeldFinished(th) == \A t \in call[th].held : Finished(t)
HeldFailed(th) == \E t \in call[th].held : write[t] = "failed"

\* Outcomes are accepted only for members the receipt lists.
RecordOutcome(th, t, report) ==
  /\ MayCall(th, {t})
  /\ t \in receipts
  /\ \A m \in Memory : report[m] # "silent" => m \in delivered[t]
  /\ TakeHandle(th, t, [Idle EXCEPT !.pc = "commit", !.report = report])
  /\ UNCHANGED <<async, tables, write, voidQueue, delivered, receipts>>

Plus(n, k) == IF n + k > MaxSignal THEN MaxSignal ELSE n + k

\* One transaction: set the outcome of every reported member row, reinforce
\* the used ones, mark the turn committed.
LedgerCommit_unmarked(t, report) ==
  LET rows == {m \in Memory : report[m] # "silent" /\ outcome[t][m] # "none"} IN
  /\ outcome' = [outcome EXCEPT ![t] =
        [m \in Memory |-> IF m \in rows THEN report[m] ELSE @[m]]]
  /\ UNCHANGED <<signal, event>>
LedgerCommit(t, report) ==
  LET rows == {m \in Memory : report[m] # "silent" /\ outcome[t][m] # "none"} IN
  /\ outcome' = [outcome EXCEPT ![t] =
        [m \in Memory |-> IF m \in rows THEN report[m] ELSE @[m]]]
  /\ signal' = [m \in Memory |->
        IF m \in rows /\ report[m] = "used" THEN Plus(signal[m], 1) ELSE signal[m]]
  /\ event' = [event EXCEPT ![t] = IF @ = "absent" THEN @ ELSE "committed"]

\* A replayed commit changes nothing; a commit of a turn the ledger does not
\* know updates no row and still succeeds.
CommitTx_no_gate(th) ==
  LET t == call[th].turn IN
  /\ call[th].pc = "commit"
  /\ HeldFinished(th) /\ ~HeldFailed(th)
  /\ event[t] # "voided"
  /\ LedgerCommit(t, call[th].report)
  /\ Goto(th, [call[th] EXCEPT !.pc = "log", !.held = {}])
  /\ UNCHANGED <<async, memories, log, volatile>>
CommitTx(th) ==
  LET t == call[th].turn IN
  /\ call[th].pc = "commit"
  /\ HeldFinished(th) /\ ~HeldFailed(th)
  /\ event[t] # "voided"
  /\ IF event[t] = "committed" THEN UNCHANGED <<outcome, signal, event>>
                               ELSE LedgerCommit(t, call[th].report)
  /\ Goto(th, [call[th] EXCEPT !.pc = "log", !.held = {}])
  /\ UNCHANGED <<async, memories, log, volatile>>

\* The commit returns an error: the delivery it awaited failed, the turn is
\* voided, or SQLite fails.
CommitFails(th) ==
  /\ call[th].pc = "commit"
  /\ HeldFinished(th)
  /\ Return(th)
  /\ UNCHANGED <<async, tables, volatile>>

\* Then the used set is logged as a retrieval event and the call returns Ok.
LogEvent(th) ==
  LET t == call[th].turn IN
  /\ call[th].pc = "log"
  /\ log' = [log EXCEPT ![t] =
               @ \union {UsedIn(call[th].report) \intersect delivered[t]}]
  /\ Return(th)
  /\ UNCHANGED <<async, memories, signal, event, outcome, volatile>>

LogEventFails(th) ==
  /\ call[th].pc = "log"
  /\ Return(th)
  /\ UNCHANGED <<async, tables, volatile>>

-----------------------------------------------------------------------------
(* Voids and flushing. *)

VoidTurn(th, t) ==
  /\ MayCall(th, {t})
  /\ t \in receipts
  /\ Goto(th, [Idle EXCEPT !.pc = "void", !.todo = <<t>>])
  /\ UNCHANGED <<async, tables, volatile>>

\* For Drop guards: only enqueues.
void_turn_deferred(t) ==
  /\ t \in receipts
  /\ Len(voidQueue) < MaxQueue
  /\ voidQueue' = Append(voidQueue, t)
  /\ UNCHANGED <<async, tables, write, pending, delivered, receipts, call>>

drain_pending_voids(th) ==
  /\ voidQueue # <<>>
  /\ MayCall(th, Queued)
  /\ Goto(th, [Idle EXCEPT !.pc = "void", !.todo = voidQueue])
  /\ voidQueue' = <<>>
  /\ UNCHANGED <<async, tables, write, pending, delivered, receipts>>

\* flush_turn_deliveries drains the voids first, then takes the whole map.
Flush(th) ==
  /\ MayCall(th, Turn)
  /\ Goto(th, [Idle EXCEPT !.flush = TRUE, !.todo = voidQueue,
                 !.pc = IF voidQueue = <<>> THEN "flush_take" ELSE "void"])
  /\ voidQueue' = <<>>
  /\ UNCHANGED <<async, tables, write, pending, delivered, receipts>>

\* void_turn of the next id: take its handle ...
TakeVoid(th) ==
  /\ call[th].pc = "void"
  /\ TakeHandle(th, Head(call[th].todo), [call[th] EXCEPT !.pc = "voiding"])
  /\ UNCHANGED <<async, tables, write, voidQueue, delivered, receipts>>

\* ... and, when the write it awaited is through, go on to the next one.
VoidDone(th) ==
  LET rest == Tail(call[th].todo) IN
  Goto(th, IF rest # <<>>
             THEN [call[th] EXCEPT !.pc = "void", !.turn = NoTurn, !.held = {},
                                   !.todo = rest]
           ELSE IF call[th].flush
             THEN [Idle EXCEPT !.pc = "flush_take", !.flush = TRUE]
           ELSE Idle)

VoidTx_any(th) ==
  LET t == call[th].turn IN
  /\ call[th].pc = "voiding"
  /\ HeldFinished(th) /\ ~HeldFailed(th)
  /\ event[t] # "absent"
  /\ event' = [event EXCEPT ![t] = "voided"]
  /\ VoidDone(th)
  /\ UNCHANGED <<async, memories, signal, outcome, log, volatile>>
VoidTx(th) ==
  LET t == call[th].turn IN
  /\ call[th].pc = "voiding"
  /\ HeldFinished(th) /\ ~HeldFailed(th)
  /\ event[t] \in {"open", "voided"}
  /\ event' = [event EXCEPT ![t] = "voided"]
  /\ VoidDone(th)
  /\ UNCHANGED <<async, memories, signal, outcome, log, volatile>>

\* The awaited delivery failed, the turn is unknown or committed, or SQLite
\* fails: the error is collected and the next id is taken.
VoidFails(th) ==
  /\ call[th].pc = "voiding"
  /\ HeldFinished(th)
  /\ VoidDone(th)
  /\ UNCHANGED <<async, tables, volatile>>

FlushTake_forgets(th) ==
  /\ call[th].pc = "flush_take"
  /\ Goto(th, [call[th] EXCEPT !.pc = "flush_await", !.held = {}])
  /\ pending' = {}
  /\ UNCHANGED <<async, tables, write, voidQueue, delivered, receipts>>
FlushTake(th) ==
  /\ call[th].pc = "flush_take"
  /\ Goto(th, [call[th] EXCEPT !.pc = "flush_await", !.held = pending])
  /\ pending' = {}
  /\ UNCHANGED <<async, tables, write, voidQueue, delivered, receipts>>

FlushReturn(th) ==
  /\ call[th].pc = "flush_await"
  /\ HeldFinished(th)
  /\ Return(th)
  /\ UNCHANGED <<async, tables, volatile>>

-----------------------------------------------------------------------------
(* Evidence. *)

\* The turns counted for m: an aborted turn is no evidence at all.
Counted(m, outcomes) == {t \in Turn : event[t] # "voided" /\ outcome[t][m] \in outcomes}

memory_outcome_evidence(m) ==
  [delivered |-> Cardinality(Counted(m, Reported \union {"unreported"})),
   outcomes  |-> [o \in Reported \union {"unreported"} |-> Cardinality(Counted(m, {o}))]]

-----------------------------------------------------------------------------
(* The rest of the brain. *)

\* forget deletes the memory row, by cascade its ledger rows, and every
\* retrieval event that names it.
Forget(m) ==
  /\ m \in memories
  /\ memories' = memories \ {m}
  /\ signal' = [signal EXCEPT ![m] = 0]
  /\ outcome' = [t \in Turn |-> [outcome[t] EXCEPT ![m] = "none"]]
  /\ log' = [t \in Turn |-> {used \in log[t] : m \notin used}]
  /\ UNCHANGED <<async, event, volatile, call>>

\* The process dies and restarts: tables survive, everything else is gone.
Crash ==
  /\ write' = [t \in Turn |-> IF write[t] = "running" THEN "lost" ELSE write[t]]
  /\ pending' = {}
  /\ voidQueue' = <<>>
  /\ receipts' = {}
  /\ call' = [th \in Thread |-> Idle]
  /\ UNCHANGED <<async, tables, delivered>>

-----------------------------------------------------------------------------
ThreadStep(th) ==
  \/ DeliverSync(th) \/ DeliverSyncFails(th) \/ SpawnDelivery(th) \/ TrackDelivery(th)
  \/ CommitTx(th) \/ CommitFails(th) \/ LogEvent(th) \/ LogEventFails(th)
  \/ TakeVoid(th) \/ VoidTx(th) \/ VoidFails(th)
  \/ FlushTake(th) \/ FlushReturn(th)

NewCall(th) ==
  \/ \E t \in Turn, hits \in SUBSET Memory : Retrieve(th, t, hits)
  \/ \E t \in Turn, report \in Report : RecordOutcome(th, t, report)
  \/ \E t \in Turn : VoidTurn(th, t)
  \/ drain_pending_voids(th)
  \/ Flush(th)

WriteTask(t) == WriteLands(t) \/ WriteFails(t)

Next ==
  \/ \E th \in Thread : ThreadStep(th) \/ NewCall(th)
  \/ \E t \in Turn : WriteTask(t) \/ void_turn_deferred(t)
  \/ \E m \in Memory : Forget(m)
  \/ Crash

Spec == Init /\ [][Next]_vars

\* Threads run, and the runtime runs the tasks spawned on it.
FairSpec ==
  /\ Spec
  /\ \A th \in Thread : WF_vars(ThreadStep(th))
  /\ \A t \in Turn : WF_vars(WriteTask(t))
-----------------------------------------------------------------------------
(* Properties. *)

\* Each ledger row was written once, by the one delivery of its turn, and
\* carries an outcome exactly when its turn was committed (record_turn_delivery,
\* commit_turn_outcomes) ...
DeliveredOnce ==
  \A t \in Turn :
    /\ event[t] # "absent" <=> write[t] = "done"
    /\ \A m \in Memory :
         /\ outcome[t][m] # "none" => event[t] # "absent"
         /\ outcome[t][m] \in Reported => event[t] = "committed"

\* ... because one call alone knows a turn that is not yet delivered, and every
\* other call, queue or receipt names a turn whose write was begun.
CallsKnowTheirTurn ==
  /\ \A t \in receipts : write[t] # "none"
  /\ \A i \in DOMAIN voidQueue : write[voidQueue[i]] # "none"
  /\ \A th \in Thread :
       /\ call[th].pc = "deliver" =>
            /\ call[th].turn \in Turn /\ write[call[th].turn] = "none"
            /\ \A other \in Thread \ {th} : call[other].turn # call[th].turn
       /\ call[th].pc \in {"track", "commit", "log", "voiding"} =>
            call[th].turn \in Turn /\ write[call[th].turn] # "none"
       /\ call[th].pc \in {"void", "voiding"} => call[th].todo # <<>>
       /\ \A i \in DOMAIN call[th].todo : write[call[th].todo[i]] # "none"

\* The inductive invariant of the ledger.
LedgerInv == TypeOK /\ DeliveredOnce /\ CallsKnowTheirTurn

\* Evidence and credit agree: signal_score has grown once for every turn that
\* counts the memory as used, and for nothing else, whatever was replayed,
\* voided, forgotten or lost in a crash (commit_turn_outcomes: "the ledger and
\* the signal scores can never disagree").
CreditMatchesEvidence ==
  \A m \in Memory : signal[m] = Plus(0, memory_outcome_evidence(m).outcomes["used"])

\* Evidence, once adjudicated or retracted, stays that way: a committed turn is
\* never voided, a voided one never committed, and an adjudicated member keeps
\* its outcome until the memory is forgotten (turn.rs, void_turn).
AdjudicationIsFinal ==
  [][\A t \in Turn :
       event[t] \in {"committed", "voided"} =>
         /\ event'[t] = event[t]
         /\ \A m \in memories' : outcome'[t][m] = outcome[t][m]]_vars

\* A record_turn_outcome that returned Ok is in the ledger: "an adjudicated
\* outcome can never be lost, misordered, or applied to a missing delivery"
\* (deferred-delivery-prereg).  A delivery write that failed
\* leaves nothing to adjudicate.
AcknowledgedOutcomeIsDurable ==
  \A t \in Turn : log[t] # {} /\ write[t] # "failed" => event[t] = "committed"

\* When a flush returns no delivery is still in flight, so the ledger holds
\* every delivery that did not fail (flush_turn_deliveries: "Await every
\* in-flight deferred delivery write. Call before shutdown").
FlushDrains ==
  [][\A th \in Thread :
       (call[th].pc = "flush_await" /\ call'[th].pc = "idle") =>
         \A t \in Turn : write'[t] # "running"]_vars

\* No call waits for ever: each handle is awaited by the one call that took it.
CallsReturn == \A th \in Thread : call[th].pc # "idle" ~> call[th].pc = "idle"
=============================================================================
