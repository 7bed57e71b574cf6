-------------------------- MODULE TurnLedger_proofs --------------------------
(* The ledger invariant of TurnLedger holds whatever the threads, turns and *)
(* memories, and adjudication is final.                                     *)
EXTENDS TurnLedger, FiniteSetTheorems, TLAPS

\* The initial ledger is well formed.
LEMMA LedgerInitInv == Init => LedgerInv
<1> SUFFICES ASSUME Init PROVE LedgerInv
  OBVIOUS
<1> USE DEF Init
<1>1. NoReport \in Report
  BY DEF NoReport, Report, Reported
<1>2. Idle \in Call
  BY <1>1 DEF Idle, Call, PC
<1>3. TypeOK
  BY <1>2, ConstantsOK DEF TypeOK, Reported
<1>4. DeliveredOnce
  BY ConstantsOK DEF DeliveredOnce, Reported
<1>5. CallsKnowTheirTurn
  BY DEF CallsKnowTheirTurn, Idle
<1> QED
  BY <1>3, <1>4, <1>5 DEF LedgerInv

\* Updating fields of a call with values of their types gives a call.
LEMMA CallUpdate ==
  ASSUME NEW c \in Call, NEW pc \in PC, NEW held \in SUBSET Turn, NEW todo \in Seq(Turn),
         NEW turn \in Turn \union {NoTurn}
  PROVE  /\ [c EXCEPT !.pc = pc] \in Call
         /\ [c EXCEPT !.pc = pc, !.held = held] \in Call
         /\ [[c EXCEPT !.pc = pc] EXCEPT !.turn = turn, !.held = held] \in Call
         /\ [c EXCEPT !.pc = pc, !.turn = turn, !.held = held, !.todo = todo] \in Call
         /\ [c EXCEPT !.pc = pc, !.todo = todo] \in Call
BY DEF Call

\* Every step leaves the variables of the right type.
LEMMA TypeStep == LedgerInv /\ [Next]_vars => TypeOK'
<1> SUFFICES ASSUME LedgerInv, [Next]_vars PROVE TypeOK'
  OBVIOUS
<1> USE ConstantsOK DEF LedgerInv, TypeOK, tables, volatile
<1>0. Idle \in Call
  BY DEF Idle, Call, PC, NoReport, Report, Reported
<1>1. ASSUME NEW th \in Thread, NEW t \in Turn, NEW hits \in SUBSET Memory,
             Retrieve(th, t, hits)
      PROVE TypeOK'
  BY <1>0, <1>1 DEF Retrieve, Goto, Call, PC, Idle
<1>2. ASSUME NEW th \in Thread, DeliverSync(th) PROVE TypeOK'
  BY <1>0, <1>2 DEF DeliverSync, DeliveryTx, Return, Goto, CallsKnowTheirTurn
<1>3. ASSUME NEW th \in Thread, DeliverSyncFails(th) PROVE TypeOK'
  BY <1>0, <1>3 DEF DeliverSyncFails, Return, Goto
<1>4. ASSUME NEW th \in Thread, SpawnDelivery(th) PROVE TypeOK'
  <2>1. [call[th] EXCEPT !.pc = "track"] \in Call
    BY CallUpdate DEF PC
  <2> QED
    BY <1>4, <2>1 DEF SpawnDelivery, Goto
<1>5. ASSUME NEW th \in Thread, TrackDelivery(th) PROVE TypeOK'
  BY <1>0, <1>5 DEF TrackDelivery, Return, Goto, CallsKnowTheirTurn
<1>6. ASSUME NEW t \in Turn, WriteLands(t) PROVE TypeOK'
  BY <1>6 DEF WriteLands, DeliveryTx
<1>7. ASSUME NEW t \in Turn, WriteFails(t) PROVE TypeOK'
  BY <1>7 DEF WriteFails
<1>8. ASSUME NEW th \in Thread, NEW t \in Turn, NEW report \in Report,
             RecordOutcome(th, t, report)
      PROVE TypeOK'
  BY <1>0, <1>8 DEF RecordOutcome, TakeHandle, Goto, Call, PC, Idle
<1>9. ASSUME NEW th \in Thread, CommitTx(th) PROVE TypeOK'
  <2>1. [call[th] EXCEPT !.pc = "log", !.held = {}] \in Call
    BY CallUpdate DEF PC
  <2>2. call[th].report \in Report /\ call[th].turn \in Turn
    BY <1>9 DEF CommitTx, CallsKnowTheirTurn, Call
  <2>3. ASSUME LedgerCommit(call[th].turn, call[th].report)
        PROVE outcome' \in [Turn -> [Memory -> Reported \union {"none", "unreported"}]]
    BY <2>2, <2>3 DEF LedgerCommit, Report
  <2>4. ASSUME LedgerCommit(call[th].turn, call[th].report)
        PROVE signal' \in [Memory -> 0 .. MaxSignal] /\ event' \in [Turn -> {"absent", "open", "committed", "voided"}]
    BY <2>2, <2>4 DEF LedgerCommit, Plus
  <2> QED
    BY <1>9, <2>1, <2>3, <2>4 DEF CommitTx, Goto
<1>10. ASSUME NEW th \in Thread, CommitFails(th) PROVE TypeOK'
  BY <1>0, <1>10 DEF CommitFails, Return, Goto
<1>11. ASSUME NEW th \in Thread, LogEvent(th) PROVE TypeOK'
  BY <1>0, <1>11 DEF LogEvent, Return, Goto, UsedIn, CallsKnowTheirTurn
<1>12. ASSUME NEW th \in Thread, LogEventFails(th) PROVE TypeOK'
  BY <1>0, <1>12 DEF LogEventFails, Return, Goto
<1>13. ASSUME NEW th \in Thread, NEW t \in Turn, VoidTurn(th, t) PROVE TypeOK'
  <2>1. <<t>> \in Seq(Turn) /\ "void" \in PC
    BY DEF PC
  <2>2. [Idle EXCEPT !.pc = "void", !.todo = <<t>>] \in Call
    BY <1>0, <2>1, CallUpdate
  <2> QED
    BY <1>13, <2>2 DEF VoidTurn, Goto
<1>14. ASSUME NEW t \in Turn, void_turn_deferred(t) PROVE TypeOK'
  BY <1>14 DEF void_turn_deferred
<1>15. ASSUME NEW th \in Thread, drain_pending_voids(th) PROVE TypeOK'
  BY <1>0, <1>15 DEF drain_pending_voids, Goto, Call, PC, Idle
<1>16. ASSUME NEW th \in Thread, Flush(th) PROVE TypeOK'
  BY <1>0, <1>16 DEF Flush, Goto, Call, PC, Idle
<1>17. ASSUME NEW th \in Thread, TakeVoid(th) PROVE TypeOK'
  <2> DEFINE t == Head(call[th].todo)
  <2>1. call[th].todo \in Seq(Turn) /\ call[th].todo # <<>>
    BY <1>17 DEF TakeVoid, CallsKnowTheirTurn, Call
  <2>2. t \in Turn /\ "voiding" \in PC /\ {t} \intersect pending \in SUBSET Turn
    BY <2>1 DEF PC
  <2>3. [[call[th] EXCEPT !.pc = "voiding"] EXCEPT !.turn = t, !.held = {t} \intersect pending] \in Call
    BY <2>2, CallUpdate
  <2> QED
    BY <1>17, <2>3 DEF TakeVoid, TakeHandle, Goto
<1>18. ASSUME NEW th \in Thread, call[th].pc = "voiding", VoidDone(th)
       PROVE call' \in [Thread -> Call]
  <2> DEFINE rest == Tail(call[th].todo)
  <2>1. rest \in Seq(Turn)
    BY <1>18 DEF CallsKnowTheirTurn, Call
  <2>2. "void" \in PC /\ NoTurn \in Turn \union {NoTurn} /\ {} \in SUBSET Turn
    BY DEF PC
  <2>3. [call[th] EXCEPT !.pc = "void", !.turn = NoTurn, !.held = {}, !.todo = rest] \in Call
    BY <2>1, <2>2, CallUpdate
  <2>4. [Idle EXCEPT !.pc = "flush_take", !.flush = TRUE] \in Call
    BY <1>0 DEF Call, PC, Idle
  <2> QED
    BY <1>0, <1>18, <2>3, <2>4 DEF VoidDone, Goto
<1>19. ASSUME NEW th \in Thread, VoidTx(th) PROVE TypeOK'
  BY <1>18, <1>19 DEF VoidTx
<1>20. ASSUME NEW th \in Thread, VoidFails(th) PROVE TypeOK'
  BY <1>18, <1>20 DEF VoidFails
<1>21. ASSUME NEW th \in Thread, FlushTake(th) PROVE TypeOK'
  <2>1. [call[th] EXCEPT !.pc = "flush_await", !.held = pending] \in Call
    BY CallUpdate DEF PC
  <2> QED
    BY <1>21, <2>1 DEF FlushTake, Goto
<1>22. ASSUME NEW th \in Thread, FlushReturn(th) PROVE TypeOK'
  BY <1>0, <1>22 DEF FlushReturn, Return, Goto
<1>23. ASSUME NEW m \in Memory, Forget(m) PROVE TypeOK'
  BY <1>23 DEF Forget
<1>24. ASSUME Crash PROVE TypeOK'
  BY <1>0, <1>24 DEF Crash
<1>25. ASSUME UNCHANGED vars PROVE TypeOK'
  BY <1>25 DEF vars
<1> QED
  BY <1>1, <1>2, <1>3, <1>4, <1>5, <1>6, <1>7, <1>8, <1>9, <1>10, <1>11, <1>12,
     <1>13, <1>14, <1>15, <1>16, <1>17, <1>19, <1>20, <1>21, <1>22, <1>23, <1>24,
     <1>25 DEF Next, ThreadStep, NewCall, WriteTask

\* The one delivery of a turn writes its rows, the one commit their outcomes.
LEMMA RowsStep == LedgerInv /\ [Next]_vars => DeliveredOnce'
<1> SUFFICES ASSUME LedgerInv, [Next]_vars PROVE DeliveredOnce'
  OBVIOUS
<1> USE ConstantsOK DEF LedgerInv, TypeOK, DeliveredOnce, Reported, tables, volatile
<1>1. ASSUME NEW t \in Turn, write[t] # "done", DeliveryTx(t) PROVE DeliveredOnce'
  BY <1>1 DEF DeliveryTx
<1>2. ASSUME NEW t \in Turn, write[t] # "done", NEW st \in {"failed", "running"},
             write' = [write EXCEPT ![t] = st], UNCHANGED <<event, outcome>>
      PROVE  DeliveredOnce'
  BY <1>2
<1>3. ASSUME NEW th \in Thread, DeliverSync(th) \/ DeliverSyncFails(th) \/ SpawnDelivery(th)
      PROVE  DeliveredOnce'
  <2>1. call[th].turn \in Turn /\ write[call[th].turn] = "none"
    BY <1>3 DEF DeliverSync, DeliverSyncFails, SpawnDelivery, CallsKnowTheirTurn
  <2> QED
    BY <1>1, <1>2, <1>3, <2>1 DEF DeliverSync, DeliverSyncFails, SpawnDelivery
<1>4. ASSUME NEW t \in Turn, WriteTask(t) PROVE DeliveredOnce'
  BY <1>1, <1>2, <1>4 DEF WriteTask, WriteLands, WriteFails
<1>5. ASSUME NEW th \in Thread, CommitTx(th) PROVE DeliveredOnce'
  <2> DEFINE t == call[th].turn
             report == call[th].report
  <2>1. t \in Turn /\ report \in Report
    BY <1>5 DEF CommitTx, CallsKnowTheirTurn, Call
  <2>2. CASE LedgerCommit(t, report)
    BY <1>5, <2>1, <2>2 DEF CommitTx, LedgerCommit, Report
  <2>3. CASE UNCHANGED <<outcome, signal, event>>
    BY <1>5, <2>3 DEF CommitTx
  <2> QED
    BY <1>5, <2>2, <2>3 DEF CommitTx
<1>6. ASSUME NEW th \in Thread, VoidTx(th) PROVE DeliveredOnce'
  BY <1>6 DEF VoidTx
<1>7. ASSUME NEW m \in Memory, Forget(m) PROVE DeliveredOnce'
  BY <1>7 DEF Forget
<1>8. ASSUME Crash PROVE DeliveredOnce'
  BY <1>8 DEF Crash
<1>9. ASSUME UNCHANGED <<event, outcome, write>> PROVE DeliveredOnce'
  BY <1>9
<1> QED
  BY <1>3, <1>4, <1>5, <1>6, <1>7, <1>8, <1>9
  DEF Next, ThreadStep, NewCall, vars, Retrieve, TrackDelivery, RecordOutcome, TakeHandle,
      CommitFails, LogEvent, LogEventFails, VoidTurn, void_turn_deferred,
      drain_pending_voids, Flush, TakeVoid, VoidFails, FlushTake, FlushReturn

\* Where every call, queue and receipt stands with its turn.
LEMMA CallsStep == LedgerInv /\ [Next]_vars => CallsKnowTheirTurn'
<1> SUFFICES ASSUME LedgerInv, [Next]_vars PROVE CallsKnowTheirTurn'
  OBVIOUS
<1> USE ConstantsOK DEF LedgerInv, TypeOK, CallsKnowTheirTurn, tables, volatile
<1>a. \A t \in Turn : DeliveryTx(t) => write' = [write EXCEPT ![t] = "done"]
  BY DEF DeliveryTx
<1>b. ASSUME NEW th \in Thread, Return(th), UNCHANGED <<write, voidQueue, receipts>>
      PROVE  CallsKnowTheirTurn'
  BY <1>b DEF Return, Goto, Idle
<1>1. ASSUME NEW th \in Thread, NEW t \in Turn, NEW hits \in SUBSET Memory,
             Retrieve(th, t, hits)
      PROVE CallsKnowTheirTurn'
  BY <1>1 DEF Retrieve, MayCall, Goto, Idle
<1>2. ASSUME NEW th \in Thread, DeliverSync(th) PROVE CallsKnowTheirTurn'
  <2> DEFINE t == call[th].turn
  <2>1. t \in Turn /\ write' = [write EXCEPT ![t] = "done"]
    BY <1>2, <1>a DEF DeliverSync
  <2>2. call' = [call EXCEPT ![th] = Idle] /\ receipts' = receipts \union {t} /\ voidQueue' = voidQueue
    BY <1>2 DEF DeliverSync, Return, Goto
  <2> QED
    BY <1>2, <2>1, <2>2 DEF DeliverSync, Idle
<1>3. ASSUME NEW th \in Thread, DeliverSyncFails(th) PROVE CallsKnowTheirTurn'
  BY <1>3 DEF DeliverSyncFails, Return, Goto, Idle
<1>4. ASSUME NEW th \in Thread, SpawnDelivery(th) PROVE CallsKnowTheirTurn'
  BY <1>4 DEF SpawnDelivery, Goto, Call
<1>5. ASSUME NEW th \in Thread, TrackDelivery(th) PROVE CallsKnowTheirTurn'
  BY <1>5 DEF TrackDelivery, Return, Goto, Idle
<1>6. ASSUME NEW t \in Turn, WriteTask(t) PROVE CallsKnowTheirTurn'
  <2>1. /\ write[t] = "running" /\ UNCHANGED <<call, receipts, voidQueue>>
        /\ \E st \in {"done", "failed"} : write' = [write EXCEPT ![t] = st]
    BY <1>6, <1>a DEF WriteTask, WriteLands, WriteFails
  <2> QED
    BY <2>1
<1>7. ASSUME NEW th \in Thread, NEW t \in Turn, NEW report \in Report,
             RecordOutcome(th, t, report)
      PROVE CallsKnowTheirTurn'
  BY <1>7 DEF RecordOutcome, TakeHandle, Goto, Idle
<1>8. ASSUME NEW th \in Thread, CommitTx(th) PROVE CallsKnowTheirTurn'
  BY <1>8 DEF CommitTx, Goto, Call
<1>9. ASSUME NEW th \in Thread,
             CommitFails(th) \/ LogEvent(th) \/ LogEventFails(th) \/ FlushReturn(th)
      PROVE CallsKnowTheirTurn'
  BY <1>9, <1>b DEF CommitFails, LogEvent, LogEventFails, FlushReturn
<1>10. ASSUME NEW th \in Thread, NEW t \in Turn, VoidTurn(th, t) PROVE CallsKnowTheirTurn'
  BY <1>10 DEF VoidTurn, Goto, Idle
<1>11. ASSUME NEW t \in Turn, void_turn_deferred(t) PROVE CallsKnowTheirTurn'
  BY <1>11 DEF void_turn_deferred
<1>12. ASSUME NEW th \in Thread, drain_pending_voids(th) PROVE CallsKnowTheirTurn'
  BY <1>12 DEF drain_pending_voids, Goto, Idle
<1>13. ASSUME NEW th \in Thread, Flush(th) PROVE CallsKnowTheirTurn'
  BY <1>13 DEF Flush, Goto, Idle
<1>14. ASSUME NEW th \in Thread, TakeVoid(th) PROVE CallsKnowTheirTurn'
  BY <1>14 DEF TakeVoid, TakeHandle, Goto, Call
<1>15. ASSUME NEW th \in Thread, VoidTx(th) \/ VoidFails(th) PROVE CallsKnowTheirTurn'
  <2> DEFINE todo == call[th].todo
  <2>1. /\ todo \in Seq(Turn) /\ todo # <<>> /\ \A i \in DOMAIN todo : write[todo[i]] # "none"
        /\ VoidDone(th) /\ UNCHANGED <<write, receipts, voidQueue>>
    BY <1>15 DEF VoidTx, VoidFails, Call
  <2>2. Tail(todo) \in Seq(Turn) /\ \A i \in DOMAIN Tail(todo) : Tail(todo)[i] = todo[i + 1] /\ i + 1 \in DOMAIN todo
    BY <2>1
  <2>3. CASE Tail(todo) # <<>>
    <3> DEFINE c == [call[th] EXCEPT !.pc = "void", !.turn = NoTurn, !.held = {}, !.todo = Tail(todo)]
    <3>1. c.pc = "void" /\ c.turn = NoTurn /\ c.todo = Tail(todo)
      BY DEF Call
    <3>2. call' = [call EXCEPT ![th] = c]
      BY <2>1, <2>3 DEF VoidDone, Goto
    <3> HIDE DEF c
    <3>3. \A o \in Thread : call'[o] = IF o = th THEN c ELSE call[o]
      BY <3>2
    <3>4. \A i \in DOMAIN c.todo : write[c.todo[i]] # "none"
      BY <2>1, <2>2, <3>1
    <3>5. c.todo # <<>>
      BY <2>3, <3>1
    <3> HIDE DEF todo
    <3>6. ASSUME NEW o \in Thread, o # th, call[o].pc = "deliver"
          PROVE  \A other \in Thread \ {o} : call'[other].turn # call'[o].turn
      <4>1. call[o].turn \in Turn /\ \A other \in Thread \ {o} : call[other].turn # call[o].turn
        BY <3>6
      <4> HIDE DEF LedgerInv
      <4> QED
        BY <3>1, <3>3, <3>6, <4>1
    <3>7. ASSUME NEW o \in Thread, o # th
          PROVE  /\ call[o].pc \in {"track", "commit", "log", "voiding"} =>
                      call[o].turn \in Turn /\ write[call[o].turn] # "none"
                 /\ call[o].pc = "deliver" => call[o].turn \in Turn /\ write[call[o].turn] = "none"
                 /\ call[o].pc \in {"void", "voiding"} => call[o].todo # <<>>
                 /\ \A i \in DOMAIN call[o].todo : write[call[o].todo[i]] # "none"
      BY <3>7
    <3>8. /\ \A t \in receipts : write[t] # "none"
          /\ \A i \in DOMAIN voidQueue : write[voidQueue[i]] # "none"
      OBVIOUS
    <3>9. write' = write /\ receipts' = receipts /\ voidQueue' = voidQueue
      BY <2>1
    <3> HIDE DEF LedgerInv
    <3>10. call'[th] = c /\ \A o \in Thread \ {th} : call'[o] = call[o]
      BY <3>3
    <3> QED
      BY <3>1, <3>4, <3>5, <3>6, <3>7, <3>8, <3>9, <3>10
  <2>4. CASE Tail(todo) = <<>>
    <3>1. CASE call[th].flush
      BY <2>1, <2>4, <3>1 DEF VoidDone, Goto, Idle
    <3>2. CASE ~call[th].flush
      BY <2>1, <2>4, <3>2 DEF VoidDone, Goto, Idle
    <3> QED
      BY <3>1, <3>2
  <2> QED
    BY <2>3, <2>4
<1>16. ASSUME NEW th \in Thread, FlushTake(th) PROVE CallsKnowTheirTurn'
  BY <1>16 DEF FlushTake, Goto, Call
<1>17. ASSUME NEW m \in Memory, Forget(m) PROVE CallsKnowTheirTurn'
  BY <1>17 DEF Forget
<1>18. ASSUME Crash PROVE CallsKnowTheirTurn'
  BY <1>18 DEF Crash, Idle
<1>19. ASSUME UNCHANGED vars PROVE CallsKnowTheirTurn'
  BY <1>19 DEF vars
<1> QED
  BY <1>1, <1>2, <1>3, <1>4, <1>5, <1>6, <1>7, <1>8, <1>9, <1>10, <1>11, <1>12,
     <1>13, <1>14, <1>15, <1>16, <1>17, <1>18, <1>19 DEF Next, ThreadStep, NewCall

-----------------------------------------------------------------------------
\* The ledger's tables and the calls at work on them are well formed in every
\* reachable state (record_turn_delivery, commit_turn_outcomes, void_turn).
THEOREM LedgerSafety == Spec => []LedgerInv
<1>1. LedgerInv /\ [Next]_vars => LedgerInv'
  BY TypeStep, RowsStep, CallsStep DEF LedgerInv
<1> QED
  BY LedgerInitInv, <1>1, PTL DEF Spec

\* Nothing the brain does, retries, forgets or loses in a crash reopens an
\* adjudicated or a voided turn (commit_turn_outcomes, void_turn).
THEOREM Adjudication == Spec => AdjudicationIsFinal
<1> DEFINE Final == \A t \in Turn :
       event[t] \in {"committed", "voided"} =>
         /\ event'[t] = event[t]
         /\ \A m \in memories' : outcome'[t][m] = outcome[t][m]
<1>1. LedgerInv /\ [Next]_vars => [Final]_vars
  <2> SUFFICES ASSUME LedgerInv, Next PROVE Final
    BY DEF vars
  <2> USE DEF LedgerInv, TypeOK, DeliveredOnce, tables, volatile
  <2>1. ASSUME NEW t \in Turn, write[t] # "done", DeliveryTx(t), UNCHANGED memories PROVE Final
    BY <2>1 DEF DeliveryTx
  <2>2. ASSUME NEW th \in Thread, DeliverSync(th) PROVE Final
    BY <2>1, <2>2 DEF DeliverSync, CallsKnowTheirTurn
  <2>3. ASSUME NEW t \in Turn, WriteLands(t) PROVE Final
    BY <2>1, <2>3 DEF WriteLands
  <2>4. ASSUME NEW th \in Thread, CommitTx(th) PROVE Final
    <3>1. call[th].turn \in Turn
      BY <2>4 DEF CommitTx, CallsKnowTheirTurn
    <3> QED
      BY <2>4, <3>1 DEF CommitTx, LedgerCommit
  <2>5. ASSUME NEW th \in Thread, VoidTx(th) PROVE Final
    BY <2>5 DEF VoidTx, CallsKnowTheirTurn
  <2>6. ASSUME NEW m \in Memory, Forget(m) PROVE Final
    BY <2>6 DEF Forget
  <2>7. ASSUME UNCHANGED <<event, outcome>> PROVE Final
    BY <2>7
  <2> QED
    BY <2>2, <2>3, <2>4, <2>5, <2>6, <2>7
    DEF Next, ThreadStep, NewCall, WriteTask, Retrieve, DeliverSyncFails, SpawnDelivery,
        TrackDelivery, WriteFails, RecordOutcome, CommitFails, LogEvent, LogEventFails,
        VoidTurn, void_turn_deferred, drain_pending_voids, Flush, TakeVoid, VoidFails,
        FlushTake, FlushReturn, Crash
<1> QED
  BY LedgerSafety, <1>1, PTL DEF Spec, AdjudicationIsFinal

-----------------------------------------------------------------------------
\* The turns that count a memory as used, and its score agreeing with them.
UsedTurns(m) == Counted(m, {"used"})
Agrees(m) == signal[m] = Plus(0, Cardinality(UsedTurns(m)))

\* The evidence query counts exactly the UsedTurns of each memory.
LEMMA EvidenceIsUsedTurns == CreditMatchesEvidence <=> \A m \in Memory : Agrees(m)
BY DEF CreditMatchesEvidence, Agrees, UsedTurns, memory_outcome_evidence, Reported

\* The clamp loses nothing: one more turn is one more increment.
LEMMA ClampAdds ==
  ASSUME NEW k \in Nat PROVE Plus(Plus(0, k), 1) = Plus(0, k + 1)
BY ConstantsOK DEF Plus

\* Finitely many turns count a memory.
LEMMA UsedTurnsFinite ==
  ASSUME NEW m PROVE IsFiniteSet(UsedTurns(m)) /\ Cardinality(UsedTurns(m)) \in Nat
<1>1. UsedTurns(m) \subseteq Turn
  BY DEF UsedTurns, Counted
<1> QED
  BY <1>1, ConstantsOK, FS_Subset, FS_CardinalityType

\* A step that changes neither the counted turns nor the score.
LEMMA Unmoved ==
  ASSUME NEW m \in Memory, Agrees(m), signal'[m] = signal[m],
         \A t \in Turn : (event'[t] # "voided" /\ outcome'[t][m] = "used")
                           <=> (event[t] # "voided" /\ outcome[t][m] = "used")
  PROVE  Agrees(m)'
<1>1. UsedTurns(m)' = UsedTurns(m)
  BY DEF UsedTurns, Counted
<1> QED
  BY <1>1 DEF Agrees

\* The one commit of a turn moves evidence and score together.
LEMMA CommitAgrees ==
  ASSUME LedgerInv, NEW th \in Thread, CommitTx(th), NEW m \in Memory, Agrees(m)
  PROVE  Agrees(m)'
<1> DEFINE t == call[th].turn
           report == call[th].report
<1> USE DEF LedgerInv, TypeOK
<1>1. t \in Turn /\ report \in Report
  BY DEF CommitTx, CallsKnowTheirTurn, Call
<1>2. CASE UNCHANGED <<outcome, signal, event>>
  BY <1>2, Unmoved
<1>3. CASE event[t] # "committed" /\ LedgerCommit(t, report)
  <2>1. /\ outcome[t][m] \notin Reported
        /\ event[t] # "voided"
        /\ outcome[t][m] # "none" => event[t] # "absent"
    BY <1>1, <1>3 DEF CommitTx, DeliveredOnce
  <2>2. CASE report[m] = "used" /\ outcome[t][m] # "none"
    <3>1. t \notin UsedTurns(m)
      BY <2>1 DEF UsedTurns, Counted, Reported
    <3>2. UsedTurns(m)' = UsedTurns(m) \union {t}
      BY <1>1, <1>3, <2>1, <2>2 DEF UsedTurns, Counted, LedgerCommit
    <3>3. Cardinality(UsedTurns(m)') = Cardinality(UsedTurns(m)) + 1
      BY <3>1, <3>2, UsedTurnsFinite, FS_AddElement
    <3>4. signal'[m] = Plus(signal[m], 1)
      BY <1>1, <1>3, <2>2 DEF LedgerCommit
    <3> QED
      BY <3>3, <3>4, UsedTurnsFinite, ClampAdds DEF Agrees
  <2>3. CASE ~(report[m] = "used" /\ outcome[t][m] # "none")
    <3>1. signal'[m] = signal[m]
      BY <1>1, <1>3, <2>3 DEF LedgerCommit
    <3>2. outcome'[t][m] # "used" /\ outcome[t][m] # "used"
      BY <1>1, <1>3, <2>1, <2>3 DEF LedgerCommit, Reported, Report
    <3>3. \A u \in Turn \ {t} : event'[u] = event[u] /\ outcome'[u][m] = outcome[u][m]
      BY <1>1, <1>3 DEF LedgerCommit
    <3> QED
      BY <3>1, <3>2, <3>3, Unmoved
  <2> QED
    BY <2>2, <2>3
<1> QED
  BY <1>2, <1>3 DEF CommitTx

\* No turn has run and nothing is credited.
LEMMA EvidenceInit == Init => CreditMatchesEvidence
<1> SUFFICES ASSUME Init, NEW m \in Memory PROVE Agrees(m)
  BY EvidenceIsUsedTurns
<1>1. UsedTurns(m) = {}
  BY DEF Init, UsedTurns, Counted
<1> QED
  BY <1>1, FS_EmptySet, ConstantsOK DEF Agrees, Init, Plus

\* Delivery, commit, void and forget move evidence and score together or not at
\* all; no other step moves either.
LEMMA EvidenceStep ==
  LedgerInv /\ CreditMatchesEvidence /\ [Next]_vars => CreditMatchesEvidence'
<1> SUFFICES ASSUME LedgerInv, [Next]_vars, NEW m \in Memory, Agrees(m) PROVE Agrees(m)'
  BY EvidenceIsUsedTurns DEF CreditMatchesEvidence, Agrees, UsedTurns, memory_outcome_evidence, Counted, Reported
<1> USE DEF LedgerInv, TypeOK, tables, volatile
<1>1. ASSUME NEW t \in Turn, write[t] # "done", DeliveryTx(t), signal' = signal
      PROVE  Agrees(m)'
  <2>1. event[t] = "absent" /\ outcome[t][m] = "none"
    BY <1>1 DEF DeliveredOnce
  <2>2. \A u \in Turn : (event'[u] # "voided" /\ outcome'[u][m] = "used")
                          <=> (event[u] # "voided" /\ outcome[u][m] = "used")
    BY <1>1, <2>1 DEF DeliveryTx
  <2> QED
    BY <1>1, <2>2, Unmoved
<1>2. ASSUME NEW th \in Thread, DeliverSync(th) PROVE Agrees(m)'
  BY <1>1, <1>2 DEF DeliverSync, CallsKnowTheirTurn
<1>3. ASSUME NEW t \in Turn, WriteLands(t) PROVE Agrees(m)'
  BY <1>1, <1>3 DEF WriteLands
<1>4. ASSUME NEW th \in Thread, CommitTx(th) PROVE Agrees(m)'
  BY <1>4, CommitAgrees
<1>5. ASSUME NEW th \in Thread, VoidTx(th) PROVE Agrees(m)'
  <2> DEFINE t == call[th].turn
  <2>1. /\ t \in Turn /\ event[t] \in {"open", "voided"} /\ event' = [event EXCEPT ![t] = "voided"]
        /\ UNCHANGED <<signal, outcome>>
    BY <1>5 DEF VoidTx, CallsKnowTheirTurn
  <2>2. outcome[t][m] # "used"
    BY <2>1 DEF DeliveredOnce, Reported
  <2> QED
    BY <2>1, <2>2, Unmoved
<1>6. ASSUME NEW f \in Memory, Forget(f) PROVE Agrees(m)'
  <2>1. CASE f = m
    <3>1. UsedTurns(m)' = {}
      BY <1>6, <2>1 DEF Forget, UsedTurns, Counted
    <3>2. signal'[m] = 0
      BY <1>6, <2>1 DEF Forget
    <3> QED
      BY <3>1, <3>2, FS_EmptySet, ConstantsOK DEF Agrees, Plus
  <2>2. CASE f # m
    <3>1. signal'[m] = signal[m] /\ event' = event /\ \A t \in Turn : outcome'[t][m] = outcome[t][m]
      BY <1>6, <2>2 DEF Forget
    <3> QED
      BY <3>1, Unmoved
  <2> QED
    BY <2>1, <2>2
<1>7. ASSUME UNCHANGED <<signal, event, outcome>> PROVE Agrees(m)'
  BY <1>7, Unmoved
<1> QED
  BY <1>2, <1>3, <1>4, <1>5, <1>6, <1>7
  DEF Next, ThreadStep, NewCall, WriteTask, vars, Retrieve, DeliverSyncFails,
      SpawnDelivery, TrackDelivery, WriteFails, RecordOutcome, CommitFails, LogEvent,
      LogEventFails, VoidTurn, void_turn_deferred, drain_pending_voids, Flush, TakeVoid,
      VoidFails, FlushTake, FlushReturn, Crash

\* A memory's score holds one increment for each turn that counts it as used,
\* whatever is replayed, voided, forgotten or lost (commit_turn_outcomes).
THEOREM Evidence == Spec => []CreditMatchesEvidence
BY LedgerSafety, EvidenceInit, EvidenceStep, PTL DEF Spec

-----------------------------------------------------------------------------
(* One call per turn at a time.  When the host keeps the calls about a turn    *)
(* apart (Exclusive), whoever asks for a turn's delivery handle finds it in    *)
(* the map or finds the write over; and nothing joins the map behind a flush.  *)

Begun == {"running", "done", "failed"}

\* No two calls are about the same turn.
Free(th, turns) == \A other \in Thread \ {th} : Touches(call[other]) \intersect turns = {}
NoOverlap == \A th \in Thread : Free(th, Touches(call[th]))

\* A call holds handles of its own turns, while it awaits them and at no other
\* time.
HeldIn(c) ==
  /\ c.held \subseteq Touches(c)
  /\ c.pc \notin {"commit", "voiding", "flush_await"} => c.held = {}
  /\ c.pc \in {"flush_take", "flush_await"} => c.flush

\* What a call may rely on at its step: a commit holds the handle of a write that
\* still runs, an outcome about to be logged has its ledger row unless the write
\* failed, and nothing is in the map while a flush waits.
StageIn(c) ==
  /\ c.pc \in {"track", "commit"} => write[c.turn] \in Begun
  /\ c.pc = "commit" /\ write[c.turn] = "running" => c.turn \in c.held
  /\ c.pc = "log" => write[c.turn] = "failed" \/ event[c.turn] = "committed"
  /\ c.pc = "flush_await" => pending = {}

\* The handle of a write that runs is in the map, in the call that took it, or
\* in the turn that is about to put it there.
RunningIsHeld ==
  \A t \in Turn : write[t] = "running" =>
    \/ t \in pending
    \/ \E th \in Thread : \/ t \in call[th].held
                          \/ call[th].pc = "track" /\ call[th].turn = t

OwnedInv ==
  /\ LedgerInv /\ NoOverlap /\ RunningIsHeld
  /\ \A th \in Thread : HeldIn(call[th]) /\ StageIn(call[th])
  /\ \A t \in receipts : write[t] \in Begun
  /\ AcknowledgedOutcomeIsDurable

\* A call touches the turn it is at.
LEMMA TouchesTurn ==
  ASSUME NEW c \in Call, c.pc # "idle", c.turn \in Turn
  PROVE  c.turn \in Touches(c)
BY ConstantsOK DEF Touches

\* A call between two methods touches and holds nothing.
LEMMA IdleTouches == Touches(Idle) = {} /\ HeldIn(Idle)
BY DEF Touches, HeldIn, Idle

\* A new call is about the turns it was allowed to begin with.
LEMMA NewCallMoves ==
  ASSUME OwnedInv, Exclusive, NEW th \in Thread, NewCall(th)
  PROVE  /\ \A o \in Thread \ {th} : call'[o] = call[o]
         /\ Free(th, Touches(call'[th])) /\ HeldIn(call'[th])
<1> USE DEF OwnedInv, LedgerInv, TypeOK
<1>1. ASSUME NEW turns, MayCall(th, turns), NEW d, Goto(th, d), Touches(d) \subseteq turns,
             HeldIn(d)
      PROVE  /\ \A o \in Thread \ {th} : call'[o] = call[o]
             /\ Free(th, Touches(call'[th])) /\ HeldIn(call'[th])
  <2>1. call' = [call EXCEPT ![th] = d]
    BY <1>1 DEF Goto
  <2>2. call'[th] = d /\ \A o \in Thread \ {th} : call'[o] = call[o]
    BY <2>1
  <2>3. Free(th, Touches(d))
    BY <1>1 DEF MayCall, Free
  <2>. QED BY <1>1, <2>2, <2>3
<1>2. ASSUME NEW t \in Turn, NEW hits \in SUBSET Memory, Retrieve(th, t, hits)
      PROVE  \E d : Goto(th, d) /\ MayCall(th, {t}) /\ Touches(d) \subseteq {t} /\ HeldIn(d)
  <2> DEFINE d == [Idle EXCEPT !.pc = "deliver", !.turn = t]
  <2>1. Goto(th, d) /\ MayCall(th, {t})
    BY <1>2 DEF Retrieve
  <2>2. d.pc = "deliver" /\ d.turn = t /\ d.held = {} /\ d.todo = <<>> /\ d.flush = FALSE
    BY DEF Idle
  <2> HIDE DEF d
  <2>3. Touches(d) \subseteq {t} /\ HeldIn(d)
    BY <2>2 DEF Touches, HeldIn
  <2>. QED BY <2>1, <2>3
<1>3. ASSUME NEW t \in Turn, NEW report \in Report, RecordOutcome(th, t, report)
      PROVE  \E d : Goto(th, d) /\ MayCall(th, {t}) /\ Touches(d) \subseteq {t} /\ HeldIn(d)
  <2> DEFINE d == [[Idle EXCEPT !.pc = "commit", !.report = report]
                     EXCEPT !.turn = t, !.held = {t} \intersect pending]
  <2>1. Goto(th, d) /\ MayCall(th, {t})
    BY <1>3 DEF RecordOutcome, TakeHandle
  <2>2. d.pc = "commit" /\ d.turn = t /\ d.held \subseteq {t} /\ d.todo = <<>> /\ d.flush = FALSE
    BY DEF Idle
  <2> HIDE DEF d
  <2>3. Touches(d) = {t} /\ HeldIn(d)
    BY <2>2, ConstantsOK DEF Touches, HeldIn
  <2>. QED BY <2>1, <2>3
<1>4. ASSUME NEW t \in Turn, VoidTurn(th, t)
      PROVE  \E d : Goto(th, d) /\ MayCall(th, {t}) /\ Touches(d) \subseteq {t} /\ HeldIn(d)
  <2> DEFINE d == [Idle EXCEPT !.pc = "void", !.todo = <<t>>]
  <2>1. Goto(th, d) /\ MayCall(th, {t})
    BY <1>4 DEF VoidTurn
  <2>2. d.pc = "void" /\ d.turn = NoTurn /\ d.held = {} /\ d.todo = <<t>> /\ d.flush = FALSE
    BY DEF Idle
  <2> HIDE DEF d
  <2>3. Touches(d) \subseteq {t} /\ HeldIn(d)
    BY <2>2 DEF Touches, HeldIn
  <2>. QED BY <2>1, <2>3
<1>5. ASSUME drain_pending_voids(th)
      PROVE  \E d : Goto(th, d) /\ MayCall(th, Queued) /\ Touches(d) \subseteq Queued /\ HeldIn(d)
  <2> DEFINE d == [Idle EXCEPT !.pc = "void", !.todo = voidQueue]
  <2>1. Goto(th, d) /\ MayCall(th, Queued)
    BY <1>5 DEF drain_pending_voids
  <2>2. d.pc = "void" /\ d.turn = NoTurn /\ d.held = {} /\ d.todo = voidQueue /\ d.flush = FALSE
    BY DEF Idle
  <2> HIDE DEF d
  <2>3. Touches(d) \subseteq Queued /\ HeldIn(d)
    BY <2>2 DEF Touches, HeldIn, Queued
  <2>. QED BY <2>1, <2>3
<1>6. ASSUME Flush(th)
      PROVE  \E d : Goto(th, d) /\ MayCall(th, Turn) /\ Touches(d) \subseteq Turn /\ HeldIn(d)
  <2> DEFINE pc == IF voidQueue = <<>> THEN "flush_take" ELSE "void"
             d == [Idle EXCEPT !.flush = TRUE, !.todo = voidQueue, !.pc = pc]
  <2>1. Goto(th, d) /\ MayCall(th, Turn)
    BY <1>6 DEF Flush
  <2>2. d.pc \in {"flush_take", "void"} /\ d.held = {} /\ d.flush = TRUE
    BY DEF Idle
  <2> HIDE DEF d
  <2>3. Touches(d) \subseteq Turn /\ HeldIn(d)
    BY <2>2 DEF Touches, HeldIn
  <2>. QED BY <2>1, <2>3
<1>. QED BY <1>1, <1>2, <1>3, <1>4, <1>5, <1>6 DEF NewCall

\* A call that goes on stays with its own turns.
LEMMA ThreadStepMoves ==
  ASSUME OwnedInv, NEW th \in Thread, ThreadStep(th)
  PROVE  /\ \A o \in Thread \ {th} : call'[o] = call[o]
         /\ Free(th, Touches(call'[th])) /\ HeldIn(call'[th])
<1> USE DEF OwnedInv, LedgerInv, TypeOK
<1> DEFINE c == call[th]
<1>c. c \in Call /\ HeldIn(c) /\ Free(th, Touches(c))
  BY DEF NoOverlap
<1>1. ASSUME NEW d, Goto(th, d), Touches(d) \subseteq Touches(c), HeldIn(d)
      PROVE  /\ \A o \in Thread \ {th} : call'[o] = call[o]
             /\ Free(th, Touches(call'[th])) /\ HeldIn(call'[th])
  <2>1. call' = [call EXCEPT ![th] = d]
    BY <1>1 DEF Goto
  <2>2. call'[th] = d /\ \A o \in Thread \ {th} : call'[o] = call[o]
    BY <2>1
  <2>3. Free(th, Touches(d))
    BY <1>1, <1>c DEF Free
  <2>. QED BY <1>1, <2>2, <2>3
<1>2. ASSUME \/ DeliverSync(th) \/ DeliverSyncFails(th) \/ TrackDelivery(th) \/ CommitFails(th)
             \/ LogEvent(th) \/ LogEventFails(th) \/ FlushReturn(th)
      PROVE  Goto(th, Idle)
  BY <1>2 DEF DeliverSync, DeliverSyncFails, TrackDelivery, CommitFails, LogEvent, LogEventFails,
              FlushReturn, Return
<1>3. ASSUME SpawnDelivery(th)
      PROVE  \E d : Goto(th, d) /\ Touches(d) \subseteq Touches(c) /\ HeldIn(d)
  <2> DEFINE d == [c EXCEPT !.pc = "track"]
  <2>1. Goto(th, d) /\ c.pc = "deliver"
    BY <1>3 DEF SpawnDelivery
  <2>2. d.pc = "track" /\ d.turn = c.turn /\ d.held = c.held /\ d.todo = c.todo /\ d.flush = c.flush
    BY <1>c DEF Call
  <2> HIDE DEF d
  <2>3. Touches(d) = Touches(c)
    BY <2>1, <2>2 DEF Touches
  <2>4. HeldIn(d)
    BY <1>c, <2>1, <2>2, <2>3 DEF HeldIn
  <2>. QED BY <2>1, <2>3, <2>4
<1>4. ASSUME CommitTx(th)
      PROVE  \E d : Goto(th, d) /\ Touches(d) \subseteq Touches(c) /\ HeldIn(d)
  <2> DEFINE d == [c EXCEPT !.pc = "log", !.held = {}]
  <2>1. Goto(th, d) /\ c.pc = "commit"
    BY <1>4 DEF CommitTx
  <2>2. d.pc = "log" /\ d.turn = c.turn /\ d.held = {} /\ d.todo = c.todo /\ d.flush = c.flush
    BY <1>c DEF Call
  <2> HIDE DEF d
  <2>3. Touches(d) = Touches(c)
    BY <2>1, <2>2 DEF Touches
  <2>4. HeldIn(d)
    BY <2>2 DEF HeldIn
  <2>. QED BY <2>1, <2>3, <2>4
<1>5. ASSUME TakeVoid(th)
      PROVE  \E d : Goto(th, d) /\ Touches(d) \subseteq Touches(c) /\ HeldIn(d)
  <2> DEFINE t == Head(c.todo)
             d == [[c EXCEPT !.pc = "voiding"] EXCEPT !.turn = t, !.held = {t} \intersect pending]
  <2>1. Goto(th, d) /\ c.pc = "void"
    BY <1>5 DEF TakeVoid, TakeHandle
  <2>2. d.pc = "voiding" /\ d.turn = t /\ d.held \subseteq {t} /\ d.todo = c.todo /\ d.flush = c.flush
    BY <1>c DEF Call
  <2>3. c.todo \in Seq(Turn) /\ c.todo # <<>>
    BY <1>c, <2>1 DEF CallsKnowTheirTurn, Call
  <2>4. 1 \in DOMAIN c.todo /\ t = c.todo[1] /\ t \in Turn
    BY <2>3
  <2> HIDE DEF d, t
  <2>5. Touches(d) \subseteq Touches(c) /\ t \in Touches(d)
    BY <2>1, <2>2, <2>4, ConstantsOK DEF Touches
  <2>6. HeldIn(d)
    BY <2>2, <2>5 DEF HeldIn
  <2>. QED BY <2>1, <2>5, <2>6
<1>6. ASSUME VoidTx(th) \/ VoidFails(th)
      PROVE  \E d : Goto(th, d) /\ Touches(d) \subseteq Touches(c) /\ HeldIn(d)
  <2> DEFINE rest == Tail(c.todo)
             d == [c EXCEPT !.pc = "void", !.turn = NoTurn, !.held = {}, !.todo = rest]
             e == [Idle EXCEPT !.pc = "flush_take", !.flush = TRUE]
  <2>1. c.pc = "voiding" /\ VoidDone(th)
    BY <1>6 DEF VoidTx, VoidFails
  <2>2. c.todo \in Seq(Turn) /\ c.todo # <<>>
    BY <1>c, <2>1 DEF CallsKnowTheirTurn, Call
  <2>3. \A i \in DOMAIN rest : rest[i] = c.todo[i + 1] /\ i + 1 \in DOMAIN c.todo
    BY <2>2
  <2>4. CASE rest # <<>>
    <3>1. Goto(th, d)
      BY <2>1, <2>4 DEF VoidDone
    <3>2. d.pc = "void" /\ d.turn = NoTurn /\ d.held = {} /\ d.todo = rest /\ d.flush = c.flush
      BY <1>c DEF Call
    <3> HIDE DEF d, rest
    <3>3. Touches(d) \subseteq Touches(c) /\ HeldIn(d)
      BY <2>1, <2>3, <3>2 DEF Touches, HeldIn
    <3>. QED BY <3>1, <3>3
  <2>5. CASE rest = <<>> /\ c.flush
    <3>1. Goto(th, e)
      BY <2>1, <2>5 DEF VoidDone
    <3>2. e.pc = "flush_take" /\ e.held = {} /\ e.flush = TRUE
      BY DEF Idle
    <3> HIDE DEF e, rest
    <3>3. Touches(e) \subseteq Touches(c) /\ HeldIn(e)
      BY <2>1, <2>5, <3>2 DEF Touches, HeldIn
    <3>. QED BY <3>1, <3>3
  <2>6. CASE rest = <<>> /\ ~c.flush
    <3>1. Goto(th, Idle)
      BY <2>1, <2>6 DEF VoidDone
    <3>. QED BY <3>1, IdleTouches
  <2>. QED BY <2>4, <2>5, <2>6
<1>7. ASSUME FlushTake(th)
      PROVE  \E d : Goto(th, d) /\ Touches(d) \subseteq Touches(c) /\ HeldIn(d)
  <2> DEFINE d == [c EXCEPT !.pc = "flush_await", !.held = pending]
  <2>1. Goto(th, d) /\ c.pc = "flush_take"
    BY <1>7 DEF FlushTake
  <2>2. c.flush
    BY <1>c, <2>1 DEF HeldIn
  <2>3. d.pc = "flush_await" /\ d.held = pending /\ d.flush = c.flush
    BY <1>c DEF Call
  <2> HIDE DEF d
  <2>4. Touches(d) = Turn /\ Touches(c) = Turn
    BY <2>1, <2>2, <2>3 DEF Touches
  <2>5. HeldIn(d)
    BY <2>2, <2>3, <2>4 DEF HeldIn
  <2>. QED BY <2>1, <2>4, <2>5
<1>. QED BY <1>1, <1>2, <1>3, <1>4, <1>5, <1>6, <1>7, IdleTouches DEF ThreadStep

\* So no two calls ever touch the same turn, and handles stay with their turns.
LEMMA OverlapStep ==
  ASSUME OwnedInv, Exclusive, [Next]_vars
  PROVE  (NoOverlap /\ \A th \in Thread : HeldIn(call[th]))'
<1> USE DEF OwnedInv, LedgerInv, TypeOK
<1>1. ASSUME NEW th \in Thread, \A o \in Thread \ {th} : call'[o] = call[o],
             Free(th, Touches(call'[th])), HeldIn(call'[th])
      PROVE  (NoOverlap /\ \A o \in Thread : HeldIn(call[o]))'
  <2>1. \A o \in Thread : HeldIn(call'[o])
    BY <1>1
  <2>2. ASSUME NEW a \in Thread, NEW b \in Thread \ {a}
        PROVE  Touches(call'[b]) \intersect Touches(call'[a]) = {}
    BY <1>1 DEF NoOverlap, Free
  <2>. QED BY <2>1, <2>2 DEF NoOverlap, Free
<1>2. ASSUME call' = call PROVE (NoOverlap /\ \A o \in Thread : HeldIn(call[o]))'
  BY <1>2 DEF NoOverlap, Free
<1>3. ASSUME Crash PROVE (NoOverlap /\ \A o \in Thread : HeldIn(call[o]))'
  <2>1. \A o \in Thread : call'[o] = Idle
    BY <1>3 DEF Crash
  <2>. QED BY <2>1, IdleTouches DEF NoOverlap, Free
<1>4. ASSUME NEW t \in Turn, WriteTask(t) \/ void_turn_deferred(t) PROVE call' = call
  BY <1>4 DEF WriteTask, WriteLands, WriteFails, void_turn_deferred
<1>5. ASSUME NEW m \in Memory, Forget(m) PROVE call' = call
  BY <1>5 DEF Forget
<1>. QED BY <1>1, <1>2, <1>3, <1>4, <1>5, NewCallMoves, ThreadStepMoves DEF Next, vars

\* A write is begun once, and ends once; a committed turn stays committed.
LEMMA WritesGoOn ==
  ASSUME OwnedInv, Next, ~Crash
  PROVE  /\ \A t \in Turn : \/ write'[t] = write[t]
                            \/ write[t] = "none" /\ write'[t] \in Begun
                            \/ write[t] = "running" /\ write'[t] \in {"done", "failed"}
         /\ \A t \in Turn : event[t] = "committed" => event'[t] = "committed"
<1> USE DEF OwnedInv, LedgerInv, TypeOK, tables, volatile
<1> DEFINE Good ==
       /\ \A t \in Turn : \/ write'[t] = write[t]
                          \/ write[t] = "none" /\ write'[t] \in Begun
                          \/ write[t] = "running" /\ write'[t] \in {"done", "failed"}
       /\ \A t \in Turn : event[t] = "committed" => event'[t] = "committed"
<1>1. ASSUME NEW th \in Thread, DeliverSync(th) \/ DeliverSyncFails(th) \/ SpawnDelivery(th)
      PROVE  Good
  <2> DEFINE t == call[th].turn
  <2>1. t \in Turn /\ write[t] = "none"
    BY <1>1 DEF DeliverSync, DeliverSyncFails, SpawnDelivery, CallsKnowTheirTurn
  <2>2. \E st \in Begun : write' = [write EXCEPT ![t] = st]
    BY <1>1 DEF DeliverSync, DeliverSyncFails, SpawnDelivery, DeliveryTx, Begun
  <2>3. event' = event \/ event' = [event EXCEPT ![t] = IF @ = "absent" THEN "open" ELSE @]
    BY <1>1 DEF DeliverSync, DeliverSyncFails, SpawnDelivery, DeliveryTx
  <2>. QED BY <2>1, <2>2, <2>3
<1>2. ASSUME NEW t \in Turn, WriteTask(t) PROVE Good
  BY <1>2 DEF WriteTask, WriteLands, WriteFails, DeliveryTx
<1>3. ASSUME NEW th \in Thread, CommitTx(th) PROVE Good
  <2>1. event' = event \/ event' = [event EXCEPT ![call[th].turn] =
                                      IF @ = "absent" THEN @ ELSE "committed"]
    BY <1>3 DEF CommitTx, LedgerCommit
  <2>2. write' = write
    BY <1>3 DEF CommitTx
  <2>. QED BY <2>1, <2>2
<1>4. ASSUME NEW th \in Thread, VoidTx(th) PROVE Good
  BY <1>4 DEF VoidTx
<1>5. ASSUME UNCHANGED <<write, event>> PROVE Good
  BY <1>5
<1>6. Good
  BY <1>1, <1>2, <1>3, <1>4, <1>5
  DEF Next, ThreadStep, NewCall, Retrieve, TrackDelivery, RecordOutcome, TakeHandle,
      CommitFails, LogEvent, LogEventFails, VoidTurn, void_turn_deferred,
      drain_pending_voids, Flush, TakeVoid, VoidFails, FlushTake, FlushReturn, Forget
<1>. QED BY <1>6

\* Only a turn that is being delivered puts a handle into the map.
LEMMA MapGrows ==
  ASSUME OwnedInv, Next
  PROVE  pending' \subseteq pending \/ \E th \in Thread : TrackDelivery(th)
BY DEF tables, volatile, Next, ThreadStep, NewCall, WriteTask, Retrieve, DeliverSync,
       DeliverSyncFails, SpawnDelivery, WriteLands, WriteFails, RecordOutcome, TakeHandle,
       CommitTx, CommitFails, LogEvent, LogEventFails, VoidTurn, void_turn_deferred,
       drain_pending_voids, Flush, TakeVoid, VoidTx, VoidFails, FlushTake, FlushReturn,
       Forget, Crash

\* A call that stands still keeps what it relies on: while a flush waits, no turn
\* is about to put a handle into the map.
LEMMA OthersStage ==
  ASSUME OwnedInv, Next, ~Crash, NEW o \in Thread, call'[o] = call[o]
  PROVE  (StageIn(call[o]))'
<1> USE DEF OwnedInv, LedgerInv, TypeOK
<1> DEFINE c == call[o]
<1>1. c \in Call /\ HeldIn(c) /\ StageIn(c)
  OBVIOUS
<1>2. c.pc \in {"track", "commit", "log"} => c.turn \in Turn /\ write[c.turn] # "none"
  BY DEF CallsKnowTheirTurn
<1>3. c.pc = "log" /\ event[c.turn] = "committed" => write[c.turn] = "done"
  BY <1>2 DEF DeliveredOnce
<1>4. c.pc = "flush_await" => pending' = {}
  <2> SUFFICES ASSUME c.pc = "flush_await" PROVE pending' = {}
    OBVIOUS
  <2>1. pending = {} /\ Touches(c) = Turn
    BY <1>1 DEF StageIn, HeldIn, Touches
  <2>2. ASSUME NEW th \in Thread, TrackDelivery(th) PROVE FALSE
    <3>1. call[th].pc = "track" /\ th # o /\ call[th].turn \in Turn /\ call[th] \in Call
      BY <2>2 DEF TrackDelivery, CallsKnowTheirTurn
    <3>2. call[th].turn \in Touches(call[th])
      BY <3>1, TouchesTurn
    <3>. QED BY <2>1, <3>1, <3>2 DEF NoOverlap, Free
  <2>. QED BY <2>1, <2>2, MapGrows
<1>5. c.pc \in {"track", "commit", "log"} =>
        \/ write'[c.turn] = write[c.turn]
        \/ write[c.turn] = "running" /\ write'[c.turn] \in {"done", "failed"}
  BY <1>2, WritesGoOn
<1>6. c.pc = "log" /\ event[c.turn] = "committed" => event'[c.turn] = "committed"
  BY <1>2, WritesGoOn
<1>7. c.pc \in {"track", "commit"} => write'[c.turn] \in Begun
  BY <1>1, <1>5 DEF StageIn, Begun
<1>8. c.pc = "commit" /\ write'[c.turn] = "running" => c.turn \in c.held
  BY <1>1, <1>5 DEF StageIn
<1>9. c.pc = "log" => write'[c.turn] = "failed" \/ event'[c.turn] = "committed"
  BY <1>1, <1>5, <1>6 DEF StageIn
<1>10. call'[o] = c
  OBVIOUS
<1> HIDE DEF c
<1>. QED BY <1>4, <1>7, <1>8, <1>9, <1>10 DEF StageIn

\* A call that begins or goes on has what it relies on at its next step.  An
\* outcome finds the handle of a write that runs: no other call can have taken it.
LEMMA MoverStage ==
  ASSUME OwnedInv, Exclusive, NEW th \in Thread, ThreadStep(th) \/ NewCall(th)
  PROVE  (StageIn(call[th]))'
<1> USE DEF OwnedInv, LedgerInv, TypeOK
<1> DEFINE c == call[th]
<1>c. c \in Call /\ HeldIn(c) /\ StageIn(c)
  OBVIOUS
<1>1. ASSUME NEW d, Goto(th, d), d.pc \notin {"track", "commit", "log", "flush_await"}
      PROVE  (StageIn(call[th]))'
  <2>1. call'[th] = d
    BY <1>1 DEF Goto
  <2>. QED BY <1>1, <2>1 DEF StageIn
<1>2. ASSUME \/ DeliverSync(th) \/ DeliverSyncFails(th) \/ TrackDelivery(th) \/ CommitFails(th)
             \/ LogEvent(th) \/ LogEventFails(th) \/ FlushReturn(th)
      PROVE  Goto(th, Idle) /\ Idle.pc = "idle"
  BY <1>2 DEF DeliverSync, DeliverSyncFails, TrackDelivery, CommitFails, LogEvent, LogEventFails,
              FlushReturn, Return, Idle
<1>3. ASSUME SpawnDelivery(th) PROVE (StageIn(call[th]))'
  <2> DEFINE d == [c EXCEPT !.pc = "track"]
  <2>1. call'[th] = d /\ c.pc = "deliver" /\ write' = [write EXCEPT ![c.turn] = "running"]
    BY <1>3 DEF SpawnDelivery, Goto
  <2>2. d.pc = "track" /\ d.turn = c.turn
    BY <1>c DEF Call
  <2>3. c.turn \in Turn
    BY <2>1 DEF CallsKnowTheirTurn
  <2> HIDE DEF d, c
  <2>. QED BY <2>1, <2>2, <2>3 DEF StageIn, Begun
<1>4. ASSUME CommitTx(th) PROVE (StageIn(call[th]))'
  <2> DEFINE d == [c EXCEPT !.pc = "log", !.held = {}]
             t == c.turn
  <2>1. call'[th] = d /\ c.pc = "commit" /\ write' = write
    BY <1>4 DEF CommitTx, Goto, volatile
  <2>2. d.pc = "log" /\ d.turn = t
    BY <1>c DEF Call
  <2>3. t \in Turn /\ write[t] \in {"done", "failed"}
    <3>1. t \in Turn /\ write[t] \in Begun /\ (write[t] = "running" => t \in c.held)
      BY <2>1, <1>c DEF CallsKnowTheirTurn, StageIn
    <3>2. \A h \in c.held : Finished(h)
      BY <1>4 DEF CommitTx, HeldFinished
    <3>. QED BY <3>1, <3>2 DEF Finished, Begun
  <2>4. write[t] = "done" => event'[t] = "committed"
    <3>1. write[t] = "done" => event[t] # "absent"
      BY <2>3 DEF DeliveredOnce
    <3>2. (event' = event /\ event[t] = "committed") \/ LedgerCommit(t, c.report)
      BY <1>4 DEF CommitTx
    <3>. QED BY <2>3, <3>1, <3>2 DEF LedgerCommit
  <2> HIDE DEF d, t, c
  <2>. QED BY <2>1, <2>2, <2>3, <2>4 DEF StageIn
<1>5. ASSUME TakeVoid(th) PROVE (StageIn(call[th]))'
  <2> DEFINE t == Head(c.todo)
             d == [[c EXCEPT !.pc = "voiding"] EXCEPT !.turn = t, !.held = {t} \intersect pending]
  <2>1. Goto(th, d)
    BY <1>5 DEF TakeVoid, TakeHandle
  <2>2. d.pc = "voiding"
    BY <1>c DEF Call
  <2> HIDE DEF d
  <2>. QED BY <2>1, <2>2, <1>1
<1>6. ASSUME VoidTx(th) \/ VoidFails(th) PROVE (StageIn(call[th]))'
  <2> DEFINE rest == Tail(c.todo)
             d == [c EXCEPT !.pc = "void", !.turn = NoTurn, !.held = {}, !.todo = rest]
             e == [Idle EXCEPT !.pc = "flush_take", !.flush = TRUE]
  <2>1. VoidDone(th)
    BY <1>6 DEF VoidTx, VoidFails
  <2>2. Goto(th, d) \/ Goto(th, e) \/ Goto(th, Idle)
    BY <2>1 DEF VoidDone
  <2>3. d.pc = "void" /\ e.pc = "flush_take" /\ Idle.pc = "idle"
    BY <1>c DEF Call, Idle
  <2> HIDE DEF d, e
  <2>. QED BY <2>2, <2>3, <1>1
<1>7. ASSUME FlushTake(th) PROVE (StageIn(call[th]))'
  <2> DEFINE d == [c EXCEPT !.pc = "flush_await", !.held = pending]
  <2>1. call'[th] = d /\ pending' = {}
    BY <1>7 DEF FlushTake, Goto
  <2>2. d.pc = "flush_await"
    BY <1>c DEF Call
  <2> HIDE DEF d
  <2>. QED BY <2>1, <2>2 DEF StageIn
<1>8. ASSUME NEW t \in Turn, NEW report \in Report, RecordOutcome(th, t, report)
      PROVE  (StageIn(call[th]))'
  <2> DEFINE d == [[Idle EXCEPT !.pc = "commit", !.report = report]
                     EXCEPT !.turn = t, !.held = {t} \intersect pending]
  <2>1. call'[th] = d /\ MayCall(th, {t}) /\ t \in receipts /\ write' = write
    BY <1>8 DEF RecordOutcome, TakeHandle, Goto
  <2>2. d.pc = "commit" /\ d.turn = t /\ d.held = {t} \intersect pending
    BY DEF Idle
  <2> HIDE DEF d
  <2>3. write[t] \in Begun
    BY <2>1
  <2>4. write[t] = "running" => t \in pending
    <3> SUFFICES ASSUME write[t] = "running", t \notin pending PROVE FALSE
      OBVIOUS
    <3>1. PICK o \in Thread : t \in call[o].held \/ (call[o].pc = "track" /\ call[o].turn = t)
      BY DEF RunningIsHeld
    <3>2. call[o] \in Call /\ HeldIn(call[o]) /\ call[th].pc = "idle" /\ HeldIn(call[th])
      BY <2>1 DEF MayCall
    <3>3. o # th
      BY <3>1, <3>2 DEF HeldIn
    <3>4. t \in Touches(call[o])
      <4>1. CASE t \in call[o].held
        BY <4>1, <3>2 DEF HeldIn
      <4>2. CASE call[o].pc = "track" /\ call[o].turn = t
        BY <4>2, <3>2, TouchesTurn
      <4>. QED BY <3>1, <4>1, <4>2
    <3>. QED BY <2>1, <3>3, <3>4 DEF MayCall
  <2>. QED BY <2>1, <2>2, <2>3, <2>4 DEF StageIn
<1>9. ASSUME \/ \E t \in Turn, hits \in SUBSET Memory : Retrieve(th, t, hits)
             \/ \E t \in Turn : VoidTurn(th, t)
             \/ drain_pending_voids(th)
             \/ Flush(th)
      PROVE  (StageIn(call[th]))'
  <2>1. ASSUME NEW t \in Turn, NEW hits \in SUBSET Memory, Retrieve(th, t, hits)
        PROVE  \E d : Goto(th, d) /\ d.pc = "deliver"
    <3> DEFINE d == [Idle EXCEPT !.pc = "deliver", !.turn = t]
    <3>1. Goto(th, d)
      BY <2>1 DEF Retrieve
    <3>2. d.pc = "deliver"
      BY DEF Idle
    <3> HIDE DEF d
    <3>. QED BY <3>1, <3>2
  <2>2. ASSUME NEW t \in Turn, VoidTurn(th, t) PROVE \E d : Goto(th, d) /\ d.pc = "void"
    <3> DEFINE d == [Idle EXCEPT !.pc = "void", !.todo = <<t>>]
    <3>1. Goto(th, d)
      BY <2>2 DEF VoidTurn
    <3>2. d.pc = "void"
      BY DEF Idle
    <3> HIDE DEF d
    <3>. QED BY <3>1, <3>2
  <2>3. ASSUME drain_pending_voids(th) PROVE \E d : Goto(th, d) /\ d.pc = "void"
    <3> DEFINE d == [Idle EXCEPT !.pc = "void", !.todo = voidQueue]
    <3>1. Goto(th, d)
      BY <2>3 DEF drain_pending_voids
    <3>2. d.pc = "void"
      BY DEF Idle
    <3> HIDE DEF d
    <3>. QED BY <3>1, <3>2
  <2>4. ASSUME Flush(th) PROVE \E d : Goto(th, d) /\ d.pc \in {"void", "flush_take"}
    <3> DEFINE d == [Idle EXCEPT !.flush = TRUE, !.todo = voidQueue,
                       !.pc = IF voidQueue = <<>> THEN "flush_take" ELSE "void"]
    <3>1. Goto(th, d)
      BY <2>4 DEF Flush
    <3>2. d.pc \in {"void", "flush_take"}
      BY DEF Idle
    <3> HIDE DEF d
    <3>. QED BY <3>1, <3>2
  <2>. QED BY <1>1, <1>9, <2>1, <2>2, <2>3, <2>4
<1>. QED BY <1>1, <1>2, <1>3, <1>4, <1>5, <1>6, <1>7, <1>8, <1>9 DEF ThreadStep, NewCall

LEMMA StagesStep ==
  ASSUME OwnedInv, Exclusive, [Next]_vars, NEW th \in Thread
  PROVE  (StageIn(call[th]))'
<1>1. CASE UNCHANGED vars
  BY <1>1 DEF OwnedInv, vars, volatile, tables, StageIn
<1>2. CASE Crash
  <2>1. call'[th] = Idle
    BY <1>2 DEF Crash
  <2>. QED BY <2>1 DEF StageIn, Idle
<1>3. CASE Next /\ ~Crash
  <2>1. CASE call'[th] = call[th]
    BY <1>3, <2>1, OthersStage
  <2>2. CASE call'[th] # call[th]
    <3>1. ASSUME NEW o \in Thread, ThreadStep(o) \/ NewCall(o) PROVE o = th
      BY <2>2, <3>1, NewCallMoves, ThreadStepMoves
    <3>2. ASSUME NEW t \in Turn, WriteTask(t) \/ void_turn_deferred(t) PROVE FALSE
      BY <2>2, <3>2 DEF WriteTask, WriteLands, WriteFails, void_turn_deferred
    <3>3. ASSUME NEW m \in Memory, Forget(m) PROVE FALSE
      BY <2>2, <3>3 DEF Forget, volatile
    <3>4. ThreadStep(th) \/ NewCall(th)
      BY <1>3, <3>1, <3>2, <3>3 DEF Next
    <3>. QED BY <3>4, MoverStage
  <2>. QED BY <2>1, <2>2
<1>. QED BY <1>1, <1>2, <1>3

\* Handles change hands between the map and the calls, and are dropped only when
\* the write is over.
LEMMA HandlesStep ==
  ASSUME OwnedInv, [Next]_vars
  PROVE  RunningIsHeld'
<1> USE DEF OwnedInv, LedgerInv, TypeOK, tables, volatile
<1> DEFINE At(th, u) == u \in call[th].held \/ (call[th].pc = "track" /\ call[th].turn = u)
           Has(u) == u \in pending \/ \E th \in Thread : At(th, u)
<1>0. \A u \in Turn : write[u] = "running" => Has(u)
  BY DEF RunningIsHeld
<1>1. ASSUME NEW th \in Thread, NEW u \in Turn, \A o \in Thread \ {th} : call'[o] = call[o],
             write[u] = "running",
             u \in pending \/ At(th, u) => u \in pending' \/ u \in call'[th].held
      PROVE  Has(u)'
  <2>1. CASE u \in pending \/ At(th, u)
    BY <1>1, <2>1
  <2>2. CASE u \notin pending /\ ~At(th, u)
    <3>1. PICK o \in Thread : At(o, u)
      BY <1>0, <1>1, <2>2
    <3>2. o # th
      BY <2>2, <3>1
    <3>3. call'[o] = call[o]
      BY <1>1, <3>2
    <3>. QED BY <3>1, <3>3
  <2>. QED BY <2>1, <2>2
<1>2. ASSUME NEW th \in Thread, ThreadStep(th) \/ NewCall(th), NEW u \in Turn,
             write'[u] = "running"
      PROVE  Has(u)'
  <2> DEFINE c == call[th]
  <2>c. c \in Call /\ HeldIn(c) /\ call[th] = c
    OBVIOUS
  <2>m. ASSUME NEW d, Goto(th, d)
        PROVE  call'[th] = d /\ \A o \in Thread \ {th} : call'[o] = call[o]
    BY <2>m DEF Goto
  <2> HIDE DEF c, At, Has
  <2>1. CASE SpawnDelivery(th) /\ u = c.turn
    <3> DEFINE d == [c EXCEPT !.pc = "track"]
    <3>1. Goto(th, d)
      BY <2>1, <2>c DEF SpawnDelivery
    <3>2. d.pc = "track" /\ d.turn = c.turn
      BY <2>c DEF Call
    <3> HIDE DEF d
    <3>. QED BY <2>1, <2>m, <3>1, <3>2 DEF At, Has
  <2>2. CASE \/ DeliverSync(th) \/ DeliverSyncFails(th)
             \/ SpawnDelivery(th) /\ u # c.turn
    <3>1. c.pc = "deliver" /\ c.turn \in Turn
      BY <2>2, <2>c DEF DeliverSync, DeliverSyncFails, SpawnDelivery, CallsKnowTheirTurn
    <3>2. pending' = pending /\ \E d : Goto(th, d)
      BY <2>2 DEF DeliverSync, DeliverSyncFails, SpawnDelivery, Return
    <3>3. write[u] = "running"
      BY <1>2, <2>2, <2>c, <3>1 DEF DeliverSync, DeliverSyncFails, SpawnDelivery, DeliveryTx
    <3>4. ~At(th, u)
      BY <2>c, <3>1 DEF At, HeldIn
    <3>. QED BY <1>1, <2>m, <3>2, <3>3, <3>4
  <2>3. CASE TrackDelivery(th)
    <3>1. /\ c.pc = "track" /\ write' = write /\ Goto(th, Idle)
          /\ pending' = {p \in pending : ~Finished(p)} \union {c.turn}
      BY <2>3, <2>c DEF TrackDelivery, Return
    <3>2. write[u] = "running"
      BY <1>2, <3>1
    <3>3. u \in pending \/ At(th, u) => u \in pending'
      BY <2>c, <3>1, <3>2 DEF At, HeldIn, Finished
    <3>. QED BY <1>1, <2>m, <3>1, <3>2, <3>3
  <2>4. CASE \/ CommitTx(th) \/ CommitFails(th) \/ VoidTx(th) \/ VoidFails(th) \/ FlushReturn(th)
    <3>1. write' = write /\ pending' = pending /\ HeldFinished(th) /\ c.pc # "track"
      BY <2>4, <2>c DEF CommitTx, CommitFails, VoidTx, VoidFails, FlushReturn
    <3>2. write[u] = "running" /\ ~At(th, u)
      BY <1>2, <2>c, <3>1 DEF At, HeldFinished, Finished
    <3>3. \E d : Goto(th, d)
      BY <2>4 DEF CommitTx, CommitFails, VoidTx, VoidFails, VoidDone, FlushReturn, Return
    <3>. QED BY <1>1, <2>m, <3>1, <3>2, <3>3
  <2>5. CASE LogEvent(th) \/ LogEventFails(th)
    <3>1. write' = write /\ pending' = pending /\ c.pc = "log" /\ Goto(th, Idle)
      BY <2>5, <2>c DEF LogEvent, LogEventFails, Return
    <3>2. write[u] = "running" /\ ~At(th, u)
      BY <1>2, <2>c, <3>1 DEF At, HeldIn
    <3>. QED BY <1>1, <2>m, <3>1, <3>2
  <2>6. CASE FlushTake(th)
    <3> DEFINE d == [c EXCEPT !.pc = "flush_await", !.held = pending]
    <3>1. write' = write /\ c.pc = "flush_take" /\ Goto(th, d)
      BY <2>6, <2>c DEF FlushTake
    <3>2. d.held = pending
      BY <2>c DEF Call
    <3> HIDE DEF d
    <3>3. write[u] = "running" /\ ~At(th, u)
      BY <1>2, <2>c, <3>1 DEF At, HeldIn
    <3>. QED BY <1>1, <2>m, <3>1, <3>2, <3>3
  <2>7. ASSUME NEW t, NEW d, d \in Call, TakeHandle(th, t, d), write' = write, c.pc \in {"idle", "void"}
        PROVE  Has(u)'
    <3> DEFINE e == [d EXCEPT !.turn = t, !.held = {t} \intersect pending]
    <3>1. Goto(th, e) /\ pending' = pending \ {t}
      BY <2>7 DEF TakeHandle
    <3>2. e.held = {t} \intersect pending
      BY <2>7 DEF Call
    <3> HIDE DEF e
    <3>3. write[u] = "running" /\ ~At(th, u)
      BY <1>2, <2>7, <2>c DEF At, HeldIn
    <3>. QED BY <1>1, <2>m, <3>1, <3>2, <3>3
  <2>8. CASE TakeVoid(th)
    <3>1. [c EXCEPT !.pc = "voiding"] \in Call
      BY <2>c DEF Call, PC
    <3>2. /\ TakeHandle(th, Head(c.todo), [c EXCEPT !.pc = "voiding"])
          /\ c.pc = "void" /\ write' = write
      BY <2>8, <2>c DEF TakeVoid
    <3>. QED BY <2>7, <3>1, <3>2
  <2>9. CASE \E t \in Turn, report \in Report : RecordOutcome(th, t, report)
    <3>1. PICK t \in Turn, report \in Report : RecordOutcome(th, t, report)
      BY <2>9
    <3>2. [Idle EXCEPT !.pc = "commit", !.report = report] \in Call
      <4>1. NoReport \in Report
        BY DEF NoReport, Report, Reported
      <4>2. Idle \in Call /\ "commit" \in PC
        BY <4>1 DEF Idle, Call, PC
      <4>. QED BY <4>2 DEF Call
    <3>3. /\ TakeHandle(th, t, [Idle EXCEPT !.pc = "commit", !.report = report])
          /\ c.pc = "idle" /\ write' = write
      BY <2>c, <3>1 DEF RecordOutcome, MayCall
    <3>. QED BY <2>7, <3>2, <3>3
  <2>10. CASE \/ \E t \in Turn, hits \in SUBSET Memory : Retrieve(th, t, hits)
              \/ \E t \in Turn : VoidTurn(th, t)
              \/ drain_pending_voids(th)
              \/ Flush(th)
    <3>1. c.pc = "idle" /\ write' = write /\ pending' = pending /\ \E d : Goto(th, d)
      BY <2>10, <2>c DEF Retrieve, VoidTurn, drain_pending_voids, Flush, MayCall
    <3>2. write[u] = "running" /\ ~At(th, u)
      BY <1>2, <2>c, <3>1 DEF At, HeldIn
    <3>. QED BY <1>1, <2>m, <3>1, <3>2
  <2>. QED BY <1>2, <2>1, <2>2, <2>3, <2>4, <2>5, <2>6, <2>8, <2>9, <2>10 DEF ThreadStep, NewCall
<1>3. ASSUME call' = call, pending' = pending, NEW u \in Turn, write'[u] = "running",
             write[u] = "running"
      PROVE  Has(u)'
  BY <1>0, <1>3
<1>4. ASSUME NEW t \in Turn, WriteTask(t), NEW u \in Turn, write'[u] = "running" PROVE Has(u)'
  <2>1. call' = call /\ pending' = pending
    BY <1>4 DEF WriteTask, WriteLands, WriteFails
  <2>2. write[u] = "running"
    BY <1>4 DEF WriteTask, WriteLands, WriteFails, DeliveryTx
  <2>. QED BY <1>3, <1>4, <2>1, <2>2
<1>5. ASSUME NEW u \in Turn, write'[u] = "running",
             \/ \E t \in Turn : void_turn_deferred(t)
             \/ \E m \in Memory : Forget(m)
             \/ UNCHANGED vars
      PROVE  Has(u)'
  <2>1. call' = call /\ pending' = pending /\ write' = write
    BY <1>5 DEF void_turn_deferred, Forget, vars
  <2>. QED BY <1>3, <1>5, <2>1
<1>6. ASSUME Crash, NEW u \in Turn PROVE write'[u] # "running"
  BY <1>6 DEF Crash
<1> HIDE DEF At, Has
<1>7. ASSUME NEW u \in Turn, write'[u] = "running" PROVE Has(u)'
  BY <1>2, <1>4, <1>5, <1>6, <1>7 DEF Next
<1>. QED BY <1>7 DEF RunningIsHeld, At, Has

\* A receipt is for a delivery that was begun, in this process.
LEMMA ReceiptsStep ==
  ASSUME OwnedInv, [Next]_vars
  PROVE  (\A t \in receipts : write[t] \in Begun)'
<1> USE DEF OwnedInv, LedgerInv, TypeOK, tables, volatile
<1>1. CASE UNCHANGED vars
  BY <1>1 DEF vars
<1>2. CASE Crash
  BY <1>2 DEF Crash
<1>3. CASE Next /\ ~Crash
  <2>1. \A t \in receipts : write'[t] \in Begun
    BY <1>3, WritesGoOn DEF Begun
  <2>2. ASSUME NEW th \in Thread, DeliverSync(th) PROVE \A t \in receipts' : write'[t] \in Begun
    BY <2>1, <2>2 DEF DeliverSync, DeliveryTx, CallsKnowTheirTurn, Begun
  <2>3. ASSUME NEW th \in Thread, TrackDelivery(th) PROVE \A t \in receipts' : write'[t] \in Begun
    BY <2>1, <2>3 DEF TrackDelivery, StageIn
  <2>4. receipts' = receipts \/ \E th \in Thread : DeliverSync(th) \/ TrackDelivery(th)
    BY <1>3
    DEF Next, ThreadStep, NewCall, WriteTask, Retrieve, DeliverSyncFails, SpawnDelivery,
        WriteLands, WriteFails, RecordOutcome, TakeHandle, CommitTx, CommitFails, LogEvent,
        LogEventFails, VoidTurn, void_turn_deferred, drain_pending_voids, Flush, TakeVoid,
        VoidTx, VoidFails, FlushTake, FlushReturn, Forget
  <2>. QED BY <2>1, <2>2, <2>3, <2>4
<1>. QED BY <1>1, <1>2, <1>3

\* The log gains an event only at LogEvent, whose turn is committed unless its
\* write failed; and a failed write stays failed.
LEMMA DurableStep ==
  ASSUME OwnedInv, [Next]_vars
  PROVE  AcknowledgedOutcomeIsDurable'
<1> USE DEF OwnedInv, LedgerInv, TypeOK, tables, volatile
<1>1. ASSUME NEW t \in Turn, log[t] # {}, write[t] # "failed"
      PROVE  event[t] = "committed" /\ write[t] = "done"
  BY <1>1 DEF AcknowledgedOutcomeIsDurable, DeliveredOnce
<1>2. CASE UNCHANGED vars
  BY <1>2 DEF vars, AcknowledgedOutcomeIsDurable
<1>3. CASE Crash
  <2>1. \A t \in Turn : log[t] # {} /\ write'[t] # "failed" => event[t] = "committed"
    BY <1>1, <1>3 DEF Crash
  <2>. QED BY <1>3, <2>1 DEF Crash, AcknowledgedOutcomeIsDurable
<1>4. CASE Next /\ ~Crash
  <2>1. ASSUME NEW t \in Turn, log[t] # {}, write'[t] # "failed" PROVE event'[t] = "committed"
    <3>1. write[t] # "failed"
      BY <1>4, <2>1, WritesGoOn
    <3>. QED BY <1>1, <1>4, <2>1, <3>1, WritesGoOn
  <2>2. ASSUME NEW th \in Thread, LogEvent(th), NEW t \in Turn, log'[t] # {}, write'[t] # "failed"
        PROVE  event'[t] = "committed"
    <3>1. CASE t = call[th].turn
      BY <2>2, <3>1 DEF LogEvent, StageIn
    <3>2. CASE t # call[th].turn
      <4>1. log'[t] = log[t]
        BY <2>2, <3>2 DEF LogEvent
      <4>. QED BY <2>1, <2>2, <4>1
    <3>. QED BY <3>1, <3>2
  <2>3. ASSUME NEW m \in Memory, Forget(m), NEW t \in Turn, log'[t] # {} PROVE log[t] # {}
    BY <2>3 DEF Forget
  <2>4. \/ log' = log
        \/ \E th \in Thread : LogEvent(th)
        \/ \E m \in Memory : Forget(m)
    BY <1>4
    DEF Next, ThreadStep, NewCall, WriteTask, Retrieve, DeliverSync, DeliverSyncFails,
        SpawnDelivery, TrackDelivery, WriteLands, WriteFails, RecordOutcome, CommitTx,
        CommitFails, LogEventFails, VoidTurn, void_turn_deferred, drain_pending_voids,
        Flush, TakeVoid, VoidTx, VoidFails, FlushTake, FlushReturn
  <2>. QED BY <2>1, <2>2, <2>3, <2>4 DEF AcknowledgedOutcomeIsDurable
<1>. QED BY <1>2, <1>3, <1>4

LEMMA OwnedInit == Init => OwnedInv
<1> SUFFICES ASSUME Init PROVE OwnedInv
  OBVIOUS
<1>1. \A th \in Thread : call[th] = Idle
  BY DEF Init
<1>2. NoOverlap /\ \A th \in Thread : HeldIn(call[th])
  BY <1>1, IdleTouches DEF NoOverlap, Free
<1>3. \A th \in Thread : StageIn(call[th])
  BY <1>1 DEF StageIn, Idle
<1>4. RunningIsHeld /\ AcknowledgedOutcomeIsDurable /\ \A t \in receipts : write[t] \in Begun
  BY DEF Init, RunningIsHeld, AcknowledgedOutcomeIsDurable
<1>. QED BY <1>2, <1>3, <1>4, LedgerInitInv DEF OwnedInv

LEMMA Ownership == ASSUME Exclusive PROVE Spec => []OwnedInv
<1>1. OwnedInv /\ [Next]_vars => OwnedInv'
  <2> SUFFICES ASSUME OwnedInv, [Next]_vars PROVE OwnedInv'
    OBVIOUS
  <2>1. LedgerInv'
    BY TypeStep, RowsStep, CallsStep DEF OwnedInv, LedgerInv
  <2>. QED BY <2>1, OverlapStep, HandlesStep, StagesStep, ReceiptsStep, DurableStep DEF OwnedInv
<1>. QED BY OwnedInit, <1>1, PTL DEF Spec

\* When the calls about a turn are kept apart, a record_turn_outcome that
\* returned Ok is in the ledger, whatever crashes, fails, is flushed, voided or
\* forgotten meanwhile (record_turn_outcome, await_pending_delivery).
THEOREM Durability ==
  ASSUME Exclusive PROVE Spec => []AcknowledgedOutcomeIsDurable
<1>1. OwnedInv => AcknowledgedOutcomeIsDurable
  BY DEF OwnedInv
<1>. QED BY <1>1, Ownership, PTL

\* When the calls about a turn are kept apart, a flush that returns leaves no
\* delivery in flight: none escaped the map, and none joined it behind the flush
\* (flush_turn_deliveries).
THEOREM Drained == ASSUME Exclusive PROVE Spec => FlushDrains
<1> DEFINE Drains == \A th \in Thread :
       (call[th].pc = "flush_await" /\ call'[th].pc = "idle") =>
         \A t \in Turn : write'[t] # "running"
<1>1. OwnedInv /\ [Next]_vars => [Drains]_vars
  <2> SUFFICES ASSUME OwnedInv, Next, NEW th \in Thread, call[th].pc = "flush_await",
                      call'[th].pc = "idle", NEW t \in Turn
               PROVE  write'[t] # "running"
    BY DEF vars
  <2> USE DEF OwnedInv, LedgerInv, TypeOK
  <2>1. CASE Crash
    BY <2>1 DEF Crash
  <2>2. CASE FlushReturn(th)
    <3>1. pending = {} /\ Touches(call[th]) = Turn
      BY DEF StageIn, HeldIn, Touches
    <3>2. t \notin call[th].held \/ write[t] # "running"
      BY <2>2 DEF FlushReturn, HeldFinished, Finished
    <3>3. ASSUME NEW o \in Thread \ {th} PROVE ~(t \in call[o].held \/ (call[o].pc = "track" /\ call[o].turn = t))
      <4>1. t \notin Touches(call[o]) /\ call[o] \in Call
        BY <3>1 DEF NoOverlap, Free
      <4>. QED BY <4>1, TouchesTurn DEF HeldIn
    <3>4. write[t] # "running"
      BY <3>1, <3>2, <3>3 DEF RunningIsHeld
    <3>. QED BY <2>2, <3>4 DEF FlushReturn, volatile
  <2>3. ASSUME ~Crash, ~FlushReturn(th) PROVE FALSE
    <3>1. call'[th] # call[th]
      OBVIOUS
    <3>2. ThreadStep(th) \/ NewCall(th)
      <4>1. ASSUME NEW o \in Thread, o # th, ThreadStep(o) \/ NewCall(o) PROVE FALSE
        <5>1. \E d : call' = [call EXCEPT ![o] = d]
          BY <4>1 DEF ThreadStep, NewCall, Retrieve, DeliverSync, DeliverSyncFails, SpawnDelivery,
                      TrackDelivery, RecordOutcome, TakeHandle, CommitTx, CommitFails, LogEvent,
                      LogEventFails, VoidTurn, drain_pending_voids, Flush, TakeVoid, VoidTx,
                      VoidFails, VoidDone, FlushTake, FlushReturn, Return, Goto
        <5>. QED BY <3>1, <4>1, <5>1
      <4>. QED BY <2>3, <3>1, <4>1
           DEF Next, WriteTask, WriteLands, WriteFails, void_turn_deferred, Forget, volatile
    <3>. QED BY <2>3, <3>2
         DEF ThreadStep, NewCall, Retrieve, DeliverSync, DeliverSyncFails, SpawnDelivery,
             TrackDelivery, RecordOutcome, CommitTx, CommitFails, LogEvent, LogEventFails,
             VoidTurn, drain_pending_voids, Flush, TakeVoid, VoidTx, VoidFails, FlushTake, MayCall
  <2>. QED BY <2>1, <2>2, <2>3
<1>. QED BY Ownership, <1>1, PTL DEF Spec, FlushDrains
=============================================================================
