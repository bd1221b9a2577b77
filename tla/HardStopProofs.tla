---------------------------- MODULE HardStopProofs ----------------------------
(***************************************************************************)
(* The kill-switch latch implements Halt, for every set of NAVs, every     *)
(* bound and every set of faults but an unreadable loop_state.json.        *)
(***************************************************************************)
EXTENDS HardStop, TLAPS

\* A durable stop is on disk and in the memory of whoever runs; a cycle in
\* flight started without the latch; the write that ends a hard stop's cycle
\* finds the latch engaged, and the one that ends a reset finds it cleared.
LatchInv ==
    /\ pc \in Points
    /\ stop = "durable" => disk.latched = TRUE /\ (Running => latch = TRUE)
    /\ pc \in InCycle => latch = FALSE
    /\ pc = "persist" /\ cycle.verdict.hardStop => latch = TRUE
    /\ pc = "resetting" => latch = FALSE

\* The latch invariant holds when the service is first built.
LEMMA InitLatchInv == Init => LatchInv
  BY DEF Init, LatchInv, Points, InCycle, Down, Running

\* Every step keeps the latch invariant, unless loop_state.json can be unreadable.
LEMMA StepLatchInv ==
  ASSUME "unreadable" \notin Faults, LatchInv, [Next]_vars
  PROVE  LatchInv'
<1> USE DEF LatchInv, Points, InCycle, Down, Running
<1>1. CASE StartCycle
  BY <1>1 DEF StartCycle, memory, history
<1>2. CASE MeasureDrawdown
  BY <1>2 DEF MeasureDrawdown, history
<1>3. CASE PricesFail
  BY <1>3 DEF PricesFail, Abort, history
<1>4. CASE RunEngine
  <2>1. stop' = "durable" => stop = "durable"
    BY <1>4 DEF RunEngine
  <2> QED  BY <1>4, <2>1 DEF RunEngine
<1>5. CASE SaveLearningState
  BY <1>5 DEF SaveLearningState, Abort, history
<1>6. CASE RecordCycle
  BY <1>6 DEF RecordCycle, memory, history
<1>7. CASE Reconcile
  BY <1>7 DEF Reconcile, history
<1>8. CASE EngageLatch
  BY <1>8 DEF EngageLatch, history
<1>9. CASE PersistCycle
  BY <1>9 DEF PersistCycle, PersistOrRaise, Snapshot, Abort
<1>10. CASE AskReset
  BY <1>10 DEF AskReset, memory, history
<1>11. CASE ResetNothing
  BY <1>11 DEF ResetNothing, memory
<1>12. CASE ResetLatch
  BY <1>12 DEF ResetLatch
<1>13. CASE PersistReset
  BY <1>13 DEF PersistReset, PersistOrRaise, Snapshot, memory
<1>14. CASE Crash
  BY <1>14 DEF Crash, Forgotten, history
<1>15. CASE Interrupt
  BY <1>15 DEF Interrupt, PersistOrRaise, Snapshot, Forgotten
<1>16. CASE Restart
  BY <1>16 DEF Restart, RestoreLoopState, history
<1>17. CASE RestartRefused
  BY <1>17 DEF RestartRefused, memory, history
<1>18. CASE UNCHANGED vars
  BY <1>18 DEF vars, memory, history
<1> QED
  BY <1>1, <1>2, <1>3, <1>4, <1>5, <1>6, <1>7, <1>8, <1>9, <1>10, <1>11, <1>12,
     <1>13, <1>14, <1>15, <1>16, <1>17, <1>18 DEF Next, CycleStep

\* The latch invariant holds for ever.
THEOREM LatchIsSound == "unreadable" \notin Faults /\ Spec => []LatchInv
<1>1. ASSUME "unreadable" \notin Faults PROVE Spec => []LatchInv
  <2>1. LatchInv /\ [Next]_vars => LatchInv'
    BY <1>1, StepLatchInv
  <2> QED  BY <2>1, InitLatchInv, PTL DEF Spec
<1> QED  BY <1>1

\* Every step of the service is a step of Halt or leaves Halt's variables alone:
\* only the gate's approval counts as trading, and it never meets a durable stop.
LEMMA StepImplementsHalt ==
  ASSUME LatchInv, [Next]_vars
  PROVE  [Latch!Next]_(Latch!vars)
<1> USE DEF LatchInv, Points, InCycle, Down, Running, Latch!Next, Latch!vars,
            Latch!Stop, Latch!Trade, Latch!Reenable
<1>1. CASE RunEngine
  <2>1. stop # "durable"
    BY <1>1 DEF RunEngine
  <2>2. PICK k \in BOOLEAN, o \in BOOLEAN : \E v \in {Gate(k, cycle.drawdown, o)}
                   \cup (IF "gate" \in Faults THEN {GateError} ELSE {}) :
            /\ stop' = IF v.hardStop /\ stop = "none" THEN "found" ELSE stop
            /\ submitted' \in {submitted} \cup (IF v.approved THEN {submitted + 1} ELSE {})
    BY <1>1 DEF RunEngine
  <2>3. stop' # "durable" /\ (submitted' = submitted \/ submitted' = submitted + 1)
    BY <2>1, <2>2
  <2> QED  BY <1>1, <2>1, <2>3 DEF RunEngine
<1>2. CASE PersistCycle
  BY <1>2 DEF PersistCycle, PersistOrRaise
<1>3. CASE ResetNothing
  <2>1. stop # "durable"
    BY <1>3 DEF ResetNothing
  <2> QED  BY <1>3, <2>1 DEF ResetNothing
<1>4. CASE ResetLatch
  BY <1>4 DEF ResetLatch
<1>5. CASE PersistReset
  BY <1>5 DEF PersistReset, PersistOrRaise
<1>6. CASE Interrupt
  BY <1>6 DEF Interrupt, PersistOrRaise
<1>7. CASE UNCHANGED history
  BY <1>7 DEF history
<1>8. \/ RunEngine \/ PersistCycle \/ ResetNothing \/ ResetLatch \/ PersistReset
      \/ Interrupt \/ UNCHANGED history
  BY DEF Next, CycleStep, vars, StartCycle, MeasureDrawdown, PricesFail, SaveLearningState,
         RecordCycle, Reconcile, EngageLatch, AskReset, Crash, Restart, RestartRefused
<1> QED  BY <1>1, <1>2, <1>3, <1>4, <1>5, <1>6, <1>7, <1>8

\* The service's latch is the durable hard stop that the directive asks for: once
\* a hard stop's cycle has been persisted no order goes out before an operator's
\* reset, for any NAVs and bounds, with any crash, interrupt or lost write.
THEOREM HardStopImplementsHalt == "unreadable" \notin Faults /\ Spec => ImplementsHalt
<1>1. Init => Latch!Init
  BY DEF Init, Latch!Init
<1>2. ASSUME "unreadable" \notin Faults PROVE Spec => ImplementsHalt
  <2>1. Spec => []LatchInv
    BY <1>2, LatchIsSound
  <2>2. LatchInv /\ [Next]_vars => [Latch!Next]_(Latch!vars)
    BY StepImplementsHalt
  <2> QED  BY <1>1, <2>1, <2>2, PTL DEF Spec, ImplementsHalt, Latch!Spec
<1> QED  BY <1>2

(***************************************************************************)
(* The drawdown governor's peak                                            *)
(***************************************************************************)
PeakInv ==
    /\ pc \in Points
    /\ peak \in Nat /\ disk.peak \in Nat
    /\ Running => peak >= disk.peak

\* The peak held by a running service is never below the one it persisted.
LEMMA StepPeakInv ==
  ASSUME "unreadable" \notin Faults, PeakInv, [Next]_vars
  PROVE  PeakInv'
<1> USE NavAssumption DEF PeakInv, Points, InCycle, Down, Running, HigherPeak
<1>1. CASE StartCycle
  BY <1>1 DEF StartCycle, memory
<1>2. CASE MeasureDrawdown
  BY <1>2 DEF MeasureDrawdown
<1>3. CASE PricesFail
  BY <1>3 DEF PricesFail, Abort
<1>4. CASE RunEngine
  BY <1>4 DEF RunEngine
<1>5. CASE SaveLearningState
  BY <1>5 DEF SaveLearningState, Abort
<1>6. CASE RecordCycle
  BY <1>6 DEF RecordCycle, memory
<1>7. CASE Reconcile
  BY <1>7 DEF Reconcile
<1>8. CASE EngageLatch
  BY <1>8 DEF EngageLatch
<1>9. CASE PersistCycle
  BY <1>9 DEF PersistCycle, PersistOrRaise, Snapshot, Abort
<1>10. CASE AskReset
  BY <1>10 DEF AskReset, memory
<1>11. CASE ResetNothing
  BY <1>11 DEF ResetNothing, memory
<1>12. CASE ResetLatch
  BY <1>12 DEF ResetLatch
<1>13. CASE PersistReset
  BY <1>13 DEF PersistReset, PersistOrRaise, Snapshot, memory
<1>14. CASE Crash
  BY <1>14 DEF Crash, Forgotten
<1>15. CASE Interrupt
  BY <1>15 DEF Interrupt, PersistOrRaise, Snapshot, Forgotten
<1>16. CASE Restart
  BY <1>16 DEF Restart, RestoreLoopState
<1>17. CASE RestartRefused
  BY <1>17 DEF RestartRefused, memory
<1>18. CASE UNCHANGED vars
  BY <1>18 DEF vars, memory
<1> QED
  BY <1>1, <1>2, <1>3, <1>4, <1>5, <1>6, <1>7, <1>8, <1>9, <1>10, <1>11, <1>12,
     <1>13, <1>14, <1>15, <1>16, <1>17, <1>18 DEF Next, CycleStep

\* The drawdown governor never measures from a peak below a persisted one, for any
\* NAVs, with any crash, interrupt, failed read or lost write.
THEOREM PeakIsKept == "unreadable" \notin Faults /\ Spec => []GovernorKeepsPeak
<1>1. Init => PeakInv
  BY DEF Init, PeakInv, NewState, Points, InCycle, Down, Running
<1>2. PeakInv => GovernorKeepsPeak
  BY DEF PeakInv, GovernorKeepsPeak
<1>3. ASSUME "unreadable" \notin Faults PROVE Spec => []GovernorKeepsPeak
  <2>1. PeakInv /\ [Next]_vars => PeakInv'
    BY <1>3, StepPeakInv
  <2> QED  BY <1>1, <1>2, <2>1, PTL DEF Spec
<1> QED  BY <1>3

(***************************************************************************)
(* What the audit trail says                                               *)
(***************************************************************************)
AuditInv ==
    /\ LatchInv
    /\ file \in [broken : BOOLEAN, kill : KillEvents \cup {"none", "missed"}]
    /\ unsaved \in BOOLEAN
    /\ stop = "durable" => file.kill \in {"engage", "missed"}
    /\ pc = "persist" /\ cycle.verdict.hardStop => file.kill \in {"engage", "missed"}

\* An append of a cycle's event leaves the last KILL_SWITCH event alone, and one of
\* a kill event is the last one, or is missed.
LEMMA AppendKeepsFile ==
  ASSUME AuditInv, NEW kind, LedgerAppend(kind)
  PROVE  /\ file' \in [broken : BOOLEAN, kill : KillEvents \cup {"none", "missed"}]
         /\ unsaved' \in BOOLEAN
         /\ kind \notin KillEvents => file'.kill = file.kill
         /\ kind \in KillEvents => file'.kill \in {kind, "missed"}
<1>1. CASE /\ UNCHANGED unsaved
           /\ file' = [broken |-> file.broken \/ unsaved,
                       kill   |-> IF kind \in KillEvents THEN kind ELSE file.kill]
  BY <1>1 DEF AuditInv
<1>2. CASE /\ unsaved' = TRUE
           /\ file' = IF kind \in KillEvents THEN [file EXCEPT !.kill = "missed"] ELSE file
  BY <1>2 DEF AuditInv
<1> QED  BY <1>1, <1>2 DEF LedgerAppend

\* Every step keeps the audit invariant.
LEMMA StepAuditInv ==
  ASSUME "unreadable" \notin Faults, AuditInv, [Next]_vars
  PROVE  AuditInv'
<1>1. LatchInv'
  BY StepLatchInv DEF AuditInv
<1>2. CASE RecordCycle
  <2>1. LedgerAppend("cycle")
    BY <1>2 DEF RecordCycle
  <2>2. /\ file' \in [broken : BOOLEAN, kill : KillEvents \cup {"none", "missed"}]
        /\ unsaved' \in BOOLEAN /\ file'.kill = file.kill
    BY <2>1, AppendKeepsFile DEF KillEvents
  <2>3. pc' = "reconcile" /\ stop' = stop
    BY <1>2 DEF RecordCycle, history
  <2> QED  BY <1>1, <2>2, <2>3 DEF AuditInv
<1>3. CASE Reconcile
  <2>1. UNCHANGED trail \/ LedgerAppend("reconciliation")
    BY <1>3 DEF Reconcile
  <2>2. /\ file' \in [broken : BOOLEAN, kill : KillEvents \cup {"none", "missed"}]
        /\ unsaved' \in BOOLEAN /\ file'.kill = file.kill
    BY <2>1, AppendKeepsFile DEF KillEvents, AuditInv, trail
  <2>3. pc' = "engage" /\ stop' = stop
    BY <1>3 DEF Reconcile, history
  <2> QED  BY <1>1, <2>2, <2>3 DEF AuditInv
<1> USE <1>1 DEF AuditInv, LatchInv, InCycle, KillEvents
<1>4. CASE EngageLatch
  BY <1>4, AppendKeepsFile DEF EngageLatch, trail, history
<1>5. CASE ResetLatch
  BY <1>5, AppendKeepsFile DEF ResetLatch
<1>6. CASE RunEngine
  <2>1. stop' = "durable" => stop = "durable"
    BY <1>6 DEF RunEngine
  <2> QED  BY <1>6, <2>1 DEF RunEngine, trail
<1>7. CASE PersistCycle
  BY <1>7 DEF PersistCycle, PersistOrRaise, Abort, trail
<1>8. CASE Crash
  BY <1>8 DEF Crash, Forgotten, history
<1>9. CASE Interrupt
  BY <1>9 DEF Interrupt, PersistOrRaise, Forgotten
<1>10. CASE Restart
  BY <1>10 DEF Restart, trail, history
<1>11. CASE ResetNothing
  BY <1>11 DEF ResetNothing, memory, trail
<1>12. CASE PersistReset
  BY <1>12 DEF PersistReset, PersistOrRaise, memory, trail
<1>13. CASE UNCHANGED <<trail, history>> /\ pc' # "persist"
  BY <1>13 DEF trail, history
<1>14. CASE UNCHANGED vars
  BY <1>14 DEF vars, memory, trail, history
<1>15. CASE AskReset
  BY <1>15 DEF AskReset, memory, trail, history
<1> QED
  BY <1>2, <1>3, <1>4, <1>5, <1>6, <1>7, <1>8, <1>9, <1>10, <1>11, <1>12, <1>13, <1>14, <1>15
  DEF Next, CycleStep, StartCycle, MeasureDrawdown, PricesFail, SaveLearningState,
      Abort, RestartRefused

\* The ledger's last KILL_SWITCH event tells of a durable stop, unless its append
\* raised: no crash, restart or later append hides it.
THEOREM AuditTellsTheStop == "unreadable" \notin Faults /\ Spec => []AuditShowsStop
<1>1. Init => AuditInv
  <2> SUFFICES ASSUME Init PROVE AuditInv
    OBVIOUS
  <2>1. LatchInv
    BY InitLatchInv
  <2>2. file = [broken |-> FALSE, kill |-> "none"] /\ unsaved = FALSE /\ stop = "none" /\ pc = "idle"
    BY DEF Init, NewFile
  <2>3. file \in [broken : BOOLEAN, kill : KillEvents \cup {"none", "missed"}]
    BY <2>2
  <2> QED  BY <2>1, <2>2, <2>3 DEF AuditInv
<1>2. AuditInv => AuditShowsStop
  BY DEF AuditInv, AuditShowsStop
<1>3. ASSUME "unreadable" \notin Faults PROVE Spec => []AuditShowsStop
  <2>1. AuditInv /\ [Next]_vars => AuditInv'
    BY <1>3, StepAuditInv
  <2> QED  BY <1>1, <1>2, <2>1, PTL DEF Spec
<1> QED  BY <1>3
=============================================================================
