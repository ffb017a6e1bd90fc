-------------------------- MODULE OperationsProofs --------------------------
(***************************************************************************)
(* Proofs about the cycles of operations: the ledger of one cycle, for any *)
(* workers, stages, symbols, attempts and crashes (OperationsLedger), and  *)
(* what successive cycles make of each other, for any cycles, cutoffs and  *)
(* evidence (MonitoringCycle).                                             *)
(***************************************************************************)
EXTENDS OperationsLedger, MonitoringCycle, FiniteSetTheorems, TLAPS

\* What holds of the rows themselves, also when processes overrun.
RowInv == TypeOK /\ LeaseMatchesStatus /\ AttemptsWithinProfile

\* FinishRun leaves a well-typed row without an owner.
LEMMA FinishRunRow ==
    ASSUME NEW w \in Worker,
           NEW status \in Settled,
           FinishRun(w, status)
    PROVE  run' \in RunRow /\ run'.status = status /\ run'.owner = None
BY LedgerAssumption DEF FinishRun, RunRow, Settled, Closed

\* A cycle closes with one of the two completed statuses, which settle it.
LEMMA ClosingIsSettled ==
    ASSUME NEW rec
    PROVE  ClosingStatus(rec) \in Closed /\ ClosingStatus(rec) \in Settled
BY DEF ClosingStatus, Closed, Settled

\* What a read transaction sees (_required_run) is a well-typed ledger.
LEMMA SnapshotTyped == TypeOK => Snapshot \in Ledger
BY DEF TypeOK, Snapshot, Ledger

\* Setting one column of a row keeps the type of the row.
LEMMA ExpiryTyped ==
    ASSUME NEW r \in RunRow, NEW e \in 0..LeaseTerm
    PROVE  [r EXCEPT !.expiry = e] \in RunRow
BY DEF RunRow

\* Setting the status of one stage row keeps the type of the stage rows.
LEMMA StatusTyped ==
    ASSUME NEW rec \in [Stage -> StageRow],
           NEW s \in Stage,
           NEW status \in {"planned", "running", "completed", "failed", "blocked"}
    PROVE  [rec EXCEPT ![s].status = status] \in [Stage -> StageRow]
BY DEF StageRow

\* Every step keeps the type of every variable.
LEMMA TypeStep == TypeOK /\ [Next]_vars => TypeOK'
<1> SUFFICES ASSUME TypeOK, [Next]_vars
             PROVE  TypeOK'
  OBVIOUS
<1> USE LedgerAssumption DEF rows, Stage
<1>1. CASE UNCHANGED vars
  BY <1>1 DEF TypeOK, vars, Ledger
<1>2. ASSUME NEW w \in Worker, CreateRun(w)
      PROVE  TypeOK'
  BY <1>2 DEF TypeOK, CreateRun, RunRow
<1>3. ASSUME NEW w \in Worker, AcquireLease(w) \/ RecoverLease(w)
      PROVE  TypeOK'
  <2>1. run' \in RunRow
    BY <1>3 DEF AcquireLease, RecoverLease, StartLoop, RunRow
  <2>2. /\ pc' = [pc EXCEPT ![w] = "read"]
        /\ at' = [at EXCEPT ![w] = 1]
        /\ UNCHANGED <<stage, symbol, view, crashes>>
    BY <1>3 DEF AcquireLease, RecoverLease, StartLoop
  <2>3. QED
    BY <2>1, <2>2 DEF TypeOK, Deciding
<1>4. ASSUME NEW w \in Worker, ReadLedger(w)
      PROVE  TypeOK'
  BY <1>4, SnapshotTyped DEF TypeOK, ReadLedger, Deciding
<1>5. ASSUME NEW w \in Worker, SkipCompleted(w)
      PROVE  TypeOK'
  BY <1>5 DEF TypeOK, SkipCompleted, Deciding
<1>6. ASSUME NEW w \in Worker, StartStage(w)
      PROVE  TypeOK'
  <2>1. view[w].stage[at[w]].attempts + 1 \in Nat
    <3>1. view[w] \in Ledger /\ at[w] \in Stage
      BY <1>6 DEF TypeOK, StartStage, StageDue, Deciding
    <3>2. view[w].stage[at[w]] \in StageRow
      BY <3>1 DEF Ledger
    <3>3. QED
      BY <3>2 DEF StageRow
  <2>2. stage' \in [Stage -> StageRow]
    <3>1. stage' = [stage EXCEPT
                      ![at[w]].status = "running",
                      ![at[w]].attempts = view[w].stage[at[w]].attempts + 1]
      BY <1>6 DEF StartStage
    <3>2. at[w] \in Stage /\ stage[at[w]] \in StageRow
      BY <1>6 DEF TypeOK, StartStage, StageDue
    <3>3. stage' = [stage EXCEPT ![at[w]] =
                      [stage[at[w]] EXCEPT
                         !.status = "running",
                         !.attempts = view[w].stage[at[w]].attempts + 1]]
      BY <3>1, <3>2 DEF TypeOK
    <3>4. [stage[at[w]] EXCEPT
             !.status = "running",
             !.attempts = view[w].stage[at[w]].attempts + 1] \in StageRow
      BY <3>2, <2>1 DEF StageRow
    <3>5. QED
      BY <3>2, <3>3, <3>4 DEF TypeOK
  <2>3. run' \in RunRow
    <3>1. run' = [run EXCEPT !.expiry = LeaseTerm]
      BY <1>6 DEF StartStage
    <3>2. LeaseTerm \in 0..LeaseTerm
      OBVIOUS
    <3>3. QED
      BY <3>1, <3>2, ExpiryTyped DEF TypeOK
  <2>4. QED
    BY <1>6, <2>2, <2>3 DEF TypeOK, StartStage, StageDue, Deciding
<1>7. ASSUME NEW w \in Worker, FailAtLimit(w)
      PROVE  TypeOK'
  BY <1>7, FinishRunRow DEF TypeOK, FailAtLimit, Leave, Deciding, Settled, Closed
<1>8. ASSUME NEW w \in Worker, ReadAfterStage(w)
      PROVE  TypeOK'
  BY <1>8, SnapshotTyped DEF TypeOK, ReadAfterStage, Deciding
<1>9. ASSUME NEW w \in Worker, FinishStage(w)
      PROVE  TypeOK'
  <2>1. PICK bad \in SUBSET Symbol :
          stage' = [stage EXCEPT ![at[w]].status = "completed", ![at[w]].failed = bad]
    BY <1>9 DEF FinishStage
  <2>2. at[w] \in Stage
    BY <1>9 DEF TypeOK, FinishStage
  <2>3. stage' = [stage EXCEPT ![at[w]] =
                    [stage[at[w]] EXCEPT !.status = "completed", !.failed = bad]]
    BY <2>1, <2>2 DEF TypeOK
  <2>4. stage[at[w]] \in StageRow
    BY <2>2 DEF TypeOK
  <2>5. [stage[at[w]] EXCEPT !.status = "completed", !.failed = bad] \in StageRow
    BY <2>4 DEF StageRow
  <2>6. stage' \in [Stage -> StageRow]
    BY <2>2, <2>3, <2>5 DEF TypeOK
  <2>7. QED
    BY <1>9, <2>2, <2>6 DEF TypeOK, FinishStage, Deciding
<1>10. ASSUME NEW w \in Worker, FailStage(w)
       PROVE  TypeOK'
  <2>1. stage' \in [Stage -> StageRow]
    BY <1>10, StatusTyped DEF TypeOK, FailStage
  <2>2. CASE at[w] \in Required
    BY <1>10, <2>1, <2>2 DEF TypeOK, FailStage, Deciding
  <2>3. CASE at[w] \notin Required
    <3>1. /\ pc' = [pc EXCEPT ![w] = "read"]
          /\ at' = [at EXCEPT ![w] = at[w] + 1]
          /\ view' = [view EXCEPT ![w] = None]
          /\ UNCHANGED <<run, symbol, crashes>>
      BY <1>10, <2>3 DEF FailStage
    <3>2. at[w] \in Stage
      BY <1>10 DEF TypeOK, FailStage
    <3>3. at' \in [Worker -> 1..(StageCount + 1)]
      BY <3>1, <3>2 DEF TypeOK
    <3>4. QED
      BY <2>1, <3>1, <3>3 DEF TypeOK, Deciding
  <2>4. QED
    BY <2>2, <2>3
<1>11. ASSUME NEW w \in Worker, ReadAfterFailure(w)
       PROVE  TypeOK'
  BY <1>11, SnapshotTyped DEF TypeOK, ReadAfterFailure, Deciding
<1>12. ASSUME NEW w \in Worker, BlockAndFail(w)
       PROVE  TypeOK'
  <2>1. stage' \in [Stage -> StageRow]
    <3>1. ASSUME NEW s \in Stage
          PROVE  /\ stage[s] \in StageRow
                 /\ [stage[s] EXCEPT !.status = "blocked"] \in StageRow
      <4>1. stage[s] \in StageRow
        BY DEF TypeOK
      <4>2. QED
        BY <4>1 DEF StageRow
    <3>2. stage' = [s \in Stage |->
                      IF view[w].stage[s].status = "planned"
                      THEN [stage[s] EXCEPT !.status = "blocked"]
                      ELSE stage[s]]
      BY <1>12 DEF BlockAndFail
    <3>3. QED
      BY <3>1, <3>2
  <2>2. QED
    BY <1>12, <2>1, FinishRunRow DEF TypeOK, BlockAndFail, Leave, Deciding, Settled, Closed
<1>13. ASSUME NEW w \in Worker, FinishCycle(w)
       PROVE  TypeOK'
  <2>1. symbol' \in [Symbol -> SymbolStatus]
    BY <1>13 DEF FinishCycle, SymbolStatus
  <2>2. QED
    BY <1>13, <2>1, FinishRunRow, ClosingIsSettled DEF TypeOK, FinishCycle, Leave, Deciding
<1>14. ASSUME NEW w \in Worker, Die(w)
       PROVE  TypeOK'
  BY <1>14 DEF TypeOK, Die, Leave, Deciding
<1>15. ASSUME NEW w \in Worker, Crash(w)
       PROVE  TypeOK'
  BY <1>15 DEF TypeOK, Crash, Leave, Deciding
<1>16. CASE Tick
  <2>1. run.expiry - 1 \in 0..LeaseTerm
    BY <1>16 DEF TypeOK, Tick, RunRow
  <2>2. run' \in RunRow
    BY <1>16, <2>1, ExpiryTyped DEF TypeOK, Tick
  <2>3. QED
    BY <1>16, <2>2 DEF TypeOK, Tick
<1>17. QED
  BY <1>1, <1>2, <1>3, <1>4, <1>5, <1>6, <1>7, <1>8, <1>9, <1>10, <1>11, <1>12,
     <1>13, <1>14, <1>15, <1>16 DEF Next, Drive

\* TypeOK holds of every state of the ledger.
THEOREM TypeCorrect == Spec => []TypeOK
<1>1. Init => TypeOK
  BY LedgerAssumption DEF Init, TypeOK, RunRow, StageRow, SymbolStatus, Deciding, Stage
<1>2. QED
  BY <1>1, TypeStep, PTL DEF Spec

-----------------------------------------------------------------------------
(* The lease row and the attempts, whatever the processes do. *)

\* Every step that writes the run row writes status and owner together.
LEMMA RowStep == RowInv /\ [Next]_vars => RowInv'
<1> SUFFICES ASSUME RowInv, [Next]_vars
             PROVE  RowInv'
  OBVIOUS
<1> USE LedgerAssumption
<1>0. TypeOK /\ TypeOK'
  BY TypeStep DEF RowInv
<1>1. LeaseMatchesStatus'
  <2>1. ASSUME NEW w \in Worker, CreateRun(w)
        PROVE  LeaseMatchesStatus'
    BY <2>1, <1>0 DEF CreateRun, RowInv, TypeOK, LeaseMatchesStatus, RunRow
  <2>2. ASSUME NEW w \in Worker, AcquireLease(w) \/ RecoverLease(w)
        PROVE  LeaseMatchesStatus'
    BY <2>2 DEF AcquireLease, RecoverLease, StartLoop, LeaseMatchesStatus
  <2>3. ASSUME run' = [run EXCEPT !.expiry = run'.expiry]
        PROVE  LeaseMatchesStatus'
    BY <2>3, <1>0 DEF RowInv, TypeOK, LeaseMatchesStatus, RunRow
  <2>4. ASSUME NEW w \in Worker, StartStage(w)
        PROVE  LeaseMatchesStatus'
    BY <2>4, <2>3, <1>0 DEF StartStage, TypeOK, RunRow
  <2>5. CASE Tick
    BY <2>5, <2>3, <1>0 DEF Tick, TypeOK, RunRow
  <2>6. ASSUME NEW w \in Worker, NEW status \in Settled, FinishRun(w, status)
        PROVE  LeaseMatchesStatus'
    BY <2>6, FinishRunRow DEF LeaseMatchesStatus, Settled, Closed
  <2>7. ASSUME NEW w \in Worker, FailAtLimit(w) \/ BlockAndFail(w) \/ FinishCycle(w)
        PROVE  LeaseMatchesStatus'
    BY <2>7, <2>6, ClosingIsSettled DEF FailAtLimit, BlockAndFail, FinishCycle, Settled
  <2>8. CASE UNCHANGED run
    BY <2>8 DEF RowInv, LeaseMatchesStatus
  <2>9. QED
    BY <2>1, <2>2, <2>4, <2>5, <2>7, <2>8
    DEF Next, Drive, vars, rows, ReadLedger, SkipCompleted, ReadAfterStage,
        FinishStage, FailStage, ReadAfterFailure, Die, Crash
<1>2. AttemptsWithinProfile'
  <2>1. ASSUME NEW w \in Worker, StartStage(w), NEW s \in Stage
        PROVE  stage'[s].attempts <= MaxAttempts
    <3>1. view[w].stage[at[w]].attempts \in Nat
      BY <2>1, <1>0 DEF StartStage, StageDue, TypeOK, Deciding, Ledger, StageRow
    <3>2. view[w].stage[at[w]].attempts + 1 <= MaxAttempts
      BY <2>1, <3>1 DEF StartStage, StageDue
    <3>3. CASE s = at[w]
      BY <2>1, <3>2, <3>3, <1>0 DEF StartStage, TypeOK, StageRow
    <3>4. CASE s # at[w]
      BY <2>1, <3>4, <1>0 DEF StartStage, RowInv, AttemptsWithinProfile, TypeOK, StageRow
    <3>5. QED
      BY <3>3, <3>4
  <2>2. ASSUME \A s \in Stage : stage'[s].attempts = stage[s].attempts
        PROVE  AttemptsWithinProfile'
    BY <2>2 DEF RowInv, AttemptsWithinProfile
  <2>3. ASSUME NEW w \in Worker, FinishStage(w)
        PROVE  AttemptsWithinProfile'
    BY <2>3, <2>2, <1>0 DEF FinishStage, TypeOK, StageRow
  <2>4. ASSUME NEW w \in Worker, FailStage(w)
        PROVE  AttemptsWithinProfile'
    BY <2>4, <2>2, <1>0 DEF FailStage, TypeOK, StageRow
  <2>5. ASSUME NEW w \in Worker, BlockAndFail(w)
        PROVE  AttemptsWithinProfile'
    BY <2>5, <2>2, <1>0 DEF BlockAndFail, TypeOK, StageRow
  <2>6. CASE UNCHANGED stage
    BY <2>6, <2>2
  <2>7. QED
    BY <2>1, <2>3, <2>4, <2>5, <2>6
    DEF Next, Drive, vars, rows, AttemptsWithinProfile, CreateRun, AcquireLease,
        RecoverLease, StartLoop, ReadLedger, SkipCompleted, FailAtLimit,
        ReadAfterStage, ReadAfterFailure, FinishCycle, Die, Crash, Tick
<1>3. QED
  BY <1>0, <1>1, <1>2 DEF RowInv

\* Whatever the processes do, and whether or not a stage outlasts its lease, the
\* rows are well typed, the lease owner is set exactly while the run is running
\* and no stage exceeds its attempts (acquire_lease, start_stage, finish_run).
THEOREM RowInvariant == Spec => []RowInv
<1>1. Init => RowInv
  BY LedgerAssumption DEF Init, RowInv, TypeOK, LeaseMatchesStatus,
     AttemptsWithinProfile, RunRow, StageRow, SymbolStatus, Deciding, Stage
<1>2. QED
  BY <1>1, RowStep, PTL DEF Spec

\* The run row names a lease owner exactly while the run is running.
THEOREM LeaseRowCoherent == Spec => []LeaseMatchesStatus
BY RowInvariant, PTL DEF RowInv

\* No stage is ever started more often than the profile allows.
THEOREM AttemptsBounded == Spec => []AttemptsWithinProfile
BY RowInvariant, PTL DEF RowInv

-----------------------------------------------------------------------------
(* Under the lease: no stage outlasts it. *)

\* A stage that ran has an attempt on record.
AttemptRecorded ==
    \A s \in Stage :
      stage[s].status \in {"running", "completed", "failed"} => stage[s].attempts > 0

CycleInv ==
    /\ RowInv
    /\ AttemptRecorded
    /\ DriverInv
    /\ PredecessorsDone
    /\ CompletedCycleIsWhole
    /\ FailedCycleHasCause

\* The owner column names one process, so at most one is up.
LEMMA OthersIdle ==
    ASSUME DriverInv, NEW w \in Worker, pc[w] # "idle",
           NEW v \in Worker, v # w
    PROVE  pc[v] = "idle"
BY DEF DriverInv, Drives

\* A process that is up drives a running cycle.
LEMMA DriverRuns ==
    ASSUME RowInv, DriverInv, NEW w \in Worker, pc[w] # "idle"
    PROVE  run.status = "running" /\ run.owner = w /\ run.expiry > 0
BY LedgerAssumption DEF DriverInv, Drives, RowInv, LeaseMatchesStatus

\* A step of w disturbs DriverInv at most for w itself.
LEMMA DriverOfOne ==
    ASSUME TypeOK, DriverInv, NEW w \in Worker, pc[w] # "idle",
           \E next : pc' = [pc EXCEPT ![w] = next],
           pc'[w] # "idle" => Drives(w)'
    PROVE  DriverInv'
<1>1. ASSUME NEW v \in Worker, v # w
      PROVE  pc'[v] = "idle"
  BY <1>1, OthersIdle DEF TypeOK
<1>2. QED
  BY <1>1 DEF DriverInv

\* A process that leaves disturbs nothing.
LEMMA LeaveKeepsDrivers ==
    ASSUME TypeOK, DriverInv, NEW w \in Worker, pc[w] # "idle", Leave(w)
    PROVE  DriverInv'
<1>1. pc' = [pc EXCEPT ![w] = "idle"] /\ pc'[w] = "idle"
  BY DEF Leave, TypeOK
<1>2. QED
  BY <1>1, DriverOfOne

\* Every step keeps the lease with the one process that is up, and what that
\* process has read equal to the rows.
LEMMA DriverStep ==
    ASSUME ~Overrun, CycleInv, [Next]_vars
    PROVE  DriverInv'
<1> USE LedgerAssumption
<1>0. TypeOK /\ DriverInv /\ RowInv
  BY DEF CycleInv, RowInv
<1>1. CASE UNCHANGED vars
  BY <1>1, <1>0 DEF vars, DriverInv, Drives
<1>2. ASSUME NEW w \in Worker, CreateRun(w)
      PROVE  DriverInv'
  BY <1>2, <1>0, DriverRuns DEF CreateRun, DriverInv
<1>3. ASSUME NEW w \in Worker, AcquireLease(w) \/ RecoverLease(w)
      PROVE  DriverInv'
  <2>1. \A v \in Worker : pc[v] = "idle"
    BY <1>3, <1>0, DriverRuns DEF AcquireLease, RecoverLease
  <2>2. /\ pc' = [pc EXCEPT ![w] = "read"]
        /\ at' = [at EXCEPT ![w] = 1]
        /\ run' = [status |-> "running", owner |-> w, expiry |-> LeaseTerm]
    BY <1>3 DEF AcquireLease, RecoverLease, StartLoop
  <2>3. \A v \in Worker : pc'[v] # "idle" => v = w
    BY <2>1, <2>2, <1>0 DEF TypeOK
  <2>4. Drives(w)'
    BY <2>2, <1>0 DEF Drives, TypeOK, Deciding, Stage
  <2>5. QED
    BY <2>3, <2>4 DEF DriverInv
<1>4. ASSUME NEW w \in Worker, ReadLedger(w)
      PROVE  DriverInv'
  <2>1. pc[w] = "read" /\ Drives(w) /\ run.status = "running"
    BY <1>4, <1>0, DriverRuns DEF ReadLedger, DriverInv
  <2>2. Drives(w)'
    BY <1>4, <2>1, <1>0 DEF ReadLedger, Drives, TypeOK, rows, Snapshot, Deciding
  <2>3. QED
    BY <1>4, <2>1, <2>2, <1>0, DriverOfOne DEF ReadLedger
<1>5. ASSUME NEW w \in Worker, SkipCompleted(w)
      PROVE  DriverInv'
  <2>1. pc[w] = "decide" /\ Drives(w)
    BY <1>5, <1>0 DEF SkipCompleted, DriverInv
  <2>2. stage[at[w]].status = "completed" /\ at[w] \in Stage
    BY <1>5, <2>1 DEF SkipCompleted, Drives, Deciding
  <2>3. stage[at[w]].attempts > 0
    BY <2>2 DEF CycleInv, AttemptRecorded
  <2>4. at'[w] = at[w] + 1 /\ UNCHANGED <<rows, pc, view>>
    BY <1>5, <1>0 DEF SkipCompleted, TypeOK
  <2>5. \A p \in Stage : p < at'[w] => p < at[w] \/ p = at[w]
    BY <2>2, <2>4 DEF Stage
  <2>6. Drives(w)'
    BY <2>1, <2>2, <2>3, <2>4, <2>5 DEF Drives, rows
  <2>7. pc' = [pc EXCEPT ![w] = pc[w]]
    BY <2>4, <1>0 DEF TypeOK
  <2>8. QED
    BY <2>1, <2>6, <2>7, <1>0, DriverOfOne
<1>6. ASSUME NEW w \in Worker, StartStage(w)
      PROVE  DriverInv'
  <2>1. pc[w] = "decide" /\ Drives(w) /\ run.owner = w
    BY <1>6, <1>0, DriverRuns DEF StartStage, DriverInv
  <2>2. /\ at[w] \in Stage
        /\ at' = at
        /\ pc' = [pc EXCEPT ![w] = "execute"]
        /\ run' = [run EXCEPT !.expiry = LeaseTerm]
        /\ stage' = [stage EXCEPT
                        ![at[w]].status = "running",
                        ![at[w]].attempts = view[w].stage[at[w]].attempts + 1]
    BY <1>6 DEF StartStage, StageDue
  <2>3. view[w].stage[at[w]].attempts \in Nat
    BY <2>1, <2>2, <1>0 DEF TypeOK, Deciding, Ledger, StageRow
  <2>4. stage'[at[w]].status = "running" /\ stage'[at[w]].attempts > 0
    BY <2>2, <2>3, <1>0 DEF TypeOK, StageRow
  <2>5. \A p \in Stage : p < at[w] => stage'[p] = stage[p]
    BY <2>2, <1>0 DEF TypeOK, Stage
  <2>6. run'.owner = w /\ run'.expiry > 0
    BY <2>1, <2>2, <1>0 DEF TypeOK, RunRow
  <2>7. Drives(w)'
    BY <2>1, <2>2, <2>4, <2>5, <2>6, <1>0 DEF Drives, TypeOK, Deciding
  <2>8. QED
    BY <2>1, <2>2, <2>7, <1>0, DriverOfOne
<1>7. ASSUME NEW w \in Worker,
             FailAtLimit(w) \/ BlockAndFail(w) \/ FinishCycle(w) \/ Die(w) \/ Crash(w)
      PROVE  DriverInv'
  BY <1>7, <1>0, LeaveKeepsDrivers
  DEF FailAtLimit, BlockAndFail, FinishCycle, Die, Refused, Crash
<1>8. ASSUME NEW w \in Worker, ReadAfterStage(w) \/ ReadAfterFailure(w)
      PROVE  DriverInv'
  <2>1. pc[w] \in {"execute", "failing"} /\ Drives(w) /\ run.status = "running"
    BY <1>8, <1>0, DriverRuns DEF ReadAfterStage, ReadAfterFailure, DriverInv
  <2>2. /\ view' = [view EXCEPT ![w] = Snapshot]
        /\ pc' = [pc EXCEPT ![w] = IF pc[w] = "execute" THEN "finish" ELSE "block"]
        /\ UNCHANGED <<run, stage, symbol, at>>
    BY <1>8 DEF ReadAfterStage, ReadAfterFailure, rows
  <2>3. Drives(w)'
    BY <2>1, <2>2, <1>0 DEF Drives, TypeOK, Snapshot, Deciding
  <2>4. QED
    BY <2>1, <2>2, <2>3, <1>0, DriverOfOne
<1>9. ASSUME NEW w \in Worker, FinishStage(w)
      PROVE  DriverInv'
  <2>1. pc[w] = "finish" /\ Drives(w)
    BY <1>9, <1>0 DEF FinishStage, DriverInv
  <2>2. /\ at' = [at EXCEPT ![w] = at[w] + 1]
        /\ pc' = [pc EXCEPT ![w] = "read"]
        /\ run' = run
    BY <1>9 DEF FinishStage
  <2>3. PICK bad : stage' = [stage EXCEPT ![at[w]].status = "completed",
                                           ![at[w]].failed = bad]
    BY <1>9 DEF FinishStage
  <2>4. at[w] \in Stage /\ stage[at[w]].attempts > 0
    BY <2>1, <1>0 DEF TypeOK, Drives
  <2>5. stage'[at[w]].status = "completed" /\ stage'[at[w]].attempts > 0
    BY <2>3, <2>4, <1>0 DEF TypeOK, StageRow
  <2>6. \A p \in Stage : p < at[w] => stage'[p] = stage[p]
    BY <2>3, <2>4, <1>0 DEF TypeOK, Stage
  <2>7. \A p \in Stage : p < at'[w] => p < at[w] \/ p = at[w]
    BY <2>2, <2>4, <1>0 DEF Stage, TypeOK
  <2>8. Drives(w)'
    BY <2>1, <2>2, <2>5, <2>6, <2>7, <1>0 DEF Drives, TypeOK, Deciding
  <2>9. QED
    BY <2>1, <2>2, <2>8, <1>0, DriverOfOne
<1>10. ASSUME NEW w \in Worker, FailStage(w)
       PROVE  DriverInv'
  <2>1. pc[w] = "finish" /\ Drives(w)
    BY <1>10, <1>0 DEF FailStage, DriverInv
  <2>2. stage' = [stage EXCEPT ![at[w]].status = "failed"] /\ run' = run
    BY <1>10 DEF FailStage
  <2>3. at[w] \in Stage /\ stage[at[w]].attempts > 0
    BY <2>1, <1>0 DEF TypeOK, Drives
  <2>4. stage'[at[w]].status = "failed" /\ stage'[at[w]].attempts > 0
    BY <2>2, <2>3, <1>0 DEF TypeOK, StageRow
  <2>5. \A p \in Stage : p < at[w] => stage'[p] = stage[p]
    BY <2>2, <2>3, <1>0 DEF TypeOK, Stage
  <2>6. CASE at[w] \in Required
    <3>1. pc' = [pc EXCEPT ![w] = "failing"] /\ at' = at
      BY <1>10, <2>6 DEF FailStage
    <3>2. Drives(w)'
      BY <3>1, <2>1, <2>2, <2>4, <2>5, <1>0 DEF Drives, TypeOK, Deciding
    <3>3. QED
      BY <3>1, <3>2, <2>1, <1>0, DriverOfOne
  <2>7. CASE at[w] \notin Required
    <3>1. pc' = [pc EXCEPT ![w] = "read"] /\ at' = [at EXCEPT ![w] = at[w] + 1]
      BY <1>10, <2>7 DEF FailStage
    <3>2. \A p \in Stage : p < at'[w] => p < at[w] \/ p = at[w]
      BY <3>1, <2>3, <1>0 DEF Stage, TypeOK
    <3>3. Drives(w)'
      BY <3>1, <3>2, <2>1, <2>2, <2>4, <2>5, <2>7, <1>0 DEF Drives, TypeOK, Deciding
    <3>4. QED
      BY <3>1, <3>3, <2>1, <1>0, DriverOfOne
  <2>8. QED
    BY <2>6, <2>7
<1>11. CASE Tick
  <2>1. run' = [run EXCEPT !.expiry = run.expiry - 1]
        /\ UNCHANGED <<stage, symbol, pc, at, view>>
    BY <1>11 DEF Tick
  <2>2. ASSUME NEW w \in Worker, pc[w] # "idle"
        PROVE  run'.owner = w /\ run'.expiry > 0
    <3>1. run.owner = w /\ run.expiry > 1
      BY <1>11, <2>2, <1>0, DriverRuns DEF Tick
    <3>2. QED
      BY <3>1, <2>1, <1>0 DEF TypeOK, RunRow
  <2>3. QED
    BY <2>1, <2>2, <1>0 DEF DriverInv, Drives
<1>12. QED
  BY <1>1, <1>2, <1>3, <1>4, <1>5, <1>6, <1>7, <1>8, <1>9, <1>10, <1>11
  DEF Next, Drive

\* How a step changes the stage rows: at most the stage its process has
\* reached, which was not completed, or planned rows that become blocked.
StageChange(w) ==
    \/ UNCHANGED stage
    \/ /\ at[w] \in Stage
       /\ stage[at[w]].status # "completed"
       /\ \A s \in Stage : s # at[w] => stage'[s] = stage[s]
       /\ stage'[at[w]].attempts > 0
       /\ stage'[at[w]].status \in {"running", "completed", "failed"}
    \/ \A s \in Stage :
         \/ stage'[s] = stage[s]
         \/ /\ stage[s].status = "planned"
            /\ stage'[s] = [stage[s] EXCEPT !.status = "blocked"]

\* Only a process that is up changes a stage row, and only in that way.
LEMMA StageStep ==
    ASSUME CycleInv, [Next]_vars
    PROVE  \/ UNCHANGED stage
           \/ \E w \in Worker : pc[w] # "idle" /\ StageChange(w)
<1> USE LedgerAssumption
<1>0. TypeOK /\ DriverInv
  BY DEF CycleInv, RowInv
<1>1. ASSUME NEW w \in Worker, StartStage(w)
      PROVE  pc[w] # "idle" /\ StageChange(w)
  <2>1. pc[w] = "decide" /\ Drives(w)
    BY <1>1, <1>0 DEF StartStage, DriverInv
  <2>2. at[w] \in Stage /\ stage[at[w]].status # "completed"
    BY <1>1, <2>1 DEF StartStage, StageDue, Drives, Deciding
  <2>3. view[w].stage[at[w]].attempts \in Nat
    BY <2>1, <2>2, <1>0 DEF TypeOK, Deciding, Ledger, StageRow
  <2>4. stage' = [stage EXCEPT
                    ![at[w]].status = "running",
                    ![at[w]].attempts = view[w].stage[at[w]].attempts + 1]
    BY <1>1 DEF StartStage
  <2>5. stage'[at[w]].status = "running" /\ stage'[at[w]].attempts > 0
    BY <2>2, <2>3, <2>4, <1>0 DEF TypeOK, StageRow
  <2>6. QED
    BY <2>1, <2>2, <2>4, <2>5, <1>0 DEF TypeOK, StageChange
<1>2. ASSUME NEW w \in Worker, FinishStage(w)
      PROVE  pc[w] # "idle" /\ StageChange(w)
  <2>1. pc[w] = "finish" /\ Drives(w)
    BY <1>2, <1>0 DEF FinishStage, DriverInv
  <2>2. PICK bad : stage' = [stage EXCEPT ![at[w]].status = "completed",
                                           ![at[w]].failed = bad]
    BY <1>2 DEF FinishStage
  <2>3. /\ at[w] \in Stage
        /\ stage[at[w]].status = "running"
        /\ stage[at[w]].attempts > 0
    BY <2>1, <1>0 DEF TypeOK, Drives
  <2>4. stage'[at[w]].status = "completed" /\ stage'[at[w]].attempts > 0
    BY <2>2, <2>3, <1>0 DEF TypeOK, StageRow
  <2>5. QED
    BY <2>1, <2>2, <2>3, <2>4, <1>0 DEF TypeOK, StageChange
<1>3. ASSUME NEW w \in Worker, FailStage(w)
      PROVE  pc[w] # "idle" /\ StageChange(w)
  <2>1. pc[w] = "finish" /\ Drives(w)
    BY <1>3, <1>0 DEF FailStage, DriverInv
  <2>2. stage' = [stage EXCEPT ![at[w]].status = "failed"]
    BY <1>3 DEF FailStage
  <2>3. /\ at[w] \in Stage
        /\ stage[at[w]].status = "running"
        /\ stage[at[w]].attempts > 0
    BY <2>1, <1>0 DEF TypeOK, Drives
  <2>4. stage'[at[w]].status = "failed" /\ stage'[at[w]].attempts > 0
    BY <2>2, <2>3, <1>0 DEF TypeOK, StageRow
  <2>5. QED
    BY <2>1, <2>2, <2>3, <2>4, <1>0 DEF TypeOK, StageChange
<1>4. ASSUME NEW w \in Worker, BlockAndFail(w)
      PROVE  pc[w] # "idle" /\ StageChange(w)
  <2>1. pc[w] = "block" /\ view[w].stage = stage
    BY <1>4, <1>0 DEF BlockAndFail, DriverInv, Drives, Deciding
  <2>2. QED
    BY <1>4, <2>1 DEF BlockAndFail, StageChange
<1>5. QED
  BY <1>1, <1>2, <1>3, <1>4
  DEF Next, Drive, vars, rows, CreateRun, AcquireLease, RecoverLease, StartLoop,
      ReadLedger, SkipCompleted, FailAtLimit, ReadAfterStage, ReadAfterFailure,
      FinishCycle, Die, Crash, Tick

\* A completed stage is never the one that changes.
LEMMA CompletedKept ==
    ASSUME CycleInv, [Next]_vars, NEW s \in Stage, stage[s].status = "completed"
    PROVE  stage'[s] = stage[s]
BY StageStep DEF StageChange

\* Every step keeps the order of the stages: _execute starts a stage only behind
\* attempted predecessors, whose required ones are completed.
LEMMA OrderStep ==
    ASSUME CycleInv, [Next]_vars
    PROVE  AttemptRecorded' /\ PredecessorsDone'
<1> USE LedgerAssumption
<1>0. /\ TypeOK
      /\ AttemptRecorded /\ PredecessorsDone
      /\ DriverInv
  BY DEF CycleInv, RowInv
<1>1. CASE UNCHANGED stage
  BY <1>0, <1>1 DEF AttemptRecorded, PredecessorsDone
<1>2. ASSUME NEW w \in Worker, pc[w] # "idle", StageChange(w), ~ UNCHANGED stage
      PROVE  AttemptRecorded' /\ PredecessorsDone'
  <2>1. Drives(w)
    BY <1>0, <1>2 DEF DriverInv
  <2>2. CASE /\ at[w] \in Stage
             /\ stage[at[w]].status # "completed"
             /\ \A s \in Stage : s # at[w] => stage'[s] = stage[s]
             /\ stage'[at[w]].attempts > 0
             /\ stage'[at[w]].status \in {"running", "completed", "failed"}
    <3>1. AttemptRecorded'
      BY <2>2, <1>0 DEF AttemptRecorded
    <3>2. ASSUME NEW s \in Stage, stage'[s].attempts > 0, NEW p \in Stage, p < s
          PROVE  /\ stage'[p].attempts > 0
                 /\ p \in Required => stage'[p].status = "completed"
      <4>1. CASE s = at[w]
        BY <4>1, <3>2, <2>1, <2>2 DEF Drives, Stage
      <4>2. CASE s # at[w] /\ p = at[w]
        BY <4>2, <3>2, <2>2, <1>0 DEF PredecessorsDone
      <4>3. CASE s # at[w] /\ p # at[w]
        BY <4>3, <3>2, <2>2, <1>0 DEF PredecessorsDone
      <4>4. QED
        BY <4>1, <4>2, <4>3
    <3>3. QED
      BY <3>1, <3>2 DEF PredecessorsDone
  <2>3. CASE \A s \in Stage :
               \/ stage'[s] = stage[s]
               \/ /\ stage[s].status = "planned"
                  /\ stage'[s] = [stage[s] EXCEPT !.status = "blocked"]
    <3>1. \A s \in Stage : stage'[s].attempts = stage[s].attempts
      BY <2>3, <1>0 DEF TypeOK, StageRow
    <3>2. \A s \in Stage : \/ stage'[s].status = stage[s].status
                           \/ stage[s].status = "planned" /\ stage'[s].status = "blocked"
      BY <2>3, <1>0 DEF TypeOK, StageRow
    <3>3. QED
      BY <3>1, <3>2, <1>0 DEF AttemptRecorded, PredecessorsDone
  <2>4. QED
    BY <1>2, <2>2, <2>3 DEF StageChange
<1>3. QED
  BY <1>1, <1>2, StageStep

\* How a step changes the status of the run.
LEMMA StatusStep ==
    ASSUME TypeOK, [Next]_vars
    PROVE  \/ run'.status = run.status
           \/ run'.status \in {"planned", "running"}
           \/ \E w \in Worker : (FailAtLimit(w) \/ BlockAndFail(w)) /\ run'.status = "failed"
           \/ \E w \in Worker : FinishCycle(w) /\ run'.status = ClosingStatus(view[w])
<1>1. ASSUME NEW w \in Worker, CreateRun(w)
      PROVE  run'.status = "planned"
  BY <1>1 DEF CreateRun, TypeOK, RunRow
<1>2. ASSUME NEW w \in Worker, AcquireLease(w) \/ RecoverLease(w)
      PROVE  run'.status = "running"
  BY <1>2 DEF AcquireLease, RecoverLease, StartLoop
<1>3. ASSUME NEW w \in Worker, StartStage(w)
      PROVE  run'.status = run.status
  BY <1>3 DEF StartStage, TypeOK, RunRow
<1>4. ASSUME NEW w \in Worker, FailAtLimit(w) \/ BlockAndFail(w)
      PROVE  run'.status = "failed"
  BY <1>4 DEF FailAtLimit, BlockAndFail, FinishRun
<1>5. ASSUME NEW w \in Worker, FinishCycle(w)
      PROVE  run'.status = ClosingStatus(view[w])
  BY <1>5 DEF FinishCycle, FinishRun
<1>6. CASE Tick
  BY <1>6 DEF Tick, TypeOK, RunRow
<1>7. CASE UNCHANGED run
  BY <1>7
<1>8. QED
  BY <1>1, <1>2, <1>3, <1>4, <1>5, <1>6, <1>7
  DEF Next, Drive, vars, rows, ReadLedger, SkipCompleted, ReadAfterStage,
      FinishStage, FailStage, ReadAfterFailure, Die, Crash

\* Every step keeps a closed cycle whole: FinishCycle closes it on all its stages
\* and no later step disturbs their rows.
LEMMA WholeStep ==
    ASSUME CycleInv, [Next]_vars
    PROVE  CompletedCycleIsWhole'
<1> USE LedgerAssumption
<1>0. /\ TypeOK /\ RowInv /\ DriverInv
      /\ CompletedCycleIsWhole
  BY DEF CycleInv, RowInv
<1>1. CASE run.status \in Closed
  <2>1. \A w \in Worker : pc[w] = "idle"
    BY <1>1, <1>0, DriverRuns DEF Closed
  <2>2. UNCHANGED <<stage, symbol>> /\ run'.status = run.status
    BY <2>1, <1>1, <1>0
    DEF Next, Drive, vars, CreateRun, AcquireLease, RecoverLease, ReadLedger,
        SkipCompleted, StartStage, FailAtLimit, ReadAfterStage, FinishStage,
        FailStage, ReadAfterFailure, BlockAndFail, FinishCycle, Die, Refused,
        Crash, Tick, Closed, TypeOK, RunRow
  <2>3. QED
    BY <2>2, <1>0 DEF CompletedCycleIsWhole
<1>2. ASSUME NEW w \in Worker, FinishCycle(w)
      PROVE  CompletedCycleIsWhole'
  <2>1. /\ Drives(w) /\ pc[w] = "decide"
        /\ at[w] = StageCount + 1
        /\ stage' = stage
    BY <1>2, <1>0 DEF FinishCycle, DriverInv
  <2>2. view[w].stage = stage
    BY <2>1 DEF Drives, Deciding
  <2>3. \A s \in Stage : /\ stage'[s].attempts > 0
                         /\ s \in Required => stage'[s].status = "completed"
    BY <2>1 DEF Drives, Stage
  <2>4. run'.status = ClosingStatus(view[w])
    BY <1>2 DEF FinishCycle, FinishRun
  <2>5. \A y \in Symbol : symbol'[y] =
          IF y \in FailedSymbols(view[w]) THEN "failed" ELSE "completed"
    BY <1>2 DEF FinishCycle
  <2>6. /\ FailedSymbols(view[w]) =
             stage'[FinancialStage].failed \cup stage'[ResearchStage].failed
        /\ FailedSymbols(view[w]) \subseteq Symbol
    BY <2>1, <2>2, <1>0 DEF FailedSymbols, TypeOK, StageRow
  <2>7. run'.status = "completed" <=> \A y \in Symbol : symbol'[y] = "completed"
    BY <2>4, <2>5, <2>6 DEF ClosingStatus
  <2>8. QED
    BY <2>3, <2>5, <2>6, <2>7 DEF CompletedCycleIsWhole
<1>3. CASE run.status \notin Closed /\ \A w \in Worker : ~FinishCycle(w)
  <2>1. run'.status \notin Closed
    BY <1>3, <1>0, StatusStep DEF Closed
  <2>2. QED
    BY <2>1 DEF CompletedCycleIsWhole
<1>4. QED
  BY <1>1, <1>2, <1>3

\* Every step keeps the cause of a failed cycle: _fail_run is reached only with one.
LEMMA CauseStep ==
    ASSUME CycleInv, [Next]_vars
    PROVE  FailedCycleHasCause'
<1> USE LedgerAssumption
<1>0. /\ TypeOK /\ RowInv /\ DriverInv
      /\ FailedCycleHasCause
  BY DEF CycleInv, RowInv
<1>1. ASSUME NEW w \in Worker, FailAtLimit(w)
      PROVE  FailedCycleHasCause'
  <2>1. view[w].stage = stage /\ stage' = stage /\ at[w] \in Stage
    BY <1>1, <1>0 DEF FailAtLimit, DriverInv, Drives, Deciding
  <2>2. stage[at[w]].attempts \in Nat /\ stage[at[w]].attempts <= MaxAttempts
    BY <2>1, <1>0 DEF RowInv, AttemptsWithinProfile, TypeOK, StageRow
  <2>3. stage[at[w]].attempts = MaxAttempts /\ stage[at[w]].status # "completed"
    BY <1>1, <2>1, <2>2 DEF FailAtLimit
  <2>4. QED
    BY <2>1, <2>3 DEF FailedCycleHasCause
<1>2. ASSUME NEW w \in Worker, BlockAndFail(w)
      PROVE  FailedCycleHasCause'
  <2>1. Drives(w) /\ pc[w] = "block"
    BY <1>2, <1>0 DEF BlockAndFail, DriverInv
  <2>2. /\ view[w].stage = stage
        /\ at[w] \in Stage
        /\ stage[at[w]].status = "failed"
    BY <2>1, <1>0 DEF Drives, Deciding, TypeOK
  <2>3. stage'[at[w]] = stage[at[w]]
    BY <1>2, <2>2 DEF BlockAndFail
  <2>4. QED
    BY <2>2, <2>3 DEF FailedCycleHasCause
<1>3. CASE run.status = "failed"
  <2>1. \A w \in Worker : pc[w] = "idle"
    BY <1>3, <1>0, DriverRuns
  <2>2. stage' = stage
    BY <2>1, StageStep
  <2>3. QED
    BY <1>3, <2>2, <1>0 DEF FailedCycleHasCause
<1>4. CASE run.status # "failed" /\ \A w \in Worker : ~FailAtLimit(w) /\ ~BlockAndFail(w)
  <2>1. run'.status # "failed"
    BY <1>4, <1>0, StatusStep, ClosingIsSettled DEF Closed
  <2>2. QED
    BY <2>1 DEF FailedCycleHasCause
<1>5. QED
  BY <1>1, <1>2, <1>3, <1>4

\* The invariant of a cycle is inductive as long as no stage outlasts its lease.
LEMMA CycleStep ==
    ASSUME ~Overrun, CycleInv, [Next]_vars
    PROVE  CycleInv'
BY RowStep, DriverStep, OrderStep, WholeStep, CauseStep DEF CycleInv

\* The invariant of a cycle holds before its row exists.
LEMMA CycleInit == Init => CycleInv
<1> SUFFICES ASSUME Init
             PROVE  CycleInv
  OBVIOUS
<1>1. TypeOK
  BY LedgerAssumption DEF Init, TypeOK, RunRow, StageRow, SymbolStatus, Deciding, Stage
<1>2. LeaseMatchesStatus /\ AttemptsWithinProfile
  BY LedgerAssumption DEF Init, LeaseMatchesStatus, AttemptsWithinProfile
<1>3. DriverInv /\ AttemptRecorded /\ PredecessorsDone
  BY DEF Init, DriverInv, AttemptRecorded, PredecessorsDone
<1>4. CompletedCycleIsWhole /\ FailedCycleHasCause
  BY DEF Init, CompletedCycleIsWhole, FailedCycleHasCause, Closed
<1>5. QED
  BY <1>1, <1>2, <1>3, <1>4 DEF CycleInv, RowInv

\* The invariant that carries the rest: a process that is up holds the live
\* lease and what it has read is what the rows say.
THEOREM CycleInvariant ==
    ASSUME ~Overrun
    PROVE  Spec => []CycleInv
<1>1. CycleInv /\ [Next]_vars => CycleInv'
  BY CycleStep
<1>2. QED
  BY <1>1, CycleInit, PTL DEF Spec

\* One process at a time drives the cycle (acquire_lease, recover_stale_lease).
THEOREM OneDriver ==
    ASSUME ~Overrun
    PROVE  Spec => []SingleDriver
<1>1. CycleInv => SingleDriver
  BY OthersIdle DEF CycleInv, SingleDriver
<1>2. QED
  BY <1>1, CycleInvariant, PTL

\* Stages start in order, each behind its completed required predecessors.
THEOREM StagesInOrder ==
    ASSUME ~Overrun
    PROVE  Spec => []PredecessorsDone
<1>1. CycleInv => PredecessorsDone
  BY DEF CycleInv
<1>2. QED
  BY <1>1, CycleInvariant, PTL

\* A cycle is closed only whole, with a status that tells its failed symbols.
THEOREM ClosedIsWhole ==
    ASSUME ~Overrun
    PROVE  Spec => []CompletedCycleIsWhole
<1>1. CycleInv => CompletedCycleIsWhole
  BY DEF CycleInv
<1>2. QED
  BY <1>1, CycleInvariant, PTL

\* A failed cycle has a failed stage or one that is out of attempts.
THEOREM FailureHasCause ==
    ASSUME ~Overrun
    PROVE  Spec => []FailedCycleHasCause
<1>1. CycleInv => FailedCycleHasCause
  BY DEF CycleInv
<1>2. QED
  BY <1>1, CycleInvariant, PTL

\* Whether it ended well or not, the outcome of a cycle is what its rows show.
THEOREM OutcomeIsTrue ==
    ASSUME ~Overrun
    PROVE  Spec => []OutcomeTellsStages
<1>1. CycleInv => OutcomeTellsStages
  BY DEF CycleInv, OutcomeTellsStages
<1>2. QED
  BY <1>1, CycleInvariant, PTL

\* No step, of a resume or of a late process, touches a completed stage.
THEOREM CompletedStagesKept ==
    ASSUME ~Overrun
    PROVE  Spec => CompletedStagesPreserved
<1>1. CycleInv /\ [Next]_vars
        => [\A s \in Stage : stage[s].status = "completed" => stage'[s] = stage[s]]_vars
  BY CompletedKept
<1>2. QED
  BY <1>1, CycleInvariant, PTL DEF Spec, CompletedStagesPreserved

\* Whoever takes the lease of another process finds it run out, overrun or not.
THEOREM TakenOnlyExpired == Spec => LeaseTakenOnlyExpired
<1>1. TypeOK /\ RowInv /\ [Next]_vars
        => [\A w \in Worker :
              run.owner = w /\ run'.owner \notin {w, None} => run.expiry = 0]_vars
  <2> SUFFICES ASSUME TypeOK, RowInv, [Next]_vars,
                      NEW w \in Worker, run.owner = w, run'.owner \notin {w, None}
               PROVE  run.expiry = 0
    OBVIOUS
  <2>1. ASSUME NEW v \in Worker, CreateRun(v)
        PROVE  run'.owner = run.owner
    BY <2>1 DEF CreateRun, TypeOK, RunRow
  <2>2. ASSUME NEW v \in Worker, AcquireLease(v)
        PROVE  run.owner = None
    BY <2>2 DEF AcquireLease
  <2>3. ASSUME NEW v \in Worker, RecoverLease(v)
        PROVE  run.expiry = 0
    BY <2>3 DEF RecoverLease
  <2>4. ASSUME NEW v \in Worker, StartStage(v)
        PROVE  run'.owner = run.owner
    BY <2>4 DEF StartStage, TypeOK, RunRow
  <2>5. ASSUME NEW v \in Worker, FailAtLimit(v) \/ BlockAndFail(v) \/ FinishCycle(v)
        PROVE  run'.owner = None
    BY <2>5 DEF FailAtLimit, BlockAndFail, FinishCycle, FinishRun
  <2>6. CASE Tick
    BY <2>6 DEF Tick, TypeOK, RunRow
  <2>7. CASE UNCHANGED run
    BY <2>7
  <2>8. QED
    BY <2>1, <2>2, <2>3, <2>4, <2>5, <2>6, <2>7, LedgerAssumption
    DEF Next, Drive, vars, rows, ReadLedger, SkipCompleted, ReadAfterStage,
        FinishStage, FailStage, ReadAfterFailure, Die, Crash
<1>2. RowInv => TypeOK
  BY DEF RowInv
<1>3. QED
  BY <1>1, <1>2, RowInvariant, PTL DEF Spec, LeaseTakenOnlyExpired

\* While a lease is active, only a step of its own process ends it.
THEOREM ActiveLeaseKept ==
    ASSUME ~Overrun
    PROVE  Spec => LeaseNotRevoked
<1>1. CycleInv /\ [Next]_vars
        => [\A w \in Worker :
              run.owner = w /\ run.expiry > 0 /\ pc[w] # "idle" /\ run'.owner # w
              => pc'[w] # pc[w]]_vars
  <2> SUFFICES ASSUME CycleInv, [Next]_vars,
                      NEW w \in Worker, pc[w] # "idle", run'.owner # w, run.owner = w
               PROVE  pc'[w] # pc[w]
    OBVIOUS
  <2>0. TypeOK /\ RowInv /\ DriverInv
    BY DEF CycleInv, RowInv
  <2>1. run.status = "running" /\ run.expiry > 0
    BY <2>0, DriverRuns
  <2>2. ASSUME NEW v \in Worker, CreateRun(v) \/ AcquireLease(v) \/ RecoverLease(v)
        PROVE  FALSE
    BY <2>1, <2>2 DEF CreateRun, AcquireLease, RecoverLease
  <2>3. ASSUME NEW v \in Worker, StartStage(v)
        PROVE  run'.owner = run.owner
    BY <2>3, <2>0 DEF StartStage, TypeOK, RunRow
  <2>4. ASSUME NEW v \in Worker, FailAtLimit(v) \/ BlockAndFail(v) \/ FinishCycle(v)
        PROVE  pc[v] # "idle" /\ pc'[v] = "idle"
    BY <2>4, <2>0 DEF FailAtLimit, BlockAndFail, FinishCycle, Leave, TypeOK
  <2>5. CASE Tick
    BY <2>5, <2>0 DEF Tick, TypeOK, RunRow
  <2>6. CASE UNCHANGED run
    BY <2>6
  <2>7. ASSUME NEW v \in Worker, FailAtLimit(v) \/ BlockAndFail(v) \/ FinishCycle(v)
        PROVE  v = w
    BY <2>4, <2>7, <2>0, OthersIdle
  <2>8. QED
    BY <2>2, <2>3, <2>4, <2>5, <2>6, <2>7
    DEF Next, Drive, vars, rows, ReadLedger, SkipCompleted, ReadAfterStage,
        FinishStage, FailStage, ReadAfterFailure, Die, Crash
<1>2. QED
  BY <1>1, CycleInvariant, PTL DEF Spec, LeaseNotRevoked

-----------------------------------------------------------------------------
(* The ledger implements the contract of a cycle. *)

done == {s \in Stage : stage[s].status = "completed"}
status == IF run.status \in Closed THEN "completed" ELSE run.status

\* Every step of the ledger is a step of the contract or a stutter.
LEMMA ContractStep ==
    ASSUME CycleInv, [Next]_vars
    PROVE  [Contract!Next]_(Contract!contractVars)
<1> USE LedgerAssumption
<1>0. TypeOK /\ RowInv /\ DriverInv
  BY DEF CycleInv, RowInv
<1> DEFINE Same == UNCHANGED <<status, done>>
<1>1. Same => UNCHANGED Contract!contractVars
  BY DEF Contract!contractVars, status, done
<1>2. UNCHANGED stage => UNCHANGED done
  BY DEF done
<1>3. run'.status = run.status => UNCHANGED status
  BY DEF status
<1>4. ASSUME NEW w \in Worker, CreateRun(w)
      PROVE  Contract!Plan
  BY <1>4, <1>0 DEF CreateRun, Contract!Plan, TypeOK, RunRow, Closed
<1>5. ASSUME NEW w \in Worker, AcquireLease(w)
      PROVE  Contract!Begin
  BY <1>5 DEF AcquireLease, StartLoop, Contract!Begin, Closed
<1>6. ASSUME NEW w \in Worker, RecoverLease(w)
      PROVE  Same
  BY <1>6, <1>2, <1>3 DEF RecoverLease, StartLoop
<1>7. ASSUME NEW w \in Worker, StartStage(w)
      PROVE  Same
  <2>1. at[w] \in Stage /\ view[w].stage = stage
    BY <1>7, <1>0 DEF StartStage, StageDue, DriverInv, Drives, Deciding
  <2>2. stage[at[w]].status # "completed" /\ stage'[at[w]].status # "completed"
    BY <1>7, <2>1, <1>0 DEF StartStage, StageDue, TypeOK, StageRow
  <2>3. \A s \in Stage : s # at[w] => stage'[s] = stage[s]
    BY <1>7, <2>1, <1>0 DEF StartStage, TypeOK
  <2>4. UNCHANGED done
    BY <2>2, <2>3 DEF done
  <2>5. QED
    BY <1>7, <2>4, <1>3, <1>0 DEF StartStage, TypeOK, RunRow
<1>8. ASSUME NEW w \in Worker, FailAtLimit(w)
      PROVE  Contract!GiveUp
  <2>1. run.status = "running"
    BY <1>8, <1>0, DriverRuns DEF FailAtLimit
  <2>2. run'.status = "failed" /\ stage' = stage
    BY <1>8 DEF FailAtLimit, FinishRun
  <2>3. QED
    BY <2>1, <2>2 DEF Contract!GiveUp, Closed
<1>9. ASSUME NEW w \in Worker, FinishStage(w)
      PROVE  Contract!Next
  <2>1. /\ Drives(w) /\ at[w] \in Stage
        /\ run.status = "running" /\ run' = run
        /\ stage[at[w]].status = "running"
    BY <1>9, <1>0, DriverRuns DEF FinishStage, DriverInv, Drives, TypeOK
  <2>2. PICK bad : stage' = [stage EXCEPT ![at[w]].status = "completed",
                                           ![at[w]].failed = bad]
    BY <1>9 DEF FinishStage
  <2>3. stage'[at[w]].status = "completed"
    BY <2>1, <2>2, <1>0 DEF TypeOK, StageRow
  <2>4. \A s \in Stage : s # at[w] => stage'[s] = stage[s]
    BY <2>1, <2>2, <1>0 DEF TypeOK
  <2>5. done' = done \cup {at[w]} /\ at[w] \notin done
    BY <2>1, <2>3, <2>4 DEF done
  <2>6. \A p \in Required : p < at[w] => p \in done
    BY <2>1 DEF Drives, done
  <2>7. /\ status = "running" /\ status' = status
        /\ at[w] \in 1..StageCount
    BY <2>1 DEF status, Closed, Stage
  <2>8. \E s \in 1..StageCount : Contract!Finish(s)
    BY <2>5, <2>6, <2>7 DEF Contract!Finish, done, status
  <2>9. QED
    BY <2>8 DEF Contract!Next
<1>10. ASSUME NEW w \in Worker, FailStage(w)
       PROVE  Same
  <2>1. Drives(w) /\ at[w] \in Stage /\ stage[at[w]].status = "running"
    BY <1>10, <1>0 DEF FailStage, DriverInv, Drives, TypeOK
  <2>2. stage' = [stage EXCEPT ![at[w]].status = "failed"] /\ run' = run
    BY <1>10 DEF FailStage
  <2>3. /\ stage'[at[w]].status = "failed"
        /\ \A s \in Stage : s # at[w] => stage'[s] = stage[s]
    BY <2>1, <2>2, <1>0 DEF TypeOK, StageRow
  <2>4. QED
    BY <2>1, <2>2, <2>3, <1>3 DEF done
<1>11. ASSUME NEW w \in Worker, BlockAndFail(w)
       PROVE  Contract!GiveUp
  <2>1. run.status = "running" /\ view[w].stage = stage
    BY <1>11, <1>0, DriverRuns DEF BlockAndFail, DriverInv, Drives, Deciding
  <2>2. run'.status = "failed"
    BY <1>11 DEF BlockAndFail, FinishRun
  <2>3. \A s \in Stage : \/ stage'[s] = stage[s]
                         \/ stage[s].status = "planned" /\ stage'[s].status = "blocked"
    BY <1>11, <2>1, <1>0 DEF BlockAndFail, TypeOK, StageRow
  <2>4. UNCHANGED done
    BY <2>3 DEF done
  <2>5. QED
    BY <2>1, <2>2, <2>4 DEF Contract!GiveUp, Closed, done
<1>12. ASSUME NEW w \in Worker, FinishCycle(w)
       PROVE  Contract!Close
  <2>1. /\ run.status = "running" /\ Drives(w)
        /\ at[w] = StageCount + 1 /\ stage' = stage
    BY <1>12, <1>0, DriverRuns DEF FinishCycle, DriverInv
  <2>2. run'.status \in Closed
    BY <1>12, ClosingIsSettled DEF FinishCycle, FinishRun
  <2>3. \A p \in Stage : p < at[w] /\ (p \in Required => stage[p].status = "completed")
    BY <2>1 DEF Drives, Stage
  <2>4. \A p \in Required : p \in done
    BY <2>3 DEF done
  <2>5. QED
    BY <2>1, <2>2, <2>4 DEF Contract!Close, Closed, done
<1>13. ASSUME Tick
       PROVE  Same
  BY <1>13, <1>0, <1>2, <1>3 DEF Tick, TypeOK, RunRow
<1>14. ASSUME UNCHANGED <<run, stage>>
       PROVE  Same
  BY <1>14, <1>2, <1>3
<1>15. QED
  BY <1>1, <1>4, <1>5, <1>6, <1>7, <1>8, <1>9, <1>10, <1>11, <1>12, <1>13, <1>14
  DEF Next, Drive, vars, rows, ReadLedger, SkipCompleted, ReadAfterStage,
      ReadAfterFailure, Die, Crash, Contract!Next

\* The ledger implements CycleContract: resumes, crashes and refused processes
\* never undo a finished stage, skip a required one or reopen a closed cycle.
THEOREM ContractKept ==
    ASSUME ~Overrun
    PROVE  Spec => KeepsContract
<1>1. Init => Contract!Init
  BY DEF Init, Contract!Init, Closed
<1>2. CycleInv /\ [Next]_vars => [Contract!Next]_(Contract!contractVars)
  BY ContractStep
<1>3. QED
  BY <1>1, <1>2, CycleInvariant, PTL DEF Spec, KeepsContract, Contract!Spec

-----------------------------------------------------------------------------
(* Successive cycles.                                                      *)

USE MonitoringAssumption, NullAssumption

\* A cycle has no baseline before it has its discovery.
NotYetFrozen ==
    \A c \in Cycle : due[c] \in {"research", "discovery"} => baseline[c] = Unfrozen

Inv ==
    /\ MonitoringTypeOK
    /\ NotYetFrozen
    /\ BaselineIsClosedCycle
    /\ OutboxIsTheChanges

-----------------------------------------------------------------------------
(* What the operators return. *)

\* The merit of a rankable security is the score of a snapshot.
LEMMA MeritTyped ==
    ASSUME MonitoringTypeOK, NEW c \in Cycle, NEW s \in Rankable(c)
    PROVE  Merit(c, s) \in Nat
<1>1. Latest(c, s) # {}
  BY DEF Rankable, Reason
<1>2. Latest(c, s) \subseteq Evidence
  BY DEF MonitoringTypeOK, Latest, Visible
<1>3. (CHOOSE x \in Latest(c, s) : TRUE) \in Evidence
  BY <1>1, <1>2
<1> QED
  BY <1>3 DEF Merit

\* Of finitely many securities, a rank is a number.
LEMMA RankTyped ==
    ASSUME MonitoringTypeOK, NEW c \in Cycle, NEW s \in Rankable(c)
    PROVE  DenseRank(c, s) \in Nat
<1> DEFINE above == {u \in Rankable(c) : Merit(c, u) > Merit(c, s)}
<1> DEFINE scores == {Merit(c, t) : t \in above}
<1>1. IsFiniteSet(above)
  <2>1. above \subseteq Security
    BY DEF Rankable
  <2> QED
    BY <2>1, FS_Subset
<1>2. IsFiniteSet(scores)
  <2> DEFINE merit == [t \in above |-> Merit(c, t)]
  <2>1. merit \in Surjection(above, scores)
    BY DEF Surjection
  <2> QED
    BY <1>1, <2>1, FS_Surjection
<1>3. Cardinality(scores) \in Nat
  BY <1>2, FS_CardinalityType
<1> QED
  BY <1>3 DEF DenseRank

LEMMA DecisionTyped ==
    ASSUME MonitoringTypeOK, NEW c \in Cycle, NEW s \in Security
    PROVE  Decision(c, s) \in Item
<1>1. CASE s \in Rankable(c)
  BY <1>1, MeritTyped, RankTyped DEF Decision, Item
<1>2. CASE s \notin Rankable(c)
  <2>1. Reason(c, s) \in {"ranked", "no_visible_snapshot", "ambiguous_latest_snapshot",
                          "stale_snapshot"}
    BY DEF Reason
  <2> QED
    BY <1>2, <2>1 DEF Decision, Item
<1> QED
  BY <1>1, <1>2

\* What a cycle discovers is a discovery run.
LEMMA DiscoveryTyped ==
    ASSUME MonitoringTypeOK, NEW c \in Cycle
    PROVE  DiscoveryNow(c) \in DiscoveryRun
BY DecisionTyped DEF DiscoveryNow, DiscoveryRun, Binding

\* A baseline is the discovery of a prior cycle, or there is none.
LEMMA BaselinesTyped ==
    ASSUME MonitoringTypeOK, NEW c \in Cycle, NEW ran \in Baselines(c)
    PROVE  /\ ran \in DiscoveryRun \cup {Null}
           /\ ran # Null => \E b \in Prior(c) : ran = discovery[b]
BY DEF MonitoringTypeOK, Baselines, LatestPrior, Prior

LEMMA NotificationsTyped ==
    ASSUME NEW from \in DiscoveryRun \cup {Null}, NEW to \in DiscoveryRun
    PROVE  Notifications(from, to) \subseteq Notification
BY DEF Notifications, Changed, Notification

-----------------------------------------------------------------------------
(* The invariant. *)

LEMMA Initially == MonitoringInit => Inv
<1> SUFFICES ASSUME MonitoringInit PROVE Inv
  OBVIOUS
<1>1. MonitoringTypeOK
  <2>1. "research" \in DOMAIN Following
    BY DEF Following
  <2>2. governed \in BOOLEAN /\ bound \in [Cycle -> BOOLEAN]
    BY DEF MonitoringInit
  <2>3. snapshots \subseteq Evidence /\ outbox \subseteq Notification
    BY DEF MonitoringInit
  <2>4. failures \in 0..MaxFailures
    BY DEF MonitoringInit
  <2>5. /\ driver \in [Cycle -> {"resting", "driven", "comparing"}]
        /\ due \in [Cycle -> DOMAIN Following \cup {"closed"}]
        /\ discovery \in [Cycle -> DiscoveryRun \cup {Null}]
        /\ baseline \in [Cycle -> DiscoveryRun \cup {Null, Unfrozen}]
    BY <2>1 DEF MonitoringInit
  <2> QED
    BY <2>2, <2>3, <2>4, <2>5 DEF MonitoringInit, MonitoringTypeOK
<1>2. NotYetFrozen /\ BaselineIsClosedCycle
  BY DEF MonitoringInit, NotYetFrozen, BaselineIsClosedCycle
<1>3. {d \in Cycle : due[d] \in {"delivery", "closed"}} = {}
  BY DEF MonitoringInit
<1>4. OutboxIsTheChanges
  BY <1>3 DEF MonitoringInit, OutboxIsTheChanges
<1> QED
  BY <1>1, <1>2, <1>4 DEF Inv

\* The stages of one cycle, each with what it does to the ledger rows.
LEMMA StageTyped ==
    ASSUME Inv, NEW c \in Cycle, Stages(c)
    PROVE  MonitoringTypeOK'
<1> USE DEF Inv, MonitoringTypeOK, results
<1>1. CASE Research(c)
  BY <1>1 DEF Research, Researched, Executes, Completes, Following
<1>2. CASE Discover(c)
  <2>1. DiscoveryNow(c) \in DiscoveryRun
    BY DiscoveryTyped
  <2> QED
    BY <1>2, <2>1 DEF Discover, Executes, Completes, Following
<1>3. CASE FreezeBaseline(c)
  <2>1. PICK ran \in Baselines(c) : baseline' = [baseline EXCEPT ![c] = ran]
    BY <1>3 DEF FreezeBaseline
  <2>2. ran \in DiscoveryRun \cup {Null}
    BY <2>1, BaselinesTyped
  <2> QED
    BY <1>3, <2>1, <2>2 DEF FreezeBaseline, Executes, Settles
<1>4. CASE ReuseBaseline(c)
  BY <1>4 DEF ReuseBaseline, Executes, Settles
<1>5. CASE Compare(c)
  BY <1>5 DEF Compare, Following
<1>6. CASE Project(c)
  <2>1. discovery[c] \in DiscoveryRun /\ baseline[c] \in DiscoveryRun \cup {Null}
    BY <1>6 DEF Project, Executes
  <2>2. Notifications(baseline[c], discovery[c]) \subseteq Notification
    BY <2>1, NotificationsTyped
  <2>3. outbox' \subseteq Notification
    BY <1>6, <2>2 DEF Project
  <2> QED
    BY <1>6, <2>3 DEF Project, Executes, Completes, Following
<1>7. CASE Deliver(c)
  BY <1>7 DEF Deliver, Executes, Completes, Following
<1> QED
  BY <1>1, <1>2, <1>3, <1>4, <1>5, <1>6, <1>7 DEF Stages

LEMMA StepTyped ==
    ASSUME Inv, [MonitoringNext]_moVars
    PROVE  MonitoringTypeOK'
<1> USE DEF Inv, MonitoringTypeOK, results
<1>1. CASE Bootstrap
  BY <1>1 DEF Bootstrap
<1>2. ASSUME NEW c \in Cycle, FreezeRelease(c) \/ Resume(c) \/ Fail(c)
      PROVE  MonitoringTypeOK'
  <2>1. CASE FreezeRelease(c)
    BY <2>1 DEF FreezeRelease
  <2>2. CASE Resume(c)
    BY <2>2 DEF Resume
  <2>3. CASE Fail(c)
    BY <2>3 DEF Fail, Researched
  <2> QED
    BY <1>2, <2>1, <2>2, <2>3
<1>3. ASSUME NEW c \in Cycle, Stages(c)
      PROVE  MonitoringTypeOK'
  BY <1>3, StageTyped
<1>4. ASSUME NEW x \in ByHand, ResearchByHand(x)
      PROVE  MonitoringTypeOK'
  BY <1>4 DEF ResearchByHand
<1>5. CASE UNCHANGED moVars
  BY <1>5 DEF moVars
<1> QED
  BY <1>1, <1>2, <1>3, <1>4, <1>5 DEF MonitoringNext

\* The runs a cycle compares are settled once its baseline is frozen.
RunsFrozen ==
    \A c \in Cycle : baseline[c] # Unfrozen =>
      baseline'[c] = baseline[c] /\ discovery'[c] = discovery[c]

LEMMA StepKeepsRuns ==
    ASSUME Inv, [MonitoringNext]_moVars
    PROVE  RunsFrozen
<1> USE DEF Inv, MonitoringTypeOK, RunsFrozen, results
<1>1. CASE Bootstrap
  BY <1>1 DEF Bootstrap
<1>2. ASSUME NEW c \in Cycle, FreezeRelease(c) \/ Resume(c) \/ Fail(c)
      PROVE  RunsFrozen
  BY <1>2 DEF FreezeRelease, Resume, Fail
<1>3. ASSUME NEW c \in Cycle, Discover(c)
      PROVE  RunsFrozen
  BY <1>3 DEF Discover, Executes, NotYetFrozen
<1>4. ASSUME NEW c \in Cycle, FreezeBaseline(c)
      PROVE  RunsFrozen
  BY <1>4 DEF FreezeBaseline, Settles
<1>5. ASSUME NEW c \in Cycle,
             Research(c) \/ ReuseBaseline(c) \/ Compare(c) \/ Project(c) \/ Deliver(c)
      PROVE  RunsFrozen
  BY <1>5 DEF Research, ReuseBaseline, Settles, Compare, Project, Deliver
<1>6. ASSUME NEW x \in ByHand, ResearchByHand(x)
      PROVE  RunsFrozen
  BY <1>6 DEF ResearchByHand
<1>7. CASE UNCHANGED moVars
  BY <1>7 DEF moVars
<1> QED
  BY <1>1, <1>2, <1>3, <1>4, <1>5, <1>6, <1>7 DEF MonitoringNext, Stages

LEMMA StepKeepsNotYetFrozen ==
    ASSUME Inv, [MonitoringNext]_moVars
    PROVE  NotYetFrozen'
<1> USE DEF Inv, MonitoringTypeOK, NotYetFrozen, results
<1>1. CASE Bootstrap
  BY <1>1 DEF Bootstrap
<1>2. ASSUME NEW c \in Cycle, FreezeRelease(c) \/ Resume(c) \/ Fail(c)
      PROVE  NotYetFrozen'
  BY <1>2 DEF FreezeRelease, Resume, Fail
<1>3. ASSUME NEW c \in Cycle, Research(c) \/ Discover(c) \/ Project(c) \/ Deliver(c)
      PROVE  NotYetFrozen'
  BY <1>3 DEF Research, Discover, Project, Deliver, Executes, Completes, Following
<1>4. ASSUME NEW c \in Cycle, FreezeBaseline(c)
      PROVE  NotYetFrozen'
  BY <1>4 DEF FreezeBaseline, Executes, Settles
<1>5. ASSUME NEW c \in Cycle, ReuseBaseline(c) \/ Compare(c)
      PROVE  NotYetFrozen'
  BY <1>5 DEF ReuseBaseline, Settles, Compare
<1>6. ASSUME NEW x \in ByHand, ResearchByHand(x)
      PROVE  NotYetFrozen'
  BY <1>6 DEF ResearchByHand
<1>7. CASE UNCHANGED moVars
  BY <1>7 DEF moVars
<1> QED
  BY <1>1, <1>2, <1>3, <1>4, <1>5, <1>6, <1>7 DEF MonitoringNext, Stages

\* A closed cycle stays closed, with the discovery it has.
LEMMA ClosedStays ==
    ASSUME Inv, [MonitoringNext]_moVars, NEW b \in Cycle, due[b] = "closed"
    PROVE  due'[b] = "closed" /\ discovery'[b] = discovery[b]
<1> USE DEF Inv, MonitoringTypeOK, results
<1>1. discovery'[b] = discovery[b]
  BY StepKeepsRuns DEF RunsFrozen
<1>2. due'[b] = "closed"
  <2>1. CASE Bootstrap
    BY <2>1 DEF Bootstrap
  <2>2. ASSUME NEW c \in Cycle, FreezeRelease(c) \/ Resume(c) \/ Fail(c)
        PROVE  due'[b] = "closed"
    BY <2>2 DEF FreezeRelease, Resume, Fail
  <2>3. ASSUME NEW c \in Cycle, Research(c) \/ Discover(c) \/ Project(c) \/ Deliver(c)
        PROVE  due'[b] = "closed"
    BY <2>3 DEF Research, Discover, Project, Deliver, Executes, Completes
  <2>4. ASSUME NEW c \in Cycle, FreezeBaseline(c) \/ ReuseBaseline(c)
        PROVE  due'[b] = "closed"
    BY <2>4 DEF FreezeBaseline, ReuseBaseline, Settles
  <2>5. ASSUME NEW c \in Cycle, Compare(c)
        PROVE  due'[b] = "closed"
    BY <2>5 DEF Compare
  <2>6. ASSUME NEW x \in ByHand, ResearchByHand(x)
        PROVE  due'[b] = "closed"
    BY <2>6 DEF ResearchByHand
  <2>7. CASE UNCHANGED moVars
    BY <2>7 DEF moVars
  <2> QED
    BY <2>1, <2>2, <2>3, <2>4, <2>5, <2>6, <2>7 DEF MonitoringNext, Stages
<1> QED
  BY <1>1, <1>2

\* What a step freezes is one of the baselines there are.
LEMMA FrozenFromBaselines ==
    ASSUME Inv, [MonitoringNext]_moVars, NEW c \in Cycle, baseline'[c] # baseline[c]
    PROVE  baseline'[c] \in Baselines(c)
<1> USE DEF Inv, MonitoringTypeOK, results
<1>1. PICK d \in Cycle : FreezeBaseline(d)
  <2>1. ~UNCHANGED baseline
    OBVIOUS
  <2> QED
    BY <2>1 DEF MonitoringNext, moVars, Stages, Bootstrap, FreezeRelease, Resume, Fail, Research, Discover,
                ReuseBaseline, Compare, Project, Deliver, ResearchByHand
<1>2. PICK ran \in Baselines(d) : baseline' = [baseline EXCEPT ![d] = ran]
  BY <1>1 DEF FreezeBaseline
<1> QED
  BY <1>2

LEMMA StepKeepsBaselines ==
    ASSUME Inv, [MonitoringNext]_moVars
    PROVE  BaselineIsClosedCycle'
<1> SUFFICES ASSUME NEW c \in Cycle, baseline'[c] \notin {Null, Unfrozen}
             PROVE  \E b \in Cycle : /\ due'[b] = "closed"
                                     /\ discovery'[b] = baseline'[c]
                                     /\ Stream[b] = Stream[c]
                                     /\ Cutoff[b] < Cutoff[c]
  BY DEF BaselineIsClosedCycle
<1>1. PICK b \in Cycle : /\ due[b] = "closed"
                         /\ discovery[b] = baseline'[c]
                         /\ Stream[b] = Stream[c]
                         /\ Cutoff[b] < Cutoff[c]
  <2>1. CASE baseline'[c] = baseline[c]
    BY <2>1 DEF Inv, BaselineIsClosedCycle
  <2>2. CASE baseline'[c] # baseline[c]
    <3>1. baseline'[c] \in Baselines(c)
      BY <2>2, FrozenFromBaselines
    <3>2. PICK b \in Prior(c) : baseline'[c] = discovery[b]
      BY <3>1, BaselinesTyped DEF Inv
    <3> QED
      BY <3>2 DEF Prior
  <2> QED
    BY <2>1, <2>2
<1> QED
  BY <1>1, ClosedStays

-----------------------------------------------------------------------------
(* The outbox. *)

\* The cycles that have projected.
Projected == {d \in Cycle : due[d] \in {"delivery", "closed"}}

\* What they projected is settled.
LEMMA ProjectedSettled ==
    ASSUME Inv, [MonitoringNext]_moVars, NEW c \in Projected
    PROVE  Notifications(baseline'[c], discovery'[c]) = Notifications(baseline[c], discovery[c])
<1>1. c \in Cycle /\ baseline[c] # Unfrozen
  BY DEF Projected, Inv, MonitoringTypeOK
<1>2. baseline'[c] = baseline[c] /\ discovery'[c] = discovery[c]
  BY <1>1, StepKeepsRuns DEF RunsFrozen
<1> QED
  BY <1>2

LEMMA ProjectionAdds ==
    ASSUME Inv, NEW c \in Cycle, Project(c)
    PROVE  OutboxIsTheChanges'
<1>1. Projected' = Projected \cup {c}
  BY DEF Project, Executes, Completes, Following, Projected, Inv, MonitoringTypeOK
<1>2. outbox' = outbox \cup Notifications(baseline[c], discovery[c])
  BY DEF Project
<1>3. outbox = UNION {Notifications(baseline[d], discovery[d]) : d \in Projected}
  BY DEF Inv, OutboxIsTheChanges, Projected
<1>4. outbox' = UNION {Notifications(baseline[d], discovery[d]) : d \in Projected'}
  BY <1>1, <1>2, <1>3
<1>5. baseline' = baseline /\ discovery' = discovery
  BY DEF Project
<1> QED
  BY <1>4, <1>5 DEF OutboxIsTheChanges, Projected

\* Only a projection adds to the outbox, or to the cycles that projected.
LEMMA OthersKeepOutbox ==
    ASSUME Inv, [MonitoringNext]_moVars, \A c \in Cycle : ~Project(c)
    PROVE  outbox' = outbox /\ Projected' = Projected
<1> DEFINE Kept == outbox' = outbox /\ Projected' = Projected
<1> USE DEF Inv, MonitoringTypeOK, Projected, results
<1>1. CASE Bootstrap
  BY <1>1 DEF Bootstrap
<1>2. ASSUME NEW c \in Cycle, FreezeRelease(c) \/ Resume(c) \/ Fail(c)
      PROVE  Kept
  BY <1>2 DEF FreezeRelease, Resume, Fail
<1>3. ASSUME NEW c \in Cycle, Research(c) \/ Discover(c) \/ Deliver(c)
      PROVE  Kept
  BY <1>3 DEF Research, Discover, Deliver, Executes, Completes, Following
<1>4. ASSUME NEW c \in Cycle, FreezeBaseline(c) \/ ReuseBaseline(c) \/ Compare(c)
      PROVE  Kept
  BY <1>4 DEF FreezeBaseline, ReuseBaseline, Settles, Compare
<1>5. ASSUME NEW x \in ByHand, ResearchByHand(x)
      PROVE  Kept
  BY <1>5 DEF ResearchByHand
<1>6. CASE UNCHANGED moVars
  BY <1>6 DEF moVars
<1> QED
  BY <1>1, <1>2, <1>3, <1>4, <1>5, <1>6 DEF MonitoringNext, Stages

LEMMA StepKeepsOutbox ==
    ASSUME Inv, [MonitoringNext]_moVars
    PROVE  OutboxIsTheChanges'
<1>1. CASE \E c \in Cycle : Project(c)
  BY <1>1, ProjectionAdds
<1>2. CASE \A c \in Cycle : ~Project(c)
  <2>1. outbox' = outbox /\ Projected' = Projected
    BY <1>2, OthersKeepOutbox
  <2>2. outbox = UNION {Notifications(baseline[c], discovery[c]) : c \in Projected}
    BY DEF Inv, OutboxIsTheChanges, Projected
  <2>3. \A c \in Projected : Notifications(baseline'[c], discovery'[c])
                              = Notifications(baseline[c], discovery[c])
    BY ProjectedSettled
  <2>4. outbox' = UNION {Notifications(baseline'[c], discovery'[c]) : c \in Projected'}
    BY <2>1, <2>2, <2>3
  <2> QED
    BY <2>4 DEF OutboxIsTheChanges, Projected
<1> QED
  BY <1>1, <1>2

\* A notification that a step adds is of a discovery with the binding of its
\* cycle, if the cycle has one.
Bound ==
    \A n \in outbox' \ outbox :
      \E c \in Cycle : discovery[c] = n.to /\ (bound[c] => n.to.release = c)

LEMMA StepBound ==
    ASSUME Inv, [MonitoringNext]_moVars
    PROVE  Bound
<1> SUFFICES ASSUME NEW n \in outbox' \ outbox
             PROVE  \E c \in Cycle : discovery[c] = n.to /\ (bound[c] => n.to.release = c)
  BY DEF Bound
<1>1. PICK c \in Cycle : Project(c)
  BY OthersKeepOutbox
<1>2. n \in Notifications(baseline[c], discovery[c])
  BY <1>1 DEF Project
<1>3. baseline[c] # Null /\ n.to = discovery[c]
  BY <1>2 DEF Notifications
<1>4. bound[c] => discovery[c].release = c
  BY <1>1, <1>3 DEF Project, LineageKept, Binding
<1> QED
  BY <1>3, <1>4

-----------------------------------------------------------------------------
(* The theorems. *)

LEMMA Invariant == MonitoringSpec => []Inv
<1>1. Inv /\ [MonitoringNext]_moVars => Inv'
  BY StepTyped, StepKeepsNotYetFrozen, StepKeepsBaselines, StepKeepsOutbox DEF Inv
<1> QED
  BY Initially, <1>1, PTL DEF MonitoringSpec

\* Every variable keeps its type: a stage that reads the run of an earlier
\* one finds it.
THEOREM MonitoringTyped == MonitoringSpec => []MonitoringTypeOK
<1>1. Inv => MonitoringTypeOK
  BY DEF Inv
<1> QED
  BY Invariant, <1>1, PTL

\* _select_baseline and its reuse: a frozen baseline is the discovery of a
\* closed cycle of the same stream with an earlier cutoff.
THEOREM BaselinesClosed == MonitoringSpec => []BaselineIsClosedCycle
<1>1. Inv => BaselineIsClosedCycle
  BY DEF Inv
<1> QED
  BY Invariant, <1>1, PTL

\* execute_change: once the baseline is frozen, no retry, backfill or failure
\* changes either of the two runs that a cycle compares.
THEOREM RunsStayFrozen == MonitoringSpec => ComparedRunsStayFrozen
<1>1. Inv /\ [MonitoringNext]_moVars => [RunsFrozen]_moVars
  BY StepKeepsRuns
<1>2. MonitoringSpec => [][RunsFrozen]_moVars
  BY Invariant, <1>1, PTL DEF MonitoringSpec
<1> QED
  BY <1>2 DEF ComparedRunsStayFrozen, RunsFrozen

\* The projection of a bound cycle announces nothing that was discovered
\* without its binding, whenever the release was bootstrapped.
THEOREM NotifiedBound == MonitoringSpec => NotifiedUnderBinding
<1>1. Inv /\ [MonitoringNext]_moVars => [Bound]_moVars
  BY StepBound
<1>2. MonitoringSpec => [][Bound]_moVars
  BY Invariant, <1>1, PTL DEF MonitoringSpec
<1> QED
  BY <1>2 DEF NotifiedUnderBinding, Bound

\* The outbox holds the changes of the cycles that projected, all of them and
\* nothing else.
THEOREM OutboxExact == MonitoringSpec => []OutboxIsTheChanges
<1>1. Inv => OutboxIsTheChanges
  BY DEF Inv
<1> QED
  BY Invariant, <1>1, PTL
=============================================================================
