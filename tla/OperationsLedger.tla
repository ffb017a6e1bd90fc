-------------------------- MODULE OperationsLedger --------------------------
(***************************************************************************)
(* The ledger of one logical production cycle: the operational_runs row    *)
(* with its lease, the operational_run_stages rows, the per-symbol rows,   *)
(* and the processes that drive them through ProductionCycleService.       *)
(*                                                                         *)
(* A Worker is one run-cycle or resume-run process.  A process holds a     *)
(* fresh owner token, so a worker that has ended may stand for a later     *)
(* process: its old token can only be met in the row it left behind.       *)
(* SQLAlchemy keeps what a transaction has read until the next commit or   *)
(* rollback, and PostgreSQL runs at READ COMMITTED: a worker decides on    *)
(* view[w], the rows as they were when it read them, and its UPDATE lands  *)
(* on the rows as they are when it commits.  Reading and committing are    *)
(* therefore two steps.                                                    *)
(***************************************************************************)
EXTENDS Naturals

CONSTANTS
    Worker,          \* processes of run-cycle and resume-run
    None,            \* SQL NULL in lease_owner_token; also "nothing read"
    StageCount,      \* length of operational_stage_definitions(profile)
    Required,        \* the stages defined with required = True
    FinancialStage,  \* the "financials" stage, which reports failed symbols
    ResearchStage,   \* the "current_research" stage, which does so too
    Symbol,          \* ordered symbols of the cycle
    MaxAttempts,     \* stage_max_attempts of the operations profile
    LeaseTerm,       \* run_lease_seconds, in ticks
    MaxCrashes,      \* bound on the number of process crashes
    Overrun,         \* may a stage outlast the lease of its process?
    CrashMidStage    \* may a process die while a stage executes?

Stage == 1..StageCount

ASSUME LedgerAssumption ==
    /\ None \notin Worker
    /\ StageCount \in Nat
    /\ Required \subseteq Stage
    /\ FinancialStage \in Required
    /\ ResearchStage \in Required
    /\ MaxAttempts \in Nat \ {0}
    /\ LeaseTerm \in Nat \ {0}
    /\ MaxCrashes \in Nat
    /\ Overrun \in BOOLEAN
    /\ CrashMidStage \in BOOLEAN

VARIABLES
    run,      \* operational_runs: status and lease (expiry in ticks left)
    stage,    \* operational_run_stages: status, attempt_count, failed symbols
    symbol,   \* operational_run_symbols: "none" while the row does not exist
    pc,       \* what each process does next
    at,       \* the stage its loop in _execute has reached
    view,     \* the rows as each process last read them
    crashes   \* process crashes so far

vars == <<run, stage, symbol, pc, at, view, crashes>>
rows == <<run, stage, symbol>>

-----------------------------------------------------------------------------
(* RUN_TRANSITIONS and STAGE_TRANSITIONS.  No code path writes "stale" or   *)
(* "skipped"; both stay in the tables as the repository has them.           *)

RunTransitions ==
    [planned |-> {"running", "failed"},
     running |-> {"completed", "completed_with_symbol_failures", "failed",
                  "stale"},
     stale |-> {"running", "failed"},
     completed |-> {},
     completed_with_symbol_failures |-> {},
     failed |-> {"running"}]

\* Fault: a failed stage may not start again.
StageTransitionsNoRetry ==
    [planned |-> {"running", "blocked", "skipped"},
     running |-> {"completed", "failed"},
     failed |-> {"blocked"},
     blocked |-> {"running"},
     skipped |-> {"running"},
     completed |-> {}]

StageTransitions ==
    [planned |-> {"running", "blocked", "skipped"},
     running |-> {"completed", "failed"},
     failed |-> {"running", "blocked"},
     blocked |-> {"running"},
     skipped |-> {"running"},
     completed |-> {}]

RunRow ==
    [status: {"absent", "planned", "running", "completed",
              "completed_with_symbol_failures", "failed"},
     owner: Worker \cup {None},
     expiry: 0..LeaseTerm]

StageRow ==
    [status: {"planned", "running", "completed", "failed", "blocked"},
     attempts: Nat,
     failed: SUBSET Symbol]

SymbolStatus == {"none", "completed", "failed"}

Ledger ==
    [run: RunRow, stage: [Stage -> StageRow], symbol: [Symbol -> SymbolStatus]]

Snapshot == [run |-> run, stage |-> stage, symbol |-> symbol]

Closed == {"completed", "completed_with_symbol_failures"}
Settled == Closed \cup {"failed"}
Deciding == {"decide", "finish", "block"}

-----------------------------------------------------------------------------
Init ==
    /\ run = [status |-> "absent", owner |-> None, expiry |-> 0]
    /\ stage = [s \in Stage |->
                  [status |-> "planned", attempts |-> 0, failed |-> {}]]
    /\ symbol = [y \in Symbol |-> "none"]
    /\ pc = [w \in Worker |-> "idle"]
    /\ at = [w \in Worker |-> 1]
    /\ view = [w \in Worker |-> None]
    /\ crashes = 0

\* run: the first process to see no row creates and commits a planned cycle.
CreateRun(w) ==
    /\ pc[w] = "idle"
    /\ run.status = "absent"
    /\ run' = [run EXCEPT !.status = "planned"]
    /\ UNCHANGED <<stage, symbol, pc, at, view, crashes>>

\* The process owns the lease and enters the stage loop of _execute.
StartLoop(w) ==
    /\ run' = [status |-> "running", owner |-> w, expiry |-> LeaseTerm]
    /\ pc' = [pc EXCEPT ![w] = "read"]
    /\ at' = [at EXCEPT ![w] = 1]
    /\ UNCHANGED <<stage, symbol, view, crashes>>

\* Fault: resume also takes up a cycle that closed with failed symbols.
AcquireClosedLease(w) ==
    /\ pc[w] = "idle"
    /\ run.status \in {"planned", "failed", "completed_with_symbol_failures"}
    /\ run.owner = None
    /\ StartLoop(w)

\* run, and resume of a run that is not running: the conditional UPDATE.  A
\* process whose UPDATE matches no row ends without a trace.
AcquireLease(w) ==
    /\ pc[w] = "idle"
    /\ run.status \in {"planned", "failed"}
    /\ run.owner = None
    /\ StartLoop(w)

\* Fault: recovery does not look at the expiry.
RecoverAnyLease(w) ==
    /\ pc[w] = "idle"
    /\ run.status = "running"
    /\ StartLoop(w)

\* resume of a running run: the conditional UPDATE on an expired lease.  A
\* running row always has an expiry, so its IS NOT NULL test adds nothing.
RecoverLease(w) ==
    /\ pc[w] = "idle"
    /\ run.status = "running"
    /\ run.expiry = 0
    /\ StartLoop(w)

-----------------------------------------------------------------------------
(* The stage loop. *)

\* _required_run at the head of the loop: the first read after a commit.
ReadLedger(w) ==
    /\ pc[w] = "read"
    /\ view' = [view EXCEPT ![w] = Snapshot]
    /\ pc' = [pc EXCEPT ![w] = "decide"]
    /\ UNCHANGED <<rows, at, crashes>>

\* A completed stage is passed over.  Nothing was committed, so the session
\* still holds the same rows and the next iteration decides on them too.
SkipCompleted(w) ==
    /\ pc[w] = "decide"
    /\ at[w] \in Stage
    /\ view[w].stage[at[w]].status = "completed"
    /\ at' = [at EXCEPT ![w] = @ + 1]
    /\ UNCHANGED <<rows, pc, view, crashes>>

\* The next stage is due and still has an attempt left.
StageDue(w) ==
    /\ at[w] \in Stage
    /\ view[w].stage[at[w]].status # "completed"
    /\ view[w].stage[at[w]].attempts < MaxAttempts

\* start_stage accepts the transition and renew_lease the ownership.
MayStart(w) ==
    /\ "running" \in StageTransitions[view[w].stage[at[w]].status]
    /\ view[w].run.owner = w
    /\ view[w].run.status = "running"

\* Fault: the UPDATE counts the attempt (attempt_count + 1 in SQL).
StartStageInPlace(w) ==
    /\ pc[w] = "decide"
    /\ StageDue(w)
    /\ MayStart(w)
    /\ stage' = [stage EXCEPT ![at[w]].status = "running", ![at[w]].attempts = @ + 1]
    /\ run' = [run EXCEPT !.expiry = LeaseTerm]
    /\ pc' = [pc EXCEPT ![w] = "execute"]
    /\ view' = [view EXCEPT ![w] = None]
    /\ UNCHANGED <<symbol, at, crashes>>

\* start_stage, renew_lease and the commit that precedes the executor.
StartStage(w) ==
    /\ pc[w] = "decide"
    /\ StageDue(w)
    /\ MayStart(w)
    /\ stage' = [stage EXCEPT
                   ![at[w]].status = "running",
                   ![at[w]].attempts = view[w].stage[at[w]].attempts + 1]
    /\ run' = [run EXCEPT !.expiry = LeaseTerm]
    /\ pc' = [pc EXCEPT ![w] = "execute"]
    /\ view' = [view EXCEPT ![w] = None]
    /\ UNCHANGED <<symbol, at, crashes>>

\* finish_run accepts the transition of the run as the process read it.
MayClose(w, status) ==
    /\ view[w].run.status \in DOMAIN RunTransitions
    /\ status \in RunTransitions[view[w].run.status]

\* Fault: the outcome is written and the owner stays.
FinishRunOwned(w, status) ==
    /\ MayClose(w, status)
    /\ run' = [run EXCEPT !.status = status, !.expiry = 0]

\* finish_run writes the outcome and gives up the lease, whoever holds it.
FinishRun(w, status) ==
    /\ MayClose(w, status)
    /\ run' = [status |-> status, owner |-> None, expiry |-> 0]

\* The process returns: its session closes.
Leave(w) ==
    /\ pc' = [pc EXCEPT ![w] = "idle"]
    /\ view' = [view EXCEPT ![w] = None]
    /\ at' = [at EXCEPT ![w] = 1]

\* A stage that is not completed has used up its attempts: _fail_run.
FailAtLimit(w) ==
    /\ pc[w] = "decide"
    /\ at[w] \in Stage
    /\ view[w].stage[at[w]].status # "completed"
    /\ view[w].stage[at[w]].attempts >= MaxAttempts
    /\ FinishRun(w, "failed")
    /\ Leave(w)
    /\ UNCHANGED <<stage, symbol, crashes>>

\* _required_run once the executor has returned or raised.
ReadAfterStage(w) ==
    /\ pc[w] = "execute"
    /\ view' = [view EXCEPT ![w] = Snapshot]
    /\ pc' = [pc EXCEPT ![w] = "finish"]
    /\ UNCHANGED <<rows, at, crashes>>

\* finish_stage accepts the transition of the stage as the process read it.
MayFinish(w, status) ==
    status \in StageTransitions[view[w].stage[at[w]].status]

\* The stage succeeded.  The financials and research stages record the
\* symbols that failed inside them.
FinishStage(w) ==
    /\ pc[w] = "finish"
    /\ MayFinish(w, "completed")
    /\ \E bad \in IF at[w] \in {FinancialStage, ResearchStage}
                  THEN SUBSET Symbol ELSE {{}} :
         stage' = [stage EXCEPT ![at[w]].status = "completed",
                                ![at[w]].failed = bad]
    /\ at' = [at EXCEPT ![w] = @ + 1]
    /\ pc' = [pc EXCEPT ![w] = "read"]
    /\ view' = [view EXCEPT ![w] = None]
    /\ UNCHANGED <<run, symbol, crashes>>

\* Fault: the loop goes on past every failed stage.
FailAndGoOn(w) ==
    /\ pc[w] = "finish"
    /\ MayFinish(w, "failed")
    /\ stage' = [stage EXCEPT ![at[w]].status = "failed"]
    /\ pc' = [pc EXCEPT ![w] = "read"]
    /\ at' = [at EXCEPT ![w] = @ + 1]
    /\ view' = [view EXCEPT ![w] = None]
    /\ UNCHANGED <<run, symbol, crashes>>

\* The executor raised or reported a failure.  The loop goes on past an
\* optional stage; a required one ends the run in a transaction of its own.
FailStage(w) ==
    /\ pc[w] = "finish"
    /\ MayFinish(w, "failed")
    /\ stage' = [stage EXCEPT ![at[w]].status = "failed"]
    /\ IF at[w] \in Required
       THEN /\ pc' = [pc EXCEPT ![w] = "failing"]
            /\ at' = at
       ELSE /\ pc' = [pc EXCEPT ![w] = "read"]
            /\ at' = [at EXCEPT ![w] = @ + 1]
    /\ view' = [view EXCEPT ![w] = None]
    /\ UNCHANGED <<run, symbol, crashes>>

\* _required_run before block_remaining_stages.
ReadAfterFailure(w) ==
    /\ pc[w] = "failing"
    /\ view' = [view EXCEPT ![w] = Snapshot]
    /\ pc' = [pc EXCEPT ![w] = "block"]
    /\ UNCHANGED <<rows, at, crashes>>

\* Fault: blocks every stage but the one that failed.
BlockEveryOther(w) ==
    /\ pc[w] = "block"
    /\ FinishRun(w, "failed")
    /\ stage' = [s \in Stage |->
                   IF s = at[w] THEN stage[s] ELSE [stage[s] EXCEPT !.status = "blocked"]]
    /\ Leave(w)
    /\ UNCHANGED <<symbol, crashes>>

\* block_remaining_stages and _fail_run, in one commit.
BlockAndFail(w) ==
    /\ pc[w] = "block"
    /\ FinishRun(w, "failed")
    /\ stage' = [s \in Stage |->
                   IF view[w].stage[s].status = "planned"
                   THEN [stage[s] EXCEPT !.status = "blocked"]
                   ELSE stage[s]]
    /\ Leave(w)
    /\ UNCHANGED <<symbol, crashes>>

\* Fault: forgets the symbols that failed upstream.
ResearchFailures(rec) == rec.stage[ResearchStage].failed

\* Symbols that failed in the research stage or upstream of it.
FailedSymbols(rec) ==
    rec.stage[FinancialStage].failed \cup rec.stage[ResearchStage].failed

ClosingStatus(rec) ==
    IF FailedSymbols(rec) = {}
    THEN "completed" ELSE "completed_with_symbol_failures"

\* upsert_symbol_result inserts when the process saw no row; the unique
\* constraint refuses the insert if another process has inserted since.
MayUpsert(w) == \A y \in Symbol : view[w].symbol[y] = "none" => symbol[y] = "none"

\* Every stage passed: the symbol rows and finish_run, in one commit.
FinishCycle(w) ==
    /\ pc[w] = "decide"
    /\ at[w] = StageCount + 1
    /\ MayUpsert(w)
    /\ FinishRun(w, ClosingStatus(view[w]))
    /\ symbol' = [y \in Symbol |->
                    IF y \in FailedSymbols(view[w]) THEN "failed" ELSE "completed"]
    /\ Leave(w)
    /\ UNCHANGED <<stage, crashes>>

\* An illegal transition, a lost lease or a refused insert raises: the
\* transaction rolls back and the process ends, leaving the rows alone.
Refused(w) ==
    \/ /\ pc[w] = "decide"
       /\ \/ StageDue(w) /\ ~MayStart(w)
          \/ /\ at[w] \in Stage
             /\ view[w].stage[at[w]].status # "completed"
             /\ view[w].stage[at[w]].attempts >= MaxAttempts
             /\ ~MayClose(w, "failed")
          \/ /\ at[w] = StageCount + 1
             /\ ~(MayUpsert(w) /\ MayClose(w, ClosingStatus(view[w])))
    \/ /\ pc[w] = "finish"
       /\ ~MayFinish(w, "completed")
    \/ /\ pc[w] = "block"
       /\ ~MayClose(w, "failed")

Die(w) ==
    /\ Refused(w)
    /\ Leave(w)
    /\ UNCHANGED <<rows, crashes>>

-----------------------------------------------------------------------------
(* The environment. *)

\* A process is killed; what it committed stays, its open transaction goes.
Crash(w) ==
    /\ pc[w] # "idle"
    /\ crashes < MaxCrashes
    /\ CrashMidStage \/ pc[w] \notin {"execute", "finish"}
    /\ crashes' = crashes + 1
    /\ Leave(w)
    /\ UNCHANGED rows

\* Time passes.  A lease runs out once its owner is gone or, with Overrun,
\* while its owner executes a stage longer than the lease renewed at the start
\* of that stage; the ledger's own transactions never take that long.
Tick ==
    /\ run.expiry > 0
    /\ \A w \in Worker : run.owner = w /\ pc[w] # "idle" =>
         run.expiry > 1 \/ (Overrun /\ pc[w] = "execute")
    /\ run' = [run EXCEPT !.expiry = @ - 1]
    /\ UNCHANGED <<stage, symbol, pc, at, view, crashes>>

Drive(w) ==
    \/ ReadLedger(w) \/ SkipCompleted(w) \/ StartStage(w) \/ FailAtLimit(w)
    \/ ReadAfterStage(w) \/ FinishStage(w) \/ FailStage(w)
    \/ ReadAfterFailure(w) \/ BlockAndFail(w) \/ FinishCycle(w) \/ Die(w)

Next ==
    \/ \E w \in Worker :
         CreateRun(w) \/ AcquireLease(w) \/ RecoverLease(w) \/ Drive(w) \/ Crash(w)
    \/ Tick

\* A process that is running keeps running and every executor returns (the
\* clients under it have timeouts); time passes; the operator answers
\* recovery_required with resume-run until a process takes the lease.
Fairness ==
    /\ \A w \in Worker : WF_vars(Drive(w))
    /\ WF_vars(Tick)
    /\ SF_vars(\E w \in Worker : RecoverLease(w))

Spec == Init /\ [][Next]_vars
FairSpec == Spec /\ Fairness

-----------------------------------------------------------------------------
(* Properties. *)

\* Every variable keeps its type; a process that decides holds a read.
TypeOK ==
    /\ run \in RunRow
    /\ stage \in [Stage -> StageRow]
    /\ symbol \in [Symbol -> SymbolStatus]
    /\ pc \in [Worker -> {"idle", "read", "execute", "failing"} \cup Deciding]
    /\ at \in [Worker -> 1..(StageCount + 1)]
    /\ view \in [Worker -> Ledger \cup {None}]
    /\ \A w \in Worker : pc[w] \in Deciding => view[w] \in Ledger
    /\ \A w \in Worker : pc[w] \in {"execute", "finish", "failing", "block"}
                            => at[w] \in Stage
    /\ crashes \in 0..MaxCrashes

\* The row has a lease owner exactly while the run is running, whoever wrote
\* last: neither conditional UPDATE can find a row it could never match.
LeaseMatchesStatus == run.status = "running" <=> run.owner # None

\* stage_max_attempts bounds every stage over all runs and resumes, also when
\* two processes start the same stage from reads of different age.
AttemptsWithinProfile == \A s \in Stage : stage[s].attempts <= MaxAttempts

\* A lease passes from one process to another only after it has run out
\* (acquire_lease, recover_stale_lease).
LeaseTakenOnlyExpired ==
    [][\A w \in Worker :
         run.owner = w /\ run'.owner \notin {w, None} => run.expiry = 0]_vars

\* "An active, non-expired lease is never stolen": while it is active, only a
\* step of the process that owns it ends it.
LeaseNotRevoked ==
    [][\A w \in Worker :
         run.owner = w /\ run.expiry > 0 /\ pc[w] # "idle" /\ run'.owner # w
         => pc'[w] # pc[w]]_vars

\* The lease lets one process at a time drive the cycle.
SingleDriver ==
    \A v, w \in Worker : pc[v] # "idle" /\ pc[w] # "idle" => v = w

\* A stage is started only behind predecessors that were attempted, and every
\* required one of them stays completed, across failures and resumes.
PredecessorsDone ==
    \A s \in Stage : stage[s].attempts > 0 =>
      \A p \in Stage : p < s =>
        /\ stage[p].attempts > 0
        /\ p \in Required => stage[p].status = "completed"

\* A completed cycle has every required stage completed and every optional one
\* attempted, and its status and symbol rows report exactly the symbols that
\* failed in research or upstream of it.
CompletedCycleIsWhole ==
    run.status \in Closed =>
      /\ \A s \in Stage : stage[s].attempts > 0
      /\ \A s \in Required : stage[s].status = "completed"
      /\ \A y \in Symbol : symbol[y] =
           IF y \in stage[FinancialStage].failed \cup stage[ResearchStage].failed
           THEN "failed" ELSE "completed"
      /\ run.status = "completed" <=> \A y \in Symbol : symbol[y] = "completed"

\* Resume "preserves completed stages": neither a resume nor a late commit
\* changes the row of a completed stage.
CompletedStagesPreserved ==
    [][\A s \in Stage : stage[s].status = "completed" => stage'[s] = stage[s]]_vars

\* A failed cycle shows why: a stage that failed or one that is out of attempts.
FailedCycleHasCause ==
    run.status = "failed" =>
      \E s \in Stage : \/ stage[s].status = "failed"
                        \/ /\ stage[s].attempts = MaxAttempts
                           /\ stage[s].status # "completed"

\* The outcome of a cycle, good or bad, is what its stages and symbols show.
OutcomeTellsStages == CompletedCycleIsWhole /\ FailedCycleHasCause

\* A running cycle settles: its process finishes it, or dies and resume-run
\* recovers the lease it left.
RunSettles == run.status = "running" ~> run.status \in Settled

\* What makes the properties above inductive when no stage outlasts its lease:
\* a process that is up holds the live lease, what it has read is still what
\* the rows say, and the stages it has passed are behind it for good.
Drives(w) ==
    /\ run.owner = w
    /\ run.expiry > 0
    /\ pc[w] \in Deciding =>
         /\ view[w].stage = stage
         /\ view[w].symbol = symbol
         /\ view[w].run.owner = w
         /\ view[w].run.status = "running"
    /\ \A p \in Stage : p < at[w] =>
         /\ stage[p].attempts > 0
         /\ p \in Required => stage[p].status = "completed"
    /\ pc[w] \in {"execute", "finish"} =>
         stage[at[w]].status = "running" /\ stage[at[w]].attempts > 0
    /\ pc[w] \in {"failing", "block"} => stage[at[w]].status = "failed"

DriverInv == \A w \in Worker : pc[w] # "idle" => Drives(w)

\* The contract of a cycle, with both completed statuses taken as one.
Contract == INSTANCE CycleContract WITH
    status <- IF run.status \in Closed THEN "completed" ELSE run.status,
    done <- {s \in Stage : stage[s].status = "completed"}

\* The ledger keeps the contract of a cycle: no resume, crash or refused
\* process undoes a finished stage, skips a required one or reopens a
\* completed cycle.
KeepsContract == Contract!Spec
=============================================================================
