---------------------------- MODULE ModelRelease ----------------------------
(***************************************************************************)
(* Governance of the model that scores production: release candidates with *)
(* their shadow run, burn-in and approval, the append-only deployments,    *)
(* the active_model_release pointer, and the releases that operational     *)
(* cycles are bound to.                                                    *)
(*                                                                         *)
(* An Operator is one process: a model_release_cli command, or a cycle at  *)
(* the moment it freezes its release.  A command reads its rows, decides   *)
(* and commits once at the end.  Only activation and rollback lock what    *)
(* they read, and they lock the pointer alone; every other command decides *)
(* on rows that may have changed by the time it commits.  work[o] holds    *)
(* what a command under way has read.  A command that is refused, loses a  *)
(* unique key or is killed leaves the rows alone.                          *)
(*                                                                         *)
(* A repeated command with the arguments of the first one is a case of its *)
(* action; with other arguments its key differs and it is refused.         *)
(***************************************************************************)
EXTENDS Naturals, Sequences, FiniteSets

CONSTANTS
    Operator,       \* processes of the commands and of the cycles
    Challenger,     \* release candidates with an authoritative T pass
    Champion,       \* the accepted V5 champion
    Cycle,          \* shadow cycles that may be recorded
    Run,            \* operational runs
    None,           \* SQL NULL; also "no command under way"
    MinCycles,      \* minimum_completed_cycles of the release policy
    MaxDeployments  \* bound on the number of deployments

ASSUME ReleaseAssumption ==
    /\ Champion \notin Challenger
    /\ None \notin Challenger \cup {Champion}
    /\ MinCycles \in Nat
    /\ MaxDeployments \in Nat

Release == Challenger \cup {Champion}
Deployment == 1..MaxDeployments

VARIABLES
    candidate,  \* status column of model_release_candidates
    shadow,     \* model_shadow_runs, one per challenger
    events,     \* model_shadow_events of one security, by challenger and cycle
    burnIn,     \* model_burn_in_runs, one per challenger
    approval,   \* champion deployment named by the challenger's approval, or 0
    history,    \* model_deployments in order of insertion
    pointer,    \* active_model_release
    binding,    \* deployment in model_release_cycle_bindings, or 0
    scored,     \* deployments in model_release_production_scores, by run
    work        \* the command each process has under way

vars == <<candidate, shadow, events, burnIn, approval, history, pointer,
          binding, scored, work>>
evidence == <<shadow, events, burnIn, approval>>
active == <<history, pointer>>
cycles == <<binding, scored>>

Mark == {"clean", "flagged"}
CandidateStatus ==
    {"absent", "candidate_created", "shadow_ready", "shadow_running",
     "burn_in_complete", "rejected", "activation_approved", "active", "rolled_back"}

ShadowRow ==
    [status: {"absent", "shadow_ready", "shadow_running", "burn_in_complete", "rejected"},
     champion: 0..MaxDeployments]
EventRows == [Cycle -> {"none"} \cup Mark]
BurnInRow == [status: {"none", "passed", "failed"}, evidence: EventRows]
DeploymentRow ==
    [release: Release, previous: 0..MaxDeployments,
     reason: {"bootstrap", "activation", "rollback"}]
PointerRow ==
    [deployment: 0..MaxDeployments, release: Release \cup {None}, version: 0..MaxDeployments]

\* What a command about a challenger has read.
Rows ==
    [candidate: CandidateStatus, shadow: ShadowRow, events: EventRows,
     burnIn: BurnInRow, approval: 0..MaxDeployments, active: 0..MaxDeployments]

Seen(c) ==
    [candidate |-> candidate[c], shadow |-> shadow[c], events |-> events[c],
     burnIn |-> burnIn[c], approval |-> approval[c], active |-> pointer.deployment]

Work ==
    [cmd: {"start", "approve", "activate"}, of: Challenger, seen: Rows]
    \cup [cmd: {"record"}, of: Challenger, seen: Rows, cycle: Cycle, mark: Mark]
    \cup [cmd: {"burn_in"}, of: Challenger, seen: Rows, envelope: BOOLEAN]
    \cup [cmd: {"freeze"}, run: Run, active: Deployment]

NoEvents == [k \in Cycle |-> "none"]

-----------------------------------------------------------------------------
Init ==
    /\ candidate = [c \in Release |-> "absent"]
    /\ shadow = [c \in Challenger |-> [status |-> "absent", champion |-> 0]]
    /\ events = [c \in Challenger |-> NoEvents]
    /\ burnIn = [c \in Challenger |-> [status |-> "none", evidence |-> NoEvents]]
    /\ approval = [c \in Challenger |-> 0]
    /\ history = <<>>
    /\ pointer = [deployment |-> 0, release |-> None, version |-> 0]
    /\ binding = [r \in Run |-> 0]
    /\ scored = [r \in Run |-> {}]
    /\ work = [o \in Operator |-> None]

\* A command has read its rows and found nothing to refuse.
Begin(o, w) ==
    /\ work[o] = None
    /\ work' = [work EXCEPT ![o] = w]
    /\ UNCHANGED <<candidate, evidence, active, cycles>>

\* Its commit.
Commits(o, cmd) ==
    /\ work[o] # None
    /\ work[o].cmd = cmd
    /\ work' = [work EXCEPT ![o] = None]

\* The UPDATE carries a column only if its value differs from what was read.
Written(now, read, new) == IF new = read THEN now ELSE new

SetCandidate(o, status) ==
    LET c == work[o].of IN
    candidate' = [candidate EXCEPT ![c] = Written(@, work[o].seen.candidate, status)]

SetShadow(o, status) ==
    LET c == work[o].of IN
    shadow' = [shadow EXCEPT ![c].status = Written(@, work[o].seen.shadow.status, status)]

-----------------------------------------------------------------------------
(* The deployments and the pointer. *)

\* A new deployment and the pointer on it, in one transaction.
Deploy(release, reason) ==
    /\ Len(history) < MaxDeployments
    /\ history' = Append(history, [release |-> release, previous |-> pointer.deployment,
                                   reason |-> reason])
    /\ pointer' = [deployment |-> Len(history) + 1, release |-> release,
                   version |-> pointer.version + 1]

\* bootstrap_active_champion.  Of two at a time the unique key of the candidate
\* lets one insert; a repetition finds the pointer and changes nothing.
Bootstrap ==
    /\ pointer.version = 0
    /\ Deploy(Champion, "bootstrap")
    /\ candidate' = [candidate EXCEPT ![Champion] = "active"]
    /\ UNCHANGED <<evidence, cycles, work>>

\* create_challenger_release_candidate for a challenger whose T run passed.
CreateCandidate(c) ==
    /\ candidate[c] = "absent"
    /\ candidate' = [candidate EXCEPT ![c] = "candidate_created"]
    /\ UNCHANGED <<evidence, active, cycles, work>>

\* The pointer row is locked from its read to the commit.
Locked == \E o \in Operator : work[o] # None /\ work[o].cmd = "activate"

\* rollback_release: a deployment of its own for the release that was active
\* before the current one.
Rollback ==
    LET current == history[pointer.deployment]
        restored == history[current.previous]
    IN /\ ~Locked
       /\ pointer.version > 0
       /\ current.reason # "rollback"
       /\ current.previous > 0
       /\ Deploy(restored.release, "rollback")
       /\ candidate' = [candidate EXCEPT ![current.release] = "rolled_back",
                                         ![restored.release] = "active"]
       /\ UNCHANGED <<evidence, cycles, work>>

-----------------------------------------------------------------------------
(* Shadow and burn-in. *)

ReadStart(o, c) ==
    /\ candidate[c] \in {"candidate_created", "shadow_ready"}
    /\ pointer.release = Champion
    /\ \/ shadow[c].status = "absent"
       \/ shadow[c] = [status |-> "shadow_ready", champion |-> pointer.deployment]
    /\ Begin(o, [cmd |-> "start", of |-> c, seen |-> Seen(c)])

\* start_shadow_run binds the active champion deployment.
StartShadow(o) ==
    LET c == work[o].of
        seen == work[o].seen
    IN /\ Commits(o, "start")
       /\ IF seen.shadow.status = "absent"
          THEN /\ shadow[c].status = "absent"
               /\ shadow' = [shadow EXCEPT ![c] = [status |-> "shadow_ready",
                                                   champion |-> seen.active]]
          ELSE shadow' = shadow
       /\ SetCandidate(o, "shadow_ready")
       /\ UNCHANGED <<events, burnIn, approval, active, cycles>>

\* Fault: a run that is complete still takes events.
OpenShadowAlways == {"shadow_ready", "shadow_running", "burn_in_complete"}

\* The states in which a shadow run takes events.
OpenShadow == {"shadow_ready", "shadow_running"}

ReadRecord(o, c, k, mark) ==
    /\ shadow[c].status \in OpenShadow
    /\ pointer.deployment = shadow[c].champion
    /\ pointer.release = Champion
    /\ events[c][k] \in {"none", mark}
    /\ Begin(o, [cmd |-> "record", of |-> c, seen |-> Seen(c), cycle |-> k, mark |-> mark])

\* record_shadow_cycle; the first event starts the run.
RecordShadow(o) ==
    LET c == work[o].of
        k == work[o].cycle
        seen == work[o].seen
    IN /\ Commits(o, "record")
       /\ seen.events[k] = "none" => events[c][k] = "none"
       /\ events' = [events EXCEPT ![c][k] = work[o].mark]
       /\ IF seen.shadow.status = "shadow_ready"
          THEN SetShadow(o, "shadow_running") /\ SetCandidate(o, "shadow_running")
          ELSE UNCHANGED <<shadow, candidate>>
       /\ UNCHANGED <<burnIn, approval, active, cycles>>

ReadBurnIn(o, c, envelope) ==
    /\ shadow[c].status \in {"shadow_running", "burn_in_complete", "rejected"}
    /\ burnIn[c].status = "none" \/ burnIn[c].evidence = events[c]
    /\ Begin(o, [cmd |-> "burn_in", of |-> c, seen |-> Seen(c), envelope |-> envelope])

\* The gates of the policy: enough cycles, no flagged event, and the duration
\* and latency envelope, which depends on the times the operator passes.
Verdict(seenEvents, envelope) ==
    IF /\ Cardinality({k \in Cycle : seenEvents[k] # "none"}) >= MinCycles
       /\ \A k \in Cycle : seenEvents[k] # "flagged"
       /\ envelope
    THEN "passed" ELSE "failed"

Outcome(verdict) == IF verdict = "passed" THEN "burn_in_complete" ELSE "rejected"

\* complete_burn_in.  A repetition finds the burn-in, validates it against the
\* events and writes the statuses again.
CompleteBurnIn(o) ==
    LET c == work[o].of
        seen == work[o].seen
        verdict == IF seen.burnIn.status = "none"
                   THEN Verdict(seen.events, work[o].envelope)
                   ELSE seen.burnIn.status
    IN /\ Commits(o, "burn_in")
       /\ seen.burnIn.status = "none" => burnIn[c].status = "none"
       /\ burnIn' = IF seen.burnIn.status = "none"
                    THEN [burnIn EXCEPT ![c] = [status |-> verdict, evidence |-> seen.events]]
                    ELSE burnIn
       /\ SetShadow(o, Outcome(verdict))
       /\ SetCandidate(o, Outcome(verdict))
       /\ UNCHANGED <<events, approval, active, cycles>>

-----------------------------------------------------------------------------
(* Approval and activation. *)

\* _validate_burn_in_graph: passed, and still the judgement of all the events.
ValidBurnIn(seen) ==
    /\ seen.shadow.status = "burn_in_complete"
    /\ seen.burnIn.status = "passed"
    /\ seen.burnIn.evidence = seen.events

ReadApprove(o, c) ==
    /\ ValidBurnIn(Seen(c))
    /\ pointer.release = Champion
    /\ approval[c] \in {0, pointer.deployment}
    /\ Begin(o, [cmd |-> "approve", of |-> c, seen |-> Seen(c)])

\* create_activation_approval: one per challenger, for one champion deployment.
Approve(o) ==
    LET c == work[o].of
        seen == work[o].seen
    IN /\ Commits(o, "approve")
       /\ seen.approval = 0 => approval[c] = 0
       /\ approval' = [approval EXCEPT ![c] = seen.active]
       /\ SetCandidate(o, "activation_approved")
       /\ UNCHANGED <<shadow, events, burnIn, active, cycles>>

\* Fault: any approval of the challenger will do.
ApprovedAtAll(c) == approval[c] # 0

\* _validate_approval: the approval names the champion deployment to replace.
Approved(c) == approval[c] # 0 /\ approval[c] = pointer.deployment

ReadActivate(o, c) ==
    /\ ~Locked
    /\ pointer.release = Champion
    /\ Approved(c)
    /\ ValidBurnIn(Seen(c))
    /\ Begin(o, [cmd |-> "activate", of |-> c, seen |-> Seen(c)])

\* activate_release does not look at the status of the candidate.
Activate(o) ==
    /\ Commits(o, "activate")
    /\ Deploy(work[o].of, "activation")
    /\ SetCandidate(o, "active")
    /\ UNCHANGED <<evidence, cycles>>

-----------------------------------------------------------------------------
(* Operational cycles. *)

\* freeze_active_release_for_cycle looks for a binding before the pointer; a
\* cycle that runs before the bootstrap is not bound.
ReadFreeze(o, r) ==
    /\ binding[r] = 0
    /\ pointer.version > 0
    /\ Begin(o, [cmd |-> "freeze", run |-> r, active |-> pointer.deployment])

\* One binding per run: a second insert is refused.
Freeze(o) ==
    /\ Commits(o, "freeze")
    /\ binding[work[o].run] = 0
    /\ binding' = [binding EXCEPT ![work[o].run] = work[o].active]
    /\ UNCHANGED <<candidate, evidence, active, scored>>

\* Fault: a retry scores with the release that is active by then.
ScoreActive(r) ==
    /\ binding[r] # 0
    /\ scored' = [scored EXCEPT ![r] = @ \cup {pointer.deployment}]
    /\ UNCHANGED <<candidate, evidence, active, binding, work>>

\* project_release_score_for_cycle scores with the release of the binding.
Score(r) ==
    /\ binding[r] # 0
    /\ scored' = [scored EXCEPT ![r] = @ \cup {binding[r]}]
    /\ UNCHANGED <<candidate, evidence, active, binding, work>>

\* A command under way is refused by a unique key or killed.
Abandon(o) ==
    /\ work[o] # None
    /\ work' = [work EXCEPT ![o] = None]
    /\ UNCHANGED <<candidate, evidence, active, cycles>>

Command(o) ==
    \/ \E c \in Challenger :
         \/ ReadStart(o, c) \/ ReadApprove(o, c) \/ ReadActivate(o, c)
         \/ \E k \in Cycle, mark \in Mark : ReadRecord(o, c, k, mark)
         \/ \E envelope \in BOOLEAN : ReadBurnIn(o, c, envelope)
    \/ StartShadow(o) \/ RecordShadow(o) \/ CompleteBurnIn(o) \/ Approve(o) \/ Activate(o)
    \/ (\E r \in Run : ReadFreeze(o, r)) \/ Freeze(o)
    \/ Abandon(o)

Next ==
    \/ Bootstrap \/ Rollback
    \/ \E c \in Challenger : CreateCandidate(c)
    \/ \E r \in Run : Score(r)
    \/ \E o \in Operator : Command(o)

Spec == Init /\ [][Next]_vars

-----------------------------------------------------------------------------
(* Properties. *)

\* Every variable keeps its type.
TypeOK ==
    /\ candidate \in [Release -> CandidateStatus]
    /\ shadow \in [Challenger -> ShadowRow]
    /\ events \in [Challenger -> EventRows]
    /\ burnIn \in [Challenger -> BurnInRow]
    /\ approval \in [Challenger -> 0..MaxDeployments]
    /\ history \in Seq(DeploymentRow)
    /\ Len(history) <= MaxDeployments
    /\ pointer \in PointerRow
    /\ binding \in [Run -> 0..MaxDeployments]
    /\ scored \in [Run -> SUBSET Deployment]
    /\ work \in [Operator -> Work \cup {None}]

\* "Activation and rollback are atomic pointer transitions backed by immutable
\* history": the pointer is on the last deployment, every deployment follows
\* the one that was active before it, a challenger follows only the champion
\* and a rollback only a challenger.
PointerFollowsHistory ==
    /\ pointer.deployment = Len(history)
    /\ pointer.version = Len(history)
    /\ pointer.release = IF history = <<>> THEN None ELSE history[Len(history)].release
    /\ \A d \in 1..Len(history) :
         /\ history[d].previous = d - 1
         /\ history[d].reason = "bootstrap" <=> d = 1
         /\ history[d].release = Champion <=> history[d].reason # "activation"
         /\ history[d].reason = "rollback" => history[d - 1].reason = "activation"

\* Every challenger deployment rests on a passed burn-in of that challenger and
\* on an approval for exactly the champion deployment it replaced, whatever
\* other commands ran between the approval and the activation.
ActivationEarned ==
    \A d \in 1..Len(history) :
      history[d].reason = "activation" =>
        LET c == history[d].release IN
        /\ c \in Challenger
        /\ burnIn[c].status = "passed"
        /\ approval[c] = history[d].previous
        /\ history[approval[c]].release = Champion

\* The judgement of a burn-in stands: its evidence is still all the events of
\* the shadow run and the run tells its outcome.  Two commands at a time may
\* break this, so it is a property of one operator.
BurnInStands ==
    \A c \in Challenger :
      burnIn[c].status # "none" =>
        /\ burnIn[c].evidence = events[c]
        /\ shadow[c].status =
             IF burnIn[c].status = "passed" THEN "burn_in_complete" ELSE "rejected"

\* "Retries reuse only the exact original binding": all scores of a run come
\* from the one deployment the run is bound to, whatever is activated or rolled
\* back between its attempts.
OneReleasePerRun == \A r \in Run : scored[r] \subseteq {binding[r]}

\* Completing a burn-in again changes nothing (it is "idempotent").
BurnInIdempotent ==
    [][\A o \in Operator :
         /\ work[o] # None /\ work[o].cmd = "burn_in"
         /\ work[o].seen.burnIn.status # "none"
         /\ work'[o] = None
         => UNCHANGED <<candidate, shadow, burnIn>>]_vars

\* Challengers that have been active.
Promoted == {c \in Challenger : \E d \in 1..Len(history) : history[d].release = c}

Promise == INSTANCE ReleasePromise WITH
    active <- pointer.release,
    promoted <- Promoted

\* The champion is active first and after every rollback, a challenger follows
\* only the champion, and a challenger that was rolled back never returns.
KeepsPromise == Promise!Spec
=============================================================================
