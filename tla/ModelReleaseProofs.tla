------------------------- MODULE ModelReleaseProofs -------------------------
(***************************************************************************)
(* Proofs about ModelRelease for any processes, challengers, cycles, runs  *)
(* and bounds: the active release follows the recorded history, every      *)
(* activation was earned, and a run is scored by one release.              *)
(***************************************************************************)
EXTENDS MCModelRelease, SequenceTheorems, TLAPS

(* The strengthening. *)

\* An approval names a champion deployment and rests on a passed burn-in.
ApprovalSound(c) ==
    approval[c] # 0 =>
      /\ approval[c] \in 1..Len(history)
      /\ history[approval[c]].release = Champion
      /\ burnIn[c].status = "passed"

\* What a command about a challenger has read and cannot change any more.
ReadStands(w) ==
    /\ w.seen.burnIn.status # "none" => burnIn[w.of] = w.seen.burnIn
    /\ w.seen.approval # 0 => approval[w.of] = w.seen.approval

\* What a command knows when it is about to commit.
WorkSound(w) ==
    /\ w.cmd # "freeze" => ReadStands(w)
    /\ w.cmd = "approve" =>
         /\ w.seen.active \in 1..Len(history)
         /\ history[w.seen.active].release = Champion
         /\ w.seen.burnIn.status = "passed"
         /\ w.seen.approval \in {0, w.seen.active}
    /\ w.cmd = "activate" =>
         /\ pointer.release = Champion
         /\ approval[w.of] # 0
         /\ approval[w.of] = pointer.deployment

Activates(o) == work[o] # None /\ work[o].cmd = "activate"

Sound ==
    /\ PointerFollowsHistory
    /\ ActivationEarned
    /\ \A c \in Challenger : ApprovalSound(c)
    /\ \A o \in Operator : work[o] # None => WorkSound(work[o])
    /\ \A o, p \in Operator : Activates(o) /\ Activates(p) => o = p

IInv == TypeOK /\ Sound

-----------------------------------------------------------------------------
(* Typing. *)

\* The work of a process is a command of one of the three shapes.
LEMMA WorkTyped ==
    ASSUME TypeOK, NEW o \in Operator, work[o] # None
    PROVE  /\ work[o] \in Work
           /\ work[o].cmd \in {"start", "record", "burn_in", "approve", "activate", "freeze"}
           /\ work[o].cmd # "freeze" => work[o].of \in Challenger /\ work[o].seen \in Rows
           /\ work[o].cmd = "record" => work[o].cycle \in Cycle /\ work[o].mark \in Mark
           /\ work[o].cmd = "freeze" => work[o].run \in Run /\ work[o].active \in Deployment
<1>1. work[o] \in Work
  BY DEF TypeOK
<1>2. QED
  BY <1>1 DEF Work

\* What a command reads about a challenger is a row of each table.
LEMMA SeenTyped ==
    ASSUME TypeOK, NEW c \in Challenger
    PROVE  Seen(c) \in Rows
<1>1. c \in Release
  BY DEF Release
<1>2. pointer.deployment \in 0..MaxDeployments
  BY DEF TypeOK, PointerRow
<1>3. QED
  BY <1>1, <1>2 DEF TypeOK, Rows, Seen

\* Writing a status keeps the statuses typed.
LEMMA StatusTyped ==
    ASSUME TypeOK, NEW o \in Operator, work[o] # None, work[o].cmd # "freeze"
    PROVE  /\ \A s \in CandidateStatus :
                SetCandidate(o, s) => candidate' \in [Release -> CandidateStatus]
           /\ \A s \in {"shadow_ready", "shadow_running", "burn_in_complete", "rejected"} :
                SetShadow(o, s) => shadow' \in [Challenger -> ShadowRow]
<1>1. work[o].of \in Challenger /\ work[o].of \in Release
  BY WorkTyped DEF Release
<1>2. ASSUME NEW s \in CandidateStatus, SetCandidate(o, s)
      PROVE  candidate' \in [Release -> CandidateStatus]
  BY <1>1, <1>2 DEF TypeOK, SetCandidate, Written
<1>3. ASSUME NEW s \in {"shadow_ready", "shadow_running", "burn_in_complete", "rejected"},
             SetShadow(o, s)
      PROVE  shadow' \in [Challenger -> ShadowRow]
  <2>1. \A row \in ShadowRow :
          [row EXCEPT !.status = Written(@, work[o].seen.shadow.status, s)] \in ShadowRow
    BY DEF ShadowRow, Written
  <2>2. QED
    BY <1>1, <1>3, <2>1 DEF TypeOK, SetShadow
<1>4. QED
  BY <1>2, <1>3

\* A deployment appends one row and puts the pointer on it.
LEMMA DeployStep ==
    ASSUME TypeOK, PointerFollowsHistory,
           NEW release \in Release, NEW reason \in {"bootstrap", "activation", "rollback"},
           Deploy(release, reason)
    PROVE  /\ history' \in Seq(DeploymentRow)
           /\ Len(history) \in Nat
           /\ Len(history') = Len(history) + 1
           /\ Len(history') <= MaxDeployments
           /\ \A d \in 1..Len(history) : history'[d] = history[d]
           /\ history'[Len(history')] =
                [release |-> release, previous |-> Len(history), reason |-> reason]
           /\ pointer' = [deployment |-> Len(history'), release |-> release,
                          version |-> Len(history')]
           /\ pointer' \in PointerRow
<1> DEFINE row == [release |-> release, previous |-> pointer.deployment, reason |-> reason]
<1>1. pointer.deployment = Len(history) /\ pointer.version = Len(history)
  BY DEF PointerFollowsHistory
<1>2. history \in Seq(DeploymentRow) /\ Len(history) \in Nat /\ MaxDeployments \in Nat
  BY ReleaseAssumption, LenProperties DEF TypeOK
<1>3. Len(history) < MaxDeployments /\ Len(history) \in 0..MaxDeployments
  BY <1>2 DEF Deploy
<1>4. row \in DeploymentRow
  BY <1>1, <1>3 DEF DeploymentRow
<1>5. history' = Append(history, row)
  BY DEF Deploy
<1>6. /\ history' \in Seq(DeploymentRow)
      /\ Len(history') = Len(history) + 1
      /\ \A d \in 1..Len(history) : history'[d] = history[d]
      /\ history'[Len(history) + 1] = row
  BY <1>2, <1>4, <1>5, AppendProperties
<1>7. pointer' = [deployment |-> Len(history'), release |-> release, version |-> Len(history')]
  BY <1>1, <1>6 DEF Deploy
<1>8. Len(history') \in 0..MaxDeployments
  BY <1>2, <1>3, <1>6
<1>9. pointer' \in PointerRow
  BY <1>7, <1>8 DEF PointerRow
<1>10. QED
  BY <1>1, <1>2, <1>6, <1>7, <1>8, <1>9

\* The pointer is on a champion deployment whenever a rollback starts from a
\* challenger, and the deployment it restores is the champion's.
LEMMA Restored ==
    ASSUME TypeOK, Sound, Rollback
    PROVE  /\ Len(history) \in 2..MaxDeployments
           /\ pointer.release \in Challenger
           /\ history[pointer.deployment].release = pointer.release
           /\ history[history[pointer.deployment].previous].release = Champion
<1> DEFINE d == Len(history)
<1>1. /\ d \in Nat /\ d <= MaxDeployments /\ MaxDeployments \in Nat
      /\ \A i \in 1..d : history[i] \in DeploymentRow
  BY ReleaseAssumption, LenProperties, ElementOfSeq DEF TypeOK
<1>2. pointer.deployment = d /\ pointer.version = d /\ d > 0 /\ d \in 1..d
  BY <1>1 DEF Sound, PointerFollowsHistory, Rollback
<1>3. history[d].previous = d - 1 /\ d - 1 > 0 /\ history[d].reason # "rollback"
  BY <1>2 DEF Sound, PointerFollowsHistory, Rollback
<1>4. d \in 2..MaxDeployments /\ history # <<>>
  BY <1>1, <1>3
<1>5. history[d].reason = "activation"
  BY <1>1, <1>2, <1>3 DEF Sound, PointerFollowsHistory, DeploymentRow
<1>6. /\ history[d].release \in Challenger
      /\ history[history[d].previous].release = Champion
  BY <1>2, <1>5 DEF Sound, ActivationEarned
<1>7. pointer.release = history[d].release
  BY <1>4 DEF Sound, PointerFollowsHistory
<1>8. QED
  BY <1>2, <1>4, <1>6, <1>7

\* Beginning a command keeps every variable typed.
LEMMA BeginTyped ==
    ASSUME TypeOK, PointerFollowsHistory, NEW o \in Operator, NEW c \in Challenger,
           \/ ReadStart(o, c) \/ ReadApprove(o, c) \/ ReadActivate(o, c)
           \/ \E k \in Cycle, mark \in Mark : ReadRecord(o, c, k, mark)
           \/ \E envelope \in BOOLEAN : ReadBurnIn(o, c, envelope)
    PROVE  TypeOK'
<1>1. Seen(c) \in Rows
  BY SeenTyped
<1>2. PICK w \in Work : Begin(o, w)
  <2>1. CASE ReadStart(o, c)
    BY <1>1, <2>1 DEF ReadStart, Work
  <2>2. CASE ReadApprove(o, c)
    BY <1>1, <2>2 DEF ReadApprove, Work
  <2>3. CASE ReadActivate(o, c)
    BY <1>1, <2>3 DEF ReadActivate, Work
  <2>4. CASE \E k \in Cycle, mark \in Mark : ReadRecord(o, c, k, mark)
    BY <1>1, <2>4 DEF ReadRecord, Work
  <2>5. CASE \E envelope \in BOOLEAN : ReadBurnIn(o, c, envelope)
    BY <1>1, <2>5 DEF ReadBurnIn, Work
  <2>6. QED
    BY <2>1, <2>2, <2>3, <2>4, <2>5
<1>3. work' \in [Operator -> Work \cup {None}]
  BY <1>2 DEF Begin, TypeOK
<1>4. QED
  BY <1>2, <1>3 DEF Begin, TypeOK, evidence, active, cycles

\* A commit keeps every variable typed.
LEMMA CommitTyped ==
    ASSUME TypeOK, PointerFollowsHistory, NEW o \in Operator,
           \/ StartShadow(o) \/ RecordShadow(o) \/ CompleteBurnIn(o) \/ Approve(o)
           \/ Activate(o) \/ Freeze(o) \/ Abandon(o)
    PROVE  TypeOK'
<1>1. work[o] # None /\ work' = [work EXCEPT ![o] = None]
  BY DEF StartShadow, RecordShadow, CompleteBurnIn, Approve, Activate, Freeze, Abandon, Commits
<1>2. work' \in [Operator -> Work \cup {None}]
  BY <1>1 DEF TypeOK
<1>3. CASE StartShadow(o)
  <2>1. work[o].cmd = "start" /\ work[o].of \in Challenger /\ work[o].seen \in Rows
    BY <1>1, <1>3, WorkTyped DEF StartShadow, Commits
  <2>2. candidate' \in [Release -> CandidateStatus]
    BY <1>1, <1>3, <2>1, StatusTyped DEF StartShadow, CandidateStatus
  <2>3. shadow' \in [Challenger -> ShadowRow]
    <3>1. [status |-> "shadow_ready", champion |-> work[o].seen.active] \in ShadowRow
      BY <2>1 DEF Rows, ShadowRow
    <3>2. QED
      BY <1>3, <3>1 DEF StartShadow, TypeOK
  <2>4. QED
    BY <1>2, <1>3, <2>2, <2>3 DEF StartShadow, TypeOK, active, cycles
<1>4. CASE RecordShadow(o)
  <2>1. /\ work[o].cmd = "record" /\ work[o].of \in Challenger
        /\ work[o].cycle \in Cycle /\ work[o].mark \in Mark
    BY <1>1, <1>4, WorkTyped DEF RecordShadow, Commits
  <2>2. candidate' \in [Release -> CandidateStatus] /\ shadow' \in [Challenger -> ShadowRow]
    <3>1. CASE work[o].seen.shadow.status = "shadow_ready"
      BY <1>1, <1>4, <2>1, <3>1, StatusTyped DEF RecordShadow, CandidateStatus
    <3>2. CASE work[o].seen.shadow.status # "shadow_ready"
      BY <1>4, <3>2 DEF RecordShadow, TypeOK
    <3>3. QED
      BY <3>1, <3>2
  <2>3. events' \in [Challenger -> EventRows]
    BY <1>4, <2>1 DEF RecordShadow, TypeOK, EventRows
  <2>4. QED
    BY <1>2, <1>4, <2>2, <2>3 DEF RecordShadow, TypeOK, active, cycles
<1>5. CASE CompleteBurnIn(o)
  <2> DEFINE seen == work[o].seen
             verdict == IF seen.burnIn.status = "none"
                        THEN Verdict(seen.events, work[o].envelope)
                        ELSE seen.burnIn.status
  <2>1. work[o].cmd = "burn_in" /\ work[o].of \in Challenger /\ seen \in Rows
    BY <1>1, <1>5, WorkTyped DEF CompleteBurnIn, Commits
  <2>2. verdict \in {"passed", "failed"}
    BY <2>1 DEF Rows, BurnInRow, Verdict
  <2>3. Outcome(verdict) \in {"burn_in_complete", "rejected"}
    BY DEF Outcome
  <2>4. candidate' \in [Release -> CandidateStatus] /\ shadow' \in [Challenger -> ShadowRow]
    BY <1>1, <1>5, <2>1, <2>3, StatusTyped DEF CompleteBurnIn, CandidateStatus
  <2>5. burnIn' \in [Challenger -> BurnInRow]
    <3>1. [status |-> verdict, evidence |-> seen.events] \in BurnInRow
      BY <2>1, <2>2 DEF Rows, BurnInRow
    <3>2. QED
      BY <1>5, <3>1 DEF CompleteBurnIn, TypeOK
  <2>6. QED
    BY <1>2, <1>5, <2>4, <2>5 DEF CompleteBurnIn, TypeOK, active, cycles
<1>6. CASE Approve(o)
  <2>1. work[o].cmd = "approve" /\ work[o].of \in Challenger /\ work[o].seen \in Rows
    BY <1>1, <1>6, WorkTyped DEF Approve, Commits
  <2>2. candidate' \in [Release -> CandidateStatus]
    BY <1>1, <1>6, <2>1, StatusTyped DEF Approve, CandidateStatus
  <2>3. approval' \in [Challenger -> 0..MaxDeployments]
    BY <1>6, <2>1 DEF Approve, TypeOK, Rows
  <2>4. QED
    BY <1>2, <1>6, <2>2, <2>3 DEF Approve, TypeOK, active, cycles
<1>7. CASE Activate(o)
  <2>1. work[o].cmd = "activate" /\ work[o].of \in Release /\ Deploy(work[o].of, "activation")
    BY <1>1, <1>7, WorkTyped DEF Activate, Commits, Release
  <2>2. candidate' \in [Release -> CandidateStatus]
    BY <1>1, <1>7, <2>1, StatusTyped DEF Activate, CandidateStatus
  <2>3. /\ history' \in Seq(DeploymentRow) /\ Len(history') <= MaxDeployments
        /\ pointer' \in PointerRow
    BY <2>1, DeployStep
  <2>4. QED
    BY <1>2, <1>7, <2>2, <2>3 DEF Activate, TypeOK, evidence, cycles
<1>8. CASE Freeze(o)
  <2>1. work[o].run \in Run /\ work[o].active \in 0..MaxDeployments
    BY <1>1, <1>8, WorkTyped, ReleaseAssumption DEF Freeze, Commits, Deployment
  <2>2. binding' \in [Run -> 0..MaxDeployments]
    BY <1>8, <2>1 DEF Freeze, TypeOK
  <2>3. QED
    BY <1>2, <1>8, <2>2 DEF Freeze, TypeOK, evidence, active
<1>9. CASE Abandon(o)
  BY <1>2, <1>9 DEF Abandon, TypeOK, evidence, active, cycles
<1>10. QED
  BY <1>3, <1>4, <1>5, <1>6, <1>7, <1>8, <1>9

\* Every step keeps every variable typed.
LEMMA StepTyped ==
    ASSUME TypeOK, Sound, [Next]_vars
    PROVE  TypeOK'
<1>1. PointerFollowsHistory
  BY DEF Sound
<1>2. CASE Bootstrap
  <2>1. Champion \in Release /\ Deploy(Champion, "bootstrap")
    BY <1>2 DEF Bootstrap, Release
  <2>2. /\ history' \in Seq(DeploymentRow) /\ Len(history') <= MaxDeployments
        /\ pointer' \in PointerRow
    BY <1>1, <2>1, DeployStep
  <2>3. candidate' \in [Release -> CandidateStatus]
    BY <1>2, <2>1 DEF Bootstrap, TypeOK, CandidateStatus
  <2>4. QED
    BY <1>2, <2>2, <2>3 DEF Bootstrap, TypeOK, evidence, cycles
<1>3. CASE Rollback
  <2>1. /\ history[pointer.deployment].release \in Release
        /\ history[history[pointer.deployment].previous].release \in Release
    BY <1>3, Restored DEF Release
  <2>2. Deploy(history[history[pointer.deployment].previous].release, "rollback")
    BY <1>3 DEF Rollback
  <2>3. /\ history' \in Seq(DeploymentRow) /\ Len(history') <= MaxDeployments
        /\ pointer' \in PointerRow
    BY <1>1, <2>1, <2>2, DeployStep
  <2>4. candidate' \in [Release -> CandidateStatus]
    BY <1>3, <2>1 DEF Rollback, TypeOK, CandidateStatus
  <2>5. QED
    BY <1>3, <2>3, <2>4 DEF Rollback, TypeOK, evidence, cycles
<1>4. ASSUME NEW c \in Challenger, CreateCandidate(c)
      PROVE  TypeOK'
  BY <1>4 DEF CreateCandidate, TypeOK, CandidateStatus, Release, evidence, active, cycles
<1>5. ASSUME NEW r \in Run, Score(r)
      PROVE  TypeOK'
  <2>1. binding[r] \in Deployment
    BY <1>5, ReleaseAssumption DEF Score, TypeOK, Deployment
  <2>2. scored' \in [Run -> SUBSET Deployment]
    BY <1>5, <2>1 DEF Score, TypeOK
  <2>3. QED
    BY <1>5, <2>2 DEF Score, TypeOK, evidence, active
<1>6. ASSUME NEW o \in Operator, Command(o)
      PROVE  TypeOK'
  <2>1. ASSUME NEW r \in Run, ReadFreeze(o, r)
        PROVE  TypeOK'
    <3> DEFINE w == [cmd |-> "freeze", run |-> r, active |-> pointer.deployment]
    <3>1. pointer.deployment \in Deployment
      BY <1>1, <2>1, ReleaseAssumption
      DEF ReadFreeze, PointerFollowsHistory, TypeOK, PointerRow, Deployment
    <3>2. w \in Work /\ Begin(o, w)
      BY <2>1, <3>1 DEF ReadFreeze, Work
    <3>3. work' \in [Operator -> Work \cup {None}]
      BY <3>2 DEF Begin, TypeOK
    <3>4. QED
      BY <3>2, <3>3 DEF Begin, TypeOK, evidence, active, cycles
  <2>2. CASE \E c \in Challenger :
               \/ ReadStart(o, c) \/ ReadApprove(o, c) \/ ReadActivate(o, c)
               \/ \E k \in Cycle, mark \in Mark : ReadRecord(o, c, k, mark)
               \/ \E envelope \in BOOLEAN : ReadBurnIn(o, c, envelope)
    BY <1>1, <2>2, BeginTyped
  <2>3. CASE \/ StartShadow(o) \/ RecordShadow(o) \/ CompleteBurnIn(o) \/ Approve(o)
             \/ Activate(o) \/ Freeze(o) \/ Abandon(o)
    BY <1>1, <2>3, CommitTyped
  <2>4. QED
    BY <1>6, <2>1, <2>2, <2>3 DEF Command
<1>7. CASE UNCHANGED vars
  BY <1>7 DEF TypeOK, vars, evidence, active, cycles
<1>8. QED
  BY <1>2, <1>3, <1>4, <1>5, <1>6, <1>7 DEF Next

-----------------------------------------------------------------------------
(* Soundness. *)

\* Nothing is lost when commands end and the rows they rest on stay.
LEMMA QuietSound ==
    ASSUME Sound, UNCHANGED <<history, pointer, approval, burnIn>>,
           \A p \in Operator : work'[p] = work[p] \/ work'[p] = None
    PROVE  Sound'
<1>1. PointerFollowsHistory' /\ ActivationEarned'
  BY DEF Sound, PointerFollowsHistory, ActivationEarned
<1>2. \A c \in Challenger : ApprovalSound(c)'
  BY DEF Sound, ApprovalSound
<1>3. \A o \in Operator : work'[o] # None => WorkSound(work[o])' /\ work'[o] = work[o]
  BY DEF Sound, WorkSound, ReadStands
<1>4. \A o \in Operator : (work[o] # None => WorkSound(work[o]))'
  BY <1>3
<1>5. (\A o, p \in Operator : Activates(o) /\ Activates(p) => o = p)'
  BY <1>3 DEF Sound, Activates
<1>6. QED
  BY <1>1, <1>2, <1>4, <1>5 DEF Sound

\* A command that has just begun knows the rows as they are.
LEMMA BeginSound ==
    ASSUME TypeOK, Sound, NEW o \in Operator,
           \/ \E r \in Run : ReadFreeze(o, r)
           \/ \E c \in Challenger :
                \/ ReadStart(o, c) \/ ReadApprove(o, c) \/ ReadActivate(o, c)
                \/ \E k \in Cycle, mark \in Mark : ReadRecord(o, c, k, mark)
                \/ \E envelope \in BOOLEAN : ReadBurnIn(o, c, envelope)
    PROVE  Sound'
<1> DEFINE Ready(w) == /\ WorkSound(w)
                       /\ w.cmd = "activate" => ~Locked
<1>1. PICK w : Begin(o, w) /\ Ready(w)
  <2>1. ASSUME NEW r \in Run, ReadFreeze(o, r)
        PROVE  \E w : Begin(o, w) /\ Ready(w)
    <3> DEFINE w == [cmd |-> "freeze", run |-> r, active |-> pointer.deployment]
    <3>1. Begin(o, w) /\ Ready(w)
      BY <2>1 DEF ReadFreeze, WorkSound
    <3>2. QED
      BY <3>1
  <2>2. ASSUME NEW c \in Challenger
        PROVE  /\ Seen(c).burnIn = burnIn[c] /\ Seen(c).approval = approval[c]
               /\ Seen(c).active = pointer.deployment
    BY DEF Seen
  <2>3. ASSUME NEW c \in Challenger, ReadStart(o, c)
        PROVE  \E w : Begin(o, w) /\ Ready(w)
    <3> DEFINE w == [cmd |-> "start", of |-> c, seen |-> Seen(c)]
    <3>1. Begin(o, w) /\ Ready(w)
      BY <2>2, <2>3 DEF ReadStart, WorkSound, ReadStands
    <3>2. QED
      BY <3>1
  <2>4. ASSUME NEW c \in Challenger, NEW k \in Cycle, NEW mark \in Mark, ReadRecord(o, c, k, mark)
        PROVE  \E w : Begin(o, w) /\ Ready(w)
    <3> DEFINE w == [cmd |-> "record", of |-> c, seen |-> Seen(c), cycle |-> k, mark |-> mark]
    <3>1. Begin(o, w) /\ Ready(w)
      BY <2>2, <2>4 DEF ReadRecord, WorkSound, ReadStands
    <3>2. QED
      BY <3>1
  <2>5. ASSUME NEW c \in Challenger, NEW envelope \in BOOLEAN, ReadBurnIn(o, c, envelope)
        PROVE  \E w : Begin(o, w) /\ Ready(w)
    <3> DEFINE w == [cmd |-> "burn_in", of |-> c, seen |-> Seen(c), envelope |-> envelope]
    <3>1. Begin(o, w) /\ Ready(w)
      BY <2>2, <2>5 DEF ReadBurnIn, WorkSound, ReadStands
    <3>2. QED
      BY <3>1
  <2>6. ASSUME NEW c \in Challenger, ReadApprove(o, c)
        PROVE  \E w : Begin(o, w) /\ Ready(w)
    <3> DEFINE w == [cmd |-> "approve", of |-> c, seen |-> Seen(c)]
    <3>1. pointer.deployment = Len(history) /\ history # <<>>
      BY <2>6, ReleaseAssumption DEF ReadApprove, Sound, PointerFollowsHistory
    <3>2. Len(history) \in 1..Len(history) /\ history[Len(history)].release = Champion
      BY <2>6, <3>1, EmptySeq, LenProperties DEF ReadApprove, Sound, PointerFollowsHistory, TypeOK
    <3>3. burnIn[c].status = "passed" /\ approval[c] \in {0, pointer.deployment}
      BY <2>2, <2>6 DEF ReadApprove, ValidBurnIn
    <3>4. Begin(o, w) /\ Ready(w)
      BY <2>2, <2>6, <3>1, <3>2, <3>3 DEF ReadApprove, WorkSound, ReadStands
    <3>5. QED
      BY <3>4
  <2>7. ASSUME NEW c \in Challenger, ReadActivate(o, c)
        PROVE  \E w : Begin(o, w) /\ Ready(w)
    <3> DEFINE w == [cmd |-> "activate", of |-> c, seen |-> Seen(c)]
    <3>1. Begin(o, w) /\ Ready(w)
      BY <2>2, <2>7 DEF ReadActivate, Approved, WorkSound, ReadStands
    <3>2. QED
      BY <3>1
  <2>8. QED
    BY <2>1, <2>3, <2>4, <2>5, <2>6, <2>7
<1>2. /\ UNCHANGED <<history, pointer, approval, burnIn>>
      /\ work[o] = None /\ work' = [work EXCEPT ![o] = w]
  BY <1>1 DEF Begin, evidence, active
<1>3. PointerFollowsHistory' /\ ActivationEarned'
  BY <1>2 DEF Sound, PointerFollowsHistory, ActivationEarned
<1>4. \A c \in Challenger : ApprovalSound(c)'
  BY <1>2 DEF Sound, ApprovalSound
<1>5. ASSUME NEW p \in Operator, work'[p] # None
      PROVE  WorkSound(work[p])'
  <2>1. WorkSound(work'[p])
    BY <1>1, <1>2, <1>5 DEF TypeOK, Sound
  <2>2. QED
    BY <1>2, <2>1 DEF WorkSound, ReadStands
<1>6. ASSUME NEW p \in Operator, NEW q \in Operator, Activates(p)', Activates(q)'
      PROVE  p = q
  <2>1. w.cmd = "activate" => \A x \in Operator : ~Activates(x)
    BY <1>1 DEF Locked, Activates
  <2>2. \A x \in Operator : Activates(x)' => Activates(x) \/ (x = o /\ w.cmd = "activate")
    BY <1>2 DEF TypeOK, Activates
  <2>3. QED
    BY <1>6, <2>1, <2>2 DEF Sound
<1>7. QED
  BY <1>3, <1>4, <1>5, <1>6 DEF Sound

\* A burn-in is inserted once, so what was judged stays judged.
LEMMA BurnInSound ==
    ASSUME TypeOK, Sound, NEW o \in Operator, CompleteBurnIn(o)
    PROVE  Sound'
<1>1. work[o] # None /\ work[o].cmd = "burn_in" /\ work' = [work EXCEPT ![o] = None]
  BY DEF CompleteBurnIn, Commits
<1>2. UNCHANGED <<history, pointer, approval>>
  BY DEF CompleteBurnIn, active
<1>3. \A c \in Challenger : burnIn[c].status # "none" => burnIn'[c] = burnIn[c]
  <2>1. CASE work[o].seen.burnIn.status = "none"
    BY <2>1 DEF CompleteBurnIn, TypeOK
  <2>2. CASE work[o].seen.burnIn.status # "none"
    BY <2>2 DEF CompleteBurnIn
  <2>3. QED
    BY <2>1, <2>2
<1>4. PointerFollowsHistory'
  BY <1>2 DEF Sound, PointerFollowsHistory
<1>5. ActivationEarned'
  BY <1>2, <1>3 DEF Sound, ActivationEarned
<1>6. \A c \in Challenger : ApprovalSound(c)'
  BY <1>2, <1>3 DEF Sound, ApprovalSound
<1>7. ASSUME NEW p \in Operator, work'[p] # None
      PROVE  WorkSound(work[p])'
  <2>1. work'[p] = work[p] /\ WorkSound(work[p])
    BY <1>1, <1>7 DEF TypeOK, Sound
  <2>2. work[p].cmd # "freeze" =>
          work[p].of \in Challenger /\ (work[p].seen.burnIn.status # "none" =>
                                          burnIn'[work[p].of] = work[p].seen.burnIn)
    BY <1>3, <1>7, <2>1, WorkTyped DEF WorkSound, ReadStands
  <2>3. QED
    BY <1>2, <2>1, <2>2 DEF WorkSound, ReadStands
<1>8. (\A p, q \in Operator : Activates(p) /\ Activates(q) => p = q)'
  BY <1>1 DEF TypeOK, Sound, Activates
<1>9. QED
  BY <1>4, <1>5, <1>6, <1>7, <1>8 DEF Sound

\* An approval is inserted once, and the deployment it names was the
\* champion's when it was read.
LEMMA ApproveSound ==
    ASSUME TypeOK, Sound, NEW o \in Operator, Approve(o)
    PROVE  Sound'
<1> DEFINE c == work[o].of
           seen == work[o].seen
<1>1. /\ work[o] # None /\ work[o].cmd = "approve" /\ work' = [work EXCEPT ![o] = None]
      /\ c \in Challenger /\ WorkSound(work[o])
  BY WorkTyped DEF Approve, Commits, Sound
<1>2. UNCHANGED <<history, pointer, burnIn>> /\ approval' = [approval EXCEPT ![c] = seen.active]
  BY DEF Approve, active
<1>3. approval[c] \in {0, seen.active}
  BY <1>1 DEF Approve, WorkSound, ReadStands
<1>4. \A d \in Challenger : approval[d] # 0 => approval'[d] = approval[d]
  BY <1>2, <1>3 DEF TypeOK
<1>5. PointerFollowsHistory'
  BY <1>2 DEF Sound, PointerFollowsHistory
<1>6. ActivationEarned'
  <2>1. /\ \A d \in 1..Len(history) : history[d].previous = d - 1
        /\ history[1].reason # "activation" \/ 1 \notin 1..Len(history)
    BY DEF Sound, PointerFollowsHistory
  <2>2. Len(history) \in Nat
    BY LenProperties DEF TypeOK
  <2>3. \A d \in 1..Len(history) : history[d].reason = "activation" => approval[history[d].release] # 0
    BY <2>1, <2>2 DEF Sound, ActivationEarned
  <2>4. QED
    BY <1>2, <1>4, <2>3 DEF Sound, ActivationEarned
<1>7. ASSUME NEW d \in Challenger
      PROVE  ApprovalSound(d)'
  <2>1. CASE d = c
    <3>1. burnIn[c].status = "passed"
      BY <1>1 DEF WorkSound, ReadStands
    <3>2. approval'[c] \in 1..Len(history) /\ history[approval'[c]].release = Champion
      BY <1>1, <1>2 DEF WorkSound, TypeOK
    <3>3. QED
      BY <1>2, <2>1, <3>1, <3>2 DEF ApprovalSound
  <2>2. CASE d # c
    BY <1>2, <2>2 DEF Sound, ApprovalSound, TypeOK
  <2>3. QED
    BY <2>1, <2>2
<1>8. ASSUME NEW p \in Operator, work'[p] # None
      PROVE  WorkSound(work[p])'
  <2>1. work'[p] = work[p] /\ WorkSound(work[p]) /\ work[p] # None
    BY <1>1, <1>8 DEF TypeOK, Sound
  <2>2. work[p].cmd # "freeze" => work[p].of \in Challenger
    BY <2>1, WorkTyped
  <2>3. QED
    BY <1>2, <1>4, <2>1, <2>2 DEF WorkSound, ReadStands
<1>9. (\A p, q \in Operator : Activates(p) /\ Activates(q) => p = q)'
  BY <1>1 DEF TypeOK, Sound, Activates
<1>10. QED
  BY <1>5, <1>6, <1>7, <1>8, <1>9 DEF Sound

\* A deployment that the history allows keeps the history, the approvals and
\* the commands sound, provided no activation is left under way.
LEMMA DeploySound ==
    ASSUME TypeOK, Sound,
           NEW release \in Release, NEW reason \in {"bootstrap", "activation", "rollback"},
           Deploy(release, reason),
           UNCHANGED <<approval, burnIn>>,
           reason = "bootstrap" <=> history = <<>>,
           release = Champion <=> reason # "activation",
           reason = "activation" =>
             /\ burnIn[release].status = "passed"
             /\ approval[release] = pointer.deployment
             /\ pointer.release = Champion,
           reason = "rollback" => history[Len(history)].reason = "activation",
           \A p \in Operator : work'[p] = None \/ (work'[p] = work[p] /\ ~Activates(p))
    PROVE  Sound'
<1> DEFINE n == Len(history)
<1>1. /\ n \in Nat /\ Len(history') = n + 1
      /\ \A d \in 1..n : history'[d] = history[d]
      /\ history'[n + 1] = [release |-> release, previous |-> n, reason |-> reason]
      /\ pointer' = [deployment |-> n + 1, release |-> release, version |-> n + 1]
  BY DeployStep DEF Sound
<1>2. /\ n = 0 <=> history = <<>>
      /\ history' # <<>>
  BY <1>1, EmptySeq, LenProperties DEF TypeOK
<1>3. PointerFollowsHistory'
  <2>1. /\ pointer'.deployment = Len(history') /\ pointer'.version = Len(history')
        /\ pointer'.release = history'[Len(history')].release
    BY <1>1
  <2>2. ASSUME NEW d \in 1..Len(history')
        PROVE  /\ history'[d].previous = d - 1
               /\ history'[d].reason = "bootstrap" <=> d = 1
               /\ history'[d].release = Champion <=> history'[d].reason # "activation"
               /\ history'[d].reason = "rollback" => history'[d - 1].reason = "activation"
    <3>1. CASE d \in 1..n
      <4>1. history[d].reason = "rollback" => d - 1 \in 1..n
        BY <1>1, <3>1 DEF Sound, PointerFollowsHistory
      <4>2. QED
        BY <1>1, <3>1, <4>1 DEF Sound, PointerFollowsHistory
    <3>2. CASE d = n + 1
      <4>1. reason = "rollback" => n \in 1..n
        BY <1>1, <1>2, <3>2
      <4>2. d = 1 <=> history = <<>>
        BY <1>1, <1>2, <3>2
      <4>3. QED
        BY <1>1, <3>2, <4>1, <4>2
    <3>3. QED
      BY <1>1, <3>1, <3>2
  <2>3. QED
    BY <1>2, <2>1, <2>2 DEF PointerFollowsHistory
<1>4. ASSUME NEW d \in 1..Len(history'), history'[d].reason = "activation"
      PROVE  /\ history'[d].release \in Challenger
             /\ burnIn'[history'[d].release].status = "passed"
             /\ approval'[history'[d].release] = history'[d].previous
             /\ history'[approval'[history'[d].release]].release = Champion
  <2>1. CASE d \in 1..n
    <3>1. /\ history[d].release \in Challenger
          /\ burnIn[history[d].release].status = "passed"
          /\ approval[history[d].release] = history[d].previous
          /\ history[approval[history[d].release]].release = Champion
      BY <1>1, <1>4, <2>1 DEF Sound, ActivationEarned
    <3>2. history[d].previous = d - 1 /\ d # 1
      BY <1>1, <1>4, <2>1 DEF Sound, PointerFollowsHistory
    <3>3. d - 1 \in 1..n
      BY <1>1, <2>1, <3>2
    <3>4. QED
      BY <1>1, <2>1, <3>1, <3>2, <3>3
  <2>2. CASE d = n + 1
    <3>1. reason = "activation" /\ history'[d].release = release /\ history'[d].previous = n
      BY <1>1, <1>4, <2>2
    <3>2. release \in Challenger /\ history # <<>>
      BY <3>1 DEF Release
    <3>3. n \in 1..n /\ pointer.deployment = n /\ history[n].release = Champion
      BY <1>1, <1>2, <3>1, <3>2 DEF Sound, PointerFollowsHistory
    <3>4. QED
      BY <1>1, <3>1, <3>2, <3>3
  <2>3. QED
    BY <1>1, <2>1, <2>2
<1>5. ActivationEarned'
  BY <1>4 DEF ActivationEarned
<1>6. \A c \in Challenger : ApprovalSound(c)'
  BY <1>1 DEF Sound, ApprovalSound
<1>7. ASSUME NEW p \in Operator, work'[p] # None
      PROVE  WorkSound(work[p])' /\ ~Activates(p)'
  <2>1. work'[p] = work[p] /\ WorkSound(work[p]) /\ work[p].cmd # "activate"
    BY <1>7 DEF Sound, Activates
  <2>2. work[p].cmd = "approve" =>
          /\ work[p].seen.active \in 1..Len(history')
          /\ history'[work[p].seen.active].release = Champion
    BY <1>1, <2>1 DEF WorkSound
  <2>3. QED
    BY <2>1, <2>2 DEF WorkSound, ReadStands, Activates
<1>8. (\A p, q \in Operator : Activates(p) /\ Activates(q) => p = q)'
  BY <1>7 DEF Activates
<1>9. QED
  BY <1>3, <1>5, <1>6, <1>7, <1>8 DEF Sound

\* No activation is under way before the bootstrap.
LEMMA BootstrapSound ==
    ASSUME TypeOK, Sound, Bootstrap
    PROVE  Sound'
<1>1. history = <<>> /\ pointer.release = None
  <2>1. Len(history) = 0
    BY DEF Bootstrap, Sound, PointerFollowsHistory
  <2>2. QED
    BY <2>1, EmptySeq, LenProperties DEF Sound, PointerFollowsHistory, TypeOK
<1>2. \A p \in Operator : ~Activates(p)
  BY <1>1, ReleaseAssumption DEF Sound, WorkSound, Activates
<1>3. Champion \in Release /\ Deploy(Champion, "bootstrap") /\ UNCHANGED <<approval, burnIn, work>>
  BY DEF Bootstrap, Release, evidence
<1>4. QED
  BY <1>1, <1>2, <1>3, DeploySound

\* The activation deploys what it has locked and validated.
LEMMA ActivateSound ==
    ASSUME TypeOK, Sound, NEW o \in Operator, Activate(o)
    PROVE  Sound'
<1> DEFINE c == work[o].of
<1>1. /\ Activates(o) /\ c \in Challenger /\ WorkSound(work[o])
      /\ work' = [work EXCEPT ![o] = None] /\ Deploy(c, "activation")
      /\ UNCHANGED <<approval, burnIn>>
  BY WorkTyped DEF Activate, Activates, Commits, Sound, evidence
<1>2. /\ approval[c] = pointer.deployment /\ approval[c] # 0 /\ pointer.release = Champion
      /\ burnIn[c].status = "passed"
  BY <1>1 DEF WorkSound, Activates, Sound, ApprovalSound
<1>3. history # <<>> /\ c \in Release /\ c # Champion
  BY <1>1, <1>2, ReleaseAssumption DEF Sound, PointerFollowsHistory, Release
<1>4. \A p \in Operator : work'[p] = None \/ (work'[p] = work[p] /\ ~Activates(p))
  BY <1>1 DEF Sound, TypeOK
<1>5. QED
  BY <1>1, <1>2, <1>3, <1>4, DeploySound

\* A rollback finds the pointer unlocked and follows an activation.
LEMMA RollbackSound ==
    ASSUME TypeOK, Sound, Rollback
    PROVE  Sound'
<1> DEFINE n == Len(history)
<1>1. /\ n \in 2..MaxDeployments /\ pointer.release \in Challenger
      /\ history[pointer.deployment].release = pointer.release
      /\ history[history[pointer.deployment].previous].release = Champion
  BY Restored
<1>2. pointer.deployment = n /\ n \in 1..n /\ history # <<>>
  BY <1>1, ReleaseAssumption DEF Sound, PointerFollowsHistory
<1>3. history[n].reason = "activation"
  BY <1>1, <1>2, ReleaseAssumption DEF Sound, PointerFollowsHistory
<1>4. /\ Champion \in Release /\ Deploy(Champion, "rollback")
      /\ UNCHANGED <<approval, burnIn, work>>
  BY <1>1 DEF Rollback, Release, evidence
<1>5. \A p \in Operator : ~Activates(p)
  BY DEF Rollback, Locked, Activates
<1>6. QED
  BY <1>2, <1>3, <1>4, <1>5, DeploySound

\* Every step keeps the strengthening.
LEMMA StepSound ==
    ASSUME TypeOK, Sound, [Next]_vars
    PROVE  Sound'
<1>1. CASE Bootstrap
  BY <1>1, BootstrapSound
<1>2. CASE Rollback
  BY <1>2, RollbackSound
<1>3. CASE \/ \E c \in Challenger : CreateCandidate(c)
           \/ \E r \in Run : Score(r)
           \/ UNCHANGED vars
  BY <1>3, QuietSound DEF CreateCandidate, Score, vars, evidence, active
<1>4. ASSUME NEW o \in Operator, Command(o)
      PROVE  Sound'
  <2>1. CASE StartShadow(o) \/ RecordShadow(o) \/ Freeze(o) \/ Abandon(o)
    <3>1. UNCHANGED <<history, pointer, approval, burnIn>> /\ work' = [work EXCEPT ![o] = None]
      BY <2>1 DEF StartShadow, RecordShadow, Freeze, Abandon, Commits, evidence, active
    <3>2. QED
      BY <3>1, QuietSound DEF TypeOK
  <2>2. CASE CompleteBurnIn(o)
    BY <2>2, BurnInSound
  <2>3. CASE Approve(o)
    BY <2>3, ApproveSound
  <2>4. CASE Activate(o)
    BY <2>4, ActivateSound
  <2>5. CASE \/ \E r \in Run : ReadFreeze(o, r)
             \/ \E c \in Challenger :
                  \/ ReadStart(o, c) \/ ReadApprove(o, c) \/ ReadActivate(o, c)
                  \/ \E k \in Cycle, mark \in Mark : ReadRecord(o, c, k, mark)
                  \/ \E envelope \in BOOLEAN : ReadBurnIn(o, c, envelope)
    BY <2>5, BeginSound
  <2>6. QED
    BY <1>4, <2>1, <2>2, <2>3, <2>4, <2>5 DEF Command
<1>5. QED
  BY <1>1, <1>2, <1>3, <1>4 DEF Next

\* The strengthening holds of an empty database.
LEMMA InitSound == Init => IInv
<1> SUFFICES ASSUME Init PROVE IInv
  OBVIOUS
<1>1. history \in Seq(DeploymentRow) /\ Len(history) = 0
  BY EmptySeq DEF Init
<1>2. NoEvents \in EventRows /\ MaxDeployments \in Nat
  BY ReleaseAssumption DEF NoEvents, EventRows
<1>3. TypeOK
  BY <1>1, <1>2 DEF Init, TypeOK, CandidateStatus, ShadowRow, BurnInRow, PointerRow, Release
<1>4. Sound
  BY <1>1 DEF Init, Sound, PointerFollowsHistory, ActivationEarned, ApprovalSound, Activates
<1>5. QED
  BY <1>3, <1>4 DEF IInv

-----------------------------------------------------------------------------
(* The theorems. *)

\* The strengthening is an invariant.
THEOREM Invariance == Spec => []IInv
<1>1. IInv /\ [Next]_vars => IInv'
  BY StepTyped, StepSound DEF IInv
<1>2. QED
  BY InitSound, <1>1, PTL DEF Spec

\* Every variable of the release governance keeps its type.
THEOREM TypeCorrect == Spec => []TypeOK
<1>1. IInv => TypeOK
  BY DEF IInv
<1>2. QED
  BY Invariance, <1>1, PTL

\* active_model_release is on the last deployment and every deployment follows
\* the one that was active before it, whatever commands race.
THEOREM PointerIsHistory == Spec => []PointerFollowsHistory
<1>1. IInv => PointerFollowsHistory
  BY DEF IInv, Sound
<1>2. QED
  BY Invariance, <1>1, PTL

\* activate_release puts a challenger into production only after its burn-in
\* passed and with an approval for exactly the deployment it replaced.
THEOREM ActivationsEarned == Spec => []ActivationEarned
<1>1. IInv => ActivationEarned
  BY DEF IInv, Sound
<1>2. QED
  BY Invariance, <1>1, PTL

\* freeze_active_release_for_cycle inserts once, so every score of a run is
\* projected with the same release.
THEOREM RunHasOneRelease == Spec => []OneReleasePerRun
<1> DEFINE Bound == TypeOK /\ OneReleasePerRun
<1>1. Init => OneReleasePerRun
  BY DEF Init, OneReleasePerRun
<1>2. TypeOK /\ OneReleasePerRun /\ [Next]_vars => OneReleasePerRun'
  <2> SUFFICES ASSUME TypeOK, OneReleasePerRun, [Next]_vars PROVE OneReleasePerRun'
    OBVIOUS
  <2>1. ASSUME NEW r \in Run, Score(r)
        PROVE  OneReleasePerRun'
    BY <2>1 DEF Score, OneReleasePerRun, TypeOK
  <2>2. ASSUME NEW o \in Operator, Freeze(o)
        PROVE  OneReleasePerRun'
    <3>1. work[o].run \in Run /\ binding[work[o].run] = 0
      BY <2>2, WorkTyped DEF Freeze, Commits
    <3>2. scored[work[o].run] = {}
      BY <3>1, ReleaseAssumption DEF TypeOK, OneReleasePerRun, Deployment
    <3>3. QED
      BY <2>2, <3>1, <3>2 DEF Freeze, OneReleasePerRun, TypeOK
  <2>3. CASE UNCHANGED <<binding, scored>>
    BY <2>3 DEF OneReleasePerRun
  <2>4. CASE Bootstrap \/ Rollback \/ UNCHANGED vars \/ \E c \in Challenger : CreateCandidate(c)
    BY <2>3, <2>4 DEF Bootstrap, Rollback, CreateCandidate, vars, cycles
  <2>5. ASSUME NEW o \in Operator, Command(o), ~Freeze(o)
        PROVE  UNCHANGED <<binding, scored>>
    BY <2>5 DEF Command, ReadStart, ReadApprove, ReadActivate, ReadRecord, ReadBurnIn, ReadFreeze,
       Begin, StartShadow, RecordShadow, CompleteBurnIn, Approve, Activate, Abandon, cycles
  <2>6. QED
    BY <2>1, <2>2, <2>3, <2>4, <2>5 DEF Next
<1>3. QED
  BY TypeCorrect, <1>1, <1>2, PTL DEF Spec

\* A deployment of a challenger is the only one of that challenger: both would
\* replace the deployment its one approval names.
LEMMA NotPromotedYet ==
    ASSUME TypeOK, Sound, NEW o \in Operator, Activate(o)
    PROVE  work[o].of \notin Promoted
<1> DEFINE c == work[o].of
<1>1. /\ c \in Challenger /\ approval[c] = pointer.deployment
      /\ pointer.deployment = Len(history)
  BY WorkTyped DEF Activate, Commits, Sound, WorkSound, PointerFollowsHistory
<1>2. Len(history) \in Nat
  BY LenProperties DEF TypeOK
<1>3. ASSUME NEW d \in 1..Len(history), history[d].release = c
      PROVE  FALSE
  <2>1. history[d].reason = "activation"
    BY <1>1, <1>3, ReleaseAssumption DEF Sound, PointerFollowsHistory
  <2>2. approval[c] = history[d].previous /\ history[d].previous = d - 1
    BY <1>3, <2>1 DEF Sound, ActivationEarned, PointerFollowsHistory
  <2>3. QED
    BY <1>1, <1>2, <1>3, <2>2
<1>4. QED
  BY <1>3 DEF Promoted

\* A deployment adds the release it deploys to those that have been active.
LEMMA DeployPromotes ==
    ASSUME TypeOK, Sound,
           NEW release \in Release, NEW reason \in {"bootstrap", "activation", "rollback"},
           Deploy(release, reason)
    PROVE  /\ pointer'.release = release
           /\ release \in Challenger => Promoted' = Promoted \cup {release}
           /\ release \notin Challenger => Promoted' = Promoted
<1>1. /\ Len(history) \in Nat /\ Len(history') = Len(history) + 1
      /\ \A d \in 1..Len(history) : history'[d] = history[d]
      /\ history'[Len(history')].release = release
      /\ pointer'.release = release
  <2>1. PointerFollowsHistory
    BY DEF Sound
  <2>2. /\ Len(history) \in Nat /\ Len(history') = Len(history) + 1
        /\ \A d \in 1..Len(history) : history'[d] = history[d]
        /\ history'[Len(history')] =
             [release |-> release, previous |-> Len(history), reason |-> reason]
        /\ pointer' = [deployment |-> Len(history'), release |-> release,
                       version |-> Len(history')]
    BY <2>1, DeployStep
  <2>3. QED
    BY <2>2
<1>2. \A c \in Challenger : c \in Promoted' <=> c \in Promoted \/ c = release
  <2>1. \A d \in 1..Len(history') : d \in 1..Len(history) \/ d = Len(history')
    BY <1>1
  <2>2. 1..Len(history) \subseteq 1..Len(history') /\ Len(history') \in 1..Len(history')
    BY <1>1
  <2>3. QED
    BY <1>1, <2>1, <2>2 DEF Promoted
<1>3. QED
  BY <1>1, <1>2 DEF Promoted

\* Release governance keeps its promise about production scoring: the champion
\* first and after every rollback, and each challenger at most once.
THEOREM PromiseKept == Spec => KeepsPromise
<1>1. Init => Promise!Init
  BY LenProperties, EmptySeq DEF Init, Promise!Init, Promoted
<1>2. TypeOK /\ Sound /\ [Next]_vars => [Promise!Next]_Promise!promiseVars
  <2> SUFFICES ASSUME TypeOK, Sound, [Next]_vars PROVE [Promise!Next]_Promise!promiseVars
    OBVIOUS
  <2>1. CASE UNCHANGED <<history, pointer>>
    BY <2>1 DEF Promise!promiseVars, Promoted
  <2>2. CASE Bootstrap
    <3>1. Champion \in Release /\ Champion \notin Challenger /\ Deploy(Champion, "bootstrap")
      BY <2>2, ReleaseAssumption DEF Bootstrap, Release
    <3>2. pointer.release = None
      <4>1. Len(history) = 0
        BY <2>2 DEF Bootstrap, Sound, PointerFollowsHistory
      <4>2. QED
        BY <4>1, EmptySeq, LenProperties DEF Sound, PointerFollowsHistory, TypeOK
    <3>3. QED
      BY <3>1, <3>2, DeployPromotes DEF Promise!Next, Promise!Establish
  <2>3. CASE Rollback
    <3>1. /\ Champion \in Release /\ Champion \notin Challenger /\ Deploy(Champion, "rollback")
          /\ pointer.release \in Challenger
      BY <2>3, Restored, ReleaseAssumption DEF Rollback, Release
    <3>2. QED
      BY <3>1, DeployPromotes DEF Promise!Next, Promise!Restore
  <2>4. ASSUME NEW o \in Operator, Activate(o)
        PROVE  Promise!Next
    <3>1. /\ work[o].of \in Challenger /\ work[o].of \in Release
          /\ Deploy(work[o].of, "activation") /\ pointer.release = Champion
      BY <2>4, WorkTyped DEF Activate, Commits, Sound, WorkSound, Release
    <3>2. work[o].of \notin Promoted
      BY <2>4, NotPromotedYet
    <3>3. Promise!Promote(work[o].of)
      BY <3>1, <3>2, DeployPromotes DEF Promise!Promote
    <3>4. QED
      BY <3>1, <3>3 DEF Promise!Next
  <2>5. CASE \/ \E c \in Challenger : CreateCandidate(c)
             \/ \E r \in Run : Score(r)
             \/ UNCHANGED vars
    BY <2>1, <2>5 DEF CreateCandidate, Score, vars, active
  <2>6. ASSUME NEW o \in Operator, Command(o), ~Activate(o)
        PROVE  UNCHANGED <<history, pointer>>
    BY <2>6 DEF Command, ReadStart, ReadApprove, ReadActivate, ReadRecord, ReadBurnIn, ReadFreeze,
       Begin, StartShadow, RecordShadow, CompleteBurnIn, Approve, Freeze, Abandon, active
  <2>7. QED
    BY <2>1, <2>2, <2>3, <2>4, <2>5, <2>6 DEF Next
<1>3. IInv => TypeOK /\ Sound
  BY DEF IInv
<1>4. QED
  BY Invariance, <1>1, <1>2, <1>3, PTL DEF Spec, KeepsPromise, Promise!Spec

-----------------------------------------------------------------------------
(* One command at a time.                                                   *)

\* What a command about a challenger read of its shadow run is what is there,
\* and what it found there lets it go on.
ReadIsCurrent(w) ==
    /\ w.cmd # "freeze" =>
         /\ w.seen.shadow = shadow[w.of]
         /\ w.seen.events = events[w.of]
         /\ w.seen.burnIn = burnIn[w.of]
    /\ w.cmd = "record" => w.seen.shadow.status \in OpenShadow

Settled == BurnInStands /\ \A o \in Operator : work[o] # None => ReadIsCurrent(work[o])

\* A step that leaves the shadow evidence alone and gives no new command.
LEMMA EvidenceKept ==
    ASSUME Settled, UNCHANGED <<shadow, events, burnIn>>,
           \A o \in Operator : work'[o] = work[o] \/ work'[o] = None
    PROVE  Settled'
BY DEF Settled, BurnInStands, ReadIsCurrent

\* The commit of the only command under way finds the evidence as the command read it.
LEMMA AloneStep ==
    ASSUME TypeOK, Settled, Alone, [Next]_vars
    PROVE  Settled'
<1>1. CASE \/ Bootstrap \/ Rollback \/ UNCHANGED vars
           \/ \E c \in Challenger : CreateCandidate(c)
           \/ \E r \in Run : Score(r)
  <2>1. UNCHANGED <<shadow, events, burnIn, work>>
    BY <1>1 DEF Bootstrap, Rollback, CreateCandidate, Score, vars, evidence
  <2>2. QED
    BY <2>1, EvidenceKept
<1>2. ASSUME NEW o \in Operator, NEW c \in Challenger,
             \/ ReadStart(o, c) \/ ReadApprove(o, c) \/ ReadActivate(o, c)
             \/ \E k \in Cycle, mark \in Mark : ReadRecord(o, c, k, mark)
             \/ \E envelope \in BOOLEAN : ReadBurnIn(o, c, envelope)
      PROVE  Settled'
  <2>1. PICK w : /\ Begin(o, w) /\ w.of = c /\ w.seen = Seen(c)
                 /\ w.cmd = "record" => shadow[c].status \in OpenShadow
    <3>1. CASE ReadStart(o, c)
      BY <3>1 DEF ReadStart
    <3>2. CASE ReadApprove(o, c)
      BY <3>2 DEF ReadApprove
    <3>3. CASE ReadActivate(o, c)
      BY <3>3 DEF ReadActivate
    <3>4. CASE \E k \in Cycle, mark \in Mark : ReadRecord(o, c, k, mark)
      BY <3>4 DEF ReadRecord
    <3>5. CASE \E envelope \in BOOLEAN : ReadBurnIn(o, c, envelope)
      BY <3>5 DEF ReadBurnIn
    <3>6. QED
      BY <1>2, <3>1, <3>2, <3>3, <3>4, <3>5
  <2>2. UNCHANGED <<shadow, events, burnIn>>
    BY <2>1 DEF Begin, evidence
  <2>3. ReadIsCurrent(w)
    BY <2>1 DEF ReadIsCurrent, Seen
  <2>4. work'[o] = w /\ \A p \in Operator : p # o => work'[p] = work[p]
    BY <2>1 DEF Begin, TypeOK
  <2>5. QED
    BY <2>2, <2>3, <2>4 DEF Settled, BurnInStands, ReadIsCurrent
<1>3. ASSUME NEW o \in Operator, NEW r \in Run, ReadFreeze(o, r)
      PROVE  Settled'
  <2>1. PICK w : Begin(o, w) /\ w.cmd = "freeze"
    BY <1>3 DEF ReadFreeze
  <2>2. UNCHANGED <<shadow, events, burnIn>>
    BY <2>1 DEF Begin, evidence
  <2>3. work'[o] = w /\ \A p \in Operator : p # o => work'[p] = work[p]
    BY <2>1 DEF Begin, TypeOK
  <2>4. QED
    BY <2>1, <2>2, <2>3 DEF Settled, BurnInStands, ReadIsCurrent
<1>4. ASSUME NEW o \in Operator, Approve(o) \/ Activate(o) \/ Freeze(o) \/ Abandon(o)
      PROVE  Settled'
  <2>1. UNCHANGED <<shadow, events, burnIn>> /\ work' = [work EXCEPT ![o] = None]
    BY <1>4 DEF Approve, Activate, Freeze, Abandon, Commits, evidence
  <2>2. QED
    BY <2>1, EvidenceKept DEF TypeOK
<1>5. ASSUME NEW o \in Operator, StartShadow(o) \/ RecordShadow(o) \/ CompleteBurnIn(o)
      PROVE  Settled'
  <2> DEFINE c == work[o].of
             seen == work[o].seen
  <2>1. /\ work[o] # None /\ work[o].cmd \in {"start", "record", "burn_in"}
        /\ work' = [work EXCEPT ![o] = None]
    BY <1>5 DEF StartShadow, RecordShadow, CompleteBurnIn, Commits
  <2>2. c \in Challenger /\ burnIn[c] \in BurnInRow /\ shadow[c] \in ShadowRow
    BY <2>1, WorkTyped DEF TypeOK
  <2>3. seen.shadow = shadow[c] /\ seen.events = events[c] /\ seen.burnIn = burnIn[c]
    BY <2>1 DEF Settled, ReadIsCurrent
  <2>4. \A p \in Operator : work'[p] = None
    BY <2>1 DEF TypeOK, Alone
  <2>5. BurnInStands'
    <3>1. CASE StartShadow(o)
      <4>1. burnIn' = burnIn /\ events' = events
        BY <3>1 DEF StartShadow
      <4>2. CASE seen.shadow.status = "absent"
        <5>1. burnIn[c].status = "none"
          BY <2>2, <2>3, <4>2 DEF Settled, BurnInStands
        <5>2. \A d \in Challenger : d # c => shadow'[d] = shadow[d]
          BY <2>2, <3>1, <4>2 DEF StartShadow, TypeOK
        <5>3. QED
          BY <4>1, <5>1, <5>2 DEF Settled, BurnInStands
      <4>3. CASE seen.shadow.status # "absent"
        BY <3>1, <4>1, <4>3 DEF StartShadow, Settled, BurnInStands
      <4>4. QED
        BY <4>2, <4>3
    <3>2. CASE RecordShadow(o)
      <4>1. work[o].cmd = "record" /\ burnIn' = burnIn
        BY <3>2 DEF RecordShadow, Commits
      <4>2. shadow[c].status \in OpenShadow
        BY <2>1, <2>3, <4>1 DEF Settled, ReadIsCurrent
      <4>3. burnIn[c].status = "none"
        BY <2>2, <4>2 DEF OpenShadow, Settled, BurnInStands
      <4>4. \A d \in Challenger : d # c => shadow'[d] = shadow[d] /\ events'[d] = events[d]
        BY <2>2, <3>2 DEF RecordShadow, SetShadow, TypeOK
      <4>5. QED
        BY <4>1, <4>3, <4>4 DEF Settled, BurnInStands
    <3>3. CASE CompleteBurnIn(o)
      <4> DEFINE verdict == IF seen.burnIn.status = "none"
                            THEN Verdict(seen.events, work[o].envelope)
                            ELSE seen.burnIn.status
      <4>1. events' = events /\ SetShadow(o, Outcome(verdict))
        BY <3>3 DEF CompleteBurnIn
      <4>2. verdict \in {"passed", "failed"}
        BY <2>2, <2>3 DEF Verdict, BurnInRow
      <4>3. burnIn'[c].evidence = events[c] /\ burnIn'[c].status = verdict
        <5>1. CASE seen.burnIn.status = "none"
          BY <2>2, <2>3, <3>3, <5>1 DEF CompleteBurnIn, TypeOK
        <5>2. CASE seen.burnIn.status # "none"
          BY <2>2, <2>3, <3>3, <5>2 DEF CompleteBurnIn, Settled, BurnInStands
        <5>3. QED
          BY <5>1, <5>2
      <4>4. shadow'[c].status = Outcome(verdict)
        <5>1. shadow' = [shadow EXCEPT ![c] = [shadow[c] EXCEPT !.status =
                   Written(shadow[c].status, shadow[c].status, Outcome(verdict))]]
          BY <2>2, <2>3, <4>1 DEF SetShadow, TypeOK
        <5>2. QED
          BY <2>2, <5>1 DEF TypeOK, ShadowRow, Written
      <4>5. \A d \in Challenger : d # c => shadow'[d] = shadow[d] /\ burnIn'[d] = burnIn[d]
        <5>1. \A d \in Challenger : d # c => shadow'[d] = shadow[d]
          BY <2>2, <4>1 DEF SetShadow, TypeOK
        <5>2. \A d \in Challenger : d # c => burnIn'[d] = burnIn[d]
          BY <2>2, <3>3 DEF CompleteBurnIn, TypeOK
        <5>3. QED
          BY <5>1, <5>2
      <4> HIDE DEF verdict
      <4>6. ASSUME NEW d \in Challenger, burnIn'[d].status # "none"
            PROVE  /\ burnIn'[d].evidence = events'[d]
                   /\ shadow'[d].status = IF burnIn'[d].status = "passed"
                                          THEN "burn_in_complete" ELSE "rejected"
        <5>1. CASE d = c
          BY <4>1, <4>3, <4>4, <5>1 DEF Outcome
        <5>2. CASE d # c
          BY <4>1, <4>5, <4>6, <5>2 DEF Settled, BurnInStands
        <5>3. QED
          BY <5>1, <5>2
      <4>7. QED
        BY <4>6 DEF BurnInStands
    <3>4. QED
      BY <1>5, <3>1, <3>2, <3>3
  <2>6. QED
    BY <2>4, <2>5 DEF Settled
<1>6. QED
  BY <1>1, <1>2, <1>3, <1>4, <1>5 DEF Next, Command

\* As long as the operators give their commands one by one, however many they are, the
\* burn-in of a challenger stays the judgement of all its shadow events, and the run tells
\* its outcome (record_shadow_cycle, complete_burn_in).
THEOREM AloneBurnInStands == MCSpec => []BurnInStandsAlone
<1> DEFINE Single == ~overlapped => Settled /\ Alone
<1>1. MCInit => Single
  BY DEF MCInit, Init, Settled, BurnInStands, Alone
<1>2. ASSUME TypeOK, Single, [Next /\ overlapped' = (overlapped \/ ~Alone')]_<<vars, overlapped>>
      PROVE  Single'
  <2>1. CASE UNCHANGED <<vars, overlapped>>
    BY <1>2, <2>1 DEF vars, Settled, BurnInStands, ReadIsCurrent, Alone
  <2>2. CASE Next /\ overlapped' = (overlapped \/ ~Alone')
    <3>1. overlapped' = (overlapped \/ ~Alone')
      BY <2>2
    <3>2. ~overlapped' => ~overlapped /\ Alone'
      BY <3>1
    <3>3. ~overlapped => Settled'
      BY <1>2, <2>2, AloneStep
    <3> HIDE DEF Alone
    <3> QED
      BY <3>2, <3>3
  <2> QED
    BY <1>2, <2>1, <2>2
<1>3. Single => BurnInStandsAlone
  BY DEF Settled, BurnInStandsAlone
<1>4. MCSpec => Spec
  <2>1. MCInit => Init
    BY DEF MCInit
  <2>2. [Next /\ overlapped' = (overlapped \/ ~Alone')]_<<vars, overlapped>> => [Next]_vars
    BY DEF vars
  <2> QED
    BY <2>1, <2>2, PTL DEF MCSpec, Spec
<1> QED
  BY TypeCorrect, <1>1, <1>2, <1>3, <1>4, PTL DEF MCSpec
=============================================================================
