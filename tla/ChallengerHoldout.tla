-------------------------- MODULE ChallengerHoldout --------------------------
(***************************************************************************)
(* The governed search for a better model: a challenger experiment (S2)    *)
(* registers reweighted candidates, evaluates them on the development      *)
(* cohorts, seals their set, opens the validation cohorts and freezes at   *)
(* most one candidate; the temporal holdout (T) freezes the scores of that *)
(* candidate and of the champion, opens the holdout cohorts and decides.   *)
(*                                                                         *)
(* Every operation is one command: it reads the rows it needs, checks      *)
(* them, and commits what it writes.  Nothing locks a row between the read *)
(* and the commit, and an update writes the columns it assigns whatever    *)
(* they hold by then; the unique constraints refuse a second row.  Two     *)
(* commands may therefore overlap, and a command may die in between.       *)
(*                                                                         *)
(* The split, the champion's evaluation and the error analysis exist and   *)
(* are completed.  One policy, one split and one evidence class make one   *)
(* experiment, and one experiment makes one holdout run.                   *)
(***************************************************************************)
EXTENDS RankingMetrics, FiniteSetsExt

CONSTANTS
    Candidate,          \* candidate codes, numbered in their order
    MaxCandidates,      \* maximum_candidates_per_experiment
    Weight,             \* the weight vector each candidate code stands for
    Component,          \* component codes of a V5 score
    ComponentScore,     \* frozen component scores per cohort and security
    ChampionScore,      \* frozen final scores per cohort and security
    Split,              \* the split of each cohort
    Primary,            \* the primary selection contract, TOP_20
    World,              \* ways the future may go
    Outcomes,           \* the labels of each world, per horizon, cohort, security
    Moment,             \* opened_at values that an operator may pass
    Operator,           \* commands that may run at the same time
    None,               \* SQL NULL
    Unsettled           \* no subject yet, or no verdict yet

Horizon == {"MB_2X_2Y", "MB_3X_3Y", "MB_5X_5Y"}

Decision == {"retained_no_challenger", "passes_holdout", "fails_holdout"}

SplitName == {"development", "validation", "holdout"}

Cohort == DOMAIN Split

ASSUME ChallengerHoldoutAssumption ==
    /\ Candidate \subseteq Nat /\ IsFiniteSet(Candidate)
    /\ MaxCandidates \in Nat
    /\ Moment \subseteq Nat
    /\ None \notin Candidate /\ None \notin Nat /\ None \notin Decision
    /\ Unsettled \notin Candidate /\ Unsettled \notin Decision /\ Unsettled # None
    /\ \E k \in Cohort : Split[k] = "holdout"
    /\ Cohort \subseteq Nat /\ IsFiniteSet(Cohort)
    /\ \A k \in Cohort : LET securities == DOMAIN ChampionScore[k] IN
          /\ securities \subseteq Nat /\ IsFiniteSet(securities)
          /\ \A world \in World, h \in Horizon, s \in securities :
                Outcomes[world][h][k][s] \in Label

\* There is something to register and a moment to open at, and no set is NULL.
ASSUME SearchAssumption ==
    /\ Candidate # {} /\ MaxCandidates # 0 /\ Moment # {}
    /\ \A C \in SUBSET Candidate : C # None

VARIABLES
    truth,          \* the world, whose labels R's confusion rows hold
    experiment,     \* the experiment row
    candidate,      \* the status of each candidate row
    metrics,        \* the candidates with score, evaluation and metric rows
    freeze,         \* the candidate of the freeze row
    trial,          \* the holdout run, its scores, rows and decision
    seen,           \* the cohorts whose labels a command has read
    command,        \* the command that each operator runs
    overtaken       \* has a command committed after another changed its rows?

db == <<experiment, candidate, metrics, freeze, trial>>
chVars == <<truth, experiment, candidate, metrics, freeze, trial, seen, command, overtaken>>

ExperimentStatus ==
    {"absent", "draft", "development_evaluated", "candidate_set_sealed",
     "validation_evaluated", "candidate_frozen_for_t", "no_challenger_selected"}

ExperimentRow ==
    [status: ExperimentStatus, sealed: (SUBSET Candidate) \cup {None}, opened: BOOLEAN]

CandidateStatus ==
    {"absent", "registered", "development_evaluated", "sealed",
     "validation_evaluated", "eligible_for_t"}

TrialRow ==
    [status: {"absent", "draft", "scores_frozen", "holdout_opened", "completed"},
     subject: Candidate \cup {None}, openedAt: Moment \cup {None},
     completedAt: Moment \cup {None}, decision: Decision \cup {None}]

Idle == [op |-> "idle"]

-----------------------------------------------------------------------------
(* Scores and metrics.                                                     *)

CandidateScore(c, k) ==
    [s \in DOMAIN ChampionScore[k] |->
        IF ChampionScore[k][s] = Unranked THEN Unranked
        ELSE MapThenSumSet(LAMBDA p : Weight[c][p] * ComponentScore[k][s][p], Component)]

Cohorts(split) == {k \in Cohort : Split[k] = split}

CandidateRows(world, c, split, horizon) ==
    UNION {ConfusionRows(k, CandidateScore(c, k), Outcomes[world][horizon][k], Primary, "end_to_end")
            : k \in Cohorts(split)}

ChampionRows(world, split, horizon) ==
    UNION {ConfusionRows(k, ChampionScore[k], Outcomes[world][horizon][k], Primary, "end_to_end")
            : k \in Cohorts(split)}

\* The metric rows, which are the same whenever the same labels are read.
CandidateMetrics ==
    [world \in World |-> [c \in Candidate |-> [split \in SplitName |-> [h \in Horizon |->
        Measures(CandidateRows(world, c, split, h))]]]]

ChampionMetrics ==
    [world \in World |-> [split \in SplitName |-> [h \in Horizon |->
        Measures(ChampionRows(world, split, h))]]]

\* validation_gate; holdout_decision_gate states the same rule for the holdout.
Gate(c, split) ==
    LET ours == CandidateMetrics[truth][c][split]
        champion == ChampionMetrics[truth][split]
    IN /\ BeatsOnPrimary(ours["MB_3X_3Y"], champion["MB_3X_3Y"])
       /\ \A h \in {"MB_2X_2Y", "MB_5X_5Y"} : HoldsElsewhere(ours[h], champion[h])

\* Mutant: the frozen candidate is judged on validation again.
ValidationAgain(c) == Gate(c, "validation")

HoldoutGate(c) == Gate(c, "holdout")

\* By F1, precision and recall descending, median rank ascending, then code.
Preferred(c, d) ==
    LET m == CandidateMetrics[truth][c]["validation"]["MB_3X_3Y"]
        n == CandidateMetrics[truth][d]["validation"]["MB_3X_3Y"]
        same(x, y) == ~Less(x, y) /\ ~Less(y, x)
    IN \/ Less(n.f1, m.f1)
       \/ same(m.f1, n.f1) /\ Less(n.precision, m.precision)
       \/ same(m.f1, n.f1) /\ same(m.precision, n.precision) /\ Less(n.recall, m.recall)
       \/ /\ same(m.f1, n.f1) /\ same(m.precision, n.precision) /\ same(m.recall, n.recall)
          /\ \/ Less(m.median, n.median)
             \/ same(m.median, n.median) /\ c < d

SelectedChallenger(C) ==
    LET passing == {c \in C : Gate(c, "validation")}
    IN IF passing = {} THEN None
       ELSE CHOOSE c \in passing : \A d \in passing \ {c} : Preferred(c, d)

Judgement(subject) ==
    IF subject = None THEN "retained_no_challenger"
    ELSE IF HoldoutGate(subject) THEN "passes_holdout" ELSE "fails_holdout"

-----------------------------------------------------------------------------
(* What each command requires of the rows it reads.                        *)

Registered == {c \in Candidate : candidate[c] # "absent"}

Tunable ==
    /\ experiment.status \in {"draft", "development_evaluated"}
    /\ ~experiment.opened
    /\ experiment.sealed = None

MayRegister(c) ==
    /\ Tunable
    /\ c \notin Registered
    /\ \A d \in Registered : Weight[d] # Weight[c]
    /\ Cardinality(Registered) < MaxCandidates

MayDevelop == Tunable /\ Registered # {}

MaySeal ==
    /\ experiment.status \in {"draft", "development_evaluated"}
    /\ ~experiment.opened
    /\ experiment.sealed = None
    /\ Registered # {}

MayValidate ==
    /\ experiment.status = "candidate_set_sealed"
    /\ ~experiment.opened
    /\ experiment.sealed # None
    /\ Registered = experiment.sealed

\* A candidate without validation metrics makes the selection fail.
MayFreeze ==
    /\ experiment.status = "validation_evaluated"
    /\ Registered \subseteq metrics["validation"]

\* The chain from the sealed set to the freeze, computed again.
ChainHolds ==
    /\ experiment.status \in {"candidate_frozen_for_t", "no_challenger_selected"}
    /\ experiment.opened
    /\ experiment.sealed = Registered
    /\ Registered \subseteq metrics["validation"]
    /\ freeze = SelectedChallenger(Registered)
    /\ IF experiment.status = "candidate_frozen_for_t"
       THEN freeze # None /\ candidate[freeze] = "eligible_for_t"
       ELSE freeze = None /\ \A c \in Candidate : candidate[c] # "eligible_for_t"

TrialChainHolds == ChainHolds /\ trial.subject = freeze

MayCreateTrial == ChainHolds /\ trial.status = "absent"

MayFreezeScores ==
    /\ trial.status \in {"draft", "scores_frozen"}
    /\ trial.openedAt = None
    /\ TrialChainHolds

MayOpen(at) ==
    /\ trial.status = "scores_frozen"
    /\ trial.openedAt = None
    /\ TrialChainHolds

MayResume(at) ==
    /\ trial.status = "holdout_opened"
    /\ trial.openedAt = at
    /\ TrialChainHolds

-----------------------------------------------------------------------------
(* A command begins by reading its rows, and ends by committing or not.    *)

Begin(o, op, arg) ==
    /\ command[o] = Idle
    /\ command' = [command EXCEPT ![o] = [op |-> op, arg |-> arg, view |-> db, step |-> "read"]]
    /\ UNCHANGED <<truth, experiment, candidate, metrics, freeze, trial, seen, overtaken>>

BeginRegister(o, c) == MayRegister(c) /\ Begin(o, "register", c)
BeginDevelop(o) == MayDevelop /\ Begin(o, "develop", Registered)
BeginSeal(o) == MaySeal /\ Begin(o, "seal", Registered)
BeginValidate(o) == MayValidate /\ Begin(o, "validate", Registered)
BeginFreeze(o) == MayFreeze /\ Begin(o, "freeze", SelectedChallenger(Registered))
BeginCreateTrial(o) == MayCreateTrial /\ Begin(o, "create", freeze)
BeginFreezeScores(o) == MayFreezeScores /\ Begin(o, "scores", trial.status)
BeginOpen(o, at) == MayOpen(at) /\ Begin(o, "open", at)

\* A run that is open already is evaluated without opening it again.
BeginResume(o, at) ==
    /\ MayResume(at)
    /\ command[o] = Idle
    /\ command' = [command EXCEPT ![o] = [op |-> "open", arg |-> at, view |-> db, step |-> "opened"]]
    /\ UNCHANGED <<truth, experiment, candidate, metrics, freeze, trial, seen, overtaken>>

Running(o, op, step) == command[o].op = op /\ command[o].step = step

View(o) == [experiment |-> command[o].view[1], candidate |-> command[o].view[2],
            metrics |-> command[o].view[3], freeze |-> command[o].view[4],
            trial |-> command[o].view[5]]

Finished(o) ==
    /\ command' = [command EXCEPT ![o] = Idle]
    /\ overtaken' = (overtaken \/ command[o].view # db)
    /\ UNCHANGED <<truth, seen>>

\* A rank and a selection are flushed before the labels are read.
ReadLabels(o, op, from, split) ==
    /\ Running(o, op, from)
    /\ seen' = seen \cup Cohorts(split)
    /\ command' = [command EXCEPT ![o].step = "labelled"]
    /\ UNCHANGED <<truth, experiment, candidate, metrics, freeze, trial, overtaken>>

ReadDevelopment(o) == ReadLabels(o, "develop", "read", "development")
ReadValidation(o) == ReadLabels(o, "validate", "read", "validation")

\* Mutant: labels are read in the transaction that opens the holdout.
ReadHoldoutAtOnce(o) ==
    \E step \in {"read", "opened"} : ReadLabels(o, "open", step, "holdout")

ReadHoldout(o) == ReadLabels(o, "open", "opened", "holdout")

CreateExperiment ==
    /\ experiment.status = "absent"
    /\ experiment' = [experiment EXCEPT !.status = "draft"]
    /\ UNCHANGED <<truth, candidate, metrics, freeze, trial, seen, command, overtaken>>

Register(o) ==
    /\ Running(o, "register", "read")
    /\ LET c == command[o].arg IN
          /\ \A d \in Registered : d # c /\ Weight[d] # Weight[c]
          /\ candidate' = [candidate EXCEPT ![c] = "registered"]
    /\ Finished(o)
    /\ UNCHANGED <<experiment, metrics, freeze, trial>>

\* An update of a status row writes nothing when it held that status as read.
Restatus(o, C, status) ==
    [c \in Candidate |-> IF c \in C /\ View(o).candidate[c] # status THEN status ELSE candidate[c]]

\* Rows that another command inserted since the read are refused as duplicates.
NoDuplicates(o, split) ==
    metrics[split] \cap command[o].arg = View(o).metrics[split] \cap command[o].arg

Evaluated(o, split, status) ==
    /\ NoDuplicates(o, split)
    /\ metrics' = [metrics EXCEPT ![split] = @ \cup command[o].arg]
    /\ candidate' = Restatus(o, command[o].arg, status)
    /\ Finished(o)
    /\ UNCHANGED <<freeze, trial>>

Develop(o) ==
    /\ Running(o, "develop", "labelled")
    /\ experiment' = [experiment EXCEPT !.status = "development_evaluated"]
    /\ Evaluated(o, "development", "development_evaluated")

Validate(o) ==
    /\ Running(o, "validate", "labelled")
    /\ experiment' = [experiment EXCEPT !.status = "validation_evaluated", !.opened = TRUE]
    /\ Evaluated(o, "validation", "validation_evaluated")

\* Mutant: the candidates of the sealed set are not kept.
SealNothing(o) ==
    /\ Running(o, "seal", "read")
    /\ experiment' = [experiment EXCEPT !.status = "candidate_set_sealed", !.sealed = {}]
    /\ candidate' = Restatus(o, command[o].arg, "sealed")
    /\ Finished(o)
    /\ UNCHANGED <<metrics, freeze, trial>>

Seal(o) ==
    /\ Running(o, "seal", "read")
    /\ experiment' = [experiment EXCEPT !.status = "candidate_set_sealed",
                                        !.sealed = command[o].arg]
    /\ candidate' = Restatus(o, command[o].arg, "sealed")
    /\ Finished(o)
    /\ UNCHANGED <<metrics, freeze, trial>>

\* Mutant: the experiment is given the status of its candidate.
FreezeAsCandidate(o) ==
    /\ Running(o, "freeze", "read")
    /\ command[o].arg \in Candidate /\ freeze = None
    /\ freeze' = command[o].arg
    /\ experiment' = [experiment EXCEPT !.status = "eligible_for_t"]
    /\ candidate' = Restatus(o, {command[o].arg}, "eligible_for_t")
    /\ Finished(o)
    /\ UNCHANGED <<metrics, trial>>

Freeze(o) ==
    /\ Running(o, "freeze", "read")
    /\ \/ /\ command[o].arg = None
          /\ experiment' = [experiment EXCEPT !.status = "no_challenger_selected"]
          /\ UNCHANGED <<candidate, freeze>>
       \/ /\ command[o].arg \in Candidate
          /\ freeze = None
          /\ freeze' = command[o].arg
          /\ experiment' = [experiment EXCEPT !.status = "candidate_frozen_for_t"]
          /\ candidate' = Restatus(o, {command[o].arg}, "eligible_for_t")
    /\ Finished(o)
    /\ UNCHANGED <<metrics, trial>>

CreateTrial(o) ==
    /\ Running(o, "create", "read")
    /\ trial.status = "absent"
    /\ trial' = [trial EXCEPT !.status = "draft", !.subject = command[o].arg]
    /\ Finished(o)
    /\ UNCHANGED <<experiment, candidate, metrics, freeze>>

\* Freezing again finds the same rows and writes nothing.
FreezeScores(o) ==
    /\ Running(o, "scores", "read")
    /\ \/ command[o].arg = "scores_frozen" /\ UNCHANGED trial
       \/ /\ command[o].arg = "draft"
          /\ trial.status = "draft"
          /\ trial' = [trial EXCEPT !.status = "scores_frozen"]
    /\ Finished(o)
    /\ UNCHANGED <<experiment, candidate, metrics, freeze>>

\* The durable one-way boundary, committed before any label is read.
OpenHoldout(o) ==
    /\ Running(o, "open", "read")
    /\ trial' = [trial EXCEPT !.status = "holdout_opened", !.openedAt = command[o].arg]
    /\ command' = [command EXCEPT ![o].step = "opened", ![o].view[5] = trial']
    /\ overtaken' = (overtaken \/ command[o].view # db)
    /\ UNCHANGED <<truth, experiment, candidate, metrics, freeze, seen>>

\* Two commands that both insert the decision cannot both commit.
Decide(o) ==
    /\ Running(o, "open", "labelled")
    /\ View(o).trial.decision = None => trial.decision = None
    /\ trial' = [trial EXCEPT !.status = "completed", !.completedAt = command[o].arg,
                              !.decision = IF @ = None THEN Judgement(trial.subject) ELSE @]
    /\ Finished(o)
    /\ UNCHANGED <<experiment, candidate, metrics, freeze>>

\* The command fails, or its process dies: the transaction is rolled back.
Abandon(o) ==
    /\ command[o] # Idle
    /\ command' = [command EXCEPT ![o] = Idle]
    /\ UNCHANGED <<truth, experiment, candidate, metrics, freeze, trial, seen, overtaken>>

-----------------------------------------------------------------------------
ChallengerInit ==
    /\ truth \in World
    /\ experiment = [status |-> "absent", sealed |-> None, opened |-> FALSE]
    /\ candidate = [c \in Candidate |-> "absent"]
    /\ metrics = [split \in {"development", "validation"} |-> {}]
    /\ freeze = None
    /\ trial = [status |-> "absent", subject |-> None, openedAt |-> None,
                completedAt |-> None, decision |-> None]
    /\ seen = {}
    /\ command = [o \in Operator |-> Idle]
    /\ overtaken = FALSE

Begins(o) ==
    \/ \E c \in Candidate : BeginRegister(o, c)
    \/ BeginDevelop(o) \/ BeginSeal(o) \/ BeginValidate(o) \/ BeginFreeze(o)
    \/ BeginCreateTrial(o) \/ BeginFreezeScores(o)
    \/ \E at \in Moment : BeginOpen(o, at) \/ BeginResume(o, at)

Continues(o) ==
    \/ Register(o) \/ ReadDevelopment(o) \/ Develop(o) \/ Seal(o)
    \/ ReadValidation(o) \/ Validate(o) \/ Freeze(o) \/ CreateTrial(o)
    \/ FreezeScores(o) \/ OpenHoldout(o) \/ ReadHoldout(o) \/ Decide(o) \/ Abandon(o)

ChallengerNext ==
    \/ CreateExperiment
    \/ \E o \in Operator : Begins(o) \/ Continues(o)

ChallengerSpec == ChallengerInit /\ [][ChallengerNext]_chVars

-----------------------------------------------------------------------------
(* Properties.                                                             *)

ChallengerTypeOK ==
    /\ experiment \in ExperimentRow
    /\ candidate \in [Candidate -> CandidateStatus]
    /\ metrics \in [{"development", "validation"} -> SUBSET Candidate]
    /\ freeze \in Candidate \cup {None}
    /\ trial \in TrialRow
    /\ seen \subseteq Cohort
    /\ DOMAIN command = Operator
    /\ overtaken \in BOOLEAN

Promise ==
    INSTANCE HoldoutPromise WITH
        Subject <- Candidate \cup {None},
        Unsettled <- Unsettled,
        judged <- [s \in Candidate \cup {None} |-> Judgement(s)],
        subject <- IF trial.status = "absent" THEN Unsettled ELSE trial.subject,
        open <- trial.openedAt # None,
        looked <- seen \cap Cohorts("holdout") # {},
        verdict <- IF trial.decision = None THEN Unsettled ELSE trial.decision

\* However commands overlap or die: the subject of the holdout is settled before the
\* holdout opens and never changes, no command reads a holdout label before the opening
\* is durable, and the one verdict is the judgement on that subject.
KeepsHoldoutPromise == Promise!Spec

\* A candidate that passes has earned it twice: on the validation and on the holdout
\* cohorts it selects more positives than the champion, or as many with fewer negatives.
Found(rows) == InClass(rows, {"tp"})
Wrong(rows) == InClass(rows, {"fp"})

Better(rows, other) ==
    \/ Found(rows) > Found(other)
    \/ Found(rows) = Found(other) /\ Wrong(rows) < Wrong(other)

Earned ==
    [world \in World |->
        {c \in Candidate : \A split \in {"validation", "holdout"} :
            Better(CandidateRows(world, c, split, "MB_3X_3Y"),
                   ChampionRows(world, split, "MB_3X_3Y"))}]

PromotedOnMerit ==
    trial.decision = "passes_holdout" => trial.subject \in Earned[truth]

\* Unless a command was overtaken, nobody is stranded: when no command runs, the rows
\* agree with each other and some command can take the experiment on, until the holdout
\* is decided at the moment it was opened.
NeverStranded ==
    (~overtaken /\ \A o \in Operator : command[o] = Idle) =>
        \/ experiment.status = "absent"
        \/ \E c \in Candidate : MayRegister(c)
        \/ MayDevelop \/ MaySeal \/ MayValidate \/ MayFreeze
        \/ MayCreateTrial \/ MayFreezeScores
        \/ \E at \in Moment : MayOpen(at) \/ MayResume(at)
        \/ /\ trial.status = "completed"
           /\ trial.completedAt = trial.openedAt
           /\ TrialChainHolds
=============================================================================
