-------------------------- MODULE HistoricalEvaluation --------------------------
(***************************************************************************)
(* The historical record that models are judged by.  A backtest run first  *)
(* freezes what research would have said at each past cutoff, then, from   *)
(* facts known at a later outcome cutoff, the forward returns, the labels, *)
(* the evaluation of the cohorts (one per cutoff) and their split into     *)
(* development, validation and holdout.                                    *)
(*                                                                         *)
(* A build commits after every observation.  It may die between any two    *)
(* commits, and it is then run again; two builds of one run may overlap,   *)
(* and facts keep arriving.  A run is keyed by the facts it may use, so    *)
(* that a build started after new facts arrived is another run.  Nothing   *)
(* locks a row between a read and the commit of what was decided on it.    *)
(*                                                                         *)
(* One security is followed.  Its identity was persisted before the first  *)
(* cutoff, and configuration, policies and datasets never change.          *)
(***************************************************************************)
EXTENDS MultibaggerLabels, Sequences, SequencesExt

CONSTANTS
    Shipment,           \* names of the shipments in which facts arrive
    Content,            \* the facts of each shipment
    Present,            \* the shipments ingested before the first build
    ResearchCutoffs,    \* the month ends of a run, ascending
    ReturnCutoff,       \* outcome cutoffs an operator may pass for forward returns
    LabelCutoff,        \* and for labels
    Contract,           \* the multibagger contracts of the outcome policy
    ReturnHorizon,      \* forward_return_horizons, in trading days
    DevelopmentPercent, ValidationPercent,
    MinimumValidation, MinimumHoldout,  \* of the temporal split policy
    Builder,            \* processes that build
    MaxRuns,            \* bound on the runs of each kind
    MaxFailures         \* bound on how often research fails or a process dies

Unset == 0

RunEnd == Last(ResearchCutoffs)

LongestHorizon == Max({c.years : c \in Contract})

ASSUME HistoricalEvaluationAssumption ==
    /\ Content \in [Shipment -> SUBSET UNION {Content[a] : a \in Shipment}]
    /\ Present \subseteq Shipment /\ IsFiniteSet(Present)
    /\ \A a \in Shipment : IsFiniteSet(Content[a])
    /\ \A a \in Shipment : \A f \in Content[a] :
          /\ f.kind \in {"bar", "session", "action", "filing", "listing"}
          /\ f.kind # "listing" => f.available \in Nat
          /\ f.kind # "filing" => f.date \in Nat \ {0}
    /\ ResearchCutoffs \in Seq(Nat \ {0}) /\ ResearchCutoffs # <<>>
    /\ \A i, j \in DOMAIN ResearchCutoffs : i < j => ResearchCutoffs[i] < ResearchCutoffs[j]
    /\ ReturnCutoff \cup LabelCutoff \subseteq Nat \ {Unset}
    /\ IsFiniteSet(Contract) /\ Contract # {}
    /\ \A c \in Contract : c.years \in Nat \ {0} /\ c.threshold \in Nat \ {0}
    /\ DevelopmentPercent \in 0..100 /\ ValidationPercent \in 0..100 - DevelopmentPercent
    /\ MinimumValidation \in Nat /\ MinimumHoldout \in Nat

VARIABLES
    arrived,        \* the shipments ingested so far
    late,           \* the kinds of facts that arrived when a cutoff in use covered them
    snapshots,      \* the research states persisted as score snapshots
    backtests,      \* the runs with their observations and outcomes, by key
    labelRuns,      \* the label runs, by key
    evaluations,    \* completed evaluations: label run and cutoffs
    splits,         \* completed temporal splits of evaluations
    failures,       \* how often research has failed or a process has died
    builder         \* what each process is doing

evVars == <<arrived, late, snapshots, backtests, labelRuns, evaluations, splits, failures, builder>>

Facts == UNION {Content[a] : a \in arrived}

\* The dates of a listing are part of the identity, whenever they were set.
SourceState(cutoff) ==
    {f \in Facts : f.kind = "listing" \/ f.available <= cutoff}

OutcomeSourceState(cutoff) ==
    {f \in Facts : f.kind \in {"bar", "session", "action"} /\ f.available <= cutoff}

Sleeping == [step |-> "idle"]

Goes(b, state) == builder' = [builder EXCEPT ![b] = state]

Stops(b) == Goes(b, Sleeping)

Step(b, step) == builder[b].step = step

\* A function with a value added.
Put(f, x, v) == [y \in DOMAIN f \cup {x} |-> IF y = x THEN v ELSE f[y]]

RunOf(b) == backtests[builder[b].key]

NewRun == [status |-> "planned", observations |-> {}, outcomes |-> {}, cutoff |-> Unset]

-----------------------------------------------------------------------------
(* Facts.                                                                  *)

UsedCutoffs ==
    (IF DOMAIN backtests = {} THEN {} ELSE {RunEnd})
    \cup {builder[b].cutoff : b \in {c \in Builder : builder[c].step \in {"outcomes", "labels"}}}
    \cup {backtests[key].cutoff : key \in DOMAIN backtests}
    \cup {key.cutoff : key \in DOMAIN labelRuns}

Arrive(a) ==
    /\ a \notin arrived
    /\ arrived' = arrived \cup {a}
    /\ late' = late \cup {f.kind : f \in {g \in Content[a] :
                              \E k \in UsedCutoffs : g.kind = "listing" \/ g.available <= k}}
    /\ UNCHANGED <<snapshots, backtests, labelRuns, evaluations, splits, failures, builder>>

-----------------------------------------------------------------------------
(* Observations.                                                           *)

\* A run that is there and still planned is taken up again from its first cutoff.
BeginDataset(b) ==
    LET key == SourceState(RunEnd) IN
    /\ Step(b, "idle")
    /\ IF key \in DOMAIN backtests THEN backtests[key].status = "planned"
       ELSE Cardinality(DOMAIN backtests) < MaxRuns
    /\ backtests' = IF key \in DOMAIN backtests THEN backtests ELSE Put(backtests, key, NewRun)
    /\ Goes(b, [step |-> "resolve", key |-> key, at |-> 1, previous |-> {}])
    /\ UNCHANGED <<arrived, late, snapshots, labelRuns, evaluations, splits, failures>>

AtCutoff(b) == ResearchCutoffs[builder[b].at]

\* Only a security that had traded by the cutoff is a member of its universe.
Member(k) == \E f \in Visible(Facts, "bar", k) : f.date <= k

\* Mutant: research sees what became available after the cutoff.
ResearchedAhead(k) ==
    IF Visible(Facts, "filing", k) = {} THEN [status |-> "issuer_unavailable", basis |-> {}]
    ELSE [status |-> "snapshot_frozen", basis |-> {f \in Facts : f.kind # "listing"}]

\* What research finds at a cutoff: nothing before the first filing is known.
Researched(k) ==
    IF Visible(Facts, "filing", k) = {} THEN [status |-> "issuer_unavailable", basis |-> {}]
    ELSE [status |-> "snapshot_frozen",
          basis |-> {f \in Facts : f.kind # "listing" /\ f.available <= k}]

ResearchFailure == [status |-> "research_failed", basis |-> {}]

Resolving(b) == Step(b, "resolve") /\ builder[b].at <= Len(ResearchCutoffs)

Exclude(b) ==
    /\ Resolving(b)
    /\ ~Member(AtCutoff(b))
    /\ Goes(b, [builder[b] EXCEPT !.at = @ + 1])
    /\ UNCHANGED <<arrived, late, snapshots, backtests, labelRuns, evaluations, splits, failures>>

\* The observation that follows: did the state change since the cutoff before?
Observed(b, result, created) ==
    [cutoff |-> AtCutoff(b), result |-> result, created |-> created,
     changed |-> builder[b].previous # {result}]

Freezes(b, result, created) ==
    Goes(b, [step |-> "freeze", key |-> builder[b].key, at |-> builder[b].at,
             previous |-> {result}, observation |-> Observed(b, result, created)])

\* Research commits the snapshot on its own, or finds it there.
Research(b) ==
    /\ Resolving(b)
    /\ Member(AtCutoff(b))
    /\ LET result == Researched(AtCutoff(b))
           snapshot == [cutoff |-> AtCutoff(b), basis |-> result.basis]
       IN IF result.status = "snapshot_frozen"
          THEN /\ snapshots' = snapshots \cup {snapshot}
               /\ Freezes(b, result, snapshot \notin snapshots)
          ELSE UNCHANGED snapshots /\ Freezes(b, result, FALSE)
    /\ UNCHANGED <<arrived, late, backtests, labelRuns, evaluations, splits, failures>>

\* Whatever research raises is caught, and recorded as a failed observation.
ResearchFails(b) ==
    /\ Resolving(b)
    /\ Member(AtCutoff(b))
    /\ failures < MaxFailures
    /\ failures' = failures + 1
    /\ Freezes(b, ResearchFailure, FALSE)
    /\ UNCHANGED <<arrived, late, snapshots, backtests, labelRuns, evaluations, splits>>

At(rows, k) == {r \in rows : r.cutoff = k}

Onwards(b) == [step |-> "resolve", key |-> builder[b].key, at |-> builder[b].at + 1,
               previous |-> builder[b].previous]

\* Mutant: an observation that is there already is replaced.
FreezeOver(b) ==
    /\ Step(b, "freeze")
    /\ LET o == builder[b].observation
           rows == RunOf(b).observations
       IN backtests' = [backtests EXCEPT ![builder[b].key].observations =
                            (rows \ At(rows, o.cutoff)) \cup {o}]
    /\ Goes(b, Onwards(b))
    /\ UNCHANGED <<arrived, late, snapshots, labelRuns, evaluations, splits, failures>>

\* An observation that is there already must be the same, or the build fails.
FreezeObservation(b) ==
    /\ Step(b, "freeze")
    /\ LET o == builder[b].observation
           existing == At(RunOf(b).observations, o.cutoff)
       IN \/ /\ existing = {}
             /\ backtests' = [backtests EXCEPT ![builder[b].key].observations = @ \cup {o}]
             /\ Goes(b, Onwards(b))
          \/ existing = {o} /\ Goes(b, Onwards(b)) /\ UNCHANGED backtests
          \/ existing \notin {{}, {o}} /\ Stops(b) /\ UNCHANGED backtests
    /\ UNCHANGED <<arrived, late, snapshots, labelRuns, evaluations, splits, failures>>

-----------------------------------------------------------------------------
(* A status is read, and committed in a step of its own.                   *)

After == [planned |-> "snapshots_built", snapshots_built |-> "outcomes_built"]

Closes(b, status, cutoff) ==
    Goes(b, IF RunOf(b).status \in {status} \cup {s \in DOMAIN After : After[s] = status}
            THEN [step |-> "close", key |-> builder[b].key, cutoff |-> cutoff, to |-> status]
            ELSE Sleeping)

FinishDataset(b) ==
    /\ Step(b, "resolve")
    /\ builder[b].at > Len(ResearchCutoffs)
    /\ Closes(b, "snapshots_built", Unset)
    /\ UNCHANGED <<arrived, late, snapshots, backtests, labelRuns, evaluations, splits, failures>>

FinishOutcomes(b) ==
    /\ Step(b, "outcomes")
    /\ builder[b].left = {}
    /\ Closes(b, "outcomes_built", builder[b].cutoff)
    /\ UNCHANGED <<arrived, late, snapshots, backtests, labelRuns, evaluations, splits, failures>>

CommitStatus(b) ==
    /\ Step(b, "close")
    /\ backtests' = [backtests EXCEPT
            ![builder[b].key].status = builder[b].to,
            ![builder[b].key].cutoff = IF builder[b].cutoff = Unset THEN @ ELSE builder[b].cutoff]
    /\ Stops(b)
    /\ UNCHANGED <<arrived, late, snapshots, labelRuns, evaluations, splits, failures>>

-----------------------------------------------------------------------------
(* Outcomes.                                                               *)

BeginOutcomes(b, key, cutoff) ==
    /\ Step(b, "idle")
    /\ backtests[key].status = "snapshots_built"
    /\ backtests[key].cutoff \in {Unset, cutoff}
    /\ Goes(b, [step |-> "outcomes", key |-> key, cutoff |-> cutoff,
                left |-> backtests[key].observations])
    /\ UNCHANGED <<arrived, late, snapshots, backtests, labelRuns, evaluations, splits, failures>>

Outcome(o, cutoff) ==
    [cutoff |-> o.cutoff, dataCutoff |-> cutoff,
     returns |-> [h \in ReturnHorizon |->
        IF o.result.status # "snapshot_frozen" THEN NoReturn("research_snapshot_unavailable")
        ELSE ForwardOutcome(Facts, o.cutoff, h, cutoff)]]

\* The first outcome is committed together with the outcome cutoff of the run.
FreezeOutcome(b) ==
    /\ Step(b, "outcomes")
    /\ builder[b].left # {}
    /\ LET o == CHOOSE o \in builder[b].left : \A p \in builder[b].left : o.cutoff <= p.cutoff
           value == Outcome(o, builder[b].cutoff)
           existing == At(RunOf(b).outcomes, o.cutoff)
       IN IF existing \in {{}, {value}}
          THEN /\ backtests' = [backtests EXCEPT
                      ![builder[b].key].outcomes = @ \cup {value},
                      ![builder[b].key].cutoff = builder[b].cutoff]
               /\ Goes(b, [builder[b] EXCEPT !.left = @ \ {o}])
          ELSE Stops(b) /\ UNCHANGED backtests
    /\ UNCHANGED <<arrived, late, snapshots, labelRuns, evaluations, splits, failures>>

\* Summarised once, and complete from then on.
Summarize(key) ==
    /\ backtests[key].status = "outcomes_built"
    /\ backtests' = [backtests EXCEPT ![key].status = "completed"]
    /\ UNCHANGED <<arrived, late, snapshots, labelRuns, evaluations, splits, failures, builder>>

-----------------------------------------------------------------------------
(* Labels.                                                                 *)

LabelKey(key, cutoff, state) == [backtest |-> key, cutoff |-> cutoff, state |-> state]

\* The observations and the source state are read first, the facts again later.
BeginLabels(b, key, cutoff) ==
    /\ Step(b, "idle")
    /\ backtests[key].status # "planned"
    /\ \A o \in backtests[key].observations : o.cutoff < cutoff
    /\ LabelKey(key, cutoff, OutcomeSourceState(cutoff)) \notin DOMAIN labelRuns
    /\ Cardinality(DOMAIN labelRuns) < MaxRuns
    /\ Goes(b, [step |-> "labels", key |-> key, cutoff |-> cutoff,
                state |-> OutcomeSourceState(cutoff),
                of |-> {o.cutoff : o \in backtests[key].observations}])
    /\ UNCHANGED <<arrived, late, snapshots, backtests, labelRuns, evaluations, splits, failures>>

Labels(F, cutoffs, cutoff) ==
    [k \in cutoffs |-> [c \in Contract |-> MultibaggerLabel(F, k, c, cutoff)]]

\* The whole run is committed at once; a second one with its key is refused.
CommitLabels(b) ==
    /\ Step(b, "labels")
    /\ LET lk == LabelKey(builder[b].key, builder[b].cutoff, builder[b].state)
       IN labelRuns' = IF lk \in DOMAIN labelRuns THEN labelRuns
                       ELSE Put(labelRuns, lk, Labels(Facts, builder[b].of, lk.cutoff))
    /\ Stops(b)
    /\ UNCHANGED <<arrived, late, snapshots, backtests, evaluations, splits, failures>>

-----------------------------------------------------------------------------
(* Evaluation and split: each reads committed rows and inserts in one go.  *)

Evaluate(lk, cutoffs) ==
    LET observed == {o.cutoff : o \in backtests[lk.backtest].observations} IN
    /\ backtests[lk.backtest].status = "completed"
    /\ cutoffs # {} /\ cutoffs \subseteq observed
    /\ DOMAIN labelRuns[lk] = observed
    /\ Cardinality(evaluations) < MaxRuns
    /\ evaluations' = evaluations \cup {[labels |-> lk, cutoffs |-> cutoffs]}
    /\ UNCHANGED <<arrived, late, snapshots, backtests, labelRuns, splits, failures, builder>>

\* The members of a set of cutoffs, ascending.
InOrder(S) ==
    CHOOSE s \in [1..Cardinality(S) -> S] : \A i, j \in DOMAIN s : i < j => s[i] < s[j]

\* Mutant: only the shortest horizon is waited for.
EligibleSoon(e) ==
    InOrder({k \in e.cutoffs : k + Min({c.years : c \in Contract}) <= e.labels.cutoff})

\* The cohorts whose longest label window is over, in order.
Eligible(e) == InOrder({k \in e.cutoffs : k + LongestHorizon <= e.labels.cutoff})

Partition(e) ==
    LET n == Len(Eligible(e))
        development == (n * DevelopmentPercent) \div 100
        validation == (n * ValidationPercent) \div 100
    IN [evaluation |-> e,
        development |-> SubSeq(Eligible(e), 1, development),
        validation |-> SubSeq(Eligible(e), development + 1, development + validation),
        holdout |-> SubSeq(Eligible(e), development + validation + 1, n)]

BuildSplit(e) ==
    /\ Len(Partition(e).validation) >= MinimumValidation
    /\ Len(Partition(e).holdout) >= MinimumHoldout
    /\ splits' = splits \cup {Partition(e)}
    /\ UNCHANGED <<arrived, late, snapshots, backtests, labelRuns, evaluations, failures, builder>>

-----------------------------------------------------------------------------
\* A process dies, or its database connection does.
Die(b) ==
    /\ ~Step(b, "idle")
    /\ failures < MaxFailures
    /\ failures' = failures + 1
    /\ Stops(b)
    /\ UNCHANGED <<arrived, late, snapshots, backtests, labelRuns, evaluations, splits>>

EvaluationInit ==
    /\ arrived = Present /\ late = {}
    /\ snapshots = {}
    /\ backtests = << >> /\ labelRuns = << >>
    /\ evaluations = {} /\ splits = {} /\ failures = 0
    /\ builder = [b \in Builder |-> Sleeping]

Builds(b) ==
    \/ BeginDataset(b) \/ Exclude(b) \/ Research(b) \/ ResearchFails(b)
    \/ FreezeObservation(b) \/ FinishDataset(b) \/ CommitStatus(b)
    \/ FreezeOutcome(b) \/ FinishOutcomes(b) \/ CommitLabels(b) \/ Die(b)
    \/ \E key \in DOMAIN backtests :
          \/ \E cutoff \in ReturnCutoff : BeginOutcomes(b, key, cutoff)
          \/ \E cutoff \in LabelCutoff : BeginLabels(b, key, cutoff)

EvaluationNext ==
    \/ \E a \in Shipment : Arrive(a)
    \/ \E b \in Builder : Builds(b)
    \/ \E key \in DOMAIN backtests : Summarize(key)
    \/ \E lk \in DOMAIN labelRuns : \E cutoffs \in SUBSET DOMAIN labelRuns[lk] : Evaluate(lk, cutoffs)
    \/ \E e \in evaluations : BuildSplit(e)

EvaluationSpec == EvaluationInit /\ [][EvaluationNext]_evVars

-----------------------------------------------------------------------------
(* Properties.                                                             *)

EvaluationTypeOK ==
    /\ arrived \subseteq Shipment
    /\ late \subseteq {"bar", "session", "action", "filing", "listing"}
    /\ \A key \in DOMAIN backtests :
          /\ backtests[key].status \in {"planned", "snapshots_built", "outcomes_built", "completed"}
          /\ backtests[key].cutoff \in ReturnCutoff \cup {Unset}
    /\ \A e \in evaluations : e.labels \in DOMAIN labelRuns
    /\ \A s \in splits : s.evaluation \in evaluations
    /\ DOMAIN builder = Builder

Sub(f, g) == DOMAIN f \subseteq DOMAIN g /\ \A x \in DOMAIN f : f[x] = g[x]

\* Whatever dies, overlaps or arrives: no observation, outcome or label is changed or
\* replaced once committed; and unless prices arrived late, a run gains no observation once
\* its snapshots are built, and its outcomes are all of its one outcome cutoff.
FrozenOnceBuilt ==
    [][ /\ Sub(labelRuns, labelRuns')
        /\ DOMAIN backtests \subseteq DOMAIN backtests'
        /\ \A key \in DOMAIN backtests :
              LET run == backtests[key]
                  next == backtests'[key]
              IN /\ run.observations \subseteq next.observations
                 /\ run.outcomes \subseteq next.outcomes
                 /\ "bar" \notin late /\ run.status # "planned" =>
                       /\ next.observations = run.observations
                       /\ \A o \in next.outcomes : o.dataCutoff = next.cutoff
      ]_evVars

\* No two revisions of one record that are known at a cutoff name another day, or make
\* another type of action of it.
Unmoved(F, cutoff) ==
    \A a, b \in Visible(F, "action", cutoff) :
       a.external = b.external => a.date = b.date /\ a.type = b.type

\* A label that says positive or negative could have been given, with the same answer,
\* as soon as it says it had matured, from what was known then, unless a corporate
\* action was moved to another day or became one of another type; and unless facts arrived late, it follows from the
\* source state that its run is keyed by, and from a listing end that is not in the key.
MaturityIsSound ==
    late \subseteq {"listing"} =>
        \A lk \in DOMAIN labelRuns : \A k \in DOMAIN labelRuns[lk], c \in Contract :
            LET label == labelRuns[lk][k][c]
                ends == OfKind(Facts, "listing")
            IN /\ \E E \in SUBSET ends :
                     label = MultibaggerLabel(lk.state \cup E, k, c, lk.cutoff)
               /\ label.class \in {"positive", "negative"} /\ Unmoved(Facts, lk.cutoff) =>
                     /\ label.maturedAt <= lk.cutoff
                     /\ MultibaggerLabel(lk.state, k, c, label.maturedAt).class = label.class

\* The cohorts of a split are in the order of their cutoffs, development before
\* validation before holdout, and every label of theirs had its whole window.
SplitIsMature ==
    \A s \in splits :
        LET order == s.development \o s.validation \o s.holdout
            lk == s.evaluation.labels
        IN /\ \A i, j \in DOMAIN order : i < j => order[i] < order[j]
           /\ \A i \in DOMAIN order, c \in Contract :
                 labelRuns[lk][order[i]][c].class # "unmatured"

\* What a build would find at the i-th cutoff now, were its snapshot there already.
Expected(i) ==
    LET k == ResearchCutoffs[i]
    IN [cutoff |-> k, result |-> Researched(k), created |-> FALSE,
        changed |-> IF i > 1 /\ Member(ResearchCutoffs[i - 1])
                    THEN Researched(ResearchCutoffs[i - 1]) # Researched(k) ELSE TRUE]

\* A build that died can be taken up again: unless facts arrived late or research failed
\* in the run, each observation it left behind is what the next build finds, but for
\* the note that it created the snapshot; and each outcome is what it computes.
ResumeAgrees ==
    late = {} =>
        \A key \in DOMAIN backtests :
            LET run == backtests[key] IN
            /\ (\A o \in run.observations : o.result # ResearchFailure) =>
                  \A o \in run.observations :
                     \E i \in DOMAIN ResearchCutoffs : [o EXCEPT !.created = FALSE] = Expected(i)
            /\ \A o \in run.observations, value \in run.outcomes :
                  o.cutoff = value.cutoff => value = Outcome(o, run.cutoff)
=============================================================================
