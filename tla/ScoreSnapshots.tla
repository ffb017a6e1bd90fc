---------------------------- MODULE ScoreSnapshots ----------------------------
(***************************************************************************)
(* The score snapshots of one security: init-model activates a policy,     *)
(* research assembles evidence and has it scored at a knowledge cutoff,    *)
(* and the snapshot is kept under its fingerprint.                         *)
(*                                                                         *)
(* Five algorithms write snapshots: the first knows one component, each of *)
(* the next ones knows more, and only the last one may reach a final       *)
(* score.  They share the scorers (ComponentScoring), whose results are    *)
(* what the evidence consists of here.                                     *)
(*                                                                         *)
(* An item of evidence has a score, or Unscored when its scorer returns    *)
(* none; `at`, which stands for the identity that must be that of the run; *)
(* and `basis`, the market session or the set of events behind it.  Where  *)
(* there is no item, it is NoItem.  Weights are percent; a contribution is *)
(* in hundredths of a point.  Lineage, explanations and confidence are     *)
(* carried along without a decision and left out.  A transaction that      *)
(* fails or dies leaves nothing, and its process starts anew.              *)
(***************************************************************************)
EXTENDS Integers, FiniteSets, FiniteSetsExt, Functions, Sequences

CONSTANTS
    Researcher,     \* processes that run init-model or research
    NoItem,         \* no item of evidence, no context
    Unscored,       \* no score
    Release,        \* what init-model may be asked for: [version, profile, from]
    PolicyOf,       \* profile -> policy: [weight, configured, contexts]
    Wanted,         \* what research may be asked for: [profile, cutoff, algorithm]
    Supply,         \* evidence, in the order in which it becomes known
    MaxCommands     \* bound on the commands that are run

Financial == {"financial_inflection", "business_quality", "cash_flow_quality", "balance_sheet"}
InContext == Financial \cup {"valuation"}
TopLevel == InContext \cup {"market_structure", "business_catalyst", "low_market_attention"}

\* The components that an algorithm knows.
ComponentsOf(algorithm) ==
    CASE algorithm = 1 -> {"financial_inflection"}
      [] algorithm = 2 -> Financial
      [] algorithm = 3 -> InContext \cup {"market_structure"}
      [] algorithm = 4 -> InContext \cup {"market_structure", "business_catalyst"}
      [] algorithm = 5 -> TopLevel

WeightOf(policy, codes) == SumFunctionOnSet(policy.weight, codes)

ValidWeights(policy) ==
    /\ \A c \in TopLevel : policy.weight[c] >= 0
    /\ WeightOf(policy, TopLevel) = 100

\* Contexts are named once.
ValidContexts(policy) == policy.contexts # <<>> /\ IsInjective(policy.contexts)

\* A scorer gives a score on the scale, or none.
IsItem(item) == item = NoItem \/ item.score \in 0..100 \cup {Unscored}

IsEvidence(e) ==
    /\ DOMAIN e = {"eligible", "contexts", "market", "attention", "events"}
    /\ NoItem \notin DOMAIN e.contexts
    /\ \A x \in DOMAIN e.contexts, c \in InContext : IsItem(e.contexts[x][c])
    /\ IsItem(e.market) /\ IsItem(e.attention)
    /\ \A x \in DOMAIN e.events : IsItem(e.events[x])

ASSUME SnapshotAssumption ==
    /\ MaxCommands \in Nat
    /\ Len(Supply) \in Nat \ {0} /\ DOMAIN Supply = 1..Len(Supply)
    /\ \A w \in Wanted : w.algorithm \in 1..5
    /\ \A i \in DOMAIN Supply : IsEvidence(Supply[i])
    /\ \A r \in Release :
          /\ PolicyOf[r.profile].weight \in [TopLevel -> Int]
          /\ PolicyOf[r.profile].contexts \in Seq(Range(PolicyOf[r.profile].contexts))
          /\ ValidWeights(PolicyOf[r.profile]) /\ ValidContexts(PolicyOf[r.profile])

VARIABLES
    configurations, \* active scoring configurations, each with its active model version
    supplied,       \* how much of the evidence is known
    scored,         \* the score snapshots
    errand,         \* what each process is doing
    commands        \* how many commands were run

scVars == <<configurations, supplied, scored, errand, commands>>

NoErrand == [step |-> "none"]

---------------------------- (* The scoring policy *) ----------------------------

\* Mutant: of several active configurations, the one that took effect last.
ResolveLatest(cutoff) ==
    {c \in configurations : /\ c.from <= cutoff
                            /\ \A d \in configurations : d.from <= cutoff => d.from <= c.from}

Resolve(cutoff) == {c \in configurations : c.from <= cutoff}

Versions == {c.version : c \in configurations}

Command(p) ==
    /\ errand[p] = NoErrand
    /\ commands < MaxCommands
    /\ commands' = commands + 1

Resume(p, e) == errand' = [errand EXCEPT ![p] = e]

\* init-model has found neither another active model nor another active configuration.
BeginInitialize(p, release) ==
    /\ Command(p)
    /\ configurations = {}
    /\ Resume(p, [step |-> "initialize", release |-> release])
    /\ UNCHANGED <<configurations, supplied, scored>>

\* The version of a model is unique in its family.
CommitInitialize(p) ==
    /\ errand[p].step = "initialize"
    /\ LET release == errand[p].release
       IN configurations' = IF release.version \in Versions THEN configurations
                            ELSE configurations \cup {release}
    /\ Resume(p, NoErrand)
    /\ UNCHANGED <<supplied, scored, commands>>

------------------------------- (* Composition *) -------------------------------

\* The score of an item, if its component is configured and weighs something.  The
\* first algorithm does not ask for the weight.
Attempt(algorithm, policy, c, item) ==
    IF item = NoItem THEN {}
    ELSE {s \in {item.score} \ {Unscored} :
            c \in policy.configured /\ (algorithm = 1 \/ policy.weight[c] > 0)}

AttemptIn(algorithm, policy, e, x, c) == Attempt(algorithm, policy, c, e.contexts[x][c])

\* The first context, by priority, in which any component can be scored.
SelectedContext(algorithm, policy, e) ==
    LET Scoreable(x) ==
            /\ x \in DOMAIN e.contexts
            /\ \E c \in InContext \cap ComponentsOf(algorithm) :
                  AttemptIn(algorithm, policy, e, x, c) # {}
        places == {i \in DOMAIN policy.contexts : Scoreable(policy.contexts[i])}
    IN IF e.eligible /\ places # {} THEN policy.contexts[Min(places)] ELSE NoItem

ItemOf(e, x, c) ==
    CASE c \in InContext -> e.contexts[x][c]
      [] c = "market_structure" -> e.market
      [] c = "low_market_attention" -> e.attention
      [] c = "business_catalyst" -> IF x \in DOMAIN e.events THEN e.events[x] ELSE NoItem

ScoreOf(algorithm, policy, e, x, c) ==
    IF x = NoItem THEN {} ELSE Attempt(algorithm, policy, c, ItemOf(e, x, c))

Here(item) == item = NoItem \/ item.at = "here"

\* Candidates are looked at only for an eligible security; the first algorithm does not
\* look at those of contexts outside the policy.
CandidatesMatch(algorithm, policy, e) ==
    e.eligible =>
        \A x \in DOMAIN e.contexts :
           algorithm > 1 \/ (\E i \in DOMAIN policy.contexts : policy.contexts[i] = x) =>
              \A c \in InContext \cap ComponentsOf(algorithm) : Here(e.contexts[x][c])

\* Catalysts of all contexts are of the same events.
EventsMatch(e) ==
    \A x, y \in DOMAIN e.events : Here(e.events[x]) /\ e.events[x].basis = e.events[y].basis

OthersMatch(algorithm, e) ==
    /\ algorithm >= 3 => Here(e.market)
    /\ algorithm >= 4 => EventsMatch(e)
    /\ algorithm >= 5 => Here(e.attention)

\* Mutant: the sessions behind price and market structure are not compared.
AnySession(algorithm, policy, e, x) == TRUE

SameSession(algorithm, policy, e, x) ==
    \A s \in ScoreOf(algorithm, policy, e, x, "valuation") :
    \A t \in ScoreOf(algorithm, policy, e, x, "market_structure") :
       e.contexts[x]["valuation"].basis = e.market.basis

Unavailable(algorithm) ==
    CASE algorithm = 1 -> "financial_inflection_unavailable"
      [] algorithm = 2 -> "financial_components_unavailable"
      [] OTHER -> "implemented_components_unavailable"

\* Mutant: whatever is eligible has components.
StatusByEligibility(algorithm, e, context, complete) ==
    IF ~e.eligible THEN "ineligible"
    ELSE IF complete THEN "final_score_available" ELSE "partial_component_set"

StatusOf(algorithm, e, context, complete) ==
    IF ~e.eligible THEN "ineligible"
    ELSE IF context = NoItem THEN Unavailable(algorithm)
    ELSE IF complete THEN "final_score_available" ELSE "partial_component_set"

Required(policy) == {c \in TopLevel : policy.weight[c] > 0}

\* What an algorithm writes; it stands for the fingerprint, which covers all of it.
Snapshot(algorithm, configuration, cutoff, e) ==
    LET policy == PolicyOf[configuration.profile]
        context == SelectedContext(algorithm, policy, e)
        have == {c \in ComponentsOf(algorithm) : ScoreOf(algorithm, policy, e, context, c) # {}}
        Score(c) == CHOOSE s \in ScoreOf(algorithm, policy, e, context, c) : TRUE
        missing == Required(policy) \ have
        complete == /\ algorithm = 5 /\ context # NoItem /\ missing = {}
                    /\ WeightOf(policy, have) = 100
    IN [algorithm |-> algorithm, configuration |-> configuration, cutoff |-> cutoff,
        evidence |-> e, context |-> context, missing |-> missing,
        status |-> StatusOf(algorithm, e, context, complete),
        components |->
            [c \in have |->
                [score |-> Score(c), weight |-> policy.weight[c],
                 contribution |-> IF complete THEN Score(c) * policy.weight[c] ELSE Unscored]],
        coverage |-> WeightOf(policy, have),
        final |-> IF complete THEN SumFunction([c \in have |-> Score(c) * policy.weight[c]])
                  ELSE Unscored]

\* An algorithm refuses evidence that does not belong together.
Composed(algorithm, configuration, cutoff, e) ==
    LET policy == PolicyOf[configuration.profile]
        context == SelectedContext(algorithm, policy, e)
    IN {s \in {Snapshot(algorithm, configuration, cutoff, e)} :
          /\ CandidatesMatch(algorithm, policy, e)
          /\ OthersMatch(algorithm, e)
          /\ algorithm >= 3 => SameSession(algorithm, policy, e, context)}

------------------------- (* What the repository demands *) -------------------------

Statuses(algorithm) ==
    {"ineligible", Unavailable(algorithm), "partial_component_set"}
    \cup (IF algorithm = 5 THEN {"final_score_available"} ELSE {})

\* Below the fifth algorithm nothing is final, and only a partial snapshot has parts.
ValidPartial(s) ==
    /\ s.final = Unscored
    /\ s.status = "partial_component_set" <=> DOMAIN s.components # {}
    /\ \A c \in DOMAIN s.components : s.components[c].contribution = Unscored

Summed(s, field) == SumFunction([c \in DOMAIN s.components |-> s.components[c][field]])

ValidState(s) ==
    CASE s.status \in {"ineligible", "implemented_components_unavailable"} ->
            DOMAIN s.components = {} /\ s.coverage = 0 /\ s.final = Unscored
      [] s.status = "partial_component_set" ->
            /\ DOMAIN s.components # {} /\ s.coverage \in 1..99 /\ s.missing # {}
            /\ s.final = Unscored
            /\ \A c \in DOMAIN s.components : s.components[c].contribution = Unscored
      [] s.status = "final_score_available" ->
            /\ s.coverage = 100 /\ s.missing = {} /\ s.final \in 0..100 * 100
            /\ \A c \in DOMAIN s.components :
                  s.components[c].contribution = s.components[c].score * s.components[c].weight
            /\ s.final = Summed(s, "contribution")

\* What was required is either there or missing.
ValidPartition(s) ==
    LET required == Required(PolicyOf[s.configuration.profile])
    IN DOMAIN s.components \cap s.missing = {} /\ DOMAIN s.components \cup s.missing = required

ValidComponents(s) ==
    \A c \in DOMAIN s.components :
       s.components[c].score \in 0..100 /\ s.components[c].weight > 0

ValidSnapshot(s) ==
    /\ s.status \in Statuses(s.algorithm)
    /\ DOMAIN s.components \subseteq ComponentsOf(s.algorithm)
    /\ s.algorithm < 5 => ValidPartial(s)
    /\ s.algorithm = 4 => s.coverage = Summed(s, "weight")
    /\ s.algorithm = 5 => /\ s.coverage = Summed(s, "weight")
                          /\ ValidPartition(s) /\ ValidComponents(s) /\ ValidState(s)

---------------------------------- (* Research *) ----------------------------------

\* Facts are ingested; those known at a cutoff may still change.
Ingest ==
    /\ supplied < Len(Supply)
    /\ supplied' = supplied + 1
    /\ UNCHANGED <<configurations, scored, errand, commands>>

\* The policy is the one asked for; the candidates of the financial contexts are read.
BeginResearch(p, wanted) ==
    /\ Command(p)
    /\ \E c \in Resolve(wanted.cutoff) :
          Resolve(wanted.cutoff) = {c} /\ c.profile = wanted.profile
    /\ Resume(p, [step |-> "assemble", wanted |-> wanted, contexts |-> Supply[supplied].contexts])
    /\ UNCHANGED <<configurations, supplied, scored>>

\* Events, market structure, attention and eligibility are read later.
Assemble(p) ==
    /\ errand[p].step = "assemble"
    /\ Resume(p, [step |-> "compose", wanted |-> errand[p].wanted,
                  evidence |-> [Supply[supplied] EXCEPT !.contexts = errand[p].contexts]])
    /\ UNCHANGED <<configurations, supplied, scored, commands>>

\* The policy is resolved again.  A snapshot that is there already is returned.
Compose(p) ==
    /\ errand[p].step = "compose"
    /\ LET wanted == errand[p].wanted
           sole == {c \in Resolve(wanted.cutoff) : Resolve(wanted.cutoff) = {c}}
           new == UNION {Composed(wanted.algorithm, c, wanted.cutoff, errand[p].evidence) : c \in sole}
                  \ scored
       IN \/ new = {} /\ Resume(p, NoErrand)
          \/ \E s \in new : Resume(p, [step |-> "insert", wanted |-> wanted, write |-> s])
    /\ UNCHANGED <<configurations, supplied, scored, commands>>

\* A second snapshot with the same fingerprint is refused.
InsertSnapshot(p) ==
    /\ errand[p].step = "insert"
    /\ scored' = scored \cup {errand[p].write}
    /\ Resume(p, NoErrand)
    /\ UNCHANGED <<configurations, supplied, commands>>

SnapshotInit ==
    /\ configurations = {} /\ supplied = 1 /\ scored = {} /\ commands = 0
    /\ errand = [p \in Researcher |-> NoErrand]

SnapshotNext ==
    \/ \E p \in Researcher :
          \/ \E r \in Release : BeginInitialize(p, r)
          \/ CommitInitialize(p)
          \/ \E w \in Wanted : BeginResearch(p, w)
          \/ Assemble(p) \/ Compose(p) \/ InsertSnapshot(p)
    \/ Ingest

SnapshotSpec == SnapshotInit /\ [][SnapshotNext]_scVars

--------------------------------- (* Properties *) ---------------------------------

SnapshotTypeOK ==
    /\ configurations \subseteq Release
    /\ supplied \in DOMAIN Supply /\ commands \in 0..MaxCommands
    /\ \A p \in Researcher :
          errand[p].step \in {"none", "initialize", "assemble", "compose", "insert"}
    /\ \A s \in scored : s.algorithm \in 1..5 /\ s.configuration \in Release

\* Whatever evidence an algorithm accepts, it writes what the repository accepts, on the
\* way in as on the way out: neither of them trusts the other.
WritesAreValid ==
    /\ \A p \in Researcher : errand[p].step = "insert" => ValidSnapshot(errand[p].write)
    /\ \A s \in scored : ValidSnapshot(s)

\* The scores of one cutoff can be compared: they are by one configuration, that of the
\* profile that was asked for, also when two init-models have raced and left two of them.
ComparableScores ==
    /\ \A s, t \in scored : s.cutoff = t.cutoff => s.configuration = t.configuration
    /\ \A p \in Researcher :
          errand[p].step = "insert" => errand[p].write.configuration.profile = errand[p].wanted.profile

\* No snapshot prices a company by one market session and judges its market by another,
\* although research reads the two one after the other while sessions are ingested.
OneSession ==
    \A s \in scored :
       {"valuation", "market_structure"} \subseteq DOMAIN s.components =>
          s.evidence.contexts[s.context]["valuation"].basis = s.evidence.market.basis
=============================================================================
