--------------------------- MODULE MonitoringCycle ---------------------------
(***************************************************************************)
(* What the monitoring stages of successive operational cycles make of     *)
(* each other: the score snapshots of the research stage, the discovery    *)
(* run that ranks them, the baseline a cycle freezes and compares with,    *)
(* and the notifications projected from the comparison.                    *)
(*                                                                         *)
(* One process at a time drives a cycle and its completed stages stay      *)
(* completed (OperationsLedger), so a stage is one step here, except the   *)
(* change stage, which commits its baseline before it compares.  Several   *)
(* cycles are driven at once, in any order of their cutoffs.               *)
(*                                                                         *)
(* Discovery and change runs are immutable and keyed by their content, so  *)
(* a run is the value it holds, and building it again finds it.            *)
(***************************************************************************)
EXTENDS Naturals, FiniteSets

CONSTANTS
    Cycle,          \* operational runs
    Cutoff,         \* knowledge_cutoff of each cycle, in days
    Stream,         \* profiles, model family and semantics of each cycle
    Security,       \* securities with one current NSE symbol each
    Universe,       \* the securities of each cycle's symbols
    Evidence,       \* the score snapshots that the evidence supports
    MaxAge,         \* maximum_snapshot_age_days of the discovery policy
    Null,           \* SQL NULL and JSON null
    Unfrozen,       \* the change stage has no frozen baseline yet
    ByHand,         \* bound: those of them that may be made by hand
    MaxFailures     \* bound on the stages that fail or are cut short

ASSUME MonitoringAssumption ==
    /\ Cutoff \in [Cycle -> Nat]
    /\ Universe \in [Cycle -> SUBSET Security]
    /\ IsFiniteSet(Security)
    /\ Evidence \subseteq [security: Security, cutoff: Nat, score: Nat]
    /\ MaxAge \in Nat
    /\ ByHand \subseteq Evidence
    /\ MaxFailures \in Nat

VARIABLES
    governed,   \* has the release been bootstrapped?
    bound,      \* has the cycle a model_release_cycle_bindings row?
    snapshots,  \* score_snapshots
    driver,     \* "resting", "driven" or, within the change stage, "comparing"
    due,        \* the first stage that is not completed
    discovery,  \* the run named by the completed discovery stage
    baseline,   \* baseline_discovery_run_id frozen by the change stage
    outbox,     \* research_notification_outbox
    failures    \* stages that failed or were cut short so far

moVars == <<governed, bound, snapshots, driver, due, discovery, baseline,
          outbox, failures>>

\* The stage after each one.
Following ==
    [research |-> "discovery", discovery |-> "change", change |-> "projection",
     projection |-> "delivery", delivery |-> "closed"]

Item ==
    [reason: {"ranked", "no_visible_snapshot", "ambiguous_latest_snapshot",
              "stale_snapshot"},
     score: Nat \cup {Null}, rank: Nat]

DiscoveryRun ==
    [cutoff: Nat, stream: {Stream[c] : c \in Cycle}, release: Cycle \cup {Null},
     items: [Security -> Item \cup {Null}]]

\* The null values are no discovery runs, nor each other.
ASSUME NullAssumption ==
    /\ Null \notin DiscoveryRun
    /\ Unfrozen \notin DiscoveryRun \cup {Null}

Notification == [from: DiscoveryRun, to: DiscoveryRun, security: Security]

-----------------------------------------------------------------------------
(* select_current_snapshots and assign_dense_score_ranks. *)

Visible(c, s) == {x \in snapshots : x.security = s /\ x.cutoff <= Cutoff[c]}

Latest(c, s) ==
    {x \in Visible(c, s) : \A y \in Visible(c, s) : y.cutoff <= x.cutoff}

Reason(c, s) ==
    CASE Latest(c, s) = {} -> "no_visible_snapshot"
      [] \E x, y \in Latest(c, s) : x # y -> "ambiguous_latest_snapshot"
      [] \E x \in Latest(c, s) : x.cutoff + MaxAge < Cutoff[c] -> "stale_snapshot"
      [] OTHER -> "ranked"

Rankable(c) == {s \in Universe[c] : Reason(c, s) = "ranked"}

\* The score of the snapshot, under the release of the cycle if it is bound.
Merit(c, s) == (CHOOSE x \in Latest(c, s) : TRUE).score

\* One more than the number of distinct higher scores.
DenseRank(c, s) ==
    1 + Cardinality({Merit(c, t) : t \in {u \in Rankable(c) : Merit(c, u) > Merit(c, s)}})

Decision(c, s) ==
    IF s \in Rankable(c)
    THEN [reason |-> "ranked", score |-> Merit(c, s), rank |-> DenseRank(c, s)]
    ELSE [reason |-> Reason(c, s), score |-> Null, rank |-> 0]

\* The release identity of a discovery: the binding of its cycle, which never
\* changes once it is there (ModelRelease).
Binding(c) == IF bound[c] THEN c ELSE Null

DiscoveryNow(c) ==
    [cutoff |-> Cutoff[c], stream |-> Stream[c], release |-> Binding(c),
     items |-> [s \in Security |-> IF s \in Universe[c] THEN Decision(c, s) ELSE Null]]

\* Fault: the binding of the discovery is not looked at.
LineageAssumed(c) == TRUE

\* execute_change and the projection refuse a discovery that was not made
\* under the binding of the cycle; a cycle without a binding has no such test.
LineageKept(c) == bound[c] => discovery[c].release = Binding(c)

-----------------------------------------------------------------------------
(* The baseline and the changes from it. *)

\* Fault: a cycle that has its discovery counts, whether it closed or not.
PriorUnclosed(c) ==
    {b \in Cycle : /\ Stream[b] = Stream[c]
                   /\ Cutoff[b] < Cutoff[c]
                   /\ discovery[b] # Null}

\* Completed cycles of the same stream with an earlier cutoff.
Prior(c) ==
    {b \in Cycle : /\ Stream[b] = Stream[c]
                   /\ Cutoff[b] < Cutoff[c]
                   /\ due[b] = "closed"}

\* Those with the greatest cutoff; the run key decides between equal ones.
LatestPrior(c) ==
    {b \in Prior(c) : \A d \in Prior(c) : Cutoff[d] <= Cutoff[b]}

\* What _select_baseline may answer.
Baselines(c) ==
    IF Prior(c) = {} THEN {Null} ELSE {discovery[b] : b \in LatestPrior(c)}

\* Securities whose comparison has a code that is a trigger: they entered or
\* left, became or ceased to be rankable, moved in score or rank, or are
\* unranked for another reason.
Changed(from, to) ==
    {s \in Security : from.items[s] # to.items[s]}

Notifications(from, to) ==
    IF from = Null THEN {}
    ELSE {[from |-> from, to |-> to, security |-> s] : s \in Changed(from, to)}

-----------------------------------------------------------------------------
MonitoringInit ==
    /\ governed = FALSE
    /\ bound = [c \in Cycle |-> FALSE]
    /\ snapshots = {}
    /\ driver = [c \in Cycle |-> "resting"]
    /\ due = [c \in Cycle |-> "research"]
    /\ discovery = [c \in Cycle |-> Null]
    /\ baseline = [c \in Cycle |-> Unfrozen]
    /\ outbox = {}
    /\ failures = 0

results == <<discovery, baseline, outbox>>

\* bootstrap_active_champion.
Bootstrap ==
    /\ ~governed
    /\ governed' = TRUE
    /\ UNCHANGED <<bound, snapshots, driver, due, results, failures>>

\* The head of run and of resume, before the lease: a process binds a cycle
\* that is not closed, also one that another process drives.
FreezeRelease(c) ==
    /\ governed
    /\ due[c] # "closed"
    /\ ~bound[c]
    /\ bound' = [bound EXCEPT ![c] = TRUE]
    /\ UNCHANGED <<governed, snapshots, driver, due, results, failures>>

\* A process takes the lease.  By then the cycle is bound, if it can be.
Resume(c) ==
    /\ driver[c] = "resting"
    /\ due[c] # "closed"
    /\ governed => bound[c]
    /\ driver' = [driver EXCEPT ![c] = "driven"]
    /\ UNCHANGED <<governed, bound, snapshots, due, results, failures>>

\* The stage that is due is executed.
Executes(c, stage) ==
    /\ driver[c] = "driven"
    /\ due[c] = stage

\* finish_stage with success; the loop goes on to the next stage.
Completes(c) ==
    /\ due' = [due EXCEPT ![c] = Following[due[c]]]
    /\ driver' = IF Following[due[c]] = "closed"
                 THEN [driver EXCEPT ![c] = "resting"] ELSE driver
    /\ UNCHANGED <<governed, bound, failures>>

\* What current_research may commit: a snapshot at the cutoff of the cycle for
\* each symbol that succeeds.
Researched(c) ==
    {made \in SUBSET {x \in Evidence : x.security \in Universe[c] /\ x.cutoff = Cutoff[c]} :
       \A x, y \in made : x.security = y.security => x = y}

\* current_research: a symbol that fails does not fail the stage.
Research(c) ==
    /\ Executes(c, "research")
    /\ \E made \in Researched(c) : snapshots' = snapshots \cup made
    /\ Completes(c)
    /\ UNCHANGED results

\* run-current by hand, for any symbol and cutoff, on evidence that may have
\* grown since: a cutoff may have two snapshots.
ResearchByHand(x) ==
    /\ snapshots' = snapshots \cup {x}
    /\ UNCHANGED <<governed, bound, driver, due, results, failures>>

\* execute_discovery.
Discover(c) ==
    /\ Executes(c, "discovery")
    /\ discovery' = [discovery EXCEPT ![c] = DiscoveryNow(c)]
    /\ Completes(c)
    /\ UNCHANGED <<snapshots, baseline, outbox>>

\* The change stage has settled on its baseline and goes on to compare.
Settles(c) ==
    /\ driver' = [driver EXCEPT ![c] = "comparing"]
    /\ UNCHANGED <<governed, bound, snapshots, due, discovery, outbox, failures>>

\* Fault: every attempt selects its baseline.
SelectBaseline(c) ==
    /\ Executes(c, "change")
    /\ LineageKept(c)
    /\ \E run \in Baselines(c) : baseline' = [baseline EXCEPT ![c] = run]
    /\ Settles(c)

\* execute_change up to the commit of the selection to the stage row.
FreezeBaseline(c) ==
    /\ Executes(c, "change")
    /\ LineageKept(c)
    /\ baseline[c] = Unfrozen
    /\ \E run \in Baselines(c) : baseline' = [baseline EXCEPT ![c] = run]
    /\ Settles(c)

\* A later attempt finds the selection in the stage row.
ReuseBaseline(c) ==
    /\ Executes(c, "change")
    /\ LineageKept(c)
    /\ baseline[c] # Unfrozen
    /\ baseline' = baseline
    /\ Settles(c)

\* The rest of execute_change: the two runs are compared, if there are two.
Compare(c) ==
    /\ driver[c] = "comparing"
    /\ due' = [due EXCEPT ![c] = "projection"]
    /\ driver' = [driver EXCEPT ![c] = "driven"]
    /\ UNCHANGED <<governed, bound, snapshots, results, failures>>

\* Fault: the projection compares with the newest closed cycle.
ProjectNewest(c) ==
    /\ Executes(c, "projection")
    /\ LineageKept(c)
    /\ \E run \in Baselines(c) : outbox' = outbox \cup Notifications(run, discovery[c])
    /\ Completes(c)
    /\ UNCHANGED <<snapshots, discovery, baseline>>

\* NotificationProjectionOrchestrator.execute: the rows are flushed and commit
\* with the stage; those that are there already are reused.  Only a change run
\* has a release to be tested.
Project(c) ==
    /\ Executes(c, "projection")
    /\ baseline[c] # Null => LineageKept(c)
    /\ outbox' = outbox \cup Notifications(baseline[c], discovery[c])
    /\ Completes(c)
    /\ UNCHANGED <<snapshots, discovery, baseline>>

\* The delivery stage and finish_run.
Deliver(c) ==
    /\ Executes(c, "delivery")
    /\ Completes(c)
    /\ UNCHANGED <<snapshots, results>>

\* A stage fails, or its process is killed in it; the symbols that research
\* has committed by then stay.  A killed process leaves a stage no resume can
\* start (OperationsLedger): a cycle that is not driven again.
Fail(c) ==
    /\ driver[c] \in {"driven", "comparing"}
    /\ failures < MaxFailures
    /\ failures' = failures + 1
    /\ driver' = [driver EXCEPT ![c] = "resting"]
    /\ \E made \in Researched(c) :
         /\ made # {} => due[c] = "research"
         /\ snapshots' = snapshots \cup made
    /\ UNCHANGED <<governed, bound, due, results>>

Stages(c) ==
    \/ Research(c) \/ Discover(c)
    \/ FreezeBaseline(c) \/ ReuseBaseline(c) \/ Compare(c)
    \/ Project(c) \/ Deliver(c)

MonitoringNext ==
    \/ Bootstrap
    \/ \E c \in Cycle : FreezeRelease(c) \/ Resume(c) \/ Stages(c) \/ Fail(c)
    \/ \E x \in ByHand : ResearchByHand(x)

MonitoringSpec == MonitoringInit /\ [][MonitoringNext]_moVars

-----------------------------------------------------------------------------
(* Properties. *)

\* Every variable keeps its type; a cycle has its discovery once that stage is
\* behind it, and a settled baseline once it compares.
MonitoringTypeOK ==
    /\ governed \in BOOLEAN
    /\ bound \in [Cycle -> BOOLEAN]
    /\ snapshots \subseteq Evidence
    /\ driver \in [Cycle -> {"resting", "driven", "comparing"}]
    /\ due \in [Cycle -> DOMAIN Following \cup {"closed"}]
    /\ discovery \in [Cycle -> DiscoveryRun \cup {Null}]
    /\ baseline \in [Cycle -> DiscoveryRun \cup {Null, Unfrozen}]
    /\ outbox \subseteq Notification
    /\ failures \in 0..MaxFailures
    /\ \A c \in Cycle :
         /\ due[c] \notin {"research", "discovery"} => discovery[c] # Null
         /\ due[c] \notin {"research", "discovery", "change"} => baseline[c] # Unfrozen
         /\ driver[c] = "comparing" => due[c] = "change" /\ baseline[c] # Unfrozen

\* "Baselines come only from prior completed compatible cycles": whatever
\* failed, resumed or backfilled since, a frozen baseline is the
\* discovery of a closed cycle of the same stream with an earlier cutoff.
BaselineIsClosedCycle ==
    \A c \in Cycle : baseline[c] \notin {Null, Unfrozen} =>
      \E b \in Cycle : /\ due[b] = "closed"
                       /\ discovery[b] = baseline[c]
                       /\ Stream[b] = Stream[c]
                       /\ Cutoff[b] < Cutoff[c]

\* A retry of the comparison reuses both runs, "even if an intermediate
\* monitoring cycle is later backfilled".
ComparedRunsStayFrozen ==
    [][\A c \in Cycle : baseline[c] # Unfrozen =>
         baseline'[c] = baseline[c] /\ discovery'[c] = discovery[c]]_moVars

\* "Change detection and notification provenance retain the same binding":
\* whenever the release was bootstrapped, a cycle that is bound announces
\* nothing that it discovered unbound.
NotifiedUnderBinding ==
    [][\A n \in outbox' \ outbox :
         \E c \in Cycle : discovery[c] = n.to /\ (bound[c] => n.to.release = c)]_moVars

\* One event per change (project_research_notifications, create_or_reuse): the
\* outbox holds exactly the changes between the runs that its cycles compared.
\* None is lost to a failure, a retry, a kill or a backfill, and none is made up.
OutboxIsTheChanges ==
    outbox = UNION {Notifications(baseline[c], discovery[c]) :
                      c \in {d \in Cycle : due[d] \in {"delivery", "closed"}}}
=============================================================================
