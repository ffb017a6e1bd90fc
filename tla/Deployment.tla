------------------------------- MODULE Deployment -------------------------------
(***************************************************************************)
(* How a reviewed commit becomes the release that the nightly cycle runs.  *)
(*                                                                         *)
(* A release is a tree named after its commit.  An installer builds it in  *)
(* a staging directory of its own, validates it, renames it into place and *)
(* moves the symlink `current` to it; an operator may also build one by    *)
(* hand, in place, as the deployment guide describes.  Everything that     *)
(* runs finds its code through `current`, whenever it looks.  A cycle is   *)
(* started with the commit that the environment file names, loads its      *)
(* first modules, resolves the release it lies in, refuses to go on when   *)
(* that is not the commit it was told, and loads other modules as it needs *)
(* them.  Preflight and launch gate only read, and report.                 *)
(*                                                                         *)
(* Nothing keeps installers, operators and cycles apart.  An installer may *)
(* die at any point, and then leaves its staging directory behind.         *)
(***************************************************************************)
EXTENDS Naturals, FiniteSets

CONSTANTS
    Sha,            \* reviewed commits
    Nowhere,        \* no release
    Installer,      \* processes that run install-release
    Unit,           \* systemd units
    Provisioned,    \* releases that the host may be set up with, Nowhere when it is not
    MaxOperations   \* bound on what operators and the timer begin

\* What a build adds to a tree, in this order.
Part == {"checkout", "python", "web"}
Needs == [checkout |-> {}, python |-> {"checkout"}, web |-> {"checkout", "python"}]

ASSUME DeploymentAssumption ==
    /\ Nowhere \notin Sha /\ Provisioned \subseteq Sha \cup {Nowhere}
    /\ MaxOperations \in Nat

VARIABLES
    account,    \* does the runtime account exist?
    trees,      \* of every release: the commit checked out, and the parts built
    staging,    \* of every installer: the tree in its staging directory
    installer,  \* of every installer: its step, and the release it installs
    current,    \* where the symlink points
    cycle,      \* the cycle under way, or the last one
    told,       \* INFLECTOR_DEPLOYED_GIT_SHA in the environment file
    units,      \* the release that every installed unit file was copied from
    copying,    \* install-systemd: the release it copies from, Nowhere when it does not run
    api,        \* the release that the running API was started from
    timer,      \* is the timer enabled?
    preflight,  \* the preflight under way, or its report
    verdict,    \* of the launch gate
    operations

releaseVars == <<account, trees, staging, installer>>
hostVars == <<told, units, copying, api, timer>>
launchVars == <<preflight, verdict>>
dpVars == <<releaseVars, current, cycle, hostVars, launchVars, operations>>

NoTree == [head |-> Nowhere, parts |-> {}]

\* A tree that passes the asset validation for a commit.
Validated(tree, sha) == tree = [head |-> sha, parts |-> Part]

Built(tree, part, sha) ==
    [head |-> IF part = "checkout" THEN sha ELSE tree.head, parts |-> tree.parts \cup {part}]

Lacks(tree, part) == part \in Part \ tree.parts /\ Needs[part] \subseteq tree.parts

-------------------------------- (* Installing *) --------------------------------

NotInstalling == [step |-> "idle", sha |-> Nowhere]

Operates == operations < MaxOperations /\ operations' = operations + 1

Installs(p, step) == installer[p].step = step

Proceeds(p, state) == installer' = [installer EXCEPT ![p] = state]

BootstrapHost ==
    /\ ~account
    /\ account' = TRUE
    /\ UNCHANGED <<trees, staging, installer, current, cycle, hostVars, launchVars, operations>>

\* Mutant: a release that is there is used again as it is.
BeginInstallTrusting(p, sha, head, clean) ==
    /\ Operates /\ Installs(p, "idle")
    /\ head = sha /\ clean
    /\ IF trees[sha] # NoTree THEN Proceeds(p, [step |-> "activate", sha |-> sha])
       ELSE staging[p] = NoTree /\ Proceeds(p, [step |-> "build", sha |-> sha])
    /\ UNCHANGED <<account, trees, staging, current, cycle, hostVars, launchVars>>

\* The source must be clean and at the commit asked for.  A release that is there is
\* validated and used again; a staging directory that is there is refused.
BeginInstall(p, sha, head, clean) ==
    /\ Operates /\ Installs(p, "idle")
    /\ head = sha /\ clean
    /\ IF trees[sha] # NoTree
       THEN Validated(trees[sha], sha) /\ Proceeds(p, [step |-> "activate", sha |-> sha])
       ELSE staging[p] = NoTree /\ Proceeds(p, [step |-> "build", sha |-> sha])
    /\ UNCHANGED <<account, trees, staging, current, cycle, hostVars, launchVars>>

BuildPart(p, part) ==
    /\ Installs(p, "build") /\ Lacks(staging[p], part)
    /\ staging' = [staging EXCEPT ![p] = Built(@, part, installer[p].sha)]
    /\ UNCHANGED <<account, trees, installer, current, cycle, hostVars, launchVars, operations>>

\* A validated tree is renamed into place, unless there is one by now.
RenameIntoPlace(p) ==
    LET sha == installer[p].sha IN
    /\ Installs(p, "build")
    /\ account /\ Validated(staging[p], sha) /\ trees[sha] = NoTree
    /\ trees' = [trees EXCEPT ![sha] = staging[p]]
    /\ staging' = [staging EXCEPT ![p] = NoTree]
    /\ Proceeds(p, [step |-> "activate", sha |-> sha])
    /\ UNCHANGED <<account, current, cycle, hostVars, launchVars, operations>>

\* Until then any error removes the staging directory and changes nothing else.
FailInstall(p) ==
    /\ Installs(p, "build")
    /\ staging' = [staging EXCEPT ![p] = NoTree]
    /\ Proceeds(p, NotInstalling)
    /\ UNCHANGED <<account, trees, current, cycle, hostVars, launchVars, operations>>

\* The symlink is replaced in one step, whatever runs.
Points(sha) ==
    /\ current' = sha
    /\ cycle' = [cycle EXCEPT !.moved = @ \/ current # sha]

Activate(p) ==
    /\ Installs(p, "activate")
    /\ Points(installer[p].sha)
    /\ Proceeds(p, NotInstalling)
    /\ UNCHANGED <<account, trees, staging, hostVars, launchVars, operations>>

KillInstall(p) ==
    /\ ~Installs(p, "idle")
    /\ Proceeds(p, NotInstalling)
    /\ UNCHANGED <<account, trees, staging, current, cycle, hostVars, launchVars, operations>>

-------------------------------- (* Operators *) --------------------------------

\* A build by hand lies where the release belongs, and may be of another commit.
BuildByHand(sha, part, head) ==
    /\ Lacks(trees[sha], part)
    /\ IF part = "checkout" THEN Operates ELSE head = trees[sha].head /\ UNCHANGED operations
    /\ trees' = [trees EXCEPT ![sha] = Built(@, part, head)]
    /\ UNCHANGED <<account, staging, installer, current, cycle, hostVars, launchVars>>

\* Back to, or on to, a release that was reviewed.
Repoint(sha) ==
    /\ Operates /\ Validated(trees[sha], sha)
    /\ Points(sha)
    /\ UNCHANGED <<releaseVars, told, units, copying, api, timer, launchVars>>

Tell(sha) ==
    /\ Operates
    /\ told' = sha
    /\ UNCHANGED <<releaseVars, current, cycle, units, copying, api, timer, launchVars>>

\* Units are copied from the release that `current` was when install-systemd began.
BeginUnits ==
    /\ Operates /\ copying = Nowhere /\ current # Nowhere
    /\ copying' = current
    /\ UNCHANGED <<releaseVars, current, cycle, told, units, api, timer, launchVars>>

CopyUnit(unit) ==
    /\ copying # Nowhere
    /\ units' = [units EXCEPT ![unit] = copying]
    /\ UNCHANGED <<releaseVars, current, cycle, told, copying, api, timer, launchVars, operations>>

\* Enabling a service starts it only if it is not running; the timer is left alone.
FinishUnits(enable) ==
    /\ copying # Nowhere /\ \A unit \in Unit : units[unit] = copying
    /\ copying' = Nowhere
    /\ api' = IF enable /\ api = Nowhere THEN current ELSE api
    /\ UNCHANGED <<releaseVars, current, cycle, told, units, timer, launchVars, operations>>

AbortUnits ==
    /\ copying # Nowhere
    /\ copying' = Nowhere
    /\ UNCHANGED <<releaseVars, current, cycle, told, units, api, timer, launchVars, operations>>

RestartApi ==
    /\ Operates /\ current # Nowhere
    /\ api' = current
    /\ UNCHANGED <<releaseVars, current, cycle, told, units, copying, timer, launchVars>>

\* Only a launch that was approved lets the operator enable the timer.
SwitchTimer(on) ==
    /\ Operates
    /\ on => verdict.says = "go"
    /\ timer' = on
    /\ UNCHANGED <<releaseVars, current, cycle, told, units, copying, api, launchVars>>

-------------------------- (* Preflight and launch gate *) --------------------------

Report(sha, release, whole, bound, fine) ==
    [step |-> "report", sha |-> sha, release |-> release, whole |-> whole,
     blocker |-> IF whole /\ bound /\ fine THEN "none"
                 ELSE IF whole /\ bound THEN "environment" ELSE "integrity"]

\* The release is looked at first; with release-only, nothing else is.
BeginPreflight(sha, releaseOnly) ==
    LET whole == current # Nowhere /\ Validated(trees[current], sha) IN
    /\ Operates /\ preflight.step # "reading"
    /\ preflight' = IF releaseOnly THEN Report(sha, current, whole, TRUE, TRUE)
                    ELSE [step |-> "reading", sha |-> sha, release |-> current,
                          whole |-> whole, blocker |-> "none"]
    /\ UNCHANGED <<releaseVars, current, cycle, hostVars, verdict>>

\* Then the host; `rest` is what is looked at and not modelled.
FinishPreflight(rest) ==
    /\ preflight.step = "reading"
    /\ preflight' =
          Report(preflight.sha, preflight.release, preflight.whole, told = preflight.sha,
                 /\ current = preflight.release
                 /\ \A unit \in Unit : units[unit] # Nowhere
                 /\ ~timer /\ api # Nowhere /\ rest)
    /\ UNCHANGED <<releaseVars, current, cycle, hostVars, verdict, operations>>

\* What the gate makes of the saved report and of the operator's attestations.
DecideLaunch(sha, reviewed, ci, attested) ==
    /\ Operates /\ preflight.step = "report"
    /\ verdict' = [sha |-> sha, says |->
          IF preflight.sha # sha \/ reviewed # sha \/ preflight.blocker = "integrity"
          THEN "integrity"
          ELSE IF ~ci THEN "code"
          ELSE IF preflight.blocker # "none" \/ ~attested THEN "environment" ELSE "go"]
    /\ UNCHANGED <<releaseVars, current, cycle, hostVars, preflight>>

---------------------------------- (* A cycle *) ----------------------------------

Rested == [step |-> "ended", claim |-> Nowhere, loaded |-> {}, root |-> Nowhere, moved |-> FALSE]

Runs(step) == cycle.step = step

StartCycle ==
    /\ Operates /\ cycle.step \in {"ended", "completed"} /\ told # Nowhere
    /\ cycle' = [Rested EXCEPT !.step = "started", !.claim = told]
    /\ UNCHANGED <<releaseVars, current, hostVars, launchVars>>

\* The interpreter and the modules are those of `current`, at the start and later.
LoadModules ==
    /\ cycle.step \in {"started", "running"} /\ current # Nowhere
    /\ cycle' = [cycle EXCEPT !.step = IF @ = "started" THEN "loaded" ELSE @,
                              !.loaded = @ \cup {current}]
    /\ UNCHANGED <<releaseVars, current, hostVars, launchVars, operations>>

ResolveRoot ==
    /\ Runs("loaded")
    /\ cycle' = [cycle EXCEPT !.step = "resolved", !.root = current]
    /\ UNCHANGED <<releaseVars, current, hostVars, launchVars, operations>>

VerifyDeployedSha ==
    /\ Runs("resolved")
    /\ cycle' = IF trees[cycle.root].head = cycle.claim THEN [cycle EXCEPT !.step = "running"]
                ELSE Rested
    /\ UNCHANGED <<releaseVars, current, hostVars, launchVars, operations>>

EndCycle ==
    /\ Runs("running")
    /\ cycle' = [cycle EXCEPT !.step = "completed"]
    /\ UNCHANGED <<releaseVars, current, hostVars, launchVars, operations>>

\* An error, the unit's timeout, or no release to start from.
StopCycle ==
    /\ cycle.step \in {"started", "loaded", "resolved", "running"}
    /\ cycle' = Rested
    /\ UNCHANGED <<releaseVars, current, hostVars, launchVars, operations>>

---------------------------------------------------------------------------------

\* A new host, or one that was set up with a release.
DeploymentInit ==
    /\ current \in Provisioned
    /\ account = (current # Nowhere) /\ operations = 0
    /\ trees = [sha \in Sha |-> IF sha = current THEN [head |-> sha, parts |-> Part] ELSE NoTree]
    /\ staging = [p \in Installer |-> NoTree]
    /\ installer = [p \in Installer |-> NotInstalling]
    /\ told = current /\ copying = Nowhere /\ api = current
    /\ units = [unit \in Unit |-> current]
    /\ timer = FALSE
    /\ preflight = [step |-> "none", sha |-> Nowhere, release |-> Nowhere, whole |-> FALSE,
                    blocker |-> "none"]
    /\ verdict = [sha |-> Nowhere, says |-> "nothing"]
    /\ cycle = Rested

Install(p) ==
    \/ \E sha, head \in Sha, clean \in BOOLEAN : BeginInstall(p, sha, head, clean)
    \/ \E part \in Part : BuildPart(p, part)
    \/ RenameIntoPlace(p) \/ FailInstall(p) \/ Activate(p) \/ KillInstall(p)

Operate ==
    \/ \E sha, head \in Sha, part \in Part : BuildByHand(sha, part, head)
    \/ \E sha \in Sha : Repoint(sha) \/ Tell(sha)
    \/ BeginUnits \/ AbortUnits \/ RestartApi
    \/ \E unit \in Unit : CopyUnit(unit)
    \/ \E on \in BOOLEAN : FinishUnits(on) \/ SwitchTimer(on)

Launch ==
    \/ \E sha \in Sha, choice \in BOOLEAN : BeginPreflight(sha, choice)
    \/ \E rest \in BOOLEAN : FinishPreflight(rest)
    \/ \E sha, reviewed \in Sha, ci, attested \in BOOLEAN :
          DecideLaunch(sha, reviewed, ci, attested)

DeploymentNext ==
    \/ BootstrapHost
    \/ \E p \in Installer : Install(p)
    \/ Operate
    \/ Launch
    \/ StartCycle \/ LoadModules \/ ResolveRoot \/ VerifyDeployedSha
    \/ EndCycle \/ StopCycle

DeploymentSpec == DeploymentInit /\ [][DeploymentNext]_dpVars

-------------------------------- (* Properties *) --------------------------------

DeploymentTypeOK ==
    /\ account \in BOOLEAN /\ timer \in BOOLEAN
    /\ \A sha \in Sha : trees[sha].head \in Sha \cup {Nowhere} /\ trees[sha].parts \subseteq Part
    /\ {current, told, copying, api} \subseteq Sha \cup {Nowhere}
    /\ operations \in 0..MaxOperations

\* `current` is a tree that was built to the end and is of the commit it is named after,
\* and so is a release that the gate let go.
CurrentIsWhole ==
    \A sha \in {current} \cup (IF verdict.says = "go" THEN {verdict.sha} ELSE {}) :
        sha # Nowhere => Validated(trees[sha], sha)

\* A cycle that runs, or ran, passes on the commit of the whole release it lies in as
\* its own; and all it loaded is of that release, unless `current` moved meanwhile.
CyclesTellTheirRelease ==
    cycle.step \in {"running", "completed"} =>
        /\ Validated(trees[cycle.root], cycle.claim)
        /\ ~cycle.moved => cycle.loaded = {cycle.root}

\* Whoever installs, builds by hand, repoints or dies, and whenever: what is deployed, let
\* go or run is a whole reviewed release, and a cycle records the commit it really ran.
DeployedAsTold == CurrentIsWhole /\ CyclesTellTheirRelease
=============================================================================
