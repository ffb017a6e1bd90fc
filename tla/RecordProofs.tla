---------------------------- MODULE RecordProofs ----------------------------
(***************************************************************************)
(* Proofs about what is kept and cannot be taken back: raw objects, for    *)
(* any writers and any number of puts (RawArchive), releases, for any      *)
(* commits, installers, units and number of operations (Deployment), facts *)
(* with their revisions, for any runs, batches and failures (Ingestion),   *)
(* and the one opening of the holdout, for any candidates, scores, labels  *)
(* and commands (ChallengerHoldout).                                       *)
(***************************************************************************)
EXTENDS RawArchive, Deployment, Ingestion, ChallengerHoldout, FiniteSetTheorems, FunctionTheorems,
        WellFoundedInduction, TLAPS

USE RawArchiveAssumption

\* A file that may lack a part of the content, and why.
Excused(f) == f \in killed \/ \E w \in Writer : put[w] = [step |-> "opened", file |-> f]

\* A put that has opened a file holds one.
HoldsFile == \A w \in Writer : put[w].step \in {"opened", "written"} => put[w].file # NoFile

\* What is under the temporary name is whole, or left by a put that died, or is being
\* written.
LeftoverExcused == temporary # NoFile /\ temporary \notin whole => Excused(temporary)

\* The object is never the temporary file, which puts truncate.
TwoFiles == target # NoFile => target # temporary

\* Puts that are under way together have overlapped.
AloneUnlessOverlapped ==
    \A u, v \in Writer : Putting(u) /\ Putting(v) /\ u # v => overlapped

\* A put that is alone holds the temporary file, whole once it is written.
HoldsTemporary ==
    ~overlapped => \A w \in Writer :
        /\ put[w].step \in {"opened", "written"} => put[w].file = temporary /\ temporary # NoFile
        /\ put[w].step = "written" => temporary \in whole

ArchiveInv ==
    /\ ArchiveTypeOK
    /\ HoldsFile
    /\ StoredIsWhole
    /\ LeftoverExcused
    /\ TwoFiles
    /\ AloneUnlessOverlapped
    /\ HoldsTemporary

-----------------------------------------------------------------------------
LEMMA ArchiveStarts == ArchiveInit => ArchiveInv
<1> SUFFICES ASSUME ArchiveInit
             PROVE  ArchiveInv
  OBVIOUS
<1> USE DEF ArchiveInit, NoPut, NoFile
<1>1. \A w \in Writer : put[w] = [step |-> "none", file |-> 0]
  OBVIOUS
<1>2. ArchiveTypeOK
  <2>1. put \in [Writer -> [step: {"none", "absent", "opened", "written"},
                          file: Inode \cup {NoFile}]]
    OBVIOUS
  <2>2. puts \in [Writer -> 0..MaxPuts]
    OBVIOUS
  <2>3. inodes \in Nat /\ whole \subseteq Inode /\ killed \subseteq Inode /\ overlapped \in BOOLEAN
    OBVIOUS
  <2> QED
    BY <2>1, <2>2, <2>3 DEF ArchiveTypeOK
<1>3. HoldsFile /\ HoldsTemporary /\ AloneUnlessOverlapped
  BY <1>1 DEF HoldsFile, HoldsTemporary, AloneUnlessOverlapped, Putting
<1>4. StoredIsWhole /\ LeftoverExcused /\ TwoFiles
  BY DEF StoredIsWhole, LeftoverExcused, TwoFiles
<1> QED
  BY <1>2, <1>3, <1>4 DEF ArchiveInv

LEMMA StepTyped ==
    ASSUME ArchiveTypeOK, HoldsFile, [ArchiveNext]_arVars
    PROVE  ArchiveTypeOK' /\ HoldsFile'
<1> USE DEF ArchiveTypeOK, HoldsFile, NoPut, NoFile, Inode
<1>1. CASE UNCHANGED arVars
  BY <1>1 DEF arVars
<1>2. ASSUME NEW w \in Writer, Begun(w)
      PROVE  puts' \in [Writer -> 0..MaxPuts] /\ overlapped' \in BOOLEAN
  BY <1>2 DEF Begun
<1>3. ASSUME NEW w \in Writer, FindStored(w)
      PROVE  ArchiveTypeOK' /\ HoldsFile'
  BY <1>2, <1>3 DEF FindStored
<1>4. ASSUME NEW w \in Writer, BeginPut(w)
      PROVE  ArchiveTypeOK' /\ HoldsFile'
  BY <1>2, <1>4 DEF BeginPut
<1>5. ASSUME NEW w \in Writer, OpenTemporary(w)
      PROVE  ArchiveTypeOK' /\ HoldsFile'
  <2>1. CASE temporary = NoFile
    <3>1. /\ inodes' = inodes + 1 /\ temporary' = inodes + 1
          /\ put' = [put EXCEPT ![w] = [step |-> "opened", file |-> inodes + 1]]
          /\ UNCHANGED <<target, whole, puts, overlapped, killed>>
      BY <1>5, <2>1 DEF OpenTemporary
    <3>2. Inode \subseteq Inode' /\ inodes + 1 \in Inode'
      BY <3>1
    <3>3. put' \in [Writer -> [step: {"none", "absent", "opened", "written"},
                              file: Inode' \cup {NoFile}]]
      BY <3>1, <3>2
    <3> QED
      BY <3>1, <3>2, <3>3
  <2>2. CASE temporary # NoFile
    <3>1. /\ whole' = whole \ {temporary}
          /\ put' = [put EXCEPT ![w] = [step |-> "opened", file |-> temporary]]
          /\ UNCHANGED <<inodes, temporary, target, puts, overlapped, killed>>
      BY <1>5, <2>2 DEF OpenTemporary
    <3>2. Inode' = Inode
      BY <3>1
    <3>3. put' \in [Writer -> [step: {"none", "absent", "opened", "written"},
                              file: Inode' \cup {NoFile}]]
      BY <3>1, <3>2
    <3>4. HoldsFile'
      BY <2>2, <3>1
    <3> QED
      BY <3>1, <3>2, <3>3, <3>4
  <2> QED
    BY <2>1, <2>2
<1>6. ASSUME NEW w \in Writer, WriteContent(w)
      PROVE  ArchiveTypeOK' /\ HoldsFile'
  BY <1>6 DEF WriteContent
<1>7. ASSUME NEW w \in Writer, Rename(w)
      PROVE  ArchiveTypeOK' /\ HoldsFile'
  BY <1>7 DEF Rename, Ended
<1>8. ASSUME NEW w \in Writer, Kill(w)
      PROVE  ArchiveTypeOK' /\ HoldsFile'
  BY <1>8 DEF Kill, Ended
<1> QED
  BY <1>1, <1>3, <1>4, <1>5, <1>6, <1>7, <1>8 DEF ArchiveNext

Move(w) ==
    \/ FindStored(w) \/ BeginPut(w) \/ OpenTemporary(w)
    \/ WriteContent(w) \/ Rename(w) \/ Kill(w)

\* What an action does to the reasons to be torn: they are kept, but for a file that is
\* written now.
LEMMA ExcusesKept ==
    ASSUME ArchiveInv, [ArchiveNext]_arVars, NEW f \in Inode, Excused(f)
    PROVE  Excused(f)' \/ f \in whole'
<1> USE DEF Excused, ArchiveInv, ArchiveTypeOK
<1>1. CASE f \in killed
  <2>1. killed \subseteq killed'
    BY DEF ArchiveNext, FindStored, BeginPut, OpenTemporary, WriteContent, Rename, Kill, arVars
  <2> QED
    BY <1>1, <2>1
<1>2. ASSUME NEW u \in Writer, put[u] = [step |-> "opened", file |-> f]
      PROVE  Excused(f)' \/ f \in whole'
  <2>1. CASE UNCHANGED arVars
    BY <1>2, <2>1 DEF arVars
  <2>2. ASSUME NEW w \in Writer, Move(w)
        PROVE  Excused(f)' \/ f \in whole'
    <3>1. CASE w # u
      <4>1. put'[u] = put[u]
        BY <2>2, <3>1 DEF Move, FindStored, BeginPut, OpenTemporary, WriteContent, Rename, Kill, Ended
      <4> QED
        BY <1>2, <4>1
    <3>2. CASE w = u
      <4>1. FindStored(u) \/ WriteContent(u) \/ Kill(u)
        BY <1>2, <2>2, <3>2 DEF Move, BeginPut, Begun, Putting, OpenTemporary, Rename
      <4>2. CASE FindStored(u)
        BY <1>2, <4>2 DEF FindStored
      <4>3. CASE WriteContent(u)
        BY <1>2, <4>3 DEF WriteContent
      <4>4. CASE Kill(u)
        BY <1>2, <4>4 DEF Kill
      <4> QED
        BY <4>1, <4>2, <4>3, <4>4
    <3> QED
      BY <3>1, <3>2
  <2> QED
    BY <2>1, <2>2 DEF ArchiveNext, Move
<1> QED
  BY <1>1, <1>2

\* A step keeps what puts under way together and a put that is alone know.
LEMMA AloneKept ==
    ASSUME ArchiveInv, [ArchiveNext]_arVars
    PROVE  AloneUnlessOverlapped' /\ HoldsTemporary'
<1> USE DEF ArchiveInv, ArchiveTypeOK, AloneUnlessOverlapped, HoldsTemporary, Putting, NoPut
<1>1. CASE UNCHANGED arVars
  BY <1>1 DEF arVars
<1>2. ASSUME NEW w \in Writer, Move(w)
      PROVE  AloneUnlessOverlapped' /\ HoldsTemporary'
  <2>1. \A u \in Writer : u # w => put'[u] = put[u]
    BY <1>2 DEF Move, FindStored, BeginPut, OpenTemporary, WriteContent, Rename, Kill, Ended
  <2>2. overlapped => overlapped'
    BY <1>2 DEF Move, FindStored, BeginPut, Begun, OpenTemporary, WriteContent, Rename, Kill
  <2>3. ASSUME ~overlapped', NEW u \in Writer, u # w
        PROVE  put[u].step = "none"
    BY <1>2, <2>2, <2>3
       DEF Move, FindStored, BeginPut, Begun, OpenTemporary, WriteContent, Rename, Kill
  <2>4. ~overlapped' => /\ put'[w].step \in {"opened", "written"} =>
                               put'[w].file = temporary' /\ temporary' # NoFile
                        /\ put'[w].step = "written" => temporary' \in whole'
    <3>1. CASE FindStored(w) \/ BeginPut(w)
      BY <2>2, <3>1 DEF FindStored, BeginPut, Begun
    <3>2. CASE OpenTemporary(w)
      <4>1. put'[w].step = "opened" /\ put'[w].file = temporary' /\ temporary' # NoFile
        BY <3>2 DEF OpenTemporary, NoFile
      <4> QED
        BY <4>1
    <3>3. CASE WriteContent(w)
      <4>1. /\ put'[w].step = "written" /\ put'[w].file = put[w].file
            /\ whole' = whole \cup {put[w].file} /\ temporary' = temporary
            /\ put[w].step = "opened"
        BY <3>3 DEF WriteContent
      <4> QED
        BY <2>2, <4>1
    <3>4. CASE Rename(w) \/ Kill(w)
      <4>1. put'[w].step = "none"
        BY <3>4 DEF Rename, Kill, Ended
      <4> QED
        BY <4>1
    <3> QED
      BY <1>2, <3>1, <3>2, <3>3, <3>4 DEF Move
  <2>5. AloneUnlessOverlapped'
    BY <2>1, <2>3
  <2>6. HoldsTemporary'
    BY <2>1, <2>3, <2>4
  <2> QED
    BY <2>5, <2>6
<1> QED
  BY <1>1, <1>2 DEF ArchiveNext, Move

\* A step keeps the object apart from the temporary file.
LEMMA TwoFilesKept ==
    ASSUME ArchiveInv, [ArchiveNext]_arVars
    PROVE  TwoFiles'
<1> USE DEF ArchiveInv, ArchiveTypeOK, TwoFiles, NoFile, Inode
<1>1. CASE UNCHANGED <<target, temporary>>
  BY <1>1
<1>2. ASSUME NEW w \in Writer, OpenTemporary(w)
      PROVE  TwoFiles'
  BY <1>2 DEF OpenTemporary
<1>3. ASSUME NEW w \in Writer, Rename(w)
      PROVE  TwoFiles'
  BY <1>3 DEF Rename
<1> QED
  BY <1>1, <1>2, <1>3 DEF ArchiveNext, FindStored, BeginPut, WriteContent, Kill, arVars

\* A step keeps the excuse of what it leaves under the temporary name.
LEMMA LeftoverKept ==
    ASSUME ArchiveInv, ArchiveTypeOK', [ArchiveNext]_arVars
    PROVE  LeftoverExcused'
<1> USE DEF ArchiveInv, NoFile
<1>1. ASSUME temporary' = temporary, temporary # NoFile, temporary \notin whole,
             temporary \notin whole'
      PROVE  Excused(temporary)'
  <2>1. PICK f \in Inode : f = temporary
    BY <1>1 DEF ArchiveTypeOK
  <2>2. Excused(f)
    BY <1>1, <2>1 DEF LeftoverExcused
  <2>3. Excused(f)'
    BY <1>1, <2>1, <2>2, ExcusesKept
  <2> QED
    BY <1>1, <2>1, <2>3 DEF Excused
<1>2. ASSUME NEW w \in Writer, OpenTemporary(w)
      PROVE  LeftoverExcused'
  <2>1. put'[w] = [step |-> "opened", file |-> temporary']
    BY <1>2 DEF OpenTemporary, ArchiveTypeOK
  <2> QED
    BY <2>1 DEF LeftoverExcused, Excused
<1>3. ASSUME NEW w \in Writer, Rename(w)
      PROVE  temporary' = NoFile
  BY <1>3 DEF Rename
<1>4. CASE \E w \in Writer : OpenTemporary(w) \/ Rename(w)
  BY <1>2, <1>3, <1>4 DEF LeftoverExcused
<1>5. CASE ~\E w \in Writer : OpenTemporary(w) \/ Rename(w)
  <2>1. temporary' = temporary /\ whole \subseteq whole'
    BY <1>5 DEF ArchiveNext, FindStored, BeginPut, WriteContent, Kill, arVars
  <2> QED
    BY <1>1, <2>1 DEF LeftoverExcused
<1> QED
  BY <1>4, <1>5

\* A step keeps the stored object whole, or torn for the reasons it may be.
LEMMA StoredKept ==
    ASSUME ArchiveInv, ArchiveTypeOK', [ArchiveNext]_arVars
    PROVE  StoredIsWhole'
<1> USE DEF ArchiveInv, NoFile
<1>1. overlapped => overlapped'
  BY DEF ArchiveNext, FindStored, BeginPut, Begun, OpenTemporary, WriteContent, Rename, Kill, arVars
<1>2. ASSUME NEW f \in Inode, target' = f, f \notin whole', Excused(f), overlapped
      PROVE  StoredIsWhole'
  <2>1. Excused(f)'
    BY <1>2, ExcusesKept
  <2> QED
    BY <1>1, <1>2, <2>1 DEF StoredIsWhole, Excused
<1>3. CASE \E w \in Writer : Rename(w) /\ temporary # NoFile
  <2>1. PICK w \in Writer : Rename(w) /\ temporary # NoFile
    BY <1>3
  <2>2. PICK f \in Inode : f = temporary
    BY <2>1 DEF ArchiveTypeOK
  <2>3. target' = f /\ whole' = whole /\ put[w].step = "written"
    BY <2>1, <2>2 DEF Rename
  <2>4. CASE f \in whole
    BY <2>3, <2>4 DEF StoredIsWhole
  <2>5. CASE f \notin whole
    <3>1. Excused(f)
      BY <2>1, <2>2, <2>5 DEF LeftoverExcused
    <3>2. overlapped
      BY <2>2, <2>3, <2>5 DEF HoldsTemporary
    <3> QED
      BY <1>2, <2>3, <2>5, <3>1, <3>2
  <2> QED
    BY <2>4, <2>5
<1>4. CASE ~\E w \in Writer : Rename(w) /\ temporary # NoFile
  <2>1. target' = target
    BY <1>4
       DEF ArchiveNext, FindStored, BeginPut, OpenTemporary, WriteContent, Rename, Kill, arVars
  <2>2. whole \ {temporary} \subseteq whole'
    BY DEF ArchiveNext, FindStored, BeginPut, OpenTemporary, WriteContent, Rename, Kill, arVars
  <2>3. ASSUME target # NoFile, target \notin whole'
        PROVE  StoredIsWhole'
    <3>1. PICK f \in Inode : f = target
      BY <2>3 DEF ArchiveTypeOK
    <3>2. f \notin whole
      BY <2>2, <2>3, <3>1 DEF TwoFiles
    <3>3. Excused(f) /\ overlapped
      BY <2>3, <3>1, <3>2 DEF StoredIsWhole, Excused
    <3> QED
      BY <1>2, <2>1, <2>3, <3>1, <3>3
  <2> QED
    BY <2>1, <2>3 DEF StoredIsWhole
<1> QED
  BY <1>3, <1>4

LEMMA ArchiveKept == ArchiveInv /\ [ArchiveNext]_arVars => ArchiveInv'
<1> SUFFICES ASSUME ArchiveInv, [ArchiveNext]_arVars
             PROVE  ArchiveInv'
  OBVIOUS
<1>1. ArchiveTypeOK' /\ HoldsFile'
  BY StepTyped DEF ArchiveInv
<1>2. AloneUnlessOverlapped' /\ HoldsTemporary' /\ TwoFiles'
  BY AloneKept, TwoFilesKept
<1>3. LeftoverExcused' /\ StoredIsWhole'
  BY <1>1, LeftoverKept, StoredKept
<1> QED
  BY <1>1, <1>2, <1>3 DEF ArchiveInv

LEMMA ArchiveSound == ArchiveSpec => []ArchiveInv
  BY ArchiveStarts, ArchiveKept, PTL DEF ArchiveSpec

\* Of the raw objects: whatever puts of a content die halfway, what is stored under its
\* digest holds all of it, unless puts of it overlapped (archive.put_bytes).
THEOREM ObjectsWhole == ArchiveSpec => []StoredIsWhole
<1>1. ArchiveInv => StoredIsWhole
  BY DEF ArchiveInv
<1> QED
  BY <1>1, ArchiveSound, PTL

\* Of the raw objects: every name names an inode that was created, or none, and no writer
\* begins more puts than the bound.
THEOREM ArchiveTyped == ArchiveSpec => []ArchiveTypeOK
<1>1. ArchiveInv => ArchiveTypeOK
  BY DEF ArchiveInv
<1> QED
  BY <1>1, ArchiveSound, PTL

\* Of the raw objects: the object and the temporary file are never the same inode, so that
\* no put truncates what is stored.
THEOREM ObjectsApart == ArchiveSpec => []TwoFiles
<1>1. ArchiveInv => TwoFiles
  BY DEF ArchiveInv
<1> QED
  BY <1>1, ArchiveSound, PTL

-----------------------------------------------------------------------------
(***************************************************************************)
(* Deployment: what is deployed, let go or run is a whole release.         *)
(*                                                                         *)
(* Everything rests on one fact: a tree that was validated once is never   *)
(* touched again (WholeStays).  Whoever remembers a release, an installer  *)
(* about to activate, the symlink, a report, the gate or a cycle, saw it   *)
(* validated, and so it still is.                                          *)
(***************************************************************************)
Tree == [head: Sha \cup {Nowhere}, parts: SUBSET Part]

\* The tree of a commit, built to the end and validated.
Filed(sha) == sha \in Sha /\ Validated(trees[sha], sha)

TreesTyped ==
    /\ trees \in [Sha -> Tree]
    /\ installer \in [Installer -> [step: {"idle", "build", "activate"}, sha: Sha \cup {Nowhere}]]

InstallersSound ==
    \A p \in Installer :
      /\ Installs(p, "build") => installer[p].sha \in Sha
      /\ Installs(p, "activate") => Filed(installer[p].sha)

CurrentSound == current # Nowhere => Filed(current)

LaunchSound ==
    /\ preflight.whole => Filed(preflight.sha)
    /\ preflight.step = "report" /\ preflight.blocker = "none" => preflight.whole
    /\ verdict.says = "go" => Filed(verdict.sha)

Answered == {"resolved", "running", "completed"}

CycleRow ==
    [step: {"ended", "started", "loaded"} \cup Answered, claim: Sha \cup {Nowhere},
     loaded: SUBSET Sha, root: Sha \cup {Nowhere}, moved: BOOLEAN]

\* A cycle that has loaded modules did so from a release; where it resolved its root
\* was whole, and unless `current` moved meanwhile both are what it points to.
CycleSound ==
    /\ cycle \in CycleRow
    /\ cycle.step = "started" => cycle.loaded = {}
    /\ cycle.step \in {"loaded"} \cup Answered =>
         /\ current # Nowhere
         /\ ~cycle.moved => cycle.loaded = {current}
    /\ cycle.step \in Answered =>
         /\ Filed(cycle.root)
         /\ ~cycle.moved => cycle.root = current
    /\ cycle.step \in {"running", "completed"} => cycle.claim = cycle.root

DeploymentInv ==
    /\ TreesTyped
    /\ told \in Sha \cup {Nowhere}
    /\ InstallersSound
    /\ CurrentSound
    /\ LaunchSound
    /\ CycleSound

-----------------------------------------------------------------------------
\* A validated tree names the commit it was validated for.
LEMMA OneCommit ==
    ASSUME NEW tree, NEW sha, NEW other, Validated(tree, sha), Validated(tree, other)
    PROVE  sha = other
<1>1. tree.head = sha /\ tree.head = other
  BY DEF Validated
<1>2. QED
  BY <1>1

\* Nobody touches a validated tree: an installer renames its own only where there
\* is none, and a build by hand adds to a tree what it lacks.
LEMMA WholeStays ==
    ASSUME TreesTyped, InstallersSound, [DeploymentNext]_dpVars
    PROVE  /\ trees' \in [Sha -> Tree]
           /\ \A sha \in Sha : Validated(trees[sha], sha) => Validated(trees'[sha], sha)
<1>1. ASSUME NEW p \in Installer, RenameIntoPlace(p)
      PROVE  /\ trees' \in [Sha -> Tree]
             /\ \A sha \in Sha : Validated(trees[sha], sha) => Validated(trees'[sha], sha)
  <2>1. /\ installer[p].sha \in Sha /\ trees[installer[p].sha] = NoTree
        /\ trees' = [trees EXCEPT ![installer[p].sha] = staging[p]]
        /\ staging[p] = [head |-> installer[p].sha, parts |-> Part]
    BY <1>1 DEF RenameIntoPlace, InstallersSound, Validated
  <2>2. staging[p] \in Tree
    BY <2>1 DEF Tree
  <2>3. ~Validated(NoTree, installer[p].sha)
    <3>1. NoTree.parts = {} /\ [head |-> installer[p].sha, parts |-> Part].parts = Part
      BY DEF NoTree
    <3>2. QED
      BY <3>1 DEF Validated, Part
  <2>4. QED
    BY <2>1, <2>2, <2>3 DEF TreesTyped
<1>2. ASSUME NEW sha \in Sha, NEW head \in Sha, NEW part \in Part, BuildByHand(sha, part, head)
      PROVE  /\ trees' \in [Sha -> Tree]
             /\ \A s \in Sha : Validated(trees[s], s) => Validated(trees'[s], s)
  <2>1. /\ part \notin trees[sha].parts
        /\ trees' = [trees EXCEPT ![sha] = Built(trees[sha], part, head)]
    BY <1>2 DEF BuildByHand, Lacks
  <2>2. Built(trees[sha], part, head) \in Tree
    BY DEF Built, Tree, TreesTyped
  <2>3. ~Validated(trees[sha], sha)
    BY <2>1 DEF Validated
  <2>4. QED
    BY <2>1, <2>2, <2>3 DEF TreesTyped
<1>3. CASE trees' = trees
  BY <1>3 DEF TreesTyped
<1>4. ASSUME NEW p \in Installer, Install(p), ~RenameIntoPlace(p)
      PROVE  trees' = trees
  BY <1>4 DEF Install, BeginInstall, BuildPart, FailInstall, Activate, KillInstall
<1>5. CASE Operate
  BY <1>2, <1>3, <1>5
  DEF Operate, Repoint, Tell, BeginUnits, CopyUnit, FinishUnits, AbortUnits, RestartApi,
      SwitchTimer, releaseVars
<1>6. CASE \/ BootstrapHost \/ Launch \/ UNCHANGED dpVars
           \/ StartCycle \/ LoadModules \/ ResolveRoot \/ VerifyDeployedSha \/ EndCycle \/ StopCycle
  BY <1>3, <1>6
  DEF BootstrapHost, Launch, BeginPreflight, FinishPreflight, DecideLaunch, dpVars, StartCycle,
      LoadModules, ResolveRoot, VerifyDeployedSha, EndCycle, StopCycle, releaseVars
<1>7. QED
  BY <1>1, <1>3, <1>4, <1>5, <1>6 DEF DeploymentNext

\* A step that moves neither an installer, the symlink, a report nor a cycle.
LEMMA UntouchedStep ==
    ASSUME DeploymentInv,
           trees' \in [Sha -> Tree],
           \A sha \in Sha : Validated(trees[sha], sha) => Validated(trees'[sha], sha)
    PROVE  /\ installer' = installer => TreesTyped' /\ InstallersSound'
           /\ current' = current => CurrentSound'
           /\ UNCHANGED <<preflight, verdict>> => LaunchSound'
           /\ UNCHANGED <<current, cycle>> => CycleSound'
<1>1. \A sha : Filed(sha) => Filed(sha)'
  BY DEF Filed
<1>2. installer' = installer => TreesTyped' /\ InstallersSound'
  BY <1>1 DEF DeploymentInv, TreesTyped, InstallersSound, Installs, Filed
<1>3. current' = current => CurrentSound'
  BY DEF DeploymentInv, CurrentSound, Filed
<1>4. UNCHANGED <<preflight, verdict>> => LaunchSound'
  BY DEF DeploymentInv, LaunchSound, Filed
<1>5. UNCHANGED <<current, cycle>> => CycleSound'
  BY DEF DeploymentInv, CycleSound, Filed
<1>6. QED
  BY <1>2, <1>3, <1>4, <1>5

\* The symlink moves to a release that is whole.
LEMMA PointsStep ==
    ASSUME DeploymentInv, trees' = trees,
           NEW sha \in Sha, Filed(sha), Points(sha)
    PROVE  CurrentSound' /\ CycleSound'
<1>1. current' = sha /\ sha # Nowhere
  BY DeploymentAssumption DEF Points
<1>2. CurrentSound'
  BY <1>1 DEF CurrentSound, Filed
<1>3. cycle \in CycleRow
  BY DEF DeploymentInv, CycleSound
<1>4. cycle' = [cycle EXCEPT !.moved = (cycle.moved \/ current # sha)]
  BY DEF Points
<1>5. /\ cycle' \in CycleRow
      /\ cycle'.step = cycle.step /\ cycle'.claim = cycle.claim
      /\ cycle'.loaded = cycle.loaded /\ cycle'.root = cycle.root
  BY <1>3, <1>4 DEF CycleRow
<1>6. ~cycle'.moved => ~cycle.moved /\ current' = current
  BY <1>1, <1>3, <1>4 DEF CycleRow
<1>7. CycleSound'
  BY <1>1, <1>5, <1>6 DEF DeploymentInv, CycleSound, Filed
<1>8. QED
  BY <1>2, <1>7

\* The steps of an installer.
LEMMA InstallStep ==
    ASSUME DeploymentInv, NEW p \in Installer, Install(p),
           trees' \in [Sha -> Tree],
           \A sha \in Sha : Validated(trees[sha], sha) => Validated(trees'[sha], sha)
    PROVE  DeploymentInv'
<1>1. UNCHANGED <<told, preflight, verdict>>
  BY DEF Install, BeginInstall, BuildPart, RenameIntoPlace, FailInstall, Activate, KillInstall,
         hostVars, launchVars
<1>2. LaunchSound' /\ told' \in Sha \cup {Nowhere}
  BY <1>1, UntouchedStep DEF DeploymentInv
<1>3. ASSUME NEW state \in [step: {"idle", "build", "activate"}, sha: Sha \cup {Nowhere}],
             Proceeds(p, state),
             state.step = "build" => state.sha \in Sha,
             state.step = "activate" => Filed(state.sha)'
      PROVE  TreesTyped' /\ InstallersSound'
  <2>1. installer' = [installer EXCEPT ![p] = state]
    BY <1>3 DEF Proceeds
  <2>2. TreesTyped'
    BY <2>1 DEF DeploymentInv, TreesTyped
  <2>3. ASSUME NEW q \in Installer
        PROVE  /\ Installs(q, "build")' => installer'[q].sha \in Sha
               /\ Installs(q, "activate")' => Filed(installer[q].sha)'
    <3>1. CASE q = p
      BY <1>3, <2>1, <3>1 DEF DeploymentInv, TreesTyped, Installs
    <3>2. CASE q # p
      BY <2>1, <3>2 DEF DeploymentInv, TreesTyped, InstallersSound, Installs, Filed
    <3>3. QED
      BY <3>1, <3>2
  <2>4. QED
    BY <2>2, <2>3 DEF InstallersSound
<1>4. CASE \E sha, head \in Sha, clean \in BOOLEAN : BeginInstall(p, sha, head, clean)
  <2>1. PICK sha \in Sha : \E head \in Sha, clean \in BOOLEAN : BeginInstall(p, sha, head, clean)
    BY <1>4
  <2>2. UNCHANGED <<trees, current, cycle>>
    BY <2>1 DEF BeginInstall
  <2>3. TreesTyped' /\ InstallersSound'
    <3>1. CASE trees[sha] # NoTree
      <4>1. Filed(sha)' /\ Proceeds(p, [step |-> "activate", sha |-> sha])
        BY <2>1, <2>2, <3>1 DEF BeginInstall, Filed
      <4>2. QED
        BY <1>3, <4>1
    <3>2. CASE trees[sha] = NoTree
      <4>1. Proceeds(p, [step |-> "build", sha |-> sha])
        BY <2>1, <3>2 DEF BeginInstall
      <4>2. QED
        BY <1>3, <4>1
    <3>3. QED
      BY <3>1, <3>2
  <2>4. QED
    BY <1>2, <2>2, <2>3, UntouchedStep DEF DeploymentInv
<1>5. CASE \E part \in Part : BuildPart(p, part)
  <2>1. UNCHANGED <<installer, current, cycle>>
    BY <1>5 DEF BuildPart
  <2>2. QED
    BY <1>2, <2>1, UntouchedStep DEF DeploymentInv
<1>6. CASE RenameIntoPlace(p)
  <2>1. UNCHANGED <<current, cycle>> /\ installer[p].sha \in Sha
    BY <1>6 DEF RenameIntoPlace, DeploymentInv, InstallersSound
  <2>2. Validated(trees'[installer[p].sha], installer[p].sha)
    BY <1>6, <2>1 DEF RenameIntoPlace, DeploymentInv, TreesTyped
  <2>3. Proceeds(p, [step |-> "activate", sha |-> installer[p].sha])
    BY <1>6 DEF RenameIntoPlace
  <2>4. PICK sha \in Sha : sha = installer[p].sha
    BY <2>1
  <2>5. TreesTyped' /\ InstallersSound'
    BY <1>3, <2>2, <2>3, <2>4 DEF Filed
  <2>6. QED
    BY <1>2, <2>1, <2>5, UntouchedStep DEF DeploymentInv
<1>7. CASE FailInstall(p) \/ KillInstall(p)
  <2>1. UNCHANGED <<current, cycle>> /\ Proceeds(p, [step |-> "idle", sha |-> Nowhere])
    BY <1>7 DEF FailInstall, KillInstall, NotInstalling
  <2>2. TreesTyped' /\ InstallersSound'
    BY <1>3, <2>1
  <2>3. QED
    BY <1>2, <2>1, <2>2, UntouchedStep DEF DeploymentInv
<1>8. CASE Activate(p)
  <2>1. /\ trees' = trees /\ Filed(installer[p].sha) /\ Points(installer[p].sha)
        /\ Proceeds(p, [step |-> "idle", sha |-> Nowhere])
    BY <1>8 DEF Activate, NotInstalling, DeploymentInv, InstallersSound
  <2>2. CurrentSound' /\ CycleSound'
    BY <2>1, PointsStep DEF Filed
  <2>3. TreesTyped' /\ InstallersSound'
    BY <1>3, <2>1
  <2>4. QED
    BY <1>2, <2>2, <2>3 DEF DeploymentInv
<1>9. QED
  BY <1>4, <1>5, <1>6, <1>7, <1>8 DEF Install

\* The steps of an operator.
LEMMA OperateStep ==
    ASSUME DeploymentInv, Operate,
           trees' \in [Sha -> Tree],
           \A sha \in Sha : Validated(trees[sha], sha) => Validated(trees'[sha], sha)
    PROVE  DeploymentInv'
<1>1. UNCHANGED <<installer, preflight, verdict>>
  BY DEF Operate, BuildByHand, Repoint, Tell, BeginUnits, CopyUnit, FinishUnits, AbortUnits,
         RestartApi, SwitchTimer, releaseVars, launchVars
<1>2. TreesTyped' /\ InstallersSound' /\ LaunchSound'
  BY <1>1, UntouchedStep
<1>3. told' \in Sha \cup {Nowhere}
  BY DEF Operate, BuildByHand, Repoint, Tell, BeginUnits, CopyUnit, FinishUnits, AbortUnits,
         RestartApi, SwitchTimer, hostVars, DeploymentInv
<1>4. CASE \E sha \in Sha : Repoint(sha)
  <2>1. PICK sha \in Sha : Repoint(sha)
    BY <1>4
  <2>2. trees' = trees /\ Filed(sha) /\ Points(sha)
    BY <2>1 DEF Repoint, releaseVars, Filed
  <2>3. QED
    BY <1>2, <1>3, <2>2, PointsStep DEF DeploymentInv
<1>5. CASE ~ \E sha \in Sha : Repoint(sha)
  <2>1. UNCHANGED <<current, cycle>>
    BY <1>5 DEF Operate, BuildByHand, Tell, BeginUnits, CopyUnit, FinishUnits, AbortUnits,
                RestartApi, SwitchTimer
  <2>2. QED
    BY <1>2, <1>3, <2>1, UntouchedStep DEF DeploymentInv
<1>6. QED
  BY <1>4, <1>5

\* A report of no blocker is about a release that was whole when it was looked at,
\* and the gate lets only the commit of such a report go.
LEMMA LaunchStep ==
    ASSUME DeploymentInv, Launch
    PROVE  DeploymentInv'
<1>1. UNCHANGED <<trees, installer, current, cycle, told>>
  BY DEF Launch, BeginPreflight, FinishPreflight, DecideLaunch, releaseVars, hostVars
<1>2. TreesTyped' /\ InstallersSound' /\ CurrentSound' /\ CycleSound' /\ told' \in Sha \cup {Nowhere}
  <2>1. /\ trees' \in [Sha -> Tree]
        /\ \A sha \in Sha : Validated(trees[sha], sha) => Validated(trees'[sha], sha)
    BY <1>1 DEF DeploymentInv, TreesTyped
  <2>2. QED
    BY <1>1, <2>1, UntouchedStep DEF DeploymentInv
<1>3. \A sha : Filed(sha) => Filed(sha)'
  BY <1>1 DEF Filed
<1>4. ASSUME NEW sha, NEW release, NEW seemsWhole, NEW bound, NEW fine
      PROVE  /\ Report(sha, release, seemsWhole, bound, fine).sha = sha
             /\ Report(sha, release, seemsWhole, bound, fine).whole = seemsWhole
             /\ Report(sha, release, seemsWhole, bound, fine).blocker = "none" => seemsWhole
  BY DEF Report
<1>5. ASSUME NEW sha \in Sha, NEW releaseOnly \in BOOLEAN, BeginPreflight(sha, releaseOnly)
      PROVE  LaunchSound'
  <2> DEFINE seemsWhole == current # Nowhere /\ Validated(trees[current], sha)
  <2>1. seemsWhole => Filed(sha)'
    <3>1. ASSUME seemsWhole
          PROVE  Filed(sha)
      <4>1. Filed(current)
        BY <3>1 DEF DeploymentInv, CurrentSound
      <4>2. current = sha
        BY <3>1, <4>1, OneCommit DEF Filed
      <4>3. QED
        BY <4>1, <4>2
    <3>2. QED
      BY <1>3, <3>1
  <2>2. /\ preflight'.sha = sha /\ preflight'.whole = seemsWhole
        /\ preflight'.step = "report" /\ preflight'.blocker = "none" => seemsWhole
    <3>1. CASE releaseOnly
      <4>1. preflight' = Report(sha, current, seemsWhole, TRUE, TRUE)
        BY <1>5, <3>1 DEF BeginPreflight
      <4>2. seemsWhole \in BOOLEAN
        BY DEF Validated
      <4> HIDE DEF seemsWhole
      <4>3. preflight'.sha = sha /\ preflight'.whole = seemsWhole
        BY <4>1 DEF Report
      <4>4. preflight'.blocker = "none" => seemsWhole
        BY <4>1, <4>2 DEF Report
      <4>5. QED
        BY <4>3, <4>4
    <3>2. CASE ~releaseOnly
      <4>1. preflight' = [step |-> "reading", sha |-> sha, release |-> current,
                          whole |-> seemsWhole, blocker |-> "none"]
        BY <1>5, <3>2 DEF BeginPreflight
      <4>2. QED
        BY <4>1
    <3>3. QED
      BY <3>1, <3>2
  <2>3. verdict' = verdict
    BY <1>5 DEF BeginPreflight
  <2> HIDE DEF seemsWhole
  <2>4. QED
    BY <1>3, <2>1, <2>2, <2>3 DEF DeploymentInv, LaunchSound
<1>6. ASSUME NEW rest \in BOOLEAN, FinishPreflight(rest)
      PROVE  LaunchSound'
  <2>1. PICK bound, fine :
          preflight' = Report(preflight.sha, preflight.release, preflight.whole, bound, fine)
    BY <1>6 DEF FinishPreflight
  <2>2. /\ preflight'.sha = preflight.sha /\ preflight'.whole = preflight.whole
        /\ preflight'.blocker = "none" => preflight.whole
    BY <2>1, <1>4
  <2>3. verdict' = verdict
    BY <1>6 DEF FinishPreflight
  <2>4. QED
    BY <1>3, <2>2, <2>3 DEF DeploymentInv, LaunchSound
<1>7. ASSUME NEW sha \in Sha, NEW reviewed \in Sha, NEW ci \in BOOLEAN, NEW attested \in BOOLEAN,
             DecideLaunch(sha, reviewed, ci, attested)
      PROVE  LaunchSound'
  <2>1. preflight.step = "report" /\ preflight' = preflight
    BY <1>7 DEF DecideLaunch
  <2>2. verdict'.says = "go" => preflight.sha = sha /\ preflight.blocker = "none" /\ verdict'.sha = sha
    BY <1>7 DEF DecideLaunch
  <2>3. verdict'.says = "go" => Filed(verdict'.sha)
    BY <2>1, <2>2 DEF DeploymentInv, LaunchSound
  <2>4. QED
    BY <1>3, <2>1, <2>3 DEF DeploymentInv, LaunchSound, Filed
<1>8. LaunchSound'
  BY <1>5, <1>6, <1>7 DEF Launch
<1>9. QED
  BY <1>2, <1>8 DEF DeploymentInv

\* A cycle goes on only in the release whose commit it was told, and finds it whole.
LEMMA CycleStep ==
    ASSUME DeploymentInv,
           \/ StartCycle \/ LoadModules \/ ResolveRoot \/ VerifyDeployedSha \/ EndCycle \/ StopCycle
    PROVE  DeploymentInv'
<1>1. UNCHANGED <<trees, installer, current, told, preflight, verdict>>
  BY DEF StartCycle, LoadModules, ResolveRoot, VerifyDeployedSha, EndCycle, StopCycle,
         releaseVars, hostVars, launchVars
<1>2. TreesTyped' /\ InstallersSound' /\ CurrentSound' /\ LaunchSound' /\ told' \in Sha \cup {Nowhere}
  <2>1. /\ trees' \in [Sha -> Tree]
        /\ \A sha \in Sha : Validated(trees[sha], sha) => Validated(trees'[sha], sha)
    BY <1>1 DEF DeploymentInv, TreesTyped
  <2>2. QED
    BY <1>1, <2>1, UntouchedStep DEF DeploymentInv
<1>3. \A sha : Filed(sha) => Filed(sha)'
  BY <1>1 DEF Filed
<1>4. cycle \in CycleRow /\ (current # Nowhere => Filed(current) /\ current \in Sha)
  BY DEF DeploymentInv, CycleSound, CurrentSound, Filed
<1>5. CASE VerifyDeployedSha /\ trees[cycle.root].head = cycle.claim
  <2>1. /\ cycle.step = "resolved"
        /\ cycle' = [cycle EXCEPT !.step = "running"]
    BY <1>5 DEF VerifyDeployedSha, Runs
  <2>2. Filed(cycle.root)
    BY <2>1 DEF DeploymentInv, CycleSound, Answered
  <2>3. cycle.claim = cycle.root
    BY <1>5, <2>2 DEF Filed, Validated
  <2>4. /\ cycle' \in CycleRow /\ cycle'.step = "running" /\ cycle'.claim = cycle.claim
        /\ cycle'.loaded = cycle.loaded /\ cycle'.root = cycle.root /\ cycle'.moved = cycle.moved
    BY <1>4, <2>1 DEF CycleRow, Answered
  <2>5. CycleSound'
    BY <1>1, <1>3, <2>1, <2>2, <2>3, <2>4 DEF DeploymentInv, CycleSound, Answered
  <2>6. QED
    BY <1>2, <2>5 DEF DeploymentInv
<1>6. CASE StartCycle
  <2>1. cycle' = [step |-> "started", claim |-> told, loaded |-> {}, root |-> Nowhere, moved |-> FALSE]
    BY <1>6 DEF StartCycle, Rested
  <2>2. cycle' \in CycleRow
    BY <2>1 DEF CycleRow, DeploymentInv
  <2>3. CycleSound'
    BY <2>1, <2>2 DEF CycleSound, Answered
  <2>4. QED
    BY <1>2, <2>3 DEF DeploymentInv
<1>7. CASE StopCycle \/ (VerifyDeployedSha /\ trees[cycle.root].head # cycle.claim)
  <2>1. cycle' = [step |-> "ended", claim |-> Nowhere, loaded |-> {}, root |-> Nowhere, moved |-> FALSE]
    BY <1>7 DEF StopCycle, VerifyDeployedSha, Rested
  <2>2. cycle' \in CycleRow
    BY <2>1 DEF CycleRow
  <2>3. CycleSound'
    BY <2>1, <2>2 DEF CycleSound, Answered
  <2>4. QED
    BY <1>2, <2>3 DEF DeploymentInv
<1>8. CASE LoadModules
  <2>1. PICK step \in {"loaded", "running"} :
          /\ cycle.step \in {"started", "running"} /\ current # Nowhere
          /\ step = IF cycle.step = "started" THEN "loaded" ELSE cycle.step
          /\ cycle' = [cycle EXCEPT !.step = step, !.loaded = cycle.loaded \cup {current}]
    BY <1>8 DEF LoadModules
  <2>2. /\ cycle' \in CycleRow /\ cycle'.step = step /\ cycle'.claim = cycle.claim
        /\ cycle'.loaded = cycle.loaded \cup {current}
        /\ cycle'.root = cycle.root /\ cycle'.moved = cycle.moved
    BY <1>4, <2>1 DEF CycleRow, Answered
  <2>3. ~cycle.moved => cycle'.loaded = {current}
    BY <2>1, <2>2 DEF DeploymentInv, CycleSound, Answered
  <2>4. step = "running" => cycle.step = "running"
    BY <2>1
  <2>5. CycleSound'
    BY <1>1, <1>3, <2>1, <2>2, <2>3, <2>4 DEF DeploymentInv, CycleSound, Answered
  <2>6. QED
    BY <1>2, <2>5 DEF DeploymentInv
<1>9. CASE ResolveRoot
  <2>1. cycle.step = "loaded" /\ cycle' = [cycle EXCEPT !.step = "resolved", !.root = current]
    BY <1>9 DEF ResolveRoot, Runs
  <2>2. current # Nowhere
    BY <2>1 DEF DeploymentInv, CycleSound
  <2>3. /\ cycle' \in CycleRow /\ cycle'.step = "resolved" /\ cycle'.claim = cycle.claim
        /\ cycle'.loaded = cycle.loaded /\ cycle'.root = current /\ cycle'.moved = cycle.moved
    BY <1>4, <2>1, <2>2 DEF CycleRow, Answered
  <2>4. CycleSound'
    BY <1>1, <1>3, <1>4, <2>1, <2>2, <2>3 DEF DeploymentInv, CycleSound, Answered
  <2>5. QED
    BY <1>2, <2>4 DEF DeploymentInv
<1>10. CASE EndCycle
  <2>1. cycle.step = "running" /\ cycle' = [cycle EXCEPT !.step = "completed"]
    BY <1>10 DEF EndCycle, Runs
  <2>2. /\ cycle' \in CycleRow /\ cycle'.step = "completed" /\ cycle'.claim = cycle.claim
        /\ cycle'.loaded = cycle.loaded /\ cycle'.root = cycle.root /\ cycle'.moved = cycle.moved
    BY <1>4, <2>1 DEF CycleRow, Answered
  <2>3. CycleSound'
    BY <1>1, <1>3, <2>1, <2>2 DEF DeploymentInv, CycleSound, Answered
  <2>4. QED
    BY <1>2, <2>3 DEF DeploymentInv
<1>11. QED
  BY <1>5, <1>6, <1>7, <1>8, <1>9, <1>10

\* Every step keeps the invariant.
LEMMA DeploymentStep == DeploymentInv /\ [DeploymentNext]_dpVars => DeploymentInv'
<1> SUFFICES ASSUME DeploymentInv, [DeploymentNext]_dpVars
             PROVE  DeploymentInv'
  OBVIOUS
<1>1. /\ trees' \in [Sha -> Tree]
      /\ \A sha \in Sha : Validated(trees[sha], sha) => Validated(trees'[sha], sha)
  BY WholeStays DEF DeploymentInv
<1>2. ASSUME NEW p \in Installer, Install(p)
      PROVE  DeploymentInv'
  BY <1>1, <1>2, InstallStep
<1>3. CASE Operate
  BY <1>1, <1>3, OperateStep
<1>4. CASE Launch
  BY <1>4, LaunchStep
<1>5. CASE \/ StartCycle \/ LoadModules \/ ResolveRoot \/ VerifyDeployedSha \/ EndCycle \/ StopCycle
  BY <1>5, CycleStep
<1>6. CASE BootstrapHost \/ UNCHANGED dpVars
  <2>1. UNCHANGED <<installer, current, cycle, told, preflight, verdict>>
    BY <1>6 DEF BootstrapHost, dpVars, releaseVars, hostVars, launchVars
  <2>2. QED
    BY <1>1, <2>1, UntouchedStep DEF DeploymentInv
<1>7. QED
  BY <1>2, <1>3, <1>4, <1>5, <1>6 DEF DeploymentNext

\* A host begins with a whole release or with none.
LEMMA DeploymentBegins == DeploymentInit => DeploymentInv
<1> SUFFICES ASSUME DeploymentInit PROVE DeploymentInv
  OBVIOUS
<1>1. current \in Sha \cup {Nowhere} /\ told \in Sha \cup {Nowhere}
  BY DeploymentAssumption DEF DeploymentInit
<1>2. trees \in [Sha -> Tree] /\ (current # Nowhere => Filed(current))
  BY <1>1 DEF DeploymentInit, Tree, NoTree, Filed, Validated
<1>3. TreesTyped /\ InstallersSound
  BY <1>2 DEF DeploymentInit, TreesTyped, InstallersSound, Installs, NotInstalling
<1>4. LaunchSound
  BY DEF DeploymentInit, LaunchSound
<1>5. CycleSound
  BY DEF DeploymentInit, CycleSound, Rested, CycleRow, Answered
<1>6. QED
  BY <1>1, <1>2, <1>3, <1>4, <1>5 DEF DeploymentInv, CurrentSound

\* Whoever installs, builds by hand, repoints or dies, and whenever: the release that
\* `current` names, or that the launch gate let go, is whole, and a cycle that runs passes
\* on the commit of the release it lies in.
THEOREM DeploymentIsTold == DeploymentSpec => []DeployedAsTold
<1>1. DeploymentInv => DeployedAsTold
  <2> SUFFICES ASSUME DeploymentInv PROVE DeployedAsTold
    OBVIOUS
  <2>1. CurrentIsWhole
    BY DEF DeploymentInv, CurrentSound, LaunchSound, Filed, CurrentIsWhole
  <2>2. CyclesTellTheirRelease
    <3> SUFFICES ASSUME cycle.step \in {"running", "completed"}
                 PROVE  /\ Validated(trees[cycle.root], cycle.claim)
                        /\ ~cycle.moved => cycle.loaded = {cycle.root}
      BY DEF CyclesTellTheirRelease
    <3>1. QED
      BY DEF DeploymentInv, CycleSound, Answered, Filed
  <2>3. QED
    BY <2>1, <2>2 DEF DeployedAsTold
<1>2. QED
  BY <1>1, DeploymentBegins, DeploymentStep, PTL DEF DeploymentSpec

-----------------------------------------------------------------------------
(* What the deployment is made of.                                         *)

HostTyped ==
    /\ account \in BOOLEAN /\ timer \in BOOLEAN
    /\ current \in Sha \cup {Nowhere} /\ copying \in Sha \cup {Nowhere}
    /\ api \in Sha \cup {Nowhere}
    /\ operations \in 0..MaxOperations

LEMMA OperationsCounted == ASSUME operations \in 0..MaxOperations, Operates PROVE operations' \in 0..MaxOperations
<1>1. operations \in Nat /\ operations < MaxOperations /\ operations' = operations + 1
      /\ MaxOperations \in Nat
  BY DeploymentAssumption DEF Operates
<1> QED
  BY <1>1

LEMMA HostKept == ASSUME DeploymentInv, HostTyped, [DeploymentNext]_dpVars PROVE HostTyped'
<1>1. CASE UNCHANGED dpVars
  BY <1>1 DEF HostTyped, dpVars, releaseVars, hostVars
<1>2. CASE BootstrapHost
  BY <1>2 DEF HostTyped, BootstrapHost, hostVars
<1>3. ASSUME NEW p \in Installer, Install(p)
      PROVE  HostTyped'
  <2>1. ASSUME NEW sha, NEW head, NEW clean, BeginInstall(p, sha, head, clean)
        PROVE  HostTyped'
    BY <2>1, OperationsCounted DEF HostTyped, BeginInstall, hostVars
  <2>2. ASSUME NEW part, BuildPart(p, part)
        PROVE  HostTyped'
    BY <2>2 DEF HostTyped, BuildPart, hostVars
  <2>3. CASE RenameIntoPlace(p)
    BY <2>3 DEF HostTyped, RenameIntoPlace, hostVars
  <2>4. CASE FailInstall(p)
    BY <2>4 DEF HostTyped, FailInstall, hostVars
  <2>5. CASE Activate(p)
    <3>1. installer[p].sha \in Sha
      BY <2>5 DEF DeploymentInv, InstallersSound, Activate, Filed
    <3> QED
      BY <2>5, <3>1 DEF HostTyped, Activate, Points, hostVars
  <2>6. CASE KillInstall(p)
    BY <2>6 DEF HostTyped, KillInstall, hostVars
  <2> QED
    BY <1>3, <2>1, <2>2, <2>3, <2>4, <2>5, <2>6 DEF Install
<1>4. CASE Operate
  <2>1. ASSUME NEW sha, NEW part, NEW head, BuildByHand(sha, part, head)
        PROVE  HostTyped'
    BY <2>1, OperationsCounted DEF HostTyped, BuildByHand, hostVars
  <2>2. ASSUME NEW sha \in Sha, Repoint(sha)
        PROVE  HostTyped'
    BY <2>2, OperationsCounted DEF HostTyped, Repoint, Points, releaseVars
  <2>3. ASSUME NEW sha \in Sha, Tell(sha)
        PROVE  HostTyped'
    BY <2>3, OperationsCounted DEF HostTyped, Tell, releaseVars
  <2>4. CASE BeginUnits
    BY <2>4, OperationsCounted DEF HostTyped, BeginUnits, releaseVars
  <2>5. CASE AbortUnits
    BY <2>5 DEF HostTyped, AbortUnits, releaseVars
  <2>6. CASE RestartApi
    BY <2>6, OperationsCounted DEF HostTyped, RestartApi, releaseVars
  <2>7. ASSUME NEW unit, CopyUnit(unit)
        PROVE  HostTyped'
    BY <2>7 DEF HostTyped, CopyUnit, releaseVars
  <2>8. ASSUME NEW on \in BOOLEAN, FinishUnits(on)
        PROVE  HostTyped'
    BY <2>8 DEF HostTyped, FinishUnits, releaseVars
  <2>9. ASSUME NEW on \in BOOLEAN, SwitchTimer(on)
        PROVE  HostTyped'
    BY <2>9, OperationsCounted DEF HostTyped, SwitchTimer, releaseVars
  <2> QED
    BY <1>4, <2>1, <2>2, <2>3, <2>4, <2>5, <2>6, <2>7, <2>8, <2>9 DEF Operate
<1>5. CASE Launch
  <2>1. ASSUME NEW sha, NEW choice, BeginPreflight(sha, choice)
        PROVE  HostTyped'
    BY <2>1, OperationsCounted DEF HostTyped, BeginPreflight, releaseVars, hostVars
  <2>2. ASSUME NEW rest, FinishPreflight(rest)
        PROVE  HostTyped'
    BY <2>2 DEF HostTyped, FinishPreflight, releaseVars, hostVars
  <2>3. ASSUME NEW sha, NEW reviewed, NEW ci, NEW attested, DecideLaunch(sha, reviewed, ci, attested)
        PROVE  HostTyped'
    BY <2>3, OperationsCounted DEF HostTyped, DecideLaunch, releaseVars, hostVars
  <2> QED
    BY <1>5, <2>1, <2>2, <2>3 DEF Launch
<1>6. CASE StartCycle
  BY <1>6, OperationsCounted DEF HostTyped, StartCycle, releaseVars, hostVars
<1>7. CASE LoadModules \/ ResolveRoot \/ VerifyDeployedSha \/ EndCycle \/ StopCycle
  BY <1>7 DEF HostTyped, LoadModules, ResolveRoot, VerifyDeployedSha, EndCycle, StopCycle,
     releaseVars, hostVars
<1> QED
  BY <1>1, <1>2, <1>3, <1>4, <1>5, <1>6, <1>7 DEF DeploymentNext

\* Of deployment: trees, the link, what the environment file tells and what units and the
\* API run from are reviewed releases or none.
THEOREM DeploymentTyped == DeploymentSpec => []DeploymentTypeOK
<1>1. DeploymentInit => HostTyped
  <2> SUFFICES ASSUME DeploymentInit PROVE HostTyped
    OBVIOUS
  <2>1. account \in BOOLEAN
    BY Zenon DEF DeploymentInit
  <2>2. /\ timer \in BOOLEAN
        /\ current \in Sha \cup {Nowhere} /\ copying = Nowhere /\ api = current
    BY DeploymentAssumption DEF DeploymentInit
  <2>3. operations \in 0..MaxOperations
    BY DeploymentAssumption DEF DeploymentInit
  <2> QED
    BY <2>1, <2>2, <2>3 DEF HostTyped
<1>2. DeploymentInv /\ HostTyped => DeploymentTypeOK
  BY DEF DeploymentInv, HostTyped, TreesTyped, Tree, DeploymentTypeOK
<1> QED
  BY <1>1, <1>2, HostKept, DeploymentBegins, DeploymentStep, PTL DEF DeploymentSpec

-----------------------------------------------------------------------------
(* Ingestion: runs, what they tell, and what readers see.                  *)
USE IngestionAssumption

Verdicts == {"accepted", "quarantined", "duplicate_economic"}

WithStatus(S, status) == {s \in S : s.status = status}

\* A run has a row and a process, whatever rows the process holds.
HasRow(w) ==
    w = [step |-> w.step, batch |-> w.batch, at |-> w.at, duplicated |-> w.duplicated,
         rows |-> w.rows, claims |-> w.claims, held |-> w.held]

RunsTyped ==
    /\ run \in [Run -> RunRow]
    /\ work = [r \in Run |-> work[r]]
    /\ \A r \in Run : HasRow(work[r])

\* What has become of the records that an open transaction has done with.
Tallied(w) ==
    /\ IsFiniteSet(w.rows.source)
    /\ w.at \in Nat \ {0} /\ w.duplicated \in Nat
    /\ w.at - 1 = Cardinality(WithStatus(w.rows.source, "accepted"))
                  + Cardinality(WithStatus(w.rows.source, "quarantined")) + w.duplicated
    /\ Cardinality(WithStatus(w.rows.source, "duplicate_economic")) <= w.duplicated

\* It has done with them in the order of the batch, and each has arrived.
Progress(r) ==
    /\ work[r].batch \in Batch[r]
    /\ work[r].at <= Len(work[r].batch) + 1
    /\ \A i \in 1..(work[r].at - 1) : Arrived(Sees(r), work[r].batch[i])

\* The rows of a transaction that waits are those of its next record.
Held(r) ==
    /\ work[r].at <= Len(work[r].batch)
    /\ \E status \in Verdicts :
          /\ work[r].held.rows.source = {SourceRow(r, work[r].batch[work[r].at], status)}
          /\ SourceRow(r, work[r].batch[work[r].at], status) \notin work[r].rows.source

OpenSound(r) == Open(r) =>
    /\ run[r].status = "running"
    /\ Tallied(work[r])
    /\ \A s \in work[r].rows.source : s.run = r
    /\ Progress(r)
    /\ work[r].step = "waiting" => Held(r)

\* A process that is about to record a failure has a row that says it runs, and knows
\* its batch.
FailingRuns(r) == work[r].step = "failing" =>
    run[r].status = "running" /\ work[r].batch \in Batch[r] /\ work[r].duplicated \in Nat

RunsSound == \A r \in Run : OpenSound(r) /\ FailingRuns(r)

TellInv == RunsTyped /\ RunsSound /\ RunTellsRows

-----------------------------------------------------------------------------
(* What becomes of a record.                                               *)

LEMMA VerdictKnown == ASSUME NEW v, NEW e, e.kind \in Kind PROVE Verdict(v, e) \in Verdicts
<1>1. \A said, later \in BOOLEAN : Revised(said, later) \in Verdicts
  BY DEF Revised, Verdicts
<1>2. /\ UniverseVerdict(v, e) \in Verdicts /\ MarketVerdict(v, e) \in Verdicts
      /\ BenchmarkVerdict(v, e) \in Verdicts /\ DeliveryVerdict(v, e) \in Verdicts
      /\ FinancialVerdict(v, e) \in Verdicts /\ ActionVerdict(v, e) \in Verdicts
      /\ AnnouncementVerdict(v, e) \in Verdicts /\ AttentionVerdict(v, e) \in Verdicts
  BY DEF UniverseVerdict, MarketVerdict, BenchmarkVerdict, DeliveryVerdict, FinancialVerdict,
     ActionVerdict, AnnouncementVerdict, AttentionVerdict, Revised, Verdicts
<1> QED
  BY <1>2 DEF Verdict, Kind

LEMMA NormalisedSource ==
    ASSUME NEW r, NEW e
    PROVE  Normalised(r, e).source = {SourceRow(r, e, Verdict(Sees(r), e))}
  BY DEF Normalised, Consequences, Listing, SymbolChange, Replacement, NoRows

LEMMA OverSource == ASSUME NEW a, NEW b PROVE Over(a, b).source = b.source \cup a.source
  BY DEF Over

LEMMA ArrivedGrows ==
    ASSUME NEW v, NEW w, NEW e, v.source \subseteq w.source, Arrived(v, e)
    PROVE  Arrived(w, e)
  BY DEF Arrived

\* One more row of a status is one more to count.
LEMMA OneMore ==
    ASSUME NEW S, IsFiniteSet(S), NEW x, x \notin S, NEW status
    PROVE  Cardinality(WithStatus(S \cup {x}, status)) =
              Cardinality(WithStatus(S, status)) + (IF x.status = status THEN 1 ELSE 0)
<1>1. IsFiniteSet(WithStatus(S, status)) /\ Cardinality(WithStatus(S, status)) \in Nat
  BY FS_Subset, FS_CardinalityType DEF WithStatus
<1>2. CASE x.status = status
  <2>1. WithStatus(S \cup {x}, status) = WithStatus(S, status) \cup {x} /\ x \notin WithStatus(S, status)
    BY <1>2 DEF WithStatus
  <2> QED
    BY <1>1, <1>2, <2>1, FS_AddElement
<1>3. CASE x.status # status
  <2>1. WithStatus(S \cup {x}, status) = WithStatus(S, status)
    BY <1>3 DEF WithStatus
  <2> QED
    BY <1>1, <1>3, <2>1
<1> QED
  BY <1>2, <1>3

\* The books of an open transaction after one more record, which is counted as a
\* duplicate (o = 1), accepted (a = 1) or quarantined (q = 1), and which may leave a row
\* of a duplicate (s = 1).
LEMMA OneMoreRecord ==
    ASSUME NEW w, NEW v, Tallied(w),
           NEW o \in {0, 1}, NEW a \in {0, 1}, NEW q \in {0, 1}, NEW s \in {0, 1},
           o + a + q = 1, s <= o,
           v.at = w.at + 1, v.duplicated = w.duplicated + o, IsFiniteSet(v.rows.source),
           Cardinality(WithStatus(v.rows.source, "accepted")) =
              Cardinality(WithStatus(w.rows.source, "accepted")) + a,
           Cardinality(WithStatus(v.rows.source, "quarantined")) =
              Cardinality(WithStatus(w.rows.source, "quarantined")) + q,
           Cardinality(WithStatus(v.rows.source, "duplicate_economic")) =
              Cardinality(WithStatus(w.rows.source, "duplicate_economic")) + s
    PROVE  Tallied(v)
<1>1. \A t : Cardinality(WithStatus(w.rows.source, t)) \in Nat
  BY FS_Subset, FS_CardinalityType DEF Tallied, WithStatus
<1>2. PICK n \in Nat \ {0} : n = w.at
  BY DEF Tallied
<1>3. PICK d \in Nat : d = w.duplicated
  BY DEF Tallied
<1>4. PICK x \in Nat : x = Cardinality(WithStatus(w.rows.source, "accepted"))
  BY <1>1
<1>5. PICK y \in Nat : y = Cardinality(WithStatus(w.rows.source, "quarantined"))
  BY <1>1
<1>6. PICK z \in Nat : z = Cardinality(WithStatus(w.rows.source, "duplicate_economic"))
  BY <1>1
<1>7. n - 1 = x + y + d /\ z <= d
  BY <1>2, <1>3, <1>4, <1>5, <1>6 DEF Tallied
<1>8. /\ n + 1 \in Nat \ {0} /\ d + o \in Nat
      /\ (n + 1) - 1 = (x + a) + (y + q) + (d + o)
      /\ z + s <= d + o
  BY <1>7
<1> QED
  BY <1>2, <1>3, <1>4, <1>5, <1>6, <1>8 DEF Tallied

-----------------------------------------------------------------------------
LEMMA TellStarts == IngestionInit => TellInv
<1> SUFFICES ASSUME IngestionInit
             PROVE  TellInv
  OBVIOUS
<1> USE DEF IngestionInit, Resting
<1>1. RunsTyped
  BY DEF RunsTyped, RunRow, HasRow
<1>2. RunsSound
  BY DEF RunsSound, OpenSound, FailingRuns, Open
<1>3. RunTellsRows
  BY DEF RunTellsRows, NoRows
<1> QED
  BY <1>1, <1>2, <1>3 DEF TellInv

\* A step of one run that commits no rows disturbs no other run.
LEMMA QuietStep ==
    ASSUME TellInv, NEW r \in Run,
           work' = [work EXCEPT ![r] = work'[r]], HasRow(work'[r]),
           run' = [run EXCEPT ![r] = run'[r]], run'[r] \in RunRow,
           table' = table,
           run[r].status # "completed", run'[r].status # "completed",
           OpenSound(r)', FailingRuns(r)'
    PROVE  TellInv'
<1>1. \A q \in Run \ {r} : work'[q] = work[q] /\ run'[q] = run[q]
  BY DEF TellInv, RunsTyped
<1>2. RunsTyped'
  <2>1. run' \in [Run -> RunRow] /\ work' = [q \in Run |-> work'[q]]
    BY DEF TellInv, RunsTyped
  <2>2. \A q \in Run : HasRow(work'[q])
    BY <1>1 DEF TellInv, RunsTyped
  <2> QED
    BY <2>1, <2>2 DEF RunsTyped, HasRow
<1>3. ASSUME NEW q \in Run \ {r}
      PROVE  OpenSound(q)' /\ FailingRuns(q)'
  <2>1. OpenSound(q) /\ FailingRuns(q)
    BY DEF TellInv, RunsSound
  <2> QED
    BY <1>1, <2>1 DEF OpenSound, FailingRuns, Open, Tallied, Progress, Held, Sees
<1>4. RunsSound'
  BY <1>3 DEF RunsSound
<1>5. RunTellsRows'
  <2>1. ASSUME NEW q \in Run \ {r}
        PROVE  /\ work'[q].batch = work[q].batch /\ run'[q] = run[q]
               /\ \A status : RowsOf(q, status)' = RowsOf(q, status)
    BY <1>1 DEF RowsOf
  <2> QED
    BY <2>1 DEF TellInv, RunTellsRows
<1> QED
  BY <1>2, <1>4, <1>5 DEF TellInv

LEMMA KeptStart ==
    ASSUME TellInv, NEW r \in Run, NEW b \in Batch[r], Start(r, b)
    PROVE  TellInv'
<1>1. /\ work' = [work EXCEPT ![r] = work'[r]]
      /\ work'[r] = [step |-> "normalising", batch |-> b, at |-> 1, duplicated |-> 0,
                     rows |-> NoRows, claims |-> {}, held |-> NothingHeld]
  BY DEF Start, Resting, TellInv, RunsTyped
<1>2. /\ run' = [run EXCEPT ![r] = run'[r]] /\ run'[r].status = "running"
      /\ run'[r] \in RunRow
  BY DEF Start, TellInv, RunsTyped, RunRow
<1>3. OpenSound(r)'
  <2>1. Tallied(work'[r])
    <3>1. work'[r].rows.source = {}
      BY <1>1 DEF NoRows
    <3>2. \A status : WithStatus({}, status) = {}
      BY DEF WithStatus
    <3>3. work'[r].at = 1 /\ work'[r].duplicated = 0
      BY <1>1
    <3>4. \A status : Cardinality(WithStatus(work'[r].rows.source, status)) = 0
      BY <3>1, <3>2, FS_EmptySet
    <3>5. IsFiniteSet(work'[r].rows.source)
      BY <3>1, FS_EmptySet
    <3> QED
      BY <3>3, <3>4, <3>5 DEF Tallied
  <2>2. Progress(r)'
    <3>1. work'[r].batch = b /\ work'[r].at = 1 /\ Len(b) \in Nat
      BY <1>1
    <3> QED
      BY <3>1 DEF Progress
  <2>3. work'[r].step # "waiting" /\ \A s \in work'[r].rows.source : s.run = r
    BY <1>1 DEF NoRows
  <2> QED
    BY <1>2, <2>1, <2>2, <2>3 DEF OpenSound
<1>4. HasRow(work'[r]) /\ FailingRuns(r)'
  BY <1>1 DEF HasRow, FailingRuns
<1>5. run[r].status # "completed" /\ table' = table
  BY DEF Start
<1> QED
  BY <1>1, <1>2, <1>3, <1>4, <1>5, QuietStep

\* An open run is running, and has left no row in the database.
LEMMA OpenFacts ==
    ASSUME TellInv, NEW r \in Run, Open(r)
    PROVE  /\ run[r] \in RunRow /\ run[r].status = "running"
           /\ Tallied(work[r]) /\ Progress(r)
           /\ \A s \in work[r].rows.source : s.run = r
           /\ \A s \in table.source : s.run # r
           /\ Len(work[r].batch) \in Nat
           /\ run = [run EXCEPT ![r] = run[r]]
           /\ HasRow(work[r])
<1>1. /\ run[r] \in RunRow /\ run = [run EXCEPT ![r] = run[r]] /\ HasRow(work[r])
  BY DEF TellInv, RunsTyped
<1>2. OpenSound(r)
  BY DEF TellInv, RunsSound
<1>3. /\ run[r].status = "running" /\ Tallied(work[r]) /\ Progress(r)
      /\ \A s \in work[r].rows.source : s.run = r
  BY <1>2 DEF OpenSound
<1>4. \A s \in table.source : s.run # r
  BY <1>3 DEF TellInv, RunTellsRows
<1>5. Len(work[r].batch) \in Nat
  BY <1>3 DEF Progress
<1> QED
  BY <1>1, <1>3, <1>4, <1>5

LEMMA KeptSkip ==
    ASSUME TellInv, NEW r \in Run, Skip(r)
    PROVE  TellInv'
<1>1. /\ Open(r) /\ work[r].step = "normalising" /\ work[r].at <= Len(work[r].batch)
      /\ Arrived(Sees(r), work[r].batch[work[r].at])
      /\ table' = table /\ run' = run
  BY DEF Skip, AtRecord, Open, Record
<1>2. /\ work' = [work EXCEPT ![r] = work'[r]]
      /\ work'[r] = [work[r] EXCEPT !.at = @ + 1, !.duplicated = @ + 1]
  BY DEF Skip, TellInv, RunsTyped
<1>3. work'[r] = [step |-> "normalising", batch |-> work[r].batch, at |-> work[r].at + 1,
                  duplicated |-> work[r].duplicated + 1, rows |-> work[r].rows,
                  claims |-> work[r].claims, held |-> work[r].held]
  <2>1. HasRow(work[r])
    BY <1>1, OpenFacts
  <2> QED
    BY <1>1, <1>2, <2>1 DEF HasRow
<1>4. Tallied(work'[r])
  <2>1. Tallied(work[r])
    BY <1>1, OpenFacts
  <2>2. \A status : Cardinality(WithStatus(work[r].rows.source, status)) \in Nat
    BY <2>1, FS_Subset, FS_CardinalityType DEF Tallied, WithStatus
  <2>3. /\ work'[r].at = work[r].at + 1 /\ work'[r].duplicated = work[r].duplicated + 1
        /\ work'[r].rows = work[r].rows
    BY <1>3
  <2>4. /\ Cardinality(WithStatus(work[r].rows.source, "accepted")) + 0 =
              Cardinality(WithStatus(work[r].rows.source, "accepted"))
        /\ Cardinality(WithStatus(work[r].rows.source, "quarantined")) + 0 =
              Cardinality(WithStatus(work[r].rows.source, "quarantined"))
        /\ Cardinality(WithStatus(work[r].rows.source, "duplicate_economic")) + 0 =
              Cardinality(WithStatus(work[r].rows.source, "duplicate_economic"))
    BY <2>2
  <2>5. IsFiniteSet(work'[r].rows.source)
    BY <2>1, <2>3 DEF Tallied
  <2> QED
    BY <2>1, <2>3, <2>4, <2>5, OneMoreRecord
<1>5. Progress(r)'
  <2>1. Progress(r) /\ Len(work[r].batch) \in Nat /\ work[r].at \in Nat \ {0}
    BY <1>1, OpenFacts DEF Tallied
  <2>2. Sees(r)' = Sees(r)
    BY <1>1, <1>3 DEF Sees
  <2>3. ASSUME NEW i \in 1..work[r].at
        PROVE  Arrived(Sees(r), work[r].batch[i])
    <3>1. CASE i = work[r].at
      BY <1>1, <3>1
    <3>2. CASE i # work[r].at
      BY <2>1, <3>2 DEF Progress
    <3> QED
      BY <3>1, <3>2
  <2>4. /\ work'[r].batch = work[r].batch /\ work'[r].at = work[r].at + 1
        /\ work[r].batch \in Batch[r]
    BY <1>3, <2>1 DEF Progress
  <2> QED
    BY <1>1, <2>1, <2>2, <2>3, <2>4 DEF Progress
<1>6. OpenSound(r)' /\ FailingRuns(r)' /\ HasRow(work'[r])
  <2>1. /\ work'[r].step = "normalising" /\ work'[r].rows = work[r].rows
        /\ HasRow(work'[r])
    BY <1>3 DEF HasRow
  <2> QED
    BY <1>1, <1>4, <1>5, <2>1, OpenFacts DEF OpenSound, FailingRuns
<1> QED
  BY <1>1, <1>2, <1>6, QuietStep, OpenFacts

\* A row of a new record is one more record that the transaction has done with.
LEMMA WroteTold ==
    ASSUME TellInv, NEW r \in Run, Open(r), table' = table, run' = run,
           work[r].at <= Len(work[r].batch),
           NEW rows, NEW keys, NEW status \in Verdicts,
           rows.source = {SourceRow(r, work[r].batch[work[r].at], status)},
           SourceRow(r, work[r].batch[work[r].at], status) \notin work[r].rows.source,
           Wrote(r, rows, keys)
    PROVE  TellInv'
<1> DEFINE x == SourceRow(r, work[r].batch[work[r].at], status)
           again == {s \in rows.source : s.status = "duplicate_economic"}
<1>1. x.status = status /\ x.run = r
  BY DEF SourceRow
<1>2. Cardinality(again) = IF status = "duplicate_economic" THEN 1 ELSE 0
  <2>1. CASE status = "duplicate_economic"
    <3>1. again = {x}
      BY <1>1, <2>1
    <3> QED
      BY <2>1, <3>1, FS_Singleton
  <2>2. CASE status # "duplicate_economic"
    <3>1. again = {}
      BY <1>1, <2>2
    <3> QED
      BY <2>2, <3>1, FS_EmptySet
  <2> QED
    BY <2>1, <2>2
<1>3. /\ work' = [work EXCEPT ![r] = work'[r]]
      /\ work'[r] = [work[r] EXCEPT
                        !.step = "normalising", !.at = @ + 1, !.rows = Over(rows, @),
                        !.held = NothingHeld, !.claims = @ \cup keys,
                        !.duplicated = @ + Cardinality(again)]
  <2> HIDE DEF x
  <2>1. work' = [work EXCEPT
                    ![r].step = "normalising", ![r].at = @ + 1, ![r].rows = Over(rows, @),
                    ![r].held = NothingHeld, ![r].claims = @ \cup keys,
                    ![r].duplicated = @ + Cardinality(again)]
    BY DEF Wrote
  <2>2. work = [q \in Run |-> work[q]]
    BY DEF TellInv, RunsTyped
  <2> HIDE DEF again
  <2> QED
    BY <2>1, <2>2
<1> HIDE DEF x, again
<1>4. work'[r] = [step |-> "normalising", batch |-> work[r].batch, at |-> work[r].at + 1,
                  duplicated |-> work[r].duplicated + Cardinality(again),
                  rows |-> Over(rows, work[r].rows), claims |-> work[r].claims \cup keys,
                  held |-> NothingHeld]
  <2>1. HasRow(work[r])
    BY OpenFacts
  <2> QED
    BY <1>3, <2>1 DEF HasRow
<1>5. /\ work'[r].step = "normalising" /\ work'[r].batch = work[r].batch
      /\ work'[r].at = work[r].at + 1 /\ HasRow(work'[r])
      /\ work'[r].duplicated = work[r].duplicated + Cardinality(again)
      /\ work'[r].rows = Over(rows, work[r].rows)
  BY <1>4 DEF HasRow
<1>6. work'[r].rows.source = work[r].rows.source \cup {x}
  BY <1>5, OverSource DEF x
<1>7. Tallied(work'[r])
  <2>1. Tallied(work[r]) /\ x \notin work[r].rows.source
    BY OpenFacts DEF x
  <2>2. IsFiniteSet(work[r].rows.source) /\ IsFiniteSet(work'[r].rows.source)
    BY <1>6, <2>1, FS_AddElement DEF Tallied
  <2>3. \A t : Cardinality(WithStatus(work[r].rows.source, t)) \in Nat
    BY <2>2, FS_Subset, FS_CardinalityType DEF WithStatus
  <2>4. \A t : Cardinality(WithStatus(work'[r].rows.source, t)) =
                Cardinality(WithStatus(work[r].rows.source, t)) + (IF status = t THEN 1 ELSE 0)
    BY <1>1, <1>6, <2>1, <2>2, OneMore
  <2> DEFINE counted(t) == IF status = t THEN 1 ELSE 0
  <2>5. /\ Cardinality(WithStatus(work'[r].rows.source, "accepted")) =
              Cardinality(WithStatus(work[r].rows.source, "accepted")) + counted("accepted")
        /\ Cardinality(WithStatus(work'[r].rows.source, "quarantined")) =
              Cardinality(WithStatus(work[r].rows.source, "quarantined")) + counted("quarantined")
        /\ Cardinality(WithStatus(work'[r].rows.source, "duplicate_economic")) =
              Cardinality(WithStatus(work[r].rows.source, "duplicate_economic"))
              + counted("duplicate_economic")
    BY <2>4
  <2>6. /\ counted("accepted") \in {0, 1} /\ counted("quarantined") \in {0, 1}
        /\ counted("duplicate_economic") \in {0, 1}
        /\ counted("duplicate_economic") + counted("accepted") + counted("quarantined") = 1
    BY DEF Verdicts
  <2>7. work'[r].duplicated = work[r].duplicated + counted("duplicate_economic")
    BY <1>2, <1>5
  <2>8. counted("duplicate_economic") <= counted("duplicate_economic")
    BY <2>6
  <2> HIDE DEF counted
  <2> QED
    BY <1>5, <2>1, <2>2, <2>5, <2>6, <2>7, <2>8, OneMoreRecord
<1>8. Progress(r)'
  <2>1. Progress(r) /\ Len(work[r].batch) \in Nat /\ work[r].at \in Nat \ {0}
    BY OpenFacts DEF Tallied
  <2>2. Sees(r).source \subseteq Sees(r)'.source /\ x \in Sees(r)'.source
    BY <1>5, <1>6, OverSource DEF Sees
  <2>3. Arrived(Sees(r)', work[r].batch[work[r].at])
    BY <2>2 DEF Arrived, SourceRow, x
  <2>4. \A i \in 1..(work[r].at - 1) : Arrived(Sees(r)', work[r].batch[i])
    BY <2>1, <2>2, ArrivedGrows DEF Progress
  <2>5. \A i \in 1..work[r].at : Arrived(Sees(r)', work[r].batch[i])
    BY <2>1, <2>3, <2>4
  <2>6. work[r].batch \in Batch[r]
    BY <2>1 DEF Progress
  <2> QED
    BY <1>5, <2>1, <2>5, <2>6 DEF Progress
<1>9. OpenSound(r)' /\ FailingRuns(r)'
  <2>1. \A s \in work'[r].rows.source : s.run = r
    BY <1>1, <1>6, OpenFacts
  <2> QED
    BY <1>5, <1>7, <1>8, <2>1, OpenFacts DEF OpenSound, FailingRuns
<1> QED
  BY <1>3, <1>5, <1>9, QuietStep, OpenFacts

\* What has not arrived is no row of the transaction.
LEMMA NotYetArrived ==
    ASSUME TellInv, NEW r \in Run, AtRecord(r), ~Arrived(Sees(r), Record(r))
    PROVE  /\ Open(r) /\ work[r].at <= Len(work[r].batch)
           /\ \E status \in Verdicts :
                 /\ Normalised(r, Record(r)).source =
                       {SourceRow(r, work[r].batch[work[r].at], status)}
                 /\ SourceRow(r, work[r].batch[work[r].at], status) \notin work[r].rows.source
<1>1. Open(r) /\ work[r].at <= Len(work[r].batch)
  BY DEF AtRecord, Open
<1>2. Record(r).kind \in Kind
  <2>1. /\ work[r].batch \in Batch[r] /\ Len(work[r].batch) \in Nat
        /\ work[r].at \in Nat \ {0}
    BY <1>1, OpenFacts DEF Progress, Tallied
  <2>2. work[r].at \in 1..Len(work[r].batch)
    BY <1>1, <2>1
  <2> QED
    BY <2>1, <2>2 DEF Record, IsEnvelope
<1>3. Verdict(Sees(r), Record(r)) \in Verdicts
  BY <1>2, VerdictKnown
<1>4. ASSUME NEW status, SourceRow(r, Record(r), status) \in work[r].rows.source
      PROVE  FALSE
  <2>1. SourceRow(r, Record(r), status) \in Sees(r).source
    BY <1>4, OverSource DEF Sees
  <2> QED
    BY <2>1 DEF Arrived, SourceRow
<1> QED
  BY <1>1, <1>3, <1>4, NormalisedSource DEF Record

LEMMA KeptWrite ==
    ASSUME TellInv, NEW r \in Run, Write(r)
    PROVE  TellInv'
<1> DEFINE rows == Normalised(r, Record(r))
           keys == Claims(r, rows)
<1>1. /\ AtRecord(r) /\ ~Arrived(Sees(r), Record(r))
      /\ table' = table /\ run' = run
      /\ IF MustWait(r, keys)
         THEN work' = [work EXCEPT ![r].step = "waiting",
                                   ![r].held = [rows |-> rows, keys |-> keys]]
         ELSE Wrote(r, rows, keys)
  BY DEF Write
<1>2. Open(r) /\ work[r].at <= Len(work[r].batch)
  BY <1>1, NotYetArrived
<1>3. PICK status \in Verdicts :
          /\ rows.source = {SourceRow(r, work[r].batch[work[r].at], status)}
          /\ SourceRow(r, work[r].batch[work[r].at], status) \notin work[r].rows.source
  BY <1>1, NotYetArrived
<1> HIDE DEF rows, keys
<1>4. CASE ~MustWait(r, keys)
  BY <1>1, <1>2, <1>3, <1>4, WroteTold
<1>5. CASE MustWait(r, keys)
  <2>1. /\ work' = [work EXCEPT ![r] = work'[r]]
        /\ work'[r] = [work[r] EXCEPT !.step = "waiting", !.held = [rows |-> rows, keys |-> keys]]
    BY <1>1, <1>5 DEF TellInv, RunsTyped
  <2>2. work'[r] = [step |-> "waiting", batch |-> work[r].batch, at |-> work[r].at,
                    duplicated |-> work[r].duplicated, rows |-> work[r].rows,
                    claims |-> work[r].claims, held |-> [rows |-> rows, keys |-> keys]]
    <3>1. HasRow(work[r])
      BY <1>2, OpenFacts
    <3> QED
      BY <2>1, <3>1 DEF HasRow
  <2>3. /\ work'[r].step = "waiting" /\ work'[r].batch = work[r].batch
        /\ work'[r].at = work[r].at /\ work'[r].duplicated = work[r].duplicated
        /\ work'[r].rows = work[r].rows /\ work'[r].held.rows = rows /\ HasRow(work'[r])
    BY <2>2 DEF HasRow
  <2>4. Tallied(work'[r])
    BY <1>2, <2>3, OpenFacts DEF Tallied
  <2>5. Progress(r)'
    BY <1>1, <1>2, <2>3, OpenFacts DEF Progress, Sees
  <2>6. Held(r)'
    BY <1>2, <1>3, <2>3 DEF Held, SourceRow
  <2>7. OpenSound(r)' /\ FailingRuns(r)'
    BY <1>1, <1>2, <2>3, <2>4, <2>5, <2>6, OpenFacts DEF OpenSound, FailingRuns
  <2> QED
    BY <1>1, <1>2, <2>1, <2>3, <2>7, QuietStep, OpenFacts
<1> QED
  BY <1>4, <1>5

LEMMA KeptProceed ==
    ASSUME TellInv, NEW r \in Run, Proceed(r)
    PROVE  TellInv'
<1>1. /\ Open(r) /\ work[r].step = "waiting" /\ table' = table /\ run' = run
      /\ Wrote(r, work[r].held.rows, work[r].held.keys)
  BY DEF Proceed, Open
<1>2. Held(r)
  BY <1>1 DEF TellInv, RunsSound, OpenSound
<1> QED
  BY <1>1, <1>2, WroteTold DEF Held

LEMMA KeptFail ==
    ASSUME TellInv, NEW r \in Run, Fail(r)
    PROVE  TellInv'
<1>1. Open(r) /\ table' = table /\ run' = run
  BY DEF Fail
<1>2. /\ work' = [work EXCEPT ![r] = work'[r]]
      /\ work'[r] = [work[r] EXCEPT !.step = "failing", !.rows = NoRows, !.held = NothingHeld,
                                    !.claims = {}]
  BY DEF Fail, TellInv, RunsTyped
<1>3. work'[r] = [step |-> "failing", batch |-> work[r].batch, at |-> work[r].at,
                  duplicated |-> work[r].duplicated, rows |-> NoRows, claims |-> {},
                  held |-> NothingHeld]
  <2>1. HasRow(work[r])
    BY <1>1, OpenFacts
  <2> QED
    BY <1>2, <2>1 DEF HasRow
<1>4. /\ work'[r].step = "failing" /\ work'[r].batch = work[r].batch
      /\ work'[r].duplicated = work[r].duplicated /\ HasRow(work'[r])
  BY <1>3 DEF HasRow
<1>5. OpenSound(r)' /\ FailingRuns(r)'
  BY <1>1, <1>4, OpenFacts DEF OpenSound, FailingRuns, Open, Tallied, Progress
<1> QED
  BY <1>1, <1>2, <1>4, <1>5, QuietStep, OpenFacts

\* The row of a run that has ended by itself is of no concern to its process.
LEMMA RunEnds ==
    ASSUME TellInv, NEW r \in Run,
           work' = [work EXCEPT ![r] = [Resting EXCEPT !.batch = work[r].batch, !.step = "ended"]]
    PROVE  /\ work' = [work EXCEPT ![r] = work'[r]] /\ HasRow(work'[r])
           /\ work'[r].step = "ended" /\ work'[r].batch = work[r].batch
           /\ OpenSound(r)' /\ FailingRuns(r)'
<1>1. /\ work' = [work EXCEPT ![r] = work'[r]]
      /\ work'[r] = [step |-> "ended", batch |-> work[r].batch, at |-> 1, duplicated |-> 0,
                     rows |-> NoRows, claims |-> {}, held |-> NothingHeld]
  BY DEF TellInv, RunsTyped, Resting
<1>2. work'[r].step = "ended" /\ work'[r].batch = work[r].batch
  BY <1>1
<1>3. HasRow(work'[r])
  <2> DEFINE b == work[r].batch
  <2>1. work'[r] = [step |-> "ended", batch |-> b, at |-> 1, duplicated |-> 0,
                    rows |-> NoRows, claims |-> {}, held |-> NothingHeld]
    BY <1>1
  <2> HIDE DEF b
  <2> QED
    BY <2>1 DEF HasRow
<1> QED
  BY <1>1, <1>2, <1>3 DEF OpenSound, FailingRuns, Open

LEMMA KeptSettle ==
    ASSUME TellInv, NEW r \in Run, Settle(r)
    PROVE  TellInv'
<1>1. FailingRuns(r) /\ run[r].status = "running" /\ work[r].batch \in Batch[r]
      /\ work[r].duplicated \in Nat
  BY DEF Settle, TellInv, RunsSound, FailingRuns
<1>2. /\ run' = [run EXCEPT ![r] = run'[r]] /\ run'[r].status = "failed"
      /\ run'[r] \in RunRow /\ table' = table
  BY <1>1 DEF Settle, TellInv, RunsTyped, RunRow
<1> QED
  BY <1>1, <1>2, RunEnds, QuietStep DEF Settle

LEMMA KeptCrash ==
    ASSUME TellInv, NEW r \in Run, Crash(r)
    PROVE  TellInv'
<1>1. run[r].status = "running" /\ run[r] \in RunRow /\ run = [run EXCEPT ![r] = run[r]]
  BY OpenFacts DEF Crash, TellInv, RunsTyped, RunsSound, FailingRuns
<1> QED
  BY <1>1, RunEnds, QuietStep DEF Crash

LEMMA KeptComplete ==
    ASSUME TellInv, NEW r \in Run, Complete(r)
    PROVE  TellInv'
<1> DEFINE mine == work[r].rows.source
<1>1. Open(r) /\ work[r].at > Len(work[r].batch)
  BY DEF Complete, Open
<1>2. /\ Tallied(work[r]) /\ Progress(r) /\ Len(work[r].batch) \in Nat
      /\ \A s \in mine : s.run = r
      /\ \A s \in table.source : s.run # r
  BY <1>1, OpenFacts
<1>3. work[r].at = Len(work[r].batch) + 1
  BY <1>1, <1>2 DEF Tallied, Progress
<1>4. table'.source = table.source \cup mine
  BY OverSource DEF Complete
<1>5. \A t : Cardinality(WithStatus(mine, t)) \in Nat
  BY <1>2, FS_Subset, FS_CardinalityType DEF Tallied, WithStatus
<1>6. \A t : CountOf(r, t) = Cardinality(WithStatus(mine, t))
  BY DEF CountOf, WithStatus
<1>7. run' = [run EXCEPT ![r] = [status |-> "completed", received |-> Len(work[r].batch),
                                 accepted |-> CountOf(r, "accepted"),
                                 quarantined |-> CountOf(r, "quarantined"),
                                 duplicated |-> work[r].duplicated]]
  BY DEF Complete
<1>8. /\ run' \in [Run -> RunRow]
      /\ run'[r].status = "completed" /\ run'[r].received = Len(work[r].batch)
      /\ run'[r].accepted = Cardinality(WithStatus(mine, "accepted"))
      /\ run'[r].quarantined = Cardinality(WithStatus(mine, "quarantined"))
      /\ run'[r].duplicated = work[r].duplicated
      /\ \A q \in Run \ {r} : run'[q] = run[q]
  <2>1. [status |-> "completed", received |-> Len(work[r].batch),
         accepted |-> CountOf(r, "accepted"), quarantined |-> CountOf(r, "quarantined"),
         duplicated |-> work[r].duplicated] \in RunRow
    BY <1>2, <1>5, <1>6 DEF RunRow, Tallied
  <2> QED
    BY <1>6, <1>7, <2>1 DEF TellInv, RunsTyped
<1>9. /\ work' = [work EXCEPT ![r] = work'[r]] /\ HasRow(work'[r])
      /\ work'[r].step = "ended" /\ work'[r].batch = work[r].batch
      /\ OpenSound(r)' /\ FailingRuns(r)'
  BY RunEnds DEF Complete
<1>10. \A q \in Run \ {r} : work'[q] = work[q]
  BY <1>9 DEF TellInv, RunsTyped
<1>11. RunsTyped'
  <2>1. work' = [q \in Run |-> work'[q]]
    BY <1>9 DEF TellInv, RunsTyped
  <2>2. \A q \in Run : HasRow(work'[q])
    BY <1>9, <1>10 DEF TellInv, RunsTyped
  <2> QED
    BY <1>8, <2>1, <2>2 DEF RunsTyped, HasRow
<1> HIDE DEF mine
<1>12. RunsSound'
  <2>1. ASSUME NEW q \in Run \ {r}
        PROVE  OpenSound(q)' /\ FailingRuns(q)'
    <3>1. OpenSound(q) /\ FailingRuns(q) /\ work'[q] = work[q] /\ run'[q] = run[q]
      BY <1>8, <1>10 DEF TellInv, RunsSound
    <3>2. Sees(q).source \subseteq Sees(q)'.source
      BY <1>4, <3>1, OverSource DEF Sees
    <3>3. ASSUME NEW e, Arrived(Sees(q), e)
          PROVE  Arrived(Sees(q)', e)
      BY <3>2, <3>3, ArrivedGrows
    <3>4. Progress(q) => Progress(q)'
      BY <3>1, <3>3 DEF Progress
    <3>5. Held(q) => Held(q)'
      BY <3>1 DEF Held, SourceRow
    <3>6. Tallied(work[q]) => Tallied(work'[q])
      BY <3>1
    <3> QED
      BY <3>1, <3>4, <3>5, <3>6 DEF OpenSound, FailingRuns, Open
  <2> QED
    BY <1>9, <2>1 DEF RunsSound
<1>13. RunTellsRows'
  <2>1. ASSUME NEW e, Arrived(table, e)
        PROVE  Arrived(table', e)
    BY <1>4, <2>1, ArrivedGrows
  <2>2. ASSUME NEW q \in Run \ {r}
        PROVE  /\ \A t : RowsOf(q, t)' = RowsOf(q, t)
               /\ (\A s \in table.source : s.run # q) => \A s \in table'.source : s.run # q
    <3>1. \A t : {s \in table'.source : s.run = q /\ s.status = t} =
                 {s \in table.source : s.run = q /\ s.status = t}
      BY <1>2, <1>4 DEF mine
    <3> QED
      BY <1>2, <1>4, <3>1 DEF RowsOf, mine
  <2>3. \A t : RowsOf(r, t)' = Cardinality(WithStatus(mine, t))
    <3>1. \A t : {s \in table'.source : s.run = r /\ s.status = t} = WithStatus(mine, t)
      BY <1>2, <1>4 DEF mine, WithStatus
    <3> QED
      BY <3>1 DEF RowsOf
  <2>4. \A i \in 1..Len(work[r].batch) : Arrived(table', work[r].batch[i])
    <3>1. Sees(r).source = table'.source
      BY <1>4, OverSource DEF Sees, mine
    <3>2. \A i \in 1..Len(work[r].batch) : Arrived(Sees(r), work[r].batch[i])
      BY <1>2, <1>3 DEF Progress
    <3> QED
      BY <3>1, <3>2, ArrivedGrows
  <2>5. /\ Len(work[r].batch) = Cardinality(WithStatus(mine, "accepted"))
                + Cardinality(WithStatus(mine, "quarantined")) + work[r].duplicated
        /\ Cardinality(WithStatus(mine, "duplicate_economic")) <= work[r].duplicated
    <3>1. PICK n \in Nat : n = Len(work[r].batch)
      BY <1>2
    <3>2. (n + 1) - 1 = Cardinality(WithStatus(mine, "accepted"))
                + Cardinality(WithStatus(mine, "quarantined")) + work[r].duplicated
      BY <1>2, <1>3, <3>1 DEF Tallied, mine
    <3>3. (n + 1) - 1 = n
      OBVIOUS
    <3> QED
      BY <1>2, <3>1, <3>2, <3>3 DEF Tallied, mine
  <2>6. RunTellsRows
    BY DEF TellInv
  <2>7. ASSUME NEW q \in Run \ {r}
        PROVE  work'[q].batch = work[q].batch /\ run'[q] = run[q]
    BY <1>8, <1>10
  <2> QED
    BY <1>8, <1>9, <2>1, <2>2, <2>3, <2>4, <2>5, <2>6, <2>7 DEF RunTellsRows
<1> QED
  BY <1>11, <1>12, <1>13 DEF TellInv

LEMMA TellKept == TellInv /\ [IngestionNext]_inVars => TellInv'
<1> SUFFICES ASSUME TellInv, [IngestionNext]_inVars
             PROVE  TellInv'
  OBVIOUS
<1>1. CASE UNCHANGED inVars
  <2>1. run' = run /\ work' = work /\ table' = table
    BY <1>1 DEF inVars
  <2> QED
    BY <2>1 DEF TellInv, RunsTyped, RunsSound, OpenSound, FailingRuns, Open, Progress, Held, Sees,
       RunTellsRows, RowsOf
<1>2. CASE IngestionNext
  BY <1>2, KeptStart, KeptSkip, KeptWrite, KeptProceed, KeptFail, KeptSettle, KeptComplete,
     KeptCrash DEF IngestionNext
<1> QED
  BY <1>1, <1>2

LEMMA TellSound == IngestionSpec => []TellInv
  BY TellStarts, TellKept, PTL DEF IngestionSpec

\* Of ingestion: whatever fails, dies or overlaps, a run is completed with all its records
\* or leaves no row, its counters tell what became of each record, and each record is kept
\* (service.ingest_file and the commits of ingestion_repository).
THEOREM RunsTellRows == IngestionSpec => []RunTellsRows
<1>1. TellInv => RunTellsRows
  BY DEF TellInv
<1> QED
  BY <1>1, TellSound, PTL

Steps == {"idle", "normalising", "waiting", "failing", "ended"}

StepsTyped ==
    /\ \A r \in Run : work[r].step \in Steps
    /\ DOMAIN table = DOMAIN NoRows
    /\ raced \in BOOLEAN

LEMMA StepsKept == ASSUME RunsTyped, StepsTyped, [IngestionNext]_inVars PROVE StepsTyped'
<1>1. CASE UNCHANGED inVars
  BY <1>1 DEF StepsTyped, inVars
<1>2. ASSUME NEW r \in Run, NEW w, w.step \in Steps, work' = [work EXCEPT ![r] = w]
      PROVE  \A q \in Run : work'[q].step \in Steps
  <2>1. \A q \in Run : work'[q] = IF q = r THEN w ELSE work[q]
    BY <1>2 DEF RunsTyped
  <2> QED
    BY <1>2, <2>1 DEF StepsTyped
<1>3. \A rows : DOMAIN Over(rows, table) = DOMAIN NoRows
  BY DEF Over, NoRows
<1>4. /\ Resting.step \in Steps
      /\ \A b : [Resting EXCEPT !.step = "normalising", !.batch = b].step \in Steps
      /\ \A b : [Resting EXCEPT !.batch = b, !.step = "ended"].step \in Steps
  BY DEF Resting, Steps
<1>5. ASSUME NEW r \in Run, NEW b, Start(r, b)
      PROVE  StepsTyped'
  BY <1>2, <1>4, <1>5 DEF Start, StepsTyped
<1>6. ASSUME NEW r \in Run, Settle(r) \/ Crash(r)
      PROVE  StepsTyped'
  BY <1>2, <1>4, <1>6 DEF Settle, Crash, StepsTyped
<1>7. ASSUME NEW r \in Run, Complete(r)
      PROVE  StepsTyped'
  <2>1. \A q \in Run : work'[q].step \in Steps
    BY <1>2, <1>4, <1>7 DEF Complete
  <2>2. DOMAIN table' = DOMAIN NoRows /\ raced' \in BOOLEAN
    BY <1>3, <1>7 DEF Complete, StepsTyped
  <2> QED
    BY <2>1, <2>2 DEF StepsTyped
<1>8. ASSUME NEW r \in Run, Skip(r)
      PROVE  StepsTyped'
  <2>1. \A q \in Run : work'[q].step = work[q].step
    BY <1>8 DEF Skip, RunsTyped, HasRow
  <2> QED
    BY <1>8, <2>1 DEF Skip, StepsTyped
<1>9. ASSUME NEW r \in Run, NEW rows, NEW keys, Wrote(r, rows, keys)
      PROVE  \A q \in Run : work'[q].step \in Steps
  <2>1. \A q \in Run : work'[q].step = IF q = r THEN "normalising" ELSE work[q].step
    BY <1>9 DEF Wrote, RunsTyped, HasRow
  <2> QED
    BY <2>1 DEF StepsTyped, Steps
<1>10. ASSUME NEW r \in Run, Write(r)
       PROVE  StepsTyped'
  <2>1. PICK rows, keys :
           \/ work' = [work EXCEPT ![r].step = "waiting", ![r].held = [rows |-> rows, keys |-> keys]]
           \/ Wrote(r, rows, keys)
    BY <1>10 DEF Write
  <2>2. CASE work' = [work EXCEPT ![r].step = "waiting", ![r].held = [rows |-> rows, keys |-> keys]]
    <3>1. \A q \in Run : work'[q].step = IF q = r THEN "waiting" ELSE work[q].step
      BY <2>2 DEF RunsTyped, HasRow
    <3> QED
      BY <1>10, <3>1 DEF Write, StepsTyped, Steps
  <2>3. CASE Wrote(r, rows, keys)
    BY <1>9, <1>10, <2>3 DEF Write, StepsTyped
  <2> QED
    BY <2>1, <2>2, <2>3
<1>11. ASSUME NEW r \in Run, Proceed(r)
       PROVE  StepsTyped'
  BY <1>9, <1>11 DEF Proceed, StepsTyped
<1>12. ASSUME NEW r \in Run, Fail(r)
       PROVE  StepsTyped'
  <2>1. \A q \in Run : work'[q].step = IF q = r THEN "failing" ELSE work[q].step
    BY <1>12 DEF Fail, RunsTyped, HasRow
  <2> QED
    BY <1>12, <2>1 DEF Fail, StepsTyped, Steps
<1> QED
  BY <1>1, <1>5, <1>6, <1>7, <1>8, <1>10, <1>11, <1>12 DEF IngestionNext

\* Of ingestion: audit rows count records, a process is at one of the steps of
\* service.ingest_file, and the tables are those of the repository.
THEOREM IngestionTyped == IngestionSpec => []IngestionTypeOK
<1>1. IngestionInit => StepsTyped
  <2> SUFFICES ASSUME IngestionInit PROVE StepsTyped
    OBVIOUS
  <2>1. \A r \in Run : work[r] = Resting
    BY DEF IngestionInit
  <2>2. Resting.step = "idle"
    BY DEF Resting
  <2>3. table = NoRows /\ raced \in BOOLEAN
    BY DEF IngestionInit
  <2> QED
    BY <2>1, <2>2, <2>3 DEF StepsTyped, Steps
<1>2. TellInv => RunsTyped
  BY DEF TellInv
<1>3. RunsTyped /\ StepsTyped => IngestionTypeOK
  BY DEF RunsTyped, StepsTyped, Steps, IngestionTypeOK
<1> QED
  BY <1>1, <1>2, <1>3, StepsKept, TellSound, PTL DEF IngestionSpec

-----------------------------------------------------------------------------
(* What an open transaction sees, as long as no other commits beside it.   *)

IsListing(l) ==
    /\ l = [security |-> l.security, symbol |-> l.symbol, from |-> l.from, to |-> l.to]
    /\ l.from \in Nat /\ l.to \in Nat

\* Whatever is listed or replaced is in the universe.
InUniverse(v) ==
    /\ \A l \in v.listing : IsListing(l) /\ l.security \in v.security
    /\ \A p \in v.succession :
          p = <<p[1], p[2]>> /\ p[1] \in v.security /\ p[2] \in v.security

OneListingADay(v) == \A l, m \in v.listing : l.security = m.security /\ l # m => ~Overlap(l, m)

NoneSucceedsItself(v) == \A p \in v.succession : p[1] \notin Successors(v.succession, p[2])

HistorySound(v) == InUniverse(v) /\ OneListingADay(v) /\ NoneSucceedsItself(v)

\* Facts are numbered in the order of their acceptance.
Numbered(v) ==
    /\ IsFiniteSet(v.fact)
    /\ \A f \in v.fact : /\ f.nth \in 1..Cardinality(v.fact)
                         /\ f.available \in Nat /\ f.revised \in Nat
                         /\ f.kind \in Kind \ {"universe"}
    /\ \A f, g \in v.fact : f.nth = g.nth => f = g

\* The pairs of which a later one must be the newer.
Rivals(f, g) ==
    \/ f.kind = "announcement" /\ SameExternal(f, g)
    \/ f.kind = "attention" /\ (SameExternal(f, g) \/ SameEvent(f, g))
    \/ f.kind \in {"market", "benchmark", "financial", "action"} /\ SameEvent(f, g)

InTurns(v) == \A f, g \in v.fact : Rivals(f, g) /\ f.nth < g.nth => Before(f, g)

FactsSound(v) == Numbered(v) /\ InTurns(v)

\* A transaction that waits would write what it would write now.
SightSound(r) == Open(r) =>
    /\ HistorySound(Sees(r)) /\ FactsSound(Sees(r))
    /\ work[r].step = "waiting" => work[r].held.rows = Normalised(r, Record(r))

SerialInv ==
    ~raced => /\ HistorySound(table) /\ FactsSound(table)
              /\ \A r \in Run : SightSound(r)

LEMMA OverTwice ==
    ASSUME NEW a, NEW b, NEW c
    PROVE  Over(a, Over(b, c)) = Over(Over(a, b), c)
<1>1. Over(a, Over(b, c)).listing = Over(Over(a, b), c).listing
  BY DEF Over, SameListing
<1>2. /\ Over(a, Over(b, c)).source = Over(Over(a, b), c).source
      /\ Over(a, Over(b, c)).fact = Over(Over(a, b), c).fact
      /\ Over(a, Over(b, c)).security = Over(Over(a, b), c).security
      /\ Over(a, Over(b, c)).succession = Over(Over(a, b), c).succession
  BY DEF Over
<1> HIDE DEF Over
<1>3. \A v, w : Over(v, w) = [source |-> Over(v, w).source, fact |-> Over(v, w).fact,
                             security |-> Over(v, w).security, listing |-> Over(v, w).listing,
                             succession |-> Over(v, w).succession]
  BY DEF Over
<1> QED
  BY <1>1, <1>2, <1>3

LEMMA OverNothing ==
    ASSUME NEW v
    PROVE  /\ Over(NoRows, v).source = v.source /\ Over(NoRows, v).fact = v.fact
           /\ Over(NoRows, v).security = v.security /\ Over(NoRows, v).listing = v.listing
           /\ Over(NoRows, v).succession = v.succession
  BY DEF Over, NoRows

\* Successors hold the security and what replaced any of them.
LEMMA SuccessorsClosed ==
    ASSUME NEW S, NEW i
    PROVE  /\ i \in Successors(S, i)
           /\ \A p \in S : p[1] \in Successors(S, i) => p[2] \in Successors(S, i)
  BY DEF Successors

\* They are the fewest that do.
LEMMA SuccessorsLeast ==
    ASSUME NEW S, NEW i, NEW C, i \in C, \A p \in S : p[1] \in C => p[2] \in C
    PROVE  Successors(S, i) \subseteq C
<1> DEFINE all == {i} \cup {p[2] : p \in S}
           D == C \cap all
<1>1. D \in SUBSET all /\ i \in D /\ \A p \in S : p[1] \in D => p[2] \in D
  OBVIOUS
<1>2. Successors(S, i) \subseteq D
  BY <1>1 DEF Successors
<1> QED
  BY <1>2

\* No security that does not follow from its successor comes to succeed itself.
LEMMA NoCycleCloses ==
    ASSUME NEW S, NEW a, NEW b, a \notin Successors(S, b),
           \A p \in S : p[1] \notin Successors(S, p[2])
    PROVE  \A p \in S \cup {<<a, b>>} : p[1] \notin Successors(S \cup {<<a, b>>}, p[2])
<1> DEFINE T == S \cup {<<a, b>>}
<1>1. Successors(T, b) \subseteq Successors(S, b)
  <2>1. \A p \in T : p[1] \in Successors(S, b) => p[2] \in Successors(S, b)
    BY SuccessorsClosed
  <2> HIDE DEF T
  <2> QED
    BY <2>1, SuccessorsClosed, SuccessorsLeast
<1>2. ASSUME NEW p \in S
      PROVE  p[1] \notin Successors(T, p[2])
  <2> DEFINE i == p[1]
             j == p[2]
  <2>1. CASE a \notin Successors(S, j)
    <3>1. \A q \in T : q[1] \in Successors(S, j) => q[2] \in Successors(S, j)
      BY <2>1, SuccessorsClosed
    <3> HIDE DEF T
    <3>2. Successors(T, j) \subseteq Successors(S, j)
      BY <3>1, SuccessorsClosed, SuccessorsLeast
    <3> QED
      BY <3>2
  <2>2. CASE a \in Successors(S, j)
    <3> DEFINE C == Successors(S, j) \cup Successors(S, b)
    <3>1. j \in C /\ \A q \in T : q[1] \in C => q[2] \in C
      BY SuccessorsClosed
    <3>2. Successors(T, j) \subseteq C
      <4> HIDE DEF T, C
      <4> QED
        BY <3>1, SuccessorsLeast
    <3>3. ASSUME i \in Successors(S, b)
          PROVE  FALSE
      <4>1. j \in Successors(S, b)
        BY <3>3, SuccessorsClosed
      <4>2. Successors(S, j) \subseteq Successors(S, b)
        BY <4>1, SuccessorsClosed, SuccessorsLeast
      <4> QED
        BY <2>2, <4>2
    <3> QED
      BY <3>2, <3>3
  <2> QED
    BY <2>1, <2>2
<1>3. <<a, b>>[1] \notin Successors(T, <<a, b>>[2])
  BY <1>1
<1> QED
  BY <1>2, <1>3

\* A listing added beside those it leaves alone.
LEMMA ListedBeside ==
    ASSUME NEW v, HistorySound(v), NEW l, IsListing(l), l.security \in v.security,
           \A m \in v.listing : m.security = l.security => ~Overlap(m, l),
           NEW w, w.listing = {l} \cup {m \in v.listing : ~SameListing(m, l)},
           v.security \subseteq w.security, w.succession = v.succession
    PROVE  HistorySound(w)
<1>1. InUniverse(w)
  BY DEF HistorySound, InUniverse
<1>2. OneListingADay(w)
  BY DEF HistorySound, OneListingADay, Overlap
<1>3. NoneSucceedsItself(w)
  BY DEF HistorySound, NoneSucceedsItself
<1> QED
  BY <1>1, <1>2, <1>3 DEF HistorySound

\* The active listing makes room for its new name.
LEMMA RenamedBeside ==
    ASSUME NEW v, HistorySound(v), NEW e, e.from \in Nat, e.security \in v.security,
           ~SymbolChangeIssue(v, e),
           NEW w, w.listing = Over(SymbolChange(v, e), v).listing,
           w.security = v.security, w.succession = v.succession
    PROVE  HistorySound(w)
<1> DEFINE active == ActiveAt(v, e.security, e.from)
<1>1. /\ \A l \in active : /\ l \in v.listing /\ IsListing(l) /\ l.security = e.security
                          /\ l.from < e.from /\ (l.to = Missing \/ e.from < l.to)
      /\ active # {}
  BY DEF ActiveAt, SymbolChangeIssue, HistorySound, InUniverse, IsListing
<1>2. PICK l \in active : TRUE
  BY <1>1
<1>3. active = {l}
  <2>1. \A m \in active : Overlap(l, m)
    BY <1>1, <1>2 DEF Overlap, IsListing
  <2> QED
    BY <1>1, <1>2, <2>1 DEF HistorySound, OneListingADay
<1> DEFINE new == Renamed(e)
           old == [security |-> l.security, symbol |-> l.symbol, from |-> l.from, to |-> e.from]
<1>4. [l EXCEPT !.to = e.from] = old
  BY <1>1, <1>2 DEF IsListing
<1>5. w.listing = {new, old} \cup {m \in v.listing : ~SameListing(m, new) /\ ~SameListing(m, old)}
  <2>1. SymbolChange(v, e).listing = {new, old}
    BY <1>3, <1>4 DEF SymbolChange, NoRows
  <2> QED
    BY <2>1 DEF Over
<1>6. IsListing(new) /\ IsListing(old) /\ new.security = e.security /\ old.security = e.security
  BY <1>1, <1>2 DEF IsListing, Renamed, Missing
<1>7. \A m \in v.listing : m # l /\ m.security = e.security => ~Overlap(m, new)
  BY <1>3 DEF SymbolChangeIssue, ListingIssue, Renamed
<1>8. ~Overlap(new, old) /\ ~Overlap(old, new)
  BY <1>1, <1>2 DEF Overlap, Renamed, Missing, IsListing
<1>9. ASSUME NEW m \in v.listing, m # l, m.security = e.security
      PROVE  ~Overlap(m, old) /\ ~Overlap(old, m)
  <2>1. ~Overlap(m, l) /\ ~Overlap(l, m) /\ IsListing(m)
    BY <1>1, <1>2, <1>9 DEF HistorySound, OneListingADay, InUniverse
  <2> QED
    BY <1>1, <1>2, <2>1 DEF Overlap, IsListing, Missing
<1>10. \A m \in v.listing : ~SameListing(m, old) => m # l
  BY DEF SameListing
<1>11. \A m, n : Overlap(m, n) <=> Overlap(n, m)
  BY DEF Overlap
<1> HIDE DEF new, old
<1>12. OneListingADay(w)
  BY <1>5, <1>6, <1>7, <1>8, <1>9, <1>10, <1>11 DEF OneListingADay, HistorySound
<1>13. InUniverse(w)
  BY <1>5, <1>6 DEF HistorySound, InUniverse
<1>14. NoneSucceedsItself(w)
  BY DEF HistorySound, NoneSucceedsItself
<1> QED
  BY <1>12, <1>13, <1>14 DEF HistorySound

\* A security is replaced by one that does not lead back to it.
LEMMA ReplacedAhead ==
    ASSUME NEW v, HistorySound(v), NEW a \in v.security, NEW b,
           b \in v.security => a \notin Successors(v.succession, b),
           NEW w, w.listing = v.listing, w.security = v.security \cup {b},
           w.succession = v.succession \cup {<<a, b>>}
    PROVE  HistorySound(w)
<1>1. a \notin Successors(v.succession, b)
  <2>1. CASE b \notin v.security
    <3>1. \A p \in v.succession : p[1] \in {b} => p[2] \in {b}
      BY <2>1 DEF HistorySound, InUniverse
    <3>2. Successors(v.succession, b) \subseteq {b}
      BY <3>1, SuccessorsLeast
    <3> QED
      BY <2>1, <3>2
  <2> QED
    BY <2>1
<1>2. NoneSucceedsItself(w)
  BY <1>1, NoCycleCloses DEF HistorySound, NoneSucceedsItself
<1>3. InUniverse(w)
  BY DEF HistorySound, InUniverse
<1>4. OneListingADay(w)
  BY DEF HistorySound, OneListingADay
<1> QED
  BY <1>2, <1>3, <1>4 DEF HistorySound

\* What a record leaves beside its source.
LEMMA NormalisedRows ==
    ASSUME NEW r, NEW e
    PROVE  LET n == Normalised(r, e)
               counted == IF Verdict(Sees(r), e) = "accepted" THEN Consequences(Sees(r), e) ELSE NoRows
           IN /\ n.fact = counted.fact /\ n.security = counted.security
              /\ n.listing = counted.listing /\ n.succession = counted.succession
  BY DEF Normalised, Consequences, Listing, SymbolChange, Replacement, NoRows

LEMMA NewListingSound ==
    ASSUME NEW v, HistorySound(v), NEW e, IsEnvelope(e), e.kind = "universe",
           Verdict(v, e) = "accepted",
           NEW w, w.listing = Over(Listing(e), v).listing,
           w.security = v.security \cup {e.security}, w.succession = v.succession
    PROVE  HistorySound(w)
<1> DEFINE l == ListingOf(e)
<1>1. ~UniverseIssue(v, e)
  BY DEF Verdict, UniverseVerdict
<1>2. IsListing(l) /\ l.security = e.security
  BY DEF IsEnvelope, ListingOf, IsListing
<1>3. w.listing = {l} \cup {m \in v.listing : ~SameListing(m, l)}
  BY DEF Over, Listing, NoRows
<1> DEFINE u == [v EXCEPT !.security = v.security \cup {e.security}]
<1>4. CASE l \in v.listing
  <2>1. w.listing \subseteq v.listing
    BY <1>3, <1>4
  <2> QED
    BY <2>1 DEF HistorySound, InUniverse, OneListingADay, NoneSucceedsItself
<1>5. CASE l \notin v.listing
  <2>1. \A m \in v.listing : m.security = e.security => ~Overlap(m, l)
    BY <1>1, <1>2, <1>5 DEF UniverseIssue, ListingIssue, HistorySound, InUniverse
  <2> HIDE DEF l
  <2>2. InUniverse(w)
    BY <1>2, <1>3 DEF HistorySound, InUniverse
  <2>3. OneListingADay(w)
    BY <1>2, <1>3, <2>1 DEF HistorySound, OneListingADay, Overlap
  <2>4. NoneSucceedsItself(w)
    BY DEF HistorySound, NoneSucceedsItself
  <2> QED
    BY <2>2, <2>3, <2>4 DEF HistorySound
<1> QED
  BY <1>4, <1>5

\* Whatever a record says, the history that the transaction sees stays sound.
LEMMA HistoryWritten ==
    ASSUME NEW r, NEW e, IsEnvelope(e), HistorySound(Sees(r))
    PROVE  HistorySound(Over(Normalised(r, e), Sees(r)))
<1> DEFINE v == Sees(r)
           n == Normalised(r, e)
           w == Over(n, v)
<1> SUFFICES HistorySound(w)
  OBVIOUS
<1> HIDE DEF v
<1>1. /\ w.security = v.security \cup n.security
      /\ w.succession = v.succession \cup n.succession
      /\ \A a : a.listing = n.listing => w.listing = Over(a, v).listing
  BY DEF Over
<1>2. /\ NoRows.listing = {} /\ NoRows.security = {} /\ NoRows.succession = {}
      /\ Over(NoRows, v).listing = v.listing
  BY OverNothing DEF NoRows
<1>3. HistorySound(v)
  BY DEF v
<1> HIDE DEF n, w
<1>4. ASSUME w.listing = v.listing, w.security = v.security, w.succession = v.succession
      PROVE  HistorySound(w)
  BY <1>3, <1>4 DEF HistorySound, InUniverse, OneListingADay, NoneSucceedsItself
<1>5. CASE Verdict(v, e) # "accepted"
  <2>1. n.listing = {} /\ n.security = {} /\ n.succession = {} /\ n.listing = NoRows.listing
    BY <1>2, <1>5, NormalisedRows DEF n, v
  <2> QED
    BY <1>1, <1>2, <1>4, <2>1
<1>6. CASE Verdict(v, e) = "accepted"
  <2>1. /\ n.listing = Consequences(v, e).listing
        /\ n.security = Consequences(v, e).security
        /\ n.succession = Consequences(v, e).succession
    BY <1>6, NormalisedRows DEF n, v
  <2>2. CASE e.kind = "universe"
    <3>1. Consequences(v, e) = Listing(e)
      BY <2>2 DEF Consequences
    <3>2. Listing(e).security = {e.security} /\ Listing(e).succession = {}
      BY DEF Listing, NoRows
    <3> QED
      BY <1>1, <1>3, <1>6, <2>1, <2>2, <3>1, <3>2, NewListingSound
  <2>3. CASE e.kind = "action" /\ e.effect = "symbol_change"
    <3>1. Consequences(v, e) = SymbolChange(v, e)
      BY <2>3 DEF Consequences
    <3>2. SymbolChange(v, e).security = {} /\ SymbolChange(v, e).succession = {}
      BY DEF SymbolChange, NoRows
    <3>3. ~SymbolChangeIssue(v, e) /\ e.security \in v.security /\ e.from \in Nat
      BY <1>6, <2>3 DEF Verdict, ActionVerdict, Revised, Known, IsEnvelope
    <3> QED
      BY <1>1, <1>3, <2>1, <3>1, <3>2, <3>3, RenamedBeside
  <2>4. CASE e.kind = "action" /\ e.effect = "security_replacement"
    <3>1. Consequences(v, e) = Replacement(v, e)
      BY <2>4 DEF Consequences
    <3>2. /\ Replacement(v, e).security = {e.successor} /\ Replacement(v, e).listing = {}
          /\ Replacement(v, e).succession = {<<e.security, e.successor>>}
      BY DEF Replacement, NoRows
    <3>3. ~ReplacementIssue(v, e) /\ e.security \in v.security
      BY <1>6, <2>4 DEF Verdict, ActionVerdict, Revised, Known
    <3> QED
      BY SMTT(30), <1>1, <1>2, <1>3, <2>1, <3>1, <3>2, <3>3, ReplacedAhead DEF ReplacementIssue
  <2>5. CASE /\ e.kind # "universe"
             /\ ~(e.kind = "action" /\ e.effect \in {"symbol_change", "security_replacement"})
    <3>1. Consequences(v, e) = [NoRows EXCEPT !.fact = Told(v, e)]
      BY <2>5 DEF Consequences
    <3>2. n.listing = {} /\ n.security = {} /\ n.succession = {} /\ n.listing = NoRows.listing
      BY <2>1, <3>1 DEF NoRows
    <3> QED
      BY <1>1, <1>2, <1>4, <3>2
  <2> QED
    BY <2>2, <2>3, <2>4, <2>5
<1> QED
  BY <1>5, <1>6

\* An accepted record is later than all it must be compared with.
LEMMA AcceptedLater ==
    ASSUME NEW v, NEW e, IsEnvelope(e), e.kind # "universe", Verdict(v, e) = "accepted",
           NEW f \in v.fact, Rivals(f, e)
    PROVE  Before(f, e)
<1>1. \A said, later : Revised(said, later) = "accepted" => later
  BY DEF Revised
<1>2. CASE e.kind \in {"market", "benchmark", "financial"}
  BY <1>1, <1>2 DEF Verdict, MarketVerdict, BenchmarkVerdict, FinancialVerdict, Later, Events,
     Rivals, SameEvent, SameExternal
<1>3. CASE e.kind = "action"
  BY <1>1, <1>3 DEF Verdict, ActionVerdict, Later, Actions, Events, Rivals, SameEvent,
     SameExternal
<1>4. CASE e.kind = "announcement"
  BY <1>1, <1>4 DEF Verdict, AnnouncementVerdict, Later, Externals, Rivals, SameEvent,
     SameExternal
<1>5. CASE e.kind = "attention"
  BY <1>1, <1>5 DEF Verdict, AttentionVerdict, Later, Externals, Events, Rivals, SameEvent,
     SameExternal
<1>6. e.kind \notin {"universe", "delivery"}
  BY DEF Rivals, SameEvent, SameExternal
<1> QED
  BY <1>2, <1>3, <1>4, <1>5, <1>6 DEF IsEnvelope, Kind

LEMMA FactsWritten ==
    ASSUME NEW r, NEW e, IsEnvelope(e), FactsSound(Sees(r))
    PROVE  FactsSound(Over(Normalised(r, e), Sees(r)))
<1> DEFINE v == Sees(r)
           w == Over(Normalised(r, e), v)
           x == FactOf(e, Cardinality(v.fact) + 1)
<1>1. w.fact = v.fact \cup Normalised(r, e).fact
  BY DEF Over
<1>2. \/ w.fact = v.fact
      \/ w.fact = v.fact \cup {x} /\ e.kind # "universe" /\ Verdict(v, e) = "accepted"
  BY <1>1, NormalisedRows DEF Consequences, Listing, SymbolChange, Replacement, NoRows, Told
<1> HIDE DEF w, v
<1>3. FactsSound(v)
  BY DEF v
<1>4. CASE w.fact = v.fact
  BY <1>3, <1>4 DEF FactsSound, Numbered, InTurns, w, v
<1>5. CASE w.fact = v.fact \cup {x} /\ e.kind # "universe" /\ Verdict(v, e) = "accepted"
  <2>1. /\ x.nth = Cardinality(v.fact) + 1 /\ x.available = e.available
        /\ x.revised = e.revised /\ x.kind = e.kind /\ x.external = e.external
        /\ x.security = e.security /\ x.anchor = e.anchor
    BY DEF FactOf
  <2> HIDE DEF x
  <2>2. IsFiniteSet(v.fact) /\ Cardinality(v.fact) \in Nat
    BY <1>3, FS_CardinalityType DEF FactsSound, Numbered
  <2>3. \A f \in v.fact : f.nth \in 1..Cardinality(v.fact)
    BY <1>3 DEF FactsSound, Numbered
  <2>4. x \notin v.fact
    BY <2>1, <2>2, <2>3
  <2>5. IsFiniteSet(w.fact) /\ Cardinality(w.fact) = Cardinality(v.fact) + 1
    <3>1. IsFiniteSet(v.fact \cup {x}) /\ Cardinality(v.fact \cup {x}) = Cardinality(v.fact) + 1
      BY <2>2, <2>4, FS_AddElement
    <3> QED
      BY <1>5, <3>1
  <2>6. x.available \in Nat /\ x.revised \in Nat /\ x.kind \in Kind \ {"universe"}
    BY <1>5, <2>1 DEF IsEnvelope
  <2>7. Numbered(w)
    <3>1. PICK n \in Nat : n = Cardinality(v.fact)
      BY <2>2
    <3>2. \A f \in v.fact :
             f.available \in Nat /\ f.revised \in Nat /\ f.kind \in Kind \ {"universe"}
      BY <1>3 DEF FactsSound, Numbered
    <3>3. \A f \in w.fact : /\ f.nth \in 1..(n + 1) /\ f.available \in Nat /\ f.revised \in Nat
                           /\ f.kind \in Kind \ {"universe"}
      BY <1>5, <2>1, <2>3, <2>6, <3>1, <3>2
    <3>4. \A f, g \in w.fact : f.nth = g.nth => f = g
      <4>1. \A f, g \in v.fact : f.nth = g.nth => f = g
        BY <1>3 DEF FactsSound, Numbered
      <4>2. \A f \in v.fact : f.nth # x.nth
        BY <2>1, <2>3, <3>1
      <4> QED
        BY <1>5, <4>1, <4>2
    <3> QED
      BY <2>5, <3>1, <3>3, <3>4 DEF Numbered
  <2>8. \A f \in v.fact : Rivals(f, x) => Before(f, x)
    <3>1. \A f : (Rivals(f, x) <=> Rivals(f, e)) /\ (Before(f, x) <=> Before(f, e))
      BY <2>1 DEF Rivals, SameEvent, SameExternal, Before, IsLate
    <3> QED
      BY <1>5, <3>1, AcceptedLater
  <2>9. InTurns(w)
    <3> SUFFICES ASSUME NEW f \in w.fact, NEW g \in w.fact, Rivals(f, g), f.nth < g.nth
                 PROVE  Before(f, g)
      BY DEF InTurns
    <3>1. f \in v.fact
      BY <1>5, <2>1, <2>2, <2>3
    <3> QED
      BY <1>3, <1>5, <2>8, <3>1 DEF FactsSound, InTurns
  <2> QED
    BY <2>7, <2>9 DEF FactsSound, w, v
<1> QED
  BY <1>2, <1>4, <1>5

-----------------------------------------------------------------------------
(* As long as no transaction commits beside another, each sees its own.    *)

LEMMA SerialStarts == IngestionInit => SerialInv
<1> SUFFICES ASSUME IngestionInit
             PROVE  SerialInv
  OBVIOUS
<1>1. table = NoRows /\ \A r \in Run : ~Open(r)
  BY DEF IngestionInit, Resting, Open
<1>2. HistorySound(NoRows)
  BY DEF HistorySound, InUniverse, OneListingADay, NoneSucceedsItself, NoRows
<1>3. FactsSound(NoRows)
  BY FS_EmptySet DEF FactsSound, Numbered, InTurns, NoRows
<1> QED
  BY <1>1, <1>2, <1>3 DEF SerialInv, SightSound

\* What a transaction sees with no rows of its own is the database.
LEMMA SoundAlone ==
    ASSUME NEW v, HistorySound(v), FactsSound(v)
    PROVE  HistorySound(Over(NoRows, v)) /\ FactsSound(Over(NoRows, v))
  BY OverNothing DEF HistorySound, InUniverse, OneListingADay, NoneSucceedsItself, FactsSound,
     Numbered, InTurns

\* A step of one run that commits nothing leaves what the others see.
LEMMA QuietSight ==
    ASSUME SerialInv, RunsTyped, NEW r \in Run, table' = table, raced' = raced,
           work' = [work EXCEPT ![r] = work'[r]],
           ~raced => SightSound(r)'
    PROVE  SerialInv'
<1>1. ASSUME NEW q \in Run \ {r}, SightSound(q)
      PROVE  SightSound(q)'
  <2>1. work'[q] = work[q]
    BY DEF RunsTyped
  <2> QED
    BY <1>1, <2>1 DEF SightSound, Open, Sees, Normalised, Record
<1> QED
  BY <1>1 DEF SerialInv

\* The record that comes next is an envelope.
LEMMA NextEnvelope ==
    ASSUME TellInv, NEW r \in Run, Open(r), work[r].at <= Len(work[r].batch)
    PROVE  IsEnvelope(Record(r))
<1>1. /\ work[r].batch \in Batch[r] /\ Len(work[r].batch) \in Nat /\ work[r].at \in Nat \ {0}
  BY OpenFacts DEF Progress, Tallied
<1>2. work[r].at \in 1..Len(work[r].batch)
  BY <1>1
<1> QED
  BY <1>1, <1>2 DEF Record

LEMMA WroteSight ==
    ASSUME TellInv, SerialInv, NEW r \in Run, Open(r), work[r].at <= Len(work[r].batch),
           table' = table, raced' = raced, NEW keys,
           Wrote(r, Normalised(r, Record(r)), keys)
    PROVE  SerialInv'
<1> DEFINE rows == Normalised(r, Record(r))
<1>1. /\ work' = [work EXCEPT ![r] = work'[r]] /\ work'[r].rows = Over(rows, work[r].rows)
      /\ work'[r].step = "normalising"
  <2>1. work = [q \in Run |-> work[q]] /\ HasRow(work[r])
    BY DEF TellInv, RunsTyped
  <2> HIDE DEF rows
  <2>2. work'[r] = [work[r] EXCEPT
                       !.step = "normalising", !.at = @ + 1, !.rows = Over(rows, @),
                       !.held = NothingHeld, !.claims = @ \cup keys,
                       !.duplicated = @ + Cardinality({s \in rows.source :
                                                          s.status = "duplicate_economic"})]
    BY <2>1 DEF Wrote, rows
  <2>3. work' = [work EXCEPT ![r] = work'[r]]
    BY <2>1 DEF Wrote, rows
  <2> QED
    BY <2>1, <2>2, <2>3 DEF HasRow
<1>2. Sees(r)' = Over(rows, Sees(r))
  BY <1>1, OverTwice DEF Sees
<1>3. ~raced => SightSound(r)'
  BY <1>1, <1>2, NextEnvelope, HistoryWritten, FactsWritten DEF SerialInv, SightSound
<1> QED
  BY <1>1, <1>3, QuietSight DEF TellInv

LEMMA SerialKept == TellInv /\ SerialInv /\ [IngestionNext]_inVars => SerialInv'
<1> SUFFICES ASSUME TellInv, SerialInv, [IngestionNext]_inVars
             PROVE  SerialInv'
  OBVIOUS
<1>1. RunsTyped /\ work = [q \in Run |-> work[q]] /\ \A r \in Run : HasRow(work[r])
  BY DEF TellInv, RunsTyped
<1>2. CASE UNCHANGED inVars
  BY <1>2 DEF inVars, SerialInv, SightSound, Open, Sees, Normalised, Record
<1>3. ASSUME NEW r \in Run, NEW b \in Batch[r], Start(r, b)
      PROVE  SerialInv'
  <2>1. /\ work' = [work EXCEPT ![r] = work'[r]] /\ work'[r].rows = NoRows
        /\ work'[r].step = "normalising" /\ table' = table /\ raced' = raced
    BY <1>1, <1>3 DEF Start, Resting
  <2>2. ~raced => SightSound(r)'
    BY <2>1, SoundAlone DEF SerialInv, SightSound, Sees
  <2> QED
    BY <1>1, <2>1, <2>2, QuietSight
<1>4. ASSUME NEW r \in Run, Skip(r)
      PROVE  SerialInv'
  <2>1. /\ work' = [work EXCEPT ![r] = work'[r]] /\ work'[r].rows = work[r].rows
        /\ work'[r].step = "normalising" /\ table' = table /\ raced' = raced /\ Open(r)
    <3>1. /\ work' = [work EXCEPT ![r] = work'[r]] /\ table' = table /\ raced' = raced
          /\ work'[r] = [work[r] EXCEPT !.at = @ + 1, !.duplicated = @ + 1]
          /\ work[r].step = "normalising"
      BY <1>1, <1>4 DEF Skip, AtRecord
    <3>2. HasRow(work[r])
      BY <1>1
    <3>3. work'[r].rows = work[r].rows /\ work'[r].step = work[r].step
      BY <3>1, <3>2 DEF HasRow
    <3> QED
      BY <3>1, <3>3 DEF Open
  <2>2. ~raced => SightSound(r)'
    BY <2>1 DEF SerialInv, SightSound, Sees
  <2> QED
    BY <1>1, <2>1, <2>2, QuietSight
<1>5. ASSUME NEW r \in Run, Write(r)
      PROVE  SerialInv'
  <2> DEFINE rows == Normalised(r, Record(r))
             keys == Claims(r, rows)
  <2>1. /\ Open(r) /\ work[r].at <= Len(work[r].batch)
        /\ table' = table /\ raced' = raced
        /\ IF MustWait(r, keys)
           THEN work' = [work EXCEPT ![r].step = "waiting",
                                     ![r].held = [rows |-> rows, keys |-> keys]]
           ELSE Wrote(r, rows, keys)
    BY <1>5 DEF Write, AtRecord, Open
  <2>2. CASE ~MustWait(r, keys)
    BY <2>1, <2>2, WroteSight
  <2>3. CASE MustWait(r, keys)
    <3> HIDE DEF rows, keys
    <3>1. work' = [work EXCEPT ![r].step = "waiting", ![r].held = [rows |-> rows, keys |-> keys]]
      BY <2>1, <2>3
    <3>2. /\ work' = [work EXCEPT ![r] = work'[r]] /\ work'[r].rows = work[r].rows
          /\ work'[r].step = "waiting" /\ work'[r].held.rows = rows
          /\ work'[r].batch = work[r].batch /\ work'[r].at = work[r].at
      <4>1. /\ work' = [work EXCEPT ![r] = work'[r]]
            /\ work'[r] = [work[r] EXCEPT !.step = "waiting",
                                          !.held = [rows |-> rows, keys |-> keys]]
        BY <1>1, <3>1
      <4>2. work[r] = [step |-> work[r].step, batch |-> work[r].batch, at |-> work[r].at,
                       duplicated |-> work[r].duplicated, rows |-> work[r].rows,
                       claims |-> work[r].claims, held |-> work[r].held]
        BY <1>1 DEF HasRow
      <4> QED
        BY <4>1, <4>2
    <3>3. Sees(r)' = Sees(r) /\ Record(r)' = Record(r)
      BY <2>1, <3>2 DEF Sees, Record
    <3>4. Normalised(r, Record(r))' = rows
      BY <3>3 DEF Normalised, rows
    <3>5. ~raced => SightSound(r)'
      BY <2>1, <3>2, <3>3, <3>4 DEF SerialInv, SightSound
    <3> QED
      BY <1>1, <2>1, <3>2, <3>5, QuietSight
  <2> QED
    BY <2>2, <2>3
<1>6. ASSUME NEW r \in Run, Proceed(r)
      PROVE  SerialInv'
  <2>1. /\ Open(r) /\ work[r].step = "waiting" /\ table' = table /\ raced' = raced
        /\ Wrote(r, work[r].held.rows, work[r].held.keys)
    BY <1>6 DEF Proceed, Open
  <2>2. work[r].at <= Len(work[r].batch)
    BY <2>1 DEF TellInv, RunsSound, OpenSound, Held
  <2>3. CASE raced
    BY <2>1, <2>3 DEF SerialInv
  <2>4. CASE ~raced
    <3>1. work[r].held.rows = Normalised(r, Record(r))
      BY <2>1, <2>4 DEF SerialInv, SightSound
    <3> QED
      BY <2>1, <2>2, <3>1, WroteSight
  <2> QED
    BY <2>3, <2>4
<1>7. ASSUME NEW r \in Run, Fail(r) \/ Settle(r) \/ Crash(r)
      PROVE  SerialInv'
  <2>1. /\ work' = [work EXCEPT ![r] = work'[r]] /\ work'[r].step \in {"failing", "ended"}
        /\ table' = table /\ raced' = raced
    <3>1. CASE Fail(r)
      <4>1. /\ work' = [work EXCEPT ![r] = work'[r]] /\ table' = table /\ raced' = raced
            /\ work'[r] = [work[r] EXCEPT !.step = "failing", !.rows = NoRows,
                                          !.held = NothingHeld, !.claims = {}]
        BY <1>1, <3>1 DEF Fail
      <4>2. HasRow(work[r])
        BY <1>1
      <4> QED
        BY <4>1, <4>2 DEF HasRow
    <3>2. CASE Settle(r) \/ Crash(r)
      BY <1>1, <3>2 DEF Settle, Crash, Resting
    <3> QED
      BY <1>7, <3>1, <3>2
  <2>2. SightSound(r)'
    BY <2>1 DEF SightSound, Open
  <2> QED
    BY <1>1, <2>1, <2>2, QuietSight
<1>8. ASSUME NEW r \in Run, Complete(r)
      PROVE  SerialInv'
  <2>1. /\ work' = [work EXCEPT ![r] = work'[r]] /\ work'[r].step = "ended"
        /\ table' = Sees(r) /\ Open(r)
        /\ raced' = (raced \/ \E q \in Run \ {r} : Open(q))
    BY <1>1, <1>8 DEF Complete, Resting, Sees, Open
  <2>2. ASSUME ~raced'
        PROVE  /\ HistorySound(table') /\ FactsSound(table')
               /\ \A q \in Run : ~Open(q)'
    <3>1. HistorySound(Sees(r)) /\ FactsSound(Sees(r))
      BY <2>1, <2>2 DEF SerialInv, SightSound
    <3>2. ASSUME NEW q \in Run \ {r}
          PROVE  ~Open(q)'
      <4>1. work'[q] = work[q] /\ ~Open(q)
        BY <1>1, <2>1, <2>2
      <4> QED
        BY <4>1 DEF Open
    <3>3. ~Open(r)'
      BY <2>1 DEF Open
    <3> QED
      BY <2>1, <3>1, <3>2, <3>3
  <2> QED
    BY <2>2 DEF SerialInv, SightSound
<1> QED
  BY <1>2, <1>3, <1>4, <1>5, <1>6, <1>7, <1>8 DEF IngestionNext

LEMMA SerialSound == IngestionSpec => []SerialInv
  BY SerialStarts, SerialKept, TellSound, PTL DEF IngestionSpec

\* Of the universe: as long as runs follow each other, a security has one listing a day and
\* none succeeds itself, whatever is listed, renamed or replaced in whatever order
\* (universe_listing_issue, symbol_change_issue and security_replacement_issue of
\* ingestion_repository).
THEOREM HistoriesStaySound == IngestionSpec => []IdentityHistorySound
<1>1. SerialInv => IdentityHistorySound
  BY DEF SerialInv, HistorySound, OneListingADay, NoneSucceedsItself, IdentityHistorySound
<1> QED
  BY <1>1, SerialSound, PTL

-----------------------------------------------------------------------------
(* What readers select.                                                    *)

LEMMA LeastNumber ==
    ASSUME NEW S \in SUBSET Nat, S # {}
    PROVE  \E n \in S : \A m \in S : n <= m
<1> DEFINE R == OpToRel(<, Nat)
<1>1. \A m, n \in Nat : m < n => <<m, n>> \in R
  BY Zenon DEF OpToRel
<1>2. IsWellFoundedOn(R, Nat)
  BY NatLessThanWellFounded
<1> HIDE DEF R
<1>3. PICK n \in S : \A m \in S : ~(<<m, n>> \in R)
  BY <1>2, WFMin
<1>4. ASSUME NEW m \in S
      PROVE  ~(m < n)
  <2>1. m \in Nat /\ n \in Nat /\ <<m, n>> \notin R
    BY <1>3
  <2> QED
    BY <1>1, <2>1
<1>5. \A m \in S : n <= m
  BY <1>4
<1> QED
  BY <1>5

LEMMA GreatestNumber ==
    ASSUME NEW n \in Nat, NEW S \in SUBSET (0..n), S # {}
    PROVE  \E m \in S : \A k \in S : k <= m
<1> DEFINE T == {n - k : k \in S}
<1>1. T \in SUBSET Nat /\ T # {}
  <2>1. \A k \in S : n - k \in Nat
    OBVIOUS
  <2> QED
    BY <2>1
<1>2. PICK t \in T : \A u \in T : t <= u
  BY <1>1, LeastNumber
<1>3. PICK m \in S : t = n - m
  BY <1>2
<1>4. ASSUME NEW k \in S
      PROVE  k <= m
  <2>1. n - m <= n - k
    BY <1>2, <1>3
  <2> QED
    BY <2>1
<1> QED
  BY <1>4

\* The newest of each event are those that no other of the event is newer than.
LEMMA NewestOfEventIs ==
    ASSUME NEW F
    PROVE  NewestOfEvent(F) = {f \in F : \A g \in F : SameEvent(g, f) => ~Before(f, g)}
<1>1. \A f, g, h : SameEvent(f, h) => (SameEvent(g, f) <=> SameEvent(g, h))
  BY DEF SameEvent
<1>2. \A f : SameEvent(f, f)
  BY DEF SameEvent
<1>3. \A f : f \in NewestOfEvent(F) <=>
              \E h \in F : /\ f \in F /\ SameEvent(f, h)
                           /\ \A g \in F : SameEvent(g, h) => ~Before(f, g)
  BY DEF NewestOfEvent, Newest
<1> QED
  BY <1>1, <1>2, <1>3

LEMMA NewestOfExternalIs ==
    ASSUME NEW F
    PROVE  NewestOfExternal(F) = {f \in F : \A g \in F : SameExternal(g, f) => ~Before(f, g)}
<1>1. \A f, g, h : SameExternal(f, h) => (SameExternal(g, f) <=> SameExternal(g, h))
  BY DEF SameExternal
<1>2. \A f : SameExternal(f, f)
  BY DEF SameExternal
<1>3. \A f : f \in NewestOfExternal(F) <=>
              \E h \in F : /\ f \in F /\ SameExternal(f, h)
                           /\ \A g \in F : SameExternal(g, h) => ~Before(f, g)
  BY DEF NewestOfExternal, Newest
<1> QED
  BY <1>1, <1>2, <1>3

\* Of rivals, the later accepted is the newer.
LEMMA OrderTold ==
    ASSUME NEW v, FactsSound(v), NEW f \in v.fact, NEW g \in v.fact, Rivals(f, g) /\ Rivals(g, f)
    PROVE  ~Before(f, g) <=> g.nth <= f.nth
<1>1. /\ f.nth \in Nat /\ g.nth \in Nat /\ f.available \in Nat /\ g.available \in Nat
      /\ f.revised \in Nat /\ g.revised \in Nat
  <2>1. Cardinality(v.fact) \in Nat
    BY FS_CardinalityType DEF FactsSound, Numbered
  <2> QED
    BY <2>1 DEF FactsSound, Numbered
<1>2. ~(Before(f, g) /\ Before(g, f)) /\ (f = g => ~Before(f, g))
  BY <1>1 DEF Before, IsLate
<1>3. f.nth = g.nth => f = g
  BY DEF FactsSound, Numbered
<1>4. (f.nth < g.nth => Before(f, g)) /\ (g.nth < f.nth => Before(g, f))
  BY DEF FactsSound, InTurns
<1> QED
  BY <1>1, <1>2, <1>3, <1>4

Latest(F) == {f \in F : \A g \in F : Competes(g, f) => g.nth <= f.nth}

\* Of the facts of a kind whose events are ordered by themselves.
LEMMA NewestEventsAreLatest ==
    ASSUME FactsSound(table), NEW kind \in {"market", "benchmark", "financial", "action", "attention"},
           NEW F \in SUBSET table.fact, \A f \in F : f.kind = kind
    PROVE  NewestOfEvent(F) = Latest(F)
<1>1. ASSUME NEW f \in F, NEW g \in F
      PROVE  /\ Competes(g, f) <=> SameEvent(g, f)
             /\ SameEvent(g, f) => (~Before(f, g) <=> g.nth <= f.nth)
  <2>1. Competes(g, f) <=> SameEvent(g, f)
    BY DEF Competes
  <2>2. SameEvent(g, f) => Rivals(f, g) /\ Rivals(g, f)
    BY DEF Rivals, SameEvent
  <2> QED
    BY <2>1, <2>2, OrderTold
<1> QED
  BY <1>1, NewestOfEventIs DEF Latest

LEMMA NewestIdsAreLatest ==
    ASSUME FactsSound(table), NEW kind \in {"announcement", "attention"},
           NEW F \in SUBSET table.fact, \A f \in F : f.kind = kind
    PROVE  NewestOfExternal(F) = {f \in F : \A g \in F : SameExternal(g, f) => g.nth <= f.nth}
<1>1. ASSUME NEW f \in F, NEW g \in F, SameExternal(g, f)
      PROVE  ~Before(f, g) <=> g.nth <= f.nth
  <2>1. Rivals(f, g) /\ Rivals(g, f)
    BY <1>1 DEF Rivals, SameExternal
  <2> QED
    BY <2>1, OrderTold
<1> QED
  BY <1>1, NewestOfExternalIs

\* What is collapsed by id and then by event, when no id moved between events: the latest
\* of an event is the latest of its id.
LEMMA NewestOfBothAreLatest ==
    ASSUME FactsSound(table), NEW kind \in {"action", "attention"},
           NEW F \in SUBSET table.fact, \A f \in F : f.kind = kind,
           \A f, g \in F : SameExternal(f, g) => SameEvent(f, g)
    PROVE  NewestOfEvent(NewestOfExternal(F)) = Latest(F)
<1> DEFINE E == NewestOfExternal(F)
<1>1. \A f, g \in F : SameEvent(g, f) => (~Before(f, g) <=> g.nth <= f.nth)
  <2> SUFFICES ASSUME NEW f \in F, NEW g \in F, SameEvent(g, f)
               PROVE  ~Before(f, g) <=> g.nth <= f.nth
    OBVIOUS
  <2>1. Rivals(f, g) /\ Rivals(g, f)
    BY DEF Rivals, SameEvent
  <2> QED
    BY <2>1, OrderTold
<1>2. E = {f \in F : \A g \in F : SameExternal(g, f) => g.nth <= f.nth}
  BY <1>1, NewestOfExternalIs
<1> HIDE DEF E
<1>3. E \subseteq F
  BY <1>2
<1>4. NewestOfEvent(E) = Latest(E)
  BY <1>3, NewestEventsAreLatest
<1>5. \A f, g : f.kind = kind => (Competes(g, f) <=> SameEvent(g, f))
  BY DEF Competes, SameEvent, SameExternal
<1>6. Latest(F) \subseteq Latest(E)
  BY <1>2, <1>3, <1>5 DEF Latest
<1>7. ASSUME NEW f \in Latest(E), NEW g \in F, SameEvent(g, f)
      PROVE  g.nth <= f.nth
  <2>1. PICK n \in Nat : \A h \in F : h.nth \in 0..n
    <3>1. Cardinality(table.fact) \in Nat
      BY FS_CardinalityType DEF FactsSound, Numbered
    <3>2. \A h \in F : h.nth \in 0..Cardinality(table.fact)
      BY <3>1 DEF FactsSound, Numbered
    <3> QED
      BY <3>1, <3>2
  <2> DEFINE S == {h.nth : h \in {k \in F : SameExternal(k, g)}}
  <2>2. S \in SUBSET (0..n) /\ g.nth \in S
    BY <2>1 DEF SameExternal
  <2>3. PICK m \in S : \A k \in S : k <= m
    <3> HIDE DEF S
    <3> QED
      BY <2>2, GreatestNumber
  <2>4. PICK h \in F : SameExternal(h, g) /\ h.nth = m
    BY <2>3
  <2>5. h \in E
    <3>1. \A k \in F : SameExternal(k, h) => SameExternal(k, g)
      BY <2>4 DEF SameExternal
    <3> QED
      BY <1>2, <2>3, <2>4, <3>1
  <2>6. SameEvent(h, f)
    BY <1>7, <2>4 DEF SameEvent
  <2>7. h.nth <= f.nth /\ f \in F
    BY <1>3, <1>5, <1>7, <2>5, <2>6 DEF Latest
  <2>8. g.nth <= h.nth
    BY <2>2, <2>3, <2>4
  <2> QED
    BY <2>1, <2>4, <2>7, <2>8
<1>8. Latest(E) \subseteq Latest(F)
  BY <1>3, <1>5, <1>7 DEF Latest
<1> QED
  BY <1>4, <1>6, <1>8 DEF E

\* Of the point-in-time readers: as long as runs follow each other, at any cutoff they
\* select what was accepted last of what was known by then (observations_as_of,
\* prices_as_of and their siblings, over the later-than checks of service.py).
THEOREM ReadersSelectLatest == IngestionSpec => []ReadersSeeLatest
<1>1. ASSUME SerialInv, ~raced, NEW kind \in {f.kind : f \in table.fact} \ {"delivery"},
             NEW cutoff \in Cutoff, ~Reassigned(kind)
      PROVE  ReadAsOf(kind, cutoff) = Latest(KnownAsOf(kind, cutoff))
  <2> DEFINE F == KnownAsOf(kind, cutoff)
  <2>1. FactsSound(table)
    BY <1>1 DEF SerialInv
  <2>2. F \in SUBSET table.fact /\ \A f \in F : f.kind = kind
    BY DEF KnownAsOf
  <2>3. kind \in {"market", "benchmark", "financial", "action", "announcement", "attention"}
    BY <2>1 DEF FactsSound, Numbered, Kind
  <2>4. CASE kind \in {"market", "benchmark", "financial"}
    <3>1. NewestOfEvent(F) = Latest(F)
      BY <2>1, <2>2, <2>4, NewestEventsAreLatest
    <3> QED
      BY <2>4, <3>1 DEF ReadAsOf, PricesAsOf, BenchmarkAsOf, FinancialsAsOf
  <2>5. CASE kind = "announcement"
    <3>1. \A f, g \in F : Competes(g, f) <=> SameExternal(g, f)
      BY <2>2, <2>5 DEF Competes
    <3>2. NewestOfExternal(F) = Latest(F)
      BY <2>1, <2>2, <2>5, <3>1, NewestIdsAreLatest DEF Latest
    <3> QED
      BY <2>5, <3>2 DEF ReadAsOf, AnnouncementsAsOf
  <2>6. CASE kind \in {"action", "attention"}
    <3>1. \A f, g \in F : SameExternal(f, g) => SameEvent(f, g)
      BY <1>1, <2>2, <2>6 DEF Reassigned
    <3>2. NewestOfEvent(NewestOfExternal(F)) = Latest(F)
      BY <2>1, <2>2, <2>6, <3>1, NewestOfBothAreLatest
    <3> QED
      BY <2>6, <3>2 DEF ReadAsOf, CorporateActionsAsOf, AttentionAsOf
  <2> QED
    BY <2>3, <2>4, <2>5, <2>6
<1>2. SerialInv => ReadersSeeLatest
  BY <1>1 DEF ReadersSeeLatest, Latest
<1> QED
  BY <1>2, SerialSound, PTL

-----------------------------------------------------------------------------
(* The challenger and its holdout.                                         *)

USE ChallengerHoldoutAssumption

\* The rows that the holdout rests on.
RowsTyped ==
    /\ freeze \in Candidate \cup {None}
    /\ trial \in TrialRow

\* A command is a record, whatever it has read.
IsCommand(c) == c = Idle \/ c = [op |-> c.op, arg |-> c.arg, view |-> c.view, step |-> c.step]

CommandsTyped ==
    /\ command = [o \in Operator |-> command[o]]
    /\ \A o \in Operator : IsCommand(command[o])

\* A command that makes a holdout run has read its subject in a freeze row.
CreatesKnown == \A o \in Operator : command[o].op = "create" => command[o].arg \in Candidate \cup {None}

\* A command that opens a run has read it, is past the durable opening before it reads
\* a label, and has read the labels before it decides.
OpensKnown ==
    \A o \in Operator : command[o].op = "open" =>
        /\ trial.status # "absent"
        /\ command[o].arg \in Moment
        /\ command[o].step \in {"opened", "labelled"} => trial.openedAt # None
        /\ command[o].step = "labelled" => Cohorts("holdout") \subseteq seen

\* What is decided is a decision, and nothing is settled about a run before it exists.
HoldoutInv == RowsTyped /\ CommandsTyped /\ CreatesKnown /\ OpensKnown

-----------------------------------------------------------------------------
LEMMA HoldoutStarts == ChallengerInit => HoldoutInv
<1> SUFFICES ASSUME ChallengerInit
             PROVE  HoldoutInv
  OBVIOUS
<1> USE DEF ChallengerInit, Idle
<1>1. RowsTyped
  BY DEF RowsTyped, TrialRow
<1>2. \A o \in Operator : command[o] = Idle /\ command[o].op = "idle"
  OBVIOUS
<1>3. CommandsTyped
  BY <1>2 DEF CommandsTyped, IsCommand
<1>4. CreatesKnown /\ OpensKnown
  BY <1>2 DEF CreatesKnown, OpensKnown
<1> QED
  BY <1>1, <1>3, <1>4 DEF HoldoutInv

LEMMA JudgementDecides == ASSUME NEW s PROVE Judgement(s) \in Decision
  BY DEF Judgement, Decision

\* What a step that changes one command leaves of the others.
LEMMA OtherCommands ==
    ASSUME CommandsTyped, NEW o \in Operator,
           command' = [command EXCEPT ![o] = command'[o]], IsCommand(command'[o])
    PROVE  CommandsTyped' /\ \A u \in Operator \ {o} : command'[u] = command[u]
<1>1. \A u \in Operator \ {o} : command'[u] = command[u]
  BY DEF CommandsTyped
<1>2. command' = [u \in Operator |-> command'[u]]
  BY DEF CommandsTyped
<1>3. ASSUME NEW u \in Operator
      PROVE  IsCommand(command'[u])
  <2>1. CASE u = o
    BY <2>1
  <2>2. CASE u # o
    <3>1. command'[u] = command[u]
      BY <1>1, <2>2
    <3> QED
      BY <3>1 DEF CommandsTyped
  <2> QED
    BY <2>1, <2>2
<1> QED
  BY <1>1, <1>2, <1>3 DEF CommandsTyped, IsCommand

\* A holdout run is never unmade and never closed again, and what has been read of the
\* labels stays read.
LEMMA RunGrows ==
    ASSUME HoldoutInv, [ChallengerNext]_chVars
    PROVE  /\ RowsTyped'
           /\ trial.status # "absent" => trial'.status # "absent"
           /\ trial.openedAt # None => trial'.openedAt # None
           /\ seen \subseteq seen'
           /\ truth' = truth
<1> USE DEF HoldoutInv, RowsTyped, TrialRow
<1> DEFINE Changes(o) ==
              CreateTrial(o) \/ FreezeScores(o) \/ OpenHoldout(o) \/ Decide(o) \/ Freeze(o)
<1>1. ASSUME NEW o \in Operator, CreateTrial(o)
      PROVE  /\ RowsTyped' /\ trial'.status # "absent" /\ seen' = seen
             /\ trial'.openedAt = trial.openedAt /\ truth' = truth
  BY <1>1 DEF CreateTrial, Running, Finished, CreatesKnown
<1>2. ASSUME NEW o \in Operator, FreezeScores(o)
      PROVE  /\ RowsTyped'
             /\ trial.status # "absent" => trial'.status # "absent"
             /\ seen' = seen /\ trial'.openedAt = trial.openedAt /\ truth' = truth
  BY <1>2 DEF FreezeScores, Finished
<1>3. ASSUME NEW o \in Operator, OpenHoldout(o)
      PROVE  /\ RowsTyped' /\ trial'.status # "absent" /\ trial'.openedAt # None
             /\ seen' = seen /\ truth' = truth
  BY <1>3 DEF OpenHoldout, Running, OpensKnown
<1>4. ASSUME NEW o \in Operator, Decide(o)
      PROVE  /\ RowsTyped' /\ trial'.status # "absent" /\ trial'.openedAt = trial.openedAt
             /\ seen' = seen /\ truth' = truth
  BY <1>4, JudgementDecides DEF Decide, Running, OpensKnown, Finished
<1>5. ASSUME NEW o \in Operator, Freeze(o)
      PROVE  /\ RowsTyped' /\ trial' = trial /\ seen' = seen /\ truth' = truth
  BY <1>5 DEF Freeze, Finished
<1>6. ASSUME NEW o \in Operator, Changes(o)
      PROVE  /\ RowsTyped'
             /\ trial.status # "absent" => trial'.status # "absent"
             /\ trial.openedAt # None => trial'.openedAt # None
             /\ seen' = seen /\ truth' = truth
  <2> HIDE DEF HoldoutInv, RowsTyped, TrialRow
  <2>1. CASE CreateTrial(o)
    BY <1>1, <2>1
  <2>2. CASE FreezeScores(o)
    BY <1>2, <2>2
  <2>3. CASE OpenHoldout(o)
    BY <1>3, <2>3
  <2>4. CASE Decide(o)
    BY <1>4, <2>4
  <2>5. CASE Freeze(o)
    BY <1>5, <2>5
  <2> QED
    BY <1>6, <2>1, <2>2, <2>3, <2>4, <2>5
<1>7. CASE ~\E o \in Operator : Changes(o)
  <2>1. trial' = trial /\ freeze' = freeze /\ seen \subseteq seen' /\ truth' = truth
    BY <1>7 DEF ChallengerNext, CreateExperiment, Begins, Continues, BeginRegister, BeginDevelop,
       BeginSeal, BeginValidate, BeginFreeze, BeginCreateTrial, BeginFreezeScores, BeginOpen,
       BeginResume, Begin, Register, ReadDevelopment, ReadValidation, ReadHoldout, ReadLabels,
       Develop, Seal, Validate, Evaluated, Finished, Abandon, chVars
  <2> QED
    BY <2>1
<1>8. CASE \E o \in Operator : Changes(o)
  <2> HIDE DEF HoldoutInv, RowsTyped, TrialRow
  <2> QED
    BY <1>6, <1>8
<1> QED
  BY <1>7, <1>8

\* What a command knows after a step of its own.
LEMMA CommandStep ==
    ASSUME HoldoutInv, [ChallengerNext]_chVars, NEW o \in Operator, Begins(o) \/ Continues(o)
    PROVE  /\ CommandsTyped'
           /\ \A u \in Operator \ {o} : command'[u] = command[u]
           /\ command'[o].op = "create" => command'[o].arg \in Candidate \cup {None}
           /\ command'[o].op = "open" =>
                 /\ trial'.status # "absent"
                 /\ command'[o].arg \in Moment
                 /\ command'[o].step \in {"opened", "labelled"} => trial'.openedAt # None
                 /\ command'[o].step = "labelled" => Cohorts("holdout") \subseteq seen'
<1> USE DEF HoldoutInv
<1>1. ASSUME IsCommand(command'[o]), command' = [command EXCEPT ![o] = command'[o]]
      PROVE  CommandsTyped' /\ \A u \in Operator \ {o} : command'[u] = command[u]
  BY <1>1, OtherCommands
<1>2. CASE \/ \E c \in Candidate : BeginRegister(o, c)
           \/ BeginDevelop(o) \/ BeginSeal(o) \/ BeginValidate(o) \/ BeginFreeze(o)
           \/ BeginFreezeScores(o)
  <2>1. /\ command' = [command EXCEPT ![o] = command'[o]]
        /\ command'[o].op \notin {"create", "open"}
        /\ IsCommand(command'[o])
    BY <1>2 DEF BeginRegister, BeginDevelop, BeginSeal, BeginValidate, BeginFreeze,
       BeginFreezeScores, Begin, CommandsTyped, IsCommand
  <2> QED
    BY <1>1, <2>1
<1>3. CASE BeginCreateTrial(o)
  <2>1. /\ command' = [command EXCEPT ![o] = command'[o]]
        /\ command'[o] = [op |-> "create", arg |-> freeze, view |-> db, step |-> "read"]
    BY <1>3 DEF BeginCreateTrial, Begin, CommandsTyped
  <2>2. IsCommand(command'[o])
    BY <2>1 DEF IsCommand
  <2> QED
    BY <1>1, <2>1, <2>2 DEF RowsTyped
<1>4. CASE \E at \in Moment : BeginOpen(o, at)
  <2>1. PICK at \in Moment : BeginOpen(o, at)
    BY <1>4
  <2>2. /\ command' = [command EXCEPT ![o] = command'[o]]
        /\ command'[o] = [op |-> "open", arg |-> at, view |-> db, step |-> "read"]
        /\ trial' = trial /\ trial.status # "absent"
    BY <2>1 DEF BeginOpen, Begin, MayOpen, CommandsTyped
  <2>3. IsCommand(command'[o])
    BY <2>2 DEF IsCommand
  <2> QED
    BY <1>1, <2>2, <2>3
<1>5. CASE \E at \in Moment : BeginResume(o, at)
  <2>1. PICK at \in Moment : BeginResume(o, at)
    BY <1>5
  <2>2. /\ command' = [command EXCEPT ![o] = command'[o]]
        /\ command'[o] = [op |-> "open", arg |-> at, view |-> db, step |-> "opened"]
        /\ trial' = trial /\ trial.status # "absent" /\ trial.openedAt # None
    BY <2>1 DEF BeginResume, MayResume, CommandsTyped
  <2>3. IsCommand(command'[o])
    BY <2>2 DEF IsCommand
  <2> QED
    BY <1>1, <2>2, <2>3
<1>6. CASE \/ Register(o) \/ Develop(o) \/ Seal(o) \/ Validate(o) \/ Freeze(o)
           \/ CreateTrial(o) \/ FreezeScores(o) \/ Decide(o) \/ Abandon(o)
  <2>1. command' = [command EXCEPT ![o] = Idle]
    BY <1>6 DEF Register, Develop, Seal, Validate, Evaluated, Freeze, CreateTrial, FreezeScores,
       Decide, Abandon, Finished
  <2>2. command' = [command EXCEPT ![o] = command'[o]] /\ command'[o] = Idle
    BY <2>1 DEF CommandsTyped
  <2> QED
    BY <1>1, <2>2 DEF Idle, IsCommand
<1>9. ASSUME command[o] # Idle
      PROVE  command[o] = [op |-> command[o].op, arg |-> command[o].arg,
                           view |-> command[o].view, step |-> command[o].step]
  BY <1>9 DEF CommandsTyped, IsCommand
<1>10. ASSUME command[o] # Idle, command' = [command EXCEPT ![o].step = "labelled"]
       PROVE  /\ command' = [command EXCEPT ![o] = command'[o]]
              /\ command'[o] = [op |-> command[o].op, arg |-> command[o].arg,
                                view |-> command[o].view, step |-> "labelled"]
              /\ IsCommand(command'[o])
  <2>1. /\ command' = [command EXCEPT ![o] = command'[o]]
        /\ command'[o] = [command[o] EXCEPT !.step = "labelled"]
    BY <1>10 DEF CommandsTyped
  <2>2. command'[o] = [op |-> command[o].op, arg |-> command[o].arg,
                       view |-> command[o].view, step |-> "labelled"]
    BY <1>9, <1>10, <2>1
  <2> QED
    BY <2>1, <2>2 DEF IsCommand
<1>11. CASE ReadDevelopment(o) \/ ReadValidation(o)
  <2>1. /\ command' = [command EXCEPT ![o].step = "labelled"]
        /\ command[o].op \in {"develop", "validate"}
    BY <1>11 DEF ReadDevelopment, ReadValidation, ReadLabels, Running
  <2>2. command[o] # Idle
    BY <2>1 DEF Idle
  <2> QED
    BY <1>1, <1>10, <2>1, <2>2
<1>12. CASE ReadHoldout(o)
  <2>1. /\ command' = [command EXCEPT ![o].step = "labelled"]
        /\ command[o].op = "open" /\ command[o].step = "opened"
        /\ Cohorts("holdout") \subseteq seen' /\ trial' = trial
    BY <1>12 DEF ReadHoldout, ReadLabels, Running
  <2>2. command[o] # Idle
    BY <2>1 DEF Idle
  <2>3. trial.status # "absent" /\ command[o].arg \in Moment /\ trial.openedAt # None
    BY <2>1 DEF OpensKnown
  <2> QED
    BY <1>1, <1>10, <2>1, <2>2, <2>3
<1>13. CASE OpenHoldout(o)
  <2>1. /\ command' = [command EXCEPT ![o].step = "opened", ![o].view[5] = trial']
        /\ command[o].op = "open" /\ command[o].step = "read"
        /\ trial' = [trial EXCEPT !.status = "holdout_opened", !.openedAt = command[o].arg]
    BY <1>13 DEF OpenHoldout, Running
  <2>2. command[o] # Idle
    BY <2>1 DEF Idle
  <2> DEFINE after == [command[o].view EXCEPT ![5] = trial']
  <2>3. /\ command' = [command EXCEPT ![o] = command'[o]]
        /\ command'[o] = [command[o] EXCEPT !.step = "opened", !.view = after]
    BY <1>9, <2>1, <2>2 DEF CommandsTyped
  <2> HIDE DEF after
  <2>4. command'[o] = [op |-> "open", arg |-> command[o].arg, view |-> after, step |-> "opened"]
    <3>1. PICK op, a, v, step : command[o] = [op |-> op, arg |-> a, view |-> v, step |-> step]
      BY <1>9, <2>2
    <3>2. op = "open" /\ command[o].arg = a
      BY <2>1, <3>1
    <3>3. command'[o] = [op |-> op, arg |-> a, view |-> after, step |-> "opened"]
      <4>1. PICK c, d, u : c = command[o] /\ d = command'[o] /\ u = after
        OBVIOUS
      <4>2. c = [op |-> op, arg |-> a, view |-> v, step |-> step]
        BY <3>1, <4>1
      <4>3. d = [c EXCEPT !.step = "opened", !.view = u]
        BY <2>3, <4>1
      <4>4. d = [op |-> op, arg |-> a, view |-> u, step |-> "opened"]
        BY ONLY <4>2, <4>3
      <4> QED
        BY <4>1, <4>4
    <3> QED
      BY <3>2, <3>3
  <2>5. command[o].arg \in Moment
    BY <2>1 DEF OpensKnown
  <2>6. trial'.status # "absent" /\ trial'.openedAt # None
    BY <2>1, <2>5 DEF RowsTyped, TrialRow
  <2>7. IsCommand(command'[o])
    BY <2>4 DEF IsCommand
  <2>8. /\ command'[o].op = "open" /\ command'[o].step = "opened"
        /\ command'[o].arg = command[o].arg
    BY <2>4
  <2>9. CommandsTyped' /\ \A u \in Operator \ {o} : command'[u] = command[u]
    BY <1>1, <2>3, <2>7
  <2> QED
    BY <2>5, <2>6, <2>8, <2>9
<1> QED
  BY <1>2, <1>3, <1>4, <1>5, <1>6, <1>11, <1>12, <1>13 DEF Begins, Continues

LEMMA HoldoutKept == HoldoutInv /\ [ChallengerNext]_chVars => HoldoutInv'
<1> SUFFICES ASSUME HoldoutInv, [ChallengerNext]_chVars
             PROVE  HoldoutInv'
  OBVIOUS
<1>1. CASE CreateExperiment \/ UNCHANGED chVars
  <2>1. UNCHANGED <<freeze, trial, seen, command>>
    BY <1>1 DEF CreateExperiment, chVars
  <2> QED
    BY <2>1 DEF HoldoutInv, RowsTyped, CommandsTyped, CreatesKnown, OpensKnown
<1>2. ASSUME NEW o \in Operator, Begins(o) \/ Continues(o)
      PROVE  HoldoutInv'
  <2>1. CreatesKnown'
    BY <1>2, CommandStep DEF HoldoutInv, CreatesKnown
  <2>2. OpensKnown'
    <3>1. ASSUME NEW u \in Operator \ {o}, command[u].op = "open"
          PROVE  /\ trial'.status # "absent"
                 /\ command'[u] = command[u]
                 /\ command[u].arg \in Moment
                 /\ command[u].step \in {"opened", "labelled"} => trial'.openedAt # None
                 /\ command[u].step = "labelled" => Cohorts("holdout") \subseteq seen'
      BY <1>2, <3>1, CommandStep, RunGrows DEF HoldoutInv, OpensKnown
    <3> QED
      BY <1>2, <3>1, CommandStep DEF OpensKnown
  <2> QED
    BY <1>2, <2>1, <2>2, CommandStep, RunGrows DEF HoldoutInv
<1> QED
  BY <1>1, <1>2 DEF ChallengerNext

LEMMA HoldoutSound == ChallengerSpec => []HoldoutInv
  BY HoldoutStarts, HoldoutKept, PTL DEF ChallengerSpec

\* The cohorts of other splits tell nothing of the holdout.
LEMMA SplitsApart ==
    ASSUME NEW split \in {"development", "validation"}
    PROVE  Cohorts(split) \cap Cohorts("holdout") = {} /\ Cohorts("holdout") # {}
  BY DEF Cohorts

-----------------------------------------------------------------------------
\* Of the challenger and its holdout: however commands overlap or die, the subject is
\* settled before the holdout opens and never changes, no command reads a holdout label
\* before the opening is durable, and the one verdict is the judgement on that subject
\* (multibagger_holdout.open_and_evaluate_holdout).
THEOREM HoldoutPromiseKept == ChallengerSpec => KeepsHoldoutPromise
<1> DEFINE Settled == IF trial.status = "absent" THEN Unsettled ELSE trial.subject
           Looked == seen \cap Cohorts("holdout") # {}
           Finding == IF trial.decision = None THEN Unsettled ELSE trial.decision
           Judged == [s \in Candidate \cup {None} |-> Judgement(s)]
           seenVars == <<Judged, Settled, trial.openedAt # None, Looked, Finding>>
<1>1. ChallengerInit => Promise!Init
  BY DEF ChallengerInit, Promise!Init
<1>2. ASSUME HoldoutInv, [ChallengerNext]_chVars
      PROVE  [Promise!Next]_seenVars
  <2>1. Judged' = Judged
    <3>1. truth' = truth
      BY <1>2, RunGrows
    <3> QED
      BY <3>1 DEF Judgement, HoldoutGate, Gate, CandidateMetrics, ChampionMetrics
  <2>2. ASSUME trial' = trial, Looked' = Looked
        PROVE  UNCHANGED seenVars
    BY <2>1, <2>2
  <2> USE <1>2 DEF HoldoutInv, RowsTyped, TrialRow
  <2>3. ASSUME NEW o \in Operator, CreateTrial(o)
        PROVE  Promise!Settle
    <3>1. /\ trial.status = "absent" /\ seen' = seen
          /\ trial' = [trial EXCEPT !.status = "draft", !.subject = command[o].arg]
          /\ command[o].arg \in Candidate \cup {None}
      BY <2>3 DEF CreateTrial, Finished, Running, CreatesKnown
    <3>2. /\ trial'.status = "draft" /\ trial'.subject = command[o].arg
          /\ trial'.openedAt = trial.openedAt /\ trial'.decision = trial.decision
      BY <3>1
    <3> QED
      BY <2>1, <3>1, <3>2 DEF Promise!Settle
  <2>4. ASSUME NEW o \in Operator, FreezeScores(o)
        PROVE  UNCHANGED seenVars
    <3>1. /\ seen' = seen
          /\ trial'.status = "absent" <=> trial.status = "absent"
          /\ trial'.subject = trial.subject
          /\ trial'.openedAt = trial.openedAt /\ trial'.decision = trial.decision
      BY <2>4 DEF FreezeScores, Finished
    <3> QED
      BY <2>1, <3>1
  <2>5. ASSUME NEW o \in Operator, OpenHoldout(o)
        PROVE  Promise!Open \/ UNCHANGED seenVars
    <3>1. /\ seen' = seen /\ trial.status # "absent" /\ command[o].arg \in Moment
          /\ trial' = [trial EXCEPT !.status = "holdout_opened", !.openedAt = command[o].arg]
      BY <2>5 DEF OpenHoldout, Running, OpensKnown
    <3>2. /\ trial'.status = "holdout_opened" /\ trial'.subject = trial.subject
          /\ trial'.openedAt # None /\ trial'.decision = trial.decision
      BY <3>1
    <3>3. Settled # Unsettled /\ Settled' = Settled
      BY <3>1, <3>2
    <3>4. CASE trial.openedAt = None
      BY <2>1, <3>1, <3>2, <3>3, <3>4 DEF Promise!Open
    <3>5. CASE trial.openedAt # None
      BY <2>1, <3>1, <3>2, <3>3, <3>5
    <3> QED
      BY <3>4, <3>5
  <2>6. ASSUME NEW o \in Operator, ReadHoldout(o)
        PROVE  Promise!Look
    <3>1. /\ trial' = trial /\ trial.openedAt # None
          /\ seen' = seen \cup Cohorts("holdout")
      BY <2>6 DEF ReadHoldout, ReadLabels, Running, OpensKnown
    <3>2. Looked'
      BY <3>1, SplitsApart
    <3> QED
      BY <2>1, <3>1, <3>2 DEF Promise!Look
  <2>7. ASSUME NEW o \in Operator, Decide(o)
        PROVE  Promise!Rule \/ UNCHANGED seenVars
    <3>1. /\ seen' = seen /\ trial.status # "absent" /\ Cohorts("holdout") \subseteq seen
          /\ trial' = [trial EXCEPT !.status = "completed", !.completedAt = command[o].arg,
                         !.decision = IF @ = None THEN Judgement(trial.subject) ELSE @]
      BY <2>7 DEF Decide, Finished, Running, OpensKnown
    <3>2. /\ trial'.status = "completed" /\ trial'.subject = trial.subject
          /\ trial'.openedAt = trial.openedAt
          /\ trial'.decision = IF trial.decision = None THEN Judgement(trial.subject)
                               ELSE trial.decision
      BY <3>1
    <3>3. Settled = trial.subject /\ Settled' = Settled /\ Looked /\ Looked' = Looked
      BY <3>1, <3>2, SplitsApart
    <3>4. CASE trial.decision = None
      <4>1. Finding = Unsettled /\ Finding' = Judged[Settled]
        BY <3>2, <3>3, <3>4, JudgementDecides
      <4> QED
        BY <2>1, <3>2, <3>3, <4>1 DEF Promise!Rule
    <3>5. CASE trial.decision # None
      BY <2>1, <3>2, <3>3, <3>5
    <3> QED
      BY <3>4, <3>5
  <2>8. ASSUME NEW o \in Operator, ReadDevelopment(o) \/ ReadValidation(o)
        PROVE  UNCHANGED seenVars
    <3>1. /\ trial' = trial
          /\ \E split \in {"development", "validation"} : seen' = seen \cup Cohorts(split)
      BY <2>8 DEF ReadDevelopment, ReadValidation, ReadLabels
    <3>2. Looked' = Looked
      BY <3>1, SplitsApart
    <3> QED
      BY <2>2, <3>1, <3>2
  <2>9. CASE ~\E o \in Operator : \/ CreateTrial(o) \/ FreezeScores(o) \/ OpenHoldout(o)
                                  \/ ReadHoldout(o) \/ Decide(o)
                                  \/ ReadDevelopment(o) \/ ReadValidation(o)
    <3>1. trial' = trial /\ seen' = seen
      BY <2>9 DEF ChallengerNext, CreateExperiment, Begins, Continues, BeginRegister, BeginDevelop,
         BeginSeal, BeginValidate, BeginFreeze, BeginCreateTrial, BeginFreezeScores, BeginOpen,
         BeginResume, Begin, Register, Develop, Seal, Validate, Evaluated, Freeze, Finished,
         Abandon, chVars
    <3> QED
      BY <2>2, <3>1
  <2> QED
    BY <2>3, <2>4, <2>5, <2>6, <2>7, <2>8, <2>9 DEF Promise!Next
<1> QED
  BY <1>1, <1>2, HoldoutSound, PTL DEF ChallengerSpec, KeepsHoldoutPromise, Promise!Spec

-----------------------------------------------------------------------------
(* The rows that measure a model.                                          *)

\* The rows of a model that gives each cohort its scores.
Pooled(scores, world, split, h) ==
    UNION {ConfusionRows(k, scores[k], Outcomes[world][h][k], Primary, "end_to_end")
            : k \in Cohorts(split)}

ScoresOf(c) == [k \in Cohort |-> CandidateScore(c, k)]

\* It scores the securities that the champion scores.
ScoresAll(scores) == \A k \in Cohort : DOMAIN scores[k] = DOMAIN ChampionScore[k]

LEMMA PoolsOfModels ==
    ASSUME NEW world, NEW split, NEW h, NEW c
    PROVE  /\ CandidateRows(world, c, split, h) = Pooled(ScoresOf(c), world, split, h)
           /\ ChampionRows(world, split, h) = Pooled(ChampionScore, world, split, h)
           /\ ScoresAll(ScoresOf(c)) /\ ScoresAll(ChampionScore)
<1>1. \A k \in Cohort : ScoresOf(c)[k] = CandidateScore(c, k)
  BY DEF ScoresOf
<1>2. \A k \in Cohort : DOMAIN CandidateScore(c, k) = DOMAIN ChampionScore[k]
  BY DEF CandidateScore
<1>3. Cohorts(split) \subseteq Cohort
  BY DEF Cohorts
<1>4. CandidateRows(world, c, split, h) = Pooled(ScoresOf(c), world, split, h)
  BY <1>1, <1>3 DEF CandidateRows, Pooled
<1> QED
  BY <1>1, <1>2, <1>4 DEF ScoresAll, ChampionRows, Pooled

\* The securities of the cohorts of a split, each of which has one row.
Cells(split) == UNION {{k} \X DOMAIN ChampionScore[k] : k \in Cohorts(split)}

LEMMA CellsFinite ==
    ASSUME NEW split
    PROVE  IsFiniteSet(Cells(split))
<1> DEFINE of(k) == {k} \X DOMAIN ChampionScore[k]
           F == {of(k) : k \in Cohorts(split)}
<1>1. Cohorts(split) \subseteq Cohort
  BY DEF Cohorts
<1>2. IsFiniteSet(Cohorts(split))
  BY <1>1, FS_Subset
<1>3. \A k \in Cohorts(split) : IsFiniteSet(of(k))
  BY <1>1, FS_Singleton, FS_Product
<1>4. IsFiniteSet(F)
  <2> DEFINE f == [k \in Cohorts(split) |-> of(k)]
  <2> HIDE DEF of
  <2>1. f \in [Cohorts(split) -> F] /\ \A T \in F : \E k \in Cohorts(split) : f[k] = T
    OBVIOUS
  <2> HIDE DEF f, F
  <2>2. f \in Surjection(Cohorts(split), F)
    BY <2>1, Fun_IsSurj
  <2> QED
    BY <1>2, <2>2, FS_Surjection
<1>5. \A T \in F : IsFiniteSet(T)
  BY <1>3
<1> HIDE DEF F
<1>6. IsFiniteSet(UNION F)
  BY <1>4, <1>5, FS_UNION
<1> QED
  BY <1>6 DEF F, Cells

\* What the rows of a model say of each security.
RowsTold(rows, world, split, h) ==
    /\ \A r \in rows :
          /\ <<r.cohort, r.security>> \in Cells(split)
          /\ r.rank \in Nat
          /\ r.label = Outcomes[world][h][r.cohort][r.security]
          /\ r.label = "positive" <=> r.class \in {"tp", "fn"}
    /\ \A r, q \in rows : r.cohort = q.cohort /\ r.security = q.security => r = q
    /\ \A cell \in Cells(split) : \E r \in rows : <<r.cohort, r.security>> = cell

LEMMA OrderCounted ==
    ASSUME NEW score, IsFiniteSet(DOMAIN score), NEW s
    PROVE  DisplayOrder(score, s) \in Nat
<1> DEFINE T == {t \in Rankable(score) : Ahead(score, t, s)}
<1>1. T \in SUBSET DOMAIN score
  BY DEF Rankable
<1> HIDE DEF T
<1>2. Cardinality(T) \in Nat
  BY <1>1, FS_Subset, FS_CardinalityType
<1> QED
  BY <1>2 DEF DisplayOrder, T

LEMMA PoolTells ==
    ASSUME NEW scores, ScoresAll(scores), NEW world \in World, NEW h \in Horizon, NEW split
    PROVE  RowsTold(Pooled(scores, world, split, h), world, split, h)
<1> DEFINE label(k) == Outcomes[world][h][k]
           row(k, s) ==
              [cohort |-> k, security |-> s,
               rank |-> IF s \in Rankable(scores[k]) THEN DisplayOrder(scores[k], s) ELSE 0,
               selected |-> IsSelected(scores[k], Primary, s), label |-> label(k)[s],
               class |-> ConfusionClass(s \in Rankable(scores[k]),
                                        IsSelected(scores[k], Primary, s),
                                        label(k)[s], "end_to_end")]
           rows == Pooled(scores, world, split, h)
<1>1. \A k \in Cohorts(split) : k \in Cohort /\ DOMAIN scores[k] = DOMAIN ChampionScore[k]
  BY DEF Cohorts, ScoresAll
<1>2. \A r : r \in rows <=>
              \E k \in Cohorts(split) : \E s \in DOMAIN ChampionScore[k] : r = row(k, s)
  <2>1. \A k : ConfusionRows(k, scores[k], label(k), Primary, "end_to_end") =
                   {row(k, s) : s \in DOMAIN scores[k]}
    BY DEF ConfusionRows
  <2>2. \A r : r \in rows <=>
               \E k \in Cohorts(split) :
                  r \in ConfusionRows(k, scores[k], label(k), Primary, "end_to_end")
    BY DEF Pooled
  <2> HIDE DEF label, row, rows
  <2>3. \A r : r \in rows <=>
               \E k \in Cohorts(split) : r \in {row(k, s) : s \in DOMAIN scores[k]}
    BY <2>1, <2>2
  <2> QED
    BY <1>1, <2>3
<1>3. \A cell : cell \in Cells(split) <=>
              \E k \in Cohorts(split) : \E s \in DOMAIN ChampionScore[k] : cell = <<k, s>>
  BY DEF Cells
<1>4. ASSUME NEW k \in Cohorts(split), NEW s \in DOMAIN ChampionScore[k]
      PROVE  /\ row(k, s).cohort = k /\ row(k, s).security = s
             /\ row(k, s).rank \in Nat
             /\ row(k, s).label = label(k)[s]
             /\ row(k, s).label = "positive" <=> row(k, s).class \in {"tp", "fn"}
  <2>1. label(k)[s] \in Label
    BY <1>1
  <2>2. IsFiniteSet(DOMAIN scores[k])
    BY <1>1
  <2>3. DisplayOrder(scores[k], s) \in Nat
    BY <2>2, OrderCounted
  <2>4. label(k)[s] = "positive" <=>
           ConfusionClass(s \in Rankable(scores[k]), IsSelected(scores[k], Primary, s),
                          label(k)[s], "end_to_end") \in {"tp", "fn"}
    BY <2>1 DEF ConfusionClass, Label
  <2> QED
    BY <2>3, <2>4
<1> HIDE DEF row, rows
<1>5. \A r \in rows :
         /\ <<r.cohort, r.security>> \in Cells(split)
         /\ r.rank \in Nat
         /\ r.label = Outcomes[world][h][r.cohort][r.security]
         /\ r.label = "positive" <=> r.class \in {"tp", "fn"}
  BY <1>2, <1>3, <1>4
<1>6. \A r, q \in rows : r.cohort = q.cohort /\ r.security = q.security => r = q
  BY <1>2, <1>4
<1>7. \A cell \in Cells(split) : \E r \in rows : <<r.cohort, r.security>> = cell
  BY <1>2, <1>3, <1>4
<1> QED
  BY <1>5, <1>6, <1>7 DEF RowsTold, rows

\* A pool is finite, one row for each of its cells.
LEMMA PoolFinite ==
    ASSUME NEW rows, NEW world, NEW split, NEW h, RowsTold(rows, world, split, h)
    PROVE  IsFiniteSet(rows)
<1> DEFINE f == [r \in rows |-> <<r.cohort, r.security>>]
<1>1. f \in [rows -> Cells(split)]
  BY DEF RowsTold
<1>2. \A r, q \in rows : f[r] = f[q] => r = q
  BY DEF RowsTold
<1> HIDE DEF f
<1>3. f \in Injection(rows, Cells(split))
  BY <1>1, <1>2, Fun_IsInj
<1> QED
  BY <1>3, CellsFinite, FS_Injection

\* Every model faces the same positives.
LEMMA SamePositives ==
    ASSUME NEW rows, NEW other, NEW world, NEW split, NEW h,
           RowsTold(rows, world, split, h), RowsTold(other, world, split, h)
    PROVE  InClass(rows, {"tp", "fn"}) = InClass(other, {"tp", "fn"})
<1> DEFINE Cell == {c \in Cells(split) : Outcomes[world][h][c[1]][c[2]] = "positive"}
<1>1. ASSUME NEW R, RowsTold(R, world, split, h)
      PROVE  InClass(R, {"tp", "fn"}) = Cardinality(Cell)
  <2> DEFINE H == {r \in R : r.class \in {"tp", "fn"}}
             f == [r \in H |-> <<r.cohort, r.security>>]
  <2>1. f \in [H -> Cell]
    <3>1. ASSUME NEW r \in H
          PROVE  <<r.cohort, r.security>> \in Cell
      <4>1. /\ <<r.cohort, r.security>> \in Cells(split)
            /\ Outcomes[world][h][r.cohort][r.security] = "positive"
        BY <1>1 DEF RowsTold
      <4> QED
        BY <4>1
    <3> QED
      BY <3>1
  <2>2. \A r, q \in H : f[r] = f[q] => r = q
    BY <1>1 DEF RowsTold
  <2>3. ASSUME NEW c \in Cell
        PROVE  \E r \in H : f[r] = c
    <3>1. PICK r \in R : <<r.cohort, r.security>> = c
      BY <1>1 DEF RowsTold
    <3>2. c[1] = r.cohort /\ c[2] = r.security
      BY <3>1
    <3>3. r \in H
      BY <1>1, <3>2 DEF RowsTold
    <3> QED
      BY <3>1, <3>3
  <2>4. IsFiniteSet(Cell)
    BY CellsFinite, FS_Subset
  <2>5. IsFiniteSet(R)
    BY <1>1, PoolFinite
  <2>6. IsFiniteSet(H)
    BY <2>5, FS_Subset
  <2> HIDE DEF f, H, Cell
  <2>7. f \in Bijection(H, Cell)
    BY <2>1, <2>2, <2>3, Fun_IsBij
  <2>8. Cardinality(Cell) = Cardinality(H)
    BY <2>6, <2>7, FS_Bijection DEF ExistsBijection
  <2> QED
    BY <2>8 DEF InClass, H
<1> QED
  BY <1>1

LEMMA ClassesAdd ==
    ASSUME NEW rows, IsFiniteSet(rows), NEW a, NEW b, a # b
    PROVE  /\ InClass(rows, {a}) \in Nat /\ InClass(rows, {b}) \in Nat
           /\ InClass(rows, {a, b}) = InClass(rows, {a}) + InClass(rows, {b})
<1> DEFINE of(C) == {r \in rows : r.class \in C}
<1>1. IsFiniteSet(of({a})) /\ IsFiniteSet(of({b}))
  BY FS_Subset
<1>2. of({a, b}) = of({a}) \cup of({b}) /\ of({a}) \cap of({b}) = {}
  OBVIOUS
<1> HIDE DEF of
<1>3. Cardinality(of({a})) \in Nat /\ Cardinality(of({b})) \in Nat
  BY <1>1, FS_CardinalityType
<1>4. Cardinality(of({a, b})) = Cardinality(of({a})) + Cardinality(of({b})) - Cardinality({})
  BY <1>1, <1>2, FS_Union
<1>5. Cardinality({}) = 0
  BY FS_EmptySet
<1>6. Cardinality(of({a, b})) = Cardinality(of({a})) + Cardinality(of({b}))
  BY <1>3, <1>4, <1>5
<1> QED
  BY <1>3, <1>6 DEF InClass, of

\* With the same positives, no worse a recall and a better F1 are more hits, or as many
\* hits and fewer misses.
LEMMA HitsOrPrecision ==
    ASSUME NEW t \in Nat, NEW n \in Nat, NEW p \in Nat,
           NEW t0 \in Nat, NEW n0 \in Nat, NEW p0 \in Nat,
           t + n = t0 + n0, t + n # 0, t # 0, t0 # 0,
           ~(t * (t0 + n0) < t0 * (t + n)),
           (2 * t0) * (2 * t + (p + n)) < (2 * t) * (2 * t0 + (p0 + n0))
    PROVE  t > t0 \/ (t = t0 /\ p < p0)
<1>1. t >= t0
  <2> DEFINE P == t + n
  <2>1. P \in Nat /\ P > 0 /\ ~(t * P < t0 * P)
    OBVIOUS
  <2> HIDE DEF P
  <2> QED
    BY <2>1
<1>2. CASE t = t0
  <2>1. n = n0
    BY <1>2
  <2>2. (2 * t) * (2 * t + (p + n)) < (2 * t) * (2 * t + (p0 + n))
    BY <1>2, <2>1
  <2> DEFINE T == 2 * t
             x == T + (p + n)
             y == T + (p0 + n)
  <2>3. T \in Nat /\ T > 0 /\ x \in Nat /\ y \in Nat /\ T * x < T * y
    BY <2>2
  <2>4. x < y
    <3> HIDE DEF T, x, y
    <3> QED
      BY <2>3
  <2> QED
    BY <1>2, <2>4
<1> QED
  BY <1>1, <1>2

\* A model that passes the gate on the cohorts of a split does better there.
LEMMA GateEarns ==
    ASSUME NEW c \in Candidate, NEW split \in SplitName, truth \in World, Gate(c, split)
    PROVE  Better(CandidateRows(truth, c, split, "MB_3X_3Y"),
                  ChampionRows(truth, split, "MB_3X_3Y"))
<1> DEFINE rows == CandidateRows(truth, c, split, "MB_3X_3Y")
           other == ChampionRows(truth, split, "MB_3X_3Y")
<1>1. RowsTold(rows, truth, split, "MB_3X_3Y") /\ RowsTold(other, truth, split, "MB_3X_3Y")
  BY PoolsOfModels, PoolTells DEF Horizon
<1>2. /\ CandidateMetrics[truth][c][split]["MB_3X_3Y"] = Measures(rows)
      /\ ChampionMetrics[truth][split]["MB_3X_3Y"] = Measures(other)
  BY DEF CandidateMetrics, ChampionMetrics, Horizon
<1>3. BeatsOnPrimary(Measures(rows), Measures(other))
  BY <1>2 DEF Gate
<1> HIDE DEF rows, other
<1> DEFINE In(R, class) == InClass(R, {class})
<1>4. ASSUME NEW R, R = rows \/ R = other
      PROVE  /\ In(R, "tp") \in Nat /\ In(R, "fn") \in Nat /\ In(R, "fp") \in Nat
             /\ InClass(R, {"tp", "fn"}) = In(R, "tp") + In(R, "fn")
             /\ InClass(R, {"fp", "fn"}) = In(R, "fp") + In(R, "fn")
             /\ Supported(Measures(R))
  <2>1. IsFiniteSet(R)
    BY <1>1, <1>4, PoolFinite
  <2>2. Supported(Measures(R))
    BY <1>3, <1>4 DEF BeatsOnPrimary
  <2> QED
    BY <2>1, <2>2, ClassesAdd
<1>5. InClass(rows, {"tp", "fn"}) = InClass(other, {"tp", "fn"})
  BY <1>1, SamePositives
<1>6. ASSUME NEW R, R = rows \/ R = other
      PROVE  /\ In(R, "tp") # 0 /\ In(R, "tp") + In(R, "fn") # 0
             /\ Measures(R).recall = <<In(R, "tp"), In(R, "tp") + In(R, "fn")>>
             /\ Measures(R).f1 = <<2 * In(R, "tp"),
                                   2 * In(R, "tp") + (In(R, "fp") + In(R, "fn"))>>
  <2>1. Defined(Recall(R)) /\ Defined(F1(R))
    BY <1>4, <1>6 DEF Supported, Measures
  <2>2. In(R, "tp") # 0
    BY <2>1 DEF Defined, F1
  <2> QED
    BY <1>4, <1>6, <2>1, <2>2 DEF Defined, Recall, F1, Measures
<1>7. /\ ~Less(Measures(rows).recall, Measures(other).recall)
      /\ Less(Measures(other).f1, Measures(rows).f1)
  BY <1>3 DEF BeatsOnPrimary
<1>8. \/ In(rows, "tp") > In(other, "tp")
      \/ In(rows, "tp") = In(other, "tp") /\ In(rows, "fp") < In(other, "fp")
  <2> DEFINE t == In(rows, "tp")
             n == In(rows, "fn")
             p == In(rows, "fp")
             u == In(other, "tp")
             m == In(other, "fn")
             q == In(other, "fp")
  <2>1. t \in Nat /\ n \in Nat /\ p \in Nat /\ u \in Nat /\ m \in Nat /\ q \in Nat
    BY <1>4
  <2>2. t + n = u + m /\ t + n # 0 /\ t # 0 /\ u # 0
    BY <1>4, <1>5, <1>6
  <2>3. /\ ~(t * (u + m) < u * (t + n))
        /\ (2 * u) * (2 * t + (p + n)) < (2 * t) * (2 * u + (q + m))
    BY <1>6, <1>7 DEF Less
  <2> HIDE DEF t, n, p, u, m, q
  <2>4. t > u \/ (t = u /\ p < q)
    BY <2>1, <2>2, <2>3, HitsOrPrecision
  <2> QED
    BY <2>4 DEF t, p, u, q
<1> QED
  BY <1>8 DEF Better, Found, Wrong, rows, other

-----------------------------------------------------------------------------
(* The candidate that is selected.                                         *)

Ratio == Int \X (Nat \ {0})

LEMMA LessMidway ==
    ASSUME NEW x \in Ratio, NEW y \in Ratio, NEW z \in Ratio, Less(x, y), ~Less(z, y)
    PROVE  Less(x, z)
<1>1. PICK a, c, e \in Int, b, d, f \in Nat \ {0} :
           x = <<a, b>> /\ y = <<c, d>> /\ z = <<e, f>>
  BY DEF Ratio
<1>2. a * d < c * b /\ c * f <= e * d
  BY <1>1 DEF Less
<1>3. (a * d) * f < (c * b) * f
  <2> DEFINE u == a * d
             v == c * b
  <2>1. u \in Int /\ v \in Int /\ u < v
    BY <1>2
  <2> HIDE DEF u, v
  <2>2. u * f < v * f
    BY <2>1
  <2> QED
    BY <2>2 DEF u, v
<1>4. (c * f) * b <= (e * d) * b
  <2> DEFINE u == c * f
             v == e * d
  <2>1. u \in Int /\ v \in Int /\ u <= v
    BY <1>2
  <2> HIDE DEF u, v
  <2>2. u * b <= v * b
    BY <2>1
  <2> QED
    BY <2>2 DEF u, v
<1>5. d * (a * f) < d * (e * b)
  BY <1>3, <1>4
<1>6. a * f < e * b
  <2> DEFINE u == a * f
             v == e * b
  <2>1. u \in Int /\ v \in Int /\ d * u < d * v
    BY <1>5
  <2> HIDE DEF u, v
  <2>2. u < v
    BY <2>1
  <2> QED
    BY <2>2 DEF u, v
<1> QED
  BY <1>1, <1>6 DEF Less

LEMMA LessAsymmetric ==
    ASSUME NEW x \in Ratio, NEW y \in Ratio, Less(x, y)
    PROVE  ~Less(y, x)
<1>1. PICK a, c \in Int, b, d \in Nat \ {0} : x = <<a, b>> /\ y = <<c, d>>
  BY DEF Ratio
<1> DEFINE u == a * d
           v == c * b
<1>2. u \in Int /\ v \in Int /\ u < v
  BY <1>1 DEF Less
<1> HIDE DEF u, v
<1>3. ~(v < u)
  BY <1>2
<1> QED
  BY <1>1, <1>3 DEF Less, u, v

LEMMA SmallestOf ==
    ASSUME NEW S \in SUBSET Nat, S # {}
    PROVE  \E n \in S : \A m \in S : n <= m
<1> DEFINE R == OpToRel(<, Nat)
<1>1. \A m, n \in Nat : m < n => <<m, n>> \in R
  BY Zenon DEF OpToRel
<1>2. IsWellFoundedOn(R, Nat)
  BY NatLessThanWellFounded
<1> HIDE DEF R
<1>3. PICK n \in S : \A m \in S : ~(<<m, n>> \in R)
  BY <1>2, WFMin
<1>4. ASSUME NEW m \in S
      PROVE  ~(m < n)
  BY <1>1, <1>3
<1>5. \A m \in S : n <= m
  BY <1>4
<1> QED
  BY <1>5

\* Some member of a finite set is surpassed by none.
LEMMA Unsurpassed ==
    ASSUME NEW S, IsFiniteSet(S), S # {}, NEW x, \A c \in S : x[c] \in Ratio
    PROVE  \E c \in S : \A d \in S : ~Less(x[c], x[d])
<1> DEFINE Above(c) == {d \in S : Less(x[c], x[d])}
           Counts == {Cardinality(Above(c)) : c \in S}
<1>1. \A c \in S : IsFiniteSet(Above(c)) /\ Cardinality(Above(c)) \in Nat
  <2>1. \A c \in S : Above(c) \in SUBSET S
    OBVIOUS
  <2> HIDE DEF Above
  <2> QED
    BY <2>1, FS_Subset, FS_CardinalityType
<1>2. Counts \in SUBSET Nat /\ Counts # {}
  BY <1>1
<1>3. PICK n \in Counts : \A m \in Counts : n <= m
  <2> HIDE DEF Counts
  <2> QED
    BY <1>2, SmallestOf
<1>4. PICK c \in S : n = Cardinality(Above(c))
  OBVIOUS
<1>5. ASSUME NEW d \in S, Less(x[c], x[d])
      PROVE  FALSE
  <2>1. \A e \in S : Less(x[d], x[e]) => Less(x[c], x[e])
    BY <1>5, LessMidway, LessAsymmetric
  <2>2. ~Less(x[d], x[d])
    BY LessAsymmetric
  <2>3. Above(d) \subseteq Above(c) /\ d \in Above(c) /\ d \notin Above(d)
    BY <1>5, <2>1, <2>2
  <2>4. Cardinality(Above(c)) <= Cardinality(Above(d))
    <3>1. Cardinality(Above(d)) \in Counts
      OBVIOUS
    <3> HIDE DEF Counts, Above
    <3> QED
      BY <1>3, <1>4, <3>1
  <2> HIDE DEF Above
  <2>5. Cardinality(Above(d)) <= Cardinality(Above(c))
    BY <1>1, <2>3, FS_Subset
  <2>6. Cardinality(Above(c)) = Cardinality(Above(d))
    BY <1>1, <2>4, <2>5
  <2>7. Above(c) = Above(d)
    BY <1>1, <2>3, <2>6, FS_Subset
  <2> QED
    BY <2>3, <2>7
<1> QED
  BY <1>5

\* The order of a pool's rows by rank, cohort and security.
Ranked(q, r) ==
    \/ q.rank < r.rank
    \/ /\ q.rank = r.rank
       /\ \/ q.cohort < r.cohort
          \/ q.cohort = r.cohort /\ q.security < r.security

ByRanks(H) ==
    /\ IsFiniteSet(H)
    /\ \A r \in H : r.rank \in Nat /\ r.cohort \in Nat /\ r.security \in Nat
    /\ \A r, q \in H : r.cohort = q.cohort /\ r.security = q.security => r = q

\* Every position is some row's.
LEMMA PositionTaken ==
    ASSUME NEW H, ByRanks(H), NEW k \in 1..Cardinality(H)
    PROVE  \E r \in H : Position(H, r) = k
<1> DEFINE n == Cardinality(H)
           Sooners(r) == {q \in H : Ranked(q, r)}
           f == [r \in H |-> Position(H, r)]
<1>1. n \in Nat
  BY FS_CardinalityType DEF ByRanks
<1>2. \A r : Position(H, r) = 1 + Cardinality(Sooners(r))
  BY DEF Position, Ranked
<1>3. \A r \in H : IsFiniteSet(Sooners(r)) /\ Cardinality(Sooners(r)) \in Nat
  <2>1. \A r : Sooners(r) \in SUBSET H
    OBVIOUS
  <2> HIDE DEF Sooners
  <2> QED
    BY <2>1, FS_Subset, FS_CardinalityType DEF ByRanks
<1>4. \A r, q, p \in H : Ranked(r, q) /\ Ranked(q, p) => Ranked(r, p)
  BY DEF ByRanks, Ranked
<1>5. \A r \in H : ~Ranked(r, r)
  BY DEF ByRanks, Ranked
<1>6. \A r, q \in H : r # q => Ranked(r, q) \/ Ranked(q, r)
  BY DEF ByRanks, Ranked
<1>7. ASSUME NEW r \in H
      PROVE  Cardinality(Sooners(r)) < n
  <2>1. Sooners(r) \in SUBSET H /\ r \notin Sooners(r)
    BY <1>5
  <2> HIDE DEF Sooners
  <2>2. Cardinality(Sooners(r)) <= n /\ Cardinality(Sooners(r)) # n
    BY <2>1, FS_Subset DEF ByRanks
  <2> QED
    BY <1>1, <1>3, <2>2
<1>8. ASSUME NEW r \in H, NEW q \in H, Ranked(r, q)
      PROVE  Cardinality(Sooners(r)) < Cardinality(Sooners(q))
  <2>1. Sooners(r) \in SUBSET Sooners(q) /\ r \in Sooners(q) /\ r \notin Sooners(r)
    BY <1>4, <1>5, <1>8
  <2> HIDE DEF Sooners
  <2>2. /\ Cardinality(Sooners(r)) <= Cardinality(Sooners(q))
        /\ Cardinality(Sooners(r)) # Cardinality(Sooners(q))
    BY <1>3, <2>1, FS_Subset
  <2> QED
    BY <1>3, <2>2
<1> HIDE DEF Sooners
<1>9. f \in [H -> 1..n]
  BY <1>1, <1>2, <1>3, <1>7
<1>10. ASSUME NEW r \in H, NEW q \in H, f[r] = f[q]
       PROVE  r = q
  <2>1. Cardinality(Sooners(r)) = Cardinality(Sooners(q))
    BY <1>2, <1>3, <1>10
  <2> QED
    BY <1>3, <1>6, <1>8, <2>1
<1> HIDE DEF f, n
<1>11. f \in Injection(H, 1..n)
  BY <1>9, <1>10, Fun_IsInj
<1>12. IsFiniteSet(1..n) /\ Cardinality(1..n) = n
  <2>1. 1 \in Int /\ n \in Int
    BY <1>1
  <2>2. IsFiniteSet(1..n) /\ Cardinality(1..n) = IF 1 > n THEN 0 ELSE n - 1 + 1
    BY <2>1, FS_Interval
  <2> QED
    BY <1>1, <2>2
<1>13. f \in Surjection(H, 1..n)
  BY <1>11, <1>12, FS_Injection DEF n
<1>14. PICK r \in H : f[r] = k
  BY <1>13 DEF n, Surjection
<1> QED
  BY <1>14 DEF f

LEMMA MedianMeasured ==
    ASSUME NEW rows, ByRanks(rows), Defined(MedianRank(rows))
    PROVE  MedianRank(rows) \in Ratio
<1> DEFINE H == Hits(rows)
           n == Cardinality(H)
           at(k) == (CHOOSE r \in H : Position(H, r) = k).rank
<1>1. H \in SUBSET rows
  BY DEF Hits
<1> HIDE DEF H
<1>2. ByRanks(H)
  BY <1>1, FS_Subset DEF ByRanks
<1>3. n \in Nat
  BY <1>2, FS_CardinalityType DEF ByRanks
<1>4. n # 0
  BY DEF Defined, MedianRank, H
<1>5. ASSUME NEW k \in 1..n
      PROVE  at(k) \in Nat
  <2>1. \E r \in H : Position(H, r) = k
    BY <1>2, PositionTaken
  <2>2. (CHOOSE r \in H : Position(H, r) = k) \in H
    BY <2>1
  <2> QED
    BY <1>2, <2>2 DEF ByRanks
<1>6. (n + 1) \div 2 \in 1..n /\ (n + 2) \div 2 \in 1..n
  <2> HIDE DEF n
  <2> QED
    BY <1>3, <1>4
<1>7. MedianRank(rows) = <<at((n + 1) \div 2) + at((n + 2) \div 2), 2>>
  BY <1>4 DEF MedianRank, H
<1>8. at((n + 1) \div 2) \in Nat /\ at((n + 2) \div 2) \in Nat
  BY <1>5, <1>6
<1> HIDE DEF at
<1> QED
  BY <1>7, <1>8 DEF Ratio

LEMMA PoolOrdered ==
    ASSUME NEW rows, NEW world, NEW split, NEW h, RowsTold(rows, world, split, h)
    PROVE  ByRanks(rows)
<1>1. ASSUME NEW cell \in Cells(split)
      PROVE  cell[1] \in Nat /\ cell[2] \in Nat
  <2>1. PICK k \in Cohorts(split) : cell \in {k} \X DOMAIN ChampionScore[k]
    BY DEF Cells
  <2>2. k \in Nat /\ DOMAIN ChampionScore[k] \subseteq Nat
    BY ChallengerHoldoutAssumption DEF Cohorts
  <2> QED
    BY <2>1, <2>2
<1>2. ASSUME NEW r \in rows
      PROVE  r.cohort \in Nat /\ r.security \in Nat
  <2>1. <<r.cohort, r.security>> \in Cells(split)
    BY DEF RowsTold
  <2>2. \A a, b : <<a, b>>[1] = a /\ <<a, b>>[2] = b
    OBVIOUS
  <2> QED
    BY <1>1, <2>1, <2>2
<1>3. IsFiniteSet(rows)
  BY PoolFinite
<1> QED
  BY <1>2, <1>3 DEF ByRanks, RowsTold

\* A candidate's metric row for its selection.
Measured(c) == CandidateMetrics[truth][c]["validation"]["MB_3X_3Y"]

\* All that is compared of a candidate that passes is a fraction.
LEMMA PassingMeasured ==
    ASSUME NEW c \in Candidate, truth \in World, Gate(c, "validation")
    PROVE  /\ Measured(c).f1 \in Ratio /\ Measured(c).precision \in Ratio
           /\ Measured(c).recall \in Ratio /\ Measured(c).median \in Ratio
<1> DEFINE rows == CandidateRows(truth, c, "validation", "MB_3X_3Y")
<1>1. Measured(c) = Measures(rows)
  BY DEF Measured, CandidateMetrics, Horizon, SplitName
<1>2. Supported(Measures(rows))
  BY <1>1 DEF Gate, BeatsOnPrimary, Measured
<1>3. RowsTold(rows, truth, "validation", "MB_3X_3Y")
  BY PoolsOfModels, PoolTells DEF Horizon
<1> HIDE DEF rows
<1>4. ByRanks(rows)
  BY <1>3, PoolOrdered
<1>5. \A C : InClass(rows, C) \in Nat
  <2>1. \A C : {r \in rows : r.class \in C} \in SUBSET rows
    OBVIOUS
  <2> QED
    BY <1>4, <2>1, FS_Subset, FS_CardinalityType DEF ByRanks, InClass
<1>6. /\ Defined(Precision(rows)) /\ Defined(Recall(rows))
      /\ Defined(F1(rows)) /\ Defined(MedianRank(rows))
  BY <1>2 DEF Supported, Measures
<1>7. Precision(rows) \in Ratio /\ Recall(rows) \in Ratio
  BY <1>5, <1>6 DEF Precision, Recall, Defined, Ratio
<1>8. F1(rows) \in Ratio
  <2>1. InClass(rows, {"tp"}) \in Nat /\ InClass(rows, {"fp", "fn"}) \in Nat
    BY <1>5
  <2>2. InClass(rows, {"tp"}) # 0
    BY <1>6 DEF F1, Defined
  <2>3. F1(rows) = <<2 * InClass(rows, {"tp"}),
                     2 * InClass(rows, {"tp"}) + InClass(rows, {"fp", "fn"})>>
    BY <2>2 DEF F1
  <2> QED
    BY <2>1, <2>2, <2>3 DEF Ratio
<1>9. MedianRank(rows) \in Ratio
  BY <1>4, <1>6, MedianMeasured
<1> QED
  BY <1>1, <1>7, <1>8, <1>9 DEF Measures

LEMMA NegativeTerm ==
    ASSUME NEW x \in Ratio, NEW y \in Ratio
    PROVE  /\ <<-x[1], x[2]>> \in Ratio
           /\ Less(<<-x[1], x[2]>>, <<-y[1], y[2]>>) <=> Less(y, x)
<1>1. PICK a, c \in Int, b, d \in Nat \ {0} : x = <<a, b>> /\ y = <<c, d>>
  BY DEF Ratio
<1> DEFINE u == a * d
           v == c * b
<1>2. u \in Int /\ v \in Int /\ (-a) * d = -u /\ (-c) * b = -v
  BY <1>1
<1>3. /\ Less(y, x) <=> v < u
      /\ Less(<<-x[1], x[2]>>, <<-y[1], y[2]>>) <=> (-a) * d < (-c) * b
  BY <1>1 DEF Less
<1> HIDE DEF u, v
<1>4. Less(<<-x[1], x[2]>>, <<-y[1], y[2]>>) <=> Less(y, x)
  BY <1>2, <1>3
<1>5. <<-x[1], x[2]>> \in Ratio
  BY <1>1 DEF Ratio
<1> QED
  BY <1>4, <1>5

\* Of the candidates that pass, one is preferred to every other.
LEMMA OnePreferred ==
    ASSUME NEW S \in SUBSET Candidate, S # {}, truth \in World,
           \A c \in S : Gate(c, "validation")
    PROVE  \E c \in S : \A d \in S \ {c} : Preferred(c, d)
<1> DEFINE f == [c \in S |-> Measured(c).f1]
           p == [c \in S |-> Measured(c).precision]
           r == [c \in S |-> Measured(c).recall]
           m == [c \in S |-> Measured(c).median]
           k == [c \in S |-> <<-m[c][1], m[c][2]>>]
           Best(x, T) == {c \in T : \A d \in T : ~Less(x[c], x[d])}
           F == Best(f, S)
           P == Best(p, F)
           R == Best(r, P)
           M == Best(k, R)
<1>1. \A c \in S : /\ f[c] \in Ratio /\ p[c] \in Ratio
                   /\ r[c] \in Ratio /\ m[c] \in Ratio
  BY PassingMeasured
<1>2. \A c \in S : k[c] \in Ratio
  BY <1>1, NegativeTerm
<1>3. \A c, d \in S : Less(k[c], k[d]) <=> Less(m[d], m[c])
  BY <1>1, NegativeTerm
<1>4. \A c \in S : /\ Measured(c).f1 = f[c] /\ Measured(c).precision = p[c]
                   /\ Measured(c).recall = r[c] /\ Measured(c).median = m[c]
  OBVIOUS
<1> HIDE DEF f, p, r, m, k
<1>5. ASSUME NEW T \in SUBSET S, T # {}, NEW x, \A c \in S : x[c] \in Ratio
      PROVE  /\ Best(x, T) # {} /\ Best(x, T) \subseteq T
             /\ \A c \in Best(x, T), d \in T :
                   /\ ~Less(x[c], x[d])
                   /\ d \notin Best(x, T) => Less(x[d], x[c])
  <2>1. IsFiniteSet(T)
    BY FS_Subset
  <2>2. PICK c \in T : \A d \in T : ~Less(x[c], x[d])
    BY <1>5, <2>1, Unsurpassed
  <2>3. ASSUME NEW a \in Best(x, T), NEW d \in T \ Best(x, T)
        PROVE  Less(x[d], x[a])
    <3>1. PICK e \in T : Less(x[d], x[e])
      OBVIOUS
    <3>2. ~Less(x[a], x[e])
      OBVIOUS
    <3> QED
      BY <1>5, <3>1, <3>2, LessMidway
  <2> QED
    BY <2>2, <2>3
<1> HIDE DEF Best
<1>6. /\ F # {} /\ F \subseteq S
      /\ \A c \in F, d \in S : ~Less(f[c], f[d]) /\ (d \notin F => Less(f[d], f[c]))
  BY <1>1, <1>5
<1> HIDE DEF F
<1>7. /\ P # {} /\ P \subseteq F
      /\ \A c \in P, d \in F : ~Less(p[c], p[d]) /\ (d \notin P => Less(p[d], p[c]))
  BY <1>1, <1>5, <1>6
<1> HIDE DEF P
<1>8. /\ R # {} /\ R \subseteq P
      /\ \A c \in R, d \in P : ~Less(r[c], r[d]) /\ (d \notin R => Less(r[d], r[c]))
  BY <1>1, <1>5, <1>6, <1>7
<1> HIDE DEF R
<1>9. /\ M # {} /\ M \subseteq R
      /\ \A c \in M, d \in R : ~Less(k[c], k[d]) /\ (d \notin M => Less(k[d], k[c]))
  BY <1>2, <1>5, <1>6, <1>7, <1>8
<1> HIDE DEF M
<1>10. \A c \in M, d \in R : ~Less(m[d], m[c]) /\ (d \notin M => Less(m[c], m[d]))
  BY <1>3, <1>6, <1>7, <1>8, <1>9
<1>11. PICK c \in M : \A d \in M : c <= d
  <2>1. M \in SUBSET Nat
    BY <1>6, <1>7, <1>8, <1>9
  <2> QED
    BY <1>9, <2>1, SmallestOf
<1>12. c \in R /\ c \in P /\ c \in F /\ c \in S
  BY <1>7, <1>8, <1>9, <1>6
<1> DEFINE same(x, y) == ~Less(x, y) /\ ~Less(y, x)
<1>13. ASSUME NEW d \in S \ {c}
       PROVE  Preferred(c, d)
  <2>1. Preferred(c, d) <=>
           \/ Less(f[d], f[c])
           \/ same(f[c], f[d]) /\ Less(p[d], p[c])
           \/ same(f[c], f[d]) /\ same(p[c], p[d]) /\ Less(r[d], r[c])
           \/ /\ same(f[c], f[d]) /\ same(p[c], p[d]) /\ same(r[c], r[d])
              /\ \/ Less(m[c], m[d])
                 \/ same(m[c], m[d]) /\ c < d
    BY <1>4, <1>12 DEF Preferred, Measured
  <2>2. CASE d \notin F
    BY <1>6, <1>12, <2>1, <2>2
  <2>3. CASE d \in F \ P
    BY <1>6, <1>7, <1>12, <2>1, <2>3
  <2>4. CASE d \in P \ R
    BY <1>6, <1>7, <1>8, <1>12, <2>1, <2>4
  <2>5. CASE d \in R \ M
    BY <1>6, <1>7, <1>8, <1>10, <1>12, <2>1, <2>5
  <2>6. CASE d \in M
    <3>1. c < d
      BY <1>11, <1>12, <2>6
    <3>2. d \in R /\ d \in P /\ d \in F
      BY <1>7, <1>8, <1>9, <2>6
    <3> QED
      BY <1>6, <1>7, <1>8, <1>10, <1>12, <2>1, <2>6, <3>1, <3>2
  <2> QED
    BY <2>2, <2>3, <2>4, <2>5, <2>6, <1>7, <1>8, <1>9
<1> QED
  BY <1>12, <1>13

LEMMA SelectedPasses ==
    ASSUME NEW C \in SUBSET Candidate, truth \in World, SelectedChallenger(C) # None
    PROVE  /\ SelectedChallenger(C) \in C
           /\ Gate(SelectedChallenger(C), "validation")
<1> DEFINE passing == {c \in C : Gate(c, "validation")}
<1>1. passing \in SUBSET Candidate /\ \A c \in passing : Gate(c, "validation")
  OBVIOUS
<1>2. /\ passing # {}
      /\ SelectedChallenger(C) = CHOOSE c \in passing : \A d \in passing \ {c} : Preferred(c, d)
  BY DEF SelectedChallenger
<1>3. passing \subseteq C
  OBVIOUS
<1> HIDE DEF passing
<1>4. \E c \in passing : \A d \in passing \ {c} : Preferred(c, d)
  BY <1>1, <1>2, OnePreferred
<1>5. SelectedChallenger(C) \in passing
  BY <1>2, <1>4
<1> QED
  BY <1>1, <1>3, <1>5

-----------------------------------------------------------------------------
(* What is promoted.                                                       *)

Passing == {c \in Candidate : Gate(c, "validation")}

Winning == {c \in Candidate : HoldoutGate(c)}

\* No candidate is on its way into the holdout without having passed validation, and none
\* is decided to have passed the holdout without having done so.
MeritInv ==
    /\ truth \in World
    /\ freeze \in Passing \cup {None}
    /\ trial.subject \in Passing \cup {None}
    /\ trial.decision = "passes_holdout" => trial.status # "absent" /\ trial.subject \in Winning
    /\ \A o \in Operator : command[o].op \in {"freeze", "create"} =>
                            command[o].arg \in Passing \cup {None}

\* What passes stays as it is, since the future does.
LEMMA MeritLasts ==
    ASSUME truth' = truth
    PROVE  /\ Passing' = Passing /\ Winning' = Winning
           /\ \A s : Judgement(s)' = Judgement(s)
  BY DEF Passing, Winning, Judgement, HoldoutGate, Gate, CandidateMetrics, ChampionMetrics

LEMMA MeritStarts == ChallengerInit => MeritInv
  BY DEF ChallengerInit, MeritInv, Idle, Decision

\* Only two operations take a candidate along.
LEMMA CommandTakes ==
    ASSUME HoldoutInv, NEW o \in Operator, Begins(o) \/ Continues(o)
    PROVE  \/ BeginFreeze(o) /\ command'[o].arg = SelectedChallenger(Registered)
           \/ BeginCreateTrial(o) /\ command'[o].arg = freeze
           \/ command'[o].op \notin {"freeze", "create"}
<1> USE DEF HoldoutInv, CommandsTyped
<1>1. CASE BeginFreeze(o)
  BY <1>1 DEF BeginFreeze, Begin
<1>2. CASE BeginCreateTrial(o)
  BY <1>2 DEF BeginCreateTrial, Begin
<1>3. CASE \/ \E c \in Candidate : BeginRegister(o, c)
           \/ BeginDevelop(o) \/ BeginSeal(o) \/ BeginValidate(o) \/ BeginFreezeScores(o)
           \/ \E at \in Moment : BeginOpen(o, at)
  BY <1>3 DEF BeginRegister, BeginDevelop, BeginSeal, BeginValidate, BeginFreezeScores, BeginOpen, Begin
<1>4. CASE \E at \in Moment : BeginResume(o, at)
  BY <1>4 DEF BeginResume
<1>5. CASE \/ Register(o) \/ Develop(o) \/ Seal(o) \/ Validate(o) \/ Freeze(o)
           \/ CreateTrial(o) \/ FreezeScores(o) \/ Decide(o) \/ Abandon(o)
  <2>1. command' = [command EXCEPT ![o] = Idle]
    BY <1>5 DEF Register, Develop, Seal, Validate, Evaluated, Freeze, CreateTrial, FreezeScores,
       Decide, Abandon, Finished
  <2> QED
    BY <2>1 DEF Idle
<1>6. CASE ReadDevelopment(o) \/ ReadValidation(o) \/ ReadHoldout(o) \/ OpenHoldout(o)
  <2>1. command[o].op \in {"develop", "validate", "open"}
    BY <1>6 DEF ReadDevelopment, ReadValidation, ReadHoldout, ReadLabels, OpenHoldout, Running
  <2>2. PICK a, v, step :
             command[o] = [op |-> command[o].op, arg |-> a, view |-> v, step |-> step]
    BY <2>1 DEF IsCommand, Idle
  <2>3. command'[o].op = command[o].op
    <3>1. CASE OpenHoldout(o)
      <4> DEFINE w == [command[o].view EXCEPT ![5] = trial']
      <4>1. command' = [command EXCEPT ![o].step = "opened", ![o].view[5] = trial']
        BY <3>1 DEF OpenHoldout
      <4>2. command'[o] = [command[o] EXCEPT !.step = "opened", !.view = w]
        BY <2>2, <4>1
      <4> HIDE DEF w
      <4> QED
        BY <2>2, <4>2
    <3>2. CASE ~OpenHoldout(o)
      <4>1. command'[o] = [command[o] EXCEPT !.step = "labelled"]
        BY <1>6, <3>2 DEF ReadDevelopment, ReadValidation, ReadHoldout, ReadLabels
      <4> QED
        BY <2>2, <4>1
    <3> QED
      BY <3>1, <3>2
  <2> QED
    BY <2>1, <2>3
<1> QED
  BY <1>1, <1>2, <1>3, <1>4, <1>5, <1>6 DEF Begins, Continues

LEMMA MeritKept == HoldoutInv /\ MeritInv /\ [ChallengerNext]_chVars => MeritInv'
<1> SUFFICES ASSUME HoldoutInv, MeritInv, [ChallengerNext]_chVars
             PROVE  MeritInv'
  OBVIOUS
<1> USE DEF HoldoutInv, RowsTyped, TrialRow
<1>1. /\ truth' = truth /\ Passing' = Passing /\ Winning' = Winning
      /\ None \notin Passing /\ Passing \subseteq Candidate
  BY RunGrows, MeritLasts DEF Passing
<1>2. CASE CreateExperiment \/ UNCHANGED chVars
  <2>1. UNCHANGED <<truth, freeze, trial, command>>
    BY <1>2 DEF CreateExperiment, chVars
  <2> QED
    BY <1>1, <2>1 DEF MeritInv
<1>3. ASSUME NEW o \in Operator, Begins(o) \/ Continues(o)
      PROVE  MeritInv'
  <2>1. ASSUME NEW u \in Operator, command'[u].op \in {"freeze", "create"}
        PROVE  command'[u].arg \in Passing \cup {None}
    <3>1. CASE u # o
      BY <1>3, <2>1, <3>1, CommandStep DEF MeritInv
    <3>2. CASE u = o /\ command'[o].arg = SelectedChallenger(Registered)
      <4>1. Registered \in SUBSET Candidate
        BY DEF Registered
      <4> QED
        BY <3>2, <4>1, SelectedPasses DEF MeritInv, Passing
    <3>3. CASE u = o /\ command'[o].arg = freeze
      BY <3>3 DEF MeritInv
    <3> QED
      BY <1>3, <2>1, <3>1, <3>2, <3>3, CommandTakes
  <2>2. freeze' \in Passing \cup {None}
    <3>1. CASE Freeze(o)
      <4>1. freeze' = freeze \/ (freeze' = command[o].arg /\ command[o].arg \in Candidate)
        BY <3>1 DEF Freeze
      <4>2. command[o].op = "freeze"
        BY <3>1 DEF Freeze, Running
      <4> QED
        BY <4>1, <4>2 DEF MeritInv
    <3>2. CASE ~Freeze(o)
      <4>1. freeze' = freeze
        BY <1>3, <3>2 DEF Begins, Continues, BeginRegister, BeginDevelop, BeginSeal, BeginValidate,
           BeginFreeze, BeginCreateTrial, BeginFreezeScores, BeginOpen, BeginResume, Begin, Register,
           ReadDevelopment, ReadValidation, ReadHoldout, ReadLabels, Develop, Seal, Validate,
           Evaluated, CreateTrial, FreezeScores, OpenHoldout, Decide, Abandon
      <4> QED
        BY <4>1 DEF MeritInv
    <3> QED
      BY <3>1, <3>2
  <2> DEFINE TrialEarned(t) ==
               /\ t.subject \in Passing \cup {None}
               /\ t.decision = "passes_holdout" => t.status # "absent" /\ t.subject \in Winning
  <2>3. TrialEarned(trial')
    <3>1. CASE CreateTrial(o)
      <4>1. /\ command[o].op = "create" /\ trial.status = "absent"
            /\ trial' = [trial EXCEPT !.status = "draft", !.subject = command[o].arg]
        BY <3>1 DEF CreateTrial, Running
      <4>2. trial'.subject = command[o].arg /\ trial'.decision = trial.decision
        BY <4>1
      <4> QED
        BY <4>1, <4>2 DEF MeritInv
    <3>2. CASE FreezeScores(o) \/ OpenHoldout(o)
      <4>1. /\ trial'.subject = trial.subject /\ trial'.decision = trial.decision
            /\ trial'.status = trial.status \/ trial'.status \in {"scores_frozen", "holdout_opened"}
        BY <3>2 DEF FreezeScores, OpenHoldout
      <4> QED
        BY <4>1 DEF MeritInv
    <3>3. CASE Decide(o)
      <4>1. trial' = [trial EXCEPT !.status = "completed", !.completedAt = command[o].arg,
                        !.decision = IF @ = None THEN Judgement(trial.subject) ELSE @]
        BY <3>3 DEF Decide
      <4>2. /\ trial'.subject = trial.subject /\ trial'.status = "completed"
            /\ trial'.decision = IF trial.decision = None THEN Judgement(trial.subject)
                                 ELSE trial.decision
        BY <4>1
      <4>3. Judgement(trial.subject) = "passes_holdout" => trial.subject \in Winning
        BY DEF Judgement, Winning
      <4> QED
        BY <4>2, <4>3 DEF MeritInv
    <3>4. CASE ~(CreateTrial(o) \/ FreezeScores(o) \/ OpenHoldout(o) \/ Decide(o))
      <4>1. trial' = trial
        BY <1>3, <3>4 DEF Begins, Continues, BeginRegister, BeginDevelop, BeginSeal, BeginValidate,
           BeginFreeze, BeginCreateTrial, BeginFreezeScores, BeginOpen, BeginResume, Begin, Register,
           ReadDevelopment, ReadValidation, ReadHoldout, ReadLabels, Develop, Seal, Validate,
           Evaluated, Freeze, Abandon
      <4> QED
        BY <4>1 DEF MeritInv
    <3> QED
      BY <3>1, <3>2, <3>3, <3>4
  <2>4. truth' \in World
    BY <1>1 DEF MeritInv
  <2> QED
    BY <1>1, <2>1, <2>2, <2>3, <2>4 DEF MeritInv
<1> QED
  BY <1>2, <1>3 DEF ChallengerNext

\* A candidate that the holdout passes does better than the champion on the validation and
\* on the holdout cohorts, in hits or in as many hits with fewer misses, whatever the scores,
\* the labels and the overlap of the commands (multibagger_holdout.holdout_decision_gate).
THEOREM EarnedTwice == ChallengerSpec => []PromotedOnMerit
<1>1. HoldoutInv /\ MeritInv => PromotedOnMerit
  <2> SUFFICES ASSUME HoldoutInv, MeritInv, trial.decision = "passes_holdout"
               PROVE  trial.subject \in Earned[truth]
    BY DEF PromotedOnMerit
  <2>1. /\ trial.subject \in Candidate
        /\ Gate(trial.subject, "validation") /\ Gate(trial.subject, "holdout")
    BY DEF MeritInv, Passing, Winning, HoldoutGate
  <2>2. \A split \in {"validation", "holdout"} :
           Better(CandidateRows(truth, trial.subject, split, "MB_3X_3Y"),
                  ChampionRows(truth, split, "MB_3X_3Y"))
    BY <2>1, GateEarns DEF MeritInv, SplitName
  <2> QED
    BY <2>1, <2>2 DEF Earned, MeritInv
<1>2. ChallengerSpec => []MeritInv
  BY MeritStarts, MeritKept, HoldoutSound, PTL DEF ChallengerSpec
<1> QED
  BY <1>1, <1>2, HoldoutSound, PTL

-----------------------------------------------------------------------------
(* Rows that agree.                                                        *)

\* What a command takes along is of its kind.
ArgumentsTyped ==
    \A o \in Operator :
        /\ command[o].op = "register" => command[o].arg \in Candidate
        /\ command[o].op \in {"develop", "seal", "validate"} => command[o].arg \in SUBSET Candidate

RowsOfKind ==
    /\ experiment \in ExperimentRow
    /\ candidate \in [Candidate -> CandidateStatus]
    /\ metrics \in [{"development", "validation"} -> SUBSET Candidate]
    /\ seen \subseteq Cohort
    /\ overtaken \in BOOLEAN

KindInv == RowsOfKind /\ ArgumentsTyped

Early == {"absent", "draft", "development_evaluated"}

Final == {"candidate_frozen_for_t", "no_challenger_selected"}

RegisteredIn(rows) == {c \in Candidate : rows[c] # "absent"}

\* The candidate that validation would select of each set.
Selection == [C \in SUBSET Candidate |-> SelectedChallenger(C)]

\* The rows of an experiment and its holdout agree with each other.
RowsAligned ==
    /\ experiment.status \in Early => ~experiment.opened /\ experiment.sealed = None
    /\ experiment.status = "candidate_set_sealed" =>
          ~experiment.opened /\ experiment.sealed = Registered
    /\ experiment.status \in Final \cup {"validation_evaluated"} =>
          /\ experiment.opened /\ experiment.sealed = Registered
          /\ Registered \subseteq metrics["validation"]
    /\ experiment.status \notin Final =>
          /\ trial.status = "absent" /\ freeze = None
          /\ \A c \in Candidate : candidate[c] # "eligible_for_t"
    /\ experiment.status \in Final => freeze = Selection[Registered]
    /\ experiment.status = "candidate_frozen_for_t" =>
          freeze # None /\ candidate[freeze] = "eligible_for_t"
    /\ experiment.status = "no_challenger_selected" =>
          freeze = None /\ \A c \in Candidate : candidate[c] # "eligible_for_t"

TrialAligned ==
    /\ trial.status # "absent" => trial.subject = freeze
    /\ trial.status \in {"absent", "draft", "scores_frozen"} => trial.openedAt = None
    /\ trial.status \in {"holdout_opened", "completed"} => trial.openedAt \in Moment
    /\ trial.status = "completed" => trial.completedAt = trial.openedAt

\* What a command has found in the rows that it read.
Knows(c) ==
    LET status == c.view[1].status
        ran == c.view[5]
    IN /\ c.op \in {"register", "develop", "seal"} => status \in {"draft", "development_evaluated"}
       /\ c.op = "validate" => status = "candidate_set_sealed"
       /\ c.op \in {"seal", "validate"} => c.arg = RegisteredIn(c.view[2])
       /\ c.op = "freeze" => /\ status = "validation_evaluated"
                             /\ c.arg = Selection[RegisteredIn(c.view[2])]
       /\ c.op = "create" => status \in Final /\ ran.status = "absent" /\ c.arg = c.view[4]
       /\ c.op = "scores" => ran.status \in {"draft", "scores_frozen"}
       /\ c.op = "open" => IF c.step = "read" THEN ran.status = "scores_frozen"
                           ELSE ran.status = "holdout_opened" /\ ran.openedAt = c.arg

\* Until a command is overtaken, the rows agree, and each command has found what it needs.
AgreeInv ==
    ~overtaken => /\ RowsAligned /\ TrialAligned
                  /\ \A o \in Operator : Knows(command[o])

\* A command after each kind of step.
LEMMA CommandBegun ==
    ASSUME HoldoutInv, NEW o \in Operator, NEW op, NEW arg, Begin(o, op, arg)
    PROVE  /\ command'[o].op = op /\ command'[o].arg = arg
           /\ command'[o].view = db /\ command'[o].step = "read"
           /\ UNCHANGED <<truth, experiment, candidate, metrics, freeze, trial, seen, overtaken>>
  BY DEF Begin, HoldoutInv, CommandsTyped

LEMMA CommandReads ==
    ASSUME HoldoutInv, NEW o \in Operator, ReadDevelopment(o) \/ ReadValidation(o) \/ ReadHoldout(o)
    PROVE  /\ command'[o].op = command[o].op /\ command'[o].arg = command[o].arg
           /\ command'[o].view = command[o].view
           /\ command'[o].step = "labelled"
           /\ command[o].op \in {"develop", "validate", "open"}
           /\ command[o].op = "open" => command[o].step = "opened"
           /\ UNCHANGED <<truth, experiment, candidate, metrics, freeze, trial, overtaken>>
           /\ seen \subseteq Cohort => seen' \subseteq Cohort
<1>1. /\ command[o].op \in {"develop", "validate", "open"}
      /\ command[o].op = "open" => command[o].step = "opened"
      /\ command' = [command EXCEPT ![o].step = "labelled"]
      /\ UNCHANGED <<truth, experiment, candidate, metrics, freeze, trial, overtaken>>
  BY DEF ReadDevelopment, ReadValidation, ReadHoldout, ReadLabels, Running
<1>2. seen \subseteq Cohort => seen' \subseteq Cohort
  BY DEF ReadDevelopment, ReadValidation, ReadHoldout, ReadLabels, Cohorts
<1>3. PICK a, v, step :
           command[o] = [op |-> command[o].op, arg |-> a, view |-> v, step |-> step]
  BY <1>1 DEF HoldoutInv, CommandsTyped, IsCommand, Idle
<1>4. command'[o] = [command[o] EXCEPT !.step = "labelled"]
  BY <1>1 DEF HoldoutInv, CommandsTyped
<1>5. command'[o] = [op |-> command[o].op, arg |-> a, view |-> v, step |-> "labelled"]
  BY <1>3, <1>4
<1>6. command[o].arg = a /\ command[o].view = v
  BY <1>3
<1> QED
  BY <1>1, <1>2, <1>5, <1>6

LEMMA CommandOpens ==
    ASSUME HoldoutInv, NEW o \in Operator, OpenHoldout(o)
    PROVE  /\ command'[o].op = "open" /\ command'[o].arg = command[o].arg
           /\ command'[o].step = "opened"
           /\ command'[o].view = [command[o].view EXCEPT ![5] = trial']
<1> DEFINE w == [command[o].view EXCEPT ![5] = trial']
<1>1. command[o].op = "open"
  BY DEF OpenHoldout, Running
<1>2. PICK op, a, v, step : command[o] = [op |-> op, arg |-> a, view |-> v, step |-> step]
  BY <1>1 DEF HoldoutInv, CommandsTyped, IsCommand, Idle
<1>3. command' = [command EXCEPT ![o].step = "opened", ![o].view[5] = trial']
  BY DEF OpenHoldout
<1>4. command'[o] = [command[o] EXCEPT !.step = "opened", !.view = w]
  BY <1>2, <1>3 DEF HoldoutInv, CommandsTyped
<1> HIDE DEF w
<1>5. command'[o] = [op |-> op, arg |-> a, view |-> w, step |-> "opened"]
  <2>1. PICK c, d, u : c = command[o] /\ d = command'[o] /\ u = w
    OBVIOUS
  <2>2. c = [op |-> op, arg |-> a, view |-> v, step |-> step]
    BY <1>2, <2>1
  <2>3. d = [c EXCEPT !.step = "opened", !.view = u]
    BY <1>4, <2>1
  <2>4. d = [op |-> op, arg |-> a, view |-> u, step |-> "opened"]
    BY ONLY <2>2, <2>3
  <2> QED
    BY <2>1, <2>4
<1>6. command[o].arg = a /\ command[o].op = op
  BY <1>2
<1> QED
  BY <1>1, <1>5, <1>6 DEF w

\* A command that ends leaves its process idle.
LEMMA CommandEnds ==
    ASSUME HoldoutInv, NEW o \in Operator,
           \/ Register(o) \/ Develop(o) \/ Seal(o) \/ Validate(o) \/ Freeze(o)
           \/ CreateTrial(o) \/ FreezeScores(o) \/ Decide(o) \/ Abandon(o)
    PROVE  command'[o] = Idle /\ seen' = seen
<1>1. command' = [command EXCEPT ![o] = Idle] /\ seen' = seen
  BY DEF Register, Develop, Seal, Validate, Evaluated, Freeze, CreateTrial, FreezeScores,
     Decide, Abandon, Finished
<1> QED
  BY <1>1 DEF HoldoutInv, CommandsTyped

\* A command resumes a holdout that is open.
LEMMA CommandResumes ==
    ASSUME HoldoutInv, NEW o \in Operator, NEW at, BeginResume(o, at)
    PROVE  /\ command'[o].op = "open" /\ command'[o].arg = at
           /\ command'[o].view = db /\ command'[o].step = "opened"
           /\ trial.status = "holdout_opened" /\ trial.openedAt = at
           /\ UNCHANGED <<truth, experiment, candidate, metrics, freeze, trial, seen, overtaken>>
  BY DEF BeginResume, MayResume, HoldoutInv, CommandsTyped

LEMMA KindStarts == ChallengerInit => KindInv
<1> SUFFICES ASSUME ChallengerInit
             PROVE  KindInv
  OBVIOUS
<1>1. experiment \in ExperimentRow
  <2>1. experiment = [status |-> "absent", sealed |-> None, opened |-> FALSE]
    BY DEF ChallengerInit
  <2> QED
    BY ONLY <2>1 DEF ExperimentRow, ExperimentStatus
<1>2. candidate \in [Candidate -> CandidateStatus]
  BY DEF ChallengerInit, CandidateStatus
<1>3. metrics \in [{"development", "validation"} -> SUBSET Candidate]
  BY DEF ChallengerInit
<1>4. seen \subseteq Cohort /\ overtaken \in BOOLEAN
  BY DEF ChallengerInit
<1>5. ArgumentsTyped
  BY DEF ChallengerInit, ArgumentsTyped, Idle
<1> QED
  BY <1>1, <1>2, <1>3, <1>4, <1>5 DEF KindInv, RowsOfKind

LEMMA ArgumentStep ==
    ASSUME HoldoutInv, KindInv, MeritInv, NEW o \in Operator, Begins(o) \/ Continues(o)
    PROVE  /\ command'[o].op = "register" => command'[o].arg \in Candidate
           /\ command'[o].op \in {"develop", "seal", "validate"} =>
                 command'[o].arg \in SUBSET Candidate
<1>1. CASE \E c \in Candidate : BeginRegister(o, c)
  BY <1>1, CommandBegun DEF BeginRegister
<1>2. CASE BeginDevelop(o) \/ BeginSeal(o) \/ BeginValidate(o)
  BY <1>2, CommandBegun DEF BeginDevelop, BeginSeal, BeginValidate, Registered
<1>3. CASE BeginFreeze(o) \/ BeginCreateTrial(o) \/ BeginFreezeScores(o)
  BY <1>3, CommandBegun DEF BeginFreeze, BeginCreateTrial, BeginFreezeScores
<1>4. CASE \E at \in Moment : BeginOpen(o, at)
  BY <1>4, CommandBegun DEF BeginOpen
<1>5. CASE \E at \in Moment : BeginResume(o, at)
  BY <1>5, CommandResumes
<1>6. CASE ReadDevelopment(o) \/ ReadValidation(o) \/ ReadHoldout(o)
  BY <1>6, CommandReads DEF KindInv, ArgumentsTyped
<1>7. CASE OpenHoldout(o)
  BY <1>7, CommandOpens
<1>8. CASE \/ Register(o) \/ Develop(o) \/ Seal(o) \/ Validate(o) \/ Freeze(o)
           \/ CreateTrial(o) \/ FreezeScores(o) \/ Decide(o) \/ Abandon(o)
  BY <1>8, CommandEnds DEF Idle
<1> QED
  BY <1>1, <1>2, <1>3, <1>4, <1>5, <1>6, <1>7, <1>8 DEF Begins, Continues

LEMMA KindKept == HoldoutInv /\ MeritInv /\ KindInv /\ [ChallengerNext]_chVars => KindInv'
<1> SUFFICES ASSUME HoldoutInv, MeritInv, KindInv, [ChallengerNext]_chVars
             PROVE  KindInv'
  OBVIOUS
<1> USE DEF KindInv
<1>1. CASE CreateExperiment \/ UNCHANGED chVars
  <2>1. /\ UNCHANGED <<truth, candidate, metrics, freeze, trial, seen, command, overtaken>>
        /\ experiment' = experiment \/ experiment' = [experiment EXCEPT !.status = "draft"]
    BY <1>1 DEF CreateExperiment, chVars
  <2> QED
    BY <2>1 DEF RowsOfKind, ArgumentsTyped, ExperimentRow, ExperimentStatus
<1>2. ASSUME NEW o \in Operator, Begins(o) \/ Continues(o)
      PROVE  KindInv'
  <2>1. ArgumentsTyped'
    BY <1>2, ArgumentStep, CommandStep DEF ArgumentsTyped
  <2>2. RowsOfKind'
    <3> DEFINE Writes == \/ Register(o) \/ Develop(o) \/ Seal(o) \/ Validate(o) \/ Freeze(o)
                         \/ CreateTrial(o) \/ FreezeScores(o) \/ OpenHoldout(o) \/ Decide(o)
    <3> USE DEF RowsOfKind
    <3>1. ASSUME Writes
          PROVE  seen' = seen /\ overtaken' = (overtaken \/ command[o].view # db)
      BY <3>1 DEF Register, Develop, Seal, Validate, Evaluated, Freeze, CreateTrial, FreezeScores,
         OpenHoldout, Decide, Finished
    <3>2. ASSUME Writes
          PROVE  overtaken' \in BOOLEAN
      BY <3>1, <3>2
    <3>3. ASSUME NEW C, NEW status \in CandidateStatus
          PROVE  Restatus(o, C, status) \in [Candidate -> CandidateStatus]
      BY DEF Restatus
    <3>4. CASE Register(o)
      <4>1. /\ UNCHANGED <<experiment, metrics>> /\ command[o].op = "register"
            /\ candidate' = [candidate EXCEPT ![command[o].arg] = "registered"]
        BY <3>4 DEF Register, Running
      <4>2. candidate' \in [Candidate -> CandidateStatus]
        BY <4>1 DEF ArgumentsTyped, CandidateStatus
      <4> QED
        BY <3>1, <3>2, <3>4, <4>1, <4>2
    <3>5. CASE Develop(o) \/ Validate(o)
      <4>1. /\ command[o].op \in {"develop", "validate"}
            /\ \/ experiment' = [experiment EXCEPT !.status = "development_evaluated"]
               \/ experiment' = [experiment EXCEPT !.status = "validation_evaluated", !.opened = TRUE]
            /\ \E split \in {"development", "validation"} :
                  metrics' = [metrics EXCEPT ![split] = @ \cup command[o].arg]
            /\ \E status \in {"development_evaluated", "validation_evaluated"} :
                  candidate' = Restatus(o, command[o].arg, status)
        BY <3>5 DEF Develop, Validate, Evaluated, Running
      <4>2. experiment' \in ExperimentRow
        BY <4>1 DEF ExperimentRow, ExperimentStatus
      <4>3. metrics' \in [{"development", "validation"} -> SUBSET Candidate]
        BY <4>1 DEF ArgumentsTyped
      <4>4. candidate' \in [Candidate -> CandidateStatus]
        BY <3>3, <4>1 DEF CandidateStatus
      <4> QED
        BY <3>1, <3>2, <3>5, <4>2, <4>3, <4>4
    <3>6. CASE Seal(o)
      <4>1. /\ command[o].op = "seal" /\ UNCHANGED metrics
            /\ experiment' = [experiment EXCEPT !.status = "candidate_set_sealed",
                                                !.sealed = command[o].arg]
            /\ candidate' = Restatus(o, command[o].arg, "sealed")
        BY <3>6 DEF Seal, Running
      <4>2. experiment' \in ExperimentRow
        BY <4>1 DEF ExperimentRow, ExperimentStatus, ArgumentsTyped
      <4>3. candidate' \in [Candidate -> CandidateStatus]
        BY <3>3, <4>1 DEF CandidateStatus
      <4> QED
        BY <3>1, <3>2, <3>6, <4>1, <4>2, <4>3
    <3>7. CASE Freeze(o)
      <4>1. /\ UNCHANGED metrics
            /\ \/ experiment' = [experiment EXCEPT !.status = "no_challenger_selected"]
               \/ experiment' = [experiment EXCEPT !.status = "candidate_frozen_for_t"]
            /\ \/ candidate' = candidate
               \/ candidate' = Restatus(o, {command[o].arg}, "eligible_for_t")
        BY <3>7 DEF Freeze
      <4>2. experiment' \in ExperimentRow
        BY <4>1 DEF ExperimentRow, ExperimentStatus
      <4>3. candidate' \in [Candidate -> CandidateStatus]
        BY <3>3, <4>1 DEF CandidateStatus
      <4> QED
        BY <3>1, <3>2, <3>7, <4>1, <4>2, <4>3
    <3>8. CASE CreateTrial(o) \/ FreezeScores(o) \/ OpenHoldout(o) \/ Decide(o)
      <4>1. UNCHANGED <<experiment, candidate, metrics>>
        BY <3>8 DEF CreateTrial, FreezeScores, OpenHoldout, Decide
      <4> QED
        BY <3>1, <3>2, <3>8, <4>1
    <3>9. CASE ReadDevelopment(o) \/ ReadValidation(o) \/ ReadHoldout(o)
      BY <3>9, CommandReads
    <3>10. CASE Begins(o) \/ Abandon(o)
      <4>1. UNCHANGED <<experiment, candidate, metrics, seen, overtaken>>
        BY <3>10 DEF Begins, BeginRegister, BeginDevelop, BeginSeal, BeginValidate, BeginFreeze,
           BeginCreateTrial, BeginFreezeScores, BeginOpen, BeginResume, Begin, Abandon
      <4> QED
        BY <4>1
    <3> QED
      BY <1>2, <3>4, <3>5, <3>6, <3>7, <3>8, <3>9, <3>10 DEF Continues
  <2> QED
    BY <2>1, <2>2
<1> QED
  BY <1>1, <1>2 DEF ChallengerNext

\* Whatever commands run, every row is of its kind.
THEOREM ChallengerTyped == ChallengerSpec => []ChallengerTypeOK
<1>1. HoldoutInv /\ KindInv => ChallengerTypeOK
  BY DEF HoldoutInv, KindInv, RowsTyped, RowsOfKind, CommandsTyped, ChallengerTypeOK
<1>2. ChallengerSpec => []MeritInv
  BY MeritStarts, MeritKept, HoldoutSound, PTL DEF ChallengerSpec
<1> QED
  BY <1>1, <1>2, KindStarts, KindKept, HoldoutSound, PTL DEF ChallengerSpec

LEMMA SelectionLasts ==
    ASSUME truth' = truth
    PROVE  Selection' = Selection
  BY DEF Selection, SelectedChallenger, Preferred, Gate, CandidateMetrics, ChampionMetrics

LEMMA RegisteredAre == Registered = RegisteredIn(candidate) /\ Registered \in SUBSET Candidate
  BY DEF Registered, RegisteredIn

LEMMA AgreeStarts == ChallengerInit => AgreeInv
<1> SUFFICES ASSUME ChallengerInit
             PROVE  AgreeInv
  OBVIOUS
<1>1. RowsAligned /\ TrialAligned
  BY DEF ChallengerInit, RowsAligned, TrialAligned, Early, Final
<1>2. \A o \in Operator : Knows(command[o])
  BY DEF ChallengerInit, Knows, Idle
<1> QED
  BY <1>1, <1>2 DEF AgreeInv

\* What a command found, it has found until it ends.
LEMMA KnowsStep ==
    ASSUME HoldoutInv, AgreeInv, NEW o \in Operator, Begins(o) \/ Continues(o), ~overtaken'
    PROVE  Knows(command'[o])
<1> USE DEF Knows, db
<1>1. CASE \E c \in Candidate : BeginRegister(o, c)
  BY <1>1, CommandBegun DEF BeginRegister, MayRegister, Tunable
<1>2. CASE BeginDevelop(o)
  BY <1>2, CommandBegun DEF BeginDevelop, MayDevelop, Tunable
<1>3. CASE BeginSeal(o)
  BY <1>3, CommandBegun, RegisteredAre DEF BeginSeal, MaySeal
<1>4. CASE BeginValidate(o)
  BY <1>4, CommandBegun, RegisteredAre DEF BeginValidate, MayValidate
<1>5. CASE BeginFreeze(o)
  <2>1. SelectedChallenger(Registered) = Selection[RegisteredIn(candidate)]
    BY RegisteredAre DEF Selection
  <2> QED
    BY <1>5, <2>1, CommandBegun DEF BeginFreeze, MayFreeze
<1>6. CASE BeginCreateTrial(o)
  BY <1>6, CommandBegun DEF BeginCreateTrial, MayCreateTrial, ChainHolds, Final
<1>7. CASE BeginFreezeScores(o)
  BY <1>7, CommandBegun DEF BeginFreezeScores, MayFreezeScores
<1>8. CASE \E at \in Moment : BeginOpen(o, at)
  BY <1>8, CommandBegun DEF BeginOpen, MayOpen
<1>9. CASE \E at \in Moment : BeginResume(o, at)
  BY <1>9, CommandResumes
<1>10. CASE ReadDevelopment(o) \/ ReadValidation(o) \/ ReadHoldout(o)
  BY <1>10, CommandReads DEF AgreeInv
<1>11. CASE OpenHoldout(o)
  <2>1. /\ command[o].view = db
        /\ trial' = [trial EXCEPT !.status = "holdout_opened", !.openedAt = command[o].arg]
    BY <1>11 DEF OpenHoldout
  <2>2. trial'.status = "holdout_opened" /\ trial'.openedAt = command[o].arg
    BY <2>1 DEF HoldoutInv, RowsTyped, TrialRow
  <2>3. command'[o].view[5] = trial'
    <3>1. command'[o].view = [<<experiment, candidate, metrics, freeze, trial>> EXCEPT ![5] = trial']
      BY <1>11, <2>1, CommandOpens
    <3>2. \A a, b, c, d, e, f : [<<a, b, c, d, e>> EXCEPT ![5] = f] = <<a, b, c, d, f>>
      OBVIOUS
    <3> QED
      BY <3>1, <3>2
  <2> QED
    BY <1>11, <2>2, <2>3, CommandOpens
<1>12. CASE \/ Register(o) \/ Develop(o) \/ Seal(o) \/ Validate(o) \/ Freeze(o)
            \/ CreateTrial(o) \/ FreezeScores(o) \/ Decide(o) \/ Abandon(o)
  BY <1>12, CommandEnds DEF Idle
<1> QED
  BY <1>1, <1>2, <1>3, <1>4, <1>5, <1>6, <1>7, <1>8, <1>9, <1>10, <1>11, <1>12
     DEF Begins, Continues

\* A command that ends unovertaken writes rows that agree.
LEMMA ExperimentStep ==
    ASSUME HoldoutInv, MeritInv, KindInv, AgreeInv, NEW o \in Operator, ~overtaken, truth' = truth,
           command[o].view = db,
           Register(o) \/ Develop(o) \/ Seal(o) \/ Validate(o) \/ Freeze(o)
    PROVE  RowsAligned' /\ TrialAligned'
<1> DEFINE arg == command[o].arg
           status == experiment.status
<1>1. /\ RowsAligned /\ TrialAligned /\ Knows(command[o]) /\ trial' = trial
      /\ command[o].view[1] = experiment /\ command[o].view[2] = candidate
      /\ command[o].view[3] = metrics
  BY DEF AgreeInv, db, Register, Develop, Validate, Evaluated, Seal, Freeze
<1>2. Selection' = Selection
  BY SelectionLasts
<1> USE DEF KindInv, RowsOfKind, ExperimentRow
<1>3. \A C, s : Restatus(o, C, s) =
               [c \in Candidate |-> IF c \in C /\ candidate[c] # s THEN s ELSE candidate[c]]
  BY <1>1 DEF Restatus, View
<1>4. CASE Register(o)
  <2>1. /\ status \in {"draft", "development_evaluated"} /\ arg \in Candidate
        /\ candidate' = [candidate EXCEPT ![arg] = "registered"]
        /\ UNCHANGED <<experiment, metrics, freeze>>
    BY <1>1, <1>4 DEF Register, Running, Knows, ArgumentsTyped
  <2>2. /\ trial.status = "absent" /\ freeze = None
        /\ \A c \in Candidate : candidate[c] # "eligible_for_t"
        /\ ~experiment.opened /\ experiment.sealed = None
    BY <1>1, <2>1 DEF RowsAligned, Final, Early
  <2>3. \A c \in Candidate : candidate'[c] # "eligible_for_t"
    BY <2>1, <2>2
  <2>4. RowsAligned'
    BY <1>1, <2>1, <2>2, <2>3 DEF RowsAligned, Final, Early
  <2> QED
    BY <1>1, <2>1, <2>4 DEF TrialAligned
<1>5. CASE Develop(o)
  <2>1. /\ status \in {"draft", "development_evaluated"}
        /\ experiment' = [experiment EXCEPT !.status = "development_evaluated"]
        /\ candidate' = Restatus(o, arg, "development_evaluated")
        /\ UNCHANGED freeze
    BY <1>1, <1>5 DEF Develop, Evaluated, Running, Knows
  <2>2. /\ trial.status = "absent" /\ freeze = None
        /\ \A c \in Candidate : candidate[c] # "eligible_for_t"
        /\ ~experiment.opened /\ experiment.sealed = None
    BY <1>1, <2>1 DEF RowsAligned, Final, Early
  <2>3. \A c \in Candidate : candidate'[c] # "eligible_for_t"
    BY <1>3, <2>1, <2>2
  <2>4. /\ experiment'.status = "development_evaluated"
        /\ ~experiment'.opened /\ experiment'.sealed = None
    BY <2>1, <2>2
  <2>5. RowsAligned'
    BY <1>1, <2>1, <2>2, <2>3, <2>4 DEF RowsAligned, Final, Early
  <2> QED
    BY <1>1, <2>1, <2>5 DEF TrialAligned
<1>6. CASE Seal(o)
  <2>1. /\ status \in {"draft", "development_evaluated"} /\ arg = RegisteredIn(candidate)
        /\ experiment' = [experiment EXCEPT !.status = "candidate_set_sealed", !.sealed = arg]
        /\ candidate' = Restatus(o, arg, "sealed")
        /\ UNCHANGED freeze
    BY <1>1, <1>6 DEF Seal, Running, Knows
  <2>2. /\ trial.status = "absent" /\ freeze = None
        /\ \A c \in Candidate : candidate[c] # "eligible_for_t"
        /\ ~experiment.opened
    BY <1>1, <2>1 DEF RowsAligned, Final, Early
  <2>3. \A c \in Candidate : /\ candidate'[c] # "eligible_for_t"
                             /\ candidate'[c] = "absent" <=> candidate[c] = "absent"
    BY <1>3, <2>1, <2>2 DEF RegisteredIn
  <2>4. /\ experiment'.status = "candidate_set_sealed"
        /\ ~experiment'.opened /\ experiment'.sealed = arg
    BY <2>1, <2>2
  <2>5. Registered' = arg
    BY <2>1, <2>3 DEF Registered, RegisteredIn
  <2>6. trial' = trial /\ freeze' = freeze
    BY <1>1, <2>1
  <2>7. RowsAligned'
    <3> HIDE DEF arg, status, KindInv, RowsOfKind, ExperimentRow
    <3>1. \A c \in Candidate : candidate'[c] # "eligible_for_t"
      BY <2>3
    <3> QED
      BY <2>2, <2>4, <2>5, <2>6, <3>1 DEF RowsAligned, Final, Early
  <2> QED
    BY <1>1, <2>6, <2>7 DEF TrialAligned
<1>7. CASE Validate(o)
  <2>1. /\ status = "candidate_set_sealed" /\ arg = RegisteredIn(candidate)
        /\ experiment' = [experiment EXCEPT !.status = "validation_evaluated", !.opened = TRUE]
        /\ metrics' = [metrics EXCEPT !["validation"] = @ \cup arg]
        /\ candidate' = Restatus(o, arg, "validation_evaluated")
        /\ UNCHANGED freeze
    BY <1>1, <1>7 DEF Validate, Evaluated, Running, Knows
  <2>2. /\ trial.status = "absent" /\ freeze = None
        /\ \A c \in Candidate : candidate[c] # "eligible_for_t"
        /\ experiment.sealed = arg
    BY <1>1, <2>1, RegisteredAre DEF RowsAligned, Final, Early
  <2>3. \A c \in Candidate : /\ candidate'[c] # "eligible_for_t"
                             /\ candidate'[c] = "absent" <=> candidate[c] = "absent"
    BY <1>3, <2>1, <2>2 DEF RegisteredIn
  <2>4. /\ experiment'.status = "validation_evaluated"
        /\ experiment'.opened /\ experiment'.sealed = arg
    BY <2>1, <2>2
  <2>5. Registered' = arg /\ arg \subseteq metrics'["validation"]
    BY <2>1, <2>3 DEF Registered, RegisteredIn
  <2>6. trial' = trial /\ freeze' = freeze
    BY <1>1, <2>1
  <2>7. RowsAligned'
    <3> HIDE DEF arg, status, KindInv, RowsOfKind, ExperimentRow
    <3>1. \A c \in Candidate : candidate'[c] # "eligible_for_t"
      BY <2>3
    <3> QED
      BY <2>2, <2>4, <2>5, <2>6, <3>1 DEF RowsAligned, Final, Early
  <2> QED
    BY <1>1, <2>6, <2>7 DEF TrialAligned
<1>8. CASE Freeze(o)
  <2>1. /\ status = "validation_evaluated" /\ arg = Selection[Registered]
        /\ UNCHANGED metrics
    BY <1>1, <1>8, RegisteredAre DEF Freeze, Running, Knows
  <2>2. /\ trial.status = "absent" /\ freeze = None
        /\ \A c \in Candidate : candidate[c] # "eligible_for_t"
        /\ experiment.opened /\ experiment.sealed = Registered
        /\ Registered \subseteq metrics["validation"]
    BY <1>1, <2>1 DEF RowsAligned, Final
  <2>3. /\ experiment'.opened = experiment.opened /\ experiment'.sealed = experiment.sealed
        /\ experiment'.status \in Final
    BY <1>8 DEF Freeze, Final
  <2>4. CASE arg = None
    <3>1. /\ experiment' = [experiment EXCEPT !.status = "no_challenger_selected"]
          /\ UNCHANGED <<candidate, freeze>>
      BY <1>8, <2>4 DEF Freeze
    <3>2. experiment'.status = "no_challenger_selected" /\ Registered' = Registered
      BY <3>1 DEF Registered
    <3>3. RowsAligned'
      BY <1>2, <2>1, <2>2, <2>3, <2>4, <3>1, <3>2 DEF RowsAligned, Final, Early
    <3> QED
      BY <1>1, <3>1, <3>3 DEF TrialAligned
  <2>5. CASE arg # None
    <3>1. /\ experiment' = [experiment EXCEPT !.status = "candidate_frozen_for_t"]
          /\ freeze' = arg /\ candidate' = Restatus(o, {arg}, "eligible_for_t")
      BY <1>8, <2>5 DEF Freeze
    <3>2. arg \in Registered
      BY <2>1, <2>5, RegisteredAre, SelectedPasses DEF Selection, MeritInv
    <3>3. /\ candidate'[arg] = "eligible_for_t"
          /\ \A c \in Candidate : candidate'[c] = "absent" <=> candidate[c] = "absent"
      BY <1>3, <3>1, <3>2 DEF Registered
    <3>4. experiment'.status = "candidate_frozen_for_t"
      BY <3>1
    <3>6. Registered' = Registered
      BY ZenonT(30), <3>3 DEF Registered
    <3>5. RowsAligned'
      BY <1>1, <1>2, <2>1, <2>2, <2>3, <2>5, <3>1, <3>3, <3>4, <3>6 DEF RowsAligned, Final, Early
    <3> QED
      BY <1>1, <2>2, <3>5 DEF TrialAligned
  <2> QED
    BY <2>4, <2>5
<1> QED
  BY <1>4, <1>5, <1>6, <1>7, <1>8

LEMMA TrialStep ==
    ASSUME HoldoutInv, AgreeInv, NEW o \in Operator, ~overtaken, truth' = truth,
           command[o].view = db,
           CreateTrial(o) \/ FreezeScores(o) \/ OpenHoldout(o) \/ Decide(o)
    PROVE  RowsAligned' /\ TrialAligned'
<1> DEFINE arg == command[o].arg
<1>1. /\ RowsAligned /\ TrialAligned /\ Knows(command[o])
      /\ UNCHANGED <<experiment, candidate, metrics, freeze>>
      /\ command[o].view[1] = experiment /\ command[o].view[4] = freeze
      /\ command[o].view[5] = trial
  BY DEF AgreeInv, db, CreateTrial, FreezeScores, OpenHoldout, Decide
<1>2. Selection' = Selection /\ Registered' = Registered
  BY <1>1, SelectionLasts DEF Registered
<1>3. ASSUME experiment.status \in Final
      PROVE  RowsAligned'
  BY <1>1, <1>2, <1>3 DEF RowsAligned, Final, Early
<1> USE DEF HoldoutInv, RowsTyped, TrialRow
<1>4. CASE CreateTrial(o)
  <2>1. /\ experiment.status \in Final /\ trial.status = "absent" /\ arg = freeze
        /\ trial' = [trial EXCEPT !.status = "draft", !.subject = arg]
    BY <1>1, <1>4 DEF CreateTrial, Running, Knows
  <2>2. /\ trial'.status = "draft" /\ trial'.subject = freeze
        /\ trial'.openedAt = trial.openedAt
    BY <2>1
  <2>3. trial.openedAt = None
    BY <1>1, <2>1 DEF TrialAligned
  <2> QED
    BY <1>1, <1>3, <2>1, <2>2, <2>3 DEF TrialAligned
<1>5. ASSUME trial.status # "absent"
      PROVE  experiment.status \in Final
  BY <1>1, <1>5 DEF RowsAligned
<1>6. CASE FreezeScores(o)
  <2>1. trial.status \in {"draft", "scores_frozen"}
    BY <1>1, <1>6 DEF FreezeScores, Running, Knows
  <2>2. /\ trial'.status \in {"draft", "scores_frozen"} /\ trial'.subject = trial.subject
        /\ trial'.openedAt = trial.openedAt
    BY <1>6, <2>1 DEF FreezeScores
  <2> QED
    BY <1>1, <1>3, <1>5, <2>1, <2>2 DEF TrialAligned
<1>7. CASE OpenHoldout(o)
  <2>1. /\ trial.status = "scores_frozen" /\ arg \in Moment
        /\ trial' = [trial EXCEPT !.status = "holdout_opened", !.openedAt = arg]
    BY <1>1, <1>7 DEF OpenHoldout, Running, Knows, OpensKnown
  <2>2. /\ trial'.status = "holdout_opened" /\ trial'.subject = trial.subject
        /\ trial'.openedAt = arg
    BY <2>1
  <2> QED
    BY <1>1, <1>3, <1>5, <2>1, <2>2 DEF TrialAligned
<1>8. CASE Decide(o)
  <2>1. /\ trial.status = "holdout_opened" /\ trial.openedAt = arg
        /\ trial' = [trial EXCEPT !.status = "completed", !.completedAt = arg,
                       !.decision = IF @ = None THEN Judgement(trial.subject) ELSE @]
    BY <1>1, <1>8 DEF Decide, Running, Knows
  <2>2. /\ trial'.status = "completed" /\ trial'.subject = trial.subject
        /\ trial'.openedAt = trial.openedAt /\ trial'.completedAt = arg
    BY <2>1
  <2> QED
    BY <1>1, <1>3, <1>5, <2>1, <2>2 DEF TrialAligned
<1> QED
  BY <1>4, <1>6, <1>7, <1>8

LEMMA AgreeKept ==
    HoldoutInv /\ MeritInv /\ KindInv /\ AgreeInv /\ [ChallengerNext]_chVars => AgreeInv'
<1> SUFFICES ASSUME HoldoutInv, MeritInv, KindInv, AgreeInv, [ChallengerNext]_chVars
             PROVE  AgreeInv'
  OBVIOUS
<1>1. truth' = truth
  BY RunGrows
<1>2. Selection' = Selection
  BY <1>1, SelectionLasts
<1> SUFFICES ASSUME ~overtaken'
             PROVE  /\ RowsAligned' /\ TrialAligned'
                    /\ \A o \in Operator : Knows(command'[o])
  BY <1>2 DEF AgreeInv, Knows
<1>3. ASSUME UNCHANGED <<experiment, candidate, metrics, freeze, trial>>, ~overtaken
      PROVE  RowsAligned' /\ TrialAligned'
  <2>1. Registered' = Registered
    BY <1>3 DEF Registered
  <2> QED
    BY <1>2, <1>3, <2>1 DEF AgreeInv, RowsAligned, TrialAligned
<1>4. CASE CreateExperiment
  <2>1. /\ UNCHANGED <<candidate, metrics, freeze, trial, command, overtaken>>
        /\ experiment.status = "absent"
        /\ experiment' = [experiment EXCEPT !.status = "draft"]
    BY <1>4 DEF CreateExperiment
  <2>2. /\ experiment'.status = "draft" /\ experiment'.opened = experiment.opened
        /\ experiment'.sealed = experiment.sealed
    BY <2>1 DEF KindInv, RowsOfKind, ExperimentRow
  <2>3. RowsAligned'
    BY <2>1, <2>2 DEF AgreeInv, RowsAligned, Early, Final
  <2> QED
    BY <2>1, <2>3 DEF AgreeInv, TrialAligned
<1>5. CASE UNCHANGED chVars
  BY <1>3, <1>5 DEF chVars, AgreeInv
<1>6. ASSUME NEW o \in Operator, Begins(o) \/ Continues(o)
      PROVE  /\ RowsAligned' /\ TrialAligned'
             /\ \A u \in Operator : Knows(command'[u])
  <2> DEFINE Writes == \/ Register(o) \/ Develop(o) \/ Seal(o) \/ Validate(o) \/ Freeze(o)
                       \/ CreateTrial(o) \/ FreezeScores(o) \/ OpenHoldout(o) \/ Decide(o)
  <2>1. CASE Writes
    <3>1. ~overtaken /\ command[o].view = db
      BY <2>1 DEF Register, Develop, Seal, Validate, Evaluated, Freeze, CreateTrial, FreezeScores,
         OpenHoldout, Decide, Finished
    <3>2. RowsAligned' /\ TrialAligned'
      BY <1>1, <2>1, <3>1, ExperimentStep, TrialStep
    <3> QED
      BY <1>6, <3>1, <3>2, KnowsStep, CommandStep DEF AgreeInv
  <2>2. CASE ReadDevelopment(o) \/ ReadValidation(o) \/ ReadHoldout(o)
    <3>1. ~overtaken
      BY <2>2, CommandReads
    <3>2. RowsAligned' /\ TrialAligned'
      BY <1>3, <2>2, <3>1, CommandReads
    <3> QED
      BY <1>6, <3>1, <3>2, KnowsStep, CommandStep DEF AgreeInv
  <2>3. CASE Begins(o) \/ Abandon(o)
    <3>1. /\ UNCHANGED <<experiment, candidate, metrics, freeze, trial>>
          /\ ~overtaken
      BY <2>3 DEF Begins, BeginRegister, BeginDevelop, BeginSeal, BeginValidate, BeginFreeze,
         BeginCreateTrial, BeginFreezeScores, BeginOpen, BeginResume, Begin, Abandon
    <3> QED
      BY <1>3, <1>6, <3>1, KnowsStep, CommandStep DEF AgreeInv
  <2> QED
    BY <1>6, <2>1, <2>2, <2>3 DEF Continues
<1>7. CASE CreateExperiment \/ UNCHANGED chVars
  <2>1. command' = command /\ ~overtaken
    BY <1>7 DEF CreateExperiment, chVars
  <2>2. \A u \in Operator : Knows(command'[u])
    BY <2>1 DEF AgreeInv
  <2> QED
    BY <1>4, <1>5, <1>7, <2>2
<1> QED
  BY <1>6, <1>7 DEF ChallengerNext

\* Whatever commands ran, as long as none was overtaken: when no command runs, the rows of
\* the experiment and of its holdout agree and some command can take them on, until the
\* holdout is decided at the moment it was opened (the conflict checks of
\* multibagger_challenger and multibagger_holdout never refuse them all).
THEOREM NobodyStranded == ChallengerSpec => []NeverStranded
<1>1. HoldoutInv /\ KindInv /\ AgreeInv => NeverStranded
  <2> SUFFICES ASSUME HoldoutInv, KindInv, AgreeInv, ~overtaken
               PROVE  \/ experiment.status = "absent"
                      \/ \E c \in Candidate : MayRegister(c)
                      \/ MayDevelop \/ MaySeal \/ MayValidate \/ MayFreeze
                      \/ MayCreateTrial \/ MayFreezeScores
                      \/ \E at \in Moment : MayOpen(at) \/ MayResume(at)
                      \/ /\ trial.status = "completed"
                         /\ trial.completedAt = trial.openedAt
                         /\ TrialChainHolds
    BY DEF NeverStranded
  <2>1. RowsAligned /\ TrialAligned
    BY DEF AgreeInv
  <2>2. Registered # None
    BY SearchAssumption, RegisteredAre
  <2>3. CASE experiment.status \in {"draft", "development_evaluated"}
    <3>1. ~experiment.opened /\ experiment.sealed = None
      BY <2>1, <2>3 DEF RowsAligned, Early
    <3>2. CASE Registered = {}
      <4>1. PICK c \in Candidate : TRUE
        BY SearchAssumption
      <4>2. Cardinality(Registered) < MaxCandidates
        BY <3>2, FS_EmptySet, SearchAssumption
      <4>3. MayRegister(c)
        BY <2>3, <3>1, <3>2, <4>2 DEF MayRegister, Tunable
      <4> QED
        BY <4>3
    <3>3. CASE Registered # {}
      BY <2>3, <3>1, <3>3 DEF MaySeal
    <3> QED
      BY <3>2, <3>3
  <2>4. CASE experiment.status = "candidate_set_sealed"
    BY <2>1, <2>2, <2>4 DEF RowsAligned, MayValidate
  <2>5. CASE experiment.status = "validation_evaluated"
    BY <2>1, <2>5 DEF RowsAligned, MayFreeze
  <2>6. CASE experiment.status \in Final
    <3>1. freeze = SelectedChallenger(Registered)
      BY <2>1, <2>6, RegisteredAre DEF RowsAligned, Selection
    <3>2. ChainHolds
      BY <2>1, <2>6, <3>1 DEF RowsAligned, Final, ChainHolds
    <3>3. CASE trial.status = "absent"
      BY <3>2, <3>3 DEF MayCreateTrial
    <3>4. CASE trial.status # "absent"
      <4>1. TrialChainHolds
        BY <2>1, <3>2, <3>4 DEF TrialChainHolds, TrialAligned
      <4>2. CASE trial.status \in {"draft", "scores_frozen"}
        BY <2>1, <4>1, <4>2 DEF MayFreezeScores, TrialAligned
      <4>3. CASE trial.status = "holdout_opened"
        BY <2>1, <4>1, <4>3 DEF MayResume, TrialAligned
      <4>4. CASE trial.status = "completed"
        BY <2>1, <4>1, <4>4 DEF TrialAligned
      <4> QED
        BY <3>4, <4>2, <4>3, <4>4 DEF HoldoutInv, RowsTyped, TrialRow
    <3> QED
      BY <3>3, <3>4
  <2> QED
    BY <2>3, <2>4, <2>5, <2>6
       DEF KindInv, RowsOfKind, ExperimentRow, ExperimentStatus, Final
<1>2. ChallengerSpec => []MeritInv
  BY MeritStarts, MeritKept, HoldoutSound, PTL DEF ChallengerSpec
<1>3. ChallengerSpec => []KindInv
  BY <1>2, KindStarts, KindKept, HoldoutSound, PTL DEF ChallengerSpec
<1> QED
  BY <1>1, <1>2, <1>3, AgreeStarts, AgreeKept, HoldoutSound, PTL DEF ChallengerSpec
=============================================================================
