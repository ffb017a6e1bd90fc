------------------------- MODULE ResearchDataProofs -------------------------
(***************************************************************************)
(* The components of MCResearchData side by side: whichever of them moves, *)
(* each behaves as its own specification says, so that what is proved of   *)
(* each of them alone holds of all, for every value of the constants.      *)
(***************************************************************************)
EXTENDS MCResearchData, EvidenceProofs, ScoringProofs, RecordProofs

\* All components begin as they do alone.
AllBegin ==
    /\ ArchiveInit
    /\ IngestionInit
    /\ SeriesInit
    /\ EvidenceInit
    /\ ScoringInit
    /\ SnapshotInit
    /\ EvaluationInit
    /\ ChallengerInit
    /\ DeploymentInit

\* Each component makes a step of its own or stays.
AllStep ==
    /\ [ArchiveNext]_arVars
    /\ [IngestionNext]_inVars
    /\ [SeriesNext]_fsVars
    /\ [EvidenceNext]_efVars
    /\ [ScoringNext]_csVars
    /\ [SnapshotNext]_scVars
    /\ [EvaluationNext]_evVars
    /\ [ChallengerNext]_chVars
    /\ [DeploymentNext]_dpVars

LEMMA BeginsApart == Init => AllBegin
  BY DEF Init, AllBegin

LEMMA StepsApart ==
    [Next]_<<part, arVars, inVars, fsVars, efVars, csVars, scVars, evVars, chVars, dpVars>> => AllStep
<1> SUFFICES ASSUME [Next]_<<part, arVars, inVars, fsVars, efVars, csVars, scVars, evVars, chVars, dpVars>>
             PROVE  AllStep
  OBVIOUS
<1>1. CASE part = "archive" /\ Next
  BY <1>1 DEF Next, AllStep
<1>2. CASE part = "ingestion" /\ Next
  BY <1>2 DEF Next, AllStep
<1>3. CASE part = "series" /\ Next
  BY <1>3 DEF Next, AllStep
<1>4. CASE part = "evidence" /\ Next
  BY <1>4 DEF Next, AllStep
<1>5. CASE part = "scoring" /\ Next
  BY <1>5 DEF Next, AllStep
<1>6. CASE part = "snapshots" /\ Next
  BY <1>6 DEF Next, AllStep
<1>7. CASE part = "evaluation" /\ Next
  BY <1>7 DEF Next, AllStep
<1>8. CASE part = "challenger" /\ Next
  BY <1>8 DEF Next, AllStep
<1>9. CASE part = "deployment" /\ Next
  BY <1>9 DEF Next, AllStep
<1>10. CASE UNCHANGED <<part, arVars, inVars, fsVars, efVars, csVars, scVars, evVars, chVars, dpVars>>
  BY <1>10 DEF AllStep
<1>11. Next => part \in {"archive", "ingestion", "series", "evidence", "scoring", "snapshots",
                       "evaluation", "challenger", "deployment"}
  BY DEF Next
<1> QED
  BY <1>1, <1>2, <1>3, <1>4, <1>5, <1>6, <1>7, <1>8, <1>9, <1>10, <1>11

\* Side by side, each component behaves as it does alone: no step of another one touches
\* its rows, and where it begins is one of the states it may begin in.
THEOREM ComponentsApart ==
    Spec => /\ ArchiveSpec /\ IngestionSpec /\ SeriesSpec /\ EvidenceSpec /\ ScoringSpec
            /\ SnapshotSpec /\ EvaluationSpec /\ ChallengerSpec /\ DeploymentSpec
<1>1. Spec => ArchiveSpec
  <2>1. AllBegin => ArchiveInit
    BY DEF AllBegin
  <2>2. AllStep => [ArchiveNext]_arVars
    BY DEF AllStep
  <2> QED
    BY <2>1, <2>2, BeginsApart, StepsApart, PTL DEF Spec, ArchiveSpec
<1>2. Spec => IngestionSpec
  <2>1. AllBegin => IngestionInit
    BY DEF AllBegin
  <2>2. AllStep => [IngestionNext]_inVars
    BY DEF AllStep
  <2> QED
    BY <2>1, <2>2, BeginsApart, StepsApart, PTL DEF Spec, IngestionSpec
<1>3. Spec => SeriesSpec
  <2>1. AllBegin => SeriesInit
    BY DEF AllBegin
  <2>2. AllStep => [SeriesNext]_fsVars
    BY DEF AllStep
  <2> QED
    BY <2>1, <2>2, BeginsApart, StepsApart, PTL DEF Spec, SeriesSpec
<1>4. Spec => EvidenceSpec
  <2>1. AllBegin => EvidenceInit
    BY DEF AllBegin
  <2>2. AllStep => [EvidenceNext]_efVars
    BY DEF AllStep
  <2> QED
    BY <2>1, <2>2, BeginsApart, StepsApart, PTL DEF Spec, EvidenceSpec
<1>5. Spec => ScoringSpec
  <2>1. AllBegin => ScoringInit
    BY DEF AllBegin
  <2>2. AllStep => [ScoringNext]_csVars
    BY DEF AllStep
  <2> QED
    BY <2>1, <2>2, BeginsApart, StepsApart, PTL DEF Spec, ScoringSpec
<1>6. Spec => SnapshotSpec
  <2>1. AllBegin => SnapshotInit
    BY DEF AllBegin
  <2>2. AllStep => [SnapshotNext]_scVars
    BY DEF AllStep
  <2> QED
    BY <2>1, <2>2, BeginsApart, StepsApart, PTL DEF Spec, SnapshotSpec
<1>7. Spec => EvaluationSpec
  <2>1. AllBegin => EvaluationInit
    BY DEF AllBegin
  <2>2. AllStep => [EvaluationNext]_evVars
    BY DEF AllStep
  <2> QED
    BY <2>1, <2>2, BeginsApart, StepsApart, PTL DEF Spec, EvaluationSpec
<1>8. Spec => ChallengerSpec
  <2>1. AllBegin => ChallengerInit
    BY DEF AllBegin
  <2>2. AllStep => [ChallengerNext]_chVars
    BY DEF AllStep
  <2> QED
    BY <2>1, <2>2, BeginsApart, StepsApart, PTL DEF Spec, ChallengerSpec
<1>9. Spec => DeploymentSpec
  <2>1. AllBegin => DeploymentInit
    BY DEF AllBegin
  <2>2. AllStep => [DeploymentNext]_dpVars
    BY DEF AllStep
  <2> QED
    BY <2>1, <2>2, BeginsApart, StepsApart, PTL DEF Spec, DeploymentSpec
<1> QED
  BY <1>1, <1>2, <1>3, <1>4, <1>5, <1>6, <1>7, <1>8, <1>9

\* Whichever component moves, the rows of every component are of their kind, for any
\* writers, runs, batches, filings, evidence, policies, builders, candidates and releases.
THEOREM ResearchDataTyped == Spec => []TypeOK
<1>1. ArchiveTypeOK /\ IngestionTypeOK /\ SeriesTypeOK /\ EvidenceTypeOK /\ ScoringTypeOK
      /\ SnapshotTypeOK /\ EvaluationTypeOK /\ ChallengerTypeOK /\ DeploymentTypeOK
      => TypeOK
  BY DEF TypeOK
<1> QED
  BY <1>1, ComponentsApart, ArchiveTyped, IngestionTyped, SeriesTyped, EvidenceTyped, ScoringTyped,
     SnapshotsTyped, EvaluationTyped, ChallengerTyped, DeploymentTyped, PTL

\* And everything that is promised of one component is kept beside the others: what is
\* stored, told, read, derived, scored, labelled, promoted and deployed is sound, and a step
\* never undoes what was committed, opens the holdout early or makes an improvement cost.
THEOREM ResearchDataSound ==
    Spec => /\ [](StoredIsWhole /\ RunTellsRows /\ ReadersSeeLatest /\ IdentityHistorySound)
            /\ [](NoLookahead /\ QuartersTellBooks /\ EvidenceTellsSince)
            /\ [](ScoreOnScale /\ WritesAreValid /\ ComparableScores /\ OneSession)
            /\ [](MaturityIsSound /\ SplitIsMature /\ ResumeAgrees)
            /\ [](PromotedOnMerit /\ NeverStranded /\ DeployedAsTold)
            /\ ImprovementPays /\ FrozenOnceBuilt /\ KeepsHoldoutPromise
  BY ComponentsApart, ObjectsWhole, RunsTellRows, ReadersSelectLatest, HistoriesStaySound,
     NothingKnownEarly, QuartersAreTheBooks, EvidenceToldSince, ScaleKept, WritesPass,
     ScoresCompare, SessionsAgree, LabelsMature, SplitsAreMature, ResumesAgree, EarnedTwice,
     NobodyStranded, DeploymentIsTold, Improvement, RunsStayFrozen, HoldoutPromiseKept, PTL
=============================================================================
