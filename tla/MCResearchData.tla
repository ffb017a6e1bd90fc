----------------------------- MODULE MCResearchData -----------------------------
(***************************************************************************)
(* Components that hand finished rows to each other and change none of     *)
(* each other's: the raw archive, the ingestion that normalises what it    *)
(* stored, the series derived from what was filed, the scorers of what was *)
(* derived, the snapshots kept of the scores, the historical evaluation of *)
(* what research said, and the challenger with its holdout; and, beside    *)
(* them, the features of other evidence and the deployment of releases.    *)
(* They are checked side by side: `part` picks one of them, and the others *)
(* stay as they begin.                                                     *)
(***************************************************************************)
EXTENDS RawArchive, Ingestion, MCFinancialSeries, MCEvidenceFeatures, MCComponentScoring, MCScoreSnapshots,
        HistoricalEvaluation, ChallengerHoldout, Deployment

CONSTANTS x, y, z   \* processes, each of them of the one component that moves

VARIABLE part

----------------------------- (* Ingestion *) -----------------------------

Listed(i, content, symbol, from, to) ==
    [kind |-> "universe", external |-> symbol, content |-> content, security |-> i,
     symbol |-> symbol, from |-> from, to |-> to, sound |-> TRUE]

Quoted(kind, content, value, available, revised) ==
    [kind |-> kind, external |-> "bar", content |-> content, security |-> "a", anchor |-> 1,
     value |-> value, available |-> available, revised |-> revised, sound |-> TRUE]

Paid(content, value, available) ==
    [kind |-> "action", effect |-> "dividend", external |-> "dividend", content |-> content,
     security |-> "a", anchor |-> 2, value |-> value, available |-> available,
     revised |-> Missing, sound |-> TRUE]

\* A measurement, its correction under another id, and that id with another event.
Moving ==
    <<[Quoted("attention", 3, 7, 2, 0) EXCEPT !.external = "foo"],
      Quoted("attention", 4, 8, 3, 0), [Quoted("attention", 5, 9, 4, 0) EXCEPT !.anchor = 2]>>

Renaming(content, symbol, day, available) ==
    [kind |-> "action", effect |-> "symbol_change", external |-> "rename", content |-> content,
     security |-> "a", anchor |-> day, value |-> symbol, symbol |-> symbol, from |-> day,
     available |-> available, revised |-> Missing, sound |-> TRUE]

Replacing(i, successor) ==
    [kind |-> "action", effect |-> "security_replacement", external |-> i, content |-> 1,
     security |-> i, anchor |-> 5, value |-> successor, successor |-> successor,
     available |-> 1, revised |-> Missing, sound |-> TRUE]

\* Corrections come as late as, and later than, what they correct, and prices return
\* to a former value.
Common == {
    <<Listed("a", 1, "OLD", 1, Missing), Listed("b", 1, "BEE", 1, 3)>>,
    <<Listed("a", 2, "OLD", 1, Missing), Listed("a", 3, "PAST", 2, 4)>>,
    <<Quoted("market", 1, 10, 2, 0), Quoted("market", 4, 12, 2, 0)>>,
    <<Quoted("market", 2, 11, 2, 3), Quoted("market", 3, 10, 4, 0)>>,
    <<Renaming(1, "NEW", 3, 2), Replacing("a", "b")>> }

Other == {
    <<Replacing("b", "a")>>,
    <<Quoted("financial", 1, 7, 2, 0), Quoted("financial", 2, 8, 3, 0)>>,
    <<Quoted("benchmark", 1, 7, 2, 0), Quoted("benchmark", 2, 7, 3, 0)>>,
    <<Quoted("delivery", 1, 7, 2, 0), Quoted("delivery", 2, 8, 2, 0)>>,
    <<Quoted("announcement", 1, 7, 2, 0), Quoted("announcement", 2, 7, 3, 0)>>,
    <<Quoted("attention", 1, 7, 2, 0), Quoted("attention", 2, 7, 3, 0)>>,
    Moving,
    <<Paid(1, 7, 2), Paid(2, 8, 3)>> }

Batches == [r \in {x, y, z} |-> IF r = z THEN Other ELSE Common]

------------------------ (* Historical evaluation *) ------------------------

Closing(day, close, available) ==
    [kind |-> "bar", date |-> day, close |-> close, available |-> available]

Trading(day) == [kind |-> "session", date |-> day, available |-> day]

Action(record, type, day, factor, available) ==
    [kind |-> "action", external |-> record, type |-> type, date |-> day, factor |-> factor,
     available |-> available]

Delisting(day) == [kind |-> "listing", date |-> day, available |-> 1]

Shipments == {"past", "future", "corrections"}

Contents ==
    [past |-> {Closing(2, 10, 2), Closing(3, 12, 3), [kind |-> "filing", available |-> 3]}
              \cup {Trading(d) : d \in 2..3},
     future |-> {Closing(2, 11, 4), Closing(4, 30, 4), Closing(5, 11, 6), Closing(6, 12, 7),
                 Action("s", "split", 5, 2, 5), Action("t", "split", 5, 2, 6)} \cup {Trading(d) : d \in 4..6},
     corrections |-> {Action("s", "split", 7, 2, 6), Delisting(5)}]

Contracts == {[threshold |-> n, years |-> n] : n \in {2, 3, 5}}

Months == <<1, 2, 3>>

------------------------------ (* Challenger *) ------------------------------

Horizons == {"MB_2X_2Y", "MB_3X_3Y", "MB_5X_5Y"}

Weighing(growth, quality) == [growth |-> growth, quality |-> quality]

Weights == <<Weighing(2, 1), Weighing(1, 2), Weighing(1, 2)>>

Splits == <<"development", "validation", "holdout">>

ComponentScores ==
    [k \in 1..3 |-> <<Weighing(3, 0), Weighing(0, 2), Weighing(0, 0), Weighing(1, 1)>>]

ChampionScores == [k \in 1..3 |-> <<1, 2, 3, 4>>]

TopTwo == [kind |-> "count", value |-> 2]

\* The securities that turn out positive in the validation and the holdout cohort.
WorldOf(validation, holdout, fivefold) ==
    [h \in Horizons |->
        LET winners == <<{1}, IF h = "MB_5X_5Y" THEN fivefold ELSE validation, holdout>>
        IN [k \in 1..3 |-> [s \in 1..4 |->
              IF s \in winners[k] THEN "positive"
              ELSE IF k = 1 /\ s = 3 THEN "unmatured" ELSE "negative"]]]

Futures ==
    <<WorldOf({1, 4}, {1, 4}, {1, 4}),
      WorldOf({1, 2, 4}, {3, 4}, {1, 2, 4}),
      WorldOf({1, 4}, {1, 4}, {3, 4})>>

-----------------------------------------------------------------------------

Init ==
    /\ ArchiveInit /\ IngestionInit /\ SeriesInit /\ EvidenceInit /\ ScoringInit /\ SnapshotInit
    /\ EvaluationInit /\ ChallengerInit /\ DeploymentInit
    /\ part \in {"archive", "ingestion", "series", "evidence", "scoring", "snapshots", "evaluation",
                "challenger", "deployment"}
    /\ part # "scoring" => scorer = "eligibility"
    /\ part # "challenger" => truth = 1
    /\ part # "deployment" => current = Nowhere

Next ==
    /\ UNCHANGED part
    /\ \/ /\ part = "archive" /\ ArchiveNext
          /\ UNCHANGED <<inVars, fsVars, efVars, csVars, scVars, evVars, chVars, dpVars>>
       \/ /\ part = "ingestion" /\ IngestionNext
          /\ UNCHANGED <<arVars, fsVars, efVars, csVars, scVars, evVars, chVars, dpVars>>
       \/ /\ part = "series" /\ SeriesNext
          /\ UNCHANGED <<arVars, inVars, efVars, csVars, scVars, evVars, chVars, dpVars>>
       \/ /\ part = "evidence" /\ EvidenceNext
          /\ UNCHANGED <<arVars, inVars, fsVars, csVars, scVars, evVars, chVars, dpVars>>
       \/ /\ part = "scoring" /\ ScoringNext
          /\ UNCHANGED <<arVars, inVars, fsVars, efVars, scVars, evVars, chVars, dpVars>>
       \/ /\ part = "snapshots" /\ SnapshotNext
          /\ UNCHANGED <<arVars, inVars, fsVars, efVars, csVars, evVars, chVars, dpVars>>
       \/ /\ part = "evaluation" /\ EvaluationNext
          /\ UNCHANGED <<arVars, inVars, fsVars, efVars, csVars, scVars, chVars, dpVars>>
       \/ /\ part = "challenger" /\ ChallengerNext
          /\ UNCHANGED <<arVars, inVars, fsVars, efVars, csVars, scVars, evVars, dpVars>>
       \/ /\ part = "deployment" /\ DeploymentNext
          /\ UNCHANGED <<arVars, inVars, fsVars, efVars, csVars, scVars, evVars, chVars>>

Spec == Init /\ [][Next]_<<part, arVars, inVars, fsVars, efVars, csVars, scVars, evVars, chVars, dpVars>>

\* The rows of every component are of their kind.
TypeOK ==
    /\ ArchiveTypeOK /\ IngestionTypeOK /\ SeriesTypeOK /\ EvidenceTypeOK
    /\ part = "scoring" => ScoringTypeOK
    /\ SnapshotTypeOK /\ EvaluationTypeOK /\ ChallengerTypeOK /\ DeploymentTypeOK

Alike == Permutations({x, y})
=============================================================================
