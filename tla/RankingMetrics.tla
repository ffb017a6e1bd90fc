---------------------------- MODULE RankingMetrics ----------------------------
(***************************************************************************)
(* How one cohort of scored securities is ranked, selected, compared with  *)
(* what the securities did afterwards, and judged.  The champion's         *)
(* evaluation (R), the challenger experiment (S2) and the temporal holdout *)
(* (T) rank and measure alike; they differ in whose scores they rank.      *)
(*                                                                         *)
(* A cohort is a function `score` from its securities to scores, where     *)
(* Unranked stands for a security without a rankable snapshot.  Securities *)
(* are numbers in the order of their symbol and id, which breaks ties.     *)
(* Measurements pool cohorts: a row of the pool is one security of one     *)
(* cohort, with its rank, whether it is selected, and its actual label.    *)
(***************************************************************************)
EXTENDS Integers, FiniteSets

Unranked == -1

Label == {"positive", "negative", "unmatured", "unavailable"}

Rankable(score) == {s \in DOMAIN score : score[s] # Unranked}

Ahead(score, t, s) ==
    \/ score[t] > score[s]
    \/ score[t] = score[s] /\ t < s

\* The position by score, symbol and security; the n-th of n comes last.
DisplayOrder(score, s) ==
    1 + Cardinality({t \in Rankable(score) : Ahead(score, t, s)})

\* A selection contract takes a count, or a percentage rounded up.
SelectionCount(contract, n) ==
    LET wanted == IF contract.kind = "count" THEN contract.value
                  ELSE (n * contract.value + 99) \div 100
        least == IF contract.kind = "count" THEN 0 ELSE 1
        atLeast == IF wanted < least THEN least ELSE wanted
    IN IF n = 0 THEN 0 ELSE IF atLeast > n THEN n ELSE atLeast

IsSelected(score, contract, s) ==
    /\ s \in Rankable(score)
    /\ DisplayOrder(score, s) <= SelectionCount(contract, Cardinality(Rankable(score)))

\* What a selection says of one security, given what became of it.
ConfusionClass(rankable, selected, label, view) ==
    CASE label = "unmatured" -> "excluded_unmatured"
      [] label = "unavailable" -> "excluded_unavailable"
      [] label \in {"positive", "negative"} /\ view = "rankable_only" /\ ~rankable ->
            "excluded_rankability_for_rankable_only"
      [] label = "positive" /\ (view = "end_to_end" \/ rankable) ->
            IF selected THEN "tp" ELSE "fn"
      [] label = "negative" /\ (view = "end_to_end" \/ rankable) ->
            IF selected THEN "fp" ELSE "tn"

\* The persisted comparison of one cohort under one selection contract.
ConfusionRows(cohort, score, label, contract, view) ==
    {[cohort |-> cohort, security |-> s,
      rank |-> IF s \in Rankable(score) THEN DisplayOrder(score, s) ELSE 0,
      selected |-> IsSelected(score, contract, s), label |-> label[s],
      class |-> ConfusionClass(s \in Rankable(score), IsSelected(score, contract, s),
                               label[s], view)]
        : s \in DOMAIN score}

InClass(rows, classes) == Cardinality({r \in rows : r.class \in classes})

-----------------------------------------------------------------------------
(* Metrics are fractions, <<numerator, denominator>>, and undefined when   *)
(* the denominator is 0.  The code divides Decimals of 28 digits; here     *)
(* fractions are compared exactly.                                         *)

Precision(rows) == <<InClass(rows, {"tp"}), InClass(rows, {"tp", "fp"})>>
Recall(rows) == <<InClass(rows, {"tp"}), InClass(rows, {"tp", "fn"})>>

\* 2pr / (p + r) is 2tp / (2tp + fp + fn), undefined when there is no hit.
F1(rows) ==
    LET hits == InClass(rows, {"tp"})
    IN <<2 * hits, IF hits = 0 THEN 0 ELSE 2 * hits + InClass(rows, {"fp", "fn"})>>

Defined(x) == x[2] # 0
Less(x, y) == x[1] * y[2] < y[1] * x[2]

\* The ranks of the positives, and twice their median.
Hits(rows) == {r \in rows : r.label = "positive" /\ r.rank > 0}

Position(H, r) ==
    1 + Cardinality({q \in H : \/ q.rank < r.rank
                               \/ /\ q.rank = r.rank
                                  /\ \/ q.cohort < r.cohort
                                     \/ q.cohort = r.cohort /\ q.security < r.security})

MedianRank(rows) ==
    LET H == Hits(rows)
        n == Cardinality(H)
        at(k) == (CHOOSE r \in H : Position(H, r) = k).rank
    IN IF n = 0 THEN <<0, 0>>
       ELSE <<at((n + 1) \div 2) + at((n + 2) \div 2), 2>>

\* One cell of the persisted metrics.
Measures(rows) ==
    [precision |-> Precision(rows), recall |-> Recall(rows), f1 |-> F1(rows),
     median |-> MedianRank(rows)]

Supported(m) == \A x \in {m.precision, m.recall, m.f1, m.median} : Defined(x)

\* A challenger is better on the primary contract when it finds strictly more
\* and is worse in no respect; the other contracts may not get worse.
BeatsOnPrimary(m, champion) ==
    /\ Supported(m) /\ Supported(champion)
    /\ Less(champion.f1, m.f1)
    /\ ~Less(m.precision, champion.precision)
    /\ ~Less(m.recall, champion.recall)
    /\ ~Less(champion.median, m.median)

HoldsElsewhere(m, champion) ==
    Defined(m.f1) /\ Defined(champion.f1) /\ ~Less(m.f1, champion.f1)
=============================================================================
