--------------------------- MODULE ComponentScoring ---------------------------
(***************************************************************************)
(* The eight component scorers of one company, its confidence and its      *)
(* eligibility: pure functions of a bundle of evidence and the policy.     *)
(*                                                                         *)
(* A bundle maps each metric of a component to an item, or to Absent.  An  *)
(* item has a value, or Undefined where the feature has none, and `at`,    *)
(* which stands for everything that must agree within a bundle: provider,  *)
(* scope, company, cutoff and fiscal endpoint.  Units, versions, types and *)
(* the time since when a score is available are left out.                  *)
(*                                                                         *)
(* Scores are decimal numbers of SignificantDigits digits, rounded half to *)
(* even after every operation as the default decimal context does.  Raw    *)
(* values are fractions of two integers; the rounding of a division that   *)
(* makes one is that of the interpolation which follows.  An optional      *)
(* value is a set.                                                         *)
(***************************************************************************)
EXTENDS Integers, FiniteSets, FiniteSetsExt, Sequences, SequencesExt

CONSTANTS
    Absent,             \* no item
    Undefined,          \* an item without a value
    SignificantDigits,  \* precision of the decimal context
    Offered,            \* the items each metric of each scorer may have
    Curve,              \* scorer -> subfactor -> breakpoints <<raw, score>>
    Share,              \* scorer -> subfactor -> weight, in percent
    Coverage,           \* minimum weight coverage of each scorer, in percent
    PolicyLimit,        \* windows, ages and base scores of the policy
    ConfidenceShare,    \* weights of the confidence terms, in percent
    Floors              \* eligibility policy

Order ==
    [financial_inflection |->
        <<"revenue_acceleration", "pat_acceleration", "margin_expansion", "roce_improvement",
          "growth_consistency", "growth_persistence">>,
     business_quality |-> <<"roce_level", "roe_level", "margin_level">>,
     balance_sheet |-> <<"net_debt_to_ebitda", "debt_to_equity", "interest_coverage">>,
     cash_flow_quality |->
        <<"cfo_conversion", "cfo_to_ebitda", "receivable_days", "trade_working_capital_burden">>,
     valuation |->
        <<"market_cap_to_ttm_pat", "market_cap_to_total_equity", "market_cap_to_ttm_revenue",
          "simplified_ev_to_ttm_ebitda", "simplified_ev_to_ttm_revenue">>,
     market_structure |->
        <<"relative_strength", "close_to_sma20", "sma20_to_sma60", "volatility_ratio",
          "consolidation_range", "volume_ratio", "delivery_percentage">>,
     low_market_attention |-> <<"news_mentions_count", "analyst_coverage_count">>]

TermOrder == <<"completeness", "source_reliability", "recency", "history", "evidence">>

Weighed == DOMAIN Order
Subjects == Weighed \cup {"business_catalyst", "confidence", "eligibility"}

Codes(c) == {Order[c][i] : i \in DOMAIN Order[c]}

ValidCurve(points) ==
    /\ points \in Seq(Int \X (0..100)) /\ Len(points) >= 2
    /\ \A i \in 1..Len(points) - 1 :
          points[i][1] < points[i + 1][1] /\ points[i][2] <= points[i + 1][2]

Percentages(codes) == [codes -> 0..100]

Total(weights) == SumFunctionOnSet(weights, DOMAIN weights)

\* What every weighted scorer asks of its policy.
ValidScoring(c) ==
    /\ Share[c] \in Percentages(Codes(c)) /\ Total(Share[c]) = 100
    /\ \A n \in Codes(c) : ValidCurve(Curve[c][n])
    /\ Coverage[c] \in 1..100

ValidCatalysts ==
    /\ \A n \in {"order_value", "capacity_change", "recency"} :
          ValidCurve(Curve["business_catalyst"][n])
    /\ PolicyLimit.eventAge \in Nat \ {0}
    /\ PolicyLimit.commencement \in 0..100 /\ PolicyLimit.approval \in 0..100

ValidConfidence ==
    /\ ConfidenceShare \in Percentages(Range(TermOrder)) /\ Total(ConfidenceShare) = 100
    /\ PolicyLimit.staleAfter \in Nat \ {0} /\ PolicyLimit.history \in Nat \ {0}

ValidEligibility ==
    /\ Floors.history \in Nat \ {0} /\ Floors.core \in 0..100
    /\ Floors.traded \in Nat \cup {Absent}

ASSUME PolicyAssumption ==
    /\ SignificantDigits \in Nat \ {0, 1}
    /\ \A c \in Weighed : ValidScoring(c)
    /\ ValidCatalysts /\ ValidConfidence /\ ValidEligibility

\* The metrics a weighted scorer takes, where they are not its subfactors.
Metrics(c) ==
    CASE c = "financial_inflection" ->
            (Codes(c) \ {"roce_improvement"}) \cup {"current_roce", "prior_year_roce"}
      [] c = "balance_sheet" -> {"net_debt", "ttm_ebitda", "debt_to_equity", "interest_coverage"}
      [] c = "cash_flow_quality" ->
            {"cfo_conversion", "cfo_to_ebitda", "receivable_days", "trade_working_capital_change",
             "ttm_revenue"}
      [] OTHER -> Codes(c)

Fraction == Int \X (Nat \ {0})
UnitInterval == {f \in Fraction : 0 <= f[1] /\ f[1] <= f[2]}

EventTypes ==
    <<"order_award", "capacity_expansion", "commercial_commencement", "capex_announcement",
      "acquisition_agreement", "regulatory_approval">>

OffersOf(c, m) == {Offered[c][m][i] : i \in DOMAIN Offered[c][m]}

\* The bundles the scorers judge without an error of type or range.
ASSUME OfferedAssumption ==
    /\ \A c \in Subjects : \A m \in DOMAIN Offered[c] : 1 \in DOMAIN Offered[c][m]
    /\ \A c \in Weighed :
          /\ DOMAIN Offered[c] = Metrics(c)
          /\ \A m \in Metrics(c) : \A item \in OffersOf(c, m) \ {Absent} :
                item.value \in Fraction \cup {Undefined}
    /\ DOMAIN Offered["business_catalyst"] \subseteq Nat
    /\ IsFiniteSet(DOMAIN Offered["business_catalyst"])
    /\ \A k \in DOMAIN Offered["business_catalyst"] :
          \A event \in OffersOf("business_catalyst", k) \ {Absent} :
             /\ event.type \in Range(EventTypes) /\ event.age \in Nat
             /\ event.value \in Fraction \cup {Undefined}
    /\ DOMAIN Offered["confidence"] = {"features", "reliability", "age", "history", "confidence"}
    /\ OffersOf("confidence", "features") \subseteq UnitInterval
    /\ OffersOf("confidence", "reliability") \subseteq UnitInterval
    /\ OffersOf("confidence", "age") \subseteq Nat \cup {Absent}
    /\ OffersOf("confidence", "history") \subseteq Nat
    /\ OffersOf("confidence", "confidence") \subseteq UnitInterval \cup {Absent}
    /\ DOMAIN Offered["eligibility"] = {"allowed", "issue", "history", "new", "features", "traded"}
    /\ OffersOf("eligibility", "features") \subseteq UnitInterval
    /\ OffersOf("eligibility", "history") \subseteq Nat
    /\ OffersOf("eligibility", "traded") \subseteq Nat \cup {Absent}
    /\ \A m \in {"allowed", "issue", "new"} : OffersOf("eligibility", m) \subseteq BOOLEAN

VARIABLES scorer, evidence
csVars == <<scorer, evidence>>

----------------------------- (* Decimal arithmetic *) -----------------------------

\* The value is m * 10^e, for m >= 0.
Dec(m, e) == [m |-> m, e |-> e]
Whole(n) == Dec(n, 0)
Nought == Whole(0)

PowerOfTen[k \in Nat] == IF k = 0 THEN 1 ELSE 10 * PowerOfTen[k - 1]

DigitsOf[n \in Nat] == IF n = 0 THEN 0 ELSE 1 + DigitsOf[n \div 10]

HalfEven(n, unit) ==
    LET q == n \div unit
        r == n % unit
    IN IF 2 * r > unit \/ (2 * r = unit /\ q % 2 = 1) THEN q + 1 ELSE q

Fit(n, e) ==
    LET excess == DigitsOf[n] - SignificantDigits
    IN IF excess > 0 THEN Dec(HalfEven(n, PowerOfTen[excess]), e + excess) ELSE Dec(n, e)

Times(a, b) == Fit(a.m * b.m, a.e + b.e)

Aligned(a, b) == a.m * PowerOfTen[a.e - Min({a.e, b.e})]

Plus(a, b) ==
    IF a.m = 0 THEN b ELSE IF b.m = 0 THEN a
    ELSE Fit(Aligned(a, b) + Aligned(b, a), Min({a.e, b.e}))

\* The quotient of two whole numbers.
Divided(n, d) ==
    LET shift == SignificantDigits + DigitsOf[d]
        wide == n * PowerOfTen[shift]
        excess == DigitsOf[wide \div d] - SignificantDigits
    IN IF n = 0 THEN Nought ELSE Dec(HalfEven(wide, d * PowerOfTen[excess]), excess - shift)

Minus(a, b) == Fit(Aligned(a, b) - Aligned(b, a), Min({a.e, b.e}))

NotAbove(a, b) == a.m = 0 \/ (b.m # 0 /\ Aligned(a, b) <= Aligned(b, a))

SumOf(decimals) == FoldLeft(Plus, Nought, decimals)

-------------------------------- (* One component *) --------------------------------

\* score_piecewise_linear: clamped at both ends, interpolated in between.
Interpolated(raw, points) ==
    LET n == raw[1]
        d == raw[2]
        last == Len(points)
        k == Min({i \in 2..last : i = last \/ n <= points[i][1] * d})
        lower == points[k - 1]
        upper == points[k]
    IN IF n <= points[1][1] * d THEN Whole(points[1][2])
       ELSE IF n >= points[last][1] * d THEN Whole(points[last][2])
       ELSE Plus(Whole(lower[2]),
                 Times(Divided(n - lower[1] * d, (upper[1] - lower[1]) * d),
                       Whole(upper[2] - lower[2])))

\* Mutant: a missing subfactor counts as nought instead of being left out.
ConfiguredWeight(weight, available) == Divided(weight, 100)

EffectiveWeight(weight, available) == Divided(weight, available)

\* What a scorer makes of its signals.  Subfactors that have one share the weight of
\* the component; below the minimum coverage there is no score.
Weighted(c, signals) ==
    LET counted == {n \in Codes(c) : signals[n] # {}}
        available == SumFunctionOnSet(Share[c], counted)
        Normal(n) == Interpolated(CHOOSE raw \in signals[n] : TRUE, Curve[c][n])
        Part(n) == Times(Normal(n), EffectiveWeight(Share[c][n], available))
    IN [score |-> IF available < Coverage[c] THEN {}
                  ELSE {SumOf([i \in DOMAIN Order[c] |->
                          IF Order[c][i] \in counted THEN Part(Order[c][i]) ELSE Nought])},
        available |-> available,
        parts |-> {Normal(n) : n \in counted},
        missing |-> {n \in Codes(c) : Share[c][n] > 0 /\ signals[n] = {}}]

\* The scorers but that of financial inflection drop subfactors that weigh nothing.
Carrying(c, signals) ==
    [n \in Codes(c) |-> IF Share[c][n] = 0 THEN {} ELSE signals[n]]

--------------------------- (* What the signals are made of *) ---------------------------

Given(e, metrics) == {m \in metrics : e[m] # Absent}

Value(e, m) == IF e[m] = Absent THEN {} ELSE {v \in {e[m].value} : v # Undefined}

Negated(S) == {<<-v[1], v[2]>> : v \in S}

Quotient(S, T) ==
    {<<p[1][1] * p[2][2], p[1][2] * p[2][1]>> : p \in {q \in S \X T : q[2][1] > 0}}

Change(S, T) ==
    {<<p[1][1] * p[2][2] - p[2][1] * p[1][2], p[1][2] * p[2][2]>> : p \in S \X T}

Local(e, metrics) == \A m \in Given(e, metrics) : e[m].at = "here"

\* No defined value of the metric is below a bound.
AtLeast(e, m, n) == \A v \in Value(e, m) : v[1] >= n * v[2]

InflectionCoherent(e) ==
    /\ Local(e, DOMAIN e \ {"prior_year_roce"})
    /\ e["prior_year_roce"] # Absent => e["prior_year_roce"].at = "a_year_before"

InflectionSignals(e) ==
    [n \in Codes("financial_inflection") |->
        IF n = "roce_improvement" THEN Change(Value(e, "current_roce"), Value(e, "prior_year_roce"))
        ELSE Value(e, n)]

InflectionScore(e) ==
    IF InflectionCoherent(e) THEN {Weighted("financial_inflection", InflectionSignals(e))} ELSE {}

QualitySignals(e) == [n \in Codes("business_quality") |-> Value(e, n)]

QualityScore(e) ==
    IF Local(e, DOMAIN e)
    THEN {Weighted("business_quality", Carrying("business_quality", QualitySignals(e)))}
    ELSE {}

BalanceCoherent(e) == Local(e, DOMAIN e) /\ AtLeast(e, "debt_to_equity", 0)

\* Mutant: leverage counts for the company.
BalanceSignalsAsTheyAre(e) ==
    [net_debt_to_ebitda |-> Quotient(Value(e, "net_debt"), Value(e, "ttm_ebitda")),
     debt_to_equity |-> Value(e, "debt_to_equity"),
     interest_coverage |-> Value(e, "interest_coverage")]

BalanceSignals(e) ==
    [net_debt_to_ebitda |-> Negated(Quotient(Value(e, "net_debt"), Value(e, "ttm_ebitda"))),
     debt_to_equity |-> Negated(Value(e, "debt_to_equity")),
     interest_coverage |-> Value(e, "interest_coverage")]

BalanceScore(e) ==
    IF BalanceCoherent(e)
    THEN {Weighted("balance_sheet", Carrying("balance_sheet", BalanceSignals(e)))}
    ELSE {}

CashFlowCoherent(e) == Local(e, DOMAIN e) /\ AtLeast(e, "receivable_days", 0)

CashFlowSignals(e) ==
    [cfo_conversion |-> Value(e, "cfo_conversion"),
     cfo_to_ebitda |-> Value(e, "cfo_to_ebitda"),
     receivable_days |-> Negated(Value(e, "receivable_days")),
     trade_working_capital_burden |->
        Negated(Quotient(Value(e, "trade_working_capital_change"), Value(e, "ttm_revenue")))]

CashFlowScore(e) ==
    IF CashFlowCoherent(e)
    THEN {Weighted("cash_flow_quality", Carrying("cash_flow_quality", CashFlowSignals(e)))}
    ELSE {}

\* A multiple that is defined is positive.
ValuationCoherent(e) ==
    Local(e, DOMAIN e) /\ \A m \in DOMAIN e : \A v \in Value(e, m) : v[1] > 0

ValuationScore(e) ==
    IF ValuationCoherent(e)
    THEN {Weighted("valuation",
                   Carrying("valuation", [n \in Codes("valuation") |-> Negated(Value(e, n))]))}
    ELSE {}

Returns == {"relative_strength", "close_to_sma20", "sma20_to_sma60"}

MarketCoherent(e) ==
    /\ Local(e, DOMAIN e)
    /\ \A m \in DOMAIN e : AtLeast(e, m, IF m \in Returns THEN -1 ELSE 0)
    /\ \A v \in Value(e, "delivery_percentage") : v[1] <= v[2]

MarketSignals(e) ==
    [n \in Codes("market_structure") |->
        IF n \in {"volatility_ratio", "consolidation_range"}
        THEN Negated(Value(e, n)) ELSE Value(e, n)]

MarketScore(e) ==
    IF MarketCoherent(e)
    THEN {Weighted("market_structure", Carrying("market_structure", MarketSignals(e)))}
    ELSE {}

AttentionCoherent(e) == Local(e, DOMAIN e) /\ \A m \in DOMAIN e : AtLeast(e, m, 0)

\* A count of partial coverage is Undefined; one of another window, or an old one, is
\* left out.
NewsSignal(e) ==
    {v \in Negated(Value(e, "news_mentions_count")) :
        /\ e["news_mentions_count"].window = PolicyLimit.newsWindow
        /\ e["news_mentions_count"].age <= PolicyLimit.newsAge}

AnalystSignal(e) ==
    {v \in Negated(Value(e, "analyst_coverage_count")) :
        e["analyst_coverage_count"].age <= PolicyLimit.analystAge}

AttentionScore(e) ==
    IF AttentionCoherent(e)
    THEN {Weighted("low_market_attention",
                   Carrying("low_market_attention",
                            [news_mentions_count |-> NewsSignal(e),
                             analyst_coverage_count |-> AnalystSignal(e)]))}
    ELSE {}

-------------------------------- (* Business events *) --------------------------------

RankOf(type) == CHOOSE i \in DOMAIN EventTypes : EventTypes[i] = type

\* One context and at most one security; the metrics of the bundle are events.
CatalystCoherent(e) ==
    /\ Given(e, DOMAIN e) # {} /\ Local(e, DOMAIN e)
    /\ Cardinality({e[k].security : k \in Given(e, DOMAIN e)} \ {Absent}) <= 1

CatalystCurve(n) == Curve["business_catalyst"][n]

Strength(event) ==
    CASE event.type = "order_award" ->
            {Interpolated(v, CatalystCurve("order_value")) : v \in {event.value} \ {Undefined}}
      [] event.type = "capacity_expansion" ->
            {Interpolated(v, CatalystCurve("capacity_change")) : v \in {event.value} \ {Undefined}}
      [] event.type = "commercial_commencement" -> {Whole(PolicyLimit.commencement)}
      [] event.type = "regulatory_approval" -> {Whole(PolicyLimit.approval)}
      [] OTHER -> {}

EventScore(event) ==
    IF event.age > PolicyLimit.eventAge THEN {}
    ELSE LET recency == Interpolated(<<-event.age, 1>>, CatalystCurve("recency"))
             Percent(d) == IF d.m = 0 THEN d ELSE Dec(d.m, d.e - 2)
         IN {Percent(Times(strength, recency)) : strength \in Strength(event)}

\* The best event; of equal ones the newest, then the one of the first type and id.
SelectedEvent(e) ==
    LET scored == {k \in Given(e, DOMAIN e) : EventScore(e[k]) # {}}
        NotWorse(k, j) == \A a \in EventScore(e[j]), b \in EventScore(e[k]) : NotAbove(a, b)
        best == {k \in scored : \A j \in scored : NotWorse(k, j)}
        newest == {k \in best : \A j \in best : e[k].age <= e[j].age}
        Precedes(k, j) ==
            \/ RankOf(e[k].type) < RankOf(e[j].type)
            \/ e[k].type = e[j].type /\ k <= j
    IN {k \in newest : \A j \in newest : Precedes(k, j)}

CatalystScore(e) ==
    IF CatalystCoherent(e)
    THEN {[score |-> UNION {EventScore(e[k]) : k \in SelectedEvent(e)},
           parts |-> UNION {EventScore(e[k]) : k \in Given(e, DOMAIN e)}, missing |-> {}]}
    ELSE {}

--------------------------- (* Confidence and eligibility *) ---------------------------

Percentage(n) == Dec(n, -2)

\* Age and unit-interval inputs are fractions; an input that is Absent counts as nought.
ConfidenceTerms(e) ==
    LET Portion(m) == IF e[m] = Absent THEN Nought ELSE Divided(e[m][1], e[m][2])
        aged == Divided(e["age"], PolicyLimit.staleAfter)
    IN [completeness |-> Portion("features"),
        source_reliability |-> Portion("reliability"),
        recency |-> IF e["age"] = Absent \/ e["age"] >= PolicyLimit.staleAfter THEN Nought
                    ELSE Minus(Whole(1), aged),
        history |-> IF e["history"] >= PolicyLimit.history THEN Whole(1)
                    ELSE Divided(e["history"], PolicyLimit.history),
        evidence |-> Portion("confidence")]

Confidence(e) ==
    SumOf([i \in DOMAIN TermOrder |->
        Times(ConfidenceTerms(e)[TermOrder[i]], Percentage(ConfidenceShare[TermOrder[i]]))])

\* Why a security is not eligible.
Reasons(e) ==
    LET thin == e["features"][1] * 100 < Floors.core * e["features"][2]
        short == e["history"] < Floors.history
    IN {r \in {"kind", "issue", "history", "core", "missing_liquidity", "liquidity"} :
          CASE r = "kind" -> ~e["allowed"]
            [] r = "issue" -> e["issue"]
            [] r = "history" -> short /\ ~(e["new"] /\ Floors.newListings)
            [] r = "core" -> thin
            [] r = "missing_liquidity" -> Floors.traded # Absent /\ e["traded"] = Absent
            [] r = "liquidity" ->
                 Floors.traded # Absent /\ e["traded"] # Absent /\ e["traded"] < Floors.traded}

------------------------------- (* Evidence comes in *) -------------------------------

ComponentResult(c, e) ==
    CASE c = "financial_inflection" -> InflectionScore(e)
      [] c = "business_quality" -> QualityScore(e)
      [] c = "balance_sheet" -> BalanceScore(e)
      [] c = "cash_flow_quality" -> CashFlowScore(e)
      [] c = "valuation" -> ValuationScore(e)
      [] c = "market_structure" -> MarketScore(e)
      [] c = "low_market_attention" -> AttentionScore(e)
      [] c = "business_catalyst" -> CatalystScore(e)

Components == Weighed \cup {"business_catalyst"}

\* Offered lists the items of a metric, the first one first.
ScoringInit ==
    /\ scorer \in Subjects
    /\ evidence = [m \in DOMAIN Offered[scorer] |-> Offered[scorer][m][1]]

\* The next bundle differs in one item.
Revise(m) ==
    /\ \E i \in DOMAIN Offered[scorer][m] :
          evidence' = [evidence EXCEPT ![m] = Offered[scorer][m][i]]
    /\ UNCHANGED scorer

ScoringNext == \E m \in DOMAIN evidence : Revise(m)

ScoringSpec == ScoringInit /\ [][ScoringNext]_csVars

-------------------------------- (* Properties *) --------------------------------

ScoringTypeOK ==
    /\ scorer \in Subjects
    /\ DOMAIN evidence = DOMAIN Offered[scorer]
    /\ \A m \in DOMAIN evidence : evidence[m] \in OffersOf(scorer, m)

\* A score stays between the worst and the best of the parts that are available, up to
\* the rounding of its sum, and never leaves 0 to 100, whichever parts are missing; a
\* confidence never exceeds 1.  The code raises an assertion otherwise.
ScoreOnScale ==
    LET slack == Dec(10, 2 - SignificantDigits)
    IN /\ scorer \in Components =>
            \A r \in ComponentResult(scorer, evidence) : \A s \in r.score :
               /\ NotAbove(s, Whole(100))
               /\ \E best \in r.parts : NotAbove(s, Plus(best, slack))
               /\ \E worst \in r.parts : NotAbove(worst, Plus(s, slack))
       /\ scorer = "confidence" => NotAbove(Confidence(evidence), Whole(1))

LowerIsBetter ==
    {"prior_year_roce", "net_debt", "debt_to_equity", "receivable_days",
     "trade_working_capital_change", "volatility_ratio", "consolidation_range"}
    \cup Codes("valuation") \cup Codes("low_market_attention")

\* A ratio is better the larger its denominator only if its numerator is a burden.
Burden(e, m) ==
    CASE m = "ttm_ebitda" -> \E v \in Value(e, "net_debt") : v[1] >= 0
      [] m = "ttm_revenue" -> \E v \in Value(e, "trade_working_capital_change") : v[1] >= 0
      [] OTHER -> TRUE

\* The company does better in one metric and no worse in the others.
DoesBetter(e, f, m) ==
    LET v == Value(e, m)
        w == Value(f, m)
    IN /\ v # {} /\ w # {} /\ Burden(e, m)
       /\ \A a \in v, b \in w :
             IF m \in LowerIsBetter THEN b[1] * a[2] < a[1] * b[2] ELSE a[1] * b[2] < b[1] * a[2]
       /\ \A k \in DOMAIN e \ {m} : f[k] = e[k]

\* The evidence is more complete, more reliable, newer or longer.
IsFirmer(e, f, m) ==
    /\ e[m] # Absent /\ f[m] # Absent
    /\ CASE m \in {"features", "reliability", "confidence"} -> e[m][1] * f[m][2] < f[m][1] * e[m][2]
         [] m \in {"history", "traded"} -> e[m] < f[m]
         [] m = "age" -> e[m] > f[m]
         [] m = "issue" -> e[m] /\ ~f[m]
         [] OTHER -> FALSE
    /\ \A k \in DOMAIN e \ {m} : f[k] = e[k]

\* The score of an improved bundle is not lower.
KeepsUp(c, e, f) ==
    \A r \in ComponentResult(c, e), q \in ComponentResult(c, f) :
       r.missing = q.missing => \A s \in r.score : \E t \in q.score : NotAbove(s, t)

\* An improvement of one metric never lowers the score of a component: no signal has
\* the wrong sign, no curve falls, no rounding undoes it.  Nor does a further business
\* event.  Firmer evidence lowers no confidence and makes no security ineligible.
ImprovementPays ==
    [][/\ scorer \in Weighed =>
            \A m \in DOMAIN evidence :
               DoesBetter(evidence, evidence', m) => KeepsUp(scorer, evidence, evidence')
       /\ scorer = "business_catalyst" =>
            \A m \in DOMAIN evidence :
               evidence = [evidence' EXCEPT ![m] = Absent] => KeepsUp(scorer, evidence, evidence')
       /\ scorer = "confidence" =>
            \A m \in DOMAIN evidence :
               IsFirmer(evidence, evidence', m) => NotAbove(Confidence(evidence), Confidence(evidence'))
       /\ scorer = "eligibility" /\ Reasons(evidence) = {} =>
            \A m \in DOMAIN evidence :
               IsFirmer(evidence, evidence', m) => Reasons(evidence') = {}]_csVars
=============================================================================
