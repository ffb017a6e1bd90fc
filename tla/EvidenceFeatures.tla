--------------------------- MODULE EvidenceFeatures ---------------------------
(***************************************************************************)
(* What research derives, besides the financial series, from evidence that *)
(* is loaded in any order and known from the day it became available:      *)
(*   market structure  strength, averages, volatility, range, activity and *)
(*                     delivery over the last price bars of a security,    *)
(*   attention         counts of news and of analysts,                     *)
(*   business events   how large an announced event is for the company.    *)
(*                                                                         *)
(* Facts are those of MultibaggerLabels; a bar also has its range, volume  *)
(* and delivery, and there are benchmark bars, delivery observations and   *)
(* attention observations.  A feature is a set: {} where the code gives    *)
(* None, or a value with its `available_at`.  Quotients are pairs.  Ages,  *)
(* which grow with the cutoff, are left out.                               *)
(***************************************************************************)
EXTENDS FinancialSeries, MultibaggerLabels

CONSTANTS
    Bundle,         \* sets of facts that are loaded together
    ShortWindow,    \* bars of the short window (20)
    MediumWindow,   \* bars of the medium window (60)
    NewsWindow,     \* the news window research asks for, by its last day
    Announced       \* business events: [type, available, facts]

NoShare == -1

\* Of a day there is one bar at a time, and the closes before a split divide by its factor,
\* so that prices stay whole.
ASSUME EvidenceAssumption ==
    /\ ShortWindow \in Nat \ {0} /\ MediumWindow \in Nat /\ ShortWindow < MediumWindow
    /\ \A facts \in Bundle : IsFiniteSet(facts)
    /\ \A f \in UNION Bundle : f.available \in Nat \ {0} /\ f.date \in Nat \ {0}
    /\ \A f \in OfKind(UNION Bundle, "attention") : f.revised \in Nat
    /\ \A a, b \in OfKind(UNION Bundle, "bar") : a.date = b.date /\ a.available = b.available => a = b
    /\ \A e \in Announced : e.available \in Nat
    /\ LET bars == OfKind(UNION Bundle, "bar")
       IN \A b \in bars, s \in OfKind(UNION Bundle, "action") :
             b.date < s.date /\ s.date <= Max(Days(bars)) =>
                 \A n \in {b.close, b.high, b.low} : n % s.factor = 0

VARIABLE gathered   \* the facts that are loaded
efVars == <<gathered>>

------------------------------ (* Adjusted prices *) ------------------------------

UpTo(F, day) == {f \in F : f.kind = "bar" => f.date <= day}

ByDate(S) ==
    [i \in 1..Cardinality(S) |-> CHOOSE b \in S : Cardinality({a \in S : a.date < b.date}) = i - 1]

\* Mutant: a rebased price is known as soon as the raw one is.
RebasedSinceRaw(b, applied) ==
    LET factor == FoldSet(LAMBDA s, n : s.factor * n, 1, applied)
    IN [date |-> b.date, raw |-> b, available |-> b.available,
        close |-> b.close \div factor, high |-> b.high \div factor, low |-> b.low \div factor]

\* A bar on the price basis of the last bar.
Rebased(b, applied) ==
    LET factor == FoldSet(LAMBDA s, n : s.factor * n, 1, applied)
    IN [date |-> b.date, raw |-> b,
        available |-> Max({b.available} \cup {s.available : s \in applied}),
        close |-> b.close \div factor, high |-> b.high \div factor, low |-> b.low \div factor]

AdjustedSeries(F, cutoff) ==
    ByDate({Rebased(b, {s \in Adjustments(F, cutoff) : b.date < s.date})
                : b \in SeriesAsOf(F, "bar", cutoff)})

\* The return from each bar to the next; undefined after a price of nothing.
AdjacentReturns(B) ==
    [i \in 1..Len(B) - 1 |->
        [ratio |-> {<<B[i + 1].close - B[i].close, B[i].close>> : n \in {B[i].close} \cap (Nat \ {0})},
         available |-> LaterOf(B[i].available, B[i + 1].available)]]

----------------------------- (* Market structure *) -----------------------------

\* The last n of S, if there are so many.
Window(S, n) == {SubSeq(S, i - n + 1, i) : i \in {Len(S)} \cap {j \in Nat : j >= n}}

FieldSum(W, field) == FoldSeq(LAMBDA b, n : b[field] + n, 0, W)

\* The windows whose mean close is positive.
Priced(B, size) == {W \in Window(B, size) : FieldSum(W, "close") > 0}

CloseToAverage(B) ==
    {[value |-> <<W[ShortWindow].close * ShortWindow - FieldSum(W, "close"), FieldSum(W, "close")>>,
      available |-> AvailableFrom(W)] : W \in Priced(B, ShortWindow)}

ShortToMediumAverage(B) ==
    {LET short == SubSeq(W, MediumWindow - ShortWindow + 1, MediumWindow)
         medium == FieldSum(W, "close") * ShortWindow
     IN [value |-> <<FieldSum(short, "close") * MediumWindow - medium, medium>>,
         available |-> AvailableFrom(W)] : W \in Priced(B, MediumWindow)}

ConsolidationRange(B) ==
    {LET highest == Max({W[i].high : i \in DOMAIN W})
         lowest == Min({W[i].low : i \in DOMAIN W})
     IN [value |-> <<(highest - lowest) * ShortWindow, FieldSum(W, "close")>>,
         available |-> AvailableFrom(W)] : W \in Priced(B, ShortWindow)}

\* The returns a volatility is the deviation of; all of them must be defined.
Volatility(B, size) ==
    {[value |-> [i \in 1..size |-> CHOOSE r \in W[i].ratio : TRUE], available |-> AvailableFrom(W)]
        : W \in {V \in Window(AdjacentReturns(B), size) : \A i \in 1..size : V[i].ratio # {}}}

\* Equal returns do not deviate.
Steady(returns) == \A i, j \in DOMAIN returns : AtMost(returns[i], returns[j])

VolatilityRatio(S, M) ==
    {[value |-> <<p[1].value, p[2].value>>, available |-> LaterOf(p[1].available, p[2].available)]
        : p \in {q \in S \X M : ~Steady(q[2].value)}}

Traded(W) == SumFunction([i \in DOMAIN W |-> W[i].raw.close * W[i].raw.volume])

RawAvailable(W) == Max({W[i].raw.available : i \in DOMAIN W})

ActivityLevel(B) ==
    {[value |-> <<Traded(W), ShortWindow>>, available |-> RawAvailable(W)]
        : W \in Window(B, ShortWindow)}

ActivityRatio(B) ==
    {LET recent == SubSeq(W, MediumWindow - ShortWindow + 1, MediumWindow)
     IN [value |-> <<Traded(recent) * MediumWindow, Traded(W) * ShortWindow>>,
         available |-> RawAvailable(W)]
        : W \in {V \in Window(B, MediumWindow) : Traded(V) # 0}}

BarDelivery(B) ==
    {[value |-> <<SumFunction([i \in DOMAIN W |-> W[i].raw.share]), ShortWindow>>,
      available |-> RawAvailable(W)]
        : W \in {V \in Window(B, ShortWindow) : \A i \in DOMAIN V : V[i].raw.share # NoShare}}

OnDaysOf(F, W, cutoff) ==
    {f \in SeriesAsOf(F, "delivery", cutoff) : f.date \in {W[i].date : i \in DOMAIN W}}

\* Observations of another provider on the days of the last bars; known from when they
\* are, whenever those bars became known.
ReportedDelivery(F, B, cutoff) ==
    {LET seen == OnDaysOf(F, W, cutoff)
     IN [value |-> <<FoldSet(LAMBDA f, n : f.share + n, 0, seen), ShortWindow>>,
         available |-> Max({f.available : f \in seen})]
        : W \in {V \in Window(B, ShortWindow) :
                    /\ Days(OnDaysOf(F, V, cutoff)) = {V[i].date : i \in DOMAIN V}
                    /\ \A f \in OnDaysOf(F, V, cutoff) : f.share # NoShare}}

\* The price over the window against that of the benchmark, between bars of the same days;
\* known from when these four bars are, whatever bars lie between.
RelativeStrength(F, B, cutoff) ==
    UNION {LET first == W[1]
               last == W[MediumWindow + 1]
               On(day) == {b \in SeriesAsOf(F, "benchmark", cutoff) : b.date = day /\ b.close > 0}
           IN {[value |-> <<last.close * p[1].close - first.close * p[2].close,
                            first.close * p[2].close>>,
                available |-> Max({first.available, last.available, p[1].available, p[2].available})]
                  : p \in {q \in On(first.date) \X On(last.date) : first.close > 0}}
           : W \in Window(B, MediumWindow + 1)}

MarketFeatures(F, cutoff) ==
    LET B == AdjustedSeries(F, cutoff)
        short == Volatility(B, ShortWindow)
        medium == Volatility(B, MediumWindow)
    IN Tagged("strength", RelativeStrength(F, B, cutoff))
       \cup Tagged("close_to_average", CloseToAverage(B))
       \cup Tagged("average_to_average", ShortToMediumAverage(B))
       \cup Tagged("volatility_short", short)
       \cup Tagged("volatility_medium", medium)
       \cup Tagged("volatility_ratio", VolatilityRatio(short, medium))
       \cup Tagged("consolidation", ConsolidationRange(B))
       \cup Tagged("activity", ActivityLevel(B))
       \cup Tagged("activity_ratio", ActivityRatio(B))
       \cup Tagged("bar_delivery", BarDelivery(B))
       \cup Tagged("delivery", ReportedDelivery(F, B, cutoff))

-------------------------------- (* Attention *) --------------------------------

Newer(g, f) ==
    \/ g.available > f.available
    \/ g.available = f.available /\ g.revised > f.revised

\* The newest revision of every record of the provider, whatever company it is about.
NewestRecords(F, cutoff) ==
    LET known == Visible(F, "attention", cutoff)
    IN {f \in known : \A g \in known : g.external = f.external => ~Newer(g, f)}

\* The newest record of each day, of one metric of the company.
Observations(F, metric, cutoff) ==
    LET own == {f \in NewestRecords(F, cutoff) : f.metric = metric /\ f.company = "own"}
    IN {f \in own : \A g \in own : g.date = f.date => ~Newer(g, f)}

Payload(f) == <<f.company, f.metric, f.date, f.count, f.coverage>>

\* Records of the same age that tell different things of the same: the read raises.
Refused(F, cutoff) ==
    \/ \E f, g \in NewestRecords(F, cutoff) : f.external = g.external /\ Payload(f) # Payload(g)
    \/ \E metric \in {"news", "analysts"} : \E f, g \in Observations(F, metric, cutoff) :
          f.date = g.date /\ Payload(f) # Payload(g)

\* A count is told only of complete coverage.
Counted(S) ==
    {[value |-> f.count, available |-> f.available] : f \in {g \in S : g.coverage = "complete"}}

AttentionFeatures(F, cutoff) ==
    LET news == {f \in Observations(F, "news", cutoff) : f.date = NewsWindow}
        analysts == Observations(F, "analysts", cutoff)
        latest == {f \in analysts : f.date = Max(Days(analysts))}
    IN IF Refused(F, cutoff) THEN {}
       ELSE Tagged("news", Counted(news)) \cup Tagged("analysts", Counted(latest))

----------------------------- (* Business events *) -----------------------------

\* The latest twelve months of revenue that are known at a cutoff, if positive.
EventRevenue(scope, cutoff) ==
    LET S == QuarterSeries(KnownFigures(scope, cutoff), "revenue")
        T == UNION {Trailing(S, S[i].year, S[i].place) : i \in DOMAIN S}
        last == {t \in T : \A u \in T : u.end <= t.end}
    IN {t \in last : last = {t} /\ t.value > 0}

\* What the announcement says of a quantity; {} if it says nothing.
Stated(e, code) == {[amount |-> f.amount, unit |-> f.unit] : f \in {g \in e.facts : g.code = code}}

\* ... and if it says different things.
Resolved(e, code) == {o \in Stated(e, code) : Stated(e, code) = {o}}

\* Mutant: an event is measured against what the company earns by now.
RatioToRevenueByNow(e, code, scope, cutoff) ==
    {[value |-> <<p[1].amount, p[2].value>>, available |-> LaterOf(e.available, p[2].available)]
        : p \in {q \in Resolved(e, code) \X EventRevenue(scope, cutoff) : q[1].unit = "INR"}}

\* An event is measured against what was known of the company when it was announced.
RatioToRevenue(e, code, scope, cutoff) ==
    {[value |-> <<p[1].amount, p[2].value>>, available |-> LaterOf(e.available, p[2].available)]
        : p \in {q \in Resolved(e, code) \X EventRevenue(scope, e.available) : q[1].unit = "INR"}}

\* The capacity afterwards and the capacity added, whichever is told, must agree.
CapacityChange(e) ==
    UNION {LET after == Stated(e, "after")
               added == Stated(e, "added")
               changes == {<<o.amount - b.amount, b.amount>> : o \in after}
                          \cup {<<o.amount, b.amount>> : o \in added}
           IN {[value |-> n, available |-> e.available]
                 : n \in {m \in changes :
                            /\ changes = {m} /\ Cardinality(after) <= 1 /\ Cardinality(added) <= 1
                            /\ m[1] > 0 /\ \A o \in after \cup added : o.unit = b.unit}}
           : b \in {o \in Resolved(e, "before") : o.amount > 0}}

Stake(e) == {[value |-> o.amount, available |-> e.available] : o \in Resolved(e, "stake")}

EventFeatures(e, scope, cutoff) ==
    CASE e.available > cutoff -> {}
      [] e.type = "order" -> RatioToRevenue(e, "order", scope, cutoff)
      [] e.type = "capex" -> RatioToRevenue(e, "capex", scope, cutoff)
      [] e.type = "capacity" -> CapacityChange(e)
      [] OTHER -> RatioToRevenue(e, "consideration", scope, cutoff) \cup Stake(e)

------------------------------ (* What happens *) ------------------------------

EvidenceInit == gathered = {}

Load(facts) == ~(facts \subseteq gathered) /\ gathered' = gathered \cup facts

EvidenceNext == \E facts \in Bundle : Load(facts)

EvidenceSpec == EvidenceInit /\ [][EvidenceNext]_efVars

-------------------------------- (* Properties *) --------------------------------

EvidenceTypeOK == gathered \subseteq UNION Bundle

FeaturesAsOf(cutoff, day) ==
    MarketFeatures(UpTo(gathered, day), cutoff) \cup AttentionFeatures(gathered, cutoff)

\* What a record tells of.
Subject(f) == <<f.date, IF f.kind = "action" THEN <<f.type>> ELSE <<f.company, f.metric>>>>

\* A record that now tells of something else leaves no trace on what it told of.
Moved(day) ==
    \E f, g \in gathered :
        /\ f.kind = g.kind /\ f.kind \in {"action", "attention"} /\ f.external = g.external
        /\ f.available < day /\ g.available = day /\ Subject(f) # Subject(g)

\* A new bar moves the window of these, which do not count when their bars became known.
Shifted(name, day) ==
    name \in {"strength", "delivery"} /\ \E b \in Visible(gathered, "bar", day) : b.available = day

\* Evidence that claims to be known since a day is what research derives from that day
\* on until it changes, and an event is measured by what was known when it was announced.
\* But for three gaps: a record that moved, a window that shifted, a read that was refused
\* until its conflict was resolved.
EvidenceTellsSince ==
    /\ \A c \in {f.available : f \in gathered}, day \in {4, LastDay} :
          LET before == FeaturesAsOf(c - 1, day)
          IN \A d \in FeaturesAsOf(c, day) :
                \/ d.is.available = c \/ d \in before
                \/ Moved(c) \/ Shifted(d.of, c)
                \/ d.of \in {"news", "analysts"} /\ Refused(gathered, c - 1)
    /\ \A e \in Announced, scope \in Scopes :
          \A c \in e.available..today : \A d \in EventFeatures(e, scope, c) :
              d.available = e.available
=============================================================================
