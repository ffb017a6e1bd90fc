---------------------------- MODULE FinancialSeries ----------------------------
(***************************************************************************)
(* What research derives from the filings of one company at a knowledge    *)
(* cutoff: individual quarters, twelve trailing months, growth, margins,   *)
(* balance-sheet snapshots, ratios and the fiscal endpoint.                *)
(*                                                                         *)
(* Quarters are numbered; four of them are a fiscal year.  A day is long   *)
(* enough for a quarter to end: quarter q ends on day q.  A filing for     *)
(* quarter q shows columns: the quarter, or the year up to it.  It reports *)
(* flows for every column, and balance-sheet stocks, which it stores under *)
(* the period of its longest column.  Filings are late, missing, or        *)
(* restate the books; a filing is loaded on the day it arrives, which may  *)
(* be later than the day it says it became available.                      *)
(*                                                                         *)
(* A derived value is a set: {} where the code returns None, or a ratio    *)
(* without a value.  Metrics are the roles they play: `revenue` and        *)
(* `profit` are flows, `debt`, `cash` and `equity` stocks.  Quotients are  *)
(* pairs.                                                                  *)
(***************************************************************************)
EXTENDS Integers, FiniteSets, FiniteSetsExt, Sequences, SequencesExt

CONSTANTS
    Book,           \* an edition of the books: metric -> value of each quarter
    Calendar,       \* the filings that may come: [ends, scope, edition, columns, due, lag]
    ScopePriority,  \* filing scopes, the preferred one first
    AnnualQuarter,  \* the fiscal quarter the provider puts on annual columns, or Unlabelled
    MarketCap,      \* days with a market bar -> market capitalisation
    WindowSize,     \* observations of a growth window
    Threshold,      \* growth of a streak, in percent
    LastDay

Unlabelled == 0
Flow == {"revenue", "profit"}
Stock == {"debt", "cash", "equity"}
Length == [quarter |-> 1, half_year |-> 2, nine_month |-> 3, annual |-> 4]
YearOf(q) == (q - 1) \div 4 + 1
PlaceOf(q) == ((q - 1) % 4) + 1

\* Filings that say something of the same period at the same time: ingestion accepts a
\* changed fact only if it is later than what it changes.
Rival(f, g) ==
    /\ f # g /\ f.scope = g.scope /\ f.ends = g.ends /\ f.lag = g.lag
    /\ f.columns \cap g.columns # {}

ASSUME SeriesAssumption ==
    /\ LastDay \in Nat \ {0} /\ WindowSize \in Nat \ {0}
    /\ AnnualQuarter \in {4, Unlabelled}
    /\ DOMAIN MarketCap \subseteq Nat
    /\ \A f \in Calendar :
          /\ f.ends \in Nat \ {0} /\ f.lag \in Nat
          /\ f.due \subseteq 1..LastDay /\ \A d \in f.due : f.ends <= d - f.lag
          /\ f.columns # {} /\ f.columns \subseteq DOMAIN Length
          /\ \A k \in f.columns : k = "quarter" \/ Length[k] = PlaceOf(f.ends)
          /\ \A m \in Flow \cup Stock, q \in 1..f.ends : Book[f.edition][m][q] \in Int
    /\ \A f, g \in Calendar : Rival(f, g) => f.due \cap g.due = {}

VARIABLES today, figures, filed
fsVars == <<today, figures, filed>>

----------------------- (* What a provider makes of a filing *) -----------------------

Period(kind, q) ==
    [kind |-> kind, year |-> YearOf(q), start |-> q - Length[kind] + 1, end |-> q,
     place |-> IF kind = "annual" THEN AnnualQuarter ELSE PlaceOf(q),
     ytd |-> kind \in {"half_year", "nine_month"}]

Longest(columns) == CHOOSE k \in columns : \A j \in columns : Length[j] <= Length[k]

FlowOver(books, m, p) == SumFunctionOnSet(books[m], p.start..p.end)

FactFrom(f, day, m, p, value) ==
    [metric |-> m, period |-> p, scope |-> f.scope, value |-> value, edition |-> f.edition,
     available |-> day - f.lag, loaded |-> day]

FactsOf(f, day) ==
    {FactFrom(f, day, m, Period(k, f.ends), FlowOver(Book[f.edition], m, Period(k, f.ends)))
        : k \in f.columns, m \in Flow}
    \cup
    {FactFrom(f, day, m, Period(Longest(f.columns), f.ends), Book[f.edition][m][f.ends])
        : m \in Stock}

------------------------------ (* Reading at a cutoff *) ------------------------------

Rows(scope, cutoff) == {f \in figures : f.scope = scope /\ f.available <= cutoff}

\* The newest revision of every metric and period.
KnownFigures(scope, cutoff) ==
    LET Supersedes(g, f) ==
            /\ g.period = f.period
            /\ \/ g.available > f.available
               \/ g.available = f.available /\ g.loaded > f.loaded
        rows == Rows(scope, cutoff)
    IN UNION {LET own == {f \in rows : f.metric = m}
              IN {f \in own : \A g \in own : ~Supersedes(g, f)} : m \in Flow \cup Stock}

\* At most one fact, since the period is one of the fiscal grid.
Find(F, year, kind, place) ==
    {f \in F : f.period.year = year /\ f.period.kind = kind /\ f.period.place = place}

QuarterValue(f) ==
    [year |-> f.period.year, place |-> f.period.place, start |-> f.period.start,
     end |-> f.period.end, value |-> f.value, available |-> f.available]

ReportedQuarter(F, year, place) ==
    {QuarterValue(f) : f \in {g \in Find(F, year, "quarter", place) : place = 1 \/ ~g.period.ytd}}

CompatiblePair(before, cumulative) ==
    /\ before.period.start = cumulative.period.start
    /\ before.period.end < cumulative.period.end

LaterOf(a, b) == IF a < b THEN b ELSE a

Difference(cumulative, before, place) ==
    [year |-> cumulative.period.year, place |-> place, start |-> before.period.end + 1,
     end |-> cumulative.period.end, value |-> cumulative.value - before.value,
     available |-> LaterOf(cumulative.available, before.available)]

\* The cumulative period a quarter closes, and the one before it.
Cumulative(F, year, place) ==
    CASE place = 2 -> Find(F, year, "half_year", 2)
      [] place = 3 -> Find(F, year, "nine_month", 3)
      [] place = 4 -> Find(F, year, "annual", Unlabelled)
      [] OTHER -> {}

Preceding(F, year, place) ==
    CASE place = 2 -> Find(F, year, "quarter", 1)
      [] place = 3 -> Find(F, year, "half_year", 2)
      [] place = 4 -> Find(F, year, "nine_month", 3)
      [] OTHER -> {}

DerivedQuarter(F, year, place) ==
    {Difference(p[1], p[2], place)
        : p \in {q \in Cumulative(F, year, place) \X Preceding(F, year, place) :
                    CompatiblePair(q[2], q[1])}}

QuarterFrom(F, year, place) ==
    IF ReportedQuarter(F, year, place) # {}
    THEN ReportedQuarter(F, year, place)
    ELSE DerivedQuarter(F, year, place)

\* One element ends on a day.
ByEnd(S) ==
    [i \in 1..Cardinality(S) |-> CHOOSE x \in S : Cardinality({y \in S : y.end < x.end}) = i - 1]

QuarterSeries(V, m) ==
    LET F == {f \in V : f.metric = m}
        years == {f.period.year : f \in F}
    IN ByEnd(UNION {QuarterFrom(F, year, place) : year \in years, place \in 1..4})

---------------------------- (* Trailing twelve months *) ----------------------------

Adjacent(a, b) ==
    /\ b.start = a.end + 1
    /\ b.place = (a.place % 4) + 1
    /\ b.year = IF a.place = 4 THEN a.year + 1 ELSE a.year

\* Mutant: observations in order, however far apart.
Ordered(W) == \A i \in 1..Len(W) - 1 : W[i].end < W[i + 1].end

Contiguous(W) == \A i \in 1..Len(W) - 1 : Adjacent(W[i], W[i + 1])

\* Mutant: a window is known as soon as its last observation is.
AvailableAtEnd(W) == W[Len(W)].available

AvailableFrom(W) == Max({W[i].available : i \in DOMAIN W})

\* The contiguous stretches of S that end at a quarter and go `back` quarters back.
Stretches(S, year, place, back) ==
    {SubSeq(S, i - back, i) : i \in {j \in back + 1..Len(S) :
        /\ S[j].year = year /\ S[j].place = place
        /\ Contiguous(SubSeq(S, j - back, j))}}

Trailing(S, year, place) ==
    {[value |-> SumFunction([i \in 1..4 |-> W[i].value]), start |-> W[1].start,
      end |-> W[4].end, available |-> AvailableFrom(W)] : W \in Stretches(S, year, place, 3)}

------------------------------- (* Growth and margins *) -------------------------------

\* Growth over `back` quarters, as a fraction of a base that is positive.
Growth(S, year, place, back) ==
    {LET base == W[1].value
         now == W[back + 1]
     IN [year |-> year, place |-> place, start |-> now.start, end |-> now.end,
         mode |-> IF base > 0 THEN "percentage" ELSE "absolute",
         value |-> <<now.value - base, IF base > 0 THEN base ELSE 1>>,
         available |-> AvailableFrom(W)] : W \in Stretches(S, year, place, back)}

GrowthSeries(S) ==
    ByEnd(UNION {Growth(S, S[i].year, S[i].place, 4) : i \in DOMAIN S})

GrowthWindow(G, year, place, size) ==
    {W \in Stretches(G, year, place, size - 1) : \A i \in DOMAIN W : W[i].mode = "percentage"}

AtMost(x, y) == x[1] * y[2] <= y[1] * x[2]

\* The median of three observations.
Middle(W) ==
    CHOOSE v \in {W[i].value : i \in 1..3} :
        /\ Cardinality({i \in 1..3 : AtMost(W[i].value, v)}) >= 2
        /\ Cardinality({i \in 1..3 : AtMost(v, W[i].value)}) >= 2

Acceleration(G, year, place) ==
    {LET now == W[4].value
         usual == Middle(W)
     IN [value |-> <<now[1] * usual[2] - usual[1] * now[2], now[2] * usual[2]>>,
         available |-> AvailableFrom(W)] : W \in GrowthWindow(G, year, place, 3 + 1)}

Consistency(G, year, place) ==
    {[value |-> Cardinality({i \in DOMAIN W : W[i].value[1] > 0}),
      available |-> AvailableFrom(W)] : W \in GrowthWindow(G, year, place, WindowSize)}

\* How many of the newest observations in a row exceed the threshold.
Persistence(G, year, place) ==
    {LET above == {i \in DOMAIN W : ~AtMost(W[i].value, <<Threshold, 100>>)}
     IN [value |-> Max({k \in 0..WindowSize : WindowSize - k + 1..WindowSize \subseteq above}),
         available |-> AvailableFrom(W)] : W \in GrowthWindow(G, year, place, WindowSize)}

QuarterAt(S, year, place) ==
    {S[i] : i \in {j \in DOMAIN S : S[j].year = year /\ S[j].place = place}}

Margin(N, R, year, place) ==
    {[profit |-> p[1], value |-> <<p[1].value, p[2].value>>,
      available |-> LaterOf(p[1].available, p[2].available)]
        : p \in {q \in QuarterAt(N, year, place) \X QuarterAt(R, year, place) :
                    /\ q[2].value > 0
                    /\ q[1].start = q[2].start /\ q[1].end = q[2].end}}

\* A year of contiguous quarters must lie between the two margins.
MarginExpansion(N, R, year, place) ==
    {LET now == p[1]
         before == p[2]
     IN [value |-> <<now.value[1] * before.value[2] - before.value[1] * now.value[2],
                     now.value[2] * before.value[2]>>,
         available |-> Max({now.available, before.available, AvailableFrom(p[3])})]
        : p \in {q \in Margin(N, R, year, place) \X Margin(N, R, year - 1, place)
                          \X Stretches(N, year, place, 4) : q[3][1] = q[2].profit}}

--------------------------- (* Balance-sheet snapshots *) ---------------------------

CommonPeriods(V, M) ==
    LET Of(m) == {f.period : f \in {g \in V : g.metric = m}}
    IN {p \in UNION {Of(m) : m \in M} : \A m \in M : p \in Of(m)}

StockAt(V, m, p) == CHOOSE f \in V : f.metric = m /\ f.period = p

\* The snapshot of a period, unless several periods qualify.
SoleSnapshot(V, M, P) ==
    {[period |-> p, value |-> [m \in M |-> StockAt(V, m, p).value],
      available |-> Max({StockAt(V, m, p).available : m \in M})]
        : p \in {q \in P : P = {q}}}

LatestSnapshot(V, M) ==
    LET common == CommonPeriods(V, M)
    IN SoleSnapshot(V, M, {p \in common : \A q \in common : q.end <= p.end})

EndpointSnapshot(V, M, year, place) ==
    SoleSnapshot(V, M, {p \in CommonPeriods(V, M) : p.year = year /\ p.place = place})

SnapshotEnding(V, M, end) == SoleSnapshot(V, M, {p \in CommonPeriods(V, M) : p.end = end})

------------------------------------ (* Ratios *) ------------------------------------

NetDebt(V) ==
    {[value |-> s.value["debt"] - s.value["cash"], available |-> s.available]
        : s \in LatestSnapshot(V, {"debt", "cash"})}

DebtToEquity(V) ==
    {[value |-> <<s.value["debt"], s.value["equity"]>>, available |-> s.available]
        : s \in {t \in LatestSnapshot(V, {"debt", "equity"}) : t.value["equity"] > 0}}

\* Interest coverage and cash conversion: two flows over the same twelve months.
TrailingRatio(T, U) ==
    {[value |-> <<p[1].value, p[2].value>>,
      available |-> LaterOf(p[1].available, p[2].available)]
        : p \in {q \in T \X U :
                    q[1].start = q[2].start /\ q[1].end = q[2].end /\ q[2].value > 0}}

\* Twelve months with the balance sheets just before and at their end.
Bounded(V, T, M) ==
    UNION {{[flow |-> t.value, from |-> b.value, to |-> e.value,
             available |-> Max({t.available, b.available, e.available})]
               : b \in SnapshotEnding(V, M, t.start - 1), e \in SnapshotEnding(V, M, t.end)}
            : t \in T}

ReturnOnEquity(V, T) ==
    {[value |-> <<2 * b.flow, b.from["equity"] + b.to["equity"]>>, available |-> b.available]
        : b \in {c \in Bounded(V, T, {"equity"}) : c.from["equity"] > 0 /\ c.to["equity"] > 0}}

Employed(v) == v["equity"] + v["debt"] - v["cash"]

ReturnOnCapital(V, T) ==
    {[value |-> <<2 * b.flow, Employed(b.from) + Employed(b.to)>>, available |-> b.available]
        : b \in {c \in Bounded(V, T, Stock) : Employed(c.from) > 0 /\ Employed(c.to) > 0}}

\* Days of revenue that a stock stands for.
StockDays(V, T, m) ==
    {[value |-> <<365 * (b.from[m] + b.to[m]), 2 * b.flow>>, available |-> b.available]
        : b \in {c \in Bounded(V, T, {m}) : c.from[m] >= 0 /\ c.to[m] >= 0 /\ c.flow > 0}}

WorkingCapitalChange(V, T) ==
    {[value |-> Employed(b.to) - Employed(b.from), available |-> b.available]
        : b \in {c \in Bounded(V, T, Stock) : \A m \in Stock : c.from[m] >= 0 /\ c.to[m] >= 0}}

\* The last market bar that is known.
Bar(cutoff) ==
    LET days == {d \in DOMAIN MarketCap : d <= cutoff}
    IN {[value |-> MarketCap[d], available |-> d] : d \in {e \in days : e = Max(days)}}

\* Debt less cash on top of the market's price.
EnterpriseValue(B, E) ==
    {[value |-> p[1].value + p[2].value["debt"] - p[2].value["cash"],
      available |-> LaterOf(p[1].available, p[2].available)]
        : p \in {q \in B \X E : q[1].value > 0}}

\* A price over what the company earns, sells or owns; both must be positive.
MultipleOf(P, D) ==
    {[value |-> <<p[1].value, p[2].value>>, available |-> LaterOf(p[1].available, p[2].available)]
        : p \in {q \in P \X D : q[1].value > 0 /\ q[2].value > 0}}

------------------------------ (* The fiscal endpoint *) ------------------------------

EndpointRows(scope, cutoff) ==
    {f \in Rows(scope, cutoff) : f.period.place \in 1..4 /\ f.period.end <= cutoff}

\* The last period of the first scope that has any; none if two periods claim to be it.
Endpoint(cutoff) ==
    LET Has(i) == EndpointRows(ScopePriority[i], cutoff) # {}
        first == {i \in DOMAIN ScopePriority : Has(i) /\ \A j \in 1..i - 1 : ~Has(j)}
        Named(f) == <<f.period.year, f.period.place>>
    IN UNION {LET rows == EndpointRows(ScopePriority[i], cutoff)
                  last == {f \in rows : \A g \in rows : g.period.end <= f.period.end}
                  alike == {f \in rows : \E g \in last : Named(g) = Named(f)}
              IN {[value |-> n, scope |-> ScopePriority[i],
                   available |-> Min({f.available : f \in last})]
                    : n \in {m \in {Named(f) : f \in last} :
                               /\ {Named(f) : f \in last} = {m}
                               /\ {f.period.end : f \in alike} = {f.period.end : f \in last}}}
              : i \in first}

-------------------------------- (* What happens *) --------------------------------

SeriesInit == today = 1 /\ figures = {} /\ filed = {}

\* A day passes, and some of the filings that are due arrive.
Publish(arrivals) ==
    /\ today < LastDay
    /\ today' = today + 1
    /\ filed' = filed \cup arrivals
    /\ figures' = figures \cup UNION {FactsOf(f, today + 1) : f \in arrivals}

SeriesNext ==
    LET coming == {f \in Calendar \ filed : today + 1 \in f.due}
        surely == {f \in coming : ~f.missable /\ \A d \in f.due : d <= today + 1}
    IN \E A \in SUBSET (coming \ surely) : Publish(A \cup surely)

SeriesSpec == SeriesInit /\ [][SeriesNext]_fsVars

-------------------------------- (* Properties *) --------------------------------

SeriesTypeOK ==
    /\ today \in 1..LastDay
    /\ filed \subseteq Calendar
    /\ \A f \in figures : f.metric \in Flow \cup Stock /\ f.available <= f.loaded /\ f.loaded <= today

Tagged(name, S) == {[of |-> name, is |-> r] : r \in S}

Scopes == {ScopePriority[i] : i \in DOMAIN ScopePriority}

Endpoints == {<<YearOf(f.ends), PlaceOf(f.ends)>> : f \in Calendar}

\* What research makes of a scope at an endpoint: of the quarters of revenue and profit,
\* of the growth of revenue and of the last bar.
FinancialCandidate(V, R, N, G, B, y, n) ==
    LET T == Trailing(R, y, n)
        U == Trailing(N, y, n)
        E == EnterpriseValue(B, EndpointSnapshot(V, {"debt", "cash"}, y, n))
        Equity == {[value |-> s.value["equity"], available |-> s.available]
                      : s \in EndpointSnapshot(V, {"equity"}, y, n)}
    IN Tagged(<<"quarter", y, n>>, QuarterAt(N, y, n))
       \cup Tagged(<<"trailing", y, n>>, T)
       \cup Tagged(<<"growth", y, n>>, Growth(R, y, n, 4) \cup Growth(R, y, n, 1))
       \cup Tagged(<<"acceleration", y, n>>, Acceleration(G, y, n))
       \cup Tagged(<<"consistency", y, n>>, Consistency(G, y, n))
       \cup Tagged(<<"persistence", y, n>>, Persistence(G, y, n))
       \cup Tagged(<<"margin", y, n>>, Margin(N, R, y, n))
       \cup Tagged(<<"expansion", y, n>>, MarginExpansion(N, R, y, n))
       \cup Tagged(<<"coverage", y, n>>, TrailingRatio(U, T))
       \cup Tagged(<<"equity", y, n>>, ReturnOnEquity(V, U))
       \cup Tagged(<<"capital", y, n>>, ReturnOnCapital(V, U))
       \cup Tagged(<<"days", y, n>>, StockDays(V, T, "debt"))
       \cup Tagged(<<"working", y, n>>, WorkingCapitalChange(V, T))
       \cup Tagged(<<"earnings", y, n>>, MultipleOf(B, U))
       \cup Tagged(<<"book", y, n>>, MultipleOf(B, Equity))
       \cup Tagged(<<"enterprise", y, n>>, MultipleOf(E, T))

\* What research makes of a scope at every endpoint, from what is known at a cutoff.
Candidates(scope, cutoff) ==
    LET V == KnownFigures(scope, cutoff)
        R == QuarterSeries(V, "revenue")
        N == QuarterSeries(V, "profit")
    IN UNION {FinancialCandidate(V, R, N, GrowthSeries(R), Bar(cutoff), e[1], e[2])
                 : e \in Endpoints}

\* All that research can derive from what is known at a cutoff.
Derived(scope, cutoff) ==
    Candidates(scope, cutoff)
    \cup Tagged(<<"endpoint">>, Endpoint(cutoff))
    \cup Tagged(<<"debt">>, NetDebt(KnownFigures(scope, cutoff)))
    \cup Tagged(<<"leverage">>, DebtToEquity(KnownFigures(scope, cutoff)))

\* A value that claims to be available since a day is what research gets at any cutoff
\* from that day on until it changes: its `available_at` leaves out nothing it was made
\* of, and no value that could be derived is lost or altered by looking from earlier.
NoLookahead ==
    \A scope \in Scopes, c \in 2..today :
        LET before == Derived(scope, c - 1)
        IN \A d \in Derived(scope, c) : d.is.available < c => d \in before

\* As long as the filings of a year are of one edition, its quarters are those of the
\* books, whether reported or derived, and twelve trailing months are their sum.
QuartersTellBooks ==
    \A scope \in Scopes, m \in Flow :
        LET V == KnownFigures(scope, today)
            S == QuarterSeries(V, m)
            Editions(years) == {f.edition : f \in {g \in V : g.metric = m /\ g.period.year \in years}}
        IN /\ \A i \in DOMAIN S : \A e \in Editions({S[i].year}) :
                Editions({S[i].year}) = {e} =>
                    S[i].start = S[i].end /\ S[i].value = Book[e][m][S[i].end]
           /\ \A i \in DOMAIN S : \A t \in Trailing(S, S[i].year, S[i].place) :
                \A e \in Editions({S[i].year - 1, S[i].year}) :
                    Editions({S[i].year - 1, S[i].year}) = {e} =>
                        /\ t.end = S[i].end
                        /\ t.value = SumFunctionOnSet(Book[e][m], t.end - 3..t.end)

\* The fourth quarter is known from the annual figures less those of nine months.
FourthQuarterDerived ==
    \A scope \in Scopes, m \in Flow :
        LET V == KnownFigures(scope, today)
            F == {f \in V : f.metric = m}
        IN \A a \in {f \in F : f.period.kind = "annual"}, b \in {f \in F : f.period.kind = "nine_month"} :
              a.period.start = b.period.start => QuarterAt(QuarterSeries(V, m), a.period.year, 4) # {}

=============================================================================
