--------------------------- MODULE MCFinancialSeries ---------------------------
(* The filings of eight quarters, and two editions of the books, for TLC. *)
EXTENDS FinancialSeries

Coming(ends, columns, due) ==
    [ends |-> ends, scope |-> "consolidated", edition |-> 1, columns |-> columns, due |-> due,
     lag |-> 0, missable |-> FALSE]

Again(ends, columns, due) == [Coming(ends, columns, due) EXCEPT !.edition = 2, !.lag = 1, !.missable = TRUE]

Alone(ends, columns, due) == [Coming(ends, columns, due) EXCEPT !.scope = "standalone"]

Season ==
    {Coming(1, {"quarter"}, {2}), Coming(2, {"quarter", "half_year"}, {3, 4}),
     [Coming(3, {"nine_month"}, {4, 5}) EXCEPT !.missable = TRUE], Coming(4, {"annual"}, {5}),
     Coming(5, {"quarter"}, {6, 8}), Coming(6, {"half_year"}, {7}),
     Coming(7, {"quarter"}, {8, 9}), Coming(8, {"quarter", "annual"}, {9}),
     Again(2, {"half_year"}, {5}), Again(6, {"quarter"}, {8}),
     Alone(3, {"quarter"}, {4}), [Alone(4, {"annual"}, {5}) EXCEPT !.missable = TRUE]}

Kept == [revenue |-> <<4, 5, 6, 7, 8, 6, 9, 12>>, profit |-> <<1, -1, 2, 1, 2, 0, 3, 4>>,
         debt |-> <<3, 3, 4, 4, 2, 2, 1, 1>>, cash |-> <<1, 1, 1, 2, 2, 2, 2, 5>>,
         equity |-> <<4, 4, 4, 5, 5, 6, 6, 6>>]

Editions == <<Kept, [Kept EXCEPT !.revenue = [q \in 1..8 |-> Kept.revenue[q] + 1]]>>

Scopes2 == <<"consolidated", "standalone">>
Caps == [d \in {2, 4, 6, 8} |-> 10 * d]
=============================================================================
