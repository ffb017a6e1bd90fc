-------------------------- MODULE MCEvidenceFeatures --------------------------
(* Prices, attention and announcements for TLC. *)
EXTENDS EvidenceFeatures

Trade(day, close, available) ==
    [kind |-> "bar", date |-> day, close |-> close, high |-> close + 4, low |-> close - 4,
     volume |-> day, share |-> IF day = 4 THEN NoShare ELSE 10 * day, available |-> available]

Index(day, close, available) ==
    [kind |-> "benchmark", date |-> day, close |-> close, available |-> available]

Delivered(day, share, available) ==
    [kind |-> "delivery", date |-> day, share |-> share, available |-> available]

Dividing(day, available) ==
    [kind |-> "action", external |-> "s", type |-> "split", date |-> day, factor |-> 2,
     available |-> available]

Noticed(external, company, metric, day, count, coverage, available) ==
    [kind |-> "attention", external |-> external, company |-> company, metric |-> metric,
     date |-> day, count |-> count, coverage |-> coverage, available |-> available, revised |-> 0]

Daily(day, close, available) ==
    {Trade(day, close, available), Index(day, 10 + day, day), Delivered(day, 40 + day, day)}

\* A bar comes late, prices and records are corrected, a split moves, and records of the
\* company and of another conflict.
Loads ==
    {Daily(1, 8, 1) \cup Daily(2, 12, 2), Daily(3, 6, 5), Daily(4, 5, 4), Daily(5, 7, 5),
     {Trade(2, 16, 6), Delivered(5, 50, 6)}, {Dividing(3, 6)}, {Dividing(9, 7)},
     {Noticed("n", "own", "news", 2, 4, "complete", 3), Noticed("m", "own", "news", 2, 5, "complete", 4)},
     {Noticed("a", "own", "analysts", 3, 1, "complete", 4), Noticed("b", "own", "analysts", 5, 2, "partial", 6)},
     {Noticed("o", "other", "news", 2, 4, "complete", 4), Noticed("o", "other", "news", 2, 5, "complete", 4),
      Noticed("o", "other", "news", 2, 5, "complete", 6)}}

Says(code, amount, unit) == [code |-> code, amount |-> amount, unit |-> unit]

Announcing(type, facts) == [type |-> type, available |-> 7, facts |-> facts]

Announcements ==
    {Announcing("order", {Says("order", 5, "INR")}),
     Announcing("capex", {Says("capex", 5, "USD")}),
     Announcing("capacity", {Says("before", 4, "tonnes"), Says("after", 6, "tonnes"), Says("added", 2, "tonnes")}),
     Announcing("acquisition", {Says("consideration", 3, "INR"), Says("consideration", 4, "INR"), Says("stake", 1, "fraction")})}
=============================================================================
