--------------------------- MODULE MCScoreSnapshots ---------------------------
(* Releases, policies and evidence for TLC. *)
EXTENDS ScoreSnapshots, TLC

Activation(version, profile, from) == [version |-> version, profile |-> profile, from |-> from]

Activations ==
    {Activation("v1", "broad", 1), Activation("v2", "narrow", 2), Activation("v1", "narrow", 1)}

\* The narrow policy gives no weight to market structure and attention, and does not
\* configure cash flow quality.
Policies ==
    [broad |->
        [weight |-> [c \in TopLevel |-> IF c \in Financial THEN 15 ELSE 10],
         configured |-> TopLevel, contexts |-> <<"first", "second">>],
     narrow |->
        [weight |-> [c \in TopLevel |->
            CASE c = "financial_inflection" -> 0 [] c = "business_quality" -> 60
              [] c = "business_catalyst" -> 40 [] OTHER -> 0],
         configured |-> TopLevel \ {"cash_flow_quality"}, contexts |-> <<"second">>]]

Asked ==
    {[profile |-> "broad", cutoff |-> 2, algorithm |-> a] : a \in 1..5}
    \cup {[profile |-> "narrow", cutoff |-> 2, algorithm |-> a] : a \in {1, 5}}

Fact(score, basis) == [score |-> score, at |-> "here", basis |-> basis]

Every(score, basis) == [c \in InContext |-> Fact(score, basis)]

None2 == [c \in InContext |-> NoItem]

Full(score, basis) ==
    [eligible |-> TRUE, contexts |-> [second |-> Every(score, basis)],
     market |-> Fact(50, basis), attention |-> Fact(100, 0), events |-> [second |-> Fact(40, 1)]]

\* Little is known first, then all of it, then a preferred context with less; then
\* what does not belong together.
Supplies ==
    << [eligible |-> TRUE, contexts |-> [first |-> None2], market |-> NoItem, attention |-> NoItem,
        events |-> [second |-> Fact(Unscored, 1)]],
       Full(80, 1),
       [Full(70, 2) EXCEPT
            !.contexts = @ @@ [first |-> [None2 EXCEPT !["financial_inflection"] = Fact(30, 0)]],
            !.events = @ @@ [first |-> Fact(20, 1)]],
       [Full(60, 2) EXCEPT !.eligible = FALSE],
       [Full(60, 2) EXCEPT !.events = @ @@ [first |-> Fact(20, 2)]],
       [Full(60, 2) EXCEPT
            !.contexts = @ @@ [third |-> [Every(60, 2) EXCEPT !["balance_sheet"].at = "there"]]] >>
=============================================================================
