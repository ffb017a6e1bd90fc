-------------------------- MODULE MCMonitoringCycle --------------------------
(* Instances of the monitoring cycles for TLC. *)
EXTENDS MonitoringCycle, TLC

CONSTANTS c1, c2, c3, s1, s2

\* Three cycles of one stream; the last one follows the symbols of both others.
OneStream == [c \in Cycle |-> "nse"]
Days == (c1 :> 1) @@ (c2 :> 2) @@ (c3 :> 3)
Symbols == (c1 :> {s1}) @@ (c2 :> {s2}) @@ (c3 :> {s1, s2})

Scored(s, day, scores) ==
    {[security |-> s, cutoff |-> day, score |-> score] : score \in scores}

\* On the third day the securities may tie, or the second may be ahead.
ThreeDays ==
    UNION {Scored(s1, 1, {1}), Scored(s2, 2, {1, 2}), Scored(s1, 3, {1, 2}), Scored(s2, 3, {2})}

\* A second snapshot of the day for the first security.
SecondSnapshot == Scored(s1, 3, {1})
=============================================================================
