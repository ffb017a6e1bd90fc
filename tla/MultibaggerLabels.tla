--------------------------- MODULE MultibaggerLabels ---------------------------
(***************************************************************************)
(* What became of one security after a research cutoff: forward returns    *)
(* over a number of trading days, and multibagger labels, which say        *)
(* whether the price reached a multiple within some calendar years.        *)
(*                                                                         *)
(* A fact has the day it is about and the day it became available, and is  *)
(* known at a cutoff from the latter on:                                   *)
(*   bar        a closing price,                                           *)
(*   session    a benchmark bar, which also serves as the trading calendar,*)
(*   action     a split (or bonus) with its share factor, or a right (or a *)
(*              replacement), which no return is computed through,         *)
(*   listing    the last day of the listing, which is known at any cutoff. *)
(* Days and closes are positive numbers; a year is some of these days.     *)
(*                                                                         *)
(* Quotients are exact, where the code rounds them to 28 digits.           *)
(***************************************************************************)
EXTENDS Integers, FiniteSets, FiniteSetsExt

OpenEnded == 0

OfKind(F, kind) == {f \in F : f.kind = kind}

Visible(F, kind, cutoff) == {f \in OfKind(F, kind) : f.available <= cutoff}

\* One bar or session a day: its newest revision that is known.
SeriesAsOf(F, kind, cutoff) ==
    LET known == Visible(F, kind, cutoff)
    IN {f \in known : \A g \in known : g.date = f.date => g.available <= f.available}

\* One action of a type a day, whichever record told of it last: its newest record among
\* the newest revisions of each record.
ActionsAsOf(F, cutoff) ==
    LET known == Visible(F, "action", cutoff)
        newest == {f \in known : \A g \in known : g.external = f.external => g.available <= f.available}
    IN {f \in newest : \A g \in newest :
          g.type = f.type /\ g.date = f.date => g.available <= f.available}

Days(S) == {f.date : f \in S}

\* The last price known at a research cutoff; there may be none.
Entries(F, k) ==
    LET past == {b \in SeriesAsOf(F, "bar", k) : b.date <= k}
    IN {b \in past : b.date = Max(Days(past))}

\* Splits inside the span of the adjusted series.
Adjustments(F, cutoff) ==
    LET days == Days(SeriesAsOf(F, "bar", cutoff))
    IN {s \in ActionsAsOf(F, cutoff) :
          s.type = "split" /\ Min(days) < s.date /\ s.date <= Max(days)}

Between(S, from, to) == {f \in S : from < f.date /\ f.date <= to}

\* What one share of the entry day is worth on a later day, over its price then.
Multiple(F, cutoff, entry, bar) ==
    LET shares == FoldSet(LAMBDA s, n : s.factor * n, 1,
                          Between(Adjustments(F, cutoff), entry.date, bar.date))
    IN <<bar.close * shares, entry.close>>

Unsupported(F, cutoff, from, to) ==
    {a \in Between(ActionsAsOf(F, cutoff), from, to) : a.type # "split"}

ListingEnd(F) ==
    LET ends == Days(OfKind(F, "listing"))
    IN IF ends = {} THEN OpenEnded ELSE Max(ends)

-----------------------------------------------------------------------------
(* Forward returns.                                                        *)

NoReturn(status) == [status |-> status, exit |-> 0, multiple |-> <<0, 0>>]

\* The return from the entry to the horizon-th bar after the research cutoff.
ForwardOutcome(F, k, horizon, cutoff) ==
    LET series == SeriesAsOf(F, "bar", cutoff)
        future == {b \in series : b.date > k}
        entry == CHOOSE b \in Entries(F, k) : TRUE
        exit == CHOOSE b \in future :
                    Cardinality({c \in future : c.date <= b.date}) = horizon
        sessions == Days(SeriesAsOf(F, "session", cutoff))
    IN IF Entries(F, k) = {} THEN NoReturn("entry_price_unavailable_at_knowledge_cutoff")
       ELSE IF entry \notin series
       THEN NoReturn("entry_price_bar_not_represented_in_outcome_series")
       ELSE IF Cardinality(future) < horizon
       THEN NoReturn(IF k < ListingEnd(F) /\ ListingEnd(F) <= cutoff
                     THEN "outcome_unavailable_due_to_delisting"
                     ELSE "insufficient_future_history")
       ELSE IF Unsupported(F, cutoff, entry.date, exit.date) # {}
       THEN NoReturn("unsupported_corporate_action_state")
       ELSE [status |-> IF {entry.date, exit.date} \subseteq sessions
                        THEN "available" ELSE "security_return_available",
             exit |-> exit.date,
             multiple |-> Multiple(F, cutoff, entry, exit)]

-----------------------------------------------------------------------------
(* Multibagger labels.                                                     *)

UnsettledAs(class) == [class |-> class, maturedAt |-> 0]

\* Every session of the window has a bar, and one is known at or after its end.
WindowComplete(F, cutoff, entry, end) ==
    LET sessions == SeriesAsOf(F, "session", cutoff)
        expected == Days(Between(sessions, entry.date, end))
    IN /\ \E s \in sessions : s.date >= end
       /\ expected # {}
       /\ expected \subseteq Days(SeriesAsOf(F, "bar", cutoff))

\* When the evidence of a positive label was complete.
PositiveSince(F, cutoff, entry, hit) ==
    Max({entry.available, hit.available}
        \cup {s.available : s \in Between(Adjustments(F, cutoff), entry.date, hit.date)})

\* Mutant: the revisions that were available by the end of the window are enough.
NegativeSinceEnd(F, cutoff, entry, end) == end

\* When the evidence of a negative label was complete: the window is over, and all of
\* its bars and sessions are known, up to the session that shows it is over.
NegativeSince(F, cutoff, entry, end) ==
    LET sessions == SeriesAsOf(F, "session", cutoff)
        last == Min({s.date : s \in {t \in sessions : t.date >= end}})
        evidence == Between(SeriesAsOf(F, "bar", cutoff), entry.date, end)
                    \cup Between(Adjustments(F, cutoff), entry.date, end)
                    \cup Between(sessions, entry.date, last)
    IN Max({end, entry.available} \cup {f.available : f \in evidence})

\* Did the price of the entry multiply by the contract's threshold within its years,
\* counted from the day of the entry?
MultibaggerLabel(F, k, contract, cutoff) ==
    LET series == SeriesAsOf(F, "bar", cutoff)
        entry == CHOOSE b \in Entries(F, k) : TRUE
        end == entry.date + contract.years
        hits == {b \in Between(series, entry.date, end) :
                    LET m == Multiple(F, cutoff, entry, b)
                    IN m[1] >= contract.threshold * m[2]}
        first == CHOOSE b \in hits : b.date = Min(Days(hits))
    IN IF Entries(F, k) = {} \/ entry \notin series THEN UnsettledAs("unavailable")
       ELSE IF Unsupported(F, cutoff, entry.date, end) # {} THEN UnsettledAs("unavailable")
       ELSE IF hits # {}
       THEN [class |-> "positive", maturedAt |-> PositiveSince(F, cutoff, entry, first)]
       ELSE IF ListingEnd(F) # OpenEnded /\ ListingEnd(F) <= end
       THEN UnsettledAs("unavailable")
       ELSE IF cutoff < end THEN UnsettledAs("unmatured")
       ELSE IF ~WindowComplete(F, cutoff, entry, end) THEN UnsettledAs("unavailable")
       ELSE [class |-> "negative", maturedAt |-> NegativeSince(F, cutoff, entry, end)]
=============================================================================
