------------------------------- MODULE Ingestion -------------------------------
(***************************************************************************)
(* Provider records become facts.  A run archives its raw batch, commits   *)
(* an audit row that says "running", and normalises all its records in one *)
(* transaction, which it commits with the counters.  A failure rolls the   *)
(* transaction back and commits "failed" on its own; a crash leaves        *)
(* "running" behind.                                                       *)
(*                                                                         *)
(* Runs are processes that may overlap.  A transaction sees what others    *)
(* have committed and what it wrote itself; no row is locked for the       *)
(* decision taken on it.  An insert whose unique key another transaction   *)
(* has inserted and not yet committed waits for that transaction to end.   *)
(*                                                                         *)
(* One dataset of each kind is fed, and a batch is of one kind.  Times and *)
(* days are numbers, and Missing stands for an absent one.  The companies, *)
(* filings, periods and documents that come with a record, and whose rows  *)
(* are found or made on the way, are part of it.                           *)
(***************************************************************************)
EXTENDS Integers, Sequences, FiniteSets

CONSTANTS
    Run,        \* ingestion runs, each of a process of its own
    Batch,      \* what the provider of each run may return: sequences of envelopes
    Cutoff      \* the moments at which readers ask what was known

Missing == 0

Kind == {"universe", "market", "benchmark", "delivery", "financial", "action",
         "announcement", "attention"}

\* What is parsed of an envelope is of its kind, and each of its times is a number.
IsEnvelope(e) ==
    /\ e.kind \in Kind
    /\ IF e.kind = "universe" THEN e.from \in Nat /\ e.to \in Nat
       ELSE e.available \in Nat /\ e.revised \in Nat
    /\ e.kind = "action" /\ e.effect = "symbol_change" => e.from \in Nat

ASSUME IngestionAssumption ==
    /\ IsFiniteSet(Run)
    /\ \A r \in Run : \A b \in Batch[r] :
          Len(b) \in Nat /\ \A i \in 1..Len(b) : IsEnvelope(b[i])
    /\ Cutoff \subseteq Nat \ {Missing}

VARIABLES
    run,        \* the audit row of each run
    work,       \* what the process of each run is doing
    table,      \* the committed rows
    raced       \* has a transaction committed while another was open?

inVars == <<run, work, table, raced>>

RunRow ==
    [status: {"absent", "running", "completed", "failed"}, received: Nat,
     accepted: Nat, quarantined: Nat, duplicated: Nat]

\* The rows of a transaction, or of the database.
NoRows ==
    [source |-> {}, fact |-> {}, security |-> {}, listing |-> {}, succession |-> {}]

\* One listing of a security is identified by its symbol and first day.
SameListing(l, m) == l.security = m.security /\ l.symbol = m.symbol /\ l.from = m.from

\* Rows written over others: an update keeps the identity of its listing.
Over(new, old) ==
    [source |-> old.source \cup new.source,
     fact |-> old.fact \cup new.fact,
     security |-> old.security \cup new.security,
     listing |-> new.listing \cup
                 {l \in old.listing : \A m \in new.listing : ~SameListing(l, m)},
     succession |-> old.succession \cup new.succession]

Sees(r) == Over(work[r].rows, table)

-----------------------------------------------------------------------------
(* Dated listings and succession.                                          *)

\* Listings are half-open: the last day belongs to the next one.
Overlap(l, m) ==
    /\ l.to = Missing \/ m.from < l.to
    /\ m.to = Missing \/ l.from < m.to

ListingIssue(v, l, except) ==
    \/ l.to # Missing /\ l.to <= l.from
    \/ \E m \in v.listing \ except : m.security = l.security /\ Overlap(m, l)

ListingOf(e) == [security |-> e.security, symbol |-> e.symbol, from |-> e.from, to |-> e.to]

UniverseIssue(v, e) ==
    IF e.security \notin v.security THEN e.to # Missing /\ e.to <= e.from
    ELSE ListingOf(e) \notin v.listing /\ ListingIssue(v, ListingOf(e), {})

ActiveAt(v, security, day) ==
    {l \in v.listing : /\ l.security = security
                       /\ l.from <= day
                       /\ l.to = Missing \/ day < l.to}

Renamed(e) == [security |-> e.security, symbol |-> e.symbol, from |-> e.from, to |-> Missing]

SymbolChangeIssue(v, e) ==
    \/ ActiveAt(v, e.security, e.from) = {}
    \/ \E l \in ActiveAt(v, e.security, e.from) : e.from <= l.from
    \/ ListingIssue(v, Renamed(e), ActiveAt(v, e.security, e.from))

\* `security` and what replaced it, directly or in turn: the walk ends when it finds
\* nothing new, with the least set that holds `security` and whatever replaced a member.
Successors(succession, security) ==
    LET all == {security} \cup {p[2] : p \in succession}
        Closed(S) == \A p \in succession : p[1] \in S => p[2] \in S
    IN {i \in all : \A S \in SUBSET all : security \in S /\ Closed(S) => i \in S}

\* Mutant: only the successor itself is looked at.
ReplacementBySelf(v, e) == e.successor = e.security

ReplacementIssue(v, e) ==
    /\ e.successor \in v.security
    /\ e.security \in Successors(v.succession, e.successor)

-----------------------------------------------------------------------------
(* Facts and their revisions.                                              *)

IsLate(f) == IF f.revised = Missing THEN f.available ELSE f.revised

Before(f, g) ==
    \/ f.available < g.available
    \/ f.available = g.available /\ IsLate(f) < IsLate(g)

SameEvent(f, e) == f.kind = e.kind /\ f.security = e.security /\ f.anchor = e.anchor

SameExternal(f, e) == f.kind = e.kind /\ f.external = e.external

Events(v, e) == {f \in v.fact : SameEvent(f, e)}

Externals(v, e) == {f \in v.fact : SameExternal(f, e)}

\* A corporate action that is not known by its event is looked up by its external id.
Actions(v, e) == IF Events(v, e) = {} THEN Externals(v, e) ELSE Events(v, e)

\* An external id that names another event than the one the record tells.
AmbiguousEvent(v, e) ==
    /\ Events(v, e) # {} /\ Externals(v, e) # {}
    /\ Events(v, e) \cap Externals(v, e) = {}

\* The values of any revision count, an outdated one too.
Equivalent(existing, e) == \E f \in existing : f.value = e.value

\* Mutant: a change that is as late as the newest revision is let in.
LaterOrEqual(existing, e) == \A f \in existing : ~Before(e, f)

Later(existing, e) == \A f \in existing : Before(f, e)

\* Deliveries are ordered by their revision alone.
LaterRevision(existing, e) == \A f \in existing : IsLate(f) < IsLate(e)

FactOf(e, n) ==
    [kind |-> e.kind, external |-> e.external, security |-> e.security,
     anchor |-> e.anchor, value |-> e.value, available |-> e.available,
     revised |-> e.revised, nth |-> n]

-----------------------------------------------------------------------------
(* What becomes of a record.                                               *)

SourceRow(r, e, status) ==
    [kind |-> e.kind, external |-> e.external, content |-> e.content, run |-> r,
     status |-> status]

Arrived(v, e) ==
    \E s \in v.source : s.kind = e.kind /\ s.external = e.external /\ s.content = e.content

\* The record passes its checks and tells when it became available, and its
\* security is in the universe.
Known(v, e) == e.sound /\ e.available # Missing /\ e.security \in v.security

\* What has been said before is a duplicate; a change must be later.
Revised(said, later) ==
    IF said THEN "duplicate_economic" ELSE IF later THEN "accepted" ELSE "quarantined"

UniverseVerdict(v, e) ==
    IF e.sound /\ ~UniverseIssue(v, e) THEN "accepted" ELSE "quarantined"

MarketVerdict(v, e) ==
    IF ~Known(v, e) THEN "quarantined"
    ELSE Revised(Equivalent(Events(v, e), e), Later(Events(v, e), e))

\* A benchmark is no security of the universe.
BenchmarkVerdict(v, e) ==
    IF ~e.sound \/ e.available = Missing THEN "quarantined"
    ELSE Revised(Equivalent(Events(v, e), e), Later(Events(v, e), e))

DeliveryVerdict(v, e) ==
    IF ~Known(v, e) THEN "quarantined"
    ELSE Revised(Equivalent(Events(v, e), e), LaterRevision(Events(v, e), e))

\* The event of a financial fact is its metric, scope and period.
FinancialVerdict(v, e) ==
    IF ~Known(v, e) THEN "quarantined"
    ELSE Revised(Equivalent(Events(v, e), e), Later(Events(v, e), e))

ActionVerdict(v, e) ==
    IF ~Known(v, e) \/ AmbiguousEvent(v, e) THEN "quarantined"
    ELSE Revised(Equivalent(Actions(v, e), e),
                 /\ Later(Actions(v, e), e)
                 /\ e.effect = "symbol_change" => ~SymbolChangeIssue(v, e)
                 /\ e.effect = "security_replacement" => ~ReplacementIssue(v, e))

\* Any content that has not arrived yet is news.
AnnouncementVerdict(v, e) ==
    IF ~Known(v, e) THEN "quarantined" ELSE Revised(FALSE, Later(Externals(v, e), e))

AttentionVerdict(v, e) ==
    IF ~Known(v, e) THEN "quarantined"
    ELSE Revised(FALSE, Later(Events(v, e) \cup Externals(v, e), e))

Verdict(v, e) ==
    CASE e.kind = "universe" -> UniverseVerdict(v, e)
      [] e.kind = "market" -> MarketVerdict(v, e)
      [] e.kind = "benchmark" -> BenchmarkVerdict(v, e)
      [] e.kind = "delivery" -> DeliveryVerdict(v, e)
      [] e.kind = "financial" -> FinancialVerdict(v, e)
      [] e.kind = "action" -> ActionVerdict(v, e)
      [] e.kind = "announcement" -> AnnouncementVerdict(v, e)
      [] e.kind = "attention" -> AttentionVerdict(v, e)

\* The rows of an accepted record, its source apart.
Told(v, e) == {FactOf(e, Cardinality(v.fact) + 1)}

Listing(e) == [NoRows EXCEPT !.security = {e.security}, !.listing = {ListingOf(e)}]

SymbolChange(v, e) ==
    [NoRows EXCEPT
        !.fact = Told(v, e),
        !.listing = {Renamed(e)} \cup
                    {[l EXCEPT !.to = e.from] : l \in ActiveAt(v, e.security, e.from)}]

Replacement(v, e) ==
    [NoRows EXCEPT !.fact = Told(v, e), !.security = {e.successor},
                   !.succession = {<<e.security, e.successor>>}]

Consequences(v, e) ==
    CASE e.kind = "universe" -> Listing(e)
      [] e.kind = "action" /\ e.effect = "symbol_change" -> SymbolChange(v, e)
      [] e.kind = "action" /\ e.effect = "security_replacement" -> Replacement(v, e)
      [] OTHER -> [NoRows EXCEPT !.fact = Told(v, e)]

Normalised(r, e) ==
    LET v == Sees(r)
        source == {SourceRow(r, e, Verdict(v, e))}
    IN IF Verdict(v, e) = "accepted" THEN [Consequences(v, e) EXCEPT !.source = source]
       ELSE [NoRows EXCEPT !.source = source]

\* What the unique constraints keep apart.
Keys(rows) ==
    {<<"source", s.kind, s.external, s.content>> : s \in rows.source}
    \cup {<<"security", i>> : i \in rows.security}
    \cup {<<"listing", l.security, l.symbol, l.from>> : l \in rows.listing}
    \cup {<<"succession", p[1], p[2]>> : p \in rows.succession}

-----------------------------------------------------------------------------
(* A run.                                                                  *)

NothingHeld == [rows |-> NoRows, keys |-> {}]

Resting == [step |-> "idle", batch |-> <<>>, at |-> 1, duplicated |-> 0,
            rows |-> NoRows, claims |-> {}, held |-> NothingHeld]

Open(r) == work[r].step \in {"normalising", "waiting"}

\* The raw batch is archived and the audit row committed before any record.
Start(r, b) ==
    /\ run[r].status = "absent"
    /\ run' = [run EXCEPT ![r].status = "running"]
    /\ work' = [work EXCEPT ![r] = [Resting EXCEPT !.step = "normalising", !.batch = b]]
    /\ UNCHANGED <<table, raced>>

AtRecord(r) == work[r].step = "normalising" /\ work[r].at <= Len(work[r].batch)

Record(r) == work[r].batch[work[r].at]

\* Exactly this content of this record has been seen, whatever became of it.
Skip(r) ==
    /\ AtRecord(r)
    /\ Arrived(Sees(r), Record(r))
    /\ work' = [work EXCEPT ![r].at = @ + 1, ![r].duplicated = @ + 1]
    /\ UNCHANGED <<run, table, raced>>

\* A row that is there already is updated, or not written at all.
Claims(r, rows) == Keys(rows) \ Keys(Sees(r))

MustWait(r, keys) == \E q \in Run \ {r} : work[q].claims \cap keys # {}

Wrote(r, rows, keys) ==
    LET again == {s \in rows.source : s.status = "duplicate_economic"}
    IN work' = [work EXCEPT
                    ![r].step = "normalising", ![r].at = @ + 1, ![r].rows = Over(rows, @),
                    ![r].held = NothingHeld, ![r].claims = @ \cup keys,
                    ![r].duplicated = @ + Cardinality(again)]

Write(r) ==
    /\ AtRecord(r)
    /\ ~Arrived(Sees(r), Record(r))
    /\ LET rows == Normalised(r, Record(r))
           keys == Claims(r, rows)
       IN IF MustWait(r, keys)
          THEN work' = [work EXCEPT ![r].step = "waiting",
                                    ![r].held = [rows |-> rows, keys |-> keys]]
          ELSE Wrote(r, rows, keys)
    /\ UNCHANGED <<run, table, raced>>

\* The other transaction has ended without these rows; had it committed them,
\* the constraint would make this run fail.
Proceed(r) ==
    /\ work[r].step = "waiting"
    /\ ~MustWait(r, work[r].held.keys)
    /\ work[r].held.keys \cap Keys(table) = {}
    /\ Wrote(r, work[r].held.rows, work[r].held.keys)
    /\ UNCHANGED <<run, table, raced>>

\* Mutant: rows written so far stay when the run fails.
FailWithout(r) ==
    /\ Open(r)
    /\ work' = [work EXCEPT ![r].step = "failing", ![r].rows = NoRows,
                             ![r].held = NothingHeld, ![r].claims = {}]
    /\ table' = Over(work[r].rows, table)
    /\ UNCHANGED <<run, raced>>

\* Something raised: a constraint, a clash of metadata, a deadlock, the connection.
Fail(r) ==
    /\ Open(r)
    /\ work' = [work EXCEPT ![r].step = "failing", ![r].rows = NoRows,
                             ![r].held = NothingHeld, ![r].claims = {}]
    /\ UNCHANGED <<run, table, raced>>

Settle(r) ==
    /\ work[r].step = "failing"
    /\ run' = [run EXCEPT ![r] = [status |-> "failed", received |-> Len(work[r].batch),
                                  accepted |-> 0, quarantined |-> 0,
                                  duplicated |-> work[r].duplicated]]
    /\ work' = [work EXCEPT ![r] = [Resting EXCEPT !.batch = work[r].batch, !.step = "ended"]]
    /\ UNCHANGED <<table, raced>>

CountOf(r, status) == Cardinality({s \in work[r].rows.source : s.status = status})

Complete(r) ==
    /\ work[r].step = "normalising"
    /\ work[r].at > Len(work[r].batch)
    /\ run' = [run EXCEPT ![r] = [status |-> "completed", received |-> Len(work[r].batch),
                                  accepted |-> CountOf(r, "accepted"),
                                  quarantined |-> CountOf(r, "quarantined"),
                                  duplicated |-> work[r].duplicated]]
    /\ table' = Over(work[r].rows, table)
    /\ work' = [work EXCEPT ![r] = [Resting EXCEPT !.batch = work[r].batch, !.step = "ended"]]
    /\ raced' = (raced \/ \E q \in Run \ {r} : Open(q))

Crash(r) ==
    /\ Open(r) \/ work[r].step = "failing"
    /\ work' = [work EXCEPT ![r] = [Resting EXCEPT !.batch = work[r].batch, !.step = "ended"]]
    /\ UNCHANGED <<run, table, raced>>

IngestionInit ==
    /\ run = [r \in Run |-> [status |-> "absent", received |-> 0, accepted |-> 0,
                             quarantined |-> 0, duplicated |-> 0]]
    /\ work = [r \in Run |-> Resting]
    /\ table = NoRows
    /\ raced = FALSE

IngestionNext ==
    \E r \in Run :
        \/ \E b \in Batch[r] : Start(r, b)
        \/ Skip(r) \/ Write(r) \/ Proceed(r)
        \/ Fail(r) \/ Settle(r) \/ Complete(r) \/ Crash(r)

IngestionSpec == IngestionInit /\ [][IngestionNext]_inVars
-----------------------------------------------------------------------------
(* What readers select from the facts known at a cutoff.                   *)

Newest(F) == {f \in F : \A g \in F : ~Before(f, g)}

NewestOfEvent(F) == UNION {Newest({g \in F : SameEvent(g, f)}) : f \in F}

NewestOfExternal(F) == UNION {Newest({g \in F : SameExternal(g, f)}) : f \in F}

KnownAsOf(kind, cutoff) == {f \in table.fact : f.kind = kind /\ f.available <= cutoff}

\* One revision of each event.
PricesAsOf(cutoff) == NewestOfEvent(KnownAsOf("market", cutoff))
BenchmarkAsOf(cutoff) == NewestOfEvent(KnownAsOf("benchmark", cutoff))
DeliveriesAsOf(cutoff) == NewestOfEvent(KnownAsOf("delivery", cutoff))
FinancialsAsOf(cutoff) == NewestOfEvent(KnownAsOf("financial", cutoff))

AnnouncementsAsOf(cutoff) == NewestOfExternal(KnownAsOf("announcement", cutoff))

\* Collapsed by external id first, then by event.
AttentionAsOf(cutoff) ==
    NewestOfEvent(NewestOfExternal(KnownAsOf("attention", cutoff)))

CorporateActionsAsOf(cutoff) ==
    NewestOfEvent(NewestOfExternal(KnownAsOf("action", cutoff)))

ReadAsOf(kind, cutoff) ==
    CASE kind = "market" -> PricesAsOf(cutoff)
      [] kind = "benchmark" -> BenchmarkAsOf(cutoff)
      [] kind = "delivery" -> DeliveriesAsOf(cutoff)
      [] kind = "financial" -> FinancialsAsOf(cutoff)
      [] kind = "announcement" -> AnnouncementsAsOf(cutoff)
      [] kind = "attention" -> AttentionAsOf(cutoff)
      [] kind = "action" -> CorporateActionsAsOf(cutoff)

-----------------------------------------------------------------------------
(* Properties.                                                             *)

IngestionTypeOK ==
    /\ run \in [Run -> RunRow]
    /\ \A r \in Run : work[r].step \in {"idle", "normalising", "waiting", "failing", "ended"}
    /\ DOMAIN table = DOMAIN NoRows
    /\ raced \in BOOLEAN

RowsOf(r, status) == Cardinality({s \in table.source : s.run = r /\ s.status = status})

\* Whatever fails, dies or overlaps: a run is completed with all its records or leaves
\* no row behind, its counters tell what became of each record, and each of its records
\* is kept with its content, by this run or by an earlier one.
RunTellsRows ==
    \A r \in Run :
        IF run[r].status = "completed"
        THEN /\ run[r].received = Len(work[r].batch)
             /\ run[r].accepted = RowsOf(r, "accepted")
             /\ run[r].quarantined = RowsOf(r, "quarantined")
             /\ run[r].accepted + run[r].quarantined + run[r].duplicated = run[r].received
             /\ RowsOf(r, "duplicate_economic") <= run[r].duplicated
             /\ \A i \in 1..Len(work[r].batch) : Arrived(table, work[r].batch[i])
        ELSE \A s \in table.source : s.run # r

Competes(f, g) == IF f.kind = "announcement" THEN SameExternal(f, g) ELSE SameEvent(f, g)

\* Did an external id come back with another event?
Reassigned(kind) ==
    /\ kind \in {"action", "attention"}
    /\ \E f, g \in table.fact : f.kind = kind /\ SameExternal(f, g) /\ ~SameEvent(f, g)

\* As long as runs follow each other, what a reader selects at any cutoff is what was
\* accepted last of what was known by then, so a revision is read from the moment it is
\* available and never hidden again by an older one.  Deliveries are ordered otherwise;
\* an id that moved to another event takes the correction it was with it, and what had
\* been corrected is read again.
ReadersSeeLatest ==
    ~raced =>
        \A kind \in {f.kind : f \in table.fact} \ {"delivery"}, cutoff \in Cutoff :
            LET known == KnownAsOf(kind, cutoff)
            IN ~Reassigned(kind) =>
                 ReadAsOf(kind, cutoff) =
                 {f \in known : \A g \in known : Competes(g, f) => g.nth <= f.nth}

\* As long as runs follow each other, a security has one listing a day, whatever is
\* listed, renamed or replaced in whatever order, and no security succeeds itself.
IdentityHistorySound ==
    ~raced =>
        /\ \A l, m \in table.listing :
              l.security = m.security /\ l # m => ~Overlap(l, m)
        /\ \A p \in table.succession : p[1] \notin Successors(table.succession, p[2])
=============================================================================
