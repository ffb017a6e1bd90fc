---------------------------- MODULE ResearchProofs ----------------------------
(***************************************************************************)
(* Proofs about what research says, for any evidence, policies and number  *)
(* of processes (ScoreSnapshots), about the record of what it said and of  *)
(* what followed, for any facts, cutoffs and builds                        *)
(* (HistoricalEvaluation), and about the series it says it of, for any     *)
(* books, calendar of filings and cutoff (FinancialSeries).                *)
(***************************************************************************)
EXTENDS ScoreSnapshots, HistoricalEvaluation, FinancialSeries, FiniteSetTheorems,
        FunctionTheorems, SequenceTheorems, WellFoundedInduction, TLAPS

-----------------------------------------------------------------------------
(* Score snapshots.                                                        *)

\* A snapshot that some algorithm composed.
Made(s) == \E a \in 1..5 : \E c, k, e : s \in Composed(a, c, k, e)

\* A process does one thing at a time, with what that needs.
IsErrand(e) ==
    \/ e = NoErrand
    \/ e.step = "initialize" /\ e.release \in Release
    \/ e.step \in {"assemble", "compose"} /\ e.wanted \in Wanted
    \/ e.step = "insert" /\ Made(e.write)

ErrandsTyped ==
    /\ errand = [p \in Researcher |-> errand[p]]
    /\ \A p \in Researcher : IsErrand(errand[p])

Inserting(p) == errand[p].step = "insert"

SnapshotsMade ==
    /\ configurations \subseteq Release
    /\ \A s \in scored : Made(s)

CountersTyped == supplied \in DOMAIN Supply /\ commands \in 0..MaxCommands

\* The policy that research found is among those in force at its cutoff, and whatever it
\* writes is by one of them.
InForce ==
    /\ \A p \in Researcher : errand[p].step \in {"assemble", "compose"} =>
          \E c \in Resolve(errand[p].wanted.cutoff) : c.profile = errand[p].wanted.profile
    /\ \A p \in Researcher : Inserting(p) =>
          /\ errand[p].write.configuration \in Resolve(errand[p].write.cutoff)
          /\ errand[p].write.configuration.profile = errand[p].wanted.profile
    /\ \A s \in scored : s.configuration \in Resolve(s.cutoff)

SameIfOfOneCutoff(s, t) == s.cutoff = t.cutoff => s.configuration = t.configuration

\* Two snapshots of one cutoff, written or about to be, are by one configuration.
OneConfiguration ==
    /\ \A s, t \in scored : SameIfOfOneCutoff(s, t)
    /\ \A s \in scored, p \in Researcher : Inserting(p) => SameIfOfOneCutoff(s, errand[p].write)
    /\ \A p, q \in Researcher :
          Inserting(p) /\ Inserting(q) => SameIfOfOneCutoff(errand[p].write, errand[q].write)

SnapshotInv == ErrandsTyped /\ SnapshotsMade /\ CountersTyped /\ InForce /\ OneConfiguration

LEMMA ErrandStep ==
    ASSUME ErrandsTyped, NEW p \in Researcher, NEW e, Resume(p, e), IsErrand(e)
    PROVE  /\ ErrandsTyped' /\ errand'[p] = e
           /\ \A q \in Researcher \ {p} : errand'[q] = errand[q]
<1>1. errand' = [errand EXCEPT ![p] = e]
  BY DEF Resume
<1>2. /\ errand'[p] = e /\ errand' = [q \in Researcher |-> errand'[q]]
      /\ \A q \in Researcher \ {p} : errand'[q] = errand[q]
  BY <1>1 DEF ErrandsTyped
<1>3. \A q \in Researcher : IsErrand(errand'[q])
  <2> SUFFICES ASSUME NEW q \in Researcher
               PROVE  IsErrand(errand'[q])
    OBVIOUS
  <2>1. CASE q = p
    BY <1>2, <2>1
  <2>2. CASE q # p
    <3>1. errand'[q] = errand[q]
      BY <1>2, <2>2
    <3> QED
      BY <3>1 DEF ErrandsTyped
  <2> QED
    BY <2>1, <2>2
<1> QED
  BY <1>2, <1>3 DEF ErrandsTyped, IsErrand

\* No configuration is ever taken back.
LEMMA ResolvesMore ==
    ASSUME configurations \subseteq configurations'
    PROVE  \A k : Resolve(k) \subseteq {c \in configurations' : c.from <= k}
  BY DEF Resolve

LEMMA SnapshotsStart == SnapshotInit => SnapshotInv
<1> SUFFICES ASSUME SnapshotInit
             PROVE  SnapshotInv
  OBVIOUS
<1>1. \A p \in Researcher : errand[p] = NoErrand /\ errand[p].step = "none"
  BY DEF SnapshotInit, NoErrand
<1>2. ErrandsTyped
  BY <1>1 DEF SnapshotInit, ErrandsTyped, IsErrand
<1>3. SnapshotsMade /\ CountersTyped
  BY SnapshotAssumption DEF SnapshotInit, SnapshotsMade, CountersTyped
<1>4. InForce /\ OneConfiguration
  BY <1>1 DEF SnapshotInit, InForce, OneConfiguration, Inserting
<1> QED
  BY <1>2, <1>3, <1>4 DEF SnapshotInv

\* A process that goes on to anything but composing or inserting disturbs no one.
LEMMA QuietErrand ==
    ASSUME SnapshotInv, NEW p \in Researcher, NEW e, Resume(p, e), IsErrand(e),
           e.step \in {"none", "initialize", "assemble", "compose"},
           e.step \in {"assemble", "compose"} =>
              \E c \in Resolve(e.wanted.cutoff) : c.profile = e.wanted.profile,
           configurations \subseteq configurations', scored' = scored
    PROVE  ErrandsTyped' /\ InForce' /\ OneConfiguration'
<1>1. /\ ErrandsTyped' /\ errand'[p] = e
      /\ \A q \in Researcher \ {p} : errand'[q] = errand[q]
  BY ErrandStep DEF SnapshotInv
<1>2. \A q \in Researcher : Inserting(q)' => q # p /\ Inserting(q) /\ errand'[q] = errand[q]
  BY <1>1 DEF Inserting
<1> DEFINE Then(k) == {c \in configurations' : c.from <= k}
<1>3. \A k : Resolve(k) \subseteq Then(k)
  BY DEF Resolve
<1>4. OneConfiguration'
  BY <1>2 DEF SnapshotInv, OneConfiguration, SameIfOfOneCutoff, Inserting
<1>5. InForce'
  <2>1. ASSUME NEW q \in Researcher, errand'[q].step \in {"assemble", "compose"}
        PROVE  \E c \in Then(errand'[q].wanted.cutoff) : c.profile = errand'[q].wanted.profile
    <3>1. \E c \in Resolve(errand'[q].wanted.cutoff) : c.profile = errand'[q].wanted.profile
      <4>1. CASE q = p
        BY <1>1, <2>1, <4>1
      <4>2. CASE q # p
        BY <1>1, <2>1, <4>2 DEF SnapshotInv, InForce
      <4> QED
        BY <4>1, <4>2
    <3> QED
      BY <1>3, <3>1
  <2>2. ASSUME NEW q \in Researcher, Inserting(q)'
        PROVE  /\ errand'[q].write.configuration \in Then(errand'[q].write.cutoff)
               /\ errand'[q].write.configuration.profile = errand'[q].wanted.profile
    BY <1>2, <1>3, <2>2 DEF SnapshotInv, InForce
  <2>3. \A s \in scored : s.configuration \in Then(s.cutoff)
    BY <1>3 DEF SnapshotInv, InForce
  <2> QED
    BY <2>1, <2>2, <2>3 DEF InForce, Inserting, Resolve
<1> QED
  BY <1>1, <1>4, <1>5

\* What is composed is by the one policy in force.
LEMMA ComposedIs ==
    ASSUME NEW a, NEW c, NEW k, NEW e, NEW s \in Composed(a, c, k, e)
    PROVE  s.configuration = c /\ s.cutoff = k
<1>1. s = Snapshot(a, c, k, e)
  BY DEF Composed
<1>2. Snapshot(a, c, k, e).configuration = c /\ Snapshot(a, c, k, e).cutoff = k
  BY DEF Snapshot
<1> QED
  BY <1>1, <1>2

LEMMA ComposeStep ==
    ASSUME SnapshotInv, NEW p \in Researcher, Compose(p)
    PROVE  SnapshotInv'
<1> DEFINE wanted == errand[p].wanted
           sole == {c \in Resolve(wanted.cutoff) : Resolve(wanted.cutoff) = {c}}
           new == UNION {Composed(wanted.algorithm, c, wanted.cutoff, errand[p].evidence) : c \in sole}
                  \ scored
<1>1. /\ errand[p].step = "compose"
      /\ UNCHANGED <<configurations, supplied, scored, commands>>
      /\ \/ new = {} /\ Resume(p, NoErrand)
         \/ \E s \in new : Resume(p, [step |-> "insert", wanted |-> wanted, write |-> s])
  BY DEF Compose
<1>2. SnapshotsMade' /\ CountersTyped'
  BY <1>1 DEF SnapshotInv, SnapshotsMade, CountersTyped
<1>3. CASE Resume(p, NoErrand)
  <2>1. IsErrand(NoErrand) /\ NoErrand.step = "none"
    BY DEF IsErrand, NoErrand
  <2> QED
    BY <1>1, <1>2, <1>3, <2>1, QuietErrand DEF SnapshotInv
<1>4. ASSUME NEW s \in new, Resume(p, [step |-> "insert", wanted |-> wanted, write |-> s])
      PROVE  SnapshotInv'
  <2>1. PICK c \in sole : s \in Composed(wanted.algorithm, c, wanted.cutoff, errand[p].evidence)
    OBVIOUS
  <2>2. wanted \in Wanted
    BY <1>1 DEF SnapshotInv, ErrandsTyped, IsErrand, NoErrand
  <2>3. Made(s)
    BY <2>1, <2>2, SnapshotAssumption DEF Made
  <2>4. s.configuration = c /\ s.cutoff = wanted.cutoff
    BY <2>1, ComposedIs
  <2>5. c.profile = wanted.profile
    BY <1>1 DEF SnapshotInv, InForce
  <2> DEFINE e == [step |-> "insert", wanted |-> wanted, write |-> s]
  <2>6. e.step = "insert" /\ e.wanted = wanted /\ e.write = s
    OBVIOUS
  <2> HIDE DEF e, new
  <2>7. IsErrand(e)
    BY <2>3, <2>6 DEF IsErrand
  <2>8. /\ ErrandsTyped' /\ errand'[p] = e
        /\ \A q \in Researcher \ {p} : errand'[q] = errand[q]
    BY <1>4, <2>7, ErrandStep DEF SnapshotInv, e
  <2>9. \A t \in scored : SameIfOfOneCutoff(t, s) /\ SameIfOfOneCutoff(s, t)
    BY <2>4 DEF SnapshotInv, InForce, SameIfOfOneCutoff
  <2>10. \A q \in Researcher : Inserting(q) =>
            SameIfOfOneCutoff(errand[q].write, s) /\ SameIfOfOneCutoff(s, errand[q].write)
    BY <2>4 DEF SnapshotInv, InForce, SameIfOfOneCutoff
  <2>11. \A q \in Researcher : Inserting(q)' =>
             \/ q = p /\ errand'[q].write = s
             \/ Inserting(q) /\ errand'[q] = errand[q]
    BY <2>6, <2>8 DEF Inserting
  <2>12. OneConfiguration'
    <3>1. SameIfOfOneCutoff(s, s)
      BY DEF SameIfOfOneCutoff
    <3>2. \A t \in scored, q \in Researcher : Inserting(q)' => SameIfOfOneCutoff(t, errand'[q].write)
      BY <2>9, <2>11 DEF SnapshotInv, OneConfiguration
    <3>3. \A q, r \in Researcher : Inserting(q)' /\ Inserting(r)' =>
             SameIfOfOneCutoff(errand'[q].write, errand'[r].write)
      BY <2>10, <2>11, <3>1 DEF SnapshotInv, OneConfiguration
    <3> QED
      BY <1>1, <3>2, <3>3 DEF SnapshotInv, OneConfiguration, SameIfOfOneCutoff
  <2>13. InForce'
    <3>1. \A q \in Researcher : errand'[q].step \in {"assemble", "compose"} =>
             q # p /\ errand'[q] = errand[q]
      BY <2>6, <2>8
    <3>2. \A q \in Researcher : Inserting(q)' =>
             /\ errand'[q].write.configuration \in Resolve(errand'[q].write.cutoff)
             /\ errand'[q].write.configuration.profile = errand'[q].wanted.profile
      BY <2>4, <2>5, <2>6, <2>8, <2>11 DEF SnapshotInv, InForce
    <3>3. \A k : Resolve(k)' = Resolve(k)
      BY <1>1 DEF Resolve
    <3>4. \A q \in Researcher : errand'[q].step \in {"assemble", "compose"} =>
             \E d \in Resolve(errand'[q].wanted.cutoff) : d.profile = errand'[q].wanted.profile
      BY <3>1 DEF SnapshotInv, InForce
    <3> QED
      BY <1>1, <3>2, <3>4 DEF SnapshotInv, InForce, Inserting, Resolve
  <2> QED
    BY <1>2, <2>8, <2>12, <2>13 DEF SnapshotInv
<1> QED
  BY <1>1, <1>3, <1>4

LEMMA InsertStep ==
    ASSUME SnapshotInv, NEW p \in Researcher, InsertSnapshot(p)
    PROVE  SnapshotInv'
<1>1. /\ Inserting(p) /\ scored' = scored \cup {errand[p].write}
      /\ Resume(p, NoErrand)
      /\ UNCHANGED <<configurations, supplied, commands>>
  BY DEF InsertSnapshot, Inserting
<1>2. IsErrand(NoErrand) /\ NoErrand.step = "none"
  BY DEF IsErrand, NoErrand
<1>3. /\ ErrandsTyped' /\ errand'[p] = NoErrand
      /\ \A q \in Researcher \ {p} : errand'[q] = errand[q]
  BY <1>1, <1>2, ErrandStep DEF SnapshotInv
<1>4. Made(errand[p].write)
  BY <1>1 DEF SnapshotInv, ErrandsTyped, IsErrand, Inserting, NoErrand
<1>5. SnapshotsMade' /\ CountersTyped'
  BY <1>1, <1>4 DEF SnapshotInv, SnapshotsMade, CountersTyped
<1>6. \A q \in Researcher : Inserting(q)' => Inserting(q) /\ errand'[q] = errand[q]
  BY <1>2, <1>3 DEF Inserting
<1>7. OneConfiguration'
  <2> DEFINE s == errand[p].write
  <2>1. SameIfOfOneCutoff(s, s)
    BY DEF SameIfOfOneCutoff
  <2>2. \A t \in scored : SameIfOfOneCutoff(t, s)
    BY <1>1 DEF SnapshotInv, OneConfiguration
  <2>3. \A t \in scored : SameIfOfOneCutoff(s, t)
    BY <2>2 DEF SameIfOfOneCutoff
  <2>4. \A t, u \in scored' : SameIfOfOneCutoff(t, u)
    BY <1>1, <2>1, <2>2, <2>3 DEF SnapshotInv, OneConfiguration
  <2>5. \A t \in scored', q \in Researcher : Inserting(q)' => SameIfOfOneCutoff(t, errand'[q].write)
    BY <1>1, <1>6 DEF SnapshotInv, OneConfiguration
  <2>6. \A q, r \in Researcher : Inserting(q)' /\ Inserting(r)' =>
           SameIfOfOneCutoff(errand'[q].write, errand'[r].write)
    BY <1>6 DEF SnapshotInv, OneConfiguration
  <2> QED
    BY <2>4, <2>5, <2>6 DEF OneConfiguration, SameIfOfOneCutoff
<1>8. InForce'
  <2>1. \A q \in Researcher : errand'[q].step \in {"assemble", "compose"} => errand'[q] = errand[q]
    BY <1>2, <1>3
  <2> QED
    BY <1>1, <1>6, <2>1 DEF SnapshotInv, InForce, Inserting, Resolve
<1> QED
  BY <1>3, <1>5, <1>7, <1>8 DEF SnapshotInv

\* Every step keeps the invariant.
LEMMA SnapshotsKept == SnapshotInv /\ [SnapshotNext]_scVars => SnapshotInv'
<1> SUFFICES ASSUME SnapshotInv, [SnapshotNext]_scVars
             PROVE  SnapshotInv'
  OBVIOUS
<1>1. ASSUME NEW p \in Researcher, NEW r \in Release, BeginInitialize(p, r)
      PROVE  SnapshotInv'
  <2> DEFINE e == [step |-> "initialize", release |-> r]
  <2>1. /\ Resume(p, e) /\ UNCHANGED <<configurations, supplied, scored>>
        /\ commands < MaxCommands /\ commands' = commands + 1
    BY <1>1 DEF BeginInitialize, Command
  <2>2. e.step = "initialize" /\ e.release = r
    OBVIOUS
  <2>3. IsErrand(e)
    BY <2>2 DEF IsErrand
  <2> HIDE DEF e
  <2>4. ErrandsTyped' /\ InForce' /\ OneConfiguration'
    BY <2>1, <2>2, <2>3, QuietErrand
  <2>5. SnapshotsMade' /\ CountersTyped'
    BY <2>1, SnapshotAssumption DEF SnapshotInv, SnapshotsMade, CountersTyped
  <2> QED
    BY <2>4, <2>5 DEF SnapshotInv
<1>2. ASSUME NEW p \in Researcher, CommitInitialize(p)
      PROVE  SnapshotInv'
  <2>1. /\ errand[p].step = "initialize" /\ Resume(p, NoErrand)
        /\ UNCHANGED <<supplied, scored, commands>>
        /\ configurations' \in {configurations, configurations \cup {errand[p].release}}
    BY <1>2 DEF CommitInitialize
  <2>2. IsErrand(NoErrand) /\ NoErrand.step = "none"
    BY DEF IsErrand, NoErrand
  <2>3. ErrandsTyped' /\ InForce' /\ OneConfiguration'
    BY <2>1, <2>2, QuietErrand
  <2>4. errand[p].release \in Release
    BY <2>1 DEF SnapshotInv, ErrandsTyped, IsErrand, NoErrand
  <2>5. SnapshotsMade' /\ CountersTyped'
    BY <2>1, <2>4 DEF SnapshotInv, SnapshotsMade, CountersTyped
  <2> QED
    BY <2>3, <2>5 DEF SnapshotInv
<1>3. ASSUME NEW p \in Researcher, NEW w \in Wanted, BeginResearch(p, w)
      PROVE  SnapshotInv'
  <2> DEFINE e == [step |-> "assemble", wanted |-> w, contexts |-> Supply[supplied].contexts]
  <2>1. /\ Resume(p, e) /\ UNCHANGED <<configurations, supplied, scored>>
        /\ commands < MaxCommands /\ commands' = commands + 1
        /\ \E c \in Resolve(w.cutoff) : c.profile = w.profile
    BY <1>3 DEF BeginResearch, Command
  <2>2. e.step = "assemble" /\ e.wanted = w
    OBVIOUS
  <2>3. IsErrand(e)
    BY <2>2 DEF IsErrand
  <2> HIDE DEF e
  <2>4. ErrandsTyped' /\ InForce' /\ OneConfiguration'
    BY <2>1, <2>2, <2>3, QuietErrand
  <2>5. SnapshotsMade' /\ CountersTyped'
    BY <2>1, SnapshotAssumption DEF SnapshotInv, SnapshotsMade, CountersTyped
  <2> QED
    BY <2>4, <2>5 DEF SnapshotInv
<1>4. ASSUME NEW p \in Researcher, Assemble(p)
      PROVE  SnapshotInv'
  <2> DEFINE e == [step |-> "compose", wanted |-> errand[p].wanted,
                   evidence |-> [Supply[supplied] EXCEPT !.contexts = errand[p].contexts]]
  <2>1. /\ errand[p].step = "assemble" /\ Resume(p, e)
        /\ UNCHANGED <<configurations, supplied, scored, commands>>
    BY <1>4 DEF Assemble
  <2>2. e.step = "compose" /\ e.wanted = errand[p].wanted
    OBVIOUS
  <2> HIDE DEF e
  <2>3. IsErrand(e)
    BY <2>1, <2>2 DEF SnapshotInv, ErrandsTyped, IsErrand, NoErrand
  <2>4. \E c \in Resolve(e.wanted.cutoff) : c.profile = e.wanted.profile
    BY <2>1, <2>2 DEF SnapshotInv, InForce
  <2>5. ErrandsTyped' /\ InForce' /\ OneConfiguration'
    BY <2>1, <2>2, <2>3, <2>4, QuietErrand
  <2>6. SnapshotsMade' /\ CountersTyped'
    BY <2>1 DEF SnapshotInv, SnapshotsMade, CountersTyped
  <2> QED
    BY <2>5, <2>6 DEF SnapshotInv
<1>5. CASE Ingest
  <2>1. /\ UNCHANGED <<configurations, scored, errand, commands>>
        /\ supplied < Len(Supply) /\ supplied' = supplied + 1
    BY <1>5 DEF Ingest
  <2>2. CountersTyped'
    BY <2>1, SnapshotAssumption DEF SnapshotInv, CountersTyped
  <2> QED
    BY <2>1, <2>2 DEF SnapshotInv, ErrandsTyped, SnapshotsMade, InForce, OneConfiguration,
                      IsErrand, Inserting, Resolve
<1>6. CASE UNCHANGED scVars
  BY <1>6 DEF scVars, SnapshotInv, ErrandsTyped, SnapshotsMade, CountersTyped, InForce,
              OneConfiguration, IsErrand, Inserting, Resolve
<1> QED
  BY <1>1, <1>2, <1>3, <1>4, <1>5, <1>6, ComposeStep, InsertStep DEF SnapshotNext

THEOREM SnapshotsInvariant == SnapshotSpec => []SnapshotInv
<1> QED
  BY SnapshotsStart, SnapshotsKept, PTL DEF SnapshotSpec

\* What an algorithm makes says which one it was.
LEMMA MadeByAlgorithm ==
    ASSUME NEW s, Made(s)
    PROVE  s.algorithm \in 1..5
<1>1. PICK a \in 1..5 : \E c, k, e : s \in Composed(a, c, k, e)
  BY DEF Made
<1>2. PICK c, k, e : s = Snapshot(a, c, k, e)
  BY <1>1 DEF Composed
<1>3. Snapshot(a, c, k, e).algorithm = a
  BY DEF Snapshot
<1> QED
  BY <1>2, <1>3

\* Type correctness of the score snapshots and of the processes that write them.
THEOREM SnapshotsTyped == SnapshotSpec => []SnapshotTypeOK
<1>1. SnapshotInv => SnapshotTypeOK
  <2> SUFFICES ASSUME SnapshotInv
               PROVE  SnapshotTypeOK
    OBVIOUS
  <2>1. \A p \in Researcher :
           errand[p].step \in {"none", "initialize", "assemble", "compose", "insert"}
    BY DEF SnapshotInv, ErrandsTyped, IsErrand, NoErrand
  <2>2. \A s \in scored : s.algorithm \in 1..5
    BY MadeByAlgorithm DEF SnapshotInv, SnapshotsMade
  <2>3. \A s \in scored : s.configuration \in Release
    BY DEF SnapshotInv, InForce, SnapshotsMade, Resolve
  <2> QED
    BY <2>1, <2>2, <2>3 DEF SnapshotInv, SnapshotsMade, CountersTyped, SnapshotTypeOK
<1> QED
  BY <1>1, SnapshotsInvariant, PTL

\* Scores of one cutoff are by one configuration, that of the profile asked for, however
\* many processes initialise and research at the same time (resolve_active_scoring_policy,
\* score_orchestration).
THEOREM ScoresCompare == SnapshotSpec => []ComparableScores
<1>1. SnapshotInv => ComparableScores
  BY DEF SnapshotInv, InForce, OneConfiguration, SameIfOfOneCutoff, Inserting, ComparableScores
<1> QED
  BY <1>1, SnapshotsInvariant, PTL

\* A snapshot with a price and a market has them of one session.
LEMMA MadeOfOneSession ==
    ASSUME NEW s, Made(s), {"valuation", "market_structure"} \subseteq DOMAIN s.components
    PROVE  s.evidence.contexts[s.context]["valuation"].basis = s.evidence.market.basis
<1>1. PICK a \in 1..5 : \E c, k, e : s \in Composed(a, c, k, e)
  BY DEF Made
<1>2. PICK c, k, e : s \in Composed(a, c, k, e)
  BY <1>1
<1> DEFINE policy == PolicyOf[c.profile]
           context == SelectedContext(a, policy, e)
           have == {d \in ComponentsOf(a) : ScoreOf(a, policy, e, context, d) # {}}
<1>3. s = Snapshot(a, c, k, e) /\ (a >= 3 => SameSession(a, policy, e, context))
  BY <1>2 DEF Composed
<1>4. /\ Snapshot(a, c, k, e).evidence = e
      /\ Snapshot(a, c, k, e).context = context
      /\ DOMAIN Snapshot(a, c, k, e).components = have
  BY DEF Snapshot
<1>5. "valuation" \in have /\ "market_structure" \in have
  BY <1>3, <1>4
<1>6. a >= 3
  <2>1. "market_structure" \in ComponentsOf(a)
    BY <1>5
  <2>2. a \in {1, 2} => "market_structure" \notin ComponentsOf(a)
    BY DEF ComponentsOf, Financial
  <2> QED
    BY <2>1, <2>2
<1> HIDE DEF policy, context
<1>7. PICK t \in ScoreOf(a, policy, e, context, "valuation") : TRUE
  BY <1>5
<1>8. PICK u \in ScoreOf(a, policy, e, context, "market_structure") : TRUE
  BY <1>5
<1>9. e.contexts[context]["valuation"].basis = e.market.basis
  BY <1>3, <1>6, <1>7, <1>8 DEF SameSession
<1> QED
  BY <1>3, <1>4, <1>9

\* No snapshot prices a company by one market session and judges its market by another,
\* whatever is ingested between the two reads (compose_* in score_orchestration).
THEOREM SessionsAgree == SnapshotSpec => []OneSession
<1>1. SnapshotInv => OneSession
  BY MadeOfOneSession DEF SnapshotInv, SnapshotsMade, OneSession
<1> QED
  BY <1>1, SnapshotsInvariant, PTL

-----------------------------------------------------------------------------
(* Historical evaluation: what is kept, and by whom.                       *)

RunStatus == {"planned", "snapshots_built", "outcomes_built", "completed"}

IsRun(r) ==
    /\ r = [status |-> r.status, observations |-> r.observations, outcomes |-> r.outcomes,
            cutoff |-> r.cutoff]
    /\ r.status \in RunStatus
    /\ r.cutoff \in ReturnCutoff \cup {Unset}
    /\ \A o \in r.observations : \E i \in DOMAIN ResearchCutoffs : o.cutoff = ResearchCutoffs[i]

CutoffSet == {ResearchCutoffs[i] : i \in DOMAIN ResearchCutoffs}

\* A process that builds works on a run that is there.
IsTask(t, runs) ==
    \/ t = Sleeping
    \/ /\ t.step = "resolve"
       /\ t = [step |-> "resolve", key |-> t.key, at |-> t.at, previous |-> t.previous]
       /\ t.key \in DOMAIN runs /\ t.at \in 1..(Len(ResearchCutoffs) + 1)
    \/ /\ t.step = "freeze"
       /\ t = [step |-> "freeze", key |-> t.key, at |-> t.at, previous |-> t.previous,
               observation |-> t.observation]
       /\ t.key \in DOMAIN runs /\ t.at \in DOMAIN ResearchCutoffs
       /\ t.observation.cutoff = ResearchCutoffs[t.at]
    \/ /\ t.step = "close"
       /\ t = [step |-> "close", key |-> t.key, cutoff |-> t.cutoff, to |-> t.to]
       /\ t.key \in DOMAIN runs /\ t.cutoff \in ReturnCutoff \cup {Unset}
       /\ t.to \in {"snapshots_built", "outcomes_built"}
    \/ /\ t.step = "outcomes"
       /\ t = [step |-> "outcomes", key |-> t.key, cutoff |-> t.cutoff, left |-> t.left]
       /\ t.key \in DOMAIN runs /\ t.cutoff \in ReturnCutoff
       /\ t.left \subseteq runs[t.key].observations
    \/ /\ t.step = "labels"
       /\ t = [step |-> "labels", key |-> t.key, cutoff |-> t.cutoff, state |-> t.state, of |-> t.of]
       /\ t.key \in DOMAIN runs /\ t.cutoff \in LabelCutoff /\ t.of \subseteq CutoffSet

EvTyped ==
    /\ backtests = [key \in DOMAIN backtests |-> backtests[key]]
    /\ builder = [b \in Builder |-> builder[b]]
    /\ \A key \in DOMAIN backtests : IsRun(backtests[key])
    /\ \A b \in Builder : IsTask(builder[b], backtests)

\* The cutoffs of a run at which the security is a member of its universe.
MemberCutoffs == {k \in {ResearchCutoffs[i] : i \in DOMAIN ResearchCutoffs} : Member(k)}

Seen(r, k) == At(r.observations, k) # {}

AllSeen(r, M) == \A k \in M : Seen(r, k)

\* Outcomes have begun, at a cutoff that the run then keeps.
Taken(r, cutoff) == r.outcomes # {} /\ r.cutoff = cutoff

\* As long as no price arrives late: what a build has passed is observed; outcomes are
\* only built for a run whose observations are all there; and a build of outcomes has
\* either not begun, or it is the one whose cutoff the run has taken.
InStep(t, r, M) ==
    /\ t.step \in {"resolve", "freeze"} =>
          \A i \in 1..(t.at - 1) : ResearchCutoffs[i] \in M => Seen(r, ResearchCutoffs[i])
    /\ t.step = "freeze" => ResearchCutoffs[t.at] \in M
    /\ t.step = "close" =>
          /\ AllSeen(r, M)
          /\ t.cutoff # Unset =>
                r.status # "planned" /\ (r.observations = {} \/ Taken(r, t.cutoff))
    /\ t.step = "outcomes" =>
          r.status # "planned" /\ (t.left = r.observations \/ Taken(r, t.cutoff))

\* The observation of the first cutoff is also the first to get its outcome.
Coherent(r, M) ==
    /\ r.status # "planned" => AllSeen(r, M)
    /\ r.status = "planned" => r.outcomes = {}
    /\ \A v \in r.outcomes : v.dataCutoff = r.cutoff
    /\ r.outcomes # {} =>
          \E o \in r.observations : /\ \A p \in r.observations : o.cutoff <= p.cutoff
                                    /\ At(r.outcomes, o.cutoff) # {}

AtWork(t) == t.step \in {"resolve", "freeze", "close", "outcomes"}

OnTime(runs, tasks, M) ==
    /\ \A key \in DOMAIN runs : Coherent(runs[key], M)
    /\ \A b \in Builder : AtWork(tasks[b]) => InStep(tasks[b], runs[tasks[b].key], M)

EvOnTime == "bar" \notin late => OnTime(backtests, builder, MemberCutoffs)

EvInv == EvTyped /\ EvOnTime

\* What no later step takes from a run.
Keeps(r, s) ==
    /\ r.observations \subseteq s.observations /\ r.outcomes \subseteq s.outcomes
    /\ r.status # "planned" => s.status # "planned" /\ s.observations = r.observations
    /\ r.outcomes # {} => s.cutoff = r.cutoff

LEMMA InStepKept ==
    ASSUME NEW t, NEW r, NEW s, NEW M, InStep(t, r, M), Keeps(r, s)
    PROVE  InStep(t, s, M)
<1>1. \A k : Seen(r, k) => Seen(s, k)
  BY DEF Keeps, Seen, At
<1>2. AllSeen(r, M) => AllSeen(s, M)
  BY <1>1 DEF AllSeen
<1>3. \A k : Taken(r, k) => Taken(s, k)
  BY DEF Keeps, Taken
<1> QED
  BY <1>1, <1>2, <1>3 DEF InStep, Keeps

\* A builder's task only asks that its run is there and has not lost anything.
LEMMA TaskKept ==
    ASSUME NEW t, NEW runs, NEW more, IsTask(t, runs), DOMAIN runs \subseteq DOMAIN more,
           \A key \in DOMAIN runs : runs[key].observations \subseteq more[key].observations
    PROVE  IsTask(t, more)
  BY DEF IsTask, Sleeping

LEMMA RunChanges ==
    ASSUME NEW runs, NEW K \in DOMAIN runs, NEW s, runs = [key \in DOMAIN runs |-> runs[key]],
           NEW more, more = [runs EXCEPT ![K] = s]
    PROVE  /\ DOMAIN more = DOMAIN runs /\ more = [key \in DOMAIN more |-> more[key]]
           /\ more[K] = s /\ \A key \in DOMAIN runs \ {K} : more[key] = runs[key]
  OBVIOUS

LEMMA OnTimeKept ==
    ASSUME NEW runs, NEW tasks, NEW M, OnTime(runs, tasks, M),
           \A c \in Builder : IsTask(tasks[c], runs),
           NEW K \in DOMAIN runs, NEW more, NEW moved,
           DOMAIN more = DOMAIN runs, \A key \in DOMAIN runs \ {K} : more[key] = runs[key],
           Keeps(runs[K], more[K]), Coherent(more[K], M),
           \A c \in Builder :
              \/ moved[c] = tasks[c]
              \/ AtWork(moved[c]) => moved[c].key = K /\ InStep(moved[c], more[K], M)
    PROVE  OnTime(more, moved, M)
<1>1. \A key \in DOMAIN more : Coherent(more[key], M)
  BY DEF OnTime
<1>2. ASSUME NEW c \in Builder, AtWork(moved[c])
      PROVE  InStep(moved[c], more[moved[c].key], M)
  <2>1. CASE moved[c] # tasks[c]
    BY <1>2, <2>1
  <2>2. CASE moved[c] = tasks[c]
    <3>1. moved[c] = tasks[c]
      BY <2>2
    <3>2. tasks[c].key \in DOMAIN runs
      <4>1. AtWork(tasks[c]) /\ IsTask(tasks[c], runs)
        BY <1>2, <3>1
      <4> QED
        BY ONLY <4>1 DEF IsTask, AtWork, Sleeping
    <3>3. InStep(tasks[c], runs[tasks[c].key], M)
      BY <1>2, <3>1 DEF OnTime
    <3>4. CASE tasks[c].key = K
      BY <3>1, <3>3, <3>4, InStepKept
    <3>5. CASE tasks[c].key # K
      BY <3>1, <3>2, <3>3, <3>5
    <3> QED
      BY <3>4, <3>5
  <2> QED
    BY <2>1, <2>2
<1> QED
  BY <1>1, <1>2 DEF OnTime

\* What FrozenOnceBuilt says of the runs.
RunsFrozen ==
    /\ DOMAIN backtests \subseteq DOMAIN backtests'
    /\ \A key \in DOMAIN backtests :
          /\ backtests[key].observations \subseteq backtests'[key].observations
          /\ backtests[key].outcomes \subseteq backtests'[key].outcomes
          /\ "bar" \notin late /\ backtests[key].status # "planned" =>
                /\ backtests'[key].observations = backtests[key].observations
                /\ \A v \in backtests'[key].outcomes : v.dataCutoff = backtests'[key].cutoff

\* One run changes, and maybe what processes do with it.
LEMMA RunMoves ==
    ASSUME EvInv, NEW K \in DOMAIN backtests, NEW s,
           backtests' = [backtests EXCEPT ![K] = s], arrived' = arrived, late' = late,
           builder' = [c \in Builder |-> builder'[c]],
           IsRun(s), backtests[K].observations \subseteq s.observations,
           backtests[K].outcomes \subseteq s.outcomes,
           "bar" \notin late => Keeps(backtests[K], s) /\ Coherent(s, MemberCutoffs),
           \A c \in Builder :
              \/ builder'[c] = builder[c]
              \/ /\ IsTask(builder'[c], backtests')
                 /\ "bar" \notin late /\ AtWork(builder'[c]) =>
                       builder'[c].key = K /\ InStep(builder'[c], s, MemberCutoffs)
    PROVE  EvInv' /\ RunsFrozen
<1>1. /\ DOMAIN backtests' = DOMAIN backtests
      /\ backtests' = [key \in DOMAIN backtests' |-> backtests'[key]]
      /\ backtests'[K] = s /\ \A key \in DOMAIN backtests \ {K} : backtests'[key] = backtests[key]
  <2>1. backtests = [key \in DOMAIN backtests |-> backtests[key]]
    BY DEF EvInv, EvTyped
  <2>2. backtests' = [backtests EXCEPT ![K] = s]
    OBVIOUS
  <2> QED
    BY ONLY <2>1, <2>2, K \in DOMAIN backtests, RunChanges
<1>2. \A key \in DOMAIN backtests :
         /\ backtests[key].observations \subseteq backtests'[key].observations
         /\ backtests[key].outcomes \subseteq backtests'[key].outcomes
  BY <1>1
<1>3. EvTyped'
  <2>1. \A key \in DOMAIN backtests' : IsRun(backtests'[key])
    BY <1>1 DEF EvInv, EvTyped
  <2>2. \A c \in Builder : IsTask(builder'[c], backtests')
    <3> SUFFICES ASSUME NEW c \in Builder
                 PROVE  IsTask(builder'[c], backtests')
      OBVIOUS
    <3>1. IsTask(builder[c], backtests)
      BY DEF EvInv, EvTyped
    <3>2. IsTask(builder[c], backtests')
      BY <1>1, <1>2, <3>1, TaskKept
    <3> QED
      BY <3>2
  <2> QED
    BY <1>1, <2>1, <2>2 DEF EvTyped
<1>4. MemberCutoffs' = MemberCutoffs
  BY DEF MemberCutoffs, Member, Visible, OfKind, Facts
<1>5. ASSUME "bar" \notin late
      PROVE  OnTime(backtests', builder', MemberCutoffs)
  <2>1. OnTime(backtests, builder, MemberCutoffs) /\ \A c \in Builder : IsTask(builder[c], backtests)
    BY <1>5 DEF EvInv, EvOnTime, EvTyped
  <2>2. \A c \in Builder :
           \/ builder'[c] = builder[c]
           \/ AtWork(builder'[c]) => builder'[c].key = K /\ InStep(builder'[c], s, MemberCutoffs)
    BY <1>5
  <2> QED
    BY <1>1, <1>5, <2>1, <2>2, OnTimeKept
<1>6. EvOnTime'
  BY <1>4, <1>5 DEF EvOnTime
<1>7. RunsFrozen
  <2> SUFFICES ASSUME NEW key \in DOMAIN backtests, "bar" \notin late,
                      backtests[key].status # "planned"
               PROVE  /\ backtests'[key].observations = backtests[key].observations
                      /\ \A v \in backtests'[key].outcomes : v.dataCutoff = backtests'[key].cutoff
    BY <1>1, <1>2 DEF RunsFrozen
  <2>1. Coherent(backtests'[key], MemberCutoffs)
    BY <1>1, <1>5 DEF OnTime
  <2>2. backtests'[key].observations = backtests[key].observations
    BY <1>1 DEF Keeps
  <2> QED
    BY <2>1, <2>2 DEF Coherent
<1> QED
  BY <1>3, <1>6, <1>7 DEF EvInv

\* A process moves on, and changes nothing but the run it works on.
LEMMA RunAdvances ==
    ASSUME EvInv, NEW b \in Builder, NEW K \in DOMAIN backtests, NEW s, NEW t,
           backtests' = [backtests EXCEPT ![K] = s], Goes(b, t), arrived' = arrived, late' = late,
           IsRun(s), backtests[K].observations \subseteq s.observations,
           backtests[K].outcomes \subseteq s.outcomes,
           IsTask(t, backtests'),
           "bar" \notin late =>
              /\ Keeps(backtests[K], s) /\ Coherent(s, MemberCutoffs)
              /\ AtWork(t) => t.key = K /\ InStep(t, s, MemberCutoffs)
    PROVE  EvInv' /\ RunsFrozen
<1>1. /\ builder'[b] = t /\ builder' = [c \in Builder |-> builder'[c]]
      /\ \A c \in Builder \ {b} : builder'[c] = builder[c]
  BY DEF Goes, EvInv, EvTyped
<1>2. \A c \in Builder :
         \/ builder'[c] = builder[c]
         \/ /\ IsTask(builder'[c], backtests')
            /\ "bar" \notin late /\ AtWork(builder'[c]) =>
                  builder'[c].key = K /\ InStep(builder'[c], s, MemberCutoffs)
  BY <1>1
<1>3. "bar" \notin late => Keeps(backtests[K], s) /\ Coherent(s, MemberCutoffs)
  OBVIOUS
<1> QED
  BY <1>1, <1>2, <1>3, RunMoves

\* A process moves on without touching a run.
LEMMA TaskAdvances ==
    ASSUME EvInv, NEW b \in Builder, NEW t,
           Goes(b, t), backtests' = backtests, arrived' = arrived, late' = late,
           IsTask(t, backtests),
           "bar" \notin late /\ AtWork(t) => InStep(t, backtests[t.key], MemberCutoffs)
    PROVE  EvInv' /\ RunsFrozen
<1>1. /\ builder'[b] = t /\ builder' = [c \in Builder |-> builder'[c]]
      /\ \A c \in Builder \ {b} : builder'[c] = builder[c]
  BY DEF Goes, EvInv, EvTyped
<1>2. EvTyped'
  BY <1>1 DEF EvInv, EvTyped
<1>3. MemberCutoffs' = MemberCutoffs
  BY DEF MemberCutoffs, Member, Visible, OfKind, Facts
<1>4. ASSUME "bar" \notin late
      PROVE  OnTime(backtests, builder', MemberCutoffs)
  <2>1. OnTime(backtests, builder, MemberCutoffs)
    BY <1>4 DEF EvInv, EvOnTime
  <2> QED
    BY <1>1, <1>4, <2>1 DEF OnTime
<1>5. RunsFrozen
  BY <1>4 DEF RunsFrozen, OnTime, Coherent
<1> QED
  BY <1>2, <1>3, <1>4, <1>5 DEF EvInv, EvOnTime

LEMMA CutoffsAscend ==
    /\ Len(ResearchCutoffs) \in Nat \ {0} /\ DOMAIN ResearchCutoffs = 1..Len(ResearchCutoffs)
    /\ RunEnd = ResearchCutoffs[Len(ResearchCutoffs)]
    /\ \A i \in DOMAIN ResearchCutoffs :
          ResearchCutoffs[i] \in Nat \ {0} /\ ResearchCutoffs[i] <= RunEnd
    /\ \A i, j \in DOMAIN ResearchCutoffs :
          /\ ResearchCutoffs[i] = ResearchCutoffs[j] => i = j
          /\ ResearchCutoffs[i] <= ResearchCutoffs[j] => i <= j
<1>1. /\ Len(ResearchCutoffs) \in Nat \ {0} /\ DOMAIN ResearchCutoffs = 1..Len(ResearchCutoffs)
      /\ RunEnd = ResearchCutoffs[Len(ResearchCutoffs)]
      /\ \A i \in DOMAIN ResearchCutoffs : ResearchCutoffs[i] \in Nat \ {0}
  BY HistoricalEvaluationAssumption DEF RunEnd, Last
<1>2. \A i, j \in DOMAIN ResearchCutoffs : i < j => ResearchCutoffs[i] < ResearchCutoffs[j]
  BY HistoricalEvaluationAssumption
<1> QED
  BY SMTT(30), <1>1, <1>2

\* Where no run is touched, none is disturbed.
LEMMA RunsStay ==
    ASSUME EvInv, backtests' = backtests
    PROVE  RunsFrozen
  BY DEF EvInv, EvOnTime, OnTime, Coherent, RunsFrozen

LEMMA StayPut ==
    ASSUME EvInv, UNCHANGED <<arrived, late, backtests, builder>>
    PROVE  EvInv' /\ RunsFrozen
<1>1. MemberCutoffs' = MemberCutoffs
  BY DEF MemberCutoffs, Member, Visible, OfKind, Facts
<1> QED
  BY <1>1, RunsStay DEF EvInv, EvTyped, EvOnTime

\* A price that is on time makes nobody a member of a universe whose cutoff has passed.
LEMMA ArriveStep ==
    ASSUME EvInv, NEW a \in Shipment, Arrive(a)
    PROVE  EvInv' /\ RunsFrozen
<1>1. /\ arrived' = arrived \cup {a} /\ backtests' = backtests /\ builder' = builder
      /\ late' = late \cup {f.kind : f \in {g \in Content[a] :
                              \E k \in UsedCutoffs : g.kind = "listing" \/ g.available <= k}}
  BY DEF Arrive
<1>2. Facts' = Facts \cup Content[a]
  BY <1>1 DEF Facts
<1>3. EvTyped'
  BY <1>1 DEF EvInv, EvTyped
<1>4. ASSUME "bar" \notin late', DOMAIN backtests # {}
      PROVE  MemberCutoffs' = MemberCutoffs
  <2>1. RunEnd \in UsedCutoffs
    BY <1>4 DEF UsedCutoffs
  <2>2. ASSUME NEW f \in Content[a], f.kind = "bar", NEW i \in DOMAIN ResearchCutoffs
        PROVE  ~(f.available <= ResearchCutoffs[i])
    <3>1. ~(f.available <= RunEnd)
      BY <1>1, <1>4, <2>1, <2>2
    <3>2. f.available \in Nat
      BY <2>2, HistoricalEvaluationAssumption
    <3>3. ResearchCutoffs[i] <= RunEnd /\ ResearchCutoffs[i] \in Nat /\ RunEnd \in Nat
      BY CutoffsAscend
    <3> QED
      BY <3>1, <3>2, <3>3
  <2>3. \A i \in DOMAIN ResearchCutoffs :
           {f \in Facts' : f.kind = "bar" /\ f.available <= ResearchCutoffs[i]}
           = {f \in Facts : f.kind = "bar" /\ f.available <= ResearchCutoffs[i]}
    BY <1>2, <2>2
  <2>4. \A i \in DOMAIN ResearchCutoffs :
           Member(ResearchCutoffs[i])' <=> Member(ResearchCutoffs[i])
    BY <2>3 DEF Member, Visible, OfKind
  <2> QED
    BY <2>4 DEF MemberCutoffs
<1>5. EvOnTime'
  <2> SUFFICES ASSUME "bar" \notin late'
               PROVE  OnTime(backtests, builder, MemberCutoffs')
    BY <1>1 DEF EvOnTime
  <2>1. OnTime(backtests, builder, MemberCutoffs)
    BY <1>1 DEF EvInv, EvOnTime
  <2>2. CASE DOMAIN backtests # {}
    BY <1>4, <2>1, <2>2
  <2>3. CASE DOMAIN backtests = {}
    <3>1. \A b \in Builder : ~AtWork(builder[b])
      BY <2>3 DEF EvInv, EvTyped, IsTask, AtWork, Sleeping
    <3> QED
      BY <2>3, <3>1 DEF OnTime
  <2> QED
    BY <2>2, <2>3
<1> QED
  BY <1>1, <1>3, <1>5, RunsStay DEF EvInv

LEMMA BeginDatasetStep ==
    ASSUME EvInv, NEW b \in Builder, BeginDataset(b)
    PROVE  EvInv' /\ RunsFrozen
<1> DEFINE key == SourceState(RunEnd)
           t == [step |-> "resolve", key |-> key, at |-> 1, previous |-> {}]
<1>1. /\ Goes(b, t) /\ UNCHANGED <<arrived, late>>
      /\ backtests' = IF key \in DOMAIN backtests THEN backtests ELSE Put(backtests, key, NewRun)
  BY DEF BeginDataset
<1>2. /\ t.step = "resolve" /\ t.key = key /\ t.at = 1
      /\ t = [step |-> "resolve", key |-> t.key, at |-> t.at, previous |-> t.previous]
  OBVIOUS
<1> HIDE DEF key, t
<1>3. ASSUME NEW runs, key \in DOMAIN runs
      PROVE  IsTask(t, runs)
  BY <1>2, <1>3, CutoffsAscend DEF IsTask
<1>4. \A r : InStep(t, r, MemberCutoffs)
  BY <1>2 DEF InStep
<1>5. CASE key \in DOMAIN backtests
  BY <1>1, <1>3, <1>4, <1>5, TaskAdvances
<1>6. CASE key \notin DOMAIN backtests
  <2>1. /\ DOMAIN backtests' = DOMAIN backtests \cup {key} /\ backtests'[key] = NewRun
        /\ \A k \in DOMAIN backtests : backtests'[k] = backtests[k]
        /\ backtests' = [k \in DOMAIN backtests' |-> backtests'[k]]
    BY <1>1, <1>6 DEF Put
  <2>2. /\ builder'[b] = t /\ builder' = [c \in Builder |-> builder'[c]]
        /\ \A c \in Builder \ {b} : builder'[c] = builder[c]
    BY <1>1 DEF Goes, EvInv, EvTyped
  <2>3. IsRun(NewRun) /\ Coherent(NewRun, MemberCutoffs)
    BY DEF IsRun, NewRun, RunStatus, Coherent
  <2>4. \A c \in Builder : IsTask(builder'[c], backtests')
    <3> SUFFICES ASSUME NEW c \in Builder
                 PROVE  IsTask(builder'[c], backtests')
      OBVIOUS
    <3>1. CASE c = b
      BY <1>3, <2>1, <2>2, <3>1
    <3>2. CASE c # b
      <4>1. IsTask(builder[c], backtests)
        BY DEF EvInv, EvTyped
      <4>2. IsTask(builder[c], backtests')
        BY <2>1, <4>1, TaskKept
      <4> QED
        BY <2>2, <3>2, <4>2
    <3> QED
      BY <3>1, <3>2
  <2>5. EvTyped'
    BY <2>1, <2>2, <2>3, <2>4 DEF EvInv, EvTyped
  <2>6. MemberCutoffs' = MemberCutoffs
    BY <1>1 DEF MemberCutoffs, Member, Visible, OfKind, Facts
  <2>7. ASSUME "bar" \notin late
        PROVE  OnTime(backtests', builder', MemberCutoffs)
    <3>1. OnTime(backtests, builder, MemberCutoffs)
      BY <2>7 DEF EvInv, EvOnTime
    <3>2. \A k \in DOMAIN backtests' : Coherent(backtests'[k], MemberCutoffs)
      BY <2>1, <2>3, <3>1 DEF OnTime
    <3>3. ASSUME NEW c \in Builder \ {b}, AtWork(builder[c])
          PROVE  builder[c].key \in DOMAIN backtests
      <4>1. IsTask(builder[c], backtests)
        BY DEF EvInv, EvTyped
      <4> QED
        BY ONLY <3>3, <4>1 DEF IsTask, AtWork, Sleeping
    <3>4. \A c \in Builder : AtWork(builder'[c]) =>
             InStep(builder'[c], backtests'[builder'[c].key], MemberCutoffs)
      BY <1>4, <2>1, <2>2, <3>1, <3>3 DEF OnTime
    <3> QED
      BY <3>2, <3>4 DEF OnTime
  <2>8. EvOnTime'
    BY <1>1, <2>6, <2>7 DEF EvOnTime
  <2>9. RunsFrozen
    BY <2>1 DEF EvInv, EvOnTime, OnTime, Coherent, RunsFrozen
  <2> QED
    BY <2>5, <2>8, <2>9 DEF EvInv
<1> QED
  BY <1>5, <1>6

\* What a process at work is known to hold, by its step.
LEMMA AtStep ==
    ASSUME EvInv, NEW b \in Builder, builder[b].step # "idle"
    PROVE  /\ builder[b].key \in DOMAIN backtests /\ IsRun(RunOf(b)) /\ IsTask(builder[b], backtests)
           /\ "bar" \notin late => Coherent(RunOf(b), MemberCutoffs)
           /\ "bar" \notin late /\ AtWork(builder[b]) => InStep(builder[b], RunOf(b), MemberCutoffs)
<1>1. IsTask(builder[b], backtests)
  BY DEF EvInv, EvTyped
<1>2. builder[b].key \in DOMAIN backtests
  BY <1>1 DEF IsTask, Sleeping
<1> QED
  BY <1>1, <1>2 DEF EvInv, EvTyped, EvOnTime, OnTime, RunOf

LEMMA ExcludeStep ==
    ASSUME EvInv, NEW b \in Builder, Exclude(b)
    PROVE  EvInv' /\ RunsFrozen
<1> DEFINE t == [builder[b] EXCEPT !.at = @ + 1]
<1>1. /\ builder[b].step = "resolve" /\ builder[b].at <= Len(ResearchCutoffs)
      /\ ~Member(ResearchCutoffs[builder[b].at]) /\ Goes(b, t)
      /\ UNCHANGED <<arrived, late, backtests>>
  BY DEF Exclude, Resolving, Step, AtCutoff
<1>2. IsTask(builder[b], backtests)
  BY <1>1, AtStep
<1>3. /\ builder[b].at \in 1..Len(ResearchCutoffs)
      /\ t = [step |-> "resolve", key |-> t.key, at |-> t.at, previous |-> t.previous]
      /\ t.step = "resolve" /\ t.at = builder[b].at + 1 /\ t.key = builder[b].key
      /\ t.key \in DOMAIN backtests
  BY <1>1, <1>2, CutoffsAscend DEF IsTask, Sleeping
<1> HIDE DEF t
<1>4. IsTask(t, backtests)
  BY <1>3, CutoffsAscend DEF IsTask
<1>5. ASSUME "bar" \notin late
      PROVE  InStep(t, backtests[t.key], MemberCutoffs)
  <2>1. InStep(builder[b], backtests[t.key], MemberCutoffs)
    BY <1>1, <1>3, <1>5, AtStep DEF AtWork, RunOf
  <2>2. ResearchCutoffs[builder[b].at] \notin MemberCutoffs
    BY <1>1, <1>3, CutoffsAscend DEF MemberCutoffs
  <2>3. \A i \in 1..(t.at - 1) : i \in 1..(builder[b].at - 1) \/ i = builder[b].at
    BY <1>3, CutoffsAscend
  <2> QED
    BY <1>1, <1>3, <2>1, <2>2, <2>3 DEF InStep
<1> QED
  BY <1>1, <1>4, <1>5, TaskAdvances

LEMMA FreezesStep ==
    ASSUME EvInv, NEW b \in Builder, NEW result, NEW created, Resolving(b), Member(AtCutoff(b)),
           Freezes(b, result, created), UNCHANGED <<arrived, late, backtests>>
    PROVE  EvInv' /\ RunsFrozen
<1> DEFINE t == [step |-> "freeze", key |-> builder[b].key, at |-> builder[b].at,
                 previous |-> {result}, observation |-> Observed(b, result, created)]
<1>1. /\ builder[b].step = "resolve" /\ builder[b].at <= Len(ResearchCutoffs)
      /\ Member(ResearchCutoffs[builder[b].at]) /\ Goes(b, t)
  BY DEF Freezes, Resolving, Step, AtCutoff
<1>2. IsTask(builder[b], backtests)
  BY <1>1, AtStep
<1>3. /\ builder[b].at \in DOMAIN ResearchCutoffs /\ builder[b].key \in DOMAIN backtests
      /\ t = [step |-> "freeze", key |-> t.key, at |-> t.at, previous |-> t.previous,
              observation |-> t.observation]
      /\ t.step = "freeze" /\ t.at = builder[b].at /\ t.key = builder[b].key
      /\ t.observation = Observed(b, result, created)
  BY <1>1, <1>2, CutoffsAscend DEF IsTask, Sleeping
<1> HIDE DEF t
<1>4. t.observation.cutoff = ResearchCutoffs[t.at]
  BY <1>3 DEF Observed, AtCutoff
<1>5. IsTask(t, backtests)
  BY <1>3, <1>4 DEF IsTask
<1>6. ASSUME "bar" \notin late
      PROVE  InStep(t, backtests[t.key], MemberCutoffs)
  <2>1. InStep(builder[b], backtests[t.key], MemberCutoffs)
    BY <1>1, <1>3, <1>6, AtStep DEF AtWork, RunOf
  <2>2. ResearchCutoffs[t.at] \in MemberCutoffs
    BY <1>1, <1>3 DEF MemberCutoffs
  <2> QED
    BY <1>1, <1>3, <2>1, <2>2 DEF InStep
<1> QED
  BY <1>1, <1>5, <1>6, TaskAdvances

LEMMA FreezeObservationStep ==
    ASSUME EvInv, NEW b \in Builder, FreezeObservation(b)
    PROVE  EvInv' /\ RunsFrozen
<1> DEFINE K == builder[b].key
           r == RunOf(b)
           o == builder[b].observation
           t == Onwards(b)
           s == [r EXCEPT !.observations = @ \cup {o}]
<1>1. /\ builder[b].step = "freeze" /\ UNCHANGED <<arrived, late>>
      /\ \/ /\ At(r.observations, o.cutoff) = {}
            /\ backtests' = [backtests EXCEPT ![K].observations = @ \cup {o}]
            /\ Goes(b, t)
         \/ At(r.observations, o.cutoff) = {o} /\ Goes(b, t) /\ UNCHANGED backtests
         \/ Stops(b) /\ UNCHANGED backtests
  BY DEF FreezeObservation, Step
<1>2. /\ IsTask(builder[b], backtests) /\ K \in DOMAIN backtests /\ IsRun(r)
  BY <1>1, AtStep
<1>3. builder[b].at \in DOMAIN ResearchCutoffs /\ o.cutoff = ResearchCutoffs[builder[b].at]
  BY <1>1, <1>2 DEF IsTask, Sleeping
<1>4. /\ t = [step |-> "resolve", key |-> t.key, at |-> t.at, previous |-> t.previous]
      /\ t.step = "resolve" /\ t.at = builder[b].at + 1 /\ t.key = K
  BY DEF Onwards
<1>5. r = backtests[K]
  BY DEF RunOf
<1>6. ASSUME "bar" \notin late
      PROVE  InStep(builder[b], r, MemberCutoffs) /\ Coherent(r, MemberCutoffs)
  BY <1>1, <1>6, AtStep DEF AtWork
<1>7. \A runs : K \in DOMAIN runs => IsTask(t, runs)
  BY <1>3, <1>4, CutoffsAscend DEF IsTask
<1>8. IsTask(Sleeping, backtests) /\ ~AtWork(Sleeping)
  BY DEF IsTask, Sleeping, AtWork
<1> HIDE DEF K, r, o, t
<1>9. ASSUME NEW u, InStep(builder[b], r, MemberCutoffs), Seen(u, o.cutoff),
             \A k : Seen(r, k) => Seen(u, k)
      PROVE  InStep(t, u, MemberCutoffs)
  <2>1. \A i \in 1..(t.at - 1) : i \in 1..(builder[b].at - 1) \/ i = builder[b].at
    BY <1>3, <1>4, CutoffsAscend
  <2> QED
    BY <1>1, <1>3, <1>4, <1>9, <2>1 DEF InStep
<1>10. CASE /\ At(r.observations, o.cutoff) = {}
            /\ backtests' = [backtests EXCEPT ![K].observations = @ \cup {o}]
            /\ Goes(b, t)
  <2>1. backtests' = [backtests EXCEPT ![K] = s]
    BY <1>5, <1>10
  <2>2. /\ s.observations = r.observations \cup {o} /\ s.outcomes = r.outcomes
        /\ s.status = r.status /\ s.cutoff = r.cutoff
        /\ s = [status |-> s.status, observations |-> s.observations, outcomes |-> s.outcomes,
                cutoff |-> s.cutoff]
    BY SMTT(30), <1>2 DEF IsRun
  <2> HIDE DEF s
  <2>3. IsRun(s)
    BY <1>2, <1>3, <2>2 DEF IsRun
  <2>4. K \in DOMAIN backtests'
    BY <1>2, <2>1
  <2>5. ASSUME "bar" \notin late
        PROVE  /\ Keeps(r, s) /\ Coherent(s, MemberCutoffs)
               /\ InStep(t, s, MemberCutoffs)
    <3>1. r.status = "planned"
      <4>1. o.cutoff \in MemberCutoffs
        BY <1>1, <1>3, <1>6, <2>5 DEF InStep
      <4>2. ~AllSeen(r, MemberCutoffs)
        BY <1>10, <4>1 DEF AllSeen, Seen
      <4> QED
        BY <1>6, <2>5, <4>2 DEF Coherent
    <3>2. Keeps(r, s)
      BY <2>2, <3>1, <1>6, <2>5 DEF Keeps
    <3>3. Coherent(s, MemberCutoffs)
      BY <1>6, <2>2, <2>5, <3>1 DEF Coherent
    <3>4. Seen(s, o.cutoff) /\ \A k : Seen(r, k) => Seen(s, k)
      BY <2>2 DEF Seen, At
    <3> QED
      BY <1>6, <1>9, <2>5, <3>2, <3>3, <3>4
  <2> QED
    BY <1>1, <1>2, <1>4, <1>5, <1>7, <1>10, <2>1, <2>2, <2>3, <2>4, <2>5, RunAdvances
<1>11. CASE At(r.observations, o.cutoff) = {o} /\ Goes(b, t) /\ UNCHANGED backtests
  <2>1. Seen(r, o.cutoff)
    BY <1>11 DEF Seen
  <2>2. "bar" \notin late => InStep(t, backtests[t.key], MemberCutoffs)
    BY <1>4, <1>5, <1>6, <1>9, <2>1
  <2> QED
    BY <1>1, <1>2, <1>7, <1>11, <2>2, TaskAdvances
<1>12. CASE Stops(b) /\ UNCHANGED backtests
  BY <1>1, <1>8, <1>12, TaskAdvances DEF Stops
<1> QED
  BY <1>1, <1>10, <1>11, <1>12 DEF K, r, o, t

\* A process that has closed a run's stage commits its status next, or gives up.
LEMMA ClosesStep ==
    ASSUME EvInv, NEW b \in Builder, NEW to \in {"snapshots_built", "outcomes_built"},
           NEW cutoff \in ReturnCutoff \cup {Unset}, builder[b].step # "idle",
           Closes(b, to, cutoff), UNCHANGED <<arrived, late, backtests>>,
           "bar" \notin late =>
              /\ AllSeen(RunOf(b), MemberCutoffs)
              /\ cutoff # Unset => /\ RunOf(b).status # "planned"
                                   /\ RunOf(b).observations = {} \/ Taken(RunOf(b), cutoff)
    PROVE  EvInv' /\ RunsFrozen
<1> DEFINE t == [step |-> "close", key |-> builder[b].key, cutoff |-> cutoff, to |-> to]
<1>1. Goes(b, t) \/ Goes(b, Sleeping)
  BY DEF Closes
<1>2. /\ t = [step |-> "close", key |-> t.key, cutoff |-> t.cutoff, to |-> t.to]
      /\ t.step = "close" /\ t.key = builder[b].key /\ t.cutoff = cutoff /\ t.to = to
  OBVIOUS
<1> HIDE DEF t
<1>3. builder[b].key \in DOMAIN backtests
  BY AtStep
<1>4. IsTask(t, backtests)
  BY <1>2, <1>3 DEF IsTask
<1>5. "bar" \notin late => InStep(t, backtests[t.key], MemberCutoffs)
  BY <1>2 DEF InStep, RunOf
<1>6. IsTask(Sleeping, backtests) /\ ~AtWork(Sleeping)
  BY DEF IsTask, Sleeping, AtWork
<1>7. CASE Goes(b, t)
  BY <1>4, <1>5, <1>7, TaskAdvances
<1>8. CASE Goes(b, Sleeping)
  BY <1>6, <1>8, TaskAdvances
<1> QED
  BY <1>1, <1>7, <1>8

LEMMA FinishDatasetStep ==
    ASSUME EvInv, NEW b \in Builder, FinishDataset(b)
    PROVE  EvInv' /\ RunsFrozen
<1>1. /\ builder[b].step = "resolve" /\ builder[b].at > Len(ResearchCutoffs)
      /\ Closes(b, "snapshots_built", Unset) /\ UNCHANGED <<arrived, late, backtests>>
  BY DEF FinishDataset, Step
<1>2. ASSUME "bar" \notin late
      PROVE  AllSeen(RunOf(b), MemberCutoffs)
  <2>1. InStep(builder[b], RunOf(b), MemberCutoffs) /\ IsTask(builder[b], backtests)
    BY <1>1, <1>2, AtStep DEF AtWork
  <2>2. builder[b].at \in Nat
    BY <1>1, <2>1, CutoffsAscend DEF IsTask, Sleeping
  <2>3. ASSUME NEW i \in DOMAIN ResearchCutoffs, ResearchCutoffs[i] \in MemberCutoffs
        PROVE  Seen(RunOf(b), ResearchCutoffs[i])
    <3>1. i \in 1..(builder[b].at - 1)
      BY <1>1, <2>2, CutoffsAscend
    <3> QED
      BY <1>1, <2>1, <2>3, <3>1 DEF InStep
  <2> QED
    BY <2>3 DEF AllSeen, MemberCutoffs
<1> QED
  BY <1>1, <1>2, ClosesStep

LEMMA FinishOutcomesStep ==
    ASSUME EvInv, NEW b \in Builder, FinishOutcomes(b)
    PROVE  EvInv' /\ RunsFrozen
<1>1. /\ builder[b].step = "outcomes" /\ builder[b].left = {}
      /\ Closes(b, "outcomes_built", builder[b].cutoff) /\ UNCHANGED <<arrived, late, backtests>>
  BY DEF FinishOutcomes, Step
<1>2. IsTask(builder[b], backtests)
  BY <1>1, AtStep
<1>3. builder[b].cutoff \in ReturnCutoff
  BY <1>1, <1>2 DEF IsTask, Sleeping
<1>4. ASSUME "bar" \notin late
      PROVE  /\ AllSeen(RunOf(b), MemberCutoffs) /\ RunOf(b).status # "planned"
             /\ RunOf(b).observations = {} \/ Taken(RunOf(b), builder[b].cutoff)
  BY <1>1, <1>4, AtStep DEF AtWork, InStep, Coherent
<1> QED
  BY <1>1, <1>3, <1>4, ClosesStep

\* A set of numbers that is not empty has a least one.
LEMMA LeastOf ==
    ASSUME NEW S \in SUBSET Nat, S # {}
    PROVE  \E n \in S : \A m \in S : n <= m
<1> DEFINE R == OpToRel(<, Nat)
<1>1. \A m, n \in Nat : m < n => <<m, n>> \in R
  BY Zenon DEF OpToRel
<1>2. IsWellFoundedOn(R, Nat)
  BY NatLessThanWellFounded
<1> HIDE DEF R
<1>3. PICK n \in S : \A m \in S : ~(<<m, n>> \in R)
  BY <1>2, WFMin
<1>4. ASSUME NEW m \in S
      PROVE  ~(m < n)
  BY <1>1, <1>3
<1> QED
  BY <1>4

\* A run of which two fields change.
LEMMA StatusAndCutoff ==
    ASSUME NEW r, IsRun(r), NEW status, NEW cutoff, NEW s,
           s = [r EXCEPT !.status = status, !.cutoff = cutoff]
    PROVE  s = [status |-> status, observations |-> r.observations, outcomes |-> r.outcomes,
                cutoff |-> cutoff]
<1>1. PICK a, b, c, d : r = [status |-> a, observations |-> b, outcomes |-> c, cutoff |-> d]
  BY DEF IsRun
<1>2. s = [[status |-> a, observations |-> b, outcomes |-> c, cutoff |-> d]
              EXCEPT !.status = status, !.cutoff = cutoff]
  BY <1>1
<1>3. s = [status |-> status, observations |-> b, outcomes |-> c, cutoff |-> cutoff]
  BY ONLY <1>2
<1>4. b = r.observations /\ c = r.outcomes
  BY <1>1
<1> QED
  BY <1>3, <1>4

LEMMA OutcomesAndCutoff ==
    ASSUME NEW r, IsRun(r), NEW V, NEW cutoff, NEW s,
           s = [r EXCEPT !.outcomes = @ \cup V, !.cutoff = cutoff]
    PROVE  s = [status |-> r.status, observations |-> r.observations,
                outcomes |-> r.outcomes \cup V, cutoff |-> cutoff]
<1>1. PICK a, b, c, d : r = [status |-> a, observations |-> b, outcomes |-> c, cutoff |-> d]
  BY DEF IsRun
<1>2. s = [[status |-> a, observations |-> b, outcomes |-> c, cutoff |-> d]
              EXCEPT !.outcomes = @ \cup V, !.cutoff = cutoff]
  BY <1>1
<1>3. s = [status |-> a, observations |-> b, outcomes |-> c \cup V, cutoff |-> cutoff]
  BY ONLY <1>2
<1>4. a = r.status /\ b = r.observations /\ c = r.outcomes
  BY <1>1
<1> QED
  BY <1>3, <1>4

LEMMA CommitStatusStep ==
    ASSUME EvInv, NEW b \in Builder, CommitStatus(b)
    PROVE  EvInv' /\ RunsFrozen
<1> DEFINE K == builder[b].key
           r == RunOf(b)
           kept == IF builder[b].cutoff = Unset THEN r.cutoff ELSE builder[b].cutoff
           s == [r EXCEPT !.status = builder[b].to, !.cutoff = kept]
<1>1. /\ builder[b].step = "close" /\ UNCHANGED <<arrived, late>> /\ Stops(b)
      /\ backtests' = [backtests EXCEPT
            ![K].status = builder[b].to,
            ![K].cutoff = IF builder[b].cutoff = Unset THEN @ ELSE builder[b].cutoff]
  BY DEF CommitStatus, Step
<1>2. /\ IsTask(builder[b], backtests) /\ K \in DOMAIN backtests /\ IsRun(r)
  BY <1>1, AtStep
<1>3. /\ builder[b].to \in {"snapshots_built", "outcomes_built"}
      /\ builder[b].cutoff \in ReturnCutoff \cup {Unset}
  BY <1>1, <1>2 DEF IsTask, Sleeping
<1>4. r = backtests[K]
  BY DEF RunOf
<1>5. ASSUME "bar" \notin late
      PROVE  InStep(builder[b], r, MemberCutoffs) /\ Coherent(r, MemberCutoffs)
  BY <1>1, <1>5, AtStep DEF AtWork
<1>6. IsTask(Sleeping, backtests') /\ ~AtWork(Sleeping)
  BY DEF IsTask, Sleeping, AtWork
<1> HIDE DEF K, r
<1>7. backtests' = [backtests EXCEPT ![K] = s]
  <2>1. r = [status |-> r.status, observations |-> r.observations, outcomes |-> r.outcomes,
             cutoff |-> r.cutoff]
    BY <1>2 DEF IsRun
  <2>2. DOMAIN backtests' = DOMAIN backtests
    BY <1>1
  <2> QED
    BY <1>1, <1>2, <1>4, <2>1, <2>2
<1>8. /\ s.observations = r.observations /\ s.outcomes = r.outcomes
      /\ s.status = builder[b].to /\ s.cutoff = kept
      /\ s = [status |-> s.status, observations |-> s.observations, outcomes |-> s.outcomes,
              cutoff |-> s.cutoff]
  <2>1. s = [status |-> builder[b].to, observations |-> r.observations, outcomes |-> r.outcomes,
             cutoff |-> kept]
    <3>1. s = [r EXCEPT !.status = builder[b].to, !.cutoff = kept] /\ IsRun(r)
      BY <1>2
    <3> HIDE DEF s, kept
    <3> QED
      BY ONLY <3>1, StatusAndCutoff
  <2> QED
    BY <2>1
<1> HIDE DEF s
<1>9. IsRun(s)
  BY <1>2, <1>3, <1>8 DEF IsRun, RunStatus
<1>10. ASSUME "bar" \notin late
       PROVE  Keeps(r, s) /\ Coherent(s, MemberCutoffs)
  <2>1. s.status # "planned"
    BY <1>3, <1>8
  <2>2. r.outcomes # {} => s.cutoff = r.cutoff
    <3>1. r.outcomes # {} => r.observations # {}
      BY <1>5, <1>10 DEF Coherent
    <3>2. builder[b].cutoff # Unset => r.observations = {} \/ r.cutoff = builder[b].cutoff
      BY <1>1, <1>5, <1>10 DEF InStep, Taken
    <3> QED
      BY <1>8, <3>1, <3>2
  <2>3. AllSeen(s, MemberCutoffs)
    BY <1>1, <1>5, <1>8, <1>10 DEF InStep, AllSeen, Seen
  <2>4. Keeps(r, s)
    BY <1>8, <2>1, <2>2 DEF Keeps
  <2>5. Coherent(s, MemberCutoffs)
    BY <1>5, <1>8, <1>10, <2>1, <2>2, <2>3 DEF Coherent
  <2> QED
    BY <2>4, <2>5
<1> QED
  BY <1>1, <1>2, <1>4, <1>6, <1>7, <1>8, <1>9, <1>10, RunAdvances DEF Stops

LEMMA BeginOutcomesStep ==
    ASSUME EvInv, NEW b \in Builder, NEW key \in DOMAIN backtests, NEW cutoff \in ReturnCutoff,
           BeginOutcomes(b, key, cutoff)
    PROVE  EvInv' /\ RunsFrozen
<1> DEFINE t == [step |-> "outcomes", key |-> key, cutoff |-> cutoff,
                 left |-> backtests[key].observations]
<1>1. /\ backtests[key].status = "snapshots_built" /\ Goes(b, t)
      /\ UNCHANGED <<arrived, late, backtests>>
  BY DEF BeginOutcomes
<1>2. /\ t = [step |-> "outcomes", key |-> t.key, cutoff |-> t.cutoff, left |-> t.left]
      /\ t.step = "outcomes" /\ t.key = key /\ t.cutoff = cutoff
      /\ t.left = backtests[key].observations
  OBVIOUS
<1> HIDE DEF t
<1>3. IsTask(t, backtests)
  BY <1>2 DEF IsTask
<1>4. InStep(t, backtests[t.key], MemberCutoffs)
  BY <1>1, <1>2 DEF InStep
<1> QED
  BY <1>1, <1>3, <1>4, TaskAdvances

\* Of the observations that a build of outcomes has left, one is of the first cutoff.
LEMMA FirstLeft ==
    ASSUME NEW L, L # {}, \A o \in L : \E i \in DOMAIN ResearchCutoffs : o.cutoff = ResearchCutoffs[i]
    PROVE  \E o \in L : \A p \in L : o.cutoff <= p.cutoff
<1> DEFINE S == {o.cutoff : o \in L}
<1>1. S \in SUBSET Nat /\ S # {}
  BY CutoffsAscend
<1>2. PICK k \in S : \A m \in S : k <= m
  BY <1>1, LeastOf
<1> QED
  BY <1>2

LEMMA FreezeOutcomeStep ==
    ASSUME EvInv, NEW b \in Builder, FreezeOutcome(b)
    PROVE  EvInv' /\ RunsFrozen
<1> DEFINE K == builder[b].key
           r == RunOf(b)
           k == builder[b].cutoff
           o == CHOOSE o \in builder[b].left : \A p \in builder[b].left : o.cutoff <= p.cutoff
           v == Outcome(o, k)
           s == [r EXCEPT !.outcomes = @ \cup {v}, !.cutoff = k]
           t == [builder[b] EXCEPT !.left = @ \ {o}]
<1>1. /\ builder[b].step = "outcomes" /\ builder[b].left # {} /\ UNCHANGED <<arrived, late>>
      /\ \/ /\ At(r.outcomes, o.cutoff) \in {{}, {v}}
            /\ backtests' = [backtests EXCEPT ![K].outcomes = @ \cup {v}, ![K].cutoff = k]
            /\ Goes(b, t)
         \/ Stops(b) /\ UNCHANGED backtests
  BY DEF FreezeOutcome, Step
<1>2. /\ IsTask(builder[b], backtests) /\ K \in DOMAIN backtests /\ IsRun(r)
  BY <1>1, AtStep
<1>3. r = backtests[K]
  BY DEF RunOf
<1>4. k \in ReturnCutoff /\ builder[b].left \subseteq r.observations
  BY <1>1, <1>2, <1>3 DEF IsTask, Sleeping
<1>5. o \in builder[b].left /\ \A p \in builder[b].left : o.cutoff <= p.cutoff
  <2>1. \A p \in builder[b].left : \E i \in DOMAIN ResearchCutoffs : p.cutoff = ResearchCutoffs[i]
    BY <1>2, <1>4 DEF IsRun
  <2>2. \E p \in builder[b].left : \A q \in builder[b].left : p.cutoff <= q.cutoff
    BY <1>1, <2>1, FirstLeft
  <2> QED
    BY <2>2
<1>6. v.cutoff = o.cutoff /\ v.dataCutoff = k
  BY DEF Outcome
<1>7. /\ t = [step |-> "outcomes", key |-> t.key, cutoff |-> t.cutoff, left |-> t.left]
      /\ t.step = "outcomes" /\ t.key = K /\ t.cutoff = k /\ t.left \subseteq builder[b].left
  <2>1. builder[b] = [step |-> "outcomes", key |-> K, cutoff |-> k, left |-> builder[b].left]
    BY <1>1, <1>2 DEF IsTask, Sleeping
  <2>2. PICK L : builder[b] = [step |-> "outcomes", key |-> K, cutoff |-> k, left |-> L]
    BY <2>1
  <2> HIDE DEF K, k, o
  <2>3. t = [step |-> "outcomes", key |-> K, cutoff |-> k, left |-> L \ {o}]
    BY <2>2
  <2> QED
    BY <2>2, <2>3
<1>8. ASSUME "bar" \notin late
      PROVE  InStep(builder[b], r, MemberCutoffs) /\ Coherent(r, MemberCutoffs)
  BY <1>1, <1>8, AtStep DEF AtWork
<1> HIDE DEF K, r, k, o, v, t
<1>9. CASE Stops(b) /\ UNCHANGED backtests
  <2>1. IsTask(Sleeping, backtests) /\ ~AtWork(Sleeping)
    BY DEF IsTask, Sleeping, AtWork
  <2> QED
    BY <1>1, <1>9, <2>1, TaskAdvances DEF Stops
<1>10. CASE /\ At(r.outcomes, o.cutoff) \in {{}, {v}}
            /\ backtests' = [backtests EXCEPT ![K].outcomes = @ \cup {v}, ![K].cutoff = k]
            /\ Goes(b, t)
  <2>1. backtests' = [backtests EXCEPT ![K] = s]
    <3>1. r = [status |-> r.status, observations |-> r.observations, outcomes |-> r.outcomes,
               cutoff |-> r.cutoff]
      BY <1>2 DEF IsRun
    <3> QED
      BY <1>2, <1>3, <1>10, <3>1
  <2>2. /\ s.observations = r.observations /\ s.outcomes = r.outcomes \cup {v}
        /\ s.status = r.status /\ s.cutoff = k
        /\ s = [status |-> s.status, observations |-> s.observations, outcomes |-> s.outcomes,
                cutoff |-> s.cutoff]
    <3>1. s = [status |-> r.status, observations |-> r.observations,
               outcomes |-> r.outcomes \cup {v}, cutoff |-> k]
      BY <1>2, OutcomesAndCutoff
    <3> QED
      BY <3>1
  <2> HIDE DEF s
  <2>3. IsRun(s)
    BY <1>2, <1>4, <2>2 DEF IsRun
  <2>4. K \in DOMAIN backtests' /\ backtests'[K] = s
    BY <1>2, <2>1
  <2>5. IsTask(t, backtests')
    BY <1>4, <1>7, <2>2, <2>4 DEF IsTask
  <2>6. ASSUME "bar" \notin late
        PROVE  Keeps(r, s) /\ Coherent(s, MemberCutoffs) /\ InStep(t, s, MemberCutoffs)
    <3>1. r.status # "planned"
      BY <1>1, <1>8, <2>6 DEF InStep
    <3>2. r.outcomes # {} => r.cutoff = k
      <4>1. CASE Taken(r, k)
        BY <4>1 DEF Taken
      <4>2. CASE builder[b].left = r.observations
        <5> SUFFICES ASSUME r.outcomes # {}
                     PROVE  r.cutoff = k
          OBVIOUS
        <5>1. PICK q \in r.observations : /\ \A p \in r.observations : q.cutoff <= p.cutoff
                                          /\ At(r.outcomes, q.cutoff) # {}
          BY <1>8, <2>6 DEF Coherent
        <5>2. q.cutoff = o.cutoff
          <6>1. q.cutoff \in Nat /\ o.cutoff \in Nat
            BY <1>2, <1>4, <1>5, CutoffsAscend DEF IsRun
          <6> QED
            BY <1>5, <4>2, <5>1, <6>1
        <5>3. v \in r.outcomes
          BY <1>10, <5>1, <5>2 DEF At
        <5> QED
          BY <1>6, <1>8, <2>6, <5>3 DEF Coherent
      <4> QED
        BY <1>1, <1>8, <2>6, <4>1, <4>2 DEF InStep, k
    <3>3. Keeps(r, s)
      BY <2>2, <3>1, <3>2 DEF Keeps
    <3>4. Taken(s, k)
      BY <2>2 DEF Taken
    <3>5. InStep(t, s, MemberCutoffs)
      BY <1>7, <2>2, <3>1, <3>4 DEF InStep
    <3>6. Coherent(s, MemberCutoffs)
      <4>1. AllSeen(s, MemberCutoffs)
        BY <1>8, <2>2, <2>6, <3>1 DEF Coherent, AllSeen, Seen
      <4>2. \A w \in s.outcomes : w.dataCutoff = k
        BY <1>6, <1>8, <2>2, <2>6, <3>2 DEF Coherent
      <4>3. \E q \in r.observations : /\ \A p \in r.observations : q.cutoff <= p.cutoff
                                      /\ At(s.outcomes, q.cutoff) # {}
        <5>1. CASE r.outcomes # {}
          <6>1. PICK q \in r.observations : /\ \A p \in r.observations : q.cutoff <= p.cutoff
                                            /\ At(r.outcomes, q.cutoff) # {}
            BY <1>8, <2>6, <5>1 DEF Coherent
          <6>2. At(s.outcomes, q.cutoff) # {}
            BY <2>2, <6>1 DEF At
          <6> QED
            BY <6>1, <6>2
        <5>2. CASE r.outcomes = {}
          <6>1. builder[b].left = r.observations
            BY <1>1, <1>8, <2>6, <5>2 DEF InStep, Taken
          <6>2. At(s.outcomes, o.cutoff) # {}
            BY <1>6, <2>2 DEF At
          <6> QED
            BY <1>5, <6>1, <6>2
        <5> QED
          BY <5>1, <5>2
      <4> QED
        BY <2>2, <3>1, <4>1, <4>2, <4>3 DEF Coherent
    <3> QED
      BY <3>3, <3>5, <3>6
  <2> QED
    BY <1>1, <1>2, <1>3, <1>7, <1>10, <2>1, <2>2, <2>3, <2>5, <2>6, RunAdvances
<1> QED
  BY <1>1, <1>9, <1>10

LEMMA SummarizeStep ==
    ASSUME EvInv, NEW key \in DOMAIN backtests, Summarize(key)
    PROVE  EvInv' /\ RunsFrozen
<1> DEFINE r == backtests[key]
           s == [r EXCEPT !.status = "completed"]
<1>1. /\ r.status = "outcomes_built" /\ UNCHANGED <<arrived, late, builder>>
      /\ backtests' = [backtests EXCEPT ![key].status = "completed"]
  BY DEF Summarize
<1>2. IsRun(r)
  BY DEF EvInv, EvTyped
<1>3. backtests' = [backtests EXCEPT ![key] = s]
  BY <1>1
<1>4. /\ s.observations = r.observations /\ s.outcomes = r.outcomes
      /\ s.status = "completed" /\ s.cutoff = r.cutoff
      /\ s = [status |-> s.status, observations |-> s.observations, outcomes |-> s.outcomes,
              cutoff |-> s.cutoff]
  BY <1>2 DEF IsRun
<1> HIDE DEF s
<1>5. IsRun(s)
  BY <1>2, <1>4 DEF IsRun, RunStatus
<1>6. ASSUME "bar" \notin late
      PROVE  Keeps(r, s) /\ Coherent(s, MemberCutoffs)
  <2>1. Coherent(r, MemberCutoffs)
    BY <1>6 DEF EvInv, EvOnTime, OnTime
  <2> QED
    BY <1>1, <1>4, <2>1 DEF Keeps, Coherent, AllSeen, Seen
<1>7. builder' = [c \in Builder |-> builder'[c]] /\ \A c \in Builder : builder'[c] = builder[c]
  BY <1>1 DEF EvInv, EvTyped
<1> QED
  BY <1>1, <1>3, <1>4, <1>5, <1>6, <1>7, RunMoves

LEMMA LabelsStep ==
    ASSUME EvInv, NEW b \in Builder, NEW key \in DOMAIN backtests, NEW cutoff \in LabelCutoff,
           BeginLabels(b, key, cutoff)
    PROVE  EvInv' /\ RunsFrozen
<1> DEFINE t == [step |-> "labels", key |-> key, cutoff |-> cutoff,
                 state |-> OutcomeSourceState(cutoff),
                 of |-> {o.cutoff : o \in backtests[key].observations}]
<1>1. Goes(b, t) /\ UNCHANGED <<arrived, late, backtests>>
  BY DEF BeginLabels
<1>2. /\ t = [step |-> "labels", key |-> t.key, cutoff |-> t.cutoff, state |-> t.state, of |-> t.of]
      /\ t.step = "labels" /\ t.key = key /\ t.cutoff = cutoff
      /\ t.of = {o.cutoff : o \in backtests[key].observations}
  OBVIOUS
<1> HIDE DEF t
<1>3. t.of \subseteq CutoffSet
  <2>1. IsRun(backtests[key])
    BY DEF EvInv, EvTyped
  <2> QED
    BY <1>2, <2>1 DEF IsRun, CutoffSet
<1>4. IsTask(t, backtests) /\ ~AtWork(t)
  BY <1>2, <1>3 DEF IsTask, AtWork
<1> QED
  BY <1>1, <1>4, TaskAdvances

LEMMA RestStep ==
    ASSUME EvInv, NEW b \in Builder, Stops(b), UNCHANGED <<arrived, late, backtests>>
    PROVE  EvInv' /\ RunsFrozen
<1>1. IsTask(Sleeping, backtests) /\ ~AtWork(Sleeping)
  BY DEF IsTask, Sleeping, AtWork
<1> QED
  BY <1>1, TaskAdvances DEF Stops

\* Every step keeps the invariant, and freezes what has been committed.
LEMMA EvaluationKept == EvInv /\ [EvaluationNext]_evVars => EvInv' /\ RunsFrozen
<1> SUFFICES ASSUME EvInv, [EvaluationNext]_evVars
             PROVE  EvInv' /\ RunsFrozen
  OBVIOUS
<1>1. ASSUME NEW b \in Builder, Builds(b)
      PROVE  EvInv' /\ RunsFrozen
  <2>1. CASE BeginDataset(b) \/ Exclude(b)
    BY <2>1, BeginDatasetStep, ExcludeStep
  <2>2. CASE Research(b)
    <3>1. \E result, created : Freezes(b, result, created)
      BY <2>2 DEF Research
    <3> QED
      BY <2>2, <3>1, FreezesStep DEF Research
  <2>3. CASE ResearchFails(b)
    BY <2>3, FreezesStep DEF ResearchFails
  <2>4. CASE FreezeObservation(b) \/ FinishDataset(b) \/ CommitStatus(b)
    BY <2>4, FreezeObservationStep, FinishDatasetStep, CommitStatusStep
  <2>5. CASE FreezeOutcome(b) \/ FinishOutcomes(b)
    BY <2>5, FreezeOutcomeStep, FinishOutcomesStep
  <2>6. CASE CommitLabels(b)
    BY <2>6, RestStep DEF CommitLabels
  <2>7. CASE Die(b)
    BY <2>7, RestStep DEF Die
  <2>8. ASSUME NEW key \in DOMAIN backtests, NEW cutoff \in ReturnCutoff, BeginOutcomes(b, key, cutoff)
        PROVE  EvInv' /\ RunsFrozen
    BY <2>8, BeginOutcomesStep
  <2>9. ASSUME NEW key \in DOMAIN backtests, NEW cutoff \in LabelCutoff, BeginLabels(b, key, cutoff)
        PROVE  EvInv' /\ RunsFrozen
    BY <2>9, LabelsStep
  <2> QED
    BY <1>1, <2>1, <2>2, <2>3, <2>4, <2>5, <2>6, <2>7, <2>8, <2>9 DEF Builds
<1>2. ASSUME NEW lk, NEW cutoffs, Evaluate(lk, cutoffs)
      PROVE  EvInv' /\ RunsFrozen
  BY <1>2, StayPut DEF Evaluate
<1>3. ASSUME NEW e, BuildSplit(e)
      PROVE  EvInv' /\ RunsFrozen
  BY <1>3, StayPut DEF BuildSplit
<1>4. CASE UNCHANGED evVars
  BY <1>4, StayPut DEF evVars
<1> QED
  BY <1>1, <1>2, <1>3, <1>4, ArriveStep, SummarizeStep DEF EvaluationNext

LEMMA EvaluationStarts == EvaluationInit => EvInv
<1> SUFFICES ASSUME EvaluationInit
             PROVE  EvInv
  OBVIOUS
<1>1. backtests = << >> /\ builder = [b \in Builder |-> Sleeping]
  BY DEF EvaluationInit
<1>2. DOMAIN backtests = {} /\ backtests = [key \in DOMAIN backtests |-> backtests[key]]
  BY <1>1
<1>3. \A b \in Builder : builder[b] = Sleeping /\ ~AtWork(builder[b])
  BY <1>1 DEF AtWork, Sleeping
<1>4. EvTyped
  BY <1>1, <1>2, <1>3 DEF EvTyped, IsTask
<1> QED
  BY <1>2, <1>3, <1>4 DEF EvInv, EvOnTime, OnTime

THEOREM EvaluationInvariant == EvaluationSpec => []EvInv
<1>1. EvInv /\ [EvaluationNext]_evVars => EvInv'
  BY EvaluationKept
<1> QED
  BY <1>1, EvaluationStarts, PTL DEF EvaluationSpec

-----------------------------------------------------------------------------
(* Labels, evaluations and splits, which are only ever added.              *)

\* Labels were given to cutoffs, from facts.
IsLabelRun(lk, run) ==
    /\ lk.cutoff \in LabelCutoff
    /\ \E F \in SUBSET UNION {Content[a] : a \in Shipment}, cutoffs \in SUBSET CutoffSet :
          run = Labels(F, cutoffs, lk.cutoff)

\* Whatever refers to a row refers to one that is there.
LabelInv ==
    /\ \A lk \in DOMAIN labelRuns : IsLabelRun(lk, labelRuns[lk])
    /\ \A e \in evaluations : e.labels \in DOMAIN labelRuns /\ e.cutoffs \subseteq DOMAIN labelRuns[e.labels]
    /\ \A s \in splits : s.evaluation \in evaluations /\ s = Partition(s.evaluation)
    /\ arrived \subseteq Shipment
    /\ late \subseteq {"bar", "session", "action", "filing", "listing"}

LEMMA LabelsKept ==
    EvInv /\ LabelInv /\ [EvaluationNext]_evVars => LabelInv' /\ Sub(labelRuns, labelRuns')
<1> SUFFICES ASSUME EvInv, LabelInv, [EvaluationNext]_evVars
             PROVE  LabelInv' /\ Sub(labelRuns, labelRuns')
  OBVIOUS
<1> DEFINE Stay == UNCHANGED <<labelRuns, evaluations, splits, arrived, late>>
<1>1. ASSUME Stay
      PROVE  LabelInv' /\ Sub(labelRuns, labelRuns')
  BY <1>1 DEF LabelInv, Sub
<1>2. ASSUME NEW a \in Shipment, Arrive(a)
      PROVE  LabelInv' /\ Sub(labelRuns, labelRuns')
  <2>1. /\ UNCHANGED <<labelRuns, evaluations, splits>> /\ arrived' = arrived \cup {a}
        /\ late' = late \cup {f.kind : f \in {g \in Content[a] :
                                \E k \in UsedCutoffs : g.kind = "listing" \/ g.available <= k}}
    BY <1>2 DEF Arrive
  <2>2. \A f \in Content[a] : f.kind \in {"bar", "session", "action", "filing", "listing"}
    BY HistoricalEvaluationAssumption
  <2>3. late' \subseteq {"bar", "session", "action", "filing", "listing"}
    BY <2>1, <2>2 DEF LabelInv
  <2> QED
    BY <2>1, <2>3 DEF LabelInv, Sub
<1>3. ASSUME NEW b \in Builder, CommitLabels(b)
      PROVE  LabelInv' /\ Sub(labelRuns, labelRuns')
  <2> DEFINE lk == LabelKey(builder[b].key, builder[b].cutoff, builder[b].state)
             run == Labels(Facts, builder[b].of, lk.cutoff)
  <2>1. /\ UNCHANGED <<evaluations, splits, arrived, late>> /\ builder[b].step = "labels"
        /\ labelRuns' = IF lk \in DOMAIN labelRuns THEN labelRuns ELSE Put(labelRuns, lk, run)
    BY <1>3 DEF CommitLabels, Step
  <2>2. CASE lk \in DOMAIN labelRuns
    BY <1>1, <2>1, <2>2
  <2>3. CASE lk \notin DOMAIN labelRuns
    <3>1. IsLabelRun(lk, run)
      <4>1. IsTask(builder[b], backtests)
        BY <2>1, AtStep
      <4>2. builder[b].cutoff \in LabelCutoff /\ builder[b].of \subseteq CutoffSet
        BY <2>1, <4>1 DEF IsTask, Sleeping
      <4>3. lk.cutoff = builder[b].cutoff
        BY DEF LabelKey
      <4>4. Facts \subseteq UNION {Content[a] : a \in Shipment}
        BY DEF Facts, LabelInv
      <4> QED
        BY <4>2, <4>3, <4>4 DEF IsLabelRun
    <3> HIDE DEF lk, run
    <3>2. /\ Sub(labelRuns, labelRuns') /\ DOMAIN labelRuns' = DOMAIN labelRuns \cup {lk}
          /\ labelRuns'[lk] = run
      <4>1. labelRuns' = Put(labelRuns, lk, run)
        BY <2>1, <2>3
      <4> QED
        BY ONLY <2>3, <4>1 DEF Put, Sub
    <3> QED
      BY <2>1, <3>1, <3>2 DEF LabelInv, Sub
  <2> QED
    BY <2>2, <2>3
<1>4. ASSUME NEW lk \in DOMAIN labelRuns, NEW cutoffs \in SUBSET DOMAIN labelRuns[lk],
             Evaluate(lk, cutoffs)
      PROVE  LabelInv' /\ Sub(labelRuns, labelRuns')
  <2>1. /\ UNCHANGED <<labelRuns, splits, arrived, late>>
        /\ evaluations' = evaluations \cup {[labels |-> lk, cutoffs |-> cutoffs]}
    BY <1>4 DEF Evaluate
  <2> QED
    BY <2>1 DEF LabelInv, Sub
<1>5. ASSUME NEW e \in evaluations, BuildSplit(e)
      PROVE  LabelInv' /\ Sub(labelRuns, labelRuns')
  <2>1. /\ UNCHANGED <<labelRuns, evaluations, arrived, late>>
        /\ splits' = splits \cup {Partition(e)}
    BY <1>5 DEF BuildSplit
  <2>2. Partition(e).evaluation = e
    BY DEF Partition
  <2> QED
    BY <2>1, <2>2 DEF LabelInv, Sub
<1>6. ASSUME NEW b \in Builder, Builds(b)
      PROVE  LabelInv' /\ Sub(labelRuns, labelRuns')
  <2>1. Stay \/ CommitLabels(b)
    BY <1>6 DEF Builds, BeginDataset, Exclude, Research, ResearchFails, FreezeObservation,
                FinishDataset, CommitStatus, FreezeOutcome, FinishOutcomes, Die, BeginOutcomes,
                BeginLabels
  <2> QED
    BY <1>1, <1>3, <2>1
<1>7. ASSUME NEW key, Summarize(key)
      PROVE  Stay
  BY <1>7 DEF Summarize
<1>8. UNCHANGED evVars => Stay
  BY DEF evVars
<1> HIDE DEF Stay
<1> QED
  BY <1>1, <1>2, <1>4, <1>5, <1>6, <1>7, <1>8 DEF EvaluationNext

LEMMA LabelsStart == EvaluationInit => LabelInv
  BY HistoricalEvaluationAssumption DEF EvaluationInit, LabelInv

THEOREM LabelInvariant == EvaluationSpec => []LabelInv
<1>1. EvInv /\ LabelInv /\ [EvaluationNext]_evVars => LabelInv'
  BY LabelsKept
<1> QED
  BY <1>1, LabelsStart, EvaluationInvariant, PTL DEF EvaluationSpec

\* Type correctness of the historical evaluation.
THEOREM EvaluationTyped == EvaluationSpec => []EvaluationTypeOK
<1>1. EvInv /\ LabelInv => EvaluationTypeOK
  <2> SUFFICES ASSUME EvInv, LabelInv
               PROVE  EvaluationTypeOK
    OBVIOUS
  <2>1. DOMAIN builder = Builder
    BY DEF EvInv, EvTyped
  <2> QED
    BY <2>1 DEF EvInv, EvTyped, IsRun, RunStatus, LabelInv, EvaluationTypeOK
<1> QED
  BY <1>1, EvaluationInvariant, LabelInvariant, PTL

\* Whatever dies, overlaps or arrives, what is committed stays as it is, and a run whose
\* snapshots are built gains none and has outcomes of one cutoff, unless prices came late
\* (backtest_dataset, backtest_outcomes, historical_evaluation_repository).
THEOREM RunsStayFrozen == EvaluationSpec => FrozenOnceBuilt
<1>1. EvInv /\ LabelInv /\ [EvaluationNext]_evVars =>
         [ /\ Sub(labelRuns, labelRuns')
           /\ DOMAIN backtests \subseteq DOMAIN backtests'
           /\ \A key \in DOMAIN backtests :
                 LET run == backtests[key]
                     next == backtests'[key]
                 IN /\ run.observations \subseteq next.observations
                    /\ run.outcomes \subseteq next.outcomes
                    /\ "bar" \notin late /\ run.status # "planned" =>
                          /\ next.observations = run.observations
                          /\ \A o \in next.outcomes : o.dataCutoff = next.cutoff
         ]_evVars
  <2> SUFFICES ASSUME EvInv, LabelInv, [EvaluationNext]_evVars
               PROVE  Sub(labelRuns, labelRuns') /\ RunsFrozen
    BY DEF RunsFrozen
  <2> QED
    BY EvaluationKept, LabelsKept
<1> QED
  BY <1>1, EvaluationInvariant, LabelInvariant, PTL DEF EvaluationSpec, FrozenOnceBuilt

-----------------------------------------------------------------------------
(* The temporal split.                                                     *)

\* A finite set of numbers that is not empty has a greatest one.
LEMMA GreatestOf ==
    ASSUME NEW S \in SUBSET Nat, S # {}, IsFiniteSet(S)
    PROVE  \E n \in S : \A m \in S : m <= n
<1> DEFINE Has(T) == \E n \in T : \A m \in T : m <= n
           Bad == {n \in Nat : \E T \in SUBSET S : T # {} /\ Cardinality(T) = n /\ ~Has(T)}
<1>1. \A T \in SUBSET S : IsFiniteSet(T) /\ Cardinality(T) \in Nat
  BY FS_Subset, FS_CardinalityType
<1>2. SUFFICES ASSUME Bad # {}
               PROVE  FALSE
  <2>1. Bad = {} => Has(S)
    BY <1>1
  <2> QED
    BY <1>2, <2>1
<1>3. PICK n \in Bad : \A m \in Bad : n <= m
  BY <1>2, LeastOf
<1>4. PICK T \in SUBSET S : T # {} /\ Cardinality(T) = n /\ ~Has(T)
  OBVIOUS
<1>5. PICK x \in T : TRUE
  BY <1>4
<1> DEFINE U == T \ {x}
<1>6. Cardinality(U) = n - 1 /\ n \in Nat /\ Cardinality(U) \in Nat
  BY <1>1, <1>4, <1>5, FS_RemoveElement
<1>7. U # {}
  BY <1>4, <1>5
<1>8. Has(U)
  <2>1. Cardinality(U) \notin Bad
    BY <1>3, <1>6
  <2> HIDE DEF Has
  <2> QED
    BY <1>6, <1>7, <2>1
<1>9. PICK y \in U : \A m \in U : m <= y
  BY <1>8
<1>10. x \in Nat /\ y \in Nat /\ \A m \in T : m \in Nat /\ (m = x \/ m \in U)
  BY <1>4, <1>5, <1>9
<1>11. CASE x <= y
  BY <1>4, <1>9, <1>10, <1>11
<1>12. CASE y <= x
  <2>1. \A m \in T : m <= x
    BY <1>9, <1>10, <1>12
  <2> QED
    BY <1>4, <1>5, <2>1
<1> QED
  BY <1>10, <1>11, <1>12

Ascends(s) == \A i, j \in DOMAIN s : i < j => s[i] < s[j]

\* A finite set of numbers can be put in order.
LEMMA CanBeOrdered ==
    ASSUME NEW S \in SUBSET Nat, IsFiniteSet(S)
    PROVE  \E s \in [1..Cardinality(S) -> S] : Ascends(s)
<1> DEFINE Has(T) == \E s \in [1..Cardinality(T) -> T] : Ascends(s)
           Bad == {n \in Nat : \E T \in SUBSET S : Cardinality(T) = n /\ ~Has(T)}
<1>1. \A T \in SUBSET S : IsFiniteSet(T) /\ Cardinality(T) \in Nat
  BY FS_Subset, FS_CardinalityType
<1>2. SUFFICES ASSUME Bad # {}
               PROVE  FALSE
  <2>1. Bad = {} => Has(S)
    BY <1>1
  <2> QED
    BY <1>2, <2>1
<1>3. PICK n \in Bad : \A m \in Bad : n <= m
  BY <1>2, LeastOf
<1>4. PICK T \in SUBSET S : Cardinality(T) = n /\ ~Has(T)
  OBVIOUS
<1>5. CASE T = {}
  <2>1. Cardinality(T) = 0
    BY <1>5, FS_EmptySet
  <2> DEFINE s == [i \in 1..0 |-> i]
  <2>2. s \in [1..0 -> T] /\ Ascends(s)
    BY DEF Ascends
  <2> QED
    BY <1>4, <2>1, <2>2
<1>6. CASE T # {}
  <2>1. PICK x \in T : \A m \in T : x <= m
    BY <1>6, LeastOf
  <2> DEFINE U == T \ {x}
  <2>2. Cardinality(U) = n - 1 /\ n \in Nat /\ Cardinality(U) \in Nat
    BY <1>1, <1>4, <2>1, FS_RemoveElement
  <2>3. Has(U)
    <3>1. Cardinality(U) \notin Bad
      BY <1>3, <2>2
    <3> HIDE DEF Has
    <3> QED
      BY <2>2, <3>1
  <2>4. PICK u \in [1..(n - 1) -> U] : Ascends(u)
    BY <2>2, <2>3
  <2> DEFINE s == [i \in 1..n |-> IF i = 1 THEN x ELSE u[i - 1]]
  <2>5. \A i \in 1..n : i # 1 => i - 1 \in 1..(n - 1) /\ u[i - 1] \in U
    BY <2>2, <2>4
  <2>6. s \in [1..n -> T]
    BY <2>1, <2>5
  <2>7. \A m \in U : x < m
    BY <2>1
  <2>8. ASSUME NEW i \in 1..n, NEW j \in 1..n, i < j
        PROVE  s[i] < s[j]
    <3>1. j # 1 /\ j - 1 \in 1..(n - 1) /\ u[j - 1] \in U /\ s[j] = u[j - 1]
      BY <2>2, <2>5, <2>8
    <3>2. CASE i = 1
      BY <2>7, <3>1, <3>2
    <3>3. CASE i # 1
      <4>1. i - 1 \in 1..(n - 1) /\ i - 1 < j - 1 /\ s[i] = u[i - 1]
        BY <2>2, <2>5, <2>8, <3>3
      <4>2. DOMAIN u = 1..(n - 1)
        BY <2>4
      <4> HIDE DEF s
      <4> QED
        BY <2>4, <3>1, <4>1, <4>2 DEF Ascends
    <3> QED
      BY <3>2, <3>3
  <2>9. DOMAIN s = 1..n
    OBVIOUS
  <2> HIDE DEF s
  <2>10. Ascends(s)
    BY <2>8, <2>9 DEF Ascends
  <2> QED
    BY <1>4, <2>6, <2>10
<1> QED
  BY <1>5, <1>6

LEMMA InOrderIs ==
    ASSUME NEW S \in SUBSET Nat, IsFiniteSet(S)
    PROVE  InOrder(S) \in [1..Cardinality(S) -> S] /\ Ascends(InOrder(S))
<1>1. \E s \in [1..Cardinality(S) -> S] : \A i, j \in DOMAIN s : i < j => s[i] < s[j]
  BY CanBeOrdered DEF Ascends
<1> QED
  BY <1>1 DEF InOrder, Ascends

\* Two integer shares of a whole do not exceed it.
LEMMA SharesFit ==
    ASSUME NEW n \in Nat, NEW p \in 0..100, NEW q \in 0..(100 - p)
    PROVE  /\ (n * p) \div 100 \in Nat /\ (n * q) \div 100 \in Nat
           /\ (n * p) \div 100 + (n * q) \div 100 <= n
<1>1. n * p \in Nat /\ n * q \in Nat /\ n * p + n * q <= n * 100
  <2>1. n * p + n * q = n * (p + q)
    OBVIOUS
  <2>2. p + q \in 0..100
    OBVIOUS
  <2>3. \A x \in 0..100 : n * x <= n * 100
    OBVIOUS
  <2> QED
    BY <2>1, <2>2, <2>3
<1>2. \A a, b \in Nat : a + b <= n * 100 => a \div 100 + b \div 100 <= n /\ a \div 100 \in Nat
  OBVIOUS
<1> QED
  BY <1>1, <1>2

LEMMA LongestIs == LongestHorizon \in Nat /\ \A c \in Contract : c.years <= LongestHorizon
<1> DEFINE Y == {c.years : c \in Contract}
           f == [c \in Contract |-> c.years]
<1>1. Y \in SUBSET Nat /\ Y # {}
  BY HistoricalEvaluationAssumption
<1>2. IsFiniteSet(Y)
  <2>1. f \in Surjection(Contract, Y)
    BY DEF Surjection
  <2> QED
    BY <2>1, HistoricalEvaluationAssumption, FS_Surjection
<1>3. \E n \in Y : \A m \in Y : m <= n
  BY <1>1, <1>2, GreatestOf
<1>4. \E n \in Y : \A m \in Y : n >= m
  BY <1>1, <1>3
<1>5. LongestHorizon = CHOOSE n \in Y : \A m \in Y : n >= m
  BY DEF LongestHorizon, Max
<1> HIDE DEF Y
<1>6. LongestHorizon \in Y /\ \A m \in Y : LongestHorizon >= m
  BY <1>4, <1>5
<1> QED
  BY <1>1, <1>6 DEF Y

LEMMA CutoffSetIs == CutoffSet \in SUBSET Nat /\ \A S \in SUBSET CutoffSet : IsFiniteSet(S)
<1>1. CutoffSet \in SUBSET Nat /\ RunEnd \in Nat /\ \A k \in CutoffSet : k <= RunEnd
  BY CutoffsAscend DEF CutoffSet
<1>2. IsFiniteSet(CutoffSet)
  BY <1>1, FS_BoundedSetOfNaturals
<1> QED
  BY <1>1, <1>2, FS_Subset

\* A label whose window is over is not one that waits for it.
LEMMA WindowOver ==
    ASSUME NEW F \in SUBSET UNION {Content[a] : a \in Shipment}, NEW k \in Nat,
           NEW c \in Contract, NEW cutoff \in Nat, k + c.years <= cutoff
    PROVE  MultibaggerLabel(F, k, c, cutoff).class # "unmatured"
<1> DEFINE entry == CHOOSE b \in Entries(F, k) : TRUE
<1>1. CASE Entries(F, k) = {}
  BY <1>1 DEF MultibaggerLabel, UnsettledAs
<1>2. CASE Entries(F, k) # {}
  <2>1. entry \in Entries(F, k)
    BY <1>2
  <2>2. entry \in F /\ entry.kind = "bar" /\ entry.date <= k
    BY <2>1 DEF Entries, SeriesAsOf, Visible, OfKind
  <2>3. entry.date \in Nat /\ c.years \in Nat
    BY <2>2, HistoricalEvaluationAssumption
  <2>4. ~(cutoff < entry.date + c.years)
    BY <2>2, <2>3
  <2> QED
    BY <2>4 DEF MultibaggerLabel, UnsettledAs
<1> QED
  BY <1>1, <1>2

LEMMA SequenceIs ==
    ASSUME NEW T, NEW n \in Nat, NEW f \in [1..n -> T]
    PROVE  f \in Seq(T) /\ Len(f) = n
  OBVIOUS

\* A sequence has the n elements of E that follow the first m of them.
IsPart(u, E, m, n) == u \in Seq(Nat) /\ Len(u) = n /\ \A i \in 1..n : u[i] = E[m + i]

LEMMA JoinedIs ==
    ASSUME NEW u, NEW v, NEW E, NEW m \in Nat, NEW n \in Nat, IsPart(u, E, 0, m), IsPart(v, E, m, n)
    PROVE  IsPart(u \o v, E, 0, m + n)
<1>0. /\ u \in Seq(Nat) /\ v \in Seq(Nat) /\ Len(u) = m /\ Len(v) = n
      /\ \A i \in 1..m : u[i] = E[i]
      /\ \A i \in 1..n : v[i] = E[m + i]
  BY DEF IsPart
<1>1. /\ u \o v \in Seq(Nat) /\ Len(u \o v) = m + n
      /\ \A i \in 1..(m + n) : (u \o v)[i] = IF i <= m THEN u[i] ELSE v[i - m]
  BY ZenonT(30), <1>0, ConcatProperties
<1> DEFINE w == u \o v
<1> HIDE DEF w
<1>2. ASSUME NEW i \in 1..(m + n)
      PROVE  w[i] = E[i]
  <2>1. CASE i <= m
    BY <1>0, <1>1, <2>1 DEF w
  <2>2. CASE ~(i <= m)
    <3>1. i - m \in 1..n /\ m + (i - m) = i
      BY <2>2
    <3> QED
      BY <1>0, <1>1, <2>2, <3>1 DEF w
  <2> QED
    BY <2>1, <2>2
<1> QED
  BY <1>1, <1>2 DEF w, IsPart

LEMMA PartsAreWhole ==
    ASSUME NEW E \in Seq(Nat), NEW n \in Nat, Len(E) = n, NEW a \in Nat, NEW b \in Nat, a + b <= n,
           NEW D, NEW V, NEW H, D = SubSeq(E, 1, a), V = SubSeq(E, a + 1, a + b),
           H = SubSeq(E, a + b + 1, n)
    PROVE  IsPart(D \o V \o H, E, 0, n)
<1>1. IsPart(D, E, 0, a)
  BY DEF IsPart
<1>2. IsPart(V, E, a, b)
  BY DEF IsPart
<1> DEFINE m == a + b
           k == n - (a + b)
<1>3. IsPart(H, E, m, k)
  BY DEF IsPart
<1>4. m \in Nat /\ k \in Nat /\ m + k = n
  OBVIOUS
<1>5. IsPart(D \o V, E, 0, m)
  BY <1>1, <1>2, JoinedIs
<1> HIDE DEF m, k
<1>6. IsPart(D \o V \o H, E, 0, m + k)
  BY <1>3, <1>4, <1>5, JoinedIs
<1> QED
  BY <1>4, <1>6

LEMMA SplitOfMature ==
    ASSUME LabelInv, NEW s \in splits
    PROVE  LET order == s.development \o s.validation \o s.holdout
               lk == s.evaluation.labels
           IN /\ \A i, j \in DOMAIN order : i < j => order[i] < order[j]
              /\ \A i \in DOMAIN order, c \in Contract :
                    labelRuns[lk][order[i]][c].class # "unmatured"
<1> DEFINE e == s.evaluation
           lk == e.labels
           S == {k \in e.cutoffs : k + LongestHorizon <= lk.cutoff}
           E == Eligible(e)
           n == Len(E)
           a == (n * DevelopmentPercent) \div 100
           b == (n * ValidationPercent) \div 100
           order == s.development \o s.validation \o s.holdout
<1>1. /\ e \in evaluations /\ s = Partition(e)
      /\ lk \in DOMAIN labelRuns /\ e.cutoffs \subseteq DOMAIN labelRuns[lk]
      /\ IsLabelRun(lk, labelRuns[lk])
  BY DEF LabelInv
<1>2. PICK F \in SUBSET UNION {Content[q] : q \in Shipment}, cutoffs \in SUBSET CutoffSet :
         labelRuns[lk] = Labels(F, cutoffs, lk.cutoff)
  BY <1>1 DEF IsLabelRun
<1>3. lk.cutoff \in Nat
  BY <1>1, HistoricalEvaluationAssumption DEF IsLabelRun
<1>4. DOMAIN labelRuns[lk] = cutoffs
  BY <1>2 DEF Labels
<1>5. S \in SUBSET cutoffs /\ S \in SUBSET Nat /\ IsFiniteSet(S)
  BY <1>1, <1>4, CutoffSetIs
<1>6. E \in [1..Cardinality(S) -> S] /\ Ascends(E) /\ Cardinality(S) \in Nat
  BY <1>5, InOrderIs, FS_CardinalityType DEF Eligible
<1>7. E \in Seq(Nat) /\ n = Cardinality(S) /\ n \in Nat /\ DOMAIN E = 1..n
  <2>1. E \in [1..Cardinality(S) -> Nat]
    BY <1>5, <1>6
  <2> HIDE DEF E, S
  <2>2. E \in Seq(Nat) /\ n = Cardinality(S)
    BY <1>6, <2>1, SequenceIs
  <2> QED
    BY <1>6, <2>1, <2>2
<1>8. a \in Nat /\ b \in Nat /\ a + b <= n
  BY <1>7, SharesFit, HistoricalEvaluationAssumption
<1>9. /\ s.development = SubSeq(E, 1, a) /\ s.validation = SubSeq(E, a + 1, a + b)
      /\ s.holdout = SubSeq(E, a + b + 1, n)
  BY <1>1 DEF Partition
<1>10. DOMAIN order = 1..n /\ \A i \in 1..n : order[i] = E[i]
  <2> HIDE DEF E, a, b, e
  <2>1. Len(E) = n
    OBVIOUS
  <2> HIDE DEF n
  <2>2. \A D, V, H : D = SubSeq(E, 1, a) /\ V = SubSeq(E, a + 1, a + b) /\ H = SubSeq(E, a + b + 1, n)
           => IsPart(D \o V \o H, E, 0, n)
    BY <1>7, <1>8, <2>1, PartsAreWhole
  <2>3. IsPart(order, E, 0, n)
    BY <1>9, <2>2
  <2> HIDE DEF order
  <2> QED
    BY <1>7, <2>3 DEF IsPart
<1> HIDE DEF E, n, a, b, order
<1>11. \A i, j \in DOMAIN order : i < j => order[i] < order[j]
  BY <1>6, <1>7, <1>10 DEF Ascends
<1>12. ASSUME NEW i \in DOMAIN order, NEW c \in Contract
       PROVE  labelRuns[lk][order[i]][c].class # "unmatured"
  <2>1. order[i] \in S
    BY <1>6, <1>7, <1>10
  <2> DEFINE k == order[i]
  <2>2. k \in cutoffs /\ k \in Nat /\ k + LongestHorizon <= lk.cutoff
    BY <1>5, <2>1
  <2> HIDE DEF k
  <2>3. k + c.years <= lk.cutoff
    <3>1. c.years \in Nat
      BY HistoricalEvaluationAssumption
    <3> QED
      BY <1>3, <2>2, <3>1, LongestIs
  <2>4. labelRuns[lk][k][c] = MultibaggerLabel(F, k, c, lk.cutoff)
    BY <1>2, <2>2 DEF Labels
  <2>5. MultibaggerLabel(F, k, c, lk.cutoff).class # "unmatured"
    BY <1>3, <2>2, <2>3, WindowOver
  <2> QED
    BY <2>4, <2>5 DEF k
<1> QED
  BY <1>11, <1>12 DEF order

\* The cohorts of a split are in the order of their cutoffs, and no label of theirs still
\* waits for its window (partition_temporal_cutoffs, multibagger_labels).
THEOREM SplitsAreMature == EvaluationSpec => []SplitIsMature
<1>1. LabelInv => SplitIsMature
  <2> SUFFICES ASSUME LabelInv, NEW s \in splits
               PROVE  LET order == s.development \o s.validation \o s.holdout
                          lk == s.evaluation.labels
                      IN /\ \A i, j \in DOMAIN order : i < j => order[i] < order[j]
                         /\ \A i \in DOMAIN order, c \in Contract :
                               labelRuns[lk][order[i]][c].class # "unmatured"
    BY DEF SplitIsMature
  <2> QED
    BY SplitOfMature
<1> QED
  BY <1>1, LabelInvariant, PTL

-----------------------------------------------------------------------------
(* What a run holds can be found again.                                    *)

Findings == [k \in CutoffSet |-> Researched(k)]

\* What a build remembers when it comes to the i-th cutoff: what the run says of the one
\* before it, if the security was a member then.
Remembers(previous, i, r, M) ==
    IF i > 1 /\ ResearchCutoffs[i - 1] \in M
    THEN \E p \in r.observations : p.cutoff = ResearchCutoffs[i - 1] /\ previous = {p.result}
    ELSE previous = {}

IsFinding(o, i, r, M, found) ==
    /\ o = [cutoff |-> ResearchCutoffs[i], result |-> o.result, created |-> o.created,
            changed |-> o.changed]
    /\ ResearchCutoffs[i] \in M
    /\ o.result \in {found[ResearchCutoffs[i]], ResearchFailure}
    /\ IF i > 1 /\ ResearchCutoffs[i - 1] \in M
       THEN \E p \in r.observations :
               p.cutoff = ResearchCutoffs[i - 1] /\ o.changed = (p.result # o.result)
       ELSE o.changed = TRUE

Recounts(r, M, found) ==
    /\ \A o \in r.observations : \E i \in DOMAIN ResearchCutoffs : IsFinding(o, i, r, M, found)
    /\ \A o, p \in r.observations : o.cutoff = p.cutoff => o = p

Recalls(t, r, M, found) ==
    /\ t.step = "resolve" => Remembers(t.previous, t.at, r, M)
    /\ t.step = "freeze" =>
          IsFinding(t.observation, t.at, r, M, found) /\ t.previous = {t.observation.result}

OutcomeFrom(F, o, cutoff) ==
    [cutoff |-> o.cutoff, dataCutoff |-> cutoff,
     returns |-> [h \in ReturnHorizon |->
        IF o.result.status # "snapshot_frozen" THEN NoReturn("research_snapshot_unavailable")
        ELSE ForwardOutcome(F, o.cutoff, h, cutoff)]]

\* An outcome is what its observation and the facts give.
Answers(r, F) ==
    \A v \in r.outcomes, o \in r.observations :
       o.cutoff = v.cutoff => v = OutcomeFrom(F, o, v.dataCutoff)

Repeats(runs, tasks, M, found, F) ==
    /\ \A key \in DOMAIN runs : Recounts(runs[key], M, found) /\ Answers(runs[key], F)
    /\ \A b \in Builder : AtWork(tasks[b]) => Recalls(tasks[b], runs[tasks[b].key], M, found)

ResumeInv == late = {} => Repeats(backtests, builder, MemberCutoffs, Findings, Facts)

LEMMA OutcomeIs == \A o, cutoff : Outcome(o, cutoff) = OutcomeFrom(Facts, o, cutoff)
  BY DEF Outcome, OutcomeFrom

LEMMA RecallsMore ==
    ASSUME NEW t, NEW r, NEW s, NEW M, NEW found, Recalls(t, r, M, found),
           r.observations \subseteq s.observations
    PROVE  Recalls(t, s, M, found)
  BY DEF Recalls, Remembers, IsFinding

LEMMA FindingMore ==
    ASSUME NEW o, NEW i, NEW r, NEW s, NEW M, NEW found, IsFinding(o, i, r, M, found),
           r.observations \subseteq s.observations
    PROVE  IsFinding(o, i, s, M, found)
  BY DEF IsFinding

LEMMA RepeatsKept ==
    ASSUME NEW runs, NEW tasks, NEW M, NEW found, NEW F, Repeats(runs, tasks, M, found, F),
           \A c \in Builder : IsTask(tasks[c], runs),
           NEW K \in DOMAIN runs, NEW more, NEW moved,
           DOMAIN more = DOMAIN runs, \A key \in DOMAIN runs \ {K} : more[key] = runs[key],
           runs[K].observations \subseteq more[K].observations,
           Recounts(more[K], M, found), Answers(more[K], F),
           \A c \in Builder :
              \/ moved[c] = tasks[c]
              \/ AtWork(moved[c]) => moved[c].key = K /\ Recalls(moved[c], more[K], M, found)
    PROVE  Repeats(more, moved, M, found, F)
<1>1. \A key \in DOMAIN more : Recounts(more[key], M, found) /\ Answers(more[key], F)
  BY DEF Repeats
<1>2. ASSUME NEW c \in Builder, AtWork(moved[c])
      PROVE  Recalls(moved[c], more[moved[c].key], M, found)
  <2>1. CASE moved[c] # tasks[c]
    BY <1>2, <2>1
  <2>2. CASE moved[c] = tasks[c]
    <3>1. AtWork(tasks[c]) /\ IsTask(tasks[c], runs)
      BY <1>2, <2>2
    <3>2. tasks[c].key \in DOMAIN runs
      BY ONLY <3>1 DEF IsTask, AtWork, Sleeping
    <3>3. Recalls(tasks[c], runs[tasks[c].key], M, found)
      BY <3>1 DEF Repeats
    <3>4. CASE tasks[c].key = K
      BY <2>2, <3>3, <3>4, RecallsMore
    <3>5. CASE tasks[c].key # K
      BY <2>2, <3>2, <3>3, <3>5
    <3> QED
      BY <3>4, <3>5
  <2> QED
    BY <2>1, <2>2
<1> QED
  BY <1>1, <1>2 DEF Repeats

LEMMA NothingArrives ==
    ASSUME arrived' = arrived
    PROVE  Facts' = Facts /\ MemberCutoffs' = MemberCutoffs /\ Findings' = Findings
<1>1. Facts' = Facts
  BY DEF Facts
<1>2. MemberCutoffs' = MemberCutoffs
  BY <1>1 DEF MemberCutoffs, Member
<1>3. \A k : Researched(k)' = Researched(k)
  BY <1>1 DEF Researched
<1> QED
  BY <1>1, <1>2, <1>3 DEF Findings

LEMMA RunMovesAgain ==
    ASSUME EvInv, ResumeInv, NEW K \in DOMAIN backtests, NEW s,
           backtests' = [backtests EXCEPT ![K] = s], arrived' = arrived, late' = late,
           backtests[K].observations \subseteq s.observations,
           late = {} => Recounts(s, MemberCutoffs, Findings) /\ Answers(s, Facts),
           \A c \in Builder :
              \/ builder'[c] = builder[c]
              \/ late = {} /\ AtWork(builder'[c]) =>
                    builder'[c].key = K /\ Recalls(builder'[c], s, MemberCutoffs, Findings)
    PROVE  ResumeInv'
<1>1. /\ DOMAIN backtests' = DOMAIN backtests
      /\ backtests'[K] = s /\ \A key \in DOMAIN backtests \ {K} : backtests'[key] = backtests[key]
  <2>1. backtests = [key \in DOMAIN backtests |-> backtests[key]]
    BY DEF EvInv, EvTyped
  <2>2. backtests' = [backtests EXCEPT ![K] = s]
    OBVIOUS
  <2> QED
    BY ONLY <2>1, <2>2, K \in DOMAIN backtests, RunChanges
<1>2. ASSUME late = {}
      PROVE  Repeats(backtests', builder', MemberCutoffs, Findings, Facts)
  <2>1. /\ Repeats(backtests, builder, MemberCutoffs, Findings, Facts)
        /\ \A c \in Builder : IsTask(builder[c], backtests)
    BY <1>2 DEF EvInv, EvTyped, ResumeInv
  <2>2. \A c \in Builder :
           \/ builder'[c] = builder[c]
           \/ AtWork(builder'[c]) =>
                 builder'[c].key = K /\ Recalls(builder'[c], s, MemberCutoffs, Findings)
    BY <1>2
  <2> QED
    <3>1. /\ backtests[K].observations \subseteq backtests'[K].observations
          /\ Recounts(backtests'[K], MemberCutoffs, Findings) /\ Answers(backtests'[K], Facts)
          /\ \A c \in Builder :
                \/ builder'[c] = builder[c]
                \/ AtWork(builder'[c]) =>
                      /\ builder'[c].key = K
                      /\ Recalls(builder'[c], backtests'[K], MemberCutoffs, Findings)
      BY <1>1, <1>2, <2>2
    <3> QED
      BY ONLY <1>1, <2>1, <3>1, K \in DOMAIN backtests, RepeatsKept
<1> QED
  BY <1>2, NothingArrives DEF ResumeInv

LEMMA RunAdvancesAgain ==
    ASSUME EvInv, ResumeInv, NEW b \in Builder, NEW K \in DOMAIN backtests, NEW s, NEW t,
           backtests' = [backtests EXCEPT ![K] = s], Goes(b, t), arrived' = arrived, late' = late,
           backtests[K].observations \subseteq s.observations,
           late = {} =>
              /\ Recounts(s, MemberCutoffs, Findings) /\ Answers(s, Facts)
              /\ AtWork(t) => t.key = K /\ Recalls(t, s, MemberCutoffs, Findings)
    PROVE  ResumeInv'
<1>1. builder'[b] = t /\ \A c \in Builder \ {b} : builder'[c] = builder[c]
  BY DEF Goes, EvInv, EvTyped
<1>2. \A c \in Builder :
         \/ builder'[c] = builder[c]
         \/ late = {} /\ AtWork(builder'[c]) =>
               builder'[c].key = K /\ Recalls(builder'[c], s, MemberCutoffs, Findings)
  BY <1>1
<1>3. late = {} => Recounts(s, MemberCutoffs, Findings) /\ Answers(s, Facts)
  OBVIOUS
<1> QED
  BY <1>2, <1>3, RunMovesAgain

LEMMA TaskAdvancesAgain ==
    ASSUME EvInv, ResumeInv, NEW b \in Builder, NEW t,
           Goes(b, t), backtests' = backtests, arrived' = arrived, late' = late,
           late = {} /\ AtWork(t) => Recalls(t, backtests[t.key], MemberCutoffs, Findings)
    PROVE  ResumeInv'
<1>1. builder'[b] = t /\ \A c \in Builder \ {b} : builder'[c] = builder[c]
  BY DEF Goes, EvInv, EvTyped
<1>2. ASSUME late = {}
      PROVE  Repeats(backtests, builder', MemberCutoffs, Findings, Facts)
  <2>1. Repeats(backtests, builder, MemberCutoffs, Findings, Facts)
    BY <1>2 DEF ResumeInv
  <2> QED
    BY <1>1, <1>2, <2>1 DEF Repeats
<1> QED
  BY <1>2, NothingArrives DEF ResumeInv

\* A forward return, told from what it is computed of.
ReturnOf(entries, series, sessions, actions, adjusted, end, k, horizon, cutoff) ==
    LET future == {b \in series : b.date > k}
        entry == CHOOSE b \in entries : TRUE
        exit == CHOOSE b \in future :
                    Cardinality({c \in future : c.date <= b.date}) = horizon
    IN IF entries = {} THEN NoReturn("entry_price_unavailable_at_knowledge_cutoff")
       ELSE IF entry \notin series
       THEN NoReturn("entry_price_bar_not_represented_in_outcome_series")
       ELSE IF Cardinality(future) < horizon
       THEN NoReturn(IF k < end /\ end <= cutoff
                     THEN "outcome_unavailable_due_to_delisting"
                     ELSE "insufficient_future_history")
       ELSE IF {a \in Between(actions, entry.date, exit.date) : a.type # "split"} # {}
       THEN NoReturn("unsupported_corporate_action_state")
       ELSE [status |-> IF {entry.date, exit.date} \subseteq sessions
                        THEN "available" ELSE "security_return_available",
             exit |-> exit.date,
             multiple |-> <<exit.close * FoldSet(LAMBDA s, n : s.factor * n, 1,
                                                 Between(adjusted, entry.date, exit.date)),
                            entry.close>>]

LEMMA ForwardOutcomeIs ==
    ASSUME NEW F, NEW k, NEW cutoff, NEW h
    PROVE  ForwardOutcome(F, k, h, cutoff) =
              ReturnOf(Entries(F, k), SeriesAsOf(F, "bar", cutoff),
                       Days(SeriesAsOf(F, "session", cutoff)), ActionsAsOf(F, cutoff),
                       Adjustments(F, cutoff), ListingEnd(F), k, h, cutoff)
  BY DEF ForwardOutcome, ReturnOf, Unsupported, Multiple

\* A forward return depends on what was known at its two cutoffs, and on the listing.
LEMMA ForwardOutcomeOf ==
    ASSUME NEW F, NEW G, NEW k, NEW cutoff, NEW h, OfKind(F, "listing") = OfKind(G, "listing"),
           \A kind \in {"bar", "session", "action"} :
              /\ Visible(F, kind, k) = Visible(G, kind, k)
              /\ Visible(F, kind, cutoff) = Visible(G, kind, cutoff)
    PROVE  ForwardOutcome(F, k, h, cutoff) = ForwardOutcome(G, k, h, cutoff)
<1>1. /\ SeriesAsOf(F, "bar", k) = SeriesAsOf(G, "bar", k)
      /\ SeriesAsOf(F, "bar", cutoff) = SeriesAsOf(G, "bar", cutoff)
      /\ SeriesAsOf(F, "session", cutoff) = SeriesAsOf(G, "session", cutoff)
      /\ ActionsAsOf(F, cutoff) = ActionsAsOf(G, cutoff)
  BY DEF SeriesAsOf, ActionsAsOf
<1>2. Entries(F, k) = Entries(G, k)
  BY <1>1 DEF Entries
<1>3. Adjustments(F, cutoff) = Adjustments(G, cutoff)
  BY <1>1 DEF Adjustments
<1>4. ListingEnd(F) = ListingEnd(G)
  BY DEF ListingEnd
<1> QED
  BY <1>1, <1>2, <1>3, <1>4, ForwardOutcomeIs

LEMMA RecallsNothing ==
    ASSUME NEW t, t.step \notin {"resolve", "freeze"}
    PROVE  \A r, M, found : Recalls(t, r, M, found)
  BY DEF Recalls

\* What arrives on time changes nothing that was found or answered before.
LEMMA ArriveAgain ==
    ASSUME EvInv, ResumeInv, LabelInv, NEW a \in Shipment, Arrive(a)
    PROVE  ResumeInv'
<1> SUFFICES ASSUME late' = {}
             PROVE  Repeats(backtests', builder', MemberCutoffs', Findings', Facts')
  BY DEF ResumeInv
<1>1. /\ arrived' = arrived \cup {a} /\ backtests' = backtests /\ builder' = builder
      /\ late' = late \cup {f.kind : f \in {g \in Content[a] :
                              \E k \in UsedCutoffs : g.kind = "listing" \/ g.available <= k}}
  BY DEF Arrive
<1>2. Facts' = Facts \cup Content[a]
  BY <1>1 DEF Facts
<1>3. late = {} /\ Repeats(backtests, builder, MemberCutoffs, Findings, Facts)
  BY <1>1 DEF ResumeInv
<1>4. CASE DOMAIN backtests = {}
  <2>1. \A b \in Builder : ~AtWork(builder[b])
    BY <1>4 DEF EvInv, EvTyped, IsTask, AtWork, Sleeping
  <2> QED
    BY <1>1, <1>4, <2>1 DEF Repeats
<1>5. CASE DOMAIN backtests # {}
  <2>1. RunEnd \in UsedCutoffs /\ \A key \in DOMAIN backtests : backtests[key].cutoff \in UsedCutoffs
    BY <1>5 DEF UsedCutoffs
  <2>2. \A f \in Content[a], k \in UsedCutoffs : f.kind # "listing" /\ ~(f.available <= k)
    BY <1>1
  <2>3. ASSUME NEW f \in Content[a], NEW k \in CutoffSet
        PROVE  ~(f.available <= k)
    <3>1. f.available \in Nat /\ ~(f.available <= RunEnd)
      BY <2>1, <2>2, HistoricalEvaluationAssumption
    <3>2. k <= RunEnd /\ k \in Nat /\ RunEnd \in Nat
      BY CutoffsAscend DEF CutoffSet
    <3> QED
      BY <3>1, <3>2
  <2>4. OfKind(Facts', "listing") = OfKind(Facts, "listing")
    BY <1>2, <2>1, <2>2 DEF OfKind
  <2>5. \A k \in CutoffSet \cup UsedCutoffs :
           /\ \A kind : Visible(Facts', kind, k) = Visible(Facts, kind, k)
           /\ {f \in Facts' : f.kind # "listing" /\ f.available <= k}
              = {f \in Facts : f.kind # "listing" /\ f.available <= k}
    BY <1>2, <2>2, <2>3 DEF Visible, OfKind
  <2>6. MemberCutoffs' = MemberCutoffs
    BY <2>5 DEF MemberCutoffs, Member, CutoffSet
  <2>7. Findings' = Findings
    <3>1. \A k \in CutoffSet : Researched(k)' = Researched(k)
      BY <2>5 DEF Researched
    <3> QED
      BY <3>1 DEF Findings
  <2>8. ASSUME NEW key \in DOMAIN backtests
        PROVE  Answers(backtests[key], Facts')
    <3> DEFINE r == backtests[key]
    <3>1. Answers(r, Facts)
      BY <1>3 DEF Repeats
    <3>2. ASSUME NEW v \in r.outcomes, NEW o \in r.observations, o.cutoff = v.cutoff
          PROVE  v = OutcomeFrom(Facts', o, v.dataCutoff)
      <4>1. v.dataCutoff = r.cutoff
        BY <1>3 DEF EvInv, EvOnTime, OnTime, Coherent
      <4>2. o.cutoff \in CutoffSet
        BY DEF EvInv, EvTyped, IsRun, CutoffSet
      <4>3. v.dataCutoff \in UsedCutoffs
        BY <2>1, <4>1
      <4>4. \A h : ForwardOutcome(Facts', o.cutoff, h, v.dataCutoff)
                   = ForwardOutcome(Facts, o.cutoff, h, v.dataCutoff)
        BY <2>4, <2>5, <4>2, <4>3, ForwardOutcomeOf
      <4>5. OutcomeFrom(Facts', o, v.dataCutoff) = OutcomeFrom(Facts, o, v.dataCutoff)
        BY <4>4 DEF OutcomeFrom
      <4>6. v = OutcomeFrom(Facts, o, v.dataCutoff)
        BY <3>1, <3>2 DEF Answers
      <4> QED
        BY <4>5, <4>6
    <3> QED
      BY <3>2 DEF Answers
  <2> QED
    BY <1>1, <1>3, <2>6, <2>7, <2>8 DEF Repeats
<1> QED
  BY <1>4, <1>5

LEMMA BeginDatasetAgain ==
    ASSUME EvInv, ResumeInv, NEW b \in Builder, BeginDataset(b)
    PROVE  ResumeInv'
<1> DEFINE key == SourceState(RunEnd)
           t == [step |-> "resolve", key |-> key, at |-> 1, previous |-> {}]
<1>1. /\ Goes(b, t) /\ UNCHANGED <<arrived, late>>
      /\ backtests' = IF key \in DOMAIN backtests THEN backtests ELSE Put(backtests, key, NewRun)
  BY DEF BeginDataset
<1>2. /\ t.step = "resolve" /\ t.key = key /\ t.at = 1 /\ t.previous = {}
  OBVIOUS
<1> HIDE DEF key, t
<1>3. \A r, M, found : Recalls(t, r, M, found)
  BY <1>2 DEF Recalls, Remembers
<1>4. CASE key \in DOMAIN backtests
  BY <1>1, <1>3, <1>4, TaskAdvancesAgain
<1>5. CASE key \notin DOMAIN backtests
  <2>1. /\ DOMAIN backtests' = DOMAIN backtests \cup {key} /\ backtests'[key] = NewRun
        /\ \A k \in DOMAIN backtests : backtests'[k] = backtests[k]
    BY <1>1, <1>5 DEF Put
  <2>2. builder'[b] = t /\ \A c \in Builder \ {b} : builder'[c] = builder[c]
    BY <1>1 DEF Goes, EvInv, EvTyped
  <2>3. Recounts(NewRun, MemberCutoffs, Findings) /\ Answers(NewRun, Facts)
    BY DEF Recounts, Answers, NewRun
  <2>4. ASSUME late = {}
        PROVE  Repeats(backtests', builder', MemberCutoffs, Findings, Facts)
    <3>1. Repeats(backtests, builder, MemberCutoffs, Findings, Facts)
      BY <2>4 DEF ResumeInv
    <3>2. \A k \in DOMAIN backtests' :
             Recounts(backtests'[k], MemberCutoffs, Findings) /\ Answers(backtests'[k], Facts)
      BY <2>1, <2>3, <3>1 DEF Repeats
    <3>3. ASSUME NEW c \in Builder \ {b}, AtWork(builder[c])
          PROVE  builder[c].key \in DOMAIN backtests
      <4>1. IsTask(builder[c], backtests)
        BY DEF EvInv, EvTyped
      <4> QED
        BY ONLY <3>3, <4>1 DEF IsTask, AtWork, Sleeping
    <3>4. \A c \in Builder : AtWork(builder'[c]) =>
             Recalls(builder'[c], backtests'[builder'[c].key], MemberCutoffs, Findings)
      BY <1>3, <2>1, <2>2, <3>1, <3>3 DEF Repeats
    <3> QED
      BY <3>2, <3>4 DEF Repeats
  <2> QED
    BY <1>1, <2>4, NothingArrives DEF ResumeInv
<1> QED
  BY <1>4, <1>5

\* Who had traded by one cutoff had traded by the next.
LEMMA OnceMember ==
    ASSUME LabelInv, NEW i \in DOMAIN ResearchCutoffs, NEW j \in DOMAIN ResearchCutoffs, i < j,
           ResearchCutoffs[i] \in MemberCutoffs
    PROVE  ResearchCutoffs[j] \in MemberCutoffs
<1>1. PICK f \in Visible(Facts, "bar", ResearchCutoffs[i]) : f.date <= ResearchCutoffs[i]
  BY DEF MemberCutoffs, Member
<1>2. f \in Facts /\ f.kind = "bar" /\ f.available <= ResearchCutoffs[i]
  BY <1>1 DEF Visible, OfKind
<1>3. f.available \in Nat /\ f.date \in Nat
  BY <1>2, HistoricalEvaluationAssumption DEF Facts, LabelInv
<1>4. ResearchCutoffs[i] \in Nat /\ ResearchCutoffs[j] \in Nat /\ ResearchCutoffs[i] < ResearchCutoffs[j]
  BY HistoricalEvaluationAssumption, CutoffsAscend
<1>5. f \in Visible(Facts, "bar", ResearchCutoffs[j]) /\ f.date <= ResearchCutoffs[j]
  BY <1>1, <1>2, <1>3, <1>4 DEF Visible, OfKind
<1> QED
  BY <1>5 DEF MemberCutoffs, Member

LEMMA ExcludeAgain ==
    ASSUME EvInv, LabelInv, ResumeInv, NEW b \in Builder, Exclude(b)
    PROVE  ResumeInv'
<1> DEFINE t == [builder[b] EXCEPT !.at = @ + 1]
<1>1. /\ builder[b].step = "resolve" /\ builder[b].at <= Len(ResearchCutoffs)
      /\ ~Member(ResearchCutoffs[builder[b].at]) /\ Goes(b, t)
      /\ UNCHANGED <<arrived, late, backtests>>
  BY DEF Exclude, Resolving, Step, AtCutoff
<1>2. IsTask(builder[b], backtests)
  BY <1>1, AtStep
<1>3. /\ builder[b].at \in DOMAIN ResearchCutoffs /\ builder[b].key \in DOMAIN backtests
      /\ t.step = "resolve" /\ t.at = builder[b].at + 1 /\ t.key = builder[b].key
      /\ t.previous = builder[b].previous
  BY <1>1, <1>2, CutoffsAscend DEF IsTask, Sleeping
<1> HIDE DEF t
<1>4. ASSUME late = {}
      PROVE  Recalls(t, backtests[t.key], MemberCutoffs, Findings)
  <2>1. Recalls(builder[b], backtests[t.key], MemberCutoffs, Findings)
    BY <1>1, <1>3, <1>4 DEF ResumeInv, Repeats, AtWork
  <2>2. Remembers(builder[b].previous, builder[b].at, backtests[t.key], MemberCutoffs)
    BY <1>1, <2>1 DEF Recalls
  <2>3. ResearchCutoffs[builder[b].at] \notin MemberCutoffs
    BY <1>1 DEF MemberCutoffs
  <2>4. builder[b].at > 1 => ResearchCutoffs[builder[b].at - 1] \notin MemberCutoffs
    BY <1>3, <2>3, OnceMember, CutoffsAscend
  <2>5. builder[b].previous = {}
    BY <2>2, <2>4 DEF Remembers
  <2>6. t.at - 1 = builder[b].at
    BY <1>3, CutoffsAscend
  <2> QED
    BY <1>3, <2>3, <2>5, <2>6 DEF Recalls, Remembers
<1> QED
  BY <1>1, <1>4, TaskAdvancesAgain

LEMMA FreezesAgain ==
    ASSUME EvInv, ResumeInv, NEW b \in Builder, NEW result, NEW created, Resolving(b),
           Member(AtCutoff(b)), result \in {Researched(AtCutoff(b)), ResearchFailure},
           Freezes(b, result, created), UNCHANGED <<arrived, late, backtests>>
    PROVE  ResumeInv'
<1> DEFINE o == Observed(b, result, created)
           t == [step |-> "freeze", key |-> builder[b].key, at |-> builder[b].at,
                 previous |-> {result}, observation |-> o]
<1>1. /\ builder[b].step = "resolve" /\ builder[b].at <= Len(ResearchCutoffs)
      /\ Goes(b, t)
  BY DEF Freezes, Resolving, Step
<1>2. IsTask(builder[b], backtests)
  BY <1>1, AtStep
<1>3. /\ builder[b].at \in DOMAIN ResearchCutoffs /\ builder[b].key \in DOMAIN backtests
      /\ t.step = "freeze" /\ t.at = builder[b].at /\ t.key = builder[b].key
      /\ t.previous = {result} /\ t.observation = o
  BY <1>1, <1>2, CutoffsAscend DEF IsTask, Sleeping
<1> DEFINE k == ResearchCutoffs[builder[b].at]
<1>4. /\ o.cutoff = k /\ o.result = result /\ o.changed = (builder[b].previous # {result})
      /\ o = [cutoff |-> k, result |-> o.result, created |-> o.created, changed |-> o.changed]
  BY DEF Observed, AtCutoff
<1>5. k \in MemberCutoffs /\ Findings[k] = Researched(k)
  BY <1>3 DEF MemberCutoffs, AtCutoff, CutoffSet, Findings
<1>6. result \in {Findings[k], ResearchFailure}
  BY <1>5 DEF AtCutoff
<1> HIDE DEF t, o, k
<1>7. ASSUME late = {}
      PROVE  Recalls(t, backtests[t.key], MemberCutoffs, Findings)
  <2> DEFINE r == backtests[t.key]
  <2>1. Recalls(builder[b], r, MemberCutoffs, Findings)
    BY <1>1, <1>3, <1>7 DEF ResumeInv, Repeats, AtWork
  <2>2. Remembers(builder[b].previous, builder[b].at, r, MemberCutoffs)
    BY <1>1, <2>1 DEF Recalls
  <2> HIDE DEF r
  <2>3. IsFinding(o, builder[b].at, r, MemberCutoffs, Findings)
    <3>1. CASE builder[b].at > 1 /\ ResearchCutoffs[builder[b].at - 1] \in MemberCutoffs
      <4>1. PICK p \in r.observations : /\ p.cutoff = ResearchCutoffs[builder[b].at - 1]
                                        /\ builder[b].previous = {p.result}
        BY <2>2, <3>1 DEF Remembers
      <4>2. o.changed = (p.result # result)
        BY <1>4, <4>1
      <4> QED
        BY <1>4, <1>5, <1>6, <3>1, <4>1, <4>2 DEF IsFinding, k
    <3>2. CASE ~(builder[b].at > 1 /\ ResearchCutoffs[builder[b].at - 1] \in MemberCutoffs)
      <4>1. builder[b].previous = {}
        BY <2>2, <3>2 DEF Remembers
      <4>2. o.changed = TRUE
        BY <1>4, <4>1
      <4> QED
        BY <1>4, <1>5, <1>6, <3>2, <4>2 DEF IsFinding, k
    <3> QED
      BY <3>1, <3>2
  <2> QED
    BY <1>3, <1>4, <2>3 DEF Recalls, r
<1> QED
  BY <1>1, <1>7, TaskAdvancesAgain

\* What a build found is frozen as it was found, and remembered for the next cutoff.
LEMMA FreezeObservationAgain ==
    ASSUME EvInv, ResumeInv, NEW b \in Builder, FreezeObservation(b)
    PROVE  ResumeInv'
<1> DEFINE K == builder[b].key
           r == RunOf(b)
           o == builder[b].observation
           t == Onwards(b)
           s == [r EXCEPT !.observations = @ \cup {o}]
<1>1. /\ builder[b].step = "freeze" /\ UNCHANGED <<arrived, late>>
      /\ \/ /\ At(r.observations, o.cutoff) = {}
            /\ backtests' = [backtests EXCEPT ![K].observations = @ \cup {o}]
            /\ Goes(b, t)
         \/ At(r.observations, o.cutoff) = {o} /\ Goes(b, t) /\ UNCHANGED backtests
         \/ Stops(b) /\ UNCHANGED backtests
  BY DEF FreezeObservation, Step
<1>2. /\ IsTask(builder[b], backtests) /\ K \in DOMAIN backtests /\ IsRun(r)
  BY <1>1, AtStep
<1>3. builder[b].at \in DOMAIN ResearchCutoffs /\ o.cutoff = ResearchCutoffs[builder[b].at]
  BY <1>1, <1>2 DEF IsTask, Sleeping
<1>4. /\ t.step = "resolve" /\ t.at = builder[b].at + 1 /\ t.key = K
      /\ t.previous = builder[b].previous
  BY DEF Onwards
<1>5. r = backtests[K]
  BY DEF RunOf
<1>6. ASSUME late = {}
      PROVE  /\ IsFinding(o, builder[b].at, r, MemberCutoffs, Findings)
             /\ t.previous = {o.result}
             /\ Recounts(r, MemberCutoffs, Findings) /\ Answers(r, Facts)
             /\ InStep(builder[b], r, MemberCutoffs) /\ Coherent(r, MemberCutoffs)
  <2>1. InStep(builder[b], r, MemberCutoffs) /\ Coherent(r, MemberCutoffs)
    BY <1>1, <1>6, AtStep DEF AtWork
  <2>2. Recalls(builder[b], r, MemberCutoffs, Findings)
    BY <1>1, <1>5, <1>6 DEF ResumeInv, Repeats, AtWork
  <2>3. Recounts(r, MemberCutoffs, Findings) /\ Answers(r, Facts)
    BY <1>2, <1>5, <1>6 DEF ResumeInv, Repeats
  <2> QED
    BY <1>1, <1>4, <2>1, <2>2, <2>3 DEF Recalls
<1> HIDE DEF K, r, o, t
<1>7. ASSUME NEW u, o \in u.observations, late = {}
      PROVE  Recalls(t, u, MemberCutoffs, Findings)
  <2>1. t.at - 1 = builder[b].at /\ t.at > 1
    BY <1>3, <1>4, CutoffsAscend
  <2>2. o.cutoff = ResearchCutoffs[t.at - 1] /\ t.previous = {o.result}
    BY <1>3, <1>6, <1>7, <2>1
  <2>3. ResearchCutoffs[t.at - 1] \in MemberCutoffs
    BY <1>6, <1>7, <2>1 DEF IsFinding
  <2>4. Remembers(t.previous, t.at, u, MemberCutoffs)
    BY <1>7, <2>1, <2>2, <2>3 DEF Remembers
  <2> QED
    BY <1>4, <2>4 DEF Recalls
<1>8. CASE /\ At(r.observations, o.cutoff) = {}
           /\ backtests' = [backtests EXCEPT ![K].observations = @ \cup {o}]
           /\ Goes(b, t)
  <2>1. backtests' = [backtests EXCEPT ![K] = s]
    BY <1>5, <1>8
  <2>2. /\ s.observations = r.observations \cup {o} /\ s.outcomes = r.outcomes
    BY <1>2 DEF IsRun
  <2> HIDE DEF s
  <2>3. ASSUME late = {}
        PROVE  /\ Recounts(s, MemberCutoffs, Findings) /\ Answers(s, Facts)
               /\ Recalls(t, s, MemberCutoffs, Findings)
    <3>1. r.outcomes = {}
      <4>1. o.cutoff \in MemberCutoffs
        BY <1>1, <1>3, <1>6, <2>3 DEF InStep
      <4>2. ~AllSeen(r, MemberCutoffs)
        BY <1>8, <4>1 DEF AllSeen, Seen
      <4> QED
        BY <1>6, <2>3, <4>2 DEF Coherent
    <3>2. Answers(s, Facts)
      BY <2>2, <3>1 DEF Answers
    <3>3. r.observations \subseteq s.observations
      BY <2>2
    <3>4. ASSUME NEW p \in s.observations
          PROVE  \E i \in DOMAIN ResearchCutoffs : IsFinding(p, i, s, MemberCutoffs, Findings)
      <4>1. PICK i \in DOMAIN ResearchCutoffs : IsFinding(p, i, r, MemberCutoffs, Findings)
        BY <1>3, <1>6, <2>2, <2>3 DEF Recounts
      <4> QED
        BY <3>3, <4>1, FindingMore
    <3>5. \A p, q \in s.observations : p.cutoff = q.cutoff => p = q
      <4>1. \A p, q \in r.observations : p.cutoff = q.cutoff => p = q
        BY <1>6, <2>3 DEF Recounts
      <4>2. \A p \in r.observations : p.cutoff # o.cutoff
        BY <1>8 DEF At
      <4> QED
        BY <2>2, <4>1, <4>2
    <3>6. Recalls(t, s, MemberCutoffs, Findings)
      BY <1>7, <2>2, <2>3
    <3> QED
      BY <3>2, <3>4, <3>5, <3>6 DEF Recounts
  <2>4. backtests[K].observations \subseteq s.observations
    BY <1>5, <2>2
  <2>5. Goes(b, t) /\ arrived' = arrived /\ late' = late
    BY <1>1, <1>8
  <2>6. late = {} =>
           /\ Recounts(s, MemberCutoffs, Findings) /\ Answers(s, Facts)
           /\ AtWork(t) => t.key = K /\ Recalls(t, s, MemberCutoffs, Findings)
    BY <1>4, <2>3
  <2> QED
    BY <1>2, <2>1, <2>4, <2>5, <2>6, RunAdvancesAgain
<1>9. CASE At(r.observations, o.cutoff) = {o} /\ Goes(b, t) /\ UNCHANGED backtests
  <2>1. o \in r.observations
    BY <1>9 DEF At
  <2>2. late = {} => Recalls(t, backtests[t.key], MemberCutoffs, Findings)
    BY <1>4, <1>5, <1>7, <2>1
  <2> QED
    BY <1>1, <1>9, <2>2, TaskAdvancesAgain
<1>10. CASE Stops(b) /\ UNCHANGED backtests
  <2>1. ~AtWork(Sleeping)
    BY DEF AtWork, Sleeping
  <2> QED
    BY <1>1, <1>10, <2>1, TaskAdvancesAgain DEF Stops
<1> QED
  BY <1>1, <1>8, <1>9, <1>10 DEF K, r, o, t

\* A process that closes a stage, builds outcomes or labels remembers nothing.
LEMMA RestAgain ==
    ASSUME EvInv, ResumeInv, NEW b \in Builder, NEW t, Goes(b, t),
           UNCHANGED <<arrived, late, backtests>>, t.step \notin {"resolve", "freeze"}
    PROVE  ResumeInv'
  BY RecallsNothing, TaskAdvancesAgain

LEMMA ClosesAgain ==
    ASSUME EvInv, ResumeInv, NEW b \in Builder, NEW to, NEW cutoff, Closes(b, to, cutoff),
           UNCHANGED <<arrived, late, backtests>>
    PROVE  ResumeInv'
<1> DEFINE t == [step |-> "close", key |-> builder[b].key, cutoff |-> cutoff, to |-> to]
<1>1. Goes(b, t) \/ Goes(b, Sleeping)
  BY DEF Closes
<1>2. t.step = "close" /\ Sleeping.step = "idle"
  BY DEF Sleeping
<1> HIDE DEF t
<1> QED
  BY <1>1, <1>2, RestAgain

\* A run that only changes its status or its cutoff repeats what it did.
LEMMA RestatedAgain ==
    ASSUME NEW r, NEW s, NEW M, NEW found, NEW F, Recounts(r, M, found), Answers(r, F),
           s.observations = r.observations, s.outcomes = r.outcomes
    PROVE  Recounts(s, M, found) /\ Answers(s, F)
<1>1. \A o, i : IsFinding(o, i, r, M, found) => IsFinding(o, i, s, M, found)
  BY FindingMore
<1>2. Recounts(s, M, found)
  BY <1>1 DEF Recounts
<1>3. Answers(s, F)
  BY DEF Answers
<1> QED
  BY <1>2, <1>3

LEMMA CommitStatusAgain ==
    ASSUME EvInv, ResumeInv, NEW b \in Builder, CommitStatus(b)
    PROVE  ResumeInv'
<1> DEFINE K == builder[b].key
           r == RunOf(b)
           kept == IF builder[b].cutoff = Unset THEN r.cutoff ELSE builder[b].cutoff
           s == [r EXCEPT !.status = builder[b].to, !.cutoff = kept]
<1>1. /\ builder[b].step = "close" /\ UNCHANGED <<arrived, late>> /\ Stops(b)
      /\ backtests' = [backtests EXCEPT
            ![K].status = builder[b].to,
            ![K].cutoff = IF builder[b].cutoff = Unset THEN @ ELSE builder[b].cutoff]
  BY DEF CommitStatus, Step
<1>2. K \in DOMAIN backtests /\ IsRun(r)
  BY <1>1, AtStep
<1>3. r = backtests[K]
  BY DEF RunOf
<1>4. ~AtWork(Sleeping)
  BY DEF Sleeping, AtWork
<1>5. late = {} => Recounts(r, MemberCutoffs, Findings) /\ Answers(r, Facts)
  BY <1>2, <1>3 DEF ResumeInv, Repeats
<1> HIDE DEF K, r
<1>6. backtests' = [backtests EXCEPT ![K] = s]
  <2>1. r = [status |-> r.status, observations |-> r.observations, outcomes |-> r.outcomes,
             cutoff |-> r.cutoff]
    BY <1>2 DEF IsRun
  <2>2. DOMAIN backtests' = DOMAIN backtests
    BY <1>1
  <2> QED
    BY <1>1, <1>2, <1>3, <2>1, <2>2
<1>7. s.observations = r.observations /\ s.outcomes = r.outcomes
  <2>1. s = [r EXCEPT !.status = builder[b].to, !.cutoff = kept] /\ IsRun(r)
    BY <1>2
  <2> HIDE DEF s, kept
  <2>2. s = [status |-> builder[b].to, observations |-> r.observations, outcomes |-> r.outcomes,
             cutoff |-> kept]
    BY ONLY <2>1, StatusAndCutoff
  <2> QED
    BY <2>2
<1> HIDE DEF s
<1>8. late = {} => Recounts(s, MemberCutoffs, Findings) /\ Answers(s, Facts)
  BY <1>5, <1>7, RestatedAgain
<1>9. backtests[K].observations \subseteq s.observations
  BY <1>3, <1>7
<1> QED
  BY <1>1, <1>2, <1>4, <1>6, <1>8, <1>9, RunAdvancesAgain DEF Stops

LEMMA SummarizeAgain ==
    ASSUME EvInv, ResumeInv, NEW key \in DOMAIN backtests, Summarize(key)
    PROVE  ResumeInv'
<1> DEFINE r == backtests[key]
           s == [r EXCEPT !.status = "completed"]
<1>1. /\ backtests' = [backtests EXCEPT ![key].status = "completed"]
      /\ UNCHANGED <<arrived, late, builder>>
  BY DEF Summarize
<1>2. IsRun(r)
  BY DEF EvInv, EvTyped
<1>3. backtests' = [backtests EXCEPT ![key] = s]
  BY <1>1
<1>4. s.observations = r.observations /\ s.outcomes = r.outcomes
  BY <1>2 DEF IsRun
<1>5. late = {} => Recounts(r, MemberCutoffs, Findings) /\ Answers(r, Facts)
  BY DEF ResumeInv, Repeats
<1> HIDE DEF s
<1>6. late = {} => Recounts(s, MemberCutoffs, Findings) /\ Answers(s, Facts)
  BY <1>4, <1>5, RestatedAgain
<1>7. backtests[key].observations \subseteq s.observations
  BY <1>4
<1> QED
  BY <1>1, <1>3, <1>6, <1>7, RunMovesAgain

LEMMA FreezeOutcomeAgain ==
    ASSUME EvInv, ResumeInv, NEW b \in Builder, FreezeOutcome(b)
    PROVE  ResumeInv'
<1> DEFINE K == builder[b].key
           r == RunOf(b)
           k == builder[b].cutoff
           o == CHOOSE o \in builder[b].left : \A p \in builder[b].left : o.cutoff <= p.cutoff
           v == Outcome(o, k)
           s == [r EXCEPT !.outcomes = @ \cup {v}, !.cutoff = k]
           t == [builder[b] EXCEPT !.left = @ \ {o}]
<1>1. /\ builder[b].step = "outcomes" /\ builder[b].left # {} /\ UNCHANGED <<arrived, late>>
      /\ \/ /\ backtests' = [backtests EXCEPT ![K].outcomes = @ \cup {v}, ![K].cutoff = k]
            /\ Goes(b, t)
         \/ Stops(b) /\ UNCHANGED backtests
  BY DEF FreezeOutcome, Step
<1>2. /\ IsTask(builder[b], backtests) /\ K \in DOMAIN backtests /\ IsRun(r)
  BY <1>1, AtStep
<1>3. r = backtests[K]
  BY DEF RunOf
<1>4. o \in r.observations
  <2>1. builder[b].left \subseteq r.observations
    BY <1>1, <1>2, <1>3 DEF IsTask, Sleeping
  <2>2. \A p \in builder[b].left : \E i \in DOMAIN ResearchCutoffs : p.cutoff = ResearchCutoffs[i]
    BY <1>2, <2>1 DEF IsRun
  <2>3. \E p \in builder[b].left : \A q \in builder[b].left : p.cutoff <= q.cutoff
    BY <1>1, <2>2, FirstLeft
  <2> QED
    BY <2>1, <2>3
<1>5. v = OutcomeFrom(Facts, o, k) /\ v.cutoff = o.cutoff /\ v.dataCutoff = k
  <2>1. v = OutcomeFrom(Facts, o, k)
    BY OutcomeIs
  <2>2. v.cutoff = o.cutoff /\ v.dataCutoff = k
    BY DEF Outcome
  <2> QED
    BY <2>1, <2>2
<1>6. t.step = "outcomes"
  <2>1. builder[b] = [step |-> "outcomes", key |-> K, cutoff |-> k, left |-> builder[b].left]
    BY <1>1, <1>2 DEF IsTask, Sleeping
  <2>2. PICK L : builder[b] = [step |-> "outcomes", key |-> K, cutoff |-> k, left |-> L]
    BY <2>1
  <2> HIDE DEF K, k, o
  <2> QED
    BY <2>2
<1>7. late = {} => Recounts(r, MemberCutoffs, Findings) /\ Answers(r, Facts)
  BY <1>2, <1>3 DEF ResumeInv, Repeats
<1> HIDE DEF K, r, k, o, v, t
<1>8. CASE Stops(b) /\ UNCHANGED backtests
  <2>1. Sleeping.step = "idle"
    BY DEF Sleeping
  <2> QED
    BY <1>1, <1>8, <2>1, RestAgain DEF Stops
<1>9. CASE /\ backtests' = [backtests EXCEPT ![K].outcomes = @ \cup {v}, ![K].cutoff = k]
           /\ Goes(b, t)
  <2>1. backtests' = [backtests EXCEPT ![K] = s]
    <3>1. r = [status |-> r.status, observations |-> r.observations, outcomes |-> r.outcomes,
               cutoff |-> r.cutoff]
      BY <1>2 DEF IsRun
    <3> QED
      BY <1>2, <1>3, <1>9, <3>1
  <2>2. s.observations = r.observations /\ s.outcomes = r.outcomes \cup {v}
    <3>1. s = [status |-> r.status, observations |-> r.observations,
               outcomes |-> r.outcomes \cup {v}, cutoff |-> k]
      BY <1>2, OutcomesAndCutoff
    <3> QED
      BY <3>1
  <2> HIDE DEF s
  <2>3. ASSUME late = {}
        PROVE  Recounts(s, MemberCutoffs, Findings) /\ Answers(s, Facts)
    <3>1. Recounts(s, MemberCutoffs, Findings)
      <4>1. \A p, i : IsFinding(p, i, r, MemberCutoffs, Findings)
                      => IsFinding(p, i, s, MemberCutoffs, Findings)
        BY <2>2, FindingMore
      <4> QED
        BY <1>7, <2>2, <2>3, <4>1 DEF Recounts
    <3>2. ASSUME NEW w \in s.outcomes, NEW p \in s.observations, p.cutoff = w.cutoff
          PROVE  w = OutcomeFrom(Facts, p, w.dataCutoff)
      <4>1. CASE w \in r.outcomes
        BY <1>7, <2>2, <2>3, <3>2, <4>1 DEF Answers
      <4>2. CASE w = v
        <5>1. p = o
          BY <1>4, <1>5, <1>7, <2>2, <2>3, <3>2, <4>2 DEF Recounts
        <5> QED
          BY <1>5, <4>2, <5>1
      <4> QED
        BY <2>2, <4>1, <4>2
    <3> QED
      BY <3>1, <3>2 DEF Answers
  <2>4. backtests[K].observations \subseteq s.observations
    BY <1>3, <2>2
  <2>5. AtWork(t) => t.key = K /\ Recalls(t, s, MemberCutoffs, Findings)
    <3>1. t.key = K
      <4>1. builder[b] = [step |-> "outcomes", key |-> K, cutoff |-> k, left |-> builder[b].left]
        BY <1>1, <1>2 DEF IsTask, Sleeping, K, k
      <4>2. PICK L : builder[b] = [step |-> "outcomes", key |-> K, cutoff |-> k, left |-> L]
        BY <4>1
      <4>3. t = [builder[b] EXCEPT !.left = @ \ {o}]
        BY DEF t, o
      <4> QED
        BY ONLY <4>2, <4>3
    <3> QED
      BY <1>6, <3>1, RecallsNothing
  <2>6. Goes(b, t) /\ arrived' = arrived /\ late' = late
    BY <1>1, <1>9
  <2> QED
    BY <1>2, <2>1, <2>3, <2>4, <2>5, <2>6, RunAdvancesAgain
<1> QED
  BY <1>1, <1>8, <1>9

LEMMA LabelsAgain ==
    ASSUME EvInv, ResumeInv, NEW b \in Builder,
           \/ \E key \in DOMAIN backtests, cutoff \in ReturnCutoff : BeginOutcomes(b, key, cutoff)
           \/ \E key \in DOMAIN backtests, cutoff \in LabelCutoff : BeginLabels(b, key, cutoff)
           \/ CommitLabels(b) \/ Die(b)
    PROVE  ResumeInv'
<1>1. CASE \E key \in DOMAIN backtests, cutoff \in ReturnCutoff : BeginOutcomes(b, key, cutoff)
  <2>1. PICK key \in DOMAIN backtests, cutoff \in ReturnCutoff : BeginOutcomes(b, key, cutoff)
    BY <1>1
  <2> DEFINE t == [step |-> "outcomes", key |-> key, cutoff |-> cutoff,
                   left |-> backtests[key].observations]
  <2>2. Goes(b, t) /\ UNCHANGED <<arrived, late, backtests>> /\ t.step = "outcomes"
    BY <2>1 DEF BeginOutcomes
  <2> HIDE DEF t
  <2> QED
    BY <2>2, RestAgain
<1>2. CASE \E key \in DOMAIN backtests, cutoff \in LabelCutoff : BeginLabels(b, key, cutoff)
  <2>1. PICK key \in DOMAIN backtests, cutoff \in LabelCutoff : BeginLabels(b, key, cutoff)
    BY <1>2
  <2> DEFINE t == [step |-> "labels", key |-> key, cutoff |-> cutoff,
                   state |-> OutcomeSourceState(cutoff),
                   of |-> {o.cutoff : o \in backtests[key].observations}]
  <2>2. Goes(b, t) /\ UNCHANGED <<arrived, late, backtests>> /\ t.step = "labels"
    BY <2>1 DEF BeginLabels
  <2> HIDE DEF t
  <2> QED
    BY <2>2, RestAgain
<1>3. CASE CommitLabels(b) \/ Die(b)
  <2>1. Goes(b, Sleeping) /\ UNCHANGED <<arrived, late, backtests>> /\ Sleeping.step = "idle"
    BY <1>3 DEF CommitLabels, Die, Stops, Sleeping
  <2> QED
    BY <2>1, RestAgain
<1> QED
  BY <1>1, <1>2, <1>3

LEMMA ResumeKept ==
    ASSUME EvInv, LabelInv, ResumeInv, [EvaluationNext]_evVars
    PROVE  ResumeInv'
<1>1. CASE \E a \in Shipment : Arrive(a)
  BY <1>1, ArriveAgain
<1>2. CASE \E b \in Builder : Builds(b)
  <2>1. PICK b \in Builder : Builds(b)
    BY <1>2
  <2>2. CASE Research(b)
    <3>1. PICK created \in BOOLEAN : Freezes(b, Researched(AtCutoff(b)), created)
      BY <2>2 DEF Research
    <3>2. /\ Resolving(b) /\ Member(AtCutoff(b)) /\ UNCHANGED <<arrived, late, backtests>>
      BY <2>2 DEF Research
    <3> QED
      BY <3>1, <3>2, FreezesAgain
  <2>3. CASE ResearchFails(b)
    <3>1. /\ Freezes(b, ResearchFailure, FALSE) /\ Resolving(b) /\ Member(AtCutoff(b))
          /\ UNCHANGED <<arrived, late, backtests>>
      BY <2>3 DEF ResearchFails
    <3> QED
      BY <3>1, FreezesAgain
  <2>4. CASE FinishDataset(b)
    BY <2>4, ClosesAgain DEF FinishDataset
  <2>5. CASE FinishOutcomes(b)
    BY <2>5, ClosesAgain DEF FinishOutcomes
  <2> QED
    BY <2>1, <2>2, <2>3, <2>4, <2>5, BeginDatasetAgain, ExcludeAgain, FreezeObservationAgain,
       CommitStatusAgain, FreezeOutcomeAgain, LabelsAgain DEF Builds
<1>3. CASE \E key \in DOMAIN backtests : Summarize(key)
  BY <1>3, SummarizeAgain
<1>4. CASE \/ \E lk \in DOMAIN labelRuns :
                 \E cutoffs \in SUBSET DOMAIN labelRuns[lk] : Evaluate(lk, cutoffs)
           \/ \E e \in evaluations : BuildSplit(e)
           \/ UNCHANGED evVars
  <2>1. UNCHANGED <<arrived, late, backtests, builder>>
    BY <1>4 DEF Evaluate, BuildSplit, evVars
  <2> QED
    BY <2>1, NothingArrives DEF ResumeInv
<1> QED
  BY <1>1, <1>2, <1>3, <1>4 DEF EvaluationNext

LEMMA ResumeStarts == EvaluationInit => ResumeInv
  BY DEF EvaluationInit, ResumeInv, Repeats, AtWork, Sleeping

THEOREM ResumeInvariant == EvaluationSpec => []ResumeInv
<1>1. EvInv /\ LabelInv /\ ResumeInv /\ [EvaluationNext]_evVars => ResumeInv'
  BY ResumeKept
<1> QED
  BY <1>1, ResumeStarts, EvaluationInvariant, LabelInvariant, PTL DEF EvaluationSpec

\* What a run without failures holds is what a build would find now.
LEMMA FindsAgain ==
    ASSUME EvInv, ResumeInv, late = {}, NEW key \in DOMAIN backtests,
           \A o \in backtests[key].observations : o.result # ResearchFailure,
           NEW o \in backtests[key].observations
    PROVE  \E i \in DOMAIN ResearchCutoffs : [o EXCEPT !.created = FALSE] = Expected(i)
<1> DEFINE r == backtests[key]
           M == MemberCutoffs
<1>1. Recounts(r, M, Findings)
  BY DEF ResumeInv, Repeats
<1>2. ASSUME NEW p \in r.observations
      PROVE  p.result = Researched(p.cutoff)
  <2>1. PICK j \in DOMAIN ResearchCutoffs : IsFinding(p, j, r, M, Findings)
    BY <1>1 DEF Recounts
  <2>2. p.cutoff = ResearchCutoffs[j] /\ p.result = Findings[ResearchCutoffs[j]]
    BY <2>1 DEF IsFinding
  <2> QED
    BY <2>2 DEF Findings, CutoffSet
<1>3. PICK i \in DOMAIN ResearchCutoffs : IsFinding(o, i, r, M, Findings)
  BY <1>1 DEF Recounts
<1> DEFINE k == ResearchCutoffs[i]
           before == ResearchCutoffs[i - 1]
<1>4. \A j \in DOMAIN ResearchCutoffs :
         /\ ResearchCutoffs[j] \in CutoffSet
         /\ ResearchCutoffs[j] \in M <=> Member(ResearchCutoffs[j])
  BY DEF CutoffSet, MemberCutoffs
<1>5. i > 1 => i - 1 \in DOMAIN ResearchCutoffs
  BY CutoffsAscend
<1>6. o.cutoff = k /\ o.result = Researched(k)
  BY <1>2, <1>3, <1>4 DEF IsFinding
<1>7. o.changed = IF i > 1 /\ Member(before) THEN Researched(before) # Researched(k) ELSE TRUE
  <2>1. CASE i > 1 /\ Member(before)
    <3>1. before \in M /\ before \in CutoffSet
      BY <1>4, <1>5, <2>1
    <3>2. PICK p \in r.observations : p.cutoff = before /\ o.changed = (p.result # o.result)
      BY <1>3, <2>1, <3>1 DEF IsFinding
    <3>3. p.result = Researched(before)
      BY <1>2, <3>1, <3>2
    <3> QED
      BY <1>6, <2>1, <3>2, <3>3
  <2>2. CASE ~(i > 1 /\ Member(before))
    <3>1. ~(i > 1 /\ before \in M)
      BY <1>4, <1>5, <2>2
    <3> QED
      BY <1>3, <2>2, <3>1 DEF IsFinding
  <2> QED
    BY <2>1, <2>2
<1>8. Expected(i) = [cutoff |-> o.cutoff, result |-> o.result, created |-> FALSE,
                     changed |-> o.changed]
  BY <1>6, <1>7 DEF Expected
<1>9. [o EXCEPT !.created = FALSE] = [cutoff |-> o.cutoff, result |-> o.result,
                                      created |-> FALSE, changed |-> o.changed]
  <2> DEFINE no == FALSE
  <2> SUFFICES [o EXCEPT !.created = no] = [cutoff |-> o.cutoff, result |-> o.result,
                                            created |-> no, changed |-> o.changed]
    OBVIOUS
  <2> HIDE DEF no
  <2>1. PICK a, c, d, e : o = [cutoff |-> a, result |-> c, created |-> d, changed |-> e]
    BY <1>3 DEF IsFinding
  <2> QED
    BY ONLY <2>1
<1> QED
  BY <1>8, <1>9

LEMMA ComputesAgain ==
    ASSUME EvInv, ResumeInv, late = {}, NEW key \in DOMAIN backtests,
           NEW o \in backtests[key].observations, NEW v \in backtests[key].outcomes,
           o.cutoff = v.cutoff
    PROVE  v = Outcome(o, backtests[key].cutoff)
<1>1. v = OutcomeFrom(Facts, o, v.dataCutoff)
  BY DEF ResumeInv, Repeats, Answers
<1>2. v.dataCutoff = backtests[key].cutoff
  BY DEF EvInv, EvOnTime, OnTime, Coherent
<1> QED
  BY <1>1, <1>2, OutcomeIs

\* Whatever died, overlapped or failed: as long as facts arrive on time, a build that takes
\* a run up again finds every observation and computes every outcome that is there
\* (build_historical_backtest_dataset, build_outcomes and their freeze functions).
THEOREM ResumesAgree == EvaluationSpec => []ResumeAgrees
<1>1. EvInv /\ ResumeInv => ResumeAgrees
  BY FindsAgain, ComputesAgain DEF ResumeAgrees
<1> QED
  BY <1>1, EvaluationInvariant, ResumeInvariant, PTL

-----------------------------------------------------------------------------
(* Labels mature: newest revisions, then and later.                        *)

\* Facts of which a label is made.
AreFacts(F) ==
    \A f \in F : f.kind # "listing" =>
       f.available \in Nat /\ (f.kind # "filing" => f.date \in Nat \ {0})

\* Numbers that do not exceed a number have a greatest one.
LEMMA GreatestUpTo ==
    ASSUME NEW S \in SUBSET Nat, NEW n \in Nat, S # {}, \A x \in S : x <= n
    PROVE  Max(S) \in S /\ \A x \in S : x <= Max(S)
<1> DEFINE R == {n - x : x \in S}
<1>0. \A x \in S : n - x \in Nat
  BY S \in SUBSET Nat, n \in Nat, \A x \in S : x <= n
<1>1. R \in SUBSET Nat /\ R # {}
  <2>1. R \subseteq Nat
    BY ONLY <1>0
  <2>2. PICK x \in S : TRUE
    OBVIOUS
  <2>3. n - x \in R
    BY ONLY <2>2
  <2> QED
    BY <2>1, <2>3
<1>2. PICK r \in R : \A q \in R : r <= q
  BY <1>1, LeastOf
<1>3. PICK y \in S : r = n - y
  OBVIOUS
<1>4. ASSUME NEW x \in S
      PROVE  y >= x
  <2>1. n - x \in R
    OBVIOUS
  <2>2. n - y <= n - x
    BY <1>2, <1>3, <2>1
  <2>3. x \in Nat /\ y \in Nat
    OBVIOUS
  <2> QED
    BY <2>2, <2>3
<1>5. Max(S) = CHOOSE x \in S : \A z \in S : x >= z
  BY DEF Max
<1>6. Max(S) \in S /\ \A x \in S : Max(S) >= x
  BY <1>4, <1>5
<1> QED
  BY <1>6

LEMMA MinOf ==
    ASSUME NEW S \in SUBSET Nat, S # {}
    PROVE  Min(S) \in S /\ \A x \in S : Min(S) <= x
<1>1. \E x \in S : \A z \in S : x <= z
  BY LeastOf
<1>2. Min(S) = CHOOSE x \in S : \A z \in S : x =< z
  BY DEF Min
<1> QED
  BY <1>1, <1>2

\* Of the facts of one kind known at a cutoff that share something, one is the newest.
LEMMA NewestOf ==
    ASSUME NEW F, AreFacts(F), NEW kind, kind # "listing", NEW cutoff \in Nat,
           NEW S \in SUBSET Visible(F, kind, cutoff), S # {}
    PROVE  \E g \in S : \A f \in S : f.available <= g.available
<1> DEFINE A == {f.available : f \in S}
<1>1. A \in SUBSET Nat /\ A # {} /\ \A x \in A : x <= cutoff
  BY DEF AreFacts, Visible, OfKind
<1>2. Max(A) \in A /\ \A x \in A : x <= Max(A)
  BY <1>1, GreatestUpTo
<1> QED
  BY <1>2

\* What is known at a cutoff is what is known later, and was available by the cutoff.
LEMMA KnownBy ==
    ASSUME NEW F, AreFacts(F), NEW kind, kind # "listing", NEW m \in Nat, NEW T \in Nat, m <= T
    PROVE  Visible(F, kind, m) = {f \in Visible(F, kind, T) : f.available <= m}
  BY DEF Visible, OfKind, AreFacts

\* A revision that is the newest of its day was the newest since it was available.
LEMMA SeriesEarlier ==
    ASSUME NEW F, AreFacts(F), NEW kind, kind # "listing", NEW m \in Nat, NEW T \in Nat, m <= T,
           NEW f \in SeriesAsOf(F, kind, T), f.available <= m
    PROVE  f \in SeriesAsOf(F, kind, m)
  BY KnownBy DEF SeriesAsOf

\* A day that has a revision has a newest one, which is not older than it.
LEMMA SeriesLater ==
    ASSUME NEW F, AreFacts(F), NEW kind, kind # "listing", NEW m \in Nat, NEW T \in Nat, m <= T,
           NEW f \in SeriesAsOf(F, kind, m)
    PROVE  \E g \in SeriesAsOf(F, kind, T) :
              /\ g.date = f.date /\ f.available <= g.available
              /\ g.available <= m => f \in SeriesAsOf(F, kind, T)
<1> DEFINE K == Visible(F, kind, T)
           S == {g \in K : g.date = f.date}
<1>1. f \in S /\ f.available <= m
  BY KnownBy DEF SeriesAsOf
<1>2. PICK g \in S : \A h \in S : h.available <= g.available
  BY <1>1, NewestOf
<1>3. g \in SeriesAsOf(F, kind, T)
  BY <1>2 DEF SeriesAsOf
<1>4. ASSUME g.available <= m
      PROVE  f \in SeriesAsOf(F, kind, T)
  <2>1. g \in Visible(F, kind, m)
    BY <1>4, KnownBy
  <2>2. g.available <= f.available /\ f.available <= g.available
    BY <1>1, <1>2, <2>1 DEF SeriesAsOf
  <2>3. g.available = f.available
    BY <1>1, <2>2 DEF AreFacts, Visible, OfKind
  <2> QED
    BY <1>1, <1>2, <2>3 DEF SeriesAsOf
<1> QED
  BY <1>1, <1>2, <1>3, <1>4

\* The newest revision of each record of an action.
NewestRevisions(F, cutoff) ==
    {f \in Visible(F, "action", cutoff) :
       \A g \in Visible(F, "action", cutoff) : g.external = f.external => g.available <= f.available}

LEMMA ActionsAre ==
    ASSUME NEW F, NEW cutoff
    PROVE  ActionsAsOf(F, cutoff) =
              {f \in NewestRevisions(F, cutoff) : \A g \in NewestRevisions(F, cutoff) :
                 g.type = f.type /\ g.date = f.date => g.available <= f.available}
  BY DEF ActionsAsOf, NewestRevisions

\* The newest revision of a record tells of the same action as any revision before it.
LEMMA RecordLater ==
    ASSUME NEW F, AreFacts(F), NEW m \in Nat, NEW T \in Nat, m <= T, Unmoved(F, T),
           NEW f \in Visible(F, "action", m)
    PROVE  \E g \in NewestRevisions(F, T) :
              g.external = f.external /\ g.type = f.type /\ g.date = f.date /\ f.available <= g.available
<1> DEFINE S == {g \in Visible(F, "action", T) : g.external = f.external}
<1>1. f \in S
  BY KnownBy
<1>2. PICK g \in S : \A h \in S : h.available <= g.available
  BY <1>1, NewestOf
<1>3. g \in NewestRevisions(F, T)
  BY <1>2 DEF NewestRevisions
<1> QED
  BY <1>1, <1>2, <1>3 DEF Unmoved

LEMMA RecordEarlier ==
    ASSUME NEW F, AreFacts(F), NEW m \in Nat, NEW T \in Nat, m <= T,
           NEW f \in NewestRevisions(F, T), f.available <= m
    PROVE  f \in NewestRevisions(F, m)
  BY KnownBy DEF NewestRevisions

LEMMA ActionEarlier ==
    ASSUME NEW F, AreFacts(F), NEW m \in Nat, NEW T \in Nat, m <= T, Unmoved(F, T),
           NEW f \in ActionsAsOf(F, T), f.available <= m
    PROVE  f \in ActionsAsOf(F, m)
<1>1. f \in NewestRevisions(F, m) /\ f \in NewestRevisions(F, T)
  BY ActionsAre, RecordEarlier
<1>2. ASSUME NEW g \in NewestRevisions(F, m), g.type = f.type, g.date = f.date
      PROVE  g.available <= f.available
  <2>1. g \in Visible(F, "action", m)
    BY DEF NewestRevisions
  <2>2. PICK h \in NewestRevisions(F, T) :
           h.type = g.type /\ h.date = g.date /\ g.available <= h.available
    BY <2>1, RecordLater
  <2>3. h.available <= f.available
    BY <1>2, <2>2, ActionsAre
  <2>4. g.available \in Nat /\ h.available \in Nat /\ f.available \in Nat
    BY <1>1, <2>1 DEF NewestRevisions, Visible, OfKind, AreFacts
  <2> QED
    BY <2>2, <2>3, <2>4
<1> QED
  BY <1>1, <1>2, ActionsAre

LEMMA ActionLater ==
    ASSUME NEW F, AreFacts(F), NEW m \in Nat, NEW T \in Nat, m <= T, Unmoved(F, T),
           NEW f \in ActionsAsOf(F, m)
    PROVE  \E g \in ActionsAsOf(F, T) :
              /\ g.type = f.type /\ g.date = f.date
              /\ g.available <= m => f \in ActionsAsOf(F, T)
<1>1. f \in NewestRevisions(F, m) /\ f \in Visible(F, "action", m)
  BY ActionsAre DEF NewestRevisions
<1>2. PICK h \in NewestRevisions(F, T) :
         /\ h.external = f.external /\ h.type = f.type /\ h.date = f.date
         /\ f.available <= h.available
  BY <1>1, RecordLater
<1> DEFINE S == {g \in NewestRevisions(F, T) : g.type = f.type /\ g.date = f.date}
<1>3. h \in S /\ S \subseteq Visible(F, "action", T)
  BY <1>2 DEF NewestRevisions
<1>4. PICK g \in S : \A q \in S : q.available <= g.available
  BY <1>3, NewestOf
<1>5. g \in ActionsAsOf(F, T)
  BY <1>4, ActionsAre
<1>6. ASSUME g.available <= m
      PROVE  f \in ActionsAsOf(F, T)
  <2>1. g \in NewestRevisions(F, m)
    BY <1>6, RecordEarlier
  <2>2. g.available <= f.available /\ h.available <= g.available
    BY <1>3, <1>4, <2>1, ActionsAre
  <2>3. f.available \in Nat /\ g.available \in Nat /\ h.available \in Nat
    BY <1>1, <1>3 DEF NewestRevisions, Visible, OfKind, AreFacts
  <2>4. f.available = h.available /\ f.available = g.available
    BY <1>2, <2>2, <2>3
  <2>5. f \in NewestRevisions(F, T)
    <3>1. f \in Visible(F, "action", T)
      BY <1>1, KnownBy
    <3> QED
      BY <1>2, <2>4, <3>1 DEF NewestRevisions
  <2> QED
    BY <1>4, <2>4, <2>5, ActionsAre
<1> QED
  BY <1>4, <1>5, <1>6

-----------------------------------------------------------------------------
(* Labels mature: splits, prices and sessions.                             *)

\* How many shares splits make of one.
SharesAfter(divided) == FoldSet(LAMBDA s, n : s.factor * n, 1, divided)

\* What one share of the entry day is worth on the day of a bar, over its price then.
Worth(divided, entry, bar) ==
    <<bar.close * SharesAfter(Between(divided, entry.date, bar.date)), entry.close>>

Reaches(divided, entry, bar, threshold) ==
    Worth(divided, entry, bar)[1] >= threshold * Worth(divided, entry, bar)[2]

HitsOf(entry, series, divided, c) ==
    {b \in Between(series, entry.date, entry.date + c.years) : Reaches(divided, entry, b, c.threshold)}

HitSince(entry, hit, divided) ==
    Max({entry.available, hit.available}
        \cup {s.available : s \in Between(divided, entry.date, hit.date)})

Covered(entry, end, series, sessions) ==
    /\ \E s \in sessions : s.date >= end
    /\ Days(Between(sessions, entry.date, end)) # {}
    /\ Days(Between(sessions, entry.date, end)) \subseteq Days(series)

\* The day of the first session at or after the end of the window.
ClosingDay(sessions, end) == Min({s.date : s \in {t \in sessions : t.date >= end}})

EvidenceOf(entry, end, series, sessions, divided) ==
    Between(series, entry.date, end) \cup Between(divided, entry.date, end)
    \cup Between(sessions, entry.date, ClosingDay(sessions, end))

OverSince(entry, end, series, sessions, divided) ==
    Max({end, entry.available}
        \cup {f.available : f \in EvidenceOf(entry, end, series, sessions, divided)})

\* Actions that no multiple is computed through.
Barred(actions, from, to) == {a \in Between(actions, from, to) : a.type # "split"}

\* A label, told from what it is computed of.
LabelOf(entries, series, sessions, actions, divided, listed, c, cutoff) ==
    LET entry == CHOOSE b \in entries : TRUE
        end == entry.date + c.years
        hits == HitsOf(entry, series, divided, c)
        first == CHOOSE b \in hits : b.date = Min(Days(hits))
    IN IF entries = {} \/ entry \notin series THEN UnsettledAs("unavailable")
       ELSE IF Barred(actions, entry.date, end) # {} THEN UnsettledAs("unavailable")
       ELSE IF hits # {}
       THEN [class |-> "positive", maturedAt |-> HitSince(entry, first, divided)]
       ELSE IF listed # OpenEnded /\ listed <= end THEN UnsettledAs("unavailable")
       ELSE IF cutoff < end THEN UnsettledAs("unmatured")
       ELSE IF ~Covered(entry, end, series, sessions) THEN UnsettledAs("unavailable")
       ELSE [class |-> "negative", maturedAt |-> OverSince(entry, end, series, sessions, divided)]

LEMMA LabelIs ==
    ASSUME NEW F, NEW k, NEW c, NEW cutoff
    PROVE  MultibaggerLabel(F, k, c, cutoff) =
              LabelOf(Entries(F, k), SeriesAsOf(F, "bar", cutoff), SeriesAsOf(F, "session", cutoff),
                      ActionsAsOf(F, cutoff), Adjustments(F, cutoff), ListingEnd(F), c, cutoff)
  BY DEF MultibaggerLabel, LabelOf, HitsOf, Reaches, Worth, SharesAfter, HitSince, Barred, Covered, OverSince,
         EvidenceOf, ClosingDay, Unsupported, Multiple, PositiveSince, WindowComplete, NegativeSince

\* What a label depends on: what was known at its two cutoffs, and the listing.
LEMMA LabelOfKnown ==
    ASSUME NEW F, NEW G, NEW k, NEW c, NEW cutoff,
           OfKind(F, "listing") = OfKind(G, "listing"),
           \A kind \in {"bar", "session", "action"} :
              /\ Visible(F, kind, k) = Visible(G, kind, k)
              /\ Visible(F, kind, cutoff) = Visible(G, kind, cutoff)
    PROVE  MultibaggerLabel(F, k, c, cutoff) = MultibaggerLabel(G, k, c, cutoff)
<1>1. /\ SeriesAsOf(F, "bar", k) = SeriesAsOf(G, "bar", k)
      /\ SeriesAsOf(F, "bar", cutoff) = SeriesAsOf(G, "bar", cutoff)
      /\ SeriesAsOf(F, "session", cutoff) = SeriesAsOf(G, "session", cutoff)
      /\ ActionsAsOf(F, cutoff) = ActionsAsOf(G, cutoff)
  BY DEF SeriesAsOf, ActionsAsOf
<1>2. Entries(F, k) = Entries(G, k)
  BY <1>1 DEF Entries
<1>3. Adjustments(F, cutoff) = Adjustments(G, cutoff)
  BY <1>1 DEF Adjustments
<1>4. ListingEnd(F) = ListingEnd(G)
  BY DEF ListingEnd
<1> QED
  BY <1>1, <1>2, <1>3, <1>4, LabelIs

\* Between two bars of the series, every split that is known is adjusted for.
LEMMA SplitsBetween ==
    ASSUME NEW F, AreFacts(F), IsFiniteSet(F), NEW cutoff,
           NEW a \in SeriesAsOf(F, "bar", cutoff), NEW b \in SeriesAsOf(F, "bar", cutoff)
    PROVE  Between(Adjustments(F, cutoff), a.date, b.date)
           = {s \in Between(ActionsAsOf(F, cutoff), a.date, b.date) : s.type = "split"}
<1> DEFINE S == SeriesAsOf(F, "bar", cutoff)
           D == Days(S)
           f == [s \in S |-> s.date]
<1>1. D \in SUBSET Nat /\ a.date \in D /\ b.date \in D
  BY DEF Days, AreFacts, SeriesAsOf, Visible, OfKind
<1>2. IsFiniteSet(D)
  <2>1. S \subseteq F
    BY DEF SeriesAsOf, Visible, OfKind
  <2>2. IsFiniteSet(S)
    BY <2>1, FS_Subset
  <2>3. f \in Surjection(S, D)
    BY DEF Surjection, Days
  <2> HIDE DEF S, D, f
  <2> QED
    BY <2>2, <2>3, FS_Surjection
<1>3. Min(D) <= a.date /\ Min(D) \in Nat
  BY <1>1, MinOf
<1>4. b.date <= Max(D) /\ Max(D) \in Nat
  <2> HIDE DEF D
  <2>1. \E n \in D : \A m \in D : m <= n
    BY <1>1, <1>2, GreatestOf
  <2>2. PICK n \in D : \A m \in D : m <= n
    BY <2>1
  <2>3. n \in Nat
    BY <1>1
  <2> QED
    BY <1>1, <2>2, <2>3, GreatestUpTo
<1>5. \A s \in ActionsAsOf(F, cutoff) : s.date \in Nat
  BY DEF ActionsAsOf, Visible, OfKind, AreFacts
<1>6. \A s \in ActionsAsOf(F, cutoff) :
         a.date < s.date /\ s.date <= b.date => Min(D) < s.date /\ s.date <= Max(D)
  BY <1>1, <1>3, <1>4, <1>5
<1>7. Adjustments(F, cutoff) = {s \in ActionsAsOf(F, cutoff) :
                                   s.type = "split" /\ Min(D) < s.date /\ s.date <= Max(D)}
  BY DEF Adjustments
<1> HIDE DEF D
<1> QED
  BY <1>6, <1>7 DEF Between

\* Splits up to a day that were all available by a cutoff are the same from then on.
LEMMA SplitsSettled ==
    ASSUME NEW F, AreFacts(F), NEW m \in Nat, NEW T \in Nat, m <= T, Unmoved(F, T),
           NEW from, NEW to,
           \A s \in Between(ActionsAsOf(F, T), from, to) : s.type = "split" => s.available <= m
    PROVE  {s \in Between(ActionsAsOf(F, m), from, to) : s.type = "split"}
           = {s \in Between(ActionsAsOf(F, T), from, to) : s.type = "split"}
<1>1. ASSUME NEW s \in Between(ActionsAsOf(F, T), from, to), s.type = "split"
      PROVE  s \in Between(ActionsAsOf(F, m), from, to)
  BY <1>1, ActionEarlier DEF Between
<1>2. ASSUME NEW s \in Between(ActionsAsOf(F, m), from, to), s.type = "split"
      PROVE  s \in Between(ActionsAsOf(F, T), from, to)
  <2>1. s \in ActionsAsOf(F, m) /\ from < s.date /\ s.date <= to
    BY DEF Between
  <2>2. PICK g \in ActionsAsOf(F, T) :
           /\ g.type = s.type /\ g.date = s.date
           /\ g.available <= m => s \in ActionsAsOf(F, T)
    BY <2>1, ActionLater
  <2> QED
    BY <1>2, <2>1, <2>2 DEF Between
<1> QED
  BY <1>1, <1>2

\* No unsupported action was known before that is not known, or replaced by one, later.
LEMMA SupportedBefore ==
    ASSUME NEW F, AreFacts(F), NEW m \in Nat, NEW T \in Nat, m <= T, Unmoved(F, T),
           NEW from, NEW to,
           Barred(ActionsAsOf(F, T), from, to) = {}
    PROVE  Barred(ActionsAsOf(F, m), from, to) = {}
<1> SUFFICES ASSUME NEW a \in Between(ActionsAsOf(F, m), from, to), a.type # "split"
             PROVE  FALSE
  BY DEF Barred
<1>1. a \in ActionsAsOf(F, m) /\ from < a.date /\ a.date <= to
  BY DEF Between
<1>2. PICK g \in ActionsAsOf(F, T) : g.type = a.type /\ g.date = a.date
  BY <1>1, ActionLater
<1> QED
  BY <1>1, <1>2 DEF Between, Barred

LEMMA WorthSettled ==
    ASSUME NEW entry, NEW bar, NEW divided, NEW others, NEW threshold,
           Between(divided, entry.date, bar.date) = Between(others, entry.date, bar.date)
    PROVE  Reaches(divided, entry, bar, threshold) <=> Reaches(others, entry, bar, threshold)
<1>1. Worth(divided, entry, bar) = Worth(others, entry, bar)
  BY DEF Worth
<1> QED
  BY <1>1 DEF Reaches

LEMMA BarIsFact ==
    ASSUME NEW F, AreFacts(F), NEW kind, kind \in {"bar", "session"}, NEW cutoff \in Nat,
           NEW b \in SeriesAsOf(F, kind, cutoff)
    PROVE  b.available \in Nat /\ b.available <= cutoff /\ b.date \in Nat \ {0}
  BY DEF SeriesAsOf, Visible, OfKind, AreFacts

LEMMA ActionIsFact ==
    ASSUME NEW F, AreFacts(F), NEW cutoff \in Nat, NEW a \in ActionsAsOf(F, cutoff)
    PROVE  a.available \in Nat /\ a.available <= cutoff /\ a.date \in Nat \ {0}
  BY DEF ActionsAsOf, Visible, OfKind, AreFacts

\* Splits between the entry and a bar that were all available by a cutoff settle what the
\* entry is worth on the day of the bar.
LEMMA WorthKept ==
    ASSUME NEW F, AreFacts(F), IsFiniteSet(F), NEW m \in Nat, NEW T \in Nat, m <= T, Unmoved(F, T),
           NEW threshold,
           NEW entry \in SeriesAsOf(F, "bar", m), entry \in SeriesAsOf(F, "bar", T),
           NEW bar \in SeriesAsOf(F, "bar", m), bar \in SeriesAsOf(F, "bar", T),
           \A s \in Between(Adjustments(F, T), entry.date, bar.date) : s.available <= m
    PROVE  Reaches(Adjustments(F, m), entry, bar, threshold)
           <=> Reaches(Adjustments(F, T), entry, bar, threshold)
<1> DEFINE Q(x) == {s \in Between(ActionsAsOf(F, x), entry.date, bar.date) : s.type = "split"}
<1>1. Between(Adjustments(F, T), entry.date, bar.date) = Q(T)
  BY SplitsBetween
<1>2. Between(Adjustments(F, m), entry.date, bar.date) = Q(m)
  BY SplitsBetween
<1>3. \A s \in Between(ActionsAsOf(F, T), entry.date, bar.date) : s.type = "split" => s.available <= m
  BY <1>1
<1>4. Q(m) = Q(T)
  BY <1>3, SplitsSettled
<1> HIDE DEF Q
<1> QED
  BY <1>1, <1>2, <1>4, WorthSettled

LEMMA PositiveWhen ==
    ASSUME NEW entries, NEW series, NEW sessions, NEW actions, NEW divided, NEW listed, NEW c,
           NEW cutoff, entries # {}, NEW entry \in series, entry = CHOOSE b \in entries : TRUE,
           Barred(actions, entry.date, entry.date + c.years) = {},
           HitsOf(entry, series, divided, c) # {}
    PROVE  LabelOf(entries, series, sessions, actions, divided, listed, c, cutoff).class = "positive"
  BY DEF LabelOf

LEMMA NegativeWhen ==
    ASSUME NEW entries, NEW series, NEW sessions, NEW actions, NEW divided, NEW c, NEW cutoff,
           entries # {}, NEW entry \in series, entry = CHOOSE b \in entries : TRUE,
           NEW end, end = entry.date + c.years, Barred(actions, entry.date, end) = {},
           HitsOf(entry, series, divided, c) = {}, ~(cutoff < end),
           Covered(entry, end, series, sessions)
    PROVE  LabelOf(entries, series, sessions, actions, divided, OpenEnded, c, cutoff).class = "negative"
  BY DEF LabelOf

LEMMA PositiveMatures ==
    ASSUME NEW F, AreFacts(F), IsFiniteSet(F), NEW k, NEW c, NEW T \in Nat, Unmoved(F, T),
           Entries(F, k) # {}, NEW entry \in SeriesAsOf(F, "bar", T),
           entry = CHOOSE b \in Entries(F, k) : TRUE,
           Barred(ActionsAsOf(F, T), entry.date, entry.date + c.years) = {},
           NEW hits, hits = HitsOf(entry, SeriesAsOf(F, "bar", T), Adjustments(F, T), c), hits # {},
           NEW first, first = CHOOSE b \in hits : b.date = Min(Days(hits)),
           NEW m, m = HitSince(entry, first, Adjustments(F, T))
    PROVE  m <= T /\ MultibaggerLabel(F, k, c, m).class = "positive"
<1>1. first \in hits
  <2>1. hits \subseteq SeriesAsOf(F, "bar", T)
    BY DEF HitsOf, Between
  <2>2. Days(hits) \in SUBSET Nat /\ Days(hits) # {}
    BY <2>1, BarIsFact DEF Days
  <2>3. Min(Days(hits)) \in Days(hits)
    BY <2>2, MinOf
  <2>4. \E b \in hits : b.date = Min(Days(hits))
    BY <2>3 DEF Days
  <2> QED
    BY <2>4
<1>2. /\ first \in SeriesAsOf(F, "bar", T) /\ entry.date < first.date
      /\ first.date <= entry.date + c.years
      /\ Reaches(Adjustments(F, T), entry, first, c.threshold)
  BY <1>1 DEF HitsOf, Between
<1> DEFINE A == {entry.available, first.available}
                \cup {s.available : s \in Between(Adjustments(F, T), entry.date, first.date)}
<1>3. m \in Nat /\ m <= T /\ \A x \in A : x <= m
  <2>1. Between(Adjustments(F, T), entry.date, first.date) \subseteq ActionsAsOf(F, T)
    BY DEF Between, Adjustments
  <2>2. \A s \in Between(Adjustments(F, T), entry.date, first.date) :
           s.available \in Nat /\ s.available <= T
    BY <2>1, ActionIsFact
  <2>3. /\ entry.available \in Nat /\ entry.available <= T
        /\ first.available \in Nat /\ first.available <= T
    BY <1>2, BarIsFact
  <2>4. A \in SUBSET Nat /\ A # {} /\ \A x \in A : x <= T
    BY ZenonT(30), <2>2, <2>3
  <2>5. m = Max(A)
    BY DEF HitSince
  <2> HIDE DEF A
  <2>6. m \in A /\ \A x \in A : x <= m
    BY <2>4, <2>5, GreatestUpTo
  <2> QED
    BY <2>4, <2>6
<1>4. entry.available <= m /\ first.available <= m
  BY <1>3
<1>5. entry \in SeriesAsOf(F, "bar", m) /\ first \in SeriesAsOf(F, "bar", m)
  BY <1>2, <1>3, <1>4, SeriesEarlier
<1>6. Reaches(Adjustments(F, m), entry, first, c.threshold)
  <2>1. \A s \in Between(Adjustments(F, T), entry.date, first.date) : s.available <= m
    BY <1>3
  <2>2. entry \in SeriesAsOf(F, "bar", T) /\ first \in SeriesAsOf(F, "bar", T)
    BY <1>2
  <2>3. m \in Nat /\ m <= T
    BY <1>3
  <2>4. Reaches(Adjustments(F, m), entry, first, c.threshold)
        <=> Reaches(Adjustments(F, T), entry, first, c.threshold)
    BY ONLY AreFacts(F), IsFiniteSet(F), T \in Nat, Unmoved(F, T), <1>5, <2>1, <2>2, <2>3, WorthKept
  <2> QED
    BY <1>2, <2>4
<1>7. HitsOf(entry, SeriesAsOf(F, "bar", m), Adjustments(F, m), c) # {}
  BY <1>2, <1>5, <1>6 DEF HitsOf, Between
<1>8. Barred(ActionsAsOf(F, m), entry.date, entry.date + c.years) = {}
  <2>1. m \in Nat /\ m <= T /\ Barred(ActionsAsOf(F, T), entry.date, entry.date + c.years) = {}
    BY <1>3
  <2> QED
    BY ONLY AreFacts(F), T \in Nat, Unmoved(F, T), <2>1, SupportedBefore
<1>9. MultibaggerLabel(F, k, c, m)
      = LabelOf(Entries(F, k), SeriesAsOf(F, "bar", m), SeriesAsOf(F, "session", m),
                ActionsAsOf(F, m), Adjustments(F, m), ListingEnd(F), c, m)
  BY LabelIs
<1>10. LabelOf(Entries(F, k), SeriesAsOf(F, "bar", m), SeriesAsOf(F, "session", m),
              ActionsAsOf(F, m), Adjustments(F, m), ListingEnd(F), c, m).class = "positive"
  BY ONLY Entries(F, k) # {}, entry = CHOOSE b \in Entries(F, k) : TRUE, <1>5, <1>7, <1>8, PositiveWhen
<1> QED
  BY <1>3, <1>9, <1>10

LEMMA SameDays ==
    ASSUME NEW A, NEW B, \A s \in B : s \in A, \A s \in A : \E g \in B : g.date = s.date
    PROVE  Days(A) = Days(B)
  BY DEF Days

LEMMA NegativeMatures ==
    ASSUME NEW F, AreFacts(F), IsFiniteSet(F), NEW k, NEW c, c.years \in Nat \ {0},
           NEW T \in Nat, Unmoved(F, T), ListingEnd(F) = OpenEnded,
           Entries(F, k) # {}, NEW entry \in SeriesAsOf(F, "bar", T),
           entry = CHOOSE b \in Entries(F, k) : TRUE,
           NEW end, end = entry.date + c.years, ~(T < end),
           Barred(ActionsAsOf(F, T), entry.date, end) = {},
           HitsOf(entry, SeriesAsOf(F, "bar", T), Adjustments(F, T), c) = {},
           Covered(entry, end, SeriesAsOf(F, "bar", T), SeriesAsOf(F, "session", T)),
           NEW m, m = OverSince(entry, end, SeriesAsOf(F, "bar", T), SeriesAsOf(F, "session", T),
                                Adjustments(F, T))
    PROVE  m <= T /\ MultibaggerLabel(F, k, c, m).class = "negative"
<1> DEFINE bars == SeriesAsOf(F, "bar", T)
           sessions == SeriesAsOf(F, "session", T)
           last == ClosingDay(sessions, end)
           E == EvidenceOf(entry, end, bars, sessions, Adjustments(F, T))
           A == {end, entry.available} \cup {f.available : f \in E}
<1>1. /\ entry.date \in Nat /\ end \in Nat /\ entry.date < end /\ end <= T
      /\ entry.available \in Nat /\ entry.available <= T
  BY BarIsFact
<1>2. last \in Nat /\ end <= last /\ \E s \in sessions : s.date = last
  <2> DEFINE D == {s.date : s \in {t \in sessions : t.date >= end}}
  <2>1. D \in SUBSET Nat /\ D # {}
    BY BarIsFact DEF Covered
  <2>2. last = Min(D)
    BY DEF ClosingDay
  <2> HIDE DEF last
  <2>3. last \in D
    <3> HIDE DEF D
    <3> QED
      BY <2>1, <2>2, MinOf
  <2> QED
    BY <1>1, <2>1, <2>3
<1>3. m \in Nat /\ m <= T /\ \A x \in A : x <= m
  <2>1. E \subseteq bars \cup sessions \cup ActionsAsOf(F, T)
    BY DEF EvidenceOf, Between, Adjustments
  <2>2. \A f \in E : f.available \in Nat /\ f.available <= T
    BY <2>1, BarIsFact, ActionIsFact
  <2>3. A \in SUBSET Nat /\ A # {} /\ \A x \in A : x <= T
    <3> HIDE DEF E
    <3> QED
      BY <1>1, <2>2
  <2>4. m = Max(A)
    BY DEF OverSince
  <2> HIDE DEF A
  <2>5. m \in A /\ \A x \in A : x <= m
    BY <2>3, <2>4, GreatestUpTo
  <2> QED
    BY <2>3, <2>5
<1>4. entry.available <= m /\ end <= m /\ \A f \in E : f.available <= m
  BY <1>3
<1> HIDE DEF A, last
<1>5. entry \in SeriesAsOf(F, "bar", m)
  BY <1>3, <1>4, SeriesEarlier
<1>6. \A b \in bars : entry.date < b.date /\ b.date <= end => b.available <= m
  BY <1>4 DEF EvidenceOf, Between
<1>7. \A s \in Between(Adjustments(F, T), entry.date, end) : s.available <= m
  BY <1>4 DEF EvidenceOf
<1>8. \A s \in sessions : entry.date < s.date /\ s.date <= last => s.available <= m
  BY <1>4 DEF EvidenceOf, Between, last
<1> HIDE DEF E
<1>9. HitsOf(entry, SeriesAsOf(F, "bar", m), Adjustments(F, m), c) = {}
  <2> SUFFICES ASSUME NEW b \in SeriesAsOf(F, "bar", m), entry.date < b.date, b.date <= end,
                      Reaches(Adjustments(F, m), entry, b, c.threshold)
               PROVE  FALSE
    BY DEF HitsOf, Between
  <2>1. PICK g \in bars : /\ g.date = b.date /\ b.available <= g.available
                          /\ g.available <= m => b \in bars
    <3>1. m \in Nat /\ m <= T
      BY <1>3
    <3> QED
      BY ONLY AreFacts(F), T \in Nat, b \in SeriesAsOf(F, "bar", m), "bar" # "listing", <3>1, SeriesLater
  <2>2. b \in bars
    BY <1>6, <2>1
  <2>3. \A s \in Between(Adjustments(F, T), entry.date, b.date) : s.available <= m
    <3>1. \A s \in Adjustments(F, T) : s.date \in Nat
      BY ActionIsFact DEF Adjustments
    <3>2. b.date \in Nat
      BY <2>2, BarIsFact
    <3> QED
      BY <1>1, <1>7, <3>1, <3>2 DEF Between
  <2>4. Reaches(Adjustments(F, T), entry, b, c.threshold)
    BY <1>3, <1>5, <2>2, <2>3, WorthKept
  <2> QED
    BY <2>2, <2>4 DEF HitsOf, Between
<1>10. Barred(ActionsAsOf(F, m), entry.date, end) = {}
  <2>1. m \in Nat /\ m <= T /\ Barred(ActionsAsOf(F, T), entry.date, end) = {}
    BY <1>3
  <2> QED
    BY ONLY AreFacts(F), T \in Nat, Unmoved(F, T), <2>1, SupportedBefore
<1>11. Covered(entry, end, SeriesAsOf(F, "bar", m), SeriesAsOf(F, "session", m))
  <2>1. \A s \in sessions : entry.date < s.date /\ s.date <= last => s \in SeriesAsOf(F, "session", m)
    BY <1>3, <1>8, SeriesEarlier
  <2>2. \E s \in SeriesAsOf(F, "session", m) : s.date >= end
    <3>1. PICK s \in sessions : s.date = last
      BY <1>2
    <3>2. entry.date < s.date /\ s.date <= last /\ s.date >= end
      BY <1>1, <1>2, <3>1
    <3>3. s \in SeriesAsOf(F, "session", m)
      BY <2>1, <3>1, <3>2
    <3> QED
      BY <3>2, <3>3
  <2>3. \A s \in sessions : entry.date < s.date /\ s.date <= end => s.date <= last
    <3>1. \A s \in sessions : s.date \in Nat
      BY BarIsFact
    <3> QED
      BY <1>1, <1>2, <3>1
  <2>4. Days(Between(SeriesAsOf(F, "session", m), entry.date, end))
        = Days(Between(sessions, entry.date, end))
    <3>1. ASSUME NEW s \in SeriesAsOf(F, "session", m)
          PROVE  \E g \in sessions : g.date = s.date
      BY <1>3, SeriesLater
    <3>2. \A s \in Between(sessions, entry.date, end) :
             s \in Between(SeriesAsOf(F, "session", m), entry.date, end)
      BY <2>1, <2>3 DEF Between
    <3>3. \A s \in Between(SeriesAsOf(F, "session", m), entry.date, end) :
             \E g \in Between(sessions, entry.date, end) : g.date = s.date
      BY <3>1 DEF Between
    <3> QED
      BY <3>2, <3>3, SameDays
  <2>5. Days(Between(sessions, entry.date, end)) \subseteq Days(SeriesAsOf(F, "bar", m))
    <3> SUFFICES ASSUME NEW s \in Between(sessions, entry.date, end)
                 PROVE  \E b \in SeriesAsOf(F, "bar", m) : b.date = s.date
      BY DEF Days
    <3>1. PICK b \in bars : b.date = s.date
      BY DEF Covered, Days
    <3>2. b.available <= m
      BY <1>6, <3>1 DEF Between
    <3> QED
      BY <1>3, <3>1, <3>2, SeriesEarlier
  <2> QED
    BY <2>2, <2>4, <2>5 DEF Covered
<1>12. ~(m < end)
  BY <1>1, <1>3, <1>4
<1>13. MultibaggerLabel(F, k, c, m)
       = LabelOf(Entries(F, k), SeriesAsOf(F, "bar", m), SeriesAsOf(F, "session", m),
                 ActionsAsOf(F, m), Adjustments(F, m), ListingEnd(F), c, m)
  BY LabelIs
<1> QED
  BY <1>3, <1>5, <1>9, <1>10, <1>11, <1>12, <1>13, NegativeWhen

\* When a label is settled, and what it then says.
Settles(label, entries, series, sessions, actions, divided, c, cutoff, entry, end, hits) ==
    /\ entries # {} /\ entry \in series /\ Barred(actions, entry.date, end) = {}
    /\ \/ /\ hits # {} /\ label.class = "positive"
          /\ label.maturedAt = HitSince(entry, CHOOSE b \in hits : b.date = Min(Days(hits)), divided)
       \/ /\ hits = {} /\ label.class = "negative" /\ ~(cutoff < end)
          /\ Covered(entry, end, series, sessions)
          /\ label.maturedAt = OverSince(entry, end, series, sessions, divided)

LEMMA SettledBy ==
    ASSUME NEW entries, NEW series, NEW sessions, NEW actions, NEW divided, NEW listed, NEW c,
           NEW cutoff, NEW label,
           label = LabelOf(entries, series, sessions, actions, divided, listed, c, cutoff),
           label.class \in {"positive", "negative"},
           NEW entry, entry = CHOOSE b \in entries : TRUE,
           NEW end, end = entry.date + c.years,
           NEW hits, hits = HitsOf(entry, series, divided, c)
    PROVE  Settles(label, entries, series, sessions, actions, divided, c, cutoff, entry, end, hits)
  BY DEF LabelOf, UnsettledAs, Settles

\* Where a listing ends is all that a label takes from outside its source state.
LEMMA ListingsApart ==
    ASSUME NEW S, NEW F, S \subseteq F, \A f \in F : f \in S \/ f.kind = "listing",
           NEW k, NEW c, NEW T
    PROVE  MultibaggerLabel(F, k, c, T)
           = LabelOf(Entries(S, k), SeriesAsOf(S, "bar", T), SeriesAsOf(S, "session", T),
                     ActionsAsOf(S, T), Adjustments(S, T), ListingEnd(F), c, T)
<1>1. \A x : \A kind \in {"bar", "session", "action"} : Visible(F, kind, x) = Visible(S, kind, x)
  BY DEF Visible, OfKind
<1>2. /\ SeriesAsOf(F, "bar", k) = SeriesAsOf(S, "bar", k)
      /\ SeriesAsOf(F, "bar", T) = SeriesAsOf(S, "bar", T)
      /\ SeriesAsOf(F, "session", T) = SeriesAsOf(S, "session", T)
      /\ ActionsAsOf(F, T) = ActionsAsOf(S, T)
  BY <1>1 DEF SeriesAsOf, ActionsAsOf
<1>3. Entries(F, k) = Entries(S, k)
  BY <1>2 DEF Entries
<1>4. Adjustments(F, T) = Adjustments(S, T)
  BY <1>2 DEF Adjustments
<1>5. MultibaggerLabel(F, k, c, T)
      = LabelOf(Entries(F, k), SeriesAsOf(F, "bar", T), SeriesAsOf(F, "session", T),
                ActionsAsOf(F, T), Adjustments(F, T), ListingEnd(F), c, T)
  BY LabelIs
<1> QED
  BY <1>2, <1>3, <1>4, <1>5

\* A settled label could have been given since it matured, from its source state alone.
LEMMA LabelMatures ==
    ASSUME NEW S, AreFacts(S), IsFiniteSet(S),
           \A f \in S : f.kind \in {"bar", "session", "action"},
           NEW F, S \subseteq F, \A f \in F : f \in S \/ f.kind = "listing",
           NEW k, NEW c, c.years \in Nat \ {0}, NEW T \in Nat, Unmoved(S, T),
           NEW label, label = MultibaggerLabel(F, k, c, T),
           label.class \in {"positive", "negative"}
    PROVE  /\ label.maturedAt <= T
           /\ MultibaggerLabel(S, k, c, label.maturedAt).class = label.class
<1>1. label = LabelOf(Entries(S, k), SeriesAsOf(S, "bar", T), SeriesAsOf(S, "session", T),
                      ActionsAsOf(S, T), Adjustments(S, T), ListingEnd(F), c, T)
  BY ListingsApart
<1>2. ListingEnd(S) = OpenEnded
  BY DEF ListingEnd, OfKind, Days
<1> DEFINE entry == CHOOSE b \in Entries(S, k) : TRUE
           end == entry.date + c.years
           series == SeriesAsOf(S, "bar", T)
           sessions == SeriesAsOf(S, "session", T)
           hits == HitsOf(entry, SeriesAsOf(S, "bar", T), Adjustments(S, T), c)
           first == CHOOSE b \in hits : b.date = Min(Days(hits))
<1>3. /\ Entries(S, k) # {} /\ entry \in series /\ Barred(ActionsAsOf(S, T), entry.date, end) = {}
      /\ \/ /\ hits # {} /\ label.class = "positive"
            /\ label.maturedAt = HitSince(entry, first, Adjustments(S, T))
         \/ /\ hits = {} /\ label.class = "negative" /\ ~(T < end)
            /\ Covered(entry, end, series, sessions)
            /\ label.maturedAt = OverSince(entry, end, series, sessions, Adjustments(S, T))
  <2>1. /\ entry = CHOOSE b \in Entries(S, k) : TRUE
        /\ end = entry.date + c.years
        /\ hits = HitsOf(entry, SeriesAsOf(S, "bar", T), Adjustments(S, T), c)
    OBVIOUS
  <2> HIDE DEF entry, end, hits
  <2>2. Settles(label, Entries(S, k), SeriesAsOf(S, "bar", T), SeriesAsOf(S, "session", T),
                ActionsAsOf(S, T), Adjustments(S, T), c, T, entry, end, hits)
    BY ONLY <1>1, <2>1, label.class \in {"positive", "negative"}, SettledBy
  <2> QED
    BY ONLY <2>2 DEF Settles, first, series, sessions
<1>4. CASE hits # {}
  <2>1. label.class = "positive" /\ label.maturedAt = HitSince(entry, first, Adjustments(S, T))
    BY <1>3, <1>4
  <2>2. \A m : m = HitSince(entry, first, Adjustments(S, T)) =>
           m <= T /\ MultibaggerLabel(S, k, c, m).class = "positive"
    <3>1. /\ Entries(S, k) # {} /\ entry \in SeriesAsOf(S, "bar", T)
          /\ Barred(ActionsAsOf(S, T), entry.date, entry.date + c.years) = {}
          /\ hits # {}
      BY <1>3, <1>4
    <3> QED
      BY ONLY AreFacts(S), IsFiniteSet(S), T \in Nat, Unmoved(S, T), <3>1, PositiveMatures
  <2> QED
    BY <2>1, <2>2
<1>5. CASE hits = {}
  <2>1. /\ label.class = "negative"
        /\ label.maturedAt = OverSince(entry, end, series, sessions, Adjustments(S, T))
    BY <1>3, <1>5
  <2>2. \A m : m = OverSince(entry, end, series, sessions, Adjustments(S, T)) =>
           m <= T /\ MultibaggerLabel(S, k, c, m).class = "negative"
    <3>1. /\ Entries(S, k) # {} /\ entry \in SeriesAsOf(S, "bar", T)
          /\ Barred(ActionsAsOf(S, T), entry.date, end) = {}
          /\ HitsOf(entry, SeriesAsOf(S, "bar", T), Adjustments(S, T), c) = {}
          /\ ~(T < end)
          /\ Covered(entry, end, SeriesAsOf(S, "bar", T), SeriesAsOf(S, "session", T))
      BY <1>3, <1>5
    <3> QED
      BY ONLY AreFacts(S), IsFiniteSet(S), c.years \in Nat \ {0}, T \in Nat, Unmoved(S, T), <1>2,
         <3>1, NegativeMatures
  <2> QED
    BY <2>1, <2>2
<1> QED
  BY <1>4, <1>5

-----------------------------------------------------------------------------
(* Labels mature: what a label run is made of.                             *)

\* A label run follows from the source state of its key and from ends of listings.
Follows(lk, run, F) ==
    /\ lk.state \subseteq F /\ \A f \in lk.state : f.kind \in {"bar", "session", "action"}
    /\ \E E \in SUBSET OfKind(F, "listing"), cutoffs \in SUBSET CutoffSet :
          run = Labels(lk.state \cup E, cutoffs, lk.cutoff)

\* A process that labels has read the source state as it still is.
HasRead(t) ==
    t.step = "labels" => t.state = OutcomeSourceState(t.cutoff) /\ \A k \in t.of : k < t.cutoff

MaturityInv ==
    /\ IsFiniteSet(arrived)
    /\ late \subseteq {"listing"} =>
          /\ \A b \in Builder : HasRead(builder[b])
          /\ \A lk \in DOMAIN labelRuns : Follows(lk, labelRuns[lk], Facts)

LEMMA MaturityRests ==
    ASSUME MaturityInv, UNCHANGED <<arrived, late, labelRuns>>,
           \A b \in Builder : builder'[b] = builder[b] \/ builder'[b].step # "labels"
    PROVE  MaturityInv'
<1>1. Facts' = Facts /\ \A cutoff : OutcomeSourceState(cutoff)' = OutcomeSourceState(cutoff)
  BY DEF Facts, OutcomeSourceState
<1> QED
  BY <1>1 DEF MaturityInv, HasRead

LEMMA MaturityArrives ==
    ASSUME EvInv, LabelInv, MaturityInv, NEW a \in Shipment, Arrive(a)
    PROVE  MaturityInv'
<1>1. /\ arrived' = arrived \cup {a} /\ UNCHANGED <<builder, labelRuns>>
      /\ late' = late \cup {f.kind : f \in {g \in Content[a] :
                              \E k \in UsedCutoffs : g.kind = "listing" \/ g.available <= k}}
  BY DEF Arrive
<1>2. IsFiniteSet(arrived')
  BY <1>1, FS_AddElement DEF MaturityInv
<1>3. Facts' = Facts \cup Content[a]
  BY <1>1 DEF Facts
<1>4. ASSUME late' \subseteq {"listing"}
      PROVE  /\ \A b \in Builder : HasRead(builder[b])'
             /\ \A lk \in DOMAIN labelRuns : Follows(lk, labelRuns[lk], Facts')
  <2>1. late \subseteq {"listing"}
    BY <1>1, <1>4
  <2>2. ASSUME NEW b \in Builder
        PROVE  HasRead(builder[b])'
    <3> SUFFICES ASSUME builder[b].step = "labels"
                 PROVE  /\ builder[b].state = OutcomeSourceState(builder[b].cutoff)'
                        /\ \A k \in builder[b].of : k < builder[b].cutoff
      BY <1>1 DEF HasRead
    <3> DEFINE cutoff == builder[b].cutoff
    <3>1. builder[b].state = OutcomeSourceState(cutoff) /\ \A k \in builder[b].of : k < cutoff
      BY <2>1 DEF MaturityInv, HasRead
    <3>2. cutoff \in UsedCutoffs
      BY DEF UsedCutoffs
    <3>3. \A f \in Content[a] : f.available <= cutoff => f.kind = "listing"
      BY <1>1, <1>4, <3>2
    <3>4. OutcomeSourceState(cutoff)' = OutcomeSourceState(cutoff)
      BY <1>1, <1>3, <3>3 DEF OutcomeSourceState
    <3> QED
      BY <1>1, <3>1, <3>4
  <2>3. ASSUME NEW lk \in DOMAIN labelRuns
        PROVE  Follows(lk, labelRuns[lk], Facts')
    <3>1. Follows(lk, labelRuns[lk], Facts)
      BY <2>1 DEF MaturityInv
    <3>2. OfKind(Facts, "listing") \subseteq OfKind(Facts', "listing")
      BY <1>3 DEF OfKind
    <3> QED
      BY <1>3, <3>1, <3>2 DEF Follows
  <2> QED
    BY <2>2, <2>3
<1> QED
  BY <1>1, <1>2, <1>4 DEF MaturityInv

LEMMA MaturityBegins ==
    ASSUME EvInv, MaturityInv, NEW b \in Builder, NEW key, NEW cutoff, BeginLabels(b, key, cutoff)
    PROVE  MaturityInv'
<1> DEFINE t == [step |-> "labels", key |-> key, cutoff |-> cutoff,
                 state |-> OutcomeSourceState(cutoff),
                 of |-> {o.cutoff : o \in backtests[key].observations}]
<1>1. /\ Goes(b, t) /\ UNCHANGED <<arrived, late, labelRuns>>
      /\ \A o \in backtests[key].observations : o.cutoff < cutoff
  BY DEF BeginLabels
<1>2. builder'[b] = t /\ \A c \in Builder \ {b} : builder'[c] = builder[c]
  BY <1>1 DEF Goes, EvInv, EvTyped
<1>3. /\ t.step = "labels" /\ t.cutoff = cutoff /\ t.state = OutcomeSourceState(cutoff)
      /\ \A k \in t.of : k < cutoff
  BY <1>1
<1>4. Facts' = Facts /\ \A k : OutcomeSourceState(k)' = OutcomeSourceState(k)
  BY <1>1 DEF Facts, OutcomeSourceState
<1> HIDE DEF t
<1> QED
  BY <1>1, <1>2, <1>3, <1>4 DEF MaturityInv, HasRead

LEMMA MaturityCommits ==
    ASSUME EvInv, LabelInv, MaturityInv, NEW b \in Builder, CommitLabels(b)
    PROVE  MaturityInv'
<1> DEFINE t == builder[b]
           lk == LabelKey(t.key, t.cutoff, t.state)
           run == Labels(Facts, t.of, lk.cutoff)
<1>1. /\ t.step = "labels" /\ Goes(b, Sleeping) /\ UNCHANGED <<arrived, late>>
      /\ labelRuns' = IF lk \in DOMAIN labelRuns THEN labelRuns ELSE Put(labelRuns, lk, run)
  BY DEF CommitLabels, Step, Stops
<1>2. builder'[b] = Sleeping /\ \A c \in Builder \ {b} : builder'[c] = builder[c]
  BY <1>1 DEF Goes, EvInv, EvTyped
<1>3. Sleeping.step # "labels"
  BY DEF Sleeping
<1>4. lk.cutoff = t.cutoff /\ lk.state = t.state
  BY DEF LabelKey
<1>5. ASSUME late \subseteq {"listing"}
      PROVE  Follows(lk, run, Facts)
  <2>1. t.state = OutcomeSourceState(t.cutoff) /\ \A k \in t.of : k < t.cutoff
    BY <1>1, <1>5 DEF MaturityInv, HasRead
  <2>2. t.of \subseteq CutoffSet /\ t.cutoff \in Nat
    <3>1. IsTask(t, backtests)
      BY <1>1, AtStep
    <3> QED
      BY <1>1, <3>1, HistoricalEvaluationAssumption DEF IsTask, Sleeping
  <2> DEFINE E == OfKind(Facts, "listing")
             G == t.state \cup E
  <2>3. ASSUME NEW k \in t.of, NEW c \in Contract
        PROVE  MultibaggerLabel(Facts, k, c, t.cutoff) = MultibaggerLabel(G, k, c, t.cutoff)
    <3>1. k \in Nat /\ k <= t.cutoff
      <4>1. k \in Nat
        BY <2>2, CutoffSetIs
      <4>2. k < t.cutoff
        BY <2>1
      <4> QED
        BY ONLY <2>2, <4>1, <4>2
    <3>2. \A f \in Facts : f.kind # "listing" => f.available \in Nat
      BY HistoricalEvaluationAssumption DEF Facts, LabelInv
    <3>3. OfKind(Facts, "listing") = OfKind(G, "listing")
      BY <2>1 DEF OfKind, OutcomeSourceState
    <3>4. \A kind \in {"bar", "session", "action"}, x \in {k, t.cutoff} :
             Visible(Facts, kind, x) = Visible(G, kind, x)
      BY <2>1, <2>2, <3>1, <3>2 DEF Visible, OfKind, OutcomeSourceState
    <3> HIDE DEF G
    <3> QED
      BY <3>3, <3>4, LabelOfKnown
  <2>4. run = Labels(G, t.of, t.cutoff)
    BY <1>4, <2>3 DEF Labels
  <2>5. t.state \subseteq Facts /\ \A f \in t.state : f.kind \in {"bar", "session", "action"}
    BY <2>1 DEF OutcomeSourceState
  <2> HIDE DEF run, lk, t
  <2> QED
    BY <1>4, <2>2, <2>4, <2>5 DEF Follows
<1> HIDE DEF run, lk
<1>6. ASSUME late \subseteq {"listing"}
      PROVE  \A q \in DOMAIN labelRuns' : Follows(q, labelRuns'[q], Facts)
  <2>1. \A q \in DOMAIN labelRuns : Follows(q, labelRuns[q], Facts)
    BY <1>6 DEF MaturityInv
  <2> QED
    BY <1>1, <1>5, <1>6, <2>1 DEF Put
<1>7. Facts' = Facts /\ \A k : OutcomeSourceState(k)' = OutcomeSourceState(k)
  BY <1>1 DEF Facts, OutcomeSourceState
<1> QED
  BY <1>1, <1>2, <1>3, <1>6, <1>7 DEF MaturityInv, HasRead

\* A process that moves on to anything but labels leaves them alone.
LEMMA MaturityAdvances ==
    ASSUME EvInv, MaturityInv, NEW b \in Builder, NEW t, Goes(b, t), t.step # "labels",
           UNCHANGED <<arrived, late, labelRuns>>
    PROVE  MaturityInv'
<1>1. builder'[b] = t /\ \A c \in Builder \ {b} : builder'[c] = builder[c]
  BY DEF Goes, EvInv, EvTyped
<1> QED
  BY <1>1, MaturityRests

LEMMA MaturityKept ==
    ASSUME EvInv, LabelInv, MaturityInv, [EvaluationNext]_evVars
    PROVE  MaturityInv'
<1>1. CASE \E a \in Shipment : Arrive(a)
  BY <1>1, MaturityArrives
<1>2. CASE \E b \in Builder : Builds(b)
  <2>1. PICK b \in Builder : Builds(b)
    BY <1>2
  <2>2. CASE \/ BeginDataset(b) \/ Research(b) \/ ResearchFails(b) \/ FreezeObservation(b)
             \/ \E key \in DOMAIN backtests, cutoff \in ReturnCutoff : BeginOutcomes(b, key, cutoff)
    <3>1. \E t : Goes(b, t) /\ t.step # "labels"
      <4>1. \A result, created : Freezes(b, result, created) => \E t : Goes(b, t) /\ t.step # "labels"
        <5> SUFFICES ASSUME NEW result, NEW created, Freezes(b, result, created)
                     PROVE  \E t : Goes(b, t) /\ t.step # "labels"
          OBVIOUS
        <5> DEFINE t == [step |-> "freeze", key |-> builder[b].key, at |-> builder[b].at,
                         previous |-> {result}, observation |-> Observed(b, result, created)]
        <5>1. Goes(b, t) /\ t.step = "freeze"
          BY DEF Freezes
        <5> HIDE DEF t
        <5> QED
          BY <5>1
      <4>2. CASE Research(b) \/ ResearchFails(b)
        <5>1. \E result, created : Freezes(b, result, created)
          BY <4>2 DEF Research, ResearchFails
        <5> QED
          BY <4>1, <5>1
      <4>3. CASE BeginDataset(b)
        <5> DEFINE t == [step |-> "resolve", key |-> SourceState(RunEnd), at |-> 1, previous |-> {}]
        <5>1. Goes(b, t) /\ t.step = "resolve"
          BY <4>3 DEF BeginDataset
        <5> HIDE DEF t
        <5> QED
          BY <5>1
      <4>4. CASE FreezeObservation(b)
        <5>1. Goes(b, Onwards(b)) \/ Goes(b, Sleeping)
          BY <4>4 DEF FreezeObservation, Stops
        <5>2. Onwards(b).step = "resolve" /\ Sleeping.step = "idle"
          BY DEF Onwards, Sleeping
        <5> QED
          BY <5>1, <5>2
      <4>5. CASE \E key \in DOMAIN backtests, cutoff \in ReturnCutoff : BeginOutcomes(b, key, cutoff)
        <5>1. PICK key \in DOMAIN backtests, cutoff \in ReturnCutoff : BeginOutcomes(b, key, cutoff)
          BY <4>5
        <5> DEFINE t == [step |-> "outcomes", key |-> key, cutoff |-> cutoff,
                         left |-> backtests[key].observations]
        <5>2. Goes(b, t) /\ t.step = "outcomes"
          BY <5>1 DEF BeginOutcomes
        <5> HIDE DEF t
        <5> QED
          BY <5>2
      <4> QED
        BY <2>2, <4>2, <4>3, <4>4, <4>5
    <3>2. UNCHANGED <<arrived, late, labelRuns>>
      BY <2>2 DEF BeginDataset, Research, ResearchFails, FreezeObservation, BeginOutcomes
    <3> QED
      BY <3>1, <3>2, MaturityAdvances
  <2>3. CASE Exclude(b)
    <3> DEFINE t == [builder[b] EXCEPT !.at = @ + 1]
    <3>1. Goes(b, t) /\ builder[b].step = "resolve" /\ UNCHANGED <<arrived, late, labelRuns>>
      BY <2>3 DEF Exclude, Resolving, Step
    <3>2. IsTask(builder[b], backtests)
      BY <3>1, AtStep
    <3>3. t.step = "resolve"
      BY <3>1, <3>2 DEF IsTask, Sleeping
    <3> HIDE DEF t
    <3> QED
      BY <3>1, <3>3, MaturityAdvances
  <2>4. CASE FreezeOutcome(b)
    <3> DEFINE o == CHOOSE o \in builder[b].left : \A p \in builder[b].left : o.cutoff <= p.cutoff
               t == [builder[b] EXCEPT !.left = @ \ {o}]
    <3>1. /\ Goes(b, t) \/ Goes(b, Sleeping)
          /\ builder[b].step = "outcomes" /\ UNCHANGED <<arrived, late, labelRuns>>
      BY <2>4 DEF FreezeOutcome, Stops, Step
    <3>2. IsTask(builder[b], backtests)
      BY <3>1, AtStep
    <3>3. t.step = "outcomes" /\ Sleeping.step = "idle"
      <4>1. builder[b] = [step |-> "outcomes", key |-> builder[b].key, cutoff |-> builder[b].cutoff,
                          left |-> builder[b].left]
        BY <3>1, <3>2 DEF IsTask, Sleeping
      <4>2. PICK K, k, L : builder[b] = [step |-> "outcomes", key |-> K, cutoff |-> k, left |-> L]
        BY <4>1
      <4> HIDE DEF o
      <4> QED
        BY <4>2 DEF Sleeping
    <3> HIDE DEF t
    <3> QED
      BY <3>1, <3>3, MaturityAdvances
  <2>5. CASE FinishDataset(b) \/ FinishOutcomes(b)
    <3>1. \E to, cutoff : Closes(b, to, cutoff)
      BY <2>5 DEF FinishDataset, FinishOutcomes
    <3>2. PICK to, cutoff : Closes(b, to, cutoff)
      BY <3>1
    <3> DEFINE t == [step |-> "close", key |-> builder[b].key, cutoff |-> cutoff, to |-> to]
    <3>3. /\ Goes(b, t) \/ Goes(b, Sleeping)
          /\ t.step = "close" /\ Sleeping.step = "idle"
      BY <3>2 DEF Closes, Sleeping
    <3>4. UNCHANGED <<arrived, late, labelRuns>>
      BY <2>5 DEF FinishDataset, FinishOutcomes
    <3> HIDE DEF t
    <3> QED
      BY <3>3, <3>4, MaturityAdvances
  <2>6. CASE CommitStatus(b) \/ Die(b)
    <3>1. Goes(b, Sleeping) /\ UNCHANGED <<arrived, late, labelRuns>> /\ Sleeping.step = "idle"
      BY <2>6 DEF CommitStatus, Die, Stops, Sleeping
    <3> QED
      BY <3>1, MaturityAdvances
  <2> QED
    BY <2>1, <2>2, <2>3, <2>4, <2>5, <2>6, MaturityBegins, MaturityCommits DEF Builds
<1>3. CASE \/ \E key \in DOMAIN backtests : Summarize(key)
           \/ \E lk \in DOMAIN labelRuns :
                 \E cutoffs \in SUBSET DOMAIN labelRuns[lk] : Evaluate(lk, cutoffs)
           \/ \E e \in evaluations : BuildSplit(e)
           \/ UNCHANGED evVars
  <2>1. UNCHANGED <<arrived, late, labelRuns, builder>>
    BY <1>3 DEF Summarize, Evaluate, BuildSplit, evVars
  <2> QED
    BY <2>1, MaturityRests
<1> QED
  BY <1>1, <1>2, <1>3 DEF EvaluationNext

LEMMA MaturityStarts == EvaluationInit => MaturityInv
  BY HistoricalEvaluationAssumption DEF EvaluationInit, MaturityInv, HasRead, Sleeping

THEOREM MaturityInvariant == EvaluationSpec => []MaturityInv
<1>1. EvInv /\ LabelInv /\ MaturityInv /\ [EvaluationNext]_evVars => MaturityInv'
  BY MaturityKept
<1> QED
  BY <1>1, MaturityStarts, EvaluationInvariant, LabelInvariant, PTL DEF EvaluationSpec

\* A label that follows from the key of its run, and could have been given since it matured.
SoundLabel(lk, k, c, label) ==
    /\ \E E \in SUBSET OfKind(Facts, "listing") :
         label = MultibaggerLabel(lk.state \cup E, k, c, lk.cutoff)
    /\ label.class \in {"positive", "negative"} /\ Unmoved(Facts, lk.cutoff) =>
         /\ label.maturedAt <= lk.cutoff
         /\ MultibaggerLabel(lk.state, k, c, label.maturedAt).class = label.class

\* Every label of a run that is kept is a sound one.
LEMMA LabelIsSound ==
    ASSUME LabelInv, MaturityInv, late \subseteq {"listing"}, NEW lk \in DOMAIN labelRuns,
           NEW k \in DOMAIN labelRuns[lk], NEW c \in Contract, NEW label, label = labelRuns[lk][k][c]
    PROVE  SoundLabel(lk, k, c, label)
<1>1. Follows(lk, labelRuns[lk], Facts)
  BY DEF MaturityInv
<1>2. PICK E \in SUBSET OfKind(Facts, "listing"), cutoffs \in SUBSET CutoffSet :
         labelRuns[lk] = Labels(lk.state \cup E, cutoffs, lk.cutoff)
  BY <1>1 DEF Follows
<1> DEFINE F == lk.state \cup E
<1>3. label = MultibaggerLabel(F, k, c, lk.cutoff)
  <2>1. k \in cutoffs
    BY <1>2 DEF Labels
  <2> QED
    BY <1>2, <2>1 DEF Labels
<1>4. lk.state \subseteq Facts /\ \A f \in lk.state : f.kind \in {"bar", "session", "action"}
  BY <1>1 DEF Follows
<1>5. AreFacts(lk.state)
  <2>1. \A f \in Facts : f.kind # "listing" => f.available \in Nat /\ (f.kind # "filing" => f.date \in Nat \ {0})
    BY HistoricalEvaluationAssumption DEF Facts, LabelInv
  <2> QED
    BY <1>4, <2>1 DEF AreFacts
<1>6. IsFiniteSet(lk.state)
  <2> DEFINE B == {Content[a] : a \in arrived}
             f == [a \in arrived |-> Content[a]]
  <2>1. IsFiniteSet(arrived)
    BY DEF MaturityInv
  <2>2. f \in Surjection(arrived, B)
    BY DEF Surjection
  <2>3. IsFiniteSet(B)
    <3> HIDE DEF f, B
    <3> QED
      BY <2>1, <2>2, FS_Surjection
  <2>4. \A S \in B : IsFiniteSet(S)
    BY HistoricalEvaluationAssumption DEF LabelInv
  <2>5. IsFiniteSet(Facts)
    BY <2>3, <2>4, FS_UNION DEF Facts
  <2> QED
    BY <1>4, <2>5, FS_Subset
<1>7. lk.cutoff \in Nat /\ c.years \in Nat \ {0}
  BY HistoricalEvaluationAssumption DEF LabelInv, IsLabelRun
<1>8. ASSUME label.class \in {"positive", "negative"}, Unmoved(Facts, lk.cutoff)
      PROVE  /\ label.maturedAt <= lk.cutoff
             /\ MultibaggerLabel(lk.state, k, c, label.maturedAt).class = label.class
  <2>1. Unmoved(lk.state, lk.cutoff)
    BY <1>4, <1>8 DEF Unmoved, Visible, OfKind
  <2>2. lk.state \subseteq F /\ \A f \in F : f \in lk.state \/ f.kind = "listing"
    BY DEF OfKind
  <2> HIDE DEF F
  <2> QED
    BY ONLY <1>3, <1>4, <1>5, <1>6, <1>7, <1>8, <2>1, <2>2, LabelMatures
<1> QED
  BY <1>3, <1>8 DEF SoundLabel

\* A multibagger label that is settled could have been settled, with the same answer, as
\* soon as it says it had matured (_positive_label_maturity, _negative_label_maturity); and it
\* follows from the source state that its run is keyed by (run_multibagger_labels).
THEOREM LabelsMature == EvaluationSpec => []MaturityIsSound
<1>1. LabelInv /\ MaturityInv => MaturityIsSound
  <2> SUFFICES ASSUME LabelInv, MaturityInv, late \subseteq {"listing"},
                      NEW lk \in DOMAIN labelRuns, NEW k \in DOMAIN labelRuns[lk], NEW c \in Contract
               PROVE  LET label == labelRuns[lk][k][c]
                          ends == OfKind(Facts, "listing")
                      IN /\ \E E \in SUBSET ends :
                               label = MultibaggerLabel(lk.state \cup E, k, c, lk.cutoff)
                         /\ label.class \in {"positive", "negative"} /\ Unmoved(Facts, lk.cutoff) =>
                               /\ label.maturedAt <= lk.cutoff
                               /\ MultibaggerLabel(lk.state, k, c, label.maturedAt).class = label.class
    BY DEF MaturityIsSound
  <2>1. SoundLabel(lk, k, c, labelRuns[lk][k][c])
    BY LabelIsSound
  <2> QED
    BY <2>1 DEF SoundLabel
<1> QED
  BY <1>1, LabelInvariant, MaturityInvariant, PTL
-----------------------------------------------------------------------------
(* Sums over finite sets.                                                  *)

\* g is what SumFunctionOnSet computes with: the sum over every subset of S.
SumsOver(g, w, S) ==
    g = [s \in SUBSET S |->
            IF s = {} THEN 0 ELSE LET x == CHOOSE y \in s : TRUE IN w[x] + g[s \ {x}]]

\* Induction over the subsets of a finite set: no set is bad if the empty one is not, and
\* a bad one has a smaller bad one.
LEMMA NoneIsBad ==
    ASSUME NEW S, IsFiniteSet(S), NEW B \in SUBSET SUBSET S, {} \notin B,
           \A s \in B : \E x \in s : s \ {x} \in B
    PROVE  B = {}
<1> SUFFICES ASSUME B # {}
             PROVE  FALSE
  OBVIOUS
<1>1. \A s \in B : IsFiniteSet(s) /\ Cardinality(s) \in Nat
  BY FS_Subset, FS_CardinalityType
<1> DEFINE Sizes == {Cardinality(s) : s \in B}
<1>2. PICK n \in Sizes : \A m \in Sizes : n <= m
  <2>1. Sizes \in SUBSET Nat /\ Sizes # {}
    BY <1>1
  <2> HIDE DEF Sizes
  <2> QED
    BY <2>1, LeastOf
<1>3. PICK s \in B : n = Cardinality(s)
  BY <1>2
<1>4. PICK x \in s : s \ {x} \in B
  OBVIOUS
<1>5. Cardinality(s \ {x}) = Cardinality(s) - 1
  BY <1>1, FS_RemoveElement
<1>6. n <= Cardinality(s \ {x}) /\ Cardinality(s) \in Nat
  BY <1>1, <1>2, <1>4
<1> QED
  BY <1>3, <1>5, <1>6

AnyOf(s) == CHOOSE y \in s : TRUE

Small(S, n) == {t \in SUBSET S : Cardinality(t) <= n}

\* g has the sums over the subsets of at most n members.
SumsUpTo(g, w, S, n) ==
    /\ g \in [Small(S, n) -> Int]
    /\ \A t \in Small(S, n) : g[t] = IF t = {} THEN 0 ELSE w[AnyOf(t)] + g[t \ {AnyOf(t)}]

LEMMA SumsOfMore ==
    ASSUME NEW S, IsFiniteSet(S), NEW w, \A x \in S : w[x] \in Int, NEW n \in Nat,
           NEW g, SumsUpTo(g, w, S, n)
    PROVE  \E h : SumsUpTo(h, w, S, n + 1)
<1> DEFINE Next1(t) == IF t = {} THEN 0 ELSE w[AnyOf(t)] + g[t \ {AnyOf(t)}]
           h == [t \in Small(S, n + 1) |-> Next1(t)]
<1>1. \A t \in SUBSET S : IsFiniteSet(t) /\ Cardinality(t) \in Nat
  BY FS_Subset, FS_CardinalityType
<1>2. ASSUME NEW t \in Small(S, n + 1), t # {}
      PROVE  AnyOf(t) \in t /\ t \ {AnyOf(t)} \in Small(S, n)
  <2>1. AnyOf(t) \in t
    BY <1>2 DEF AnyOf
  <2>2. IsFiniteSet(t) /\ Cardinality(t) \in Nat /\ Cardinality(t) <= n + 1 /\ t \subseteq S
    BY <1>1 DEF Small
  <2>3. Cardinality(t \ {AnyOf(t)}) = Cardinality(t) - 1
    BY <2>1, <2>2, FS_RemoveElement
  <2>4. Cardinality(t \ {AnyOf(t)}) <= n
    BY <2>2, <2>3
  <2> QED
    BY <2>1, <2>2, <2>4 DEF Small
<1>3. Small(S, n) \subseteq Small(S, n + 1)
  BY <1>1 DEF Small
<1>4. \A t \in Small(S, n + 1) : h[t] = Next1(t)
  OBVIOUS
<1>5. \A t \in Small(S, n + 1) : t # {} => w[AnyOf(t)] \in Int /\ g[t \ {AnyOf(t)}] \in Int
  BY <1>2 DEF SumsUpTo, Small
<1>6. h \in [Small(S, n + 1) -> Int]
  BY <1>5
<1>7. \A t \in Small(S, n) : h[t] = g[t]
  BY <1>3, <1>4 DEF SumsUpTo
<1>8. \A t \in Small(S, n + 1) : h[t] = IF t = {} THEN 0 ELSE w[AnyOf(t)] + h[t \ {AnyOf(t)}]
  BY <1>2, <1>4, <1>7
<1> HIDE DEF h
<1> QED
  BY <1>6, <1>8 DEF SumsUpTo

LEMMA SumsUpToAll ==
    ASSUME NEW S, IsFiniteSet(S), NEW w, \A x \in S : w[x] \in Int, NEW n \in Nat
    PROVE  \E g : SumsUpTo(g, w, S, n)
<1> DEFINE Has(m) == \E g : SumsUpTo(g, w, S, m)
           Bad == {m \in Nat : ~Has(m)}
<1>1. Has(0)
  <2>1. \A t \in Small(S, 0) : t = {}
    <3> SUFFICES ASSUME NEW t \in Small(S, 0)
                 PROVE  t = {}
      OBVIOUS
    <3>1. IsFiniteSet(t) /\ Cardinality(t) \in Nat /\ Cardinality(t) <= 0
      BY FS_Subset, FS_CardinalityType DEF Small
    <3> QED
      BY <3>1, FS_EmptySet
  <2> DEFINE g == [t \in Small(S, 0) |-> 0]
  <2>2. g \in [Small(S, 0) -> Int] /\ \A t \in Small(S, 0) : g[t] = 0
    OBVIOUS
  <2> HIDE DEF g
  <2>3. SumsUpTo(g, w, S, 0)
    BY <2>1, <2>2 DEF SumsUpTo
  <2> QED
    BY <2>3
<1>2. \A m \in Nat : Has(m) => Has(m + 1)
  BY SumsOfMore
<1> HIDE DEF Has
<1>3. Bad = {}
  <2> SUFFICES ASSUME Bad # {}
               PROVE  FALSE
    OBVIOUS
  <2>1. PICK m \in Bad : \A k \in Bad : m <= k
    BY LeastOf
  <2>2. m \in Nat /\ m # 0 /\ ~Has(m)
    BY <1>1
  <2>3. m - 1 \in Nat /\ (m - 1) + 1 = m /\ ~(m <= m - 1)
    BY <2>2
  <2>4. Has(m - 1)
    BY <2>1, <2>3
  <2> QED
    BY <1>2, <2>2, <2>3, <2>4
<1> QED
  BY <1>3 DEF Has

\* There are such sums, and they are whole.
LEMMA SumsExist ==
    ASSUME NEW S, IsFiniteSet(S), NEW w, \A x \in S : w[x] \in Int
    PROVE  \E g \in [SUBSET S -> Int] : SumsOver(g, w, S)
<1> DEFINE n == Cardinality(S)
<1>1. n \in Nat /\ Small(S, n) = SUBSET S
  BY FS_CardinalityType, FS_Subset DEF Small
<1> HIDE DEF n
<1>2. PICK g : SumsUpTo(g, w, S, n)
  BY <1>1, SumsUpToAll
<1>3. g \in [SUBSET S -> Int] /\ \A t \in SUBSET S :
         g[t] = IF t = {} THEN 0 ELSE w[AnyOf(t)] + g[t \ {AnyOf(t)}]
  BY <1>1, <1>2 DEF SumsUpTo
<1>4. SumsOver(g, w, S)
  BY <1>3 DEF SumsOver, AnyOf
<1> QED
  BY <1>3, <1>4

\* What such sums are over any subset.
LEMMA SumsAre ==
    ASSUME NEW S, NEW w, NEW g, SumsOver(g, w, S), NEW s \in SUBSET S
    PROVE  g[s] = IF s = {} THEN 0 ELSE w[AnyOf(s)] + g[s \ {AnyOf(s)}]
  BY DEF SumsOver, AnyOf

\* Sums of what is equal are equal.
LEMMA SumsAgree ==
    ASSUME NEW S, NEW T, NEW w, NEW v, NEW g, NEW h, SumsOver(g, w, S), SumsOver(h, v, T),
           NEW R \in SUBSET S, R \subseteq T, IsFiniteSet(R), \A x \in R : w[x] = v[x]
    PROVE  g[R] = h[R]
<1> DEFINE B == {s \in SUBSET R : g[s] # h[s]}
<1>1. B \in SUBSET SUBSET R
  OBVIOUS
<1>2. g[{}] = 0 /\ h[{}] = 0
  BY SumsAre
<1>3. ASSUME NEW s \in B
      PROVE  \E x \in s : s \ {x} \in B
  <2>1. s # {}
    BY <1>2
  <2>2. AnyOf(s) \in s
    BY <2>1 DEF AnyOf
  <2>3. s \in SUBSET S /\ s \in SUBSET T
    OBVIOUS
  <2>4. g[s] = w[AnyOf(s)] + g[s \ {AnyOf(s)}] /\ h[s] = v[AnyOf(s)] + h[s \ {AnyOf(s)}]
    BY <2>1, <2>3, SumsAre
  <2> QED
    BY <2>2, <2>4
<1>4. {} \notin B
  BY <1>2
<1> HIDE DEF B
<1>5. B = {}
  BY <1>1, <1>3, <1>4, NoneIsBad
<1> QED
  BY <1>5 DEF B

\* The sum is the same whichever member is taken first.
TakesAny(g, w, S) == \A s \in SUBSET S : \A x \in s : g[s] = w[x] + g[s \ {x}]

LEMMA SumsTakeAny ==
    ASSUME NEW S, IsFiniteSet(S), NEW w, \A x \in S : w[x] \in Int,
           NEW g \in [SUBSET S -> Int], SumsOver(g, w, S)
    PROVE  TakesAny(g, w, S)
<1> DEFINE Good(t, y) == g[t] = w[y] + g[t \ {y}]
           B == {t \in SUBSET S : \E y \in t : ~Good(t, y)}
<1>1. ASSUME NEW t \in B
      PROVE  \E y \in t : t \ {y} \in B
  <2>1. PICK y \in t : ~Good(t, y)
    OBVIOUS
  <2> DEFINE z == AnyOf(t)
  <2>2. z \in t /\ Good(t, z)
    BY SumsAre DEF AnyOf
  <2> HIDE DEF z
  <2>3. SUFFICES ASSUME t \ {y} \notin B, t \ {z} \notin B
                 PROVE  FALSE
    BY <2>2
  <2>4. y # z
    BY <2>1, <2>2
  <2>5. Good(t \ {y}, z) /\ Good(t \ {z}, y)
    BY <2>2, <2>3, <2>4
  <2>6. (t \ {y}) \ {z} = (t \ {z}) \ {y}
    OBVIOUS
  <2>7. PICK a \in Int, b \in Int, k \in Int : a = w[y] /\ b = w[z] /\ k = g[(t \ {y}) \ {z}]
    BY <2>2
  <2>8. g[t \ {y}] = b + k /\ g[t \ {z}] = a + k
    BY <2>5, <2>6, <2>7
  <2>9. g[t] = b + (a + k) /\ g[t] # a + (b + k)
    BY <2>1, <2>2, <2>7, <2>8
  <2> QED
    BY <2>9
<1>2. B \in SUBSET SUBSET S /\ {} \notin B
  OBVIOUS
<1> HIDE DEF B
<1>3. B = {}
  BY <1>1, <1>2, NoneIsBad
<1> QED
  BY <1>3 DEF B, TakesAny

LEMMA SumIs ==
    ASSUME NEW S, IsFiniteSet(S), NEW w, \A x \in S : w[x] \in Int
    PROVE  \E g \in [SUBSET S -> Int] : SumsOver(g, w, S) /\ SumFunctionOnSet(w, S) = g[S]
<1> DEFINE g == CHOOSE g : SumsOver(g, w, S)
<1>1. PICK h \in [SUBSET S -> Int] : SumsOver(h, w, S)
  BY SumsExist
<1>2. SumsOver(g, w, S)
  BY <1>1 DEF SumsOver
<1>3. SumFunctionOnSet(w, S) = g[S]
  BY DEF SumsOver, SumFunctionOnSet, FoldFunctionOnSet, MapThenFoldSet
<1> HIDE DEF g
<1>4. g[S] = h[S]
  BY <1>1, <1>2, SumsAgree
<1> QED
  BY <1>1, <1>3, <1>4

LEMMA SumOfNone ==
    ASSUME NEW w
    PROVE  SumFunctionOnSet(w, {}) = 0
<1>1. PICK g : SumsOver(g, w, {}) /\ SumFunctionOnSet(w, {}) = g[{}]
  BY FS_EmptySet, SumIs
<1> QED
  BY <1>1, SumsAre

LEMMA SumOfEqual ==
    ASSUME NEW S, IsFiniteSet(S), NEW w, NEW v, \A x \in S : w[x] \in Int /\ v[x] = w[x]
    PROVE  SumFunctionOnSet(v, S) = SumFunctionOnSet(w, S)
<1>1. PICK g : SumsOver(g, w, S) /\ SumFunctionOnSet(w, S) = g[S]
  BY SumIs
<1>2. \A x \in S : v[x] \in Int
  OBVIOUS
<1>3. PICK h : SumsOver(h, v, S) /\ SumFunctionOnSet(v, S) = h[S]
  BY <1>2, SumIs
<1>4. g[S] = h[S]
  BY <1>1, <1>3, SumsAgree
<1> QED
  BY <1>1, <1>3, <1>4

LEMMA SumOfOneMore ==
    ASSUME NEW S, IsFiniteSet(S), NEW w, \A x \in S : w[x] \in Int, NEW x \in S
    PROVE  /\ SumFunctionOnSet(w, S) \in Int /\ SumFunctionOnSet(w, S \ {x}) \in Int
           /\ SumFunctionOnSet(w, S) = w[x] + SumFunctionOnSet(w, S \ {x})
<1> DEFINE R == S \ {x}
<1>1. PICK g \in [SUBSET S -> Int] : SumsOver(g, w, S) /\ SumFunctionOnSet(w, S) = g[S]
  BY SumIs
<1>2. R \in SUBSET S /\ R \subseteq R /\ IsFiniteSet(R) /\ \A y \in R : w[y] \in Int
  BY FS_Subset
<1>3. g[S] = w[x] + g[R]
  <2>1. TakesAny(g, w, S)
    BY <1>1, SumsTakeAny
  <2> QED
    BY <2>1 DEF TakesAny
<1> HIDE DEF R
<1>4. PICK h \in [SUBSET R -> Int] : SumsOver(h, w, R) /\ SumFunctionOnSet(w, R) = h[R]
  BY <1>2, SumIs
<1>5. g[R] = h[R]
  BY <1>1, <1>2, <1>4, SumsAgree
<1>6. g[R] \in Int /\ g[S] \in Int
  BY <1>1, <1>2
<1> QED
  BY <1>1, <1>3, <1>4, <1>5, <1>6 DEF R

\* A sum of what is not negative, of what is positive, of nothing, and of less.
LEMMA SumOfNaturals ==
    ASSUME NEW S, IsFiniteSet(S), NEW w, \A x \in S : w[x] \in Nat
    PROVE  SumFunctionOnSet(w, S) \in Nat
<1> DEFINE B == {s \in SUBSET S : SumFunctionOnSet(w, s) \notin Nat}
<1>1. B \in SUBSET SUBSET S /\ {} \notin B
  BY SumOfNone
<1>2. ASSUME NEW s \in B
      PROVE  \E x \in s : s \ {x} \in B
  <2>1. PICK x \in s : TRUE
    BY SumOfNone
  <2>2. IsFiniteSet(s) /\ w[x] \in Nat /\ \A y \in s : w[y] \in Int
    BY FS_Subset
  <2>3. /\ SumFunctionOnSet(w, s) = w[x] + SumFunctionOnSet(w, s \ {x})
        /\ SumFunctionOnSet(w, s \ {x}) \in Int
    BY <2>2, SumOfOneMore
  <2>4. SumFunctionOnSet(w, s \ {x}) \notin Nat
    BY <2>2, <2>3
  <2> QED
    BY <2>4
<1> HIDE DEF B
<1>3. B = {}
  BY <1>1, <1>2, NoneIsBad
<1> QED
  BY <1>3 DEF B

LEMMA SumOfPositives ==
    ASSUME NEW S, IsFiniteSet(S), NEW w, \A x \in S : w[x] \in Nat \ {0}, S # {}
    PROVE  SumFunctionOnSet(w, S) \in Nat \ {0}
<1>1. PICK x \in S : TRUE
  OBVIOUS
<1>2. SumFunctionOnSet(w, S) = w[x] + SumFunctionOnSet(w, S \ {x})
  BY SumOfOneMore
<1>3. IsFiniteSet(S \ {x}) /\ \A y \in S \ {x} : w[y] \in Nat
  BY FS_Subset
<1>4. SumFunctionOnSet(w, S \ {x}) \in Nat
  BY <1>3, SumOfNaturals
<1> QED
  BY <1>2, <1>4

LEMMA SumOfTwo ==
    ASSUME NEW S, IsFiniteSet(S), NEW w, \A x \in S : w[x] \in Int, NEW R \in SUBSET S
    PROVE  SumFunctionOnSet(w, S) = SumFunctionOnSet(w, R) + SumFunctionOnSet(w, S \ R)
<1> DEFINE Total(s) == SumFunctionOnSet(w, s)
           B == {s \in SUBSET R : Total((S \ R) \cup s) # Total(s) + Total(S \ R)}
<1>0. \A s \in SUBSET S : IsFiniteSet(s) /\ \A y \in s : w[y] \in Int
  BY FS_Subset
<1>1. \A s \in SUBSET S : Total(s) \in Int
  <2> SUFFICES ASSUME NEW s \in SUBSET S
               PROVE  Total(s) \in Int
    OBVIOUS
  <2>1. CASE s = {}
    BY <2>1, SumOfNone
  <2>2. CASE s # {}
    <3>1. PICK x \in s : TRUE
      BY <2>2
    <3> QED
      BY <1>0, SumOfOneMore
  <2> QED
    BY <2>1, <2>2
<1>2. Total({}) = 0
  BY SumOfNone
<1>3. ASSUME NEW s \in SUBSET S, NEW x \in s
      PROVE  Total(s) = w[x] + Total(s \ {x})
  <2>1. IsFiniteSet(s) /\ \A y \in s : w[y] \in Int
    BY <1>0
  <2> QED
    BY <2>1, SumOfOneMore
<1> HIDE DEF Total
<1>4. B \in SUBSET SUBSET R /\ {} \notin B
  BY <1>1, <1>2
<1>5. ASSUME NEW s \in B
      PROVE  \E x \in s : s \ {x} \in B
  <2>1. PICK x \in s : TRUE
    BY <1>4
  <2>2. ((S \ R) \cup s) \ {x} = (S \ R) \cup (s \ {x}) /\ x \in (S \ R) \cup s
    OBVIOUS
  <2>3. (S \ R) \cup s \in SUBSET S /\ s \in SUBSET S
    OBVIOUS
  <2>4. Total((S \ R) \cup s) = w[x] + Total((S \ R) \cup (s \ {x})) /\ Total(s) = w[x] + Total(s \ {x})
    BY <1>3, <2>2, <2>3
  <2>5. /\ Total((S \ R) \cup (s \ {x})) \in Int /\ Total(s \ {x}) \in Int /\ Total(S \ R) \in Int
        /\ w[x] \in Int
    BY <1>1
  <2>6. Total((S \ R) \cup (s \ {x})) # Total(s \ {x}) + Total(S \ R)
    BY <2>4, <2>5
  <2> QED
    BY <2>6
<1> HIDE DEF B
<1>6. IsFiniteSet(R) /\ B = {}
  BY <1>4, <1>5, FS_Subset, NoneIsBad
<1>7. Total((S \ R) \cup R) = Total(R) + Total(S \ R)
  BY <1>6 DEF B
<1>8. (S \ R) \cup R = S
  OBVIOUS
<1> QED
  BY <1>7, <1>8 DEF Total

LEMMA SumOfLess ==
    ASSUME NEW S, IsFiniteSet(S), NEW v, NEW w, NEW k \in Nat,
           \A x \in S : v[x] \in Nat /\ w[x] \in Nat /\ v[x] <= k * w[x]
    PROVE  SumFunctionOnSet(v, S) <= k * SumFunctionOnSet(w, S)
<1> DEFINE B == {s \in SUBSET S : ~(SumFunctionOnSet(v, s) <= k * SumFunctionOnSet(w, s))}
<1>1. B \in SUBSET SUBSET S /\ {} \notin B
  BY SumOfNone
<1>2. ASSUME NEW s \in B
      PROVE  \E x \in s : s \ {x} \in B
  <2>1. PICK x \in s : TRUE
    BY <1>1
  <2>2. /\ IsFiniteSet(s) /\ \A y \in s : w[y] \in Nat /\ v[y] \in Nat /\ w[y] \in Int /\ v[y] \in Int
        /\ IsFiniteSet(s \ {x})
    BY FS_Subset
  <2>3. PICK a \in Nat, b \in Nat, c \in Nat, d \in Nat :
           /\ a = SumFunctionOnSet(w, s \ {x}) /\ b = SumFunctionOnSet(v, s \ {x})
           /\ c = w[x] /\ d = v[x] /\ d <= k * c
    BY <2>2, SumOfNaturals
  <2>4. SumFunctionOnSet(w, s) = c + a /\ SumFunctionOnSet(v, s) = d + b
    BY <2>2, <2>3, SumOfOneMore
  <2>5. ~(d + b <= k * (c + a))
    BY <2>4
  <2>6. k * (c + a) = k * c + k * a /\ k * c \in Nat /\ k * a \in Nat
    OBVIOUS
  <2>7. ~(b <= k * a)
    BY <2>3, <2>5, <2>6
  <2> QED
    BY <2>3, <2>7
<1> HIDE DEF B
<1>3. B = {}
  BY <1>1, <1>2, NoneIsBad
<1> QED
  BY <1>3 DEF B

-----------------------------------------------------------------------------
(* What research writes is what the repository accepts.                    *)

\* What every part of the research relies on in a policy.
IsPolicy(policy) ==
    /\ policy.weight \in [TopLevel -> Int]
    /\ ValidWeights(policy)
    /\ policy.contexts \in Seq(Range(policy.contexts))

LEMMA PoliciesAre ==
    ASSUME NEW r \in Release
    PROVE  IsPolicy(PolicyOf[r.profile])
  BY SnapshotAssumption DEF IsPolicy

\* A score of an item is on the scale, and weighs something in all but the first algorithm.
LEMMA AttemptIsOnScale ==
    ASSUME NEW a, NEW policy, NEW c, NEW item, IsItem(item), NEW s \in Attempt(a, policy, c, item)
    PROVE  s \in 0..100 /\ (a # 1 => policy.weight[c] > 0)
  BY DEF Attempt, IsItem

\* The context that is selected is none, or one of the evidence in which something is scored.
LEMMA ContextIs ==
    ASSUME NEW a, NEW policy, IsPolicy(policy), NEW e, IsEvidence(e),
           NEW x, x = SelectedContext(a, policy, e), x # NoItem
    PROVE  /\ e.eligible /\ x \in DOMAIN e.contexts
           /\ \E c \in InContext \cap ComponentsOf(a) : ScoreOf(a, policy, e, x, c) # {}
<1> DEFINE Scoreable(y) ==
              /\ y \in DOMAIN e.contexts
              /\ \E c \in InContext \cap ComponentsOf(a) : AttemptIn(a, policy, e, y, c) # {}
           places == {i \in DOMAIN policy.contexts : Scoreable(policy.contexts[i])}
<1>1. x = IF e.eligible /\ places # {} THEN policy.contexts[Min(places)] ELSE NoItem
  BY DEF SelectedContext
<1>2. e.eligible /\ places # {} /\ x = policy.contexts[Min(places)]
  BY <1>1
<1>3. Min(places) \in places
  <2>1. places \in SUBSET Nat
    BY DEF IsPolicy
  <2> HIDE DEF places
  <2> QED
    BY <1>2, <2>1, MinOf
<1>4. Scoreable(x)
  BY <1>2, <1>3
<1>5. \A c \in InContext : ScoreOf(a, policy, e, x, c) = AttemptIn(a, policy, e, x, c)
  BY DEF ScoreOf, ItemOf, AttemptIn, InContext, Financial
<1> QED
  BY <1>2, <1>4, <1>5

LEMMA ScoreIsOnScale ==
    ASSUME NEW a, NEW policy, NEW e, IsEvidence(e), NEW x, x = NoItem \/ x \in DOMAIN e.contexts,
           NEW c \in TopLevel, NEW s \in ScoreOf(a, policy, e, x, c)
    PROVE  s \in 0..100 /\ (a # 1 => policy.weight[c] > 0)
<1>1. x # NoItem /\ s \in Attempt(a, policy, c, ItemOf(e, x, c))
  BY DEF ScoreOf
<1>2. IsItem(ItemOf(e, x, c))
  <2>1. CASE c \in InContext
    <3>1. ItemOf(e, x, c) = e.contexts[x][c]
      BY <2>1 DEF ItemOf, InContext, Financial
    <3> QED
      BY <1>1, <2>1, <3>1 DEF IsEvidence
  <2>2. CASE c = "market_structure"
    BY <1>1, <2>2 DEF ItemOf, IsEvidence, InContext, Financial
  <2>3. CASE c = "low_market_attention"
    BY <1>1, <2>3 DEF ItemOf, IsEvidence, InContext, Financial
  <2>4. CASE c = "business_catalyst"
    <3>1. ItemOf(e, x, c) = IF x \in DOMAIN e.events THEN e.events[x] ELSE NoItem
      BY <2>4 DEF ItemOf, InContext, Financial
    <3> QED
      BY <3>1 DEF IsEvidence, IsItem
  <2> QED
    BY <2>1, <2>2, <2>3, <2>4 DEF TopLevel
<1> QED
  BY <1>1, <1>2, AttemptIsOnScale

LEMMA ComponentsFinite ==
    /\ \A a \in 1..5 : ComponentsOf(a) \subseteq TopLevel
    /\ IsFiniteSet(TopLevel)
<1>1. \A a \in 1..5 : ComponentsOf(a) \subseteq TopLevel
  BY DEF ComponentsOf, TopLevel, InContext, Financial
<1>2. IsFiniteSet(TopLevel)
  <2>1. \A c : IsFiniteSet({c})
    BY FS_Singleton
  <2>2. /\ TopLevel = Financial
                         \cup ({"valuation"} \cup ({"market_structure"}
                                \cup ({"business_catalyst"} \cup {"low_market_attention"})))
        /\ Financial = {"financial_inflection"}
                          \cup ({"business_quality"} \cup ({"cash_flow_quality"} \cup {"balance_sheet"}))
    BY DEF TopLevel, InContext, Financial
  <2> QED
    BY <2>1, <2>2, FS_Union
<1> QED
  BY <1>1, <1>2

\* What the weights of a policy add up to.
LEMMA WeightsAdd ==
    ASSUME NEW policy, IsPolicy(policy), NEW have, have \subseteq Required(policy)
    PROVE  /\ WeightOf(policy, have) \in Nat /\ WeightOf(policy, Required(policy) \ have) \in Nat
           /\ WeightOf(policy, have) + WeightOf(policy, Required(policy) \ have) = 100
           /\ \A S \in SUBSET Required(policy) : S # {} => WeightOf(policy, S) \in Nat \ {0}
<1> DEFINE w == policy.weight
           R == Required(policy)
<1>1. IsFiniteSet(TopLevel)
  BY ComponentsFinite
<1>2. \A c \in TopLevel : w[c] \in Int /\ w[c] \in Nat
  BY DEF IsPolicy, ValidWeights
<1>3. SumFunctionOnSet(w, TopLevel) = 100
  BY DEF IsPolicy, ValidWeights, WeightOf
<1>4. R \in SUBSET TopLevel /\ \A c \in R : w[c] \in Nat \ {0} /\ w[c] \in Nat /\ w[c] \in Int
  BY <1>2 DEF Required
<1>5. IsFiniteSet(R) /\ IsFiniteSet(TopLevel \ R)
  BY <1>1, <1>4, FS_Subset
<1>6. \A c \in TopLevel \ R : w[c] = 0
  BY <1>2 DEF Required
<1> HIDE DEF R, w
<1>7. SumFunctionOnSet(w, R) = 100
  <2>1. SumFunctionOnSet(w, TopLevel) = SumFunctionOnSet(w, R) + SumFunctionOnSet(w, TopLevel \ R)
    BY <1>1, <1>2, <1>4, SumOfTwo
  <2>2. SumFunctionOnSet(w, TopLevel \ R) <= 0
    <3>1. \A c \in TopLevel \ R : w[c] \in Nat /\ w[c] <= 0 * w[c]
      BY <1>6
    <3>2. SumFunctionOnSet(w, TopLevel \ R) <= 0 * SumFunctionOnSet(w, TopLevel \ R)
      BY <1>5, <3>1, SumOfLess
    <3>3. SumFunctionOnSet(w, TopLevel \ R) \in Nat
      BY <1>5, <3>1, SumOfNaturals
    <3> QED
      BY <3>2, <3>3
  <2>3. SumFunctionOnSet(w, TopLevel \ R) \in Nat /\ SumFunctionOnSet(w, R) \in Nat
    BY <1>4, <1>5, <1>6, SumOfNaturals
  <2> QED
    BY <1>3, <2>1, <2>2, <2>3
<1>8. have \in SUBSET R
  BY DEF R
<1>9. SumFunctionOnSet(w, R) = SumFunctionOnSet(w, have) + SumFunctionOnSet(w, R \ have)
  BY <1>4, <1>5, <1>8, SumOfTwo
<1>10. /\ IsFiniteSet(have) /\ \A c \in have : w[c] \in Nat
       /\ IsFiniteSet(R \ have) /\ \A c \in R \ have : w[c] \in Nat
  BY <1>4, <1>5, <1>8, FS_Subset
<1>11. SumFunctionOnSet(w, have) \in Nat /\ SumFunctionOnSet(w, R \ have) \in Nat
  BY <1>10, SumOfNaturals
<1>12. ASSUME NEW S \in SUBSET R, S # {}
       PROVE  SumFunctionOnSet(w, S) \in Nat \ {0}
  <2>1. IsFiniteSet(S) /\ \A c \in S : w[c] \in Nat \ {0}
    BY <1>4, <1>5, FS_Subset
  <2> QED
    BY <1>12, <2>1, SumOfPositives
<1> QED
  BY <1>7, <1>9, <1>11, <1>12 DEF R, w, WeightOf

\* The components that are scored.
Scored(a, policy, e, x) == {d \in ComponentsOf(a) : ScoreOf(a, policy, e, x, d) # {}}

\* What scores add up to.
FinalOf(s, policy, have) == SumFunction([d \in have |-> s.components[d].score * policy.weight[d]])

\* What a snapshot consists of.
IsComposedOf(s, a, policy, e, x, have, missing, complete) ==
    /\ s.algorithm = a /\ s.missing = missing /\ s.coverage = WeightOf(policy, have)
    /\ PolicyOf[s.configuration.profile] = policy
    /\ s.status = StatusOf(a, e, x, complete)
    /\ DOMAIN s.components = have
    /\ \A d \in have :
          /\ s.components[d].score \in ScoreOf(a, policy, e, x, d)
          /\ s.components[d].weight = policy.weight[d]
          /\ s.components[d].contribution =
                IF complete THEN s.components[d].score * policy.weight[d] ELSE Unscored
    /\ s.final = IF complete THEN FinalOf(s, policy, have) ELSE Unscored

LEMMA SnapshotParts ==
    ASSUME NEW a, NEW c, NEW k, NEW e
    PROVE  LET policy == PolicyOf[c.profile]
               x == SelectedContext(a, policy, e)
               have == Scored(a, policy, e, x)
               missing == Required(policy) \ have
               complete == a = 5 /\ x # NoItem /\ missing = {} /\ WeightOf(policy, have) = 100
           IN IsComposedOf(Snapshot(a, c, k, e), a, policy, e, x, have, missing, complete)
<1> DEFINE policy == PolicyOf[c.profile]
           x == SelectedContext(a, policy, e)
           have == Scored(a, policy, e, x)
           missing == Required(policy) \ have
           complete == a = 5 /\ x # NoItem /\ missing = {} /\ WeightOf(policy, have) = 100
           s == Snapshot(a, c, k, e)
           Score(d) == CHOOSE n \in ScoreOf(a, policy, e, x, d) : TRUE
           Part(d) == [score |-> Score(d), weight |-> policy.weight[d],
                       contribution |-> IF complete THEN Score(d) * policy.weight[d] ELSE Unscored]
           status == StatusOf(a, e, x, complete)
           coverage == WeightOf(policy, have)
           final == IF complete THEN SumFunction([d \in have |-> Score(d) * policy.weight[d]])
                    ELSE Unscored
           parts == [d \in have |-> Part(d)]
<1> SUFFICES IsComposedOf(s, a, policy, e, x, have, missing, complete)
  OBVIOUS
<1>1. s = [algorithm |-> a, configuration |-> c, cutoff |-> k,
           evidence |-> e, context |-> x, missing |-> missing,
           status |-> status, components |-> parts, coverage |-> coverage, final |-> final]
  BY Zenon DEF Snapshot, Scored
<1>2. policy = PolicyOf[c.profile] /\ status = StatusOf(a, e, x, complete) /\ coverage = WeightOf(policy, have)
  OBVIOUS
<1>3. \A d \in have : Score(d) \in ScoreOf(a, policy, e, x, d)
  BY DEF Scored
<1>4. final = IF complete THEN SumFunction([d \in have |-> Score(d) * policy.weight[d]]) ELSE Unscored
  OBVIOUS
<1> HIDE DEF Score
<1>5. \A d \in have : /\ Part(d).score = Score(d) /\ Part(d).weight = policy.weight[d]
                      /\ Part(d).contribution = IF complete THEN Score(d) * policy.weight[d] ELSE Unscored
  OBVIOUS
<1> HIDE DEF Part
<1>6. DOMAIN parts = have /\ \A d \in have : parts[d] = Part(d)
  OBVIOUS
<1> HIDE DEF parts, status, coverage, final, complete, missing, have, x, policy
<1>7. /\ s.algorithm = a /\ s.configuration = c /\ s.missing = missing /\ s.status = status
      /\ s.components = parts /\ s.coverage = coverage /\ s.final = final
  BY ONLY <1>1
<1> HIDE DEF s
<1>8. \A d \in have : s.components[d].score = Score(d)
  BY <1>5, <1>6, <1>7
<1>9. [d \in have |-> Score(d) * policy.weight[d]] = [d \in have |-> s.components[d].score * policy.weight[d]]
  BY <1>8
<1> QED
  BY <1>2, <1>3, <1>4, <1>5, <1>6, <1>7, <1>9 DEF IsComposedOf, FinalOf

\* The weights of the parts of a snapshot add up to its coverage.
LEMMA WeightsCover ==
    ASSUME NEW policy, IsPolicy(policy), NEW have \in SUBSET TopLevel, NEW s,
           DOMAIN s.components = have, \A d \in have : s.components[d].weight = policy.weight[d]
    PROVE  Summed(s, "weight") = WeightOf(policy, have)
<1> DEFINE f == [d \in have |-> s.components[d]["weight"]]
<1>1. DOMAIN f = have /\ \A d \in have : f[d] = policy.weight[d]
  OBVIOUS
<1>2. IsFiniteSet(have) /\ \A d \in have : policy.weight[d] \in Int
  BY ComponentsFinite, FS_Subset DEF IsPolicy
<1>3. Summed(s, "weight") = SumFunctionOnSet(f, DOMAIN f)
  BY DEF Summed, SumFunction
<1> HIDE DEF f
<1>4. SumFunctionOnSet(f, have) = SumFunctionOnSet(policy.weight, have)
  BY <1>1, <1>2, SumOfEqual
<1> QED
  BY <1>1, <1>3, <1>4 DEF WeightOf

\* The parts of a final score, with their weights.
IsWeighed(s, policy, have) ==
    /\ have \in SUBSET TopLevel /\ DOMAIN s.components = have
    /\ WeightOf(policy, have) = 100
    /\ \A d \in have : /\ s.components[d].score \in 0..100
                       /\ s.components[d].contribution = s.components[d].score * policy.weight[d]
    /\ s.final = FinalOf(s, policy, have)

\* A final score is on its scale, and is what the parts contribute.
LEMMA FinalIsOnScale ==
    ASSUME NEW policy, IsPolicy(policy), NEW have, NEW s, IsWeighed(s, policy, have)
    PROVE  s.final \in 0..100 * 100 /\ s.final = Summed(s, "contribution")
<1>0. /\ have \in SUBSET TopLevel /\ DOMAIN s.components = have
      /\ WeightOf(policy, have) = 100
      /\ \A d \in have :
            /\ s.components[d].score \in 0..100
            /\ s.components[d].contribution = s.components[d].score * policy.weight[d]
      /\ s.final = FinalOf(s, policy, have)
  BY DEF IsWeighed
<1> USE <1>0
<1> DEFINE f == [d \in have |-> s.components[d].score * policy.weight[d]]
           w == policy.weight
<1>1. DOMAIN f = have /\ s.final = SumFunctionOnSet(f, have)
  BY DEF SumFunction, FinalOf
<1>2. Summed(s, "contribution") = SumFunction(f)
  <2>1. f = [d \in have |-> s.components[d]["contribution"]]
    OBVIOUS
  <2> HIDE DEF f
  <2> QED
    BY <2>1 DEF Summed
<1>3. IsFiniteSet(have)
  BY ComponentsFinite, FS_Subset
<1>4. ASSUME NEW d \in have
      PROVE  f[d] \in Nat /\ w[d] \in Nat /\ f[d] <= 100 * w[d]
  <2>1. PICK m \in Nat, n \in Nat : m = s.components[d].score /\ m <= 100 /\ n = w[d]
    <3>1. s.components[d].score \in 0..100
      OBVIOUS
    <3>2. w[d] \in Nat
      BY DEF IsPolicy, ValidWeights
    <3>3. s.components[d].score \in Nat /\ s.components[d].score <= 100
      BY ONLY <3>1
    <3> QED
      BY <3>2, <3>3
  <2>2. f[d] = m * n
    BY <2>1
  <2>3. m * n \in Nat /\ m * n <= 100 * n
    BY <2>1
  <2> QED
    BY <2>1, <2>2, <2>3
<1>5. s.final = SumFunction(f)
  BY DEF FinalOf
<1> HIDE DEF f
<1>6. SumFunctionOnSet(f, have) \in Nat
  BY <1>3, <1>4, SumOfNaturals
<1>7. SumFunctionOnSet(f, have) <= 100 * SumFunctionOnSet(w, have)
  BY <1>3, <1>4, SumOfLess
<1>8. SumFunctionOnSet(w, have) = 100
  BY DEF WeightOf
<1>9. SumFunctionOnSet(f, have) \in 0..100 * 100
  <2>1. PICK m \in Nat : m = SumFunctionOnSet(f, have)
    BY ONLY <1>6
  <2>2. m <= 100 * 100
    BY ONLY <1>7, <1>8, <2>1
  <2>3. m \in 0..100 * 100
    BY ONLY <2>2, m \in Nat
  <2> QED
    BY ONLY <2>1, <2>3
<1> QED
  BY ONLY SMTT(30), <1>1, <1>2, <1>5, <1>9

\* What an algorithm composes of proper evidence, by a proper policy, is valid.
LEMMA SnapshotIsValid ==
    ASSUME NEW a \in 1..5, NEW c \in Release, NEW k, NEW e, IsEvidence(e)
    PROVE  ValidSnapshot(Snapshot(a, c, k, e))
<1> DEFINE policy == PolicyOf[c.profile]
           x == SelectedContext(a, policy, e)
           have == Scored(a, policy, e, x)
           missing == Required(policy) \ have
           complete == a = 5 /\ x # NoItem /\ missing = {} /\ WeightOf(policy, have) = 100
           s == Snapshot(a, c, k, e)
<1>1. IsComposedOf(s, a, policy, e, x, have, missing, complete)
  BY SnapshotParts
<1>2. IsPolicy(policy)
  BY PoliciesAre
<1> HIDE DEF s, policy
<1>3. /\ s.algorithm = a /\ s.missing = missing /\ s.coverage = WeightOf(policy, have)
      /\ PolicyOf[s.configuration.profile] = policy
      /\ s.status = StatusOf(a, e, x, complete)
      /\ DOMAIN s.components = have
      /\ \A d \in have :
            /\ s.components[d].score \in ScoreOf(a, policy, e, x, d)
            /\ s.components[d].weight = policy.weight[d]
            /\ s.components[d].contribution =
                  IF complete THEN s.components[d].score * policy.weight[d] ELSE Unscored
      /\ s.final = IF complete THEN FinalOf(s, policy, have) ELSE Unscored
  BY <1>1 DEF IsComposedOf
<1>4. x # NoItem => e.eligible /\ x \in DOMAIN e.contexts /\ have # {}
  <2>1. ASSUME x # NoItem
        PROVE  /\ e.eligible /\ x \in DOMAIN e.contexts
               /\ \E d \in InContext \cap ComponentsOf(a) : ScoreOf(a, policy, e, x, d) # {}
    BY <1>2, <2>1, ContextIs
  <2> QED
    BY <2>1 DEF Scored
<1>5. x = NoItem => have = {}
  BY DEF Scored, ScoreOf
<1>6. ~e.eligible => x = NoItem
  BY <1>4
<1> HIDE DEF x
<1>7. have \subseteq ComponentsOf(a) /\ have \subseteq TopLevel
  BY ComponentsFinite DEF Scored
<1>8. ASSUME NEW d \in have
      PROVE  s.components[d].score \in 0..100 /\ (a # 1 => policy.weight[d] > 0)
  <2>1. s.components[d].score \in ScoreOf(a, policy, e, x, d) /\ d \in TopLevel
    BY <1>3, <1>7
  <2>2. x = NoItem \/ x \in DOMAIN e.contexts
    BY <1>4
  <2> QED
    BY <2>1, <2>2, ScoreIsOnScale
<1> HIDE DEF have
<1>9. s.status \in {"ineligible", Unavailable(a), "partial_component_set", "final_score_available"}
  BY <1>3 DEF StatusOf
<1>10. /\ s.status = "final_score_available" => complete
       /\ s.status = "partial_component_set" => ~complete /\ x # NoItem /\ e.eligible
       /\ s.status \in {"ineligible", Unavailable(a)} => x = NoItem
       /\ complete => s.status = "final_score_available"
       /\ x # NoItem /\ ~complete => s.status = "partial_component_set"
  <2>1. Unavailable(a) \in {"financial_inflection_unavailable", "financial_components_unavailable",
                            "implemented_components_unavailable"}
    BY DEF Unavailable
  <2> QED
    BY <1>3, <1>4, <1>6, <2>1 DEF StatusOf
<1>11. s.status \in Statuses(s.algorithm)
  BY <1>3, <1>9, <1>10 DEF Statuses
<1>12. a < 5 => ValidPartial(s)
  BY <1>3, <1>4, <1>5, <1>9, <1>10 DEF ValidPartial
<1>13. s.coverage = Summed(s, "weight")
  BY <1>2, <1>3, <1>7, WeightsCover
<1>14. a = 5 => ValidPartition(s) /\ ValidComponents(s) /\ have \subseteq Required(policy)
  <2>1. a = 5 => have \subseteq Required(policy)
    BY <1>7, <1>8 DEF Required
  <2> QED
    BY <1>3, <1>8, <2>1 DEF ValidPartition, ValidComponents
<1>15. a = 5 => ValidState(s)
  <2> SUFFICES ASSUME a = 5
               PROVE  ValidState(s)
    OBVIOUS
  <2>1. /\ WeightOf(policy, have) \in Nat /\ WeightOf(policy, missing) \in Nat
        /\ WeightOf(policy, have) + WeightOf(policy, missing) = 100
        /\ have # {} => WeightOf(policy, have) \in Nat \ {0}
        /\ missing # {} => WeightOf(policy, missing) \in Nat \ {0}
    BY <1>2, <1>14, WeightsAdd
  <2>2. missing = {} => WeightOf(policy, have) = 100
    <3>1. WeightOf(policy, {}) = 0
      BY SumOfNone DEF WeightOf
    <3> QED
      BY <2>1, <3>1
  <2>3. have = {} => WeightOf(policy, have) = 0
    BY SumOfNone DEF WeightOf
  <2>4. Unavailable(a) = "implemented_components_unavailable"
    BY DEF Unavailable
  <2>5. CASE s.status \in {"ineligible", "implemented_components_unavailable"}
    <3>1. x = NoItem /\ have = {} /\ ~complete
      BY <1>5, <1>10, <2>4, <2>5
    <3> QED
      BY ZenonT(30), <1>3, <2>3, <2>5, <3>1 DEF ValidState
  <2>6. CASE s.status = "partial_component_set"
    <3>1. x # NoItem /\ ~complete /\ have # {}
      BY <1>4, <1>10, <2>6
    <3>2. missing # {}
      BY <2>2, <3>1
    <3>3. WeightOf(policy, have) \in 1..99
      BY <2>1, <3>1, <3>2
    <3> HIDE DEF missing, complete
    <3> QED
      BY ZenonT(30), <1>3, <2>6, <3>1, <3>2, <3>3 DEF ValidState
  <2>7. CASE s.status = "final_score_available"
    <3>1. complete
      BY <1>10, <2>7
    <3>2. missing = {} /\ WeightOf(policy, have) = 100
      BY <3>1
    <3> HIDE DEF missing, complete
    <3>3. /\ s.final = FinalOf(s, policy, have)
          /\ \A d \in have :
                s.components[d].contribution = s.components[d].score * policy.weight[d]
      BY <1>3, <3>1
    <3>4. s.final \in 0..100 * 100 /\ s.final = Summed(s, "contribution")
      <4>1. IsWeighed(s, policy, have)
        BY <1>3, <1>7, <1>8, <3>2, <3>3 DEF IsWeighed
      <4> QED
        BY ONLY <1>2, <4>1, FinalIsOnScale
    <3>5. \A d \in have :
             s.components[d].contribution = s.components[d].score * s.components[d].weight
      <4> SUFFICES ASSUME NEW d \in have
                   PROVE  s.components[d].contribution = s.components[d].score * s.components[d].weight
        OBVIOUS
      <4>1. s.components[d].weight = policy.weight[d]
        BY <1>3
      <4>2. s.components[d].contribution = s.components[d].score * policy.weight[d]
        BY <3>3
      <4> QED
        BY ONLY <4>1, <4>2
    <3>6. s.coverage = 100 /\ s.missing = {} /\ DOMAIN s.components = have
      BY <1>3, <3>2
    <3> QED
      BY ONLY <2>7, <3>4, <3>5, <3>6 DEF ValidState
  <2> QED
    BY <1>9, <2>4, <2>5, <2>6, <2>7
<1> QED
  BY <1>3, <1>7, <1>11, <1>12, <1>13, <1>14, <1>15 DEF ValidSnapshot, s

IsContexts(C) ==
    /\ NoItem \notin DOMAIN C
    /\ \A x \in DOMAIN C, c \in InContext : IsItem(C[x][c])

\* What a process holds is proper, whenever it was read.
IsWork(e) ==
    /\ e.step = "assemble" => IsContexts(e.contexts)
    /\ e.step = "compose" => IsEvidence(e.evidence)
    /\ e.step = "insert" => ValidSnapshot(e.write)

WriteInv ==
    /\ \A p \in Researcher : IsWork(errand[p])
    /\ \A s \in scored : ValidSnapshot(s)

LEMMA WorkStep ==
    ASSUME SnapshotInv, WriteInv, NEW p \in Researcher, NEW e, Resume(p, e), IsWork(e),
           \A s \in scored' : ValidSnapshot(s)
    PROVE  WriteInv'
<1>1. errand' = [errand EXCEPT ![p] = e] /\ errand = [q \in Researcher |-> errand[q]]
  BY DEF Resume, SnapshotInv, ErrandsTyped
<1>2. \A q \in Researcher : errand'[q] = IF q = p THEN e ELSE errand[q]
  BY <1>1
<1>3. \A q \in Researcher : IsWork(errand'[q])
  <2> SUFFICES ASSUME NEW q \in Researcher
               PROVE  IsWork(errand'[q])
    OBVIOUS
  <2>1. CASE q = p
    BY <1>2, <2>1
  <2>2. CASE q # p
    <3>1. errand'[q] = errand[q]
      BY <1>2, <2>2
    <3> QED
      BY <3>1 DEF WriteInv
  <2> QED
    BY <2>1, <2>2
<1> QED
  BY <1>3 DEF WriteInv, IsWork

\* Evidence whose contexts were read before the rest is evidence.
LEMMA EvidenceAssembled ==
    ASSUME NEW i \in DOMAIN Supply, NEW C, IsContexts(C), NEW e, e = [Supply[i] EXCEPT !.contexts = C]
    PROVE  IsEvidence(e)
<1>1. /\ IsEvidence(Supply[i])
      /\ DOMAIN Supply[i] = {"eligible", "contexts", "market", "attention", "events"}
  BY SnapshotAssumption DEF IsEvidence
<1>2. /\ DOMAIN e = DOMAIN Supply[i] /\ e.contexts = C /\ e.market = Supply[i].market
      /\ e.attention = Supply[i].attention /\ e.events = Supply[i].events
  BY <1>1
<1> QED
  BY <1>1, <1>2 DEF IsEvidence, IsContexts

LEMMA WritesKept == SnapshotInv /\ WriteInv /\ [SnapshotNext]_scVars => WriteInv'
<1> SUFFICES ASSUME SnapshotInv, WriteInv, [SnapshotNext]_scVars
             PROVE  WriteInv'
  OBVIOUS
<1>1. ASSUME NEW p \in Researcher, NEW r \in Release, BeginInitialize(p, r)
      PROVE  WriteInv'
  <2> DEFINE e == [step |-> "initialize", release |-> r]
  <2>1. Resume(p, e) /\ scored' = scored /\ e.step = "initialize"
    BY <1>1 DEF BeginInitialize
  <2> HIDE DEF e
  <2> QED
    BY <2>1, WorkStep DEF IsWork, WriteInv
<1>2. ASSUME NEW p \in Researcher, CommitInitialize(p)
      PROVE  WriteInv'
  <2>1. Resume(p, NoErrand) /\ scored' = scored /\ IsWork(NoErrand)
    BY <1>2 DEF CommitInitialize, NoErrand, IsWork
  <2> QED
    BY <2>1, WorkStep DEF WriteInv
<1>3. ASSUME NEW p \in Researcher, NEW w \in Wanted, BeginResearch(p, w)
      PROVE  WriteInv'
  <2> DEFINE e == [step |-> "assemble", wanted |-> w, contexts |-> Supply[supplied].contexts]
  <2>1. Resume(p, e) /\ scored' = scored /\ e.step = "assemble" /\ e.contexts = Supply[supplied].contexts
    BY <1>3 DEF BeginResearch
  <2>2. IsContexts(Supply[supplied].contexts)
    BY SnapshotAssumption DEF SnapshotInv, CountersTyped, IsEvidence, IsContexts
  <2> HIDE DEF e
  <2> QED
    BY <2>1, <2>2, WorkStep DEF IsWork, WriteInv
<1>4. ASSUME NEW p \in Researcher, Assemble(p)
      PROVE  WriteInv'
  <2> DEFINE evidence == [Supply[supplied] EXCEPT !.contexts = errand[p].contexts]
             e == [step |-> "compose", wanted |-> errand[p].wanted, evidence |-> evidence]
  <2>1. Resume(p, e) /\ scored' = scored /\ errand[p].step = "assemble"
    BY <1>4 DEF Assemble
  <2>2. IsEvidence(evidence)
    BY <2>1, EvidenceAssembled DEF SnapshotInv, CountersTyped, WriteInv, IsWork
  <2> HIDE DEF evidence
  <2>3. e.step = "compose" /\ e.evidence = evidence
    OBVIOUS
  <2> HIDE DEF e
  <2> QED
    BY <2>1, <2>2, <2>3, WorkStep DEF IsWork, WriteInv
<1>5. ASSUME NEW p \in Researcher, Compose(p)
      PROVE  WriteInv'
  <2> DEFINE wanted == errand[p].wanted
             sole == {c \in Resolve(wanted.cutoff) : Resolve(wanted.cutoff) = {c}}
             new == UNION {Composed(wanted.algorithm, c, wanted.cutoff, errand[p].evidence) : c \in sole}
                    \ scored
  <2>1. /\ errand[p].step = "compose" /\ scored' = scored
        /\ \/ Resume(p, NoErrand)
           \/ \E s \in new : Resume(p, [step |-> "insert", wanted |-> wanted, write |-> s])
    BY <1>5 DEF Compose
  <2>2. CASE Resume(p, NoErrand)
    BY <2>1, <2>2, WorkStep DEF NoErrand, IsWork, WriteInv
  <2>3. ASSUME NEW s \in new, Resume(p, [step |-> "insert", wanted |-> wanted, write |-> s])
        PROVE  WriteInv'
    <3>1. PICK c \in sole : s \in Composed(wanted.algorithm, c, wanted.cutoff, errand[p].evidence)
      OBVIOUS
    <3>2. s = Snapshot(wanted.algorithm, c, wanted.cutoff, errand[p].evidence)
      BY <3>1 DEF Composed
    <3>3. wanted.algorithm \in 1..5
      BY <2>1, SnapshotAssumption DEF SnapshotInv, ErrandsTyped, IsErrand, NoErrand
    <3>4. c \in Release
      BY DEF SnapshotInv, SnapshotsMade, Resolve
    <3>5. IsEvidence(errand[p].evidence)
      BY <2>1 DEF WriteInv, IsWork
    <3>6. ValidSnapshot(s)
      BY <3>2, <3>3, <3>4, <3>5, SnapshotIsValid
    <3> DEFINE e == [step |-> "insert", wanted |-> wanted, write |-> s]
    <3>7. Resume(p, e) /\ e.step = "insert" /\ e.write = s
      BY <2>3
    <3> HIDE DEF e, new
    <3> QED
      BY <2>1, <3>6, <3>7, WorkStep DEF IsWork, WriteInv
  <2> QED
    BY <2>1, <2>2, <2>3
<1>6. ASSUME NEW p \in Researcher, InsertSnapshot(p)
      PROVE  WriteInv'
  <2>1. /\ errand[p].step = "insert" /\ scored' = scored \cup {errand[p].write}
        /\ Resume(p, NoErrand) /\ IsWork(NoErrand)
    BY <1>6 DEF InsertSnapshot, NoErrand, IsWork
  <2>2. ValidSnapshot(errand[p].write)
    BY <2>1 DEF WriteInv, IsWork
  <2>3. \A s \in scored' : ValidSnapshot(s)
    BY <2>1, <2>2 DEF WriteInv
  <2> QED
    BY <2>1, <2>3, WorkStep
<1>7. CASE Ingest
  BY <1>7 DEF Ingest, WriteInv, IsWork
<1>8. CASE UNCHANGED scVars
  BY <1>8 DEF scVars, WriteInv, IsWork
<1> QED
  BY <1>1, <1>2, <1>3, <1>4, <1>5, <1>6, <1>7, <1>8 DEF SnapshotNext

\* Whatever an algorithm composes, of whatever mixture of reads, passes the checks of the
\* repository, on the way in as on the way out (compose_* in score_orchestration,
\* OpportunityScoreRepository).
THEOREM WritesPass == SnapshotSpec => []WritesAreValid
<1>1. SnapshotInit => WriteInv
  <2> SUFFICES ASSUME SnapshotInit
               PROVE  WriteInv
    OBVIOUS
  <2>1. \A p \in Researcher : errand[p] = NoErrand
    BY DEF SnapshotInit
  <2>2. IsWork(NoErrand)
    BY DEF NoErrand, IsWork
  <2> QED
    BY <2>1, <2>2 DEF SnapshotInit, WriteInv
<1>2. WriteInv => WritesAreValid
  BY DEF WriteInv, IsWork, WritesAreValid
<1> QED
  BY <1>1, <1>2, WritesKept, SnapshotsInvariant, PTL DEF SnapshotSpec

-----------------------------------------------------------------------------
(* What the filings of a company add up to.                                *)

\* Every figure is of a filing that arrived on a day it was due.
FigureOf(f, g, d) == g \in Calendar /\ d \in g.due /\ d <= today /\ f \in FactsOf(g, d)

SeriesInv ==
    /\ today \in Nat
    /\ \A f \in figures : \E g, d : FigureOf(f, g, d)

LEMMA SeriesStep ==
    ASSUME SeriesInv, [SeriesNext]_fsVars
    PROVE  SeriesInv'
<1>1. CASE UNCHANGED fsVars
  BY <1>1 DEF SeriesInv, FigureOf, fsVars
<1>2. CASE SeriesNext
  <2>1. PICK A \in SUBSET {f \in Calendar \ filed : today + 1 \in f.due} : Publish(A)
    BY <1>2 DEF SeriesNext
  <2>2. today' \in Nat /\ today' = today + 1 /\ today \in Nat
    BY <2>1 DEF Publish, SeriesInv
  <2>3. ASSUME NEW f \in figures'
        PROVE  \E g, d : FigureOf(f, g, d)'
    <3>1. CASE f \in figures
      <4>1. PICK g, d : FigureOf(f, g, d)
        BY <3>1 DEF SeriesInv
      <4>2. d \in Nat
        BY <4>1, SeriesAssumption DEF FigureOf
      <4>3. FigureOf(f, g, d)'
        BY <2>2, <4>1, <4>2 DEF FigureOf
      <4> QED
        BY <4>3
    <3>2. CASE f \notin figures
      <4>1. PICK d : d = today + 1
        OBVIOUS
      <4>2. PICK g \in A : f \in FactsOf(g, d)
        BY <2>1, <2>3, <3>2, <4>1 DEF Publish
      <4>3. g \in Calendar /\ d \in g.due /\ d <= today'
        BY <2>1, <2>2, <4>1
      <4>4. FigureOf(f, g, d)'
        BY <4>2, <4>3 DEF FigureOf
      <4> QED
        BY <4>4
    <3> QED
      BY <3>1, <3>2
  <2> QED
    BY <2>2, <2>3 DEF SeriesInv
<1> QED
  BY <1>1, <1>2

\* Whatever filings arrive, on whatever day they were due, the figures kept are theirs: each is
\* what one filing stated, available and loaded as of its arrival (fetch_financials).
THEOREM SeriesInvariant == SeriesSpec => []SeriesInv
<1>1. SeriesInit => SeriesInv
  BY DEF SeriesInit, SeriesInv
<1> QED
  BY <1>1, SeriesStep, PTL DEF SeriesSpec

DaysTyped == today \in 1..LastDay /\ filed \subseteq Calendar

\* Of the series: filings are those of the calendar, and a figure is of a known metric and
\* neither loaded before it is available nor later than today.
THEOREM SeriesTyped == SeriesSpec => []SeriesTypeOK
<1>1. SeriesInit => DaysTyped
  BY SeriesAssumption DEF SeriesInit, DaysTyped
<1>2. DaysTyped /\ [SeriesNext]_fsVars => DaysTyped'
  <2>1. ASSUME DaysTyped, NEW A \in SUBSET {f \in Calendar \ filed : today + 1 \in f.due}, Publish(A)
        PROVE  DaysTyped'
    <3>1. today' \in 1..LastDay
      BY <2>1, SeriesAssumption DEF Publish, DaysTyped
    <3>2. filed' \subseteq Calendar
      BY <2>1 DEF Publish, DaysTyped
    <3> QED
      BY <3>1, <3>2 DEF DaysTyped
  <2>2. SeriesNext => \E A \in SUBSET {f \in Calendar \ filed : today + 1 \in f.due} : Publish(A)
    BY DEF SeriesNext
  <2>3. UNCHANGED fsVars /\ DaysTyped => DaysTyped'
    BY DEF fsVars, DaysTyped
  <2> QED
    BY <2>1, <2>2, <2>3
<1>3. SeriesInv /\ DaysTyped => SeriesTypeOK
  <2> SUFFICES ASSUME SeriesInv, DaysTyped, NEW f \in figures
               PROVE  f.metric \in Flow \cup Stock /\ f.available <= f.loaded /\ f.loaded <= today
    BY DEF DaysTyped, SeriesTypeOK
  <2>1. PICK g, d : g \in Calendar /\ d \in g.due /\ d <= today /\ f \in FactsOf(g, d)
    BY DEF SeriesInv, FigureOf
  <2>2. PICK lag \in Nat : lag = g.lag
    BY <2>1, SeriesAssumption
  <2>3. d \in Nat
    BY <2>1, SeriesAssumption
  <2>4. f.metric \in Flow \cup Stock /\ f.available = d - lag /\ f.loaded = d
    BY <2>1, <2>2 DEF FactsOf, FactFrom
  <2> QED
    BY <2>1, <2>2, <2>3, <2>4
<1> QED
  BY <1>1, <1>2, <1>3, SeriesInvariant, PTL DEF SeriesSpec
-----------------------------------------------------------------------------
LEMMA LengthIs ==
    /\ DOMAIN Length = {"quarter", "half_year", "nine_month", "annual"}
    /\ Length["quarter"] = 1 /\ Length["half_year"] = 2 /\ Length["nine_month"] = 3
    /\ Length["annual"] = 4
  BY DEF Length

LEMMA LongestColumn ==
    ASSUME NEW columns \in SUBSET DOMAIN Length, columns # {}
    PROVE  Longest(columns) \in columns
<1> DEFINE S == {Length[k] : k \in columns}
<1>1. S \in SUBSET Nat /\ \A n \in S : n <= 4
  BY LengthIs
<1>2. PICK k \in columns : Length[k] = Max(S)
  <2>1. S # {}
    OBVIOUS
  <2> HIDE DEF S
  <2>2. Max(S) \in S
    BY <1>1, <2>1, GreatestUpTo
  <2> QED
    BY <2>2 DEF S
<1>3. ASSUME NEW j \in columns
      PROVE  Length[j] <= Length[k]
  <2>1. Length[j] \in S /\ S # {}
    OBVIOUS
  <2> HIDE DEF S
  <2> QED
    BY <1>1, <1>2, <2>1, GreatestUpTo
<1> QED
  BY <1>3 DEF Longest

\* What a filing states of a metric in a column.
StatedValue(g, k, m) ==
    IF m \in Flow THEN FlowOver(Book[g.edition], m, Period(k, g.ends))
    ELSE Book[g.edition][m][g.ends]

\* A figure is of a column of a filing, and known when that arrived.
IsFigure(f, g, k) ==
    /\ g \in Calendar /\ k \in g.columns
    /\ f.loaded \in g.due /\ f.loaded <= today /\ f.metric \in Flow \cup Stock
    /\ f.metric \in Stock => k = Longest(g.columns)
    /\ f = FactFrom(g, f.loaded, f.metric, Period(k, g.ends), StatedValue(g, k, f.metric))

LEMMA FiguresAre ==
    ASSUME SeriesInv, NEW f \in figures
    PROVE  \E g, k : IsFigure(f, g, k)
<1>1. PICK g, d : FigureOf(f, g, d)
  BY DEF SeriesInv
<1>2. g \in Calendar /\ d \in g.due /\ d <= today
  BY <1>1, SeriesAssumption DEF FigureOf
<1>3. PICK m \in Flow \cup Stock, k \in g.columns :
         /\ f = FactFrom(g, d, m, Period(k, g.ends), StatedValue(g, k, m))
         /\ m \in Stock => k = Longest(g.columns)
  <2>1. \A m \in Flow : m \notin Stock
    BY DEF Flow, Stock
  <2>2. Longest(g.columns) \in g.columns
    BY <1>2, LongestColumn, SeriesAssumption
  <2> QED
    BY <1>1, <2>1, <2>2 DEF FigureOf, FactsOf, StatedValue
<1>4. f.loaded = d /\ f.metric = m
  BY <1>3 DEF FactFrom
<1> QED
  BY <1>2, <1>3, <1>4 DEF IsFigure

\* The quarters of which a period consists: one, or its fiscal year's up to its end.
LEMMA PeriodIs ==
    ASSUME NEW g \in Calendar, NEW k \in g.columns, NEW p, p = Period(k, g.ends)
    PROVE  /\ p.kind = k /\ p.end = g.ends /\ g.ends \in Nat \ {0}
           /\ p.start \in Nat \ {0} /\ p.start <= p.end
           /\ p.year = YearOf(p.end)
           /\ p.place = IF k = "annual" THEN AnnualQuarter ELSE PlaceOf(p.end)
           /\ k = "quarter" => p.start = p.end /\ p.place = PlaceOf(p.end) /\ ~p.ytd
           /\ k # "quarter" => p.start = 4 * (p.year - 1) + 1 /\ Length[k] = PlaceOf(p.end)
<1>1. /\ g.ends \in Nat \ {0} /\ k \in DOMAIN Length
      /\ k = "quarter" \/ Length[k] = PlaceOf(g.ends)
  BY SeriesAssumption
<1>2. /\ p.kind = k /\ p.end = g.ends /\ p.year = YearOf(p.end)
      /\ p.place = IF k = "annual" THEN AnnualQuarter ELSE PlaceOf(p.end)
      /\ p.start = p.end - Length[k] + 1 /\ p.ytd = (k \in {"half_year", "nine_month"})
  BY DEF Period
<1>3. \A n \in Nat \ {0} : /\ PlaceOf(n) \in 1..4 /\ PlaceOf(n) <= n /\ YearOf(n) \in Nat \ {0}
                           /\ n - PlaceOf(n) + 1 = 4 * (YearOf(n) - 1) + 1
  BY DEF PlaceOf, YearOf
<1>4. Length["quarter"] = 1 /\ Length[k] \in 1..4
  BY <1>1, LengthIs
<1>5. CASE k = "quarter"
  <2>1. ~p.ytd
    BY <1>5, Zenon DEF Period
  <2>2. p.start = g.ends /\ p.end = g.ends /\ g.ends \in Nat \ {0}
    BY <1>1, <1>2, <1>4, <1>5
  <2> QED
    BY <1>2, <1>5, <2>1, <2>2
<1>6. CASE k # "quarter"
  <2>1. Length[k] = PlaceOf(g.ends)
    BY <1>1, <1>6
  <2>2. PICK n, l, y : n = g.ends /\ l = PlaceOf(n) /\ y = YearOf(n)
    OBVIOUS
  <2>3. /\ n \in Nat \ {0} /\ l \in 1..4 /\ l <= n /\ y \in Nat \ {0}
        /\ n - l + 1 = 4 * (y - 1) + 1
    BY <1>1, <1>3, <2>2
  <2>4. p.start = n - l + 1 /\ p.end = n /\ p.year = y
    BY <1>2, <2>1, <2>2
  <2>5. p.start = 4 * (p.year - 1) + 1 /\ p.start <= p.end /\ p.start \in Nat \ {0}
    BY ONLY <2>3, <2>4
  <2> QED
    BY <1>1, <1>2, <1>6, <2>1, <2>5
<1> QED
  BY <1>5, <1>6

LEMMA FigureIs ==
    ASSUME NEW f, NEW g, NEW k, IsFigure(f, g, k), today \in Nat
    PROVE  /\ f.period = Period(k, g.ends) /\ f.edition = g.edition /\ f.scope = g.scope
           /\ f.value = StatedValue(g, k, f.metric)
           /\ f.loaded \in Nat /\ f.loaded <= today /\ f.available = f.loaded - g.lag
           /\ f.available \in Nat /\ f.period.end <= f.available /\ f.available <= today
<1>1. /\ f.period = Period(k, g.ends) /\ f.edition = g.edition /\ f.scope = g.scope
      /\ f.value = StatedValue(g, k, f.metric) /\ f.available = f.loaded - g.lag
  BY DEF IsFigure, FactFrom
<1>2. f.period.end = g.ends
  BY <1>1 DEF Period
<1>3. /\ g.ends \in Nat /\ g.lag \in Nat /\ f.loaded \in Nat /\ f.loaded <= today
      /\ g.ends <= f.loaded - g.lag
  BY SeriesAssumption DEF IsFigure
<1> QED
  BY <1>1, <1>2, <1>3

\* Of one metric and period, research knows one thing from one day on.
LEMMA OneFact ==
    ASSUME SeriesInv, NEW f \in figures, NEW h \in figures, f.scope = h.scope,
           f.metric = h.metric, f.period = h.period, f.available = h.available,
           f.loaded = h.loaded
    PROVE  f = h
<1>1. PICK g, k : IsFigure(f, g, k)
  BY FiguresAre
<1>2. PICK i, j : IsFigure(h, i, j)
  BY FiguresAre
<1>3. today \in Nat
  BY DEF SeriesInv
<1>4. g.scope = i.scope /\ Period(k, g.ends) = Period(j, i.ends)
  BY <1>1, <1>2, <1>3, FigureIs
<1>5. k = j /\ g.ends = i.ends
  BY <1>4 DEF Period
<1>6. f.available = f.loaded - g.lag /\ f.available = f.loaded - i.lag /\ f.loaded \in Nat
  <2>1. f.available = f.loaded - g.lag /\ f.loaded \in Nat
    BY <1>1, <1>3, FigureIs
  <2>2. h.available = h.loaded - i.lag
    BY <1>2, <1>3, FigureIs
  <2> QED
    BY <2>1, <2>2
<1>7. g.lag = i.lag
  <2>1. g.lag \in Nat /\ i.lag \in Nat
    BY <1>1, <1>2, SeriesAssumption DEF IsFigure
  <2> QED
    BY ONLY <1>6, <2>1
<1>8. g = i
  <2>1. SUFFICES ASSUME g # i
                 PROVE  FALSE
    OBVIOUS
  <2>2. Rival(g, i)
    BY <1>1, <1>2, <1>4, <1>5, <1>7, <2>1 DEF Rival, IsFigure
  <2>3. f.loaded \in g.due \cap i.due /\ g \in Calendar /\ i \in Calendar
    BY <1>1, <1>2 DEF IsFigure
  <2> QED
    BY <2>2, <2>3, SeriesAssumption
<1> QED
  BY <1>1, <1>2, <1>5, <1>8 DEF IsFigure
\* Research knows one thing of a metric and a period, of the scope it asks for.
LEMMA KnownAre ==
    ASSUME SeriesInv, NEW scope, NEW cutoff, NEW V, V = KnownFigures(scope, cutoff)
    PROVE  /\ V \subseteq Rows(scope, cutoff) /\ V \subseteq figures
           /\ \A f, h \in V : f.metric = h.metric /\ f.period = h.period => f = h
<1> DEFINE Supersedes(g, f) ==
              /\ g.period = f.period
              /\ \/ g.available > f.available
                 \/ g.available = f.available /\ g.loaded > f.loaded
           Own(m) == {f \in Rows(scope, cutoff) : f.metric = m}
<1>1. \A f : f \in V => /\ f \in Rows(scope, cutoff)
                        /\ \A g \in Own(f.metric) : ~Supersedes(g, f)
  BY DEF KnownFigures
<1>2. V \subseteq Rows(scope, cutoff) /\ V \subseteq figures
  BY <1>1 DEF Rows
<1>3. ASSUME NEW f \in V, NEW h \in V, f.metric = h.metric, f.period = h.period
      PROVE  f = h
  <2>1. ~Supersedes(f, h) /\ ~Supersedes(h, f)
    BY <1>1, <1>3
  <2>2. f.available \in Nat /\ h.available \in Nat /\ f.loaded \in Nat /\ h.loaded \in Nat
    BY <1>2, FiguresAre, FigureIs DEF SeriesInv
  <2>3. f.available = h.available /\ f.loaded = h.loaded
    BY <1>3, <2>1, <2>2
  <2>4. f.scope = h.scope
    BY <1>2 DEF Rows
  <2> QED
    BY <1>2, <1>3, <2>3, <2>4, OneFact
<1> QED
  BY <1>2, <1>3

\* The figures of one flow, of which research makes a series of quarters.
IsLine(F, m) ==
    /\ m \in Flow /\ today \in Nat
    /\ \A f \in F : f.metric = m /\ \E g, k : IsFigure(f, g, k)
    /\ \A f, h \in F : f.period = h.period => f = h

LEMMA LineIs ==
    ASSUME SeriesInv, NEW scope, NEW cutoff, NEW m \in Flow, NEW F,
           F = {f \in KnownFigures(scope, cutoff) : f.metric = m}
    PROVE  IsLine(F, m)
<1>1. PICK V : V = KnownFigures(scope, cutoff)
  OBVIOUS
<1>2. /\ V \subseteq figures
      /\ \A f, h \in V : f.metric = h.metric /\ f.period = h.period => f = h
  BY <1>1, KnownAre
<1>3. \A f \in F : f \in V /\ f.metric = m
  BY <1>1
<1> QED
  BY <1>2, <1>3, FiguresAre DEF IsLine, SeriesInv

QuarterOf(y, p) == 4 * (y - 1) + p

LEMMA QuarterIs ==
    ASSUME NEW n \in Nat \ {0}
    PROVE  /\ YearOf(n) \in Nat \ {0} /\ PlaceOf(n) \in 1..4
           /\ n = QuarterOf(YearOf(n), PlaceOf(n))
  BY DEF YearOf, PlaceOf, QuarterOf

LEMMA QuarterTells ==
    ASSUME NEW y \in Int, NEW p \in 1..4, NEW n, n = QuarterOf(y, p)
    PROVE  YearOf(n) = y /\ PlaceOf(n) = p
  BY DEF YearOf, PlaceOf, QuarterOf

\* A period that is found is the one that the year, the kind and the place name.
LEMMA FoundIs ==
    ASSUME NEW F, NEW m, IsLine(F, m), NEW y, NEW kind, NEW p, NEW f \in Find(F, y, kind, p)
    PROVE  /\ f \in F /\ kind \in DOMAIN Length /\ y \in Nat \ {0} /\ f.period.year = y
           /\ kind = "quarter" => /\ f.period.end = QuarterOf(y, p) /\ p \in 1..4
                                  /\ f.period.start = f.period.end /\ ~f.period.ytd
           /\ kind # "quarter" => /\ f.period.end = QuarterOf(y, Length[kind])
                                  /\ f.period.start = QuarterOf(y, 1)
           /\ f.value = FlowOver(Book[f.edition], m, f.period)
           /\ \A q \in 1..f.period.end : Book[f.edition][m][q] \in Int
           /\ f.available \in Nat /\ f.period.end <= f.available /\ f.available <= today
           /\ \A h \in Find(F, y, kind, p) : h = f
<1>1. /\ f \in F /\ f.period.year = y /\ f.period.kind = kind /\ f.period.place = p
  BY DEF Find
<1>2. PICK g, k : IsFigure(f, g, k)
  BY <1>1 DEF IsLine
<1>3. /\ g \in Calendar /\ k \in g.columns /\ f.period = Period(k, g.ends) /\ m \in Flow
      /\ f.edition = g.edition /\ f.metric = m /\ today \in Nat
      /\ f.available \in Nat /\ f.period.end <= f.available /\ f.available <= today
      /\ f.value = FlowOver(Book[f.edition], m, f.period)
  BY <1>1, <1>2, FigureIs DEF IsLine, IsFigure, StatedValue
<1>4. f.period.end = g.ends /\ k = kind /\ kind \in DOMAIN Length
  BY <1>1, <1>3, PeriodIs, SeriesAssumption
<1>5. \A q \in 1..f.period.end : Book[f.edition][m][q] \in Int
  BY <1>3, <1>4, SeriesAssumption
<1>6. y = YearOf(f.period.end) /\ f.period.end \in Nat \ {0}
  BY <1>1, <1>3, <1>4, PeriodIs
<1>7. y \in Nat \ {0} /\ f.period.end = QuarterOf(y, PlaceOf(f.period.end))
  BY <1>6, QuarterIs
<1>8. kind = "quarter" => /\ f.period.end = QuarterOf(y, p) /\ p \in 1..4
                          /\ f.period.start = f.period.end /\ ~f.period.ytd
  BY <1>1, <1>3, <1>4, <1>6, <1>7, PeriodIs, QuarterIs
<1>9. kind # "quarter" => /\ f.period.end = QuarterOf(y, Length[kind])
                          /\ f.period.start = QuarterOf(y, 1)
  BY <1>1, <1>3, <1>4, <1>7, PeriodIs DEF QuarterOf
<1>10. ASSUME NEW h \in Find(F, y, kind, p)
       PROVE  h = f
  <2>1. h \in F /\ h.period.year = y /\ h.period.kind = kind /\ h.period.place = p
    BY DEF Find
  <2>2. PICK i, j : IsFigure(h, i, j)
    BY <2>1 DEF IsLine
  <2>3. i \in Calendar /\ j \in i.columns /\ h.period = Period(j, i.ends)
    BY <1>3, <2>2, FigureIs DEF IsFigure
  <2>4. /\ h.period.end = i.ends /\ j = kind /\ i.ends \in Nat \ {0} /\ y = YearOf(i.ends)
        /\ kind = "quarter" => p = PlaceOf(i.ends)
        /\ kind # "quarter" => Length[kind] = PlaceOf(i.ends)
    BY <2>1, <2>3, PeriodIs
  <2>5. i.ends = QuarterOf(y, PlaceOf(i.ends))
    BY <2>4, QuarterIs
  <2>6. h.period = f.period
    BY <1>3, <1>4, <1>8, <1>9, <2>3, <2>4, <2>5
  <2> QED
    BY <1>1, <2>1, <2>6 DEF IsLine
<1> QED
  BY <1>1, <1>3, <1>4, <1>5, <1>7, <1>8, <1>9, <1>10
\* The sum over an interval is that of one less and the last.
LEMMA SumOfInterval ==
    ASSUME NEW a \in Int, NEW b \in Int, a <= b, NEW w, \A x \in a..b : w[x] \in Int
    PROVE  /\ SumFunctionOnSet(w, a..b) \in Int /\ SumFunctionOnSet(w, a..(b - 1)) \in Int
           /\ SumFunctionOnSet(w, a..b) = w[b] + SumFunctionOnSet(w, a..(b - 1))
<1>1. IsFiniteSet(a..b) /\ b \in a..b
  BY FS_Interval
<1>2. (a..b) \ {b} = a..(b - 1)
  OBVIOUS
<1>3. /\ SumFunctionOnSet(w, a..b) \in Int /\ SumFunctionOnSet(w, (a..b) \ {b}) \in Int
      /\ SumFunctionOnSet(w, a..b) = w[b] + SumFunctionOnSet(w, (a..b) \ {b})
  BY <1>1, SumOfOneMore
<1> QED
  BY <1>2, <1>3

\* A quarter of a series is one of the fiscal grid, made of figures of its year that were
\* known at its end or later; if they are of one edition, it is what that edition says.
IsQuarter(q, F, m, y, p) ==
    /\ y \in Nat \ {0} /\ p \in 1..4
    /\ q.year = y /\ q.place = p /\ q.start = q.end /\ q.end = QuarterOf(y, p)
    /\ q.available \in Nat /\ q.end <= q.available /\ q.available <= today
    /\ \E a, b \in F :
          /\ a.period.year = y /\ b.period.year = y
          /\ a.edition = b.edition =>
                q.value = Book[a.edition][m][q.end] /\ q.value \in Int

LEMMA ReportedIs ==
    ASSUME NEW F, NEW m, IsLine(F, m), NEW y, NEW p, NEW q \in ReportedQuarter(F, y, p)
    PROVE  /\ IsQuarter(q, F, m, y, p)
           /\ \A r \in ReportedQuarter(F, y, p) : r = q
<1>1. PICK f \in Find(F, y, "quarter", p) : q = QuarterValue(f)
  BY DEF ReportedQuarter
<1>2. /\ f \in F /\ y \in Nat \ {0} /\ f.period.year = y
      /\ f.period.end = QuarterOf(y, p) /\ p \in 1..4 /\ f.period.start = f.period.end
      /\ f.value = FlowOver(Book[f.edition], m, f.period)
      /\ \A n \in 1..f.period.end : Book[f.edition][m][n] \in Int
      /\ f.available \in Nat /\ f.period.end <= f.available /\ f.available <= today
      /\ \A h \in Find(F, y, "quarter", p) : h = f
  BY FoundIs
<1>3. \A h : \A r : r = QuarterValue(h) =>
         /\ r.year = h.period.year /\ r.place = h.period.place /\ r.start = h.period.start
         /\ r.end = h.period.end /\ r.value = h.value /\ r.available = h.available
  BY DEF QuarterValue
<1>4. f.period.place = p
  BY <1>1 DEF Find
<1>5. PICK n, w : n = f.period.end /\ w = Book[f.edition][m]
  OBVIOUS
<1>6. n \in Nat \ {0}
  BY <1>2, <1>5 DEF QuarterOf
<1>7. f.value = w[n] /\ w[n] \in Int
  <2>1. f.value = SumFunctionOnSet(w, n..n)
    BY <1>2, <1>5 DEF FlowOver
  <2>2. \A x \in n..n : w[x] \in Int
    BY <1>2, <1>5, <1>6
  <2>3. SumFunctionOnSet(w, n..n) = w[n] + SumFunctionOnSet(w, {})
    <3>1. n \in Int /\ n <= n /\ n..(n - 1) = {}
      BY <1>6
    <3>2. SumFunctionOnSet(w, n..n) = w[n] + SumFunctionOnSet(w, n..(n - 1))
      BY <2>2, <3>1, SumOfInterval
    <3> QED
      BY ONLY <3>1, <3>2
  <2>4. w[n] \in Int
    BY <1>6, <2>2
  <2> QED
    <3>1. SumFunctionOnSet(w, {}) = 0
      BY SumOfNone
    <3> QED
      BY <2>1, <2>3, <2>4, <3>1
<1>8. \A r \in ReportedQuarter(F, y, p) : r = q
  BY <1>1, <1>2 DEF ReportedQuarter
<1> QED
  BY <1>1, <1>2, <1>3, <1>4, <1>5, <1>7, <1>8 DEF IsQuarter

\* A cumulative period less the one before it is a quarter.
LEMMA DifferenceIs ==
    ASSUME NEW F, NEW m, IsLine(F, m), NEW y, NEW p \in 2..4, NEW a, NEW b, NEW q,
           a \in Cumulative(F, y, p), b \in Preceding(F, y, p), q = Difference(a, b, p)
    PROVE  /\ IsQuarter(q, F, m, y, p) /\ q.available = LaterOf(a.available, b.available)
           /\ a \in F /\ b \in F
           /\ \A c \in Cumulative(F, y, p) : c = a
           /\ \A d \in Preceding(F, y, p) : d = b
<1> DEFINE Known(f) == /\ f \in F /\ y \in Nat \ {0} /\ f.period.year = y
                       /\ f.period.start = QuarterOf(y, 1)
                       /\ f.value = FlowOver(Book[f.edition], m, f.period)
                       /\ \A n \in 1..f.period.end : Book[f.edition][m][n] \in Int
                       /\ f.available \in Nat /\ f.period.end <= f.available
                       /\ f.available <= today
<1>1. Known(a) /\ a.period.end = QuarterOf(y, p) /\ \A c \in Cumulative(F, y, p) : c = a
  <2>1. PICK k, o : /\ Cumulative(F, y, p) = Find(F, y, k, o) /\ k # "quarter" /\ Length[k] = p
    BY LengthIs DEF Cumulative
  <2> QED
    BY <2>1, FoundIs
<1>2. /\ Known(b) /\ b.period.end = QuarterOf(y, p - 1)
      /\ \A d \in Preceding(F, y, p) : d = b
  <2>1. CASE p = 2
    <3>1. Preceding(F, y, p) = Find(F, y, "quarter", 1)
      BY <2>1 DEF Preceding
    <3> QED
      BY <2>1, <3>1, FoundIs
  <2>2. CASE p # 2
    <3>1. PICK k, o : /\ Preceding(F, y, p) = Find(F, y, k, o) /\ k # "quarter"
                      /\ Length[k] = p - 1
      BY <2>2, LengthIs DEF Preceding
    <3> QED
      BY <3>1, FoundIs
  <2> QED
    BY <2>1, <2>2
<1>3. /\ q.year = y /\ q.place = p /\ q.start = b.period.end + 1 /\ q.end = a.period.end
      /\ q.value = a.value - b.value /\ q.available = LaterOf(a.available, b.available)
  BY <1>1 DEF Difference
<1>4. PICK s, n : s = QuarterOf(y, 1) /\ n = QuarterOf(y, p)
  OBVIOUS
<1>5. /\ s \in Nat \ {0} /\ n \in Nat \ {0} /\ s < n
      /\ a.period.end = n /\ b.period.end = n - 1 /\ a.period.start = s /\ b.period.start = s
  BY <1>1, <1>2, <1>4 DEF QuarterOf
<1>6. ASSUME a.edition = b.edition
      PROVE  q.value = Book[a.edition][m][n] /\ q.value \in Int
  <2>1. PICK w : w = Book[a.edition][m]
    OBVIOUS
  <2>2. a.value = SumFunctionOnSet(w, s..n) /\ b.value = SumFunctionOnSet(w, s..(n - 1))
    BY <1>1, <1>2, <1>5, <1>6, <2>1 DEF FlowOver
  <2>3. \A x \in s..n : w[x] \in Int
    BY <1>1, <1>5, <2>1
  <2>4. /\ SumFunctionOnSet(w, s..n) \in Int /\ SumFunctionOnSet(w, s..(n - 1)) \in Int
        /\ SumFunctionOnSet(w, s..n) = w[n] + SumFunctionOnSet(w, s..(n - 1))
    <3>1. s \in Int /\ n \in Int /\ s <= n
      BY <1>5
    <3> QED
      BY ONLY <2>3, <3>1, SumOfInterval
  <2>5. w[n] \in Int
    BY <1>5, <2>3
  <2>6. PICK i, j, k : /\ i = SumFunctionOnSet(w, s..n) /\ j = SumFunctionOnSet(w, s..(n - 1))
                       /\ k = w[n]
    OBVIOUS
  <2>7. i \in Int /\ j \in Int /\ k \in Int /\ i = k + j
    BY <2>4, <2>5, <2>6
  <2>8. q.value = k
    BY <1>3, <2>2, <2>6, <2>7
  <2> QED
    BY <2>1, <2>6, <2>7, <2>8
<1>7. /\ q.available \in Nat /\ n <= q.available /\ q.available <= today
  BY <1>1, <1>2, <1>3, <1>5 DEF LaterOf
<1>8. q.start = n /\ q.end = n
  BY <1>3, <1>5
<1> QED
  BY <1>1, <1>2, <1>3, <1>4, <1>6, <1>7, <1>8 DEF IsQuarter

LEMMA DerivedIs ==
    ASSUME NEW F, NEW m, IsLine(F, m), NEW y, NEW p \in 1..4, NEW q \in DerivedQuarter(F, y, p)
    PROVE  /\ IsQuarter(q, F, m, y, p)
           /\ \A r \in DerivedQuarter(F, y, p) : r = q
<1>1. ASSUME NEW r \in DerivedQuarter(F, y, p)
      PROVE  \E a \in Cumulative(F, y, p), b \in Preceding(F, y, p) : r = Difference(a, b, p)
  BY DEF DerivedQuarter
<1>2. PICK a \in Cumulative(F, y, p), b \in Preceding(F, y, p) : q = Difference(a, b, p)
  BY <1>1
<1>3. p \in 2..4
  BY <1>2 DEF Cumulative
<1>4. /\ IsQuarter(q, F, m, y, p)
      /\ \A c \in Cumulative(F, y, p) : c = a
      /\ \A d \in Preceding(F, y, p) : d = b
  BY <1>2, <1>3, DifferenceIs
<1> QED
  BY <1>1, <1>2, <1>4

LEMMA QuarterFromIs ==
    ASSUME NEW F, NEW m, IsLine(F, m), NEW y, NEW p \in 1..4, NEW q \in QuarterFrom(F, y, p)
    PROVE  /\ IsQuarter(q, F, m, y, p)
           /\ \A r \in QuarterFrom(F, y, p) : r = q
<1>1. CASE ReportedQuarter(F, y, p) # {}
  BY <1>1, ReportedIs DEF QuarterFrom
<1>2. CASE ReportedQuarter(F, y, p) = {}
  BY <1>2, DerivedIs DEF QuarterFrom
<1> QED
  BY <1>1, <1>2
-----------------------------------------------------------------------------
\* Observations in the order of their ends.

OnGrid(Q) ==
    /\ today \in Nat
    /\ \A x \in Q : x.end \in 1..today
    /\ \A x, y \in Q : x.end = y.end => x = y

Sooner(Q, x) == {y \in Q : y.end < x.end}

LEMMA GridFinite ==
    ASSUME NEW Q, OnGrid(Q)
    PROVE  IsFiniteSet(Q) /\ Cardinality(Q) \in Nat
<1> DEFINE f == [x \in Q |-> x.end]
<1>1. f \in Injection(Q, 1..today)
  BY DEF OnGrid, Injection, IsInjective
<1>2. IsFiniteSet(1..today)
  BY FS_Interval DEF OnGrid
<1> HIDE DEF f
<1> QED
  BY <1>1, <1>2, FS_Injection, FS_CardinalityType

LEMMA SoonerIs ==
    ASSUME NEW Q, OnGrid(Q), NEW x \in Q
    PROVE  /\ IsFiniteSet(Sooner(Q, x))
           /\ Cardinality(Sooner(Q, x)) \in Nat /\ Cardinality(Sooner(Q, x)) < Cardinality(Q)
<1>1. Sooner(Q, x) \in SUBSET Q /\ x \notin Sooner(Q, x)
  BY DEF Sooner, OnGrid
<1>2. IsFiniteSet(Q) /\ Cardinality(Q) \in Nat
  BY GridFinite
<1>3. /\ IsFiniteSet(Sooner(Q, x)) /\ Cardinality(Sooner(Q, x)) <= Cardinality(Q)
      /\ Cardinality(Sooner(Q, x)) # Cardinality(Q)
  BY <1>1, <1>2, FS_Subset
<1>4. Cardinality(Sooner(Q, x)) \in Nat
  BY <1>3, FS_CardinalityType
<1> QED
  BY <1>2, <1>3, <1>4

LEMMA SoonerGrows ==
    ASSUME NEW Q, OnGrid(Q), NEW x \in Q, NEW y \in Q, x.end < y.end
    PROVE  Cardinality(Sooner(Q, x)) < Cardinality(Sooner(Q, y))
<1>1. x.end \in Nat /\ y.end \in Nat /\ \A z \in Q : z.end \in Nat
  BY DEF OnGrid
<1>2. Sooner(Q, x) \in SUBSET Sooner(Q, y) /\ x \in Sooner(Q, y) /\ x \notin Sooner(Q, x)
  BY <1>1 DEF Sooner
<1>3. /\ IsFiniteSet(Sooner(Q, y)) /\ Cardinality(Sooner(Q, y)) \in Nat
      /\ Cardinality(Sooner(Q, x)) \in Nat
  BY SoonerIs
<1>4. /\ Cardinality(Sooner(Q, x)) <= Cardinality(Sooner(Q, y))
      /\ Cardinality(Sooner(Q, x)) # Cardinality(Sooner(Q, y))
  BY <1>2, <1>3, FS_Subset
<1> QED
  BY <1>3, <1>4

\* Every observation has a place, and every place an observation.
LEMMA ByEndIs ==
    ASSUME NEW Q, OnGrid(Q), NEW S, S = ByEnd(Q), NEW n, n = Cardinality(Q)
    PROVE  /\ n \in Nat /\ S \in [1..n -> Q]
           /\ \A x \in Q : \E i \in 1..n : S[i] = x
           /\ \A i, j \in 1..n : i < j => S[i].end < S[j].end
<1> DEFINE f == [x \in Q |-> Cardinality(Sooner(Q, x)) + 1]
           Nth(i) == CHOOSE x \in Q : Cardinality(Sooner(Q, x)) = i - 1
<1>1. IsFiniteSet(Q) /\ n \in Nat
  BY GridFinite
<1>2. \A x \in Q : f[x] \in 1..n /\ f[x] = Cardinality(Sooner(Q, x)) + 1
  BY <1>1, SoonerIs
<1>3. ASSUME NEW x \in Q, NEW y \in Q, f[x] = f[y]
      PROVE  x = y
  <2>1. Cardinality(Sooner(Q, x)) = Cardinality(Sooner(Q, y))
    BY <1>2, <1>3, SoonerIs
  <2>2. ~(x.end < y.end) /\ ~(y.end < x.end)
    BY <2>1, SoonerGrows, SoonerIs
  <2> QED
    BY <2>2 DEF OnGrid
<1>4. f \in Injection(Q, 1..n)
  <2>1. f \in [Q -> 1..n]
    BY <1>2
  <2> HIDE DEF f
  <2> QED
    BY <1>3, <2>1 DEF Injection, IsInjective
<1>5. f \in Surjection(Q, 1..n)
  <2>1. IsFiniteSet(1..n) /\ Cardinality(1..n) = n
    BY <1>1, FS_Interval
  <2> HIDE DEF f
  <2> QED
    BY <1>4, <2>1, FS_Injection
<1>6. \A i \in 1..n : \E x \in Q : f[x] = i
  <2> HIDE DEF f
  <2> QED
    BY <1>5 DEF Surjection
<1>7. ASSUME NEW i \in 1..n
      PROVE  Nth(i) \in Q /\ f[Nth(i)] = i
  <2>1. PICK x \in Q : f[x] = i
    BY <1>6
  <2>2. Cardinality(Sooner(Q, x)) = i - 1
    BY <1>2, <2>1, SoonerIs
  <2>3. Nth(i) \in Q /\ Cardinality(Sooner(Q, Nth(i))) = i - 1
    BY <2>2
  <2> QED
    BY <1>2, <2>3
<1>8. \A i \in 1..n : S[i] = Nth(i)
  BY DEF ByEnd, Sooner
<1>9. S \in [1..n -> Q]
  <2>1. S = [i \in 1..n |-> Nth(i)]
    BY Zenon DEF ByEnd, Sooner
  <2> HIDE DEF Nth
  <2> QED
    BY <1>7, <2>1
<1> HIDE DEF f, Nth
<1>10. ASSUME NEW x \in Q
       PROVE  \E i \in 1..n : S[i] = x
  <2>1. f[x] \in 1..n
    BY <1>2
  <2>2. S[f[x]] \in Q /\ f[S[f[x]]] = f[x]
    BY <1>7, <1>8, <2>1
  <2> QED
    BY <1>3, <2>1, <2>2
<1>11. ASSUME NEW i \in 1..n, NEW j \in 1..n, i < j
       PROVE  S[i].end < S[j].end
  <2>1. S[i] \in Q /\ S[j] \in Q /\ f[S[i]] = i /\ f[S[j]] = j
    BY <1>7, <1>8
  <2>2. Cardinality(Sooner(Q, S[i])) < Cardinality(Sooner(Q, S[j]))
    BY <1>2, <1>11, <2>1, SoonerIs
  <2>3. S[i].end \in Nat /\ S[j].end \in Nat /\ S[i] # S[j]
    BY <1>11, <2>1 DEF OnGrid
  <2>4. ~(S[j].end < S[i].end)
    BY <2>1, <2>2, SoonerGrows, SoonerIs
  <2>5. S[i].end # S[j].end
    BY <2>1, <2>3 DEF OnGrid
  <2> QED
    BY <2>3, <2>4, <2>5
<1> QED
  BY <1>1, <1>9, <1>10, <1>11
\* The quarters that research reports or derives.
Quarters(F) == UNION {QuarterFrom(F, year, place) : year \in {f.period.year : f \in F}, place \in 1..4}

LEMMA QuartersAre ==
    ASSUME NEW F, NEW m, IsLine(F, m)
    PROVE  /\ OnGrid(Quarters(F)) /\ \A q \in Quarters(F) : q.start = q.end
           /\ \A q \in Quarters(F) : IsQuarter(q, F, m, q.year, q.place)
<1>1. ASSUME NEW q \in Quarters(F)
      PROVE  IsQuarter(q, F, m, q.year, q.place) /\ q \in QuarterFrom(F, q.year, q.place)
  <2>1. PICK y, p : p \in 1..4 /\ q \in QuarterFrom(F, y, p)
    BY DEF Quarters
  <2>2. IsQuarter(q, F, m, y, p)
    BY <2>1, QuarterFromIs
  <2>3. q.year = y /\ q.place = p
    BY <2>2 DEF IsQuarter
  <2> QED
    BY <2>1, <2>2, <2>3
<1>2. \A q \in Quarters(F) : /\ q.year \in Nat \ {0} /\ q.place \in 1..4
                             /\ q.start = q.end /\ q.end = QuarterOf(q.year, q.place)
                             /\ q.available \in Nat
                             /\ q.end <= q.available /\ q.available <= today
  BY <1>1 DEF IsQuarter
<1>3. today \in Nat
  BY DEF IsLine
<1>4. ASSUME NEW q \in Quarters(F)
      PROVE  q.end \in 1..today
  BY <1>2, <1>3 DEF QuarterOf
<1>5. ASSUME NEW q \in Quarters(F), NEW r \in Quarters(F), q.end = r.end
      PROVE  q = r
  <2>1. q.year = r.year /\ q.place = r.place
    <3>1. /\ q.year \in Int /\ q.place \in 1..4 /\ q.end = QuarterOf(q.year, q.place)
          /\ r.year \in Int /\ r.place \in 1..4 /\ q.end = QuarterOf(r.year, r.place)
      BY <1>2, <1>5
    <3>2. YearOf(q.end) = q.year /\ PlaceOf(q.end) = q.place
      BY <3>1, QuarterTells
    <3>3. YearOf(q.end) = r.year /\ PlaceOf(q.end) = r.place
      BY <3>1, QuarterTells
    <3> QED
      BY <3>2, <3>3
  <2>2. q \in QuarterFrom(F, q.year, q.place) /\ r \in QuarterFrom(F, q.year, q.place)
    BY <1>1, <2>1
  <2>3. q.place \in 1..4
    BY <1>2
  <2> QED
    BY <2>2, <2>3, QuarterFromIs
<1> QED
  BY <1>1, <1>2, <1>3, <1>4, <1>5 DEF OnGrid
-----------------------------------------------------------------------------
\* Stretches of a series of quarters.

IsUnit(Q) == OnGrid(Q) /\ \A x \in Q : x.start = x.end

\* Observations in a row, the last of a named quarter.
Windows(Q, y, p, back) ==
    {W \in [1..back + 1 -> Q] :
        /\ W[back + 1].year = y /\ W[back + 1].place = p
        /\ \A i \in 1..back : Adjacent(W[i], W[i + 1])}

\* The observations of Q, every one of a quarter, in order.
IsSeries(S, n, Q) ==
    /\ IsUnit(Q) /\ n \in Nat /\ S \in [1..n -> Q] /\ Len(S) = n
    /\ \A x \in Q : \E i \in 1..n : S[i] = x
    /\ \A i, j \in 1..n : i < j => S[i].end < S[j].end

LEMMA SeriesOf ==
    ASSUME NEW Q, IsUnit(Q), NEW S, S = ByEnd(Q)
    PROVE  \E n : IsSeries(S, n, Q)
<1>1. PICK n : n = Cardinality(Q)
  OBVIOUS
<1>2. /\ n \in Nat /\ S \in [1..n -> Q]
      /\ \A x \in Q : \E i \in 1..n : S[i] = x
      /\ \A i, j \in 1..n : i < j => S[i].end < S[j].end
  BY <1>1, ByEndIs DEF IsUnit
<1>3. Len(S) = n
  BY <1>2, SeqDef, LenProperties
<1> QED
  BY <1>2, <1>3 DEF IsSeries

PartOf(S, j, back) == SubSeq(S, j - back, j)

\* W is the observations up to the j-th, and `back` before it.
IsStretch(W, S, j, back) ==
    /\ W = [i \in 1..back + 1 |-> W[i]] /\ Len(W) = back + 1
    /\ \A i \in 1..back + 1 : W[i] = S[j - back - 1 + i]

LEMMA PartIs ==
    ASSUME NEW S, NEW Q, NEW n, IsSeries(S, n, Q), NEW back \in Nat,
           NEW j \in back + 1..n, NEW W, W = PartOf(S, j, back)
    PROVE  IsStretch(W, S, j, back) /\ W \in [1..back + 1 -> Q] /\ W[back + 1] = S[j]
<1>1. S \in Seq(Q) /\ Len(S) = n /\ n \in Nat
  BY SeqDef DEF IsSeries
<1>2. j - back \in 1..Len(S) + 1 /\ j \in (j - back) - 1..Len(S)
  BY <1>1
<1>3. /\ W \in Seq(Q) /\ Len(W) = back + 1
      /\ \A i \in 1..back + 1 : W[i] = S[j - back - 1 + i]
  <2>1. PICK a : a = j - back
    OBVIOUS
  <2>2. a \in 1..Len(S) + 1 /\ j \in a - 1..Len(S)
    BY <1>2, <2>1
  <2>3. /\ W \in Seq(Q) /\ Len(W) = j - a + 1
        /\ \A i \in 1..j - a + 1 : W[i] = S[a + i - 1]
    BY <1>1, <2>1, <2>2, SubSeqProperties DEF PartOf
  <2>4. j - a + 1 = back + 1
    BY <1>1, <2>1
  <2>5. ASSUME NEW i \in 1..back + 1
        PROVE  W[i] = S[j - back - 1 + i]
    <3>1. W[i] = S[a + i - 1]
      BY <2>3, <2>4
    <3>2. a + i - 1 = j - back - 1 + i
      BY <1>1, <2>1
    <3> QED
      BY <3>1, <3>2
  <2> QED
    BY <2>3, <2>4, <2>5
<1>4. W \in [1..back + 1 -> Q]
  BY <1>3, LenProperties
<1>5. back + 1 \in 1..back + 1 /\ j - back - 1 + (back + 1) = j
  BY <1>1
<1> QED
  BY <1>3, <1>4, <1>5 DEF IsStretch
Matches(W, S, j, back) == \A t \in 0..back : W[back + 1 - t] = S[j - t]

\* A window's observations are next to each other in the series.
LEMMA WindowIsPart ==
    ASSUME NEW Q, NEW S, NEW n, IsSeries(S, n, Q), NEW back \in Nat,
           NEW y, NEW p, NEW W \in Windows(Q, y, p, back)
    PROVE  \E j \in back + 1..n : Matches(W, S, j, back)
<1>1. /\ n \in Nat /\ S \in [1..n -> Q] /\ IsUnit(Q)
      /\ \A x \in Q : \E i \in 1..n : S[i] = x
      /\ \A i, j \in 1..n : i < j => S[i].end < S[j].end
  BY DEF IsSeries
<1>2. W \in [1..back + 1 -> Q] /\ \A i \in 1..back : W[i + 1].end = W[i].end + 1
  <2>1. W \in [1..back + 1 -> Q] /\ \A i \in 1..back : Adjacent(W[i], W[i + 1])
    BY DEF Windows
  <2>2. ASSUME NEW i \in 1..back
        PROVE  W[i + 1].end = W[i].end + 1
    <3>1. i + 1 \in 1..back + 1
      OBVIOUS
    <3>2. W[i + 1] \in Q
      BY <2>1, <3>1
    <3> QED
      BY <1>1, <2>1, <3>2 DEF Adjacent, IsUnit
  <2> QED
    BY <2>1, <2>2
<1>3. \A x \in Q : x.end \in Nat
  BY <1>1 DEF IsUnit, OnGrid
<1>4. PICK j \in 1..n : S[j] = W[back + 1]
  <2>1. W[back + 1] \in Q
    BY <1>2
  <2> QED
    BY <1>1, <2>1
<1> DEFINE Fits(t) == t < j /\ W[back + 1 - t] = S[j - t]
           Bad == {t \in 0..back : ~Fits(t)}
<1>5. Fits(0)
  BY <1>1, <1>4
<1>6. ASSUME NEW t \in 1..back, Fits(t - 1)
      PROVE  Fits(t)
  <2>1. PICK i : i = back + 1 - t
    OBVIOUS
  <2>2. i \in 1..back /\ i + 1 = back + 1 - (t - 1)
    BY <2>1
  <2>3. PICK l : l = j - (t - 1)
    OBVIOUS
  <2>4. l \in 1..n /\ W[i + 1] = S[l] /\ l - 1 = j - t /\ (t < j <=> l > 1)
    BY <1>1, <1>6, <2>2, <2>3
  <2>5. S[l].end = W[i].end + 1 /\ W[i] \in Q /\ S[l] \in Q
    BY <1>1, <1>2, <2>2, <2>4
  <2>6. PICK k \in 1..n : S[k] = W[i]
    BY <1>1, <2>5
  <2>7. /\ S[k].end \in Nat /\ S[l].end = S[k].end + 1
    BY <1>3, <2>5, <2>6
  <2>8. k < l
    <3>1. k # l
      BY <2>7
    <3>2. ~(l < k)
      <4>1. SUFFICES ASSUME l < k
                     PROVE  FALSE
        OBVIOUS
      <4>2. S[l].end < S[k].end
        BY <1>1, <2>4, <4>1
      <4> QED
        BY <2>7, <4>2
    <3> QED
      BY <1>1, <2>4, <3>1, <3>2
  <2>9. ~(k < l - 1)
    <3>1. SUFFICES ASSUME k < l - 1
                   PROVE  FALSE
      OBVIOUS
    <3>2. PICK o : o = l - 1
      OBVIOUS
    <3>3. o \in 1..n /\ k < o /\ o < l
      BY <1>1, <2>4, <3>1, <3>2
    <3>4. S[k].end < S[o].end /\ S[o].end < S[l].end /\ S[o].end \in Nat
      BY <1>1, <1>3, <2>4, <3>3
    <3> QED
      BY <2>7, <3>4
  <2>10. k = l - 1
    BY <1>1, <2>4, <2>8, <2>9
  <2> QED
    BY <2>1, <2>4, <2>6, <2>8, <2>10
<1>7. Bad = {}
  <2>1. SUFFICES ASSUME Bad # {}
                 PROVE  FALSE
    OBVIOUS
  <2>2. Bad \in SUBSET Nat
    OBVIOUS
  <2>3. PICK t \in Bad : \A s \in Bad : t <= s
    <3> HIDE DEF Bad
    <3> QED
      BY <2>1, <2>2, LeastOf
  <2>4. t # 0 /\ t \in 0..back /\ ~Fits(t)
    BY <1>5
  <2>5. t \in 1..back /\ t - 1 \in 0..back /\ ~(t <= t - 1)
    BY <2>4
  <2>6. Fits(t - 1)
    <3> HIDE DEF Fits
    <3> QED
      BY <2>3, <2>5
  <2> HIDE DEF Fits
  <2> QED
    BY <1>6, <2>4, <2>5, <2>6
<1>8. \A t \in 0..back : Fits(t)
  BY <1>7
<1>9. j \in back + 1..n
  <2>1. back < j
    BY <1>8
  <2> QED
    BY <1>1, <2>1
<1> QED
  BY <1>8, <1>9 DEF Matches

LEMMA StretchesAre ==
    ASSUME NEW Q, IsUnit(Q), NEW S, S = ByEnd(Q), NEW back \in Nat, NEW y, NEW p
    PROVE  Stretches(S, y, p, back) = Windows(Q, y, p, back)
<1>1. PICK n : IsSeries(S, n, Q)
  BY SeriesOf
<1>2. n \in Nat /\ Len(S) = n
  BY <1>1 DEF IsSeries
<1>3. \A W : Contiguous(W) <=> \A i \in 1..Len(W) - 1 : Adjacent(W[i], W[i + 1])
  BY DEF Contiguous
<1>4. ASSUME NEW j \in back + 1..n, NEW W, W = PartOf(S, j, back)
      PROVE  /\ IsStretch(W, S, j, back) /\ W \in [1..back + 1 -> Q] /\ W[back + 1] = S[j]
             /\ Contiguous(W) <=> \A i \in 1..back : Adjacent(W[i], W[i + 1])
  <2>1. IsStretch(W, S, j, back) /\ W \in [1..back + 1 -> Q] /\ W[back + 1] = S[j]
    BY <1>1, <1>4, PartIs
  <2>2. Len(W) - 1 = back
    BY <2>1 DEF IsStretch
  <2> QED
    BY <1>3, <2>1, <2>2
<1>5. ASSUME NEW W \in Stretches(S, y, p, back)
      PROVE  W \in Windows(Q, y, p, back)
  <2>1. PICK j \in back + 1..n : /\ S[j].year = y /\ S[j].place = p
                                 /\ Contiguous(W) /\ W = PartOf(S, j, back)
    BY <1>2 DEF Stretches, PartOf
  <2> QED
    BY <1>4, <2>1 DEF Windows
<1>6. ASSUME NEW W \in Windows(Q, y, p, back)
      PROVE  W \in Stretches(S, y, p, back)
  <2>1. PICK j \in back + 1..n : Matches(W, S, j, back)
    BY <1>1, WindowIsPart
  <2>2. PICK X : X = PartOf(S, j, back)
    OBVIOUS
  <2>3. /\ X \in [1..back + 1 -> Q] /\ X[back + 1] = S[j]
        /\ \A i \in 1..back + 1 : X[i] = S[j - back - 1 + i]
        /\ Contiguous(X) <=> \A i \in 1..back : Adjacent(X[i], X[i + 1])
    BY <1>4, <2>2 DEF IsStretch
  <2>4. /\ W \in [1..back + 1 -> Q] /\ W[back + 1].year = y /\ W[back + 1].place = p
        /\ \A i \in 1..back : Adjacent(W[i], W[i + 1])
    BY DEF Windows
  <2>5. ASSUME NEW i \in 1..back + 1
        PROVE  W[i] = X[i]
    <3>1. PICK t : t = back + 1 - i
      OBVIOUS
    <3>2. t \in 0..back /\ back + 1 - t = i /\ j - t = j - back - 1 + i
      BY <3>1
    <3> QED
      BY <2>1, <2>3, <3>2 DEF Matches
  <2>6. W = X
    BY <2>3, <2>4, <2>5
  <2> QED
    BY <1>2, <2>2, <2>3, <2>4, <2>6 DEF Stretches, PartOf
<1> QED
  BY <1>5, <1>6
-----------------------------------------------------------------------------
LEMMA SumOfFour ==
    ASSUME NEW a \in Int, NEW w, \A x \in a..a + 3 : w[x] \in Int
    PROVE  SumFunctionOnSet(w, a..a + 3) = w[a] + w[a + 1] + w[a + 2] + w[a + 3]
<1> DEFINE Up(b) == SumFunctionOnSet(w, a..b)
<1>1. ASSUME NEW i \in 0..3
      PROVE  Up(a + i) \in Int /\ Up(a + i) = w[a + i] + Up(a + i - 1)
  <2>1. PICK b : b = a + i
    OBVIOUS
  <2>2. b \in Int /\ a <= b /\ \A x \in a..b : w[x] \in Int
    BY <2>1
  <2>3. Up(b) \in Int /\ Up(b) = w[b] + Up(b - 1)
    BY <2>2, SumOfInterval
  <2> QED
    BY <2>1, <2>3
<1>2. Up(a - 1) = 0
  <2>1. a..a - 1 = {}
    OBVIOUS
  <2>2. SumFunctionOnSet(w, {}) = 0
    BY SumOfNone
  <2> QED
    BY <2>1, <2>2
<1>3. Up(a) \in Int /\ Up(a) = w[a] + Up(a - 1)
  <2>1. a + 0 = a /\ a + 0 - 1 = a - 1
    OBVIOUS
  <2> QED
    BY <1>1, <2>1
<1>4. Up(a + 1) \in Int /\ Up(a + 1) = w[a + 1] + Up(a)
  <2>1. a + 1 - 1 = a
    OBVIOUS
  <2> QED
    BY <1>1, <2>1
<1>5. Up(a + 2) \in Int /\ Up(a + 2) = w[a + 2] + Up(a + 1)
  <2>1. a + 2 - 1 = a + 1
    OBVIOUS
  <2> QED
    BY <1>1, <2>1
<1>6. Up(a + 3) \in Int /\ Up(a + 3) = w[a + 3] + Up(a + 2)
  <2>1. a + 3 - 1 = a + 2
    OBVIOUS
  <2> QED
    BY <1>1, <2>1
<1>7. w[a] \in Int /\ w[a + 1] \in Int /\ w[a + 2] \in Int /\ w[a + 3] \in Int
  OBVIOUS
<1> HIDE DEF Up
<1>8. Up(a + 3) = w[a] + w[a + 1] + w[a + 2] + w[a + 3]
  BY <1>2, <1>3, <1>4, <1>5, <1>6, <1>7
<1> QED
  BY <1>8 DEF Up

\* The editions of the figures of some years.
EditionsOf(F, years) == {f.edition : f \in {g \in F : g.period.year \in years}}

LEMMA QuarterTold ==
    ASSUME NEW F, NEW m, IsLine(F, m), NEW q \in Quarters(F), NEW years, q.year \in years,
           NEW e, EditionsOf(F, years) = {e}
    PROVE  q.start = q.end /\ q.value = Book[e][m][q.end] /\ q.value \in Int
<1>1. IsQuarter(q, F, m, q.year, q.place)
  BY QuartersAre
<1>2. PICK a \in F, b \in F :
          /\ a.period.year = q.year /\ b.period.year = q.year
          /\ a.edition = b.edition =>
                q.value = Book[a.edition][m][q.end] /\ q.value \in Int
  BY <1>1 DEF IsQuarter
<1>3. a.edition = e /\ b.edition = e
  BY <1>2 DEF EditionsOf
<1> QED
  BY <1>1, <1>2, <1>3 DEF IsQuarter

\* Twelve trailing months are four quarters of the books.
LEMMA TrailingTold ==
    ASSUME NEW F, NEW m, IsLine(F, m), NEW q \in Quarters(F), NEW S, S = ByEnd(Quarters(F)),
           NEW t \in Trailing(S, q.year, q.place),
           NEW e, EditionsOf(F, {q.year - 1, q.year}) = {e}
    PROVE  t.end = q.end /\ t.value = SumFunctionOnSet(Book[e][m], t.end - 3..t.end)
<1>1. PICK Q : Q = Quarters(F)
  OBVIOUS
<1>2. /\ IsUnit(Q) /\ \A x \in Q : IsQuarter(x, F, m, x.year, x.place)
  BY <1>1, QuartersAre DEF IsUnit
<1>3. PICK W \in Stretches(S, q.year, q.place, 3) :
        t = [value |-> SumFunction([i \in 1..4 |-> W[i].value]), start |-> W[1].start,
             end |-> W[4].end, available |-> AvailableFrom(W)]
  BY DEF Trailing
<1>4. W \in Windows(Q, q.year, q.place, 3)
  BY <1>1, <1>2, <1>3, StretchesAre
<1>5. /\ W \in [1..4 -> Q] /\ W[4].year = q.year /\ W[4].place = q.place
      /\ Adjacent(W[1], W[2]) /\ Adjacent(W[2], W[3]) /\ Adjacent(W[3], W[4])
  <2>1. 3 + 1 = 4
    OBVIOUS
  <2>2. /\ W \in [1..4 -> Q] /\ W[4].year = q.year /\ W[4].place = q.place
        /\ \A i \in 1..3 : Adjacent(W[i], W[i + 1])
    BY <1>4, <2>1 DEF Windows
  <2> QED
    BY <2>2
<1>6. PICK y, p, n : y = q.year /\ p = q.place /\ n = q.end
  OBVIOUS
<1>7. y \in Nat \ {0} /\ p \in 1..4 /\ n = QuarterOf(y, p) /\ n \in Nat
  <2>1. IsQuarter(q, F, m, q.year, q.place)
    BY <1>1, <1>2
  <2> QED
    BY <1>6, <2>1 DEF IsQuarter, QuarterOf
<1>8. \A i \in 1..4 : /\ W[i] \in Q /\ W[i].start = W[i].end
                      /\ W[i].year \in Nat \ {0} /\ W[i].place \in 1..4
                      /\ W[i].end = QuarterOf(W[i].year, W[i].place) /\ W[i].end \in Nat
  <2>1. ASSUME NEW x \in Q
        PROVE  /\ x.start = x.end /\ x.year \in Nat \ {0} /\ x.place \in 1..4
               /\ x.end = QuarterOf(x.year, x.place) /\ x.end \in Nat
    BY <1>2 DEF IsQuarter, QuarterOf
  <2> QED
    BY <1>5, <2>1
<1>9. W[4].end = n
  BY <1>5, <1>6, <1>7, <1>8
<1>10. W[3].end = n - 1 /\ W[2].end = n - 2 /\ W[1].end = n - 3
  <2>1. \A i \in 1..4 : W[i].start = W[i].end /\ W[i].end \in Nat
    BY <1>8
  <2>2. /\ W[4].start = W[3].end + 1 /\ W[3].start = W[2].end + 1
        /\ W[2].start = W[1].end + 1
    BY <1>5 DEF Adjacent
  <2> QED
    BY <1>7, <1>9, <2>1, <2>2
<1>11. ASSUME NEW i \in 1..4
       PROVE  W[i].end = n - 4 + i /\ W[i].value = Book[e][m][W[i].end] /\ W[i].value \in Int
  <2>1. W[i].end = n - 4 + i
    BY <1>7, <1>9, <1>10
  <2>2. PICK a, b : a = W[i].year /\ b = W[i].place
    OBVIOUS
  <2>3. a \in Nat \ {0} /\ b \in 1..4 /\ n - 4 + i = 4 * (a - 1) + b /\ n = 4 * (y - 1) + p
    BY <1>7, <1>8, <2>1, <2>2 DEF QuarterOf
  <2>4. a = y - 1 \/ a = y
    BY ONLY <1>7, <2>3, i \in 1..4
  <2>5. W[i] \in Quarters(F) /\ W[i].year \in {q.year - 1, q.year}
    BY <1>1, <1>6, <1>8, <2>2, <2>4
  <2> QED
    BY <2>1, <2>5, QuarterTold
<1>12. PICK v : v = [i \in 1..4 |-> W[i].value]
  OBVIOUS
<1>13. PICK w : w = Book[e][m]
  OBVIOUS
<1>14. \A i \in 1..4 : v[i] = w[n - 4 + i] /\ v[i] \in Int
  BY <1>11, <1>12, <1>13
<1>15. /\ SumFunctionOnSet(v, 1..4) = v[1] + v[2] + v[3] + v[4]
  <2>1. /\ 1 \in Int /\ \A x \in 1..1 + 3 : v[x] \in Int
    BY <1>14
  <2>2. SumFunctionOnSet(v, 1..1 + 3) = v[1] + v[1 + 1] + v[1 + 2] + v[1 + 3]
    BY <2>1, SumOfFour
  <2> QED
    BY <2>2
<1>16. SumFunctionOnSet(w, n - 3..n) = w[n - 3] + w[n - 2] + w[n - 1] + w[n]
  <2>1. PICK a : a = n - 3
    OBVIOUS
  <2>2. /\ a \in Int /\ a + 3 = n /\ a + 2 = n - 1 /\ a + 1 = n - 2
    BY <1>7, <2>1
  <2>3. ASSUME NEW x \in a..a + 3
        PROVE  w[x] \in Int
    <3>1. PICK i : i = x + 4 - n
      OBVIOUS
    <3>2. i \in 1..4 /\ n - 4 + i = x
      BY <1>7, <2>2, <3>1
    <3> QED
      BY <1>14, <3>2
  <2>4. SumFunctionOnSet(w, a..a + 3) = w[a] + w[a + 1] + w[a + 2] + w[a + 3]
    BY <2>2, <2>3, SumOfFour
  <2> QED
    BY <2>1, <2>2, <2>4
<1>17. v[1] = w[n - 3] /\ v[2] = w[n - 2] /\ v[3] = w[n - 1] /\ v[4] = w[n]
  <2>1. n - 4 + 1 = n - 3 /\ n - 4 + 2 = n - 2 /\ n - 4 + 3 = n - 1 /\ n - 4 + 4 = n
    BY <1>7
  <2>2. v[1] = w[n - 4 + 1] /\ v[2] = w[n - 4 + 2] /\ v[3] = w[n - 4 + 3] /\ v[4] = w[n - 4 + 4]
    BY <1>14
  <2> QED
    BY <2>1, <2>2
<1>18. t.value = SumFunctionOnSet(v, 1..4)
  <2>1. t.value = SumFunction(v) /\ DOMAIN v = 1..4
    BY <1>3, <1>12
  <2> QED
    BY <2>1 DEF SumFunction, FoldFunction, SumFunctionOnSet
<1>19. t.end = n
  BY <1>3, <1>9
<1> QED
  BY <1>6, <1>13, <1>15, <1>16, <1>17, <1>18, <1>19

LEMMA BooksTold ==
    ASSUME SeriesInv
    PROVE  QuartersTellBooks
<1> SUFFICES ASSUME NEW scope \in Scopes, NEW m \in Flow
             PROVE  LET V == KnownFigures(scope, today)
                        S == QuarterSeries(V, m)
                        Editions(years) ==
                            {f.edition : f \in {g \in V : g.metric = m /\ g.period.year \in years}}
                    IN /\ \A i \in DOMAIN S : \A e \in Editions({S[i].year}) :
                            Editions({S[i].year}) = {e} =>
                               S[i].start = S[i].end /\ S[i].value = Book[e][m][S[i].end]
                       /\ \A i \in DOMAIN S : \A t \in Trailing(S, S[i].year, S[i].place) :
                            \A e \in Editions({S[i].year - 1, S[i].year}) :
                               Editions({S[i].year - 1, S[i].year}) = {e} =>
                                  /\ t.end = S[i].end
                                  /\ t.value = SumFunctionOnSet(Book[e][m], t.end - 3..t.end)
  BY DEF QuartersTellBooks
<1> DEFINE V == KnownFigures(scope, today)
           S == QuarterSeries(V, m)
           Editions(years) ==
               {f.edition : f \in {g \in V : g.metric = m /\ g.period.year \in years}}
           F == {f \in V : f.metric = m}
<1>1. IsLine(F, m)
  BY LineIs
<1>2. S = ByEnd(Quarters(F))
  BY DEF QuarterSeries, Quarters
<1>3. \A years : Editions(years) = EditionsOf(F, years)
  BY DEF EditionsOf
<1> HIDE DEF F, S, Editions
<1>4. ASSUME NEW i \in DOMAIN S
      PROVE  S[i] \in Quarters(F)
  <2>1. IsUnit(Quarters(F))
    BY <1>1, QuartersAre DEF IsUnit
  <2>2. PICK n : IsSeries(S, n, Quarters(F))
    BY <1>2, <2>1, SeriesOf
  <2> QED
    BY <2>2 DEF IsSeries
<1>5. ASSUME NEW i \in DOMAIN S, NEW e, Editions({S[i].year}) = {e}
      PROVE  S[i].start = S[i].end /\ S[i].value = Book[e][m][S[i].end]
  <2>1. S[i].year \in {S[i].year} /\ EditionsOf(F, {S[i].year}) = {e}
    BY <1>3, <1>5
  <2> QED
    BY <1>1, <1>4, <2>1, QuarterTold
<1>6. ASSUME NEW i \in DOMAIN S, NEW t \in Trailing(S, S[i].year, S[i].place),
             NEW e, Editions({S[i].year - 1, S[i].year}) = {e}
      PROVE  /\ t.end = S[i].end
             /\ t.value = SumFunctionOnSet(Book[e][m], t.end - 3..t.end)
  <2>1. EditionsOf(F, {S[i].year - 1, S[i].year}) = {e}
    BY <1>3, <1>6
  <2> QED
    BY <1>1, <1>2, <1>4, <2>1, TrailingTold
<1>7. \A i \in DOMAIN S : \A e \in Editions({S[i].year}) :
         Editions({S[i].year}) = {e} =>
            S[i].start = S[i].end /\ S[i].value = Book[e][m][S[i].end]
  BY <1>5
<1>8. \A i \in DOMAIN S : \A t \in Trailing(S, S[i].year, S[i].place) :
         \A e \in Editions({S[i].year - 1, S[i].year}) :
            Editions({S[i].year - 1, S[i].year}) = {e} =>
               /\ t.end = S[i].end
               /\ t.value = SumFunctionOnSet(Book[e][m], t.end - 3..t.end)
  BY <1>6
<1> QED
  BY <1>7, <1>8 DEF S, Editions

\* As long as the filings of a year are of one edition, every quarter of a series, whether
\* reported or the difference of two cumulative periods, is that of the books, and twelve
\* trailing months are the sum of four of them (scoring's series of quarters and TTM).
THEOREM QuartersAreTheBooks == SeriesSpec => []QuartersTellBooks
  BY SeriesInvariant, BooksTold, PTL
-----------------------------------------------------------------------------
(* What is known at a cutoff, and the day before.                          *)

\* Every member of `now` was a member of `before`, unless it became available today.
Foreseen(before, now, c) ==
    \A x \in now : x.available \in Nat /\ (x.available < c => x \in before)

Sole(V) == \A f, h \in V : f.metric = h.metric /\ f.period = h.period => f = h

\* A period of which something was known is one of which something is.
StillKnown(before, now) == \A f \in before : \E h \in now : h.metric = f.metric /\ h.period = f.period

Evening(U, V, c) ==
    /\ c \in Nat /\ Foreseen(U, V, c) /\ Sole(U) /\ Sole(V) /\ StillKnown(U, V)
    /\ \A f \in V : f.available <= c /\ f.period.end \in Nat

\* Of the rows of a metric and a period, one is the newest.
LEMMA NewestRow ==
    ASSUME SeriesInv, NEW scope, NEW c \in Nat, NEW f \in Rows(scope, c), f.metric \in Flow \cup Stock
    PROVE  \E h \in KnownFigures(scope, c) : h.metric = f.metric /\ h.period = f.period
<1> DEFINE Own == {g \in Rows(scope, c) : g.metric = f.metric}
           OfPeriod == {g \in Own : g.period = f.period}
           Since == {g.available : g \in OfPeriod}
<1>1. \A g \in Rows(scope, c) : g.available \in Nat /\ g.loaded \in Nat /\ g.loaded <= today
  BY FiguresAre, FigureIs DEF Rows, SeriesInv
<1>2. f \in OfPeriod /\ OfPeriod \subseteq Rows(scope, c)
  OBVIOUS
<1>3. PICK a : a \in Since /\ \A x \in Since : x <= a
  <2>1. Since \in SUBSET Nat /\ Since # {} /\ \A x \in Since : x <= c
    BY <1>1, <1>2 DEF Rows
  <2> HIDE DEF Since
  <2> QED
    BY <2>1, GreatestUpTo
<1> DEFINE Newest == {g \in OfPeriod : g.available = a}
           Arrivals == {g.loaded : g \in Newest}
<1>4. PICK l : l \in Arrivals /\ \A x \in Arrivals : x <= l
  <2>1. Newest # {} /\ Newest \subseteq Rows(scope, c)
    BY <1>2, <1>3
  <2>2. Arrivals \in SUBSET Nat /\ Arrivals # {} /\ \A x \in Arrivals : x <= today
    BY <1>1, <2>1
  <2>3. today \in Nat
    BY DEF SeriesInv
  <2> HIDE DEF Arrivals
  <2> QED
    BY <2>2, <2>3, GreatestUpTo
<1>5. PICK h \in Newest : h.loaded = l
  BY <1>4
<1>6. ASSUME NEW g \in Own, g.period = h.period
      PROVE  /\ ~(g.available > h.available)
             /\ ~(g.available = h.available /\ g.loaded > h.loaded)
  <2>1. g \in OfPeriod /\ g.available \in Nat /\ g.loaded \in Nat
    BY <1>1, <1>5, <1>6
  <2>2. g.available <= a /\ h.available = a /\ h.loaded = l /\ l \in Nat /\ a \in Nat
    BY <1>1, <1>3, <1>5, <2>1
  <2>3. g.available = a => g.loaded <= l
    BY <1>4, <2>1
  <2> QED
    BY <2>1, <2>2, <2>3
<1>7. h \in Own /\ h.metric = f.metric /\ h.period = f.period
  BY <1>5
<1>8. h \in KnownFigures(scope, c)
  <2> DEFINE Supersedes(g, i) ==
                /\ g.period = i.period
                /\ \/ g.available > i.available
                   \/ g.available = i.available /\ g.loaded > i.loaded
  <2>1. \A g \in Own : ~Supersedes(g, h)
    BY <1>6
  <2>2. h \in {i \in Own : \A g \in Own : ~Supersedes(g, i)}
    BY <1>7, <2>1
  <2> QED
    BY <2>2 DEF KnownFigures
<1> QED
  BY <1>7, <1>8

LEMMA EveningIs ==
    ASSUME SeriesInv, NEW scope, NEW c \in Nat, c - 1 \in Nat, NEW U, U = KnownFigures(scope, c - 1),
           NEW V, V = KnownFigures(scope, c)
    PROVE  Evening(U, V, c)
<1>1. /\ U \subseteq Rows(scope, c - 1) /\ Sole(U) /\ V \subseteq Rows(scope, c) /\ Sole(V)
  BY KnownAre DEF Sole
<1>2. \A g \in figures : g.available \in Nat /\ g.metric \in Flow \cup Stock
  BY FiguresAre, FigureIs DEF SeriesInv, IsFigure
<1>3. \A g \in Rows(scope, c - 1) : g \in Rows(scope, c)
  BY <1>2 DEF Rows
<1>4. ASSUME NEW f \in V
      PROVE  f.available \in Nat /\ (f.available < c => f \in U)
  <2>1. f.available \in Nat /\ f \in Rows(scope, c)
    BY <1>1, <1>2 DEF Rows
  <2>2. ASSUME f.available < c
        PROVE  f \in Rows(scope, c - 1) /\ f.metric \in Flow \cup Stock
    BY <1>2, <2>1, <2>2 DEF Rows
  <2> DEFINE Supersedes(g, i) ==
                /\ g.period = i.period
                /\ \/ g.available > i.available
                   \/ g.available = i.available /\ g.loaded > i.loaded
             Own(d) == {g \in Rows(scope, d) : g.metric = f.metric}
  <2>3. \A g \in Own(c) : ~Supersedes(g, f)
    BY DEF KnownFigures
  <2>4. ASSUME f.available < c
        PROVE  f \in U
    <3>1. \A g \in Own(c - 1) : g \in Own(c)
      BY <1>3
    <3>2. f \in {i \in Own(c - 1) : \A g \in Own(c - 1) : ~Supersedes(g, i)}
      BY <2>2, <2>3, <2>4, <3>1
    <3> QED
      BY <2>2, <2>4, <3>2 DEF KnownFigures
  <2> QED
    BY <2>1, <2>4
<1>5. ASSUME NEW f \in U
      PROVE  \E h \in V : h.metric = f.metric /\ h.period = f.period
  BY <1>1, <1>2, <1>3, NewestRow DEF Rows
<1>6. ASSUME NEW f \in V
      PROVE  f.available <= c /\ f.period.end \in Nat
  <2>1. f \in figures /\ f.available <= c
    BY <1>1 DEF Rows
  <2>2. PICK g, k : IsFigure(f, g, k)
    BY <2>1, FiguresAre
  <2>3. g \in Calendar /\ k \in g.columns /\ f.period = Period(k, g.ends)
    BY <2>2, FigureIs DEF SeriesInv, IsFigure
  <2>4. f.period.end \in Nat
    BY <2>3, PeriodIs
  <2> QED
    BY <2>1, <2>4
<1> QED
  BY <1>1, <1>4, <1>5, <1>6 DEF Evening, Foreseen, StillKnown
\* Two lines of figures, those of a day and of the day before.
Lines(E, F, m, c) ==
    /\ IsLine(E, m) /\ IsLine(F, m) /\ c \in Nat /\ Foreseen(E, F, c)
    /\ \A f \in E : \E h \in F : h.period = f.period

LEMMA LinesAre ==
    ASSUME SeriesInv, NEW scope, NEW c \in Nat, c - 1 \in Nat, NEW m \in Flow,
           NEW E, E = {f \in KnownFigures(scope, c - 1) : f.metric = m},
           NEW F, F = {f \in KnownFigures(scope, c) : f.metric = m}
    PROVE  Lines(E, F, m, c)
<1>1. PICK U, V : U = KnownFigures(scope, c - 1) /\ V = KnownFigures(scope, c)
  OBVIOUS
<1>2. Evening(U, V, c)
  BY <1>1, EveningIs
<1>3. IsLine(E, m) /\ IsLine(F, m)
  BY LineIs
<1>4. E = {f \in U : f.metric = m} /\ F = {f \in V : f.metric = m}
  BY <1>1
<1>5. Foreseen(E, F, c)
  BY <1>2, <1>4 DEF Evening, Foreseen
<1>6. \A f \in E : \E h \in F : h.period = f.period
  BY <1>2, <1>4 DEF Evening, StillKnown
<1> QED
  BY <1>3, <1>5, <1>6 DEF Lines

LEMMA LaterThan ==
    ASSUME NEW a \in Nat, NEW b \in Nat, NEW c \in Nat
    PROVE  /\ LaterOf(a, b) \in Nat /\ (LaterOf(a, b) < c => a < c /\ b < c)
  BY DEF LaterOf

LEMMA FoundAhead ==
    ASSUME NEW E, NEW F, NEW m, NEW c, Lines(E, F, m, c), NEW y, NEW k, NEW p
    PROVE  /\ Foreseen(Find(E, y, k, p), Find(F, y, k, p), c)
           /\ Find(F, y, k, p) = {} => Find(E, y, k, p) = {}
<1>1. Foreseen(Find(E, y, k, p), Find(F, y, k, p), c)
  BY DEF Foreseen, Find, Lines
<1>2. ASSUME NEW f \in Find(E, y, k, p)
      PROVE  Find(F, y, k, p) # {}
  <2>1. PICK h \in F : h.period = f.period
    BY DEF Lines, Find
  <2>2. h \in Find(F, y, k, p)
    BY <2>1 DEF Find
  <2> QED
    BY <2>2
<1> QED
  BY <1>1, <1>2

LEMMA ReportedAhead ==
    ASSUME NEW E, NEW F, NEW m, NEW c, Lines(E, F, m, c), NEW y, NEW p
    PROVE  /\ Foreseen(ReportedQuarter(E, y, p), ReportedQuarter(F, y, p), c)
           /\ ReportedQuarter(F, y, p) = {} => ReportedQuarter(E, y, p) = {}
<1>1. \A f : QuarterValue(f).available = f.available
  BY DEF QuarterValue
<1>2. /\ Foreseen(Find(E, y, "quarter", p), Find(F, y, "quarter", p), c)
      /\ Find(F, y, "quarter", p) = {} => Find(E, y, "quarter", p) = {}
  BY FoundAhead
<1>3. ASSUME NEW q \in ReportedQuarter(F, y, p)
      PROVE  q.available \in Nat /\ (q.available < c => q \in ReportedQuarter(E, y, p))
  <2>1. PICK f \in Find(F, y, "quarter", p) :
           q = QuarterValue(f) /\ (p = 1 \/ ~f.period.ytd)
    BY DEF ReportedQuarter
  <2>2. q.available = f.available
    BY <1>1, <2>1
  <2>3. f.available \in Nat /\ (f.available < c => f \in Find(E, y, "quarter", p))
    BY <1>2 DEF Foreseen
  <2>4. f \in Find(E, y, "quarter", p) => q \in ReportedQuarter(E, y, p)
    BY <2>1 DEF ReportedQuarter
  <2> QED
    BY <2>2, <2>3, <2>4
<1>4. ASSUME NEW q \in ReportedQuarter(E, y, p)
      PROVE  ReportedQuarter(F, y, p) # {}
  <2>1. PICK f \in Find(F, y, "quarter", p) : TRUE
    BY <1>2 DEF ReportedQuarter
  <2>2. ~f.period.ytd
    BY <2>1, FoundIs DEF Lines
  <2>3. QuarterValue(f) \in ReportedQuarter(F, y, p)
    BY <2>1, <2>2 DEF ReportedQuarter
  <2> QED
    BY <2>3
<1> QED
  BY <1>3, <1>4 DEF Foreseen

LEMMA DerivedAhead ==
    ASSUME NEW E, NEW F, NEW m, NEW c, Lines(E, F, m, c), NEW y, NEW p \in 1..4
    PROVE  Foreseen(DerivedQuarter(E, y, p), DerivedQuarter(F, y, p), c)
<1>1. \A k, o : Foreseen(Find(E, y, k, o), Find(F, y, k, o), c)
  BY FoundAhead
<1>2. Foreseen({}, {}, c)
  BY DEF Foreseen
<1>3. Foreseen(Cumulative(E, y, p), Cumulative(F, y, p), c)
  BY <1>1, <1>2 DEF Cumulative
<1>4. Foreseen(Preceding(E, y, p), Preceding(F, y, p), c)
  BY <1>1, <1>2 DEF Preceding
<1>5. ASSUME NEW q \in DerivedQuarter(F, y, p)
      PROVE  q.available \in Nat /\ (q.available < c => q \in DerivedQuarter(E, y, p))
  <2>1. PICK a \in Cumulative(F, y, p), b \in Preceding(F, y, p) :
           q = Difference(a, b, p) /\ CompatiblePair(b, a)
    BY DEF DerivedQuarter
  <2>2. q.available = LaterOf(a.available, b.available)
    BY <2>1 DEF Difference
  <2>3. /\ a.available \in Nat /\ (a.available < c => a \in Cumulative(E, y, p))
        /\ b.available \in Nat /\ (b.available < c => b \in Preceding(E, y, p))
    BY <1>3, <1>4 DEF Foreseen
  <2>4. q.available \in Nat /\ (q.available < c => a.available < c /\ b.available < c)
    BY <2>2, <2>3, LaterThan DEF Lines
  <2>5. a \in Cumulative(E, y, p) /\ b \in Preceding(E, y, p) => q \in DerivedQuarter(E, y, p)
    <3>1. PICK r : r = <<a, b>>
      OBVIOUS
    <3>2. r[1] = a /\ r[2] = b
      BY <3>1
    <3> QED
      BY <2>1, <3>1, <3>2 DEF DerivedQuarter
  <2> QED
    BY <2>3, <2>4, <2>5
<1> QED
  BY <1>5 DEF Foreseen

\* A quarter that is derived today was not reported yesterday.
LEMMA QuarterAhead ==
    ASSUME NEW E, NEW F, NEW m, NEW c, Lines(E, F, m, c), NEW y, NEW p \in 1..4
    PROVE  Foreseen(QuarterFrom(E, y, p), QuarterFrom(F, y, p), c)
<1>1. CASE ReportedQuarter(F, y, p) # {}
  <2>1. Foreseen(ReportedQuarter(E, y, p), ReportedQuarter(F, y, p), c)
    BY ReportedAhead
  <2>2. QuarterFrom(F, y, p) = ReportedQuarter(F, y, p)
    BY <1>1 DEF QuarterFrom
  <2>3. \A q \in ReportedQuarter(E, y, p) : q \in QuarterFrom(E, y, p)
    BY DEF QuarterFrom
  <2> QED
    BY <2>1, <2>2, <2>3 DEF Foreseen
<1>2. CASE ReportedQuarter(F, y, p) = {}
  <2>1. ReportedQuarter(E, y, p) = {}
    BY <1>2, ReportedAhead
  <2> QED
    BY <1>2, <2>1, DerivedAhead DEF QuarterFrom
<1> QED
  BY <1>1, <1>2

LEMMA QuartersAhead ==
    ASSUME NEW E, NEW F, NEW m, NEW c, Lines(E, F, m, c)
    PROVE  /\ IsUnit(Quarters(E)) /\ IsUnit(Quarters(F))
           /\ Foreseen(Quarters(E), Quarters(F), c) /\ \A q \in Quarters(F) : q.available <= today
<1>1. IsLine(E, m) /\ IsLine(F, m)
  BY DEF Lines
<1>2. IsUnit(Quarters(E)) /\ IsUnit(Quarters(F))
  BY <1>1, QuartersAre DEF IsUnit
<1>3. ASSUME NEW q \in Quarters(F)
      PROVE  /\ q.available \in Nat /\ q.available <= today
             /\ q.available < c => q \in Quarters(E)
  <2>1. PICK y, p : p \in 1..4 /\ q \in QuarterFrom(F, y, p)
    BY DEF Quarters
  <2>2. q.available \in Nat /\ q.available <= today
    BY <1>1, <2>1, QuarterFromIs DEF IsQuarter
  <2>3. q.available < c => q \in QuarterFrom(E, y, p)
    BY <2>1, QuarterAhead DEF Foreseen
  <2>4. ASSUME q \in QuarterFrom(E, y, p)
        PROVE  q \in Quarters(E)
    <3>1. IsQuarter(q, E, m, y, p)
      BY <1>1, <2>1, <2>4, QuarterFromIs
    <3>2. PICK a \in E : a.period.year = y
      BY <3>1 DEF IsQuarter
    <3> QED
      BY <2>1, <2>4, <3>2 DEF Quarters
  <2> QED
    BY <2>2, <2>3, <2>4
<1> QED
  BY <1>2, <1>3 DEF Foreseen
-----------------------------------------------------------------------------
(* Windows of a day, and of the day before.                                *)

Rise(P, Q, c) ==
    /\ IsUnit(P) /\ IsUnit(Q) /\ c \in Nat /\ Foreseen(P, Q, c)
    /\ \A q \in Q : q.available <= today

\* A window is known from the day its last observation became known.
LEMMA WindowAhead ==
    ASSUME NEW P, NEW Q, NEW c, Rise(P, Q, c), NEW back \in Nat, NEW y, NEW p,
           NEW W \in Windows(Q, y, p, back)
    PROVE  /\ AvailableFrom(W) \in Nat /\ AvailableFrom(W) <= today
           /\ AvailableFrom(W) < c => W \in Windows(P, y, p, back)
<1> DEFINE A == {W[i].available : i \in DOMAIN W}
<1>1. W \in [1..back + 1 -> Q] /\ DOMAIN W = 1..back + 1 /\ back + 1 \in 1..back + 1
  BY DEF Windows
<1>2. \A i \in 1..back + 1 : W[i] \in Q /\ W[i].available \in Nat /\ W[i].available <= today
  BY <1>1 DEF Rise, Foreseen
<1>3. A \in SUBSET Nat /\ A # {} /\ \A a \in A : a <= today
  BY <1>1, <1>2
<1>4. today \in Nat /\ c \in Nat
  BY DEF Rise, IsUnit, OnGrid
<1>5. \A i \in 1..back + 1 : W[i].available \in A
  BY <1>1
<1> HIDE DEF A
<1>6. Max(A) \in A /\ \A a \in A : a <= Max(A)
  BY <1>3, <1>4, GreatestUpTo
<1>7. AvailableFrom(W) = Max(A)
  BY DEF AvailableFrom, A
<1>8. ASSUME AvailableFrom(W) < c
      PROVE  W \in Windows(P, y, p, back)
  <2>1. ASSUME NEW i \in 1..back + 1
        PROVE  W[i] \in P
    <3>1. W[i].available <= Max(A) /\ Max(A) < c /\ Max(A) \in Nat /\ W[i].available \in Nat
      BY <1>2, <1>3, <1>5, <1>6, <1>7, <1>8
    <3>2. W[i].available < c
      BY <1>4, <3>1
    <3> QED
      BY <1>2, <3>2 DEF Rise, Foreseen
  <2>2. W \in [1..back + 1 -> P]
    BY <1>1, <2>1
  <2> QED
    BY <2>2 DEF Windows
<1> QED
  BY <1>3, <1>6, <1>7, <1>8

LEMMA StretchAhead ==
    ASSUME NEW P, NEW Q, NEW c, Rise(P, Q, c), NEW back \in Nat, NEW y, NEW p,
           NEW W \in Stretches(ByEnd(Q), y, p, back)
    PROVE  /\ AvailableFrom(W) \in Nat /\ AvailableFrom(W) <= today
           /\ AvailableFrom(W) < c => W \in Stretches(ByEnd(P), y, p, back)
<1>1. /\ Stretches(ByEnd(Q), y, p, back) = Windows(Q, y, p, back)
      /\ Stretches(ByEnd(P), y, p, back) = Windows(P, y, p, back)
  BY StretchesAre DEF Rise
<1> QED
  BY <1>1, WindowAhead

\* Of a quarter there is one window of a length.
LEMMA WindowUnique ==
    ASSUME NEW Q, IsUnit(Q), NEW back \in Nat, NEW y, NEW p, NEW W \in Windows(Q, y, p, back),
           NEW X \in Windows(Q, y, p, back), W[back + 1] = X[back + 1]
    PROVE  W = X
<1>1. PICK S, n : IsSeries(S, n, Q)
  BY SeriesOf
<1>2. PICK j \in back + 1..n : Matches(W, S, j, back)
  <2>1. IsSeries(S, n, Q) /\ back \in Nat /\ W \in Windows(Q, y, p, back)
    BY <1>1
  <2> QED
    BY ONLY <2>1, WindowIsPart
<1>3. PICK k \in back + 1..n : Matches(X, S, k, back)
  <2>1. IsSeries(S, n, Q) /\ back \in Nat /\ X \in Windows(Q, y, p, back)
    BY <1>1
  <2> QED
    BY ONLY <2>1, WindowIsPart
<1>4. S[j] = S[k]
  <2>1. 0 \in 0..back /\ back + 1 - 0 = back + 1 /\ j - 0 = j /\ k - 0 = k
    BY <1>1 DEF IsSeries
  <2>2. W[back + 1] = S[j] /\ X[back + 1] = S[k]
    BY <1>2, <1>3, <2>1 DEF Matches
  <2> QED
    BY <2>2
<1>5. j = k
  <2>1. j \in 1..n /\ k \in 1..n /\ n \in Nat
    BY <1>1 DEF IsSeries
  <2>2. S[j] \in Q /\ S[j].end \in Nat
    BY <1>1, <2>1 DEF IsSeries, IsUnit, OnGrid
  <2>3. ~(j < k) /\ ~(k < j)
    BY <1>1, <1>4, <2>1, <2>2 DEF IsSeries
  <2> QED
    BY <2>1, <2>3
<1>6. W \in [1..back + 1 -> Q] /\ X \in [1..back + 1 -> Q]
  BY DEF Windows
<1>7. ASSUME NEW i \in 1..back + 1
      PROVE  W[i] = X[i]
  <2>1. PICK t : t = back + 1 - i
    OBVIOUS
  <2>2. t \in 0..back /\ back + 1 - t = i
    BY <2>1
  <2> QED
    BY <1>2, <1>3, <1>5, <2>2 DEF Matches
<1> QED
  BY <1>6, <1>7

PointOf(W, y, p, back) ==
    [year |-> y, place |-> p, start |-> W[back + 1].start, end |-> W[back + 1].end,
     mode |-> IF W[1].value > 0 THEN "percentage" ELSE "absolute",
     value |-> <<W[back + 1].value - W[1].value, IF W[1].value > 0 THEN W[1].value ELSE 1>>,
     available |-> AvailableFrom(W)]

LEMMA GrowthIs ==
    ASSUME NEW Q, IsUnit(Q), NEW back \in Nat, NEW y, NEW p
    PROVE  Growth(ByEnd(Q), y, p, back) = {PointOf(W, y, p, back) : W \in Windows(Q, y, p, back)}
<1>1. Stretches(ByEnd(Q), y, p, back) = Windows(Q, y, p, back)
  BY StretchesAre
<1> QED
  BY <1>1, Zenon DEF Growth, PointOf

LEMMA GrowthAhead ==
    ASSUME NEW P, NEW Q, NEW c, Rise(P, Q, c), NEW back \in Nat, NEW y, NEW p
    PROVE  /\ Foreseen(Growth(ByEnd(P), y, p, back), Growth(ByEnd(Q), y, p, back), c)
           /\ \A x \in Growth(ByEnd(Q), y, p, back) : x.available <= today
<1>1. /\ Growth(ByEnd(Q), y, p, back) = {PointOf(W, y, p, back) : W \in Windows(Q, y, p, back)}
      /\ Growth(ByEnd(P), y, p, back) = {PointOf(W, y, p, back) : W \in Windows(P, y, p, back)}
  BY GrowthIs DEF Rise
<1>2. \A W : PointOf(W, y, p, back).available = AvailableFrom(W)
  BY DEF PointOf
<1>3. ASSUME NEW x \in Growth(ByEnd(Q), y, p, back)
      PROVE  /\ x.available \in Nat /\ x.available <= today
             /\ x.available < c => x \in Growth(ByEnd(P), y, p, back)
  <2>1. PICK W \in Windows(Q, y, p, back) : x = PointOf(W, y, p, back)
    BY <1>1
  <2>2. x.available = AvailableFrom(W)
    BY <1>2, <2>1
  <2>3. /\ AvailableFrom(W) \in Nat /\ AvailableFrom(W) <= today
        /\ AvailableFrom(W) < c => W \in Windows(P, y, p, back)
    BY WindowAhead
  <2> QED
    BY <1>1, <2>1, <2>2, <2>3
<1> QED
  BY <1>3 DEF Foreseen

GrowthPoints(Q) ==
    UNION {Growth(ByEnd(Q), ByEnd(Q)[i].year, ByEnd(Q)[i].place, 4) : i \in DOMAIN ByEnd(Q)}

LEMMA GrowthSeriesIs ==
    ASSUME NEW Q
    PROVE  GrowthSeries(ByEnd(Q)) = ByEnd(GrowthPoints(Q))
  BY Zenon DEF GrowthSeries, GrowthPoints

LEMMA PointsAre ==
    ASSUME NEW Q, IsUnit(Q), NEW x
    PROVE  x \in GrowthPoints(Q) <=> \E y, p : \E W \in Windows(Q, y, p, 4) : x = PointOf(W, y, p, 4)
<1>1. PICK S : S = ByEnd(Q)
  OBVIOUS
<1>2. PICK n : IsSeries(S, n, Q)
  BY <1>1, SeriesOf
<1>3. DOMAIN S = 1..n /\ \A q \in Q : \E i \in 1..n : S[i] = q
  BY <1>2 DEF IsSeries
<1>4. \A y, p : Growth(S, y, p, 4) = {PointOf(W, y, p, 4) : W \in Windows(Q, y, p, 4)}
  BY <1>1, GrowthIs
<1>5. ASSUME x \in GrowthPoints(Q)
      PROVE  \E y, p : \E W \in Windows(Q, y, p, 4) : x = PointOf(W, y, p, 4)
  <2>1. PICK i \in DOMAIN S : x \in Growth(S, S[i].year, S[i].place, 4)
    BY <1>1, <1>5 DEF GrowthPoints
  <2> QED
    BY <1>4, <2>1
<1>6. ASSUME NEW y, NEW p, NEW W \in Windows(Q, y, p, 4), x = PointOf(W, y, p, 4)
      PROVE  x \in GrowthPoints(Q)
  <2>1. W \in [1..5 -> Q] /\ W[5].year = y /\ W[5].place = p
    <3>1. 4 + 1 = 5
      OBVIOUS
    <3> QED
      BY <3>1 DEF Windows
  <2>2. PICK i \in DOMAIN S : S[i] = W[5]
    BY <1>3, <2>1
  <2>3. x \in Growth(S, S[i].year, S[i].place, 4)
    BY <1>4, <1>6, <2>1, <2>2
  <2> QED
    BY <1>1, <2>3 DEF GrowthPoints
<1> QED
  BY <1>5, <1>6

LEMMA PointsOnGrid ==
    ASSUME NEW Q, IsUnit(Q)
    PROVE  IsUnit(GrowthPoints(Q))
<1>1. ASSUME NEW x \in GrowthPoints(Q)
      PROVE  \E W : \E y, p : /\ W \in Windows(Q, y, p, 4) /\ x = PointOf(W, y, p, 4)
                              /\ W[5] \in Q /\ W[5].year = y /\ W[5].place = p
                              /\ x.end = W[5].end /\ x.start = W[5].start
  <2>1. PICK y, p : \E W \in Windows(Q, y, p, 4) : x = PointOf(W, y, p, 4)
    BY PointsAre
  <2>2. PICK W \in Windows(Q, y, p, 4) : x = PointOf(W, y, p, 4)
    BY <2>1
  <2>3. 4 + 1 = 5
    OBVIOUS
  <2>4. W \in [1..5 -> Q] /\ W[5].year = y /\ W[5].place = p
    BY <2>3 DEF Windows
  <2>5. x.end = W[5].end /\ x.start = W[5].start
    BY <2>2, <2>3 DEF PointOf
  <2> QED
    BY <2>2, <2>4, <2>5
<1>2. \A x \in GrowthPoints(Q) : x.end \in 1..today /\ x.start = x.end
  BY <1>1 DEF IsUnit, OnGrid
<1>3. ASSUME NEW x \in GrowthPoints(Q), NEW z \in GrowthPoints(Q), x.end = z.end
      PROVE  x = z
  <2>1. PICK W, y, p : /\ W \in Windows(Q, y, p, 4) /\ x = PointOf(W, y, p, 4)
                       /\ W[5] \in Q /\ W[5].year = y /\ W[5].place = p /\ x.end = W[5].end
    BY <1>1
  <2>2. PICK X, r, o : /\ X \in Windows(Q, r, o, 4) /\ z = PointOf(X, r, o, 4)
                       /\ X[5] \in Q /\ X[5].year = r /\ X[5].place = o /\ z.end = X[5].end
    BY <1>1
  <2>3. W[5] = X[5]
    BY <1>3, <2>1, <2>2 DEF IsUnit, OnGrid
  <2>4. y = r /\ p = o
    BY <2>1, <2>2, <2>3
  <2>5. W = X
    <3>1. 4 \in Nat /\ 4 + 1 = 5
      OBVIOUS
    <3> QED
      BY <2>1, <2>2, <2>3, <2>4, <3>1, WindowUnique
  <2> QED
    BY <2>1, <2>2, <2>4, <2>5
<1>4. today \in Nat
  BY DEF IsUnit, OnGrid
<1> QED
  BY <1>2, <1>3, <1>4 DEF IsUnit, OnGrid

LEMMA PointsRise ==
    ASSUME NEW P, NEW Q, NEW c, Rise(P, Q, c)
    PROVE  Rise(GrowthPoints(P), GrowthPoints(Q), c)
<1>1. IsUnit(P) /\ IsUnit(Q) /\ c \in Nat
  BY DEF Rise
<1>2. ASSUME NEW x \in GrowthPoints(Q)
      PROVE  /\ x.available \in Nat /\ x.available <= today
             /\ x.available < c => x \in GrowthPoints(P)
  <2>1. PICK y, p : \E W \in Windows(Q, y, p, 4) : x = PointOf(W, y, p, 4)
    BY <1>1, PointsAre
  <2>2. x \in Growth(ByEnd(Q), y, p, 4)
    BY <1>1, <2>1, GrowthIs
  <2>3. /\ x.available \in Nat /\ x.available <= today
        /\ x.available < c => x \in Growth(ByEnd(P), y, p, 4)
    BY <2>2, GrowthAhead DEF Foreseen
  <2>4. x \in Growth(ByEnd(P), y, p, 4) => \E W \in Windows(P, y, p, 4) : x = PointOf(W, y, p, 4)
    <3>1. Growth(ByEnd(P), y, p, 4) = {PointOf(W, y, p, 4) : W \in Windows(P, y, p, 4)}
      BY <1>1, GrowthIs
    <3> QED
      BY <3>1
  <2> QED
    BY <1>1, <2>3, <2>4, PointsAre
<1> QED
  BY <1>1, <1>2, PointsOnGrid DEF Rise, Foreseen
-----------------------------------------------------------------------------
(* What is derived from the series, at a cutoff and the day before.        *)

LEMMA TrailingAhead ==
    ASSUME NEW P, NEW Q, NEW c, Rise(P, Q, c), NEW y, NEW p
    PROVE  Foreseen(Trailing(ByEnd(P), y, p), Trailing(ByEnd(Q), y, p), c)
<1> DEFINE Year(W) == [value |-> SumFunction([i \in 1..4 |-> W[i].value]), start |-> W[1].start,
                       end |-> W[4].end, available |-> AvailableFrom(W)]
<1>1. \A S : Trailing(S, y, p) = {Year(W) : W \in Stretches(S, y, p, 3)}
  BY DEF Trailing
<1>2. \A W : Year(W).available = AvailableFrom(W)
  OBVIOUS
<1> HIDE DEF Year
<1>3. ASSUME NEW x \in Trailing(ByEnd(Q), y, p)
      PROVE  x.available \in Nat /\ (x.available < c => x \in Trailing(ByEnd(P), y, p))
  <2>1. PICK W \in Stretches(ByEnd(Q), y, p, 3) : x = Year(W)
    BY <1>1
  <2>2. /\ AvailableFrom(W) \in Nat
        /\ AvailableFrom(W) < c => W \in Stretches(ByEnd(P), y, p, 3)
    BY StretchAhead
  <2> QED
    BY <1>1, <1>2, <2>1, <2>2
<1> QED
  BY <1>3 DEF Foreseen

LEMMA GrowthWindowAhead ==
    ASSUME NEW P, NEW Q, NEW c, Rise(P, Q, c), NEW y, NEW p, NEW size \in Nat \ {0},
           NEW W \in GrowthWindow(ByEnd(Q), y, p, size)
    PROVE  /\ AvailableFrom(W) \in Nat
           /\ AvailableFrom(W) < c => W \in GrowthWindow(ByEnd(P), y, p, size)
<1>1. size - 1 \in Nat /\ W \in Stretches(ByEnd(Q), y, p, size - 1)
  BY DEF GrowthWindow
<1>2. /\ AvailableFrom(W) \in Nat
      /\ AvailableFrom(W) < c => W \in Stretches(ByEnd(P), y, p, size - 1)
  <2>1. PICK back : back = size - 1
    OBVIOUS
  <2> QED
    BY <1>1, <2>1, StretchAhead
<1> QED
  BY <1>2 DEF GrowthWindow

LEMMA AccelerationAhead ==
    ASSUME NEW P, NEW Q, NEW c, Rise(P, Q, c), NEW y, NEW p
    PROVE  Foreseen(Acceleration(ByEnd(P), y, p), Acceleration(ByEnd(Q), y, p), c)
<1> DEFINE Told(W) == [value |-> <<W[4].value[1] * Middle(W)[2] - Middle(W)[1] * W[4].value[2],
                                   W[4].value[2] * Middle(W)[2]>>,
                       available |-> AvailableFrom(W)]
<1>1. \A S : Acceleration(S, y, p) = {Told(W) : W \in GrowthWindow(S, y, p, 3 + 1)}
  BY Zenon DEF Acceleration
<1>2. \A W : Told(W).available = AvailableFrom(W)
  OBVIOUS
<1> HIDE DEF Told
<1>3. ASSUME NEW x \in Acceleration(ByEnd(Q), y, p)
      PROVE  x.available \in Nat /\ (x.available < c => x \in Acceleration(ByEnd(P), y, p))
  <2>1. PICK W \in GrowthWindow(ByEnd(Q), y, p, 3 + 1) : x = Told(W)
    BY <1>1
  <2>2. /\ AvailableFrom(W) \in Nat
        /\ AvailableFrom(W) < c => W \in GrowthWindow(ByEnd(P), y, p, 3 + 1)
    BY GrowthWindowAhead
  <2> QED
    BY <1>1, <1>2, <2>1, <2>2
<1> QED
  BY <1>3 DEF Foreseen

LEMMA ConsistencyAhead ==
    ASSUME NEW P, NEW Q, NEW c, Rise(P, Q, c), NEW y, NEW p
    PROVE  Foreseen(Consistency(ByEnd(P), y, p), Consistency(ByEnd(Q), y, p), c)
<1> DEFINE Told(W) == [value |-> Cardinality({i \in DOMAIN W : W[i].value[1] > 0}),
                       available |-> AvailableFrom(W)]
<1>1. \A S : Consistency(S, y, p) = {Told(W) : W \in GrowthWindow(S, y, p, WindowSize)}
  BY Zenon DEF Consistency
<1>2. \A W : Told(W).available = AvailableFrom(W)
  OBVIOUS
<1> HIDE DEF Told
<1>3. ASSUME NEW x \in Consistency(ByEnd(Q), y, p)
      PROVE  x.available \in Nat /\ (x.available < c => x \in Consistency(ByEnd(P), y, p))
  <2>1. PICK W \in GrowthWindow(ByEnd(Q), y, p, WindowSize) : x = Told(W)
    BY <1>1
  <2>2. WindowSize \in Nat \ {0}
    BY SeriesAssumption
  <2>3. /\ AvailableFrom(W) \in Nat
        /\ AvailableFrom(W) < c => W \in GrowthWindow(ByEnd(P), y, p, WindowSize)
    BY <2>2, GrowthWindowAhead
  <2> QED
    BY <1>1, <1>2, <2>1, <2>3
<1> QED
  BY <1>3 DEF Foreseen

LEMMA PersistenceAhead ==
    ASSUME NEW P, NEW Q, NEW c, Rise(P, Q, c), NEW y, NEW p
    PROVE  Foreseen(Persistence(ByEnd(P), y, p), Persistence(ByEnd(Q), y, p), c)
<1> DEFINE Above(W) == {i \in DOMAIN W : ~AtMost(W[i].value, <<Threshold, 100>>)}
           Told(W) == [value |-> Max({k \in 0..WindowSize :
                                         WindowSize - k + 1..WindowSize \subseteq Above(W)}),
                       available |-> AvailableFrom(W)]
<1>1. \A S : Persistence(S, y, p) = {Told(W) : W \in GrowthWindow(S, y, p, WindowSize)}
  BY Zenon DEF Persistence
<1>2. \A W : Told(W).available = AvailableFrom(W)
  OBVIOUS
<1> HIDE DEF Told
<1>3. ASSUME NEW x \in Persistence(ByEnd(Q), y, p)
      PROVE  x.available \in Nat /\ (x.available < c => x \in Persistence(ByEnd(P), y, p))
  <2>1. PICK W \in GrowthWindow(ByEnd(Q), y, p, WindowSize) : x = Told(W)
    BY <1>1
  <2>2. WindowSize \in Nat \ {0}
    BY SeriesAssumption
  <2>3. /\ AvailableFrom(W) \in Nat
        /\ AvailableFrom(W) < c => W \in GrowthWindow(ByEnd(P), y, p, WindowSize)
    BY <2>2, GrowthWindowAhead
  <2> QED
    BY <1>1, <1>2, <2>1, <2>3
<1> QED
  BY <1>3 DEF Foreseen

LEMMA QuarterAtAhead ==
    ASSUME NEW P, NEW Q, NEW c, Rise(P, Q, c), NEW y, NEW p
    PROVE  /\ Foreseen(QuarterAt(ByEnd(P), y, p), QuarterAt(ByEnd(Q), y, p), c)
           /\ \A x \in QuarterAt(ByEnd(Q), y, p) : x \in Q
<1>1. ASSUME NEW T, IsUnit(T)
      PROVE  QuarterAt(ByEnd(T), y, p) = {x \in T : x.year = y /\ x.place = p}
  <2>1. PICK S : S = ByEnd(T)
    OBVIOUS
  <2>2. PICK n : IsSeries(S, n, T)
    BY <1>1, <2>1, SeriesOf
  <2>3. S \in [1..n -> T] /\ DOMAIN S = 1..n /\ \A x \in T : \E i \in 1..n : S[i] = x
    BY <2>2 DEF IsSeries
  <2>4. QuarterAt(S, y, p) = {S[i] : i \in {j \in 1..n : S[j].year = y /\ S[j].place = p}}
    BY <2>3 DEF QuarterAt
  <2> QED
    BY <2>1, <2>3, <2>4
<1>2. /\ QuarterAt(ByEnd(P), y, p) = {x \in P : x.year = y /\ x.place = p}
      /\ QuarterAt(ByEnd(Q), y, p) = {x \in Q : x.year = y /\ x.place = p}
  BY <1>1 DEF Rise
<1> QED
  BY <1>2 DEF Rise, Foreseen

LEMMA MarginAhead ==
    ASSUME NEW P, NEW Q, NEW K, NEW L, NEW c, Rise(P, Q, c), Rise(K, L, c), NEW y, NEW p
    PROVE  Foreseen(Margin(ByEnd(P), ByEnd(K), y, p), Margin(ByEnd(Q), ByEnd(L), y, p), c)
<1>1. /\ Foreseen(QuarterAt(ByEnd(P), y, p), QuarterAt(ByEnd(Q), y, p), c)
      /\ Foreseen(QuarterAt(ByEnd(K), y, p), QuarterAt(ByEnd(L), y, p), c) /\ c \in Nat
  BY QuarterAtAhead DEF Rise
<1>2. ASSUME NEW x \in Margin(ByEnd(Q), ByEnd(L), y, p)
      PROVE  x.available \in Nat /\ (x.available < c => x \in Margin(ByEnd(P), ByEnd(K), y, p))
  <2>1. PICK o \in QuarterAt(ByEnd(Q), y, p) \X QuarterAt(ByEnd(L), y, p) :
           /\ o[2].value > 0 /\ o[1].start = o[2].start /\ o[1].end = o[2].end
           /\ x = [profit |-> o[1], value |-> <<o[1].value, o[2].value>>,
                   available |-> LaterOf(o[1].available, o[2].available)]
    BY DEF Margin
  <2>2. PICK a, b : a = o[1] /\ b = o[2]
    OBVIOUS
  <2>3. /\ a \in QuarterAt(ByEnd(Q), y, p) /\ b \in QuarterAt(ByEnd(L), y, p) /\ o = <<a, b>>
    BY <2>1, <2>2
  <2>4. /\ a.available \in Nat /\ b.available \in Nat
        /\ a.available < c => a \in QuarterAt(ByEnd(P), y, p)
        /\ b.available < c => b \in QuarterAt(ByEnd(K), y, p)
    BY <1>1, <2>3 DEF Foreseen
  <2>5. x.available = LaterOf(a.available, b.available)
    BY <2>1, <2>2
  <2>6. x.available \in Nat /\ (x.available < c => a.available < c /\ b.available < c)
    BY <1>1, <2>4, <2>5, LaterThan
  <2>7. ASSUME a \in QuarterAt(ByEnd(P), y, p), b \in QuarterAt(ByEnd(K), y, p)
        PROVE  x \in Margin(ByEnd(P), ByEnd(K), y, p)
    <3>1. o \in QuarterAt(ByEnd(P), y, p) \X QuarterAt(ByEnd(K), y, p)
      BY <2>3, <2>7
    <3> QED
      BY <2>1, <3>1 DEF Margin
  <2> QED
    BY <2>4, <2>6, <2>7
<1> QED
  BY <1>2 DEF Foreseen

LEMMA LastOfThree ==
    ASSUME NEW a \in Nat, NEW b \in Nat, NEW d \in Nat, NEW c \in Nat
    PROVE  /\ Max({a, b, d}) \in Nat
           /\ Max({a, b, d}) < c => a < c /\ b < c /\ d < c
<1>1. PICK S : S = {a, b, d}
  OBVIOUS
<1>2. PICK n \in Nat : \A x \in S : x <= n
  <2>1. \A x \in S : x <= a + b + d
    BY <1>1
  <2>2. a + b + d \in Nat
    OBVIOUS
  <2> QED
    BY <2>1, <2>2
<1>3. S \in SUBSET Nat /\ S # {}
  BY <1>1
<1>4. Max(S) \in S /\ \A x \in S : x <= Max(S)
  BY <1>2, <1>3, GreatestUpTo
<1>5. PICK k : k = Max(S)
  OBVIOUS
<1>6. k \in Nat /\ a <= k /\ b <= k /\ d <= k
  BY <1>1, <1>3, <1>4, <1>5
<1> QED
  BY <1>1, <1>5, <1>6

LEMMA ExpansionAhead ==
    ASSUME NEW P, NEW Q, NEW K, NEW L, NEW c, Rise(P, Q, c), Rise(K, L, c), NEW y, NEW p
    PROVE  Foreseen(MarginExpansion(ByEnd(P), ByEnd(K), y, p), MarginExpansion(ByEnd(Q), ByEnd(L), y, p), c)
<1> DEFINE Told(o) ==
              [value |-> <<o[1].value[1] * o[2].value[2] - o[2].value[1] * o[1].value[2],
                           o[1].value[2] * o[2].value[2]>>,
               available |-> Max({o[1].available, o[2].available, AvailableFrom(o[3])})]
           Triples(N, R) == {q \in Margin(N, R, y, p) \X Margin(N, R, y - 1, p)
                                    \X Stretches(N, y, p, 4) : q[3][1] = q[2].profit}
<1>1. \A N, R : MarginExpansion(N, R, y, p) = {Told(o) : o \in Triples(N, R)}
  BY Zenon DEF MarginExpansion
<1>2. \A o : Told(o).available = Max({o[1].available, o[2].available, AvailableFrom(o[3])})
  OBVIOUS
<1> HIDE DEF Told
<1>3. \A z : Foreseen(Margin(ByEnd(P), ByEnd(K), z, p), Margin(ByEnd(Q), ByEnd(L), z, p), c)
  BY MarginAhead
<1>4. c \in Nat
  BY DEF Rise
<1>5. ASSUME NEW x \in MarginExpansion(ByEnd(Q), ByEnd(L), y, p)
      PROVE  /\ x.available \in Nat
             /\ x.available < c => x \in MarginExpansion(ByEnd(P), ByEnd(K), y, p)
  <2>1. PICK o \in Triples(ByEnd(Q), ByEnd(L)) : x = Told(o)
    BY <1>1
  <2>2. PICK a, b, W : a = o[1] /\ b = o[2] /\ W = o[3]
    OBVIOUS
  <2>3. /\ a \in Margin(ByEnd(Q), ByEnd(L), y, p) /\ b \in Margin(ByEnd(Q), ByEnd(L), y - 1, p)
        /\ W \in Stretches(ByEnd(Q), y, p, 4) /\ o = <<a, b, W>> /\ o[3][1] = o[2].profit
    BY <2>1, <2>2
  <2>4. /\ a.available \in Nat /\ b.available \in Nat /\ AvailableFrom(W) \in Nat
        /\ a.available < c => a \in Margin(ByEnd(P), ByEnd(K), y, p)
        /\ b.available < c => b \in Margin(ByEnd(P), ByEnd(K), y - 1, p)
        /\ AvailableFrom(W) < c => W \in Stretches(ByEnd(P), y, p, 4)
    BY <1>3, <2>3, StretchAhead DEF Foreseen
  <2>5. x.available = Max({a.available, b.available, AvailableFrom(W)})
    BY <1>2, <2>1, <2>2
  <2>6. /\ x.available \in Nat
        /\ x.available < c => a.available < c /\ b.available < c /\ AvailableFrom(W) < c
    BY <1>4, <2>4, <2>5, LastOfThree
  <2>7. ASSUME a \in Margin(ByEnd(P), ByEnd(K), y, p), b \in Margin(ByEnd(P), ByEnd(K), y - 1, p),
               W \in Stretches(ByEnd(P), y, p, 4)
        PROVE  x \in MarginExpansion(ByEnd(P), ByEnd(K), y, p)
    <3>1. o \in Triples(ByEnd(P), ByEnd(K))
      BY <2>3, <2>7
    <3> QED
      BY <1>1, <2>1, <3>1
  <2> QED
    BY <2>4, <2>6, <2>7
<1> QED
  BY <1>5 DEF Foreseen
-----------------------------------------------------------------------------
(* Balance sheets, at a cutoff and the day before.                         *)

LEMMA CommonIs ==
    ASSUME NEW V, NEW M, M # {}, NEW p
    PROVE  p \in CommonPeriods(V, M) <=>
              \A m \in M : \E f \in V : f.metric = m /\ f.period = p
  BY DEF CommonPeriods

LEMMA CommonKept ==
    ASSUME NEW U, NEW V, NEW c, Evening(U, V, c), NEW M, M # {}
    PROVE  /\ CommonPeriods(U, M) \subseteq CommonPeriods(V, M)
           /\ \A p \in CommonPeriods(V, M) : p.end \in Nat
<1>1. ASSUME NEW p \in CommonPeriods(U, M)
      PROVE  p \in CommonPeriods(V, M)
  <2>1. ASSUME NEW m \in M
        PROVE  \E h \in V : h.metric = m /\ h.period = p
    <3>1. PICK f \in U : f.metric = m /\ f.period = p
      BY CommonIs
    <3> QED
      BY <3>1 DEF Evening, StillKnown
  <2> QED
    BY <2>1, CommonIs
<1>2. ASSUME NEW p \in CommonPeriods(V, M)
      PROVE  p.end \in Nat
  <2>1. PICK m \in M : TRUE
    OBVIOUS
  <2>2. PICK f \in V : f.period = p
    BY <2>1, CommonIs
  <2> QED
    BY <2>2 DEF Evening
<1> QED
  BY <1>1, <1>2

SheetOf(V, M, p) ==
    [period |-> p, value |-> [m \in M |-> StockAt(V, m, p).value],
     available |-> Max({StockAt(V, m, p).available : m \in M})]

LEMMA SheetAhead ==
    ASSUME NEW U, NEW V, NEW c, Evening(U, V, c), NEW M, M # {}, NEW p \in CommonPeriods(V, M)
    PROVE  /\ SheetOf(V, M, p).available \in Nat
           /\ SheetOf(V, M, p).available < c =>
                 p \in CommonPeriods(U, M) /\ SheetOf(U, M, p) = SheetOf(V, M, p)
<1> DEFINE A == {StockAt(V, m, p).available : m \in M}
<1>1. ASSUME NEW m \in M
      PROVE  /\ StockAt(V, m, p) \in V /\ StockAt(V, m, p).metric = m
             /\ StockAt(V, m, p).period = p
  <2>1. \E f \in V : f.metric = m /\ f.period = p
    BY CommonIs
  <2> QED
    BY <2>1 DEF StockAt
<1>2. \A m \in M : StockAt(V, m, p).available \in Nat /\ StockAt(V, m, p).available <= c
  BY <1>1 DEF Evening, Foreseen
<1>3. A \in SUBSET Nat /\ A # {} /\ (\A a \in A : a <= c) /\ c \in Nat
  BY <1>2 DEF Evening
<1>4. \A m \in M : StockAt(V, m, p).available \in A
  OBVIOUS
<1>5. SheetOf(V, M, p).available = Max(A)
  BY DEF SheetOf
<1> HIDE DEF A
<1>6. Max(A) \in A /\ \A a \in A : a <= Max(A)
  BY <1>3, GreatestUpTo
<1>7. ASSUME SheetOf(V, M, p).available < c
      PROVE  p \in CommonPeriods(U, M) /\ SheetOf(U, M, p) = SheetOf(V, M, p)
  <2>1. ASSUME NEW m \in M
        PROVE  StockAt(V, m, p) \in U
    <3>1. PICK a, z : a = StockAt(V, m, p).available /\ z = Max(A)
      OBVIOUS
    <3>2. a \in Nat /\ z \in Nat /\ a <= z /\ z < c /\ c \in Nat
      BY <1>2, <1>3, <1>4, <1>5, <1>6, <1>7, <3>1
    <3>3. a < c
      BY <3>2
    <3> QED
      BY <1>1, <3>1, <3>3 DEF Evening, Foreseen
  <2>2. p \in CommonPeriods(U, M)
    BY <1>1, <2>1, CommonIs
  <2>3. ASSUME NEW m \in M
        PROVE  StockAt(U, m, p) = StockAt(V, m, p)
    <3>1. /\ StockAt(U, m, p) \in U /\ StockAt(U, m, p).metric = m
          /\ StockAt(U, m, p).period = p
      BY <1>1, <2>1 DEF StockAt
    <3> QED
      BY <1>1, <2>1, <3>1 DEF Evening, Sole
  <2>4. SheetOf(U, M, p) = SheetOf(V, M, p)
    BY <2>3 DEF SheetOf
  <2> QED
    BY <2>2, <2>4
<1> QED
  BY <1>3, <1>5, <1>6, <1>7

\* A sheet of the one period that qualifies was that of the one that did, if the periods
\* that qualified the day before are among those that do.
LEMMA SnapshotAhead ==
    ASSUME NEW U, NEW V, NEW c, Evening(U, V, c), NEW M, M # {}, NEW O, NEW P,
           P \subseteq CommonPeriods(V, M),
           \A p \in P : P = {p} /\ p \in CommonPeriods(U, M) => O = {p}
    PROVE  Foreseen(SoleSnapshot(U, M, O), SoleSnapshot(V, M, P), c)
<1>1. \A W, R : SoleSnapshot(W, M, R) = {SheetOf(W, M, p) : p \in {q \in R : R = {q}}}
  BY DEF SoleSnapshot, SheetOf
<1>2. ASSUME NEW x \in SoleSnapshot(V, M, P)
      PROVE  x.available \in Nat /\ (x.available < c => x \in SoleSnapshot(U, M, O))
  <2>1. PICK p \in P : P = {p} /\ x = SheetOf(V, M, p)
    BY <1>1
  <2>2. /\ x.available \in Nat
        /\ x.available < c => p \in CommonPeriods(U, M) /\ SheetOf(U, M, p) = x
    BY <2>1, SheetAhead
  <2>3. ASSUME x.available < c
        PROVE  x \in SoleSnapshot(U, M, O)
    <3>1. O = {p} /\ SheetOf(U, M, p) = x
      BY <2>1, <2>2, <2>3
    <3> QED
      BY <1>1, <3>1
  <2> QED
    BY <2>2, <2>3
<1> QED
  BY <1>2 DEF Foreseen

LEMMA LatestAhead ==
    ASSUME NEW U, NEW V, NEW c, Evening(U, V, c), NEW M, M # {}
    PROVE  Foreseen(LatestSnapshot(U, M), LatestSnapshot(V, M), c)
<1> DEFINE Latest(W) == {p \in CommonPeriods(W, M) : \A q \in CommonPeriods(W, M) : q.end <= p.end}
<1>1. \A W : LatestSnapshot(W, M) = SoleSnapshot(W, M, Latest(W))
  BY DEF LatestSnapshot
<1>2. /\ CommonPeriods(U, M) \subseteq CommonPeriods(V, M)
      /\ \A p \in CommonPeriods(V, M) : p.end \in Nat
  BY CommonKept
<1>3. ASSUME NEW p \in Latest(V), Latest(V) = {p}, p \in CommonPeriods(U, M)
      PROVE  Latest(U) = {p}
  <2>1. p \in Latest(U)
    BY <1>2, <1>3
  <2>2. ASSUME NEW q \in Latest(U)
        PROVE  q = p
    <3>1. q.end = p.end /\ q \in CommonPeriods(V, M)
      BY <1>2, <1>3, <2>1
    <3>2. q \in Latest(V)
      BY <3>1
    <3> QED
      BY <1>3, <3>2
  <2> QED
    BY <2>1, <2>2
<1>4. Latest(V) \subseteq CommonPeriods(V, M)
  OBVIOUS
<1> HIDE DEF Latest
<1>5. PICK O, P : O = Latest(U) /\ P = Latest(V)
  OBVIOUS
<1>6. /\ P \subseteq CommonPeriods(V, M)
      /\ \A p \in P : P = {p} /\ p \in CommonPeriods(U, M) => O = {p}
  BY <1>3, <1>4, <1>5
<1>7. Foreseen(SoleSnapshot(U, M, O), SoleSnapshot(V, M, P), c)
  BY <1>6, SnapshotAhead
<1> QED
  BY <1>1, <1>5, <1>7

LEMMA EndpointSnapshotAhead ==
    ASSUME NEW U, NEW V, NEW c, Evening(U, V, c), NEW M, M # {}, NEW y, NEW n
    PROVE  Foreseen(EndpointSnapshot(U, M, y, n), EndpointSnapshot(V, M, y, n), c)
<1>1. PICK O, P : /\ O = {p \in CommonPeriods(U, M) : p.year = y /\ p.place = n}
                  /\ P = {p \in CommonPeriods(V, M) : p.year = y /\ p.place = n}
  OBVIOUS
<1>2. CommonPeriods(U, M) \subseteq CommonPeriods(V, M)
  BY CommonKept
<1>3. /\ P \subseteq CommonPeriods(V, M)
      /\ \A p \in P : P = {p} /\ p \in CommonPeriods(U, M) => O = {p}
  BY <1>1, <1>2
<1>4. Foreseen(SoleSnapshot(U, M, O), SoleSnapshot(V, M, P), c)
  BY <1>3, SnapshotAhead
<1> QED
  BY <1>1, <1>4 DEF EndpointSnapshot

LEMMA EndingAhead ==
    ASSUME NEW U, NEW V, NEW c, Evening(U, V, c), NEW M, M # {}, NEW e
    PROVE  Foreseen(SnapshotEnding(U, M, e), SnapshotEnding(V, M, e), c)
<1>1. PICK O, P : /\ O = {p \in CommonPeriods(U, M) : p.end = e}
                  /\ P = {p \in CommonPeriods(V, M) : p.end = e}
  OBVIOUS
<1>2. CommonPeriods(U, M) \subseteq CommonPeriods(V, M)
  BY CommonKept
<1>3. /\ P \subseteq CommonPeriods(V, M)
      /\ \A p \in P : P = {p} /\ p \in CommonPeriods(U, M) => O = {p}
  BY <1>1, <1>2
<1>4. Foreseen(SoleSnapshot(U, M, O), SoleSnapshot(V, M, P), c)
  BY <1>3, SnapshotAhead
<1> QED
  BY <1>1, <1>4 DEF SnapshotEnding
-----------------------------------------------------------------------------
(* Ratios, at a cutoff and the day before.                                 *)

LEMMA PairAhead ==
    ASSUME NEW A, NEW B, NEW K, NEW L, NEW c \in Nat, Foreseen(A, B, c), Foreseen(K, L, c), NEW o \in B \X L
    PROVE  /\ LaterOf(o[1].available, o[2].available) \in Nat
           /\ LaterOf(o[1].available, o[2].available) < c => o \in A \X K
<1>1. PICK a, b : a = o[1] /\ b = o[2]
  OBVIOUS
<1>2. a \in B /\ b \in L /\ o = <<a, b>>
  BY <1>1
<1>3. /\ a.available \in Nat /\ (a.available < c => a \in A)
      /\ b.available \in Nat /\ (b.available < c => b \in K)
  BY <1>2 DEF Foreseen
<1>4. /\ LaterOf(a.available, b.available) \in Nat
      /\ LaterOf(a.available, b.available) < c => a.available < c /\ b.available < c
  BY <1>3, LaterThan
<1>5. a \in A /\ b \in K => o \in A \X K
  BY <1>2
<1> QED
  BY <1>1, <1>3, <1>4, <1>5

LEMMA RatioAhead ==
    ASSUME NEW A, NEW B, NEW K, NEW L, NEW c \in Nat, Foreseen(A, B, c), Foreseen(K, L, c)
    PROVE  Foreseen(TrailingRatio(A, K), TrailingRatio(B, L), c)
<1> DEFINE Told(o) == [value |-> <<o[1].value, o[2].value>>,
                       available |-> LaterOf(o[1].available, o[2].available)]
           Fit(o) == o[1].start = o[2].start /\ o[1].end = o[2].end /\ o[2].value > 0
<1>1. \A X, Y : TrailingRatio(X, Y) = {Told(o) : o \in {q \in X \X Y : Fit(q)}}
  BY Zenon DEF TrailingRatio
<1>2. \A o : Told(o).available = LaterOf(o[1].available, o[2].available)
  OBVIOUS
<1> HIDE DEF Told, Fit
<1>3. ASSUME NEW x \in TrailingRatio(B, L)
      PROVE  x.available \in Nat /\ (x.available < c => x \in TrailingRatio(A, K))
  <2>1. PICK o \in B \X L : Fit(o) /\ x = Told(o)
    BY <1>1
  <2>2. x.available \in Nat /\ (x.available < c => o \in A \X K)
    BY <1>2, <2>1, PairAhead
  <2>3. o \in A \X K => x \in TrailingRatio(A, K)
    BY <1>1, <2>1
  <2> QED
    BY <2>2, <2>3
<1> QED
  BY <1>3 DEF Foreseen

LEMMA EnterpriseAhead ==
    ASSUME NEW A, NEW B, NEW K, NEW L, NEW c \in Nat, Foreseen(A, B, c), Foreseen(K, L, c)
    PROVE  Foreseen(EnterpriseValue(A, K), EnterpriseValue(B, L), c)
<1> DEFINE Told(o) == [value |-> o[1].value + o[2].value["debt"] - o[2].value["cash"],
                       available |-> LaterOf(o[1].available, o[2].available)]
           Fit(o) == o[1].value > 0
<1>1. \A X, Y : EnterpriseValue(X, Y) = {Told(o) : o \in {q \in X \X Y : Fit(q)}}
  BY Zenon DEF EnterpriseValue
<1>2. \A o : Told(o).available = LaterOf(o[1].available, o[2].available)
  OBVIOUS
<1> HIDE DEF Told, Fit
<1>3. ASSUME NEW x \in EnterpriseValue(B, L)
      PROVE  x.available \in Nat /\ (x.available < c => x \in EnterpriseValue(A, K))
  <2>1. PICK o \in B \X L : Fit(o) /\ x = Told(o)
    BY <1>1
  <2>2. x.available \in Nat /\ (x.available < c => o \in A \X K)
    BY <1>2, <2>1, PairAhead
  <2>3. o \in A \X K => x \in EnterpriseValue(A, K)
    BY <1>1, <2>1
  <2> QED
    BY <2>2, <2>3
<1> QED
  BY <1>3 DEF Foreseen

LEMMA MultipleAhead ==
    ASSUME NEW A, NEW B, NEW K, NEW L, NEW c \in Nat, Foreseen(A, B, c), Foreseen(K, L, c)
    PROVE  Foreseen(MultipleOf(A, K), MultipleOf(B, L), c)
<1> DEFINE Told(o) == [value |-> <<o[1].value, o[2].value>>,
                       available |-> LaterOf(o[1].available, o[2].available)]
           Fit(o) == o[1].value > 0 /\ o[2].value > 0
<1>1. \A X, Y : MultipleOf(X, Y) = {Told(o) : o \in {q \in X \X Y : Fit(q)}}
  BY Zenon DEF MultipleOf
<1>2. \A o : Told(o).available = LaterOf(o[1].available, o[2].available)
  OBVIOUS
<1> HIDE DEF Told, Fit
<1>3. ASSUME NEW x \in MultipleOf(B, L)
      PROVE  x.available \in Nat /\ (x.available < c => x \in MultipleOf(A, K))
  <2>1. PICK o \in B \X L : Fit(o) /\ x = Told(o)
    BY <1>1
  <2>2. x.available \in Nat /\ (x.available < c => o \in A \X K)
    BY <1>2, <2>1, PairAhead
  <2>3. o \in A \X K => x \in MultipleOf(A, K)
    BY <1>1, <2>1
  <2> QED
    BY <2>2, <2>3
<1> QED
  BY <1>3 DEF Foreseen

LEMMA BoundedAhead ==
    ASSUME NEW U, NEW V, NEW c, Evening(U, V, c), NEW M, M # {}, NEW T, NEW Z, Foreseen(T, Z, c)
    PROVE  Foreseen(Bounded(U, T, M), Bounded(V, Z, M), c)
<1> DEFINE Told(t, b, e) == [flow |-> t.value, from |-> b.value, to |-> e.value,
                             available |-> Max({t.available, b.available, e.available})]
<1>1. ASSUME NEW W, NEW X, NEW x
      PROVE  x \in Bounded(W, X, M) <=>
                \E t \in X : \E b \in SnapshotEnding(W, M, t.start - 1),
                                e \in SnapshotEnding(W, M, t.end) : x = Told(t, b, e)
  <2> DEFINE Sheets(t) == {Told(t, b, e) : b \in SnapshotEnding(W, M, t.start - 1),
                                           e \in SnapshotEnding(W, M, t.end)}
  <2>1. Bounded(W, X, M) = UNION {Sheets(t) : t \in X}
    BY DEF Bounded
  <2>2. \A t : x \in Sheets(t) <=>
           \E b \in SnapshotEnding(W, M, t.start - 1), e \in SnapshotEnding(W, M, t.end) :
              x = Told(t, b, e)
    <3> HIDE DEF Told
    <3> QED
      OBVIOUS
  <2> HIDE DEF Told, Sheets
  <2> QED
    BY <2>1, <2>2
<1>2. \A t, b, e : Told(t, b, e).available = Max({t.available, b.available, e.available})
  OBVIOUS
<1> HIDE DEF Told
<1>3. ASSUME NEW x \in Bounded(V, Z, M)
      PROVE  x.available \in Nat /\ (x.available < c => x \in Bounded(U, T, M))
  <2>1. PICK t \in Z : \E b \in SnapshotEnding(V, M, t.start - 1), e \in SnapshotEnding(V, M, t.end) :
            x = Told(t, b, e)
    BY <1>1
  <2>2. PICK b \in SnapshotEnding(V, M, t.start - 1), e \in SnapshotEnding(V, M, t.end) :
            x = Told(t, b, e)
    BY <2>1
  <2>3. /\ t.available \in Nat /\ (t.available < c => t \in T)
        /\ b.available \in Nat /\ (b.available < c => b \in SnapshotEnding(U, M, t.start - 1))
        /\ e.available \in Nat /\ (e.available < c => e \in SnapshotEnding(U, M, t.end))
    BY EndingAhead DEF Foreseen
  <2>4. x.available = Max({t.available, b.available, e.available}) /\ c \in Nat
    BY <1>2, <2>2 DEF Evening
  <2>5. /\ x.available \in Nat
        /\ x.available < c => t.available < c /\ b.available < c /\ e.available < c
    BY <2>3, <2>4, LastOfThree
  <2>6. ASSUME t \in T, b \in SnapshotEnding(U, M, t.start - 1), e \in SnapshotEnding(U, M, t.end)
        PROVE  x \in Bounded(U, T, M)
    BY <1>1, <2>2, <2>6
  <2> QED
    BY <2>3, <2>5, <2>6
<1> QED
  BY <1>3 DEF Foreseen

LEMMA NetDebtAhead ==
    ASSUME NEW U, NEW V, NEW c, Evening(U, V, c)
    PROVE  Foreseen(NetDebt(U), NetDebt(V), c)
<1> DEFINE Told(s) == [value |-> s.value["debt"] - s.value["cash"], available |-> s.available]
<1>1. /\ NetDebt(U) = {Told(s) : s \in LatestSnapshot(U, {"debt", "cash"})}
      /\ NetDebt(V) = {Told(s) : s \in LatestSnapshot(V, {"debt", "cash"})}
  BY Zenon DEF NetDebt
<1>2. \A s : Told(s).available = s.available
  OBVIOUS
<1>3. Foreseen(LatestSnapshot(U, {"debt", "cash"}), LatestSnapshot(V, {"debt", "cash"}), c)
  BY LatestAhead
<1> HIDE DEF Told
<1> QED
  BY <1>1, <1>2, <1>3 DEF Foreseen

LEMMA LeverageAhead ==
    ASSUME NEW U, NEW V, NEW c, Evening(U, V, c)
    PROVE  Foreseen(DebtToEquity(U), DebtToEquity(V), c)
<1> DEFINE Told(s) == [value |-> <<s.value["debt"], s.value["equity"]>>, available |-> s.available]
           Fit(s) == s.value["equity"] > 0
<1>1. /\ DebtToEquity(U) = {Told(s) : s \in {t \in LatestSnapshot(U, {"debt", "equity"}) : Fit(t)}}
      /\ DebtToEquity(V) = {Told(s) : s \in {t \in LatestSnapshot(V, {"debt", "equity"}) : Fit(t)}}
  BY Zenon DEF DebtToEquity
<1>2. \A s : Told(s).available = s.available
  OBVIOUS
<1>3. Foreseen(LatestSnapshot(U, {"debt", "equity"}), LatestSnapshot(V, {"debt", "equity"}), c)
  BY LatestAhead
<1> HIDE DEF Told, Fit
<1> QED
  BY <1>1, <1>2, <1>3 DEF Foreseen

LEMMA EquityReturnAhead ==
    ASSUME NEW U, NEW V, NEW c, Evening(U, V, c), NEW T, NEW Z, Foreseen(T, Z, c)
    PROVE  Foreseen(ReturnOnEquity(U, T), ReturnOnEquity(V, Z), c)
<1> DEFINE Told(s) == [value |-> <<2 * s.flow, s.from["equity"] + s.to["equity"]>>, available |-> s.available]
           Fit(s) == s.from["equity"] > 0 /\ s.to["equity"] > 0
<1>1. /\ ReturnOnEquity(U, T) = {Told(s) : s \in {t \in Bounded(U, T, {"equity"}) : Fit(t)}}
      /\ ReturnOnEquity(V, Z) = {Told(s) : s \in {t \in Bounded(V, Z, {"equity"}) : Fit(t)}}
  BY Zenon DEF ReturnOnEquity
<1>2. \A s : Told(s).available = s.available
  OBVIOUS
<1>3. Foreseen(Bounded(U, T, {"equity"}), Bounded(V, Z, {"equity"}), c)
  BY BoundedAhead
<1> HIDE DEF Told, Fit
<1> QED
  BY <1>1, <1>2, <1>3 DEF Foreseen

LEMMA CapitalReturnAhead ==
    ASSUME NEW U, NEW V, NEW c, Evening(U, V, c), NEW T, NEW Z, Foreseen(T, Z, c)
    PROVE  Foreseen(ReturnOnCapital(U, T), ReturnOnCapital(V, Z), c)
<1> DEFINE Told(s) == [value |-> <<2 * s.flow, Employed(s.from) + Employed(s.to)>>, available |-> s.available]
           Fit(s) == Employed(s.from) > 0 /\ Employed(s.to) > 0
<1>1. /\ ReturnOnCapital(U, T) = {Told(s) : s \in {t \in Bounded(U, T, Stock) : Fit(t)}}
      /\ ReturnOnCapital(V, Z) = {Told(s) : s \in {t \in Bounded(V, Z, Stock) : Fit(t)}}
  BY Zenon DEF ReturnOnCapital
<1>2. \A s : Told(s).available = s.available
  OBVIOUS
<1>3. Foreseen(Bounded(U, T, Stock), Bounded(V, Z, Stock), c)
  BY BoundedAhead DEF Stock
<1> HIDE DEF Told, Fit
<1> QED
  BY <1>1, <1>2, <1>3 DEF Foreseen

LEMMA DaysAhead ==
    ASSUME NEW U, NEW V, NEW c, Evening(U, V, c), NEW T, NEW Z, Foreseen(T, Z, c), NEW m
    PROVE  Foreseen(StockDays(U, T, m), StockDays(V, Z, m), c)
<1> DEFINE Told(s) == [value |-> <<365 * (s.from[m] + s.to[m]), 2 * s.flow>>, available |-> s.available]
           Fit(s) == s.from[m] >= 0 /\ s.to[m] >= 0 /\ s.flow > 0
<1>1. /\ StockDays(U, T, m) = {Told(s) : s \in {t \in Bounded(U, T, {m}) : Fit(t)}}
      /\ StockDays(V, Z, m) = {Told(s) : s \in {t \in Bounded(V, Z, {m}) : Fit(t)}}
  BY Zenon DEF StockDays
<1>2. \A s : Told(s).available = s.available
  OBVIOUS
<1>3. Foreseen(Bounded(U, T, {m}), Bounded(V, Z, {m}), c)
  BY BoundedAhead
<1> HIDE DEF Told, Fit
<1> QED
  BY <1>1, <1>2, <1>3 DEF Foreseen

LEMMA WorkingAhead ==
    ASSUME NEW U, NEW V, NEW c, Evening(U, V, c), NEW T, NEW Z, Foreseen(T, Z, c)
    PROVE  Foreseen(WorkingCapitalChange(U, T), WorkingCapitalChange(V, Z), c)
<1> DEFINE Told(s) == [value |-> Employed(s.to) - Employed(s.from), available |-> s.available]
           Fit(s) == \A m \in Stock : s.from[m] >= 0 /\ s.to[m] >= 0
<1>1. /\ WorkingCapitalChange(U, T) = {Told(s) : s \in {t \in Bounded(U, T, Stock) : Fit(t)}}
      /\ WorkingCapitalChange(V, Z) = {Told(s) : s \in {t \in Bounded(V, Z, Stock) : Fit(t)}}
  BY Zenon DEF WorkingCapitalChange
<1>2. \A s : Told(s).available = s.available
  OBVIOUS
<1>3. Foreseen(Bounded(U, T, Stock), Bounded(V, Z, Stock), c)
  BY BoundedAhead DEF Stock
<1> HIDE DEF Told, Fit
<1> QED
  BY <1>1, <1>2, <1>3 DEF Foreseen
-----------------------------------------------------------------------------
(* The market and the fiscal endpoint, at a cutoff and the day before.     *)

LEMMA BarAhead ==
    ASSUME NEW c \in Nat, c - 1 \in Nat
    PROVE  Foreseen(Bar(c - 1), Bar(c), c)
<1> DEFINE Known(k) == {d \in DOMAIN MarketCap : d <= k}
           Told(d) == [value |-> MarketCap[d], available |-> d]
<1>1. \A k : Bar(k) = {Told(d) : d \in {e \in Known(k) : e = Max(Known(k))}}
  BY DEF Bar
<1>2. \A d : Told(d).available = d
  OBVIOUS
<1>3. \A k \in Nat : \A d \in Known(k) : d \in Nat /\ d <= k
  BY SeriesAssumption
<1>4. \A d \in Known(c) : d < c => d \in Known(c - 1)
  BY <1>3
<1>5. \A d \in Known(c - 1) : d \in Known(c)
  BY <1>3
<1> HIDE DEF Told, Known
<1>6. \A k \in Nat : Known(k) # {} => Max(Known(k)) \in Known(k) /\ \A d \in Known(k) : d <= Max(Known(k))
  <2>1. ASSUME NEW k \in Nat, Known(k) # {}
        PROVE  Max(Known(k)) \in Known(k) /\ \A d \in Known(k) : d <= Max(Known(k))
    <3>1. PICK S : S = Known(k)
      OBVIOUS
    <3>2. S \in SUBSET Nat /\ S # {} /\ \A d \in S : d <= k
      BY <1>3, <2>1, <3>1
    <3>3. Max(S) \in S /\ \A d \in S : d <= Max(S)
      BY <3>2, GreatestUpTo
    <3> QED
      BY <3>1, <3>3
  <2> QED
    BY <2>1
<1>7. ASSUME NEW x \in Bar(c)
      PROVE  x.available \in Nat /\ (x.available < c => x \in Bar(c - 1))
  <2>1. PICK d \in Known(c) : d = Max(Known(c)) /\ x = Told(d)
    BY <1>1
  <2>2. x.available = d /\ d \in Nat
    BY <1>2, <1>3, <2>1
  <2>3. ASSUME d < c
        PROVE  x \in Bar(c - 1)
    <3>1. d \in Known(c - 1)
      BY <1>4, <2>1, <2>3
    <3>2. PICK m : m = Max(Known(c - 1))
      OBVIOUS
    <3>3. m \in Known(c - 1) /\ d <= m
      BY <1>6, <3>1, <3>2
    <3>4. m <= d /\ m \in Nat
      BY <1>3, <1>5, <1>6, <2>1, <3>3
    <3>5. d = m
      BY <2>2, <3>3, <3>4
    <3> QED
      BY <1>1, <2>1, <3>1, <3>2, <3>5
  <2> QED
    BY <2>2, <2>3
<1> QED
  BY <1>7 DEF Foreseen

LEMMA MinIs ==
    ASSUME NEW S \in SUBSET Nat, NEW s \in S, \A x \in S : s <= x
    PROVE  Min(S) = s
<1>1. Min(S) \in S /\ \A x \in S : Min(S) <= x
  BY DEF Min
<1>2. PICK m : m = Min(S)
  OBVIOUS
<1>3. m \in Nat /\ s \in Nat /\ m <= s /\ s <= m
  BY <1>1, <1>2
<1> QED
  BY <1>2, <1>3

\* The rows that may name an endpoint, of a day and of the day before.
RowsRise(O, R, c) ==
    /\ O \subseteq R
    /\ \A f \in R : /\ f.available \in Nat /\ f.period.end \in Nat
                    /\ f.available < c => f \in O

LEMMA RowsRising ==
    ASSUME SeriesInv, NEW s, NEW c \in Nat, c - 1 \in Nat
    PROVE  RowsRise(EndpointRows(s, c - 1), EndpointRows(s, c), c)
<1>1. ASSUME NEW f \in figures
      PROVE  f.available \in Nat /\ f.period.end \in Nat /\ f.period.end <= f.available
  <2>1. PICK g, k : IsFigure(f, g, k)
    BY FiguresAre
  <2>2. /\ f.available \in Nat /\ f.period.end <= f.available /\ f.period = Period(k, g.ends)
    BY <2>1, FigureIs DEF SeriesInv
  <2>3. f.period.end \in Nat
    BY <2>1, <2>2, PeriodIs DEF IsFigure
  <2> QED
    BY <2>2, <2>3
<1>2. ASSUME NEW f \in EndpointRows(s, c - 1)
      PROVE  f \in EndpointRows(s, c)
  BY <1>1 DEF EndpointRows, Rows
<1>3. ASSUME NEW f \in EndpointRows(s, c)
      PROVE  /\ f.available \in Nat /\ f.period.end \in Nat
             /\ f.available < c => f \in EndpointRows(s, c - 1)
  BY <1>1 DEF EndpointRows, Rows
<1> QED
  BY <1>2, <1>3 DEF RowsRise

LastOf(R) == {f \in R : \A g \in R : g.period.end <= f.period.end}
NamedBy(f) == <<f.period.year, f.period.place>>
NamesOf(R) == {NamedBy(f) : f \in LastOf(R)}
AlikeOf(R) == {f \in R : \E g \in LastOf(R) : NamedBy(g) = NamedBy(f)}
EndsOf(R) == {f.period.end : f \in R}
KnownSince(R) == Min({f.available : f \in LastOf(R)})

\* Rows that name one period and were there the day before named it then.
LEMMA NamedAhead ==
    ASSUME NEW O, NEW R, NEW c \in Nat, RowsRise(O, R, c), NEW n, NamesOf(R) = {n},
           EndsOf(AlikeOf(R)) = EndsOf(LastOf(R))
    PROVE  /\ KnownSince(R) \in Nat
           /\ KnownSince(R) < c =>
                 /\ O # {} /\ NamesOf(O) = {n} /\ EndsOf(AlikeOf(O)) = EndsOf(LastOf(O))
                 /\ KnownSince(O) = KnownSince(R)
<1>1. \A f \in R : f.available \in Nat /\ f.period.end \in Nat /\ (f.available < c => f \in O)
  BY DEF RowsRise
<1>2. O \subseteq R
  BY DEF RowsRise
<1>3. LastOf(R) # {} /\ LastOf(R) \subseteq R
  BY DEF NamesOf, LastOf
<1>4. PICK f \in LastOf(R) : KnownSince(R) = f.available /\ \A g \in LastOf(R) : f.available <= g.available
  <2>1. PICK S : S = {f.available : f \in LastOf(R)}
    OBVIOUS
  <2>2. S \in SUBSET Nat /\ S # {}
    BY <1>1, <1>3, <2>1
  <2>3. PICK s \in S : \A x \in S : s <= x
    BY <2>2, LeastOf
  <2>4. Min(S) = s
    BY <2>2, <2>3, MinIs
  <2> QED
    BY <2>1, <2>3, <2>4 DEF KnownSince
<1>5. f \in R /\ f.available \in Nat /\ f.period.end \in Nat
  BY <1>1, <1>3
<1>6. ASSUME f.available < c
      PROVE  /\ O # {} /\ NamesOf(O) = {n} /\ EndsOf(AlikeOf(O)) = EndsOf(LastOf(O))
             /\ KnownSince(O) = KnownSince(R)
  <2>1. f \in O
    BY <1>1, <1>5, <1>6
  <2>2. \A g \in R : g.period.end <= f.period.end
    BY DEF LastOf
  <2>3. \A g \in O : g \in LastOf(O) <=> g \in LastOf(R)
    <3>1. ASSUME NEW g \in O, g \in LastOf(R)
          PROVE  g \in LastOf(O)
      BY <1>2, <3>1 DEF LastOf
    <3>2. ASSUME NEW g \in O, g \in LastOf(O)
          PROVE  g \in LastOf(R)
      <4>1. f.period.end <= g.period.end /\ g \in R /\ g.period.end \in Nat
        BY <1>1, <1>2, <2>1, <3>2 DEF LastOf
      <4>2. \A h \in R : h.period.end <= g.period.end
        BY <1>1, <1>5, <2>2, <4>1
      <4> QED
        BY <4>1, <4>2 DEF LastOf
    <3> QED
      BY <3>1, <3>2
  <2>4. f \in LastOf(O) /\ LastOf(O) \subseteq LastOf(R)
    <3>1. LastOf(O) \subseteq O
      BY DEF LastOf
    <3> QED
      BY <2>1, <2>3, <3>1
  <2>5. NamesOf(O) = {n}
    BY <2>4 DEF NamesOf
  <2>6. \A g \in LastOf(R) : g.period.end = f.period.end
    <3>1. ASSUME NEW g \in LastOf(R)
          PROVE  g.period.end = f.period.end
      <4>1. f.period.end <= g.period.end /\ g \in R
        BY <1>5 DEF LastOf
      <4> QED
        BY <1>1, <1>5, <2>2, <4>1
    <3> QED
      BY <3>1
  <2>7. AlikeOf(O) \subseteq AlikeOf(R) /\ f \in AlikeOf(O)
    BY <1>2, <2>1, <2>4 DEF AlikeOf
  <2>8. EndsOf(LastOf(R)) = {f.period.end}
    BY <2>6 DEF EndsOf
  <2>9. EndsOf(LastOf(O)) = {f.period.end}
    BY <2>4, <2>6 DEF EndsOf
  <2>10. EndsOf(AlikeOf(O)) = {f.period.end}
    <3>1. \A g \in AlikeOf(O) : g.period.end \in EndsOf(AlikeOf(R))
      BY <2>7 DEF EndsOf
    <3>2. \A g \in AlikeOf(O) : g.period.end = f.period.end
      BY <2>8, <3>1
    <3> QED
      BY <2>7, <3>2 DEF EndsOf
  <2>11. KnownSince(O) = f.available
    <3>1. PICK S : S = {g.available : g \in LastOf(O)}
      OBVIOUS
    <3>2. S \in SUBSET Nat /\ f.available \in S /\ \A x \in S : f.available <= x
      BY <1>1, <1>3, <1>4, <2>4, <3>1
    <3>3. Min(S) = f.available
      BY <3>2, MinIs
    <3> QED
      BY <3>1, <3>3 DEF KnownSince
  <2> QED
    BY <1>4, <2>1, <2>5, <2>9, <2>10, <2>11
<1> QED
  BY <1>4, <1>5, <1>6

\* The first scope with rows, if it names a period.
FirstAt(i, c) ==
    /\ i \in DOMAIN ScopePriority /\ EndpointRows(ScopePriority[i], c) # {}
    /\ \A j \in 1..i - 1 : EndpointRows(ScopePriority[j], c) = {}

EndpointAt(i, c, n) ==
    [value |-> n, scope |-> ScopePriority[i], available |-> KnownSince(EndpointRows(ScopePriority[i], c))]

LEMMA EndpointIs ==
    ASSUME NEW c, NEW x
    PROVE  x \in Endpoint(c) <=>
              \E i, n : /\ FirstAt(i, c) /\ x = EndpointAt(i, c, n)
                        /\ NamesOf(EndpointRows(ScopePriority[i], c)) = {n}
                        /\ EndsOf(AlikeOf(EndpointRows(ScopePriority[i], c)))
                            = EndsOf(LastOf(EndpointRows(ScopePriority[i], c)))
<1> DEFINE Of(i) ==
       LET R == EndpointRows(ScopePriority[i], c)
       IN {EndpointAt(i, c, n) : n \in {m \in NamesOf(R) : NamesOf(R) = {m} /\ EndsOf(AlikeOf(R)) = EndsOf(LastOf(R))}}
    First == {i \in DOMAIN ScopePriority :
                 /\ EndpointRows(ScopePriority[i], c) # {}
                 /\ \A j \in 1..i - 1 : ~(EndpointRows(ScopePriority[j], c) # {})}
<1>1. Endpoint(c) = UNION {Of(i) : i \in First}
  BY Zenon DEF Endpoint, EndpointAt, KnownSince, NamesOf, AlikeOf, EndsOf, LastOf, NamedBy
<1>2. \A i : i \in First <=> FirstAt(i, c)
  BY DEF FirstAt
<1>3. \A i : x \in Of(i) <=>
         \E n : /\ x = EndpointAt(i, c, n)
                /\ NamesOf(EndpointRows(ScopePriority[i], c)) = {n}
                /\ EndsOf(AlikeOf(EndpointRows(ScopePriority[i], c)))
                    = EndsOf(LastOf(EndpointRows(ScopePriority[i], c)))
  OBVIOUS
<1> HIDE DEF Of, First
<1> QED
  BY <1>1, <1>2, <1>3

LEMMA EndpointAhead ==
    ASSUME SeriesInv, NEW c \in Nat, c - 1 \in Nat
    PROVE  Foreseen(Endpoint(c - 1), Endpoint(c), c)
<1> DEFINE R(j, k) == EndpointRows(ScopePriority[j], k)
<1>1. ASSUME NEW x \in Endpoint(c)
      PROVE  x.available \in Nat /\ (x.available < c => x \in Endpoint(c - 1))
  <2>1. PICK i, n : /\ FirstAt(i, c) /\ x = EndpointAt(i, c, n)
                    /\ NamesOf(R(i, c)) = {n} /\ EndsOf(AlikeOf(R(i, c))) = EndsOf(LastOf(R(i, c)))
    BY EndpointIs
  <2>2. x.available = KnownSince(R(i, c))
    BY <2>1 DEF EndpointAt
  <2>3. \A j : RowsRise(R(j, c - 1), R(j, c), c)
    BY RowsRising
  <2>4. /\ KnownSince(R(i, c)) \in Nat
        /\ KnownSince(R(i, c)) < c =>
              /\ R(i, c - 1) # {} /\ NamesOf(R(i, c - 1)) = {n}
              /\ EndsOf(AlikeOf(R(i, c - 1))) = EndsOf(LastOf(R(i, c - 1)))
              /\ KnownSince(R(i, c - 1)) = KnownSince(R(i, c))
    BY <2>1, <2>3, NamedAhead
  <2>5. ASSUME x.available < c
        PROVE  x \in Endpoint(c - 1)
    <3>1. FirstAt(i, c - 1)
      <4>1. \A j : R(j, c) = {} => R(j, c - 1) = {}
        BY <2>3 DEF RowsRise
      <4> QED
        BY <2>1, <2>2, <2>4, <2>5, <4>1 DEF FirstAt
    <3>2. x = EndpointAt(i, c - 1, n)
      BY <2>1, <2>2, <2>4, <2>5 DEF EndpointAt
    <3> QED
      BY <2>2, <2>4, <2>5, <3>1, <3>2, EndpointIs
  <2> QED
    BY <2>2, <2>4, <2>5
<1> QED
  BY <1>1 DEF Foreseen
-----------------------------------------------------------------------------
(* All that research derives.                                              *)

Level(before, now, c) ==
    \A d \in now : d.is.available \in Nat /\ (d.is.available < c => d \in before)

LEMMA TaggedLevel ==
    ASSUME NEW A, NEW B, NEW c, Foreseen(A, B, c), NEW k
    PROVE  Level(Tagged(k, A), Tagged(k, B), c)
  BY DEF Level, Tagged, Foreseen

LEMMA LevelsJoin ==
    ASSUME NEW A, NEW B, NEW K, NEW L, NEW c, Level(A, B, c), Level(K, L, c)
    PROVE  Level(A \cup K, B \cup L, c)
  BY DEF Level

LEMMA AheadJoins ==
    ASSUME NEW A, NEW B, NEW K, NEW L, NEW c, Foreseen(A, B, c), Foreseen(K, L, c)
    PROVE  Foreseen(A \cup K, B \cup L, c)
  BY DEF Foreseen

\* The book value of a quarter.
BookOf(V, y, n) ==
    {[value |-> s.value["equity"], available |-> s.available]
        : s \in EndpointSnapshot(V, {"equity"}, y, n)}

LEMMA BookAhead ==
    ASSUME NEW U, NEW V, NEW c, Evening(U, V, c), NEW y, NEW n
    PROVE  Foreseen(BookOf(U, y, n), BookOf(V, y, n), c)
<1> DEFINE Told(s) == [value |-> s.value["equity"], available |-> s.available]
<1>1. \A W : BookOf(W, y, n) = {Told(s) : s \in EndpointSnapshot(W, {"equity"}, y, n)}
  BY DEF BookOf
<1>2. \A s : Told(s).available = s.available
  OBVIOUS
<1>3. Foreseen(EndpointSnapshot(U, {"equity"}, y, n), EndpointSnapshot(V, {"equity"}, y, n), c)
  BY EndpointSnapshotAhead
<1> HIDE DEF Told
<1> QED
  BY <1>1, <1>2, <1>3 DEF Foreseen

GrowthOf(R, y, n) == Growth(R, y, n, 4) \cup Growth(R, y, n, 1)

\* What is derived of an endpoint.
FlowsAt(N, R, G, y, n) ==
    Tagged(<<"quarter", y, n>>, QuarterAt(N, y, n))
    \cup Tagged(<<"trailing", y, n>>, Trailing(R, y, n))
    \cup Tagged(<<"growth", y, n>>, GrowthOf(R, y, n))
    \cup Tagged(<<"acceleration", y, n>>, Acceleration(G, y, n))
    \cup Tagged(<<"consistency", y, n>>, Consistency(G, y, n))
    \cup Tagged(<<"persistence", y, n>>, Persistence(G, y, n))
    \cup Tagged(<<"margin", y, n>>, Margin(N, R, y, n))
    \cup Tagged(<<"expansion", y, n>>, MarginExpansion(N, R, y, n))

SheetsAt(V, T, U, B, y, n) ==
    Tagged(<<"coverage", y, n>>, TrailingRatio(U, T))
    \cup Tagged(<<"equity", y, n>>, ReturnOnEquity(V, U))
    \cup Tagged(<<"capital", y, n>>, ReturnOnCapital(V, U))
    \cup Tagged(<<"days", y, n>>, StockDays(V, T, "debt"))
    \cup Tagged(<<"working", y, n>>, WorkingCapitalChange(V, T))
    \cup Tagged(<<"earnings", y, n>>, MultipleOf(B, U))
    \cup Tagged(<<"book", y, n>>, MultipleOf(B, BookOf(V, y, n)))
    \cup Tagged(<<"enterprise", y, n>>,
                MultipleOf(EnterpriseValue(B, EndpointSnapshot(V, {"debt", "cash"}, y, n)), T))

DerivedAt(V, R, N, G, B, y, n) ==
    FlowsAt(N, R, G, y, n) \cup SheetsAt(V, Trailing(R, y, n), Trailing(N, y, n), B, y, n)

LEMMA CandidateIs ==
    ASSUME NEW V, NEW R, NEW N, NEW G, NEW B, NEW y, NEW n
    PROVE  FinancialCandidate(V, R, N, G, B, y, n) = DerivedAt(V, R, N, G, B, y, n)
BY DEF FinancialCandidate, DerivedAt, FlowsAt, SheetsAt, BookOf, GrowthOf

LEMMA FlowsLevel ==
    ASSUME NEW P, NEW Q, NEW K, NEW L, NEW c, Rise(P, Q, c), Rise(K, L, c),
           NEW D, NEW E, Rise(D, E, c), NEW y, NEW n
    PROVE  Level(FlowsAt(ByEnd(K), ByEnd(P), ByEnd(D), y, n),
                 FlowsAt(ByEnd(L), ByEnd(Q), ByEnd(E), y, n), c)
<1>1. Foreseen(QuarterAt(ByEnd(K), y, n), QuarterAt(ByEnd(L), y, n), c)
  BY QuarterAtAhead
<1>2. Foreseen(Trailing(ByEnd(P), y, n), Trailing(ByEnd(Q), y, n), c)
  BY TrailingAhead
<1>3. Foreseen(GrowthOf(ByEnd(P), y, n), GrowthOf(ByEnd(Q), y, n), c)
  BY GrowthAhead, AheadJoins DEF GrowthOf
<1>4. Foreseen(Acceleration(ByEnd(D), y, n), Acceleration(ByEnd(E), y, n), c)
  BY AccelerationAhead
<1>5. Foreseen(Consistency(ByEnd(D), y, n), Consistency(ByEnd(E), y, n), c)
  BY ConsistencyAhead
<1>6. Foreseen(Persistence(ByEnd(D), y, n), Persistence(ByEnd(E), y, n), c)
  BY PersistenceAhead
<1>7. Foreseen(Margin(ByEnd(K), ByEnd(P), y, n), Margin(ByEnd(L), ByEnd(Q), y, n), c)
  BY MarginAhead
<1>8. Foreseen(MarginExpansion(ByEnd(K), ByEnd(P), y, n), MarginExpansion(ByEnd(L), ByEnd(Q), y, n), c)
  BY ExpansionAhead
<1>9. \A k : /\ Level(Tagged(k, QuarterAt(ByEnd(K), y, n)), Tagged(k, QuarterAt(ByEnd(L), y, n)), c)
             /\ Level(Tagged(k, Trailing(ByEnd(P), y, n)), Tagged(k, Trailing(ByEnd(Q), y, n)), c)
             /\ Level(Tagged(k, GrowthOf(ByEnd(P), y, n)), Tagged(k, GrowthOf(ByEnd(Q), y, n)), c)
             /\ Level(Tagged(k, Acceleration(ByEnd(D), y, n)),
                      Tagged(k, Acceleration(ByEnd(E), y, n)), c)
  BY <1>1, <1>2, <1>3, <1>4, TaggedLevel
<1>10. \A k : /\ Level(Tagged(k, Consistency(ByEnd(D), y, n)),
                       Tagged(k, Consistency(ByEnd(E), y, n)), c)
              /\ Level(Tagged(k, Persistence(ByEnd(D), y, n)),
                       Tagged(k, Persistence(ByEnd(E), y, n)), c)
              /\ Level(Tagged(k, Margin(ByEnd(K), ByEnd(P), y, n)),
                       Tagged(k, Margin(ByEnd(L), ByEnd(Q), y, n)), c)
              /\ Level(Tagged(k, MarginExpansion(ByEnd(K), ByEnd(P), y, n)),
                       Tagged(k, MarginExpansion(ByEnd(L), ByEnd(Q), y, n)), c)
  BY <1>5, <1>6, <1>7, <1>8, TaggedLevel
<1>11. \A X, Y : Level(X, Y, c) <=>
          \A d : d \in Y => d.is.available \in Nat /\ (d.is.available < c => d \in X)
  BY DEF Level
<1>12. ASSUME NEW d, d \in FlowsAt(ByEnd(L), ByEnd(Q), ByEnd(E), y, n)
       PROVE  /\ d.is.available \in Nat
              /\ d.is.available < c => d \in FlowsAt(ByEnd(K), ByEnd(P), ByEnd(D), y, n)
  <2>1. CASE \/ d \in Tagged(<<"quarter", y, n>>, QuarterAt(ByEnd(L), y, n))
             \/ d \in Tagged(<<"trailing", y, n>>, Trailing(ByEnd(Q), y, n))
    BY <1>9, <1>11, <2>1 DEF FlowsAt
  <2>2. CASE \/ d \in Tagged(<<"growth", y, n>>, GrowthOf(ByEnd(Q), y, n))
             \/ d \in Tagged(<<"acceleration", y, n>>, Acceleration(ByEnd(E), y, n))
    BY <1>9, <1>11, <2>2 DEF FlowsAt
  <2>3. CASE \/ d \in Tagged(<<"consistency", y, n>>, Consistency(ByEnd(E), y, n))
             \/ d \in Tagged(<<"persistence", y, n>>, Persistence(ByEnd(E), y, n))
    BY <1>10, <1>11, <2>3 DEF FlowsAt
  <2>4. CASE \/ d \in Tagged(<<"margin", y, n>>, Margin(ByEnd(L), ByEnd(Q), y, n))
             \/ d \in Tagged(<<"expansion", y, n>>, MarginExpansion(ByEnd(L), ByEnd(Q), y, n))
    BY <1>10, <1>11, <2>4 DEF FlowsAt
  <2> QED
    BY <1>12, <2>1, <2>2, <2>3, <2>4 DEF FlowsAt
<1> QED
  BY <1>11, <1>12

LEMMA SheetsLevel ==
    ASSUME NEW U, NEW V, NEW c, Evening(U, V, c), NEW T, NEW Z, Foreseen(T, Z, c),
           NEW K, NEW L, Foreseen(K, L, c), NEW A, NEW B, Foreseen(A, B, c), NEW y, NEW n
    PROVE  Level(SheetsAt(U, T, K, A, y, n), SheetsAt(V, Z, L, B, y, n), c)
<1>0. c \in Nat
  BY DEF Evening
<1>1. Foreseen(TrailingRatio(K, T), TrailingRatio(L, Z), c)
  BY <1>0, RatioAhead
<1>2. Foreseen(ReturnOnEquity(U, K), ReturnOnEquity(V, L), c)
  BY EquityReturnAhead
<1>3. Foreseen(ReturnOnCapital(U, K), ReturnOnCapital(V, L), c)
  BY CapitalReturnAhead
<1>4. Foreseen(StockDays(U, T, "debt"), StockDays(V, Z, "debt"), c)
  BY DaysAhead
<1>5. Foreseen(WorkingCapitalChange(U, T), WorkingCapitalChange(V, Z), c)
  BY WorkingAhead
<1>6. Foreseen(MultipleOf(A, K), MultipleOf(B, L), c)
  BY <1>0, MultipleAhead
<1>7. Foreseen(MultipleOf(A, BookOf(U, y, n)), MultipleOf(B, BookOf(V, y, n)), c)
  BY <1>0, BookAhead, MultipleAhead
<1>8. Foreseen(EnterpriseValue(A, EndpointSnapshot(U, {"debt", "cash"}, y, n)),
            EnterpriseValue(B, EndpointSnapshot(V, {"debt", "cash"}, y, n)), c)
  BY <1>0, EndpointSnapshotAhead, EnterpriseAhead
<1>9. Foreseen(MultipleOf(EnterpriseValue(A, EndpointSnapshot(U, {"debt", "cash"}, y, n)), T),
            MultipleOf(EnterpriseValue(B, EndpointSnapshot(V, {"debt", "cash"}, y, n)), Z), c)
  BY <1>0, <1>8, MultipleAhead
<1>10. \A k : /\ Level(Tagged(k, TrailingRatio(K, T)), Tagged(k, TrailingRatio(L, Z)), c)
              /\ Level(Tagged(k, ReturnOnEquity(U, K)), Tagged(k, ReturnOnEquity(V, L)), c)
              /\ Level(Tagged(k, ReturnOnCapital(U, K)), Tagged(k, ReturnOnCapital(V, L)), c)
              /\ Level(Tagged(k, StockDays(U, T, "debt")), Tagged(k, StockDays(V, Z, "debt")), c)
  BY <1>1, <1>2, <1>3, <1>4, TaggedLevel
<1>11. \A k :
          /\ Level(Tagged(k, WorkingCapitalChange(U, T)), Tagged(k, WorkingCapitalChange(V, Z)), c)
          /\ Level(Tagged(k, MultipleOf(A, K)), Tagged(k, MultipleOf(B, L)), c)
          /\ Level(Tagged(k, MultipleOf(A, BookOf(U, y, n))),
                   Tagged(k, MultipleOf(B, BookOf(V, y, n))), c)
          /\ Level(Tagged(k, MultipleOf(EnterpriseValue(A, EndpointSnapshot(U, {"debt", "cash"}, y, n)), T)),
                   Tagged(k, MultipleOf(EnterpriseValue(B, EndpointSnapshot(V, {"debt", "cash"}, y, n)), Z)), c)
  BY <1>5, <1>6, <1>7, <1>9, TaggedLevel
<1> QED
  BY <1>10, <1>11, LevelsJoin DEF SheetsAt

LEMMA DerivedIsAll ==
    ASSUME NEW scope, NEW c, NEW V, V = KnownFigures(scope, c),
           NEW R, R = QuarterSeries(V, "revenue"), NEW N, N = QuarterSeries(V, "profit"), NEW d
    PROVE  d \in Derived(scope, c) <=>
              \/ \E e \in Endpoints : d \in DerivedAt(V, R, N, GrowthSeries(R), Bar(c), e[1], e[2])
              \/ d \in Tagged(<<"endpoint">>, Endpoint(c))
              \/ d \in Tagged(<<"debt">>, NetDebt(V))
              \/ d \in Tagged(<<"leverage">>, DebtToEquity(V))
<1>1. d \in Candidates(scope, c) <=>
         \E e \in Endpoints : d \in FinancialCandidate(V, R, N, GrowthSeries(R), Bar(c), e[1], e[2])
  BY DEF Candidates
<1>2. d \in Derived(scope, c) <=>
         \/ d \in Candidates(scope, c)
         \/ d \in Tagged(<<"endpoint">>, Endpoint(c))
         \/ d \in Tagged(<<"debt">>, NetDebt(V))
         \/ d \in Tagged(<<"leverage">>, DebtToEquity(V))
  BY DEF Derived
<1> QED
  BY <1>1, <1>2, CandidateIs

\* The quarters of a flow that are known.
QuartersOf(V, m) == Quarters({f \in V : f.metric = m})

LEMMA DerivedLevel ==
    ASSUME SeriesInv, NEW scope, NEW c \in Nat, c - 1 \in Nat
    PROVE  Level(Derived(scope, c - 1), Derived(scope, c), c)
<1>1. PICK U, V : U = KnownFigures(scope, c - 1) /\ V = KnownFigures(scope, c)
  OBVIOUS
<1>2. Evening(U, V, c)
  BY <1>1, EveningIs
<1>3. ASSUME NEW m \in Flow
      PROVE  Rise(QuartersOf(U, m), QuartersOf(V, m), c)
  <2>1. PICK E, F : E = {f \in U : f.metric = m} /\ F = {f \in V : f.metric = m}
    OBVIOUS
  <2>2. Lines(E, F, m, c)
    BY <1>1, <2>1, LinesAre
  <2> QED
    BY <2>1, <2>2, QuartersAhead DEF Rise, QuartersOf
<1>4. \A W, m : QuarterSeries(W, m) = ByEnd(QuartersOf(W, m))
  BY DEF QuarterSeries, QuartersOf, Quarters
<1>5. PICK P, Q, K, L : /\ P = QuartersOf(U, "revenue") /\ Q = QuartersOf(V, "revenue")
                        /\ K = QuartersOf(U, "profit") /\ L = QuartersOf(V, "profit")
  OBVIOUS
<1>6. Rise(P, Q, c) /\ Rise(K, L, c)
  BY <1>3, <1>5 DEF Flow
<1>7. PICK D, E : D = GrowthPoints(P) /\ E = GrowthPoints(Q)
  OBVIOUS
<1>8. /\ Rise(D, E, c)
      /\ GrowthSeries(ByEnd(P)) = ByEnd(D) /\ GrowthSeries(ByEnd(Q)) = ByEnd(E)
  BY <1>6, <1>7, PointsRise, GrowthSeriesIs
<1>9. Foreseen(Bar(c - 1), Bar(c), c)
  BY BarAhead
<1>10. ASSUME NEW y, NEW n
       PROVE  Level(DerivedAt(U, ByEnd(P), ByEnd(K), ByEnd(D), Bar(c - 1), y, n),
                    DerivedAt(V, ByEnd(Q), ByEnd(L), ByEnd(E), Bar(c), y, n), c)
  <2>1. Level(FlowsAt(ByEnd(K), ByEnd(P), ByEnd(D), y, n), FlowsAt(ByEnd(L), ByEnd(Q), ByEnd(E), y, n), c)
    BY <1>6, <1>8, FlowsLevel
  <2>2. /\ Foreseen(Trailing(ByEnd(P), y, n), Trailing(ByEnd(Q), y, n), c)
        /\ Foreseen(Trailing(ByEnd(K), y, n), Trailing(ByEnd(L), y, n), c)
    BY <1>6, TrailingAhead
  <2>3. Level(SheetsAt(U, Trailing(ByEnd(P), y, n), Trailing(ByEnd(K), y, n), Bar(c - 1), y, n),
              SheetsAt(V, Trailing(ByEnd(Q), y, n), Trailing(ByEnd(L), y, n), Bar(c), y, n), c)
    BY <1>2, <1>9, <2>2, SheetsLevel
  <2> QED
    BY <2>1, <2>3, LevelsJoin DEF DerivedAt
<1> DEFINE Before(e) == DerivedAt(U, ByEnd(P), ByEnd(K), ByEnd(D), Bar(c - 1), e[1], e[2])
           Now(e) == DerivedAt(V, ByEnd(Q), ByEnd(L), ByEnd(E), Bar(c), e[1], e[2])
<1>11. \A e : Level(Before(e), Now(e), c)
  BY <1>10
<1>12. \A d : d \in Derived(scope, c) <=>
                 \/ \E e \in Endpoints : d \in Now(e)
                 \/ d \in Tagged(<<"endpoint">>, Endpoint(c))
                 \/ d \in Tagged(<<"debt">>, NetDebt(V))
                 \/ d \in Tagged(<<"leverage">>, DebtToEquity(V))
  <2>1. ByEnd(Q) = QuarterSeries(V, "revenue") /\ ByEnd(L) = QuarterSeries(V, "profit")
    BY <1>4, <1>5
  <2> QED
    BY <1>1, <1>8, <2>1, DerivedIsAll
<1>13. \A d : d \in Derived(scope, c - 1) <=>
                 \/ \E e \in Endpoints : d \in Before(e)
                 \/ d \in Tagged(<<"endpoint">>, Endpoint(c - 1))
                 \/ d \in Tagged(<<"debt">>, NetDebt(U))
                 \/ d \in Tagged(<<"leverage">>, DebtToEquity(U))
  <2>1. ByEnd(P) = QuarterSeries(U, "revenue") /\ ByEnd(K) = QuarterSeries(U, "profit")
    BY <1>4, <1>5
  <2> QED
    BY <1>1, <1>8, <2>1, DerivedIsAll
<1> HIDE DEF Before, Now
<1>15. Level(Tagged(<<"endpoint">>, Endpoint(c - 1)), Tagged(<<"endpoint">>, Endpoint(c)), c)
  BY EndpointAhead, TaggedLevel
<1>16. Level(Tagged(<<"debt">>, NetDebt(U)), Tagged(<<"debt">>, NetDebt(V)), c)
  BY <1>2, NetDebtAhead, TaggedLevel
<1>17. Level(Tagged(<<"leverage">>, DebtToEquity(U)), Tagged(<<"leverage">>, DebtToEquity(V)), c)
  BY <1>2, LeverageAhead, TaggedLevel
<1>18. \A X, Y : Level(X, Y, c) <=>
          \A d : d \in Y => d.is.available \in Nat /\ (d.is.available < c => d \in X)
  BY DEF Level
<1>19. ASSUME NEW d, d \in Derived(scope, c)
       PROVE  d.is.available \in Nat /\ (d.is.available < c => d \in Derived(scope, c - 1))
  <2>1. ASSUME NEW e \in Endpoints, d \in Now(e)
        PROVE  d.is.available \in Nat /\ (d.is.available < c => d \in Before(e))
    BY <1>11, <1>18, <2>1
  <2>2. CASE d \in Tagged(<<"endpoint">>, Endpoint(c))
    BY <1>13, <1>15, <1>18, <2>2
  <2>3. CASE d \in Tagged(<<"debt">>, NetDebt(V))
    BY <1>13, <1>16, <1>18, <2>3
  <2>4. CASE d \in Tagged(<<"leverage">>, DebtToEquity(V))
    BY <1>13, <1>17, <1>18, <2>4
  <2> QED
    BY <1>12, <1>13, <1>19, <2>1, <2>2, <2>3, <2>4
<1> QED
  BY <1>18, <1>19

LEMMA NothingAhead ==
    ASSUME SeriesInv
    PROVE  NoLookahead
<1>1. ASSUME NEW scope \in Scopes, NEW c \in 2..today, NEW d \in Derived(scope, c), d.is.available < c
      PROVE  d \in Derived(scope, c - 1)
  <2>1. c \in Nat /\ c - 1 \in Nat
    BY DEF SeriesInv
  <2> QED
    BY <1>1, <2>1, DerivedLevel DEF Level
<1> QED
  BY <1>1 DEF NoLookahead

\* At no cutoff does research use what was not known then: a quarter, twelve months, growth,
\* margin, ratio or endpoint that says it is available since before a cutoff is what
\* research derived the day before the cutoff, from the figures of that day.
THEOREM NothingKnownEarly == SeriesSpec => []NoLookahead
  BY SeriesInvariant, NothingAhead, PTL

=============================================================================
