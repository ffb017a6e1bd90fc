---------------------------- MODULE EvidenceProofs ----------------------------
(***************************************************************************)
(* Proofs about what research says of prices, attention and announced      *)
(* events, for any evidence, loaded in any order, and any windows          *)
(* (EvidenceFeatures).                                                     *)
(*                                                                         *)
(* Each feature is compared at a cutoff and the day before: if it says it  *)
(* was available before the cutoff, everything it is made of was, and was  *)
(* there the day before in the same place.  For prices that is the last    *)
(* bars, adjusted for the same splits (TailSince).                         *)
(***************************************************************************)
EXTENDS EvidenceFeatures, ResearchProofs

-----------------------------------------------------------------------------
(* What else research says: prices, attention and events.                  *)

\* Facts that may be loaded.
Gathered(F) ==
    /\ AreFacts(F) /\ IsFiniteSet(F)
    /\ \A f \in F : f.available \in Nat \ {0} /\ f.date \in Nat \ {0}
    /\ \A f \in F : f.kind = "attention" => f.revised \in Nat
    /\ \A a, b \in OfKind(F, "bar") : a.date = b.date /\ a.available = b.available => a = b

\* Bars, one of a day.
Dated(S) ==
    /\ IsFiniteSet(S)
    /\ \A b \in S : b.date \in Nat
    /\ \A a, b \in S : a.date = b.date => a = b

Older(S, b) == {a \in S : a.date < b.date}

LEMMA OlderIs ==
    ASSUME NEW S, Dated(S), NEW b \in S
    PROVE  /\ IsFiniteSet(Older(S, b))
           /\ Cardinality(Older(S, b)) \in Nat /\ Cardinality(Older(S, b)) < Cardinality(S)
<1>1. Older(S, b) \in SUBSET S /\ b \notin Older(S, b)
  BY DEF Older, Dated
<1>2. IsFiniteSet(S) /\ Cardinality(S) \in Nat
  BY FS_CardinalityType DEF Dated
<1>3. /\ IsFiniteSet(Older(S, b)) /\ Cardinality(Older(S, b)) <= Cardinality(S)
      /\ Cardinality(Older(S, b)) # Cardinality(S)
  BY <1>1, <1>2, FS_Subset
<1>4. Cardinality(Older(S, b)) \in Nat
  BY <1>3, FS_CardinalityType
<1> QED
  BY <1>2, <1>3, <1>4

LEMMA OlderGrows ==
    ASSUME NEW S, Dated(S), NEW a \in S, NEW b \in S, a.date < b.date
    PROVE  Cardinality(Older(S, a)) < Cardinality(Older(S, b))
<1>1. \A x \in S : x.date \in Nat
  BY DEF Dated
<1>2. Older(S, a) \in SUBSET Older(S, b) /\ a \in Older(S, b) /\ a \notin Older(S, a)
  BY <1>1 DEF Older
<1>3. /\ IsFiniteSet(Older(S, b)) /\ Cardinality(Older(S, b)) \in Nat
      /\ Cardinality(Older(S, a)) \in Nat
  BY OlderIs
<1>4. /\ Cardinality(Older(S, a)) <= Cardinality(Older(S, b))
      /\ Cardinality(Older(S, a)) # Cardinality(Older(S, b))
  BY <1>2, <1>3, FS_Subset
<1> QED
  BY <1>3, <1>4

\* A sequence of all of S in the order of their days.
InOrderOfDays(B, n, S) ==
    /\ n \in Nat /\ B \in [1..n -> S] /\ Len(B) = n
    /\ \A b \in S : \E i \in 1..n : B[i] = b
    /\ \A i, j \in 1..n : i < j => B[i].date < B[j].date

LEMMA ByDateIs ==
    ASSUME NEW S, Dated(S), NEW B, B = ByDate(S), NEW n, n = Cardinality(S)
    PROVE  InOrderOfDays(B, n, S)
<1> DEFINE f == [b \in S |-> Cardinality(Older(S, b)) + 1]
           Nth(i) == CHOOSE b \in S : Cardinality(Older(S, b)) = i - 1
<1>1. IsFiniteSet(S) /\ n \in Nat
  BY FS_CardinalityType DEF Dated
<1>2. \A b \in S : f[b] \in 1..n /\ f[b] = Cardinality(Older(S, b)) + 1
  BY <1>1, OlderIs
<1>3. ASSUME NEW a \in S, NEW b \in S, f[a] = f[b]
      PROVE  a = b
  <2>1. Cardinality(Older(S, a)) = Cardinality(Older(S, b))
    BY <1>2, <1>3, OlderIs
  <2>2. ~(a.date < b.date) /\ ~(b.date < a.date)
    BY <2>1, OlderGrows, OlderIs
  <2> QED
    BY <2>2 DEF Dated
<1>4. f \in Injection(S, 1..n)
  <2>1. f \in [S -> 1..n]
    BY <1>2
  <2> HIDE DEF f
  <2> QED
    BY <1>3, <2>1 DEF Injection, IsInjective
<1>5. f \in Surjection(S, 1..n)
  <2>1. IsFiniteSet(1..n) /\ Cardinality(1..n) = n
    BY <1>1, FS_Interval
  <2> HIDE DEF f
  <2> QED
    BY <1>4, <2>1, FS_Injection
<1>6. \A i \in 1..n : \E b \in S : f[b] = i
  <2> HIDE DEF f
  <2> QED
    BY <1>5 DEF Surjection
<1>7. ASSUME NEW i \in 1..n
      PROVE  Nth(i) \in S /\ f[Nth(i)] = i
  <2>1. PICK b \in S : f[b] = i
    BY <1>6
  <2>2. Cardinality(Older(S, b)) = i - 1
    BY <1>2, <2>1, OlderIs
  <2>3. Nth(i) \in S /\ Cardinality(Older(S, Nth(i))) = i - 1
    BY <2>2
  <2> QED
    BY <1>2, <2>3
<1>8. B = [i \in 1..n |-> Nth(i)]
  BY Zenon DEF ByDate, Older
<1> HIDE DEF f, Nth
<1>9. B \in [1..n -> S] /\ Len(B) = n /\ \A i \in 1..n : B[i] = Nth(i)
  BY <1>1, <1>7, <1>8
<1>10. ASSUME NEW b \in S
       PROVE  \E i \in 1..n : B[i] = b
  <2>1. f[b] \in 1..n
    BY <1>2
  <2>2. B[f[b]] \in S /\ f[B[f[b]]] = f[b]
    BY <1>7, <1>9, <2>1
  <2> QED
    BY <1>3, <2>1, <2>2
<1>11. ASSUME NEW i \in 1..n, NEW j \in 1..n, i < j
       PROVE  B[i].date < B[j].date
  <2>1. B[i] \in S /\ B[j] \in S /\ f[B[i]] = i /\ f[B[j]] = j
    BY <1>7, <1>9
  <2>2. Cardinality(Older(S, B[i])) < Cardinality(Older(S, B[j]))
    BY <1>2, <1>11, <2>1, OlderIs
  <2>3. B[i].date \in Nat /\ B[j].date \in Nat /\ B[i] # B[j]
    BY <1>11, <2>1 DEF Dated
  <2>4. ~(B[j].date < B[i].date)
    BY <2>1, <2>2, OlderGrows, OlderIs
  <2>5. B[i].date # B[j].date
    BY <2>1, <2>3 DEF Dated
  <2> QED
    BY <2>3, <2>4, <2>5
<1> QED
  BY <1>1, <1>9, <1>10, <1>11 DEF InOrderOfDays

DaysAfter(S, day) == {d \in Days(S) : d > day}

\* The place of a bar follows from the days after it.
LEMMA PlaceIs ==
    ASSUME NEW S, Dated(S), NEW B, NEW n, InOrderOfDays(B, n, S), NEW i \in 1..n
    PROVE  Cardinality(DaysAfter(S, B[i].date)) = n - i
<1> DEFINE g == [j \in i + 1..n |-> B[j].date]
           D == DaysAfter(S, B[i].date)
<1>1. n \in Nat /\ i \in Nat /\ \A j \in 1..n : B[j] \in S /\ B[j].date \in Nat
  BY DEF InOrderOfDays, Dated
<1>2. \A j \in i + 1..n : j \in 1..n /\ i < j /\ g[j] = B[j].date
  BY <1>1
<1>3. \A j \in i + 1..n : g[j] \in D
  BY <1>1, <1>2 DEF InOrderOfDays, DaysAfter, Days
<1>4. ASSUME NEW j \in i + 1..n, NEW k \in i + 1..n, g[j] = g[k]
      PROVE  j = k
  BY <1>1, <1>2, <1>4 DEF InOrderOfDays
<1>5. ASSUME NEW d \in D
      PROVE  \E j \in i + 1..n : g[j] = d
  <2>1. PICK b \in S : d = b.date /\ b.date > B[i].date
    BY DEF DaysAfter, Days
  <2>2. PICK j \in 1..n : B[j] = b
    BY DEF InOrderOfDays
  <2>3. j > i
    BY <1>1, <2>1, <2>2 DEF InOrderOfDays
  <2> QED
    BY <1>2, <2>1, <2>2, <2>3
<1>6. g \in Bijection(i + 1..n, D)
  <2>1. g \in [i + 1..n -> D]
    BY <1>3
  <2> HIDE DEF g, D
  <2> QED
    BY <1>4, <1>5, <2>1 DEF Bijection, Injection, Surjection, IsInjective
<1>7. IsFiniteSet(i + 1..n) /\ Cardinality(i + 1..n) = n - i
  BY <1>1, FS_Interval
<1> HIDE DEF g, D
<1>8. ExistsBijection(i + 1..n, D)
  BY <1>6 DEF ExistsBijection
<1>9. Cardinality(D) = n - i
  BY <1>7, <1>8, FS_Bijection
<1> QED
  BY <1>9 DEF D

\* The last n of a sequence of m.
IsTail(W, B, m, n) ==
    /\ n \in 0..m /\ Len(W) = n /\ DOMAIN W = 1..n
    /\ \A i \in 1..n : m - n + i \in 1..m /\ W[i] = B[m - n + i]

LEMMA TailIs ==
    ASSUME NEW B, NEW m \in Nat, NEW S, B \in [1..m -> S], Len(B) = m, NEW n \in 0..m,
           NEW W, W = SubSeq(B, m - n + 1, m)
    PROVE  IsTail(W, B, m, n) /\ W \in [1..n -> S]
<1>1. B \in Seq(S)
  BY SeqDef
<1>2. PICK a : a = m - n + 1
  OBVIOUS
<1>3. a \in 1..Len(B) + 1 /\ m \in a - 1..Len(B) /\ m - a + 1 = n
  BY <1>2
<1>4. /\ W \in Seq(S) /\ Len(W) = n
      /\ \A i \in 1..n : W[i] = B[a + i - 1]
  BY <1>1, <1>2, <1>3, SubSeqProperties
<1>5. DOMAIN W = 1..n /\ W \in [1..n -> S]
  BY <1>4, LenProperties
<1>6. ASSUME NEW i \in 1..n
      PROVE  m - n + i \in 1..m /\ W[i] = B[m - n + i]
  <2>1. a + i - 1 = m - n + i
    BY <1>2
  <2> QED
    BY <1>4, <2>1
<1> QED
  BY <1>4, <1>5, <1>6 DEF IsTail

LEMMA WindowIs ==
    ASSUME NEW B, NEW m \in Nat, NEW S, B \in [1..m -> S], Len(B) = m, NEW n \in Nat, NEW W
    PROVE  W \in Window(B, n) <=> n <= m /\ W = SubSeq(B, m - n + 1, m)
  BY DEF Window

LEMMA WindowsTail ==
    ASSUME NEW B, NEW m \in Nat, NEW S, B \in [1..m -> S], Len(B) = m, NEW n \in Nat, NEW W \in Window(B, n)
    PROVE  IsTail(W, B, m, n) /\ W \in [1..n -> S]
<1>1. n <= m /\ W = SubSeq(B, m - n + 1, m)
  BY WindowIs
<1> QED
  <2>1. n \in 0..m
    BY <1>1
  <2> QED
    BY <1>1, <2>1, TailIs

LEMMA TailHolds ==
    ASSUME NEW S, Dated(S), NEW B, NEW m, InOrderOfDays(B, m, S), NEW n \in Nat \ {0},
           NEW W \in Window(B, n)
    PROVE  /\ IsTail(W, B, m, n) /\ W \in [1..n -> S]
           /\ \A b \in S : b.date >= W[1].date => \E i \in 1..n : W[i] = b
           /\ \A i \in 1..n : W[1].date <= W[i].date /\ W[i].date <= W[n].date
           /\ \A b \in S : b.date <= W[n].date
<1>1. /\ m \in Nat /\ B \in [1..m -> S] /\ Len(B) = m
      /\ \A j \in 1..m : B[j] \in S /\ B[j].date \in Nat
  BY DEF InOrderOfDays, Dated
<1>2. IsTail(W, B, m, n) /\ W \in [1..n -> S]
  BY <1>1, WindowsTail
<1>3. \A i \in 1..n : m - n + i \in 1..m /\ W[i] = B[m - n + i]
  BY <1>2 DEF IsTail
<1>4. 1 \in 1..n /\ n \in 1..n
  OBVIOUS
<1>5. \A i, j \in 1..m : i <= j => B[i].date <= B[j].date
  <2> TAKE i, j \in 1..m
  <2>1. i < j => B[i].date < B[j].date
    BY DEF InOrderOfDays
  <2>2. B[i].date \in Nat /\ B[j].date \in Nat
    BY <1>1
  <2> QED
    BY <2>1, <2>2
<1>6. ASSUME NEW b \in S, b.date >= W[1].date
      PROVE  \E i \in 1..n : W[i] = b
  <2>1. PICK j \in 1..m : B[j] = b
    BY DEF InOrderOfDays
  <2>2. m - n + 1 \in 1..m /\ W[1] = B[m - n + 1]
    BY <1>3, <1>4
  <2>3. ~(j < m - n + 1)
    <3>1. j < m - n + 1 => B[j].date < B[m - n + 1].date
      BY <2>2 DEF InOrderOfDays
    <3>2. B[j].date \in Nat /\ B[m - n + 1].date \in Nat
      BY <1>1, <2>2
    <3> QED
      BY <1>6, <2>1, <2>2, <3>1, <3>2
  <2>4. j - (m - n) \in 1..n /\ m - n + (j - (m - n)) = j
    BY <1>1, <2>3
  <2> QED
    BY <1>3, <2>1, <2>4
<1>7. ASSUME NEW i \in 1..n
      PROVE  W[1].date <= W[i].date /\ W[i].date <= W[n].date
  <2>1. m - n + 1 <= m - n + i /\ m - n + i <= m - n + n
    BY <1>1
  <2> QED
    BY <1>3, <1>4, <1>5, <2>1
<1>8. ASSUME NEW b \in S
      PROVE  b.date <= W[n].date
  <2>1. PICK j \in 1..m : B[j] = b
    BY DEF InOrderOfDays
  <2>2. W[n] = B[m] /\ m \in 1..m
    <3>1. m - n + n = m
      BY <1>1
    <3> QED
      BY <1>3, <1>4, <3>1
  <2>3. j <= m
    BY <1>1
  <2> QED
    BY <1>5, <2>1, <2>2, <2>3
<1> QED
  BY <1>2, <1>6, <1>7, <1>8

\* If the days from the first of a window on are the same in another series, it has a window
\* of these days.
LEMMA TailAlike ==
    ASSUME NEW S, Dated(S), NEW B, NEW m, InOrderOfDays(B, m, S),
           NEW Z, Dated(Z), NEW A, NEW k, InOrderOfDays(A, k, Z),
           NEW n \in Nat \ {0}, NEW W \in Window(B, n),
           \A d \in Nat : d >= W[1].date => (d \in Days(S) <=> d \in Days(Z))
    PROVE  \E X \in Window(A, n) : /\ X \in [1..n -> Z] /\ Len(X) = n
                                   /\ \A i \in 1..n : X[i].date = W[i].date
<1>1. /\ IsTail(W, B, m, n) /\ W \in [1..n -> S]
      /\ \A i \in 1..n : W[1].date <= W[i].date
  BY TailHolds
<1>2. /\ m \in Nat /\ k \in Nat /\ A \in [1..k -> Z] /\ Len(A) = k
      /\ \A i \in 1..n : W[i] \in S /\ W[i].date \in Nat
      /\ W[1].date \in Nat
  BY <1>1 DEF InOrderOfDays, Dated
<1>3. ASSUME NEW i \in 1..n
      PROVE  k - n + i \in 1..k /\ A[k - n + i].date = W[i].date
  <2>1. m - n + i \in 1..m /\ W[i] = B[m - n + i]
    BY <1>1 DEF IsTail
  <2>2. Cardinality(DaysAfter(S, W[i].date)) = n - i
    <3>1. Cardinality(DaysAfter(S, W[i].date)) = m - (m - n + i)
      BY <2>1, PlaceIs
    <3> QED
      BY <1>2, <3>1
  <2>3. DaysAfter(S, W[i].date) = DaysAfter(Z, W[i].date)
    <3>1. \A d \in Days(S) \cup Days(Z) : d \in Nat
      BY DEF Dated, Days
    <3>2. \A d \in Nat : d > W[i].date => d >= W[1].date
      BY <1>1, <1>2
    <3> QED
      BY <3>1, <3>2 DEF DaysAfter
  <2>4. W[i].date \in Days(S)
    BY <1>2 DEF Days
  <2>5. PICK z \in Z : z.date = W[i].date
    BY <1>1, <1>2, <2>4 DEF Days
  <2>6. PICK j \in 1..k : A[j] = z
    BY DEF InOrderOfDays
  <2>7. k - j = n - i
    BY <2>2, <2>3, <2>5, <2>6, PlaceIs
  <2>8. j = k - n + i
    BY <1>2, <2>7
  <2> QED
    BY <2>5, <2>6, <2>8
<1>4. n \in 0..k /\ n <= k
  <2>1. k - n + 1 \in 1..k
    BY <1>3
  <2> QED
    BY <1>2, <2>1
<1>5. PICK X : X = SubSeq(A, k - n + 1, k)
  OBVIOUS
<1>6. X \in Window(A, n)
  BY <1>2, <1>4, <1>5, WindowIs
<1>7. IsTail(X, A, k, n) /\ X \in [1..n -> Z]
  BY <1>2, <1>4, <1>5, TailIs
<1>8. \A i \in 1..n : X[i].date = W[i].date
  BY <1>3, <1>7 DEF IsTail
<1> QED
  BY <1>6, <1>7, <1>8 DEF IsTail

-----------------------------------------------------------------------------
\* No record came to tell of something else at c.
StillAbout(F, c) ==
    \A f, g \in F :
        f.kind = g.kind /\ f.kind \in {"action", "attention"} /\ f.external = g.external
        /\ f.available < c /\ g.available = c => Subject(f) = Subject(g)

LEMMA SeenAt ==
    ASSUME NEW F, Gathered(F), NEW c \in Nat \ {0}, NEW kind, kind # "listing"
    PROVE  /\ c - 1 \in Nat /\ AreFacts(F)
           /\ Visible(F, kind, c - 1) = {f \in Visible(F, kind, c) : f.available # c}
           /\ \A f \in Visible(F, kind, c) : /\ f \in F /\ f.kind = kind /\ f.available \in Nat \ {0}
                                             /\ f.available <= c /\ f.date \in Nat \ {0}
                                             /\ f.available # c => f.available <= c - 1
<1>1. \A f \in F : f.available \in Nat
  BY DEF Gathered
<1> QED
  BY <1>1 DEF Visible, OfKind, Gathered

LEMMA SeriesSince ==
    ASSUME NEW F, Gathered(F), NEW c \in Nat \ {0}, NEW kind, kind # "listing"
    PROVE  /\ \A f \in SeriesAsOf(F, kind, c) :
                 f.available # c => f \in SeriesAsOf(F, kind, c - 1)
           /\ \A f \in SeriesAsOf(F, kind, c - 1) :
                 \E g \in SeriesAsOf(F, kind, c) :
                    /\ g.date = f.date /\ f.available <= g.available
                    /\ g.available # c => f \in SeriesAsOf(F, kind, c)
<1>1. /\ c - 1 \in Nat /\ c - 1 <= c /\ AreFacts(F)
      /\ \A f \in SeriesAsOf(F, kind, c) : f.available # c => f.available <= c - 1
  BY SeenAt DEF SeriesAsOf
<1> QED
  BY <1>1, SeriesEarlier, SeriesLater

LEMMA BarsDated ==
    ASSUME NEW F, Gathered(F), NEW c
    PROVE  Dated(SeriesAsOf(F, "bar", c))
<1> DEFINE R == SeriesAsOf(F, "bar", c)
<1>1. R \in SUBSET F
  BY DEF SeriesAsOf, Visible, OfKind
<1>2. IsFiniteSet(R)
  BY <1>1, FS_Subset DEF Gathered
<1>3. ASSUME NEW a \in R, NEW b \in R, a.date = b.date
      PROVE  a = b
  <2>1. a \in OfKind(F, "bar") /\ b \in OfKind(F, "bar") /\ a.available <= b.available
        /\ b.available <= a.available
    BY <1>3 DEF SeriesAsOf, Visible
  <2>2. a.available \in Nat /\ b.available \in Nat
    BY <1>1 DEF Gathered
  <2>3. a.available = b.available
    BY <2>1, <2>2
  <2> QED
    BY <1>3, <2>1, <2>3 DEF Gathered
<1>4. \A b \in R : b.date \in Nat
  BY <1>1 DEF Gathered
<1> QED
  BY <1>2, <1>3, <1>4 DEF Dated

\* The newest revision of a record still is, or the record has one of today about the same.
LEMMA RecordSince ==
    ASSUME NEW F, Gathered(F), NEW c \in Nat \ {0}, StillAbout(F, c), NEW g \in NewestRevisions(F, c - 1)
    PROVE  \/ g \in NewestRevisions(F, c)
           \/ \E h \in NewestRevisions(F, c) : h.available = c /\ h.type = g.type /\ h.date = g.date
<1>1. /\ AreFacts(F)
      /\ Visible(F, "action", c - 1) = {f \in Visible(F, "action", c) : f.available # c}
      /\ \A f \in Visible(F, "action", c) :
            /\ f \in F /\ f.kind = "action" /\ f.available \in Nat /\ f.available <= c
            /\ f.available # c => f.available < c
  BY SeenAt
<1> DEFINE S == {h \in Visible(F, "action", c) : h.external = g.external}
<1>2. g \in S /\ g.available # c /\ g \in Visible(F, "action", c - 1)
  BY <1>1 DEF NewestRevisions
<1>3. PICK h \in S : \A f \in S : f.available <= h.available
  BY <1>1, <1>2, NewestOf
<1>4. h \in NewestRevisions(F, c)
  BY <1>3 DEF NewestRevisions
<1>5. CASE h.available = c
  <2>1. Subject(g) = Subject(h)
    BY <1>1, <1>2, <1>5 DEF StillAbout
  <2>2. g.kind = "action" /\ h.kind = "action"
    BY <1>1, <1>2
  <2>3. h.type = g.type /\ h.date = g.date
    BY <2>1, <2>2 DEF Subject
  <2> QED
    BY <1>4, <1>5, <2>3
<1>6. CASE h.available # c
  <2>1. h \in Visible(F, "action", c - 1)
    BY <1>1, <1>3, <1>6
  <2>2. h.available <= g.available /\ g.available <= h.available
    BY <1>2, <1>3, <2>1 DEF NewestRevisions
  <2>3. h.available = g.available
    BY <1>1, <1>2, <1>3, <2>2
  <2>4. \A f \in Visible(F, "action", c) : f.external = g.external => f.available <= g.available
    BY <1>3, <2>3
  <2> QED
    BY <1>2, <2>4 DEF NewestRevisions
<1> QED
  BY <1>5, <1>6

LEMMA RevisionSince ==
    ASSUME NEW F, Gathered(F), NEW c \in Nat \ {0}, NEW s \in NewestRevisions(F, c), s.available # c
    PROVE  s \in NewestRevisions(F, c - 1)
  BY SeenAt DEF NewestRevisions

LEMMA ActionSince ==
    ASSUME NEW F, Gathered(F), NEW c \in Nat \ {0}, StillAbout(F, c), NEW s \in ActionsAsOf(F, c),
           s.available # c
    PROVE  s \in ActionsAsOf(F, c - 1)
<1>1. s \in NewestRevisions(F, c) /\ s \in NewestRevisions(F, c - 1)
  BY ActionsAre, RevisionSince
<1>2. s.available \in Nat /\ s.available < c
  BY <1>1, SeenAt DEF NewestRevisions
<1>3. ASSUME NEW g \in NewestRevisions(F, c - 1), g.type = s.type, g.date = s.date
      PROVE  g.available <= s.available
  <2>1. CASE g \in NewestRevisions(F, c)
    BY <1>3, <2>1, ActionsAre
  <2>2. CASE \E h \in NewestRevisions(F, c) : h.available = c /\ h.type = g.type /\ h.date = g.date
    BY <1>2, <1>3, <2>2, ActionsAre
  <2> QED
    BY <2>1, <2>2, RecordSince
<1> QED
  BY <1>1, <1>3, ActionsAre

LEMMA ActionReplaced ==
    ASSUME NEW F, Gathered(F), NEW c \in Nat \ {0}, StillAbout(F, c), NEW s \in ActionsAsOf(F, c - 1)
    PROVE  \/ s \in ActionsAsOf(F, c)
           \/ \E t \in ActionsAsOf(F, c) : t.available = c /\ t.type = s.type /\ t.date = s.date
<1> DEFINE S == {t \in NewestRevisions(F, c) : t.type = s.type /\ t.date = s.date}
<1>1. s \in NewestRevisions(F, c - 1)
  BY ActionsAre
<1>2. S # {} /\ (s \in NewestRevisions(F, c) \/ \E h \in S : h.available = c)
  BY <1>1, RecordSince
<1>3. S \in SUBSET Visible(F, "action", c) /\ AreFacts(F)
  BY SeenAt DEF NewestRevisions
<1>4. PICK t \in S : \A f \in S : f.available <= t.available
  BY <1>2, <1>3, NewestOf
<1>5. t \in ActionsAsOf(F, c)
  BY <1>4, ActionsAre
<1>6. CASE t.available = c
  BY <1>4, <1>5, <1>6
<1>7. CASE t.available # c
  <2>1. \A f \in S : f.available \in Nat /\ f.available <= c
    BY <1>3, SeenAt
  <2>2. s \in NewestRevisions(F, c)
    BY <1>2, <1>4, <1>7, <2>1
  <2>3. t \in NewestRevisions(F, c - 1)
    BY <1>4, <1>7, RevisionSince
  <2>4. t.available <= s.available /\ s.available \in Nat
    BY <1>4, <2>1, <2>2, <2>3, ActionsAre
  <2>5. \A f \in S : f.available <= s.available
    BY <1>4, <2>1, <2>4
  <2> QED
    BY <2>2, <2>5, ActionsAre
<1> QED
  BY <1>6, <1>7

-----------------------------------------------------------------------------
(* Windows of adjusted bars.                                               *)

\* The splits after a day, up to another.
SplitsWithin(F, c, day, last) ==
    {s \in ActionsAsOf(F, c) : s.type = "split" /\ day < s.date /\ s.date <= last}

OnBasis(F, c, b) == Rebased(b, {s \in Adjustments(F, c) : b.date < s.date})

AdjustedBars(F, c) == {OnBasis(F, c, b) : b \in SeriesAsOf(F, "bar", c)}

LEMMA SplitsSince ==
    ASSUME NEW F, Gathered(F), NEW c \in Nat \ {0}, StillAbout(F, c), NEW day, NEW last,
           \A s \in SplitsWithin(F, c, day, last) : s.available # c
    PROVE  SplitsWithin(F, c, day, last) = SplitsWithin(F, c - 1, day, last)
<1>1. ASSUME NEW s \in SplitsWithin(F, c, day, last)
      PROVE  s \in SplitsWithin(F, c - 1, day, last)
  BY ActionSince DEF SplitsWithin
<1>2. ASSUME NEW s \in SplitsWithin(F, c - 1, day, last)
      PROVE  s \in SplitsWithin(F, c, day, last)
  <2>1. s \in ActionsAsOf(F, c - 1) /\ s.type = "split" /\ day < s.date /\ s.date <= last
    BY DEF SplitsWithin
  <2>2. CASE s \in ActionsAsOf(F, c)
    BY <2>1, <2>2 DEF SplitsWithin
  <2>3. CASE \E t \in ActionsAsOf(F, c) : t.available = c /\ t.type = s.type /\ t.date = s.date
    BY <2>1, <2>3 DEF SplitsWithin
  <2> QED
    BY <2>1, <2>2, <2>3, ActionReplaced
<1> QED
  BY <1>1, <1>2

\* The splits that a bar is adjusted for.
LEMMA AppliedAre ==
    ASSUME NEW F, NEW c, NEW b \in SeriesAsOf(F, "bar", c), Gathered(F), NEW last \in SeriesAsOf(F, "bar", c),
           \A a \in SeriesAsOf(F, "bar", c) : a.date <= last.date
    PROVE  {s \in Adjustments(F, c) : b.date < s.date} = SplitsWithin(F, c, b.date, last.date)
<1> DEFINE D == Days(SeriesAsOf(F, "bar", c))
<1>1. D \in SUBSET Nat /\ b.date \in D /\ last.date \in D /\ \A d \in D : d <= last.date
  BY DEF Days, SeriesAsOf, Visible, OfKind, Gathered
<1>2. /\ Max(D) \in D /\ \A d \in D : d <= Max(D)
  BY <1>1, GreatestUpTo
<1>3. Max(D) = last.date
  BY <1>1, <1>2
<1>4. Min(D) \in D /\ \A d \in D : Min(D) <= d
  BY <1>1, MinOf
<1>5. \A s \in ActionsAsOf(F, c) : s.date \in Nat
  BY DEF ActionsAsOf, Visible, OfKind, Gathered
<1>6. Adjustments(F, c) = {s \in ActionsAsOf(F, c) : s.type = "split" /\ Min(D) < s.date /\ s.date <= Max(D)}
  BY DEF Adjustments
<1> HIDE DEF D
<1>7. PICK low : low = Min(D)
  OBVIOUS
<1>8. low \in Nat /\ b.date \in Nat /\ low <= b.date
  BY <1>1, <1>4, <1>7
<1>9. ASSUME NEW s \in ActionsAsOf(F, c)
      PROVE  (Min(D) < s.date /\ b.date < s.date) <=> b.date < s.date
  BY <1>5, <1>7, <1>8
<1> QED
  BY <1>3, <1>6, <1>9 DEF SplitsWithin

LEMMA OnBasisIs ==
    ASSUME NEW F, Gathered(F), NEW c \in Nat \ {0}, NEW b \in SeriesAsOf(F, "bar", c)
    PROVE  /\ OnBasis(F, c, b).date = b.date /\ OnBasis(F, c, b).raw = b
           /\ OnBasis(F, c, b).available \in Nat /\ OnBasis(F, c, b).available <= c
           /\ b.available \in Nat /\ b.available <= OnBasis(F, c, b).available
           /\ \A s \in Adjustments(F, c) : b.date < s.date => s.available <= OnBasis(F, c, b).available
<1> DEFINE K == {s \in Adjustments(F, c) : b.date < s.date}
           A == {b.available} \cup {s.available : s \in K}
<1>1. OnBasis(F, c, b).date = b.date /\ OnBasis(F, c, b).raw = b /\ OnBasis(F, c, b).available = Max(A)
  BY DEF OnBasis, Rebased
<1>2. b.available \in Nat /\ b.available <= c
  BY SeenAt DEF SeriesAsOf
<1>3. \A s \in K : s.available \in Nat /\ s.available <= c
  BY SeenAt DEF Adjustments, ActionsAsOf
<1>4. A \in SUBSET Nat /\ A # {} /\ \A x \in A : x <= c
  BY <1>2, <1>3
<1>5. Max(A) \in A /\ \A x \in A : x <= Max(A)
  BY <1>4, GreatestUpTo
<1> QED
  BY <1>1, <1>2, <1>4, <1>5

\* An adjusted bar that has been known since before c was adjusted alike the day before, as
\* long as the last bar is the same.
LEMMA BasisSince ==
    ASSUME NEW F, Gathered(F), NEW c \in Nat \ {0}, StillAbout(F, c),
           NEW b \in SeriesAsOf(F, "bar", c), b \in SeriesAsOf(F, "bar", c - 1),
           NEW last \in SeriesAsOf(F, "bar", c), last \in SeriesAsOf(F, "bar", c - 1),
           \A a \in SeriesAsOf(F, "bar", c) : a.date <= last.date,
           \A a \in SeriesAsOf(F, "bar", c - 1) : a.date <= last.date,
           OnBasis(F, c, b).available # c
    PROVE  OnBasis(F, c, b) = OnBasis(F, c - 1, b)
<1>1. /\ {s \in Adjustments(F, c) : b.date < s.date} = SplitsWithin(F, c, b.date, last.date)
      /\ {s \in Adjustments(F, c - 1) : b.date < s.date} = SplitsWithin(F, c - 1, b.date, last.date)
  BY AppliedAre
<1>2. ASSUME NEW s \in SplitsWithin(F, c, b.date, last.date)
      PROVE  s.available # c
  <2>1. s \in Adjustments(F, c) /\ b.date < s.date
    BY <1>1
  <2>2. s.available <= OnBasis(F, c, b).available /\ OnBasis(F, c, b).available <= c
        /\ OnBasis(F, c, b).available \in Nat
    BY <2>1, OnBasisIs
  <2> QED
    BY <2>2
<1>3. SplitsWithin(F, c, b.date, last.date) = SplitsWithin(F, c - 1, b.date, last.date)
  BY <1>2, SplitsSince
<1> QED
  BY <1>1, <1>3 DEF OnBasis

LEMMA AdjustedAre ==
    ASSUME NEW F, Gathered(F), NEW c, NEW S, S = AdjustedBars(F, c)
    PROVE  /\ Dated(S) /\ InOrderOfDays(AdjustedSeries(F, c), Cardinality(S), S)
           /\ \A x \in S : /\ x.raw \in SeriesAsOf(F, "bar", c) /\ x = OnBasis(F, c, x.raw)
                           /\ x.date = x.raw.date
           /\ \A b \in SeriesAsOf(F, "bar", c) : OnBasis(F, c, b) \in S /\ OnBasis(F, c, b).date = b.date
           /\ Days(S) = Days(SeriesAsOf(F, "bar", c))
<1> DEFINE R == SeriesAsOf(F, "bar", c)
           f == [b \in R |-> OnBasis(F, c, b)]
<1>1. \A b : OnBasis(F, c, b).date = b.date /\ OnBasis(F, c, b).raw = b
  BY DEF OnBasis, Rebased
<1>2. \A x \in S : \E b \in R : x = OnBasis(F, c, b)
  BY DEF AdjustedBars
<1>3. \A b \in R : OnBasis(F, c, b) \in S /\ f[b] = OnBasis(F, c, b)
  BY DEF AdjustedBars
<1>4. Dated(R)
  BY BarsDated
<1>5. f \in Surjection(R, S)
  <2>1. f \in [R -> S]
    BY <1>3
  <2> HIDE DEF f
  <2> QED
    BY <1>2, <1>3, <2>1 DEF Surjection
<1> HIDE DEF f, R
<1>6. IsFiniteSet(S)
  BY <1>4, <1>5, FS_Surjection DEF Dated
<1>7. Dated(S)
  BY <1>1, <1>2, <1>4, <1>6 DEF Dated
<1>8. AdjustedSeries(F, c) = ByDate(S)
  BY DEF AdjustedSeries, AdjustedBars, OnBasis
<1>9. InOrderOfDays(AdjustedSeries(F, c), Cardinality(S), S)
  BY <1>7, <1>8, ByDateIs
<1>10. \A d : d \in Days(S) <=> d \in Days(R)
  BY <1>1, <1>2, <1>3 DEF Days
<1> QED
  BY <1>1, <1>2, <1>3, <1>7, <1>9, <1>10 DEF R

\* A window of bars that were all known before c was a window of the same bars the day
\* before, and those that were adjusted before c were adjusted alike.
LEMMA TailSince ==
    ASSUME NEW F, Gathered(F), NEW c \in Nat \ {0}, StillAbout(F, c), NEW n \in Nat \ {0},
           NEW W \in Window(AdjustedSeries(F, c), n), \A i \in 1..n : W[i].raw.available # c
    PROVE  \E X \in Window(AdjustedSeries(F, c - 1), n) :
              /\ DOMAIN W = 1..n /\ DOMAIN X = 1..n /\ Len(W) = n /\ Len(X) = n
              /\ X \in [1..n -> AdjustedBars(F, c - 1)] /\ W \in [1..n -> AdjustedBars(F, c)]
              /\ \A i \in 1..n : /\ X[i].raw = W[i].raw /\ X[i].date = W[i].date
                                 /\ W[i].available # c => X[i] = W[i]
<1>1. PICK S, Z, R, P : /\ S = AdjustedBars(F, c) /\ Z = AdjustedBars(F, c - 1)
                        /\ R = SeriesAsOf(F, "bar", c) /\ P = SeriesAsOf(F, "bar", c - 1)
  OBVIOUS
<1>2. PICK B, A, m, k : /\ B = AdjustedSeries(F, c) /\ A = AdjustedSeries(F, c - 1)
                        /\ m = Cardinality(S) /\ k = Cardinality(Z)
  OBVIOUS
<1>3. /\ Dated(S) /\ InOrderOfDays(B, m, S) /\ Days(S) = Days(R)
      /\ \A x \in S : x.raw \in R /\ x = OnBasis(F, c, x.raw) /\ x.date = x.raw.date
      /\ \A b \in R : OnBasis(F, c, b) \in S /\ OnBasis(F, c, b).date = b.date
  BY <1>1, <1>2, AdjustedAre
<1>4. /\ Dated(Z) /\ InOrderOfDays(A, k, Z) /\ Days(Z) = Days(P)
      /\ \A x \in Z : x.raw \in P /\ x = OnBasis(F, c - 1, x.raw) /\ x.date = x.raw.date
      /\ \A b \in P : OnBasis(F, c - 1, b) \in Z
  BY <1>1, <1>2, AdjustedAre
<1>5. Dated(R) /\ Dated(P)
  BY <1>1, BarsDated
<1>6. /\ \A b \in R : b.available # c => b \in P
      /\ \A b \in P : \E a \in R : a.date = b.date
  BY <1>1, SeriesSince
<1>7. /\ IsTail(W, B, m, n) /\ W \in [1..n -> S]
      /\ \A b \in S : b.date >= W[1].date => \E i \in 1..n : W[i] = b
      /\ \A i \in 1..n : W[1].date <= W[i].date /\ W[i].date <= W[n].date
      /\ \A b \in S : b.date <= W[n].date
  BY <1>2, <1>3, TailHolds
<1>8. \A i \in 1..n : W[i] \in S /\ W[i].raw \in R /\ W[i].raw \in P
  BY <1>3, <1>6, <1>7
<1>9. ASSUME NEW d \in Nat, d >= W[1].date
      PROVE  d \in Days(S) <=> d \in Days(Z)
  <2>1. ASSUME d \in Days(S)
        PROVE  d \in Days(Z)
    <3>1. PICK b \in S : b.date = d
      BY <2>1 DEF Days
    <3>2. b.raw \in P /\ b.raw.date = d
      BY <1>3, <1>7, <1>8, <1>9, <3>1
    <3> QED
      BY <1>4, <3>2 DEF Days
  <2>2. ASSUME d \in Days(Z)
        PROVE  d \in Days(S)
    BY <1>3, <1>4, <1>6, <2>2 DEF Days
  <2> QED
    BY <2>1, <2>2
<1>10. PICK X \in Window(A, n) : /\ X \in [1..n -> Z] /\ Len(X) = n
                                 /\ \A i \in 1..n : X[i].date = W[i].date
  BY <1>2, <1>3, <1>4, <1>9, TailAlike
<1>11. ASSUME NEW i \in 1..n
       PROVE  X[i].raw = W[i].raw
  <2>1. X[i] \in Z /\ X[i].raw \in P /\ X[i].raw.date = W[i].raw.date /\ W[i].raw \in P
    BY <1>3, <1>4, <1>8, <1>10
  <2> QED
    BY <1>5, <2>1 DEF Dated
<1>12. PICK last : last = W[n].raw
  OBVIOUS
<1>13. /\ last \in R /\ last \in P /\ last.date = W[n].date
       /\ \A a \in R : a.date <= last.date
       /\ \A a \in P : a.date <= last.date
  <2>1. last \in R /\ last \in P /\ last.date = W[n].date
    BY <1>3, <1>8, <1>12
  <2>2. \A a \in R : a.date <= last.date
    <3> TAKE a \in R
    <3>1. OnBasis(F, c, a) \in S /\ OnBasis(F, c, a).date = a.date
      BY <1>3
    <3> QED
      BY <1>7, <2>1, <3>1
  <2> QED
    BY <1>6, <2>1, <2>2
<1>14. ASSUME NEW i \in 1..n, W[i].available # c
       PROVE  X[i] = W[i]
  <2>1. W[i] = OnBasis(F, c, W[i].raw) /\ X[i] = OnBasis(F, c - 1, W[i].raw)
    BY <1>3, <1>4, <1>8, <1>10, <1>11
  <2>2. W[i].raw \in R /\ W[i].raw \in P
    BY <1>8
  <2>3. OnBasis(F, c, W[i].raw) = OnBasis(F, c - 1, W[i].raw)
    BY <1>1, <1>13, <1>14, <2>1, <2>2, BasisSince
  <2> QED
    BY <2>1, <2>3
<1>15. DOMAIN W = 1..n /\ DOMAIN X = 1..n /\ Len(W) = n
  BY <1>7, <1>10 DEF IsTail
<1> QED
  BY <1>1, <1>2, <1>7, <1>10, <1>11, <1>14, <1>15

-----------------------------------------------------------------------------
(* Market structure, at a cutoff and the day before.                       *)

\* Every member of `now` has been one since it became available.
Since(before, now, c) ==
    /\ Foreseen(before, now, c)
    /\ \A x \in now : x.available <= c

LEMMA SinceIs ==
    ASSUME NEW A, NEW B, NEW c \in Nat,
           \A x \in B : x.available \in Nat /\ x.available <= c /\ (x.available # c => x \in A)
    PROVE  Since(A, B, c)
  BY DEF Since, Foreseen

\* A window of n bars, each of which is known.
IsSeen(W, n, c) ==
    /\ DOMAIN W = 1..n /\ Len(W) = n
    /\ \A i \in 1..n : W[i].available \in Nat /\ W[i].available <= c

LEMMA AvailableFromIs ==
    ASSUME NEW W, NEW n \in Nat \ {0}, NEW c \in Nat, IsSeen(W, n, c)
    PROVE  /\ AvailableFrom(W) \in Nat /\ AvailableFrom(W) <= c
           /\ AvailableFrom(W) # c => \A i \in 1..n : W[i].available # c
<1> DEFINE S == {W[i].available : i \in DOMAIN W}
<1>1. S \in SUBSET Nat /\ \A x \in S : x <= c
  BY DEF IsSeen
<1>2. W[1].available \in S
  BY DEF IsSeen
<1>3. Max(S) \in S /\ \A x \in S : x <= Max(S)
  BY <1>1, <1>2, GreatestUpTo
<1>4. AvailableFrom(W) = Max(S)
  BY DEF AvailableFrom
<1>5. PICK top : top = Max(S)
  OBVIOUS
<1>6. top \in Nat /\ top <= c
  BY <1>1, <1>3, <1>5
<1>7. ASSUME NEW i \in 1..n
      PROVE  W[i].available \in Nat /\ W[i].available <= top
  <2>1. W[i].available \in S
    BY DEF IsSeen
  <2> QED
    BY <1>1, <1>3, <1>5, <2>1
<1> QED
  BY <1>4, <1>5, <1>6, <1>7

LEMMA BarsSeen ==
    ASSUME NEW F, Gathered(F), NEW c \in Nat \ {0}, NEW n \in Nat \ {0},
           NEW W \in Window(AdjustedSeries(F, c), n)
    PROVE  /\ IsSeen(W, n, c) /\ W \in [1..n -> AdjustedBars(F, c)]
           /\ \A i \in 1..n : /\ W[i].raw \in SeriesAsOf(F, "bar", c) /\ W[i].date = W[i].raw.date
                              /\ W[i].raw.available \in Nat /\ W[i].raw.available <= W[i].available
<1>1. PICK S, B, m : S = AdjustedBars(F, c) /\ B = AdjustedSeries(F, c) /\ m = Cardinality(S)
  OBVIOUS
<1>2. /\ Dated(S) /\ InOrderOfDays(B, m, S)
      /\ \A x \in S : x.raw \in SeriesAsOf(F, "bar", c) /\ x = OnBasis(F, c, x.raw) /\ x.date = x.raw.date
  BY <1>1, AdjustedAre
<1>3. IsTail(W, B, m, n) /\ W \in [1..n -> S]
  BY <1>1, <1>2, TailHolds
<1>4. ASSUME NEW i \in 1..n
      PROVE  /\ W[i].raw \in SeriesAsOf(F, "bar", c) /\ W[i].date = W[i].raw.date
             /\ W[i].available \in Nat /\ W[i].available <= c
             /\ W[i].raw.available \in Nat /\ W[i].raw.available <= W[i].available
  <2>1. W[i].raw \in SeriesAsOf(F, "bar", c) /\ W[i] = OnBasis(F, c, W[i].raw) /\ W[i].date = W[i].raw.date
    BY <1>2, <1>3
  <2>2. PICK b \in SeriesAsOf(F, "bar", c) : b = W[i].raw
    BY <2>1
  <2>3. /\ OnBasis(F, c, b).available \in Nat /\ OnBasis(F, c, b).available <= c
        /\ b.available \in Nat /\ b.available <= OnBasis(F, c, b).available
    BY OnBasisIs
  <2> QED
    BY <2>1, <2>2, <2>3
<1> QED
  BY <1>1, <1>3, <1>4 DEF IsSeen, IsTail

LEMMA WindowSince ==
    ASSUME NEW F, Gathered(F), NEW c \in Nat \ {0}, StillAbout(F, c), NEW n \in Nat \ {0},
           NEW W \in Window(AdjustedSeries(F, c), n), \A i \in 1..n : W[i].available # c
    PROVE  W \in Window(AdjustedSeries(F, c - 1), n)
<1>1. /\ IsSeen(W, n, c) /\ W \in [1..n -> AdjustedBars(F, c)]
      /\ \A i \in 1..n : W[i].raw.available \in Nat /\ W[i].raw.available <= W[i].available
  BY BarsSeen
<1>2. \A i \in 1..n : W[i].raw.available # c
  BY <1>1 DEF IsSeen
<1>3. PICK X \in Window(AdjustedSeries(F, c - 1), n) :
         X \in [1..n -> AdjustedBars(F, c - 1)] /\ \A i \in 1..n : X[i] = W[i]
  BY <1>2, TailSince
<1>4. X = W
  BY <1>1, <1>3
<1> QED
  BY <1>3, <1>4

\* A window of bars that were all known before c has been one of the same bars since.
LEMMA RawSince ==
    ASSUME NEW F, Gathered(F), NEW c \in Nat \ {0}, StillAbout(F, c), NEW n \in Nat \ {0},
           NEW W \in Window(AdjustedSeries(F, c), n)
    PROVE  /\ RawAvailable(W) \in Nat /\ RawAvailable(W) <= c
           /\ RawAvailable(W) # c =>
                 \E X \in Window(AdjustedSeries(F, c - 1), n) :
                    DOMAIN X = DOMAIN W /\ \A i \in DOMAIN W : X[i].raw = W[i].raw
<1> DEFINE S == {W[i].raw.available : i \in DOMAIN W}
<1>1. /\ DOMAIN W = 1..n
      /\ \A i \in 1..n : /\ W[i].raw.available \in Nat /\ W[i].raw.available <= W[i].available
                         /\ W[i].available \in Nat /\ W[i].available <= c
  BY BarsSeen DEF IsSeen
<1>2. S \in SUBSET Nat /\ \A x \in S : x <= c
  BY <1>1
<1>3. W[1].raw.available \in S
  BY <1>1
<1>4. Max(S) \in S /\ \A x \in S : x <= Max(S)
  BY <1>2, <1>3, GreatestUpTo
<1>5. PICK top \in Nat : top = Max(S) /\ RawAvailable(W) = top /\ top <= c
  BY <1>2, <1>4 DEF RawAvailable
<1>6. ASSUME RawAvailable(W) # c
      PROVE  \E X \in Window(AdjustedSeries(F, c - 1), n) :
                DOMAIN X = DOMAIN W /\ \A i \in DOMAIN W : X[i].raw = W[i].raw
  <2>1. \A i \in 1..n : W[i].raw.available \in S
    BY <1>1
  <2>2. \A i \in 1..n : W[i].raw.available \in Nat /\ W[i].raw.available <= top
    BY <1>1, <1>4, <1>5, <2>1
  <2>4. \A i \in 1..n : W[i].raw.available # c
    BY <1>5, <1>6, <2>2
  <2>3. PICK X \in Window(AdjustedSeries(F, c - 1), n) :
           DOMAIN X = 1..n /\ \A i \in 1..n : X[i].raw = W[i].raw
    BY <2>4, TailSince
  <2> QED
    BY <1>1, <2>3
<1> QED
  BY <1>5, <1>6

LEMMA WindowsAre ==
    ASSUME EvidenceAssumption
    PROVE  /\ ShortWindow \in Nat \ {0} /\ MediumWindow \in Nat \ {0} /\ ShortWindow < MediumWindow
           /\ ShortWindow + 1 \in Nat \ {0} /\ MediumWindow + 1 \in Nat \ {0}
<1>1. ShortWindow \in Nat \ {0} /\ MediumWindow \in Nat /\ ShortWindow < MediumWindow
  BY DEF EvidenceAssumption
<1> QED
  BY <1>1

LEMMA PricedSince ==
    ASSUME NEW F, Gathered(F), NEW c \in Nat \ {0}, StillAbout(F, c), NEW n \in Nat \ {0},
           NEW W \in Priced(AdjustedSeries(F, c), n)
    PROVE  /\ AvailableFrom(W) \in Nat /\ AvailableFrom(W) <= c
           /\ AvailableFrom(W) # c => W \in Priced(AdjustedSeries(F, c - 1), n)
<1>1. W \in Window(AdjustedSeries(F, c), n) /\ FieldSum(W, "close") > 0
  BY DEF Priced
<1>2. IsSeen(W, n, c)
  BY <1>1, BarsSeen
<1>3. /\ AvailableFrom(W) \in Nat /\ AvailableFrom(W) <= c
      /\ AvailableFrom(W) # c => \A i \in 1..n : W[i].available # c
  BY <1>2, AvailableFromIs
<1>4. AvailableFrom(W) # c => W \in Window(AdjustedSeries(F, c - 1), n)
  BY <1>1, <1>3, WindowSince
<1> QED
  BY <1>1, <1>3, <1>4 DEF Priced

LEMMA CloseSince ==
    ASSUME NEW F, Gathered(F), NEW c \in Nat \ {0}, StillAbout(F, c), EvidenceAssumption,
           NEW A, A = AdjustedSeries(F, c - 1), NEW B, B = AdjustedSeries(F, c)
    PROVE  Since(CloseToAverage(A), CloseToAverage(B), c)
<1>1. ASSUME NEW x \in CloseToAverage(B)
      PROVE  /\ x.available \in Nat /\ x.available <= c
             /\ x.available # c => x \in CloseToAverage(A)
  <2>1. PICK W \in Priced(B, ShortWindow) :
           x = [value |-> <<W[ShortWindow].close * ShortWindow - FieldSum(W, "close"), FieldSum(W, "close")>>,
                available |-> AvailableFrom(W)]
    BY DEF CloseToAverage
  <2>2. /\ AvailableFrom(W) \in Nat /\ AvailableFrom(W) <= c
        /\ AvailableFrom(W) # c => W \in Priced(A, ShortWindow)
    BY WindowsAre, PricedSince
  <2>3. W \in Priced(A, ShortWindow) => x \in CloseToAverage(A)
    BY <2>1 DEF CloseToAverage
  <2> QED
    BY <2>1, <2>2, <2>3
<1> QED
  BY <1>1, SinceIs

LEMMA AveragesSince ==
    ASSUME NEW F, Gathered(F), NEW c \in Nat \ {0}, StillAbout(F, c), EvidenceAssumption,
           NEW A, A = AdjustedSeries(F, c - 1), NEW B, B = AdjustedSeries(F, c)
    PROVE  Since(ShortToMediumAverage(A), ShortToMediumAverage(B), c)
<1> DEFINE Of(W) ==
             LET short == SubSeq(W, MediumWindow - ShortWindow + 1, MediumWindow)
                 medium == FieldSum(W, "close") * ShortWindow
             IN [value |-> <<FieldSum(short, "close") * MediumWindow - medium, medium>>,
                 available |-> AvailableFrom(W)]
<1>1. \A D : ShortToMediumAverage(D) = {Of(W) : W \in Priced(D, MediumWindow)}
  BY Zenon DEF ShortToMediumAverage
<1>2. \A W : Of(W).available = AvailableFrom(W)
  OBVIOUS
<1> HIDE DEF Of
<1>3. ASSUME NEW x \in ShortToMediumAverage(B)
      PROVE  /\ x.available \in Nat /\ x.available <= c
             /\ x.available # c => x \in ShortToMediumAverage(A)
  <2>1. PICK W \in Priced(B, MediumWindow) : x = Of(W)
    BY <1>1
  <2>2. /\ AvailableFrom(W) \in Nat /\ AvailableFrom(W) <= c
        /\ AvailableFrom(W) # c => W \in Priced(A, MediumWindow)
    BY WindowsAre, PricedSince
  <2> QED
    BY <1>1, <1>2, <2>1, <2>2
<1> QED
  BY <1>3, SinceIs

LEMMA ConsolidationSince ==
    ASSUME NEW F, Gathered(F), NEW c \in Nat \ {0}, StillAbout(F, c), EvidenceAssumption,
           NEW A, A = AdjustedSeries(F, c - 1), NEW B, B = AdjustedSeries(F, c)
    PROVE  Since(ConsolidationRange(A), ConsolidationRange(B), c)
<1> DEFINE Of(W) ==
             LET highest == Max({W[i].high : i \in DOMAIN W})
                 lowest == Min({W[i].low : i \in DOMAIN W})
             IN [value |-> <<(highest - lowest) * ShortWindow, FieldSum(W, "close")>>,
                 available |-> AvailableFrom(W)]
<1>1. \A D : ConsolidationRange(D) = {Of(W) : W \in Priced(D, ShortWindow)}
  BY Zenon DEF ConsolidationRange
<1>2. \A W : Of(W).available = AvailableFrom(W)
  OBVIOUS
<1> HIDE DEF Of
<1>3. ASSUME NEW x \in ConsolidationRange(B)
      PROVE  /\ x.available \in Nat /\ x.available <= c
             /\ x.available # c => x \in ConsolidationRange(A)
  <2>1. PICK W \in Priced(B, ShortWindow) : x = Of(W)
    BY <1>1
  <2>2. /\ AvailableFrom(W) \in Nat /\ AvailableFrom(W) <= c
        /\ AvailableFrom(W) # c => W \in Priced(A, ShortWindow)
    BY WindowsAre, PricedSince
  <2> QED
    BY <1>1, <1>2, <2>1, <2>2
<1> QED
  BY <1>3, SinceIs

LEMMA TradedAlike ==
    ASSUME NEW W, NEW X, DOMAIN X = DOMAIN W, \A i \in DOMAIN W : X[i].raw = W[i].raw
    PROVE  Traded(X) = Traded(W) /\ RawAvailable(X) = RawAvailable(W)
<1>1. [i \in DOMAIN X |-> X[i].raw.close * X[i].raw.volume]
      = [i \in DOMAIN W |-> W[i].raw.close * W[i].raw.volume]
  OBVIOUS
<1>2. {X[i].raw.available : i \in DOMAIN X} = {W[i].raw.available : i \in DOMAIN W}
  OBVIOUS
<1> QED
  BY <1>1, <1>2, Zenon DEF Traded, RawAvailable

LEMMA ActivitySince ==
    ASSUME NEW F, Gathered(F), NEW c \in Nat \ {0}, StillAbout(F, c), EvidenceAssumption,
           NEW A, A = AdjustedSeries(F, c - 1), NEW B, B = AdjustedSeries(F, c)
    PROVE  Since(ActivityLevel(A), ActivityLevel(B), c)
<1>1. ASSUME NEW x \in ActivityLevel(B)
      PROVE  /\ x.available \in Nat /\ x.available <= c
             /\ x.available # c => x \in ActivityLevel(A)
  <2>1. PICK W \in Window(B, ShortWindow) :
           x = [value |-> <<Traded(W), ShortWindow>>, available |-> RawAvailable(W)]
    BY DEF ActivityLevel
  <2>2. /\ RawAvailable(W) \in Nat /\ RawAvailable(W) <= c
        /\ RawAvailable(W) # c =>
              \E X \in Window(A, ShortWindow) :
                 DOMAIN X = DOMAIN W /\ \A i \in DOMAIN W : X[i].raw = W[i].raw
    BY WindowsAre, RawSince
  <2>3. ASSUME RawAvailable(W) # c
        PROVE  x \in ActivityLevel(A)
    <3>1. PICK X \in Window(A, ShortWindow) : Traded(X) = Traded(W) /\ RawAvailable(X) = RawAvailable(W)
      BY <2>2, <2>3, TradedAlike
    <3> QED
      BY <2>1, <3>1 DEF ActivityLevel
  <2> QED
    BY <2>1, <2>2, <2>3
<1> QED
  BY <1>1, SinceIs

LEMMA ActivityRatioSince ==
    ASSUME NEW F, Gathered(F), NEW c \in Nat \ {0}, StillAbout(F, c), EvidenceAssumption,
           NEW A, A = AdjustedSeries(F, c - 1), NEW B, B = AdjustedSeries(F, c)
    PROVE  Since(ActivityRatio(A), ActivityRatio(B), c)
<1> DEFINE Recent(W) == SubSeq(W, MediumWindow - ShortWindow + 1, MediumWindow)
           Of(W) == [value |-> <<Traded(Recent(W)) * MediumWindow, Traded(W) * ShortWindow>>,
                     available |-> RawAvailable(W)]
<1>1. \A D : ActivityRatio(D) = {Of(W) : W \in {V \in Window(D, MediumWindow) : Traded(V) # 0}}
  BY Zenon DEF ActivityRatio
<1>2. \A W : Of(W).available = RawAvailable(W)
  OBVIOUS
<1>3. \A W, X : Traded(X) = Traded(W) /\ Traded(Recent(X)) = Traded(Recent(W)) /\ RawAvailable(X) = RawAvailable(W)
                   => Of(X) = Of(W)
  OBVIOUS
<1>4. ASSUME NEW W, NEW X, NEW S, NEW Z, W \in [1..MediumWindow -> S], X \in [1..MediumWindow -> Z],
             \A i \in 1..MediumWindow : X[i].raw = W[i].raw
      PROVE  Traded(Recent(X)) = Traded(Recent(W))
  <2>1. ShortWindow \in 0..MediumWindow /\ MediumWindow \in Nat
    BY WindowsAre
  <2>2. Len(W) = MediumWindow /\ Len(X) = MediumWindow
    BY <1>4, <2>1
  <2>3. IsTail(Recent(W), W, MediumWindow, ShortWindow) /\ IsTail(Recent(X), X, MediumWindow, ShortWindow)
    BY <1>4, <2>1, <2>2, TailIs
  <2>4. DOMAIN Recent(X) = DOMAIN Recent(W) /\ \A i \in DOMAIN Recent(W) : Recent(X)[i].raw = Recent(W)[i].raw
    BY <1>4, <2>3 DEF IsTail
  <2> HIDE DEF Recent
  <2> QED
    BY <2>4, TradedAlike
<1> HIDE DEF Of, Recent
<1>5. ASSUME NEW x \in ActivityRatio(B)
      PROVE  /\ x.available \in Nat /\ x.available <= c
             /\ x.available # c => x \in ActivityRatio(A)
  <2>1. PICK W \in Window(B, MediumWindow) : Traded(W) # 0 /\ x = Of(W)
    BY <1>1
  <2>2. /\ RawAvailable(W) \in Nat /\ RawAvailable(W) <= c
        /\ RawAvailable(W) # c =>
              \E X \in Window(A, MediumWindow) :
                 DOMAIN X = DOMAIN W /\ \A i \in DOMAIN W : X[i].raw = W[i].raw
    BY WindowsAre, RawSince
  <2>3. ASSUME RawAvailable(W) # c
        PROVE  x \in ActivityRatio(A)
    <3>1. PICK X \in Window(A, MediumWindow) : DOMAIN X = DOMAIN W /\ \A i \in DOMAIN W : X[i].raw = W[i].raw
      BY <2>2, <2>3
    <3>3. W \in [1..MediumWindow -> AdjustedBars(F, c)]
      BY WindowsAre, BarsSeen
    <3>4. X \in [1..MediumWindow -> AdjustedBars(F, c - 1)]
      <4>1. PICK Z, k : Z = AdjustedBars(F, c - 1) /\ k = Cardinality(Z)
        OBVIOUS
      <4>2. InOrderOfDays(A, k, Z)
        BY <4>1, AdjustedAre
      <4> QED
        BY <3>1, <4>1, <4>2, WindowsAre, WindowsTail DEF InOrderOfDays
    <3>5. Traded(Recent(X)) = Traded(Recent(W))
      BY <1>4, <3>1, <3>3, <3>4
    <3>6. Traded(X) = Traded(W) /\ RawAvailable(X) = RawAvailable(W)
      BY <3>1, TradedAlike
    <3>7. Of(X) = Of(W)
      BY <1>3, <3>5, <3>6
    <3> QED
      BY <1>1, <2>1, <3>1, <3>6, <3>7
  <2> QED
    BY <1>2, <2>1, <2>2, <2>3
<1> QED
  BY <1>5, SinceIs

LEMMA BarDeliverySince ==
    ASSUME NEW F, Gathered(F), NEW c \in Nat \ {0}, StillAbout(F, c), EvidenceAssumption,
           NEW A, A = AdjustedSeries(F, c - 1), NEW B, B = AdjustedSeries(F, c)
    PROVE  Since(BarDelivery(A), BarDelivery(B), c)
<1> DEFINE Shares(W) == [i \in DOMAIN W |-> W[i].raw.share]
           Of(W) == [value |-> <<SumFunction(Shares(W)), ShortWindow>>, available |-> RawAvailable(W)]
           Told(W) == \A i \in DOMAIN W : W[i].raw.share # NoShare
<1>1. \A D : BarDelivery(D) = {Of(W) : W \in {V \in Window(D, ShortWindow) : Told(V)}}
  BY Zenon DEF BarDelivery
<1>2. \A W : Of(W).available = RawAvailable(W)
  OBVIOUS
<1>3. ASSUME NEW W, NEW X, DOMAIN X = DOMAIN W, \A i \in DOMAIN W : X[i].raw = W[i].raw, Told(W)
      PROVE  Of(X) = Of(W) /\ Told(X)
  <2>1. Shares(X) = Shares(W) /\ Told(X)
    BY <1>3
  <2>2. RawAvailable(X) = RawAvailable(W)
    BY <1>3, TradedAlike
  <2> HIDE DEF Shares
  <2> QED
    BY <2>1, <2>2
<1> HIDE DEF Of, Told
<1>4. ASSUME NEW x \in BarDelivery(B)
      PROVE  /\ x.available \in Nat /\ x.available <= c
             /\ x.available # c => x \in BarDelivery(A)
  <2>1. PICK W \in Window(B, ShortWindow) : Told(W) /\ x = Of(W)
    BY <1>1
  <2>2. /\ RawAvailable(W) \in Nat /\ RawAvailable(W) <= c
        /\ RawAvailable(W) # c =>
              \E X \in Window(A, ShortWindow) :
                 DOMAIN X = DOMAIN W /\ \A i \in DOMAIN W : X[i].raw = W[i].raw
    BY WindowsAre, RawSince
  <2>3. RawAvailable(W) # c => x \in BarDelivery(A)
    BY <1>1, <1>3, <2>1, <2>2
  <2> QED
    BY <1>2, <2>1, <2>2, <2>3
<1> QED
  BY <1>4, SinceIs

GainOf(a, b) ==
    [ratio |-> {<<b.close - a.close, a.close>> : n \in {a.close} \cap (Nat \ {0})},
     available |-> LaterOf(a.available, b.available)]

\* The returns inside a window.
ReturnsOf(W, n) == [i \in 1..n |-> GainOf(W[i], W[i + 1])]

\* The last n returns are those inside the last n + 1 bars.
LEMMA ReturnsAre ==
    ASSUME NEW B, NEW m \in Nat, NEW S, B \in [1..m -> S], Len(B) = m, NEW n \in Nat \ {0}, NEW V
    PROVE  V \in Window(AdjacentReturns(B), n) <=> \E W \in Window(B, n + 1) : V = ReturnsOf(W, n)
<1>1. PICK p \in Nat : p = IF m = 0 THEN 0 ELSE m - 1
  OBVIOUS
<1>2. PICK R, T : R = AdjacentReturns(B) /\ T = {R[i] : i \in 1..p}
  OBVIOUS
<1>3. 1..Len(B) - 1 = 1..p /\ \A i \in 1..p : i \in 1..m /\ i + 1 \in 1..m
  BY <1>1
<1>4. R = [i \in 1..Len(B) - 1 |-> GainOf(B[i], B[i + 1])]
  BY <1>2, Zenon DEF AdjacentReturns, GainOf
<1>5. R = [i \in 1..p |-> GainOf(B[i], B[i + 1])]
  BY <1>3, <1>4, Zenon
<1>6. R \in [1..p -> T] /\ Len(R) = p /\ \A i \in 1..p : R[i] = GainOf(B[i], B[i + 1])
  BY <1>2, <1>5
<1>7. V \in Window(R, n) <=> n <= p /\ V = SubSeq(R, p - n + 1, p)
  BY <1>6, WindowIs
<1>8. \A W : W \in Window(B, n + 1) <=> n + 1 <= m /\ W = SubSeq(B, m - (n + 1) + 1, m)
  <2>1. n + 1 \in Nat
    OBVIOUS
  <2> QED
    BY <2>1, WindowIs
<1>9. n <= p <=> n + 1 <= m
  BY <1>1
<1>10. ASSUME n <= p
       PROVE  SubSeq(R, p - n + 1, p) = ReturnsOf(SubSeq(B, m - (n + 1) + 1, m), n)
  <2>1. PICK W, X : W = SubSeq(B, m - (n + 1) + 1, m) /\ X = SubSeq(R, p - n + 1, p)
    OBVIOUS
  <2>2. n \in 0..p /\ n + 1 \in 0..m
    BY <1>9, <1>10
  <2>3. IsTail(W, B, m, n + 1)
    BY <2>1, <2>2, TailIs
  <2>4. IsTail(X, R, p, n) /\ X \in [1..n -> T]
    BY <1>6, <2>1, <2>2, TailIs
  <2>5. ASSUME NEW i \in 1..n
        PROVE  X[i] = GainOf(W[i], W[i + 1])
    <3>1. p - n + i \in 1..p /\ X[i] = R[p - n + i]
      BY <2>4 DEF IsTail
    <3>2. i \in 1..n + 1 /\ i + 1 \in 1..n + 1
      OBVIOUS
    <3>3. W[i] = B[m - (n + 1) + i] /\ W[i + 1] = B[m - (n + 1) + (i + 1)]
      BY <2>3, <3>2 DEF IsTail
    <3>4. m - (n + 1) + i = p - n + i /\ m - (n + 1) + (i + 1) = p - n + i + 1
      BY <1>1, <1>10
    <3> QED
      BY <1>6, <3>1, <3>3, <3>4
  <2>6. X = ReturnsOf(W, n)
    BY <2>4, <2>5 DEF ReturnsOf
  <2> QED
    BY <2>1, <2>6
<1> QED
  BY <1>2, <1>7, <1>8, <1>9, <1>10

LEMMA ReturnsSince ==
    ASSUME NEW F, Gathered(F), NEW c \in Nat \ {0}, StillAbout(F, c), NEW n \in Nat \ {0},
           NEW V \in Window(AdjacentReturns(AdjustedSeries(F, c)), n)
    PROVE  /\ AvailableFrom(V) \in Nat /\ AvailableFrom(V) <= c
           /\ AvailableFrom(V) # c => V \in Window(AdjacentReturns(AdjustedSeries(F, c - 1)), n)
<1>1. PICK S, Z, B, A, m, k : /\ S = AdjustedBars(F, c) /\ Z = AdjustedBars(F, c - 1)
                              /\ B = AdjustedSeries(F, c) /\ A = AdjustedSeries(F, c - 1)
                              /\ m = Cardinality(S) /\ k = Cardinality(Z)
  OBVIOUS
<1>2. /\ m \in Nat /\ B \in [1..m -> S] /\ Len(B) = m
      /\ k \in Nat /\ A \in [1..k -> Z] /\ Len(A) = k
  BY <1>1, AdjustedAre DEF InOrderOfDays
<1>3. PICK W \in Window(B, n + 1) : V = ReturnsOf(W, n)
  <2>1. V \in Window(AdjacentReturns(B), n)
    BY <1>1
  <2>2. m \in Nat /\ B \in [1..m -> S] /\ Len(B) = m
    BY <1>2
  <2>3. V \in Window(AdjacentReturns(B), n) <=> \E W \in Window(B, n + 1) : V = ReturnsOf(W, n)
    BY ONLY <2>2, ReturnsAre, n \in Nat \ {0}
  <2> QED
    BY <2>1, <2>3, Zenon
<1>4. n + 1 \in Nat \ {0} /\ \A i \in 1..n : i \in 1..n + 1 /\ i + 1 \in 1..n + 1
  OBVIOUS
<1>5. /\ \A i \in 1..n + 1 : W[i].available \in Nat /\ W[i].available <= c
      /\ (\A i \in 1..n + 1 : W[i].available # c) => W \in Window(A, n + 1)
  BY <1>1, <1>3, <1>4, BarsSeen, WindowSince DEF IsSeen
<1>6. /\ DOMAIN V = 1..n /\ \A i \in 1..n : V[i].available = LaterOf(W[i].available, W[i + 1].available)
  BY <1>3 DEF ReturnsOf, GainOf
<1>7. \A i \in 1..n : /\ V[i].available \in Nat /\ V[i].available <= c
                      /\ V[i].available # c => W[i].available # c /\ W[i + 1].available # c
  BY <1>4, <1>5, <1>6 DEF LaterOf
<1>8. Len(V) = n
  BY <1>3 DEF ReturnsOf
<1>9. /\ AvailableFrom(V) \in Nat /\ AvailableFrom(V) <= c
      /\ AvailableFrom(V) # c => \A i \in 1..n : V[i].available # c
  BY <1>6, <1>7, <1>8, AvailableFromIs DEF IsSeen
<1>10. ASSUME AvailableFrom(V) # c
       PROVE  V \in Window(AdjacentReturns(A), n)
  <2>1. \A i \in 1..n : W[i].available # c /\ W[i + 1].available # c
    BY <1>7, <1>9, <1>10
  <2>2. ASSUME NEW i \in 1..n + 1
        PROVE  W[i].available # c
    <3>1. CASE i \in 1..n
      BY <2>1, <3>1
    <3>2. CASE i = n + 1
      <4>1. n \in 1..n
        OBVIOUS
      <4> QED
        BY <2>1, <3>2, <4>1
    <3> QED
      BY <3>1, <3>2
  <2>3. W \in Window(A, n + 1)
    BY <1>5, <2>2
  <2> QED
    BY <1>2, <1>3, <2>3, ReturnsAre
<1> QED
  BY <1>1, <1>9, <1>10

LEMMA VolatilitySince ==
    ASSUME NEW F, Gathered(F), NEW c \in Nat \ {0}, StillAbout(F, c), NEW n \in Nat \ {0},
           NEW A, A = AdjustedSeries(F, c - 1), NEW B, B = AdjustedSeries(F, c)
    PROVE  Since(Volatility(A, n), Volatility(B, n), c)
<1> DEFINE Of(W) == [value |-> [i \in 1..n |-> CHOOSE r \in W[i].ratio : TRUE],
                     available |-> AvailableFrom(W)]
           Told(V) == \A i \in 1..n : V[i].ratio # {}
<1>1. \A D : Volatility(D, n) = {Of(W) : W \in {V \in Window(AdjacentReturns(D), n) : Told(V)}}
  BY Zenon DEF Volatility
<1>2. \A W : Of(W).available = AvailableFrom(W)
  OBVIOUS
<1> HIDE DEF Of, Told
<1>3. ASSUME NEW x \in Volatility(B, n)
      PROVE  /\ x.available \in Nat /\ x.available <= c
             /\ x.available # c => x \in Volatility(A, n)
  <2>1. PICK W \in Window(AdjacentReturns(B), n) : Told(W) /\ x = Of(W)
    BY <1>1
  <2>2. /\ AvailableFrom(W) \in Nat /\ AvailableFrom(W) <= c
        /\ AvailableFrom(W) # c => W \in Window(AdjacentReturns(A), n)
    BY ReturnsSince
  <2> QED
    BY <1>1, <1>2, <2>1, <2>2
<1> QED
  BY <1>3, SinceIs

LEMMA VolatilityRatioSince ==
    ASSUME NEW P, NEW Q, NEW K, NEW L, NEW c \in Nat, Since(P, Q, c), Since(K, L, c)
    PROVE  Since(VolatilityRatio(P, K), VolatilityRatio(Q, L), c)
<1> DEFINE Of(p) == [value |-> <<p[1].value, p[2].value>>,
                     available |-> LaterOf(p[1].available, p[2].available)]
           Told(q) == ~Steady(q[2].value)
<1>1. \A S, M : VolatilityRatio(S, M) = {Of(p) : p \in {q \in S \X M : Told(q)}}
  BY Zenon DEF VolatilityRatio
<1>2. \A p : Of(p).available = LaterOf(p[1].available, p[2].available)
  OBVIOUS
<1> HIDE DEF Of, Told
<1>3. ASSUME NEW x \in VolatilityRatio(Q, L)
      PROVE  /\ x.available \in Nat /\ x.available <= c
             /\ x.available # c => x \in VolatilityRatio(P, K)
  <2>1. PICK p \in Q \X L : Told(p) /\ x = Of(p)
    BY <1>1
  <2>2. /\ LaterOf(p[1].available, p[2].available) \in Nat
        /\ LaterOf(p[1].available, p[2].available) < c => p \in P \X K
    BY PairAhead DEF Since
  <2>3. LaterOf(p[1].available, p[2].available) <= c
    BY DEF Since, LaterOf
  <2>4. x.available = LaterOf(p[1].available, p[2].available)
    BY <1>2, <2>1
  <2>5. p \in P \X K => x \in VolatilityRatio(P, K)
    BY <1>1, <2>1
  <2>6. PICK a \in Nat : a = x.available /\ a <= c /\ (a < c => x \in VolatilityRatio(P, K))
    BY <2>2, <2>3, <2>4, <2>5
  <2> QED
    BY <2>6
<1> QED
  BY <1>3, SinceIs

\* No bar became known at c.
SameBars(F, c) == \A b \in F : b.kind = "bar" => b.available # c

LEMMA SameBarsSince ==
    ASSUME NEW F, Gathered(F), NEW c \in Nat \ {0}, StillAbout(F, c), SameBars(F, c), NEW n \in Nat \ {0},
           NEW W \in Window(AdjustedSeries(F, c), n)
    PROVE  \E X \in Window(AdjustedSeries(F, c - 1), n) :
              /\ DOMAIN W = 1..n /\ DOMAIN X = 1..n
              /\ \A i \in 1..n : X[i].date = W[i].date /\ (W[i].available # c => X[i] = W[i])
<1>1. \A i \in 1..n : W[i].raw \in SeriesAsOf(F, "bar", c)
  BY BarsSeen
<1>2. \A b \in SeriesAsOf(F, "bar", c) : b \in F /\ b.kind = "bar"
  BY DEF SeriesAsOf, Visible, OfKind
<1>3. \A i \in 1..n : W[i].raw.available # c
  BY <1>1, <1>2 DEF SameBars
<1> QED
  BY <1>3, TailSince

DatesOf(W) == {W[i].date : i \in DOMAIN W}

OnDays(F, D, c) == {f \in SeriesAsOf(F, "delivery", c) : f.date \in D}

\* The deliveries of some days that were all known before c were those the day before.
LEMMA OnDaysSince ==
    ASSUME NEW F, Gathered(F), NEW c \in Nat \ {0}, NEW D, \A f \in OnDays(F, D, c) : f.available # c
    PROVE  OnDays(F, D, c - 1) = OnDays(F, D, c)
<1>1. \A f \in SeriesAsOf(F, "delivery", c) : f.available # c => f \in SeriesAsOf(F, "delivery", c - 1)
  BY SeriesSince
<1>2. \A f \in SeriesAsOf(F, "delivery", c - 1) :
         \E g \in SeriesAsOf(F, "delivery", c) :
            /\ g.date = f.date
            /\ g.available # c => f \in SeriesAsOf(F, "delivery", c)
  BY SeriesSince
<1>3. OnDays(F, D, c) \subseteq OnDays(F, D, c - 1)
  BY <1>1 DEF OnDays
<1>4. ASSUME NEW f \in OnDays(F, D, c - 1)
      PROVE  f \in OnDays(F, D, c)
  <2>1. f \in SeriesAsOf(F, "delivery", c - 1) /\ f.date \in D
    BY DEF OnDays
  <2>2. PICK g \in SeriesAsOf(F, "delivery", c) :
           g.date = f.date /\ (g.available # c => f \in SeriesAsOf(F, "delivery", c))
    BY <1>2, <2>1
  <2>3. g \in OnDays(F, D, c)
    BY <2>1, <2>2 DEF OnDays
  <2> QED
    BY <2>1, <2>2, <2>3 DEF OnDays
<1> QED
  BY <1>3, <1>4

LEMMA DeliverySince ==
    ASSUME NEW F, Gathered(F), NEW c \in Nat \ {0}, StillAbout(F, c), SameBars(F, c), EvidenceAssumption,
           NEW A, A = AdjustedSeries(F, c - 1), NEW B, B = AdjustedSeries(F, c)
    PROVE  Since(ReportedDelivery(F, A, c - 1), ReportedDelivery(F, B, c), c)
<1> DEFINE Of(S) == [value |-> <<FoldSet(LAMBDA f, n : f.share + n, 0, S), ShortWindow>>,
                     available |-> Max({f.available : f \in S})]
           Told(S, D) == Days(S) = D /\ \A f \in S : f.share # NoShare
<1>1. \A V, k : OnDaysOf(F, V, k) = OnDays(F, DatesOf(V), k)
  BY Zenon DEF OnDaysOf, OnDays, DatesOf
<1>2. \A D, k : ReportedDelivery(F, D, k) =
                  {Of(OnDaysOf(F, W, k)) : W \in {V \in Window(D, ShortWindow) :
                                                     Told(OnDaysOf(F, V, k), DatesOf(V))}}
  BY Zenon DEF ReportedDelivery, DatesOf
<1>3. \A S : Of(S).available = Max({f.available : f \in S})
  OBVIOUS
<1>4. \A S, D : Told(S, D) => Days(S) = D
  OBVIOUS
<1> HIDE DEF Of, Told
<1>5. ASSUME NEW x \in ReportedDelivery(F, B, c)
      PROVE  /\ x.available \in Nat /\ x.available <= c
             /\ x.available # c => x \in ReportedDelivery(F, A, c - 1)
  <2>1. PICK W \in Window(B, ShortWindow) :
           Told(OnDays(F, DatesOf(W), c), DatesOf(W)) /\ x = Of(OnDays(F, DatesOf(W), c))
    BY <1>1, <1>2
  <2>2. PICK D, S, T : D = DatesOf(W) /\ S = OnDays(F, D, c) /\ T = {f.available : f \in S}
    OBVIOUS
  <2>3. PICK X \in Window(A, ShortWindow) :
           /\ DOMAIN W = 1..ShortWindow /\ DOMAIN X = 1..ShortWindow
           /\ \A i \in 1..ShortWindow : X[i].date = W[i].date
    BY SameBarsSince, WindowsAre
  <2>4. DatesOf(X) = D
    BY <2>2, <2>3 DEF DatesOf
  <2>5. T \in SUBSET Nat /\ \A a \in T : a <= c
    BY <2>2, SeenAt DEF OnDays, SeriesAsOf
  <2>6. T # {}
    <3>1. 1 \in 1..ShortWindow
      BY WindowsAre
    <3>2. W[1].date \in D
      BY <2>2, <2>3, <3>1 DEF DatesOf
    <3>3. Days(S) = D
      BY <1>4, <2>1, <2>2
    <3>4. PICK s \in S : s.date = W[1].date
      BY <3>2, <3>3 DEF Days
    <3>5. s.available \in T
      BY <2>2, <3>4
    <3> QED
      BY <3>5
  <2>7. PICK top \in Nat : top = Max(T) /\ top <= c /\ \A a \in T : a <= top
    BY <2>5, <2>6, GreatestUpTo
  <2>8. x.available = top
    BY <1>3, <2>1, <2>2, <2>7
  <2>9. ASSUME top # c
        PROVE  x \in ReportedDelivery(F, A, c - 1)
    <3>1. \A f \in S : f.available # c
      <4>1. \A f \in S : f.available \in T
        BY <2>2
      <4> QED
        BY <2>5, <2>7, <2>9, <4>1
    <3>2. OnDays(F, D, c - 1) = S
      BY <2>2, <3>1, OnDaysSince
    <3>3. OnDaysOf(F, X, c - 1) = S
      BY <1>1, <2>4, <3>2
    <3> QED
      BY <1>2, <2>1, <2>2, <2>4, <3>3
  <2> QED
    BY <2>7, <2>8, <2>9
<1> QED
  BY <1>5, SinceIs

BenchmarkOn(F, c, day) == {b \in SeriesAsOf(F, "benchmark", c) : b.date = day /\ b.close > 0}

LEMMA BenchmarkSince ==
    ASSUME NEW F, Gathered(F), NEW c \in Nat \ {0}, NEW day, NEW b \in BenchmarkOn(F, c, day)
    PROVE  /\ b.available \in Nat /\ b.available <= c
           /\ b.available # c => b \in BenchmarkOn(F, c - 1, day)
<1>1. b \in SeriesAsOf(F, "benchmark", c) /\ b.date = day /\ b.close > 0
  BY DEF BenchmarkOn
<1>2. b \in Visible(F, "benchmark", c)
  BY <1>1 DEF SeriesAsOf
<1>3. b.available \in Nat /\ b.available <= c
  BY <1>2, SeenAt
<1>4. b.available # c => b \in SeriesAsOf(F, "benchmark", c - 1)
  BY <1>1, SeriesSince
<1> QED
  BY <1>1, <1>3, <1>4 DEF BenchmarkOn

LEMMA StrengthSince ==
    ASSUME NEW F, Gathered(F), NEW c \in Nat \ {0}, StillAbout(F, c), SameBars(F, c), EvidenceAssumption,
           NEW A, A = AdjustedSeries(F, c - 1), NEW B, B = AdjustedSeries(F, c)
    PROVE  Since(RelativeStrength(F, A, c - 1), RelativeStrength(F, B, c), c)
<1> DEFINE Of(first, last, p) ==
             [value |-> <<last.close * p[1].close - first.close * p[2].close, first.close * p[2].close>>,
              available |-> Max({first.available, last.available, p[1].available, p[2].available})]
           Told(first, last, k) ==
             {Of(first, last, p) : p \in {q \in BenchmarkOn(F, k, first.date) \X BenchmarkOn(F, k, last.date) :
                                             first.close > 0}}
<1>1. \A D, k : RelativeStrength(F, D, k) =
                  UNION {Told(W[1], W[MediumWindow + 1], k) : W \in Window(D, MediumWindow + 1)}
  BY Zenon DEF RelativeStrength, BenchmarkOn
<1>2. \A f, l, p : Of(f, l, p).available = Max({f.available, l.available, p[1].available, p[2].available})
  OBVIOUS
<1> HIDE DEF Of
<1>3. ASSUME NEW x \in RelativeStrength(F, B, c)
      PROVE  /\ x.available \in Nat /\ x.available <= c
             /\ x.available # c => x \in RelativeStrength(F, A, c - 1)
  <2>1. PICK W \in Window(B, MediumWindow + 1) : x \in Told(W[1], W[MediumWindow + 1], c)
    BY <1>1
  <2>2. PICK f, l : f = W[1] /\ l = W[MediumWindow + 1]
    OBVIOUS
  <2>3. PICK p \in BenchmarkOn(F, c, f.date) \X BenchmarkOn(F, c, l.date) : f.close > 0 /\ x = Of(f, l, p)
    BY <2>1, <2>2
  <2>4. 1 \in 1..MediumWindow + 1 /\ MediumWindow + 1 \in 1..MediumWindow + 1
    BY WindowsAre
  <2>5. f.available \in Nat /\ f.available <= c /\ l.available \in Nat /\ l.available <= c
    BY <2>2, <2>4, BarsSeen, WindowsAre DEF IsSeen
  <2>6. /\ p[1].available \in Nat /\ p[1].available <= c /\ p[2].available \in Nat /\ p[2].available <= c
        /\ p[1].available # c => p[1] \in BenchmarkOn(F, c - 1, f.date)
        /\ p[2].available # c => p[2] \in BenchmarkOn(F, c - 1, l.date)
    BY BenchmarkSince
  <2>7. /\ x.available \in Nat /\ x.available <= c
        /\ x.available # c =>
              f.available # c /\ l.available # c /\ p[1].available # c /\ p[2].available # c
    <3>1. PICK a, b, d, e : a = f.available /\ b = l.available /\ d = p[1].available /\ e = p[2].available
      OBVIOUS
    <3>2. x.available = Max({a, b, d, e})
      BY <1>2, <2>3, <3>1
    <3>3. a \in Nat /\ b \in Nat /\ d \in Nat /\ e \in Nat /\ a <= c /\ b <= c /\ d <= c /\ e <= c
      BY <2>5, <2>6, <3>1
    <3>4. PICK S : S = {a, b, d, e}
      OBVIOUS
    <3>5. S \in SUBSET Nat /\ S # {} /\ \A n \in S : n <= c
      BY <3>3, <3>4
    <3>6. Max(S) \in S /\ \A n \in S : n <= Max(S)
      BY <3>5, GreatestUpTo
    <3>7. PICK top : top = Max(S)
      OBVIOUS
    <3>8. top \in Nat /\ top <= c /\ (top # c => a # c /\ b # c /\ d # c /\ e # c)
      BY <3>3, <3>4, <3>5, <3>6, <3>7
    <3> QED
      BY <3>1, <3>2, <3>4, <3>7, <3>8
  <2>8. PICK X \in Window(A, MediumWindow + 1) :
           \A i \in 1..MediumWindow + 1 : W[i].available # c => X[i] = W[i]
    BY SameBarsSince, WindowsAre
  <2>9. ASSUME x.available # c
        PROVE  x \in RelativeStrength(F, A, c - 1)
    <3>1. X[1] = f /\ X[MediumWindow + 1] = l
      BY <2>2, <2>4, <2>7, <2>8, <2>9
    <3>2. p \in BenchmarkOn(F, c - 1, f.date) \X BenchmarkOn(F, c - 1, l.date)
      BY <2>6, <2>7, <2>9
    <3>3. x \in Told(f, l, c - 1)
      BY <2>3, <3>2
    <3> QED
      BY <1>1, <3>1, <3>3
  <2> QED
    BY <2>7, <2>9
<1> QED
  BY <1>3, SinceIs

-----------------------------------------------------------------------------
(* Attention, at a cutoff and the day before.                              *)

\* Of records that are known one is the newest.
LEMMA NewestRecordOf ==
    ASSUME NEW F, Gathered(F), NEW c \in Nat, NEW S \in SUBSET Visible(F, "attention", c), S # {}
    PROVE  \E h \in S : \A g \in S : ~Newer(g, h)
<1>1. \A f \in S : f \in F /\ f.available \in Nat /\ f.revised \in Nat
  BY DEF Visible, OfKind, Gathered
<1>2. PICK last \in S : \A f \in S : f.available <= last.available
  BY NewestOf DEF Gathered
<1>3. PICK N : N = {f \in S : f.available = last.available}
  OBVIOUS
<1>4. PICK R : R = {f.revised : f \in N}
  OBVIOUS
<1>5. N \subseteq F /\ IsFiniteSet(N) /\ last \in N
  BY <1>1, <1>2, <1>3, FS_Subset DEF Gathered
<1>6. IsFiniteSet(R)
  <2>1. [f \in N |-> f.revised] \in Surjection(N, R)
    BY <1>4 DEF Surjection
  <2> QED
    BY <1>5, <2>1, FS_Surjection
<1>7. R \in SUBSET Nat /\ R # {}
  <2>1. last.revised \in R
    BY <1>4, <1>5
  <2>2. R \in SUBSET Nat
    BY <1>1, <1>3, <1>4
  <2> QED
    BY <2>1, <2>2
<1>8. PICK r \in R : \A x \in R : x <= r
  BY <1>6, <1>7, GreatestOf
<1>9. PICK h \in N : h.revised = r
  BY <1>4, <1>8
<1>10. ASSUME NEW g \in S
       PROVE  ~Newer(g, h)
  <2>1. g.available \in Nat /\ g.available <= h.available /\ h.available \in Nat
    BY <1>1, <1>2, <1>3, <1>9
  <2>2. g.available = h.available => g.revised \in R
    BY <1>3, <1>4, <1>9
  <2>3. g.available = h.available => g.revised <= h.revised
    BY <1>8, <1>9, <2>2
  <2>4. g.revised \in Nat /\ h.revised \in Nat
    BY <1>1, <1>3, <1>9
  <2> QED
    BY <2>1, <2>3, <2>4 DEF Newer
<1> QED
  BY <1>3, <1>9, <1>10

\* What the newest revision of a record told of the day before, it tells of still, or a
\* revision of today does.
LEMMA TellsStill ==
    ASSUME NEW F, Gathered(F), NEW c \in Nat \ {0}, StillAbout(F, c), NEW g \in NewestRecords(F, c - 1)
    PROVE  \E h \in NewestRecords(F, c) :
              /\ h.company = g.company /\ h.metric = g.metric /\ h.date = g.date
              /\ h = g \/ h.available = c
<1>1. PICK P, N : P = Visible(F, "attention", c - 1) /\ N = Visible(F, "attention", c)
  OBVIOUS
<1>2. /\ P = {f \in N : f.available # c}
      /\ \A f \in N : f \in F /\ f.kind = "attention" /\ f.available \in Nat /\ f.available <= c
                      /\ (f.available # c => f.available <= c - 1)
  BY <1>1, SeenAt
<1>3. g \in P /\ \A f \in P : f.external = g.external => ~Newer(f, g)
  BY <1>1 DEF NewestRecords
<1>4. CASE \A f \in N : f.external = g.external => ~Newer(f, g)
  <2>1. g \in NewestRecords(F, c)
    BY <1>1, <1>2, <1>3, <1>4 DEF NewestRecords
  <2> QED
    BY <2>1
<1>5. CASE \E f \in N : f.external = g.external /\ Newer(f, g)
  <2>1. PICK f \in N : f.external = g.external /\ Newer(f, g)
    BY <1>5
  <2>2. PICK S : S = {h \in N : h.external = g.external}
    OBVIOUS
  <2>3. PICK h \in S : \A k \in S : ~Newer(k, h)
    <3>1. S \in SUBSET Visible(F, "attention", c) /\ S # {}
      BY <1>1, <2>1, <2>2
    <3> QED
      BY <3>1, NewestRecordOf
  <2>4. h \in NewestRecords(F, c)
    BY <1>1, <2>2, <2>3 DEF NewestRecords
  <2>5. f \in S /\ f.available = c
    BY <1>2, <1>3, <2>1, <2>2
  <2>6. h.available = c
    <3>1. h.available \in Nat /\ h.available <= c /\ ~(f.available > h.available)
      BY <1>2, <2>2, <2>3, <2>5 DEF Newer
    <3> QED
      BY <2>5, <3>1
  <2>7. g.available < c
    BY <1>2, <1>3
  <2>8. h \in F /\ g \in F /\ h.kind = "attention" /\ g.kind = "attention" /\ g.external = h.external
    BY <1>2, <1>3, <2>2, <2>3
  <2>9. Subject(g) = Subject(h)
    BY <2>6, <2>7, <2>8 DEF StillAbout
  <2>10. g.date = h.date /\ g.company = h.company /\ g.metric = h.metric
    BY <2>8, <2>9 DEF Subject
  <2> QED
    BY <2>4, <2>6, <2>10
<1> QED
  BY <1>4, <1>5

Own(F, metric, c) == {f \in NewestRecords(F, c) : f.metric = metric /\ f.company = "own"}

LEMMA ObservationsAre ==
    ASSUME NEW F, NEW metric, NEW c
    PROVE  Observations(F, metric, c) =
              {f \in Own(F, metric, c) : \A g \in Own(F, metric, c) : g.date = f.date => ~Newer(g, f)}
  BY Zenon DEF Observations, Own

\* A day that has a record has an observation.
LEMMA DayObserved ==
    ASSUME NEW F, Gathered(F), NEW c \in Nat, NEW metric, NEW g \in Own(F, metric, c)
    PROVE  \E h \in Observations(F, metric, c) : h.date = g.date
<1>1. PICK S : S = {f \in Own(F, metric, c) : f.date = g.date}
  OBVIOUS
<1>2. S \in SUBSET Visible(F, "attention", c) /\ S # {}
  BY <1>1 DEF Own, NewestRecords
<1>3. PICK h \in S : \A f \in S : ~Newer(f, h)
  BY <1>2, NewestRecordOf
<1>4. h \in Observations(F, metric, c)
  BY <1>1, <1>3, ObservationsAre
<1> QED
  BY <1>1, <1>3, <1>4

LEMMA ObservedSince ==
    ASSUME NEW F, Gathered(F), NEW c \in Nat \ {0}, StillAbout(F, c), NEW metric,
           NEW f \in Observations(F, metric, c)
    PROVE  /\ f.available \in Nat /\ f.available <= c /\ f.date \in Nat
           /\ f.available # c => f \in Observations(F, metric, c - 1)
<1>1. PICK P, N : P = Visible(F, "attention", c - 1) /\ N = Visible(F, "attention", c)
  OBVIOUS
<1>2. /\ P = {g \in N : g.available # c}
      /\ \A g \in N : g.available \in Nat /\ g.available <= c /\ g.date \in Nat
  BY <1>1, SeenAt
<1>3. /\ f \in N /\ f.metric = metric /\ f.company = "own"
      /\ \A g \in N : g.external = f.external => ~Newer(g, f)
      /\ \A g \in Own(F, metric, c) : g.date = f.date => ~Newer(g, f)
  BY <1>1, ObservationsAre DEF Own, NewestRecords
<1>4. ASSUME f.available # c
      PROVE  f \in Observations(F, metric, c - 1)
  <2>1. f \in Own(F, metric, c - 1)
    BY <1>1, <1>2, <1>3, <1>4 DEF Own, NewestRecords
  <2>2. ASSUME NEW g \in Own(F, metric, c - 1), g.date = f.date, Newer(g, f)
        PROVE  FALSE
    <3>1. PICK h \in NewestRecords(F, c) :
             /\ h.company = g.company /\ h.metric = g.metric /\ h.date = g.date
             /\ h = g \/ h.available = c
      BY TellsStill DEF Own
    <3>2. h \in Own(F, metric, c) /\ h.date = f.date
      BY <2>2, <3>1 DEF Own
    <3>3. f.available < c
      BY <1>2, <1>3, <1>4
    <3>4. h.available = c => Newer(h, f)
      BY <3>3 DEF Newer
    <3> QED
      BY <1>3, <2>2, <3>1, <3>2, <3>4
  <2> QED
    BY <2>1, <2>2, ObservationsAre
<1> QED
  BY <1>2, <1>3, <1>4

LatestOf(S) == {f \in S : f.date = Max(Days(S))}

LEMMA LatestObserved ==
    ASSUME NEW F, Gathered(F), NEW c \in Nat, NEW metric, NEW f \in Observations(F, metric, c)
    PROVE  f \in LatestOf(Observations(F, metric, c)) <=>
              \A g \in Own(F, metric, c) : g.date <= f.date
<1>1. PICK S, D : S = Observations(F, metric, c) /\ D = Days(S)
  OBVIOUS
<1>2. /\ S \subseteq Own(F, metric, c) /\ Own(F, metric, c) \subseteq F
      /\ \A g \in Own(F, metric, c) : g.date \in Nat
      /\ \A g \in Own(F, metric, c) : g.date \in D
  <2>1. S \subseteq Own(F, metric, c)
    BY <1>1, ObservationsAre
  <2>2. Own(F, metric, c) \subseteq F
    BY DEF Own, NewestRecords, Visible, OfKind
  <2>3. \A g \in Own(F, metric, c) : g.date \in Nat
    BY <2>2 DEF Gathered
  <2>4. \A g \in Own(F, metric, c) : g.date \in D
    BY <1>1, DayObserved DEF Days
  <2> QED
    BY <2>1, <2>2, <2>3, <2>4
<1>3. D \in SUBSET Nat /\ IsFiniteSet(D) /\ f.date \in D
  <2>1. IsFiniteSet(S)
    BY <1>2, FS_Subset DEF Gathered
  <2>2. [g \in S |-> g.date] \in Surjection(S, D)
    BY <1>1 DEF Surjection, Days
  <2>3. IsFiniteSet(D)
    BY <2>1, <2>2, FS_Surjection
  <2> QED
    BY <1>1, <1>2, <2>3 DEF Days
<1>4. PICK n \in D : \A m \in D : m <= n
  BY <1>3, GreatestOf
<1>5. Max(D) \in D /\ \A m \in D : m <= Max(D)
  BY <1>3, <1>4, GreatestUpTo
<1>6. PICK top \in Nat : top = Max(D) /\ top \in D /\ \A m \in D : m <= top
  BY <1>3, <1>5
<1>7. f \in LatestOf(S) <=> f.date = top
  BY <1>1, <1>6 DEF LatestOf
<1>8. f.date = top <=> \A m \in D : m <= f.date
  <2>1. PICK day \in Nat : day = f.date /\ day \in D
    BY <1>3
  <2>2. day <= top
    BY <1>6, <2>1
  <2>3. top <= day => day = top
    BY <1>6, <2>1, <2>2
  <2> QED
    BY <1>6, <2>1, <2>3
<1>9. \A m \in D : \E g \in Own(F, metric, c) : g.date = m
  BY <1>1, <1>2 DEF Days
<1>10. (\A m \in D : m <= f.date) <=> \A g \in Own(F, metric, c) : g.date <= f.date
  BY <1>2, <1>9
<1> QED
  BY <1>1, <1>7, <1>8, <1>10

LEMMA LatestSince ==
    ASSUME NEW F, Gathered(F), NEW c \in Nat \ {0}, StillAbout(F, c), NEW metric,
           NEW f \in LatestOf(Observations(F, metric, c)), f.available # c
    PROVE  f \in LatestOf(Observations(F, metric, c - 1))
<1>1. f \in Observations(F, metric, c) /\ f \in Observations(F, metric, c - 1) /\ c - 1 \in Nat
  BY ObservedSince, SeenAt DEF LatestOf
<1>2. \A g \in Own(F, metric, c) : g.date <= f.date
  BY <1>1, LatestObserved
<1>3. ASSUME NEW g \in Own(F, metric, c - 1)
      PROVE  g.date <= f.date
  <2>1. PICK h \in NewestRecords(F, c) : h.company = g.company /\ h.metric = g.metric /\ h.date = g.date
    BY TellsStill DEF Own
  <2>2. h \in Own(F, metric, c)
    BY <2>1 DEF Own
  <2> QED
    BY <1>2, <2>1, <2>2
<1> QED
  BY <1>1, <1>3, LatestObserved

-----------------------------------------------------------------------------
(* Business events, measured by what was known when they were announced.   *)

LEMMA QuarterKnown ==
    ASSUME NEW F, NEW c \in Nat, \A f \in F : f.available \in Nat /\ f.available <= c, NEW y, NEW p,
           NEW q \in QuarterFrom(F, y, p)
    PROVE  q.available \in Nat /\ q.available <= c
<1>1. \A k, n : Find(F, y, k, n) \subseteq F
  BY DEF Find
<1>2. ASSUME q \in ReportedQuarter(F, y, p)
      PROVE  q.available \in Nat /\ q.available <= c
  <2>1. PICK f \in Find(F, y, "quarter", p) : q = QuarterValue(f)
    BY <1>2 DEF ReportedQuarter
  <2>2. f \in F /\ q.available = f.available
    BY <1>1, <2>1 DEF QuarterValue
  <2> QED
    BY <2>2
<1>3. ASSUME q \in DerivedQuarter(F, y, p)
      PROVE  q.available \in Nat /\ q.available <= c
  <2>1. PICK o \in Cumulative(F, y, p) \X Preceding(F, y, p) : q = Difference(o[1], o[2], p)
    BY <1>3 DEF DerivedQuarter
  <2>2. Cumulative(F, y, p) \subseteq F /\ Preceding(F, y, p) \subseteq F
    BY <1>1 DEF Cumulative, Preceding
  <2>3. o[1] \in F /\ o[2] \in F
    BY <2>2
  <2>4. q.available = LaterOf(o[1].available, o[2].available)
    BY <2>1 DEF Difference
  <2> QED
    BY <2>3, <2>4 DEF LaterOf
<1> QED
  BY <1>2, <1>3 DEF QuarterFrom

LEMMA RevenueKnown ==
    ASSUME SeriesInv, NEW scope, NEW c \in Nat, NEW t \in EventRevenue(scope, c)
    PROVE  t.available \in Nat /\ t.available <= c
<1>1. PICK V, F, Q : /\ V = KnownFigures(scope, c) /\ F = {f \in V : f.metric = "revenue"}
                     /\ Q = Quarters(F)
  OBVIOUS
<1>2. QuarterSeries(V, "revenue") = ByEnd(Q)
  BY <1>1 DEF QuarterSeries, Quarters
<1>3. PICK y, p : t \in Trailing(ByEnd(Q), y, p)
  <2>1. PICK S : S = QuarterSeries(V, "revenue")
    OBVIOUS
  <2>2. t \in UNION {Trailing(S, S[i].year, S[i].place) : i \in DOMAIN S}
    BY <1>1, <2>1 DEF EventRevenue
  <2> QED
    BY <1>2, <2>1, <2>2
<1>4. IsLine(F, "revenue")
  <2>1. "revenue" \in Flow
    BY DEF Flow
  <2> QED
    BY <1>1, <2>1, LineIs
<1>5. IsUnit(Q)
  BY <1>1, <1>4, QuartersAre DEF IsUnit
<1>6. ASSUME NEW f \in F
      PROVE  f.available \in Nat /\ f.available <= c
  <2>1. f \in Rows(scope, c)
    BY <1>1 DEF KnownFigures
  <2>2. f \in figures /\ f.available <= c
    BY <2>1 DEF Rows
  <2> QED
    <3>1. PICK g, k : IsFigure(f, g, k)
      BY <2>2, FiguresAre
    <3>2. f.available \in Nat
      BY <3>1, FigureIs DEF SeriesInv
    <3> QED
      BY <2>2, <3>2
<1>7. ASSUME NEW q \in Q
      PROVE  q.available \in Nat /\ q.available <= c
  <2>1. PICK year, place : q \in QuarterFrom(F, year, place)
    <3>1. q \in Quarters(F)
      BY <1>1
    <3> QED
      BY <3>1 DEF Quarters
  <2> QED
    BY <1>6, <2>1, QuarterKnown
<1> DEFINE Of(W) == [value |-> SumFunction([i \in 1..4 |-> W[i].value]), start |-> W[1].start,
                     end |-> W[4].end, available |-> AvailableFrom(W)]
<1>8. PICK W \in Stretches(ByEnd(Q), y, p, 3) : t.available = AvailableFrom(W)
  <2>1. Trailing(ByEnd(Q), y, p) = {Of(W) : W \in Stretches(ByEnd(Q), y, p, 3)}
    BY Zenon DEF Trailing
  <2>2. \A W : Of(W).available = AvailableFrom(W)
    OBVIOUS
  <2> HIDE DEF Of
  <2> QED
    BY <1>3, <2>1, <2>2
<1>9. W \in [1..4 -> Q]
  <2>1. W \in Windows(Q, y, p, 3)
    BY <1>5, StretchesAre
  <2> QED
    BY <2>1 DEF Windows
<1>10. IsSeen(W, 4, c)
  BY <1>7, <1>9 DEF IsSeen
<1> QED
  BY <1>8, <1>10, AvailableFromIs

LEMMA EventsTell ==
    ASSUME SeriesInv, EvidenceAssumption, NEW e \in Announced, NEW scope, NEW c \in Nat,
           NEW d \in EventFeatures(e, scope, c)
    PROVE  d.available = e.available
<1>1. e.available \in Nat
  BY DEF EvidenceAssumption
<1>2. ASSUME NEW code, d \in RatioToRevenue(e, code, scope, c)
      PROVE  d.available = e.available
  <2>1. PICK p \in Resolved(e, code) \X EventRevenue(scope, e.available) :
           d.available = LaterOf(e.available, p[2].available)
    BY <1>2 DEF RatioToRevenue
  <2>2. p[2] \in EventRevenue(scope, e.available)
    OBVIOUS
  <2>3. p[2].available \in Nat /\ p[2].available <= e.available
    BY <1>1, <2>2, RevenueKnown
  <2> QED
    BY <1>1, <2>1, <2>3 DEF LaterOf
<1>3. d \in CapacityChange(e) => d.available = e.available
  BY DEF CapacityChange
<1>4. d \in Stake(e) => d.available = e.available
  BY DEF Stake
<1> QED
  BY <1>2, <1>3, <1>4 DEF EventFeatures

-----------------------------------------------------------------------------
(* All the evidence.                                                       *)

\* What is told now has been since it says, or was told before.
TellsSince(before, now, c) == \A d \in now : d.is.available = c \/ d \in before

LEMMA TaggedSince ==
    ASSUME NEW A, NEW B, NEW c \in Nat, Since(A, B, c), NEW k
    PROVE  TellsSince(Tagged(k, A), Tagged(k, B), c)
<1>1. ASSUME NEW d \in Tagged(k, B), d.is.available # c
      PROVE  d \in Tagged(k, A)
  <2>1. PICK x \in B : d = [of |-> k, is |-> x]
    BY DEF Tagged
  <2>4. d.is = x
    BY <2>1
  <2>2. x.available \in Nat /\ (x.available < c => x \in A) /\ x.available <= c
    BY DEF Since, Foreseen
  <2>3. x.available < c
    BY <1>1, <2>2, <2>4
  <2> QED
    BY <2>1, <2>2, <2>3 DEF Tagged
<1> QED
  BY <1>1 DEF TellsSince

LEMMA MarketSince ==
    ASSUME NEW F, Gathered(F), NEW c \in Nat \ {0}, StillAbout(F, c), EvidenceAssumption,
           NEW d \in MarketFeatures(F, c)
    PROVE  \/ d.is.available = c \/ d \in MarketFeatures(F, c - 1)
           \/ d.of \in {"strength", "delivery"} /\ ~SameBars(F, c)
<1>1. PICK A, B : A = AdjustedSeries(F, c - 1) /\ B = AdjustedSeries(F, c)
  OBVIOUS
<1>2. /\ Since(CloseToAverage(A), CloseToAverage(B), c)
      /\ Since(ShortToMediumAverage(A), ShortToMediumAverage(B), c)
      /\ Since(ConsolidationRange(A), ConsolidationRange(B), c)
      /\ Since(ActivityLevel(A), ActivityLevel(B), c)
      /\ Since(ActivityRatio(A), ActivityRatio(B), c)
      /\ Since(BarDelivery(A), BarDelivery(B), c)
  BY <1>1, CloseSince, AveragesSince, ConsolidationSince, ActivitySince, ActivityRatioSince, BarDeliverySince
<1>3. /\ Since(Volatility(A, ShortWindow), Volatility(B, ShortWindow), c)
      /\ Since(Volatility(A, MediumWindow), Volatility(B, MediumWindow), c)
  BY <1>1, WindowsAre, VolatilitySince
<1>4. Since(VolatilityRatio(Volatility(A, ShortWindow), Volatility(A, MediumWindow)),
            VolatilityRatio(Volatility(B, ShortWindow), Volatility(B, MediumWindow)), c)
  BY <1>3, VolatilityRatioSince
<1>5. SameBars(F, c) => /\ Since(RelativeStrength(F, A, c - 1), RelativeStrength(F, B, c), c)
                        /\ Since(ReportedDelivery(F, A, c - 1), ReportedDelivery(F, B, c), c)
  BY <1>1, StrengthSince, DeliverySince
<1> DEFINE Whole(D, k) ==
             Tagged("close_to_average", CloseToAverage(D))
             \cup Tagged("average_to_average", ShortToMediumAverage(D))
             \cup Tagged("volatility_short", Volatility(D, ShortWindow))
             \cup Tagged("volatility_medium", Volatility(D, MediumWindow))
             \cup Tagged("volatility_ratio", VolatilityRatio(Volatility(D, ShortWindow), Volatility(D, MediumWindow)))
             \cup Tagged("consolidation", ConsolidationRange(D))
             \cup Tagged("activity", ActivityLevel(D))
             \cup Tagged("activity_ratio", ActivityRatio(D))
             \cup Tagged("bar_delivery", BarDelivery(D))
           Parted(D, k) == Tagged("strength", RelativeStrength(F, D, k))
                           \cup Tagged("delivery", ReportedDelivery(F, D, k))
<1>6. \A x, k : x \in MarketFeatures(F, k)
                  <=> x \in Whole(AdjustedSeries(F, k), k) \/ x \in Parted(AdjustedSeries(F, k), k)
  BY DEF MarketFeatures
<1>7. TellsSince(Whole(A, c - 1), Whole(B, c), c)
  <2>1. /\ TellsSince(Tagged("close_to_average", CloseToAverage(A)), Tagged("close_to_average", CloseToAverage(B)), c)
        /\ TellsSince(Tagged("average_to_average", ShortToMediumAverage(A)),
                      Tagged("average_to_average", ShortToMediumAverage(B)), c)
        /\ TellsSince(Tagged("consolidation", ConsolidationRange(A)), Tagged("consolidation", ConsolidationRange(B)), c)
        /\ TellsSince(Tagged("activity", ActivityLevel(A)), Tagged("activity", ActivityLevel(B)), c)
        /\ TellsSince(Tagged("activity_ratio", ActivityRatio(A)), Tagged("activity_ratio", ActivityRatio(B)), c)
        /\ TellsSince(Tagged("bar_delivery", BarDelivery(A)), Tagged("bar_delivery", BarDelivery(B)), c)
    BY <1>2, TaggedSince
  <2>2. /\ TellsSince(Tagged("volatility_short", Volatility(A, ShortWindow)),
                      Tagged("volatility_short", Volatility(B, ShortWindow)), c)
        /\ TellsSince(Tagged("volatility_medium", Volatility(A, MediumWindow)),
                      Tagged("volatility_medium", Volatility(B, MediumWindow)), c)
        /\ TellsSince(Tagged("volatility_ratio", VolatilityRatio(Volatility(A, ShortWindow), Volatility(A, MediumWindow))),
                      Tagged("volatility_ratio", VolatilityRatio(Volatility(B, ShortWindow), Volatility(B, MediumWindow))), c)
    BY <1>3, <1>4, TaggedSince
  <2> QED
    BY <2>1, <2>2 DEF TellsSince
<1>8. SameBars(F, c) => TellsSince(Parted(A, c - 1), Parted(B, c), c)
  <2>1. ASSUME SameBars(F, c)
        PROVE  /\ TellsSince(Tagged("strength", RelativeStrength(F, A, c - 1)), Tagged("strength", RelativeStrength(F, B, c)), c)
               /\ TellsSince(Tagged("delivery", ReportedDelivery(F, A, c - 1)), Tagged("delivery", ReportedDelivery(F, B, c)), c)
    BY <1>5, <2>1, TaggedSince
  <2> QED
    BY <2>1 DEF TellsSince
<1>9. \A x : x \in Parted(B, c) => x.of \in {"strength", "delivery"}
  BY DEF Tagged
<1> HIDE DEF Whole, Parted
<1>10. CASE d \in Whole(B, c)
  BY <1>1, <1>6, <1>7, <1>10 DEF TellsSince
<1>11. CASE d \in Parted(B, c)
  BY <1>1, <1>6, <1>8, <1>9, <1>11 DEF TellsSince
<1> QED
  BY <1>1, <1>6, <1>10, <1>11

LEMMA CountedSince ==
    ASSUME NEW S, NEW T, NEW c \in Nat,
           \A f \in T : f.available \in Nat /\ f.available <= c /\ (f.available # c => f \in S)
    PROVE  Since(Counted(S), Counted(T), c)
<1>1. ASSUME NEW x \in Counted(T)
      PROVE  /\ x.available \in Nat /\ x.available <= c
             /\ x.available # c => x \in Counted(S)
  <2>1. PICK f \in T : f.coverage = "complete" /\ x = [value |-> f.count, available |-> f.available]
    BY DEF Counted
  <2>2. f \in S => x \in Counted(S)
    BY <2>1 DEF Counted
  <2> QED
    BY <2>1, <2>2
<1> QED
  BY <1>1, SinceIs

LEMMA AttentionSince ==
    ASSUME NEW F, Gathered(F), NEW c \in Nat \ {0}, StillAbout(F, c), NEW d \in AttentionFeatures(F, c)
    PROVE  \/ d.is.available = c \/ d \in AttentionFeatures(F, c - 1)
           \/ d.of \in {"news", "analysts"} /\ Refused(F, c - 1)
<1> DEFINE News(k) == {f \in Observations(F, "news", k) : f.date = NewsWindow}
           Latest(k) == LatestOf(Observations(F, "analysts", k))
<1>1. \A k : AttentionFeatures(F, k) =
               IF Refused(F, k) THEN {}
               ELSE Tagged("news", Counted(News(k))) \cup Tagged("analysts", Counted(Latest(k)))
  BY Zenon DEF AttentionFeatures, LatestOf
<1>2. \A f \in News(c) : f.available \in Nat /\ f.available <= c /\ (f.available # c => f \in News(c - 1))
  BY ObservedSince
<1>3. \A f \in Latest(c) : f.available \in Nat /\ f.available <= c /\ (f.available # c => f \in Latest(c - 1))
  <2>1. \A f \in Latest(c) : f \in Observations(F, "analysts", c)
    BY DEF LatestOf
  <2> QED
    BY <2>1, ObservedSince, LatestSince
<1> HIDE DEF News, Latest
<1>4. Since(Counted(News(c - 1)), Counted(News(c)), c) /\ Since(Counted(Latest(c - 1)), Counted(Latest(c)), c)
  BY <1>2, <1>3, CountedSince
<1>5. /\ TellsSince(Tagged("news", Counted(News(c - 1))), Tagged("news", Counted(News(c))), c)
      /\ TellsSince(Tagged("analysts", Counted(Latest(c - 1))), Tagged("analysts", Counted(Latest(c))), c)
  BY <1>4, TaggedSince
<1>6. d \in Tagged("news", Counted(News(c))) \/ d \in Tagged("analysts", Counted(Latest(c)))
  BY <1>1
<1>7. d.of \in {"news", "analysts"}
  BY <1>6 DEF Tagged
<1>8. ~Refused(F, c - 1) => d.is.available = c \/ d \in AttentionFeatures(F, c - 1)
  BY <1>1, <1>5, <1>6 DEF TellsSince
<1> QED
  BY <1>7, <1>8

EvidenceInv == gathered \subseteq UNION Bundle /\ IsFiniteSet(gathered)

LEMMA GatheredIs ==
    ASSUME EvidenceAssumption, EvidenceInv, NEW F \in SUBSET gathered
    PROVE  Gathered(F)
<1>1. F \subseteq UNION Bundle /\ IsFiniteSet(F)
  BY FS_Subset DEF EvidenceInv
<1>2. \A f \in F : f.available \in Nat \ {0} /\ f.date \in Nat \ {0}
  BY <1>1 DEF EvidenceAssumption
<1>3. \A f \in F : f.kind = "attention" => f.revised \in Nat
  BY <1>1 DEF EvidenceAssumption, OfKind
<1>4. \A a, b \in OfKind(F, "bar") : a.date = b.date /\ a.available = b.available => a = b
  <2>1. OfKind(F, "bar") \subseteq OfKind(UNION Bundle, "bar")
    BY <1>1 DEF OfKind
  <2> QED
    BY <2>1 DEF EvidenceAssumption
<1> QED
  BY <1>1, <1>2, <1>3, <1>4 DEF Gathered, AreFacts

LEMMA EvidenceTells ==
    ASSUME EvidenceInv, SeriesInv
    PROVE  EvidenceTellsSince
<1>0. EvidenceAssumption
  BY EvidenceAssumption
<1>1. ASSUME NEW c \in {f.available : f \in gathered}, NEW day, NEW d \in FeaturesAsOf(c, day)
      PROVE  \/ d.is.available = c \/ d \in FeaturesAsOf(c - 1, day)
             \/ Moved(c) \/ Shifted(d.of, c)
             \/ d.of \in {"news", "analysts"} /\ Refused(gathered, c - 1)
  <2>1. PICK F : F = UpTo(gathered, day)
    OBVIOUS
  <2>2. F \in SUBSET gathered
    BY <2>1 DEF UpTo
  <2>3. Gathered(F) /\ Gathered(gathered)
    BY <1>0, <2>2, GatheredIs
  <2>4. c \in Nat \ {0}
    BY <2>3 DEF Gathered
  <2>5. ~Moved(c) => StillAbout(gathered, c) /\ StillAbout(F, c)
    <3>1. ~Moved(c) => StillAbout(gathered, c)
      <4>1. ASSUME ~Moved(c), NEW f \in gathered, NEW g \in gathered,
                   f.kind = g.kind, f.kind \in {"action", "attention"}, f.external = g.external,
                   f.available < c, g.available = c
            PROVE  Subject(f) = Subject(g)
        BY <4>1, Zenon DEF Moved
      <4> QED
        BY <4>1, Zenon DEF StillAbout
    <3>2. StillAbout(gathered, c) => StillAbout(F, c)
      BY <2>2 DEF StillAbout
    <3> QED
      BY <3>1, <3>2
  <2>6. ASSUME ~SameBars(F, c), d.of \in {"strength", "delivery"}
        PROVE  Shifted(d.of, c)
    <3>1. PICK b \in F : b.kind = "bar" /\ b.available = c
      BY <2>6 DEF SameBars
    <3>2. b \in Visible(gathered, "bar", c)
      BY <2>2, <2>4, <3>1 DEF Visible, OfKind
    <3> QED
      BY <2>6, <3>1, <3>2 DEF Shifted
  <2>7. d \in MarketFeatures(F, c) \/ d \in AttentionFeatures(gathered, c)
    BY <2>1 DEF FeaturesAsOf
  <2>8. \A x : x \in MarketFeatures(F, c - 1) \/ x \in AttentionFeatures(gathered, c - 1)
                  => x \in FeaturesAsOf(c - 1, day)
    BY <2>1 DEF FeaturesAsOf
  <2>9. ASSUME ~Moved(c), d \in MarketFeatures(F, c)
        PROVE  \/ d.is.available = c \/ d \in MarketFeatures(F, c - 1)
               \/ d.of \in {"strength", "delivery"} /\ ~SameBars(F, c)
    BY <1>0, <2>3, <2>4, <2>5, <2>9, MarketSince
  <2>10. ASSUME ~Moved(c), d \in AttentionFeatures(gathered, c)
         PROVE  \/ d.is.available = c \/ d \in AttentionFeatures(gathered, c - 1)
                \/ d.of \in {"news", "analysts"} /\ Refused(gathered, c - 1)
    BY <2>3, <2>4, <2>5, <2>10, AttentionSince
  <2> QED
    BY <2>6, <2>7, <2>8, <2>9, <2>10
<1>2. ASSUME NEW e \in Announced, NEW scope \in Scopes, NEW c \in e.available..today,
             NEW d \in EventFeatures(e, scope, c)
      PROVE  d.available = e.available
  <2>1. e.available \in Nat /\ today \in Nat
    BY <1>0 DEF EvidenceAssumption, SeriesInv
  <2>2. c \in Nat
    BY <2>1
  <2> QED
    <3>1. SeriesInv /\ e \in Announced /\ d \in EventFeatures(e, scope, c)
      OBVIOUS
    <3>2. EvidenceAssumption => (\A k \in Nat : \A x \in EventFeatures(e, scope, k) : x.available = e.available)
      BY <3>1, EventsTell
    <3> QED
      BY <1>0, <2>2, <3>1, <3>2
<1> QED
  BY <1>1, <1>2, Zenon DEF EvidenceTellsSince

LEMMA EvidenceKept == EvidenceSpec => []EvidenceInv
<1>1. EvidenceInit => EvidenceInv
  BY FS_EmptySet DEF EvidenceInit, EvidenceInv
<1>2. EvidenceInv /\ [EvidenceNext]_efVars => EvidenceInv'
  <2>1. ASSUME EvidenceInv, NEW facts \in Bundle, Load(facts)
        PROVE  EvidenceInv'
    <3>1. gathered' = gathered \cup facts
      BY <2>1 DEF Load
    <3>2. IsFiniteSet(gathered) /\ IsFiniteSet(facts) /\ gathered \subseteq UNION Bundle /\ facts \subseteq UNION Bundle
      BY <2>1, EvidenceAssumption DEF EvidenceInv, EvidenceAssumption
    <3>3. IsFiniteSet(gathered \cup facts)
      BY <3>2, FS_Union
    <3> QED
      BY <3>1, <3>2, <3>3 DEF EvidenceInv
  <2>2. ASSUME EvidenceInv, UNCHANGED efVars
        PROVE  EvidenceInv'
    BY <2>2 DEF EvidenceInv, efVars
  <2> QED
    BY <2>1, <2>2 DEF EvidenceNext
<1> QED
  BY <1>1, <1>2, PTL DEF EvidenceSpec

\* What is gathered comes from the bundles.
THEOREM EvidenceTyped == EvidenceSpec => []EvidenceTypeOK
<1>1. EvidenceInv => EvidenceTypeOK
  BY DEF EvidenceInv, EvidenceTypeOK
<1> QED
  BY <1>1, EvidenceKept, PTL

\* Whatever order evidence is loaded in, what a market, attention or event feature claims to
\* have been known since a day is what research derived at that day's cutoff, but for the
\* three gaps the property names (the market, attention and business event features of
\* production_research).
THEOREM EvidenceToldSince == EvidenceSpec /\ SeriesSpec => []EvidenceTellsSince
  BY EvidenceKept, SeriesInvariant, EvidenceTells, PTL
=============================================================================
