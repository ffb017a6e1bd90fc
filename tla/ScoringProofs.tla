---------------------------- MODULE ScoringProofs ----------------------------
(***************************************************************************)
(* Proofs about ComponentScoring, for any policy, any bundles and any      *)
(* precision of two digits or more.                                        *)
(*                                                                         *)
(* A decimal operation rounds an exact fraction to the nearest decimal     *)
(* (RoundsTo).  So it keeps the order of its arguments, and no improvement *)
(* lowers a score; and it errs by half a unit of its last digit at most,   *)
(* or not at all once a sum would leave the scale, and scores stay on it.  *)
(***************************************************************************)
EXTENDS ComponentScoring, ResearchProofs

-----------------------------------------------------------------------------
(* Powers of ten and digits: two recursive functions.                      *)

\* A function up to n that refers to a smaller argument.
Recurs(g, n, base, prev, step) ==
    /\ g \in [0..n -> Nat]
    /\ \A i \in 0..n : g[i] = IF i = 0 THEN base ELSE step[g[prev[i]]]

AgreeUpto(g, h, n) == \A i \in 0..n : g[i] = h[i]

\* Two such functions agree where both are defined.
LEMMA RecursionAgrees ==
    ASSUME NEW base \in Nat, NEW prev \in [Nat -> Nat], \A n \in Nat \ {0} : prev[n] < n,
           NEW step \in [Nat -> Nat], NEW n \in Nat, NEW k \in Nat, n <= k, NEW g, NEW h,
           Recurs(g, n, base, prev, step), Recurs(h, k, base, prev, step)
    PROVE  AgreeUpto(g, h, n)
<1> SUFFICES \A i \in 0..n : g[i] = h[i]
  BY DEF AgreeUpto
<1> DEFINE B == {i \in 0..n : g[i] # h[i]}
<1>1. B \in SUBSET Nat
  OBVIOUS
<1> SUFFICES ASSUME B # {}
             PROVE  FALSE
  OBVIOUS
<1> HIDE DEF B
<1>2. PICK i \in B : \A j \in B : i <= j
  BY <1>1, LeastOf
<1>3. i \in 0..n /\ i \in 0..k /\ i \in Nat /\ g[i] # h[i]
  BY DEF B
<1>4. /\ g[i] = IF i = 0 THEN base ELSE step[g[prev[i]]]
      /\ h[i] = IF i = 0 THEN base ELSE step[h[prev[i]]]
  BY <1>3 DEF Recurs
<1>5. i # 0
  BY <1>3, <1>4
<1>6. prev[i] \in 0..n /\ prev[i] < i
  BY <1>3, <1>5
<1>7. prev[i] \notin B
  BY <1>2, <1>3, <1>6
<1>8. g[prev[i]] = h[prev[i]]
  BY <1>6, <1>7 DEF B
<1> QED
  BY <1>3, <1>4, <1>5, <1>8

LEMMA RecursionGoesOn ==
    ASSUME NEW base \in Nat, NEW prev \in [Nat -> Nat], \A n \in Nat \ {0} : prev[n] < n,
           NEW step \in [Nat -> Nat], NEW n \in Nat, NEW g, Recurs(g, n, base, prev, step)
    PROVE  \E h : Recurs(h, n + 1, base, prev, step)
<1> DEFINE last == step[g[prev[n + 1]]]
           h == [i \in 0..n + 1 |-> IF i <= n THEN g[i] ELSE last]
<1>1. prev[n + 1] \in 0..n
  <2>1. n + 1 \in Nat \ {0} /\ prev[n + 1] \in Nat /\ prev[n + 1] < n + 1
    OBVIOUS
  <2> QED
    BY <2>1
<1>2. g[prev[n + 1]] \in Nat /\ last \in Nat
  BY <1>1 DEF Recurs
<1> HIDE DEF last
<1>0. \A i \in 0..n : i \in 0..n + 1 /\ i <= n
  OBVIOUS
<1>3. \A i \in 0..n : h[i] = g[i] /\ g[i] \in Nat
  <2>1. \A i \in 0..n : g[i] \in Nat
    BY DEF Recurs
  <2> QED
    BY <1>0, <2>1
<1>4. h[n + 1] = last /\ last = step[g[prev[n + 1]]]
  <2>1. n + 1 \in 0..n + 1 /\ ~(n + 1 <= n)
    OBVIOUS
  <2> QED
    BY <2>1 DEF last
<1>5. \A i \in 0..n + 1 : i \in 0..n \/ i = n + 1
  OBVIOUS
<1>6. h \in [0..n + 1 -> Nat]
  BY <1>2, <1>3, <1>4, <1>5
<1> HIDE DEF h
<1>7. ASSUME NEW i \in 0..n
      PROVE  h[i] = IF i = 0 THEN base ELSE step[h[prev[i]]]
  <2>1. CASE i = 0
    BY <1>3, <2>1 DEF Recurs
  <2>2. CASE i # 0
    <3>1. i \in Nat \ {0} /\ prev[i] \in Nat /\ prev[i] < i
      BY <2>2
    <3>2. prev[i] \in 0..n
      BY <3>1
    <3>3. g[i] = step[g[prev[i]]]
      BY <2>2 DEF Recurs
    <3> QED
      BY <1>3, <2>2, <3>2, <3>3
  <2> QED
    BY <2>1, <2>2
<1>8. h[n + 1] = step[h[prev[n + 1]]] /\ n + 1 # 0
  BY <1>1, <1>3, <1>4
<1>9. \A i \in 0..n + 1 : h[i] = IF i = 0 THEN base ELSE step[h[prev[i]]]
  BY <1>5, <1>7, <1>8
<1> QED
  BY <1>6, <1>9 DEF Recurs

Unfolds(f, base, prev, step) ==
    \A n \in Nat : f[n] = IF n = 0 THEN base ELSE step[f[prev[n]]]

\* A function on the naturals that refers to a smaller argument exists.
LEMMA RecursionReaches ==
    ASSUME NEW base \in Nat, NEW prev \in [Nat -> Nat], \A n \in Nat \ {0} : prev[n] < n,
           NEW step \in [Nat -> Nat]
    PROVE  \E f \in [Nat -> Nat] : Unfolds(f, base, prev, step)
<1> DEFINE Upto(g, n) == Recurs(g, n, base, prev, step)
<1>1. \A n \in Nat : \E g : Upto(g, n)
  <2> DEFINE B == {n \in Nat : ~ \E g : Upto(g, n)}
  <2>1. B \in SUBSET Nat
    OBVIOUS
  <2>2. 0 \notin B
    <3>1. Upto([i \in 0..0 |-> base], 0)
      BY DEF Recurs
    <3> QED
      BY <3>1
  <2>3. \A n \in Nat : n \notin B => n + 1 \notin B
    BY RecursionGoesOn
  <2> HIDE DEF B
  <2>4. B = {}
    <3> SUFFICES ASSUME B # {}
                 PROVE  FALSE
      OBVIOUS
    <3>1. PICK n \in B : \A j \in B : n <= j
      BY <2>1, LeastOf
    <3>2. n \in Nat /\ n # 0
      BY <2>1, <2>2
    <3>3. n - 1 \in Nat /\ (n - 1) + 1 = n
      BY <3>2
    <3>4. n - 1 \in B
      BY <2>3, <3>3
    <3> QED
      BY <3>1, <3>2, <3>4
  <2> QED
    BY <2>4 DEF B
<1> DEFINE G(n) == CHOOSE g : Upto(g, n)
           f == [n \in Nat |-> G(n)[n]]
<1>2. \A n \in Nat : Upto(G(n), n)
  BY <1>1
<1> HIDE DEF G, Upto
<1>3. \A n \in Nat : n \in 0..n
  OBVIOUS
<1>4. \A n \in Nat : G(n)[n] \in Nat
  BY <1>2, <1>3 DEF Upto, Recurs
<1>5. f \in [Nat -> Nat]
  BY <1>4
<1>6. ASSUME NEW n \in Nat
      PROVE  G(n)[n] = IF n = 0 THEN base ELSE step[G(prev[n])[prev[n]]]
  <2>1. G(n)[n] = IF n = 0 THEN base ELSE step[G(n)[prev[n]]]
    BY <1>2, <1>3 DEF Upto, Recurs
  <2>2. CASE n # 0
    <3>1. prev[n] \in Nat /\ prev[n] <= n
      BY <2>2
    <3>2. Recurs(G(n), n, base, prev, step) /\ Recurs(G(prev[n]), prev[n], base, prev, step)
      BY <1>2, <3>1 DEF Upto
    <3>3. G(prev[n])[prev[n]] = G(n)[prev[n]]
      <4>1. \A i \in 0..prev[n] : G(prev[n])[i] = G(n)[i]
        <5>1. PICK p, g, h : p \in Nat /\ p = prev[n] /\ g = G(p) /\ h = G(n)
          BY <3>1
        <5>2. Recurs(g, p, base, prev, step) /\ Recurs(h, n, base, prev, step) /\ p <= n
          BY <3>1, <3>2, <5>1
        <5>3. AgreeUpto(g, h, p)
          BY <5>1, <5>2, RecursionAgrees
        <5> QED
          BY <5>1, <5>3 DEF AgreeUpto
      <4> QED
        BY <1>3, <3>1, <4>1
    <3> QED
      BY <2>1, <3>3
  <2> QED
    BY <2>1, <2>2
<1>7. \A n \in Nat : f[n] = IF n = 0 THEN base ELSE step[f[prev[n]]]
  BY <1>6
<1> QED
  BY <1>5, <1>7 DEF Unfolds

\* Induction on the naturals, for a set of them.
LEMMA FromOneToTheNext ==
    ASSUME NEW G \in SUBSET Nat, 0 \in G, \A n \in Nat : n \in G => n + 1 \in G
    PROVE  G = Nat
<1> DEFINE B == Nat \ G
<1> SUFFICES ASSUME B # {}
             PROVE  FALSE
  OBVIOUS
<1> HIDE DEF B
<1>1. PICK n \in B : \A j \in B : n <= j
  <2>1. B \in SUBSET Nat
    BY DEF B
  <2> QED
    BY <2>1, LeastOf
<1>2. n \in Nat /\ n # 0 /\ n \notin G
  BY DEF B
<1>3. n - 1 \in Nat /\ (n - 1) + 1 = n
  BY <1>2
<1>4. n - 1 \in B
  BY <1>2, <1>3 DEF B
<1> QED
  BY <1>1, <1>2, <1>4

LEMMA PowersOfTen ==
    /\ PowerOfTen \in [Nat -> Nat]
    /\ PowerOfTen[0] = 1
    /\ \A k \in Nat : PowerOfTen[k + 1] = 10 * PowerOfTen[k]
<1> DEFINE prev == [n \in Nat |-> IF n = 0 THEN 0 ELSE n - 1]
           step == [v \in Nat |-> 10 * v]
<1>1. prev \in [Nat -> Nat] /\ step \in [Nat -> Nat] /\ \A n \in Nat \ {0} : prev[n] < n
  OBVIOUS
<1> HIDE DEF prev, step
<1>2. PICK f \in [Nat -> Nat] : Unfolds(f, 1, prev, step)
  <2>1. 1 \in Nat /\ 0 \in Nat
    OBVIOUS
  <2> QED
    BY <1>1, <2>1, RecursionReaches
<1>3. \A n \in Nat : n # 0 => step[f[prev[n]]] = 10 * f[n - 1]
  BY DEF prev, step
<1>4. f = [n \in Nat |-> IF n = 0 THEN 1 ELSE 10 * f[n - 1]]
  BY <1>2, <1>3 DEF Unfolds
<1>5. PowerOfTen = [n \in Nat |-> IF n = 0 THEN 1 ELSE 10 * PowerOfTen[n - 1]]
  BY <1>4 DEF PowerOfTen
<1> DEFINE B == {k \in Nat : PowerOfTen[k] \notin Nat}
<1>6. PowerOfTen[0] = 1 /\ \A k \in Nat : PowerOfTen[k + 1] = 10 * PowerOfTen[k]
  <2>1. \A k \in Nat : k + 1 \in Nat /\ k + 1 # 0 /\ (k + 1) - 1 = k
    OBVIOUS
  <2> QED
    BY <1>5, <2>1
<1>7. B = {}
  <2> SUFFICES ASSUME B # {}
               PROVE  FALSE
    OBVIOUS
  <2>1. PICK n \in B : \A j \in B : n <= j
    <3>1. B \in SUBSET Nat /\ B # {}
      OBVIOUS
    <3> HIDE DEF B
    <3> QED
      BY <3>1, LeastOf
  <2>2. n # 0
    BY <1>6
  <2>3. n - 1 \in Nat /\ n - 1 \notin B /\ n = (n - 1) + 1
    BY <2>1, <2>2
  <2>4. PowerOfTen[n - 1] \in Nat /\ PowerOfTen[(n - 1) + 1] = 10 * PowerOfTen[n - 1]
    BY <1>6, <2>3
  <2> QED
    BY <2>3, <2>4
<1>8. DOMAIN PowerOfTen = Nat /\ PowerOfTen = [n \in Nat |-> PowerOfTen[n]]
  BY <1>5
<1> QED
  BY <1>6, <1>7, <1>8

LEMMA DigitsAre ==
    /\ DigitsOf \in [Nat -> Nat]
    /\ DigitsOf[0] = 0
    /\ \A n \in Nat \ {0} : DigitsOf[n] = 1 + DigitsOf[n \div 10]
<1> DEFINE prev == [n \in Nat |-> n \div 10]
           step == [v \in Nat |-> 1 + v]
<1>1. prev \in [Nat -> Nat] /\ step \in [Nat -> Nat] /\ \A n \in Nat \ {0} : prev[n] < n
  OBVIOUS
<1> HIDE DEF prev, step
<1>2. PICK f \in [Nat -> Nat] : Unfolds(f, 0, prev, step)
  <2>1. 1 \in Nat /\ 0 \in Nat
    OBVIOUS
  <2> QED
    BY <1>1, <2>1, RecursionReaches
<1>3. \A n \in Nat : step[f[prev[n]]] = 1 + f[n \div 10]
  BY DEF prev, step
<1>4. f = [n \in Nat |-> IF n = 0 THEN 0 ELSE 1 + f[n \div 10]]
  BY <1>2, <1>3 DEF Unfolds
<1>5. DigitsOf = [n \in Nat |-> IF n = 0 THEN 0 ELSE 1 + DigitsOf[n \div 10]]
  BY <1>4 DEF DigitsOf
<1> DEFINE B == {k \in Nat : DigitsOf[k] \notin Nat}
<1>6. B = {}
  <2> SUFFICES ASSUME B # {}
               PROVE  FALSE
    OBVIOUS
  <2>1. PICK n \in B : \A j \in B : n <= j
    <3>1. B \in SUBSET Nat /\ B # {}
      OBVIOUS
    <3> HIDE DEF B
    <3> QED
      BY <3>1, LeastOf
  <2>2. n # 0
    BY <1>5
  <2>3. n \div 10 \in Nat /\ n \div 10 < n
    BY <2>2
  <2>4. n \div 10 \notin B
    BY <2>1, <2>3
  <2>5. DigitsOf[n \div 10] \in Nat /\ DigitsOf[n] = 1 + DigitsOf[n \div 10]
    BY <1>5, <2>2, <2>3, <2>4
  <2> QED
    BY <2>5
<1>7. DOMAIN DigitsOf = Nat /\ DigitsOf = [n \in Nat |-> DigitsOf[n]]
  BY <1>5
<1> QED
  BY <1>5, <1>6, <1>7

LEMMA TenPositive ==
    ASSUME NEW k \in Nat
    PROVE  PowerOfTen[k] \in Nat \ {0} /\ PowerOfTen[k + 1] = 10 * PowerOfTen[k]
<1> DEFINE G == {n \in Nat : PowerOfTen[n] # 0}
<1>1. G \in SUBSET Nat /\ 0 \in G
  BY PowersOfTen
<1>2. ASSUME NEW n \in Nat, n \in G
      PROVE  n + 1 \in G
  <2>1. PICK t \in Nat : t = PowerOfTen[n]
    BY PowersOfTen
  <2>2. t # 0 /\ PowerOfTen[n + 1] = 10 * t
    BY <1>2, <2>1, PowersOfTen
  <2> QED
    BY <2>2
<1> HIDE DEF G
<1>3. G = Nat
  BY <1>1, <1>2, FromOneToTheNext
<1> QED
  BY <1>3, PowersOfTen DEF G

LEMMA TenOfSum ==
    ASSUME NEW a \in Nat, NEW b \in Nat
    PROVE  PowerOfTen[a + b] = PowerOfTen[a] * PowerOfTen[b]
<1> DEFINE G == {n \in Nat : PowerOfTen[a + n] = PowerOfTen[a] * PowerOfTen[n]}
<1>1. G \in SUBSET Nat /\ 0 \in G
  <2>1. PICK t \in Nat : t = PowerOfTen[a]
    BY PowersOfTen
  <2>2. a + 0 = a /\ t * 1 = t
    OBVIOUS
  <2> QED
    BY <2>1, <2>2, PowersOfTen
<1>2. ASSUME NEW n \in Nat, n \in G
      PROVE  n + 1 \in G
  <2>1. PICK s \in Nat, t \in Nat, r \in Nat :
           s = PowerOfTen[a] /\ t = PowerOfTen[n] /\ r = PowerOfTen[a + n]
    <3>1. a + n \in Nat
      OBVIOUS
    <3> QED
      BY <3>1, TenPositive
  <2>2. PowerOfTen[n + 1] = 10 * t /\ PowerOfTen[(a + n) + 1] = 10 * r
    BY <2>1, PowersOfTen
  <2>3. r = s * t
    BY <1>2, <2>1
  <2>4. 10 * r = s * (10 * t) /\ (a + n) + 1 = a + (n + 1)
    BY <2>3
  <2> QED
    BY <2>1, <2>2, <2>4
<1> HIDE DEF G
<1>3. G = Nat
  BY <1>1, <1>2, FromOneToTheNext
<1> QED
  BY <1>3 DEF G

LEMMA TenGrows ==
    ASSUME NEW a \in Nat, NEW b \in Nat, a < b
    PROVE  10 * PowerOfTen[a] <= PowerOfTen[b]
<1>1. PICK c \in Nat : b = (a + 1) + c
  <2>1. b - (a + 1) \in Nat /\ b = (a + 1) + (b - (a + 1))
    OBVIOUS
  <2> QED
    BY <2>1
<1>2. PICK s \in Nat, t \in Nat \ {0} : s = PowerOfTen[a] /\ t = PowerOfTen[c]
  BY TenPositive
<1>3. PowerOfTen[a + 1] = 10 * s /\ a + 1 \in Nat
  BY <1>2, TenPositive
<1>4. PowerOfTen[b] = (10 * s) * t
  BY <1>1, <1>2, <1>3, TenOfSum
<1>5. 10 * s \in Nat /\ 10 * s <= (10 * s) * t
  OBVIOUS
<1> QED
  BY <1>2, <1>4, <1>5

LEMMA TenthOf ==
    ASSUME NEW m \in Nat
    PROVE  \E q \in Nat, r \in 0..9 : q = m \div 10 /\ m = 10 * q + r
<1>1. PICK q \in Nat : q = m \div 10
  OBVIOUS
<1>2. 10 * q <= m /\ m < 10 * q + 10
  BY <1>1
<1>3. m - 10 * q \in 0..9 /\ m = 10 * q + (m - 10 * q)
  BY <1>2
<1> QED
  BY <1>1, <1>3

LEMMA DigitsBound ==
    ASSUME NEW n \in Nat \ {0}
    PROVE  /\ DigitsOf[n] \in Nat \ {0}
           /\ PowerOfTen[DigitsOf[n] - 1] <= n /\ n < PowerOfTen[DigitsOf[n]]
<1> DEFINE Good(m) == /\ DigitsOf[m] \in Nat \ {0}
                      /\ PowerOfTen[DigitsOf[m] - 1] <= m /\ m < PowerOfTen[DigitsOf[m]]
           B == {m \in Nat \ {0} : ~Good(m)}
<1>1. ASSUME NEW m \in Nat \ {0}, \A j \in Nat \ {0} : j < m => Good(j)
      PROVE  Good(m)
  <2>1. DigitsOf[m] = 1 + DigitsOf[m \div 10]
    BY DigitsAre
  <2>2. PICK q \in Nat, r \in 0..9 : q = m \div 10 /\ m = 10 * q + r
    BY TenthOf
  <2>3. CASE q = 0
    <3>1. DigitsOf[m] = 1 /\ PowerOfTen[0] = 1 /\ PowerOfTen[0 + 1] = 10 * 1
      BY <2>1, <2>2, <2>3, DigitsAre, PowersOfTen
    <3>2. 1 - 1 = 0 /\ 0 + 1 = 1
      OBVIOUS
    <3> QED
      BY <2>2, <2>3, <3>1, <3>2
  <2>4. CASE q # 0
    <3>1. q \in Nat \ {0} /\ q < m
      BY <2>2, <2>4
    <3>2. Good(q)
      BY <1>1, <3>1
    <3>3. PICK d \in Nat \ {0} : d = DigitsOf[q]
      BY <3>2
    <3>4. d - 1 \in Nat /\ (d - 1) + 1 = d /\ (d + 1) - 1 = d
      OBVIOUS
    <3>5. PICK t \in Nat : t = PowerOfTen[d - 1]
      BY <3>4, TenPositive
    <3>6. PowerOfTen[d] = 10 * t /\ PowerOfTen[d + 1] = 10 * (10 * t)
      BY <3>4, <3>5, TenPositive
    <3>7. t <= q /\ q < 10 * t
      BY <3>2, <3>3, <3>5, <3>6
    <3>8. 10 * t <= m /\ m < 10 * (10 * t)
      BY <2>2, <3>7
    <3>9. DigitsOf[m] = d + 1
      BY <2>1, <2>2, <3>3
    <3> QED
      BY <3>4, <3>6, <3>8, <3>9
  <2> QED
    BY <2>3, <2>4
<1> HIDE DEF Good
<1>2. B = {}
  <2> SUFFICES ASSUME B # {}
               PROVE  FALSE
    OBVIOUS
  <2>1. PICK m \in B : \A j \in B : m <= j
    <3>1. B \in SUBSET Nat /\ B # {}
      OBVIOUS
    <3> HIDE DEF B
    <3> QED
      BY <3>1, LeastOf
  <2>2. \A j \in Nat \ {0} : j < m => Good(j)
    BY <2>1
  <2> QED
    BY <1>1, <2>2
<1> QED
  BY <1>2 DEF Good

\* The number of digits, from the powers of ten around a number.
LEMMA DigitsFrom ==
    ASSUME NEW n \in Nat \ {0}, NEW k \in Nat, PowerOfTen[k] <= n, n < PowerOfTen[k + 1]
    PROVE  DigitsOf[n] = k + 1
<1>1. PICK d \in Nat \ {0} : d = DigitsOf[n]
  BY DigitsBound
<1>2. d - 1 \in Nat /\ PowerOfTen[d - 1] <= n /\ n < PowerOfTen[d] /\ k + 1 \in Nat
  BY <1>1, DigitsBound
<1>3. PICK s \in Nat \ {0}, t \in Nat \ {0}, a \in Nat \ {0}, b \in Nat \ {0} :
         /\ s = PowerOfTen[d - 1] /\ t = PowerOfTen[d]
         /\ a = PowerOfTen[k] /\ b = PowerOfTen[k + 1]
  BY <1>2, TenPositive
<1>4. CASE d < k + 1
  <2>1. d = k \/ d < k
    BY <1>4
  <2>2. t <= a
    BY <1>3, <2>1, TenGrows
  <2> QED
    BY <1>2, <1>3, <2>2
<1>5. CASE k + 1 < d
  <2>1. k + 1 = d - 1 \/ k + 1 < d - 1
    BY <1>5
  <2>2. b <= s
    BY <1>2, <1>3, <2>1, TenGrows
  <2> QED
    BY <1>2, <1>3, <2>2
<1> QED
  BY <1>1, <1>4, <1>5

-----------------------------------------------------------------------------
(* Rounding to the nearest, half to even.                                  *)

Nearest(h, n, u) ==
    /\ h \in Nat
    /\ 2 * n - u <= 2 * (h * u) /\ 2 * (h * u) <= 2 * n + u
    /\ 2 * (h * u) \in {2 * n - u, 2 * n + u} => h % 2 = 0

LEMMA HalfEvenIsNearest ==
    ASSUME NEW n \in Nat, NEW u \in Nat \ {0}
    PROVE  Nearest(HalfEven(n, u), n, u)
<1>1. PICK q \in Nat, r \in Nat : q = n \div u /\ r = n % u
  OBVIOUS
<1>2. r < u /\ n = u * q + r
  BY <1>1
<1>3. PICK p \in Nat : p = u * q
  OBVIOUS
<1>4. q * u = p /\ (q + 1) * u = p + u
  BY <1>3
<1>5. CASE 2 * r > u \/ (2 * r = u /\ q % 2 = 1)
  <2>1. HalfEven(n, u) = q + 1
    BY <1>1, <1>5 DEF HalfEven
  <2>2. q % 2 = 1 => (q + 1) % 2 = 0
    OBVIOUS
  <2>3. 2 * n = 2 * p + 2 * r /\ 2 * ((q + 1) * u) = 2 * p + 2 * u
    BY <1>2, <1>3, <1>4
  <2>4. 2 * (p + u) \in {2 * n - u, 2 * n + u} => 2 * r = u
    BY <1>2, <2>3
  <2> QED
    BY <1>2, <1>4, <1>5, <2>1, <2>2, <2>3, <2>4 DEF Nearest
<1>6. CASE ~(2 * r > u \/ (2 * r = u /\ q % 2 = 1))
  <2>1. HalfEven(n, u) = q
    BY <1>1, <1>6 DEF HalfEven
  <2>2. q % 2 \in {0, 1}
    OBVIOUS
  <2>3. 2 * n = 2 * p + 2 * r
    BY <1>2, <1>3
  <2>4. 2 * p \in {2 * n - u, 2 * n + u} => 2 * r = u
    BY <1>2, <2>3
  <2> QED
    BY <1>2, <1>4, <1>6, <2>1, <2>2, <2>3, <2>4 DEF Nearest
<1> QED
  BY <1>5, <1>6

\* What is nearest to the smaller of two fractions is not larger.
LEMMA NearestInOrder ==
    ASSUME NEW n \in Nat, NEW u \in Nat \ {0}, NEW m \in Nat, NEW v \in Nat \ {0},
           n * v <= m * u, NEW h, NEW g, Nearest(h, n, u), Nearest(g, m, v)
    PROVE  h <= g
<1>1. h \in Nat /\ g \in Nat
  BY DEF Nearest
<1> SUFFICES ASSUME g < h
             PROVE  FALSE
  BY <1>1
<1>2. PICK k \in Nat : h = g + 1 + k
  <2>1. h - (g + 1) \in Nat /\ h = g + 1 + (h - (g + 1))
    BY <1>1
  <2> QED
    BY <2>1
<1>3. 2 * (h * u) <= 2 * n + u /\ 2 * m - v <= 2 * (g * v)
  BY DEF Nearest
<1>4. PICK a \in Nat, b \in Nat, c \in Nat, d \in Nat, w \in Nat, e \in Nat :
         /\ a = n * v /\ b = m * u /\ c = g * (u * v) /\ d = k * (u * v) /\ w = u * v
         /\ e = h * (u * v)
  BY <1>1
<1>5. w > 0
  <2>1. u * v > 0
    OBVIOUS
  <2> QED
    BY <1>4, <2>1
<1>6. e = c + w + d
  BY <1>1, <1>2, <1>4
<1>7. 2 * e <= 2 * a + w
  <2>1. (2 * (h * u)) * v <= (2 * n + u) * v
    BY <1>1, <1>3
  <2>2. (2 * (h * u)) * v = 2 * e /\ (2 * n + u) * v = 2 * a + w
    BY <1>1, <1>4
  <2> QED
    BY <2>1, <2>2
<1>8. 2 * b - w <= 2 * c
  <2>1. (2 * m - v) * u <= (2 * (g * v)) * u
    BY <1>1, <1>3
  <2>2. (2 * (g * v)) * u = 2 * c /\ (2 * m - v) * u = 2 * b - w
    BY <1>1, <1>4
  <2> QED
    BY <2>1, <2>2
<1>9. a <= b
  BY <1>4
<1>10. d = 0 /\ a = b /\ 2 * e = 2 * a + w /\ 2 * b - w = 2 * c
  BY <1>5, <1>6, <1>7, <1>8, <1>9
<1>11. k = 0
  BY <1>4, <1>5, <1>10
<1>12. 2 * (h * u) = 2 * n + u
  <2>1. (2 * (h * u)) * v = (2 * n + u) * v
    BY <1>1, <1>4, <1>10
  <2>2. PICK x \in Nat, y \in Nat : x = 2 * (h * u) /\ y = 2 * n + u /\ x <= y
    BY <1>1, <1>3
  <2>3. x * v = y * v
    BY <2>1, <2>2
  <2>4. x = y
    BY <2>2, <2>3
  <2> QED
    BY <2>2, <2>4
<1>13. 2 * (g * v) = 2 * m - v
  <2>1. (2 * (g * v)) * u = (2 * m - v) * u
    BY <1>1, <1>4, <1>10
  <2>2. PICK x \in Int, y \in Int : x = 2 * (g * v) /\ y = 2 * m - v /\ y <= x
    BY <1>1, <1>3
  <2>3. x * u = y * u
    BY <2>1, <2>2
  <2>4. x = y
    BY <2>2, <2>3
  <2> QED
    BY <2>2, <2>4
<1>14. h % 2 = 0 /\ g % 2 = 0
  BY <1>12, <1>13 DEF Nearest
<1> QED
  BY <1>1, <1>2, <1>11, <1>14

LEMMA HalfEvenInOrder ==
    ASSUME NEW n \in Nat, NEW u \in Nat \ {0}, NEW m \in Nat, NEW v \in Nat \ {0},
           n * v <= m * u
    PROVE  HalfEven(n, u) <= HalfEven(m, v)
  BY HalfEvenIsNearest, NearestInOrder

LEMMA HalfEvenExact ==
    ASSUME NEW q \in Nat, NEW u \in Nat \ {0}
    PROVE  HalfEven(q * u, u) = q
<1>1. PICK n \in Nat : n = q * u
  OBVIOUS
<1>2. Nearest(q, n, u)
  <2>1. 2 * n \notin {2 * n - u, 2 * n + u} /\ 2 * n - u <= 2 * n /\ 2 * n <= 2 * n + u
    OBVIOUS
  <2> QED
    BY <1>1, <2>1 DEF Nearest
<1>3. PICK h \in Nat : h = HalfEven(n, u) /\ Nearest(h, n, u)
  BY HalfEvenIsNearest DEF Nearest
<1>4. n * u <= n * u
  OBVIOUS
<1>5. q <= h /\ h <= q
  BY <1>2, <1>3, <1>4, NearestInOrder
<1> QED
  BY <1>1, <1>3, <1>5

LEMMA HalfEvenSame ==
    ASSUME NEW n \in Nat, NEW u \in Nat \ {0}, NEW m \in Nat, NEW v \in Nat \ {0},
           n * v = m * u
    PROVE  HalfEven(n, u) = HalfEven(m, v) /\ HalfEven(n, u) \in Nat
<1>1. n * v <= m * u /\ m * u <= n * v
  OBVIOUS
<1>2. HalfEven(n, u) <= HalfEven(m, v) /\ HalfEven(m, v) <= HalfEven(n, u)
  BY <1>1, HalfEvenInOrder
<1>3. PICK h \in Nat, g \in Nat : h = HalfEven(n, u) /\ g = HalfEven(m, v)
  BY HalfEvenIsNearest DEF Nearest
<1> QED
  BY <1>2, <1>3

\* A fraction between two whole numbers rounds to something between them.
LEMMA HalfEvenBetween ==
    ASSUME NEW n \in Nat, NEW u \in Nat \ {0}, NEW a \in Nat, NEW b \in Nat,
           a * u <= n, n <= b * u
    PROVE  a <= HalfEven(n, u) /\ HalfEven(n, u) <= b /\ HalfEven(n, u) \in Nat
<1>1. PICK x \in Nat, y \in Nat : x = a * u /\ y = b * u
  OBVIOUS
<1>2. x * u <= n * u /\ n * u <= y * u
  BY <1>1
<1>3. HalfEven(x, u) = a /\ HalfEven(y, u) = b
  BY <1>1, HalfEvenExact
<1>4. HalfEven(x, u) <= HalfEven(n, u) /\ HalfEven(n, u) <= HalfEven(y, u)
  BY <1>2, HalfEvenInOrder
<1> QED
  BY <1>3, <1>4, HalfEvenIsNearest DEF Nearest

-----------------------------------------------------------------------------
(* Decimals, as whole numbers at a scale.                                  *)

Decimal == [m : Nat, e : Int]

On(a, k) == a.m * PowerOfTen[a.e + k]

\* The scales at which the decimal is a whole number.
ScalesOf(a) == {k \in Nat : a.e + k \in Nat}

Short(a) == a \in Decimal /\ a.m <= PowerOfTen[SignificantDigits]

LEMMA PrecisionIs ==
    /\ SignificantDigits \in Nat /\ SignificantDigits >= 2 /\ SignificantDigits - 1 \in Nat
    /\ PowerOfTen[SignificantDigits] = 10 * PowerOfTen[SignificantDigits - 1]
    /\ PowerOfTen[SignificantDigits] \in Nat \ {0}
    /\ PowerOfTen[SignificantDigits - 1] \in Nat \ {0}
<1>1. SignificantDigits \in Nat \ {0, 1}
  BY PolicyAssumption
<1>2. SignificantDigits - 1 \in Nat /\ (SignificantDigits - 1) + 1 = SignificantDigits
  BY <1>1
<1> QED
  BY <1>1, <1>2, TenPositive

LEMMA DecimalIs ==
    ASSUME NEW m \in Nat, NEW e \in Int
    PROVE  Dec(m, e) \in Decimal /\ Dec(m, e).m = m /\ Dec(m, e).e = e
  BY DEF Dec, Decimal

LEMMA ScalesAre ==
    ASSUME NEW a \in Decimal, NEW k \in ScalesOf(a)
    PROVE  /\ k \in Nat /\ a.m \in Nat /\ a.e \in Int /\ a.e + k \in Nat
           /\ PowerOfTen[a.e + k] \in Nat \ {0} /\ On(a, k) \in Nat
<1>1. k \in Nat /\ a.m \in Nat /\ a.e \in Int /\ a.e + k \in Nat
  BY DEF ScalesOf, Decimal
<1>2. PICK t \in Nat \ {0} : t = PowerOfTen[a.e + k]
  BY <1>1, TenPositive
<1> QED
  BY <1>1, <1>2 DEF On

\* There is a scale for two decimals, and beyond any whole number.
LEMMA ScaleForTwo ==
    ASSUME NEW a \in Decimal, NEW b \in Decimal, NEW x \in Int, NEW y \in Int
    PROVE  \E k \in ScalesOf(a) \cap ScalesOf(b) : x + k \in Nat /\ y + k \in Nat
<1>1. PICK e \in Int, f \in Int : e = a.e /\ f = b.e
  BY DEF Decimal
<1> DEFINE Size(v) == IF v < 0 THEN -v ELSE v
           k == Size(e) + Size(f) + Size(x) + Size(y)
<1>2. k \in Nat /\ e + k \in Nat /\ f + k \in Nat /\ x + k \in Nat /\ y + k \in Nat
  OBVIOUS
<1> HIDE DEF k
<1> QED
  BY <1>1, <1>2 DEF ScalesOf

LEMMA AtFiner ==
    ASSUME NEW a \in Decimal, NEW k \in ScalesOf(a), NEW j \in Nat
    PROVE  k + j \in ScalesOf(a) /\ On(a, k + j) = On(a, k) * PowerOfTen[j]
<1>1. k \in Nat /\ a.m \in Nat /\ a.e \in Int /\ a.e + k \in Nat
  BY ScalesAre
<1>2. k + j \in Nat /\ a.e + (k + j) = (a.e + k) + j /\ a.e + (k + j) \in Nat
  BY <1>1
<1>3. PICK s \in Nat, t \in Nat : s = PowerOfTen[a.e + k] /\ t = PowerOfTen[j]
  BY <1>1, TenPositive
<1>4. PowerOfTen[(a.e + k) + j] = s * t
  BY <1>1, <1>3, TenOfSum
<1>5. a.m * (s * t) = (a.m * s) * t
  BY <1>1
<1> QED
  BY <1>2, <1>3, <1>4, <1>5 DEF On, ScalesOf

LEMMA LessOfTwo ==
    ASSUME NEW x \in Int, NEW y \in Int
    PROVE  Min({x, y}) = IF x <= y THEN x ELSE y
<1>1. \E v \in {x, y} : \A w \in {x, y} : v <= w
  OBVIOUS
<1>2. Min({x, y}) \in {x, y} /\ \A w \in {x, y} : Min({x, y}) <= w
  BY <1>1 DEF Min
<1> QED
  BY <1>2

\* What two decimals are compared and added as.
LEMMA AlignedIs ==
    ASSUME NEW a \in Decimal, NEW b \in Decimal, NEW k \in ScalesOf(a) \cap ScalesOf(b)
    PROVE  /\ Aligned(a, b) \in Nat
           /\ Min({a.e, b.e}) \in Int /\ Min({a.e, b.e}) = Min({b.e, a.e})
           /\ Min({a.e, b.e}) + k \in Nat
           /\ On(a, k) = Aligned(a, b) * PowerOfTen[Min({a.e, b.e}) + k]
<1>1. /\ k \in Nat /\ a.m \in Nat /\ a.e \in Int /\ a.e + k \in Nat
      /\ b.e \in Int /\ b.e + k \in Nat
  BY ScalesAre
<1>2. PICK e \in Int, f \in Int, z \in Int :
         e = a.e /\ f = b.e /\ z = Min({e, f}) /\ z = IF e <= f THEN e ELSE f
  BY <1>1, LessOfTwo
<1>3. e - z \in Nat /\ z + k \in Nat /\ e + k = (e - z) + (z + k)
  <2>1. k \in Nat /\ e + k \in Nat /\ f + k \in Nat /\ z <= e /\ (z = e \/ z = f)
    BY <1>1, <1>2
  <2>2. e - z \in Nat /\ z + k \in Nat
    BY <2>1
  <2> QED
    BY <2>1
<1>4. PICK s \in Nat, t \in Nat : s = PowerOfTen[e - z] /\ t = PowerOfTen[z + k]
  BY <1>3, TenPositive
<1>5. PowerOfTen[e + k] = s * t
  BY <1>3, <1>4, TenOfSum
<1>6. a.m * (s * t) = (a.m * s) * t /\ a.m * s \in Nat
  BY <1>1
<1>7. Aligned(a, b) = a.m * s
  BY <1>2, <1>4 DEF Aligned
<1>8. On(a, k) = a.m * (s * t)
  BY <1>2, <1>5 DEF On
<1>9. {a.e, b.e} = {b.e, a.e}
  OBVIOUS
<1> QED
  BY <1>2, <1>3, <1>4, <1>6, <1>7, <1>8, <1>9

LEMMA OrderAt ==
    ASSUME NEW a \in Decimal, NEW b \in Decimal, NEW k \in ScalesOf(a) \cap ScalesOf(b)
    PROVE  NotAbove(a, b) <=> On(a, k) <= On(b, k)
<1>1. PICK x \in Nat, y \in Nat, t \in Nat :
         /\ x = Aligned(a, b) /\ y = Aligned(b, a) /\ t = PowerOfTen[Min({a.e, b.e}) + k]
         /\ On(a, k) = x * t /\ On(b, k) = y * t /\ t # 0
  <2>1. /\ Aligned(a, b) \in Nat /\ Aligned(b, a) \in Nat
        /\ Min({a.e, b.e}) + k \in Nat /\ Min({a.e, b.e}) = Min({b.e, a.e})
        /\ On(a, k) = Aligned(a, b) * PowerOfTen[Min({a.e, b.e}) + k]
    BY AlignedIs
  <2>2. On(b, k) = Aligned(b, a) * PowerOfTen[Min({b.e, a.e}) + k] /\ Aligned(b, a) \in Nat
    BY AlignedIs
  <2>3. PowerOfTen[Min({a.e, b.e}) + k] \in Nat \ {0}
    BY <2>1, TenPositive
  <2> QED
    BY <2>1, <2>2, <2>3
<1>2. x * t <= y * t <=> x <= y
  <2>1. CASE x <= y
    BY <2>1
  <2>2. CASE y < x
    <3>1. y + 1 <= x
      BY <2>2
    <3>2. (y + 1) * t <= x * t /\ (y + 1) * t = y * t + t
      BY <3>1
    <3> QED
      BY <1>1, <2>2, <3>2
  <2> QED
    BY <2>1, <2>2
<1>3. /\ a.m = 0 => x = 0
      /\ b.m = 0 /\ a.m # 0 => ~(x <= y)
  <2>1. PICK z \in Int, s \in Nat \ {0}, r \in Nat \ {0} :
           x = a.m * s /\ y = b.m * r
    <3>1. /\ a.e - Min({a.e, b.e}) \in Nat /\ b.e - Min({b.e, a.e}) \in Nat
      <4>1. a.e \in Int /\ b.e \in Int
        BY ScalesAre
      <4> QED
        BY <4>1, LessOfTwo
    <3> QED
      BY <1>1, <3>1, TenPositive DEF Aligned
  <2>2. a.m \in Nat /\ b.m \in Nat
    BY ScalesAre
  <2>3. CASE a.m = 0
    BY <2>1, <2>3
  <2>4. CASE a.m # 0 /\ b.m = 0
    <3>1. a.m * s > 0 /\ 0 * r = 0
      BY <2>2, <2>4
    <3> QED
      BY <2>1, <2>4, <3>1
  <2> QED
    BY <2>2, <2>3, <2>4
<1> QED
  BY <1>1, <1>2, <1>3 DEF NotAbove

\* A product of what is not larger is not larger.
LEMMA ProductsInOrder ==
    ASSUME NEW a \in Nat, NEW b \in Nat, NEW c \in Nat, NEW d \in Nat, a <= c, b <= d
    PROVE  a * b <= c * d
<1>1. a * b <= c * b /\ c * b <= c * d
  OBVIOUS
<1>2. PICK x \in Nat, y \in Nat, z \in Nat : x = a * b /\ y = c * b /\ z = c * d
  OBVIOUS
<1> QED
  BY <1>1, <1>2

\* The fraction n / d is p to 10 p times the unit, or nothing.
Fills(n, d, u, p) == n # 0 => d * (p * u) <= n /\ n < d * ((10 * p) * u)

\* Two fractions in order, rounded to as many digits, each in its own unit.
LEMMA RoundingInOrder ==
    ASSUME NEW n \in Nat, NEW d \in Nat \ {0}, NEW m \in Nat, NEW c \in Nat \ {0},
           NEW u \in Nat \ {0}, NEW v \in Nat \ {0}, NEW p \in Nat \ {0},
           n * c <= m * d, Fills(n, d, u, p), Fills(m, c, v, p),
           u = v \/ 10 * u <= v \/ 10 * v <= u
    PROVE  HalfEven(n, d * u) * u <= HalfEven(m, c * v) * v
<1>0. /\ n # 0 => d * (p * u) <= n /\ n < d * ((10 * p) * u)
      /\ m # 0 => c * (p * v) <= m /\ m < c * ((10 * p) * v)
  BY DEF Fills
<1>1. d * u \in Nat \ {0} /\ c * v \in Nat \ {0}
  <2>1. d * u > 0 /\ c * v > 0
    OBVIOUS
  <2> QED
    BY <2>1
<1>2. PICK h \in Nat, g \in Nat : h = HalfEven(n, d * u) /\ g = HalfEven(m, c * v)
  BY <1>1, HalfEvenIsNearest DEF Nearest
<1> SUFFICES h * u <= g * v
  BY <1>2
<1>3. CASE n = 0
  <2>1. 0 * (d * u) <= n /\ n <= 0 * (d * u) /\ d * u \in Nat \ {0}
    BY <1>1, <1>3
  <2>2. h = 0
    BY <1>2, <2>1, HalfEvenBetween
  <2>3. 0 * u = 0 /\ g * v >= 0
    OBVIOUS
  <2> QED
    BY <2>2, <2>3
<1>4. CASE n # 0
  <2>1. m # 0
    <3>1. n * c > 0 /\ 0 * d = 0
      BY <1>4
    <3> QED
      BY <3>1
  <2>2. PICK nc \in Nat, md \in Nat : nc = n * c /\ md = m * d /\ nc <= md
    OBVIOUS
  <2>3. CASE u = v
    <3>1. PICK cu \in Nat, du \in Nat : cu = c * u /\ du = d * u
      OBVIOUS
    <3>2. n * cu = nc * u /\ m * du = md * u /\ nc * u <= md * u
      BY <2>2, <3>1
    <3>3. h <= g
      <4>1. n * (c * v) <= m * (d * u)
        BY <2>3, <3>1, <3>2
      <4> QED
        BY <1>1, <1>2, <4>1, HalfEvenInOrder
    <3> QED
      BY <2>3, <3>3
  <2>4. CASE 10 * u <= v
    <3>1. h <= 10 * p
      <4>1. (10 * p) * (d * u) = d * ((10 * p) * u) /\ 0 * (d * u) <= n
        OBVIOUS
      <4>2. n <= (10 * p) * (d * u)
        BY <1>0, <1>4, <4>1
      <4>3. 10 * p \in Nat
        OBVIOUS
      <4> QED
        BY <1>1, <1>2, <4>1, <4>2, <4>3, HalfEvenBetween
    <3>2. p <= g
      <4>1. p * (c * v) = c * (p * v)
        OBVIOUS
      <4>2. p * (c * v) <= m
        BY <1>0, <2>1, <4>1
      <4>3. m <= m * (c * v)
        BY <1>1
      <4> QED
        BY <1>1, <1>2, <4>2, <4>3, HalfEvenBetween
    <3>3. h * u <= (10 * p) * u
      BY <3>1
    <3>4. (10 * p) * u = p * (10 * u) /\ p * (10 * u) <= p * v
      BY <2>4
    <3>5. p * v <= g * v
      BY <3>2
    <3>6. PICK a \in Nat, b \in Nat, e \in Nat, f \in Nat :
             a = h * u /\ b = (10 * p) * u /\ e = p * v /\ f = g * v
      OBVIOUS
    <3> QED
      BY <3>3, <3>4, <3>5, <3>6
  <2>5. CASE 10 * v <= u
    <3>1. PICK a \in Nat, b \in Nat, e \in Nat :
             a = p * u /\ b = (10 * p) * v /\ e = d * b
      OBVIOUS
    <3>2. b = p * (10 * v) /\ p * (10 * v) <= a
      BY <2>5, <3>1
    <3>3. d * b <= d * a
      BY <3>1, <3>2
    <3>4. e <= n
      <4>1. d * a <= n
        BY <1>0, <1>4, <3>1
      <4>2. PICK da \in Nat : da = d * a
        OBVIOUS
      <4> QED
        BY <3>1, <3>3, <4>1, <4>2
    <3>5. m < c * b
      BY <1>0, <2>1, <3>1
    <3>6. PICK cb \in Nat, cbd \in Nat : cb = c * b /\ cbd = cb * d
      OBVIOUS
    <3>7. md < cbd
      <4>1. m + 1 <= cb
        BY <3>5, <3>6
      <4>2. (m + 1) * d <= cb * d
        BY <4>1, <3>6
      <4>3. (m + 1) * d = md + d
        BY <2>2
      <4> QED
        BY <3>6, <4>2, <4>3
    <3>8. cbd <= nc
      <4>1. cbd = c * e
        BY <3>1, <3>6
      <4>2. c * e <= c * n
        BY <3>4
      <4>3. c * n = nc
        BY <2>2
      <4> QED
        BY <4>1, <4>2, <4>3
    <3> QED
      BY <2>2, <3>7, <3>8
  <2> QED
    BY <2>3, <2>4, <2>5
<1> QED
  BY <1>3, <1>4

\* The decimal is n / d, rounded to the digits there are: x is the exponent of its last.
RoundsAt(r, n, d, x) ==
    \A k \in ScalesOf(r) : x + k \in Nat =>
       /\ n # 0 =>
             /\ d * (PowerOfTen[SignificantDigits - 1] * PowerOfTen[x + k]) <= n * PowerOfTen[k]
             /\ n * PowerOfTen[k] < d * (PowerOfTen[SignificantDigits] * PowerOfTen[x + k])
       /\ On(r, k) =
             HalfEven(n * PowerOfTen[k], d * PowerOfTen[x + k]) * PowerOfTen[x + k]

RoundsTo(r, n, d) == Short(r) /\ \E x \in Int : RoundsAt(r, n, d, x)

LEMMA RoundedInOrder ==
    ASSUME NEW n \in Nat, NEW d \in Nat \ {0}, NEW m \in Nat, NEW c \in Nat \ {0},
           n * c <= m * d, NEW r, NEW q, RoundsTo(r, n, d), RoundsTo(q, m, c)
    PROVE  NotAbove(r, q)
<1>1. r \in Decimal /\ q \in Decimal
  BY DEF RoundsTo, Short
<1>2. PICK x \in Int, y \in Int : RoundsAt(r, n, d, x) /\ RoundsAt(q, m, c, y)
  BY DEF RoundsTo
<1>3. PICK k \in ScalesOf(r) \cap ScalesOf(q) : x + k \in Nat /\ y + k \in Nat
  BY <1>1, ScaleForTwo
<1>4. k \in Nat
  BY DEF ScalesOf
<1>5. PICK t \in Nat \ {0}, u \in Nat \ {0}, v \in Nat \ {0}, p \in Nat \ {0} :
         /\ t = PowerOfTen[k] /\ u = PowerOfTen[x + k] /\ v = PowerOfTen[y + k]
         /\ p = PowerOfTen[SignificantDigits - 1] /\ PowerOfTen[SignificantDigits] = 10 * p
  BY <1>3, <1>4, TenPositive, PrecisionIs
<1>6. u = v \/ 10 * u <= v \/ 10 * v <= u
  <2>1. x + k = y + k \/ x + k < y + k \/ y + k < x + k
    BY <1>3
  <2> QED
    BY <1>3, <1>5, <2>1, TenGrows
<1>7. PICK a \in Nat, b \in Nat : a = n * t /\ b = m * t
  OBVIOUS
<1>8. a * c <= b * d
  <2>1. PICK nc \in Nat, md \in Nat : nc = n * c /\ md = m * d /\ nc <= md
    OBVIOUS
  <2>2. a * c = nc * t /\ b * d = md * t /\ nc * t <= md * t
    BY <1>7, <2>1
  <2> QED
    BY <2>2
<1>9. /\ a # 0 => n # 0
      /\ b # 0 => m # 0
  <2>1. 0 * t = 0
    OBVIOUS
  <2> QED
    BY <1>7, <2>1
<1>10. /\ a # 0 => d * (p * u) <= a /\ a < d * ((10 * p) * u)
       /\ On(r, k) = HalfEven(a, d * u) * u
  <2>1. /\ n # 0 => d * (p * u) <= n * t /\ n * t < d * ((10 * p) * u)
        /\ On(r, k) = HalfEven(n * t, d * u) * u
    BY <1>2, <1>3, <1>5 DEF RoundsAt
  <2> QED
    BY <1>7, <1>9, <2>1
<1>11. /\ b # 0 => c * (p * v) <= b /\ b < c * ((10 * p) * v)
       /\ On(q, k) = HalfEven(b, c * v) * v
  <2>1. /\ m # 0 => c * (p * v) <= m * t /\ m * t < c * ((10 * p) * v)
        /\ On(q, k) = HalfEven(m * t, c * v) * v
    BY <1>2, <1>3, <1>5 DEF RoundsAt
  <2> QED
    BY <1>7, <1>9, <2>1
<1>12. On(r, k) <= On(q, k)
  <2>1. Fills(a, d, u, p) /\ Fills(b, c, v, p)
    BY <1>10, <1>11 DEF Fills
  <2>2. HalfEven(a, d * u) * u <= HalfEven(b, c * v) * v
    BY <1>6, <1>8, <2>1, RoundingInOrder
  <2> QED
    BY <1>10, <1>11, <2>2
<1> QED
  BY <1>1, <1>12, OrderAt

\* What is left when both sides are divided by the same.
LEMMA Cancels ==
    ASSUME NEW a \in Nat, NEW b \in Nat, NEW c \in Nat \ {0}
    PROVE  /\ a * c <= b * c => a <= b
           /\ a * c < b * c => a < b
           /\ a * c = b * c => a = b
<1>1. ASSUME a > b
      PROVE  a * c > b * c
  <2>1. b + 1 <= a
    BY <1>1
  <2>2. (b + 1) * c <= a * c /\ (b + 1) * c = b * c + c
    BY <2>1
  <2>3. PICK x \in Nat, y \in Nat : x = a * c /\ y = b * c
    OBVIOUS
  <2> QED
    BY <2>2, <2>3
<1>2. ASSUME a < b
      PROVE  a * c < b * c
  <2>1. a + 1 <= b
    BY <1>2
  <2>2. (a + 1) * c <= b * c /\ (a + 1) * c = a * c + c
    BY <2>1
  <2>3. PICK x \in Nat, y \in Nat : x = a * c /\ y = b * c
    OBVIOUS
  <2> QED
    BY <2>2, <2>3
<1>3. PICK x \in Nat, y \in Nat : x = a * c /\ y = b * c
  OBVIOUS
<1>4. a = b => x = y
  BY <1>3
<1> QED
  BY <1>1, <1>2, <1>3, <1>4

LEMMA NothingRounds ==
    ASSUME NEW r \in Decimal, r.m = 0, NEW d \in Nat \ {0}
    PROVE  RoundsTo(r, 0, d)
<1>1. Short(r)
  BY PrecisionIs DEF Short
<1>2. ASSUME NEW k \in ScalesOf(r), 0 + k \in Nat
      PROVE  /\ On(r, k) = 0
             /\ HalfEven(0 * PowerOfTen[k], d * PowerOfTen[0 + k]) * PowerOfTen[0 + k] = 0
  <2>1. k \in Nat /\ r.e + k \in Nat
    BY ScalesAre
  <2>2. PICK t \in Nat \ {0}, s \in Nat : t = PowerOfTen[0 + k] /\ s = PowerOfTen[k]
    BY <1>2, <2>1, TenPositive
  <2>3. d * t \in Nat \ {0} /\ 0 * s = 0 /\ 0 * t = 0
    <3>1. d * t > 0
      OBVIOUS
    <3> QED
      BY <3>1
  <2>4. HalfEven(0, d * t) = 0
    <3>1. 0 * (d * t) = 0
      BY <2>3
    <3> QED
      BY <2>3, <3>1, HalfEvenBetween
  <2>5. PICK w \in Nat : w = PowerOfTen[r.e + k]
    BY <2>1, TenPositive
  <2>6. 0 * w = 0
    OBVIOUS
  <2> QED
    BY <2>2, <2>3, <2>4, <2>5, <2>6 DEF On
<1>3. RoundsAt(r, 0, d, 0)
  BY <1>2 DEF RoundsAt
<1> QED
  BY <1>1, <1>3 DEF RoundsTo

\* n / d is N / M units of the digit with the exponent x.
Amounts(n, d, x, N, M) ==
    \A k \in Nat : x + k \in Nat =>
       (n * PowerOfTen[k]) * M = N * (d * PowerOfTen[x + k])

\* A fraction rounded where its last digit is.
LEMMA CoarseRounds ==
    ASSUME NEW n \in Nat, NEW d \in Nat \ {0}, NEW x \in Int,
           NEW N \in Nat, NEW M \in Nat \ {0},
           PowerOfTen[SignificantDigits - 1] * M <= N, N < PowerOfTen[SignificantDigits] * M,
           Amounts(n, d, x, N, M)
    PROVE  RoundsTo(Dec(HalfEven(N, M), x), n, d)
<1> DEFINE r == Dec(HalfEven(N, M), x)
<1>1. PICK p \in Nat \ {0} :
         p = PowerOfTen[SignificantDigits - 1] /\ PowerOfTen[SignificantDigits] = 10 * p
  BY PrecisionIs
<1>2. PICK h \in Nat : h = HalfEven(N, M) /\ h <= 10 * p
  <2>1. 10 * p \in Nat /\ 0 * M <= N /\ N <= (10 * p) * M
    BY <1>1
  <2> QED
    BY <2>1, HalfEvenBetween
<1>3. r \in Decimal /\ r.m = h /\ r.e = x
  BY <1>2, DecimalIs
<1>4. Short(r)
  BY <1>1, <1>2, <1>3 DEF Short
<1> HIDE DEF r
<1>5. ASSUME NEW k \in ScalesOf(r), x + k \in Nat
      PROVE  /\ /\ d * (PowerOfTen[SignificantDigits - 1] * PowerOfTen[x + k]) <= n * PowerOfTen[k]
                /\ n * PowerOfTen[k] < d * (PowerOfTen[SignificantDigits] * PowerOfTen[x + k])
             /\ On(r, k) =
                   HalfEven(n * PowerOfTen[k], d * PowerOfTen[x + k]) * PowerOfTen[x + k]
  <2>1. k \in Nat
    BY DEF ScalesOf
  <2>2. PICK t \in Nat \ {0}, u \in Nat \ {0} : t = PowerOfTen[k] /\ u = PowerOfTen[x + k]
    BY <1>5, <2>1, TenPositive
  <2>3. (n * t) * M = N * (d * u)
    BY <1>5, <2>1, <2>2 DEF Amounts
  <2>4. PICK a \in Nat, b \in Nat \ {0} : a = n * t /\ b = d * u
    <3>1. d * u > 0
      OBVIOUS
    <3> QED
      BY <3>1
  <2>5. HalfEven(a, b) = h
    BY <1>2, <2>3, <2>4, HalfEvenSame
  <2>6. On(r, k) = h * u
    BY <1>3, <2>2 DEF On
  <2>7. p * M <= N /\ N < (10 * p) * M /\ a * M = N * b
    BY <1>1, <2>3, <2>4
  <2>8. (p * b) * M <= a * M /\ a * M < ((10 * p) * b) * M
    <3>1. (p * M) * b <= N * b
      BY <2>7
    <3>2. N + 1 <= (10 * p) * M
      BY <2>7
    <3>3. (N + 1) * b <= ((10 * p) * M) * b
      BY <3>2
    <3>4. (N + 1) * b = N * b + b /\ N * b + b > N * b
      OBVIOUS
    <3>5. (p * M) * b = (p * b) * M /\ ((10 * p) * M) * b = ((10 * p) * b) * M
      OBVIOUS
    <3>6. PICK w \in Nat, y \in Nat, z \in Nat :
             w = N * b /\ y = (p * b) * M /\ z = ((10 * p) * b) * M
      OBVIOUS
    <3> QED
      BY <2>7, <3>1, <3>3, <3>4, <3>5, <3>6
  <2>9. p * b <= a /\ a < (10 * p) * b
    <3>1. p * b \in Nat /\ (10 * p) * b \in Nat
      OBVIOUS
    <3> QED
      BY <2>8, <3>1, Cancels
  <2>10. p * b = d * (p * u) /\ (10 * p) * b = d * ((10 * p) * u)
    BY <2>4
  <2> QED
    BY <1>1, <2>2, <2>4, <2>5, <2>6, <2>9, <2>10
<1>6. RoundsAt(r, n, d, x)
  BY <1>5 DEF RoundsAt
<1> QED
  BY <1>4, <1>6 DEF RoundsTo, r

\* A decimal that needs no rounding.
LEMMA ExactRounds ==
    ASSUME NEW b, Short(b), NEW x \in Int, NEW c \in Nat,
           PowerOfTen[SignificantDigits - 1] <= c, c < PowerOfTen[SignificantDigits],
           \/ x <= b.e /\ c = b.m * PowerOfTen[b.e - x]
           \/ x = b.e + 1 /\ b.m = 10 * c,
           NEW l \in ScalesOf(b)
    PROVE  RoundsTo(b, On(b, l), PowerOfTen[l])
<1>0. b \in Decimal
  BY DEF Short
<1>1. PICK p \in Nat \ {0} :
         p = PowerOfTen[SignificantDigits - 1] /\ PowerOfTen[SignificantDigits] = 10 * p
  BY PrecisionIs
<1>2. l \in Nat /\ On(b, l) \in Nat
  BY <1>0, ScalesAre
<1>3. PICK w \in Nat \ {0}, n \in Nat : w = PowerOfTen[l] /\ n = On(b, l)
  BY <1>2, TenPositive
<1>4. ASSUME NEW k \in ScalesOf(b), x + k \in Nat
      PROVE  /\ /\ w * (PowerOfTen[SignificantDigits - 1] * PowerOfTen[x + k]) <= n * PowerOfTen[k]
                /\ n * PowerOfTen[k] < w * (PowerOfTen[SignificantDigits] * PowerOfTen[x + k])
             /\ On(b, k) =
                   HalfEven(n * PowerOfTen[k], w * PowerOfTen[x + k]) * PowerOfTen[x + k]
  <2>1. k \in Nat /\ b.m \in Nat /\ b.e \in Int /\ b.e + k \in Nat
    BY <1>0, ScalesAre
  <2>2. PICK t \in Nat \ {0}, u \in Nat \ {0}, z \in Nat \ {0} :
           t = PowerOfTen[k] /\ u = PowerOfTen[x + k] /\ z = PowerOfTen[b.e + k]
    BY <1>4, <2>1, TenPositive
  <2>3. On(b, k) = c * u
    <3>1. CASE x <= b.e /\ c = b.m * PowerOfTen[b.e - x]
      <4>1. b.e - x \in Nat /\ b.e + k = (b.e - x) + (x + k)
        BY <2>1, <3>1
      <4>2. PICK s \in Nat : s = PowerOfTen[b.e - x]
        BY <4>1, TenPositive
      <4>3. z = s * u
        BY <1>4, <2>2, <4>1, <4>2, TenOfSum
      <4>4. b.m * (s * u) = (b.m * s) * u
        BY <2>1
      <4> QED
        BY <2>2, <3>1, <4>2, <4>3, <4>4 DEF On
    <3>2. CASE x = b.e + 1 /\ b.m = 10 * c
      <4>1. x + k = (b.e + k) + 1
        BY <2>1, <3>2
      <4>2. u = 10 * z
        BY <2>1, <2>2, <4>1, TenPositive
      <4>3. (10 * c) * z = c * (10 * z)
        OBVIOUS
      <4> QED
        BY <2>2, <3>2, <4>2, <4>3 DEF On
    <3> QED
      BY <3>1, <3>2
  <2>4. n * t = (c * u) * w
    <3>1. On(b, l + k) = n * t /\ On(b, k + l) = (c * u) * w
      <4>1. On(b, l + k) = On(b, l) * PowerOfTen[k]
        BY <1>0, <2>1, AtFiner
      <4>2. On(b, k + l) = On(b, k) * PowerOfTen[l]
        BY <1>0, <1>2, AtFiner
      <4> QED
        BY <1>3, <2>2, <2>3, <4>1, <4>2
    <3>2. l + k = k + l
      BY <1>2, <2>1
    <3> QED
      BY <3>1, <3>2
  <2>5. (c * u) * w = c * (w * u) /\ w * u \in Nat \ {0}
    <3>1. w * u > 0
      OBVIOUS
    <3> QED
      BY <3>1
  <2>6. HalfEven(n * t, w * u) = c
    BY <2>4, <2>5, HalfEvenExact
  <2>7. w * (p * u) <= n * t /\ n * t < w * ((10 * p) * u)
    <3>1. PICK v \in Nat \ {0} : v = w * u
      BY <2>5
    <3>2. p <= c /\ c + 1 <= 10 * p
      BY <1>1
    <3>3. p * v <= c * v /\ (c + 1) * v <= (10 * p) * v /\ (c + 1) * v = c * v + v
      BY <3>2
    <3>4. w * (p * u) = p * v /\ w * ((10 * p) * u) = (10 * p) * v
      BY <3>1
    <3>5. n * t = c * v
      BY <2>4, <2>5, <3>1
    <3>6. PICK f \in Nat, g \in Nat, h \in Nat : f = p * v /\ g = c * v /\ h = (10 * p) * v
      OBVIOUS
    <3> QED
      BY <3>3, <3>4, <3>5, <3>6
  <2> QED
    BY <1>1, <2>2, <2>3, <2>6, <2>7
<1>5. RoundsAt(b, n, w, x)
  BY <1>4 DEF RoundsAt
<1> QED
  BY <1>3, <1>5 DEF RoundsTo

LEMMA ShortRounds ==
    ASSUME NEW b, Short(b), NEW l \in ScalesOf(b)
    PROVE  RoundsTo(b, On(b, l), PowerOfTen[l])
<1>0. b \in Decimal
  BY DEF Short
<1>1. l \in Nat /\ b.m \in Nat /\ b.e \in Int /\ b.e + l \in Nat
  BY <1>0, ScalesAre
<1>2. PICK m \in Nat, e \in Int, d \in Nat, s \in Nat \ {0} :
         m = b.m /\ e = b.e /\ d = SignificantDigits /\ s = PowerOfTen[e + l]
  BY <1>1, PrecisionIs, TenPositive
<1>3. d - 1 \in Nat
  BY <1>2, PrecisionIs
<1>4. PICK p \in Nat \ {0} : p = PowerOfTen[d - 1] /\ PowerOfTen[d] = 10 * p /\ m <= 10 * p
  BY <1>2, PrecisionIs DEF Short
<1>5. CASE m = 0
  <2>1. On(b, l) = 0
    <3>1. 0 * s = 0
      OBVIOUS
    <3> QED
      BY <1>2, <1>5, <3>1 DEF On
  <2>2. PowerOfTen[l] \in Nat \ {0}
    BY <1>1, TenPositive
  <2> QED
    BY <1>0, <1>2, <1>5, <2>1, <2>2, NothingRounds
<1>6. CASE m = 10 * p
  <2>1. PICK x \in Int : x = e + 1
    OBVIOUS
  <2>2. /\ PowerOfTen[SignificantDigits - 1] <= p /\ p < PowerOfTen[SignificantDigits]
        /\ x = b.e + 1 /\ b.m = 10 * p
    BY <1>2, <1>4, <1>6, <2>1
  <2> QED
    BY <2>2, ExactRounds
<1>7. CASE m # 0 /\ m < 10 * p
  <2>1. PICK k \in Nat : k + 1 = DigitsOf[m] /\ PowerOfTen[k] <= m /\ m < PowerOfTen[k + 1]
    <3>1. DigitsOf[m] \in Nat \ {0}
      BY <1>7, DigitsBound
    <3>2. DigitsOf[m] - 1 \in Nat /\ (DigitsOf[m] - 1) + 1 = DigitsOf[m]
      BY <3>1
    <3> QED
      BY <1>7, <3>2, DigitsBound
  <2>2. k < d
    <3> SUFFICES ASSUME d <= k
                 PROVE  FALSE
      OBVIOUS
    <3>1. PowerOfTen[d] <= PowerOfTen[k]
      <4>1. PowerOfTen[d] \in Nat /\ PowerOfTen[k] \in Nat
        BY TenPositive
      <4>2. d = k \/ d < k
        OBVIOUS
      <4> QED
        BY <4>1, <4>2, TenGrows
    <3>2. PowerOfTen[k] \in Nat
      BY TenPositive
    <3> QED
      BY <1>4, <1>7, <2>1, <3>1, <3>2
  <2>3. PICK j \in Nat : d = (k + 1) + j
    <3>1. d - (k + 1) \in Nat /\ d = (k + 1) + (d - (k + 1))
      BY <2>2
    <3> QED
      BY <3>1
  <2>4. PICK f \in Nat \ {0}, g \in Nat \ {0} : f = PowerOfTen[j] /\ g = PowerOfTen[k]
    BY TenPositive
  <2>5. d - 1 = k + j /\ k + 1 \in Nat
    BY <2>3
  <2>6. p = g * f
    BY <1>4, <2>4, <2>5, TenOfSum
  <2>7. g <= m /\ m < 10 * g
    BY <2>1, <2>4, TenPositive
  <2>8. p <= m * f /\ m * f < 10 * p /\ m * f \in Nat
    <3>1. g * f <= m * f
      BY <2>7
    <3>2. m + 1 <= 10 * g
      BY <2>7
    <3>3. (m + 1) * f <= (10 * g) * f /\ (m + 1) * f = m * f + f /\ (10 * g) * f = 10 * (g * f)
      BY <3>2
    <3>4. PICK a \in Nat, c \in Nat : a = m * f /\ c = g * f
      OBVIOUS
    <3> QED
      BY <2>6, <3>1, <3>3, <3>4
  <2>9. e - j \in Int /\ e - j <= e /\ e - (e - j) = j
    OBVIOUS
  <2> QED
    BY <1>2, <1>4, <2>4, <2>8, <2>9, ExactRounds
<1> QED
  BY <1>4, <1>5, <1>6, <1>7

LEMMA FitRounds ==
    ASSUME NEW n \in Nat, NEW e \in Int, NEW l \in Nat, e + l \in Nat
    PROVE  RoundsTo(Fit(n, e), n * PowerOfTen[e + l], PowerOfTen[l])
<1>1. PICK d \in Nat, p \in Nat : d = DigitsOf[n] /\ p = SignificantDigits
  BY DigitsAre, PrecisionIs
<1>2. p - 1 \in Nat
  BY <1>1, PrecisionIs
<1>3. n < PowerOfTen[d]
  BY <1>1, DigitsBound, DigitsAre, PowersOfTen
<1>4. PICK a \in Nat \ {0}, b \in Nat \ {0} : a = PowerOfTen[e + l] /\ b = PowerOfTen[l]
  BY TenPositive
<1>5. CASE d > p
  <2>1. PICK x \in Nat : x = d - p /\ d = p + x /\ d - 1 = (p - 1) + x
    <3>1. d - p \in Nat /\ d = p + (d - p) /\ d - 1 = (p - 1) + (d - p)
      BY <1>5
    <3> QED
      BY <3>1
  <2>2. Fit(n, e) = Dec(HalfEven(n, PowerOfTen[x]), e + x)
    <3>1. x > 0
      BY <1>5, <2>1
    <3> QED
      BY <1>1, <2>1, <3>1 DEF Fit
  <2>3. PICK M \in Nat \ {0} : M = PowerOfTen[x]
    BY TenPositive
  <2>4. n \in Nat \ {0}
    BY <1>1, <1>5, DigitsAre
  <2>5. PowerOfTen[p - 1] * M <= n /\ n < PowerOfTen[p] * M
    <3>1. PowerOfTen[d - 1] <= n
      BY <1>1, <2>4, DigitsBound
    <3>2. PowerOfTen[d - 1] = PowerOfTen[p - 1] * M /\ PowerOfTen[d] = PowerOfTen[p] * M
      BY <1>2, <2>1, <2>3, TenOfSum
    <3> QED
      BY <1>3, <3>1, <3>2
  <2>6. ASSUME NEW k \in Nat, (e + x) + k \in Nat
        PROVE  ((n * a) * PowerOfTen[k]) * M = n * (b * PowerOfTen[(e + x) + k])
    <3>1. PICK t \in Nat, u \in Nat : t = PowerOfTen[k] /\ u = PowerOfTen[(e + x) + k]
      BY <2>6, TenPositive
    <3>2. (e + l) + (k + x) = l + ((e + x) + k) /\ k + x \in Nat
      OBVIOUS
    <3>3. a * (t * M) = b * u
      BY <1>4, <2>3, <2>6, <3>1, <3>2, TenOfSum
    <3>4. ((n * a) * t) * M = n * (a * (t * M))
      OBVIOUS
    <3> QED
      BY <3>1, <3>3, <3>4
  <2>7. n * a \in Nat /\ e + x \in Int
    OBVIOUS
  <2>9. Amounts(n * a, b, e + x, n, M)
    BY <2>6 DEF Amounts
  <2>8. RoundsTo(Dec(HalfEven(n, M), e + x), n * a, b)
    BY <1>1, <1>4, <2>3, <2>5, <2>7, <2>9, CoarseRounds
  <2> QED
    BY <1>4, <2>2, <2>3, <2>8
<1>6. CASE d <= p
  <2>1. Fit(n, e) = Dec(n, e)
    BY <1>1, <1>6 DEF Fit
  <2>2. n <= PowerOfTen[p]
    <3>1. PowerOfTen[d] <= PowerOfTen[p]
      <4>1. d = p \/ d < p
        BY <1>6
      <4>2. PowerOfTen[d] \in Nat /\ PowerOfTen[p] \in Nat
        BY TenPositive
      <4> QED
        BY <4>1, <4>2, TenGrows
    <3>2. PowerOfTen[d] \in Nat /\ PowerOfTen[p] \in Nat
      BY TenPositive
    <3> QED
      BY <1>3, <3>1, <3>2
  <2>3. PICK r : r = Dec(n, e) /\ r \in Decimal /\ r.m = n /\ r.e = e
    BY DecimalIs
  <2>4. Short(r) /\ l \in ScalesOf(r) /\ On(r, l) = n * a
    BY <1>1, <1>4, <2>2, <2>3 DEF Short, ScalesOf, On
  <2> QED
    BY <1>4, <2>1, <2>3, <2>4, ShortRounds
<1> QED
  BY <1>5, <1>6

LEMMA DividedRounds ==
    ASSUME NEW n \in Nat, NEW d \in Nat \ {0}
    PROVE  RoundsTo(Divided(n, d), n, d)
<1>1. CASE n = 0
  <2>1. Nought \in Decimal /\ Nought.m = 0 /\ Divided(n, d) = Nought
    BY <1>1, DecimalIs DEF Divided, Nought, Whole
  <2> QED
    BY <1>1, <2>1, NothingRounds
<1>2. CASE n # 0
  <2>1. PICK p \in Nat, s \in Nat, S \in Nat \ {0} :
           p = SignificantDigits /\ s = p + DigitsOf[d] /\ S = PowerOfTen[s]
    <3>1. SignificantDigits + DigitsOf[d] \in Nat
      BY DigitsAre, PrecisionIs
    <3> QED
      BY <3>1, PrecisionIs, TenPositive
  <2>2. p - 1 \in Nat
    BY <2>1, PrecisionIs
  <2>3. PICK w \in Nat, q \in Nat : w = n * S /\ q = w \div d /\ q * d <= w /\ w < q * d + d
    <3>1. n * S \in Nat
      OBVIOUS
    <3>2. PICK w \in Nat : w = n * S
      BY <3>1
    <3>3. PICK q \in Nat : q = w \div d
      OBVIOUS
    <3>4. d * q <= w /\ w < d * q + d /\ q * d = d * q
      BY <3>3
    <3> QED
      BY <3>2, <3>3, <3>4
  <2>4. PICK P \in Nat \ {0}, D \in Nat \ {0} :
           P = PowerOfTen[p] /\ D = PowerOfTen[DigitsOf[d]] /\ S = P * D /\ d < D
    <3>1. DigitsOf[d] \in Nat /\ d < PowerOfTen[DigitsOf[d]]
      BY DigitsBound
    <3>2. PowerOfTen[p + DigitsOf[d]] = PowerOfTen[p] * PowerOfTen[DigitsOf[d]]
      BY <3>1, TenOfSum
    <3>3. PowerOfTen[p] \in Nat \ {0} /\ PowerOfTen[DigitsOf[d]] \in Nat \ {0}
      BY <3>1, TenPositive
    <3> QED
      BY <2>1, <3>1, <3>2, <3>3
  <2>5. P <= q
    <3> SUFFICES ASSUME q < P
                 PROVE  FALSE
      OBVIOUS
    <3>1. q + 1 <= P
      OBVIOUS
    <3>2. (q + 1) * d <= P * d /\ P * d <= P * D /\ (q + 1) * d = q * d + d
      BY <2>4, <3>1
    <3>3. 1 <= n
      BY <1>2
    <3>4. 1 * S <= n * S /\ 1 * S = S
      BY <3>3
    <3>5. PICK f \in Nat, g \in Nat : f = q * d /\ g = P * d
      OBVIOUS
    <3> QED
      BY <2>3, <2>4, <3>2, <3>4, <3>5
  <2>6. PICK k \in Nat \ {0} : k = DigitsOf[q] /\ PowerOfTen[k - 1] <= q /\ q < PowerOfTen[k]
    <3>1. q \in Nat \ {0}
      BY <2>5
    <3> QED
      BY <3>1, DigitsBound
  <2>7. p < k
    <3> SUFFICES ASSUME k <= p
                 PROVE  FALSE
      OBVIOUS
    <3>1. k = p \/ k < p
      OBVIOUS
    <3>2. PICK f \in Nat : f = PowerOfTen[k]
      BY TenPositive
    <3>3. f <= P
      BY <2>4, <3>1, <3>2, TenGrows
    <3> QED
      BY <2>5, <2>6, <3>2, <3>3
  <2>8. PICK x \in Nat : x = k - p /\ k = p + x /\ k - 1 = (p - 1) + x
    <3>1. k - p \in Nat /\ k = p + (k - p) /\ k - 1 = (p - 1) + (k - p)
      BY <2>7
    <3> QED
      BY <3>1
  <2>9. PICK X \in Nat \ {0}, Q \in Nat \ {0} : X = PowerOfTen[x] /\ Q = PowerOfTen[p - 1]
    BY <2>2, TenPositive
  <2>10. Q * X <= q /\ q < P * X
    <3>1. PowerOfTen[(p - 1) + x] = PowerOfTen[p - 1] * PowerOfTen[x]
      BY <2>2, TenOfSum
    <3>2. PowerOfTen[p + x] = PowerOfTen[p] * PowerOfTen[x]
      BY TenOfSum
    <3> QED
      BY <2>4, <2>6, <2>8, <2>9, <3>1, <3>2
  <2>11. d * X \in Nat \ {0}
    <3>1. d * X > 0
      OBVIOUS
    <3> QED
      BY <3>1
  <2>12. Q * (d * X) <= w /\ w < P * (d * X)
    <3>1. (Q * X) * d <= q * d /\ q + 1 <= P * X
      BY <2>10
    <3>2. (q + 1) * d <= (P * X) * d /\ (q + 1) * d = q * d + d
      BY <3>1
    <3>3. (Q * X) * d = Q * (d * X) /\ (P * X) * d = P * (d * X)
      OBVIOUS
    <3>4. PICK f \in Nat, g \in Nat, h \in Nat : f = Q * (d * X) /\ g = P * (d * X) /\ h = q * d
      OBVIOUS
    <3> QED
      BY <2>3, <3>1, <3>2, <3>3, <3>4
  <2>13. ASSUME NEW j \in Nat, (x - s) + j \in Nat
         PROVE  (n * PowerOfTen[j]) * (d * X) = w * (d * PowerOfTen[(x - s) + j])
    <3>1. PICK t \in Nat, u \in Nat : t = PowerOfTen[j] /\ u = PowerOfTen[(x - s) + j]
      BY <2>13, TenPositive
    <3>2. j + x = s + ((x - s) + j)
      OBVIOUS
    <3>5. PowerOfTen[j + x] = PowerOfTen[j] * PowerOfTen[x]
      BY TenOfSum
    <3>6. PowerOfTen[s + ((x - s) + j)] = PowerOfTen[s] * PowerOfTen[(x - s) + j]
      BY <2>13, TenOfSum
    <3>3. t * X = S * u
      BY <2>1, <2>9, <3>1, <3>2, <3>5, <3>6
    <3>4. (n * t) * (d * X) = (n * d) * (t * X)
      OBVIOUS
    <3>7. (n * S) * (d * u) = (n * d) * (S * u)
      OBVIOUS
    <3> QED
      BY <2>3, <3>1, <3>3, <3>4, <3>7
  <2>16. Amounts(n, d, x - s, w, d * X)
    BY <2>13 DEF Amounts
  <2>14. RoundsTo(Dec(HalfEven(w, d * X), x - s), n, d)
    <3>1. PICK M \in Nat \ {0} : M = d * X
      BY <2>11
    <3>2. x - s \in Int
      OBVIOUS
    <3> QED
      BY <2>1, <2>4, <2>9, <2>12, <2>16, <3>1, <3>2, CoarseRounds
  <2>15. Divided(n, d) = Dec(HalfEven(w, d * X), x - s)
    BY <1>2, <2>1, <2>3, <2>6, <2>8, <2>9 DEF Divided
  <2> QED
    BY <2>14, <2>15
<1> QED
  BY <1>1, <1>2

LEMMA TimesRounds ==
    ASSUME NEW a \in Decimal, NEW b \in Decimal, NEW k \in ScalesOf(a), NEW l \in ScalesOf(b)
    PROVE  RoundsTo(Times(a, b), On(a, k) * On(b, l), PowerOfTen[k + l])
<1>1. PICK m \in Nat, n \in Nat, t \in Nat, u \in Nat :
         /\ m = a.m /\ n = b.m /\ t = PowerOfTen[a.e + k] /\ u = PowerOfTen[b.e + l]
         /\ On(a, k) = m * t /\ On(b, l) = n * u
  BY ScalesAre DEF On
<1>2. PICK e \in Int, f \in Int, j \in Nat : e = a.e /\ f = b.e /\ j = k + l
  <2>1. k + l \in Nat
    BY ScalesAre
  <2> QED
    BY <2>1, ScalesAre
<1>3. e + k \in Nat /\ f + l \in Nat /\ (e + f) + j = (e + k) + (f + l) /\ (e + f) + j \in Nat
  <2>1. k \in Nat /\ l \in Nat /\ e + k \in Nat /\ f + l \in Nat
    BY <1>2, ScalesAre
  <2> QED
    BY <1>2, <2>1
<1>4. PowerOfTen[(e + f) + j] = t * u
  <2>1. PowerOfTen[(e + k) + (f + l)] = PowerOfTen[e + k] * PowerOfTen[f + l]
    BY <1>3, TenOfSum
  <2> QED
    BY <1>1, <1>2, <1>3, <2>1
<1>5. m * n \in Nat /\ (m * n) * (t * u) = (m * t) * (n * u) /\ e + f \in Int
  OBVIOUS
<1>6. RoundsTo(Fit(m * n, e + f), (m * n) * PowerOfTen[(e + f) + j], PowerOfTen[j])
  BY <1>3, <1>5, FitRounds
<1> QED
  BY <1>1, <1>2, <1>4, <1>5, <1>6 DEF Times

LEMMA PlusRounds ==
    ASSUME NEW a, NEW b, Short(a), Short(b), NEW k \in ScalesOf(a) \cap ScalesOf(b)
    PROVE  RoundsTo(Plus(a, b), On(a, k) + On(b, k), PowerOfTen[k])
<1>0. a \in Decimal /\ b \in Decimal
  BY DEF Short
<1>1. PICK x \in Nat, y \in Nat : x = On(a, k) /\ y = On(b, k)
  BY <1>0, ScalesAre
<1>2. ASSUME NEW c \in Decimal, k \in ScalesOf(c), c.m = 0
      PROVE  On(c, k) = 0
  <2>1. PICK t \in Nat : t = PowerOfTen[c.e + k]
    BY <1>2, ScalesAre
  <2>2. 0 * t = 0
    OBVIOUS
  <2> QED
    BY <1>2, <2>1, <2>2 DEF On
<1>3. CASE a.m = 0
  <2>1. x = 0 /\ x + y = y /\ Plus(a, b) = b
    BY <1>0, <1>1, <1>2, <1>3 DEF Plus
  <2> QED
    BY <1>1, <2>1, ShortRounds
<1>4. CASE a.m # 0 /\ b.m = 0
  <2>1. y = 0 /\ x + y = x /\ Plus(a, b) = a
    BY <1>0, <1>1, <1>2, <1>4 DEF Plus
  <2> QED
    BY <1>1, <2>1, ShortRounds
<1>5. CASE a.m # 0 /\ b.m # 0
  <2>1. PICK m \in Nat, n \in Nat, e \in Int :
           /\ m = Aligned(a, b) /\ n = Aligned(b, a)
           /\ e = Min({a.e, b.e}) /\ e = Min({b.e, a.e}) /\ e + k \in Nat
    BY <1>0, AlignedIs
  <2>2. PICK t \in Nat : t = PowerOfTen[e + k]
    BY <2>1, TenPositive
  <2>3. x = m * t /\ y = n * t
    <3>1. k \in ScalesOf(b) \cap ScalesOf(a)
      OBVIOUS
    <3> QED
      BY <1>0, <1>1, <2>1, <2>2, <3>1, AlignedIs
  <2>4. (m + n) * t = x + y /\ m + n \in Nat /\ k \in Nat
    BY <1>0, <2>3, ScalesAre
  <2>5. RoundsTo(Fit(m + n, e), (m + n) * PowerOfTen[e + k], PowerOfTen[k])
    BY <2>1, <2>4, FitRounds
  <2> QED
    BY <1>1, <1>5, <2>1, <2>2, <2>4, <2>5 DEF Plus
<1> QED
  BY <1>3, <1>4, <1>5

LEMMA MinusRounds ==
    ASSUME NEW a \in Decimal, NEW b \in Decimal, NEW k \in ScalesOf(a) \cap ScalesOf(b),
           On(b, k) <= On(a, k)
    PROVE  RoundsTo(Minus(a, b), On(a, k) - On(b, k), PowerOfTen[k])
<1>1. PICK x \in Nat, y \in Nat : x = On(a, k) /\ y = On(b, k)
  BY ScalesAre
<1>2. PICK m \in Nat, n \in Nat, e \in Int :
         /\ m = Aligned(a, b) /\ n = Aligned(b, a)
         /\ e = Min({a.e, b.e}) /\ e = Min({b.e, a.e}) /\ e + k \in Nat
  BY AlignedIs
<1>3. PICK t \in Nat \ {0} : t = PowerOfTen[e + k]
  BY <1>2, TenPositive
<1>4. x = m * t /\ y = n * t
  <2>1. k \in ScalesOf(b) \cap ScalesOf(a)
    OBVIOUS
  <2> QED
    BY <1>1, <1>2, <1>3, <2>1, AlignedIs
<1>5. n <= m
  <2>1. n * t <= m * t
    BY <1>1, <1>4
  <2> QED
    BY <2>1, Cancels
<1>6. (m - n) * t = x - y /\ m - n \in Nat /\ k \in Nat
  BY <1>4, <1>5, ScalesAre
<1>7. RoundsTo(Fit(m - n, e), (m - n) * PowerOfTen[e + k], PowerOfTen[k])
  BY <1>2, <1>6, FitRounds
<1> QED
  BY <1>1, <1>2, <1>3, <1>6, <1>7 DEF Minus

-----------------------------------------------------------------------------
(* The order of decimals, and what keeps it.                               *)

LEMMA ScaleForFour ==
    ASSUME NEW a \in Decimal, NEW b \in Decimal, NEW c \in Decimal, NEW d \in Decimal
    PROVE  \E k \in Nat : /\ k \in ScalesOf(a) /\ k \in ScalesOf(b)
                          /\ k \in ScalesOf(c) /\ k \in ScalesOf(d)
<1>1. c.e \in Int /\ d.e \in Int
  BY DEF Decimal
<1>2. PICK k \in ScalesOf(a) \cap ScalesOf(b) : c.e + k \in Nat /\ d.e + k \in Nat
  BY <1>1, ScaleForTwo
<1> QED
  BY <1>2 DEF ScalesOf

LEMMA AtOrder ==
    ASSUME NEW a \in Decimal, NEW b \in Decimal, NEW k, k \in ScalesOf(a), k \in ScalesOf(b)
    PROVE  /\ NotAbove(a, b) <=> On(a, k) <= On(b, k)
           /\ On(a, k) \in Nat /\ On(b, k) \in Nat
  BY OrderAt, ScalesAre

LEMMA OrderReflexive ==
    ASSUME NEW a \in Decimal
    PROVE  NotAbove(a, a)
<1>1. PICK k \in Nat : k \in ScalesOf(a)
  BY ScaleForFour
<1> QED
  BY <1>1, AtOrder

LEMMA OrderTransitive ==
    ASSUME NEW a \in Decimal, NEW b \in Decimal, NEW c \in Decimal,
           NotAbove(a, b), NotAbove(b, c)
    PROVE  NotAbove(a, c)
<1>1. PICK k \in Nat : k \in ScalesOf(a) /\ k \in ScalesOf(b) /\ k \in ScalesOf(c)
  BY ScaleForFour
<1>2. PICK x \in Nat, y \in Nat, z \in Nat : x = On(a, k) /\ y = On(b, k) /\ z = On(c, k)
  BY <1>1, AtOrder
<1>3. x <= y /\ y <= z
  BY <1>1, <1>2, AtOrder
<1>4. x <= z
  BY <1>3
<1> QED
  BY <1>1, <1>2, <1>4, AtOrder

LEMMA OrderTotal ==
    ASSUME NEW a \in Decimal, NEW b \in Decimal
    PROVE  NotAbove(a, b) \/ NotAbove(b, a)
<1>1. PICK k \in Nat : k \in ScalesOf(a) /\ k \in ScalesOf(b)
  BY ScaleForFour
<1>2. PICK x \in Nat, y \in Nat : x = On(a, k) /\ y = On(b, k)
  BY <1>1, AtOrder
<1>3. x <= y \/ y <= x
  OBVIOUS
<1> QED
  BY <1>1, <1>2, <1>3, AtOrder

LEMMA DividedShort ==
    ASSUME NEW n \in Nat, NEW d \in Nat \ {0}
    PROVE  Short(Divided(n, d)) /\ Divided(n, d) \in Decimal
  BY DividedRounds DEF RoundsTo, Short

LEMMA DividedInOrder ==
    ASSUME NEW n \in Nat, NEW d \in Nat \ {0}, NEW m \in Nat, NEW c \in Nat \ {0},
           n * c <= m * d
    PROVE  NotAbove(Divided(n, d), Divided(m, c))
<1>1. RoundsTo(Divided(n, d), n, d) /\ RoundsTo(Divided(m, c), m, c)
  BY DividedRounds
<1>2. PICK r, q : r = Divided(n, d) /\ q = Divided(m, c)
  OBVIOUS
<1> QED
  BY <1>1, <1>2, RoundedInOrder

LEMMA TimesShort ==
    ASSUME NEW a \in Decimal, NEW b \in Decimal
    PROVE  Short(Times(a, b)) /\ Times(a, b) \in Decimal
<1>1. PICK k \in Nat : k \in ScalesOf(a) /\ k \in ScalesOf(b)
  BY ScaleForFour
<1>2. RoundsTo(Times(a, b), On(a, k) * On(b, k), PowerOfTen[k + k])
  BY <1>1, TimesRounds
<1> QED
  BY <1>2 DEF RoundsTo, Short

LEMMA TimesInOrder ==
    ASSUME NEW a \in Decimal, NEW b \in Decimal, NEW c \in Decimal, NEW d \in Decimal,
           NotAbove(a, c), NotAbove(b, d)
    PROVE  NotAbove(Times(a, b), Times(c, d))
<1>1. PICK k \in Nat : /\ k \in ScalesOf(a) /\ k \in ScalesOf(b)
                       /\ k \in ScalesOf(c) /\ k \in ScalesOf(d)
  BY ScaleForFour
<1>2. PICK x \in Nat, y \in Nat, z \in Nat, w \in Nat :
         x = On(a, k) /\ y = On(b, k) /\ z = On(c, k) /\ w = On(d, k)
  BY <1>1, AtOrder
<1>3. x <= z /\ y <= w
  BY <1>1, <1>2, AtOrder
<1>4. PICK t \in Nat \ {0} : t = PowerOfTen[k + k]
  <2>1. k + k \in Nat
    OBVIOUS
  <2> QED
    BY <2>1, TenPositive
<1>5. PICK f \in Nat, g \in Nat : f = x * y /\ g = z * w /\ f <= g
  BY <1>3, ProductsInOrder
<1>6. f * t <= g * t
  BY <1>5
<1>7. PICK r, q : r = Times(a, b) /\ q = Times(c, d)
  OBVIOUS
<1>8. RoundsTo(r, f, t) /\ RoundsTo(q, g, t)
  BY <1>1, <1>2, <1>4, <1>5, <1>7, TimesRounds
<1> QED
  BY <1>6, <1>7, <1>8, RoundedInOrder

LEMMA PlusShort ==
    ASSUME NEW a, NEW b, Short(a), Short(b)
    PROVE  Short(Plus(a, b)) /\ Plus(a, b) \in Decimal
<1>0. a \in Decimal /\ b \in Decimal
  BY DEF Short
<1>1. PICK k \in Nat : k \in ScalesOf(a) /\ k \in ScalesOf(b)
  BY <1>0, ScaleForFour
<1>2. RoundsTo(Plus(a, b), On(a, k) + On(b, k), PowerOfTen[k])
  BY <1>1, PlusRounds
<1> QED
  BY <1>2 DEF RoundsTo, Short

LEMMA PlusInOrder ==
    ASSUME NEW a, NEW b, NEW c, NEW d, Short(a), Short(b), Short(c), Short(d),
           NotAbove(a, c), NotAbove(b, d)
    PROVE  NotAbove(Plus(a, b), Plus(c, d))
<1>0. a \in Decimal /\ b \in Decimal /\ c \in Decimal /\ d \in Decimal
  BY DEF Short
<1>1. PICK k \in Nat : /\ k \in ScalesOf(a) /\ k \in ScalesOf(b)
                       /\ k \in ScalesOf(c) /\ k \in ScalesOf(d)
  BY <1>0, ScaleForFour
<1>2. PICK x \in Nat, y \in Nat, z \in Nat, w \in Nat :
         x = On(a, k) /\ y = On(b, k) /\ z = On(c, k) /\ w = On(d, k)
  BY <1>0, <1>1, AtOrder
<1>3. x <= z /\ y <= w
  BY <1>0, <1>1, <1>2, AtOrder
<1>4. PICK t \in Nat \ {0} : t = PowerOfTen[k]
  BY TenPositive
<1>5. PICK f \in Nat, g \in Nat : f = x + y /\ g = z + w /\ f <= g
  BY <1>3
<1>6. f * t <= g * t
  BY <1>5
<1>7. PICK r, q : r = Plus(a, b) /\ q = Plus(c, d)
  OBVIOUS
<1>8. RoundsTo(r, f, t) /\ RoundsTo(q, g, t)
  BY <1>1, <1>2, <1>4, <1>5, <1>7, PlusRounds
<1> QED
  BY <1>6, <1>7, <1>8, RoundedInOrder

LEMMA MinusShort ==
    ASSUME NEW a \in Decimal, NEW b \in Decimal, NotAbove(b, a)
    PROVE  Short(Minus(a, b)) /\ Minus(a, b) \in Decimal
<1>1. PICK k \in Nat : k \in ScalesOf(a) /\ k \in ScalesOf(b)
  BY ScaleForFour
<1>2. On(b, k) <= On(a, k)
  BY <1>1, AtOrder
<1>3. RoundsTo(Minus(a, b), On(a, k) - On(b, k), PowerOfTen[k])
  BY <1>1, <1>2, MinusRounds
<1> QED
  BY <1>3 DEF RoundsTo, Short

LEMMA MinusInOrder ==
    ASSUME NEW a \in Decimal, NEW b \in Decimal, NEW d \in Decimal,
           NotAbove(b, a), NotAbove(d, b)
    PROVE  NotAbove(Minus(a, b), Minus(a, d))
<1>1. PICK k \in Nat : k \in ScalesOf(a) /\ k \in ScalesOf(b) /\ k \in ScalesOf(d)
  BY ScaleForFour
<1>2. PICK x \in Nat, y \in Nat, w \in Nat : x = On(a, k) /\ y = On(b, k) /\ w = On(d, k)
  BY <1>1, AtOrder
<1>3. y <= x /\ w <= y
  BY <1>1, <1>2, AtOrder
<1>4. PICK t \in Nat \ {0} : t = PowerOfTen[k]
  BY TenPositive
<1>5. PICK f \in Nat, g \in Nat : f = x - y /\ g = x - w /\ f <= g
  <2>1. x - y \in Nat /\ x - w \in Nat /\ x - y <= x - w
    BY <1>3
  <2> QED
    BY <2>1
<1>6. f * t <= g * t
  BY <1>5
<1>7. PICK r, q : r = Minus(a, b) /\ q = Minus(a, d)
  OBVIOUS
<1>8. RoundsTo(r, f, t) /\ RoundsTo(q, g, t)
  <2>1. w <= x
    BY <1>3
  <2> QED
    BY <1>1, <1>2, <1>3, <1>4, <1>5, <1>7, <2>1, MinusRounds
<1> QED
  BY <1>6, <1>7, <1>8, RoundedInOrder

LEMMA WholeIs ==
    ASSUME NEW n \in Nat
    PROVE  Whole(n) \in Decimal /\ Whole(n).m = n /\ Whole(n).e = 0 /\ (n <= 100 => Short(Whole(n)))
<1>1. Whole(n) \in Decimal /\ Whole(n).m = n /\ Whole(n).e = 0
  BY DecimalIs DEF Whole
<1>2. 100 <= PowerOfTen[SignificantDigits]
  <2>1. SignificantDigits \in Nat /\ SignificantDigits >= 2
    BY PrecisionIs
  <2>2. PowerOfTen[0] = 1 /\ PowerOfTen[1] = 10 * 1 /\ PowerOfTen[2] = 10 * 10
    <3>1. 0 + 1 = 1 /\ 1 + 1 = 2 /\ 10 * 1 = 10
      OBVIOUS
    <3>2. PowerOfTen[0 + 1] = 10 * PowerOfTen[0] /\ PowerOfTen[1 + 1] = 10 * PowerOfTen[1]
      BY PowersOfTen
    <3> QED
      BY <3>1, <3>2, PowersOfTen
  <2>3. SignificantDigits = 2 \/ 10 * PowerOfTen[2] <= PowerOfTen[SignificantDigits]
    BY <2>1, TenGrows
  <2>4. PowerOfTen[SignificantDigits] \in Nat
    BY PrecisionIs
  <2> QED
    BY <2>2, <2>3, <2>4
<1>3. n <= 100 => n <= PowerOfTen[SignificantDigits]
  BY <1>2, PrecisionIs
<1> QED
  BY <1>1, <1>3 DEF Short

LEMMA WholeAt ==
    ASSUME NEW n \in Nat, NEW k \in Nat
    PROVE  k \in ScalesOf(Whole(n)) /\ On(Whole(n), k) = n * PowerOfTen[k]
<1>1. Whole(n).m = n /\ Whole(n).e = 0 /\ 0 + k = k
  BY WholeIs
<1> QED
  BY <1>1 DEF ScalesOf, On

LEMMA NoughtIs ==
    /\ Nought \in Decimal /\ Nought.m = 0 /\ Short(Nought)
    /\ \A a \in Decimal : NotAbove(Nought, a)
<1>1. 0 \in Nat /\ 0 <= 100
  OBVIOUS
<1>2. Nought \in Decimal /\ Nought.m = 0 /\ Short(Nought)
  BY <1>1, WholeIs DEF Nought
<1> QED
  BY <1>2 DEF NotAbove

\* Adding does not make less.
LEMMA PlusIsNotLess ==
    ASSUME NEW a, NEW b, Short(a), Short(b)
    PROVE  NotAbove(a, Plus(a, b))
<1>0. a \in Decimal /\ b \in Decimal
  BY DEF Short
<1>1. NotAbove(a, a) /\ NotAbove(Nought, b) /\ Short(Nought)
  BY <1>0, OrderReflexive, NoughtIs
<1>2. NotAbove(Plus(a, Nought), Plus(a, b))
  BY <1>0, <1>1, PlusInOrder
<1>3. Plus(a, Nought) = a \/ (Plus(a, Nought) = Nought /\ a.m = 0)
  BY NoughtIs DEF Plus
<1> QED
  BY <1>2, <1>3 DEF NotAbove

-----------------------------------------------------------------------------
(* The sum of a sequence of decimals, as the sums of its beginnings.       *)

\* g is what SumOf computes with.
AddsUp(g, v, n) ==
    g = [s \in SUBSET (1..n) |->
            IF s = {} THEN Nought ELSE LET x == Max(s) IN Plus(g[s \ {x}], v[x])]

LEMMA MaxAddsUp ==
    ASSUME NEW n \in Nat, NEW s \in SUBSET (1..n), s # {}
    PROVE  Max(s) \in s /\ \A x \in s : x <= Max(s)
<1>1. s \in SUBSET Nat /\ \A x \in s : x <= n
  OBVIOUS
<1> QED
  BY <1>1, GreatestUpTo

LEMMA AddsUpExists ==
    ASSUME NEW v, NEW n \in Nat
    PROVE  \E g : AddsUp(g, v, n)
<1> DEFINE G == {k \in Nat : \E g : AddsUp(g, v, k)}
<1>1. G \in SUBSET Nat /\ 0 \in G
  <2> DEFINE g == [s \in SUBSET (1..0) |-> Nought]
  <2>1. SUBSET (1..0) = {{}}
    OBVIOUS
  <2>2. g = [s \in SUBSET (1..0) |->
               IF s = {} THEN Nought ELSE LET x == Max(s) IN Plus(g[s \ {x}], v[x])]
    BY <2>1, Zenon
  <2>3. AddsUp(g, v, 0)
    BY <2>2, Zenon DEF AddsUp
  <2> QED
    BY <2>3
<1>2. ASSUME NEW k \in Nat, k \in G
      PROVE  k + 1 \in G
  <2>1. PICK g : AddsUp(g, v, k)
    BY <1>2
  <2> DEFINE Both(s) == IF s = {} THEN Nought ELSE Plus(g[s \ {Max(s)}], v[Max(s)])
             h == [s \in SUBSET (1..k + 1) |->
                     IF s \in SUBSET (1..k) THEN g[s] ELSE Both(s)]
  <2>2. \A s \in SUBSET (1..k) : g[s] = Both(s)
    BY <2>1 DEF AddsUp
  <2>3. \A s \in SUBSET (1..k + 1) : h[s] = Both(s)
    BY <2>2
  <2>4. ASSUME NEW s \in SUBSET (1..k + 1), s # {}
        PROVE  h[s \ {Max(s)}] = g[s \ {Max(s)}]
    <3>1. Max(s) \in s /\ \A x \in s : x <= Max(s)
      <4>1. k + 1 \in Nat
        OBVIOUS
      <4> QED
        BY <2>4, <4>1, MaxAddsUp
    <3>2. PICK m \in s : m = Max(s)
      BY <3>1
    <3>3. ASSUME NEW x \in s, x # m
          PROVE  x \in 1..k
      <4>1. x \in 1..k + 1 /\ m \in 1..k + 1 /\ x <= m
        BY <3>1, <3>2
      <4> QED
        BY <3>3, <4>1
    <3>4. s \ {m} \in SUBSET (1..k)
      BY <3>3
    <3>5. s \ {m} \in SUBSET (1..k + 1)
      OBVIOUS
    <3> QED
      BY <3>2, <3>4, <3>5
  <2>5. \A s \in SUBSET (1..k + 1) :
           h[s] = IF s = {} THEN Nought ELSE Plus(h[s \ {Max(s)}], v[Max(s)])
    BY <2>3, <2>4
  <2>6. h = [s \in SUBSET (1..k + 1) |-> h[s]]
    OBVIOUS
  <2> HIDE DEF h
  <2>7. h = [s \in SUBSET (1..k + 1) |->
               IF s = {} THEN Nought ELSE LET x == Max(s) IN Plus(h[s \ {x}], v[x])]
    BY <2>5, <2>6, Zenon
  <2>8. AddsUp(h, v, k + 1)
    BY <2>7, Zenon DEF AddsUp
  <2> QED
    BY <2>8
<1> HIDE DEF G
<1>3. G = Nat
  BY <1>1, <1>2, FromOneToTheNext
<1> QED
  BY <1>3 DEF G

\* P has the sums of the first 0, 1, ..., n terms of v.
PartialSums(P, v, n) == P[0] = Nought /\ \A i \in 1..n : P[i] = Plus(P[i - 1], v[i])

LEMMA SumIsPartial ==
    ASSUME NEW v, NEW n \in Nat, DOMAIN v = 1..n
    PROVE  \E P : PartialSums(P, v, n) /\ SumOf(v) = P[n]
<1> DEFINE g == CHOOSE h : AddsUp(h, v, n)
<1>1. AddsUp(g, v, n)
  BY AddsUpExists
<1>2. SumOf(v) = g[1..n]
  BY Zenon DEF SumOf, FoldLeft, MapThenFoldSet, AddsUp
<1> HIDE DEF g
<1> DEFINE P == [i \in 0..n |-> g[1..i]]
<1>3. \A i \in 0..n : 1..i \in SUBSET (1..n)
  OBVIOUS
<1>4. P[0] = Nought
  <2>1. 1..0 = {} /\ 0 \in 0..n
    OBVIOUS
  <2> QED
    BY <1>1, <1>3, <2>1 DEF AddsUp
<1>5. ASSUME NEW i \in 1..n
      PROVE  P[i] = Plus(P[i - 1], v[i])
  <2>1. i \in 0..n /\ i - 1 \in 0..n /\ i \in Nat /\ i \in 1..i
    OBVIOUS
  <2>2. Max(1..i) = i
    <3>1. 1..i \in SUBSET (1..n) /\ 1..i # {}
      BY <1>3, <2>1
    <3>2. Max(1..i) \in 1..i /\ \A x \in 1..i : x <= Max(1..i)
      BY <3>1, MaxAddsUp
    <3>3. PICK m \in 1..i : m = Max(1..i)
      BY <3>2
    <3>4. i <= m /\ m <= i
      BY <2>1, <3>2, <3>3
    <3> QED
      BY <3>3, <3>4
  <2>3. (1..i) \ {i} = 1..(i - 1)
    <3> SUFFICES ASSUME NEW x
                 PROVE  x \in (1..i) \ {i} <=> x \in 1..(i - 1)
      OBVIOUS
    <3> QED
      OBVIOUS
  <2>4. g[1..i] = Plus(g[(1..i) \ {i}], v[i])
    <3>1. 1..i # {} /\ 1..i \in SUBSET (1..n)
      BY <1>3, <2>1
    <3> QED
      BY <1>1, <2>2, <3>1 DEF AddsUp
  <2> QED
    BY <2>1, <2>3, <2>4
<1>6. P[n] = SumOf(v)
  BY <1>2
<1>7. PartialSums(P, v, n)
  BY <1>4, <1>5 DEF PartialSums
<1> QED
  BY <1>6, <1>7

LEMMA PartialSumsShort ==
    ASSUME NEW P, NEW v, NEW n \in Nat, PartialSums(P, v, n), \A i \in 1..n : Short(v[i]),
           NEW i \in 0..n
    PROVE  Short(P[i])
<1> DEFINE G == {k \in Nat : k <= n => Short(P[k])}
<1>1. G \in SUBSET Nat /\ 0 \in G
  BY NoughtIs DEF PartialSums
<1>2. ASSUME NEW k \in Nat, k \in G
      PROVE  k + 1 \in G
  <2> SUFFICES ASSUME k + 1 <= n
               PROVE  Short(P[k + 1])
    OBVIOUS
  <2>1. k + 1 \in 1..n /\ (k + 1) - 1 = k /\ k <= n
    OBVIOUS
  <2>2. P[k + 1] = Plus(P[k], v[k + 1]) /\ Short(P[k]) /\ Short(v[k + 1])
    BY <1>2, <2>1 DEF PartialSums
  <2> QED
    BY <2>2, PlusShort
<1> HIDE DEF G
<1>3. G = Nat
  BY <1>1, <1>2, FromOneToTheNext
<1> QED
  BY <1>3 DEF G

\* A sum of more is more.
LEMMA SumInOrder ==
    ASSUME NEW v, NEW w, NEW n \in Nat, DOMAIN v = 1..n, DOMAIN w = 1..n,
           \A i \in 1..n : Short(v[i]) /\ Short(w[i]) /\ NotAbove(v[i], w[i])
    PROVE  /\ Short(SumOf(v)) /\ Short(SumOf(w))
           /\ NotAbove(SumOf(v), SumOf(w))
<1>1. PICK P : PartialSums(P, v, n) /\ SumOf(v) = P[n]
  BY SumIsPartial
<1>2. PICK Q : PartialSums(Q, w, n) /\ SumOf(w) = Q[n]
  BY SumIsPartial
<1>3. \A i \in 0..n : Short(P[i]) /\ Short(Q[i])
  BY <1>1, <1>2, PartialSumsShort
<1> DEFINE G == {k \in Nat : k <= n => NotAbove(P[k], Q[k])}
<1>4. G \in SUBSET Nat /\ 0 \in G
  BY <1>1, <1>2, NoughtIs DEF PartialSums
<1>5. ASSUME NEW k \in Nat, k \in G
      PROVE  k + 1 \in G
  <2> SUFFICES ASSUME k + 1 <= n
               PROVE  NotAbove(P[k + 1], Q[k + 1])
    OBVIOUS
  <2>1. k + 1 \in 1..n /\ (k + 1) - 1 = k /\ k <= n /\ k \in 0..n
    OBVIOUS
  <2>2. P[k + 1] = Plus(P[k], v[k + 1]) /\ Q[k + 1] = Plus(Q[k], w[k + 1])
    BY <1>1, <1>2, <2>1 DEF PartialSums
  <2>3. NotAbove(P[k], Q[k]) /\ NotAbove(v[k + 1], w[k + 1])
    BY <1>5, <2>1
  <2>4. Short(P[k]) /\ Short(Q[k]) /\ Short(v[k + 1]) /\ Short(w[k + 1])
    BY <1>3, <2>1
  <2> QED
    BY <2>2, <2>3, <2>4, PlusInOrder
<1> HIDE DEF G
<1>6. G = Nat
  BY <1>4, <1>5, FromOneToTheNext
<1>7. n \in 0..n
  OBVIOUS
<1> QED
  BY <1>1, <1>2, <1>3, <1>6, <1>7 DEF G

-----------------------------------------------------------------------------
(* Interpolation on a curve that does not fall.                            *)

LEMMA CancelsInt ==
    ASSUME NEW a \in Int, NEW b \in Int, NEW c \in Nat \ {0}
    PROVE  /\ a * c <= b * c => a <= b
           /\ a <= b => a * c <= b * c
<1>1. ASSUME a > b
      PROVE  a * c > b * c
  <2>1. PICK j \in Nat : a = b + 1 + j
    <3>1. a - b - 1 \in Nat /\ a = b + 1 + (a - b - 1)
      BY <1>1
    <3> QED
      BY <3>1
  <2>2. a * c = b * c + c + j * c /\ j * c >= 0
    BY <2>1
  <2>3. PICK x \in Int, y \in Int : x = b * c /\ y = j * c
    OBVIOUS
  <2> QED
    BY <2>2, <2>3
<1>2. ASSUME a <= b
      PROVE  a * c <= b * c
  <2>1. PICK j \in Nat : b = a + j
    <3>1. b - a \in Nat /\ b = a + (b - a)
      BY <1>2
    <3> QED
      BY <3>1
  <2>2. b * c = a * c + j * c /\ j * c >= 0
    BY <2>1
  <2>3. PICK x \in Int, y \in Int : x = a * c /\ y = j * c
    OBVIOUS
  <2> QED
    BY <2>2, <2>3
<1>3. PICK x \in Int, y \in Int : x = a * c /\ y = b * c
  OBVIOUS
<1> QED
  BY <1>1, <1>2, <1>3

\* n / d <= m / c: what holds of the larger fraction on one side of x does of the other.
LEMMA FractionsInOrder ==
    ASSUME NEW n \in Int, NEW d \in Nat \ {0}, NEW m \in Int, NEW c \in Nat \ {0},
           n * c <= m * d, NEW x \in Int
    PROVE  /\ m <= x * c => n <= x * d
           /\ x * d <= n => x * c <= m
           /\ x * d < n => x * c < m
<1>1. ASSUME m <= x * c
      PROVE  n <= x * d
  <2>1. PICK y \in Int : y = x * c
    OBVIOUS
  <2>2. m * d <= y * d
    BY <1>1, <2>1, CancelsInt
  <2>3. y * d = (x * d) * c
    BY <2>1
  <2>4. PICK f \in Int, g \in Int, h \in Int : f = n * c /\ g = m * d /\ h = (x * d) * c
    OBVIOUS
  <2>5. n * c <= (x * d) * c
    BY <2>2, <2>3, <2>4
  <2>6. x * d \in Int
    OBVIOUS
  <2> QED
    BY <2>5, <2>6, CancelsInt
<1>2. ASSUME x * d <= n
      PROVE  x * c <= m
  <2>1. PICK y \in Int : y = x * d
    OBVIOUS
  <2>2. y * c <= n * c
    BY <1>2, <2>1, CancelsInt
  <2>3. y * c = (x * c) * d
    BY <2>1
  <2>4. PICK f \in Int, g \in Int, h \in Int : f = n * c /\ g = m * d /\ h = (x * c) * d
    OBVIOUS
  <2>5. (x * c) * d <= m * d
    BY <2>2, <2>3, <2>4
  <2>6. x * c \in Int
    OBVIOUS
  <2> QED
    BY <2>5, <2>6, CancelsInt
<1>3. PICK y \in Int, z \in Int : y = x * c /\ z = x * d
  OBVIOUS
<1> QED
  BY <1>1, <1>2, <1>3

Rising(X, Y, last) ==
    /\ last \in Nat /\ last >= 2
    /\ X \in [1..last -> Int] /\ Y \in [1..last -> 0..100]
    /\ \A i \in 1..last - 1 : X[i] < X[i + 1] /\ Y[i] <= Y[i + 1]

LEMMA RisingAll ==
    ASSUME NEW X, NEW Y, NEW last, Rising(X, Y, last), NEW i \in 1..last, NEW j \in 1..last, i <= j
    PROVE  X[i] <= X[j] /\ Y[i] <= Y[j] /\ (i < j => X[i] < X[j])
<1> DEFINE Up(k) == X[i] <= X[k] /\ Y[i] <= Y[k] /\ (i < k => X[i] < X[k])
           G == {k \in Nat : k + i <= last => Up(k + i)}
<1>0. last \in Nat /\ i \in Nat /\ j \in Nat
  BY DEF Rising
<1>00. \A k \in 1..last : X[k] \in Int /\ Y[k] \in Int
  <2>1. \A k \in 1..last : X[k] \in Int /\ Y[k] \in 0..100
    BY DEF Rising
  <2> QED
    BY <2>1
<1>1. G \in SUBSET Nat /\ 0 \in G
  BY <1>0, <1>00
<1>2. ASSUME NEW k \in Nat, k \in G
      PROVE  k + 1 \in G
  <2> SUFFICES ASSUME (k + 1) + i <= last
               PROVE  Up((k + 1) + i)
    OBVIOUS
  <2>1. PICK h \in 1..last - 1 : h = k + i /\ h + 1 = (k + 1) + i /\ h + 1 \in 1..last /\ h \in 1..last
    BY <1>0
  <2>2. Up(h)
    BY <1>0, <1>2, <2>1
  <2>3. X[h] < X[h + 1] /\ Y[h] <= Y[h + 1]
    BY DEF Rising
  <2>4. X[i] \in Int /\ X[h] \in Int /\ X[h + 1] \in Int /\ Y[i] \in Int /\ Y[h] \in Int /\ Y[h + 1] \in Int
    BY <1>00, <2>1
  <2>5. Up(h + 1)
    BY <2>2, <2>3, <2>4
  <2> QED
    BY <2>1, <2>5
<1> HIDE DEF G, Up
<1>3. G = Nat
  BY <1>1, <1>2, FromOneToTheNext
<1>4. j - i \in Nat /\ (j - i) + i = j /\ j <= last
  BY <1>0
<1>5. Up(j)
  BY <1>3, <1>4 DEF G
<1> QED
  BY <1>5 DEF Up

\* The part of a curve that ends with the point k.
Segment(n, d, X, Y, k) ==
    Plus(Whole(Y[k - 1]), Times(Divided(n - X[k - 1] * d, (X[k] - X[k - 1]) * d), Whole(Y[k] - Y[k - 1])))

\* What the curve gives, on one of its parts.
OnCurve(v, n, d, X, Y, last) ==
    \/ n <= X[1] * d /\ v = Whole(Y[1])
    \/ X[1] * d < n /\ n >= X[last] * d /\ v = Whole(Y[last])
    \/ /\ X[1] * d < n /\ n < X[last] * d
       /\ \E k \in 2..last : X[k - 1] * d < n /\ n <= X[k] * d /\ v = Segment(n, d, X, Y, k)

LEMMA InterpolatedOnCurve ==
    ASSUME NEW raw \in Fraction, NEW points, ValidCurve(points)
    PROVE  \E X, Y : /\ Rising(X, Y, Len(points))
                     /\ \A i \in 1..Len(points) : X[i] = points[i][1] /\ Y[i] = points[i][2]
                     /\ OnCurve(Interpolated(raw, points), raw[1], raw[2], X, Y, Len(points))
<1> DEFINE X == [i \in 1..Len(points) |-> points[i][1]]
           Y == [i \in 1..Len(points) |-> points[i][2]]
<1>1. PICK last \in Nat : last = Len(points) /\ last >= 2
  BY DEF ValidCurve
<1>2. \A i \in 1..last : points[i] \in Int \X (0..100)
  BY <1>1 DEF ValidCurve
<1>3. \A i \in 1..last : X[i] = points[i][1] /\ Y[i] = points[i][2] /\ X[i] \in Int /\ Y[i] \in 0..100
  BY <1>1, <1>2
<1>4. X \in [1..last -> Int] /\ Y \in [1..last -> 0..100]
  BY <1>1, <1>3
<1> HIDE DEF X, Y
<1>5. Rising(X, Y, last)
  <2>1. ASSUME NEW i \in 1..last - 1
        PROVE  X[i] < X[i + 1] /\ Y[i] <= Y[i + 1]
    <3>1. i \in 1..last /\ i + 1 \in 1..last
      OBVIOUS
    <3>2. points[i][1] < points[i + 1][1] /\ points[i][2] <= points[i + 1][2]
      BY <1>1 DEF ValidCurve
    <3> QED
      BY <1>3, <3>1, <3>2
  <2> QED
    BY <1>1, <1>4, <2>1 DEF Rising
<1>6. PICK n \in Int, d \in Nat \ {0} : n = raw[1] /\ d = raw[2]
  BY DEF Fraction
<1>7. OnCurve(Interpolated(raw, points), n, d, X, Y, last)
  <2>1. 1 \in 1..last /\ last \in 1..last
    BY <1>1
  <2>2. CASE n <= X[1] * d
    <3>1. n <= points[1][1] * d
      BY <1>3, <2>1, <2>2
    <3>2. Interpolated(raw, points) = Whole(points[1][2])
      BY <1>6, <3>1, Zenon DEF Interpolated
    <3> QED
      BY <1>3, <2>1, <2>2, <3>2 DEF OnCurve
  <2>3. CASE ~(n <= X[1] * d) /\ n >= X[last] * d
    <3>1. ~(n <= points[1][1] * d) /\ n >= points[last][1] * d
      BY <1>3, <2>1, <2>3
    <3>2. Interpolated(raw, points) = Whole(points[last][2])
      BY <1>1, <1>6, <3>1, Zenon DEF Interpolated
    <3>3. X[1] * d < n
      <4>1. PICK a \in Int : a = X[1] * d
        BY <1>3, <2>1
      <4> QED
        BY <2>3, <4>1
    <3> QED
      BY <1>3, <2>1, <2>3, <3>2, <3>3 DEF OnCurve
  <2>4. CASE ~(n <= X[1] * d) /\ ~(n >= X[last] * d)
    <3> DEFINE S == {i \in 2..last : i = last \/ n <= points[i][1] * d}
    <3>1. PICK k \in S : \A i \in S : k <= i
      <4>1. last \in S /\ S \in SUBSET Nat
        BY <1>1
      <4> HIDE DEF S
      <4>2. S # {}
        BY <4>1
      <4> QED
        BY <4>1, <4>2, LeastOf
    <3>2. Min(S) = k
      <4>1. S \in SUBSET Nat
        OBVIOUS
      <4> HIDE DEF S
      <4> QED
        BY <3>1, <4>1, MinIs
    <3>3. k \in 2..last /\ (k = last \/ n <= points[k][1] * d)
      OBVIOUS
    <3>4. k \in 1..last /\ k - 1 \in 1..last
      BY <3>3
    <3>5. PICK a \in Int, b \in Int, c \in Int, e \in Int :
             /\ a = X[k - 1] * d /\ b = X[k] * d /\ c = X[1] * d /\ e = X[last] * d
      BY <1>3, <2>1, <3>4
    <3>6. n <= b
      BY <1>3, <2>4, <3>3, <3>4, <3>5
    <3>7. a < n
      <4>1. CASE k = 2
        BY <2>4, <3>5, <4>1
      <4>2. CASE k # 2
        <5>1. k - 1 \in 2..last /\ ~(k <= k - 1)
          BY <3>3, <4>2
        <5>2. k - 1 \notin S
          BY <3>1, <5>1
        <5>3. ~(n <= points[k - 1][1] * d)
          BY <5>1, <5>2
        <5> QED
          BY <1>3, <3>4, <3>5, <5>3
      <4> QED
        BY <4>1, <4>2
    <3>8. Interpolated(raw, points) = Segment(n, d, X, Y, k)
      <4>1. ~(n <= points[1][1] * d) /\ ~(n >= points[last][1] * d)
        BY <1>3, <2>1, <2>4
      <4>2. Interpolated(raw, points) =
              Plus(Whole(points[k - 1][2]),
                   Times(Divided(n - points[k - 1][1] * d, (points[k][1] - points[k - 1][1]) * d),
                         Whole(points[k][2] - points[k - 1][2])))
        BY <1>1, <1>6, <3>2, <4>1, Zenon DEF Interpolated
      <4> QED
        BY <1>3, <3>4, <4>2 DEF Segment
    <3>9. c < n /\ n < e
      BY <2>4, <3>5
    <3> QED
      BY <3>3, <3>5, <3>6, <3>7, <3>8, <3>9 DEF OnCurve
  <2> QED
    BY <2>2, <2>3, <2>4
<1> QED
  BY <1>1, <1>3, <1>5, <1>6, <1>7

LEMMA WholeRounds ==
    ASSUME NEW n \in 0..100
    PROVE  RoundsTo(Whole(n), n, 1)
<1>1. Short(Whole(n)) /\ 0 \in ScalesOf(Whole(n)) /\ On(Whole(n), 0) = n * PowerOfTen[0]
  BY WholeIs, WholeAt
<1>2. PowerOfTen[0] = 1 /\ n * 1 = n
  BY PowersOfTen
<1> QED
  BY <1>1, <1>2, ShortRounds

LEMMA WholesInOrder ==
    ASSUME NEW n \in 0..100, NEW m \in 0..100, n <= m
    PROVE  NotAbove(Whole(n), Whole(m))
<1>1. n * 1 <= m * 1 /\ n \in Nat /\ m \in Nat /\ 1 \in Nat \ {0}
  OBVIOUS
<1>2. PICK r, q : r = Whole(n) /\ q = Whole(m)
  OBVIOUS
<1>3. RoundsTo(r, n, 1) /\ RoundsTo(q, m, 1)
  BY <1>2, WholeRounds
<1> QED
  BY <1>1, <1>2, <1>3, RoundedInOrder

\* A share of something is not more than it.
LEMMA ShareIsNotMore ==
    ASSUME NEW f \in Decimal, NotAbove(f, Whole(1)), NEW a, Short(a)
    PROVE  NotAbove(Times(f, a), a) /\ NotAbove(Times(a, f), a)
<1>0. a \in Decimal /\ Whole(1) \in Decimal
  BY WholeIs DEF Short
<1>1. PICK k \in Nat : k \in ScalesOf(f) /\ k \in ScalesOf(a)
  BY <1>0, ScaleForFour
<1>2. PICK x \in Nat, y \in Nat, t \in Nat \ {0}, u \in Nat \ {0} :
         x = On(f, k) /\ y = On(a, k) /\ t = PowerOfTen[k] /\ u = PowerOfTen[k + k] /\ u = t * t
  <2>1. k + k \in Nat /\ PowerOfTen[k + k] = PowerOfTen[k] * PowerOfTen[k]
    <3>1. k + k \in Nat
      OBVIOUS
    <3>2. PowerOfTen[k + k] = PowerOfTen[k] * PowerOfTen[k]
      BY TenOfSum
    <3> QED
      BY <3>1, <3>2
  <2>2. On(f, k) \in Nat /\ On(a, k) \in Nat
    BY <1>0, <1>1, AtOrder
  <2>3. PowerOfTen[k] \in Nat \ {0} /\ PowerOfTen[k + k] \in Nat \ {0}
    BY <2>1, TenPositive
  <2> QED
    BY <2>1, <2>2, <2>3
<1>3. x <= t
  <2>1. k \in ScalesOf(Whole(1)) /\ On(Whole(1), k) = 1 * PowerOfTen[k]
    BY WholeAt
  <2>2. On(f, k) <= On(Whole(1), k)
    BY <1>0, <1>1, <2>1, AtOrder
  <2> QED
    BY <1>2, <2>1, <2>2
<1>4. (x * y) * t <= y * u
  <2>1. x * y <= t * y
    BY <1>3
  <2>2. (x * y) * t <= (t * y) * t
    <3>1. PICK g \in Nat, h \in Nat : g = x * y /\ h = t * y
      OBVIOUS
    <3> QED
      BY <2>1, <3>1
  <2>3. (t * y) * t = y * u
    BY <1>2
  <2> QED
    BY <2>2, <2>3
<1>5. PICK r, q : r = Times(f, a) /\ q = Times(a, f)
  OBVIOUS
<1>6. RoundsTo(r, x * y, u)
  BY <1>0, <1>1, <1>2, <1>5, TimesRounds
<1>7. RoundsTo(q, x * y, u)
  <2>1. RoundsTo(q, y * x, u)
    BY <1>0, <1>1, <1>2, <1>5, TimesRounds
  <2>2. y * x = x * y
    OBVIOUS
  <2> QED
    BY <2>1, <2>2
<1>8. RoundsTo(a, y, t)
  BY <1>0, <1>1, <1>2, ShortRounds
<1>9. x * y \in Nat
  OBVIOUS
<1> QED
  BY <1>4, <1>5, <1>6, <1>7, <1>8, <1>9, RoundedInOrder

LEMMA SegmentStays ==
    ASSUME NEW X, NEW Y, NEW last, Rising(X, Y, last), NEW n \in Int, NEW d \in Nat \ {0},
           NEW k \in 2..last, X[k - 1] * d <= n, n <= X[k] * d
    PROVE  /\ Short(Segment(n, d, X, Y, k))
           /\ NotAbove(Whole(Y[k - 1]), Segment(n, d, X, Y, k))
           /\ NotAbove(Segment(n, d, X, Y, k), Whole(Y[k]))
<1>1. k \in 1..last /\ k - 1 \in 1..last /\ k - 1 < k
  BY DEF Rising
<1>2. PICK x \in Int, w \in Nat \ {0} : x = X[k - 1] /\ w = X[k] - X[k - 1] /\ X[k] = x + w
  <2>1. X[k - 1] < X[k] /\ X[k - 1] \in Int /\ X[k] \in Int
    <3>1. k - 1 \in 1..last - 1 /\ (k - 1) + 1 = k
      BY DEF Rising
    <3> QED
      BY <1>1, <3>1 DEF Rising
  <2>2. X[k] - X[k - 1] \in Nat \ {0} /\ X[k] = X[k - 1] + (X[k] - X[k - 1])
    BY <2>1
  <2> QED
    BY <2>1, <2>2
<1>3. PICK a \in 0..100, h \in 0..100 : a = Y[k - 1] /\ h = Y[k] - Y[k - 1] /\ Y[k] = a + h /\ Y[k] \in 0..100
  <2>1. Y[k - 1] <= Y[k] /\ Y[k - 1] \in 0..100 /\ Y[k] \in 0..100
    <3>1. k - 1 \in 1..last - 1 /\ (k - 1) + 1 = k
      BY DEF Rising
    <3> QED
      BY <1>1, <3>1 DEF Rising
  <2>2. Y[k] - Y[k - 1] \in 0..100 /\ Y[k] = Y[k - 1] + (Y[k] - Y[k - 1])
    BY <2>1
  <2> QED
    BY <2>1, <2>2
<1>4. PICK b \in Nat, c \in Nat \ {0} : b = n - x * d /\ c = w * d /\ b <= c
  <2>1. PICK e \in Int, f \in Nat : e = x * d /\ f = w * d /\ f # 0
    <3>1. w * d > 0
      OBVIOUS
    <3> QED
      BY <3>1
  <2>2. X[k] * d = e + f
    <3>1. (x + w) * d = x * d + w * d
      OBVIOUS
    <3> QED
      BY <1>2, <2>1, <3>1
  <2>3. n - e \in Nat /\ n - e <= f
    BY <1>2, <2>1, <2>2
  <2> QED
    BY <2>1, <2>3
<1>5. PICK f : f = Divided(b, c) /\ Short(f) /\ f \in Decimal /\ NotAbove(f, Whole(1))
  <2>1. PICK f, q : f = Divided(b, c) /\ q = Whole(1)
    OBVIOUS
  <2>2. RoundsTo(f, b, c) /\ RoundsTo(q, 1, 1) /\ b * 1 <= 1 * c
    <3>1. b * 1 <= 1 * c /\ 1 \in 0..100
      BY <1>4
    <3> QED
      BY <2>1, <3>1, DividedRounds, WholeRounds
  <2>3. 1 \in Nat /\ 1 \in Nat \ {0}
    OBVIOUS
  <2>4. NotAbove(f, q)
    BY <2>2, <2>3, RoundedInOrder
  <2> QED
    BY <2>1, <2>4, DividedShort
<1>6. Segment(n, d, X, Y, k) = Plus(Whole(a), Times(f, Whole(h)))
  BY <1>2, <1>3, <1>4, <1>5 DEF Segment
<1>7. Short(Whole(a)) /\ Short(Whole(h)) /\ Whole(h) \in Decimal /\ Short(Whole(Y[k]))
      /\ Whole(a) \in Decimal /\ Whole(Y[k]) \in Decimal
  BY <1>3, WholeIs
<1>8. PICK p : p = Times(f, Whole(h)) /\ Short(p) /\ NotAbove(p, Whole(h)) /\ p \in Decimal
  BY <1>5, <1>7, TimesShort, ShareIsNotMore
<1>9. PICK s : s = Plus(Whole(a), p) /\ Short(s) /\ NotAbove(Whole(a), s)
  BY <1>7, <1>8, PlusShort, PlusIsNotLess
<1>10. NotAbove(s, Whole(a + h))
  <2>1. PICK j \in Nat : j \in ScalesOf(p)
    BY <1>8, ScaleForFour
  <2>2. PICK t \in Nat \ {0}, y \in Nat : t = PowerOfTen[j] /\ y = On(p, j)
    BY <1>8, <2>1, TenPositive, AtOrder
  <2>3. /\ j \in ScalesOf(Whole(a)) /\ On(Whole(a), j) = a * t
        /\ j \in ScalesOf(Whole(h)) /\ On(Whole(h), j) = h * t
    <3>1. a \in Nat /\ h \in Nat
      OBVIOUS
    <3> QED
      BY <2>2, <3>1, WholeAt
  <2>4. y <= h * t
    BY <1>7, <1>8, <2>1, <2>2, <2>3, AtOrder
  <2>5. RoundsTo(s, a * t + y, t)
    BY <1>7, <1>8, <1>9, <2>1, <2>2, <2>3, PlusRounds
  <2>6. PICK g \in Nat : g = a * t + y /\ g <= (a + h) * t /\ g * 1 <= (a + h) * t
    <3>1. PICK z \in Nat, v \in Nat : z = a * t /\ v = h * t
      OBVIOUS
    <3>2. (a + h) * t = z + v
      BY <3>1
    <3> QED
      BY <2>4, <3>1, <3>2
  <2>7. RoundsTo(Whole(a + h), a + h, 1) /\ a + h \in Nat /\ 1 \in Nat \ {0}
    <3>1. PICK z \in 0..100 : z = a + h
      BY <1>3
    <3> QED
      BY <3>1, WholeRounds
  <2>8. PICK q : q = Whole(a + h)
    OBVIOUS
  <2> QED
    BY <2>5, <2>6, <2>7, <2>8, RoundedInOrder
<1> QED
  BY <1>3, <1>6, <1>8, <1>9, <1>10

\* Later parts of a curve are not below earlier ones.
LEMMA OnCurveInOrder ==
    ASSUME NEW X, NEW Y, NEW last, Rising(X, Y, last),
           NEW n \in Int, NEW d \in Nat \ {0}, NEW m \in Int, NEW c \in Nat \ {0}, n * c <= m * d,
           NEW v, NEW w, OnCurve(v, n, d, X, Y, last), OnCurve(w, m, c, X, Y, last)
    PROVE  NotAbove(v, w)
<1>1. /\ last \in Nat /\ 1 \in 1..last /\ last \in 1..last
      /\ \A i \in 1..last : X[i] \in Int /\ Y[i] \in 0..100
      /\ \A i \in 2..last : i \in 1..last /\ i - 1 \in 1..last
  BY DEF Rising
<1>2. ASSUME NEW i \in 1..last, NEW j \in 1..last, i <= j
      PROVE  NotAbove(Whole(Y[i]), Whole(Y[j]))
  BY <1>1, <1>2, RisingAll, WholesInOrder
<1>3. ASSUME NEW i \in 1..last
      PROVE  Whole(Y[i]) \in Decimal
  BY <1>1, WholeIs
\* A value on the curve is neither below its start nor above its end.
<1>4. ASSUME NEW u, NEW e \in Int, NEW f \in Nat \ {0}, OnCurve(u, e, f, X, Y, last)
      PROVE  u \in Decimal /\ NotAbove(Whole(Y[1]), u) /\ NotAbove(u, Whole(Y[last]))
  <2>1. CASE u = Whole(Y[1])
    BY <1>1, <1>2, <1>3, <2>1, OrderReflexive
  <2>2. CASE u = Whole(Y[last])
    BY <1>1, <1>2, <1>3, <2>2, OrderReflexive
  <2>3. ASSUME NEW k \in 2..last, X[k - 1] * f < e, e <= X[k] * f, u = Segment(e, f, X, Y, k)
        PROVE  u \in Decimal /\ NotAbove(Whole(Y[1]), u) /\ NotAbove(u, Whole(Y[last]))
    <3>1. k \in 1..last /\ k - 1 \in 1..last /\ 1 <= k - 1 /\ k <= last
      BY <1>1
    <3>2. X[k - 1] * f <= e
      <4>1. PICK a \in Int : a = X[k - 1] * f
        BY <1>1, <3>1
      <4> QED
        BY <2>3, <4>1
    <3>3. Short(u) /\ NotAbove(Whole(Y[k - 1]), u) /\ NotAbove(u, Whole(Y[k]))
      BY <2>3, <3>2, SegmentStays
    <3>4. u \in Decimal
      BY <3>3 DEF Short
    <3>5. NotAbove(Whole(Y[1]), Whole(Y[k - 1])) /\ NotAbove(Whole(Y[k]), Whole(Y[last]))
      BY <1>1, <1>2, <3>1
    <3>6. /\ Whole(Y[1]) \in Decimal /\ Whole(Y[k - 1]) \in Decimal
          /\ Whole(Y[k]) \in Decimal /\ Whole(Y[last]) \in Decimal
      BY <1>1, <1>3, <3>1
    <3> QED
      BY <3>3, <3>4, <3>5, <3>6, OrderTransitive
  <2> QED
    BY <1>4, <2>1, <2>2, <2>3 DEF OnCurve
<1>5. CASE v = Whole(Y[1]) \/ w = Whole(Y[last])
  BY <1>4, <1>5
<1>6. ASSUME n >= X[last] * d, v = Whole(Y[last]), w # Whole(Y[last])
      PROVE  FALSE
  <2>1. X[last] * d <= n
    <3>1. PICK a \in Int : a = X[last] * d
      BY <1>1
    <3> QED
      BY <1>6, <3>1
  <2>2. X[last] * c <= m
    BY <1>1, <2>1, FractionsInOrder
  <2>3. X[1] * c < X[last] * c
    <3>1. X[1] < X[last] /\ X[1] \in Int /\ X[last] \in Int
      <4>1. 1 < last /\ 1 <= last
        BY DEF Rising
      <4> QED
        BY <1>1, <4>1, RisingAll
    <3>2. X[1] + 1 <= X[last]
      BY <3>1
    <3>3. (X[1] + 1) * c <= X[last] * c /\ (X[1] + 1) * c = X[1] * c + c
      BY <3>1, <3>2, CancelsInt
    <3>4. PICK a \in Int, b \in Int : a = X[1] * c /\ b = X[last] * c
      BY <3>1
    <3> QED
      BY <3>3, <3>4
  <2>4. PICK a \in Int, b \in Int : a = X[1] * c /\ b = X[last] * c
    BY <1>1
  <2>5. ~(m <= X[1] * c)
    BY <2>2, <2>3, <2>4
  <2>6. ~(m >= X[last] * c)
    <3>1. m < b
      BY <1>6, <2>4, <2>5 DEF OnCurve
    <3> QED
      BY <2>4, <3>1
  <2> QED
    BY <2>2, <2>4, <2>6
<1>7. ASSUME m <= X[1] * c, v # Whole(Y[1])
      PROVE  FALSE
  <2>1. n <= X[1] * d
    BY <1>1, <1>7, FractionsInOrder
  <2>2. PICK a \in Int : a = X[1] * d
    BY <1>1
  <2>3. ~(X[1] * d < n)
    BY <2>1, <2>2
  <2> QED
    BY <1>7, <2>3 DEF OnCurve
<1>8. ASSUME NEW k \in 2..last, X[k - 1] * d < n, n <= X[k] * d, v = Segment(n, d, X, Y, k),
             NEW j \in 2..last, X[j - 1] * c < m, m <= X[j] * c, w = Segment(m, c, X, Y, j)
      PROVE  NotAbove(v, w)
  <2>0. k \in 1..last /\ k - 1 \in 1..last /\ j \in 1..last /\ j - 1 \in 1..last
    BY <1>1
  <2>1. PICK a \in Int, b \in Int, e \in Int, f \in Int :
           a = X[k - 1] * d /\ b = X[k] * d /\ e = X[j - 1] * c /\ f = X[j] * c
    <3>1. X[k - 1] \in Int /\ X[k] \in Int /\ X[j - 1] \in Int /\ X[j] \in Int
      BY <1>1, <2>0
    <3>2. PICK a \in Int, b \in Int, e \in Int, f \in Int :
             a = X[k - 1] /\ b = X[k] /\ e = X[j - 1] /\ f = X[j]
      BY <3>1
    <3>3. a * d \in Int /\ b * d \in Int /\ e * c \in Int /\ f * c \in Int
      OBVIOUS
    <3> QED
      BY <3>2, <3>3
  <2>2. /\ Short(v) /\ NotAbove(Whole(Y[k - 1]), v) /\ NotAbove(v, Whole(Y[k]))
        /\ Short(w) /\ NotAbove(Whole(Y[j - 1]), w) /\ NotAbove(w, Whole(Y[j]))
    <3>1. X[k - 1] * d <= n /\ X[j - 1] * c <= m
      BY <1>8, <2>1
    <3> QED
      BY <1>8, <3>1, SegmentStays
  <2>3. CASE k < j
    <3>1. k <= j - 1
      BY <2>3
    <3>2. NotAbove(Whole(Y[k]), Whole(Y[j - 1]))
      BY <1>2, <2>0, <3>1
    <3>3. v \in Decimal /\ w \in Decimal /\ Whole(Y[k]) \in Decimal /\ Whole(Y[j - 1]) \in Decimal
      BY <1>3, <2>0, <2>2 DEF Short
    <3>4. NotAbove(v, Whole(Y[j - 1]))
      BY <2>2, <3>2, <3>3, OrderTransitive
    <3> QED
      BY <2>2, <3>3, <3>4, OrderTransitive
  <2>4. CASE j < k
    <3>1. j <= k - 1
      BY <2>4
    <3>2. X[j] <= X[k - 1] /\ X[j] \in Int /\ X[k - 1] \in Int
      BY <1>1, <2>0, <3>1, RisingAll
    <3>3. X[k - 1] * c < m
      BY <1>8, <3>2, FractionsInOrder
    <3>4. X[j] * c <= X[k - 1] * c
      BY <3>2, CancelsInt
    <3>5. PICK g \in Int : g = X[k - 1] * c
      BY <3>2
    <3> QED
      BY <1>8, <2>1, <3>3, <3>4, <3>5
  <2>5. CASE k = j
    <3>1. PICK x \in Int, y \in Nat \ {0} : x = X[k - 1] /\ y = X[k] - X[k - 1] /\ X[k] = x + y
      <4>1. X[k - 1] < X[k] /\ X[k - 1] \in Int /\ X[k] \in Int
        <5>1. k - 1 \in 1..last - 1 /\ (k - 1) + 1 = k
          BY <1>1
        <5> QED
          BY <1>1, <2>0, <5>1 DEF Rising
      <4>2. X[k] - X[k - 1] \in Nat \ {0} /\ X[k] = X[k - 1] + (X[k] - X[k - 1])
        BY <4>1
      <4> QED
        BY <4>1, <4>2
    <3>2. PICK p \in Nat, q \in Nat \ {0}, r \in Nat, s \in Nat \ {0} :
             p = n - x * d /\ q = y * d /\ r = m - x * c /\ s = y * c
      <4>1. n - x * d \in Nat /\ m - x * c \in Nat
        BY <1>8, <2>1, <2>5, <3>1
      <4>2. y * d \in Nat \ {0} /\ y * c \in Nat \ {0}
        <5>1. y * d > 0 /\ y * c > 0
          OBVIOUS
        <5> QED
          BY <5>1
      <4> QED
        BY <4>1, <4>2
    <3>3. p * s <= r * q
      <4>1. PICK g \in Int, h \in Int, i \in Int : g = n * c /\ h = m * d /\ i = (x * d) * c /\ g <= h
        OBVIOUS
      <4>2. p * c = g - i
        <5>1. (n - x * d) * c = n * c - (x * d) * c
          OBVIOUS
        <5> QED
          BY <3>2, <4>1, <5>1
      <4>3. r * d = h - i
        <5>1. (m - x * c) * d = m * d - (x * c) * d /\ (x * c) * d = (x * d) * c
          OBVIOUS
        <5> QED
          BY <3>2, <4>1, <5>1
      <4>4. p * c <= r * d
        BY <4>1, <4>2, <4>3
      <4>5. (p * c) * y <= (r * d) * y
        <5>1. PICK a1 \in Nat, b1 \in Nat : a1 = p * c /\ b1 = r * d /\ a1 <= b1
          BY <4>4
        <5>2. a1 * y <= b1 * y
          BY <5>1
        <5> QED
          BY <5>1, <5>2
      <4>6. p * (y * c) = (p * c) * y /\ r * (y * d) = (r * d) * y
        OBVIOUS
      <4> QED
        BY <3>2, <4>5, <4>6
    <3>4. PICK g, h : g = Divided(p, q) /\ h = Divided(r, s) /\ NotAbove(g, h) /\ g \in Decimal /\ h \in Decimal
      BY <3>3, DividedInOrder, DividedShort
    <3>5. PICK a1 \in 0..100, b1 \in 0..100 : a1 = Y[k - 1] /\ b1 = Y[k] - Y[k - 1]
      <4>1. Y[k - 1] <= Y[k] /\ Y[k - 1] \in 0..100 /\ Y[k] \in 0..100
        <5>1. k - 1 \in 1..last - 1 /\ (k - 1) + 1 = k
          BY <1>1
        <5> QED
          BY <1>1, <2>0, <5>1 DEF Rising
      <4>2. Y[k] - Y[k - 1] \in 0..100
        BY <4>1
      <4> QED
        BY <4>1, <4>2
    <3>6. v = Plus(Whole(a1), Times(g, Whole(b1))) /\ w = Plus(Whole(a1), Times(h, Whole(b1)))
      BY <1>8, <2>5, <3>1, <3>2, <3>4, <3>5 DEF Segment
    <3>7. /\ Short(Whole(a1)) /\ Whole(a1) \in Decimal /\ Whole(b1) \in Decimal
          /\ NotAbove(Whole(a1), Whole(a1)) /\ NotAbove(Whole(b1), Whole(b1))
      BY WholeIs, OrderReflexive
    <3>8. PICK i1, j1 : /\ i1 = Times(g, Whole(b1)) /\ j1 = Times(h, Whole(b1))
                        /\ NotAbove(i1, j1) /\ Short(i1) /\ Short(j1)
      BY <3>4, <3>7, TimesInOrder, TimesShort
    <3> QED
      BY <3>6, <3>7, <3>8, PlusInOrder
  <2> QED
    BY <2>3, <2>4, <2>5
<1> QED
  BY <1>5, <1>6, <1>7, <1>8 DEF OnCurve

\* A better value on a curve that does not fall is not a worse score.
LEMMA InterpolatedInOrder ==
    ASSUME NEW raw \in Fraction, NEW better \in Fraction, raw[1] * better[2] <= better[1] * raw[2],
           NEW points, ValidCurve(points)
    PROVE  NotAbove(Interpolated(raw, points), Interpolated(better, points))
<1>1. PICK X, Y : /\ Rising(X, Y, Len(points))
                  /\ \A i \in 1..Len(points) : X[i] = points[i][1] /\ Y[i] = points[i][2]
                  /\ OnCurve(Interpolated(raw, points), raw[1], raw[2], X, Y, Len(points))
  BY InterpolatedOnCurve
<1>2. PICK V, W : /\ Rising(V, W, Len(points))
                  /\ \A i \in 1..Len(points) : V[i] = points[i][1] /\ W[i] = points[i][2]
                  /\ OnCurve(Interpolated(better, points), better[1], better[2], V, W, Len(points))
  BY InterpolatedOnCurve
<1>3. X = V /\ Y = W
  <2>1. PICK D : D = 1..Len(points)
    OBVIOUS
  <2>2. \A i \in D : X[i] = V[i] /\ Y[i] = W[i]
    BY <1>1, <1>2, <2>1
  <2>3. X \in [D -> Int] /\ V \in [D -> Int] /\ Y \in [D -> 0..100] /\ W \in [D -> 0..100]
    BY <1>1, <1>2, <2>1 DEF Rising
  <2> QED
    BY <2>2, <2>3
<1>4. /\ raw[1] \in Int /\ raw[2] \in Nat \ {0} /\ better[1] \in Int /\ better[2] \in Nat \ {0}
  BY DEF Fraction
<1>5. PICK last, v, w : /\ last = Len(points) /\ v = Interpolated(raw, points)
                        /\ w = Interpolated(better, points)
  OBVIOUS
<1>6. PICK n \in Int, d \in Nat \ {0}, m \in Int, c \in Nat \ {0} :
         n = raw[1] /\ d = raw[2] /\ m = better[1] /\ c = better[2]
  BY <1>4
<1>7. /\ Rising(X, Y, last) /\ OnCurve(v, n, d, X, Y, last) /\ OnCurve(w, m, c, X, Y, last)
      /\ n * c <= m * d
  BY <1>1, <1>2, <1>3, <1>5, <1>6
<1> QED
  BY <1>5, <1>7, OnCurveInOrder

LEMMA InterpolatedOnScale ==
    ASSUME NEW raw \in Fraction, NEW points, ValidCurve(points)
    PROVE  /\ Short(Interpolated(raw, points)) /\ Interpolated(raw, points) \in Decimal
           /\ NotAbove(Interpolated(raw, points), Whole(100))
<1>1. PICK X, Y : /\ Rising(X, Y, Len(points))
                  /\ \A i \in 1..Len(points) : X[i] = points[i][1] /\ Y[i] = points[i][2]
                  /\ OnCurve(Interpolated(raw, points), raw[1], raw[2], X, Y, Len(points))
  BY InterpolatedOnCurve
<1>9. PICK last, v : last = Len(points) /\ v = Interpolated(raw, points)
  OBVIOUS
<1>2. raw[1] \in Int /\ raw[2] \in Nat \ {0}
  BY DEF Fraction
<1>10. PICK n \in Int, d \in Nat \ {0} : n = raw[1] /\ d = raw[2]
  BY <1>2
<1>8. Rising(X, Y, last)
  BY <1>1, <1>9
<1>3. /\ last \in Nat /\ 1 \in 1..last /\ last \in 1..last
      /\ \A i \in 1..last : X[i] \in Int /\ Y[i] \in 0..100
      /\ \A i \in 2..last : i \in 1..last /\ i - 1 \in 1..last
  BY <1>8 DEF Rising
<1>4. ASSUME NEW y \in 0..100
      PROVE  Short(Whole(y)) /\ Whole(y) \in Decimal /\ NotAbove(Whole(y), Whole(100))
  <2>1. y \in Nat /\ y <= 100 /\ 100 \in 0..100
    OBVIOUS
  <2> QED
    BY <2>1, WholeIs, WholesInOrder
<1>5. CASE v \in {Whole(Y[1]), Whole(Y[last])}
  BY <1>3, <1>4, <1>5, <1>9
<1>6. ASSUME NEW k \in 2..last, X[k - 1] * d < n, n <= X[k] * d, v = Segment(n, d, X, Y, k)
      PROVE  Short(v) /\ v \in Decimal /\ NotAbove(v, Whole(100))
  <2>1. X[k - 1] * d <= n
    <3>1. PICK a \in Int : a = X[k - 1] * d
      BY <1>3
    <3> QED
      BY <1>6, <3>1
  <2>2. Short(v) /\ NotAbove(v, Whole(Y[k]))
    BY <1>6, <1>8, <2>1, SegmentStays
  <2>3. v \in Decimal /\ Whole(Y[k]) \in Decimal /\ NotAbove(Whole(Y[k]), Whole(100)) /\ Whole(100) \in Decimal
    BY <1>3, <1>4, <2>2, WholeIs DEF Short
  <2> QED
    BY <2>2, <2>3, OrderTransitive
<1>7. OnCurve(v, n, d, X, Y, last)
  BY <1>1, <1>9, <1>10
<1> QED
  BY <1>5, <1>6, <1>7, <1>9 DEF OnCurve


-----------------------------------------------------------------------------
(* A component's score rises with its signals.                             *)

WeighedIs == {"financial_inflection", "business_quality", "balance_sheet", "cash_flow_quality",
              "valuation", "market_structure", "low_market_attention"}

LEMMA WeighedAre == Weighed = WeighedIs
  BY DEF Weighed, Order, WeighedIs

\* How many parts there are.
LEMMA OrderIs ==
    ASSUME NEW c \in Weighed
    PROVE  \E k \in 1..7 : DOMAIN Order[c] = 1..k
<1>1. c \in WeighedIs
  BY WeighedAre
<1>2. \A k \in {2, 3, 4, 5, 6, 7} : k \in 1..7
  OBVIOUS
<1>3. CASE c = "financial_inflection"
  <2>1. DOMAIN Order[c] = 1..6
    BY <1>3 DEF Order
  <2> QED
    BY <1>2, <2>1
<1>4. CASE c \in {"business_quality", "balance_sheet"}
  <2>1. DOMAIN Order[c] = 1..3
    BY <1>4 DEF Order
  <2> QED
    BY <1>2, <2>1
<1>5. CASE c = "cash_flow_quality"
  <2>1. DOMAIN Order[c] = 1..4
    BY <1>5 DEF Order
  <2> QED
    BY <1>2, <2>1
<1>6. CASE c = "valuation"
  <2>1. DOMAIN Order[c] = 1..5
    BY <1>6 DEF Order
  <2> QED
    BY <1>2, <2>1
<1>7. CASE c = "market_structure"
  <2>1. DOMAIN Order[c] = 1..7
    BY <1>7 DEF Order
  <2> QED
    BY <1>2, <2>1
<1>8. CASE c = "low_market_attention"
  <2>1. DOMAIN Order[c] = 1..2
    BY <1>8 DEF Order
  <2> QED
    BY <1>2, <2>1
<1> QED
  BY <1>1, <1>3, <1>4, <1>5, <1>6, <1>7, <1>8 DEF WeighedIs

LEMMA CodesFinite ==
    ASSUME NEW c \in Weighed
    PROVE  IsFiniteSet(Codes(c)) /\ \A i \in DOMAIN Order[c] : Order[c][i] \in Codes(c)
<1>1. PICK k \in 1..7 : DOMAIN Order[c] = 1..k
  BY OrderIs
<1>2. PICK D : D = 1..k
  OBVIOUS
<1>3. IsFiniteSet(D)
  BY <1>2, FS_Interval
<1> DEFINE F == [i \in D |-> Order[c][i]]
<1>4. Codes(c) = {F[i] : i \in D}
  BY <1>1, <1>2 DEF Codes
<1>5. IsFiniteSet({F[i] : i \in D})
  <2> HIDE DEF F
  <2> DEFINE Image == {F[i] : i \in D}
  <2>1. F \in [D -> Image]
    BY DEF F
  <2>2. F \in Surjection(D, Image)
    BY <2>1 DEF Surjection
  <2> HIDE DEF Image
  <2>3. IsFiniteSet(Image)
    BY <1>3, <2>2, FS_Surjection
  <2> QED
    BY <2>3 DEF Image
<1> QED
  BY <1>4, <1>5 DEF Codes

\* A part that weighs nothing adds nothing.
LEMMA NothingWeighs ==
    ASSUME NEW a \in Decimal, NEW d
    PROVE  Times(a, Divided(0, d)).m = 0
<1>1. Divided(0, d) = Nought
  BY DEF Divided
<1>2. a.m * Nought.m = 0
  <2>1. PICK x \in Nat : x = a.m
    BY DEF Decimal
  <2>2. x * 0 = 0
    OBVIOUS
  <2> QED
    BY <2>1, <2>2, NoughtIs
<1>3. ~(DigitsOf[0] - SignificantDigits > 0)
  BY DigitsAre, PrecisionIs
<1>4. \A e : Fit(0, e) = Dec(0, e)
  BY <1>3, Zenon DEF Fit
<1> QED
  BY <1>1, <1>2, <1>4 DEF Times, Dec

\* A signal is an optional fraction.
Signal(S) == S \in SUBSET Fraction /\ \A a, b \in S : a = b

Rises(S, T) == \A a \in S, b \in T : a[1] * b[2] <= b[1] * a[2]

Signals(c, S) == \A n \in Codes(c) : Signal(S[n])

Carried(c, S) == {n \in Codes(c) : S[n] # {}}

Available(c, S) == SumFunctionOnSet(Share[c], Carried(c, S))

NormalOf(c, S, n) == Interpolated(CHOOSE raw \in S[n] : TRUE, Curve[c][n])

Shared(c, S, n) == Times(NormalOf(c, S, n), EffectiveWeight(Share[c][n], Available(c, S)))

PartsOf(c, S) ==
    [i \in DOMAIN Order[c] |->
        IF Order[c][i] \in Carried(c, S) THEN Shared(c, S, Order[c][i]) ELSE Nought]

MissingOf(c, S) == {n \in Codes(c) : Share[c][n] > 0 /\ S[n] = {}}

TotalOf(c, S) == IF Available(c, S) < Coverage[c] THEN {} ELSE {SumOf(PartsOf(c, S))}

Normals(c, S) == {NormalOf(c, S, n) : n \in Carried(c, S)}

LEMMA WeightedIs ==
    ASSUME NEW c, NEW S
    PROVE  /\ Weighted(c, S).score = TotalOf(c, S)
           /\ Weighted(c, S).missing = MissingOf(c, S)
           /\ Weighted(c, S).parts = Normals(c, S)
  BY Zenon DEF Weighted, Carried, Available, NormalOf, Shared, PartsOf, TotalOf, MissingOf, Normals

LEMMA SharesAre ==
    ASSUME NEW c \in Weighed
    PROVE  /\ \A n \in Codes(c) : Share[c][n] \in 0..100 /\ ValidCurve(Curve[c][n])
           /\ Coverage[c] \in 1..100
           /\ SumFunctionOnSet(Share[c], Codes(c)) = 100
  BY PolicyAssumption DEF ValidScoring, Percentages, Total

\* What is available of a component is what its parts of some weight have.
LEMMA AvailableOfHeavy ==
    ASSUME NEW c \in Weighed, NEW S
    PROVE  /\ Available(c, S) \in Nat
           /\ Available(c, S) = SumFunctionOnSet(Share[c], {n \in Carried(c, S) : Share[c][n] > 0})
<1> DEFINE C == Carried(c, S)
           H == {n \in C : Share[c][n] > 0}
           w == Share[c]
<1>1. IsFiniteSet(C) /\ H \in SUBSET C /\ \A n \in C : w[n] \in Nat /\ w[n] \in Int
  <2>1. C \subseteq Codes(c)
    BY DEF Carried
  <2>2. IsFiniteSet(C)
    BY <2>1, CodesFinite, FS_Subset
  <2>3. \A n \in C : w[n] \in 0..100
    BY <2>1, SharesAre
  <2> QED
    BY <2>2, <2>3
<1>2. \A n \in C \ H : w[n] = 0
  <2>1. \A n \in C : w[n] \in Nat
    BY <1>1
  <2> QED
    BY <2>1
<1>3. IsFiniteSet(C \ H) /\ \A n \in C \ H : n \in C
  BY <1>1, FS_Subset
<1> HIDE DEF C, H, w
<1>4. SumFunctionOnSet(w, C) = SumFunctionOnSet(w, H) + SumFunctionOnSet(w, C \ H)
  BY <1>1, SumOfTwo
<1>5. SumFunctionOnSet(w, C) \in Nat
  BY <1>1, SumOfNaturals
<1>6. SumFunctionOnSet(w, H) \in Nat
  <2>1. IsFiniteSet(H) /\ \A n \in H : w[n] \in Nat
    BY <1>1, FS_Subset
  <2> QED
    BY <2>1, SumOfNaturals
<1>7. SumFunctionOnSet(w, C \ H) = 0
  <2>1. PICK R : R = C \ H /\ IsFiniteSet(R) /\ \A n \in R : w[n] \in Nat /\ w[n] <= 0 * w[n]
    <3>1. 0 <= 0 * 0
      OBVIOUS
    <3>2. \A n \in C \ H : w[n] \in Nat /\ w[n] <= 0 * w[n]
      BY <1>2, <3>1
    <3> QED
      BY <1>3, <3>2
  <2>2. SumFunctionOnSet(w, R) <= 0 * SumFunctionOnSet(w, R)
    <3>1. 0 \in Nat
      OBVIOUS
    <3> QED
      BY <2>1, <3>1, SumOfLess
  <2>3. SumFunctionOnSet(w, R) \in Nat
    BY <2>1, SumOfNaturals
  <2>4. PICK x \in Nat : x = SumFunctionOnSet(w, R)
    BY <2>3
  <2>5. 0 * x = 0 /\ x <= 0 * x
    BY <2>2, <2>4
  <2>6. x = 0
    BY <2>5
  <2> QED
    BY <2>1, <2>4, <2>6
<1>8. SumFunctionOnSet(w, C) = SumFunctionOnSet(w, H)
  BY <1>4, <1>6, <1>7
<1> QED
  BY <1>5, <1>8 DEF Available, C, H, w

LEMMA NormalIs ==
    ASSUME NEW c \in Weighed, NEW S, Signals(c, S), NEW n \in Carried(c, S)
    PROVE  /\ (CHOOSE raw \in S[n] : TRUE) \in S[n] /\ (CHOOSE raw \in S[n] : TRUE) \in Fraction
           /\ Short(NormalOf(c, S, n)) /\ NormalOf(c, S, n) \in Decimal
           /\ NotAbove(NormalOf(c, S, n), Whole(100))
<1>1. n \in Codes(c) /\ S[n] # {} /\ S[n] \in SUBSET Fraction
  BY DEF Carried, Signals, Signal
<1>2. PICK sig : sig = CHOOSE raw \in S[n] : TRUE
  OBVIOUS
<1>3. sig \in S[n] /\ sig \in Fraction
  BY <1>1, <1>2
<1>4. ValidCurve(Curve[c][n])
  BY <1>1, SharesAre
<1> QED
  BY <1>2, <1>3, <1>4, InterpolatedOnScale DEF NormalOf

\* Signals that are there or not there alike, and no lower, give no lower a score.
LEMMA WeightedInOrder ==
    ASSUME NEW c \in Weighed, NEW S, NEW T, Signals(c, S), Signals(c, T),
           \A n \in Codes(c) : Rises(S[n], T[n]),
           Weighted(c, S).missing = Weighted(c, T).missing, NEW s \in Weighted(c, S).score
    PROVE  \E t \in Weighted(c, T).score : NotAbove(s, t)
<1>1. PICK k \in Nat : DOMAIN Order[c] = 1..k
  <2>1. PICK k \in 1..7 : DOMAIN Order[c] = 1..k
    BY OrderIs
  <2> QED
    BY <2>1
<1>2. MissingOf(c, S) = MissingOf(c, T)
  BY WeightedIs
<1>3. \A n \in Codes(c) : Share[c][n] > 0 => (S[n] = {} <=> T[n] = {})
  BY <1>2 DEF MissingOf
<1>4. {n \in Carried(c, S) : Share[c][n] > 0} = {n \in Carried(c, T) : Share[c][n] > 0}
  BY <1>3 DEF Carried
<1>5. PICK a \in Nat : a = Available(c, S) /\ a = Available(c, T)
  BY <1>4, AvailableOfHeavy
<1>6. ~(a < Coverage[c]) /\ s = SumOf(PartsOf(c, S)) /\ a \in Nat \ {0}
  <2>1. s \in TotalOf(c, S) /\ TotalOf(c, S) = IF a < Coverage[c] THEN {} ELSE {SumOf(PartsOf(c, S))}
    BY <1>5, WeightedIs DEF TotalOf
  <2>2. ~(a < Coverage[c])
    BY <2>1
  <2> QED
    BY <2>1, <2>2, SharesAre
<1>7. Weighted(c, T).score = {SumOf(PartsOf(c, T))}
  BY <1>5, <1>6, WeightedIs DEF TotalOf
<1>8. ASSUME NEW n \in Codes(c)
      PROVE  Divided(Share[c][n], a) \in Decimal
  <2>1. Share[c][n] \in Nat
    BY SharesAre
  <2> QED
    BY <1>6, <2>1, DividedShort
<1>9. ASSUME NEW n \in Codes(c)
      PROVE  /\ n \in Carried(c, S) => Short(Shared(c, S, n)) /\ Shared(c, S, n) \in Decimal
             /\ n \in Carried(c, T) => Short(Shared(c, T, n)) /\ Shared(c, T, n) \in Decimal
  BY <1>5, <1>8, NormalIs, TimesShort DEF Shared, EffectiveWeight
<1>10. ASSUME NEW n \in Codes(c), Share[c][n] = 0
       PROVE  n \in Carried(c, S) => Shared(c, S, n).m = 0
  BY <1>10, NormalIs, NothingWeighs DEF Shared, EffectiveWeight
<1>11. ASSUME NEW n \in Codes(c), n \in Carried(c, S), n \in Carried(c, T)
       PROVE  NotAbove(Shared(c, S, n), Shared(c, T, n))
  <2>1. PICK x, y : x = (CHOOSE raw \in S[n] : TRUE) /\ y = (CHOOSE raw \in T[n] : TRUE)
    OBVIOUS
  <2>2. x \in S[n] /\ x \in Fraction /\ y \in T[n] /\ y \in Fraction
    BY <1>11, <2>1, NormalIs
  <2>3. x[1] * y[2] <= y[1] * x[2]
    BY <2>2 DEF Rises
  <2>4. ValidCurve(Curve[c][n])
    BY SharesAre
  <2>5. NotAbove(NormalOf(c, S, n), NormalOf(c, T, n))
    BY <2>1, <2>2, <2>3, <2>4, InterpolatedInOrder DEF NormalOf
  <2>6. NormalOf(c, S, n) \in Decimal /\ NormalOf(c, T, n) \in Decimal
    BY <1>11, NormalIs
  <2>7. PICK d : d = Divided(Share[c][n], a) /\ d \in Decimal /\ NotAbove(d, d)
    BY <1>8, OrderReflexive
  <2> QED
    BY <1>5, <2>5, <2>6, <2>7, TimesInOrder DEF Shared, EffectiveWeight
<1> DEFINE v == PartsOf(c, S)
           w == PartsOf(c, T)
<1>12. ASSUME NEW i \in 1..k
       PROVE  Short(v[i]) /\ Short(w[i]) /\ NotAbove(v[i], w[i])
  <2>1. PICK n \in Codes(c) : n = Order[c][i]
    BY <1>1, CodesFinite
  <2>2. /\ v[i] = IF n \in Carried(c, S) THEN Shared(c, S, n) ELSE Nought
        /\ w[i] = IF n \in Carried(c, T) THEN Shared(c, T, n) ELSE Nought
    BY <1>1, <2>1 DEF PartsOf
  <2> HIDE DEF v, w
  <2>3. Short(v[i]) /\ Short(w[i]) /\ w[i] \in Decimal
    BY <1>9, <2>2, NoughtIs
  <2>4. CASE n \notin Carried(c, S)
    BY <2>2, <2>3, <2>4, NoughtIs
  <2>5. CASE n \in Carried(c, S) /\ n \in Carried(c, T)
    BY <1>11, <2>1, <2>2, <2>3, <2>5
  <2>6. CASE n \in Carried(c, S) /\ n \notin Carried(c, T)
    <3>1. ~(Share[c][n] > 0)
      BY <1>3, <2>1, <2>6 DEF Carried
    <3>2. Share[c][n] = 0
      BY <2>1, <3>1, SharesAre
    <3> QED
      BY <1>10, <2>1, <2>2, <2>3, <2>6, <3>2 DEF NotAbove
  <2> QED
    BY <2>3, <2>4, <2>5, <2>6
<1>13. DOMAIN v = 1..k /\ DOMAIN w = 1..k
  BY <1>1 DEF PartsOf
<1> HIDE DEF v, w
<1>14. NotAbove(SumOf(v), SumOf(w))
  BY <1>12, <1>13, SumInOrder
<1> QED
  BY <1>6, <1>7, <1>14 DEF v, w

-----------------------------------------------------------------------------
(* What an improvement does to the signals.                                *)

\* Every item of the bundle is one that is offered.
Offers(c, e) == DOMAIN e = DOMAIN Offered[c] /\ \A m \in DOMAIN e : e[m] \in OffersOf(c, m)

LEMMA ValueIs ==
    ASSUME NEW c \in Weighed, NEW e, Offers(c, e)
    PROVE  /\ DOMAIN e = Metrics(c)
           /\ \A m \in Metrics(c) : Signal(Value(e, m))
<1>1. DOMAIN e = Metrics(c) /\ DOMAIN Offered[c] = Metrics(c)
  BY OfferedAssumption DEF Offers
<1>2. ASSUME NEW m \in Metrics(c), e[m] # Absent
      PROVE  e[m].value \in Fraction \cup {Undefined}
  <2>1. e[m] \in OffersOf(c, m) \ {Absent}
    BY <1>1, <1>2 DEF Offers
  <2> QED
    BY <2>1, OfferedAssumption
<1>3. ASSUME NEW m \in Metrics(c)
      PROVE  Signal(Value(e, m))
  BY <1>2 DEF Value, Signal
<1> QED
  BY <1>1, <1>3

Falls(S, T) == \A a \in S, b \in T : b[1] * a[2] <= a[1] * b[2]

LEMMA RisesItself ==
    ASSUME NEW S, Signal(S)
    PROVE  Rises(S, S) /\ Falls(S, S)
<1>1. \A a \in S : a[1] * a[2] \in Int /\ a[1] * a[2] <= a[1] * a[2]
  <2> SUFFICES ASSUME NEW a \in S
               PROVE  a[1] * a[2] \in Int
    OBVIOUS
  <2>1. a[1] \in Int /\ a[2] \in Int
    BY DEF Signal, Fraction
  <2> QED
    BY <2>1
<1> QED
  BY <1>1, Zenon DEF Signal, Rises, Falls

LEMMA NegatedIs ==
    ASSUME NEW S, Signal(S)
    PROVE  Signal(Negated(S))
<1>1. \A a \in S : <<-a[1], a[2]>> \in Fraction
  BY DEF Signal, Fraction
<1> QED
  BY <1>1 DEF Signal, Negated

LEMMA NegatedRises ==
    ASSUME NEW S, NEW T, Signal(S), Signal(T), Falls(S, T)
    PROVE  Rises(Negated(S), Negated(T))
<1> SUFFICES ASSUME NEW a \in S, NEW b \in T
             PROVE  (-a[1]) * b[2] <= (-b[1]) * a[2]
  BY DEF Rises, Negated
<1>1. PICK x \in Int, y \in Int, z \in Int, w \in Int : x = a[1] /\ y = a[2] /\ z = b[1] /\ w = b[2]
  BY DEF Signal, Fraction
<1>2. z * y <= x * w
  BY <1>1 DEF Falls
<1>3. (-x) * w = -(x * w) /\ (-z) * y = -(z * y)
  OBVIOUS
<1>4. PICK p \in Int, q \in Int : p = z * y /\ q = x * w
  OBVIOUS
<1> QED
  BY <1>1, <1>2, <1>3, <1>4

LEMMA ChangeIs ==
    ASSUME NEW S, NEW T, Signal(S), Signal(T)
    PROVE  Signal(Change(S, T))
<1>1. ASSUME NEW a \in S, NEW b \in T
      PROVE  <<a[1] * b[2] - b[1] * a[2], a[2] * b[2]>> \in Fraction
  <2>1. PICK x \in Int, y \in Nat \ {0}, z \in Int, w \in Nat \ {0} :
           x = a[1] /\ y = a[2] /\ z = b[1] /\ w = b[2]
    BY DEF Signal, Fraction
  <2>2. x * w - z * y \in Int /\ y * w \in Nat \ {0}
    <3>1. y * w > 0
      OBVIOUS
    <3> QED
      BY <3>1
  <2> QED
    BY <2>1, <2>2 DEF Fraction
<1>2. \A p \in S \X T : p[1] \in S /\ p[2] \in T
  OBVIOUS
<1>3. \A p, q \in S \X T : p = q
  BY DEF Signal
<1> QED
  BY <1>1, <1>2, <1>3 DEF Signal, Change

\* a - b rises with a, and falls with b.
LEMMA ChangeRises ==
    ASSUME NEW S, NEW T, NEW P, NEW Q, Signal(S), Signal(T), Signal(P), Signal(Q),
           Rises(S, P), Falls(T, Q)
    PROVE  Rises(Change(S, T), Change(P, Q))
<1> SUFFICES ASSUME NEW a \in S, NEW b \in T, NEW f \in P, NEW g \in Q
             PROVE  (a[1] * b[2] - b[1] * a[2]) * (f[2] * g[2]) <= (f[1] * g[2] - g[1] * f[2]) * (a[2] * b[2])
  <2>1. \A p \in S \X T : p[1] \in S /\ p[2] \in T
    OBVIOUS
  <2>2. \A p \in P \X Q : p[1] \in P /\ p[2] \in Q
    OBVIOUS
  <2>3. ASSUME NEW p \in S \X T, NEW q \in P \X Q
        PROVE  (p[1][1] * p[2][2] - p[2][1] * p[1][2]) * (q[1][2] * q[2][2])
                  <= (q[1][1] * q[2][2] - q[2][1] * q[1][2]) * (p[1][2] * p[2][2])
    BY <2>1, <2>2
  <2> SUFFICES ASSUME NEW v \in Change(S, T), NEW d \in Change(P, Q)
               PROVE  v[1] * d[2] <= d[1] * v[2]
    BY DEF Rises
  <2>4. PICK p \in S \X T :
           v = <<p[1][1] * p[2][2] - p[2][1] * p[1][2], p[1][2] * p[2][2]>>
    BY Zenon DEF Change
  <2>5. PICK q \in P \X Q :
           d = <<q[1][1] * q[2][2] - q[2][1] * q[1][2], q[1][2] * q[2][2]>>
    BY Zenon DEF Change
  <2> QED
    BY <2>3, <2>4, <2>5
<1>1. PICK x \in Int, y \in Nat \ {0}, z \in Int, w \in Nat \ {0} :
         x = a[1] /\ y = a[2] /\ z = b[1] /\ w = b[2]
  BY DEF Signal, Fraction
<1>2. PICK r \in Int, s \in Nat \ {0}, t \in Int, u \in Nat \ {0} :
         r = f[1] /\ s = f[2] /\ t = g[1] /\ u = g[2]
  BY DEF Signal, Fraction
<1>3. x * s <= r * y /\ t * w <= z * u
  BY <1>1, <1>2 DEF Rises, Falls
<1>4. (x * s) * (w * u) <= (r * y) * (w * u) /\ (t * w) * (y * s) <= (z * u) * (y * s)
  <2>1. w * u \in Nat \ {0} /\ y * s \in Nat \ {0}
    <3>1. w * u > 0 /\ y * s > 0
      OBVIOUS
    <3> QED
      BY <3>1
  <2>2. PICK i \in Int, j \in Int, k \in Int, l \in Int, m \in Nat \ {0}, n \in Nat \ {0} :
           i = x * s /\ j = r * y /\ k = t * w /\ l = z * u /\ m = w * u /\ n = y * s
    BY <2>1
  <2>3. i * m <= j * m /\ k * n <= l * n
    BY <1>3, <2>2, CancelsInt
  <2> QED
    BY <2>2, <2>3
<1>5. (x * w - z * y) * (s * u) = (x * s) * (w * u) - (z * u) * (y * s)
  OBVIOUS
<1>6. (r * u - t * s) * (y * w) = (r * y) * (w * u) - (t * w) * (y * s)
  OBVIOUS
<1>7. PICK i \in Int, j \in Int, k \in Int, l \in Int :
         /\ i = (x * s) * (w * u) /\ j = (r * y) * (w * u)
         /\ k = (t * w) * (y * s) /\ l = (z * u) * (y * s)
  OBVIOUS
<1>8. i - l <= j - k
  BY <1>4, <1>7
<1> QED
  BY <1>1, <1>2, <1>5, <1>6, <1>7, <1>8

LEMMA QuotientIs ==
    ASSUME NEW S, NEW T, Signal(S), Signal(T)
    PROVE  Signal(Quotient(S, T))
<1>1. ASSUME NEW a \in S, NEW b \in T, b[1] > 0
      PROVE  <<a[1] * b[2], a[2] * b[1]>> \in Fraction
  <2>1. PICK x \in Int, y \in Nat \ {0}, z \in Nat \ {0}, w \in Nat \ {0} :
           x = a[1] /\ y = a[2] /\ z = b[1] /\ w = b[2]
    <3>1. a[1] \in Int /\ a[2] \in Nat \ {0} /\ b[1] \in Int /\ b[2] \in Nat \ {0}
      BY DEF Signal, Fraction
    <3> QED
      BY <1>1, <3>1
  <2>2. x * w \in Int /\ y * z \in Nat \ {0}
    <3>1. y * z > 0
      OBVIOUS
    <3> QED
      BY <3>1
  <2> QED
    BY <2>1, <2>2 DEF Fraction
<1>2. \A p \in S \X T : p[1] \in S /\ p[2] \in T
  OBVIOUS
<1>3. \A p, q \in S \X T : p = q
  BY DEF Signal
<1> QED
  BY <1>1, <1>2, <1>3 DEF Signal, Quotient

\* a / b falls with a, and, when a is not negative, the larger b is.
LEMMA QuotientFalls ==
    ASSUME NEW S, NEW T, NEW P, NEW Q, Signal(S), Signal(T), Signal(P), Signal(Q),
           \/ Falls(S, P) /\ T = Q
           \/ S = P /\ Rises(T, Q) /\ \E v \in S : v[1] >= 0
    PROVE  Falls(Quotient(S, T), Quotient(P, Q))
<1>1. ASSUME NEW a \in S, NEW b \in T, NEW f \in P, NEW g \in Q, b[1] > 0, g[1] > 0
      PROVE  (f[1] * g[2]) * (a[2] * b[1]) <= (a[1] * b[2]) * (f[2] * g[1])
  <2>1. PICK x \in Int, y \in Nat \ {0}, z \in Nat \ {0}, w \in Nat \ {0} :
           x = a[1] /\ y = a[2] /\ z = b[1] /\ w = b[2]
    <3>1. a[1] \in Int /\ a[2] \in Nat \ {0} /\ b[1] \in Int /\ b[2] \in Nat \ {0}
      BY DEF Signal, Fraction
    <3> QED
      BY <1>1, <3>1
  <2>2. PICK r \in Int, s \in Nat \ {0}, t \in Nat \ {0}, u \in Nat \ {0} :
           r = f[1] /\ s = f[2] /\ t = g[1] /\ u = g[2]
    <3>1. f[1] \in Int /\ f[2] \in Nat \ {0} /\ g[1] \in Int /\ g[2] \in Nat \ {0}
      BY DEF Signal, Fraction
    <3> QED
      BY <1>1, <3>1
  <2>3. (r * u) * (y * z) <= (x * w) * (s * t)
    <3>1. CASE Falls(S, P) /\ T = Q
      <4>1. b = g
        BY <3>1 DEF Signal
      <4>2. z = t /\ w = u
        BY <2>1, <2>2, <4>1
      <4>3. r * y <= x * s
        BY <2>1, <2>2, <3>1 DEF Falls
      <4>4. PICK i \in Int, j \in Int, k \in Nat \ {0} : i = r * y /\ j = x * s /\ k = w * z
        <5>1. w * z > 0
          OBVIOUS
        <5> QED
          BY <5>1
      <4>5. i * k <= j * k
        BY <4>3, <4>4, CancelsInt
      <4>6. (r * w) * (y * z) = (r * y) * (w * z) /\ (x * w) * (s * z) = (x * s) * (w * z)
        OBVIOUS
      <4> QED
        BY <4>2, <4>4, <4>5, <4>6
    <3>2. CASE S = P /\ Rises(T, Q) /\ \E v \in S : v[1] >= 0
      <4>1. a = f /\ a[1] >= 0
        BY <3>2 DEF Signal
      <4>2. r = x /\ s = y /\ x \in Nat
        BY <2>1, <2>2, <4>1
      <4>3. z * u <= t * w
        BY <2>1, <2>2, <3>2 DEF Rises
      <4>4. PICK i \in Nat, j \in Nat, k \in Nat : i = z * u /\ j = t * w /\ k = x * y
        BY <4>2
      <4>5. i * k <= j * k
        BY <4>3, <4>4
      <4>6. (x * u) * (y * z) = (z * u) * (x * y) /\ (x * w) * (y * t) = (t * w) * (x * y)
        OBVIOUS
      <4> QED
        BY <4>2, <4>4, <4>5, <4>6
    <3> QED
      BY <3>1, <3>2
  <2> QED
    BY <2>1, <2>2, <2>3
<1> SUFFICES ASSUME NEW v \in Quotient(S, T), NEW d \in Quotient(P, Q)
             PROVE  d[1] * v[2] <= v[1] * d[2]
  BY DEF Falls
<1>2. PICK p \in S \X T : p[2][1] > 0 /\ v = <<p[1][1] * p[2][2], p[1][2] * p[2][1]>>
  BY Zenon DEF Quotient
<1>3. PICK q \in P \X Q : q[2][1] > 0 /\ d = <<q[1][1] * q[2][2], q[1][2] * q[2][1]>>
  BY Zenon DEF Quotient
<1>4. p[1] \in S /\ p[2] \in T /\ q[1] \in P /\ q[2] \in Q
  OBVIOUS
<1>5. (q[1][1] * q[2][2]) * (p[1][2] * p[2][1]) <= (p[1][1] * p[2][2]) * (q[1][2] * q[2][1])
  BY <1>1, <1>2, <1>3, <1>4
<1> QED
  BY <1>2, <1>3, <1>5

\* Which way each metric goes.
Improves(e, f, m) ==
    IF m \in LowerIsBetter THEN Falls(Value(e, m), Value(f, m)) ELSE Rises(Value(e, m), Value(f, m))

LEMMA BetterIs ==
    ASSUME NEW c \in Weighed, NEW e, NEW f, Offers(c, e), Offers(c, f), NEW m \in DOMAIN e,
           DoesBetter(e, f, m)
    PROVE  /\ Burden(e, m) /\ \A k \in DOMAIN e \ {m} : f[k] = e[k] /\ Value(f, k) = Value(e, k)
           /\ \A k \in Metrics(c) : Improves(e, f, k)
<1>1. DOMAIN e = Metrics(c) /\ \A k \in Metrics(c) : Signal(Value(e, k)) /\ Signal(Value(f, k))
  BY ValueIs
<1>2. Burden(e, m) /\ \A k \in DOMAIN e \ {m} : f[k] = e[k]
  BY DEF DoesBetter
<1>3. \A k \in DOMAIN e \ {m} : Value(f, k) = Value(e, k)
  BY <1>2 DEF Value
<1>4. Improves(e, f, m)
  <2>1. \A a \in Value(e, m), b \in Value(f, m) :
           IF m \in LowerIsBetter THEN b[1] * a[2] < a[1] * b[2] ELSE a[1] * b[2] < b[1] * a[2]
    BY DEF DoesBetter
  <2>2. \A a \in Value(e, m), b \in Value(f, m) : b[1] * a[2] \in Int /\ a[1] * b[2] \in Int
    <3> SUFFICES ASSUME NEW a \in Value(e, m), NEW b \in Value(f, m)
                 PROVE  b[1] * a[2] \in Int /\ a[1] * b[2] \in Int
      OBVIOUS
    <3>1. a[1] \in Int /\ a[2] \in Int /\ b[1] \in Int /\ b[2] \in Int
      BY <1>1 DEF Signal, Fraction
    <3> QED
      BY <3>1
  <2>3. \A a \in Value(e, m), b \in Value(f, m) :
           IF m \in LowerIsBetter THEN b[1] * a[2] <= a[1] * b[2] ELSE a[1] * b[2] <= b[1] * a[2]
    BY <2>1, <2>2
  <2> QED
    BY <2>3, Zenon DEF Improves, Falls, Rises
<1>5. ASSUME NEW k \in Metrics(c), k # m
      PROVE  Improves(e, f, k)
  BY <1>1, <1>3, <1>5, RisesItself DEF Improves
<1> QED
  BY <1>2, <1>3, <1>4, <1>5

-----------------------------------------------------------------------------
(* One scorer at a time: no signal has the wrong sign.                     *)

LEMMA CodesAre ==
    /\ Codes("financial_inflection") =
          {"revenue_acceleration", "pat_acceleration", "margin_expansion", "roce_improvement",
           "growth_consistency", "growth_persistence"}
    /\ Codes("business_quality") = {"roce_level", "roe_level", "margin_level"}
    /\ Codes("balance_sheet") = {"net_debt_to_ebitda", "debt_to_equity", "interest_coverage"}
    /\ Codes("cash_flow_quality") =
          {"cfo_conversion", "cfo_to_ebitda", "receivable_days", "trade_working_capital_burden"}
    /\ Codes("valuation") =
          {"market_cap_to_ttm_pat", "market_cap_to_total_equity", "market_cap_to_ttm_revenue",
           "simplified_ev_to_ttm_ebitda", "simplified_ev_to_ttm_revenue"}
    /\ Codes("market_structure") =
          {"relative_strength", "close_to_sma20", "sma20_to_sma60", "volatility_ratio",
           "consolidation_range", "volume_ratio", "delivery_percentage"}
    /\ Codes("low_market_attention") = {"news_mentions_count", "analyst_coverage_count"}
<1>1. /\ 1..2 = {1, 2} /\ 1..3 = {1, 2, 3} /\ 1..4 = {1, 2, 3, 4} /\ 1..5 = {1, 2, 3, 4, 5}
      /\ 1..6 = {1, 2, 3, 4, 5, 6} /\ 1..7 = {1, 2, 3, 4, 5, 6, 7}
  OBVIOUS
<1>2. Codes("financial_inflection") =
         {"revenue_acceleration", "pat_acceleration", "margin_expansion", "roce_improvement",
          "growth_consistency", "growth_persistence"}
  BY <1>1 DEF Codes, Order
<1>3. Codes("business_quality") = {"roce_level", "roe_level", "margin_level"}
  BY <1>1 DEF Codes, Order
<1>4. Codes("balance_sheet") = {"net_debt_to_ebitda", "debt_to_equity", "interest_coverage"}
  BY <1>1 DEF Codes, Order
<1>5. Codes("cash_flow_quality") =
         {"cfo_conversion", "cfo_to_ebitda", "receivable_days", "trade_working_capital_burden"}
  BY <1>1 DEF Codes, Order
<1>6. Codes("valuation") =
         {"market_cap_to_ttm_pat", "market_cap_to_total_equity", "market_cap_to_ttm_revenue",
          "simplified_ev_to_ttm_ebitda", "simplified_ev_to_ttm_revenue"}
  BY <1>1 DEF Codes, Order
<1>7. Codes("market_structure") =
         {"relative_strength", "close_to_sma20", "sma20_to_sma60", "volatility_ratio",
          "consolidation_range", "volume_ratio", "delivery_percentage"}
  BY <1>1 DEF Codes, Order
<1>8. Codes("low_market_attention") = {"news_mentions_count", "analyst_coverage_count"}
  BY <1>1 DEF Codes, Order
<1> QED
  BY <1>2, <1>3, <1>4, <1>5, <1>6, <1>7, <1>8

LEMMA LowerAre ==
    LowerIsBetter =
       {"prior_year_roce", "net_debt", "debt_to_equity", "receivable_days",
        "trade_working_capital_change", "volatility_ratio", "consolidation_range",
        "market_cap_to_ttm_pat", "market_cap_to_total_equity", "market_cap_to_ttm_revenue",
        "simplified_ev_to_ttm_ebitda", "simplified_ev_to_ttm_revenue", "news_mentions_count",
        "analyst_coverage_count"}
  BY CodesAre DEF LowerIsBetter

\* The signals of a better bundle are signals, and none is lower.
KeptUp(c, S, T) == Signals(c, S) /\ Signals(c, T) /\ \A n \in Codes(c) : Rises(S[n], T[n])

LEMMA CarryingKeepsUp ==
    ASSUME NEW c, NEW S, NEW T, KeptUp(c, S, T)
    PROVE  KeptUp(c, Carrying(c, S), Carrying(c, T))
<1>1. Signal({}) /\ Rises({}, {})
  BY DEF Signal, Rises
<1>2. ASSUME NEW n \in Codes(c)
      PROVE  /\ Signal(Carrying(c, S)[n]) /\ Signal(Carrying(c, T)[n])
             /\ Rises(Carrying(c, S)[n], Carrying(c, T)[n])
  BY <1>1 DEF KeptUp, Signals, Carrying
<1> QED
  BY <1>2 DEF KeptUp, Signals

\* A scorer whose signals keep up keeps up.
LEMMA ScorerKeepsUp ==
    ASSUME NEW c \in Weighed, NEW S, NEW T, KeptUp(c, S, T), NEW e, NEW f,
           ComponentResult(c, e) \subseteq {Weighted(c, S)},
           ComponentResult(c, f) \subseteq {Weighted(c, T)}
    PROVE  KeepsUp(c, e, f)
<1> SUFFICES ASSUME NEW r \in ComponentResult(c, e), NEW q \in ComponentResult(c, f),
                    r.missing = q.missing, NEW s \in r.score
             PROVE  \E t \in q.score : NotAbove(s, t)
  BY DEF KeepsUp
<1>1. r = Weighted(c, S) /\ q = Weighted(c, T)
  OBVIOUS
<1>2. Signals(c, S) /\ Signals(c, T) /\ \A n \in Codes(c) : Rises(S[n], T[n])
  BY DEF KeptUp
<1>3. Weighted(c, S).missing = Weighted(c, T).missing /\ s \in Weighted(c, S).score
  BY <1>1
<1>4. \E t \in Weighted(c, T).score : NotAbove(s, t)
  BY <1>2, <1>3, WeightedInOrder
<1> QED
  BY <1>1, <1>4

\* Better in one metric.
Gained(c, e, f) == /\ Offers(c, e) /\ Offers(c, f) /\ \E m \in DOMAIN e : DoesBetter(e, f, m)

\* A metric that is a signal of its own.
LEMMA ValueKeepsUp ==
    ASSUME NEW c \in Weighed, NEW e, NEW f, Gained(c, e, f), NEW m \in Metrics(c)
    PROVE  /\ Signal(Value(e, m)) /\ Signal(Value(f, m))
           /\ Signal(Negated(Value(e, m))) /\ Signal(Negated(Value(f, m)))
           /\ m \notin LowerIsBetter => Rises(Value(e, m), Value(f, m))
           /\ m \in LowerIsBetter => /\ Falls(Value(e, m), Value(f, m))
                                     /\ Rises(Negated(Value(e, m)), Negated(Value(f, m)))
<1>1. PICK k \in DOMAIN e : DoesBetter(e, f, k)
  BY DEF Gained
<1>2. Offers(c, e) /\ Offers(c, f)
  BY DEF Gained
<1>3. Improves(e, f, m)
  BY <1>1, <1>2, BetterIs
<1>4. Signal(Value(e, m)) /\ Signal(Value(f, m))
  BY <1>2, ValueIs
<1> QED
  BY <1>3, <1>4, NegatedIs, NegatedRises DEF Improves

LEMMA InflectionKeepsUp ==
    ASSUME NEW e, NEW f, Gained("financial_inflection", e, f)
    PROVE  KeptUp("financial_inflection", InflectionSignals(e), InflectionSignals(f))
<1> DEFINE c == "financial_inflection"
<1>1. c \in Weighed
  BY WeighedAre DEF WeighedIs
<1>2. /\ Metrics(c) = (Codes(c) \ {"roce_improvement"}) \cup {"current_roce", "prior_year_roce"}
      /\ \A n \in Codes(c) \ {"roce_improvement"} : n \notin LowerIsBetter
      /\ "current_roce" \notin LowerIsBetter /\ "prior_year_roce" \in LowerIsBetter
  BY CodesAre, LowerAre DEF Metrics
<1> HIDE DEF c
<1>3. ASSUME NEW n \in Codes(c), n # "roce_improvement"
      PROVE  Signal(Value(e, n)) /\ Signal(Value(f, n)) /\ Rises(Value(e, n), Value(f, n))
  BY <1>1, <1>2, <1>3, ValueKeepsUp DEF c
<1>4. PICK S, P : S = Value(e, "current_roce") /\ P = Value(f, "current_roce")
  OBVIOUS
<1>5. PICK T, Q : T = Value(e, "prior_year_roce") /\ Q = Value(f, "prior_year_roce")
  OBVIOUS
<1>6. /\ Signal(S) /\ Signal(P) /\ Signal(T) /\ Signal(Q) /\ Rises(S, P) /\ Falls(T, Q)
  <2>1. "current_roce" \in Metrics(c) /\ "prior_year_roce" \in Metrics(c)
    BY <1>2
  <2> QED
    BY <1>1, <1>2, <1>4, <1>5, <2>1, ValueKeepsUp DEF c
<1>7. Signal(Change(S, T)) /\ Signal(Change(P, Q)) /\ Rises(Change(S, T), Change(P, Q))
  BY <1>6, ChangeIs, ChangeRises
<1>8. ASSUME NEW n \in Codes(c)
      PROVE  /\ Signal(InflectionSignals(e)[n]) /\ Signal(InflectionSignals(f)[n])
             /\ Rises(InflectionSignals(e)[n], InflectionSignals(f)[n])
  BY <1>3, <1>4, <1>5, <1>7 DEF InflectionSignals, c
<1> QED
  BY <1>8 DEF KeptUp, Signals, c

LEMMA QualityKeepsUp ==
    ASSUME NEW e, NEW f, Gained("business_quality", e, f)
    PROVE  KeptUp("business_quality", QualitySignals(e), QualitySignals(f))
<1> DEFINE c == "business_quality"
<1>1. c \in Weighed /\ Metrics(c) = Codes(c) /\ \A n \in Codes(c) : n \notin LowerIsBetter
  BY WeighedAre, CodesAre, LowerAre DEF WeighedIs, Metrics
<1>2. \A n \in Codes(c) : /\ Signal(Value(e, n)) /\ Signal(Value(f, n))
                          /\ Rises(Value(e, n), Value(f, n))
  BY <1>1, ValueKeepsUp
<1> QED
  BY <1>2 DEF KeptUp, Signals, QualitySignals

LEMMA ValuationKeepsUp ==
    ASSUME NEW e, NEW f, Gained("valuation", e, f)
    PROVE  KeptUp("valuation", [n \in Codes("valuation") |-> Negated(Value(e, n))],
                  [n \in Codes("valuation") |-> Negated(Value(f, n))])
<1> DEFINE c == "valuation"
<1>1. c \in Weighed /\ Metrics(c) = Codes(c) /\ \A n \in Codes(c) : n \in LowerIsBetter
  BY WeighedAre, CodesAre, LowerAre DEF WeighedIs, Metrics
<1>2. \A n \in Codes(c) : /\ Signal(Negated(Value(e, n))) /\ Signal(Negated(Value(f, n)))
                          /\ Rises(Negated(Value(e, n)), Negated(Value(f, n)))
  BY <1>1, ValueKeepsUp
<1> QED
  BY <1>2 DEF KeptUp, Signals

LEMMA MarketKeepsUp ==
    ASSUME NEW e, NEW f, Gained("market_structure", e, f)
    PROVE  KeptUp("market_structure", MarketSignals(e), MarketSignals(f))
<1> DEFINE c == "market_structure"
<1>1. /\ c \in Weighed /\ Metrics(c) = Codes(c)
      /\ \A n \in Codes(c) : n \in LowerIsBetter <=> n \in {"volatility_ratio", "consolidation_range"}
  BY WeighedAre, CodesAre, LowerAre DEF WeighedIs, Metrics
<1>2. ASSUME NEW n \in Codes(c)
      PROVE  /\ Signal(MarketSignals(e)[n]) /\ Signal(MarketSignals(f)[n])
             /\ Rises(MarketSignals(e)[n], MarketSignals(f)[n])
  BY <1>1, ValueKeepsUp DEF MarketSignals
<1> QED
  BY <1>2 DEF KeptUp, Signals

\* A ratio whose numerator is a burden.
LEMMA RatioKeepsUp ==
    ASSUME NEW c \in Weighed, NEW e, NEW f, Gained(c, e, f),
           NEW top \in Metrics(c), NEW bottom \in Metrics(c), top # bottom,
           top \in LowerIsBetter, bottom \notin LowerIsBetter,
           Burden(e, bottom) => \E v \in Value(e, top) : v[1] >= 0
    PROVE  /\ Signal(Negated(Quotient(Value(e, top), Value(e, bottom))))
           /\ Signal(Negated(Quotient(Value(f, top), Value(f, bottom))))
           /\ Rises(Negated(Quotient(Value(e, top), Value(e, bottom))),
                    Negated(Quotient(Value(f, top), Value(f, bottom))))
<1>1. PICK m \in DOMAIN e : DoesBetter(e, f, m)
  BY DEF Gained
<1>2. Offers(c, e) /\ Offers(c, f)
  BY DEF Gained
<1>3. PICK S, T, P, Q : /\ S = Value(e, top) /\ T = Value(e, bottom)
                        /\ P = Value(f, top) /\ Q = Value(f, bottom)
  OBVIOUS
<1>4. /\ Signal(S) /\ Signal(T) /\ Signal(P) /\ Signal(Q) /\ Falls(S, P) /\ Rises(T, Q)
  BY <1>3, ValueKeepsUp
<1>5. /\ Burden(e, m) /\ \A k \in DOMAIN e \ {m} : Value(f, k) = Value(e, k)
      /\ top \in DOMAIN e /\ bottom \in DOMAIN e
  BY <1>1, <1>2, BetterIs, ValueIs
<1>6. CASE m = bottom
  <2>1. S = P /\ \E v \in S : v[1] >= 0
    BY <1>3, <1>5, <1>6
  <2>2. Falls(Quotient(S, T), Quotient(P, Q))
    BY <1>4, <2>1, QuotientFalls
  <2> QED
    BY <1>3, <1>4, <2>2, QuotientIs, NegatedIs, NegatedRises
<1>7. CASE m # bottom
  <2>1. T = Q
    BY <1>3, <1>5, <1>7
  <2>2. Falls(Quotient(S, T), Quotient(P, Q))
    BY <1>4, <2>1, QuotientFalls
  <2> QED
    BY <1>3, <1>4, <2>2, QuotientIs, NegatedIs, NegatedRises
<1> QED
  BY <1>6, <1>7

LEMMA BalanceKeepsUp ==
    ASSUME NEW e, NEW f, Gained("balance_sheet", e, f)
    PROVE  KeptUp("balance_sheet", BalanceSignals(e), BalanceSignals(f))
<1> DEFINE c == "balance_sheet"
<1>1. /\ c \in Weighed /\ Metrics(c) = {"net_debt", "ttm_ebitda", "debt_to_equity", "interest_coverage"}
      /\ "net_debt" \in LowerIsBetter /\ "ttm_ebitda" \notin LowerIsBetter
      /\ "debt_to_equity" \in LowerIsBetter /\ "interest_coverage" \notin LowerIsBetter
  BY WeighedAre, LowerAre DEF WeighedIs, Metrics
<1>2. Burden(e, "ttm_ebitda") => \E v \in Value(e, "net_debt") : v[1] >= 0
  BY DEF Burden
<1>3. /\ Signal(BalanceSignals(e)["net_debt_to_ebitda"]) /\ Signal(BalanceSignals(f)["net_debt_to_ebitda"])
      /\ Rises(BalanceSignals(e)["net_debt_to_ebitda"], BalanceSignals(f)["net_debt_to_ebitda"])
  <2>1. "net_debt" \in Metrics(c) /\ "ttm_ebitda" \in Metrics(c) /\ "net_debt" # "ttm_ebitda"
    BY <1>1
  <2> HIDE DEF c
  <2>2. /\ Signal(Negated(Quotient(Value(e, "net_debt"), Value(e, "ttm_ebitda"))))
        /\ Signal(Negated(Quotient(Value(f, "net_debt"), Value(f, "ttm_ebitda"))))
        /\ Rises(Negated(Quotient(Value(e, "net_debt"), Value(e, "ttm_ebitda"))),
                 Negated(Quotient(Value(f, "net_debt"), Value(f, "ttm_ebitda"))))
    BY <1>1, <1>2, <2>1, RatioKeepsUp DEF c
  <2> QED
    BY <2>2 DEF BalanceSignals
<1>4. /\ Signal(BalanceSignals(e)["debt_to_equity"]) /\ Signal(BalanceSignals(f)["debt_to_equity"])
      /\ Rises(BalanceSignals(e)["debt_to_equity"], BalanceSignals(f)["debt_to_equity"])
  <2>1. "debt_to_equity" \in Metrics(c)
    BY <1>1
  <2> QED
    BY <1>1, <2>1, ValueKeepsUp DEF BalanceSignals
<1>5. /\ Signal(BalanceSignals(e)["interest_coverage"]) /\ Signal(BalanceSignals(f)["interest_coverage"])
      /\ Rises(BalanceSignals(e)["interest_coverage"], BalanceSignals(f)["interest_coverage"])
  <2>1. "interest_coverage" \in Metrics(c)
    BY <1>1
  <2> QED
    BY <1>1, <2>1, ValueKeepsUp DEF BalanceSignals
<1> QED
  BY <1>3, <1>4, <1>5, CodesAre DEF KeptUp, Signals

LEMMA CashFlowKeepsUp ==
    ASSUME NEW e, NEW f, Gained("cash_flow_quality", e, f)
    PROVE  KeptUp("cash_flow_quality", CashFlowSignals(e), CashFlowSignals(f))
<1> DEFINE c == "cash_flow_quality"
<1>1. /\ c \in Weighed
      /\ Metrics(c) = {"cfo_conversion", "cfo_to_ebitda", "receivable_days",
                       "trade_working_capital_change", "ttm_revenue"}
      /\ "trade_working_capital_change" \in LowerIsBetter /\ "ttm_revenue" \notin LowerIsBetter
      /\ "cfo_conversion" \notin LowerIsBetter /\ "cfo_to_ebitda" \notin LowerIsBetter
      /\ "receivable_days" \in LowerIsBetter
  BY WeighedAre, LowerAre DEF WeighedIs, Metrics
<1>2. Burden(e, "ttm_revenue") => \E v \in Value(e, "trade_working_capital_change") : v[1] >= 0
  BY DEF Burden
<1> DEFINE b == "trade_working_capital_burden"
<1>3. /\ Signal(CashFlowSignals(e)[b]) /\ Signal(CashFlowSignals(f)[b])
      /\ Rises(CashFlowSignals(e)[b], CashFlowSignals(f)[b])
  <2> DEFINE top == "trade_working_capital_change"
             bottom == "ttm_revenue"
  <2>1. top \in Metrics(c) /\ bottom \in Metrics(c) /\ top # bottom
    BY <1>1
  <2>2. top \in LowerIsBetter /\ bottom \notin LowerIsBetter
    BY <1>1
  <2> HIDE DEF c
  <2>3. /\ Signal(Negated(Quotient(Value(e, top), Value(e, bottom))))
        /\ Signal(Negated(Quotient(Value(f, top), Value(f, bottom))))
        /\ Rises(Negated(Quotient(Value(e, top), Value(e, bottom))),
                 Negated(Quotient(Value(f, top), Value(f, bottom))))
    BY <1>1, <1>2, <2>1, <2>2, RatioKeepsUp DEF c
  <2> QED
    BY <2>3 DEF CashFlowSignals
<1>4. /\ Signal(CashFlowSignals(e)["receivable_days"]) /\ Signal(CashFlowSignals(f)["receivable_days"])
      /\ Rises(CashFlowSignals(e)["receivable_days"], CashFlowSignals(f)["receivable_days"])
  <2>1. "receivable_days" \in Metrics(c)
    BY <1>1
  <2> QED
    BY <1>1, <2>1, ValueKeepsUp DEF CashFlowSignals
<1>5. ASSUME NEW n \in {"cfo_conversion", "cfo_to_ebitda"}
      PROVE  /\ Signal(CashFlowSignals(e)[n]) /\ Signal(CashFlowSignals(f)[n])
             /\ Rises(CashFlowSignals(e)[n], CashFlowSignals(f)[n])
  <2>1. n \in Metrics(c) /\ n \notin LowerIsBetter
    BY <1>1
  <2>2. CashFlowSignals(e)[n] = Value(e, n) /\ CashFlowSignals(f)[n] = Value(f, n)
    BY DEF CashFlowSignals
  <2> QED
    BY <1>1, <2>1, <2>2, ValueKeepsUp
<1> QED
  BY <1>3, <1>4, <1>5, CodesAre DEF KeptUp, Signals

LEMMA AttentionKeepsUp ==
    ASSUME NEW e, NEW f, Gained("low_market_attention", e, f)
    PROVE  KeptUp("low_market_attention",
                  [news_mentions_count |-> NewsSignal(e), analyst_coverage_count |-> AnalystSignal(e)],
                  [news_mentions_count |-> NewsSignal(f), analyst_coverage_count |-> AnalystSignal(f)])
<1> DEFINE c == "low_market_attention"
<1>1. /\ c \in Weighed /\ Metrics(c) = Codes(c)
      /\ "news_mentions_count" \in LowerIsBetter /\ "analyst_coverage_count" \in LowerIsBetter
      /\ "news_mentions_count" \in Metrics(c) /\ "analyst_coverage_count" \in Metrics(c)
  BY WeighedAre, CodesAre, LowerAre DEF WeighedIs, Metrics
<1>2. ASSUME NEW S, NEW T, NEW P, NEW Q, Signal(S), Signal(T), Rises(S, T), P \subseteq S, Q \subseteq T
      PROVE  Signal(P) /\ Signal(Q) /\ Rises(P, Q)
  BY <1>2 DEF Signal, Rises
<1>3. Signal(NewsSignal(e)) /\ Signal(NewsSignal(f)) /\ Rises(NewsSignal(e), NewsSignal(f))
  <2>1. PICK S, T : /\ S = Negated(Value(e, "news_mentions_count"))
                    /\ T = Negated(Value(f, "news_mentions_count"))
    OBVIOUS
  <2>2. Signal(S) /\ Signal(T) /\ Rises(S, T)
    BY <1>1, <2>1, ValueKeepsUp
  <2>3. NewsSignal(e) \subseteq S /\ NewsSignal(f) \subseteq T
    BY <2>1 DEF NewsSignal
  <2> QED
    BY <1>2, <2>2, <2>3
<1>4. Signal(AnalystSignal(e)) /\ Signal(AnalystSignal(f)) /\ Rises(AnalystSignal(e), AnalystSignal(f))
  <2>1. PICK S, T : /\ S = Negated(Value(e, "analyst_coverage_count"))
                    /\ T = Negated(Value(f, "analyst_coverage_count"))
    OBVIOUS
  <2>2. Signal(S) /\ Signal(T) /\ Rises(S, T)
    BY <1>1, <2>1, ValueKeepsUp
  <2>3. AnalystSignal(e) \subseteq S /\ AnalystSignal(f) \subseteq T
    BY <2>1 DEF AnalystSignal
  <2> QED
    BY <1>2, <2>2, <2>3
<1> QED
  BY <1>3, <1>4, CodesAre DEF KeptUp, Signals

\* Each weighted scorer keeps up with an improvement.
LEMMA WeighedKeepsUp ==
    ASSUME NEW c \in Weighed, NEW e, NEW f, Gained(c, e, f)
    PROVE  KeepsUp(c, e, f)
<1>1. c \in WeighedIs
  BY WeighedAre
<1>2. CASE c = "financial_inflection"
  <2>1. /\ ComponentResult(c, e) \subseteq {Weighted(c, InflectionSignals(e))}
        /\ ComponentResult(c, f) \subseteq {Weighted(c, InflectionSignals(f))}
    BY <1>2 DEF ComponentResult, InflectionScore
  <2> QED
    BY <1>2, <2>1, InflectionKeepsUp, ScorerKeepsUp
<1>3. CASE c = "business_quality"
  <2>1. /\ ComponentResult(c, e) \subseteq {Weighted(c, Carrying(c, QualitySignals(e)))}
        /\ ComponentResult(c, f) \subseteq {Weighted(c, Carrying(c, QualitySignals(f)))}
    BY <1>3 DEF ComponentResult, QualityScore
  <2> QED
    BY <1>3, <2>1, QualityKeepsUp, CarryingKeepsUp, ScorerKeepsUp
<1>4. CASE c = "balance_sheet"
  <2>1. /\ ComponentResult(c, e) \subseteq {Weighted(c, Carrying(c, BalanceSignals(e)))}
        /\ ComponentResult(c, f) \subseteq {Weighted(c, Carrying(c, BalanceSignals(f)))}
    BY <1>4 DEF ComponentResult, BalanceScore
  <2> QED
    BY <1>4, <2>1, BalanceKeepsUp, CarryingKeepsUp, ScorerKeepsUp
<1>5. CASE c = "cash_flow_quality"
  <2>1. /\ ComponentResult(c, e) \subseteq {Weighted(c, Carrying(c, CashFlowSignals(e)))}
        /\ ComponentResult(c, f) \subseteq {Weighted(c, Carrying(c, CashFlowSignals(f)))}
    BY <1>5 DEF ComponentResult, CashFlowScore
  <2> QED
    BY <1>5, <2>1, CashFlowKeepsUp, CarryingKeepsUp, ScorerKeepsUp
<1>6. CASE c = "valuation"
  <2>1. PICK S, T : /\ S = [n \in Codes("valuation") |-> Negated(Value(e, n))]
                    /\ T = [n \in Codes("valuation") |-> Negated(Value(f, n))]
    OBVIOUS
  <2>2. /\ ComponentResult(c, e) \subseteq {Weighted(c, Carrying(c, S))}
        /\ ComponentResult(c, f) \subseteq {Weighted(c, Carrying(c, T))}
    BY <1>6, <2>1 DEF ComponentResult, ValuationScore
  <2>3. KeptUp(c, S, T)
    BY <1>6, <2>1, ValuationKeepsUp
  <2> QED
    BY <2>2, <2>3, CarryingKeepsUp, ScorerKeepsUp
<1>7. CASE c = "market_structure"
  <2>1. /\ ComponentResult(c, e) \subseteq {Weighted(c, Carrying(c, MarketSignals(e)))}
        /\ ComponentResult(c, f) \subseteq {Weighted(c, Carrying(c, MarketSignals(f)))}
    BY <1>7 DEF ComponentResult, MarketScore
  <2> QED
    BY <1>7, <2>1, MarketKeepsUp, CarryingKeepsUp, ScorerKeepsUp
<1>8. CASE c = "low_market_attention"
  <2>1. PICK S, T :
           /\ S = [news_mentions_count |-> NewsSignal(e), analyst_coverage_count |-> AnalystSignal(e)]
           /\ T = [news_mentions_count |-> NewsSignal(f), analyst_coverage_count |-> AnalystSignal(f)]
    OBVIOUS
  <2>2. /\ ComponentResult(c, e) \subseteq {Weighted(c, Carrying(c, S))}
        /\ ComponentResult(c, f) \subseteq {Weighted(c, Carrying(c, T))}
    BY <1>8, <2>1 DEF ComponentResult, AttentionScore
  <2>3. KeptUp(c, S, T)
    BY <1>8, <2>1, AttentionKeepsUp
  <2> QED
    BY <2>2, <2>3, CarryingKeepsUp, ScorerKeepsUp
<1> QED
  BY <1>1, <1>2, <1>3, <1>4, <1>5, <1>6, <1>7, <1>8 DEF WeighedIs

-----------------------------------------------------------------------------
(* Business events.                                                        *)

Percent(d) == IF d.m = 0 THEN d ELSE Dec(d.m, d.e - 2)

LEMMA PercentIs ==
    ASSUME NEW d \in Decimal
    PROVE  Percent(d) \in Decimal /\ (Short(d) => Short(Percent(d)))
<1>1. d.m \in Nat /\ d.e \in Int /\ d.e - 2 \in Int
  BY DEF Decimal
<1> QED
  BY <1>1, DecimalIs DEF Percent, Short

AnEvent(event) ==
    /\ event.type \in Range(EventTypes) /\ event.age \in Nat
    /\ event.value \in Fraction \cup {Undefined}

\* An optional decimal.
Single(S) == S \in SUBSET Decimal /\ \A a, b \in S : a = b

LEMMA RecencyIs ==
    ASSUME NEW event, AnEvent(event)
    PROVE  LET r == Interpolated(<<-event.age, 1>>, CatalystCurve("recency"))
           IN Short(r) /\ r \in Decimal /\ NotAbove(r, Whole(100))
<1>1. <<-event.age, 1>> \in Fraction
  <2>1. event.age \in Nat
    BY DEF AnEvent
  <2>2. -event.age \in Int /\ 1 \in Nat \ {0}
    BY <2>1
  <2> QED
    BY <2>2 DEF Fraction
<1>2. ValidCurve(CatalystCurve("recency"))
  BY PolicyAssumption DEF ValidCatalysts, CatalystCurve
<1> QED
  BY <1>1, <1>2, InterpolatedOnScale

LEMMA StrengthIs ==
    ASSUME NEW event, AnEvent(event)
    PROVE  /\ Single(Strength(event))
           /\ \A s \in Strength(event) : Short(s) /\ NotAbove(s, Whole(100))
<1>1. /\ ValidCurve(CatalystCurve("order_value")) /\ ValidCurve(CatalystCurve("capacity_change"))
      /\ PolicyLimit.commencement \in 0..100 /\ PolicyLimit.approval \in 0..100
  BY PolicyAssumption DEF ValidCatalysts, CatalystCurve
<1>2. ASSUME NEW v \in {event.value} \ {Undefined}, NEW curve, ValidCurve(curve)
      PROVE  /\ Interpolated(v, curve) \in Decimal /\ Short(Interpolated(v, curve))
             /\ NotAbove(Interpolated(v, curve), Whole(100))
  <2>1. v \in Fraction
    BY DEF AnEvent
  <2> QED
    BY <1>2, <2>1, InterpolatedOnScale
<1>3. ASSUME NEW n \in 0..100
      PROVE  Whole(n) \in Decimal /\ Short(Whole(n)) /\ NotAbove(Whole(n), Whole(100))
  <2>1. n \in Nat /\ n <= 100 /\ 100 \in 0..100
    OBVIOUS
  <2> QED
    BY <2>1, WholeIs, WholesInOrder
<1>4. CASE event.type = "order_award"
  BY <1>1, <1>2, <1>4 DEF Strength, Single
<1>5. CASE event.type = "capacity_expansion"
  BY <1>1, <1>2, <1>5 DEF Strength, Single
<1>6. CASE event.type = "commercial_commencement"
  BY <1>1, <1>3, <1>6 DEF Strength, Single
<1>7. CASE event.type = "regulatory_approval"
  BY <1>1, <1>3, <1>7 DEF Strength, Single
<1>8. CASE event.type \notin {"order_award", "capacity_expansion", "commercial_commencement",
                              "regulatory_approval"}
  <2>1. Strength(event) = {}
    BY <1>8 DEF Strength
  <2> QED
    BY <2>1 DEF Single
<1> QED
  BY <1>4, <1>5, <1>6, <1>7, <1>8

LEMMA EventScoreIs ==
    ASSUME NEW event, AnEvent(event)
    PROVE  Single(EventScore(event))
<1>1. PICK r : r = Interpolated(<<-event.age, 1>>, CatalystCurve("recency")) /\ r \in Decimal
  BY RecencyIs
<1>2. \A s \in Strength(event) : Percent(Times(s, r)) \in Decimal
  BY <1>1, StrengthIs, TimesShort, PercentIs DEF Single
<1>3. EventScore(event) = IF event.age > PolicyLimit.eventAge THEN {}
                          ELSE {Percent(Times(s, r)) : s \in Strength(event)}
  BY <1>1 DEF EventScore, Percent
<1> QED
  BY <1>2, <1>3, StrengthIs DEF Single

\* The events of a bundle.
LEMMA EventsAre ==
    ASSUME NEW e, Offers("business_catalyst", e)
    PROVE  /\ DOMAIN e \subseteq Nat /\ IsFiniteSet(DOMAIN e)
           /\ \A k \in Given(e, DOMAIN e) : k \in DOMAIN e /\ AnEvent(e[k])
<1>1. DOMAIN e = DOMAIN Offered["business_catalyst"]
  BY DEF Offers
<1>2. ASSUME NEW k \in Given(e, DOMAIN e)
      PROVE  k \in DOMAIN e /\ AnEvent(e[k])
  <2>1. k \in DOMAIN e /\ e[k] # Absent
    BY DEF Given
  <2>2. e[k] \in OffersOf("business_catalyst", k) \ {Absent}
    BY <2>1 DEF Offers
  <2> QED
    BY <1>1, <2>1, <2>2, OfferedAssumption DEF AnEvent
<1> QED
  BY <1>1, <1>2, OfferedAssumption

\* Of finitely many events that have a score, one is not worse than any.
LEMMA SomeIsBest ==
    ASSUME NEW V, IsFiniteSet(V), V # {}, NEW F, \A k \in V : F[k] \in Decimal
    PROVE  \E k \in V : \A j \in V : NotAbove(F[j], F[k])
<1> DEFINE Best(s, k) == k \in s /\ \A j \in s : NotAbove(F[j], F[k])
           B == {s \in SUBSET V : s # {} /\ ~ \E k \in V : Best(s, k)}
<1>1. B \in SUBSET SUBSET V /\ {} \notin B
  OBVIOUS
<1>2. ASSUME NEW s \in B
      PROVE  \E x \in s : s \ {x} \in B
  <2>1. PICK x \in s : TRUE
    OBVIOUS
  <2>2. SUFFICES ASSUME s \ {x} \notin B
                 PROVE  FALSE
    BY <2>1
  <2>3. s \in SUBSET V /\ x \in V /\ ~ \E k \in V : Best(s, k)
    OBVIOUS
  <2>4. NotAbove(F[x], F[x])
    BY <2>3, OrderReflexive
  <2>5. CASE s \ {x} = {}
    <3>1. Best(s, x)
      BY <2>4, <2>5
    <3> QED
      BY <2>3, <3>1
  <2>6. CASE s \ {x} # {}
    <3>1. PICK y \in V : Best(s \ {x}, y)
      BY <2>2, <2>3, <2>6
    <3>2. y \in s /\ \A j \in s : j = x \/ NotAbove(F[j], F[y])
      BY <3>1
    <3>3. CASE NotAbove(F[x], F[y])
      <4>1. Best(s, y)
        BY <3>2, <3>3
      <4> QED
        BY <2>3, <4>1
    <3>4. CASE NotAbove(F[y], F[x])
      <4>1. ASSUME NEW j \in s
            PROVE  NotAbove(F[j], F[x])
        <5>1. j \in V /\ F[j] \in Decimal /\ F[y] \in Decimal /\ F[x] \in Decimal
          BY <2>3
        <5> QED
          BY <2>4, <3>2, <3>4, <5>1, OrderTransitive
      <4>2. Best(s, x)
        BY <4>1
      <4> QED
        BY <2>3, <4>2
    <3> QED
      BY <2>3, <3>3, <3>4, OrderTotal
  <2> QED
    BY <2>5, <2>6
<1> HIDE DEF B
<1>3. B = {}
  BY <1>1, <1>2, NoneIsBad
<1> QED
  BY <1>3 DEF B

ScoredEvents(e) == {k \in Given(e, DOMAIN e) : EventScore(e[k]) # {}}

NotWorseThan(e, k, j) == \A a \in EventScore(e[j]), b \in EventScore(e[k]) : NotAbove(a, b)

\* Where an event has a score one is selected, and none has a better score.
LEMMA BestIsSelected ==
    ASSUME NEW e, Offers("business_catalyst", e), ScoredEvents(e) # {}
    PROVE  \E j \in SelectedEvent(e) : /\ j \in ScoredEvents(e)
                                       /\ \A k \in ScoredEvents(e) : NotWorseThan(e, j, k)
<1> DEFINE V == ScoredEvents(e)
           best == {k \in V : \A j \in V : NotWorseThan(e, k, j)}
           newest == {k \in best : \A j \in best : e[k].age <= e[j].age}
           Precedes(k, j) ==
               \/ RankOf(e[k].type) < RankOf(e[j].type)
               \/ e[k].type = e[j].type /\ k <= j
           selected == {k \in newest : \A j \in newest : Precedes(k, j)}
<1>1. SelectedEvent(e) = selected
  BY Zenon DEF SelectedEvent, ScoredEvents, NotWorseThan
<1>2. /\ IsFiniteSet(V) /\ V \subseteq Nat
      /\ \A k \in V : AnEvent(e[k]) /\ Single(EventScore(e[k])) /\ EventScore(e[k]) # {}
  <2>1. V \subseteq DOMAIN e
    BY EventsAre DEF ScoredEvents
  <2>2. IsFiniteSet(V) /\ V \subseteq Nat
    BY <2>1, EventsAre, FS_Subset
  <2>3. \A k \in V : AnEvent(e[k])
    BY EventsAre DEF ScoredEvents
  <2>4. \A k \in V : EventScore(e[k]) # {}
    BY DEF ScoredEvents
  <2> QED
    BY <2>2, <2>3, <2>4, EventScoreIs
<1> DEFINE F == [k \in V |-> CHOOSE a \in EventScore(e[k]) : TRUE]
<1>3. \A k \in V : F[k] \in Decimal /\ EventScore(e[k]) = {F[k]}
  BY <1>2 DEF Single
<1> HIDE DEF F
<1>4. best # {}
  <2>1. PICK k \in V : \A j \in V : NotAbove(F[j], F[k])
    <3> HIDE DEF V
    <3> QED
      BY <1>2, <1>3, SomeIsBest DEF V
  <2>2. \A j \in V : NotWorseThan(e, k, j)
    BY <1>3, <2>1 DEF NotWorseThan
  <2> QED
    BY <2>1, <2>2
<1> HIDE DEF V
<1>5. best \subseteq V
  OBVIOUS
<1> HIDE DEF best
<1>6. newest # {}
  <2> DEFINE Ages == {e[k].age : k \in best}
  <2>1. Ages \in SUBSET Nat /\ Ages # {}
    BY <1>2, <1>4, <1>5 DEF AnEvent
  <2>2. PICK n \in Ages : \A m \in Ages : n <= m
    <3> HIDE DEF Ages
    <3> QED
      BY <2>1, LeastOf
  <2>3. PICK k \in best : n = e[k].age
    BY <2>2
  <2>4. \A j \in best : e[k].age <= e[j].age
    BY <2>2, <2>3
  <2> QED
    BY <2>3, <2>4
<1>7. newest \subseteq best
  OBVIOUS
<1> HIDE DEF newest
<1>8. selected # {}
  <2> DEFINE Ranks == {RankOf(e[k].type) : k \in newest}
  <2>1. \A k \in newest : RankOf(e[k].type) \in 1..6 /\ EventTypes[RankOf(e[k].type)] = e[k].type
    <3> SUFFICES ASSUME NEW k \in newest
                 PROVE  RankOf(e[k].type) \in 1..6 /\ EventTypes[RankOf(e[k].type)] = e[k].type
      OBVIOUS
    <3>1. e[k].type \in Range(EventTypes)
      BY <1>2, <1>5, <1>7 DEF AnEvent
    <3>2. DOMAIN EventTypes = 1..6
      BY DEF EventTypes
    <3>3. \E i \in DOMAIN EventTypes : EventTypes[i] = e[k].type
      BY <3>1 DEF Range
    <3> QED
      BY <3>2, <3>3 DEF RankOf
  <2>2. Ranks \in SUBSET Nat /\ Ranks # {}
    BY <1>6, <2>1
  <2>3. PICK n \in Ranks : \A m \in Ranks : n <= m
    <3> HIDE DEF Ranks
    <3> QED
      BY <2>2, LeastOf
  <2> DEFINE first == {k \in newest : RankOf(e[k].type) = n}
  <2>4. first \in SUBSET Nat /\ first # {}
    BY <1>2, <1>5, <1>7, <2>3
  <2>5. PICK k \in first : \A j \in first : k <= j
    <3> HIDE DEF first
    <3> QED
      BY <2>4, LeastOf
  <2>6. ASSUME NEW j \in newest
        PROVE  Precedes(k, j)
    <3>1. RankOf(e[j].type) \in Nat /\ n \in Nat /\ n <= RankOf(e[j].type) /\ RankOf(e[k].type) = n
      BY <2>1, <2>2, <2>3, <2>5
    <3>2. CASE n < RankOf(e[j].type)
      BY <3>1, <3>2
    <3>3. CASE n = RankOf(e[j].type)
      <4>1. j \in first /\ e[j].type = e[k].type
        BY <2>1, <2>5, <3>3
      <4> QED
        BY <2>5, <4>1
    <3> QED
      BY <3>1, <3>2, <3>3
  <2>7. k \in newest
    BY <2>5
  <2> QED
    BY <2>6, <2>7
<1>9. PICK j \in selected : TRUE
  BY <1>8
<1>10. j \in best
  BY <1>7
<1>11. j \in V /\ \A k \in V : NotWorseThan(e, j, k)
  BY <1>10 DEF best
<1> QED
  BY <1>1, <1>9, <1>11 DEF V

CatalystScoreOf(e) == UNION {EventScore(e[k]) : k \in SelectedEvent(e)}

LEMMA CatalystScoreIs ==
    ASSUME NEW e, NEW r \in CatalystScore(e)
    PROVE  /\ r.score = CatalystScoreOf(e)
           /\ r.parts = UNION {EventScore(e[k]) : k \in Given(e, DOMAIN e)}
<1> DEFINE score == CatalystScoreOf(e)
           parts == UNION {EventScore(e[k]) : k \in Given(e, DOMAIN e)}
<1>1. CatalystScore(e) = IF CatalystCoherent(e)
                         THEN {[score |-> score, parts |-> parts, missing |-> {}]} ELSE {}
  BY Zenon DEF CatalystScore, CatalystScoreOf
<1> HIDE DEF score, parts
<1>2. r = [score |-> score, parts |-> parts, missing |-> {}]
  BY <1>1
<1>3. r.score = score /\ r.parts = parts
  BY <1>2
<1> QED
  BY <1>3 DEF score, parts

\* A further event does no harm.
LEMMA CatalystKeepsUp ==
    ASSUME NEW e, NEW f, Offers("business_catalyst", e), Offers("business_catalyst", f), NEW m \in DOMAIN e,
           e = [f EXCEPT ![m] = Absent]
    PROVE  KeepsUp("business_catalyst", e, f)
<1> SUFFICES ASSUME NEW r \in CatalystScore(e), NEW q \in CatalystScore(f), NEW s \in r.score
             PROVE  \E t \in q.score : NotAbove(s, t)
  BY DEF KeepsUp, ComponentResult
<1>1. r.score = UNION {EventScore(e[k]) : k \in SelectedEvent(e)}
  BY ONLY r \in CatalystScore(e), CatalystScoreIs DEF CatalystScoreOf
<1>2. q.score = UNION {EventScore(f[k]) : k \in SelectedEvent(f)}
  BY ONLY q \in CatalystScore(f), CatalystScoreIs DEF CatalystScoreOf
<1>3. PICK k \in SelectedEvent(e) : s \in EventScore(e[k])
  BY <1>1
<1>4. k \in ScoredEvents(e)
  BY DEF SelectedEvent, ScoredEvents
<1>5. k \in DOMAIN e /\ e[k] # Absent
  BY <1>4 DEF ScoredEvents, Given
<1>6. DOMAIN e = DOMAIN f /\ f[k] = e[k]
  BY <1>5 DEF Offers
<1>7. k \in ScoredEvents(f)
  BY <1>4, <1>5, <1>6 DEF ScoredEvents, Given
<1>8. PICK j \in SelectedEvent(f) : j \in ScoredEvents(f) /\ \A i \in ScoredEvents(f) : NotWorseThan(f, j, i)
  BY <1>7, BestIsSelected
<1>9. PICK t : t \in EventScore(f[j])
  BY <1>8 DEF ScoredEvents
<1>10. NotAbove(s, t)
  BY <1>3, <1>6, <1>7, <1>8, <1>9 DEF NotWorseThan
<1> QED
  BY <1>2, <1>8, <1>9, <1>10

-----------------------------------------------------------------------------
(* Confidence and eligibility.                                             *)

LEMMA ConfidenceItems ==
    ASSUME NEW e, Offers("confidence", e)
    PROVE  /\ DOMAIN e = {"features", "reliability", "age", "history", "confidence"}
           /\ \A m \in {"features", "reliability", "confidence"} : e[m] \in UnitInterval \cup {Absent}
           /\ e["age"] \in Nat \cup {Absent} /\ e["history"] \in Nat
  BY OfferedAssumption DEF Offers

LEMMA PortionIs ==
    ASSUME NEW f \in UnitInterval
    PROVE  /\ f[1] \in Nat /\ f[2] \in Nat \ {0}
           /\ Short(Divided(f[1], f[2])) /\ NotAbove(Divided(f[1], f[2]), Whole(1))
<1>1. PICK n \in Nat, d \in Nat \ {0} : n = f[1] /\ d = f[2] /\ n <= d
  <2>1. f[1] \in Int /\ f[2] \in Nat \ {0} /\ 0 <= f[1] /\ f[1] <= f[2]
    BY DEF UnitInterval, Fraction
  <2> QED
    BY <2>1
<1>2. RoundsTo(Divided(n, d), n, d) /\ RoundsTo(Whole(1), 1, 1) /\ n * 1 <= 1 * d /\ 1 \in Nat \ {0}
  <2>1. 1 \in 0..100 /\ n * 1 <= 1 * d /\ 1 \in Nat \ {0}
    BY <1>1
  <2> QED
    BY <2>1, DividedRounds, WholeRounds
<1>3. PICK r, q : r = Divided(n, d) /\ q = Whole(1)
  OBVIOUS
<1>4. NotAbove(r, q)
  BY <1>2, <1>3, RoundedInOrder
<1> QED
  BY <1>1, <1>3, <1>4, DividedShort

\* A term of the confidence is a part of 1, and firmer evidence does not lower it.
LEMMA TermsAre ==
    ASSUME NEW e, Offers("confidence", e), NEW t \in Range(TermOrder)
    PROVE  /\ Short(ConfidenceTerms(e)[t]) /\ ConfidenceTerms(e)[t] \in Decimal
           /\ NotAbove(ConfidenceTerms(e)[t], Whole(1))
<1>0. t \in {"completeness", "source_reliability", "recency", "history", "evidence"}
  <2>1. 1..5 = {1, 2, 3, 4, 5}
    OBVIOUS
  <2> QED
    BY <2>1 DEF Range, TermOrder
<1>1. PolicyLimit.staleAfter \in Nat \ {0} /\ PolicyLimit.history \in Nat \ {0}
  BY PolicyAssumption DEF ValidConfidence
<1>2. /\ Short(Nought) /\ Nought \in Decimal /\ Short(Whole(1)) /\ Whole(1) \in Decimal
      /\ NotAbove(Nought, Whole(1)) /\ NotAbove(Whole(1), Whole(1))
  BY NoughtIs, WholeIs, OrderReflexive
<1>3. ASSUME NEW m \in {"features", "reliability", "confidence"}
      PROVE  LET p == IF e[m] = Absent THEN Nought ELSE Divided(e[m][1], e[m][2])
             IN Short(p) /\ NotAbove(p, Whole(1))
  BY <1>2, ConfidenceItems, PortionIs
<1>4. CASE t = "completeness"
  <2>1. ConfidenceTerms(e)[t] = IF e["features"] = Absent THEN Nought ELSE Divided(e["features"][1], e["features"][2])
    BY <1>4 DEF ConfidenceTerms
  <2> QED
    BY <1>3, <2>1 DEF Short
<1>5. CASE t = "source_reliability"
  <2>1. ConfidenceTerms(e)[t] = IF e["reliability"] = Absent THEN Nought ELSE Divided(e["reliability"][1], e["reliability"][2])
    BY <1>5 DEF ConfidenceTerms
  <2> QED
    BY <1>3, <2>1 DEF Short
<1>6. CASE t = "evidence"
  <2>1. ConfidenceTerms(e)[t] = IF e["confidence"] = Absent THEN Nought ELSE Divided(e["confidence"][1], e["confidence"][2])
    BY <1>6 DEF ConfidenceTerms
  <2> QED
    BY <1>3, <2>1 DEF Short
<1>7. ASSUME NEW n \in Nat, NEW d \in Nat \ {0}, n <= d
      PROVE  Short(Divided(n, d)) /\ Divided(n, d) \in Decimal /\ NotAbove(Divided(n, d), Whole(1))
  <2>1. <<n, d>> \in UnitInterval
    BY <1>7 DEF UnitInterval, Fraction
  <2>2. <<n, d>>[1] = n /\ <<n, d>>[2] = d
    OBVIOUS
  <2> QED
    BY <2>1, <2>2, PortionIs DEF Short
<1>8. CASE t = "recency"
  <2>1. ConfidenceTerms(e)[t] = IF e["age"] = Absent \/ e["age"] >= PolicyLimit.staleAfter THEN Nought
                                ELSE Minus(Whole(1), Divided(e["age"], PolicyLimit.staleAfter))
    BY <1>8 DEF ConfidenceTerms
  <2>2. CASE e["age"] = Absent \/ e["age"] >= PolicyLimit.staleAfter
    BY <1>2, <2>1, <2>2
  <2>3. CASE ~(e["age"] = Absent \/ e["age"] >= PolicyLimit.staleAfter)
    <3>1. e["age"] \in Nat /\ e["age"] <= PolicyLimit.staleAfter
      BY <1>1, <2>3, ConfidenceItems
    <3>2. PICK d : d = Divided(e["age"], PolicyLimit.staleAfter) /\ d \in Decimal /\ NotAbove(d, Whole(1))
      BY <1>1, <1>7, <3>1
    <3>3. PICK a : a = Minus(Whole(1), d) /\ Short(a) /\ a \in Decimal
      BY <1>2, <3>2, MinusShort
    <3>4. NotAbove(a, Whole(1))
      <4>1. PICK k \in Nat : k \in ScalesOf(Whole(1)) /\ k \in ScalesOf(d)
        BY <1>2, <3>2, ScaleForFour
      <4>2. PICK x \in Nat, y \in Nat, u \in Nat \ {0} :
               x = On(Whole(1), k) /\ y = On(d, k) /\ u = PowerOfTen[k] /\ y <= x
        BY <1>2, <3>2, <4>1, AtOrder, TenPositive
      <4>3. RoundsTo(a, x - y, u)
        BY <1>2, <3>2, <3>3, <4>1, <4>2, MinusRounds
      <4>4. PICK w : w = Whole(1)
        OBVIOUS
      <4>5. RoundsTo(w, x, u)
        BY <1>2, <4>1, <4>2, <4>4, ShortRounds
      <4>6. PICK z \in Nat : z = x - y /\ z <= x
        <5>1. x - y \in Nat /\ x - y <= x
          BY <4>2
        <5> QED
          BY <5>1
      <4>7. z * u <= x * u
        BY <4>6
      <4> QED
        BY <4>3, <4>4, <4>5, <4>6, <4>7, RoundedInOrder
    <3> QED
      BY <2>1, <2>3, <3>2, <3>3, <3>4
  <2> QED
    BY <2>2, <2>3
<1>9. CASE t = "history"
  <2>1. ConfidenceTerms(e)[t] = IF e["history"] >= PolicyLimit.history THEN Whole(1)
                                ELSE Divided(e["history"], PolicyLimit.history)
    BY <1>9 DEF ConfidenceTerms
  <2>2. e["history"] \in Nat
    BY ConfidenceItems
  <2> QED
    BY <1>1, <1>2, <1>7, <2>1, <2>2
<1> QED
  BY <1>0, <1>4, <1>5, <1>6, <1>8, <1>9

LEMMA TermsFirmer ==
    ASSUME NEW e, NEW f, Offers("confidence", e), Offers("confidence", f), NEW m \in DOMAIN e,
           IsFirmer(e, f, m), NEW t \in Range(TermOrder)
    PROVE  NotAbove(ConfidenceTerms(e)[t], ConfidenceTerms(f)[t])
<1>0. t \in {"completeness", "source_reliability", "recency", "history", "evidence"}
  <2>1. 1..5 = {1, 2, 3, 4, 5}
    OBVIOUS
  <2> QED
    BY <2>1 DEF Range, TermOrder
<1>1. PolicyLimit.staleAfter \in Nat \ {0} /\ PolicyLimit.history \in Nat \ {0}
  BY PolicyAssumption DEF ValidConfidence
<1>2. /\ ConfidenceTerms(e)[t] \in Decimal /\ ConfidenceTerms(f)[t] \in Decimal
      /\ NotAbove(ConfidenceTerms(f)[t], Whole(1))
      /\ NotAbove(ConfidenceTerms(e)[t], ConfidenceTerms(e)[t])
  BY TermsAre, OrderReflexive
<1>3. /\ e[m] # Absent /\ f[m] # Absent /\ \A k \in DOMAIN e \ {m} : f[k] = e[k]
      /\ DOMAIN e = {"features", "reliability", "age", "history", "confidence"}
      /\ DOMAIN f = DOMAIN e
  BY ConfidenceItems DEF IsFirmer
<1>4. ASSUME NEW k \in {"features", "reliability", "confidence"}
      PROVE  LET p(g) == IF g[k] = Absent THEN Nought ELSE Divided(g[k][1], g[k][2])
             IN NotAbove(p(e), p(f))
  <2>1. CASE m = k
    <3>1. e[k] \in UnitInterval /\ f[k] \in UnitInterval
      BY <1>3, <2>1, ConfidenceItems
    <3>2. PICK n \in Nat, d \in Nat \ {0}, i \in Nat, j \in Nat \ {0} :
             n = e[k][1] /\ d = e[k][2] /\ i = f[k][1] /\ j = f[k][2]
      BY <3>1, PortionIs
    <3>3. n * j < i * d
      BY <2>1, <3>2 DEF IsFirmer
    <3>4. n * j <= i * d
      <4>1. PICK x \in Nat, y \in Nat : x = n * j /\ y = i * d
        OBVIOUS
      <4> QED
        BY <3>3, <4>1
    <3>5. NotAbove(Divided(n, d), Divided(i, j))
      BY <3>4, DividedInOrder
    <3> QED
      BY <1>3, <2>1, <3>2, <3>5
  <2>2. CASE m # k
    <3>1. f[k] = e[k]
      BY <1>3, <2>2
    <3>2. CASE e[k] = Absent
      <4>1. NotAbove(Nought, Nought)
        BY NoughtIs
      <4> QED
        BY <3>1, <3>2, <4>1
    <3>3. CASE e[k] # Absent
      <4>1. e[k] \in UnitInterval
        BY <3>3, ConfidenceItems
      <4>2. Divided(e[k][1], e[k][2]) \in Decimal
        BY <4>1, PortionIs DEF Short
      <4>3. NotAbove(Divided(e[k][1], e[k][2]), Divided(e[k][1], e[k][2]))
        BY <4>2, OrderReflexive
      <4> QED
        BY <3>1, <3>3, <4>3
    <3> QED
      BY <3>2, <3>3
  <2> QED
    BY <2>1, <2>2
<1>5. CASE t = "completeness"
  BY <1>4, <1>5 DEF ConfidenceTerms
<1>6. CASE t = "source_reliability"
  BY <1>4, <1>6 DEF ConfidenceTerms
<1>7. CASE t = "evidence"
  BY <1>4, <1>7 DEF ConfidenceTerms
<1>8. CASE t = "recency"
  <2>1. /\ ConfidenceTerms(e)[t] = IF e["age"] = Absent \/ e["age"] >= PolicyLimit.staleAfter THEN Nought
                                   ELSE Minus(Whole(1), Divided(e["age"], PolicyLimit.staleAfter))
        /\ ConfidenceTerms(f)[t] = IF f["age"] = Absent \/ f["age"] >= PolicyLimit.staleAfter THEN Nought
                                   ELSE Minus(Whole(1), Divided(f["age"], PolicyLimit.staleAfter))
    BY <1>8 DEF ConfidenceTerms
  <2>2. CASE m # "age"
    <3>1. f["age"] = e["age"]
      BY <1>3, <2>2
    <3>2. ConfidenceTerms(f)[t] = ConfidenceTerms(e)[t]
      BY <2>1, <3>1
    <3> QED
      BY <1>2, <3>2
  <2>3. CASE m = "age"
    <3>1. PICK x \in Nat, y \in Nat, s \in Nat \ {0} :
             x = e["age"] /\ y = f["age"] /\ s = PolicyLimit.staleAfter /\ y < x
      <4>1. e["age"] \in Nat /\ f["age"] \in Nat
        BY <1>3, <2>3, ConfidenceItems
      <4>2. e["age"] > f["age"]
        BY <2>3 DEF IsFirmer
      <4> QED
        BY <1>1, <4>1, <4>2
    <3>2. CASE x >= s
      <4>1. ConfidenceTerms(e)[t] = Nought
        BY <2>1, <3>1, <3>2
      <4> QED
        BY <1>2, <4>1, NoughtIs
    <3>3. CASE x < s
      <4>1. /\ ConfidenceTerms(e)[t] = Minus(Whole(1), Divided(x, s))
            /\ ConfidenceTerms(f)[t] = Minus(Whole(1), Divided(y, s))
        BY <1>3, <2>1, <2>3, <3>1, <3>3
      <4>2. PICK a, b : /\ a = Divided(x, s) /\ b = Divided(y, s) /\ NotAbove(b, a)
                        /\ a \in Decimal /\ b \in Decimal
        <5>1. y * s <= x * s
          BY <3>1
        <5> QED
          BY <5>1, DividedInOrder, DividedShort
      <4>3. NotAbove(a, Whole(1)) /\ Whole(1) \in Decimal
        <5>1. <<x, s>> \in UnitInterval /\ <<x, s>>[1] = x /\ <<x, s>>[2] = s
          BY <3>3 DEF UnitInterval, Fraction
        <5> QED
          BY <4>2, <5>1, PortionIs, WholeIs
      <4> QED
        BY <4>1, <4>2, <4>3, MinusInOrder
    <3> QED
      BY <3>2, <3>3
  <2> QED
    BY <2>2, <2>3
<1>9. CASE t = "history"
  <2>1. /\ ConfidenceTerms(e)[t] = IF e["history"] >= PolicyLimit.history THEN Whole(1)
                                   ELSE Divided(e["history"], PolicyLimit.history)
        /\ ConfidenceTerms(f)[t] = IF f["history"] >= PolicyLimit.history THEN Whole(1)
                                   ELSE Divided(f["history"], PolicyLimit.history)
    BY <1>9 DEF ConfidenceTerms
  <2>2. PICK x \in Nat, y \in Nat, s \in Nat \ {0} :
           x = e["history"] /\ y = f["history"] /\ s = PolicyLimit.history
    BY <1>1, ConfidenceItems
  <2>3. x <= y
    <3>1. CASE m = "history"
      <4>1. e["history"] < f["history"]
        BY <3>1 DEF IsFirmer
      <4> QED
        BY <2>2, <4>1
    <3>2. CASE m # "history"
      BY <1>3, <2>2, <3>2
    <3> QED
      BY <3>1, <3>2
  <2>4. CASE y >= s
    <3>1. ConfidenceTerms(f)[t] = Whole(1)
      BY <2>1, <2>2, <2>4
    <3>2. NotAbove(ConfidenceTerms(e)[t], Whole(1))
      BY TermsAre
    <3> QED
      BY <3>1, <3>2
  <2>5. CASE y < s
    <3>1. x < s /\ x * s <= y * s
      BY <2>3, <2>5
    <3>2. ConfidenceTerms(e)[t] = Divided(x, s) /\ ConfidenceTerms(f)[t] = Divided(y, s)
      BY <2>1, <2>2, <2>5, <3>1
    <3> QED
      BY <3>1, <3>2, DividedInOrder
  <2> QED
    BY <2>4, <2>5
<1> QED
  BY <1>0, <1>5, <1>6, <1>7, <1>8, <1>9

\* The terms of the confidence, weighed.
Weighings(e) ==
    [i \in DOMAIN TermOrder |->
        Times(ConfidenceTerms(e)[TermOrder[i]], Percentage(ConfidenceShare[TermOrder[i]]))]

LEMMA WeighingsAre ==
    ASSUME NEW i \in 1..5
    PROVE  /\ TermOrder[i] \in Range(TermOrder) /\ DOMAIN TermOrder = 1..5
           /\ ConfidenceShare[TermOrder[i]] \in 0..100
           /\ Percentage(ConfidenceShare[TermOrder[i]]) \in Decimal
<1>1. DOMAIN TermOrder = 1..5
  BY DEF TermOrder
<1>2. TermOrder[i] \in Range(TermOrder)
  BY <1>1 DEF Range
<1>3. ConfidenceShare[TermOrder[i]] \in 0..100
  BY <1>2, PolicyAssumption DEF ValidConfidence, Percentages
<1>4. PICK n \in Nat : n = ConfidenceShare[TermOrder[i]]
  BY <1>3
<1>5. Percentage(n) \in Decimal
  BY DecimalIs DEF Percentage
<1> QED
  BY <1>1, <1>2, <1>3, <1>4, <1>5

LEMMA ConfidenceFirmer ==
    ASSUME NEW e, NEW f, Offers("confidence", e), Offers("confidence", f), NEW m \in DOMAIN e,
           IsFirmer(e, f, m)
    PROVE  NotAbove(Confidence(e), Confidence(f))
<1>1. PICK v, w : v = Weighings(e) /\ w = Weighings(f)
  OBVIOUS
<1>2. DOMAIN TermOrder = 1..5
  BY DEF TermOrder
<1>3. DOMAIN v = 1..5 /\ DOMAIN w = 1..5
  BY <1>1, <1>2 DEF Weighings
<1>4. ASSUME NEW i \in 1..5
      PROVE  Short(v[i]) /\ Short(w[i]) /\ NotAbove(v[i], w[i])
  <2>1. PICK t \in Range(TermOrder), p \in Decimal : t = TermOrder[i] /\ p = Percentage(ConfidenceShare[t])
    BY WeighingsAre
  <2>2. v[i] = Times(ConfidenceTerms(e)[t], p) /\ w[i] = Times(ConfidenceTerms(f)[t], p)
    BY <1>1, <1>2, <2>1 DEF Weighings
  <2>3. PICK a \in Decimal, b \in Decimal : a = ConfidenceTerms(e)[t] /\ b = ConfidenceTerms(f)[t]
    BY <2>1, TermsAre
  <2>4. NotAbove(a, b) /\ NotAbove(p, p)
    BY <2>1, <2>3, TermsFirmer, OrderReflexive
  <2> QED
    BY <2>1, <2>2, <2>3, <2>4, TimesShort, TimesInOrder
<1>5. NotAbove(SumOf(v), SumOf(w))
  <2>1. 5 \in Nat
    OBVIOUS
  <2> QED
    BY <1>3, <1>4, <2>1, SumInOrder
<1>6. Confidence(e) = SumOf(v) /\ Confidence(f) = SumOf(w)
  BY <1>1, Zenon DEF Confidence, Weighings
<1> QED
  BY <1>5, <1>6

LEMMA EligibleStays ==
    ASSUME NEW e, NEW f, Offers("eligibility", e), Offers("eligibility", f), NEW m \in DOMAIN e,
           IsFirmer(e, f, m), Reasons(e) = {}
    PROVE  Reasons(f) = {}
<1>1. DOMAIN e = {"allowed", "issue", "history", "new", "features", "traded"} /\ DOMAIN f = DOMAIN e
  BY OfferedAssumption DEF Offers
<1>2. ASSUME NEW g, g \in {e, f}
      PROVE  /\ g["features"] \in UnitInterval /\ g["history"] \in Nat /\ g["traded"] \in Nat \cup {Absent}
  BY <1>1, <1>2, OfferedAssumption DEF Offers
<1>3. /\ Floors.history \in Nat \ {0} /\ Floors.core \in 0..100 /\ Floors.traded \in Nat \cup {Absent}
  BY PolicyAssumption DEF ValidEligibility
<1>4. \A k \in DOMAIN e \ {m} : f[k] = e[k]
  BY DEF IsFirmer
<1>5. m \in {"issue", "history", "features", "traded"}
  BY <1>1 DEF IsFirmer
<1>6. /\ e["allowed"] /\ ~e["issue"]
      /\ ~(e["history"] < Floors.history /\ ~(e["new"] /\ Floors.newListings))
      /\ ~(e["features"][1] * 100 < Floors.core * e["features"][2])
      /\ ~(Floors.traded # Absent /\ e["traded"] = Absent)
      /\ ~(Floors.traded # Absent /\ e["traded"] # Absent /\ e["traded"] < Floors.traded)
  <2>1. \A r \in {"kind", "issue", "history", "core", "missing_liquidity", "liquidity"} :
           ~(CASE r = "kind" -> ~e["allowed"]
               [] r = "issue" -> e["issue"]
               [] r = "history" -> e["history"] < Floors.history /\ ~(e["new"] /\ Floors.newListings)
               [] r = "core" -> e["features"][1] * 100 < Floors.core * e["features"][2]
               [] r = "missing_liquidity" -> Floors.traded # Absent /\ e["traded"] = Absent
               [] r = "liquidity" ->
                    Floors.traded # Absent /\ e["traded"] # Absent /\ e["traded"] < Floors.traded)
    BY Zenon DEF Reasons
  <2> QED
    BY <2>1
<1>7. f["allowed"] /\ f["new"] = e["new"]
  BY <1>1, <1>4, <1>5, <1>6
<1>8. ~f["issue"]
  <2>1. CASE m = "issue"
    BY <2>1 DEF IsFirmer
  <2>2. CASE m # "issue"
    BY <1>1, <1>4, <1>6, <2>2
  <2> QED
    BY <2>1, <2>2
<1>9. ~(f["history"] < Floors.history /\ ~(f["new"] /\ Floors.newListings))
  <2>1. PICK x \in Nat, y \in Nat, h \in Nat : x = e["history"] /\ y = f["history"] /\ h = Floors.history
    BY <1>2, <1>3
  <2>2. x <= y
    <3>1. CASE m = "history"
      <4>1. e["history"] < f["history"]
        BY <3>1 DEF IsFirmer
      <4> QED
        BY <2>1, <4>1
    <3>2. CASE m # "history"
      BY <1>1, <1>4, <2>1, <3>2
    <3> QED
      BY <3>1, <3>2
  <2>3. y < h => x < h
    BY <2>2
  <2> QED
    BY <1>6, <1>7, <2>1, <2>3
<1>10. ~(f["features"][1] * 100 < Floors.core * f["features"][2])
  <2>1. CASE m # "features"
    BY <1>1, <1>4, <1>6, <2>1
  <2>2. CASE m = "features"
    <3>1. PICK n \in Nat, d \in Nat \ {0}, i \in Nat, j \in Nat \ {0}, core \in Int :
             /\ n = e["features"][1] /\ d = e["features"][2]
             /\ i = f["features"][1] /\ j = f["features"][2] /\ core = Floors.core
      <4>1. /\ e["features"][1] \in Nat /\ e["features"][2] \in Nat \ {0}
            /\ f["features"][1] \in Nat /\ f["features"][2] \in Nat \ {0} /\ Floors.core \in Int
        BY <1>2, <1>3, PortionIs
      <4> QED
        BY <4>1
    <3>2. n * j < i * d
      BY <2>2, <3>1 DEF IsFirmer
    <3>3. (n * 100) * j <= (i * 100) * d
      <4>1. (n * 100) * j = 100 * (n * j) /\ (i * 100) * d = 100 * (i * d)
        OBVIOUS
      <4>2. PICK x \in Nat, y \in Nat : x = n * j /\ y = i * d
        OBVIOUS
      <4> QED
        BY <3>2, <4>1, <4>2
    <3>4. PICK N \in Int, M \in Int : N = n * 100 /\ M = i * 100 /\ N * j <= M * d
      BY <3>3
    <3>5. core * d <= N
      <4>1. PICK x \in Int : x = core * d
        OBVIOUS
      <4> QED
        BY <1>6, <3>1, <3>4, <4>1
    <3>6. core * j <= M
      BY <3>4, <3>5, FractionsInOrder
    <3>7. PICK x \in Int : x = core * j
      OBVIOUS
    <3> QED
      BY <3>1, <3>4, <3>6, <3>7
  <2> QED
    BY <2>1, <2>2
<1>11. /\ ~(Floors.traded # Absent /\ f["traded"] = Absent)
       /\ ~(Floors.traded # Absent /\ f["traded"] # Absent /\ f["traded"] < Floors.traded)
  <2>1. CASE m # "traded"
    BY <1>1, <1>4, <1>6, <2>1
  <2>2. CASE m = "traded"
    <3>1. e["traded"] # Absent /\ f["traded"] # Absent /\ e["traded"] < f["traded"]
      BY <2>2 DEF IsFirmer
    <3>2. e["traded"] \in Nat /\ f["traded"] \in Nat
      BY <1>2, <3>1
    <3>3. Floors.traded # Absent => ~(f["traded"] < Floors.traded)
      BY <1>3, <1>6, <3>1, <3>2
    <3> QED
      BY <3>1, <3>3
  <2> QED
    BY <2>1, <2>2
<1>12. ASSUME NEW r \in {"kind", "issue", "history", "core", "missing_liquidity", "liquidity"}
       PROVE  ~(CASE r = "kind" -> ~f["allowed"]
                  [] r = "issue" -> f["issue"]
                  [] r = "history" -> f["history"] < Floors.history /\ ~(f["new"] /\ Floors.newListings)
                  [] r = "core" -> f["features"][1] * 100 < Floors.core * f["features"][2]
                  [] r = "missing_liquidity" -> Floors.traded # Absent /\ f["traded"] = Absent
                  [] r = "liquidity" ->
                       Floors.traded # Absent /\ f["traded"] # Absent /\ f["traded"] < Floors.traded)
  BY <1>7, <1>8, <1>9, <1>10, <1>11
<1> QED
  BY <1>12, Zenon DEF Reasons

-----------------------------------------------------------------------------
(* The two theorems about how scores move.                                 *)

\* Every bundle the scorers are given is one that is offered.
THEOREM ScoringTyped == ScoringSpec => []ScoringTypeOK
<1>1. ScoringInit => ScoringTypeOK
  <2> SUFFICES ASSUME ScoringInit
               PROVE  ScoringTypeOK
    OBVIOUS
  <2>1. scorer \in Subjects /\ evidence = [m \in DOMAIN Offered[scorer] |-> Offered[scorer][m][1]]
    BY DEF ScoringInit
  <2>2. \A m \in DOMAIN Offered[scorer] : 1 \in DOMAIN Offered[scorer][m]
    BY <2>1, OfferedAssumption
  <2> QED
    BY <2>1, <2>2 DEF ScoringTypeOK, OffersOf
<1>2. ScoringTypeOK /\ [ScoringNext]_csVars => ScoringTypeOK'
  <2> SUFFICES ASSUME ScoringTypeOK, [ScoringNext]_csVars
               PROVE  ScoringTypeOK'
    OBVIOUS
  <2>1. ASSUME NEW m \in DOMAIN evidence, Revise(m)
        PROVE  ScoringTypeOK'
    <3>1. PICK i \in DOMAIN Offered[scorer][m] : evidence' = [evidence EXCEPT ![m] = Offered[scorer][m][i]]
      BY <2>1 DEF Revise
    <3>2. scorer' = scorer /\ DOMAIN evidence' = DOMAIN evidence
      BY <2>1, <3>1 DEF Revise
    <3>3. \A k \in DOMAIN evidence : evidence'[k] \in OffersOf(scorer, k)
      BY <3>1 DEF ScoringTypeOK, OffersOf
    <3> QED
      BY <3>2, <3>3 DEF ScoringTypeOK, OffersOf
  <2>2. CASE UNCHANGED csVars
    BY <2>2 DEF ScoringTypeOK, csVars, OffersOf
  <2> QED
    BY <2>1, <2>2 DEF ScoringNext
<1> QED
  BY <1>1, <1>2, PTL DEF ScoringSpec

\* An improvement of one metric never lowers the score of a component, a further business
\* event never lowers that of its events, and firmer evidence lowers no confidence and
\* makes no security ineligible: for every policy and every precision of two digits or
\* more, through every rounding.
THEOREM Improvement == ScoringSpec => ImprovementPays
<1> DEFINE Pays ==
      /\ scorer \in Weighed =>
            \A m \in DOMAIN evidence :
               DoesBetter(evidence, evidence', m) => KeepsUp(scorer, evidence, evidence')
      /\ scorer = "business_catalyst" =>
            \A m \in DOMAIN evidence :
               evidence = [evidence' EXCEPT ![m] = Absent] => KeepsUp(scorer, evidence, evidence')
      /\ scorer = "confidence" =>
            \A m \in DOMAIN evidence :
               IsFirmer(evidence, evidence', m) => NotAbove(Confidence(evidence), Confidence(evidence'))
      /\ scorer = "eligibility" /\ Reasons(evidence) = {} =>
            \A m \in DOMAIN evidence :
               IsFirmer(evidence, evidence', m) => Reasons(evidence') = {}
<1>1. ASSUME ScoringTypeOK, ScoringTypeOK', [ScoringNext]_csVars
      PROVE  [Pays]_csVars
  <2> SUFFICES ASSUME ScoringNext
               PROVE  Pays
    BY <1>1 DEF csVars
  <2>1. scorer' = scorer
    BY DEF ScoringNext, Revise
  <2>2. PICK c, e, f : c = scorer /\ e = evidence /\ f = evidence'
    OBVIOUS
  <2>3. Offers(c, e) /\ Offers(c, f)
    BY <1>1, <2>1, <2>2 DEF ScoringTypeOK, Offers, OffersOf
  <2>4. ASSUME c \in Weighed, NEW m \in DOMAIN e, DoesBetter(e, f, m)
        PROVE  KeepsUp(c, e, f)
    <3>1. Gained(c, e, f)
      BY <2>3, <2>4 DEF Gained
    <3> QED
      BY <2>4, <3>1, WeighedKeepsUp
  <2>5. ASSUME c = "business_catalyst", NEW m \in DOMAIN e, e = [f EXCEPT ![m] = Absent]
        PROVE  KeepsUp(c, e, f)
    BY <2>3, <2>5, CatalystKeepsUp
  <2>6. ASSUME c = "confidence", NEW m \in DOMAIN e, IsFirmer(e, f, m)
        PROVE  NotAbove(Confidence(e), Confidence(f))
    BY <2>3, <2>6, ConfidenceFirmer
  <2>7. ASSUME c = "eligibility", Reasons(e) = {}, NEW m \in DOMAIN e, IsFirmer(e, f, m)
        PROVE  Reasons(f) = {}
    BY <2>3, <2>7, EligibleStays
  <2> QED
    BY <2>2, <2>4, <2>5, <2>6, <2>7
<1>2. ImprovementPays <=> [][Pays]_csVars
  BY DEF ImprovementPays
<1> HIDE DEF Pays
<1>3. ScoringSpec => [][Pays]_csVars
  BY <1>1, ScoringTyped, PTL DEF ScoringSpec
<1> QED
  BY <1>2, <1>3


-----------------------------------------------------------------------------
(* How far rounding takes a value.                                         *)

LEMMA TensInOrder ==
    ASSUME NEW a \in Nat, NEW b \in Nat
    PROVE  /\ a <= b => PowerOfTen[a] <= PowerOfTen[b]
           /\ PowerOfTen[a] < PowerOfTen[b] => a < b
<1>1. PICK x \in Nat \ {0}, y \in Nat \ {0} : x = PowerOfTen[a] /\ y = PowerOfTen[b]
  BY TenPositive
<1>2. CASE a < b
  <2>1. 10 * x <= y
    BY <1>1, <1>2, TenGrows
  <2> QED
    BY <1>1, <1>2, <2>1
<1>3. CASE b < a
  <2>1. 10 * y <= x
    BY <1>1, <1>3, TenGrows
  <2> QED
    BY <1>1, <1>3, <2>1
<1>4. CASE a = b
  BY <1>1, <1>4
<1> QED
  BY <1>2, <1>3, <1>4

\* A fraction that is a short decimal rounds to that.
LEMMA ExactKept ==
    ASSUME NEW n \in Nat, NEW d \in Nat \ {0}, NEW r, RoundsTo(r, n, d), NEW b, Short(b),
           NEW k, k \in ScalesOf(r), k \in ScalesOf(b), n * PowerOfTen[k] = d * On(b, k)
    PROVE  On(r, k) = On(b, k)
<1>1. r \in Decimal /\ b \in Decimal /\ k \in Nat
  BY DEF RoundsTo, Short, ScalesOf
<1>2. PICK t \in Nat \ {0}, x \in Nat : t = PowerOfTen[k] /\ x = On(b, k)
  BY <1>1, TenPositive, AtOrder
<1>3. RoundsTo(b, x, t)
  BY <1>2, ShortRounds
<1>4. n * t = d * x /\ d * x = x * d
  BY <1>2
<1>5. n * t <= x * d /\ x * d <= n * t
  <2>1. PICK y \in Nat : y = n * t
    OBVIOUS
  <2> QED
    BY <1>4, <2>1
<1>6. NotAbove(r, b) /\ NotAbove(b, r)
  BY <1>3, <1>5, RoundedInOrder
<1>7. /\ On(r, k) <= On(b, k) /\ On(b, k) <= On(r, k)
      /\ On(r, k) \in Nat /\ On(b, k) \in Nat
  BY <1>1, <1>6, AtOrder
<1> QED
  BY <1>7

\* Rounding errs by half of the last digit at most; z is at or above where that may be.
LEMMA RoundError ==
    ASSUME NEW n \in Nat, NEW d \in Nat \ {0}, NEW r, RoundsTo(r, n, d),
           NEW k, k \in ScalesOf(r), NEW z \in Int, z + k \in Nat,
           n * PowerOfTen[k] <= d * PowerOfTen[SignificantDigits + (z + k)]
    PROVE  /\ 2 * (d * On(r, k)) <= 2 * (n * PowerOfTen[k]) + d * PowerOfTen[z + k]
           /\ 2 * (n * PowerOfTen[k]) <= 2 * (d * On(r, k)) + d * PowerOfTen[z + k]
<1>1. r \in Decimal /\ k \in Nat /\ SignificantDigits \in Nat /\ SignificantDigits - 1 \in Nat
  BY PrecisionIs DEF RoundsTo, Short, ScalesOf
<1>2. PICK t \in Nat \ {0}, g \in Nat \ {0}, R \in Nat :
         t = PowerOfTen[k] /\ g = PowerOfTen[z + k] /\ R = On(r, k)
  BY <1>1, TenPositive, AtOrder
<1>3. PICK nt \in Nat, dg \in Nat, dR \in Nat : nt = n * t /\ dg = d * g /\ dR = d * R
  OBVIOUS
<1>4. SUFFICES 2 * dR <= 2 * nt + dg /\ 2 * nt <= 2 * dR + dg
  BY <1>2, <1>3
<1>5. ASSUME NEW b, Short(b), k \in ScalesOf(b), nt = d * On(b, k)
      PROVE  2 * dR <= 2 * nt + dg /\ 2 * nt <= 2 * dR + dg
  <2>1. n * PowerOfTen[k] = d * On(b, k)
    BY <1>2, <1>3, <1>5
  <2>2. On(r, k) = On(b, k)
    BY <1>5, <2>1, ExactKept
  <2>3. dR = nt
    BY <1>2, <1>3, <1>5, <2>2
  <2> QED
    BY <2>3
<1>6. CASE n = 0
  <2>1. Short(Nought) /\ k \in ScalesOf(Nought) /\ On(Nought, k) = 0 * PowerOfTen[k]
    BY <1>1, NoughtIs, WholeAt DEF Nought
  <2>2. 0 * t = 0 /\ d * 0 = 0 /\ nt = 0
    BY <1>3, <1>6
  <2> QED
    BY <1>2, <1>5, <2>1, <2>2
<1>7. PICK P \in Nat \ {0}, e \in Nat : /\ P = PowerOfTen[SignificantDigits]
                                        /\ e = z + k /\ PowerOfTen[SignificantDigits + e] = P * g
  <2>1. PICK e \in Nat : e = z + k
    OBVIOUS
  <2>2. PowerOfTen[SignificantDigits + e] = PowerOfTen[SignificantDigits] * PowerOfTen[e]
    BY <1>1, <2>1, TenOfSum
  <2>3. PowerOfTen[SignificantDigits] \in Nat \ {0}
    BY PrecisionIs
  <2> QED
    BY <1>2, <2>1, <2>2, <2>3
<1>8. CASE nt = d * (P * g)
  <2>1. Short(Dec(P, z)) /\ k \in ScalesOf(Dec(P, z)) /\ On(Dec(P, z), k) = P * g
    <3>1. Dec(P, z) \in Decimal /\ Dec(P, z).m = P /\ Dec(P, z).e = z /\ P <= P
      BY DecimalIs
    <3> QED
      BY <1>1, <1>2, <1>7, <3>1 DEF Short, ScalesOf, On
  <2> QED
    BY <1>5, <1>8, <2>1
<1>9. CASE n # 0 /\ nt < d * (P * g)
  <2>1. PICK x \in Int : RoundsAt(r, n, d, x)
    BY DEF RoundsTo
  <2>2. PICK j \in Nat : x + (k + j) \in Nat
    <3>1. CASE x + k >= 0
      <4>1. 0 \in Nat /\ x + (k + 0) \in Nat
        BY <1>1, <3>1
      <4> QED
        BY <4>1
    <3>2. CASE x + k < 0
      <4>1. -(x + k) \in Nat /\ x + (k + (-(x + k))) = 0
        BY <1>1, <3>2
      <4> QED
        BY <4>1
    <3> QED
      BY <1>1, <3>1, <3>2
  <2>3. PICK K \in Nat, y \in Nat : K = k + j /\ y = x + K
    BY <1>1, <2>2
  <2>4. PICK J \in Nat \ {0}, u \in Nat \ {0}, p \in Nat \ {0} :
           /\ J = PowerOfTen[j] /\ u = PowerOfTen[y] /\ p = PowerOfTen[SignificantDigits - 1]
           /\ P = 10 * p
    BY <1>7, <2>3, TenPositive, PrecisionIs
  <2>5. PowerOfTen[K] = t * J /\ PowerOfTen[e + j] = g * J
    <3>1. PowerOfTen[k + j] = PowerOfTen[k] * PowerOfTen[j] /\ PowerOfTen[e + j] = PowerOfTen[e] * PowerOfTen[j]
      BY <1>1, <1>7, TenOfSum
    <3> QED
      BY <1>2, <1>7, <2>3, <2>4, <3>1
  <2>6. K \in ScalesOf(r) /\ On(r, K) = R * J
    <3>1. k + j \in ScalesOf(r) /\ On(r, k + j) = On(r, k) * PowerOfTen[j]
      BY <1>1, <2>2, AtFiner
    <3> QED
      BY <1>2, <2>3, <2>4, <3>1
  <2>7. /\ d * (p * u) <= n * (t * J)
        /\ R * J = HalfEven(n * (t * J), d * u) * u
    BY <1>9, <2>1, <2>3, <2>4, <2>5, <2>6 DEF RoundsAt
  <2>8. n * (t * J) = nt * J
    BY <1>3
  <2>9. PICK N \in Nat, du \in Nat \ {0} : N = nt * J /\ du = d * u
    <3>1. nt * J \in Nat /\ d * u \in Nat
      OBVIOUS
    <3>2. d * u # 0
      OBVIOUS
    <3> QED
      BY <3>1, <3>2
  <2>10. u <= g * J
    <3>1. d * (p * u) < d * (10 * p * (g * J))
      <4>1. PICK a \in Nat, b \in Nat : a = d * (p * u) /\ b = d * (P * g) /\ a <= N
        BY <2>7, <2>8, <2>9
      <4>2. nt + 1 <= b
        BY <1>9, <4>1
      <4>3. (nt + 1) * J <= b * J /\ (nt + 1) * J = nt * J + J
        BY <4>2
      <4>4. b * J = d * (10 * p * (g * J))
        BY <2>4, <4>1
      <4>5. PICK c \in Nat : c = b * J
        BY <4>1
      <4>6. a < c
        BY <2>9, <4>1, <4>3, <4>5
      <4> QED
        BY <4>1, <4>4, <4>5, <4>6
    <3>2. PICK a \in Nat, b \in Nat : a = p * u /\ b = 10 * p * (g * J)
      OBVIOUS
    <3>3. a * d < b * d
      <4>1. a * d = d * a /\ b * d = d * b
        BY <3>2
      <4> QED
        BY <3>1, <3>2, <4>1
    <3>4. a < b
      BY <3>2, <3>3, Cancels
    <3>5. PICK q1 \in Nat, q2 \in Nat : q1 = (SignificantDigits - 1) + y /\ q2 = SignificantDigits + (e + j)
      BY <1>1, <1>7, <2>3
    <3>6. PowerOfTen[q1] = p * u
      <4>1. PowerOfTen[(SignificantDigits - 1) + y] = PowerOfTen[SignificantDigits - 1] * PowerOfTen[y]
        BY <1>1, <2>3, TenOfSum
      <4> QED
        BY <2>4, <3>5, <4>1
    <3>7. PowerOfTen[q2] = 10 * p * (g * J)
      <4>1. PowerOfTen[SignificantDigits + (e + j)] = PowerOfTen[SignificantDigits] * PowerOfTen[e + j]
        <5>1. e + j \in Nat
          BY <1>7
        <5> QED
          BY <1>1, <5>1, TenOfSum
      <4>2. (10 * p) * (g * J) = 10 * p * (g * J)
        OBVIOUS
      <4> QED
        BY <1>7, <2>4, <2>5, <3>5, <4>1, <4>2
    <3>8. q1 < q2
      BY <3>2, <3>4, <3>5, <3>6, <3>7, TensInOrder
    <3>9. y <= e + j
      BY <1>1, <1>7, <2>3, <3>5, <3>8
    <3>10. e + j \in Nat
      BY <1>7
    <3> QED
      BY <2>3, <2>4, <2>5, <3>9, <3>10, TensInOrder
  <2>11. PICK h \in Nat : /\ h = HalfEven(N, du)
                          /\ 2 * N - du <= 2 * (h * du) /\ 2 * (h * du) <= 2 * N + du
    <3>1. Nearest(HalfEven(N, du), N, du)
      BY <2>9, HalfEvenIsNearest
    <3> QED
      BY <3>1 DEF Nearest
  <2>12. h * du = dR * J
    <3>1. R * J = h * u
      BY <2>7, <2>8, <2>9, <2>11
    <3>2. h * (d * u) = d * (h * u) /\ d * (R * J) = (d * R) * J
      OBVIOUS
    <3> QED
      BY <1>3, <2>9, <3>1, <3>2
  <2>13. du <= dg * J
    <3>1. PICK gJ \in Nat : gJ = g * J /\ u <= gJ
      BY <2>10
    <3>2. d * u <= d * gJ
      BY <3>1
    <3>3. d * (g * J) = (d * g) * J
      OBVIOUS
    <3> QED
      BY <1>3, <2>9, <3>1, <3>2, <3>3
  <2>14. (2 * dR) * J <= (2 * nt + dg) * J /\ (2 * nt) * J <= (2 * dR + dg) * J
    <3>1. PICK a \in Nat, b \in Nat : a = dR * J /\ b = dg * J
      OBVIOUS
    <3>2. 2 * a <= 2 * N + b /\ 2 * N <= 2 * a + b
      BY <2>9, <2>11, <2>12, <2>13, <3>1
    <3>3. /\ (2 * dR) * J = 2 * (dR * J) /\ (2 * nt + dg) * J = 2 * (nt * J) + dg * J
          /\ (2 * nt) * J = 2 * (nt * J) /\ (2 * dR + dg) * J = 2 * (dR * J) + dg * J
      OBVIOUS
    <3> QED
      BY <2>9, <3>1, <3>2, <3>3
  <2>15. 2 * dR \in Nat /\ 2 * nt + dg \in Nat /\ 2 * nt \in Nat /\ 2 * dR + dg \in Nat
    OBVIOUS
  <2> QED
    BY <2>14, <2>15, Cancels
<1>10. nt <= d * (P * g)
  BY <1>2, <1>3, <1>7
<1>11. PICK c \in Nat : c = d * (P * g)
  OBVIOUS
<1> QED
  BY <1>6, <1>8, <1>9, <1>10, <1>11

LEMMA PlusNear ==
    ASSUME NEW a, NEW b, Short(a), Short(b), NEW k, k \in ScalesOf(a), k \in ScalesOf(b),
           k \in ScalesOf(Plus(a, b)), NEW z \in Int, z + k \in Nat,
           On(a, k) + On(b, k) <= PowerOfTen[SignificantDigits + (z + k)]
    PROVE  /\ 2 * On(Plus(a, b), k) <= 2 * (On(a, k) + On(b, k)) + PowerOfTen[z + k]
           /\ 2 * (On(a, k) + On(b, k)) <= 2 * On(Plus(a, b), k) + PowerOfTen[z + k]
<1>1. a \in Decimal /\ b \in Decimal /\ Plus(a, b) \in Decimal /\ k \in Nat /\ SignificantDigits \in Nat
  BY PlusShort, PrecisionIs DEF Short, ScalesOf
<1>2. PICK t \in Nat \ {0}, g \in Nat \ {0}, c \in Nat \ {0} :
         t = PowerOfTen[k] /\ g = PowerOfTen[z + k] /\ c = PowerOfTen[SignificantDigits + (z + k)]
  <2>1. PICK e \in Nat, f \in Nat : e = z + k /\ f = SignificantDigits + e
    BY <1>1
  <2>2. PowerOfTen[k] \in Nat \ {0} /\ PowerOfTen[e] \in Nat \ {0} /\ PowerOfTen[f] \in Nat \ {0}
    BY <1>1, <2>1, TenPositive
  <2> QED
    BY <2>1, <2>2
<1>3. PICK s \in Nat, r \in Nat : s = On(a, k) + On(b, k) /\ r = On(Plus(a, b), k) /\ s <= c
  <2>1. On(a, k) \in Nat /\ On(b, k) \in Nat /\ On(Plus(a, b), k) \in Nat
    BY <1>1, AtOrder
  <2> QED
    BY <1>2, <2>1
<1>4. RoundsTo(Plus(a, b), s, t)
  <2>1. k \in ScalesOf(a) \cap ScalesOf(b)
    OBVIOUS
  <2> QED
    BY <1>2, <1>3, <2>1, PlusRounds
<1>5. s * t <= t * c
  BY <1>3
<1>6. /\ 2 * (t * r) <= 2 * (s * t) + t * g
      /\ 2 * (s * t) <= 2 * (t * r) + t * g
  BY <1>2, <1>3, <1>4, <1>5, RoundError
<1>7. (2 * r) * t <= (2 * s + g) * t /\ (2 * s) * t <= (2 * r + g) * t
  <2>1. /\ (2 * r) * t = 2 * (t * r) /\ (2 * s + g) * t = 2 * (s * t) + t * g
        /\ (2 * s) * t = 2 * (s * t) /\ (2 * r + g) * t = 2 * (t * r) + t * g
    OBVIOUS
  <2> QED
    BY <1>6, <2>1
<1>8. 2 * r <= 2 * s + g /\ 2 * s <= 2 * r + g
  <2>1. 2 * r \in Nat /\ 2 * s + g \in Nat /\ 2 * s \in Nat /\ 2 * r + g \in Nat
    OBVIOUS
  <2> QED
    BY <1>7, <2>1, Cancels
<1> QED
  BY <1>2, <1>3, <1>8

\* A share is part of 1.
LEMMA ShareIs ==
    ASSUME NEW A \in Nat \ {0}, NEW s \in 0..A
    PROVE  /\ Short(Divided(s, A)) /\ Divided(s, A) \in Decimal
           /\ NotAbove(Divided(s, A), Whole(1))
<1>1. s \in Nat /\ 1 \in Nat \ {0} /\ 1 \in 0..100 /\ s * 1 <= 1 * A
  OBVIOUS
<1>2. PICK r, q : r = Divided(s, A) /\ q = Whole(1)
  OBVIOUS
<1>3. RoundsTo(r, s, A) /\ RoundsTo(q, 1, 1)
  BY <1>1, <1>2, DividedRounds, WholeRounds
<1>4. NotAbove(r, q)
  BY <1>1, <1>3, RoundedInOrder
<1> QED
  BY <1>1, <1>2, <1>4, DividedShort

\* What half of the last digit of a number below a hundred, and of one below 1, is.
LEMMA HundredIs ==
    ASSUME NEW k \in Nat, (2 - SignificantDigits) + k \in Nat
    PROVE  /\ PowerOfTen[(2 - SignificantDigits) + k] \in Nat \ {0} /\ PowerOfTen[k] \in Nat \ {0}
           /\ PowerOfTen[2 + k] = 100 * PowerOfTen[k]
           /\ PowerOfTen[SignificantDigits + ((2 - SignificantDigits) + k)] = 100 * PowerOfTen[k]
           /\ PowerOfTen[(2 - SignificantDigits) + k] * PowerOfTen[SignificantDigits] =
                 100 * PowerOfTen[k]
<1>1. SignificantDigits \in Nat
  BY PrecisionIs
<1>2. PICK e \in Nat, c \in Nat :
         e = (2 - SignificantDigits) + k /\ c = 2 + k /\ SignificantDigits + e = c /\ c = (k + 1) + 1
  BY <1>1
<1>3. PowerOfTen[c] = 100 * PowerOfTen[k]
  <2>1. k + 1 \in Nat
    OBVIOUS
  <2>2. PowerOfTen[k + 1] = 10 * PowerOfTen[k] /\ PowerOfTen[k] \in Nat \ {0}
    BY TenPositive
  <2>3. PowerOfTen[(k + 1) + 1] = 10 * PowerOfTen[k + 1]
    BY <2>1, TenPositive
  <2>4. PICK t \in Nat : t = PowerOfTen[k]
    BY <2>2
  <2> QED
    BY <1>2, <2>2, <2>3, <2>4
<1>4. PowerOfTen[SignificantDigits + e] = PowerOfTen[SignificantDigits] * PowerOfTen[e]
  BY <1>1, <1>2, TenOfSum
<1>5. PICK t \in Nat \ {0}, g \in Nat \ {0}, P \in Nat \ {0} :
         t = PowerOfTen[k] /\ g = PowerOfTen[e] /\ P = PowerOfTen[SignificantDigits]
  BY <1>1, <1>2, TenPositive
<1>6. g * P = 100 * t
  BY <1>2, <1>3, <1>4, <1>5
<1> QED
  BY <1>2, <1>3, <1>5, <1>6

\* A part, weighed, is off its exact value by one unit of a number below a hundred at most.
LEMMA TermError ==
    ASSUME NEW x, Short(x), NotAbove(x, Whole(100)), NEW A \in Nat \ {0}, NEW s \in 0..A,
           NEW k, k \in ScalesOf(x), k \in ScalesOf(Times(x, Divided(s, A))),
           (2 - SignificantDigits) + k \in Nat
    PROVE  /\ A * On(Times(x, Divided(s, A)), k) <=
                 s * On(x, k) + A * PowerOfTen[(2 - SignificantDigits) + k]
           /\ s * On(x, k) <=
                 A * On(Times(x, Divided(s, A)), k) + A * PowerOfTen[(2 - SignificantDigits) + k]
<1> DEFINE p == SignificantDigits
<1>1. PICK w, t : w = Divided(s, A) /\ t = Times(x, w)
  OBVIOUS
<1>2. x \in Decimal /\ w \in Decimal /\ t \in Decimal /\ p \in Nat /\ k \in Nat /\ s \in Nat
  <2>1. Divided(s, A) \in Decimal
    BY ShareIs
  <2>2. x \in Decimal /\ k \in Nat /\ s \in Nat
    BY DEF Short, ScalesOf
  <2> QED
    BY <1>1, <2>1, <2>2, PrecisionIs, TimesShort
<1>3. PICK l \in ScalesOf(w) \cap ScalesOf(x) : 0 - p + l \in Nat /\ l \in Nat
  <2>1. 0 - p \in Int /\ 0 \in Int
    BY <1>2
  <2>2. PICK l \in ScalesOf(w) \cap ScalesOf(x) : (0 - p) + l \in Nat /\ 0 + l \in Nat
    BY <1>2, <2>1, ScaleForTwo
  <2>3. l \in Nat
    BY DEF ScalesOf
  <2> QED
    BY <1>2, <2>2, <2>3
<1>4. PICK V \in Nat \ {0}, L \in Nat \ {0}, J \in Nat \ {0}, G \in Nat \ {0}, P \in Nat \ {0} :
         /\ V = PowerOfTen[k] /\ L = PowerOfTen[l] /\ J = PowerOfTen[(0 - p) + l]
         /\ G = PowerOfTen[(2 - p) + k] /\ P = PowerOfTen[p]
  BY <1>2, <1>3, TenPositive
<1>5. L = P * J
  <2>1. PICK e \in Nat : e = (0 - p) + l
    BY <1>3
  <2>2. PowerOfTen[p + e] = PowerOfTen[p] * PowerOfTen[e] /\ p + e = l
    BY <1>2, <1>3, <2>1, TenOfSum
  <2> QED
    BY <1>4, <2>1, <2>2
<1>6. G * P = 100 * V
  BY <1>2, <1>4, HundredIs
<1>7. PICK X \in Nat, W \in Nat, tk \in Nat :
         X = On(x, k) /\ W = On(w, l) /\ tk = On(t, k) /\ X <= 100 * V /\ W <= L
  <2>1. l \in ScalesOf(w)
    BY <1>3
  <2>2. k \in ScalesOf(t)
    BY <1>1
  <2>3. /\ k \in ScalesOf(Whole(100)) /\ On(Whole(100), k) = 100 * V /\ Whole(100) \in Decimal
        /\ l \in ScalesOf(Whole(1)) /\ On(Whole(1), l) = 1 * L /\ Whole(1) \in Decimal
    BY <1>2, <1>3, <1>4, WholeAt, WholeIs
  <2>4. NotAbove(w, Whole(1))
    BY <1>1, ShareIs
  <2>5. On(x, k) \in Nat /\ On(x, k) <= On(Whole(100), k)
    BY <1>2, <2>3, AtOrder
  <2>6. On(w, l) \in Nat /\ On(w, l) <= On(Whole(1), l)
    BY <1>2, <2>1, <2>3, <2>4, AtOrder
  <2>7. On(t, k) \in Nat
    BY <1>2, <2>2, AtOrder
  <2> QED
    BY <2>3, <2>5, <2>6, <2>7
<1>8. /\ 2 * (A * W) <= 2 * (s * L) + A * J
      /\ 2 * (s * L) <= 2 * (A * W) + A * J
  <2>1. RoundsTo(w, s, A) /\ l \in ScalesOf(w)
    BY <1>1, <1>2, <1>3, DividedRounds
  <2>2. PICK z \in Int : z = 0 - p
    BY <1>2
  <2>3. z + l \in Nat /\ J = PowerOfTen[z + l] /\ p + (z + l) = l
    BY <1>2, <1>3, <1>4, <2>2
  <2>4. s * L <= A * L
    BY <1>2
  <2>5. s * PowerOfTen[l] <= A * PowerOfTen[p + (z + l)]
    BY <1>4, <2>3, <2>4
  <2> QED
    BY <1>2, <1>4, <1>7, <2>1, <2>3, <2>5, RoundError
<1>9. /\ 2 * (tk * L) <= 2 * (X * W) + G * L
      /\ 2 * (X * W) <= 2 * (tk * L) + G * L
  <2>1. PICK K \in Nat, D \in Nat \ {0} : K = k + l /\ D = V * L /\ D = PowerOfTen[K]
    <3>1. PICK K \in Nat : K = k + l
      BY <1>2, <1>3
    <3>2. PowerOfTen[k + l] = PowerOfTen[k] * PowerOfTen[l]
      BY <1>2, <1>3, TenOfSum
    <3>3. PowerOfTen[K] \in Nat \ {0}
      BY <3>1, TenPositive
    <3> QED
      BY <1>4, <3>1, <3>2, <3>3
  <2>2. RoundsTo(t, X * W, D)
    <3>1. l \in ScalesOf(w)
      BY <1>3
    <3>2. RoundsTo(Times(x, w), On(x, k) * On(w, l), PowerOfTen[k + l])
      BY <1>2, <3>1, TimesRounds
    <3> QED
      BY <1>1, <1>7, <2>1, <3>2
  <2>3. K \in ScalesOf(t) /\ On(t, K) = tk * L
    <3>1. k \in ScalesOf(t)
      BY <1>1
    <3>2. k + l \in ScalesOf(t) /\ On(t, k + l) = On(t, k) * PowerOfTen[l]
      BY <1>2, <1>3, <3>1, AtFiner
    <3> QED
      BY <1>4, <1>7, <2>1, <3>2
  <2>4. PICK z \in Int, e \in Nat : /\ z = 2 - p /\ z + K = e /\ PowerOfTen[e] = G * L
                                    /\ PowerOfTen[p + e] = 100 * D
    <3>1. PICK z \in Int, f \in Nat : z = 2 - p /\ f = z + k
      BY <1>2
    <3>2. PowerOfTen[f + l] = PowerOfTen[f] * PowerOfTen[l]
      BY <1>3, <3>1, TenOfSum
    <3>3. PICK e \in Nat : e = f + l /\ e = z + K
      BY <1>2, <1>3, <2>1, <3>1
    <3>4. PowerOfTen[p + ((2 - p) + K)] = 100 * PowerOfTen[K]
      BY <2>1, <3>1, <3>3, HundredIs
    <3> QED
      BY <1>4, <2>1, <3>1, <3>2, <3>3, <3>4
  <2>5. PICK n \in Nat : n = X * W
    OBVIOUS
  <2>6. n <= 100 * D
    <3>1. PICK H \in Nat : H = 100 * V
      OBVIOUS
    <3>2. X * W <= H * L
      BY <1>7, <3>1, ProductsInOrder
    <3>3. (100 * V) * L = 100 * (V * L)
      OBVIOUS
    <3> QED
      BY <2>1, <2>5, <3>1, <3>2, <3>3
  <2>7. n * D <= D * (100 * D)
    <3>1. PICK c \in Nat : c = 100 * D
      OBVIOUS
    <3>2. n * D <= c * D /\ c * D = D * c
      BY <2>6, <3>1
    <3> QED
      BY <3>1, <3>2
  <2>8. n * PowerOfTen[K] <= D * PowerOfTen[p + (z + K)] /\ z + K \in Nat
    BY <2>1, <2>4, <2>7
  <2>9. /\ 2 * (D * (tk * L)) <= 2 * (n * D) + D * (G * L)
        /\ 2 * (n * D) <= 2 * (D * (tk * L)) + D * (G * L)
    <3>1. PICK b \in Nat : b = tk * L
      OBVIOUS
    <3>2. RoundsTo(t, n, D) /\ On(t, K) = b /\ PowerOfTen[z + K] = G * L
      BY <2>2, <2>3, <2>4, <2>5, <3>1
    <3>3. /\ 2 * (D * On(t, K)) <= 2 * (n * PowerOfTen[K]) + D * PowerOfTen[z + K]
          /\ 2 * (n * PowerOfTen[K]) <= 2 * (D * On(t, K)) + D * PowerOfTen[z + K]
      BY <2>1, <2>3, <2>4, <2>8, <3>2, RoundError
    <3> QED
      BY <2>1, <3>1, <3>2, <3>3
  <2>10. PICK b \in Nat, c \in Nat : b = tk * L /\ c = G * L
    OBVIOUS
  <2>11. (2 * b) * D <= (2 * n + c) * D /\ (2 * n) * D <= (2 * b + c) * D
    <3>1. /\ (2 * b) * D = 2 * (D * b) /\ (2 * n + c) * D = 2 * (n * D) + D * c
          /\ (2 * n) * D = 2 * (n * D) /\ (2 * b + c) * D = 2 * (D * b) + D * c
      OBVIOUS
    <3> QED
      BY <2>9, <2>10, <3>1
  <2>12. 2 * b <= 2 * n + c /\ 2 * n <= 2 * b + c
    <3>1. 2 * b \in Nat /\ 2 * n + c \in Nat /\ 2 * n \in Nat /\ 2 * b + c \in Nat
      OBVIOUS
    <3> QED
      BY <2>11, <3>1, Cancels
  <2> QED
    BY <2>5, <2>10, <2>12
<1>10. X * J <= G * L
  <2>1. X * J <= (100 * V) * J
    <3>1. PICK H \in Nat : H = 100 * V
      OBVIOUS
    <3> QED
      BY <1>7, <3>1
  <2>2. (G * P) * J = G * (P * J)
    OBVIOUS
  <2> QED
    BY <1>5, <1>6, <2>1, <2>2
<1>11. PICK aw \in Nat, sl \in Nat, aj \in Nat, tl \in Nat, xw \in Nat, gl \in Nat :
          /\ aw = A * W /\ sl = s * L /\ aj = A * J /\ tl = tk * L /\ xw = X * W /\ gl = G * L
          /\ 2 * aw <= 2 * sl + aj /\ 2 * sl <= 2 * aw + aj
          /\ 2 * tl <= 2 * xw + gl /\ 2 * xw <= 2 * tl + gl
  <2>1. /\ A * W \in Nat /\ s * L \in Nat /\ A * J \in Nat /\ tk * L \in Nat
        /\ X * W \in Nat /\ G * L \in Nat
    BY <1>2
  <2> QED
    BY <1>8, <1>9, <2>1
<1>12. /\ 2 * (X * aw) <= 2 * (X * sl) + X * aj /\ 2 * (X * sl) <= 2 * (X * aw) + X * aj
       /\ 2 * (A * tl) <= 2 * (A * xw) + A * gl /\ 2 * (A * xw) <= 2 * (A * tl) + A * gl
  <2>1. ASSUME NEW f \in Nat, NEW a \in Nat, NEW b \in Nat, NEW c \in Nat, 2 * a <= 2 * b + c
        PROVE  2 * (f * a) <= 2 * (f * b) + f * c
    <3>1. PICK y \in Nat, q \in Nat : y = 2 * a /\ q = 2 * b + c /\ y <= q
      BY <2>1
    <3>2. y * f <= q * f
      BY <3>1
    <3>3. (2 * a) * f = 2 * (f * a) /\ (2 * b + c) * f = 2 * (f * b) + f * c
      OBVIOUS
    <3> QED
      BY <3>1, <3>2, <3>3
  <2> QED
    BY <1>11, <2>1
<1>13. /\ X * aw = A * xw /\ X * sl = (s * X) * L /\ X * aj = A * (X * J)
       /\ A * tl = (A * tk) * L /\ A * gl = (A * G) * L
  <2>1. /\ X * (A * W) = A * (X * W) /\ X * (s * L) = (s * X) * L /\ X * (A * J) = A * (X * J)
        /\ A * (tk * L) = (A * tk) * L /\ A * (G * L) = (A * G) * L
    BY <1>2
  <2> QED
    BY <1>11, <2>1
<1>14. X * aj <= A * gl
  <2>1. PICK b \in Nat : b = X * J
    OBVIOUS
  <2>2. A * b <= A * gl
    BY <1>10, <1>11, <2>1
  <2> QED
    BY <1>13, <2>1, <2>2
<1>15. PICK sx \in Nat, at \in Nat, ag \in Nat : sx = s * X /\ at = A * tk /\ ag = A * G
  BY <1>2
<1>16. at * L <= (sx + ag) * L /\ sx * L <= (at + ag) * L
  <2>1. PICK b1 \in Nat, b2 \in Nat, b3 \in Nat, b4 \in Nat, b5 \in Nat :
           b1 = A * xw /\ b2 = sx * L /\ b3 = X * aj /\ b4 = at * L /\ b5 = ag * L
    OBVIOUS
  <2>2. /\ 2 * b1 <= 2 * b2 + b3 /\ 2 * b2 <= 2 * b1 + b3
        /\ 2 * b4 <= 2 * b1 + b5 /\ 2 * b1 <= 2 * b4 + b5 /\ b3 <= b5
    BY <1>12, <1>13, <1>14, <1>15, <2>1
  <2>3. b4 <= b2 + b5 /\ b2 <= b4 + b5
    BY <2>1, <2>2
  <2>4. (sx + ag) * L = sx * L + ag * L /\ (at + ag) * L = at * L + ag * L
    OBVIOUS
  <2> QED
    BY <2>1, <2>3, <2>4
<1>17. at <= sx + ag /\ sx <= at + ag
  <2>1. sx + ag \in Nat /\ at + ag \in Nat
    OBVIOUS
  <2> QED
    BY <1>16, <2>1, Cancels
<1> QED
  BY <1>1, <1>4, <1>7, <1>15, <1>17

-----------------------------------------------------------------------------
(* Sums of a sequence of decimals against exact ones.                      *)

\* All terms are whole numbers at the scale.
WholeAtScale(v, n, k) == \A i \in 1..n : k \in ScalesOf(v[i])

LEMMA ScaleForMany ==
    ASSUME NEW n \in Nat, NEW v, \A i \in 1..n : v[i] \in Decimal, NEW k0 \in Nat
    PROVE  \E k \in Nat : k0 <= k /\ WholeAtScale(v, n, k)
<1> DEFINE G == {i \in Nat : i <= n => \E k \in Nat : k0 <= k /\ WholeAtScale(v, i, k)}
<1>1. G \in SUBSET Nat /\ 0 \in G
  <2>1. WholeAtScale(v, 0, k0) /\ k0 <= k0
    BY DEF WholeAtScale
  <2> QED
    BY <2>1
<1>2. ASSUME NEW i \in Nat, i \in G
      PROVE  i + 1 \in G
  <2> SUFFICES ASSUME i + 1 <= n
               PROVE  \E k \in Nat : k0 <= k /\ WholeAtScale(v, i + 1, k)
    OBVIOUS
  <2>1. PICK k \in Nat : k0 <= k /\ WholeAtScale(v, i, k)
    BY <1>2
  <2>2. i + 1 \in 1..n /\ v[i + 1].e \in Int
    BY DEF Decimal
  <2>3. PICK j \in Nat : k <= j /\ v[i + 1].e + j \in Nat
    <3>1. PICK e \in Int : e = v[i + 1].e
      BY <2>2
    <3>2. CASE e + k >= 0
      <4>1. k <= k /\ e + k \in Nat
        BY <3>2
      <4> QED
        BY <3>1, <4>1
    <3>3. CASE e + k < 0
      <4>1. PICK j \in Nat : k <= j /\ e + j = 0
        <5>1. -e \in Nat /\ k <= -e /\ e + (-e) = 0
          BY <3>3
        <5> QED
          BY <5>1
      <4> QED
        BY <3>1, <4>1
    <3> QED
      BY <3>1, <3>2, <3>3
  <2>4. ASSUME NEW m \in 1..i + 1
        PROVE  j \in ScalesOf(v[m])
    <3>1. CASE m = i + 1
      BY <2>3, <3>1 DEF ScalesOf
    <3>2. CASE m # i + 1
      <4>1. m \in 1..i /\ m \in 1..n
        BY <3>2
      <4>2. k \in ScalesOf(v[m]) /\ v[m].e \in Int
        BY <2>1, <4>1 DEF WholeAtScale, Decimal
      <4>3. PICK e \in Int : e = v[m].e /\ e + k \in Nat
        BY <4>2 DEF ScalesOf
      <4>4. e + j \in Nat
        BY <2>3, <4>3
      <4> QED
        BY <4>3, <4>4 DEF ScalesOf
    <3> QED
      BY <3>1, <3>2
  <2>5. k0 <= j
    BY <2>1, <2>3
  <2> QED
    BY <2>3, <2>4, <2>5 DEF WholeAtScale
<1> HIDE DEF G
<1>3. G = Nat
  BY <1>1, <1>2, FromOneToTheNext
<1>4. n <= n
  OBVIOUS
<1> QED
  BY <1>3, <1>4 DEF G

LEMMA FinerForMany ==
    ASSUME NEW n \in Nat, NEW v, \A i \in 1..n : v[i] \in Decimal, NEW k \in Nat, NEW j \in Nat, k <= j,
           WholeAtScale(v, n, k)
    PROVE  WholeAtScale(v, n, j)
<1> SUFFICES ASSUME NEW i \in 1..n
             PROVE  j \in ScalesOf(v[i])
  BY DEF WholeAtScale
<1>1. PICK e \in Int : e = v[i].e /\ e + k \in Nat
  BY DEF WholeAtScale, ScalesOf, Decimal
<1>2. e + j \in Nat
  BY <1>1
<1> QED
  BY <1>1, <1>2 DEF ScalesOf

\* c has the sums of the first 0, 1, ..., n numbers of a.
Accrued(c, a, n) == c \in [0..n -> Nat] /\ c[0] = 0 /\ \A i \in 1..n : a[i] \in Nat /\ c[i] = c[i - 1] + a[i]

\* The order lists all of C, without repetition, and a what its members weigh.
Lists(order, n, C, w, a) ==
    /\ \A i, j \in 1..n : order[i] = order[j] => i = j
    /\ \A x \in C : \E i \in 1..n : order[i] = x
    /\ \A x \in C : w[x] \in Nat
    /\ \A i \in 1..n : a[i] = IF order[i] \in C THEN w[order[i]] ELSE 0

\* The sum over a set, along an enumeration of it.
LEMMA SumAlong ==
    ASSUME NEW n \in Nat, NEW order, NEW C, NEW w, NEW a, Lists(order, n, C, w, a)
    PROVE  \E c : Accrued(c, a, n) /\ c[n] = SumFunctionOnSet(w, C)
<1>0. /\ \A i, j \in 1..n : order[i] = order[j] => i = j
      /\ \A x \in C : \E i \in 1..n : order[i] = x
      /\ \A x \in C : w[x] \in Nat
      /\ \A i \in 1..n : a[i] = IF order[i] \in C THEN w[order[i]] ELSE 0
  BY DEF Lists
<1> DEFINE Upto(i) == {x \in C : \E j \in 1..i : order[j] = x}
           c == [i \in 0..n |-> SumFunctionOnSet(w, Upto(i))]
<1>1. IsFiniteSet(C)
  <2>1. IsFiniteSet(1..n)
    BY FS_Interval
  <2>2. PICK f : f = [i \in 1..n |-> order[i]]
    OBVIOUS
  <2>3. f \in Surjection(1..n, {order[i] : i \in 1..n})
    BY <2>2 DEF Surjection
  <2>4. IsFiniteSet({order[i] : i \in 1..n})
    BY <2>1, <2>3, FS_Surjection
  <2>5. C \subseteq {order[i] : i \in 1..n}
    BY <1>0
  <2> QED
    BY <2>4, <2>5, FS_Subset
<1>2. ASSUME NEW i \in 0..n
      PROVE  IsFiniteSet(Upto(i)) /\ \A x \in Upto(i) : w[x] \in Nat
  <2>1. Upto(i) \subseteq C
    OBVIOUS
  <2> QED
    BY <1>0, <1>1, <2>1, FS_Subset
<1>3. \A i \in 0..n : c[i] = SumFunctionOnSet(w, Upto(i)) /\ c[i] \in Nat
  <2> SUFFICES ASSUME NEW i \in 0..n
               PROVE  SumFunctionOnSet(w, Upto(i)) \in Nat
    OBVIOUS
  <2> HIDE DEF Upto
  <2> QED
    BY <1>2, SumOfNaturals
<1>4. c[0] = 0
  <2>1. Upto(0) = {} /\ 0 \in 0..n
    OBVIOUS
  <2> QED
    BY <1>3, <2>1, SumOfNone
<1>5. Upto(n) = C
  BY <1>0
<1>6. ASSUME NEW i \in 1..n
      PROVE  a[i] \in Nat /\ c[i] = c[i - 1] + a[i]
  <2>0. i \in 0..n /\ i - 1 \in 0..n /\ 1..i = (1..i - 1) \cup {i}
    OBVIOUS
  <2>1. CASE order[i] \in C
    <3>1. Upto(i) \ {order[i]} = Upto(i - 1)
      <4>1. ASSUME NEW x \in Upto(i) \ {order[i]}
            PROVE  x \in Upto(i - 1)
        BY <2>0
      <4>2. ASSUME NEW x \in Upto(i - 1)
            PROVE  x \in Upto(i) \ {order[i]}
        <5>1. PICK j \in 1..i - 1 : order[j] = x /\ x \in C
          OBVIOUS
        <5>2. j \in 1..n /\ j # i /\ j \in 1..i
          OBVIOUS
        <5>3. x # order[i]
          BY <1>0, <5>1, <5>2
        <5> QED
          BY <5>1, <5>2, <5>3
      <4> QED
        BY <4>1, <4>2
    <3>2. order[i] \in Upto(i)
      BY <2>0, <2>1
    <3>3. IsFiniteSet(Upto(i)) /\ \A x \in Upto(i) : w[x] \in Int
      BY <1>0, <1>2, <2>0
    <3>4. /\ c[i] = SumFunctionOnSet(w, Upto(i)) /\ c[i] \in Nat
          /\ c[i - 1] = SumFunctionOnSet(w, Upto(i - 1)) /\ c[i - 1] \in Nat
      BY <1>3, <2>0
    <3>5. a[i] = w[order[i]] /\ a[i] \in Nat
      BY <1>0, <2>1
    <3> HIDE DEF Upto, c
    <3>6. SumFunctionOnSet(w, Upto(i)) = w[order[i]] + SumFunctionOnSet(w, Upto(i) \ {order[i]})
      BY <3>2, <3>3, SumOfOneMore
    <3>7. c[i] = a[i] + c[i - 1]
      BY <3>1, <3>4, <3>5, <3>6
    <3> QED
      BY <3>4, <3>5, <3>7
  <2>2. CASE order[i] \notin C
    <3>1. Upto(i) = Upto(i - 1)
      BY <2>0, <2>2
    <3>2. /\ c[i] = SumFunctionOnSet(w, Upto(i)) /\ c[i] \in Nat
          /\ c[i - 1] = SumFunctionOnSet(w, Upto(i - 1)) /\ c[i - 1] \in Nat
      BY <1>3, <2>0
    <3>3. a[i] = 0
      BY <1>0, <2>2
    <3> HIDE DEF Upto, c
    <3> QED
      BY <3>1, <3>2, <3>3
  <2> QED
    BY <2>1, <2>2
<1>7. c \in [0..n -> Nat]
  BY <1>3
<1>8. c[n] = SumFunctionOnSet(w, C)
  <2>1. n \in 0..n
    OBVIOUS
  <2> QED
    BY <1>3, <1>5, <2>1
<1> HIDE DEF c
<1> QED
  BY <1>4, <1>6, <1>7, <1>8 DEF Accrued

LEMMA PartialsInOrder ==
    ASSUME NEW v, NEW w, NEW n \in Nat, NEW P, NEW Q, PartialSums(P, v, n), PartialSums(Q, w, n),
           \A i \in 1..n : Short(v[i]) /\ Short(w[i]) /\ NotAbove(v[i], w[i]), NEW i \in 0..n
    PROVE  NotAbove(P[i], Q[i])
<1>1. \A k \in 0..n : Short(P[k]) /\ Short(Q[k])
  BY PartialSumsShort
<1> DEFINE G == {k \in Nat : k <= n => NotAbove(P[k], Q[k])}
<1>2. G \in SUBSET Nat /\ 0 \in G
  BY NoughtIs DEF PartialSums
<1>3. ASSUME NEW k \in Nat, k \in G
      PROVE  k + 1 \in G
  <2> SUFFICES ASSUME k + 1 <= n
               PROVE  NotAbove(P[k + 1], Q[k + 1])
    OBVIOUS
  <2>1. k + 1 \in 1..n /\ (k + 1) - 1 = k /\ k <= n /\ k \in 0..n
    OBVIOUS
  <2>2. P[k + 1] = Plus(P[k], v[k + 1]) /\ Q[k + 1] = Plus(Q[k], w[k + 1])
    BY <2>1 DEF PartialSums
  <2>3. NotAbove(P[k], Q[k]) /\ NotAbove(v[k + 1], w[k + 1])
    BY <1>3, <2>1
  <2>4. Short(P[k]) /\ Short(Q[k]) /\ Short(v[k + 1]) /\ Short(w[k + 1])
    BY <1>1, <2>1
  <2> QED
    BY <2>2, <2>3, <2>4, PlusInOrder
<1> HIDE DEF G
<1>4. G = Nat
  BY <1>2, <1>3, FromOneToTheNext
<1> QED
  BY <1>4 DEF G

\* The slack that rounding has.
Slack == Dec(10, 2 - SignificantDigits)

LEMMA SlackIs ==
    /\ Short(Slack) /\ Slack \in Decimal
    /\ \A k \in Nat : (2 - SignificantDigits) + k \in Nat =>
          k \in ScalesOf(Slack) /\ On(Slack, k) = 10 * PowerOfTen[(2 - SignificantDigits) + k]
<1>1. 10 \in Nat /\ 2 - SignificantDigits \in Int
  BY PrecisionIs
<1>2. Slack \in Decimal /\ Slack.m = 10 /\ Slack.e = 2 - SignificantDigits
  BY <1>1, DecimalIs DEF Slack
<1>3. 10 <= PowerOfTen[SignificantDigits]
  <2>1. PICK p \in Nat \ {0} : PowerOfTen[SignificantDigits] = 10 * p
    BY PrecisionIs
  <2> QED
    BY <2>1
<1> QED
  BY <1>2, <1>3 DEF Short, ScalesOf, On

\* What is left at a scale.
LEMMA SumAtScale ==
    ASSUME NEW a, NEW b, Short(a), Short(b), NotAbove(Plus(a, b), Whole(100)),
           NEW k, k \in ScalesOf(a), k \in ScalesOf(b), k \in ScalesOf(Plus(a, b)),
           (2 - SignificantDigits) + k \in Nat
    PROVE  LET s == On(a, k) + On(b, k)
               r == On(Plus(a, b), k)
               g == PowerOfTen[(2 - SignificantDigits) + k]
               hundred == 100 * PowerOfTen[k]
           IN /\ r <= hundred
              /\ s <= hundred => 2 * r <= 2 * s + g /\ 2 * s <= 2 * r + g
              /\ hundred <= s => r = hundred
<1>1. /\ a \in Decimal /\ b \in Decimal /\ Plus(a, b) \in Decimal /\ Short(Plus(a, b))
      /\ k \in Nat /\ 2 - SignificantDigits \in Int
  BY PlusShort, PrecisionIs DEF Short, ScalesOf
<1>2. PICK s \in Nat, r \in Nat, t \in Nat \ {0} :
         s = On(a, k) + On(b, k) /\ r = On(Plus(a, b), k) /\ t = PowerOfTen[k]
  <2>1. On(a, k) \in Nat /\ On(b, k) \in Nat /\ On(Plus(a, b), k) \in Nat
    BY <1>1, AtOrder
  <2>2. On(a, k) + On(b, k) \in Nat
    BY <2>1
  <2> QED
    BY <1>1, <2>1, <2>2, TenPositive
<1>3. k \in ScalesOf(Whole(100)) /\ On(Whole(100), k) = 100 * t /\ Whole(100) \in Decimal
  BY <1>1, <1>2, WholeAt, WholeIs
<1>4. r <= 100 * t
  BY <1>1, <1>2, <1>3, AtOrder
<1>5. ASSUME s <= 100 * t
      PROVE  /\ 2 * r <= 2 * s + PowerOfTen[(2 - SignificantDigits) + k]
             /\ 2 * s <= 2 * r + PowerOfTen[(2 - SignificantDigits) + k]
  <2>1. PowerOfTen[SignificantDigits + ((2 - SignificantDigits) + k)] = 100 * t
    BY <1>1, <1>2, HundredIs
  <2>2. On(a, k) + On(b, k) <= PowerOfTen[SignificantDigits + ((2 - SignificantDigits) + k)]
    BY <1>2, <1>5, <2>1
  <2> QED
    BY <1>1, <1>2, <2>2, PlusNear
<1>6. ASSUME 100 * t <= s
      PROVE  r = 100 * t
  <2>1. PICK q : q = Plus(a, b)
    OBVIOUS
  <2>2. RoundsTo(q, s, t)
    <3>1. k \in ScalesOf(a) \cap ScalesOf(b)
      OBVIOUS
    <3> QED
      BY <1>2, <2>1, <3>1, PlusRounds
  <2>3. PICK h : h = Whole(100) /\ RoundsTo(h, 100, 1)
    BY WholeRounds
  <2>4. 100 \in Nat /\ 1 \in Nat \ {0} /\ 100 * t <= s * 1
    BY <1>6
  <2>5. NotAbove(h, q)
    BY <2>2, <2>3, <2>4, RoundedInOrder
  <2>6. On(h, k) <= On(q, k)
    BY <1>1, <1>3, <2>1, <2>3, <2>5, AtOrder
  <2>7. PICK c \in Nat : c = 100 * t
    OBVIOUS
  <2> QED
    BY <1>2, <1>3, <1>4, <2>1, <2>3, <2>6, <2>7
<1> QED
  BY <1>2, <1>4, <1>5, <1>6

\* A term of a sum that averages: a value, weighed by its part s of A.
Term(t, x, s, A, lo, hi) ==
    /\ s \in 0..A /\ Short(x) /\ NotAbove(x, Whole(100))
    /\ \/ t = Nought /\ s = 0
       \/ t = Times(x, Divided(s, A)) /\ NotAbove(lo, x) /\ NotAbove(x, hi)

LEMMA TermIsShort ==
    ASSUME NEW t, NEW x, NEW s, NEW A \in Nat \ {0}, NEW lo, NEW hi, Term(t, x, s, A, lo, hi)
    PROVE  Short(t) /\ t \in Decimal /\ x \in Decimal
<1>1. s \in 0..A /\ Short(x) /\ x \in Decimal
  BY DEF Term, Short
<1>2. Divided(s, A) \in Decimal
  BY <1>1, ShareIs
<1>3. Short(Times(x, Divided(s, A))) /\ Times(x, Divided(s, A)) \in Decimal
  BY <1>1, <1>2, TimesShort
<1> QED
  BY <1>1, <1>3, NoughtIs DEF Term

LEMMA TermAtScale ==
    ASSUME NEW t, NEW x, NEW s, NEW A \in Nat \ {0}, NEW lo, NEW hi, Term(t, x, s, A, lo, hi),
           lo \in Decimal, hi \in Decimal,
           NEW k, k \in ScalesOf(t), k \in ScalesOf(x), k \in ScalesOf(lo), k \in ScalesOf(hi),
           (2 - SignificantDigits) + k \in Nat
    PROVE  LET g == PowerOfTen[(2 - SignificantDigits) + k]
           IN /\ A * On(t, k) <= s * On(hi, k) + A * g
              /\ s * On(lo, k) <= A * On(t, k) + A * g
<1>1. /\ s \in 0..A /\ s \in Nat /\ Short(x) /\ x \in Decimal /\ NotAbove(x, Whole(100)) /\ t \in Decimal
      /\ k \in Nat
  <2>1. t \in Decimal /\ x \in Decimal
    BY TermIsShort
  <2>2. s \in 0..A /\ Short(x) /\ NotAbove(x, Whole(100))
    BY DEF Term
  <2>3. s \in Nat /\ k \in Nat
    BY <2>2 DEF ScalesOf
  <2> QED
    BY <2>1, <2>2, <2>3
<1>2. PICK T \in Nat, X \in Nat, L \in Nat, H \in Nat, g \in Nat :
         /\ T = On(t, k) /\ X = On(x, k) /\ L = On(lo, k) /\ H = On(hi, k)
         /\ g = PowerOfTen[(2 - SignificantDigits) + k]
  <2>1. /\ On(t, k) \in Nat /\ On(x, k) \in Nat /\ On(lo, k) \in Nat /\ On(hi, k) \in Nat
        /\ PowerOfTen[(2 - SignificantDigits) + k] \in Nat
    BY <1>1, AtOrder, TenPositive
  <2> QED
    BY <2>1
<1>3. CASE t = Nought /\ s = 0
  <2>1. T = 0
    <3>1. On(Nought, k) = 0 * PowerOfTen[k] /\ PowerOfTen[k] \in Nat
      BY <1>1, WholeAt, TenPositive DEF Nought
    <3>2. PICK z \in Nat : z = PowerOfTen[k]
      BY <3>1
    <3>3. 0 * z = 0
      OBVIOUS
    <3> QED
      BY <1>2, <1>3, <3>1, <3>2, <3>3
  <2>2. A * 0 = 0 /\ 0 * H = 0 /\ 0 * L = 0 /\ A * g \in Nat
    OBVIOUS
  <2> QED
    BY <1>2, <1>3, <2>1, <2>2
<1>4. CASE t = Times(x, Divided(s, A)) /\ NotAbove(lo, x) /\ NotAbove(x, hi)
  <2>1. A * T <= s * X + A * g /\ s * X <= A * T + A * g
    <3>1. k \in ScalesOf(Times(x, Divided(s, A)))
      BY <1>4
    <3> QED
      BY <1>1, <1>2, <1>4, <3>1, TermError
  <2>2. L <= X /\ X <= H
    BY <1>1, <1>2, <1>4, AtOrder
  <2>3. s * L <= s * X /\ s * X <= s * H
    BY <1>1, <2>2
  <2>4. PICK b1 \in Nat, b2 \in Nat, b3 \in Nat, b4 \in Nat, b5 \in Nat :
           b1 = A * T /\ b2 = s * X /\ b3 = A * g /\ b4 = s * L /\ b5 = s * H
    BY <1>1
  <2> QED
    BY <1>2, <2>1, <2>3, <2>4
<1> QED
  BY <1>3, <1>4 DEF Term

\* A weighted average of at most seven values is between the least and the greatest.
LEMMA AverageStays ==
    ASSUME NEW n \in 1..7, NEW v, NEW P, PartialSums(P, v, n), NEW A \in Nat \ {0}, NEW a, NEW c,
           Accrued(c, a, n), c[n] = A, NEW xs, NEW lo, NEW hi, Short(lo), Short(hi),
           \A i \in 1..n : Term(v[i], xs[i], a[i], A, lo, hi),
           \A i \in 0..n : NotAbove(P[i], Whole(100))
    PROVE  NotAbove(P[n], Plus(hi, Slack)) /\ NotAbove(lo, Plus(P[n], Slack))
<1>0. n \in Nat /\ n <= 7 /\ lo \in Decimal /\ hi \in Decimal /\ 2 - SignificantDigits \in Int
  BY PrecisionIs DEF Short
<1>1. \A i \in 1..n : Short(v[i]) /\ v[i] \in Decimal /\ xs[i] \in Decimal
  BY TermIsShort
<1>2. \A i \in 0..n : Short(P[i]) /\ P[i] \in Decimal
  <2>1. \A i \in 0..n : Short(P[i])
    BY <1>0, <1>1, PartialSumsShort
  <2> QED
    BY <2>1 DEF Short
<1>3. PICK k \in Nat : /\ (2 - SignificantDigits) + k \in Nat
                       /\ WholeAtScale(v, n, k) /\ WholeAtScale(xs, n, k) /\ WholeAtScale(P, n, k)
                       /\ k \in ScalesOf(lo) /\ k \in ScalesOf(hi)
  <2>1. PICK k0 \in ScalesOf(lo) \cap ScalesOf(hi) : (2 - SignificantDigits) + k0 \in Nat /\ k0 \in Nat
    <3>1. PICK k0 \in ScalesOf(lo) \cap ScalesOf(hi) :
             (2 - SignificantDigits) + k0 \in Nat /\ (2 - SignificantDigits) + k0 \in Nat
      BY <1>0, ScaleForTwo
    <3> QED
      BY <3>1 DEF ScalesOf
  <2>2. PICK k1 \in Nat : k0 <= k1 /\ WholeAtScale(v, n, k1)
    BY <1>0, <1>1, <2>1, ScaleForMany
  <2>3. PICK k2 \in Nat : k1 <= k2 /\ WholeAtScale(xs, n, k2)
    BY <1>0, <1>1, ScaleForMany
  <2>4. PICK k3 \in Nat : k2 <= k3 /\ WholeAtScale(P, n, k3)
    <3>1. \A i \in 1..n : P[i] \in Decimal
      BY <1>2
    <3> QED
      BY <1>0, <3>1, ScaleForMany
  <2>5. k0 <= k3 /\ k1 <= k3
    BY <2>1, <2>2, <2>3, <2>4
  <2>6. WholeAtScale(v, n, k3) /\ WholeAtScale(xs, n, k3)
    BY <1>0, <1>1, <2>2, <2>3, <2>4, <2>5, FinerForMany
  <2>7. k3 \in ScalesOf(lo) /\ k3 \in ScalesOf(hi) /\ (2 - SignificantDigits) + k3 \in Nat
    <3>1. PICK e \in Int, f \in Int, z \in Int :
             /\ e = lo.e /\ f = hi.e /\ z = 2 - SignificantDigits
             /\ e + k0 \in Nat /\ f + k0 \in Nat /\ z + k0 \in Nat
      BY <1>0, <2>1 DEF ScalesOf, Decimal
    <3>2. e + k3 \in Nat /\ f + k3 \in Nat /\ z + k3 \in Nat
      BY <2>1, <2>5, <3>1
    <3> QED
      BY <3>1, <3>2 DEF ScalesOf
  <2> QED
    BY <2>4, <2>6, <2>7
<1>4. PICK V \in Nat \ {0}, G \in Nat \ {0}, L \in Nat, H \in Nat, g \in Nat \ {0}, hundred \in Nat :
         /\ V = PowerOfTen[k] /\ G = PowerOfTen[(2 - SignificantDigits) + k]
         /\ L = On(lo, k) /\ H = On(hi, k) /\ g = A * G /\ hundred = A * (100 * V)
  <2>1. PICK V \in Nat \ {0}, G \in Nat \ {0}, L \in Nat, H \in Nat :
           /\ V = PowerOfTen[k] /\ G = PowerOfTen[(2 - SignificantDigits) + k]
           /\ L = On(lo, k) /\ H = On(hi, k)
    BY <1>0, <1>3, TenPositive, AtOrder
  <2>2. A * G \in Nat /\ A * G # 0 /\ A * (100 * V) \in Nat
    BY <2>1
  <2> QED
    BY <2>1, <2>2
<1>5. \A i \in 1..n : i \in 0..n /\ i - 1 \in 0..n
  OBVIOUS
<1>6. \A i \in 0..n : k \in ScalesOf(P[i]) /\ On(P[i], k) \in Nat
  <2> SUFFICES ASSUME NEW i \in 0..n
               PROVE  k \in ScalesOf(P[i]) /\ On(P[i], k) \in Nat
    OBVIOUS
  <2>1. CASE i = 0
    BY <1>3, <2>1, WholeAt, <1>2, AtOrder DEF PartialSums, Nought
  <2>2. CASE i # 0
    <3>1. i \in 1..n
      BY <2>2
    <3> QED
      BY <1>2, <1>3, <3>1, AtOrder DEF WholeAtScale
  <2> QED
    BY <2>1, <2>2
<1>7. \A i \in 1..n : k \in ScalesOf(v[i]) /\ k \in ScalesOf(xs[i]) /\ On(v[i], k) \in Nat
  BY <1>1, <1>3, AtOrder DEF WholeAtScale
\* The terms, their sums and the exact sums, at one scale.
<1> DEFINE S == [i \in 0..n |-> A * On(P[i], k)]
           Y == [i \in 1..n |-> A * On(v[i], k)]
           U == [i \in 0..n |-> c[i] * H]
           D == [i \in 0..n |-> c[i] * L]
<1>8. c \in [0..n -> Nat] /\ c[0] = 0 /\ \A i \in 1..n : a[i] \in Nat /\ c[i] = c[i - 1] + a[i]
  BY DEF Accrued
<1>9. S \in [0..n -> Nat] /\ Y \in [1..n -> Nat] /\ U \in [0..n -> Nat] /\ D \in [0..n -> Nat]
  <2>1. ASSUME NEW x \in Nat
        PROVE  A * x \in Nat /\ x * H \in Nat /\ x * L \in Nat
    OBVIOUS
  <2>2. \A i \in 0..n : A * On(P[i], k) \in Nat /\ c[i] * H \in Nat /\ c[i] * L \in Nat
    BY <1>6, <1>8, <2>1
  <2>3. \A i \in 1..n : A * On(v[i], k) \in Nat
    BY <1>7, <2>1
  <2> QED
    BY <2>2, <2>3
<1>10. ASSUME NEW i \in 1..n
       PROVE  Y[i] <= (U[i] - U[i - 1]) + g /\ D[i] - D[i - 1] <= Y[i] + g
  <2>1. Term(v[i], xs[i], a[i], A, lo, hi) /\ k \in ScalesOf(v[i]) /\ k \in ScalesOf(xs[i])
    BY <1>7
  <2>2. PICK t, x, s : t = v[i] /\ x = xs[i] /\ s = a[i]
    OBVIOUS
  <2>3. A * On(t, k) <= s * H + A * G /\ s * L <= A * On(t, k) + A * G
    BY <1>0, <1>3, <1>4, <2>1, <2>2, TermAtScale
  <2>4. PICK s1 \in Nat, c1 \in Nat : s1 = a[i] /\ c1 = c[i - 1] /\ c[i] = c1 + s1
    BY <1>5, <1>8
  <2>5. (c1 + s1) * H = c1 * H + s1 * H /\ (c1 + s1) * L = c1 * L + s1 * L
    OBVIOUS
  <2>6. /\ Y[i] = A * On(v[i], k) /\ U[i] = c[i] * H /\ U[i - 1] = c[i - 1] * H
        /\ D[i] = c[i] * L /\ D[i - 1] = c[i - 1] * L
    BY <1>5
  <2>7. PICK b1 \in Nat, b2 \in Nat, b3 \in Nat, b4 \in Nat, b5 \in Nat :
           b1 = c1 * H /\ b2 = s1 * H /\ b3 = c1 * L /\ b4 = s1 * L /\ b5 = Y[i]
    <3>1. c1 * H \in Nat /\ s1 * H \in Nat /\ c1 * L \in Nat /\ s1 * L \in Nat
      OBVIOUS
    <3> HIDE DEF Y
    <3>2. Y[i] \in Nat
      BY <1>9
    <3> QED
      BY <3>1, <3>2
  <2> HIDE DEF S, Y, U, D
  <2> QED
    BY <1>4, <2>2, <2>3, <2>4, <2>5, <2>6, <2>7
<1>11. ASSUME NEW i \in 1..n
       PROVE  /\ S[i] <= hundred
              /\ S[i - 1] + Y[i] <= hundred =>
                    2 * S[i] <= 2 * (S[i - 1] + Y[i]) + g /\ 2 * (S[i - 1] + Y[i]) <= 2 * S[i] + g
              /\ hundred <= S[i - 1] + Y[i] => S[i] = hundred
  <2>1. PICK p, q, r : p = P[i - 1] /\ q = v[i] /\ r = P[i] /\ r = Plus(p, q)
    BY DEF PartialSums
  <2>2. /\ Short(p) /\ Short(q) /\ k \in ScalesOf(p) /\ k \in ScalesOf(q)
        /\ k \in ScalesOf(Plus(p, q)) /\ NotAbove(Plus(p, q), Whole(100))
    BY <1>1, <1>2, <1>5, <1>6, <1>7, <2>1
  <2>3. PICK x \in Nat, y \in Nat, z \in Nat : x = On(p, k) /\ y = On(q, k) /\ z = On(r, k)
    BY <1>5, <1>6, <1>7, <2>1
  <2>4. /\ z <= 100 * V
        /\ x + y <= 100 * V => 2 * z <= 2 * (x + y) + G /\ 2 * (x + y) <= 2 * z + G
        /\ 100 * V <= x + y => z = 100 * V
    BY <1>3, <1>4, <2>1, <2>2, <2>3, SumAtScale
  <2>5. S[i] = A * z /\ S[i - 1] = A * x /\ Y[i] = A * y
    BY <1>5, <2>1, <2>3
  <2> HIDE DEF S, Y, U, D
  <2>6. PICK H1 \in Nat, s \in Nat : H1 = 100 * V /\ s = x + y
    OBVIOUS
  <2>7. A * s = A * x + A * y
    BY <2>6
  <2>8. /\ A * z <= A * H1
        /\ A * s <= A * H1 => 2 * (A * z) <= 2 * (A * s) + A * G /\ 2 * (A * s) <= 2 * (A * z) + A * G
        /\ A * H1 <= A * s => A * z = A * H1
    <3>1. A * z <= A * H1
      BY <2>4, <2>6
    <3>2. /\ A * s <= A * H1 => s <= H1
          /\ A * H1 <= A * s => H1 <= s
      <4>1. A * s = s * A /\ A * H1 = H1 * A
        OBVIOUS
      <4> QED
        BY <4>1, Cancels
    <3>3. ASSUME s <= H1
          PROVE  2 * (A * z) <= 2 * (A * s) + A * G /\ 2 * (A * s) <= 2 * (A * z) + A * G
      <4>1. 2 * z <= 2 * s + G /\ 2 * s <= 2 * z + G
        BY <2>4, <2>6, <3>3
      <4>2. PICK f1 \in Nat, f2 \in Nat, f3 \in Nat, f4 \in Nat :
               f1 = 2 * z /\ f2 = 2 * s + G /\ f3 = 2 * s /\ f4 = 2 * z + G /\ f1 <= f2 /\ f3 <= f4
        BY <4>1
      <4>3. A * f1 <= A * f2 /\ A * f3 <= A * f4
        BY <4>2
      <4>4. /\ A * (2 * z) = 2 * (A * z) /\ A * (2 * s + G) = 2 * (A * s) + A * G
            /\ A * (2 * s) = 2 * (A * s) /\ A * (2 * z + G) = 2 * (A * z) + A * G
        OBVIOUS
      <4> QED
        BY <4>2, <4>3, <4>4
    <3> QED
      BY <2>4, <2>6, <3>1, <3>2, <3>3
  <2> QED
    BY <1>4, <2>5, <2>6, <2>7, <2>8
<1>12. S[0] = 0 /\ U[0] = 0 /\ D[0] = 0 /\ (1 \in 1..n => S[1] = Y[1])
  <2>1. On(Nought, k) = 0 * V /\ P[0] = Nought /\ 0 \in 0..n
    BY <1>3, <1>4, WholeAt DEF Nought, PartialSums
  <2>2. 0 * V = 0 /\ A * 0 = 0 /\ 0 * H = 0 /\ 0 * L = 0
    OBVIOUS
  <2>3. ASSUME 1 \in 1..n
        PROVE  P[1] = v[1]
    <3>1. P[1] = Plus(P[1 - 1], v[1]) /\ 1 - 1 = 0
      BY <2>3 DEF PartialSums
    <3> QED
      BY <2>1, <3>1, NoughtIs DEF Plus
  <2>4. 1 \in 1..n => 1 \in 0..n
    OBVIOUS
  <2> QED
    BY <1>8, <2>1, <2>2, <2>3, <2>4
<1> HIDE DEF S, Y, U, D
<1> DEFINE Near == {i \in Nat : i \in 1..n =>
                      /\ 2 * S[i] + g <= 2 * U[i] + 3 * (i * g)
                      /\ S[i] = hundred \/ 2 * D[i] + g <= 2 * S[i] + 3 * (i * g)}
<1>13. Near \in SUBSET Nat /\ 0 \in Near
  OBVIOUS
<1>14. ASSUME NEW j \in Nat, j \in Near
       PROVE  j + 1 \in Near
  <2> SUFFICES ASSUME j + 1 \in 1..n
               PROVE  /\ 2 * S[j + 1] + g <= 2 * U[j + 1] + 3 * ((j + 1) * g)
                      /\ S[j + 1] = hundred \/ 2 * D[j + 1] + g <= 2 * S[j + 1] + 3 * ((j + 1) * g)
    OBVIOUS
  <2>1. PICK i \in 1..n : i = j + 1 /\ i - 1 = j
    OBVIOUS
  <2>2. PICK s \in Nat, r \in Nat, y \in Nat, u0 \in Nat, u1 \in Nat, d0 \in Nat, d1 \in Nat :
           /\ s = S[j] /\ r = S[j + 1] /\ y = Y[j + 1] /\ u0 = U[j] /\ u1 = U[j + 1]
           /\ d0 = D[j] /\ d1 = D[j + 1]
    BY <1>5, <1>9, <2>1
  <2>3. /\ y <= (u1 - u0) + g /\ d1 - d0 <= y + g
        /\ r <= hundred
        /\ s + y <= hundred => 2 * r <= 2 * (s + y) + g /\ 2 * (s + y) <= 2 * r + g
        /\ hundred <= s + y => r = hundred
    BY <1>10, <1>11, <2>1, <2>2
  <2>4. PICK jg \in Nat : jg = j * g /\ (j + 1) * g = jg + g
    <3>1. (j + 1) * g = j * g + g /\ j * g \in Nat
      OBVIOUS
    <3> QED
      BY <3>1
  <2>5. CASE j = 0
    <3>1. s = 0 /\ u0 = 0 /\ d0 = 0 /\ r = y /\ jg = 0
      BY <1>12, <2>1, <2>2, <2>4, <2>5
    <3>2. 2 * r + g <= 2 * u1 + 3 * (jg + g) /\ 2 * d1 + g <= 2 * r + 3 * (jg + g)
      BY <2>3, <3>1
    <3> QED
      BY <2>2, <2>4, <3>2
  <2>6. CASE j # 0
    <3>1. 2 * s + g <= 2 * u0 + 3 * jg /\ (s = hundred \/ 2 * d0 + g <= 2 * s + 3 * jg)
      <4>1. j \in 1..n
        BY <2>1, <2>6
      <4> QED
        BY <1>14, <2>2, <2>4, <4>1
    <3>2. 2 * r + g <= 2 * u1 + 3 * (jg + g)
      BY <2>3, <3>1
    <3>3. r = hundred \/ 2 * d1 + g <= 2 * r + 3 * (jg + g)
      BY <2>3, <3>1
    <3> QED
      BY <2>2, <2>4, <3>2, <3>3
  <2> QED
    BY <2>5, <2>6
<1> HIDE DEF Near
<1>15. Near = Nat
  BY <1>13, <1>14, FromOneToTheNext
<1>16. n \in 1..n /\ n \in 0..n
  OBVIOUS
<1>17. /\ 2 * S[n] + g <= 2 * U[n] + 3 * (n * g)
       /\ S[n] = hundred \/ 2 * D[n] + g <= 2 * S[n] + 3 * (n * g)
  BY <1>0, <1>15, <1>16 DEF Near
<1>18. PICK R \in Nat : R = On(P[n], k) /\ S[n] = A * R /\ U[n] = A * H /\ D[n] = A * L
  BY <1>6, <1>16 DEF S, U, D
<1>19. R <= H + 10 * G /\ (R = 100 * V \/ L <= R + 10 * G)
  <2>1. n * g <= 7 * g
    BY <1>0
  <2>2. PICK b1 \in Nat, b2 \in Nat, b3 \in Nat, b4 \in Nat :
           b1 = A * R /\ b2 = A * H /\ b3 = A * L /\ b4 = n * g
    BY <1>0
  <2>3. b1 <= b2 + 10 * g /\ (b1 = hundred \/ b3 <= b1 + 10 * g)
    BY <1>17, <1>18, <2>1, <2>2
  <2>4. /\ R * A = b1 /\ (H + 10 * G) * A = b2 + 10 * g /\ L * A = b3
        /\ (R + 10 * G) * A = b1 + 10 * g /\ (100 * V) * A = hundred
    <3>1. /\ R * A = A * R /\ (H + 10 * G) * A = A * H + 10 * (A * G) /\ L * A = A * L
          /\ (R + 10 * G) * A = A * R + 10 * (A * G) /\ (100 * V) * A = A * (100 * V)
      OBVIOUS
    <3> QED
      BY <1>4, <2>2, <3>1
  <2>5. /\ R * A <= (H + 10 * G) * A
        /\ R * A = (100 * V) * A \/ L * A <= (R + 10 * G) * A
    BY <2>3, <2>4
  <2>6. H + 10 * G \in Nat /\ R + 10 * G \in Nat /\ 100 * V \in Nat
    OBVIOUS
  <2> QED
    BY <2>5, <2>6, Cancels
<1>20. PICK s : s = P[n] /\ Short(s) /\ s \in Decimal /\ k \in ScalesOf(s)
  BY <1>2, <1>6, <1>16
<1>21. /\ Short(Slack) /\ Slack \in Decimal /\ k \in ScalesOf(Slack) /\ On(Slack, k) = 10 * G
  BY <1>3, <1>4, SlackIs
<1>22. RoundsTo(s, R, V)
  BY <1>4, <1>18, <1>20, ShortRounds
<1>23. NotAbove(s, Plus(hi, Slack))
  <2>1. RoundsTo(Plus(hi, Slack), H + 10 * G, V)
    <3>1. k \in ScalesOf(hi) \cap ScalesOf(Slack)
      BY <1>3, <1>21
    <3>2. RoundsTo(Plus(hi, Slack), On(hi, k) + On(Slack, k), PowerOfTen[k])
      BY <1>21, <3>1, PlusRounds
    <3> QED
      BY <1>4, <1>21, <3>2
  <2>2. PICK m, q : m \in Nat /\ m = H + 10 * G /\ q = Plus(hi, Slack)
    OBVIOUS
  <2>3. R * V <= m * V
    BY <1>19, <2>2
  <2> QED
    BY <1>22, <2>1, <2>2, <2>3, RoundedInOrder
<1>24. NotAbove(lo, Plus(s, Slack))
  <2>1. CASE R = 100 * V
    <3>1. NotAbove(lo, Whole(100))
      <4>1. PICK i \in 1..n : a[i] # 0
        <5>1. CASE \A i \in 1..n : a[i] = 0
          <6> DEFINE Z == {i \in Nat : i <= n => c[i] = 0}
          <6>1. Z \in SUBSET Nat /\ 0 \in Z
            BY <1>8
          <6>2. ASSUME NEW i \in Nat, i \in Z
                PROVE  i + 1 \in Z
            <7> SUFFICES ASSUME i + 1 <= n
                         PROVE  c[i + 1] = 0
              OBVIOUS
            <7>1. i + 1 \in 1..n /\ (i + 1) - 1 = i
              OBVIOUS
            <7> QED
              BY <1>8, <5>1, <6>2, <7>1
          <6> HIDE DEF Z
          <6>3. Z = Nat
            BY <6>1, <6>2, FromOneToTheNext
          <6>4. c[n] = 0
            BY <1>0, <6>3 DEF Z
          <6> QED
            BY <6>4
        <5> QED
          BY <5>1
      <4>2. Term(v[i], xs[i], a[i], A, lo, hi)
        OBVIOUS
      <4>3. NotAbove(lo, xs[i]) /\ NotAbove(xs[i], Whole(100)) /\ xs[i] \in Decimal
        BY <1>1, <4>1, <4>2 DEF Term
      <4>4. Whole(100) \in Decimal
        BY WholeIs
      <4> QED
        BY <1>0, <4>3, <4>4, OrderTransitive
    <3>2. NotAbove(Whole(100), s)
      <4>1. k \in ScalesOf(Whole(100)) /\ On(Whole(100), k) = 100 * V /\ Whole(100) \in Decimal
        BY <1>3, <1>4, WholeAt, WholeIs
      <4>2. On(Whole(100), k) <= On(s, k)
        BY <1>18, <1>20, <2>1, <4>1
      <4> QED
        BY <1>20, <4>1, <4>2, AtOrder
    <3>3. NotAbove(s, Plus(s, Slack)) /\ Plus(s, Slack) \in Decimal /\ Whole(100) \in Decimal
      BY <1>20, <1>21, PlusIsNotLess, PlusShort, WholeIs
    <3>4. NotAbove(lo, s)
      BY <1>0, <1>20, <3>1, <3>2, <3>3, OrderTransitive
    <3> QED
      BY <1>0, <1>20, <3>3, <3>4, OrderTransitive
  <2>2. CASE L <= R + 10 * G
    <3>1. RoundsTo(Plus(s, Slack), R + 10 * G, V)
      <4>1. k \in ScalesOf(s) \cap ScalesOf(Slack)
        BY <1>20, <1>21
      <4>2. RoundsTo(Plus(s, Slack), On(s, k) + On(Slack, k), PowerOfTen[k])
        BY <1>20, <1>21, <4>1, PlusRounds
      <4> QED
        BY <1>4, <1>18, <1>20, <1>21, <4>2
    <3>2. PICK m, q : m \in Nat /\ m = R + 10 * G /\ q = Plus(s, Slack)
      OBVIOUS
    <3>3. L * V <= m * V
      BY <2>2, <3>2
    <3>4. RoundsTo(lo, L, V)
      BY <1>3, <1>4, ShortRounds
    <3> QED
      BY <3>1, <3>2, <3>3, <3>4, RoundedInOrder
  <2> QED
    BY <1>19, <2>1, <2>2
<1> QED
  BY <1>20, <1>23, <1>24

-----------------------------------------------------------------------------
(* Sums of parts of a hundred do not exceed it.                            *)

\* A short decimal from 10 on is a multiple of the last digit below a hundred.
LEMMA OnTheGrid ==
    ASSUME NEW a, Short(a), NEW k, k \in ScalesOf(a), (1 - SignificantDigits) + k \in Nat,
           10 * PowerOfTen[k] <= On(a, k)
    PROVE  \E m \in Nat : On(a, k) = m * PowerOfTen[(2 - SignificantDigits) + k]
<1>1. PICK p \in Nat \ {0}, e \in Int, m \in Nat :
         p = SignificantDigits /\ e = a.e /\ m = a.m /\ e + k \in Nat /\ k \in Nat
      /\ m <= PowerOfTen[p] /\ p - 1 \in Nat
  BY PrecisionIs DEF Short, Decimal, ScalesOf
<1>2. PICK f \in Nat, h \in Nat : f = (1 - p) + k /\ h = (2 - p) + k /\ h = f + 1
  BY <1>1
<1>3. CASE e + k >= h
  <2>1. PICK j \in Nat : e + k = j + h
    <3>1. (e + k) - h \in Nat /\ e + k = ((e + k) - h) + h
      BY <1>1, <1>2, <1>3
    <3> QED
      BY <3>1
  <2>2. PowerOfTen[j + h] = PowerOfTen[j] * PowerOfTen[h]
    BY <1>2, <2>1, TenOfSum
  <2>3. PICK J \in Nat, H \in Nat : J = PowerOfTen[j] /\ H = PowerOfTen[h]
    BY <1>2, <2>1, TenPositive
  <2>4. m * (J * H) = (m * J) * H /\ m * J \in Nat
    OBVIOUS
  <2>5. On(a, k) = (m * J) * PowerOfTen[(2 - SignificantDigits) + k]
    BY <1>1, <1>2, <2>1, <2>2, <2>3, <2>4 DEF On
  <2> QED
    BY <2>4, <2>5
<1>4. CASE e + k < h
  <2>1. PICK q \in Nat \ {0}, P \in Nat \ {0}, F \in Nat \ {0}, E \in Nat, V \in Nat :
           /\ q = PowerOfTen[p - 1] /\ P = PowerOfTen[p] /\ P = 10 * q
           /\ F = PowerOfTen[f] /\ E = PowerOfTen[e + k] /\ V = PowerOfTen[k]
           /\ PowerOfTen[h] = 10 * F
    <3>1. PowerOfTen[p - 1] \in Nat \ {0} /\ PowerOfTen[p] = 10 * PowerOfTen[p - 1]
      BY <1>1, PrecisionIs
    <3>2. PowerOfTen[f] \in Nat \ {0} /\ PowerOfTen[f + 1] = 10 * PowerOfTen[f]
      BY <1>2, TenPositive
    <3>3. PowerOfTen[e + k] \in Nat
      BY <1>1, TenPositive
    <3>4. PowerOfTen[k] \in Nat
      BY <1>1, TenPositive
    <3>5. PICK q \in Nat \ {0} : q = PowerOfTen[p - 1]
      BY <3>1
    <3>6. 10 * q \in Nat \ {0}
      BY <3>5
    <3> QED
      BY <1>2, <3>1, <3>2, <3>3, <3>4, <3>5, <3>6
  <2>2. P * F = 10 * V
    <3>1. PowerOfTen[p + f] = PowerOfTen[p] * PowerOfTen[f] /\ p + f = k + 1
      BY <1>1, <1>2, TenOfSum
    <3>2. PowerOfTen[k + 1] = 10 * PowerOfTen[k]
      BY <1>1, TenPositive
    <3> QED
      BY <2>1, <3>1, <3>2
  <2>3. E <= F
    <3>1. e + k <= f
      BY <1>1, <1>2, <1>4
    <3> QED
      BY <1>1, <1>2, <2>1, <3>1, TensInOrder
  <2>4. m * E <= P * F
    BY <1>1, <2>1, <2>3, ProductsInOrder
  <2>5. On(a, k) = m * E
    BY <1>1, <2>1 DEF On
  <2>6. On(a, k) = P * F
    <3>1. PICK x \in Nat, y \in Nat : x = m * E /\ y = P * F
      OBVIOUS
    <3> QED
      BY <2>1, <2>2, <2>4, <2>5, <3>1
  <2>7. (10 * q) * F = q * (10 * F)
    OBVIOUS
  <2>8. On(a, k) = q * PowerOfTen[h] /\ q \in Nat
    BY <2>1, <2>6, <2>7
  <2> QED
    BY <1>1, <1>2, <2>8
<1> QED
  BY <1>1, <1>2, <1>3, <1>4

\* Four units above a hundred round to a hundred.
LEMMA HundredAbsorbs ==
    ASSUME NEW r, NEW s \in Nat, NEW k \in Nat, (2 - SignificantDigits) + k \in Nat,
           RoundsTo(r, s, PowerOfTen[k]),
           20 * s <= 2000 * PowerOfTen[k] + 80 * PowerOfTen[(2 - SignificantDigits) + k]
    PROVE  NotAbove(r, Whole(100))
<1>1. PICK p \in Nat \ {0}, q \in Nat \ {0} :
         /\ p = SignificantDigits /\ q = PowerOfTen[p - 1] /\ PowerOfTen[p] = 10 * q /\ p - 1 \in Nat
  BY PrecisionIs
<1>2. PICK N \in Nat, x \in Int : N = 5 * q + 2 /\ x = 3 - p
  OBVIOUS
<1>3. HalfEven(N, 5) = q
  <2>1. N \div 5 = q /\ N % 5 = 2
    BY <1>2
  <2> QED
    BY <2>1 DEF HalfEven
<1>4. PICK n \in Nat, d \in Nat \ {0} : n = N * 1000 /\ d = 5 * (10 * q)
  <2>1. N * 1000 \in Nat /\ 5 * (10 * q) \in Nat \ {0}
    OBVIOUS
  <2> QED
    BY <2>1
<1>5. ASSUME NEW j \in Nat, x + j \in Nat
      PROVE  /\ (10 * q) * PowerOfTen[x + j] = 1000 * PowerOfTen[j]
             /\ q * PowerOfTen[x + j] = 100 * PowerOfTen[j]
             /\ PowerOfTen[x + j] \in Nat /\ PowerOfTen[j] \in Nat
  <2>1. PICK f \in Nat : f = x + j /\ p + f = ((j + 1) + 1) + 1
    BY <1>2, <1>5
  <2>2. PowerOfTen[p + f] = PowerOfTen[p] * PowerOfTen[f]
    BY <2>1, TenOfSum
  <2>3. PowerOfTen[((j + 1) + 1) + 1] = 1000 * PowerOfTen[j]
    <3>1. j + 1 \in Nat /\ (j + 1) + 1 \in Nat
      OBVIOUS
    <3>2. PowerOfTen[j + 1] = 10 * PowerOfTen[j] /\ PowerOfTen[j] \in Nat
      BY TenPositive
    <3>3. PowerOfTen[(j + 1) + 1] = 10 * PowerOfTen[j + 1]
      BY <3>1, TenPositive
    <3>4. PowerOfTen[((j + 1) + 1) + 1] = 10 * PowerOfTen[(j + 1) + 1]
      BY <3>1, TenPositive
    <3> QED
      BY <3>2, <3>3, <3>4
  <2>4. PICK F \in Nat, t \in Nat : F = PowerOfTen[f] /\ t = PowerOfTen[j]
    <3>1. PowerOfTen[f] \in Nat
      BY <2>1, TenPositive
    <3>2. PowerOfTen[j] \in Nat
      BY TenPositive
    <3> QED
      BY <3>1, <3>2
  <2>5. (10 * q) * F = 1000 * t
    BY <1>1, <2>1, <2>2, <2>3, <2>4
  <2>6. (10 * q) * F = 10 * (q * F)
    OBVIOUS
  <2>7. PICK z \in Nat : z = q * F
    OBVIOUS
  <2>8. z = 100 * t
    BY <2>5, <2>6, <2>7
  <2> QED
    BY <2>1, <2>4, <2>5, <2>7, <2>8
<1>6. Amounts(n, d, x, N, 5)
  <2> SUFFICES ASSUME NEW j \in Nat, x + j \in Nat
               PROVE  (n * PowerOfTen[j]) * 5 = N * (d * PowerOfTen[x + j])
    BY DEF Amounts
  <2>1. PICK t \in Nat, f \in Nat : t = PowerOfTen[j] /\ f = PowerOfTen[x + j] /\ (10 * q) * f = 1000 * t
    BY <1>5
  <2>2. d * f = 5 * ((10 * q) * f)
    BY <1>4
  <2>3. (N * 1000 * t) * 5 = N * (5 * (1000 * t))
    OBVIOUS
  <2> QED
    BY <1>4, <2>1, <2>2, <2>3
<1>7. RoundsTo(Dec(q, x), n, d)
  <2>1. q * 5 <= N /\ N < (10 * q) * 5 /\ 5 \in Nat \ {0}
    BY <1>2
  <2>2. PowerOfTen[SignificantDigits - 1] * 5 <= N /\ N < PowerOfTen[SignificantDigits] * 5
    BY <1>1, <2>1
  <2>3. n \in Nat /\ d \in Nat \ {0} /\ x \in Int /\ N \in Nat /\ 5 \in Nat \ {0}
    BY <1>2, <1>4
  <2>4. RoundsTo(Dec(HalfEven(N, 5), x), n, d)
    BY ONLY <2>3, <1>6, <2>1, <2>2, CoarseRounds
  <2> QED
    BY <1>3, <2>4
<1>8. PICK V \in Nat \ {0}, G \in Nat \ {0} :
         /\ V = PowerOfTen[k] /\ G = PowerOfTen[(2 - SignificantDigits) + k] /\ q * G = 10 * V
  <2>1. PICK f \in Nat, u \in Nat : f = (2 - SignificantDigits) + k /\ u = p - 1 /\ u + f = k + 1
    BY <1>1
  <2>2. PowerOfTen[u + f] = PowerOfTen[u] * PowerOfTen[f] /\ PowerOfTen[k + 1] = 10 * PowerOfTen[k]
    <3>1. PowerOfTen[u + f] = PowerOfTen[u] * PowerOfTen[f]
      BY ONLY f \in Nat, u \in Nat, TenOfSum
    <3>2. PowerOfTen[k + 1] = 10 * PowerOfTen[k]
      BY TenPositive
    <3> QED
      BY <3>1, <3>2
  <2>3. PowerOfTen[f] \in Nat \ {0} /\ PowerOfTen[k] \in Nat \ {0}
    BY <2>1, TenPositive
  <2> QED
    BY <1>1, <2>1, <2>2, <2>3
<1>9. s * d <= n * V
  <2>1. PICK b1 \in Nat, b2 \in Nat : b1 = q * s /\ b2 = q * V
    OBVIOUS
  <2>2. 20 * b1 <= 2000 * b2 + 800 * V
    <3>1. PICK y \in Nat, z \in Nat : y = 20 * s /\ z = 2000 * V + 80 * G /\ y <= z
      BY <1>8
    <3>2. q * y <= q * z
      BY <3>1
    <3>3. q * (20 * s) = 20 * (q * s) /\ q * (2000 * V + 80 * G) = 2000 * (q * V) + 80 * (q * G)
      OBVIOUS
    <3> QED
      BY <1>8, <2>1, <3>1, <3>2, <3>3
  <2>3. s * d = 50 * b1 /\ n * V = 5000 * b2 + 2000 * V
    <3>1. s * (5 * (10 * q)) = 50 * (q * s) /\ ((5 * q + 2) * 1000) * V = 5000 * (q * V) + 2000 * V
      OBVIOUS
    <3> QED
      BY <1>2, <1>4, <2>1, <3>1
  <2> QED
    BY <2>1, <2>2, <2>3
<1>10. PICK D : D = Dec(q, x) /\ D \in Decimal
  BY DecimalIs
<1>11. NotAbove(r, D)
  <2>1. RoundsTo(D, n, d) /\ RoundsTo(r, s, V)
    BY <1>7, <1>8, <1>10
  <2> QED
    BY ONLY <1>9, <2>1, s \in Nat, n \in Nat, d \in Nat \ {0}, V \in Nat \ {0}, RoundedInOrder
<1>12. NotAbove(D, Whole(100))
  <2>1. x + k \in Nat /\ D.m = q /\ D.e = x
    <3>1. x + k = 1 + ((2 - SignificantDigits) + k)
      BY <1>1, <1>2
    <3> QED
      BY <1>10, <3>1, DecimalIs
  <2>2. k \in ScalesOf(D) /\ On(D, k) = 100 * V
    BY <1>5, <1>8, <2>1 DEF ScalesOf, On
  <2>3. k \in ScalesOf(Whole(100)) /\ On(Whole(100), k) = 100 * V /\ Whole(100) \in Decimal
    BY <1>8, WholeAt, WholeIs
  <2>4. On(D, k) <= On(Whole(100), k)
    BY <2>2, <2>3
  <2> QED
    BY <1>10, <2>2, <2>3, <2>4, AtOrder
<1> QED
  BY <1>10, <1>11, <1>12, OrderTransitive, WholeIs DEF RoundsTo, Short

\* What a sum up to a hundred is at a scale.
LEMMA SumUpToHundred ==
    ASSUME NEW a, NEW b, Short(a), Short(b), NEW k, k \in ScalesOf(a), k \in ScalesOf(b),
           k \in ScalesOf(Plus(a, b)), (1 - SignificantDigits) + k \in Nat,
           NEW x, NEW y, NEW r, NEW v, NEW g,
           x = On(a, k), y = On(b, k), r = On(Plus(a, b), k), v = PowerOfTen[k],
           g = PowerOfTen[(2 - SignificantDigits) + k]
    PROVE  /\ 20 * (x + y) <= 2000 * v + 80 * g => NotAbove(Plus(a, b), Whole(100)) /\ r <= 100 * v
           /\ x + y <= 10 * v => 20 * r <= 20 * (x + y) + g
           /\ x + y <= 100 * v => 20 * r <= 20 * (x + y) + 10 * g
           /\ 10 * v <= x /\ 10 * v <= y /\ x + y <= 100 * v => r = x + y
           /\ 10 * v <= x + y => 10 * v <= r
<1>1. /\ a \in Decimal /\ b \in Decimal /\ Plus(a, b) \in Decimal /\ Short(Plus(a, b))
      /\ k \in Nat /\ SignificantDigits \in Nat
      /\ (2 - SignificantDigits) + k \in Nat /\ (2 - SignificantDigits) + k = ((1 - SignificantDigits) + k) + 1
  <2>1. a \in Decimal /\ b \in Decimal /\ Plus(a, b) \in Decimal /\ Short(Plus(a, b))
    BY PlusShort DEF Short
  <2>2. k \in Nat /\ SignificantDigits \in Nat
    BY PrecisionIs DEF ScalesOf
  <2> QED
    BY <2>1, <2>2
<1>2. x \in Nat /\ y \in Nat /\ r \in Nat
  BY <1>1, AtOrder
<1>3. PICK h \in Nat : h = PowerOfTen[(1 - SignificantDigits) + k] /\ g = 10 * h /\ g \in Nat \ {0}
  <2>1. PICK e \in Nat : e = (1 - SignificantDigits) + k
    OBVIOUS
  <2>2. PowerOfTen[e] \in Nat /\ PowerOfTen[e + 1] = 10 * PowerOfTen[e] /\ PowerOfTen[e] # 0
    BY <2>1, TenPositive
  <2> QED
    BY <1>1, <2>1, <2>2
<1>4. v \in Nat \ {0} /\ PowerOfTen[k] = v
  BY <1>1, TenPositive
<1>5. RoundsTo(Plus(a, b), x + y, v)
  <2>1. k \in ScalesOf(a) \cap ScalesOf(b)
    OBVIOUS
  <2> QED
    BY <2>1, PlusRounds
<1>6. \A n \in {10, 100} : k \in ScalesOf(Whole(n)) /\ On(Whole(n), k) = n * v /\ Whole(n) \in Decimal
  <2> SUFFICES ASSUME NEW n \in Nat
               PROVE  k \in ScalesOf(Whole(n)) /\ On(Whole(n), k) = n * v /\ Whole(n) \in Decimal
    OBVIOUS
  <2> QED
    BY <1>1, WholeAt, WholeIs
<1>7. ASSUME 20 * (x + y) <= 2000 * v + 80 * g
      PROVE  NotAbove(Plus(a, b), Whole(100)) /\ r <= 100 * v
  <2>1. NotAbove(Plus(a, b), Whole(100))
    <3>1. PICK s, q : s \in Nat /\ s = x + y /\ q = Plus(a, b)
      BY <1>2
    <3>2. RoundsTo(q, s, PowerOfTen[k]) /\ 20 * s <= 2000 * PowerOfTen[k] + 80 * PowerOfTen[(2 - SignificantDigits) + k]
      BY <1>4, <1>5, <1>7, <3>1
    <3> QED
      BY <1>1, <3>1, <3>2, HundredAbsorbs
  <2>2. On(Plus(a, b), k) <= On(Whole(100), k)
    BY <1>1, <1>6, <2>1, AtOrder
  <2> QED
    BY <1>6, <2>1, <2>2
<1>8. PICK s, q : s \in Nat /\ s = x + y /\ q = Plus(a, b) /\ r = On(q, k) /\ q \in Decimal /\ RoundsTo(q, s, v)
  BY <1>1, <1>2, <1>5
<1>9. ASSUME s <= 10 * v
      PROVE  20 * r <= 20 * s + g
  <2>1. PICK z \in Int : z = 1 - SignificantDigits
    BY <1>1
  <2>2. PowerOfTen[SignificantDigits + (z + k)] = 10 * v
    <3>1. SignificantDigits + (z + k) = k + 1
      BY <1>1, <2>1
    <3>2. PowerOfTen[k + 1] = 10 * PowerOfTen[k]
      BY <1>1, TenPositive
    <3> QED
      BY <1>4, <3>1, <3>2
  <2>3. On(a, k) + On(b, k) <= PowerOfTen[SignificantDigits + (z + k)] /\ z + k \in Nat
    BY <1>8, <1>9, <2>1, <2>2
  <2>4. 2 * On(Plus(a, b), k) <= 2 * (On(a, k) + On(b, k)) + PowerOfTen[z + k]
    BY <2>1, <2>3, PlusNear
  <2>5. 2 * r <= 2 * s + h
    BY <1>3, <1>8, <2>1, <2>4
  <2> QED
    BY <1>2, <1>3, <1>8, <2>5
<1>10. ASSUME s <= 100 * v
       PROVE  20 * r <= 20 * s + 10 * g
  <2>1. PICK z \in Int : z = 2 - SignificantDigits
    BY <1>1
  <2>2. PowerOfTen[SignificantDigits + ((2 - SignificantDigits) + k)] = 100 * v
    BY <1>1, <1>4, HundredIs
  <2>3. On(a, k) + On(b, k) <= PowerOfTen[SignificantDigits + (z + k)] /\ z + k \in Nat
    BY <1>1, <1>8, <1>10, <2>1, <2>2
  <2>4. 2 * On(Plus(a, b), k) <= 2 * (On(a, k) + On(b, k)) + PowerOfTen[z + k]
    BY <2>1, <2>3, PlusNear
  <2>5. 2 * r <= 2 * s + g
    BY <1>8, <2>1, <2>4
  <2> QED
    BY <1>2, <1>3, <1>8, <2>5
<1>11. ASSUME 10 * v <= x, 10 * v <= y, s <= 100 * v
       PROVE  r = s
  <2>1. PICK m \in Nat, n \in Nat : x = m * g /\ y = n * g
    <3>1. 10 * PowerOfTen[k] <= On(a, k) /\ 10 * PowerOfTen[k] <= On(b, k)
      BY <1>4, <1>11
    <3>2. \E m \in Nat : On(a, k) = m * PowerOfTen[(2 - SignificantDigits) + k]
      BY <3>1, OnTheGrid
    <3>3. \E n \in Nat : On(b, k) = n * PowerOfTen[(2 - SignificantDigits) + k]
      BY <3>1, OnTheGrid
    <3> QED
      BY <3>2, <3>3
  <2>2. PICK P \in Nat : P = PowerOfTen[SignificantDigits] /\ P * g = 100 * v
    <3>1. PICK P \in Nat : P = PowerOfTen[SignificantDigits]
      BY PrecisionIs
    <3>2. g * P = 100 * v
      BY <1>1, <1>4, <3>1, HundredIs
    <3>3. g * P = P * g
      BY <1>3
    <3> QED
      BY <3>1, <3>2, <3>3
  <2>3. PICK w \in Nat : w = m + n /\ s = w * g
    <3>1. (m + n) * g = m * g + n * g
      BY <1>3
    <3> QED
      BY <1>8, <2>1, <3>1
  <2>4. w <= P
    <3>1. w * g <= P * g
      BY <1>11, <2>2, <2>3
    <3> QED
      BY <1>3, <3>1, Cancels
  <2>5. PICK c : c = Dec(w, 2 - SignificantDigits) /\ c \in Decimal /\ c.m = w /\ c.e = 2 - SignificantDigits
    BY <1>1, DecimalIs
  <2>6. Short(c) /\ k \in ScalesOf(c) /\ On(c, k) = s
    BY <1>1, <2>2, <2>3, <2>4, <2>5 DEF Short, ScalesOf, On
  <2>7. s * PowerOfTen[k] = v * On(c, k)
    BY <1>4, <1>8, <2>6
  <2>8. k \in ScalesOf(q)
    BY <1>8
  <2>9. On(q, k) = On(c, k)
    BY <1>4, <1>8, <2>6, <2>7, <2>8, ExactKept
  <2> QED
    BY <1>8, <2>6, <2>9
<1>12. ASSUME 10 * v <= s
       PROVE  10 * v <= r
  <2>1. PICK h1 : h1 = Whole(10) /\ RoundsTo(h1, 10, 1)
    BY WholeRounds
  <2>2. 10 \in Nat /\ 1 \in Nat \ {0} /\ 10 * v <= s * 1
    BY <1>8, <1>12
  <2>3. NotAbove(h1, q)
    BY <1>4, <1>8, <2>1, <2>2, RoundedInOrder
  <2>4. On(h1, k) <= On(q, k)
    BY <1>6, <1>8, <2>1, <2>3, AtOrder
  <2> QED
    BY <1>6, <1>8, <2>1, <2>4
<1> QED
  BY <1>7, <1>8, <1>9, <1>10, <1>11, <1>12

\* A share of a hundred.
Hundredfold(w) == Dec(w.m, w.e + 2)

LEMMA HundredfoldIs ==
    ASSUME NEW w \in Decimal
    PROVE  /\ Hundredfold(w) \in Decimal /\ (Short(w) => Short(Hundredfold(w)))
           /\ \A k \in ScalesOf(w) : k \in ScalesOf(Hundredfold(w)) /\ On(Hundredfold(w), k) = 100 * On(w, k)
<1>1. w.m \in Nat /\ w.e \in Int /\ w.e + 2 \in Int
  BY DEF Decimal
<1>2. Hundredfold(w) \in Decimal /\ Hundredfold(w).m = w.m /\ Hundredfold(w).e = w.e + 2
  BY <1>1, DecimalIs DEF Hundredfold
<1>3. ASSUME NEW k \in ScalesOf(w)
      PROVE  k \in ScalesOf(Hundredfold(w)) /\ On(Hundredfold(w), k) = 100 * On(w, k)
  <2>1. PICK f \in Nat : f = w.e + k /\ k \in Nat
    BY DEF ScalesOf
  <2>2. (w.e + 2) + k = (f + 1) + 1 /\ f + 1 \in Nat
    BY <1>1, <2>1
  <2>3. PowerOfTen[f + 1] = 10 * PowerOfTen[f] /\ PowerOfTen[f] \in Nat
    BY <2>1, TenPositive
  <2>4. PowerOfTen[(f + 1) + 1] = 10 * PowerOfTen[f + 1]
    BY <2>2, TenPositive
  <2>5. PICK m \in Nat, t \in Nat : m = w.m /\ t = PowerOfTen[f] /\ PowerOfTen[(f + 1) + 1] = 100 * t
    BY <1>1, <2>3, <2>4
  <2>6. m * (100 * t) = 100 * (m * t)
    OBVIOUS
  <2> QED
    BY <1>2, <2>1, <2>2, <2>5, <2>6 DEF ScalesOf, On
<1> QED
  BY <1>2, <1>3 DEF Short

LEMMA ShareOfHundred ==
    ASSUME NEW x \in Decimal, NotAbove(x, Whole(100)), NEW w, Short(w)
    PROVE  NotAbove(Times(x, w), Hundredfold(w))
<1>1. w \in Decimal
  BY DEF Short
<1>2. PICK k \in Nat : k \in ScalesOf(x) /\ k \in ScalesOf(w)
  BY <1>1, ScaleForFour
<1>3. PICK X \in Nat, W \in Nat, V \in Nat \ {0}, D \in Nat \ {0} :
         /\ X = On(x, k) /\ W = On(w, k) /\ V = PowerOfTen[k] /\ D = PowerOfTen[k + k]
         /\ X <= 100 * V
  <2>1. On(x, k) \in Nat /\ On(w, k) \in Nat
    BY <1>1, <1>2, AtOrder
  <2>2. k + k \in Nat
    OBVIOUS
  <2>3. PowerOfTen[k] \in Nat \ {0} /\ PowerOfTen[k + k] \in Nat \ {0}
    BY <2>2, TenPositive
  <2>4. k \in ScalesOf(Whole(100)) /\ On(Whole(100), k) = 100 * PowerOfTen[k] /\ Whole(100) \in Decimal
    BY WholeAt, WholeIs
  <2>5. On(x, k) <= On(Whole(100), k)
    BY <1>2, <2>4, AtOrder
  <2> QED
    BY <2>1, <2>3, <2>4, <2>5
<1>4. PICK q, t : q = Hundredfold(w) /\ t = Times(x, w)
  OBVIOUS
<1>0. PICK K \in Nat, b \in Nat : K = k + k /\ b = 100 * (W * V)
  OBVIOUS
<1>5. Short(q) /\ K \in ScalesOf(q) /\ On(q, K) = b
  <2>1. k + k \in ScalesOf(w) /\ On(w, k + k) = On(w, k) * PowerOfTen[k]
    BY <1>1, <1>2, AtFiner
  <2>2. Short(q) /\ K \in ScalesOf(q) /\ On(q, K) = 100 * On(w, K)
    BY <1>0, <1>1, <1>4, <2>1, HundredfoldIs
  <2> QED
    BY <1>0, <1>3, <1>4, <2>1, <2>2
<1>6. RoundsTo(t, X * W, D)
  BY <1>1, <1>2, <1>3, <1>4, TimesRounds
<1>7. RoundsTo(q, b, D)
  BY <1>0, <1>3, <1>4, <1>5, ShortRounds
<1>8. PICK a \in Nat : a = X * W
  OBVIOUS
<1>9. a <= b
  <2>1. PICK H \in Nat : H = 100 * V
    OBVIOUS
  <2>2. X * W <= H * W
    BY <1>3, <2>1
  <2>3. (100 * V) * W = 100 * (W * V)
    OBVIOUS
  <2> QED
    BY <1>0, <1>4, <1>8, <2>1, <2>2, <2>3
<1>10. a * D <= b * D
  BY <1>9
<1> QED
  BY <1>4, <1>6, <1>7, <1>8, <1>10, RoundedInOrder

LEMMA MultipliedInOrder ==
    ASSUME NEW A \in Nat \ {0}, NEW a \in Nat, NEW b \in Nat
    PROVE  A * a <= A * b <=> a <= b
<1>1. A * a = a * A /\ A * b = b * A
  OBVIOUS
<1>2. a <= b => a * A <= b * A
  OBVIOUS
<1> QED
  BY <1>1, <1>2, Cancels

\* How r, the rounded sum of x and y, relates to them: v is 1 and g the last digit
\* below a hundred.
RoundedSum(x, y, r, v, g) ==
    /\ 20 * (x + y) <= 2000 * v + 80 * g => r <= 100 * v
    /\ x + y <= 10 * v => 20 * r <= 20 * (x + y) + g
    /\ x + y <= 100 * v => 20 * r <= 20 * (x + y) + 10 * g
    /\ 10 * v <= x /\ 10 * v <= y /\ x + y <= 100 * v => r = x + y
    /\ 10 * v <= x + y => 10 * v <= r

LEMMA RoundedSumMultiplied ==
    ASSUME NEW A \in Nat \ {0}, NEW x \in Nat, NEW y \in Nat, NEW r \in Nat, NEW v \in Nat, NEW g \in Nat,
           RoundedSum(x, y, r, v, g)
    PROVE  RoundedSum(A * x, A * y, A * r, A * v, A * g)
<1>1. PICK ax \in Nat, ay \in Nat, ar \in Nat, av \in Nat, ag \in Nat :
         ax = A * x /\ ay = A * y /\ ar = A * r /\ av = A * v /\ ag = A * g
  OBVIOUS
<1>2. ASSUME NEW s \in Nat, s = x + y
      PROVE  A * s = ax + ay
  BY <1>1, <1>2
<1>3. 20 * (ax + ay) <= 2000 * av + 80 * ag => ar <= 100 * av
  <2>1. PICK l \in Nat, h \in Nat, f \in Nat : l = 20 * (x + y) /\ h = 2000 * v + 80 * g /\ f = 100 * v
    OBVIOUS
  <2>2. A * l = 20 * (ax + ay) /\ A * h = 2000 * av + 80 * ag /\ A * f = 100 * av
    <3>1. /\ A * (20 * (x + y)) = 20 * (A * x + A * y) /\ A * (100 * v) = 100 * (A * v)
          /\ A * (2000 * v + 80 * g) = 2000 * (A * v) + 80 * (A * g)
      OBVIOUS
    <3> QED
      BY <1>1, <2>1, <3>1
  <2>3. l <= h => r <= f
    BY <2>1 DEF RoundedSum
  <2>4. (A * l <= A * h <=> l <= h) /\ (A * r <= A * f <=> r <= f)
    BY MultipliedInOrder
  <2> QED
    BY <1>1, <2>2, <2>3, <2>4
<1>4. /\ ax + ay <= 10 * av => 20 * ar <= 20 * (ax + ay) + ag
      /\ ax + ay <= 100 * av => 20 * ar <= 20 * (ax + ay) + 10 * ag
  <2>1. PICK s \in Nat, t \in Nat, f \in Nat, l \in Nat, h1 \in Nat, h2 \in Nat :
           /\ s = x + y /\ t = 10 * v /\ f = 100 * v /\ l = 20 * r
           /\ h1 = 20 * (x + y) + g /\ h2 = 20 * (x + y) + 10 * g
    OBVIOUS
  <2>2. /\ A * s = ax + ay /\ A * t = 10 * av /\ A * f = 100 * av /\ A * l = 20 * ar
        /\ A * h1 = 20 * (ax + ay) + ag /\ A * h2 = 20 * (ax + ay) + 10 * ag
    <3>1. /\ A * (x + y) = A * x + A * y /\ A * (10 * v) = 10 * (A * v) /\ A * (100 * v) = 100 * (A * v)
          /\ A * (20 * r) = 20 * (A * r)
          /\ A * (20 * (x + y) + g) = 20 * (A * x + A * y) + A * g
          /\ A * (20 * (x + y) + 10 * g) = 20 * (A * x + A * y) + 10 * (A * g)
      OBVIOUS
    <3> QED
      BY <1>1, <2>1, <3>1
  <2>3. (s <= t => l <= h1) /\ (s <= f => l <= h2)
    BY <2>1 DEF RoundedSum
  <2>4. /\ A * s <= A * t <=> s <= t
        /\ A * s <= A * f <=> s <= f
        /\ A * l <= A * h1 <=> l <= h1
        /\ A * l <= A * h2 <=> l <= h2
    BY MultipliedInOrder
  <2> QED
    BY <2>2, <2>3, <2>4
<1>5. /\ 10 * av <= ax /\ 10 * av <= ay /\ ax + ay <= 100 * av => ar = ax + ay
      /\ 10 * av <= ax + ay => 10 * av <= ar
  <2>1. PICK s \in Nat, t \in Nat, f \in Nat : s = x + y /\ t = 10 * v /\ f = 100 * v
    OBVIOUS
  <2>2. A * s = ax + ay /\ A * t = 10 * av /\ A * f = 100 * av
    <3>1. A * (x + y) = A * x + A * y /\ A * (10 * v) = 10 * (A * v) /\ A * (100 * v) = 100 * (A * v)
      OBVIOUS
    <3> QED
      BY <1>1, <2>1, <3>1
  <2>3. (t <= x /\ t <= y /\ s <= f => r = s) /\ (t <= s => t <= r)
    BY <2>1 DEF RoundedSum
  <2>4. /\ A * t <= A * x <=> t <= x
        /\ A * t <= A * y <=> t <= y
        /\ A * s <= A * f <=> s <= f
        /\ A * t <= A * s <=> t <= s
        /\ A * t <= A * r <=> t <= r
    BY MultipliedInOrder
  <2>5. r = s => ar = ax + ay
    BY <1>1, <2>2
  <2> QED
    BY <1>1, <2>2, <2>3, <2>4, <2>5
<1> QED
  BY <1>1, <1>3, <1>4, <1>5 DEF RoundedSum

\* A share of a hundred is off by half of its last digit.
LEMMA HundredfoldError ==
    ASSUME NEW A \in Nat \ {0}, NEW s \in 0..A, NEW w, w = Divided(s, A),
           NEW k, k \in ScalesOf(w), (0 - 1 - SignificantDigits) + k \in Nat,
           NEW y, NEW v, NEW g, y = On(Hundredfold(w), k), v = PowerOfTen[k],
           g = PowerOfTen[(2 - SignificantDigits) + k]
    PROVE  \/ 20 * (A * y) <= 2000 * (s * v) + A * g
           \/ 10 * v <= y /\ 20 * (A * y) <= 2000 * (s * v) + 10 * (A * g)
<1>1. /\ w \in Decimal /\ Short(w) /\ k \in Nat /\ s \in Nat /\ SignificantDigits \in Nat
      /\ RoundsTo(w, s, A)
  <2>1. s \in Nat
    OBVIOUS
  <2> QED
    BY <2>1, DividedShort, DividedRounds, PrecisionIs DEF ScalesOf
<1>2. PICK f \in Nat : /\ f = (0 - 1 - SignificantDigits) + k /\ f + 1 = (0 - SignificantDigits) + k
                       /\ ((f + 1) + 1) + 1 = (2 - SignificantDigits) + k
                       /\ SignificantDigits + (f + 1) = k
                       /\ (SignificantDigits + f) + 1 = k /\ SignificantDigits + f \in Nat
  BY <1>1
<1>3. PICK j \in Nat \ {0}, t \in Nat \ {0}, W \in Nat :
         /\ j = PowerOfTen[f] /\ 10 * j = PowerOfTen[f + 1] /\ g = 1000 * j
         /\ t = PowerOfTen[SignificantDigits + f] /\ v = 10 * t
         /\ W = On(w, k) /\ y = 100 * W
  <2>1. f + 1 \in Nat /\ (f + 1) + 1 \in Nat
    OBVIOUS
  <2>2. PowerOfTen[f] \in Nat \ {0} /\ PowerOfTen[f + 1] = 10 * PowerOfTen[f]
    BY TenPositive
  <2>3. PowerOfTen[(f + 1) + 1] = 10 * PowerOfTen[f + 1]
    BY <2>1, TenPositive
  <2>4. PowerOfTen[((f + 1) + 1) + 1] = 10 * PowerOfTen[(f + 1) + 1]
    BY <2>1, TenPositive
  <2>5. g = 1000 * PowerOfTen[f]
    BY <1>2, <2>2, <2>3, <2>4
  <2>6. /\ PowerOfTen[SignificantDigits + f] \in Nat \ {0}
        /\ PowerOfTen[(SignificantDigits + f) + 1] = 10 * PowerOfTen[SignificantDigits + f]
    BY <1>2, TenPositive
  <2>7. On(w, k) \in Nat /\ On(Hundredfold(w), k) = 100 * On(w, k)
    BY <1>1, HundredfoldIs, AtOrder
  <2> QED
    BY <1>2, <2>2, <2>5, <2>6, <2>7
<1>0. PICK aw \in Nat, aj \in Nat, st \in Nat, at \in Nat :
         aw = A * W /\ aj = A * j /\ st = s * t /\ at = A * t
  BY <1>1
<1>4. PICK sv \in Nat : sv = s * v /\ sv = 10 * st /\ A * v = 10 * at /\ A * y = 100 * aw /\ A * g = 1000 * aj
  <2>1. /\ s * (10 * t) = 10 * (s * t) /\ A * (10 * t) = 10 * (A * t)
        /\ A * (100 * W) = 100 * (A * W) /\ A * (1000 * j) = 1000 * (A * j)
    BY <1>1
  <2>2. s * v = 10 * st /\ 10 * st \in Nat
    BY <1>0, <1>3, <2>1
  <2>3. A * v = 10 * at /\ A * y = 100 * aw /\ A * g = 1000 * aj
    BY <1>0, <1>3, <2>1
  <2> QED
    BY <2>2, <2>3
<1>5. CASE 10 * s < A
  <2>1. PICK z \in Int : z = 0 - 1 - SignificantDigits /\ z + k = f
    BY <1>1, <1>2
  <2>2. sv <= at
    <3>1. PICK d \in Nat : d = 10 * s /\ d <= A
      BY <1>1, <1>5
    <3>2. d * t <= A * t /\ (10 * s) * t = 10 * (s * t)
      BY <1>1, <3>1
    <3> QED
      BY <1>0, <1>4, <3>1, <3>2
  <2>3. s * PowerOfTen[k] <= A * PowerOfTen[SignificantDigits + (z + k)]
    BY <1>0, <1>3, <1>4, <2>1, <2>2
  <2>0. z + k \in Nat /\ k \in ScalesOf(w)
    BY <1>2, <2>1
  <2>4. 2 * (A * On(w, k)) <= 2 * (s * PowerOfTen[k]) + A * PowerOfTen[z + k]
    BY <1>1, <2>0, <2>1, <2>3, RoundError
  <2>5. 2 * aw <= 2 * sv + aj
    BY <1>0, <1>3, <1>4, <2>1, <2>4
  <2> QED
    BY <1>0, <1>4, <2>5
<1>6. CASE ~(10 * s < A)
  <2>1. PICK z \in Int : z = 0 - SignificantDigits /\ z + k = f + 1
    BY <1>1, <1>2
  <2>2. s * v <= A * v
    <3>1. s <= A /\ v \in Nat
      BY <1>3
    <3> QED
      BY <1>1, <3>1
  <2>3. s * PowerOfTen[k] <= A * PowerOfTen[SignificantDigits + (z + k)]
    BY <1>2, <2>1, <2>2
  <2>0. z + k \in Nat /\ k \in ScalesOf(w)
    BY <1>2, <2>1
  <2>4. 2 * (A * On(w, k)) <= 2 * (s * PowerOfTen[k]) + A * PowerOfTen[z + k]
    BY <1>1, <2>0, <2>1, <2>3, RoundError
  <2>5. A * (10 * j) = 10 * (A * j)
    OBVIOUS
  <2>6. 2 * aw <= 2 * sv + 10 * aj
    BY <1>0, <1>3, <1>4, <2>1, <2>4, <2>5
  <2>7. t <= W
    <3>1. PICK c : c = Dec(1, 0 - 1) /\ c \in Decimal /\ c.m = 1 /\ c.e = 0 - 1
      BY DecimalIs
    <3>2. Short(c)
      <4>1. 1 <= PowerOfTen[SignificantDigits]
        BY PrecisionIs
      <4> QED
        BY <3>1, <4>1 DEF Short
    <3>3. 1 \in ScalesOf(c) /\ On(c, 1) = 1 /\ PowerOfTen[1] = 10
      <4>1. PowerOfTen[0 + 1] = 10 * PowerOfTen[0] /\ PowerOfTen[0] = 1
        BY PowersOfTen
      <4>2. (0 - 1) + 1 = 0 /\ 0 + 1 = 1
        OBVIOUS
      <4> QED
        BY <3>1, <4>1, <4>2 DEF ScalesOf, On
    <3>4. RoundsTo(c, 1, 10)
      BY <3>2, <3>3, ShortRounds
    <3>5. 1 * A <= s * 10 /\ 1 \in Nat /\ 10 \in Nat \ {0}
      BY <1>1, <1>6
    <3>6. NotAbove(c, w)
      BY <1>1, <3>4, <3>5, RoundedInOrder
    <3>7. k \in ScalesOf(c) /\ On(c, k) = t
      <4>1. (0 - 1) + k = SignificantDigits + f
        BY <1>1, <1>2
      <4> QED
        BY <1>1, <1>2, <1>3, <3>1, <4>1 DEF ScalesOf, On
    <3> QED
      BY <1>1, <1>3, <3>1, <3>6, <3>7, AtOrder
  <2>8. 10 * v <= y
    BY <1>3, <2>7
  <2> QED
    BY <1>0, <1>4, <2>6, <2>8
<1> QED
  BY <1>5, <1>6

\* How far x, a sum of shares of a hundred, is from the exact sum e: v is 1, g the last
\* digit below a hundred and p as many of it as there are terms.
SumsNear(x, e, v, g, p) ==
    /\ x <= 100 * v
    /\ \/ 20 * x <= 20 * e + 2 * p
       \/ 10 * v <= x /\ 20 * x <= 20 * e + 11 * p

\* How far y, a share of a hundred, is from the exact share d.
ShareNear(y, d, v, g) ==
    \/ 20 * y <= 20 * d + g
    \/ 10 * v <= y /\ 20 * y <= 20 * d + 10 * g

LEMMA FirstShareNear ==
    ASSUME NEW y \in Nat, NEW d \in Nat, NEW v \in Nat, NEW g \in Nat,
           d <= 100 * v, ShareNear(y, d, v, g), RoundedSum(0, y, y, v, g)
    PROVE  SumsNear(y, d, v, g, g)
<1>1. y <= 100 * v
  BY DEF ShareNear, RoundedSum
<1> QED
  BY <1>1 DEF ShareNear, SumsNear

LEMMA NextShareNear ==
    ASSUME NEW x \in Nat, NEW y \in Nat, NEW r \in Nat, NEW e \in Nat, NEW d \in Nat,
           NEW v \in Nat, NEW g \in Nat, NEW p \in Nat, g <= p, p <= 6 * g,
           e + d <= 100 * v, SumsNear(x, e, v, g, p), ShareNear(y, d, v, g), RoundedSum(x, y, r, v, g)
    PROVE  SumsNear(r, e + d, v, g, p + g)
<1>1. 20 * (x + y) <= 20 * (e + d) + 11 * p + 10 * g
  BY DEF SumsNear, ShareNear
<1>2. r <= 100 * v
  BY <1>1 DEF RoundedSum
<1>3. CASE x + y > 100 * v
  <2>1. 10 * v <= r
    BY <1>3 DEF RoundedSum
  <2>2. 20 * r <= 20 * (e + d) + 11 * (p + g)
    BY <1>1, <1>2, <1>3
  <2> QED
    BY <1>2, <2>1, <2>2 DEF SumsNear
<1>4. CASE x + y <= 100 * v
  <2>1. CASE 20 * x <= 20 * e + 2 * p /\ 20 * y <= 20 * d + g
    <3>1. CASE x + y <= 10 * v
      <4>1. 20 * r <= 20 * (e + d) + 2 * (p + g)
        BY <2>1, <3>1 DEF RoundedSum
      <4> QED
        BY <1>2, <4>1 DEF SumsNear
    <3>2. CASE 10 * v <= x + y
      <4>1. 10 * v <= r /\ 20 * r <= 20 * (e + d) + 11 * (p + g)
        BY <1>4, <2>1, <3>2 DEF RoundedSum
      <4> QED
        BY <1>2, <4>1 DEF SumsNear
    <3> QED
      BY <3>1, <3>2
  <2>2. CASE 20 * x <= 20 * e + 2 * p /\ 10 * v <= y /\ 20 * y <= 20 * d + 10 * g
    <3>1. 10 * v <= r /\ 20 * r <= 20 * (e + d) + 11 * (p + g)
      BY <1>4, <2>2 DEF RoundedSum
    <3> QED
      BY <1>2, <3>1 DEF SumsNear
  <2>3. CASE 10 * v <= x /\ 20 * x <= 20 * e + 11 * p /\ 20 * y <= 20 * d + g
    <3>1. 10 * v <= r /\ 20 * r <= 20 * (e + d) + 11 * (p + g)
      BY <1>4, <2>3 DEF RoundedSum
    <3> QED
      BY <1>2, <3>1 DEF SumsNear
  <2>4. CASE 10 * v <= x /\ 20 * x <= 20 * e + 11 * p /\ 10 * v <= y /\ 20 * y <= 20 * d + 10 * g
    <3>1. r = x + y
      BY <1>4, <2>4 DEF RoundedSum
    <3>2. 10 * v <= r /\ 20 * r <= 20 * (e + d) + 11 * (p + g)
      BY <2>4, <3>1
    <3> QED
      BY <1>2, <3>2 DEF SumsNear
  <2> QED
    BY <2>1, <2>2, <2>3, <2>4 DEF SumsNear, ShareNear
<1> QED
  BY <1>3, <1>4

\* What accrues does not exceed what has accrued in the end.
LEMMA AccruedInOrder ==
    ASSUME NEW n \in Nat, NEW a, NEW c, Accrued(c, a, n), NEW i \in 0..n
    PROVE  c[i] <= c[n]
<1>1. c \in [0..n -> Nat] /\ \A j \in 1..n : a[j] \in Nat /\ c[j] = c[j - 1] + a[j]
  BY DEF Accrued
<1> DEFINE Z == {j \in Nat : j <= n => c[n - j] <= c[n]}
<1>2. Z \in SUBSET Nat /\ 0 \in Z
  <2>1. c[n - 0] <= c[n]
    BY <1>1
  <2> QED
    BY <2>1
<1>3. ASSUME NEW j \in Nat, j \in Z
      PROVE  j + 1 \in Z
  <2> SUFFICES ASSUME j + 1 <= n
               PROVE  c[n - (j + 1)] <= c[n]
    OBVIOUS
  <2>1. PICK m \in 1..n : m = n - j /\ m - 1 = n - (j + 1) /\ m \in 0..n /\ m - 1 \in 0..n
    OBVIOUS
  <2>2. c[m] <= c[n]
    BY <1>3, <2>1
  <2>3. c[m] = c[m - 1] + a[m] /\ a[m] \in Nat
    BY <1>1
  <2>4. c[m] \in Nat /\ c[m - 1] \in Nat /\ c[n] \in Nat
    BY <1>1, <2>1
  <2> QED
    BY <2>1, <2>2, <2>3, <2>4
<1> HIDE DEF Z
<1>4. Z = Nat
  BY <1>2, <1>3, FromOneToTheNext
<1>5. n - i \in Nat /\ n - i <= n /\ n - (n - i) = i
  OBVIOUS
<1> QED
  BY <1>4, <1>5 DEF Z

\* Shares of a hundred add up to a hundred at most, however their sums are rounded.
LEMMA SumsBelowHundred ==
    ASSUME NEW n \in 1..7, NEW A \in Nat \ {0}, NEW a, NEW c, Accrued(c, a, n), c[n] = A,
           NEW h, \A i \in 1..n : h[i] = Hundredfold(Divided(a[i], A)),
           NEW Q, PartialSums(Q, h, n), NEW j \in 0..n
    PROVE  NotAbove(Q[j], Whole(100))
<1>0. n \in Nat /\ n <= 7 /\ SignificantDigits \in Nat
  BY PrecisionIs
<1>1. /\ c \in [0..n -> Nat] /\ c[0] = 0
      /\ \A i \in 1..n : a[i] \in 0..A /\ a[i] \in Nat /\ c[i] = c[i - 1] + a[i] /\ c[i - 1] + a[i] <= A
  <2>1. c \in [0..n -> Nat] /\ c[0] = 0 /\ \A i \in 1..n : a[i] \in Nat /\ c[i] = c[i - 1] + a[i]
    BY DEF Accrued
  <2>2. ASSUME NEW i \in 1..n
        PROVE  c[i - 1] + a[i] <= A /\ a[i] \in 0..A
    <3>1. i \in 0..n /\ i - 1 \in 0..n
      OBVIOUS
    <3>2. c[i] <= A
      BY <1>0, <3>1, AccruedInOrder
    <3>3. c[i - 1] \in Nat /\ a[i] \in Nat /\ c[i] = c[i - 1] + a[i]
      BY <2>1, <3>1
    <3> QED
      BY <3>2, <3>3
  <2> QED
    BY <2>1, <2>2
<1> DEFINE w == [i \in 1..n |-> Divided(a[i], A)]
<1>2. \A i \in 1..n : w[i] = Divided(a[i], A) /\ Short(w[i]) /\ w[i] \in Decimal /\ h[i] = Hundredfold(w[i])
  BY <1>1, DividedShort
<1> HIDE DEF w
<1>3. \A i \in 1..n : Short(h[i]) /\ h[i] \in Decimal
  BY <1>2, HundredfoldIs
<1>4. \A i \in 0..n : Short(Q[i]) /\ Q[i] \in Decimal
  <2>1. \A i \in 0..n : Short(Q[i])
    BY <1>0, <1>3, PartialSumsShort
  <2> QED
    BY <2>1 DEF Short
<1>5. PICK k \in Nat : /\ (0 - 1 - SignificantDigits) + k \in Nat
                       /\ WholeAtScale(w, n, k) /\ WholeAtScale(Q, n, k)
  <2>1. 1 + SignificantDigits \in Nat
    BY <1>0
  <2>2. PICK k1 \in Nat : 1 + SignificantDigits <= k1 /\ WholeAtScale(w, n, k1)
    BY <1>0, <1>2, <2>1, ScaleForMany
  <2>3. PICK k2 \in Nat : k1 <= k2 /\ WholeAtScale(Q, n, k2)
    <3>1. \A i \in 1..n : Q[i] \in Decimal
      BY <1>4
    <3> QED
      BY <1>0, <3>1, ScaleForMany
  <2>4. WholeAtScale(w, n, k2)
    BY <1>0, <1>2, <2>2, <2>3, FinerForMany
  <2>5. (0 - 1 - SignificantDigits) + k2 \in Nat
    BY <1>0, <2>2, <2>3
  <2> QED
    BY <2>3, <2>4, <2>5
<1>6. PICK v \in Nat \ {0}, g \in Nat \ {0}, V \in Nat \ {0}, G \in Nat \ {0} :
         v = PowerOfTen[k] /\ g = PowerOfTen[(2 - SignificantDigits) + k] /\ V = A * v /\ G = A * g
  <2>1. (2 - SignificantDigits) + k \in Nat
    BY <1>0, <1>5
  <2>2. PowerOfTen[k] \in Nat \ {0} /\ PowerOfTen[(2 - SignificantDigits) + k] \in Nat \ {0}
    BY <2>1, TenPositive
  <2>3. ASSUME NEW x \in Nat \ {0}
        PROVE  A * x \in Nat \ {0}
    OBVIOUS
  <2> QED
    BY <2>2, <2>3
<1>7. \A i \in 1..n : i \in 0..n /\ i - 1 \in 0..n /\ k \in ScalesOf(w[i])
  BY <1>5 DEF WholeAtScale
<1>8. \A i \in 1..n : k \in ScalesOf(h[i]) /\ On(h[i], k) \in Nat
  BY <1>2, <1>3, <1>7, HundredfoldIs, AtOrder
<1>9. \A i \in 0..n : k \in ScalesOf(Q[i]) /\ On(Q[i], k) \in Nat
  <2> SUFFICES ASSUME NEW i \in 0..n
               PROVE  k \in ScalesOf(Q[i]) /\ On(Q[i], k) \in Nat
    OBVIOUS
  <2>1. CASE i = 0
    BY <1>4, <1>5, <2>1, WholeAt, AtOrder DEF PartialSums, Nought
  <2>2. CASE i # 0
    <3>1. i \in 1..n
      BY <2>2
    <3> QED
      BY <1>4, <1>5, <3>1, AtOrder DEF WholeAtScale
  <2> QED
    BY <2>1, <2>2
\* The sums, the shares and the exact sums, at one scale.
<1> DEFINE S == [i \in 0..n |-> A * On(Q[i], k)]
           Y == [i \in 1..n |-> A * On(h[i], k)]
           E == [i \in 0..n |-> 100 * (c[i] * v)]
           D == [i \in 1..n |-> 100 * (a[i] * v)]
<1>10. S \in [0..n -> Nat] /\ Y \in [1..n -> Nat] /\ E \in [0..n -> Nat] /\ D \in [1..n -> Nat]
  <2>1. ASSUME NEW x \in Nat
        PROVE  A * x \in Nat /\ 100 * (x * v) \in Nat
    OBVIOUS
  <2>2. \A i \in 0..n : A * On(Q[i], k) \in Nat /\ 100 * (c[i] * v) \in Nat
    BY <1>1, <1>9, <2>1
  <2>3. \A i \in 1..n : A * On(h[i], k) \in Nat /\ 100 * (a[i] * v) \in Nat
    BY <1>1, <1>8, <2>1
  <2> QED
    BY <2>2, <2>3
<1>11. ASSUME NEW i \in 1..n
       PROVE  /\ E[i] = E[i - 1] + D[i] /\ E[i - 1] + D[i] <= 100 * V
              /\ ShareNear(Y[i], D[i], V, G)
              /\ RoundedSum(S[i - 1], Y[i], S[i], V, G)
  <2>1. PICK s \in Nat, c1 \in Nat : s = a[i] /\ c1 = c[i - 1] /\ c[i] = c1 + s /\ c1 + s <= A /\ s \in 0..A
    BY <1>1, <1>7
  <2>2. /\ E[i] = 100 * ((c1 + s) * v) /\ E[i - 1] = 100 * (c1 * v) /\ D[i] = 100 * (s * v)
        /\ S[i - 1] = A * On(Q[i - 1], k) /\ S[i] = A * On(Q[i], k) /\ Y[i] = A * On(h[i], k)
    BY <1>7, <2>1
  <2> HIDE DEF S, Y, E, D
  <2>3. E[i] = E[i - 1] + D[i]
    <3>1. 100 * ((c1 + s) * v) = 100 * (c1 * v) + 100 * (s * v)
      OBVIOUS
    <3> QED
      BY <2>2, <3>1
  <2>4. E[i - 1] + D[i] <= 100 * V
    <3>1. PICK m \in Nat : m = c1 + s /\ m <= A
      BY <2>1
    <3>2. m * v <= A * v
      BY <3>1
    <3>3. m * v \in Nat
      OBVIOUS
    <3> QED
      BY <1>6, <2>2, <2>3, <3>1, <3>2, <3>3
  <2>5. ShareNear(Y[i], D[i], V, G)
    <3>1. PICK u, y : u = Divided(s, A) /\ k \in ScalesOf(u) /\ y = On(Hundredfold(u), k) /\ y = On(h[i], k) /\ y \in Nat
      BY <1>2, <1>7, <1>8, <2>1
    <3>2. \/ 20 * (A * y) <= 2000 * (s * v) + A * g
          \/ 10 * v <= y /\ 20 * (A * y) <= 2000 * (s * v) + 10 * (A * g)
      BY <1>5, <1>6, <2>1, <3>1, HundredfoldError
    <3>3. 10 * v <= y => 10 * V <= A * y
      <4>1. PICK t \in Nat : t = 10 * v
        OBVIOUS
      <4>2. A * t = 10 * (A * v)
        BY <4>1
      <4>3. t <= y => A * t <= A * y
        BY <3>1, MultipliedInOrder
      <4> QED
        BY <1>6, <4>1, <4>2, <4>3
    <3>4. PICK ay \in Nat, sv \in Nat : ay = A * y /\ sv = s * v
      BY <3>1
    <3>5. Y[i] = ay /\ D[i] = 100 * sv
      BY <2>2, <3>1, <3>4
    <3> QED
      BY <1>6, <3>2, <3>3, <3>4, <3>5 DEF ShareNear
  <2>6. RoundedSum(S[i - 1], Y[i], S[i], V, G)
    <3>1. PICK p, q, r : p = Q[i - 1] /\ q = h[i] /\ r = Q[i] /\ r = Plus(p, q)
      BY DEF PartialSums
    <3>2. /\ Short(p) /\ Short(q) /\ k \in ScalesOf(p) /\ k \in ScalesOf(q) /\ k \in ScalesOf(Plus(p, q))
      BY <1>3, <1>4, <1>7, <1>8, <1>9, <3>1
    <3>3. PICK x \in Nat, y \in Nat, z \in Nat : x = On(p, k) /\ y = On(q, k) /\ z = On(r, k) /\ z = On(Plus(p, q), k)
      BY <1>7, <1>8, <1>9, <3>1
    <3>4. (1 - SignificantDigits) + k \in Nat
      BY <1>0, <1>5
    <3>5. /\ 20 * (x + y) <= 2000 * v + 80 * g => z <= 100 * v
          /\ x + y <= 10 * v => 20 * z <= 20 * (x + y) + g
          /\ x + y <= 100 * v => 20 * z <= 20 * (x + y) + 10 * g
          /\ 10 * v <= x /\ 10 * v <= y /\ x + y <= 100 * v => z = x + y
          /\ 10 * v <= x + y => 10 * v <= z
      BY <1>6, <3>2, <3>3, <3>4, SumUpToHundred
    <3>6. RoundedSum(x, y, z, v, g)
      BY <3>5 DEF RoundedSum
    <3>7. RoundedSum(A * x, A * y, A * z, A * v, A * g)
      BY <3>6, RoundedSumMultiplied
    <3> QED
      BY <1>6, <2>2, <3>1, <3>3, <3>7
  <2> QED
    BY <2>3, <2>4, <2>5, <2>6
<1>12. S[0] = 0 /\ E[0] = 0 /\ S[1] = Y[1]
  <2>1. On(Nought, k) = 0 * v /\ Q[0] = Nought /\ 0 \in 0..n /\ 1 \in 1..n /\ 1 \in 0..n
    BY <1>5, <1>6, WholeAt DEF Nought, PartialSums
  <2>2. 0 * v = 0 /\ A * 0 = 0 /\ 100 * 0 = 0
    OBVIOUS
  <2>3. Q[1] = h[1]
    <3>1. Q[1] = Plus(Q[1 - 1], h[1]) /\ 1 - 1 = 0
      BY <2>1 DEF PartialSums
    <3> QED
      BY <2>1, <3>1, NoughtIs DEF Plus
  <2> QED
    BY <1>1, <2>1, <2>2, <2>3
<1> HIDE DEF S, Y, E, D
<1> DEFINE Near == {i \in Nat : i \in 1..n => SumsNear(S[i], E[i], V, G, i * G)}
<1>13. Near \in SUBSET Nat /\ 0 \in Near
  OBVIOUS
<1>14. ASSUME NEW i \in Nat, i \in Near
       PROVE  i + 1 \in Near
  <2> SUFFICES ASSUME i + 1 \in 1..n
               PROVE  SumsNear(S[i + 1], E[i + 1], V, G, (i + 1) * G)
    OBVIOUS
  <2>1. PICK m \in 1..n : m = i + 1 /\ m - 1 = i /\ i <= 6 /\ i \in 0..n /\ m \in 0..n
    BY <1>0
  <2>2. PICK x \in Nat, y \in Nat, r \in Nat, e \in Nat, d \in Nat :
           x = S[i] /\ y = Y[i + 1] /\ r = S[i + 1] /\ e = E[i] /\ d = D[i + 1]
    BY <1>10, <2>1
  <2>3. /\ E[i + 1] = e + d /\ e + d <= 100 * V /\ ShareNear(y, d, V, G) /\ RoundedSum(x, y, r, V, G)
    BY <1>11, <2>1, <2>2
  <2>4. PICK p \in Nat : p = i * G /\ (i + 1) * G = p + G
    <3>1. (i + 1) * G = i * G + G /\ i * G \in Nat
      OBVIOUS
    <3> QED
      BY <3>1
  <2>5. CASE i = 0
    <3>1. x = 0 /\ e = 0 /\ r = y /\ p = 0
      BY <1>12, <2>2, <2>4, <2>5
    <3>2. d <= 100 * V /\ RoundedSum(0, y, y, V, G)
      BY <2>3, <3>1
    <3>3. SumsNear(y, d, V, G, G)
      BY <2>3, <3>2, FirstShareNear
    <3> QED
      BY <2>2, <2>3, <2>4, <3>1, <3>3
  <2>6. CASE i # 0
    <3>1. SumsNear(x, e, V, G, p)
      <4>1. i \in 1..n
        BY <2>1, <2>6
      <4> QED
        BY <1>14, <2>2, <2>4, <4>1
    <3>2. G <= p /\ p <= 6 * G
      <4>1. 1 * G <= i * G /\ i * G <= 6 * G
        BY <2>1, <2>6
      <4> QED
        BY <2>4, <4>1
    <3>3. SumsNear(r, e + d, V, G, p + G)
      BY <2>3, <3>1, <3>2, NextShareNear
    <3> QED
      BY <2>2, <2>3, <2>4, <3>3
  <2> QED
    BY <2>5, <2>6
<1> HIDE DEF Near
<1>15. Near = Nat
  BY <1>13, <1>14, FromOneToTheNext
<1>16. CASE j = 0
  <2>1. PICK hundred : hundred = Whole(100)
    OBVIOUS
  <2> QED
    BY <1>16, NoughtIs DEF PartialSums, NotAbove
<1>17. CASE j # 0
  <2>1. j \in 1..n /\ j \in 0..n /\ j \in Nat
    BY <1>17
  <2>2. S[j] <= 100 * V
    BY <1>15, <2>1 DEF Near, SumsNear
  <2>3. PICK r \in Nat : r = On(Q[j], k) /\ S[j] = A * r
    BY <1>9, <2>1 DEF S
  <2>4. r <= 100 * v
    <3>1. PICK t \in Nat : t = 100 * v
      OBVIOUS
    <3>2. A * t = 100 * (A * v)
      BY <3>1
    <3>3. A * r <= A * t
      BY <1>6, <2>2, <2>3, <3>2
    <3>4. A * r <= A * t <=> r <= t
      BY MultipliedInOrder
    <3> QED
      BY <3>1, <3>3, <3>4
  <2>5. k \in ScalesOf(Whole(100)) /\ On(Whole(100), k) = 100 * v /\ Whole(100) \in Decimal
    BY <1>5, <1>6, WholeAt, WholeIs
  <2>6. On(Q[j], k) <= On(Whole(100), k) /\ Q[j] \in Decimal /\ k \in ScalesOf(Q[j])
    BY <1>4, <1>9, <2>1, <2>3, <2>4, <2>5
  <2> QED
    BY <2>5, <2>6, AtOrder
<1> QED
  BY <1>16, <1>17

-----------------------------------------------------------------------------
(* A component's score stays on its scale.                                 *)

\* No part is named twice.
LEMMA PartsAreNamedOnce ==
    ASSUME NEW c \in Weighed, NEW i \in DOMAIN Order[c], NEW j \in DOMAIN Order[c], Order[c][i] = Order[c][j]
    PROVE  i = j
<1>1. c \in WeighedIs
  BY WeighedAre
<1>3. CASE c = "financial_inflection"
  <2>1. i \in 1..6 /\ j \in 1..6
    BY <1>3 DEF Order
  <2>2. i \in {1, 2, 3, 4, 5, 6} /\ j \in {1, 2, 3, 4, 5, 6}
    BY <2>1
  <2> QED
    BY <1>3, <2>2 DEF Order
<1>4. CASE c \in {"business_quality", "balance_sheet"}
  <2>1. i \in 1..3 /\ j \in 1..3
    BY <1>4 DEF Order
  <2>2. i \in {1, 2, 3} /\ j \in {1, 2, 3}
    BY <2>1
  <2> QED
    BY <1>4, <2>2 DEF Order
<1>5. CASE c = "cash_flow_quality"
  <2>1. i \in 1..4 /\ j \in 1..4
    BY <1>5 DEF Order
  <2>2. i \in {1, 2, 3, 4} /\ j \in {1, 2, 3, 4}
    BY <2>1
  <2> QED
    BY <1>5, <2>2 DEF Order
<1>6. CASE c = "valuation"
  <2>1. i \in 1..5 /\ j \in 1..5
    BY <1>6 DEF Order
  <2>2. i \in {1, 2, 3, 4, 5} /\ j \in {1, 2, 3, 4, 5}
    BY <2>1
  <2> QED
    BY <1>6, <2>2 DEF Order
<1>7. CASE c = "market_structure"
  <2>1. i \in 1..7 /\ j \in 1..7
    BY <1>7 DEF Order
  <2>2. i \in {1, 2, 3, 4, 5, 6, 7} /\ j \in {1, 2, 3, 4, 5, 6, 7}
    BY <2>1
  <2> QED
    BY <1>7, <2>2 DEF Order
<1>8. CASE c = "low_market_attention"
  <2>1. i \in 1..2 /\ j \in 1..2
    BY <1>8 DEF Order
  <2>2. i \in {1, 2} /\ j \in {1, 2}
    BY <2>1
  <2> QED
    BY <1>8, <2>2 DEF Order
<1> QED
  BY <1>1, <1>3, <1>4, <1>5, <1>6, <1>7, <1>8 DEF WeighedIs

\* Of finitely many decimals, one is not above any.
LEMMA SomeIsWorst ==
    ASSUME NEW V, IsFiniteSet(V), V # {}, NEW F, \A k \in V : F[k] \in Decimal
    PROVE  \E k \in V : \A j \in V : NotAbove(F[k], F[j])
<1> DEFINE Worst(s, k) == k \in s /\ \A j \in s : NotAbove(F[k], F[j])
           B == {s \in SUBSET V : s # {} /\ ~ \E k \in V : Worst(s, k)}
<1>1. B \in SUBSET SUBSET V /\ {} \notin B
  OBVIOUS
<1>2. ASSUME NEW s \in B
      PROVE  \E x \in s : s \ {x} \in B
  <2>1. PICK x \in s : TRUE
    OBVIOUS
  <2>2. SUFFICES ASSUME s \ {x} \notin B
                 PROVE  FALSE
    BY <2>1
  <2>3. s \in SUBSET V /\ x \in V /\ ~ \E k \in V : Worst(s, k)
    OBVIOUS
  <2>4. NotAbove(F[x], F[x])
    BY <2>3, OrderReflexive
  <2>5. CASE s \ {x} = {}
    <3>1. Worst(s, x)
      BY <2>4, <2>5
    <3> QED
      BY <2>3, <3>1
  <2>6. CASE s \ {x} # {}
    <3>1. PICK y \in V : Worst(s \ {x}, y)
      BY <2>2, <2>3, <2>6
    <3>2. y \in s /\ \A j \in s : j = x \/ NotAbove(F[y], F[j])
      BY <3>1
    <3>3. CASE NotAbove(F[y], F[x])
      <4>1. Worst(s, y)
        BY <3>2, <3>3
      <4> QED
        BY <2>3, <4>1
    <3>4. CASE NotAbove(F[x], F[y])
      <4>1. ASSUME NEW j \in s
            PROVE  NotAbove(F[x], F[j])
        <5>1. j \in V /\ F[j] \in Decimal /\ F[y] \in Decimal /\ F[x] \in Decimal
          BY <2>3
        <5> QED
          BY <2>4, <3>2, <3>4, <5>1, OrderTransitive
      <4>2. Worst(s, x)
        BY <4>1
      <4> QED
        BY <2>3, <4>2
    <3> QED
      BY <2>3, <3>3, <3>4, OrderTotal
  <2> QED
    BY <2>5, <2>6
<1> HIDE DEF B
<1>3. B = {}
  BY <1>1, <1>2, NoneIsBad
<1> QED
  BY <1>3 DEF B

\* Every score is between the worst and the best of its parts, and on the scale.
OnItsScale(r) ==
    \A s \in r.score :
       /\ NotAbove(s, Whole(100))
       /\ \E best \in r.parts : NotAbove(s, Plus(best, Slack))
       /\ \E worst \in r.parts : NotAbove(worst, Plus(s, Slack))

LEMMA WeightedOnScale ==
    ASSUME NEW c \in Weighed, NEW S, Signals(c, S)
    PROVE  OnItsScale(Weighted(c, S))
<1> SUFFICES ASSUME NEW s \in Weighted(c, S).score
             PROVE  /\ NotAbove(s, Whole(100))
                    /\ \E best \in Normals(c, S) : NotAbove(s, Plus(best, Slack))
                    /\ \E worst \in Normals(c, S) : NotAbove(worst, Plus(s, Slack))
  BY WeightedIs DEF OnItsScale
<1>1. PICK n \in 1..7 : DOMAIN Order[c] = 1..n
  BY OrderIs
<1>2. PICK A : A = Available(c, S) /\ A \in Nat \ {0} /\ s = SumOf(PartsOf(c, S))
  <2>1. s \in TotalOf(c, S) /\ Available(c, S) \in Nat /\ Coverage[c] \in 1..100
    <3>1. Weighted(c, S).score = TotalOf(c, S)
      BY WeightedIs
    <3> QED
      BY <3>1, AvailableOfHeavy, SharesAre
  <2>2. ~(Available(c, S) < Coverage[c]) /\ s = SumOf(PartsOf(c, S))
    BY <2>1 DEF TotalOf
  <2> QED
    BY <2>1, <2>2
<1>3. PICK C : C = Carried(c, S) /\ C \subseteq Codes(c) /\ IsFiniteSet(C) /\ C # {}
  <2>1. Carried(c, S) \subseteq Codes(c)
    BY DEF Carried
  <2>2. IsFiniteSet(Carried(c, S))
    BY <2>1, CodesFinite, FS_Subset
  <2>3. Carried(c, S) # {}
    BY <1>2, SumOfNone DEF Available
  <2> QED
    BY <2>1, <2>2, <2>3
<1> DEFINE F == [m \in C |-> NormalOf(c, S, m)]
<1>4. \A m \in C : F[m] = NormalOf(c, S, m) /\ F[m] \in Decimal /\ Short(F[m]) /\ NotAbove(F[m], Whole(100))
  BY <1>3, NormalIs
<1> HIDE DEF F
<1>5. PICK b \in C : \A m \in C : NotAbove(F[m], F[b])
  BY <1>3, <1>4, SomeIsBest
<1>6. PICK u \in C : \A m \in C : NotAbove(F[u], F[m])
  BY <1>3, <1>4, SomeIsWorst
<1>7. PICK order : order = Order[c] /\ \A i \in 1..n : order[i] \in Codes(c)
  BY <1>1, CodesFinite
<1>8. \A i, j \in 1..n : order[i] = order[j] => i = j
  BY <1>1, <1>7, PartsAreNamedOnce
<1>9. \A x \in C : \E i \in 1..n : order[i] = x
  BY <1>1, <1>3, <1>7 DEF Codes
<1> DEFINE a == [i \in 1..n |-> IF order[i] \in C THEN Share[c][order[i]] ELSE 0]
           xs == [i \in 1..n |-> IF order[i] \in C THEN F[order[i]] ELSE Nought]
<1>10. PICK acc : Accrued(acc, a, n) /\ acc[n] = A
  <2>1. PICK w : w = Share[c] /\ \A x \in C : w[x] \in Nat
    <3>1. \A x \in C : Share[c][x] \in 0..100
      BY <1>3, SharesAre
    <3> QED
      BY <3>1
  <2>2. \A i \in 1..n : a[i] = IF order[i] \in C THEN w[order[i]] ELSE 0
    BY <2>1
  <2> HIDE DEF a
  <2>3. PICK f : f = a /\ \A i \in 1..n : f[i] = IF order[i] \in C THEN w[order[i]] ELSE 0
    BY <2>2
  <2>4. n \in Nat
    OBVIOUS
  <2>5. \E d : Accrued(d, f, n) /\ d[n] = SumFunctionOnSet(w, C)
    <3>1. Lists(order, n, C, w, f)
      BY <1>8, <1>9, <2>1, <2>3 DEF Lists
    <3> QED
      BY <2>4, <3>1, SumAlong
  <2> QED
    BY <1>2, <1>3, <2>1, <2>3, <2>5 DEF Available
<1>11. ASSUME NEW i \in 1..n
       PROVE  a[i] \in Nat /\ a[i] \in 0..A
  <2> HIDE DEF a
  <2>1. i \in 0..n /\ i - 1 \in 0..n /\ n \in Nat
    OBVIOUS
  <2>2. acc[i] <= acc[n]
    BY <1>10, <2>1, AccruedInOrder
  <2>3. acc[i - 1] \in Nat /\ acc[i] \in Nat /\ a[i] \in Nat /\ acc[i] = acc[i - 1] + a[i]
    BY <1>10, <2>1 DEF Accrued
  <2> QED
    BY <1>2, <1>10, <2>2, <2>3
<1>12. PICK v, lo, hi : v = PartsOf(c, S) /\ lo = F[u] /\ hi = F[b]
  OBVIOUS
<1>13. ASSUME NEW i \in 1..n
       PROVE  Term(v[i], xs[i], a[i], A, lo, hi)
  <2>1. PICK m \in Codes(c) : m = order[i]
    BY <1>7
  <2>2. v[i] = IF m \in C THEN Shared(c, S, m) ELSE Nought
    BY <1>1, <1>3, <1>7, <1>12, <2>1 DEF PartsOf
  <2>3. /\ xs[i] = IF m \in C THEN F[m] ELSE Nought
        /\ a[i] = IF m \in C THEN Share[c][m] ELSE 0
    BY <2>1
  <2>4. a[i] \in 0..A
    BY <1>11
  <2> HIDE DEF a, xs
  <2>5. CASE m \in C
    <3>1. Shared(c, S, m) = Times(F[m], Divided(Share[c][m], A))
      BY <1>2, <1>4, <2>5 DEF Shared, EffectiveWeight
    <3> QED
      BY <1>4, <1>5, <1>6, <1>12, <2>2, <2>3, <2>4, <2>5, <3>1 DEF Term
  <2>6. CASE m \notin C
    <3>1. NotAbove(Nought, Whole(100)) /\ Short(Nought)
      BY NoughtIs DEF NotAbove
    <3> QED
      BY <2>2, <2>3, <2>4, <2>6, <3>1 DEF Term
  <2> QED
    BY <2>5, <2>6
<1> HIDE DEF a, xs
<1>14. PICK P : PartialSums(P, v, n) /\ s = P[n]
  <2>1. DOMAIN v = 1..n /\ n \in Nat
    BY <1>1, <1>12 DEF PartsOf
  <2> QED
    BY <1>2, <1>12, <2>1, SumIsPartial
<1> DEFINE h == [i \in 1..n |-> Hundredfold(Divided(a[i], A))]
<1>15. \A i \in 1..n : h[i] = Hundredfold(Divided(a[i], A)) /\ Short(h[i])
  <2> SUFFICES ASSUME NEW i \in 1..n
               PROVE  Short(Hundredfold(Divided(a[i], A)))
    OBVIOUS
  <2>1. Short(Divided(a[i], A)) /\ Divided(a[i], A) \in Decimal
    BY <1>2, <1>11, DividedShort
  <2> QED
    BY <2>1, HundredfoldIs
<1>16. DOMAIN h = 1..n /\ n \in Nat
  OBVIOUS
<1> HIDE DEF h
<1>17. PICK Q : PartialSums(Q, h, n)
  BY <1>16, SumIsPartial
<1>18. \A i \in 0..n : NotAbove(Q[i], Whole(100))
  BY <1>2, <1>10, <1>15, <1>17, SumsBelowHundred
<1>19. \A i \in 1..n : Short(v[i]) /\ Short(h[i]) /\ NotAbove(v[i], h[i])
  <2> SUFFICES ASSUME NEW i \in 1..n
               PROVE  Short(v[i]) /\ NotAbove(v[i], h[i])
    BY <1>15
  <2>1. PICK t, x, k : t = v[i] /\ x = xs[i] /\ k = a[i]
    OBVIOUS
  <2>2. Term(t, x, k, A, lo, hi) /\ k \in Nat
    BY <1>11, <1>13, <2>1
  <2>3. Short(t) /\ x \in Decimal
    BY <1>2, <2>2, TermIsShort
  <2>4. PICK w : w = Divided(k, A) /\ Short(w) /\ w \in Decimal
    BY <1>2, <2>2, DividedShort
  <2>5. h[i] = Hundredfold(w) /\ Hundredfold(w) \in Decimal
    BY <1>15, <2>1, <2>4, HundredfoldIs
  <2>6. CASE t = Nought
    BY <2>1, <2>3, <2>5, <2>6, NoughtIs
  <2>7. CASE t = Times(x, w)
    <3>1. NotAbove(x, Whole(100))
      BY <2>2 DEF Term
    <3> QED
      BY <2>1, <2>3, <2>4, <2>5, <2>7, <3>1, ShareOfHundred
  <2> QED
    BY <2>2, <2>4, <2>6, <2>7 DEF Term
<1>20. \A i \in 0..n : NotAbove(P[i], Whole(100))
  <2> SUFFICES ASSUME NEW i \in 0..n
               PROVE  NotAbove(P[i], Whole(100))
    OBVIOUS
  <2>1. NotAbove(P[i], Q[i])
    BY <1>14, <1>16, <1>17, <1>19, PartialsInOrder
  <2>2. Short(P[i]) /\ Short(Q[i])
    BY <1>14, <1>16, <1>17, <1>19, PartialSumsShort
  <2>3. P[i] \in Decimal /\ Q[i] \in Decimal /\ Whole(100) \in Decimal
    BY <2>2, WholeIs DEF Short
  <2> QED
    BY <1>18, <2>1, <2>3, OrderTransitive
<1>21. Short(lo) /\ Short(hi)
  BY <1>4, <1>12
<1>22. NotAbove(P[n], Plus(hi, Slack)) /\ NotAbove(lo, Plus(P[n], Slack))
  BY <1>2, <1>10, <1>13, <1>14, <1>20, <1>21, AverageStays
<1>23. lo \in Normals(c, S) /\ hi \in Normals(c, S)
  BY <1>3, <1>4, <1>12 DEF Normals
<1> QED
  BY <1>14, <1>20, <1>22, <1>23

-----------------------------------------------------------------------------
(* Every scorer stays on its scale.                                        *)

\* What a bundle offers a weighted scorer is signals.
LEMMA ValuesAreSignals ==
    ASSUME NEW c \in Weighed, NEW e, Offers(c, e), NEW m \in Metrics(c)
    PROVE  Signal(Value(e, m)) /\ Signal(Negated(Value(e, m)))
  BY ValueIs, NegatedIs

LEMMA CarryingSignals ==
    ASSUME NEW c, NEW S, Signals(c, S)
    PROVE  Signals(c, Carrying(c, S))
<1>1. Signal({})
  BY DEF Signal
<1>2. ASSUME NEW n \in Codes(c)
      PROVE  Signal(Carrying(c, S)[n])
  BY <1>1 DEF Signals, Carrying
<1> QED
  BY <1>2 DEF Signals

LEMMA RatioIsSignal ==
    ASSUME NEW c \in Weighed, NEW e, Offers(c, e), NEW top \in Metrics(c), NEW bottom \in Metrics(c)
    PROVE  Signal(Negated(Quotient(Value(e, top), Value(e, bottom))))
<1>1. PICK S, T : S = Value(e, top) /\ T = Value(e, bottom) /\ Signal(S) /\ Signal(T)
  BY ValuesAreSignals
<1>2. Signal(Quotient(S, T))
  BY <1>1, QuotientIs
<1> QED
  BY <1>1, <1>2, NegatedIs

LEMMA InflectionSignalled ==
    ASSUME NEW e, Offers("financial_inflection", e)
    PROVE  Signals("financial_inflection", InflectionSignals(e))
<1> DEFINE c == "financial_inflection"
<1>1. c \in Weighed
  BY WeighedAre DEF WeighedIs
<1>2. Metrics(c) = (Codes(c) \ {"roce_improvement"}) \cup {"current_roce", "prior_year_roce"}
  BY DEF Metrics
<1>3. PICK S, T : S = Value(e, "current_roce") /\ T = Value(e, "prior_year_roce")
  OBVIOUS
<1>4. Signal(S) /\ Signal(T)
  BY <1>1, <1>2, <1>3, ValuesAreSignals
<1>5. Signal(Change(S, T))
  BY <1>4, ChangeIs
<1>6. ASSUME NEW n \in Codes(c)
      PROVE  Signal(InflectionSignals(e)[n])
  BY <1>1, <1>2, <1>3, <1>5, ValuesAreSignals DEF InflectionSignals
<1> QED
  BY <1>6 DEF Signals

LEMMA MarketSignalled ==
    ASSUME NEW e, Offers("market_structure", e)
    PROVE  Signals("market_structure", MarketSignals(e))
<1> DEFINE c == "market_structure"
<1>1. c \in Weighed /\ Metrics(c) = Codes(c)
  BY WeighedAre DEF WeighedIs, Metrics
<1>2. ASSUME NEW n \in Codes(c)
      PROVE  Signal(MarketSignals(e)[n])
  BY <1>1, ValuesAreSignals DEF MarketSignals
<1> QED
  BY <1>2 DEF Signals

LEMMA BalanceSignalled ==
    ASSUME NEW e, Offers("balance_sheet", e)
    PROVE  Signals("balance_sheet", BalanceSignals(e))
<1> DEFINE c == "balance_sheet"
<1>1. c \in Weighed /\ Metrics(c) = {"net_debt", "ttm_ebitda", "debt_to_equity", "interest_coverage"}
  BY WeighedAre DEF WeighedIs, Metrics
<1>2. Signal(Negated(Quotient(Value(e, "net_debt"), Value(e, "ttm_ebitda"))))
  BY <1>1, RatioIsSignal
<1>3. Signal(Negated(Value(e, "debt_to_equity"))) /\ Signal(Value(e, "interest_coverage"))
  BY <1>1, ValuesAreSignals
<1>4. /\ Signal(BalanceSignals(e)["net_debt_to_ebitda"]) /\ Signal(BalanceSignals(e)["debt_to_equity"])
      /\ Signal(BalanceSignals(e)["interest_coverage"])
  BY <1>2, <1>3 DEF BalanceSignals
<1> QED
  BY <1>4, CodesAre DEF Signals

LEMMA CashFlowSignalled ==
    ASSUME NEW e, Offers("cash_flow_quality", e)
    PROVE  Signals("cash_flow_quality", CashFlowSignals(e))
<1> DEFINE c == "cash_flow_quality"
<1>1. /\ c \in Weighed
      /\ Metrics(c) = {"cfo_conversion", "cfo_to_ebitda", "receivable_days",
                       "trade_working_capital_change", "ttm_revenue"}
  BY WeighedAre DEF WeighedIs, Metrics
<1>2. Signal(Negated(Quotient(Value(e, "trade_working_capital_change"), Value(e, "ttm_revenue"))))
  BY <1>1, RatioIsSignal
<1>3. /\ Signal(Value(e, "cfo_conversion")) /\ Signal(Value(e, "cfo_to_ebitda"))
      /\ Signal(Negated(Value(e, "receivable_days")))
  BY <1>1, ValuesAreSignals
<1>4. /\ Signal(CashFlowSignals(e)["cfo_conversion"]) /\ Signal(CashFlowSignals(e)["cfo_to_ebitda"])
      /\ Signal(CashFlowSignals(e)["receivable_days"])
      /\ Signal(CashFlowSignals(e)["trade_working_capital_burden"])
  BY <1>2, <1>3 DEF CashFlowSignals
<1> QED
  BY <1>4, CodesAre DEF Signals

LEMMA AttentionSignalled ==
    ASSUME NEW e, Offers("low_market_attention", e)
    PROVE  Signals("low_market_attention",
                   [news_mentions_count |-> NewsSignal(e), analyst_coverage_count |-> AnalystSignal(e)])
<1> DEFINE c == "low_market_attention"
<1>1. /\ c \in Weighed /\ "news_mentions_count" \in Metrics(c) /\ "analyst_coverage_count" \in Metrics(c)
  BY WeighedAre, CodesAre DEF WeighedIs, Metrics
<1>2. /\ Signal(Negated(Value(e, "news_mentions_count")))
      /\ Signal(Negated(Value(e, "analyst_coverage_count")))
  BY <1>1, ValuesAreSignals
<1>3. Signal(NewsSignal(e)) /\ Signal(AnalystSignal(e))
  BY <1>2 DEF Signal, NewsSignal, AnalystSignal
<1> QED
  BY <1>3, CodesAre DEF Signals

\* A weighted scorer judges signals.
LEMMA WeighedJudges ==
    ASSUME NEW c \in Weighed, NEW e, Offers(c, e)
    PROVE  \E S : Signals(c, S) /\ ComponentResult(c, e) \subseteq {Weighted(c, S)}
<1>1. c \in WeighedIs
  BY WeighedAre
<1>2. CASE c = "financial_inflection"
  <2>1. ComponentResult(c, e) \subseteq {Weighted(c, InflectionSignals(e))}
    BY <1>2 DEF ComponentResult, InflectionScore
  <2> QED
    BY <1>2, <2>1, InflectionSignalled
<1>3. ASSUME NEW S, Signals(c, S), ComponentResult(c, e) \subseteq {Weighted(c, Carrying(c, S))}
      PROVE  \E T : Signals(c, T) /\ ComponentResult(c, e) \subseteq {Weighted(c, T)}
  BY <1>3, CarryingSignals
<1>4. CASE c = "business_quality"
  <2>1. c \in Weighed /\ Metrics(c) = Codes(c)
    BY <1>4 DEF Metrics
  <2>2. Signals(c, QualitySignals(e))
    BY <1>4, <2>1, ValuesAreSignals DEF Signals, QualitySignals
  <2>3. ComponentResult(c, e) \subseteq {Weighted(c, Carrying(c, QualitySignals(e)))}
    BY <1>4 DEF ComponentResult, QualityScore
  <2> QED
    BY <1>3, <2>2, <2>3
<1>5. CASE c = "balance_sheet"
  <2>1. ComponentResult(c, e) \subseteq {Weighted(c, Carrying(c, BalanceSignals(e)))}
    BY <1>5 DEF ComponentResult, BalanceScore
  <2> QED
    BY <1>3, <1>5, <2>1, BalanceSignalled
<1>6. CASE c = "cash_flow_quality"
  <2>1. ComponentResult(c, e) \subseteq {Weighted(c, Carrying(c, CashFlowSignals(e)))}
    BY <1>6 DEF ComponentResult, CashFlowScore
  <2> QED
    BY <1>3, <1>6, <2>1, CashFlowSignalled
<1>7. CASE c = "valuation"
  <2>1. PICK S : S = [n \in Codes("valuation") |-> Negated(Value(e, n))]
    OBVIOUS
  <2>2. ComponentResult(c, e) \subseteq {Weighted(c, Carrying(c, S))}
    BY <1>7, <2>1 DEF ComponentResult, ValuationScore
  <2>3. c \in Weighed /\ Metrics(c) = Codes(c)
    BY <1>7 DEF Metrics
  <2>4. Signals(c, S)
    BY <1>7, <2>1, <2>3, ValuesAreSignals DEF Signals
  <2> QED
    BY <1>3, <2>2, <2>4
<1>8. CASE c = "market_structure"
  <2>1. ComponentResult(c, e) \subseteq {Weighted(c, Carrying(c, MarketSignals(e)))}
    BY <1>8 DEF ComponentResult, MarketScore
  <2> QED
    BY <1>3, <1>8, <2>1, MarketSignalled
<1>9. CASE c = "low_market_attention"
  <2>1. PICK S :
           S = [news_mentions_count |-> NewsSignal(e), analyst_coverage_count |-> AnalystSignal(e)]
    OBVIOUS
  <2>2. ComponentResult(c, e) \subseteq {Weighted(c, Carrying(c, S))}
    BY <1>9, <2>1 DEF ComponentResult, AttentionScore
  <2>3. Signals(c, S)
    BY <1>9, <2>1, AttentionSignalled
  <2> QED
    BY <1>3, <2>2, <2>3
<1> QED
  BY <1>1, <1>2, <1>4, <1>5, <1>6, <1>7, <1>8, <1>9 DEF WeighedIs

LEMMA CatalystOnScale ==
    ASSUME NEW e, Offers("business_catalyst", e), NEW r \in CatalystScore(e)
    PROVE  OnItsScale(r)
<1> SUFFICES ASSUME NEW s \in r.score
             PROVE  /\ NotAbove(s, Whole(100))
                    /\ \E best \in r.parts : NotAbove(s, Plus(best, Slack))
                    /\ \E worst \in r.parts : NotAbove(worst, Plus(s, Slack))
  BY DEF OnItsScale
<1>1. r.score = CatalystScoreOf(e)
  BY ONLY r \in CatalystScore(e), CatalystScoreIs
<1>2. r.parts = UNION {EventScore(e[k]) : k \in Given(e, DOMAIN e)}
  BY ONLY r \in CatalystScore(e), CatalystScoreIs
<1>3. PICK k \in SelectedEvent(e) : s \in EventScore(e[k])
  BY <1>1 DEF CatalystScoreOf
<1>4. k \in Given(e, DOMAIN e)
  BY <1>3 DEF SelectedEvent
<1>5. AnEvent(e[k]) /\ s \in r.parts
  BY <1>2, <1>3, <1>4, EventsAre
<1>6. PICK x : x = Interpolated(<<-e[k].age, 1>>, CatalystCurve("recency")) /\ Short(x)
               /\ x \in Decimal /\ NotAbove(x, Whole(100))
  BY <1>5, RecencyIs
<1>7. PICK y \in Strength(e[k]) : s = Percent(Times(y, x))
  BY <1>3, <1>6 DEF EventScore, Percent
<1>8. Short(y) /\ y \in Decimal /\ NotAbove(y, Whole(100))
  BY <1>5, StrengthIs DEF Short
<1>9. PICK p : p = Times(y, x) /\ Short(p) /\ p \in Decimal
  BY <1>6, <1>8, TimesShort
<1>10. Short(s) /\ s \in Decimal
  BY <1>7, <1>9, PercentIs
<1>11. NotAbove(s, Whole(100))
  <2>1. PICK h : h = Hundredfold(x) /\ Short(h) /\ h \in Decimal /\ NotAbove(p, h)
    BY <1>6, <1>8, <1>9, HundredfoldIs, ShareOfHundred
  <2>2. CASE p.m = 0
    BY <1>7, <1>9, <2>2 DEF Percent, NotAbove
  <2>3. CASE p.m # 0
    <3>1. s = Dec(p.m, p.e - 2) /\ p.m \in Nat /\ p.e \in Int /\ p.e - 2 \in Int
      BY <1>7, <1>9, <2>3 DEF Percent, Decimal
    <3>2. p = Hundredfold(s)
      <4>1. s.m = p.m /\ s.e = p.e - 2
        BY <3>1, DecimalIs
      <4>2. p = Dec(p.m, p.e)
        BY <1>9 DEF Dec, Decimal
      <4>3. s.e + 2 = p.e
        BY <3>1, <4>1
      <4> QED
        BY <4>1, <4>2, <4>3 DEF Hundredfold
    <3>3. PICK q \in Nat : q \in ScalesOf(s) /\ q \in ScalesOf(x)
      BY <1>6, <1>10, ScaleForFour
    <3>4. PICK a \in Nat, b \in Nat : a = On(s, q) /\ b = On(x, q)
      BY <1>6, <1>10, <3>3, AtOrder
    <3>5. /\ q \in ScalesOf(p) /\ On(p, q) = 100 * a
          /\ q \in ScalesOf(h) /\ On(h, q) = 100 * b
      BY <1>6, <1>10, <2>1, <3>2, <3>3, <3>4, HundredfoldIs
    <3>6. 100 * a <= 100 * b
      BY <1>9, <2>1, <3>5, AtOrder
    <3>7. a <= b
      BY <3>6
    <3>8. NotAbove(s, x)
      BY <1>6, <1>10, <3>3, <3>4, <3>7, AtOrder
    <3>9. Whole(100) \in Decimal
      BY WholeIs
    <3> QED
      BY <1>6, <1>10, <3>8, <3>9, OrderTransitive
  <2> QED
    BY <2>2, <2>3
<1>12. NotAbove(s, Plus(s, Slack))
  BY <1>10, SlackIs, PlusIsNotLess
<1> QED
  BY <1>5, <1>11, <1>12

-----------------------------------------------------------------------------
(* The shares of the confidence add up without an error.                   *)

Equal(a, b) == NotAbove(a, b) /\ NotAbove(b, a)

LEMMA PercentageIs ==
    ASSUME NEW n \in 0..100
    PROVE  /\ Short(Percentage(n)) /\ Percentage(n) \in Decimal
           /\ \A k \in Nat : k \in ScalesOf(Percentage(n)) =>
                 k - 2 \in Nat /\ On(Percentage(n), k) = n * PowerOfTen[k - 2]
<1>1. Short(Whole(100)) /\ Whole(100).m = 100
  BY WholeIs
<1>2. 100 <= PowerOfTen[SignificantDigits] /\ PowerOfTen[SignificantDigits] \in Nat
  BY <1>1, PrecisionIs DEF Short
<1>3. PICK p : p = Percentage(n) /\ p \in Decimal /\ p.m = n /\ p.e = -2
  BY DecimalIs DEF Percentage
<1>4. Short(p)
  BY <1>2, <1>3 DEF Short
<1>5. ASSUME NEW k \in Nat, k \in ScalesOf(p)
      PROVE  k - 2 \in Nat /\ On(p, k) = n * PowerOfTen[k - 2]
  <2>1. p.e + k \in Nat /\ p.e + k = k - 2
    BY <1>3, <1>5 DEF ScalesOf
  <2> QED
    BY <1>3, <2>1 DEF On
<1> QED
  BY <1>3, <1>4, <1>5

LEMMA PercentagesAdd ==
    ASSUME NEW n \in 0..100, NEW m \in 0..100, n + m <= 100, NEW a, Short(a), Equal(a, Percentage(n))
    PROVE  LET s == Plus(a, Percentage(m)) IN Short(s) /\ Equal(s, Percentage(n + m))
<1>1. n + m \in 0..100
  OBVIOUS
<1>2. PICK p, q, r : /\ p = Percentage(n) /\ q = Percentage(m) /\ r = Percentage(n + m)
                     /\ Short(p) /\ Short(q) /\ Short(r)
                     /\ p \in Decimal /\ q \in Decimal /\ r \in Decimal
  BY <1>1, PercentageIs
<1>3. a \in Decimal
  BY DEF Short
<1>4. PICK s : s = Plus(a, q) /\ Short(s) /\ s \in Decimal
  BY <1>2, PlusShort
<1>5. PICK j \in Nat : j \in ScalesOf(a) /\ j \in ScalesOf(p) /\ j \in ScalesOf(q) /\ j \in ScalesOf(s)
  BY <1>2, <1>3, <1>4, ScaleForFour
<1>6. PICK k \in Nat : k \in ScalesOf(a) /\ k \in ScalesOf(p) /\ k \in ScalesOf(q) /\ k \in ScalesOf(s)
                       /\ k \in ScalesOf(r)
  <2>1. r.e = q.e
    BY <1>1, <1>2, DecimalIs DEF Percentage
  <2>2. j \in ScalesOf(r)
    BY <1>5, <2>1 DEF ScalesOf
  <2> QED
    BY <1>5, <2>2
<1>7. PICK u \in Nat, t \in Nat \ {0} : u = PowerOfTen[k - 2] /\ t = PowerOfTen[k]
  <2>1. k - 2 \in Nat
    BY <1>2, <1>6, PercentageIs
  <2> QED
    BY <2>1, TenPositive
<1>8. On(p, k) = n * u /\ On(q, k) = m * u /\ On(r, k) = (n + m) * u
  BY <1>1, <1>2, <1>6, <1>7, PercentageIs
<1>9. On(a, k) = On(p, k)
  <2>1. NotAbove(a, p) /\ NotAbove(p, a)
    BY <1>2 DEF Equal
  <2>2. On(a, k) <= On(p, k) /\ On(p, k) <= On(a, k) /\ On(a, k) \in Nat /\ On(p, k) \in Nat
    BY <1>2, <1>3, <1>6, <2>1, AtOrder
  <2> QED
    BY <2>2
<1>10. (n + m) * u = n * u + m * u
  OBVIOUS
<1>11. PICK w \in Nat : w = On(a, k) + On(q, k) /\ w = On(r, k)
  <2>1. On(r, k) \in Nat
    BY <1>2, <1>6, AtOrder
  <2> QED
    BY <1>8, <1>9, <1>10, <2>1
<1>12. RoundsTo(s, w, t)
  BY <1>2, <1>4, <1>6, <1>7, <1>11, PlusRounds
<1>13. w * PowerOfTen[k] = t * On(r, k)
  BY <1>7, <1>11
<1>14. On(s, k) = On(r, k)
  BY <1>2, <1>6, <1>12, <1>13, ExactKept
<1>15. On(s, k) \in Nat /\ On(r, k) \in Nat /\ On(s, k) <= On(r, k) /\ On(r, k) <= On(s, k)
  BY <1>11, <1>14
<1>16. NotAbove(s, r) /\ NotAbove(r, s)
  BY <1>2, <1>4, <1>6, <1>15, AtOrder
<1> QED
  BY <1>2, <1>4, <1>16 DEF Equal

LEMMA ConfidenceOnScale ==
    ASSUME NEW e, Offers("confidence", e)
    PROVE  NotAbove(Confidence(e), Whole(1))
<1> DEFINE w == ConfidenceShare
<1>1. PICK v : v = Weighings(e)
  OBVIOUS
<1>2. DOMAIN TermOrder = 1..5 /\ 5 \in Nat
  BY DEF TermOrder
<1>3. DOMAIN v = 1..5
  BY <1>1, <1>2 DEF Weighings
<1>4. Confidence(e) = SumOf(v)
  BY <1>1, Zenon DEF Confidence, Weighings
<1>5. PICK q : q = [i \in 1..5 |-> Percentage(w[TermOrder[i]])]
  OBVIOUS
<1>6. ASSUME NEW i \in 1..5
      PROVE  Short(v[i]) /\ Short(q[i]) /\ NotAbove(v[i], q[i])
  <2>1. PICK t \in Range(TermOrder), n \in 0..100 : t = TermOrder[i] /\ n = w[t]
    BY WeighingsAre
  <2>2. PICK p : p = Percentage(n) /\ Short(p) /\ p \in Decimal
    BY PercentageIs
  <2>3. PICK a : a = ConfidenceTerms(e)[t] /\ a \in Decimal /\ NotAbove(a, Whole(1))
    BY <2>1, TermsAre
  <2>4. v[i] = Times(a, p) /\ q[i] = p
    BY <1>1, <1>2, <1>5, <2>1, <2>2, <2>3 DEF Weighings
  <2> QED
    BY <2>2, <2>3, <2>4, TimesShort, ShareIsNotMore
<1>7. PICK P : PartialSums(P, v, 5) /\ SumOf(v) = P[5]
  BY <1>2, <1>3, SumIsPartial
<1>8. PICK Q : PartialSums(Q, q, 5)
  <2>1. DOMAIN q = 1..5
    BY <1>5
  <2> QED
    BY <1>2, <2>1, SumIsPartial
<1>9. NotAbove(P[5], Q[5])
  <2>1. 5 \in 0..5 /\ 5 \in Nat
    OBVIOUS
  <2> QED
    BY <1>6, <1>7, <1>8, <2>1, PartialsInOrder
<1>10. PICK c : Accrued(c, [i \in 1..5 |-> w[TermOrder[i]]], 5) /\ c[5] = 100
  <2>1. PICK a, C, o : a = [i \in 1..5 |-> w[TermOrder[i]]] /\ C = Range(TermOrder) /\ o = TermOrder
    OBVIOUS
  <2>2. w \in [C -> 0..100] /\ SumFunctionOnSet(w, C) = 100
    <3>1. w \in Percentages(Range(TermOrder)) /\ Total(w) = 100
      BY PolicyAssumption DEF ValidConfidence
    <3>2. w \in [C -> 0..100] /\ DOMAIN w = C
      BY <2>1, <3>1 DEF Percentages
    <3> QED
      BY <3>1, <3>2 DEF Total
  <2>3. \A i, j \in 1..5 : o[i] = o[j] => i = j
    <3>1. 1..5 = {1, 2, 3, 4, 5}
      OBVIOUS
    <3> QED
      BY <2>1, <3>1 DEF TermOrder
  <2>4. /\ \A x \in C : \E i \in 1..5 : o[i] = x
        /\ \A i \in 1..5 : o[i] \in C
    BY <1>2, <2>1 DEF Range
  <2>5. \A i \in 1..5 : a[i] = IF o[i] \in C THEN w[o[i]] ELSE 0
    BY <2>1, <2>4
  <2>6. \A x \in C : w[x] \in Nat
    BY <2>2
  <2>7. Lists(o, 5, C, w, a)
    BY <2>3, <2>4, <2>5, <2>6 DEF Lists
  <2>8. \E d : Accrued(d, a, 5) /\ d[5] = SumFunctionOnSet(w, C)
    BY <1>2, <2>7, SumAlong
  <2> QED
    BY <2>1, <2>2, <2>8
<1>11. PICK a : a = [i \in 1..5 |-> w[TermOrder[i]]] /\ Accrued(c, a, 5)
  BY <1>10
<1>12. \A i \in 1..5 : a[i] \in 0..100 /\ q[i] = Percentage(a[i])
  BY <1>5, <1>11, WeighingsAre
<1>13. \A i \in 0..5 : c[i] \in 0..100
  <2> SUFFICES ASSUME NEW i \in 0..5
               PROVE  c[i] \in 0..100
    OBVIOUS
  <2>1. c[i] <= c[5]
    BY <1>2, <1>11, AccruedInOrder
  <2>2. c[i] \in Nat /\ c[5] \in Nat
    BY <1>11 DEF Accrued
  <2> QED
    BY <1>10, <2>1, <2>2
<1> DEFINE Adds(i) == Short(Q[i]) /\ Equal(Q[i], Percentage(c[i]))
<1>14. Adds(0)
  <2>1. Q[0] = Nought /\ c[0] = 0
    BY <1>8, <1>11 DEF PartialSums, Accrued
  <2>2. Percentage(0).m = 0
    BY DecimalIs DEF Percentage
  <2> QED
    BY <2>1, <2>2, NoughtIs DEF Equal, NotAbove
<1>15. ASSUME NEW i \in 1..5, Adds(i - 1)
       PROVE  Adds(i)
  <2>1. PICK b, n, m : b = Q[i - 1] /\ n = c[i - 1] /\ m = a[i]
    OBVIOUS
  <2>2. n \in 0..100 /\ m \in 0..100 /\ c[i] \in 0..100
    <3>1. i - 1 \in 0..5 /\ i \in 0..5
      OBVIOUS
    <3> QED
      BY <1>12, <1>13, <2>1, <3>1
  <2>3. c[i] = n + m /\ Q[i] = Plus(b, Percentage(m))
    BY <1>8, <1>11, <1>12, <2>1 DEF Accrued, PartialSums
  <2>4. Short(b) /\ Equal(b, Percentage(n)) /\ n + m <= 100
    BY <1>15, <2>1, <2>2, <2>3
  <2> QED
    BY <2>2, <2>3, <2>4, PercentagesAdd
<1>16. Adds(5)
  <2> HIDE DEF Adds
  <2>1. Adds(1)
    <3>1. 1 \in 1..5 /\ 1 - 1 = 0
      OBVIOUS
    <3> QED
      BY <1>14, <1>15, <3>1
  <2>2. Adds(2)
    <3>1. 2 \in 1..5 /\ 2 - 1 = 1
      OBVIOUS
    <3> QED
      BY <1>15, <2>1, <3>1
  <2>3. Adds(3)
    <3>1. 3 \in 1..5 /\ 3 - 1 = 2
      OBVIOUS
    <3> QED
      BY <1>15, <2>2, <3>1
  <2>4. Adds(4)
    <3>1. 4 \in 1..5 /\ 4 - 1 = 3
      OBVIOUS
    <3> QED
      BY <1>15, <2>3, <3>1
  <2> QED
    <3>1. 5 \in 1..5 /\ 5 - 1 = 4
      OBVIOUS
    <3> QED
      BY <1>15, <2>4, <3>1
<1>17. NotAbove(Percentage(100), Whole(1)) /\ Percentage(100) \in Decimal /\ Whole(1) \in Decimal
  <2>1. PICK p : p = Percentage(100) /\ p \in Decimal
    BY PercentageIs
  <2>2. PICK o : o = Whole(1) /\ o \in Decimal
    BY WholeIs
  <2>3. PICK k \in Nat : k \in ScalesOf(p) /\ k \in ScalesOf(o)
    BY <2>1, <2>2, ScaleForFour
  <2>4. k - 2 \in Nat /\ On(p, k) = 100 * PowerOfTen[k - 2]
    BY <2>1, <2>3, PercentageIs
  <2>5. On(o, k) = 1 * PowerOfTen[k] /\ 1 \in Nat
    BY <2>2, WholeAt
  <2>6. PICK j \in Nat : j = k - 2
    BY <2>4
  <2>7. /\ PowerOfTen[j + 1] = 10 * PowerOfTen[j] /\ PowerOfTen[(j + 1) + 1] = 10 * PowerOfTen[j + 1]
        /\ PowerOfTen[j] \in Nat /\ PowerOfTen[j + 1] \in Nat
    <3>1. j + 1 \in Nat
      OBVIOUS
    <3> QED
      BY <3>1, TenPositive
  <2>8. k = (j + 1) + 1
    BY <2>6
  <2>9. On(p, k) <= On(o, k)
    BY <2>4, <2>5, <2>6, <2>7, <2>8
  <2> QED
    BY <2>1, <2>2, <2>3, <2>9, AtOrder
<1>18. NotAbove(Q[5], Percentage(100)) /\ Q[5] \in Decimal
  BY <1>10, <1>16 DEF Equal, Short
<1>19. P[5] \in Decimal
  <2>1. 5 \in 0..5
    OBVIOUS
  <2>2. Short(P[5])
    BY <1>2, <1>6, <1>7, <2>1, PartialSumsShort
  <2> QED
    BY <2>2 DEF Short
<1>20. NotAbove(Q[5], Whole(1))
  BY <1>17, <1>18, OrderTransitive
<1> QED
  BY <1>4, <1>7, <1>9, <1>17, <1>18, <1>19, <1>20, OrderTransitive

\* ScoreOnScale: a score stays between the worst and the best of its parts, up to ten
\* units of its last digit, and within 0 to 100; a confidence is at most 1.
THEOREM ScaleKept == ScoringSpec => []ScoreOnScale
<1>1. ScoringTypeOK => ScoreOnScale
  <2> SUFFICES ASSUME ScoringTypeOK
               PROVE  ScoreOnScale
    OBVIOUS
  <2>1. Offers(scorer, evidence)
    BY DEF ScoringTypeOK, Offers
  <2>2. ASSUME scorer \in Components, NEW r \in ComponentResult(scorer, evidence)
        PROVE  OnItsScale(r)
    <3>1. CASE scorer \in Weighed
      <4>1. PICK S : Signals(scorer, S) /\ ComponentResult(scorer, evidence) \subseteq {Weighted(scorer, S)}
        BY <2>1, <3>1, WeighedJudges
      <4>2. r = Weighted(scorer, S)
        BY <2>2, <4>1
      <4> QED
        BY <3>1, <4>1, <4>2, WeightedOnScale
    <3>2. CASE scorer = "business_catalyst"
      <4>1. ComponentResult(scorer, evidence) = CatalystScore(evidence)
        BY <3>2 DEF ComponentResult
      <4> QED
        BY <2>1, <2>2, <3>2, <4>1, CatalystOnScale
    <3> QED
      BY <2>2, <3>1, <3>2 DEF Components
  <2>3. ASSUME scorer = "confidence"
        PROVE  NotAbove(Confidence(evidence), Whole(1))
    BY <2>1, <2>3, ConfidenceOnScale
  <2> QED
    BY <2>2, <2>3 DEF ScoreOnScale, OnItsScale, Slack
<1> QED
  BY <1>1, ScoringTyped, PTL

=============================================================================
