----------------------------- MODULE HostProofs ------------------------------
(* What the analyses of the host compute, whatever their inputs: a lock of the    *)
(* PulseView decoder goes back to evidence of its own, a time of day is put on    *)
(* its day, the bisection of a series finds what a look at every point would, and *)
(* most of a group outvote an outlier, so that the board that is off is flagged.  *)
EXTENDS HostSide, SequenceTheorems, FiniteSetTheorems, WellFoundedInduction, TLAPS

\* An input of a case is a sequence of what the case may grow by.
InputOK == input \in Seq(Elements[case])

LEMMA InputBegins == Init => InputOK
<1> SUFFICES ASSUME Init PROVE InputOK
  OBVIOUS
<1>1. input = <<>>
  BY DEF Init, InputInit
<1> QED BY <1>1 DEF InputOK

LEMMA InputGrows == InputOK /\ [Next]_vars => InputOK'
<1> SUFFICES ASSUME InputOK, [Next]_vars PROVE InputOK'
  OBVIOUS
<1>1. CASE Grow
  <2>1. PICK e \in Elements[case] : input' = Append(input, e)
    BY <1>1 DEF Grow
  <2>2. case' = case
    BY <1>1 DEF Grow
  <2> QED BY <2>1, <2>2, AppendProperties DEF InputOK
<1>2. CASE UNCHANGED inputVars
  BY <1>2 DEF InputOK, inputVars
<1>3. Grow \/ UNCHANGED inputVars
  BY DEF Next, vars
<1> QED BY <1>1, <1>2, <1>3

LEMMA InputsGrow == Spec => []InputOK
BY InputBegins, InputGrows, PTL DEF Spec

\* A set of natural numbers that is not empty has a least one.
LEMMA LeastNumber ==
  ASSUME NEW T \in SUBSET Nat, T # {}
  PROVE  \E x \in T : \A y \in T : x <= y
<1>1. \E x \in T : \A y \in T : ~(<<y, x>> \in OpToRel(<, Nat))
  BY NatLessThanWellFounded, WFMin, Zenon
<1>2. PICK x \in T : \A y \in T : ~(<<y, x>> \in OpToRel(<, Nat))
  BY <1>1
<1>3. \A y \in T : ~(y < x)
  BY <1>2 DEF OpToRel
<1> QED BY <1>3
------------------------------------------------------------------------------
\* The locks of the PulseView decoder.

\* The lag each of the first n windows leaves for the next one.
Chained(p, s, n) ==
  p = [k \in 0..n |-> IF k = 0 THEN None ELSE Judged(p[k - 1], s[k]).prev]

HIDE DEF Judged

\* The lags follow from the windows.
LEMMA ChainExists ==
  ASSUME NEW s
  PROVE  \A n \in Nat : \E p : Chained(p, s, n)
<1> DEFINE Broken == {n \in Nat : ~(\E p : Chained(p, s, n))}
<1> SUFFICES ASSUME Broken # {} PROVE FALSE
  OBVIOUS
<1>1. PICK n \in Broken : \A m \in Broken : n <= m
  BY LeastNumber, Zenon
<1>2. CASE n = 0
  <2>1. Chained([k \in 0..0 |-> None], s, 0)
    BY DEF Chained
  <2> QED BY <1>1, <1>2, <2>1
<1>3. CASE n # 0
  <2>1. n - 1 \in Nat /\ n - 1 \notin Broken
    BY <1>1, <1>3
  <2>2. PICK q : Chained(q, s, n - 1)
    BY <2>1
  <2> DEFINE p == [k \in 0..n |-> IF k = n THEN Judged(q[n - 1], s[n]).prev ELSE q[k]]
  <2>3. ASSUME NEW k \in 0..n
        PROVE  p[k] = IF k = 0 THEN None ELSE Judged(p[k - 1], s[k]).prev
    <3>1. CASE k = n
      <4>1. p[k - 1] = q[n - 1]
        BY <3>1, <1>1, <1>3
      <4> QED BY <3>1, <4>1, <1>1, <1>3
    <3>2. CASE k # n
      <4>1. k \in 0..n - 1
        BY <3>2, <1>1
      <4>2. p[k] = q[k] /\ (k # 0 => p[k - 1] = q[k - 1])
        BY <4>1, <1>1, <3>2
      <4> QED BY <4>1, <4>2, <2>2 DEF Chained
    <3> QED BY <3>1, <3>2
  <2>4. p = [k \in 0..n |-> p[k]]
    BY Zenon
  <2>5. Chained(p, s, n)
    BY <2>3, <2>4, Zenon DEF Chained
  <2> QED BY <1>1, <2>5
<1> QED BY <1>2, <1>3

\* A window is accepted, with the lag p before it.
Locked(p, s, k) == Judged(p[k - 1], s[k]).ok

\* The windows accepted up to k go back to one that stood clear by itself.
Evident(p, s, k) ==
  \E j \in 1..k :
    /\ Locked(p, s, j) /\ s[j].clear
    /\ \A m \in j..k : s[m].silent \/ Locked(p, s, m)

\* A window that stood clear is its own evidence, and silence or an accepted window
\* keeps the evidence there is.
LEMMA EvidenceGrows ==
  ASSUME NEW p, NEW s, NEW k \in Nat, k # 0,
         s[k].silent \/ Locked(p, s, k),
         \/ Locked(p, s, k) /\ s[k].clear
         \/ Evident(p, s, k - 1)
  PROVE  Evident(p, s, k)
<1>1. CASE Locked(p, s, k) /\ s[k].clear
  <2>1. k \in 1..k
    OBVIOUS
  <2>3. \A m \in k..k : m = k
    OBVIOUS
  <2> QED BY <1>1, <2>1, <2>3 DEF Evident
<1>2. CASE Evident(p, s, k - 1)
  <2>1. PICK j \in 1..k - 1 :
               /\ Locked(p, s, j) /\ s[j].clear
               /\ \A m \in j..k - 1 : s[m].silent \/ Locked(p, s, m)
    BY <1>2 DEF Evident
  <2>2. j \in 1..k /\ \A m \in j..k : m = k \/ m \in j..k - 1
    OBVIOUS
  <2> QED BY <2>1, <2>2 DEF Evident
<1> QED BY <1>1, <1>2

\* What a judgement leaves: a lag only if the window was accepted, or silent and the lag
\* was there; and it accepts only what stands clear or follows a lag.
LEMMA JudgementIsEarned ==
  ASSUME NEW lag, NEW w
  PROVE  /\ Judged(lag, w).ok => w.clear \/ lag # None
         /\ Judged(lag, w).prev # None => Judged(lag, w).ok \/ (w.silent /\ lag # None)
BY DEF Judged

\* A lag that is carried on, or a window that is accepted, has evidence.
LEMMA LagsHaveEvidence ==
  ASSUME NEW s, NEW n \in Nat, NEW p, Chained(p, s, n)
  PROVE  \A k \in 1..n : p[k] # None \/ Locked(p, s, k) => Evident(p, s, k)
<1> DEFINE Bare == {k \in 1..n : p[k] # None /\ ~Evident(p, s, k)}
<1>1. p[0] = None /\ \A k \in 1..n : p[k] = Judged(p[k - 1], s[k]).prev
  BY DEF Chained
<1>2. ASSUME NEW k \in 1..n, k - 1 \notin Bare, p[k] # None \/ Locked(p, s, k)
      PROVE  Evident(p, s, k)
  <2>1. p[k - 1] # None => Evident(p, s, k - 1)
    <3>1. CASE k = 1
      BY <3>1, <1>1
    <3>2. CASE k # 1
      BY <3>2, <1>2
    <3> QED BY <3>1, <3>2
  <2>2. Locked(p, s, k) \/ (s[k].silent /\ p[k - 1] # None)
    BY <1>1, <1>2, JudgementIsEarned DEF Locked
  <2>3. Locked(p, s, k) => s[k].clear \/ p[k - 1] # None
    BY JudgementIsEarned DEF Locked
  <2> QED BY <2>1, <2>2, <2>3, EvidenceGrows
<1>3. Bare = {}
  <2> SUFFICES ASSUME Bare # {} PROVE FALSE
    OBVIOUS
  <2>3. Bare \in SUBSET Nat
    OBVIOUS
  <2>1. PICK k \in Bare : \A m \in Bare : k <= m
    BY <2>3, LeastNumber, Zenon
  <2>2. k \in 1..n /\ k - 1 \notin Bare
    BY <2>1
  <2> QED BY <2>1, <2>2, <1>2
<1> QED BY <1>2, <1>3

\* Whatever the windows show, a lock of the decoder goes back, with no rejection in
\* between, to a window that stood clear by itself (pd.py, report_window).
THEOREM LocksHaveEvidence == Spec => []LockHasEvidence
<1>1. InputOK => LockHasEvidence
  <2> SUFFICES ASSUME InputOK PROVE LockHasEvidence
    OBVIOUS
  <2> DEFINE p == CHOOSE p : Chained(p, input, Len(input))
  <2>1. Len(input) \in Nat /\ DOMAIN input = 1..Len(input)
    BY LenProperties DEF InputOK
  <2>2. Chained(p, input, Len(input))
    BY <2>1, ChainExists
  <2>3. \A k \in DOMAIN input : Locked(p, input, k) => Evident(p, input, k)
    BY <2>1, <2>2, LagsHaveEvidence
  <2> QED BY <2>3, Zenon DEF LockHasEvidence, Chained, Locked, Evident
<1> QED BY <1>1, InputsGrow, PTL
------------------------------------------------------------------------------
\* Times of day.

\* A whole number of days more or less is that many days, of the same sign.
LEMMA DaysAreWhole ==
  ASSUME NEW d \in Nat \ {0}, NEW j \in Int
  PROVE  /\ j * d \in Int
         /\ j >= 2 => j * d >= 2 * d
         /\ j <= -2 => j * d <= -(2 * d)
<1>1. j * d \in Int
  OBVIOUS
<1>2. ASSUME j >= 2 PROVE j * d >= 2 * d
  <2>1. (j - 2) * d >= 0 /\ (j - 2) * d = j * d - 2 * d
    BY <1>2
  <2> QED BY <2>1, <1>1
<1>3. ASSUME j <= -2 PROVE j * d <= -(2 * d)
  <2>1. (-2 - j) * d >= 0 /\ (-2 - j) * d = -(2 * d) - j * d
    BY <1>3
  <2> QED BY <2>1, <1>1
<1> QED BY <1>1, <1>2, <1>3

\* A time is so many days and a time of day.
LEMMA TimeOfDay ==
  ASSUME NEW d \in Nat \ {0}, NEW x \in Int
  PROVE  /\ x % d \in 0..d - 1 /\ x \div d \in Int
         /\ (x \div d) * d + (x % d) = x
OBVIOUS

\* A time within half a day of a reference is found from its time of day.
LEMMA TodFindsTheDay ==
  ASSUME NEW x \in Int, NEW ref \in Int, 2 * Dist(x, ref) < Day
  PROVE  TodToUnix(x % Day, ref) = x
<1> USE AnalysisAssumption
<1> DEFINE t == x % Day
           u == ref % Day
           j == (x \div Day) - (ref \div Day)
           on(k) == ref - u + k * Day + t
<1>1. /\ t \in 0..Day - 1 /\ u \in 0..Day - 1
      /\ x = (x \div Day) * Day + t
      /\ ref = (ref \div Day) * Day + u
      /\ x \div Day \in Int /\ ref \div Day \in Int
  BY TimeOfDay
<1>2. j \in Int /\ j * Day = (x \div Day) * Day - (ref \div Day) * Day
  BY <1>1
<1>3. x = ref - u + j * Day + t
  BY <1>1, <1>2, DaysAreWhole
<1> HIDE DEF t, u, j
<1>4. j * Day \in Int
      /\ (j >= 2 => j * Day >= 2 * Day) /\ (j <= -2 => j * Day <= -(2 * Day))
  BY <1>2, DaysAreWhole
<1>5. j \in -1..1
  <2>1. ~(j >= 2)
    BY <1>1, <1>3, <1>4 DEF Dist
  <2>2. ~(j <= -2)
    BY <1>1, <1>3, <1>4 DEF Dist
  <2> QED BY <1>2, <2>1, <2>2
<1>6. TodToUnix(t, ref) =
        LET nearer(best, cand) == IF Dist(cand, ref) < Dist(best, ref) THEN cand ELSE best
        IN  nearer(nearer(on(-1), on(0)), on(1))
  BY DEF TodToUnix, u
<1>7. /\ on(-1) = ref - u - Day + t /\ on(0) = ref - u + t /\ on(1) = ref - u + Day + t
  BY <1>1
<1>8. TodToUnix(t, ref) = x
  <2>1. CASE j = -1
    BY <2>1, <1>1, <1>3, <1>6, <1>7 DEF Dist
  <2>2. CASE j = 0
    BY <2>2, <1>1, <1>3, <1>6, <1>7 DEF Dist
  <2>3. CASE j = 1
    BY <2>3, <1>1, <1>3, <1>6, <1>7 DEF Dist
  <2> QED BY <1>5, <2>1, <2>2, <2>3
<1> QED BY <1>8 DEF t

\* Whatever the clocks say, a time of day within half a day of the reference is put on
\* the right day, at midnight too (i2s-skew.py, tod_to_unix).
THEOREM TodsRoundTrip == Spec => []TodRoundTrip
<1>1. InputOK => TodRoundTrip
  <2> SUFFICES ASSUME InputOK, case = "clock", Len(input) = 2, 2 * Dist(input[1], input[2]) < Day
               PROVE  TodToUnix(input[1] % Day, input[2]) = input[1]
    BY DEF TodRoundTrip
  <2>1. input[1] \in Int /\ input[2] \in Int
    BY AnalysisAssumption, ElementOfSeq DEF InputOK
  <2> QED BY <2>1, TodFindsTheDay
<1> QED BY <1>1, InputsGrow, PTL
------------------------------------------------------------------------------
\* Bisection.

\* A series of points whose times never decrease.
InOrder(s) ==
  /\ Len(s) \in Nat /\ DOMAIN s = 1..Len(s)
  /\ \A i \in 1..Len(s) : s[i][1] \in Int
  /\ \A i, j \in 1..Len(s) : i <= j => s[i][1] <= s[j][1]

\* The intervals of the first n rounds.
Halving(p, s, t, lo, hi, n) ==
  p = [k \in 0..n |-> IF k = 0 THEN <<lo, hi>> ELSE Halved(s, t, p[k - 1])]

\* An interval that still holds the first point that is not before t.
Brackets(s, t, lo, hi, left) ==
  /\ left \in Int \X Int
  /\ lo <= left[1] /\ left[1] <= left[2] /\ left[2] <= hi
  /\ \A j \in lo..left[1] - 1 : s[j][1] < t
  /\ \A j \in left[2]..hi - 1 : s[j][1] >= t

\* A round keeps the bracket, and shortens one that is not a point yet.
LEMMA RoundBrackets ==
  ASSUME NEW s, InOrder(s), NEW t \in Int, NEW lo \in 1..Len(s) + 1, NEW hi \in lo..Len(s) + 1,
         NEW left, Brackets(s, t, lo, hi, left)
  PROVE  /\ Brackets(s, t, lo, hi, Halved(s, t, left))
         /\ LET next == Halved(s, t, left)
            IN  next[2] - next[1] < left[2] - left[1] \/ next[1] = next[2]
<1> DEFINE a == left[1]
           b == left[2]
           mid == (a + b) \div 2
<1>1. a \in Int /\ b \in Int /\ lo <= a /\ a <= b /\ b <= hi /\ left = <<a, b>>
  BY DEF Brackets
<1>2. Len(s) \in Nat
  BY DEF InOrder
<1>3. CASE a >= b
  <2>1. Halved(s, t, left) = left
    BY <1>3 DEF Halved
  <2> QED BY <2>1, <1>1, <1>3
<1>4. CASE a < b
  <2>1. mid \in Int /\ a <= mid /\ mid < b
    <3> HIDE DEF a, b
    <3> QED BY <1>1, <1>4
  <2>2. mid \in 1..Len(s) /\ s[mid][1] \in Int
    BY <2>1, <1>1, <1>2 DEF InOrder
  <2>3. \A i \in 1..Len(s) : s[i][1] \in Int
        /\ (i <= mid => s[i][1] <= s[mid][1]) /\ (mid <= i => s[mid][1] <= s[i][1])
    BY <2>2 DEF InOrder
  <2>6. Halved(s, t, left) = IF s[mid][1] < t THEN <<mid + 1, b>> ELSE <<a, mid>>
    <3>1. ~(left[1] >= left[2])
      BY <1>4, <1>1
    <3> QED BY <3>1, Zenon DEF Halved
  <2> HIDE DEF mid
  <2>4. CASE s[mid][1] < t
    <3>1. Halved(s, t, left) = <<mid + 1, b>>
      BY <2>4, <2>6
    <3>2. ASSUME NEW j \in lo..mid PROVE s[j][1] < t
      <4>1. j \in 1..Len(s) /\ j <= mid
        BY <2>2, <1>2
      <4> QED BY <4>1, <2>2, <2>3, <2>4
    <3>3. \A j \in b..hi - 1 : s[j][1] >= t
      BY DEF Brackets
    <3>4. \A j \in lo..(mid + 1) - 1 : s[j][1] < t
      BY <3>2, <2>1
    <3> HIDE DEF a, b
    <3>5. <<mid + 1, b>> \in Int \X Int /\ lo <= mid + 1 /\ mid + 1 <= b /\ b <= hi
      BY <2>1, <1>1
    <3>6. Brackets(s, t, lo, hi, <<mid + 1, b>>)
      BY <3>3, <3>4, <3>5 DEF Brackets
    <3>7. b - (mid + 1) < b - a
      BY <2>1, <1>1
    <3> QED BY <3>1, <3>6, <3>7 DEF a, b
  <2>5. CASE ~(s[mid][1] < t)
    <3>1. Halved(s, t, left) = <<a, mid>>
      BY <2>5, <2>6
    <3>2. ASSUME NEW j \in mid..hi - 1 PROVE s[j][1] >= t
      <4>1. j \in 1..Len(s) /\ mid <= j
        BY <2>2, <1>2
      <4> QED BY <4>1, <2>2, <2>3, <2>5
    <3>3. \A j \in lo..a - 1 : s[j][1] < t
      BY DEF Brackets
    <3> HIDE DEF a, b
    <3>5. <<a, mid>> \in Int \X Int /\ lo <= a /\ a <= mid /\ mid <= hi
      BY <2>1, <1>1
    <3>6. Brackets(s, t, lo, hi, <<a, mid>>)
      BY <3>2, <3>3, <3>5 DEF Brackets
    <3>7. mid - a < b - a
      BY <2>1, <1>1
    <3> QED BY <3>1, <3>6, <3>7 DEF a, b
  <2> QED BY <2>4, <2>5
<1> QED BY <1>1, <1>3, <1>4

HIDE DEF Halved, Brackets

\* The rounds follow from the first interval.
LEMMA HalvingExists ==
  ASSUME NEW s, NEW t, NEW lo, NEW hi
  PROVE  \A n \in Nat : \E p : Halving(p, s, t, lo, hi, n)
<1> DEFINE Broken == {n \in Nat : ~(\E p : Halving(p, s, t, lo, hi, n))}
<1> SUFFICES ASSUME Broken # {} PROVE FALSE
  OBVIOUS
<1>1. PICK n \in Broken : \A m \in Broken : n <= m
  BY LeastNumber, Zenon
<1>2. CASE n = 0
  <2>1. Halving([k \in 0..0 |-> <<lo, hi>>], s, t, lo, hi, 0)
    BY DEF Halving
  <2> QED BY <1>1, <1>2, <2>1
<1>3. CASE n # 0
  <2>1. n - 1 \in Nat /\ n - 1 \notin Broken
    BY <1>1, <1>3
  <2>2. PICK q : Halving(q, s, t, lo, hi, n - 1)
    BY <2>1
  <2> DEFINE p == [k \in 0..n |-> IF k = n THEN Halved(s, t, q[n - 1]) ELSE q[k]]
  <2>3. ASSUME NEW k \in 0..n
        PROVE  p[k] = IF k = 0 THEN <<lo, hi>> ELSE Halved(s, t, p[k - 1])
    <3>1. CASE k = n
      <4>1. p[k - 1] = q[n - 1]
        BY <3>1, <1>1, <1>3
      <4> QED BY <3>1, <4>1, <1>1, <1>3
    <3>2. CASE k # n
      <4>1. k \in 0..n - 1
        BY <3>2, <1>1
      <4>2. p[k] = q[k] /\ (k # 0 => p[k - 1] = q[k - 1])
        BY <4>1, <1>1, <3>2
      <4> QED BY <4>1, <4>2, <2>2 DEF Halving
    <3> QED BY <3>1, <3>2
  <2>4. p = [k \in 0..n |-> p[k]]
    BY Zenon
  <2>5. Halving(p, s, t, lo, hi, n)
    BY <2>3, <2>4, Zenon DEF Halving
  <2> QED BY <1>1, <2>5
<1> QED BY <1>2, <1>3

\* Every round brackets the first point that is not before t, more tightly.
LEMMA RoundsBracket ==
  ASSUME NEW s, InOrder(s), NEW t \in Int, NEW lo \in 1..Len(s) + 1, NEW hi \in lo..Len(s) + 1,
         NEW n \in Nat, NEW p, Halving(p, s, t, lo, hi, n)
  PROVE  \A k \in 0..n : /\ Brackets(s, t, lo, hi, p[k])
                         /\ p[k][2] - p[k][1] <= hi - lo - k \/ p[k][1] = p[k][2]
<1> DEFINE Good(k) == /\ Brackets(s, t, lo, hi, p[k])
                      /\ p[k][2] - p[k][1] <= hi - lo - k \/ p[k][1] = p[k][2]
           Bad == {k \in 0..n : ~Good(k)}
<1>1. p[0] = <<lo, hi>> /\ \A k \in 1..n : p[k] = Halved(s, t, p[k - 1])
  BY DEF Halving
<1>2. Len(s) \in Nat
  BY DEF InOrder
<1>3. Good(0)
  <2>1. Brackets(s, t, lo, hi, <<lo, hi>>)
    BY <1>2 DEF Brackets
  <2> QED BY <1>1, <1>2, <2>1
<1>4. ASSUME NEW k \in 1..n, Good(k - 1) PROVE Good(k)
  <2> DEFINE x == p[k - 1]
             y == p[k]
  <2>1. y = Halved(s, t, x) /\ Brackets(s, t, lo, hi, x)
    BY <1>1, <1>4
  <2>2. Brackets(s, t, lo, hi, y) /\ (y[2] - y[1] < x[2] - x[1] \/ y[1] = y[2])
    <3> HIDE DEF x, y
    <3> QED BY <2>1, RoundBrackets
  <2>3. y \in Int \X Int /\ x \in Int \X Int /\ y[1] <= y[2]
    BY <2>1, <2>2 DEF Brackets
  <2>4. x[2] - x[1] <= hi - lo - (k - 1) \/ x[1] = x[2]
    BY <1>4
  <2>5. y[2] - y[1] <= hi - lo - k \/ y[1] = y[2]
    <3> HIDE DEF x, y
    <3> QED BY <2>2, <2>3, <2>4, <1>2
  <2> QED BY <2>2, <2>5
<1> HIDE DEF Good
<1>5. Bad = {}
  <2> SUFFICES ASSUME Bad # {} PROVE FALSE
    OBVIOUS
  <2>1. Bad \in SUBSET Nat
    OBVIOUS
  <2>2. PICK k \in Bad : \A m \in Bad : k <= m
    BY <2>1, LeastNumber, Zenon
  <2>3. k # 0
    BY <1>3, <2>2
  <2>4. k \in 1..n /\ k - 1 \in 0..n /\ k - 1 \notin Bad
    BY <2>2, <2>3
  <2> QED BY <1>4, <2>2, <2>4
<1>6. \A k \in 0..n : Good(k)
  BY <1>5
<1> QED BY <1>6 DEF Good
\* Bisection ends at the first point of its interval that is not before t.
LEMMA BisectionFinds ==
  ASSUME NEW s, InOrder(s), NEW t \in Int, NEW lo \in 1..Len(s) + 1, NEW hi \in lo..Len(s) + 1
  PROVE  LET i == BisectLeft(s, t, lo, hi)
         IN  /\ i \in lo..hi
             /\ \A j \in lo..i - 1 : s[j][1] < t
             /\ \A j \in i..hi - 1 : s[j][1] >= t
<1> DEFINE n == hi - lo
           p == CHOOSE p : Halving(p, s, t, lo, hi, n)
<1>1. n \in Nat /\ Len(s) \in Nat
  BY DEF InOrder
<1>2. Halving(p, s, t, lo, hi, n)
  <2> HIDE DEF n
  <2> QED BY <1>1, HalvingExists, Zenon
<1>3. BisectLeft(s, t, lo, hi) = p[n][1]
  BY Zenon DEF BisectLeft, Halving
<1> HIDE DEF p
<1>4. Brackets(s, t, lo, hi, p[n]) /\ (p[n][2] - p[n][1] <= hi - lo - n \/ p[n][1] = p[n][2])
  <2> HIDE DEF n
  <2> QED BY <1>1, <1>2, RoundsBracket
<1>5. p[n] \in Int \X Int /\ lo <= p[n][1] /\ p[n][1] <= p[n][2] /\ p[n][2] <= hi
  BY <1>4 DEF Brackets
<1>6. p[n][1] = p[n][2]
  <2> DEFINE x == p[n]
  <2>1. x[2] - x[1] <= hi - lo - n \/ x[1] = x[2]
    BY <1>4
  <2>2. x[1] \in Int /\ x[2] \in Int /\ x[1] <= x[2]
    BY <1>5
  <2>3. hi - lo - n = 0
    BY <1>1
  <2> HIDE DEF x, n
  <2>4. x[1] = x[2]
    BY <2>1, <2>2, <2>3
  <2> QED BY <2>4 DEF x
<1> QED BY <1>3, <1>4, <1>5, <1>6 DEF Brackets

HIDE DEF BisectLeft

\* The point with the least distance.
Closest(s, t, i) ==
  i \in 1..Len(s) /\ \A j \in 1..Len(s) : Dist(s[i][1], t) <= Dist(s[j][1], t)

\* Of two neighbours that t lies between, one is the nearest.
LEMMA NeighboursAreNearest ==
  ASSUME NEW s, InOrder(s), NEW t \in Int, NEW i \in 1..Len(s) + 1,
         \A j \in 1..i - 1 : s[j][1] < t,
         i <= Len(s) => s[i][1] >= t \/ i = Len(s),
         NEW j \in 1..Len(s)
  PROVE  /\ j < i => Dist(s[i - 1][1], t) <= Dist(s[j][1], t)
         /\ j >= i => Dist(s[i][1], t) <= Dist(s[j][1], t)
<1>1. Len(s) \in Nat /\ s[j][1] \in Int
  BY DEF InOrder
<1>2. ASSUME j < i PROVE Dist(s[i - 1][1], t) <= Dist(s[j][1], t)
  <2>1. i - 1 \in 1..Len(s) /\ j <= i - 1
    BY <1>1, <1>2
  <2>2. s[i - 1][1] \in Int /\ s[j][1] <= s[i - 1][1] /\ s[i - 1][1] < t
    BY <2>1 DEF InOrder
  <2> QED BY <1>1, <2>2 DEF Dist
<1>3. ASSUME j >= i PROVE Dist(s[i][1], t) <= Dist(s[j][1], t)
  <2>1. i \in 1..Len(s)
    BY <1>1, <1>3
  <2>2. s[i][1] \in Int /\ s[i][1] <= s[j][1]
    BY <2>1, <1>3 DEF InOrder
  <2>3. CASE s[i][1] >= t
    BY <1>1, <2>2, <2>3 DEF Dist
  <2>4. CASE i = Len(s)
    <3>1. j = i
      BY <1>1, <1>3, <2>4
    <3> QED BY <3>1, <2>2 DEF Dist
  <2> QED BY <2>1, <2>3, <2>4
<1> QED BY <1>2, <1>3

\* The distances of a series are numbers.
LEMMA DistancesAreNumbers ==
  ASSUME NEW s, InOrder(s), NEW t \in Int
  PROVE  \A i \in 1..Len(s) : Dist(s[i][1], t) \in Int
BY DEF InOrder, Dist

\* What bisection finds of a series that is not empty is a point nearest to t.
THEOREM NearestAtIsNearest ==
  ASSUME NEW s, InOrder(s), s # <<>>, Len(s) # 0, NEW t \in Int
  PROVE  \E i \in 1..Len(s) : NearestAt(s, t) = s[i] /\ Closest(s, t, i)
<1> DEFINE i == BisectLeft(s, t, 1, Len(s))
<1>1. Len(s) \in Nat /\ 1 \in 1..Len(s) + 1 /\ Len(s) \in 1..Len(s) + 1
  BY DEF InOrder
<1>2. /\ i \in 1..Len(s)
      /\ \A j \in 1..i - 1 : s[j][1] < t
      /\ \A j \in i..Len(s) - 1 : s[j][1] >= t
  BY <1>1, BisectionFinds
<1>3. NearestAt(s, t) = IF i > 1 /\ Dist(s[i - 1][1], t) < Dist(s[i][1], t) THEN s[i - 1] ELSE s[i]
  BY DEF NearestAt
<1> HIDE DEF i
<1>4. i \in 1..Len(s) + 1 /\ (i <= Len(s) => s[i][1] >= t \/ i = Len(s))
  BY <1>1, <1>2
<1>5. \A j \in 1..Len(s) : /\ j < i => Dist(s[i - 1][1], t) <= Dist(s[j][1], t)
                           /\ j >= i => Dist(s[i][1], t) <= Dist(s[j][1], t)
  BY <1>2, <1>4, NeighboursAreNearest
<1>6. \A j \in 1..Len(s) : Dist(s[j][1], t) \in Int
  BY DistancesAreNumbers
<1> HIDE DEF Dist
<1>7. CASE i > 1 /\ Dist(s[i - 1][1], t) < Dist(s[i][1], t)
  <2>1. i - 1 \in 1..Len(s)
    BY <1>1, <1>2, <1>7
  <2>2. ASSUME NEW j \in 1..Len(s) PROVE Dist(s[i - 1][1], t) <= Dist(s[j][1], t)
    BY <1>2, <1>5, <1>6, <1>7, <2>1
  <2> QED BY <1>3, <1>7, <2>1, <2>2 DEF Closest
<1>8. CASE ~(i > 1 /\ Dist(s[i - 1][1], t) < Dist(s[i][1], t))
  <2>1. ASSUME NEW j \in 1..Len(s) PROVE Dist(s[i][1], t) <= Dist(s[j][1], t)
    <3>1. CASE j >= i
      BY <3>1, <1>5
    <3>2. CASE j < i
      <4>1. i - 1 \in 1..Len(s) /\ i > 1
        BY <1>1, <1>2, <3>2
      <4> QED BY <1>2, <1>5, <1>6, <1>8, <3>2, <4>1
    <3> QED BY <1>2, <3>1, <3>2
  <2> QED BY <1>2, <1>3, <1>8, <2>1 DEF Closest
<1> QED BY <1>7, <1>8

\* The value found is that of a point nearest to t, and there is none only if every
\* point is further than the tolerance.
THEOREM NearestValueIsNearest ==
  ASSUME NEW s, InOrder(s), NEW t \in Int, NEW tol \in Int
  PROVE  \/ /\ NearestValue(s, t, tol) = None
            /\ \A j \in 1..Len(s) : Dist(s[j][1], t) > tol
         \/ \E i \in 1..Len(s) : /\ NearestValue(s, t, tol) = s[i][2] /\ Closest(s, t, i)
                                 /\ Dist(s[i][1], t) <= tol
<1> DEFINE i == BisectLeft(s, t, 1, Len(s) + 1)
           far(j) == Dist(s[j][1], t)
           near == {j \in {i - 1, i} \intersect (1..Len(s)) : far(j) <= tol}
           best == CHOOSE j \in near : \A m \in near : far(j) < far(m) \/ (far(j) = far(m) /\ j <= m)
<1>1. Len(s) \in Nat /\ 1 \in 1..Len(s) + 1 /\ Len(s) + 1 \in 1..Len(s) + 1
  BY DEF InOrder
<1>2. /\ i \in 1..Len(s) + 1
      /\ \A j \in 1..i - 1 : s[j][1] < t
      /\ \A j \in i..(Len(s) + 1) - 1 : s[j][1] >= t
  BY <1>1, BisectionFinds
<1>3. NearestValue(s, t, tol) = IF near = {} THEN None ELSE s[best][2]
  BY Zenon DEF NearestValue
<1> HIDE DEF i
<1>4. i <= Len(s) => s[i][1] >= t \/ i = Len(s)
  BY <1>1, <1>2
<1>5. \A j \in 1..Len(s) : /\ j < i => far(i - 1) <= far(j)
                           /\ j >= i => far(i) <= far(j)
  BY <1>2, <1>4, NeighboursAreNearest
<1>6. \A j \in 1..Len(s) : far(j) \in Int
  BY DistancesAreNumbers
<1>7. \A j \in 1..Len(s) : /\ j < i => i - 1 \in 1..Len(s)
                           /\ j >= i => i \in 1..Len(s)
  BY <1>1, <1>2
<1> HIDE DEF far
<1>8. CASE near = {}
  <2>1. ASSUME NEW j \in 1..Len(s) PROVE far(j) > tol
    <3>1. CASE j < i
      <4>1. i - 1 \in 1..Len(s) /\ far(i - 1) <= far(j)
        BY <3>1, <1>5, <1>7
      <4>2. ~(far(i - 1) <= tol)
        BY <4>1, <1>8
      <4> QED BY <4>1, <4>2, <1>6
    <3>2. CASE j >= i
      <4>1. i \in 1..Len(s) /\ far(i) <= far(j)
        BY <3>2, <1>5, <1>7
      <4>2. ~(far(i) <= tol)
        BY <4>1, <1>8
      <4> QED BY <4>1, <4>2, <1>6
    <3> QED BY <1>2, <3>1, <3>2
  <2> QED BY <1>3, <1>8, <2>1 DEF far
<1>9. CASE near # {}
  <2>1. near \subseteq 1..Len(s) /\ near \subseteq {i - 1, i} /\ \A m \in near : far(m) \in Int /\ m \in Int
    BY <1>1, <1>6
  <2>2. \E j \in near : \A m \in near : far(j) < far(m) \/ (far(j) = far(m) /\ j <= m)
    <3>1. PICK a \in near : TRUE
      BY <1>9
    <3>2. CASE \A m \in near : far(a) < far(m) \/ (far(a) = far(m) /\ a <= m)
      BY <3>1, <3>2
    <3>3. CASE ~(\A m \in near : far(a) < far(m) \/ (far(a) = far(m) /\ a <= m))
      <4>1. PICK c \in near : ~(far(a) < far(c) \/ (far(a) = far(c) /\ a <= c))
        BY <3>3
      <4>2. a # c /\ \A m \in near : m = a \/ m = c
        BY <2>1, <3>1, <4>1
      <4>3. far(c) < far(a) \/ (far(c) = far(a) /\ c <= a)
        BY <2>1, <3>1, <4>1
      <4>4. \A m \in near : far(c) < far(m) \/ (far(c) = far(m) /\ c <= m)
        BY <2>1, <4>2, <4>3
      <4> QED BY <4>4
    <3> QED BY <3>2, <3>3
  <2>3. best \in near /\ \A m \in near : far(best) < far(m) \/ (far(best) = far(m) /\ best <= m)
    <3> HIDE DEF near
    <3> QED BY <2>2, Zenon
  <2> HIDE DEF best
  <2>4. best \in 1..Len(s) /\ far(best) <= tol /\ far(best) \in Int
    BY <2>1, <2>3
  <2>5. \A m \in near : far(best) <= far(m)
    BY <2>1, <2>3, <2>4
  <2>6. ASSUME NEW m \in {i - 1, i}, m \in 1..Len(s) PROVE far(best) <= far(m)
    <3>1. CASE far(m) <= tol
      BY <3>1, <2>5, <2>6
    <3>2. CASE ~(far(m) <= tol)
      BY <3>2, <2>4, <2>6, <1>6
    <3> QED BY <3>1, <3>2
  <2>7. ASSUME NEW j \in 1..Len(s) PROVE far(best) <= far(j)
    <3>1. CASE j < i
      <4>1. i - 1 \in 1..Len(s) /\ far(i - 1) <= far(j) /\ far(best) <= far(i - 1)
        BY <3>1, <1>5, <1>7, <2>6
      <4> QED BY <4>1, <1>6, <2>4
    <3>2. CASE j >= i
      <4>1. i \in 1..Len(s) /\ far(i) <= far(j) /\ far(best) <= far(i)
        BY <3>2, <1>5, <1>7, <2>6
      <4> QED BY <4>1, <1>6, <2>4
    <3> QED BY <1>2, <3>1, <3>2
  <2>8. Closest(s, t, best)
    BY <2>4, <2>7 DEF Closest, far
  <2>9. NearestValue(s, t, tol) = s[best][2]
    <3> HIDE DEF near
    <3> QED BY <1>3, <1>9
  <2> QED BY <2>4, <2>8, <2>9 DEF far
<1> QED BY <1>8, <1>9

HIDE DEF NearestAt, NearestValue
\* The sums of the first n gaps.
Summed(p, gaps, n) ==
  p = [i \in 0..n |-> IF i = 0 THEN 0 ELSE p[i - 1] + gaps[i]]

\* The sums follow from the gaps.
LEMMA SumsExist ==
  ASSUME NEW gaps
  PROVE  \A n \in Nat : \E p : Summed(p, gaps, n)
<1> DEFINE Broken == {n \in Nat : ~(\E p : Summed(p, gaps, n))}
<1> SUFFICES ASSUME Broken # {} PROVE FALSE
  OBVIOUS
<1>1. PICK n \in Broken : \A m \in Broken : n <= m
  BY LeastNumber, Zenon
<1>2. CASE n = 0
  <2>1. Summed([k \in 0..0 |-> 0], gaps, 0)
    BY DEF Summed
  <2> QED BY <1>1, <1>2, <2>1
<1>3. CASE n # 0
  <2>1. n - 1 \in Nat /\ n - 1 \notin Broken
    BY <1>1, <1>3
  <2>2. PICK q : Summed(q, gaps, n - 1)
    BY <2>1
  <2> DEFINE p == [k \in 0..n |-> IF k = n THEN q[n - 1] + gaps[n] ELSE q[k]]
  <2>3. ASSUME NEW k \in 0..n
        PROVE  p[k] = IF k = 0 THEN 0 ELSE p[k - 1] + gaps[k]
    <3>1. CASE k = n
      <4>1. p[k - 1] = q[n - 1]
        BY <3>1, <1>1, <1>3
      <4> QED BY <3>1, <4>1, <1>1, <1>3
    <3>2. CASE k # n
      <4>1. k \in 0..n - 1
        BY <3>2, <1>1
      <4>2. p[k] = q[k] /\ (k # 0 => p[k - 1] = q[k - 1])
        BY <4>1, <1>1, <3>2
      <4> QED BY <4>1, <4>2, <2>2 DEF Summed
    <3> QED BY <3>1, <3>2
  <2>4. p = [k \in 0..n |-> p[k]]
    BY Zenon
  <2>5. Summed(p, gaps, n)
    BY <2>3, <2>4, Zenon DEF Summed
  <2> QED BY <1>1, <2>5
<1> QED BY <1>2, <1>3

\* Times never decrease where the gaps are not negative.
LEMMA TimesAreInOrder ==
  ASSUME NEW gaps \in Seq(Nat)
  PROVE  /\ DOMAIN Times(gaps) = 1..Len(gaps)
         /\ \A i \in 1..Len(gaps) : Times(gaps)[i] \in Nat
         /\ \A i, j \in 1..Len(gaps) : i <= j => Times(gaps)[i] <= Times(gaps)[j]
<1> DEFINE n == Len(gaps)
           p == CHOOSE p : Summed(p, gaps, n)
<1>1. n \in Nat /\ DOMAIN gaps = 1..n /\ \A i \in 1..n : gaps[i] \in Nat
  BY LenProperties, ElementOfSeq
<1>2. Summed(p, gaps, n)
  <2> HIDE DEF n
  <2> QED BY <1>1, SumsExist, Zenon
<1>3. Times(gaps) = [i \in DOMAIN gaps |-> p[i]]
  BY Zenon DEF Times, Summed
<1> HIDE DEF p, n
<1>4. p[0] = 0 /\ \A i \in 1..n : p[i] = p[i - 1] + gaps[i]
  BY <1>1, <1>2 DEF Summed
<1>5. \A i \in 0..n : p[i] \in Nat
  <2> DEFINE Bad == {i \in 0..n : p[i] \notin Nat}
  <2> SUFFICES ASSUME Bad # {} PROVE FALSE
    OBVIOUS
  <2>1. Bad \in SUBSET Nat
    BY <1>1
  <2>2. PICK i \in Bad : \A m \in Bad : i <= m
    BY <2>1, LeastNumber, Zenon
  <2>3. i \in 1..n /\ i - 1 \in 0..n /\ i - 1 \notin Bad
    BY <1>1, <1>4, <2>2
  <2>4. p[i - 1] \in Nat
    BY <2>3
  <2> QED BY <1>1, <1>4, <2>2, <2>3, <2>4
<1>6. \A i \in 0..n : \A j \in 0..n : i <= j => p[i] <= p[j]
  <2> SUFFICES ASSUME NEW i \in 0..n, NEW c \in 0..n, i <= c, ~(p[i] <= p[c]) PROVE FALSE
    BY Zenon
  <2> DEFINE Bad == {j \in 0..n : i <= j /\ ~(p[i] <= p[j])}
  <2>1. Bad \in SUBSET Nat /\ c \in Bad
    BY <1>1
  <2>2. PICK j \in Bad : \A m \in Bad : j <= m
    BY <2>1, LeastNumber, Zenon
  <2>3. j # i
    BY <1>5, <2>2
  <2>4. j \in 1..n /\ j - 1 \in 0..n /\ i <= j - 1 /\ j - 1 \notin Bad
    BY <1>1, <2>2, <2>3
  <2>5. p[i] <= p[j - 1]
    BY <2>4
  <2>6. p[i] \in Nat /\ p[j - 1] \in Nat /\ gaps[j] \in Nat /\ p[j] = p[j - 1] + gaps[j]
    BY <1>1, <1>4, <1>5, <2>4
  <2>7. ~(p[i] <= p[j])
    BY <2>2
  <2> QED BY <2>5, <2>6, <2>7
<1>7. DOMAIN Times(gaps) = 1..n /\ \A i \in 1..n : Times(gaps)[i] = p[i]
  BY <1>1, <1>3
<1> QED BY <1>1, <1>5, <1>6, <1>7 DEF n

HIDE DEF Times

\* The points of an input are in order.
LEMMA PointsAreInOrder ==
  ASSUME InputOK, case = "series"
  PROVE  InOrder(Pts) /\ Len(Pts) = Len(input)
<1> DEFINE gaps == [i \in DOMAIN input |-> input[i][1]]
           ts == Times(gaps)
<1>1. /\ Len(input) \in Nat /\ DOMAIN input = 1..Len(input)
      /\ \A i \in 1..Len(input) : input[i][1] \in Nat
  <2>1. input \in Seq(Elements["series"])
    BY DEF InputOK
  <2>2. Len(input) \in Nat /\ DOMAIN input = 1..Len(input)
    BY <2>1, LenProperties
  <2>3. \A i \in 1..Len(input) : input[i] \in Elements["series"]
    BY <2>1, ElementOfSeq
  <2> QED BY <2>2, <2>3, AnalysisAssumption
<1>2. gaps \in Seq(Nat) /\ Len(gaps) = Len(input)
  BY <1>1, IsASeq
<1>3. /\ \A i \in 1..Len(input) : ts[i] \in Nat
      /\ \A i, j \in 1..Len(input) : i <= j => ts[i] <= ts[j]
  <2> HIDE DEF gaps
  <2> QED BY <1>2, TimesAreInOrder
<1>4. Pts = [i \in DOMAIN input |-> <<ts[i], input[i][2]>>]
  BY DEF Pts
<1> HIDE DEF gaps, ts
<1>5. DOMAIN Pts = 1..Len(input) /\ \A i \in 1..Len(input) : Pts[i][1] = ts[i]
  BY <1>1, <1>4
<1>6. Len(Pts) = Len(input)
  <2> DEFINE f(i) == <<ts[i], input[i][2]>>
  <2>1. Pts = [i \in 1..Len(input) |-> f(i)]
    BY <1>1, <1>4
  <2> QED BY <1>1, <1>5, <2>1
<1> QED BY <1>1, <1>3, <1>5, <1>6 DEF InOrder

HIDE DEF Pts

\* The least of the distances is that of a closest point.
LEMMA LeastDistance ==
  ASSUME NEW s, InOrder(s), NEW t \in Int, NEW i, Closest(s, t, i)
  PROVE  Min({Dist(p[1], t) : p \in ToSet(s)}) = Dist(s[i][1], t)
<1> DEFINE D == {Dist(p[1], t) : p \in ToSet(s)}
           d == Dist(s[i][1], t)
<1>1. ToSet(s) = {s[j] : j \in 1..Len(s)}
  BY DEF ToSet, InOrder
<1>2. \A j \in 1..Len(s) : Dist(s[j][1], t) \in Int
  BY DistancesAreNumbers
<1> HIDE DEF Dist
<1>3. D \subseteq Int /\ d \in D /\ \A x \in D : d <= x
  BY <1>1, <1>2 DEF Closest
<1> HIDE DEF D, d
<1>4. \A x \in D : (\A y \in D : x <= y) => x = d
  BY <1>3
<1>5. Min(D) = d
  BY <1>3, <1>4 DEF Min
<1> QED BY <1>5 DEF D, d

\* Whatever the series, an empty cell of a table is a fact and none is stale: bisection
\* finds what a look at every point would, and nothing beyond the tolerance
\* (i2s-skew.py, nearest_at and nearest).
THEOREM NearestsAreNearest == Spec => []NearestIsNearest
<1>1. InputOK => NearestIsNearest
  <2> SUFFICES ASSUME InputOK, case = "series", input # <<>>, NEW t \in -1..Last(Pts)[1] + 1
               PROVE  LET far(p) == Dist(p[1], t)
                          least  == Min({far(p) : p \in ToSet(Pts)})
                          hit    == NearestValue(Pts, t, 2)
                      IN  /\ far(NearestAt(Pts, t)) = least
                          /\ IF least > 2 THEN hit = None
                             ELSE \E p \in ToSet(Pts) : far(p) = least /\ hit = p[2]
    BY DEF NearestIsNearest
  <2>1. InOrder(Pts) /\ Len(Pts) = Len(input)
    BY PointsAreInOrder
  <2>2. Len(Pts) \in Nat /\ Len(Pts) # 0 /\ Pts # <<>>
    <3>1. input \in Seq(Elements[case])
      BY DEF InputOK
    <3> QED BY <2>1, <3>1, EmptySeq, LenProperties DEF InOrder
  <2>3. t \in Int
    BY <2>1, <2>2 DEF InOrder, Last
  <2> HIDE DEF Dist
  <2> DEFINE least == Min({Dist(p[1], t) : p \in ToSet(Pts)})
  <2>4. Dist(NearestAt(Pts, t)[1], t) = least
    <3>1. PICK i \in 1..Len(Pts) : NearestAt(Pts, t) = Pts[i] /\ Closest(Pts, t, i)
      BY <2>1, <2>2, <2>3, NearestAtIsNearest
    <3>2. least = Dist(Pts[i][1], t)
      BY <2>1, <2>3, <3>1, LeastDistance
    <3> QED BY <3>1, <3>2
  <2>5. PICK i \in 1..Len(Pts) : NearestAt(Pts, t) = Pts[i] /\ Closest(Pts, t, i)
    BY <2>1, <2>2, <2>3, NearestAtIsNearest
  <2>6. least = Dist(Pts[i][1], t) /\ least \in Int
    <3>1. least = Dist(Pts[i][1], t)
      BY <2>1, <2>3, <2>5, LeastDistance
    <3>2. Dist(Pts[i][1], t) \in Int
      BY <2>1, <2>3, <2>5, DistancesAreNumbers
    <3> QED BY <3>1, <3>2
  <2> HIDE DEF least
  <2>7. IF least > 2 THEN NearestValue(Pts, t, 2) = None
        ELSE \E p \in ToSet(Pts) : Dist(p[1], t) = least /\ NearestValue(Pts, t, 2) = p[2]
    <3>1. CASE /\ NearestValue(Pts, t, 2) = None
               /\ \A j \in 1..Len(Pts) : Dist(Pts[j][1], t) > 2
      BY <2>5, <2>6, <3>1
    <3>2. ASSUME NEW j \in 1..Len(Pts), NearestValue(Pts, t, 2) = Pts[j][2], Closest(Pts, t, j),
                 Dist(Pts[j][1], t) <= 2
          PROVE  /\ ~(least > 2)
                 /\ \E p \in ToSet(Pts) : Dist(p[1], t) = least /\ NearestValue(Pts, t, 2) = p[2]
      <4>1. least = Dist(Pts[j][1], t)
        BY <2>1, <2>3, <3>2, LeastDistance DEF least
      <4>2. Pts[j] \in ToSet(Pts)
        BY <2>1 DEF ToSet, InOrder
      <4> QED BY <2>6, <3>2, <4>1, <4>2
    <3>3. 2 \in Int
      OBVIOUS
    <3> QED BY <2>1, <2>3, <3>1, <3>2, <3>3, NearestValueIsNearest
  <2> QED BY <2>4, <2>7, Zenon DEF least
<1> QED BY <1>1, InputsGrow, PTL

\* Together: what is looked up, placed or locked on is there.
THEOREM LookupsHold == Spec => []LookupsAreTrue
BY LocksHaveEvidence, TodsRoundTrip, NearestsAreNearest, PTL DEF LookupsAreTrue

------------------------------------------------------------------------------
\* Medians.

\* There are n numbers up to n, from 1, and below n, from 0.
LEMMA NumbersUpTo ==
  ASSUME NEW n \in Nat
  PROVE  /\ IsFiniteSet(1..n) /\ Cardinality(1..n) = n
         /\ IsFiniteSet(0..n - 1) /\ Cardinality(0..n - 1) = n
<1>1. IsFiniteSet(1..n) /\ Cardinality(1..n) = IF 1 > n THEN 0 ELSE n - 1 + 1
  BY FS_Interval
<1>2. n - 1 \in Int /\ 0 \in Int
  OBVIOUS
<1>3. IsFiniteSet(0..n - 1) /\ Cardinality(0..n - 1) = IF 0 > n - 1 THEN 0 ELSE (n - 1) - 0 + 1
  BY <1>2, FS_Interval
<1> QED BY <1>1, <1>3

\* Sorting puts fewer values before one of a sequence than there are.
LEMMA AheadIs ==
  ASSUME NEW s \in Seq(Int), NEW i \in DOMAIN s
  PROVE  /\ Ahead(s, i) \subseteq (1..Len(s)) \ {i} /\ IsFiniteSet(Ahead(s, i))
         /\ Cardinality(Ahead(s, i)) \in 0..Len(s) - 1
<1> DEFINE n == Len(s)
<1>1. n \in Nat /\ DOMAIN s = 1..n /\ i \in 1..n /\ s[i] \in Int
  OBVIOUS
<1>2. Ahead(s, i) \subseteq (1..n) \ {i}
  BY <1>1 DEF Ahead
<1> HIDE DEF n
<1>3. IsFiniteSet((1..n) \ {i}) /\ Cardinality((1..n) \ {i}) = n - 1
  <2>1. IsFiniteSet(1..n) /\ Cardinality(1..n) = n
    BY <1>1, NumbersUpTo
  <2> QED BY <1>1, <2>1, FS_RemoveElement
<1>4. IsFiniteSet(Ahead(s, i)) /\ Cardinality(Ahead(s, i)) <= n - 1
  BY <1>2, <1>3, FS_Subset
<1>5. Cardinality(Ahead(s, i)) \in Nat
  BY <1>4, FS_CardinalityType
<1> QED BY <1>1, <1>2, <1>4, <1>5 DEF n

\* No two values of a sequence have the same number before them.
LEMMA RanksDiffer ==
  ASSUME NEW s \in Seq(Int), NEW i \in DOMAIN s, NEW j \in DOMAIN s, i # j
  PROVE  Cardinality(Ahead(s, i)) # Cardinality(Ahead(s, j))
<1>1. \A c \in DOMAIN s : s[c] \in Int /\ c \in Int
  OBVIOUS
<1>2. ASSUME NEW a \in DOMAIN s, NEW b \in DOMAIN s, a \in Ahead(s, b)
      PROVE  Cardinality(Ahead(s, a)) < Cardinality(Ahead(s, b))
  <2>1. Ahead(s, a) \subseteq Ahead(s, b) /\ a \notin Ahead(s, a)
    BY <1>1, <1>2 DEF Ahead
  <2>2. /\ Cardinality(Ahead(s, a)) <= Cardinality(Ahead(s, b))
        /\ Cardinality(Ahead(s, a)) = Cardinality(Ahead(s, b)) => Ahead(s, a) = Ahead(s, b)
    BY <2>1, AheadIs, FS_Subset
  <2>3. Cardinality(Ahead(s, a)) \in Int /\ Cardinality(Ahead(s, b)) \in Int
    BY AheadIs
  <2> QED BY <1>2, <2>1, <2>2, <2>3
<1>3. i \in Ahead(s, j) \/ j \in Ahead(s, i)
  BY <1>1 DEF Ahead
<1>4. Cardinality(Ahead(s, i)) \in Int /\ Cardinality(Ahead(s, j)) \in Int
  BY AheadIs
<1> QED BY <1>2, <1>3, <1>4

\* Sorting has a k-th value: one with k - 1 before it.
LEMMA RankIsTaken ==
  ASSUME NEW s \in Seq(Int), NEW k \in 1..Len(s)
  PROVE  \E i \in DOMAIN s : Ranked(s, k) = s[i] /\ Cardinality(Ahead(s, i)) = k - 1
<1> DEFINE n == Len(s)
           place == [i \in 1..n |-> Cardinality(Ahead(s, i))]
<1>1. n \in Nat \ {0} /\ DOMAIN s = 1..n
  OBVIOUS
<1>2. \A i \in 1..n : place[i] \in 0..n - 1
  BY <1>1, AheadIs
<1>3. \A i, j \in 1..n : i # j => place[i] # place[j]
  BY <1>1, RanksDiffer
<1>4. /\ IsFiniteSet(1..n) /\ Cardinality(1..n) = n
      /\ IsFiniteSet(0..n - 1) /\ Cardinality(0..n - 1) = n
  <2> HIDE DEF n
  <2> QED BY <1>1, NumbersUpTo
<1>5. place \in Injection(1..n, 0..n - 1)
  BY <1>2, <1>3 DEF Injection, IsInjective
<1>6. place \in Surjection(1..n, 0..n - 1)
  <2> HIDE DEF place, n
  <2> QED BY <1>4, <1>5, FS_Injection
<1>7. k - 1 \in 0..n - 1
  BY <1>1
<1>8. \E i \in 1..n : place[i] = k - 1
  <2> HIDE DEF place
  <2> QED BY <1>6, <1>7 DEF Surjection
<1>9. \E i \in DOMAIN s : Cardinality(Ahead(s, i)) = k - 1
  BY <1>1, <1>8
<1> QED BY <1>9 DEF Ranked

\* The places of a sequence whose values are in a set.
Places(s, vs) == {i \in DOMAIN s : s[i] \in vs}

\* What more than half of the values are bounded by bounds the middle ones.
LEMMA MajorityBoundsTheMiddle ==
  ASSUME NEW s \in Seq(Int), NEW k \in 1..Len(s), Len(s) <= 2 * k, 2 * (k - 1) <= Len(s),
         NEW lo \in Int, NEW hi \in Int
  PROVE  /\ Ranked(s, k) \in Int
         /\ 2 * Cardinality(Places(s, {v \in Int : lo <= v})) > Len(s) => lo <= Ranked(s, k)
         /\ 2 * Cardinality(Places(s, {v \in Int : v <= hi})) > Len(s) => Ranked(s, k) <= hi
<1> DEFINE n == Len(s)
<1>1. n \in Nat /\ DOMAIN s = 1..n /\ \A j \in 1..n : s[j] \in Int
  OBVIOUS
<1>2. IsFiniteSet(1..n) /\ Cardinality(1..n) = n
  <2> HIDE DEF n
  <2> QED BY <1>1, NumbersUpTo
<1>3. PICK i \in 1..n : Ranked(s, k) = s[i] /\ Cardinality(Ahead(s, i)) = k - 1
  BY <1>1, RankIsTaken
<1> DEFINE A == Ahead(s, i)
<1>4. IsFiniteSet(A) /\ A \subseteq 1..n /\ i \notin A
  BY <1>1, AheadIs
<1>5. \A j \in 1..n : (j \in A => s[j] <= s[i]) /\ (j \notin A => s[i] <= s[j])
  BY <1>1 DEF Ahead
<1>6. ASSUME ~(lo <= s[i]) PROVE ~(2 * Cardinality(Places(s, {v \in Int : lo <= v})) > n)
  <2> DEFINE P == Places(s, {v \in Int : lo <= v})
             B == A \union {i}
  <2>1. P \in SUBSET ((1..n) \ B)
    <3> SUFFICES ASSUME NEW j \in P PROVE j \in 1..n /\ j \notin B
      OBVIOUS
    <3>1. j \in 1..n /\ lo <= s[j]
      BY <1>1 DEF Places
    <3>2. s[i] \in Int /\ s[j] \in Int
      BY <1>1, <1>3, <3>1
    <3> QED BY <1>5, <1>6, <3>1, <3>2
  <2>2. IsFiniteSet(B) /\ Cardinality(B) = k /\ B \subseteq 1..n
    BY <1>1, <1>3, <1>4, FS_AddElement
  <2>3. IsFiniteSet((1..n) \ B) /\ Cardinality((1..n) \ B) = n - k
    <3>1. (1..n) \cap B = B
      BY <2>2
    <3> HIDE DEF B, n
    <3>2. /\ IsFiniteSet((1..n) \ B)
          /\ Cardinality((1..n) \ B) = Cardinality(1..n) - Cardinality((1..n) \cap B)
      BY <1>2, FS_Difference
    <3> QED BY <1>2, <2>2, <3>1, <3>2
  <2>4. Cardinality(P) <= n - k /\ Cardinality(P) \in Nat
    <3> HIDE DEF P, B
    <3> QED BY <2>1, <2>3, FS_Subset, FS_CardinalityType
  <2> HIDE DEF P
  <2>5. ~(2 * Cardinality(P) > n)
    BY <1>1, <2>4
  <2> QED BY <2>5 DEF P
<1>7. ASSUME ~(s[i] <= hi) PROVE ~(2 * Cardinality(Places(s, {v \in Int : v <= hi})) > n)
  <2> DEFINE P == Places(s, {v \in Int : v <= hi})
  <2>1. P \in SUBSET A
    <3> SUFFICES ASSUME NEW j \in P PROVE j \in A
      OBVIOUS
    <3>1. j \in 1..n /\ s[j] <= hi
      BY <1>1 DEF Places
    <3>2. s[i] \in Int /\ s[j] \in Int
      BY <1>1, <1>3, <3>1
    <3> QED BY <1>5, <1>7, <3>1, <3>2
  <2>2. Cardinality(P) <= k - 1 /\ Cardinality(P) \in Nat
    <3> HIDE DEF P, A
    <3> QED BY <1>3, <1>4, <2>1, FS_Subset, FS_CardinalityType DEF A
  <2> HIDE DEF P
  <2>3. ~(2 * Cardinality(P) > n)
    BY <1>1, <2>2
  <2> QED BY <2>3 DEF P
<1> QED BY <1>1, <1>3, <1>6, <1>7

HIDE DEF Ranked, Ahead

\* A median is no further than more than half of the values are.
THEOREM MajorityBoundsTheMedian ==
  ASSUME NEW s \in Seq(Int), s # <<>>, NEW lo \in Int, NEW hi \in Int
  PROVE  /\ TwiceMedian(s) \in Int
         /\ 2 * Cardinality(Places(s, {v \in Int : lo <= v})) > Len(s) => 2 * lo <= TwiceMedian(s)
         /\ 2 * Cardinality(Places(s, {v \in Int : v <= hi})) > Len(s) => TwiceMedian(s) <= 2 * hi
<1> DEFINE n == Len(s)
           a == (n + 1) \div 2
           b == n \div 2 + 1
<1>1. n \in Nat \ {0}
  OBVIOUS
<1>2. /\ a \in 1..n /\ n <= 2 * a /\ 2 * (a - 1) <= n
      /\ b \in 1..n /\ n <= 2 * b /\ 2 * (b - 1) <= n
  <2> HIDE DEF n
  <2> QED BY <1>1
<1>3. Table(s) = s
  BY DEF Table
<1>4. TwiceMedian(s) = Ranked(s, a) + Ranked(s, b)
  BY <1>3 DEF TwiceMedian
<1> HIDE DEF a, b
<1>5. /\ Ranked(s, a) \in Int
      /\ 2 * Cardinality(Places(s, {v \in Int : lo <= v})) > Len(s) => lo <= Ranked(s, a)
      /\ 2 * Cardinality(Places(s, {v \in Int : v <= hi})) > Len(s) => Ranked(s, a) <= hi
  BY <1>2, MajorityBoundsTheMiddle
<1>6. /\ Ranked(s, b) \in Int
      /\ 2 * Cardinality(Places(s, {v \in Int : lo <= v})) > Len(s) => lo <= Ranked(s, b)
      /\ 2 * Cardinality(Places(s, {v \in Int : v <= hi})) > Len(s) => Ranked(s, b) <= hi
  BY <1>2, MajorityBoundsTheMiddle
<1> QED BY <1>4, <1>5, <1>6
------------------------------------------------------------------------------
\* Boards that are offset as a whole.

\* The boards that logged a depth.
Heard(depths) == {b \in DOMAIN depths : depths[b] # <<>>}

\* The boards all of whose depths are in a set.
AllIn(depths, vs) == {b \in Heard(depths) : \A i \in DOMAIN depths[b] : depths[b][i] \in vs}

\* If all values of a sequence are in a set, more than half of them are.
LEMMA AllAreMost ==
  ASSUME NEW s \in Seq(Int), s # <<>>, NEW vs, \A i \in DOMAIN s : s[i] \in vs
  PROVE  2 * Cardinality(Places(s, vs)) > Len(s)
<1>1. Len(s) \in Nat \ {0} /\ Places(s, vs) = 1..Len(s)
  BY DEF Places
<1>2. Cardinality(1..Len(s)) = Len(s)
  BY <1>1, NumbersUpTo
<1> QED BY <1>1, <1>2

\* A median lies where all the values do.
LEMMA MedianIsAmong ==
  ASSUME NEW s \in Seq(Int), s # <<>>, NEW m \in Int
  PROVE  /\ TwiceMedian(s) \in Int
         /\ (\A i \in DOMAIN s : s[i] <= m) => TwiceMedian(s) <= 2 * m
         /\ (\A i \in DOMAIN s : m <= s[i]) => 2 * m <= TwiceMedian(s)
<1>1. \A i \in DOMAIN s : s[i] \in Int
  OBVIOUS
<1>2. (\A i \in DOMAIN s : s[i] <= m) => 2 * Cardinality(Places(s, {v \in Int : v <= m})) > Len(s)
  BY <1>1, AllAreMost
<1>3. (\A i \in DOMAIN s : m <= s[i]) => 2 * Cardinality(Places(s, {v \in Int : m <= v})) > Len(s)
  BY <1>1, AllAreMost
<1> QED BY <1>2, <1>3, MajorityBoundsTheMedian

\* The boards of a finite set, in some order, each once.
LEMMA EachBoardOnce ==
  ASSUME NEW S, IsFiniteSet(S)
  PROVE  /\ SetToSeq(S) \in Bijection(1..Cardinality(S), S)
         /\ SetToSeq(S) \in Seq(S) /\ Len(SetToSeq(S)) = Cardinality(S)
<1> DEFINE n == Cardinality(S)
           f == SetToSeq(S)
<1>1. n \in Nat /\ ExistsBijection(1..n, S)
  BY FS_CardinalityType
<1>2. PICK g : g \in Bijection(1..n, S)
  BY <1>1 DEF ExistsBijection
<1>3. g \in [1..n -> S] /\ IsInjective(g)
  BY <1>2 DEF Bijection, Injection, IsInjective
<1>4. f \in [1..n -> S] /\ IsInjective(f)
  BY <1>3, Zenon DEF SetToSeq
<1> HIDE DEF f, n
<1>5. f \in Injection(1..n, S)
  BY <1>4 DEF Injection, IsInjective
<1>6. IsFiniteSet(1..n) /\ Cardinality(1..n) = Cardinality(S)
  BY <1>1, NumbersUpTo DEF n
<1>7. f \in Surjection(1..n, S)
  BY <1>5, <1>6, FS_Injection
<1>8. f \in Seq(S) /\ Len(f) = n
  BY <1>1, <1>4
<1> QED BY <1>5, <1>7, <1>8 DEF Bijection, f, n

\* In whatever order the boards are taken, a majority of boards within w of the normal
\* depth keeps the group's reference there.
LEMMA MajorityKeepsTheReference ==
  ASSUME NEW depths, IsFiniteSet(Heard(depths)),
         \A b \in Heard(depths) : depths[b] \in Seq(Int),
         NEW w \in Nat,
         2 * Cardinality(AllIn(depths, -w..w)) > Cardinality(Heard(depths)),
         NEW have, have \in Bijection(1..Cardinality(Heard(depths)), Heard(depths)),
         NEW twice, twice = [k \in 1..Cardinality(Heard(depths)) |-> TwiceMedian(depths[have[k]])]
  PROVE  Reference(twice) \in -(4 * w)..4 * w
<1> DEFINE H == Heard(depths)
           n == Cardinality(H)
           G == AllIn(depths, -w..w)
           K == {k \in 1..n : have[k] \in G}
<1>1. n \in Nat /\ IsFiniteSet(1..n) /\ Cardinality(1..n) = n
  BY FS_CardinalityType, NumbersUpTo
<1>2. /\ have \in [1..n -> H]
      /\ \A j, k \in 1..n : have[j] = have[k] => j = k
      /\ \A b \in H : \E k \in 1..n : have[k] = b
  BY DEF Bijection, Injection, Surjection, IsInjective
<1>3. G \subseteq H /\ IsFiniteSet(G) /\ Cardinality(G) \in Nat
  BY FS_Subset, FS_CardinalityType DEF AllIn
<1>4. IsFiniteSet(K) /\ Cardinality(K) \in Nat
  BY <1>1, FS_Subset, FS_CardinalityType
<1>5. Cardinality(K) = Cardinality(G)
  <2> DEFINE f == [k \in K |-> have[k]]
  <2>1. f \in Injection(K, G)
    BY <1>2 DEF Injection, IsInjective
  <2>2. f \in Surjection(K, G)
    BY <1>2, <1>3 DEF Surjection
  <2>3. ExistsBijection(K, G)
    BY <2>1, <2>2 DEF ExistsBijection, Bijection
  <2> HIDE DEF K, G
  <2> QED BY <1>4, <2>3, FS_Bijection
<1>6. \A k \in 1..n : depths[have[k]] \in Seq(Int) /\ depths[have[k]] # <<>>
  BY <1>2 DEF Heard
<1>7. \A k \in 1..n : twice[k] = TwiceMedian(depths[have[k]]) /\ twice[k] \in Int
  BY <1>6, MedianIsAmong
<1>8. ASSUME NEW k \in K PROVE -(2 * w) <= twice[k] /\ twice[k] <= 2 * w
  <2> DEFINE s == depths[have[k]]
  <2>1. k \in 1..n /\ \A i \in DOMAIN s : s[i] \in -w..w
    BY DEF AllIn
  <2>2. s \in Seq(Int) /\ s # <<>> /\ twice[k] = TwiceMedian(s)
    BY <1>6, <1>7, <2>1
  <2>3. w \in Int /\ -w \in Int
    OBVIOUS
  <2>4. (\A i \in DOMAIN s : s[i] <= w) /\ (\A i \in DOMAIN s : -w <= s[i])
    BY <2>1
  <2> HIDE DEF s
  <2>5. TwiceMedian(s) <= 2 * w /\ 2 * (-w) <= TwiceMedian(s) /\ TwiceMedian(s) \in Int
    BY <2>2, <2>3, <2>4, MedianIsAmong
  <2> QED BY <2>2, <2>5
<1>9. twice \in Seq(Int) /\ Len(twice) = n /\ DOMAIN twice = 1..n
  BY <1>1, <1>7
<1>10. n # 0
  BY <1>1, <1>3, FS_Subset
<1>11. twice # <<>>
  BY <1>9, <1>10
<1> DEFINE lo == -(2 * w)
           hi == 2 * w
<1>12. 2 * Cardinality(K) > n
  BY <1>5
<1>13. ASSUME NEW vs, K \subseteq Places(twice, vs)
       PROVE  2 * Cardinality(Places(twice, vs)) > n
  <2>1. Places(twice, vs) \subseteq 1..n
    BY <1>9 DEF Places
  <2>2. IsFiniteSet(Places(twice, vs)) /\ Cardinality(Places(twice, vs)) \in Nat
    <3> HIDE DEF n
    <3> QED BY <1>1, <2>1, FS_Subset, FS_CardinalityType
  <2>3. Cardinality(K) <= Cardinality(Places(twice, vs))
    <3> HIDE DEF K
    <3> QED BY <1>13, <2>2, FS_Subset
  <2> HIDE DEF K, n
  <2> QED BY <1>1, <1>4, <1>12, <2>2, <2>3
<1>14. /\ K \subseteq Places(twice, {v \in Int : lo <= v})
       /\ K \subseteq Places(twice, {v \in Int : v <= hi})
  BY <1>7, <1>8, <1>9 DEF Places
<1>15. TwiceMedian(twice) \in Int /\ 2 * lo <= TwiceMedian(twice) /\ TwiceMedian(twice) <= 2 * hi
  <2>1. lo \in Int /\ hi \in Int
    OBVIOUS
  <2>2. /\ 2 * Cardinality(Places(twice, {v \in Int : lo <= v})) > Len(twice)
        /\ 2 * Cardinality(Places(twice, {v \in Int : v <= hi})) > Len(twice)
    BY <1>9, <1>13, <1>14
  <2> HIDE DEF lo, hi
  <2> QED BY <1>9, <1>11, <2>1, <2>2, MajorityBoundsTheMedian
<1> QED BY <1>15 DEF Reference

\* While most of the boards heard of are within w of where they should be, none of those
\* is flagged, and every board that is off by the limit and w at least is, early or late:
\* an outlier cannot drag the group's reference away (sync-delta.py, report_depth).
THEOREM MajorityOutvotesTheOffset ==
  ASSUME NEW depths, IsFiniteSet(Heard(depths)),
         \A b \in Heard(depths) : depths[b] \in Seq(Int),
         DepthOutlier \in Nat, NEW w \in Nat, 2 * w < DepthOutlier,
         2 * Cardinality(AllIn(depths, -w..w)) > Cardinality(Heard(depths))
  PROVE  /\ OffsetBoards(depths) \intersect AllIn(depths, -w..w) = {}
         /\ AllIn(depths, {v \in Int : v <= -(DepthOutlier + w)}) \subseteq OffsetBoards(depths)
         /\ AllIn(depths, {v \in Int : v >= DepthOutlier + w}) \subseteq OffsetBoards(depths)
<1> DEFINE H == Heard(depths)
           n == Cardinality(H)
           have == SetToSeq(H)
           twice == [k \in DOMAIN have |-> TwiceMedian(depths[have[k]])]
           ref == Reference(twice)
           flagged == {have[k] : k \in {k \in DOMAIN have : Dist(2 * twice[k], ref) >= 4 * DepthOutlier}}
<1>1. OffsetBoards(depths) = IF Len(have) < 2 THEN {} ELSE flagged
  BY Zenon DEF OffsetBoards, Heard
<1>2. have \in Bijection(1..n, H) /\ Len(have) = n /\ DOMAIN have = 1..n /\ n \in Nat
  BY EachBoardOnce, FS_CardinalityType
<1>3. /\ have \in [1..n -> H]
      /\ \A j, k \in 1..n : have[j] = have[k] => j = k
      /\ \A b \in H : \E k \in 1..n : have[k] = b
  BY <1>2 DEF Bijection, Injection, Surjection, IsInjective
<1>4. twice = [k \in 1..n |-> TwiceMedian(depths[have[k]])]
  BY <1>2
<1> HIDE DEF have
<1>5. ref \in -(4 * w)..4 * w
  BY <1>2, <1>4, MajorityKeepsTheReference
<1> HIDE DEF ref
<1>6. ASSUME NEW b \in H
      PROVE  /\ depths[b] \in Seq(Int) /\ depths[b] # <<>>
             /\ TwiceMedian(depths[b]) \in Int
             /\ b \in flagged <=> Dist(2 * TwiceMedian(depths[b]), ref) >= 4 * DepthOutlier
  <2>1. depths[b] \in Seq(Int) /\ depths[b] # <<>>
    BY DEF Heard
  <2>2. PICK k \in 1..n : have[k] = b
    BY <1>3
  <2>3. twice[k] = TwiceMedian(depths[b])
    BY <1>4, <2>2
  <2>4. b \in flagged <=> Dist(2 * twice[k], ref) >= 4 * DepthOutlier
    <3> HIDE DEF twice
    <3> QED BY <1>2, <1>3, <2>2
  <2>5. 0 \in Int
    OBVIOUS
  <2> QED BY <2>1, <2>3, <2>4, <2>5, MedianIsAmong
<1> DEFINE G == AllIn(depths, -w..w)
<1>7. ASSUME NEW b \in G PROVE b \in H /\ b \notin flagged
  <2>1. b \in H /\ \A i \in DOMAIN depths[b] : depths[b][i] \in -w..w
    BY DEF AllIn
  <2> DEFINE s == depths[b]
             m == TwiceMedian(depths[b])
  <2>2. (\A i \in DOMAIN s : s[i] <= w) /\ (\A i \in DOMAIN s : -w <= s[i]) /\ -w \in Int
    BY <2>1
  <2>3. m \in Int /\ m <= 2 * w /\ 2 * (-w) <= m
    BY <1>6, <2>1, <2>2, MedianIsAmong
  <2> HIDE DEF m
  <2>4. ~(Dist(2 * m, ref) >= 4 * DepthOutlier)
    BY <1>5, <2>3 DEF Dist
  <2> QED BY <1>6, <2>1, <2>4 DEF m
<1>8. ASSUME NEW b \in AllIn(depths, {v \in Int : v <= -(DepthOutlier + w)})
      PROVE  b \in H /\ b \in flagged /\ b \notin G
  <2> DEFINE s == depths[b]
             m == TwiceMedian(depths[b])
             lim == -(DepthOutlier + w)
  <2>1. b \in H /\ (\A i \in DOMAIN s : s[i] <= lim) /\ lim \in Int
    BY DEF AllIn
  <2>2. m \in Int /\ m <= 2 * lim
    <3> HIDE DEF lim
    <3> QED BY <1>6, <2>1, MedianIsAmong
  <2> HIDE DEF m
  <2>3. Dist(2 * m, ref) >= 4 * DepthOutlier
    BY <1>5, <2>2 DEF Dist
  <2> QED BY <1>6, <1>7, <2>1, <2>3 DEF m
<1>9. ASSUME NEW b \in AllIn(depths, {v \in Int : v >= DepthOutlier + w})
      PROVE  b \in H /\ b \in flagged /\ b \notin G
  <2> DEFINE s == depths[b]
             m == TwiceMedian(depths[b])
             lim == DepthOutlier + w
  <2>1. b \in H /\ (\A i \in DOMAIN s : lim <= s[i]) /\ lim \in Int
    BY DEF AllIn
  <2>2. m \in Int /\ 2 * lim <= m
    <3> HIDE DEF lim
    <3> QED BY <1>6, <2>1, MedianIsAmong
  <2> HIDE DEF m
  <2>3. Dist(2 * m, ref) >= 4 * DepthOutlier
    BY <1>5, <2>2 DEF Dist
  <2> QED BY <1>6, <1>7, <2>1, <2>3 DEF m
\* A majority is a board at least: with one that is off as well there are two.
<1>10. ASSUME NEW b \in H, b \notin G PROVE ~(Len(have) < 2)
  <2>1. G \subseteq H \ {b}
    BY <1>10 DEF AllIn
  <2>2. IsFiniteSet(H \ {b}) /\ Cardinality(H \ {b}) = n - 1
    BY <1>10, FS_RemoveElement
  <2>3. Cardinality(G) <= n - 1 /\ Cardinality(G) \in Nat
    <3> HIDE DEF G, H
    <3> QED BY <2>1, <2>2, FS_Subset, FS_CardinalityType
  <2>4. 2 * Cardinality(G) > n
    OBVIOUS
  <2> HIDE DEF G, n
  <2> QED BY <1>2, <2>3, <2>4
<1> HIDE DEF flagged, G
<1> QED BY <1>1, <1>7, <1>8, <1>9, <1>10 DEF G
==============================================================================
