------------------------------- MODULE Series -------------------------------
(* The time series of scripts/i2s-skew.py: pairing in time, splitting at gaps, *)
(* fits, the integral of a differential rate, and the placing of a board's     *)
(* times on the host's axis. A point is <<time, value>>, the value None where  *)
(* the code has NaN. Times and values are integers; a quotient is a pair of     *)
(* numerator and positive denominator.                                         *)
EXTENDS Integers, Sequences, SequencesExt, FiniteSetsExt

CONSTANTS
  GapFactor, GapFloor,          \* a gap is 10 median spacings, 0.5 s at least
  PairWindow,                   \* PAIR_WINDOW_S
  ShortfallPct, ShortfallFloor, \* AUDIO_SHORTFALL_FRAC, _FLOOR_S
  MinFitRows,                   \* MIN_FIT_ROWS
  Day,                          \* a day
  None

Dist(a, b) == IF a < b THEN b - a ELSE a - b

Gcd(a, b) ==
  LET gcd[m \in Nat, n \in Nat] == IF n = 0 THEN m ELSE gcd[n, m % n] IN gcd[a, b]
Reduced(p) == LET g == Gcd(p[2], Dist(p[1], 0)) IN <<p[1] \div g, p[2] \div g>>
Minus(p, q) == Reduced(<<p[1] * q[2] - q[1] * p[2], p[2] * q[2]>>)

\* The same sequence, each element computed once.
Table(s) == SubSeq(s, 1, Len(s))

\* What sorting puts before one of a sequence of integers, and its k-th of them.
Ahead(s, i) == {j \in DOMAIN s : s[j] < s[i] \/ (s[j] = s[i] /\ j < i)}
Ranked(s, k) == s[CHOOSE i \in DOMAIN s : Cardinality(Ahead(s, i)) = k - 1]

\* sorted(s)[len(s) // 2], the upper of two middle elements
UpperMedian(s) == Ranked(Table(s), Len(s) \div 2 + 1)

\* twice numpy's median
TwiceMedian(s) ==
  Ranked(Table(s), (Len(s) + 1) \div 2) + Ranked(Table(s), Len(s) \div 2 + 1)

Finite(pts) == SelectSeq(pts, LAMBDA p : p[2] # None)

SumOf(s, f(_)) ==
  LET sum[k \in 0..Len(s)] == IF k = 0 THEN 0 ELSE sum[k - 1] + f(s[k]) IN sum[Len(s)]

Spacings(xs) == [i \in 1..Len(xs) - 1 |-> xs[i + 1] - xs[i]]

------------------------------------------------------------------------------
\* Pairing.

\* One round of the bisection, on the interval <<lo, hi>> that is left.
Halved(series, t, left) ==
  LET mid == (left[1] + left[2]) \div 2
  IN  IF left[1] >= left[2] THEN left
      ELSE IF series[mid][1] < t THEN <<mid + 1, left[2]>> ELSE <<left[1], mid>>

\* Every round takes a point away at least, so hi - lo of them are enough.
BisectLeft(series, t, lo, hi) ==
  LET left[n \in 0..hi - lo] == IF n = 0 THEN <<lo, hi>> ELSE Halved(series, t, left[n - 1])
  IN  left[hi - lo][1]

\* The point nearest to t, the later one only if it is nearer.
NearestAt(series, t) ==
  IF series = <<>> THEN None
  ELSE LET i == BisectLeft(series, t, 1, Len(series))
       IN  IF i > 1 /\ Dist(series[i - 1][1], t) < Dist(series[i][1], t)
           THEN series[i - 1] ELSE series[i]

\* Mutant: the nearest value, however far it is.
ValueHowever(series, t, tol) ==
  IF series = <<>> THEN None ELSE NearestAt(series, t)[2]

\* The value nearest to t, or None if nothing is within tol.
NearestValue(series, t, tol) ==
  LET i    == BisectLeft(series, t, 1, Len(series) + 1)
      far(j) == Dist(series[j][1], t)
      near == {j \in {i - 1, i} \intersect (1..Len(series)) : far(j) <= tol}
      best == CHOOSE j \in near : \A m \in near : far(j) < far(m) \/ (far(j) = far(m) /\ j <= m)
  IN  IF near = {} THEN None ELSE series[best][2]

Paired(b, t) == LET hit == NearestAt(b, t)
                IN  IF hit = None \/ Dist(hit[1], t) > PairWindow THEN None ELSE hit

PairDiff(a, b) ==
  LET Add(out, p) ==
        LET hit == Paired(b, p[1])
        IN  IF hit = None \/ p[2] = None \/ hit[2] = None THEN out
            ELSE Append(out, <<p[1], hit[2] - p[2]>>)
  IN  FoldLeft(Add, <<>>, a)

------------------------------------------------------------------------------
\* Splitting.

\* The runs of a sequence when a new one starts at each of the indexes cuts.
RunsOf(s, cuts) ==
  FoldLeftDomain(LAMBDA runs, i :
      IF i = 1 \/ i \in cuts THEN Append(runs, <<s[i]>>)
      ELSE [runs EXCEPT ![Len(runs)] = Append(@, s[i])], <<>>, s)

\* Mutant: a series is never split.
SplitNowhere(pts) == RunsOf(pts, {})

\* split_gaps: the median is the upper one.
SplitGaps(pts) ==
  LET xs    == [i \in DOMAIN pts |-> pts[i][1]]
      med   == UpperMedian(Spacings(xs))
      limit == IF med > 0 /\ GapFactor * med > GapFloor THEN GapFactor * med ELSE GapFloor
  IN  IF Len(pts) < 3 THEN RunsOf(pts, {})
      ELSE RunsOf(pts, {i \in 2..Len(pts) : xs[i] - xs[i - 1] > limit})

\* _split_runs: "same rule", with the true median.
SplitRuns(pts) ==
  LET xs     == [i \in DOMAIN pts |-> pts[i][1]]
      med2   == TwiceMedian(Spacings(xs))
      limit2 == IF med2 > 0 /\ GapFactor * med2 > 2 * GapFloor THEN GapFactor * med2 ELSE 2 * GapFloor
  IN  IF Len(pts) < 3 THEN RunsOf(pts, {})
      ELSE RunsOf(pts, {i \in 2..Len(pts) : 2 * (xs[i] - xs[i - 1]) > limit2})

\* Mutant: a column is the first point of its bucket.
ColumnSampled(r) ==
  [n |-> Len(r), sumx |-> SumOf(r, LAMBDA p : p[1]), lo |-> r[1][2], hi |-> r[1][2],
   sumv |-> SumOf(r, LAMBDA p : p[2])]

\* A column of an envelope: its mean time and value are the sums over n.
Column(r) ==
  LET vs == {r[i][2] : i \in DOMAIN r}
  IN  [n |-> Len(r), sumx |-> SumOf(r, LAMBDA p : p[1]), lo |-> Min(vs), hi |-> Max(vs),
       sumv |-> SumOf(r, LAMBDA p : p[2])]

\* _envelope: the points of one bucket of the axis make one column.
Envelope(pts, lo, hi, buckets) ==
  LET span      == IF hi = lo THEN 1 ELSE hi - lo
      raw(i)    == ((pts[i][1] - lo) * buckets) \div span
      bucket(i) == Max({0, Min({raw(i), buckets - 1})})
      runs      == RunsOf(pts, {i \in 2..Len(pts) : bucket(i) # bucket(i - 1)})
  IN  [k \in DOMAIN runs |-> Column(runs[k])]

------------------------------------------------------------------------------
\* Fits: the least squares slope, and what it is fitted to.

Cov(s) == Len(s) * SumOf(s, LAMBDA p : p[1] * p[2])
            - SumOf(s, LAMBDA p : p[1]) * SumOf(s, LAMBDA p : p[2])
VarX(s) == Len(s) * SumOf(s, LAMBDA p : p[1] * p[1])
             - SumOf(s, LAMBDA p : p[1]) * SumOf(s, LAMBDA p : p[1])
Constant(s, k) == \A i, j \in DOMAIN s : s[i][k] = s[j][k]

\* fit_slope
FitSlope(pts) ==
  LET s == Finite(pts)
  IN  IF Len(s) < 3 \/ Constant(s, 1) THEN None ELSE <<Cov(s), VarX(s)>>

\* Mutant: the window asked for, though it may hold no points to fit.
WindowAsked(s, window) == 2 * window

\* Twice the window of a fit: at least five median spacings.
TwiceWindow(s, window) ==
  Max({2 * window, 5 * TwiceMedian(Spacings([i \in DOMAIN s |-> s[i][1]]))})

\* rate_derivative: a fit of the points within half a window of each point; the
\* sums of a window are differences of prefix sums.
RateDerivative(pts, window) ==
  LET s == Finite(pts)
      window2 == TwiceWindow(s, window)
      prefix(f(_)) == [k \in 0..Len(s) |-> SumOf(SubSeq(s, 1, k), f)]
      Sx == prefix(LAMBDA p : p[1])   Sy == prefix(LAMBDA p : p[2])
      Sxy == prefix(LAMBDA p : p[1] * p[2])   Sxx == prefix(LAMBDA p : p[1] * p[1])
      lo(i) == Cardinality({j \in DOMAIN s : 4 * s[j][1] < 4 * s[i][1] - window2})
      hi(i) == Cardinality({j \in DOMAIN s : 4 * s[j][1] <= 4 * s[i][1] + window2})
      d(f, i) == f[hi(i)] - f[lo(i)]
      n(i) == hi(i) - lo(i)
      den(i) == n(i) * d(Sxx, i) - d(Sx, i) * d(Sx, i)
      slope(i) == <<n(i) * d(Sxy, i) - d(Sx, i) * d(Sy, i), den(i)>>
  IN  IF Len(s) < 3 THEN <<>>
      ELSE FoldLeftDomain(LAMBDA out, i : IF n(i) >= 3 /\ den(i) # 0
                                          THEN Append(out, <<s[i][1], slope(i)>>) ELSE out, <<>>, s)

------------------------------------------------------------------------------
\* The integral of a differential rate. A window is [t, mean, audio].

\* Mutant: a window that cannot be used leaves no break.
BlindUnmarked(r) == [r EXCEPT !.prev = None]

\* A window that cannot be used: the next one emitted starts a new stretch.
Blind(r) == [r EXCEPT !.prev = None, !.pending = TRUE]

\* trim_diff: a window that cannot be paired, or whose audio falls short of the
\* time since the last one, leaves a break on the next window emitted.
TrimDiff(a, b) ==
  LET Slack(dt) == Max({ShortfallPct * dt, 100 * ShortfallFloor})
      Add(r, w) ==
        LET hit   == Paired(b, w[1])
            dt    == w[1] - r.prev
            short == r.prev # None
                     /\ (dt <= 0 \/ 100 * Min({w[3], hit[3]}) < 100 * dt - Slack(dt))
        IN  IF hit = None \/ w[2] = None \/ hit[2] = None
            THEN Blind(r)
            ELSE [out |-> Append(r.out, <<w[1], hit[2] - w[2]>>), prev |-> w[1], pending |-> FALSE,
                  breaks |-> IF r.pending \/ short THEN r.breaks \union {w[1]} ELSE r.breaks]
  IN  FoldLeft(Add, [out |-> <<>>, breaks |-> {}, prev |-> None, pending |-> FALSE], a)

\* The segments integrated: no gap and no break within one.
SplitAt(breaks, segs) ==
  FlattenSeq([k \in DOMAIN segs |-> RunsOf(segs[k], {i \in DOMAIN segs[k] : segs[k][i][1] \in breaks})])

IntegralSegments(dppm, breaks) == SplitAt(breaks, SplitGaps(dppm))

\* <<integral, offset>> at the rows of a segment the offset was measured near.
IntegralPairs(seg, offset) ==
  FoldLeft(LAMBDA r, p :
      LET hit == Paired(offset, p[1])
          int == r.int + p[2] * (p[1] - r.prev)
      IN  [int |-> int, prev |-> p[1],
           xy |-> IF hit = None THEN r.xy ELSE Append(r.xy, <<int, hit[2]>>)],
    [int |-> 0, prev |-> seg[1][1], xy |-> <<>>], seg).xy

\* integral_fit: the fits of the segments long enough to mean anything.
FitPairs(pairs) ==
  LET fitted == SelectSeq(pairs, LAMBDA xy :
                  Len(xy) >= MinFitRows /\ ~Constant(xy, 1) /\ ~Constant(xy, 2))
  IN  [k \in DOMAIN fitted |-> [n |-> Len(fitted[k]), slope |-> <<Cov(fitted[k]), VarX(fitted[k])>>]]

PairsOf(segs, offset) == [k \in DOMAIN segs |-> IntegralPairs(segs[k], offset)]

IntegralFit(dppm, offset, breaks) ==
  IF Len(dppm) < 2 THEN <<>> ELSE FitPairs(PairsOf(IntegralSegments(dppm, breaks), offset))

\* Mutant: the samples of twice the audio time.
SamplesOfTwice(dfs, w) == SelectSeq(dfs, LAMBDA p : w[1] - 2 * w[3] <= p[1] /\ p[1] <= w[1])

\* The dense samples of the audio time of a report window.
SamplesOf(dfs, w) == SelectSeq(dfs, LAMBDA p : w[1] - w[3] <= p[1] /\ p[1] <= w[1])

\* window_means: <<value, sum, count>> of every window with samples enough, and the
\* number of the others.
WindowMeans(dfs, windows) ==
  FoldLeft(LAMBDA r, w :
      LET seg == SamplesOf(dfs, w)
      IN  CASE w[2] = None -> r
            [] w[2] # None /\ Len(seg) < 3 -> [r EXCEPT !.thin = @ + 1]
            [] OTHER -> [r EXCEPT !.out = Append(@, <<w[2], SumOf(seg, LAMBDA p : p[2]), Len(seg)>>)],
    [out |-> <<>>, thin |-> 0], windows)

\* report_rate_reference: the constant between a board's differential rate and the
\* analyser's, and the slope of one against the other. The means are brought to one
\* denominator first.
ReferenceOf(xy, den, thin) ==
  IF Len(xy) < MinFitRows \/ Constant(xy, 1) \/ Constant(xy, 2) THEN None
  ELSE [bias |-> <<SumOf(xy, LAMBDA p : p[1] - p[2]), den * Len(xy)>>,
        slope |-> <<Cov(xy), VarX(xy)>>, thin |-> thin]

RateReference(means) ==
  LET den == FoldLeft(LAMBDA d, m : d * m[3], 1, means.out)
  IN  ReferenceOf([k \in DOMAIN means.out |->
                     <<den * means.out[k][1], (den \div means.out[k][3]) * means.out[k][2]>>],
                  den, means.thin)

------------------------------------------------------------------------------
\* Placing. A row is <<host time, device time or None>>.

\* Mutant: one anchor for the whole log.
OneEpoch(rows) == <<[i \in DOMAIN rows |-> i]>>

\* The boots of a board: its clock going backwards starts one.
Epochs(rows) ==
  FoldLeftDomain(LAMBDA r, i :
      LET d    == rows[i][2]
          back == d # None /\ r.prev # None /\ d < r.prev
      IN  [prev |-> IF d = None THEN r.prev ELSE d,
           eps |-> IF back THEN Append(r.eps, <<i>>) ELSE [r.eps EXCEPT ![Len(r.eps)] = Append(@, i)]],
    [prev |-> None, eps |-> <<<<>>>>], rows).eps

\* place_device_times: the device time plus the median offset of its epoch.
PlaceDeviceTimes(rows) ==
  LET eps == Epochs(rows)
      stamped(e) == SelectSeq(e, LAMBDA i : rows[i][2] # None)
      anchor(e) == UpperMedian([k \in DOMAIN stamped(e) |->
                                  rows[stamped(e)[k]][1] - rows[stamped(e)[k]][2]])
      epochOf(i) == CHOOSE e \in ToSet(eps) : i \in ToSet(e)
  IN  [i \in DOMAIN rows |-> IF rows[i][2] = None THEN None
                             ELSE rows[i][2] + anchor(epochOf(i))]

\* device_anchor: the median offset and the median of what is left.
DeviceAnchor(rows) ==
  LET offs == [i \in DOMAIN rows |-> rows[i][1] - rows[i][2]]
      off  == UpperMedian(offs)
  IN  IF rows = <<>> THEN None
      ELSE <<off, UpperMedian([i \in DOMAIN offs |-> Dist(offs[i], off)]), Len(rows)>>

\* Mutant: the time of day is taken to be of the day of the reference.
TodSameDay(tod, ref) == ref - (ref % Day) + tod

\* tod_to_unix: of the day before, this day and the next, the nearest.
TodToUnix(tod, ref) ==
  LET on(k) == ref - (ref % Day) + k * Day + tod
      nearer(best, cand) == IF Dist(cand, ref) < Dist(best, ref) THEN cand ELSE best
  IN  nearer(nearer(on(-1), on(0)), on(1))
==============================================================================
