------------------------------- MODULE Studies -------------------------------
(* Three studies of recorded runs. scripts/raw-sync.py compares two boards from  *)
(* raw observations alone, scripts/rate-integral.py asks whether a displacement  *)
(* is the integral of the differential rate, and scripts/accounting-error.py     *)
(* subtracts what the boards believe from what the analyser measured. Quotients  *)
(* are pairs of integers, as in Series.                                          *)
EXTENDS Series, Inputs

CONSTANTS
  FrameUs,     \* a frame
  TrustSw,     \* TRUST_SW_US
  SigmaSq,     \* OUTLIER_SIGMA, squared
  Passes,      \* OUTLIER_PASSES
  MinFit,      \* MIN_FIT_SAMPLES
  MinUsable,   \* samples of a board that is compared at all
  GapLimit,    \* rate-integral: the time between rows that is a gap
  PhaseTol     \* accounting-error: --tol

------------------------------------------------------------------------------
\* raw-sync: of a line, the server's time of the frame last played and the shared
\* clock's at that instant, if the bracket of the two clocks is narrow enough.
Trusted(lines) ==
  LET good == SelectSeq(lines, LAMBDA l : l.sw <= TrustSw)
  IN  Table([k \in DOMAIN good |->
               <<good[k].chunk - (good[k].pushed - good[k].played) * FrameUs,
                 good[k].playedAt + (good[k].tsf - good[k].tsfAt)>>])

\* _lsq: what is left of the samples, n * VarX times.
Residuals(s) ==
  LET n == Len(s)
      x == SumOf(s, LAMBDA p : p[1])
      y == SumOf(s, LAMBDA p : p[2])
      v == VarX(s)
      c == Cov(s)
  IN  Table([i \in DOMAIN s |-> (n * s[i][2] - y) * v - c * (n * s[i][1] - x)])

Fits(s) == Len(s) >= 2 /\ VarX(s) # 0

\* Mutant: every sample is averaged in.
WithoutNone(s) == s

\* One pass: the samples far off the line go, unless too few are left.
WithoutOutliers(s) ==
  LET left == Residuals(s)
      sum  == SumOf(left, LAMBDA e : e * e)
      near == SelectSeq(Table([i \in DOMAIN s |-> i]), LAMBDA i : Len(s) * left[i] * left[i] <= SigmaSq * sum)
  IN  IF ~Fits(s) \/ Len(near) < MinFit THEN s ELSE Table([k \in DOMAIN near |-> s[near[k]]])

Kept(s) == FoldLeft(LAMBDA kept, k : WithoutOutliers(kept), s, [k \in 1..Passes |-> k])

\* The line through the samples at half of mid2.
LineAt(s, mid2) ==
  Reduced(<<2 * SumOf(s, LAMBDA p : p[2]) * VarX(s) + Cov(s) * (Len(s) * mid2 - 2 * SumOf(s, LAMBDA p : p[1])),
            2 * Len(s) * VarX(s)>>)

\* The boards' lines, differenced in the middle of the server time both cover.
OffsetAtMid(x, y) ==
  LET served(s) == {p[1] : p \in ToSet(s)}
      lo == Max({Min(served(x)), Min(served(y))})
      hi == Min({Max(served(x)), Max(served(y))})
      Apart(kx, ky) == IF ~Fits(kx) \/ ~Fits(ky) THEN None
                       ELSE [mid2 |-> lo + hi, by |-> Minus(LineAt(kx, lo + hi), LineAt(ky, lo + hi))]
  IN  IF Len(x) < MinUsable \/ Len(y) < MinUsable \/ hi <= lo THEN None ELSE Apart(Kept(x), Kept(y))

------------------------------------------------------------------------------
\* rate-integral: a row is [t, skew, rate], rate the differential rate, None where
\* the edges were not measured, and skew None where the correlation was rejected.

\* Mutant: a row without a skew is no row.
RowsAccepted(rows) == SelectSeq(rows, LAMBDA r : r.rate # None /\ r.skew # None)

\* "Rates from every row, skew only from accepted ones."
RateRows(rows) == SelectSeq(rows, LAMBDA r : r.rate # None)

\* The skew predicted at every row but those that end a gap, and the time there is
\* a rate for, and not.
RateIntegral(rows) ==
  LET base == (CHOOSE p \in ToSet(Finite([i \in DOMAIN rows |-> <<i, rows[i].skew>>])) :
                 \A i \in 1..p[1] - 1 : rows[i].skew = None)[2]
      Add(r, i) ==
        LET dt == rows[i].t - rows[i - 1].t
        IN  IF i = 1 \/ dt <= 0 THEN r
            ELSE IF dt > GapLimit THEN [r EXCEPT !.gapped = @ + dt]
            ELSE [r EXCEPT !.covered = @ + dt, !.acc = @ - rows[i].rate * dt,
                           !.pred = Append(@, <<rows[i].t, base + r.acc - rows[i].rate * dt>>)]
  IN  FoldLeftDomain(LAMBDA r, i : Add(r, i),
        [acc |-> 0, gapped |-> 0, covered |-> 0, pred |-> <<<<rows[1].t, base>>>>], rows)

\* <<time, measured - predicted>> at the accepted rows.
TrackResiduals(rows) ==
  LET pred == ToSet(RateIntegral(rows).pred)
      has  == SelectSeq(rows, LAMBDA r : r.skew # None /\ \E p \in pred : p[1] = r.t)
  IN  {<<r.t, r.skew - (CHOOSE p \in pred : p[1] = r.t)[2]>> : r \in ToSet(has)}

------------------------------------------------------------------------------
\* accounting-error: what the boards believe their offset is.

\* Mutant: the wrong way round.
BelievedSwapped(pa, pb) == pa - pb

BelievedOffset(pa, pb) == pb - pa

\* <<time, skew - believed>> of the rows <<time, skew>> with a phase of both boards.
AccountingErrors(a, b, rows) ==
  LET near(series, r) == NearestValue(series, r[1], PhaseTol)
      both == SelectSeq(rows, LAMBDA r : near(a, r) # None /\ near(b, r) # None)
  IN  [k \in DOMAIN both |-> <<both[k][1], both[k][2] - BelievedOffset(near(a, both[k]), near(b, both[k]))>>]

------------------------------------------------------------------------------
\* Samples of a board a unit of frames apart: the shared clock runs by pace in a
\* unit of server time and the board lags by late. A sample that is stepped was
\* taken after the frames were counted anew, one in a wide bracket at a bad instant.
RawLine(i, what, pace, late) ==
  [chunk |-> 2 * i + 3, pushed |-> 10 * i + 3 + (IF what = "step" THEN 1 ELSE 0), played |-> 10 * i,
   playedAt |-> 100 + pace * i + late, tsf |-> 50, tsfAt |-> 150 - (IF what = "wide" THEN 4 ELSE 0),
   sw |-> TrustSw + (IF what = "wide" THEN 1 ELSE 0)]

\* The offset found is the boards' true one where it is compared, whatever pace each
\* clock has: a sample in a wide bracket is no part of it, and one sample that a
\* starvation stepped does not tilt it, once there are samples enough to tell.
RawOffsetIsTrue ==
  LET mine  == Trusted([i \in DOMAIN input |-> RawLine(i, input[i], 3, 7)])
      other == Trusted([i \in 1..MaxInput["raw"] |-> RawLine(i, "ok", 2, 0)])
      steps == {i \in DOMAIN input : input[i] = "step"}
      off   == OffsetAtMid(mine, other)
  IN  case = "raw" /\ (steps = {} \/ (Cardinality(steps) = 1 /\ Len(mine) > MinFit + 1)) =>
        off = None \/ 4 * off.by[1] = (off.mid2 + 28) * off.by[2]

------------------------------------------------------------------------------
\* Captures of a run: the skew follows the rate, except where it is displaced by
\* something that is not a rate.
Moved(e) == -e.rate * e.dt + e.planted
RunRows ==
  [i \in DOMAIN input |->
     [t |-> FoldLeft(+, 0, [j \in 1..i |-> input[j].dt]),
      skew |-> IF input[i].ok THEN FoldLeft(+, 0, [j \in 1..i |-> Moved(input[j])]) ELSE None,
      rate |-> IF input[i].timed THEN input[i].rate ELSE None]]

\* The residual, at every accepted row, is what was planted by something other than
\* a rate and what moved inside the gaps, and nothing else: a rejected correlation
\* costs none of the integral, and the time in gaps is owned up to. The integral
\* starts at the first row, so that one must have been accepted.
ResidualIsWhatIsHidden ==
  LET rows == RateRows(RunRows)
  IN  case = "rates" /\ input # <<>> /\ input[1].ok /\ input[1].timed =>
        LET kept      == SelectSeq([i \in DOMAIN input |-> i], LAMBDA i : input[i].timed)
            since(k)  == {j \in DOMAIN input : kept[k - 1] < j /\ j <= kept[k]}
            move(k)   == FoldLeft(+, 0, [j \in 1..kept[k] |-> IF j \in since(k) THEN Moved(input[j]) ELSE 0])
            hidden(k) == IF rows[k].t - rows[k - 1].t > GapLimit THEN move(k) ELSE input[kept[k]].planted
            r         == RateIntegral(rows)
        IN  /\ r.covered + r.gapped = Last(rows).t - rows[1].t
            /\ \A k \in DOMAIN rows :
                 (rows[k].skew # None /\ (k > 1 => rows[k].t - rows[k - 1].t <= GapLimit)) =>
                   <<rows[k].t, FoldLeft(+, 0, [j \in 1..k |-> IF j = 1 THEN 0 ELSE hidden(j)])>>
                     \in TrackResiduals(rows)

------------------------------------------------------------------------------
\* Both boards log their render phase and the analyser the skew, in any order; the
\* phases slew by 1, B believes itself 5 ahead of A, and is 30 more.
At(k) == FoldLeft(+, 0, [j \in 1..k |-> input[j][2]])
PhasesOf(what, v) ==
  SelectSeq([k \in DOMAIN input |-> IF input[k][1] = what THEN <<At(k), At(k) + v>> ELSE <<At(k), None>>],
            LAMBDA p : p[2] # None)

\* What the boards cannot see of their own offset is found, up to what the phases
\* slew in the time between the samples and the row, and at every row that has a
\* phase of each board in reach.
AccountingErrorIsTheSplit ==
  case = "phases" =>
    LET a    == PhasesOf("a", 0)
        b    == PhasesOf("b", 5)
        rows == SelectSeq([k \in DOMAIN input |-> <<At(k), IF input[k][1] = "row" THEN 35 ELSE None>>],
                          LAMBDA p : p[2] # None)
        errs == AccountingErrors(a, b, rows)
        near(s, r) == \E p \in ToSet(s) : Dist(p[1], r[1]) <= PhaseTol
    IN  /\ \A e \in ToSet(errs) : Dist(e[2], 30) <= 2 * PhaseTol
        /\ [k \in DOMAIN errs |-> errs[k][1]] =
             [k \in DOMAIN SelectSeq(rows, LAMBDA r : near(a, r) /\ near(b, r)) |->
                SelectSeq(rows, LAMBDA r : near(a, r) /\ near(b, r))[k][1]]
==============================================================================
