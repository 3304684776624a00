------------------------------ MODULE Reports -------------------------------
(* What scripts/i2s-skew.py says of a run: recoveries, steps at repairs and at *)
(* seeds, bursts of resyncs and the drain of the ring before them, the          *)
(* stability of chunks, the panels of the plot. Each report is what its          *)
(* verdicts are, without their wording.                                          *)
EXTENDS Series

CONSTANTS
  MinRecovery,   \* rows of a segment a recovery is looked for in
  StepWindow,    \* settle_s
  MinSide,       \* rows on each side of a step
  StepFloor,     \* 5 us
  InjectWindow,  \* 90 s
  MinBurst,      \* chunks of a burst worth reporting
  MinPre,        \* chunks of a history worth reporting
  ChunkUs,       \* 26100 us
  FramePeriod, MaxJump  \* of the stability report

------------------------------------------------------------------------------
\* Mutant: settled at the first entry into the band.
SettledAtEntry(seg, band) == {i \in DOMAIN seg : seg[i] \in band}

\* The rows from which the series never leaves the band again.
SettledAt(seg, band) == {i \in DOMAIN seg : \A j \in i..Len(seg) : seg[j] \in band}

\* report_recovery of one segment: <<settled after, tau>>, or None where nothing
\* recovers. Errors are doubled, as the median is; the band is four MADs, or 5 us.
Recovery(seg) ==
  LET tail      == SubSeq(seg, (8 * Len(seg)) \div 10 + 1, Len(seg))
      settled2  == TwiceMedian([i \in DOMAIN tail |-> tail[i][2]])
      err2(p)   == Dist(2 * p[2], settled2)
      tol4      == Max({4 * TwiceMedian([i \in DOMAIN tail |-> err2(tail[i])]), 4 * StepFloor})
      band      == {p \in ToSet(seg) : 2 * err2(p) <= tol4}
      decayed   == {i \in DOMAIN seg : 272 * err2(seg[i]) <= 100 * err2(seg[1])}
      since(is) == IF is = {} THEN None ELSE seg[Min(is)][1] - seg[1][1]
  IN  IF Len(seg) < MinRecovery \/ 2 * err2(seg[1]) < 4 * tol4 THEN None
      ELSE [settle |-> since(SettledAt(seg, band)), tau |-> since(decayed), band |-> band]

Recoveries(pts) ==
  LET segs == SplitGaps(Finite(pts))
  IN  SelectSeq([k \in DOMAIN segs |-> Recovery(segs[k])], LAMBDA r : r # None)

------------------------------------------------------------------------------
\* Mutant: a side is summarised by the middle of its values.
EdgeByMedian(seg, t0) ==
  [val |-> <<TwiceMedian([i \in DOMAIN seg |-> seg[i][2]]), 2>>, var |-> <<0, 1>>]

\* One side of a step: the value a fit of it has at t0 and the variance about the
\* fit, as fractions.
Edge(seg, t0) ==
  LET n == Len(seg)
      varY == n * SumOf(seg, LAMBDA p : p[2] * p[2])
                - SumOf(seg, LAMBDA p : p[2]) * SumOf(seg, LAMBDA p : p[2])
      mean == SumOf(seg, LAMBDA p : p[2])
  IN  IF Constant(seg, 1) THEN [val |-> <<TwiceMedian([i \in DOMAIN seg |-> seg[i][2]]), 2>>, var |-> <<0, 1>>]
      ELSE [val |-> <<mean * VarX(seg) + Cov(seg) * (n * t0 - SumOf(seg, LAMBDA p : p[1])), n * VarX(seg)>>,
            var |-> <<varY * VarX(seg) - Cov(seg) * Cov(seg), n * n * VarX(seg)>>]

Less(p, q) == p[1] * q[2] < q[1] * p[2]
MinOf(p, q) == IF Less(q, p) THEN q ELSE p

\* measure_step and the verdict on it: the step beats six times the scatter about
\* the quieter fit, and 5 us; None if a side is too thin.
Significant(step, quieter) ==
  LET square == <<step[1] * step[1], step[2] * step[2]>>
  IN  Less(<<36 * quieter[1], quieter[2]>>, square) /\ Less(<<StepFloor * StepFloor, 1>>, square)

StepBetween(b, a) ==
  [step |-> Minus(a.val, b.val), real |-> Significant(Minus(a.val, b.val), Reduced(MinOf(a.var, b.var)))]

MeasureStep(pts, t0) ==
  LET before == SelectSeq(pts, LAMBDA p : t0 - StepWindow <= p[1] /\ p[1] < t0)
      after  == SelectSeq(pts, LAMBDA p : t0 < p[1] /\ p[1] <= t0 + StepWindow)
  IN  IF Len(before) < MinSide \/ Len(after) < MinSide THEN None
      ELSE StepBetween(Edge(before, t0), Edge(after, t0))

\* report_repair_steps: each repair <<time, us>> with its step and the injection
\* that provoked it.
RepairSteps(pts, repairs, injects) ==
  LET provoked(t0) == SelectSeq(injects, LAMBDA j : 0 <= t0 - j[1] /\ t0 - j[1] <= InjectWindow)
      Report(r) == [t |-> r[1], m |-> MeasureStep(Finite(pts), r[1]),
                    inject |-> IF provoked(r[1]) = <<>> THEN None ELSE Last(provoked(r[1]))[2]]
  IN  SelectSeq([k \in DOMAIN repairs |-> Report(repairs[k])], LAMBDA r : r.m # None)

\* report_seed_steps: each seed <<time, anchor error or None>>; the error matches if
\* it is within a quarter of the step, or 5 us.
SeedSteps(pts, seeds) ==
  LET Match(m, aerr) ==
        LET off == Dist(aerr * m.step[2], m.step[1])
        IN  /\ m.step[1] # 0
            /\ 4 * off <= Dist(m.step[1], 0) \/ off <= StepFloor * m.step[2]
      Report(s, m) ==
        IF m = None THEN None
        ELSE [t |-> s[1], real |-> m.real, match |-> IF s[2] = None THEN None ELSE Match(m, s[2])]
  IN  SelectSeq([k \in DOMAIN seeds |-> Report(seeds[k], MeasureStep(Finite(pts), seeds[k][1]))],
                LAMBDA r : r # None)

------------------------------------------------------------------------------
\* Bursts. A row is [t, seq, err, ring, drops].

\* Mutant: the history is taken in the order it was logged in.
AsLogged(rows) == rows

\* The history of a burst in the order it happened in.
History(rows) == SortSeq(rows, LAMBDA x, y : x.seq < y.seq)

\* report_pre_trigger_drain, of the chunks before the arm.
Drain(pre0) ==
  LET pre   == History(pre0)
      rings == [i \in DOMAIN pre |-> pre[i].ring]
      peak  == Max(ToSet(rings))
      onset == Max({i \in DOMAIN pre : 2 * rings[i] >= peak})
      span  == Last(pre).t - pre[1].t
      supplied == span + Last(rings) - rings[1]
  IN  CASE Len(pre) < MinPre -> [verdict |-> "none"]
        [] Len(pre) >= MinPre /\ peak <= 0 -> [verdict |-> "already empty"]
        [] Len(pre) >= MinPre /\ peak > 0 /\ span <= 0 -> [verdict |-> "no device time"]
        [] OTHER -> [onset |-> pre[onset].t, supplied |-> supplied,
                     verdict |-> CASE 100 * supplied < 35 * span -> "stalled"
                                   [] 100 * supplied >= 35 * span /\ 100 * supplied < 85 * span -> "slow"
                                   [] 100 * supplied >= 85 * span /\ 2 * Last(rings) < peak -> "intact"
                                   [] OTHER -> "inconclusive"]

\* Mutant: the chunks before the arm are judged with those after it.
WholeBurst(b) == b

\* The armed chunks of a burst.
Live(b) == SelectSeq(b, LAMBDA r : r.seq >= 0)

\* The verdict on a burst: what the error closed of what the discards could buy.
Verdict(b) ==
  LET live     == Live(b)
      closed   == live[1].err - Last(live).err
      expected == Last(live).drops * ChunkUs
  IN  CASE Len(live) < MinBurst -> "none"
        [] Len(live) >= MinBurst /\ expected = 0 -> "no discards"
        [] OTHER -> CASE 6 * expected <= 10 * closed /\ 10 * closed <= 16 * expected -> "real"
                      [] 10 * closed > 16 * expected -> "something else"
                      [] 10 * closed < -2 * expected -> "runaway"
                      [] -2 * expected <= 10 * closed /\ 10 * closed < 2 * expected -> "not lateness"
                      [] OTHER -> "partial"

\* Episodes: sorted by time, split where the sequence number restarts.
Episodes(win) == RunsOf(win, {i \in 2..Len(win) : win[i].seq <= win[i - 1].seq})

\* report_resync_bursts
ResyncBursts(rows, lo, hi) ==
  LET win    == SortSeq(SelectSeq(rows, LAMBDA r : lo <= r.t /\ r.t <= hi), LAMBDA x, y : x.t < y.t)
      bursts == SelectSeq(Episodes(win), LAMBDA b : Len(b) >= MinBurst)
  IN  IF Len(win) < MinBurst THEN <<>>
      ELSE [k \in DOMAIN bursts |->
             [drain |-> Drain(SelectSeq(bursts[k], LAMBDA r : r.seq < 0)),
              verdict |-> Verdict(bursts[k])]]

------------------------------------------------------------------------------
\* The stability report: a chunk is [ok, gap, lag, mean], its mean folded by whole
\* frames into the neighbourhood of the last one.

\* Mutant: a moved lag is believed at once.
ChunkBelieved(r, c) ==
  IF ~c.ok \/ c.gap THEN r ELSE [r EXCEPT !.prefer = c.lag, !.pending = None, !.lags = Append(@, c.lag)]

\* Mutant: means are taken as they come.
Unfolded(mean, means) == mean

\* A mean a few whole frames off the last one is taken to be that many frames off.
Folded(mean, means) ==
  LET near == {k \in -2..2 : 10 * Dist(mean - Last(means) + k * FramePeriod, 0) < 3 * FramePeriod}
  IN  IF means = <<>> \/ near = {} THEN mean ELSE mean + FramePeriod * (CHOOSE k \in near : TRUE)

\* What becomes of a chunk: dropped, discarded, or counted; a lag that moved counts
\* once two chunks in a row say so.
Chunk(r, c) ==
  LET moved     == r.prefer # None /\ Dist(c.lag, r.prefer) > MaxJump
      confirmed == r.pending # None /\ Dist(c.lag, r.pending) <= 4
  IN  IF ~c.ok \/ c.gap THEN r
      ELSE IF moved /\ ~confirmed THEN [r EXCEPT !.pending = c.lag]
      ELSE [r EXCEPT !.prefer = c.lag, !.pending = None,
                     !.lags = Append(@, c.lag), !.means = Append(@, Folded(c.mean, @)),
                     !.resyncs = IF moved THEN @ + 1 ELSE @]

Stability(chunks) ==
  FoldLeft(Chunk, [prefer |-> None, pending |-> None, lags |-> <<>>, resyncs |-> 0, means |-> <<>>], chunks)

------------------------------------------------------------------------------
\* The plot's panels and overlays, every one of them over the window lo..hi.

Win(series, lo, hi) == SelectSeq(series, LAMBDA p : lo <= p[1] /\ p[1] <= hi)

\* Mutant: a temperature series is kept whole.
TempsWhole(series, lo, hi) == IF Len(series) >= 2 THEN series ELSE <<>>

\* trim_temps, of one series
TrimTemps(series, lo, hi) == IF Len(Win(series, lo, hi)) >= 2 THEN Win(series, lo, hi) ELSE <<>>

\* The difference of two rates: each sample of a with the first of b that is not
\* earlier, or the last.
RateDiff(a, b) ==
  LET j(x) == Min({BisectLeft(b, x, 1, Len(b) + 1), Len(b)})
  IN  IF b = <<>> THEN <<>> ELSE [i \in DOMAIN a |-> <<a[i][1], b[j(a[i][1])][2] - a[i][2]>>]

\* build_panels: the series of every panel that has any
Panels(r, lo, hi, window) ==
  LET W(s) == Win(s, lo, hi)
      named == [dskew |-> RateDerivative(W(r.skew), window), ppm |-> W(r.ppm),
                fsdiff |-> RateDiff(W(r.a), W(r.b)), temp |-> TrimTemps(r.temp, lo, hi),
                fsa |-> W(r.a), fsb |-> W(r.b),
                da |-> RateDerivative(W(r.a), window), db |-> RateDerivative(W(r.b), window),
                dtrim |-> W(r.dtrim), ramp |-> W(r.ramp), crystal |-> W(r.crystal)]
  IN  [n \in {n \in DOMAIN named : named[n] # <<>>} |-> named[n]]

\* firmware_overlays: what was asked for, in the window
Overlays(r, lo, hi, which) ==
  [n \in {n \in which : Win(r[n], lo, hi) # <<>>} |-> Win(r[n], lo, hi)]

\* stats_caption: the slope is that of the longest run
Caption(pts) ==
  LET segs    == SplitGaps(Finite(pts))
      longest == CHOOSE k \in DOMAIN segs :
                   /\ \A j \in DOMAIN segs : Len(segs[j]) <= Len(segs[k])
                   /\ \A j \in 1..k - 1 : Len(segs[j]) < Len(segs[k])
  IN  IF segs = <<>> THEN None ELSE [n |-> Len(Finite(pts)), slope |-> FitSlope(segs[longest])]

\* report_offset_integral: the analyser's rates against the offset, then the
\* boards' own trims, if both have reported any
TrimIntegral(offset, dfs, dt, trims) ==
  LET audio(t) == (CHOOSE w \in ToSet(trims) : w[1] = t)[3]
      windows == [i \in DOMAIN dt.out |-> <<dt.out[i][1], dt.out[i][2], audio(dt.out[i][1])>>]
  IN  [analyser |-> IntegralFit(dfs, offset, {}),
       reference |-> RateReference(WindowMeans(dfs, windows)),
       trims |-> IntegralFit(dt.out, offset, dt.breaks),
       dtrim |-> dt.out]

OffsetIntegral(offset, ratesA, ratesB, trimsA, trimsB) ==
  LET dfs == PairDiff(ratesA, ratesB)
  IN  IF Len(Finite(offset)) < MinFitRows THEN [dtrim |-> <<>>]
      ELSE IF trimsA = <<>> \/ trimsB = <<>>
      THEN [analyser |-> IntegralFit(dfs, Finite(offset), {}), dtrim |-> <<>>]
      ELSE TrimIntegral(Finite(offset), dfs, TrimDiff(trimsA, trimsB), trimsA)
==============================================================================
