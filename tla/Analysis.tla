------------------------------ MODULE Analysis ------------------------------
(* The analyses of a run by scripts/i2s-skew.py, over inputs that grow by one  *)
(* element at a time. Each case is a way an input comes about together with    *)
(* the truth the analysis is meant to find.                                    *)
EXTENDS Reports, Inputs

CONSTANTS Slopes, Jumps  \* of a drifting series

\* Times are numbers, and those of a series never decrease.
ASSUME AnalysisAssumption ==
  /\ Day \in Nat \ {0}
  /\ Elements["clock"] \subseteq Int
  /\ \A e \in Elements["series"] : e[1] \in Nat

------------------------------------------------------------------------------
\* Points in time order.
Times(gaps) ==
  LET at[i \in 0..Len(gaps)] == IF i = 0 THEN 0 ELSE at[i - 1] + gaps[i]
  IN  [i \in DOMAIN gaps |-> at[i]]

Pts == LET ts == Times([i \in DOMAIN input |-> input[i][1]])
       IN  [i \in DOMAIN input |-> <<ts[i], input[i][2]>>]

\* An empty cell is a fact, a stale one a fabrication: bisection finds what a look
\* at every point would, and nothing beyond the tolerance.
NearestIsNearest ==
  case = "series" /\ input # <<>> =>
    \A t \in -1..Last(Pts)[1] + 1 :
      LET far(p) == Dist(p[1], t)
          least  == Min({far(p) : p \in ToSet(Pts)})
          hit    == NearestValue(Pts, t, 2)
      IN  /\ far(NearestAt(Pts, t)) = least
          /\ IF least > 2 THEN hit = None ELSE \E p \in ToSet(Pts) : far(p) = least /\ hit = p[2]

\* The columns of the runs' envelopes hold every point once, in order, and keep the
\* extremes of the series: an excursion narrower than a pixel stays on the plot.
EnvelopeKeepsExcursions ==
  LET s == Finite(Pts)
  IN  case = "series" /\ s # <<>> =>
        \A buckets \in {1, 3} :
          LET runs == SplitRuns(s)
              cols == FlattenSeq([k \in DOMAIN runs |-> Envelope(runs[k], s[1][1], Last(s)[1], buckets)])
              vs   == {p[2] : p \in ToSet(s)}
          IN  /\ Len(cols) <= buckets + Len(runs) - 1
              /\ SumOf(cols, LAMBDA c : c.n) = Len(s)
              /\ Max({c.hi : c \in ToSet(cols)}) = Max(vs) /\ Min({c.lo : c \in ToSet(cols)}) = Min(vs)
              /\ \A i \in 1..Len(cols) - 1 : cols[i].sumx * cols[i + 1].n < cols[i + 1].sumx * cols[i].n

\* Prefix sums give at every finite point the fit of the points in its window,
\* and a row without a value spoils none of them.
DerivativeIsLocalFit ==
  LET s == Finite(Pts)
      w == Max({2 * 3, 5 * TwiceMedian(Spacings([i \in DOMAIN s |-> s[i][1]]))})
      local(p) == SelectSeq(s, LAMBDA q : 4 * Dist(q[1], p[1]) <= w)
      fits == SelectSeq(s, LAMBDA p : Len(local(p)) >= 3 /\ ~Constant(local(p), 1))
  IN  case = "series" /\ Len(s) >= 3 =>
        RateDerivative(Pts, 3) = [i \in DOMAIN fits |-> <<fits[i][1], <<Cov(local(fits[i])), VarX(local(fits[i]))>>>>]

\* No panel of the plot is drawn from a point outside the run.
PanelsStayInWindow ==
  LET all == [n \in {"skew", "ppm", "a", "b", "temp", "dtrim", "ramp", "crystal"} |-> Pts]
      Within(drawn, hi) == \A n \in DOMAIN drawn : \A q \in ToSet(drawn[n]) : 2 <= q[1] /\ q[1] <= hi
      In(hi) == Within(Panels(all, 2, hi, 3), hi) /\ Within(Overlays(all, 2, hi, {"ramp"}), hi)
  IN  case = "series" /\ Len(Finite(Pts)) = Len(input) /\ Len(input) >= 2 => In(Last(Pts)[1] - 1)

------------------------------------------------------------------------------
\* Windows of two boards that steer: the true difference of rates is the window's,
\* but 20 higher in the time a window says nothing of. "short": board a played only
\* a part of the window; "late" windows follow a longer one.
WinLen(k) == IF k = "late" THEN 8 ELSE 4
WinTimes == Times([i \in DOMAIN input |-> WinLen(input[i][1])])
BoardA == [i \in DOMAIN input |->
             <<WinTimes[i], IF input[i][1] = "noA" THEN None ELSE 0,
               IF input[i][1] = "short" THEN 2 ELSE WinLen(input[i][1])>>]
BoardB == SelectSeq([i \in DOMAIN input |->
                       IF input[i][1] = "noB" THEN None ELSE <<WinTimes[i] - 1, input[i][2], WinLen(input[i][1])>>],
                    LAMBDA w : w # None)
TrueOffset ==
  LET moved(i) == WinLen(input[i][1]) * input[i][2] + (IF input[i][1] \in {"ok", "late"} THEN 0 ELSE 20)
  IN  [i \in DOMAIN input |-> <<WinTimes[i], -FoldLeft(+, 0, [j \in 1..i |-> moved(j)])>>]

\* Segments never span a gap or a break: where the boards' own trims are all there
\* is to know, the offset falls by exactly their integral, slope -1, whatever was
\* lost between segments.
IntegralSlopeIsMinusOne ==
  LET Opposed(r) ==
        "trims" \in DOMAIN r => \A k \in DOMAIN r.trims : r.trims[k].slope[1] = -r.trims[k].slope[2]
  IN  case = "windows" => Opposed(OffsetIntegral(TrueOffset, <<>>, <<>>, BoardA, BoardB))

\* The analyser's rates of the same windows, three samples in each: the boards'
\* crystals differ by 5, which no trim contains.
Sampled(f(_)) == FlattenSeq([i \in DOMAIN input |-> [k \in 1..3 |-> <<WinTimes[i] + k - 4, f(i)>>]])

\* "The constant offset is the crystal difference": each window is compared with
\* the rates of its own audio time, so the constant found is 5 and the slope 1.
CrystalConstantFound ==
  LET Found(r) ==
        "reference" \in DOMAIN r /\ r.reference # None =>
          /\ r.reference.bias[1] = -5 * r.reference.bias[2]
          /\ r.reference.slope[1] = r.reference.slope[2]
          /\ r.reference.thin = Cardinality({i \in DOMAIN input : input[i][1] = "short"})
  IN  case = "windows" =>
        Found(OffsetIntegral(TrueOffset, Sampled(LAMBDA i : 0), Sampled(LAMBDA i : input[i][2] + 5), BoardA, BoardB))

------------------------------------------------------------------------------
\* A log: device time runs with true time from the last boot on, the host's is late
\* by up to the longest delay.
LogTimes == Times([i \in DOMAIN input |-> input[i].gap])
BootOf(i) == LET boots == {j \in 1..i : input[j].boot}
             IN  IF boots = {} THEN 0 ELSE LogTimes[Max(boots)] - 1
LogRows2 == [i \in DOMAIN input |->
               <<LogTimes[i] + input[i].delay,
                 IF input[i].stamped THEN LogTimes[i] - BootOf(i) ELSE None>>]

\* A boot whose first stamp is not below the last one before it goes unseen.
HiddenBoot ==
  \E i, j \in DOMAIN input :
    /\ i < j /\ input[i].stamped /\ input[j].stamped /\ BootOf(i) # BootOf(j)
    /\ \A k \in i + 1..j - 1 : ~input[k].stamped
    /\ LogRows2[j][2] >= LogRows2[i][2]

\* The anchor is fitted per boot: a stamped row is placed no earlier than it
\* happened and no later than the longest delay of the host, across reboots too.
PlacedWithinDelay ==
  case = "log" /\ ~HiddenBoot =>
    LET placed == PlaceDeviceTimes(LogRows2)
        delays == {input[i].delay : i \in DOMAIN input}
    IN  \A i \in DOMAIN input : placed[i] # None =>
          LogTimes[i] + Min(delays) <= placed[i] /\ placed[i] <= LogTimes[i] + Max(delays)

\* A time of day within half a day of the reference is put on the right day.
TodRoundTrip ==
  case = "clock" /\ Len(input) = 2 =>
    (2 * Dist(input[1], input[2]) < Day => TodToUnix(input[1] % Day, input[2]) = input[1])

------------------------------------------------------------------------------
\* "Settled: the first instant after which it never leaves the band again", at or
\* after the fall to 1/e of the start.
SettledForGood ==
  case = "recovery" =>
    LET pts == [i \in DOMAIN input |-> <<i, input[i]>>]
        r   == Recovery(pts)
    IN  Len(pts) >= MinRecovery /\ r # None /\ r.settle # None =>
          /\ r.tau # None /\ r.tau <= r.settle
          /\ \A i \in DOMAIN pts : i - 1 >= r.settle => pts[i] \in r.band
          /\ \A i \in DOMAIN pts : i = r.settle => pts[i] \notin r.band

\* A drifting series: it keeps one slope, and jumps in every long gap.
DriftPts(m, jump) ==
  LET ts == Times(input)
  IN  [i \in DOMAIN input |->
         <<ts[i], m * ts[i] + jump * Cardinality({j \in 2..i : input[j] = 40})>>]

MostlyShort == LET long == Cardinality({i \in 2..Len(input) : input[i] = 40})
               IN  2 * long < Len(input) - 1

\* A slope is never read across a gap: however the offset moved in the gaps, the
\* caption's is the drift within a run.
DriftNotReadAcrossGap ==
  case = "drift" /\ MostlyShort =>
    \A m \in Slopes, jump \in Jumps :
      LET c == Caption(DriftPts(m, jump))
      IN  c # None /\ c.slope # None => c.slope[1] = m * c.slope[2]

\* A ramp is no step: a repair in the middle of a drift reads as exactly what it
\* displaced the audio by, and a seed's error matches it if it is that.
StepIsTheDisplacement ==
  case = "drift" /\ (\A i \in DOMAIN input : input[i] # 40) =>
    \A m \in Slopes, jump \in Jumps, at \in DOMAIN input :
      LET ts == Times(input)
          t0 == ts[at]
          p  == [i \in DOMAIN input |-> <<ts[i], m * ts[i] + IF ts[i] > t0 THEN jump ELSE 0>>]
          r  == RepairSteps(p, <<<<t0, 9>>>>, <<<<t0 - 1, 4>>, <<t0 + 1, 5>>>>)
          s  == SeedSteps(p, <<<<t0, jump>>>>)
      IN  r # <<>> =>
            /\ r[1].m.step[1] = jump * r[1].m.step[2]
            /\ r[1].m.real <=> Dist(jump, 0) > StepFloor
            /\ r[1].inject = 4
            /\ s[1].match <=> jump # 0

------------------------------------------------------------------------------
\* Episodes: two chunks of healthy history, then the armed ones. Dropping closes a
\* real lateness by a chunk each, and a wrong prediction by nothing.
Late == 8 * ChunkUs
ErrAfter(arm, n) ==
  LET dropped == FoldLeft(+, 0, SubSeq(arm.drops, 1, n))
  IN  CASE arm.kind = "real" -> Late - ChunkUs * dropped
        [] arm.kind = "flat" -> Late
        [] arm.kind = "growing" -> Late + ChunkUs * dropped
ArmRows(k, arm) ==
  [i \in 1..2 + Len(arm.drops) |->
     [t |-> 100 * k + i, seq |-> i - 3, ring |-> 10,
      err |-> IF i <= 2 THEN 0 ELSE ErrAfter(arm, i - 3),
      drops |-> IF i <= 2 THEN 0 ELSE FoldLeft(+, 0, SubSeq(arm.drops, 1, i - 3))]]
\* The history is logged after the arm.
LoggedLate(rows) == SubSeq(rows, 3, Len(rows)) \o SubSeq(rows, 1, 2)

\* Every episode is reported once, and its verdict is on its own armed chunks: the
\* history before the arm neither makes a runaway of it nor hides one.
VerdictIsTheEpisodes ==
  case = "arms" /\ input # <<>> =>
    LET rows == FlattenSeq([k \in DOMAIN input |-> LoggedLate(ArmRows(k, input[k]))])
        got  == ResyncBursts(rows, 0, 100 * (Len(input) + 1))
        dropped(arm) == FoldLeft(+, 0, SubSeq(arm.drops, 1, Len(arm.drops) - 1))
    IN  /\ Len(got) = Len(input)
        /\ \A k \in DOMAIN input :
             got[k].verdict = CASE dropped(input[k]) = 0 -> "no discards"
                                [] OTHER -> CASE input[k].kind = "real" -> "real"
                                              [] input[k].kind = "flat" -> "not lateness"
                                              [] OTHER -> "runaway"

\* A history before an arm: an element is the audio that arrives in each tick of 10,
\* playout drains the ring by 10.
DrainRows ==
  [i \in 1..Len(input) + 1 |->
     [t |-> 10 * i, seq |-> i - Len(input) - 2, err |-> 0, drops |-> 0,
      ring |-> FoldLeft(LAMBDA ring, a : ring + a - 10, 20, SubSeq(input, 1, i - 1))]]

\* While playout alone drains the ring, the verdict tells how much really arrived,
\* and the drain began where the ring last held half its peak.
DrainWeighsTheSupply ==
  case = "drain" /\ (\A i \in DOMAIN DrainRows : DrainRows[i].ring >= 0) =>
    LET d       == Drain(Reverse(DrainRows))
        arrived == FoldLeft(+, 0, input)
        share   == IF input = <<>> THEN 0 ELSE (100 * arrived) \div (10 * Len(input))
    IN  Len(DrainRows) >= MinPre =>
          /\ d.verdict = "stalled" <=> share < 35
          /\ d.verdict = "slow" <=> share \in 35..84
          /\ \A i \in DOMAIN DrainRows : DrainRows[i].t > d.onset =>
               2 * DrainRows[i].ring < Max({DrainRows[j].ring : j \in DOMAIN DrainRows})

\* A chunk counts at another place than the last one only if the usable chunk
\* before it said so too.
MovedLagIsConfirmed ==
  case = "chunks" =>
    LET usable == SelectSeq(input, LAMBDA c : c.ok /\ ~c.gap)
        lags   == Stability(input).lags
    IN  \A i \in 1..Len(lags) - 1 :
          Dist(lags[i + 1], lags[i]) > MaxJump =>
            \E j \in 1..Len(usable) - 1 : usable[j + 1].lag = lags[i + 1] /\ Dist(usable[j].lag, lags[i + 1]) <= 4

\* The means of chunks that were all counted at one frame's phase stay together.
MeansFoldTogether ==
  case = "chunks" =>
    LET m == Stability(input).means
    IN  \A i, j \in DOMAIN m : Dist(m[i], m[j]) <= 2
==============================================================================
