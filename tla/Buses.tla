-------------------------------- MODULE Buses --------------------------------
(* Two I2S buses, as the simulator of scripts/i2s-skew.py rasterises them and   *)
(* as its decoder and the PulseView decoder (scripts/decoders/i2s_skew/pd.py)   *)
(* read them. A bus is a sequence of samples [b, w, d]: bit clock, word select, *)
(* data. A bit lasts two samples. Frames, slots and pairs are indexed from 1.   *)
EXTENDS Series

CONSTANTS
  Bits,                  \* bits of a slot
  Coef,                  \* MIN_PCM_COEF is 1 / Coef
  MinFrames, MinAudio,   \* MIN_FRAMES, and the values audioness asks for
  SlotBits, Delay,       \* PulseView's bits and bit_delay,
  WinFrames, PdMaxLag,   \* win_frames, max_lag,
  Peak, Margin,          \* min_peak and min_margin are 1 / Peak and 1 / Margin,
  LagSlack               \* lag_slack

FrameLen == 4 * Bits

Abs(a) == Dist(a, 0)

UpFrom(lo, hi) == [i \in 1..hi - lo + 1 |-> lo + i - 1]

Signed(bits) ==
  LET word == FoldLeft(LAMBDA v, b : 2 * v + b, 0, bits)
  IN  IF 2 * word >= 2 ^ Len(bits) THEN word - 2 ^ Len(bits) ELSE word

------------------------------------------------------------------------------
\* What is played in frame f: silence before and after the content.
Frame(played, f) == IF f + 1 \in DOMAIN played THEN played[f + 1] ELSE 0

\* make_simulator: a bus that starts t0 samples into the capture and plays the content
\* from frame d on, the same value in both slots.
\* The last bit of a word falls into the next slot and is not rasterised.
Sample(played, d, s, t0) ==
  LET u     == s - 1 - t0
      slot  == (u \div 2) \div Bits
      j     == (u \div 2) - 1 - slot * Bits
      value == Frame(played, slot \div 2 - d) % (2 ^ Bits)
  IN  [b |-> u >= 0 /\ u % 2 = 1,
       w |-> u >= 0 /\ slot % 2 = 1,
       d |-> u >= 0 /\ j >= 0 /\ (value \div 2 ^ (Bits - 1 - j)) % 2 = 1]

Raster(played, d, n, t0) == Table([s \in 1..n |-> Sample(played, d, s, t0)])

\* A capture of boards off samples apart: whole frames are a shift of the content,
\* the rest one of time. Ties of round() are no case: a bus is shifted by less than half.
WholeFrames(off) == CHOOSE k \in -Abs(off)..Abs(off) : 2 * Dist(off, k * FrameLen) < FrameLen

Capture(played, n, off) ==
  LET d == WholeFrames(off)
  IN  <<Raster(played, 0, n, 0), Raster(played, d, n, off - d * FrameLen)>>

------------------------------------------------------------------------------
\* decode_i2s.

Rising(bus, wire)  == SelectSeq(UpFrom(2, Len(bus)), LAMBDA s : ~bus[s - 1][wire] /\ bus[s][wire])
Falling(bus, wire) == SelectSeq(UpFrom(2, Len(bus)), LAMBDA s : bus[s - 1][wire] /\ ~bus[s][wire])

\* The words decoded with a delay: <<start, value, whether it is the right slot's>>;
\* starts index the rising edges of the bit clock.
Build(bus, br, starts, bits, dly) ==
  LET whole == SelectSeq(starts, LAMBDA st : st + dly + bits - 1 <= Len(br))
      word(st) == [k \in 1..bits |-> IF bus[br[st + dly + k - 1]].d THEN 1 ELSE 0]
  IN  Table([i \in DOMAIN whole |-> <<whole[i], Signed(word(whole[i])), bus[br[whole[i]]].w>>])

\* The lag-1 autocorrelation of the words, as a fraction.
Audioness(words) ==
  LET n == Len(words)
      u == [i \in DOMAIN words |-> n * words[i][2] - SumOf(words, LAMBDA x : x[2])]
      var == SumOf(u, LAMBDA x : x * x)
  IN  IF n < MinAudio \/ var = 0 THEN <<-1, 1>>
      ELSE Reduced(<<n * SumOf([i \in 1..n - 1 |-> u[i] * u[i + 1]], LAMBDA x : x), (n - 1) * var>>)

\* The delay whose words look more like audio, 1 if they look alike.
BestDelay(bus, br, starts, bits) ==
  LET with == Audioness(Build(bus, br, starts, bits, 1))
      without == Audioness(Build(bus, br, starts, bits, 0))
  IN  IF with[1] * without[2] >= without[1] * with[2] THEN 1 ELSE 0

\* The left values with the times of their frames, slot width and delay detected;
\* None where the code raises.
WidthOf(turns) ==
  LET width2 == TwiceMedian(Spacings(turns))
  IN  IF width2 % 4 = 1 THEN width2 \div 2 ELSE (width2 + 1) \div 2

Words(bus, br, starts, bits) == Build(bus, br, starts, bits, BestDelay(bus, br, starts, bits))

FramesOf(words, br, falls) ==
  LET left  == SelectSeq(words, LAMBDA x : ~x[3])
      right == SelectSeq(words, LAMBDA x : x[3])
      start(x) == NearestAt([i \in DOMAIN falls |-> <<falls[i], 0>>], br[x[1]])[1]
  IN  Table([i \in 1..Min({Len(left), Len(right)}) |-> [v |-> left[i][2], t |-> start(left[i])]])

DecodeRises(bus, br) ==
  LET turns == SelectSeq(UpFrom(2, Len(br)), LAMBDA k : bus[br[k - 1]].w # bus[br[k]].w)
  IN  IF Len(turns) < 4 THEN None
      ELSE FramesOf(Words(bus, br, Front(turns), WidthOf(turns)), br, Falling(bus, "w"))

DecodeI2s(bus) == DecodeRises(bus, Rising(bus, "b"))

------------------------------------------------------------------------------
\* frame_lag and skew_series.

Centred(vs) == LET sum == SumOf(vs, LAMBDA x : x) IN Table([i \in DOMAIN vs |-> Len(vs) * vs[i] - sum])
Norm(vs) == SumOf(Centred(vs), LAMBDA x : x * x)

\* The correlation of x with y k later.
Corr(x, y, k) ==
  FoldLeftDomain(LAMBDA acc, i : IF i + k \in DOMAIN y THEN acc + x[i] * y[i + k] ELSE acc, 0, x)

\* The first of the lags, in the order given, where the correlation is greatest.
PeakOf(lags, c) == FoldLeft(LAMBDA best, k : IF Abs(c[k]) > Abs(c[best]) THEN k ELSE best, Head(lags), lags)

\* No other lag of x and y correlates as well as d.
Distinctive(x, y, d, lags) ==
  \A k \in -lags..lags \ {d} : Abs(Corr(Centred(x), Centred(y), k)) < Abs(Corr(Centred(x), Centred(y), d))

\* Mutant: the lag by which the first trails the second.
LagOfFirst(a, b, maxlag) ==
  LET n == Min({Len(a), Len(b)})
      x == Centred(SubSeq(a, 1, n))
      y == Centred(SubSeq(b, 1, n))
      k == PeakOf(UpFrom(-maxlag, maxlag), [j \in -maxlag..maxlag |-> Corr(y, x, j)])
  IN  IF n < MinFrames \/ Norm(SubSeq(a, 1, n)) = 0 \/ Norm(SubSeq(b, 1, n)) = 0
      THEN [lag |-> 0, sure |-> FALSE] ELSE [lag |-> k, sure |-> TRUE]

\* frame_lag: by how many frames b trails a; sure if the coefficient is enough.
FrameLag(a, b, maxlag) ==
  LET n == Min({Len(a), Len(b)})
      x == Centred(SubSeq(a, 1, n))
      y == Centred(SubSeq(b, 1, n))
      norms == SumOf(x, LAMBDA v : v * v) * SumOf(y, LAMBDA v : v * v)
      far == Min({maxlag, n - 1})
      k == PeakOf(UpFrom(-far, far), [j \in -far..far |-> Corr(x, y, j)])
  IN  IF n < MinFrames \/ norms = 0 THEN [lag |-> 0, sure |-> FALSE]
      ELSE [lag |-> k, sure |-> Coef * Coef * Corr(x, y, k) * Corr(x, y, k) >= norms]

\* skew_series: the time between the edges of frames of the same content, by frame.
SkewAtLag(a, b, f) ==
  LET m == UpFrom(Max({1, f.lag + 1}), Min({Len(b), Len(a) + f.lag}))
  IN  IF ~f.sure \/ Len(m) < MinFrames THEN <<>>
      ELSE [i \in DOMAIN m |-> b[m[i]].t - a[m[i] - f.lag].t]

SkewOf(a, b, maxlag) ==
  IF a = None \/ b = None THEN <<>>
  ELSE SkewAtLag(a, b, FrameLag([i \in DOMAIN a |-> a[i].v], [i \in DOMAIN b |-> b[i].v], maxlag))

SkewSeries(busA, busB, maxlag) == SkewOf(DecodeI2s(busA), DecodeI2s(busB), maxlag)

\* measure_capture: the value at the middle of a line through the series; frames
\* four median residuals away from a first fit are left out of it. A fraction.
MeasureCapture(skew) ==
  LET pts == [i \in DOMAIN skew |-> <<i, skew[i]>>]
      off(p) == Abs(Len(pts) * VarX(pts) * p[2]
                      - SumOf(pts, LAMBDA q : q[2]) * VarX(pts)
                      - Cov(pts) * (Len(pts) * p[1] - SumOf(pts, LAMBDA q : q[1])))
      good == SelectSeq(pts, LAMBDA p : off(p) <= 2 * TwiceMedian([i \in DOMAIN pts |-> off(pts[i])]))
      used == IF Len(good) > MinFrames THEN good ELSE pts
      sumx == SumOf(pts, LAMBDA p : p[1])
  IN  IF Len(skew) < 2 THEN None
      ELSE Reduced(<<Len(pts) * SumOf(used, LAMBDA p : p[2]) * VarX(used)
                       + Cov(used) * (Len(used) * sumx - Len(pts) * SumOf(used, LAMBDA p : p[1])),
                     Len(pts) * Len(used) * VarX(used)>>)

\* Mutant: the search is not anchored to the lag of the whole.
LagsNearZero(k0, span) == UpFrom(-span, span)

LagsNear(k0, span) == UpFrom(k0 - span, k0 + span)

\* rolling_lag: the lag within windows of a capture, near the lag of the whole.
RollingLag(la, lb, k0, win, hop, span) ==
  LET n == Min({Len(la), Len(lb)})
      starts == SelectSeq(UpFrom(1, n - win), LAMBDA st : (st - 1) % hop = 0)
      piece(s, st) == SubSeq(s, st, st + win - 1)
      fits(st) == SelectSeq(LagsNear(k0, span),
                    LAMBDA d : st + d >= 1 /\ st + d + win - 1 <= n /\ Norm(piece(lb, st + d)) # 0)
      c(st, d) == Corr(Centred(piece(la, st)), Centred(piece(lb, st + d)), 0)
      better(st, d, e) ==
        LET p == c(st, d)  q == c(st, e)
            np == Norm(piece(lb, st + d))  nq == Norm(piece(lb, st + e))
        IN  p * Abs(p) * nq > q * Abs(q) * np
      best(st) == FoldLeft(LAMBDA acc, d : IF acc = None THEN d ELSE IF better(st, d, acc) THEN d ELSE acc,
                           None, fits(st))
      used == SelectSeq(starts, LAMBDA st : Norm(piece(la, st)) # 0)
  IN  IF n < win + hop THEN <<>>
      ELSE [i \in DOMAIN used |-> <<used[i], IF best(used[i]) = None THEN k0 ELSE best(used[i])>>]

------------------------------------------------------------------------------
\* pd.py: a bus as the decoder keeps it; frame_start 0 and seen 0 at first.

NewBus == [bits |-> <<>>, pcm |-> <<>>, times |-> <<>>, counting |-> FALSE, start |-> 0, seen |-> 0]

\* Mutant: the bits of the slot that is closed are kept.
OnWsEdgeKeeps(bus, s) ==
  LET closed == IF bus.bits = <<>> THEN bus
                ELSE [bus EXCEPT !.pcm = Append(@, Signed(bus.bits)), !.times = Append(@, bus.start)]
  IN  [closed EXCEPT !.start = s, !.counting = TRUE, !.seen = 0]

OnWsEdge(bus, s) ==
  LET closed == IF bus.bits = <<>> THEN bus
                ELSE [bus EXCEPT !.pcm = Append(@, Signed(bus.bits)), !.times = Append(@, bus.start)]
  IN  [closed EXCEPT !.bits = <<>>, !.start = s, !.counting = TRUE, !.seen = 0]

OnBclkEdge(bus, din) ==
  LET seen == bus.seen + 1
  IN  IF seen <= Delay THEN [bus EXCEPT !.seen = seen]
      ELSE IF Len(bus.bits) < SlotBits
           THEN [bus EXCEPT !.seen = seen, !.bits = Append(@, IF din THEN 1 ELSE 0)]
           ELSE [bus EXCEPT !.seen = seen, !.counting = FALSE]

\* What one sample does to a bus: a rising bit clock is waited for while counting, a
\* word select always, and it comes after a bit of the same sample.
OnSample(bus, was, is, s) ==
  LET clocked == IF bus.counting /\ ~was.b /\ is.b THEN OnBclkEdge(bus, is.d) ELSE bus
  IN  IF was.w # is.w THEN OnWsEdge(clocked, s) ELSE clocked

FlushWindow(bus) ==
  [bus EXCEPT !.pcm = SubSeq(@, WinFrames + 1, Len(@)), !.times = SubSeq(@, WinFrames + 1, Len(@))]

\* Mutant: the lag is counted as the index of the peak is.
LagMirrored(x, y, lags) == PeakOf(UpFrom(-lags, lags), [k \in -lags..lags |-> Corr(x, y, -k)])

\* _corr_full and the peak: its index falls as y trails further.
PeakLag(x, y, lags) == -PeakOf(UpFrom(-lags, lags), [k \in -lags..lags |-> Corr(x, y, -k)])

\* What a window shows: silence, or its lag, the evidence for it and the times between
\* the edges it pairs. Lags up to 2 from the peak are no rivals.
Window(a, b, ta, tb) ==
  LET x     == Centred(a)
      y     == Centred(b)
      lags  == Min({PdMaxLag, Len(a) - 1})
      norms == Norm(a) * Norm(b)
      lag   == PeakLag(x, y, lags)
      best  == Abs(Corr(x, y, lag))
      clear == best - Max({0} \union {Abs(Corr(x, y, k)) : k \in {k \in -lags..lags : Dist(k, lag) > 2}})
      pairs == SelectSeq(UpFrom(1, Len(a)), LAMBDA i : i + lag \in DOMAIN b)
  IN  IF norms = 0 THEN [silent |-> TRUE]
      ELSE [silent |-> FALSE, lag |-> lag,
            strong |-> Peak * Peak * best * best >= norms,
            clear |-> Margin * Margin * clear * clear >= norms,
            deltas |-> [i \in DOMAIN pairs |-> tb[pairs[i] + lag] - ta[pairs[i]]]]

\* Mutant: a rejected window seeds the continuity of the next.
JudgedSeeding(prev, w) ==
  LET continuous == prev # None /\ Dist(w.lag, prev) <= LagSlack
  IN  IF w.silent THEN [ok |-> FALSE, prev |-> prev]
      ELSE [ok |-> w.strong /\ (w.clear \/ continuous), prev |-> w.lag]

\* report_window: a lag is accepted if its peak is strong, and stands clear or agrees
\* with the last window's.
Judged(prev, w) ==
  LET continuous == prev # None /\ Dist(w.lag, prev) <= LagSlack
      ok == w.strong /\ (w.clear \/ continuous)
  IN  IF w.silent THEN [ok |-> FALSE, prev |-> prev]
      ELSE [ok |-> ok, prev |-> IF ok THEN w.lag ELSE None]
==============================================================================
