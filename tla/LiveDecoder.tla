----------------------------- MODULE LiveDecoder -----------------------------
(* The PulseView decoder (scripts/decoders/i2s_skew/pd.py) on a capture of two   *)
(* boards that play the same content, a chunk of which may never have arrived,   *)
(* and what the decoder of scripts/i2s-skew.py makes of the simulator's buses,   *)
(* whose truth is known.                                                         *)
EXTENDS Buses, Inputs

CONSTANTS
  Offsets,    \* between the simulated boards, in samples
  MaxLag,     \* frames searched
  Contents,   \* what is played: sequences of frames
  LiveOffsets,\* between the boards, in samples
  Losses,     \* chunks lost: <<first sample, samples>>
  MaxSamples  \* bound: samples of a capture

VARIABLES
  content, apart, lost, \* the capture
  samplenum,
  stateA, stateB,
  prevLag,
  accepted              \* history: the accepted windows: their times and deltas

liveVars == <<content, apart, lost, samplenum, stateA, stateB, prevLag, accepted>>

\* The sample of the boards the n-th of the capture is.
Origin(n) == IF n >= lost[1] THEN n + lost[2] ELSE n

WaveA(n) == Sample(content, 0, Origin(n), 0)
WaveB(n) == LET d == WholeFrames(apart)
            IN  Sample(content, d, Origin(n), apart - d * FrameLen)

LiveInit ==
  /\ content \in Contents /\ apart \in LiveOffsets /\ lost \in Losses
  /\ samplenum = 1 /\ stateA = NewBus /\ stateB = NewBus /\ prevLag = None /\ accepted = <<>>

NextA == OnSample(stateA, WaveA(samplenum), WaveA(samplenum + 1), samplenum + 1)
NextB == OnSample(stateB, WaveB(samplenum), WaveB(samplenum + 1), samplenum + 1)

Full(bus) == Len(bus.pcm) >= WinFrames

\* A sample that completes no window.
Wait ==
  /\ samplenum < MaxSamples /\ ~(Full(NextA) /\ Full(NextB))
  /\ samplenum' = samplenum + 1 /\ stateA' = NextA /\ stateB' = NextB
  /\ UNCHANGED <<content, apart, lost, prevLag, accepted>>

\* A sample that completes one: it is judged, and accepted or not.
ReportWindow ==
  /\ samplenum < MaxSamples /\ Full(NextA) /\ Full(NextB)
  /\ LET part(q) == SubSeq(q, 1, WinFrames)
         ta == part(NextA.times)
         tb == part(NextB.times)
         w  == Window(part(NextA.pcm), part(NextB.pcm), ta, tb)
         j  == Judged(prevLag, w)
     IN  /\ prevLag' = j.prev
         /\ accepted' = IF j.ok THEN Append(accepted, [ta |-> ta, tb |-> tb, deltas |-> w.deltas]) ELSE accepted
  /\ samplenum' = samplenum + 1 /\ stateA' = FlushWindow(NextA) /\ stateB' = FlushWindow(NextB)
  /\ UNCHANGED <<content, apart, lost>>

LiveNext == Wait \/ ReportWindow

------------------------------------------------------------------------------
LossFree(from, to) == lost[2] = 0 \/ to < lost[1] \/ from > lost[1]

SlotOf(t, t0) == (Origin(t) - 1 - t0) \div (2 * Bits)
TopBits(v) == Signed([j \in 1..SlotBits |-> ((v % 2 ^ Bits) \div 2 ^ (Bits - j)) % 2])

\* A chunk lost from a capture spoils the slots it was part of and no others: every
\* other slot is decoded, with its own value, at its own edge, and in its turn.
LossSpoilsNoOtherSlot ==
  \A i \in DOMAIN stateA.pcm :
    LossFree(stateA.times[i], stateA.times[i] + 2 * Bits) =>
      /\ stateA.pcm[i] = TopBits(Frame(content, SlotOf(stateA.times[i], 0) \div 2))
      /\ (Origin(stateA.times[i]) - 1) % (2 * Bits) = 0
      /\ i < Len(stateA.pcm) /\ LossFree(stateA.times[i], stateA.times[i] + 4 * Bits) =>
           stateA.times[i + 1] = stateA.times[i] + 2 * Bits

\* Where the content of a window tells the lags apart, an accepted window pairs the
\* edges of the same content, before and after a loss: its skew is the true one.
LiveSkewIsTrue ==
  \A k \in DOMAIN accepted :
    LET ta == accepted[k].ta
        tb == accepted[k].tb
        d  == WholeFrames(apart)
        sa(i) == SlotOf(ta[i], 0)
        sb(i) == SlotOf(tb[i], apart - d * FrameLen)
        x  == [i \in DOMAIN ta |-> TopBits(Frame(content, sa(i) \div 2))]
        y  == [i \in DOMAIN tb |-> TopBits(Frame(content, sb(i) \div 2 - d))]
        trails == sa(1) - sb(1) + 2 * d
        told == /\ LossFree(Min({ta[1], tb[1]}), Max({Last(ta), Last(tb)}) + 2 * Bits)
                /\ trails \in -PdMaxLag..PdMaxLag
                /\ Distinctive(x, y, trails, PdMaxLag)
    IN  told => \A i \in DOMAIN accepted[k].deltas : accepted[k].deltas[i] = apart

------------------------------------------------------------------------------
Samples == FrameLen * (Len(input) + 1) + 2

\* The decoder gets the sign, the whole frames and the remainder of the skew right,
\* wherever the content itself tells the lags apart: what it reports is the offset
\* the buses were made with.
SkewIsTrue ==
  LET ToldApart(a, b, k) ==
        LET n == Min({Len(a), Len(b)})
        IN  Distinctive([i \in 1..n |-> a[i].v], [i \in 1..n |-> b[i].v], k, Min({MaxLag, n - 1}))
      Right(skew, off) ==
        (\A i \in DOMAIN skew : skew[i] = off) /\ (Len(skew) >= 2 => MeasureCapture(skew) = <<off, 1>>)
      Found(cap, off) ==
        ToldApart(DecodeI2s(cap[1]), DecodeI2s(cap[2]), WholeFrames(off)) =>
          Right(SkewSeries(cap[1], cap[2], MaxLag), off)
  IN  case = "content" /\ Len(input) > MinFrames =>
        \A off \in Offsets : Found(Capture(input, Samples, off), off)

\* A lock is never its own evidence: windows accepted because they agree with the one
\* before go back, with no rejection in between, to one that stood clear by itself.
LockHasEvidence ==
  case = "locks" =>
    LET prev[k \in 0..Len(input)] == IF k = 0 THEN None ELSE Judged(prev[k - 1], input[k]).prev
        ok(k) == Judged(prev[k - 1], input[k]).ok
    IN  \A k \in DOMAIN input : ok(k) =>
          \E j \in 1..k :
            /\ ok(j) /\ input[j].clear
            /\ \A m \in j..k : input[m].silent \/ ok(m)

\* A step of the boards within a capture shows in the rolling lag, on the side of the
\* step it is on, where the content is one pulse to each window.
StepSeenInside ==
  case = "rolling" =>
    \A k0 \in -1..1, d \in -1..1 :
      LET n == 4 * Len(input)
          la == [i \in 1..n |-> IF i % 4 = input[(i - 1) \div 4 + 1] THEN 4 ELSE 0]
          step == n \div 2
          at(i) == IF i <= step THEN i - k0 ELSE i - (k0 + d)
          lb == [i \in 1..n |-> IF at(i) \in 1..n THEN la[at(i)] ELSE 0]
          got == RollingLag(la, lb, k0, 4, 4, 1)
      IN  \A i \in DOMAIN got :
            /\ got[i][1] \in 2..step - 6 => got[i][2] = k0
            /\ got[i][1] \in step + 3..n - 5 => got[i][2] = k0 + d
==============================================================================
