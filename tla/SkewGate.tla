------------------------------ MODULE SkewGate -------------------------------
(* The gates scripts/i2s-skew.py puts every capture through before its offset  *)
(* is written down. A capture measures offset = k frames + a sub-frame part;   *)
(* the correlation that chose k may have taken a neighbouring peak, so the     *)
(* whole frames are rebuilt from what recent captures said, and a capture      *)
(* that disagrees with itself, jumps or has a rival peak is rejected.          *)
(* Offsets are in units of 1/Frame of a frame period.                          *)
EXTENDS Integers, Sequences, FiniteSets

CONSTANTS
  Frame,        \* units of a frame period
  Sub,          \* the sub-frame part of the true skew, in units
  TrueLags,     \* whole frames the boards may be apart
  Picked,       \* whole frames a correlation may come out with
  Window,       \* REF_WINDOW (15)
  ReseedAfter,  \* REF_RESEED_AFTER (3)
  MaxResidue,   \* MAX_LAG_RESIDUE_FRAMES (3)
  RebuildMax,   \* FRAME_REBUILD_MAX (4), the tolerance of a held jump as well
  MaxJump,      \* --max-jump-frames (50)
  None          \* no preferred lag, no held lag, no k yet; NaN as an offset

ASSUME GateAssumption ==
  /\ Frame \in Nat \ {0} /\ Sub \in Int
  /\ TrueLags \subseteq Int /\ Picked \subseteq Int /\ TrueLags \subseteq Picked
  /\ Window \in Nat \ {0} /\ ReseedAfter \in Nat \ {0}
  /\ MaxResidue \in Nat /\ RebuildMax \in Nat /\ MaxJump \in Nat
  /\ None \notin Int

VARIABLES
  lag,        \* the whole frames the boards really are apart
  settled,    \* from now on the boards keep still and captures are honest
  k,          \* main's k: assigned after the rebuild has read it
  prefer, pendingLag, lagHist,   \* the frame counts behind the rebuild and the jump gate
  refHist, consecReject,         \* the accepted offsets behind the continuity wrap
  out,        \* what the last row says: an offset or None
  turn        \* parity of the rows since things settled, so that each is a step

gateVars == <<lag, settled, turn, k, prefer, pendingLag, lagHist, refHist, consecReject, out>>

Skew == lag * Frame + Sub

Near(a, b) == IF a > b THEN a - b ELSE b - a

\* What sorting puts before h[i].
Before(h, i) == {j \in DOMAIN h : h[j] < h[i] \/ (h[j] = h[i] /\ j < i)}

\* sorted(h)[len(h) // 2]: half of the others are before it.
MedianOf(h) == h[CHOOSE i \in DOMAIN h : Cardinality(Before(h, i)) = Len(h) \div 2]

\* Mutant: the histories are not bounded by the window.
PushAll(h, x) == Append(h, x)

\* deque(maxlen=REF_WINDOW).append
Push(h, x) == IF Len(h) < Window THEN Append(h, x) ELSE Append(Tail(h), x)

\* The whole number of frames nearest to x units.
RoundFrames(x) == (2 * x + Frame) \div (2 * Frame)

GateInit ==
  /\ lag \in TrueLags /\ settled = FALSE
  /\ k = None /\ prefer = None /\ pendingLag = None /\ lagHist = <<>>
  /\ refHist = <<>> /\ consecReject = 0 /\ out = None
  /\ turn = 0

------------------------------------------------------------------------------
\* The frame count is rebuilt from the preferred lag where the capture may have
\* picked a neighbour. The lag it takes the sub-frame part by is main's k, which
\* at this point is still that of the row before.
Rebuilt(off) ==
  IF prefer # None /\ Near(k, prefer) <= RebuildMax
  THEN off + (prefer - k) * Frame ELSE off

\* Mutant: the continuity wrap is left out.
NotWrapped(off) == off

\* Whole frames are added to come within 0.3 frame of the median of the
\* accepted offsets, or none at all.
Wrapped(off) ==
  LET ref  == MedianOf(refHist)
      cand == RoundFrames(ref - off)
  IN  IF refHist # <<>> /\ 10 * Near(off + cand * Frame, ref) < 3 * Frame
      THEN off + cand * Frame ELSE off

\* An offset further from the capture's own lag than this is a mis-lock.
Consistent(off, pick) == Near(off, pick * Frame) <= MaxResidue * Frame

\* Mutant: a mis-lock never reseeds the reference.
NeverReseeded(pick) ==
  /\ consecReject' = IF consecReject < ReseedAfter THEN consecReject + 1 ELSE consecReject
  /\ UNCHANGED refHist

\* Mis-locks in a row reseed the reference from the correlation's lag (the
\* count is only compared with ReseedAfter, so it is kept there).
Reseed(pick) ==
  /\ consecReject' = IF consecReject < ReseedAfter THEN consecReject + 1 ELSE consecReject
  /\ refHist' = IF consecReject + 1 >= ReseedAfter THEN <<pick * Frame>> ELSE refHist

\* A jump of the lag is held until the next capture agrees with it.
JumpHeld(pick) ==
  /\ prefer # None /\ Near(pick, prefer) > MaxJump
  /\ pendingLag = None \/ Near(pick, pendingLag) > RebuildMax

\* The frame counts follow a capture that is consistent.
TakeLag(pick, clear) ==
  IF prefer # None /\ Near(pick, prefer) > MaxJump
  THEN IF JumpHeld(pick)
       THEN pendingLag' = pick /\ UNCHANGED <<prefer, lagHist>>
       ELSE lagHist' = <<pick>> /\ prefer' = pick /\ pendingLag' = None
  ELSE /\ lagHist' = Push(lagHist, pick)
       /\ prefer' = IF clear THEN None ELSE MedianOf(lagHist')
       /\ pendingLag' = None

\* Frames the correlation's lag apart are paired and their edges subtracted, so
\* a lag that is whole frames off moves the offset by as many frames.
Measured(pick) == Skew + (pick - lag) * Frame

\* One row of a capture that correlated: pick is the lag it chose, clear that no
\* rival peak comes near, trusted that margin and coefficient pass the last gates.
Row(pick, clear, trusted) ==
  LET raw == Measured(pick)
      off == IF clear THEN raw ELSE Wrapped(Rebuilt(raw))
  IN  /\ k' = pick
      /\ IF ~Consistent(off, pick)
         THEN /\ Reseed(pick) /\ out' = None
              /\ UNCHANGED <<prefer, pendingLag, lagHist>>
         ELSE /\ TakeLag(pick, clear)
              /\ IF JumpHeld(pick) \/ ~trusted
                 THEN out' = None /\ UNCHANGED <<refHist, consecReject>>
                 ELSE /\ out' = off /\ refHist' = Push(refHist, off)
                      /\ consecReject' = 0

\* A capture without a match: its lag is all that is kept of it.
NoMatch(pick) ==
  /\ k' = pick /\ out' = None
  /\ UNCHANGED <<prefer, pendingLag, lagHist, refHist, consecReject>>

\* Before things settle the boards may step, captures may fail to match, pick
\* any lag or be untrusted; a clear capture has found the true lag.
AnyRow ==
  /\ ~settled
  /\ \E pick \in Picked :
        \/ \E trusted \in BOOLEAN : Row(pick, FALSE, trusted)
        \/ NoMatch(pick)
  /\ UNCHANGED <<lag, settled, turn>>

HonestRow ==
  /\ \E clear \in BOOLEAN : Row(lag, clear, TRUE)
  /\ turn' = IF settled THEN 1 - turn ELSE turn
  /\ UNCHANGED <<lag, settled>>

rowVars == <<k, prefer, pendingLag, lagHist, refHist, consecReject, out>>

\* The boards step against each other.
Step ==
  /\ ~settled
  /\ lag' \in TrueLags \ {lag}
  /\ UNCHANGED <<settled, turn, rowVars>>

Settle ==
  /\ ~settled /\ settled' = TRUE
  /\ UNCHANGED <<lag, turn, rowVars>>

GateNext == AnyRow \/ HonestRow \/ Step \/ Settle

\* The measuring loop runs: rows keep coming.
GateSpec == GateInit /\ [][GateNext]_gateVars /\ WF_gateVars(HonestRow)

------------------------------------------------------------------------------
GateTypeOK ==
  /\ lag \in TrueLags /\ settled \in BOOLEAN /\ turn \in 0..1
  /\ k \in Picked \union {None} /\ prefer \in Picked \union {None}
  /\ pendingLag \in Picked \union {None}
  /\ lagHist \in Seq(Picked) /\ Len(lagHist) <= Window
  /\ refHist \in Seq(Int) /\ Len(refHist) <= Window
  /\ consecReject \in 0..ReseedAfter
  /\ out \in Int \/ out = None

\* The reference says where the boards are.
AnchorTrue == refHist # <<>> /\ MedianOf(refHist) = Skew

\* While the reference is true no row is written down a frame off, whatever lag
\* its correlation picked, whatever lag the row before left in k.
AnchoredRowIsTrue ==
  [][(AnyRow \/ HonestRow) /\ AnchorTrue => out' \in {Skew, None}]_gateVars

\* A row is only ever what the two references allow, in bounded histories.
RowsAreTrue == []GateTypeOK /\ AnchoredRowIsTrue

\* After a step, and once captures are honest, rows are accepted again and for
\* good, no further from the truth than the consistency gate lets pass: the
\* rejection that "held it there for 20 minutes" cannot last.
RecoversFromStep ==
  <>[]settled => <>[](out # None /\ Near(out, Skew) <= MaxResidue * Frame)

==============================================================================
