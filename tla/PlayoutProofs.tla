---------------------------- MODULE PlayoutProofs ----------------------------
(***************************************************************************)
(* Proofs about Playout, for any sink: whatever it accepts, reports and    *)
(* measures, and however its reports interleave with the player and the    *)
(* main loop.                                                              *)
(*                                                                         *)
(* The three invariants are inductive together: the clamp of a report      *)
(* keeps played below pushed only because it is taken from the same pushed *)
(* and played (one critical section), a repayment because it is bounded by *)
(* what is queued then, and the seed of the mean stays below played        *)
(* because whatever lowers played also discards the mean.                  *)
(***************************************************************************)
EXTENDS Playout, TLAPS

\* The numeric part, which is inductive by itself: no count depends on a flag
\* except through which action is taken.
Counts == CountersOK /\ PlayedWithinPushed /\ PivotWithinLedger

IInv == Counts /\ FlagsOK

USE PlayoutAssumption

\* The initial state satisfies the inductive invariant.
LEMMA InitIInv == Init => IInv
<1> SUFFICES ASSUME Init PROVE IInv
  OBVIOUS
<1>1. Counts
  BY DEF Init, Counts, CountersOK, PlayedWithinPushed, PivotWithinLedger
<1>2. FlagsOK
  BY DEF Init, FlagsOK
<1> QED BY <1>1, <1>2 DEF IInv

\* A report moves played forward, at most to pushed.
LEMMA FeedbackCounts ==
    ASSUME Counts, NEW frames \in Credits, Feedback(frames)
    PROVE  Counts'
<1> USE DEF Counts, CountersOK
<1> DEFINE counted == LesserOf(frames, GreaterOf(Queued, 0))
<1>1. counted \in Nat /\ played + counted <= pushed
  BY DEF PlayedWithinPushed, Queued, LesserOf, GreaterOf
<1>2. /\ played' = played + counted /\ pushed' = pushed
      /\ fbSamples' \in 0..FbMature
      /\ fbSeed' \in Nat /\ fbSeed' <= played'
  <2>1. /\ played' = played + counted /\ pushed' = pushed
        /\ MeanTakes(played + counted, fbSamples)
    BY DEF Feedback
  <2> HIDE DEF counted
  <2> QED BY <1>1, <2>1 DEF MeanTakes, LesserOf, PivotWithinLedger
<1>3. UNCHANGED <<suppress, debt, repayIn, inWrite, plPhase>>
  BY DEF Feedback, debtVars
<1> HIDE DEF counted
<1> QED BY <1>1, <1>2, <1>3 DEF PlayedWithinPushed, PivotWithinLedger

\* A report after a flush makes everything counted played.
LEMMA FlushCounts ==
    ASSUME Counts, NEW frames \in Credits, FeedbackAfterFlush(frames)
    PROVE  Counts'
<1> USE DEF Counts, CountersOK
<1>1. /\ pushed' = played + frames /\ played' = pushed'
      /\ fbSamples' \in 0..FbMature /\ fbSeed' = played'
  BY DEF FeedbackAfterFlush, MeanTakes, LesserOf
<1>2. UNCHANGED <<suppress, debt, repayIn, inWrite, plPhase>>
  BY DEF FeedbackAfterFlush
<1> QED BY <1>1, <1>2 DEF PlayedWithinPushed, PivotWithinLedger

\* A re-baseline starts a ledger with nothing played and no mean.
LEMMA SeedCounts ==
    ASSUME Counts, NEW latency \in Depths \cup {Unknown}, NEW own \in Depths \cup {Unknown},
           PlayerSeed(latency, own)
    PROVE  Counts'
<1> USE DEF Counts, CountersOK, Unknown
<1>1. pushed' \in Nat /\ played' = 0 /\ fbSamples' = 0 /\ suppress' \in Nat
  BY DEF PlayerSeed, GreaterOf
<1>2. debt' \in Nat /\ repayIn' \in Nat
  BY DEF PlayerSeed, Padding, GreaterOf
<1>3. fbSeed' = fbSeed /\ inWrite' = inWrite /\ plPhase' = "check"
  BY DEF PlayerSeed
<1> QED BY <1>1, <1>2, <1>3 DEF PlayedWithinPushed, PivotWithinLedger

\* A repayment never takes more than is queued.
LEMMA RepayCounts ==
    ASSUME Counts, PlayerRepay
    PROVE  Counts'
<1> USE DEF Counts, CountersOK
<1>1. pushed' \in Nat /\ played <= pushed'
  BY DEF PlayerRepay, PlayedWithinPushed, Queued, LesserOf, GreaterOf
<1>2. /\ debt' = 0 /\ repayIn' = 0 /\ plPhase' = "push"
      /\ UNCHANGED <<played, fbSamples, fbSeed, suppress, inWrite>>
  BY DEF PlayerRepay, starveVars
<1> QED BY <1>1, <1>2 DEF PlayedWithinPushed, PivotWithinLedger

\* Every other step of the player leaves played and the mean alone and never
\* lowers pushed.
LEMMA PlayerCounts ==
    ASSUME Counts,
           \/ PlayerTake \/ PlayerCredit \/ PlayerRecordDone \/ PlayerKeepalive
           \/ \E answered \in BOOLEAN : PlayerCheckDebt(answered)
           \/ \E n \in Writes : PlayerWrite(n)
    PROVE  Counts'
<1> USE DEF Counts, CountersOK, ledgerVars, starveVars, debtVars,
            PlayedWithinPushed, PivotWithinLedger
<1>1. CASE PlayerTake
  BY <1>1 DEF PlayerTake
<1>2. CASE PlayerCredit
  BY <1>2 DEF PlayerCredit
<1>3. CASE PlayerRecordDone
  BY <1>3 DEF PlayerRecordDone
<1>4. CASE PlayerKeepalive
  BY <1>4 DEF PlayerKeepalive
<1>5. CASE \E answered \in BOOLEAN : PlayerCheckDebt(answered)
  BY <1>5 DEF PlayerCheckDebt
<1>6. CASE \E n \in Writes : PlayerWrite(n)
  BY <1>6 DEF PlayerWrite
<1> QED BY <1>1, <1>2, <1>3, <1>4, <1>5, <1>6

\* Switching the output and the passing of time.
LEMMA OtherCounts ==
    ASSUME Counts, OutputOn \/ OutputOff \/ Tick
    PROVE  Counts'
<1> USE DEF Counts, CountersOK, ledgerVars, starveVars, debtVars,
            PlayedWithinPushed, PivotWithinLedger
<1>1. CASE OutputOn
  BY <1>1 DEF OutputOn
<1>2. CASE OutputOff
  BY <1>2 DEF OutputOff
<1>3. CASE Tick
  BY <1>3 DEF Tick, GreaterOf
<1> QED BY <1>1, <1>2, <1>3

\* The flags stay flags.
LEMMA NextFlags == FlagsOK /\ Next => FlagsOK'
<1> SUFFICES ASSUME FlagsOK, Next PROVE FlagsOK'
  OBVIOUS
<1> USE DEF FlagsOK, ledgerVars, starveVars, debtVars
<1>1. CASE \E frames \in Credits : Feedback(frames)
  BY <1>1 DEF Feedback
<1>2. CASE \E frames \in Credits : FeedbackAfterFlush(frames)
  BY <1>2 DEF FeedbackAfterFlush
<1>3. CASE PlayerTake \/ PlayerCredit \/ PlayerRecordDone \/ PlayerKeepalive
  BY <1>3 DEF PlayerTake, PlayerCredit, PlayerRecordDone, PlayerKeepalive
<1>4. CASE PlayerRepay
  BY <1>4 DEF PlayerRepay
<1>5. CASE \E latency, own \in Depths \cup {Unknown} : PlayerSeed(latency, own)
  BY <1>5 DEF PlayerSeed
<1>6. CASE \E answered \in BOOLEAN : PlayerCheckDebt(answered)
  BY <1>6 DEF PlayerCheckDebt
<1>7. CASE \E n \in Writes : PlayerWrite(n)
  BY <1>7 DEF PlayerWrite
<1>8. CASE OutputOn \/ OutputOff \/ Tick
  BY <1>8 DEF OutputOn, OutputOff, Tick
<1> QED BY <1>1, <1>2, <1>3, <1>4, <1>5, <1>6, <1>7, <1>8 DEF Next, PlayerStep

-----------------------------------------------------------------------------
\* The ledger's invariants hold in every reachable state, for any sink.
THEOREM PlayoutInvariant == Spec => []IInv
<1>1. Init => IInv
  BY InitIInv
<1>2. IInv /\ [Next]_vars => IInv'
  <2> SUFFICES ASSUME IInv, [Next]_vars PROVE IInv'
    OBVIOUS
  <2>1. CASE UNCHANGED vars
    BY <2>1 DEF vars, ledgerVars, starveVars, debtVars, IInv, Counts,
                CountersOK, FlagsOK, PlayedWithinPushed, PivotWithinLedger
  <2>2. CASE Next
    <3>1. Counts'
      BY <2>2, FeedbackCounts, FlushCounts, SeedCounts, RepayCounts, PlayerCounts,
         OtherCounts DEF Next, PlayerStep, IInv
    <3>2. FlagsOK'
      BY <2>2, NextFlags DEF IInv
    <3> QED BY <3>1, <3>2 DEF IInv
  <2> QED BY <2>1, <2>2
<1> QED BY <1>1, <1>2, PTL DEF Spec

\* Type correctness of the ledger, the flags and the player's phase.
THEOREM PlayoutTypeOK == Spec => []TypeOK
BY PlayoutInvariant, PTL DEF IInv, Counts, TypeOK

\* notify_audio_played's physical invariant: played never exceeds pushed.
THEOREM PlayoutPlayedWithinPushed == Spec => []PlayedWithinPushed
BY PlayoutInvariant, PTL DEF IInv, Counts

\* The mean predict_next_play_us_ pivots on is of the current ledger.
THEOREM PlayoutPivotWithinLedger == Spec => []PivotWithinLedger
BY PlayoutInvariant, PTL DEF IInv, Counts

\* The ledger is sound, whatever the sink reports.
THEOREM PlayoutLedgerHolds == Spec => []LedgerHolds
BY PlayoutTypeOK, PlayoutPlayedWithinPushed, PlayoutPivotWithinLedger, PTL DEF LedgerHolds
=============================================================================
