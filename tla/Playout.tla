------------------------------ MODULE Playout -------------------------------
(***************************************************************************)
(* The playout ledger of the snapclient: pushed_frames_total_ counts the   *)
(* frames the pipeline has accepted, played_frames_total_ those it reports *)
(* as rendered, and every prediction of when the next frame will be heard  *)
(* rests on the difference.  Three threads change the ledger, each under   *)
(* playout_mutex_, and none holds the mutex across a call to the sink:     *)
(*                                                                         *)
(*    the speaker callback   notify_audio_played                           *)
(*    the player task        push_chunk_, push_silence_, the re-baseline   *)
(*                           after a starvation and the repayment of its   *)
(*                           padding debt                                  *)
(*    the main loop          set_output_active                             *)
(*                                                                         *)
(* The sink is not in the repository.  Nothing is assumed of it: it        *)
(* accepts, reports and measures any number of frames at any time, and any *)
(* report may come after a gap that says it was restarted in between.      *)
(* The test hook that shifts the ledger on purpose (inject_split) is left  *)
(* out, and so is the history of levels, which only diagnostics read.      *)
(***************************************************************************)
EXTENDS Integers

CONSTANTS
    Credits,       \* frames one report may claim
    Writes,        \* frames the sink may accept in one write
    Depths,        \* frames the sink may measure as in flight
    FbMature,      \* reports before the feedback mean is trusted (8)
    SuppressFloor, \* least suppression after a re-baseline (1 s)
    MaxFrames      \* bound: frames accepted between two re-baselines

Unknown == -1      \* a query the sink does not answer

ASSUME PlayoutAssumption ==
    /\ Credits \subseteq Nat
    /\ Writes \subseteq Nat \ {0}
    /\ Depths \subseteq Nat
    /\ FbMature \in Nat \ {0}
    /\ SuppressFloor \in Nat
    /\ MaxFrames \in Nat

VARIABLES
    pushed,        \* pushed_frames_total_
    played,        \* played_frames_total_
    valid,         \* playout_valid_
    fbSamples,     \* fb_samples_, up to FbMature
    fbSeed,        \* the value of played the running mean was seeded with
    latched,       \* starved_latched_
    starved,       \* pipeline_starved_
    suppress,      \* time left until starve_suppress_until_us_
    debt,          \* st.padding_debt_frames
    repayIn,       \* time left until st.padding_repay_at_us
    plPhase,       \* where the player task is
    inWrite,       \* frames accepted by the write in progress, not yet counted
    outputActive   \* output_active_

ledgerVars == <<pushed, played, valid, fbSamples, fbSeed>>
starveVars == <<latched, starved, suppress>>
debtVars   == <<debt, repayIn>>
vars == <<ledgerVars, starveVars, debtVars, inWrite, plPhase, outputActive>>

LesserOf(a, b)  == IF a < b THEN a ELSE b
GreaterOf(a, b) == IF a > b THEN a ELSE b

\* Frames in the pipeline, as far as the ledger knows.
Queued == pushed - played

Init ==
    /\ pushed = 0 /\ played = 0 /\ valid = FALSE
    /\ fbSamples = 0 /\ fbSeed = 0
    /\ latched = FALSE /\ starved = FALSE /\ suppress = 0
    /\ debt = 0 /\ repayIn = 0
    /\ plPhase = "idle" /\ inWrite = 0
    /\ outputActive = FALSE

-----------------------------------------------------------------------------
(* The speaker callback: notify_audio_played, one critical section. *)

\* The running mean of the feedback takes one more sample; the first one
\* after a restart seeds it.
MeanTakes(level, samples) ==
    /\ fbSamples' = LesserOf(samples + 1, FbMature)
    /\ fbSeed' = IF samples = 0 THEN level ELSE fbSeed

\* Mutant: the report is credited unclamped.
FeedbackUnclamped(frames) ==
    /\ played' = played + frames /\ valid' = TRUE
    /\ latched' = IF frames > 0 THEN FALSE ELSE latched
    /\ MeanTakes(played + frames, fbSamples)
    /\ UNCHANGED <<pushed, starved, suppress, debtVars, inWrite, plPhase, outputActive>>

\* Mutant: only a ledger already below zero counts as drained.
FeedbackMissesDrain(frames) ==
    LET counted == LesserOf(frames, Queued)
        drained == frames > Queued /\ Queued < 0
    IN  /\ latched' = IF drained THEN TRUE ELSE IF frames > 0 THEN FALSE ELSE latched
        /\ starved' = (starved \/ drained)
        /\ played' = played + counted /\ valid' = TRUE
        /\ MeanTakes(played + counted, fbSamples)
        /\ UNCHANGED <<pushed, suppress, debtVars, inWrite, plPhase, outputActive>>

\* A report of frames rendered.  It is clamped to what the ledger says can
\* have been there; a report on an empty ledger is a complete drain, flagged
\* once until a report fits again, and not while suppressed.
Feedback(frames) ==
    LET counted == LesserOf(frames, GreaterOf(Queued, 0))
        drained == frames > 0 /\ Queued <= 0 /\ ~latched /\ suppress = 0
    IN  /\ latched' = IF frames > Queued THEN latched \/ drained
                      ELSE latched /\ frames = 0
        /\ starved' = (starved \/ drained)
        /\ played' = played + counted /\ valid' = TRUE
        /\ MeanTakes(played + counted, fbSamples)
        /\ UNCHANGED <<pushed, suppress, debtVars, inWrite, plPhase, outputActive>>

\* A report after a gap of more than PIPELINE_FLUSH_GAP_US: the pipeline was
\* restarted and what it held is gone, so everything counted is played.
FeedbackAfterFlush(frames) ==
    /\ valid
    /\ played + frames <= MaxFrames
    /\ pushed' = played + frames /\ played' = played + frames
    /\ latched' = (latched /\ frames = 0)
    /\ MeanTakes(played + frames, 0)
    /\ UNCHANGED <<valid, starved, suppress, debt, repayIn, inWrite, plPhase,
                   outputActive>>

-----------------------------------------------------------------------------
(* The player task. *)

\* Mutant: the starvation flag is read and not consumed.
PlayerTakeKeepsFlag ==
    /\ plPhase = "idle" /\ outputActive
    /\ plPhase' = IF starved THEN "seed" ELSE "check"
    /\ UNCHANGED <<ledgerVars, starveVars, debtVars, inWrite, outputActive>>

\* A record is popped while the output is active.  (With the output inactive
\* the record is discarded and none of the state here changes.)  The
\* starvation flag is consumed here; the sink is asked afterwards.
PlayerTake ==
    /\ plPhase = "idle" /\ outputActive
    /\ plPhase' = IF starved THEN "seed" ELSE "check"
    /\ starved' = FALSE
    /\ UNCHANGED <<ledgerVars, latched, suppress, debtVars, inWrite, outputActive>>

\* The padding in what the sink measured: the part of its latency that is
\* none of our audio.
Padding(latency, own) ==
    IF latency # Unknown /\ own # Unknown THEN GreaterOf(latency - own, 0) ELSE 0

\* Mutant: the mean of the feedback survives the re-baseline.
PlayerSeedKeepsMean(latency, own) ==
    /\ plPhase = "seed"
    /\ pushed' = GreaterOf(latency, 0) /\ played' = 0 /\ valid' = FALSE
    /\ debt' = Padding(latency, own)
    /\ repayIn' = IF debt' > 0 THEN latency ELSE 0
    /\ suppress' = GreaterOf(2 * latency, SuppressFloor)
    /\ plPhase' = "check"
    /\ UNCHANGED <<fbSamples, fbSeed, latched, starved, inWrite, outputActive>>

\* rebaseline_after_starvation_: the ledger restarts from the latency the
\* sink measures, or from empty if it cannot; the padding in that figure is
\* to be repaid when it has drained.
PlayerSeed(latency, own) ==
    /\ plPhase = "seed"
    /\ pushed' = GreaterOf(latency, 0) /\ played' = 0 /\ valid' = FALSE
    /\ fbSamples' = 0
    /\ debt' = Padding(latency, own)
    /\ repayIn' = IF debt' > 0 THEN latency ELSE 0
    /\ suppress' = GreaterOf(2 * latency, SuppressFloor)
    /\ plPhase' = "check"
    /\ UNCHANGED <<fbSeed, latched, starved, inWrite, outputActive>>

\* Is the debt due?  If it is and both queries are answered, repay it.
PlayerCheckDebt(answered) ==
    /\ plPhase = "check"
    /\ plPhase' = IF debt > 0 /\ repayIn = 0 /\ answered THEN "repay" ELSE "push"
    /\ UNCHANGED <<ledgerVars, starveVars, debtVars, inWrite, outputActive>>

\* Mutant: the whole debt is taken off, below what has been played.
PlayerRepayWhole ==
    /\ plPhase = "repay"
    /\ pushed' = pushed - debt
    /\ debt' = 0 /\ repayIn' = 0
    /\ plPhase' = "push"
    /\ UNCHANGED <<played, valid, fbSamples, fbSeed, starveVars, inWrite, outputActive>>

\* Repay what the ledger still holds of the debt, never below played.
PlayerRepay ==
    /\ plPhase = "repay"
    /\ pushed' = pushed - GreaterOf(LesserOf(debt, Queued), 0)
    /\ debt' = 0 /\ repayIn' = 0
    /\ plPhase' = "push"
    /\ UNCHANGED <<played, valid, fbSamples, fbSeed, starveVars, inWrite, outputActive>>

\* With no record to play, push_silence_ keeps the pipeline fed.
PlayerKeepalive ==
    /\ plPhase = "idle" /\ outputActive
    /\ plPhase' = "push"
    /\ UNCHANGED <<ledgerVars, starveVars, debtVars, inWrite, outputActive>>

\* The sink accepts n frames: they are in the pipeline and not yet counted.
PlayerWrite(n) ==
    /\ plPhase = "push" /\ outputActive
    /\ pushed + n <= MaxFrames
    /\ plPhase' = "credit" /\ inWrite' = n
    /\ UNCHANGED <<ledgerVars, starveVars, debtVars, outputActive>>

\* The write has returned: count its frames.
PlayerCredit ==
    /\ plPhase = "credit"
    /\ pushed' = pushed + inWrite
    /\ plPhase' = "push" /\ inWrite' = 0
    /\ UNCHANGED <<played, valid, fbSamples, fbSeed, starveVars, debtVars, outputActive>>

\* Done with the record: it is played, late, refused, or the output stopped.
PlayerRecordDone ==
    /\ plPhase = "push"
    /\ plPhase' = "idle"
    /\ UNCHANGED <<ledgerVars, starveVars, debtVars, inWrite, outputActive>>

PlayerStep ==
    \/ PlayerTake \/ PlayerRepay \/ PlayerCredit \/ PlayerRecordDone
    \/ \E latency, own \in Depths \cup {Unknown} : PlayerSeed(latency, own)
    \/ \E answered \in BOOLEAN : PlayerCheckDebt(answered)

-----------------------------------------------------------------------------
(* The main loop: set_output_active. *)

\* The pipeline restarts with the output: so does the ledger.
OutputOn ==
    /\ ~outputActive
    /\ pushed' = 0 /\ played' = 0 /\ valid' = FALSE /\ fbSamples' = 0
    /\ outputActive' = TRUE
    /\ UNCHANGED <<fbSeed, starveVars, debt, repayIn, inWrite, plPhase>>

OutputOff ==
    /\ outputActive
    /\ outputActive' = FALSE
    /\ UNCHANGED <<ledgerVars, starveVars, debtVars, inWrite, plPhase>>

\* Time passes.
Tick ==
    /\ suppress > 0 \/ repayIn > 0
    /\ suppress' = GreaterOf(suppress - 1, 0)
    /\ repayIn' = GreaterOf(repayIn - 1, 0)
    /\ UNCHANGED <<ledgerVars, latched, starved, debt, inWrite, plPhase,
                   outputActive>>

Next ==
    \/ \E frames \in Credits : Feedback(frames) \/ FeedbackAfterFlush(frames)
    \/ PlayerStep \/ PlayerKeepalive
    \/ \E n \in Writes : PlayerWrite(n)
    \/ OutputOn \/ OutputOff
    \/ Tick

Spec == Init /\ [][Next]_vars

\* The player keeps running, a record ends after finitely many writes, records
\* keep arriving between keepalives, time passes, and the sink keeps
\* rendering: its reports go on, of real audio or of fill.
FairSpec ==
    /\ Spec
    /\ WF_vars(PlayerStep)
    /\ SF_vars(PlayerRecordDone)
    /\ SF_vars(PlayerTake)
    /\ WF_vars(Tick)
    /\ WF_vars(\E frames \in Credits \ {0} : Feedback(frames))

-----------------------------------------------------------------------------
(* Properties. *)

CountersOK ==
    /\ pushed \in Nat /\ played \in Nat
    /\ fbSamples \in 0..FbMature /\ fbSeed \in Nat
    /\ suppress \in Nat /\ debt \in Nat /\ repayIn \in Nat
    /\ inWrite \in Nat
    /\ plPhase \in {"idle", "seed", "check", "repay", "push", "credit"}

FlagsOK ==
    /\ valid \in BOOLEAN /\ latched \in BOOLEAN /\ starved \in BOOLEAN
    /\ outputActive \in BOOLEAN

TypeOK == CountersOK /\ FlagsOK

\* "Physical invariant: played can never exceed pushed" (notify_audio_played).
\* Once it fails every later report is clamped to nothing, played stops and
\* the starvation latch fires for good: the comment at the repayment reports
\* seven minutes of silence.  It has to hold whatever the sink reports, with
\* writes in flight, through re-baselines, repayments and restarts.
PlayedWithinPushed == played <= pushed

\* The feedback mean predict_next_play_us_ pivots on belongs to the ledger it
\* is subtracted from: it lies between its seed and played, so the prediction
\* never adds frames of a ledger that no longer exists.
PivotWithinLedger == fbSamples > 0 => fbSeed <= played

\* The ledger is sound: what predict_next_play_us_ computes is of audio that was pushed
\* and of the ledger as it stands.
LedgerHolds == TypeOK /\ PlayedWithinPushed /\ PivotWithinLedger

\* A starvation that was flagged is re-baselined as long as the output stays
\* on and records arrive.
StarvationServed == starved ~> (~starved \/ ~outputActive)

\* A drain is never overlooked: a ledger that stays empty while the sink
\* reports frames ends up latched, whatever was suppressed before.
DrainNoticed == (Queued = 0) ~> (Queued > 0 \/ latched)

=============================================================================
