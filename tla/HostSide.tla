------------------------------ MODULE HostSide -------------------------------
(* What runs on the host beside the capture loop, side by side: the analyses of *)
(* a run, its plot, the decoding of a capture and the reports over a fleet's    *)
(* logs as functions of growing inputs; the table a run writes, the log it      *)
(* follows, the PulseView decoder and the serial logger as machines of their    *)
(* own. The case says which of them a behaviour is about.                       *)
EXTENDS Analysis, LiveDecoder, Layout, Fleet, Studies, CaptureTable, LogTail, SerialLog

vars == <<inputVars, tableVars, liveVars, tailVars, serialVars>>

NoTable ==
  /\ table = Absent /\ archives = {} /\ run = Absent /\ now = 0 /\ writes = 0 /\ runs = 0
  /\ replaced = <<>>

NoCapture ==
  /\ content = <<>> /\ apart = 0 /\ lost = <<1, 0>> /\ samplenum = 0
  /\ stateA = NewBus /\ stateB = NewBus /\ prevLag = None /\ accepted = <<>>

Init ==
  /\ TailInit /\ SerialInit
  /\ \/ InputInit /\ NoTable /\ NoCapture
     \/ case = "table" /\ input = <<>> /\ TableInit /\ NoCapture
     \/ case = "live" /\ input = <<>> /\ NoTable /\ LiveInit
     \/ case \in {"tail", "serial"} /\ input = <<>> /\ NoTable /\ NoCapture

Next ==
  \/ Grow /\ UNCHANGED <<tableVars, liveVars, tailVars, serialVars>>
  \/ case = "table" /\ TableNext /\ UNCHANGED <<inputVars, liveVars, tailVars, serialVars>>
  \/ case = "live" /\ LiveNext /\ UNCHANGED <<inputVars, tableVars, tailVars, serialVars>>
  \/ case = "tail" /\ TailNext /\ UNCHANGED <<inputVars, tableVars, liveVars, serialVars>>
  \/ case = "serial" /\ SerialNext /\ UNCHANGED <<inputVars, tableVars, liveVars, tailVars>>

Spec == Init /\ [][Next]_vars

------------------------------------------------------------------------------
\* What is looked up, placed or locked on is there: the point nearest to a time, the day
\* of a time of day, the evidence of a lock (i2s-skew.py, nearest_at, nearest and
\* tod_to_unix; pd.py, report_window).
LookupsAreTrue == NearestIsNearest /\ TodRoundTrip /\ LockHasEvidence

\* The plot of a run shows what was measured: the envelopes, fits and placings it is made
\* of agree with the truth of their inputs, within the window shown, and a toggle takes
\* away its own element only (i2s-skew.py, split_gaps to make_figure).
PlotIsTrue ==
  /\ EnvelopeKeepsExcursions /\ DerivativeIsLocalFit /\ PanelsStayInWindow
  /\ IntegralSlopeIsMinusOne /\ CrystalConstantFound /\ PlacedWithinDelay
  /\ TogglesStay /\ HidingTakesOnlyItself

\* The reports name what their inputs were made with. Over a run: when it settled, the
\* drift between breaks, the steps, the verdicts (i2s-skew.py, its summaries and studies).
\* Over the logs of several boards: times unwrap, pairs measure the offset, the board that
\* is off and the cause of an incident are named, and what is logged was read
\* (sync-delta.py, diagnose-logs.py, serial-log.py, the offline studies).
ReportsAreTrue ==
  /\ SettledForGood /\ DriftNotReadAcrossGap /\ StepIsTheDisplacement /\ VerdictIsTheEpisodes
  /\ DrainWeighsTheSupply /\ MovedLagIsConfirmed /\ MeansFoldTogether
  /\ UnwrappedTimesAreTrue /\ PairsMeasureTheOffset /\ OffsetBoardIsFlagged /\ CauseIsNamed
  /\ LoggedAsRead /\ RawOffsetIsTrue /\ ResidualIsWhatIsHidden /\ AccountingErrorIsTheSplit

\* The skew two decoders read out of a capture is the one it was made with, losses
\* included (i2s-skew.py, pd.py).
SkewsAreTrue == SkewIsTrue /\ StepSeenInside /\ LossSpoilsNoOtherSlot /\ LiveSkewIsTrue
==============================================================================
