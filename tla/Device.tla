------------------------------- MODULE Device --------------------------------
(* The device beside its ring and its ledger: its settings and entities, the    *)
(* access point it prefers, its control session with the server, the fraction   *)
(* of its clock, the corrections of its position and the fate of its chunks.    *)
(* These do not touch each other's state, so they are taken one at a time: part *)
(* says which of them a behaviour is about.                                     *)
EXTENDS Settings, AccessPoint, ControlSession, RateLock, Position, Servo

VARIABLE part

vars == <<part, settingsVars, apVars, ctlVars, lockVars, positionVars, servoVars>>

TheFirmware == CHOOSE f \in Firmwares : TRUE
TheServer == CHOOSE st \in Standing : \A s \in Streams : st.title[s] = Unknown <=> s \in Silent

Init ==
  /\ part \in {"settings", "access point", "control", "rate lock", "position", "servo"}
  /\ part # "settings" => firmware = TheFirmware
  /\ SettingsInit
  /\ part # "control" => server = TheServer
  /\ CtlInit
  /\ ApInit /\ LockInit /\ PositionInit /\ ServoInit

InSettings(A) ==
  part = "settings" /\ A /\ UNCHANGED <<part, apVars, ctlVars, lockVars, positionVars, servoVars>>
AtAccessPoint(A) ==
  part = "access point" /\ A /\ UNCHANGED <<part, settingsVars, ctlVars, lockVars, positionVars, servoVars>>
InControl(A) ==
  part = "control" /\ A /\ UNCHANGED <<part, settingsVars, apVars, lockVars, positionVars, servoVars>>
InLock(A) ==
  part = "rate lock" /\ A /\ UNCHANGED <<part, settingsVars, apVars, ctlVars, positionVars, servoVars>>
OfPosition(A) ==
  part = "position" /\ A /\ UNCHANGED <<part, settingsVars, apVars, ctlVars, lockVars, servoVars>>
InServo(A) ==
  part = "servo" /\ A /\ UNCHANGED <<part, settingsVars, apVars, ctlVars, lockVars, positionVars>>

Next ==
  \/ InSettings(SettingsNext) \/ AtAccessPoint(ApNext) \/ InControl(CtlNext)
  \/ InLock(LockNext) \/ OfPosition(PositionNext) \/ InServo(ServoNext)

\* The wifi component keeps trying what it may and the main loop goes round; what is
\* due to the control session happens; measured chunks keep coming; the sink answers,
\* and time passes.
Fairness ==
  /\ WF_apVars(part = "access point" /\ Join) /\ WF_apVars(part = "access point" /\ Round)
  /\ WF_apVars(part = "access point" /\ ReportLoss)
  /\ WF_ctlVars(part = "control" /\ Loop) /\ WF_ctlVars(part = "control" /\ Due)
  /\ WF_positionVars(part = "position" /\ Measure(TRUE))
  /\ WF_servoVars(part = "servo" /\ Chunk) /\ WF_servoVars(part = "servo" /\ Answers)
  /\ WF_servoVars(part = "servo" /\ Elapse)

Spec == Init /\ [][Next]_vars /\ Fairness

------------------------------------------------------------------------------
\* Every accepted configuration gives a consistent firmware, and what an entity shows is
\* what is in force, through choices, reboots, reflashes and a server list that changes
\* (snapclient/__init__.py, select, number, text).
SettingsHold ==
  part = "settings" =>
    /\ SettingsTypeOK /\ ResyncOutsideUnmuteBand
    /\ PlaysWhatItShows /\ ServerAsShown /\ KnobIsHonest
    /\ ChoiceSurvives /\ StoredCrystalIsClose

\* The access point a person prefers is the one used while it can be had, and the
\* constraint never keeps the device off the network (wifi_bssid_select.cpp).
NeverStranded ==
  /\ [](part = "access point" => ApTypeOK /\ PreferenceInForce /\ ConstraintTimesOut)
  /\ EndsConnected

\* What the control session says of the server, and the main loop makes of it, follows
\* the server (control_session.cpp, SnapcastClient::loop).
FollowsTheServer ==
  /\ [](part = "control" => CtlTypeOK /\ HearsItsStream /\ ShowsWhatItHears)
  /\ ViewCatchesUp /\ ScopeFollows /\ TitleFollows

\* The divider's fraction is what was asked for, in the register, in its bracket and in
\* the ticks that dither it (frac_select.h, rate_lock.cpp).
TrimIsHeld ==
  part = "rate lock" => LockTypeOK /\ RegisterIsHeld /\ BracketIsTight /\ WithinOneTick

\* A correction of the position is credited once or given up, never awaited for ever
\* (timing_engine.cpp).
CorrectionsAreSettled ==
  [](part = "position" => PositionTypeOK /\ CreditIsEarned) /\ FlightEnds

\* Neither sound nor the repair that cannot be undone comes of evidence gathered before
\* the audio was moved, or counted twice (player_task_).
NothingOnStaleEvidence ==
  [](part = "servo" => ServoTypeOK) /\ UnmuteIsEarned /\ ResyncIsConfirmed

\* Silence ends, by playing or by a new connection (player_task_, check_stale_bailout_).
SilenceEnds == GetsAudible /\ BailsOut
==============================================================================
