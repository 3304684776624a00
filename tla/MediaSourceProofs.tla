-------------------------- MODULE MediaSourceProofs --------------------------
(***************************************************************************)
(* What holds of the media source: of Volume for any slider positions,     *)
(* bounds and freedoms, of Transport for any patience of the watchdog. The *)
(* two share no state.                                                     *)
(*                                                                         *)
(* Types: TypeOK alone is not inductive, that the source only ever asks    *)
(* for real levels rests on SettingsKnown, that the timeout is set only    *)
(* once the server has pushed a level.                                     *)
(*                                                                         *)
(* The server's last word: Word follows the last push through the inbox,   *)
(* the source's fields and the requests to the player.                     *)
(*                                                                         *)
(* Agreement: Turn names the phases a change goes through while people     *)
(* take turns.                                                             *)
(***************************************************************************)
EXTENDS Volume, Transport, SequenceTheorems, TLAPS

SettingsKnown == applyIn # "off" => lastVolume \in Volumes /\ lastMuted \in Muted

USE VolumeAssumption

\* What the notifications and the report make of the source's fields.
SourceType ==
    [report : SUBSET Level, lastVolume : Volumes \cup {Unknown},
     lastMuted : Muted \cup {Unknown}, local : Level, grace : {"over", "running"},
     applyIn : {"off", "due", "after grace"}]

Known(s) == s.applyIn # "off" => s.lastVolume \in Volumes /\ s.lastMuted \in Muted

\* A report of a real level keeps the source's fields in their types.
LEMMA ReportType ==
    ASSUME NEW s \in SourceType, Known(s), NEW levels \in SUBSET Level
    PROVE  /\ [s EXCEPT !.report = levels] \in SourceType
           /\ Known([s EXCEPT !.report = levels])
BY DEF SourceType, Known

\* A mute notification keeps the source's fields in their types.
LEMMA NotifyMuteType ==
    ASSUME NEW s \in SourceType, Known(s), NEW muted \in Muted
    PROVE  NotifyMute(s, muted) \in SourceType /\ Known(NotifyMute(s, muted))
<1> DEFINE t == [s EXCEPT !.local.muted = muted]
           u == [t EXCEPT !.report = {t.local}]
           v == [u EXCEPT !.lastMuted = muted]
<1>1. t \in SourceType /\ Known(t) /\ t.local \in Level
  BY DEF SourceType, Known, Level
<1>2. NotifyMute(s, muted) = IF muted = s.lastMuted THEN t ELSE v
  BY DEF NotifyMute
<1> HIDE DEF t
<1>3. u \in SourceType /\ Known(u)
  <2>1. {t.local} \in SUBSET Level
    BY <1>1
  <2> QED BY <1>1, <2>1, ReportType
<1> HIDE DEF u
<1>4. v \in SourceType /\ Known(v)
  BY <1>3 DEF SourceType, Known
<1> HIDE DEF v
<1> QED BY <1>1, <1>2, <1>4

\* A volume notification keeps the source's fields in their types.
LEMMA NotifyVolumeType ==
    ASSUME NEW s \in SourceType, Known(s), NEW volume \in Volumes
    PROVE  NotifyVolume(s, volume) \in SourceType /\ Known(NotifyVolume(s, volume))
<1> DEFINE t == [s EXCEPT !.grace = "running", !.local.volume = volume,
                          !.applyIn = IF @ = "after grace" THEN "due" ELSE @]
           u == [t EXCEPT !.report = {t.local}]
           v == [u EXCEPT !.lastVolume = volume]
<1>1. t \in SourceType /\ Known(t) /\ t.local \in Level
  BY DEF SourceType, Known, Level
<1>2. NotifyVolume(s, volume) = IF volume = lastGain THEN s ELSE IF volume = s.lastVolume THEN t ELSE v
  BY DEF NotifyVolume
<1> HIDE DEF t
<1>3. u \in SourceType /\ Known(u)
  <2>1. {t.local} \in SUBSET Level
    BY <1>1
  <2> QED BY <1>1, <2>1, ReportType
<1> HIDE DEF u
<1>4. v \in SourceType /\ Known(v)
  BY <1>3 DEF SourceType, Known
<1> HIDE DEF v
<1> QED BY <1>1, <1>2, <1>4

\* The source's part of the types, before and after a step.
SourceOK ==
    /\ report \subseteq Level
    /\ local \in Level /\ grace \in {"over", "running"}
    /\ lastVolume \in Volumes \cup {Unknown} /\ lastMuted \in Muted \cup {Unknown}
    /\ applyIn \in {"off", "due", "after grace"}
    /\ SettingsKnown

\* As long as the types hold, the source's fields form a well-typed record.
LEMMA SourceIsTyped == SourceOK => Source \in SourceType /\ Known(Source)
BY DEF SourceOK, Source, SourceType, Known, SettingsKnown

\* A source that takes over a well-typed record is well typed.
LEMMA BecomeType ==
    ASSUME NEW s \in SourceType, Known(s), Become(s)
    PROVE  SourceOK'
BY DEF SourceType, Known, Become, SourceOK, SettingsKnown

\* Setting the volume leaves a real level and a well-typed source.
LEMMA SetVolumeType ==
    ASSUME SourceOK, player \in Level, NEW volume \in Volumes, SetVolume(volume)
    PROVE  SourceOK' /\ player' \in Level /\ lastGain' = lastGain
<1> DEFINE unmuted == IF player.muted = 1 THEN NotifyMute(Source, 0) ELSE Source
<1>1. unmuted \in SourceType /\ Known(unmuted)
  BY SourceIsTyped, NotifyMuteType DEF Muted
<1>2. Become(NotifyVolume(unmuted, volume)) /\ player' = [volume |-> volume, muted |-> 0]
  BY DEF SetVolume
<1>3. SourceOK'
  <2> HIDE DEF unmuted
  <2> QED BY <1>1, <1>2, NotifyVolumeType, BecomeType
<1> QED BY <1>2, <1>3 DEF Become, Level, Muted

\* Muting leaves a real level and a well-typed source.
LEMMA SetMuteType ==
    ASSUME SourceOK, player \in Level, NEW muted \in Muted, SetMute(muted)
    PROVE  SourceOK' /\ player' \in Level /\ lastGain' = lastGain
<1> DEFINE s == IF player.muted = muted THEN Source ELSE NotifyMute(Source, muted)
<1>1. s \in SourceType /\ Known(s)
  BY SourceIsTyped, NotifyMuteType
<1>2. Become(s) /\ player' = [volume |-> player.volume, muted |-> muted]
  BY DEF SetMute
<1>3. SourceOK'
  <2> HIDE DEF s
  <2> QED BY <1>1, <1>2, BecomeType
<1> QED BY <1>2, <1>3 DEF Become, Level

-----------------------------------------------------------------------------
\* The inductive invariant, grouped by who changes what.
PlacesOK ==
    /\ server \in Level /\ player \in Level
    /\ lastGain \in Volumes \cup {Unknown}

PathsOK ==
    /\ inbox \in Seq(Level) /\ Len(inbox) <= MaxInbox
    /\ requests \in Seq(Request) /\ Len(requests) <= MaxRequests
    /\ lastPush \subseteq Level

IInv == SourceOK /\ PlacesOK /\ PathsOK /\ up \in BOOLEAN /\ freedoms \in FreedomSets

\* The inductive invariant contains the types.
LEMMA IInvTypeOK == IInv => TypeOK
BY DEF IInv, SourceOK, PlacesOK, PathsOK, TypeOK, LevelsOK, QueuesOK

\* The initial state satisfies the inductive invariant.
LEMMA InitIInv == Init => IInv
<1> SUFFICES ASSUME Init PROVE IInv
  OBVIOUS
<1>1. SourceOK
  BY DEF Init, SourceOK, SettingsKnown, Level, Muted
<1>2. PlacesOK /\ PathsOK
  BY DEF Init, PlacesOK, PathsOK
<1>3. up \in BOOLEAN /\ freedoms \in FreedomSets
  BY Zenon DEF Init
<1> QED BY <1>1, <1>2, <1>3 DEF IInv

\* Steps of people keep the invariant.
LEMMA PeopleStep == IInv /\ People => IInv'
<1> SUFFICES ASSUME IInv, People PROVE IInv'
  OBVIOUS
<1> USE DEF IInv
<1>1. ASSUME NEW level \in Level, ServerChanges(level) PROVE IInv'
  <2>1. PathsOK'
    <3>1. inbox \in Seq(Level) /\ server' \in Level
      BY <1>1 DEF ServerChanges, PathsOK
    <3>2. Append(inbox, level) \in Seq(Level) /\ Len(Append(inbox, level)) = Len(inbox) + 1
      BY <3>1, AppendProperties
    <3>3. lastPush' \subseteq Level
      BY <1>1 DEF ServerChanges, Push, PathsOK
    <3>4. inbox' = inbox \/ inbox' = Append(inbox, level)
      BY <1>1 DEF ServerChanges, Push
    <3>5. Len(inbox) < MaxInbox /\ requests' = requests
      BY <1>1 DEF ServerChanges
    <3> QED BY <3>1, <3>2, <3>3, <3>4, <3>5 DEF PathsOK
  <2>2. SourceOK'
    BY <1>1 DEF ServerChanges, SourceOK, SettingsKnown, beliefs, applying
  <2>3. PlacesOK'
    BY <1>1 DEF ServerChanges, beliefs, PlacesOK
  <2>4. up' = up /\ freedoms' = freedoms
    BY <1>1 DEF ServerChanges
  <2> QED BY <2>1, <2>2, <2>3, <2>4
<1>2. ASSUME NEW volume \in Volumes, PersonSetsVolume(volume) PROVE IInv'
  <2>1. SourceOK' /\ player' \in Level /\ lastGain' = lastGain
    BY <1>2, SetVolumeType DEF PersonSetsVolume, PlacesOK
  <2>2. PathsOK'
    BY <1>2 DEF PersonSetsVolume, PathsOK
  <2>3. PlacesOK'
    BY <1>2, <2>1 DEF PersonSetsVolume, PlacesOK
  <2>4. up' = up /\ freedoms' = freedoms
    BY <1>2 DEF PersonSetsVolume
  <2> QED BY <2>1, <2>2, <2>3, <2>4
<1>3. ASSUME NEW muted \in Muted, PersonSetsMute(muted) PROVE IInv'
  <2>1. SourceOK' /\ player' \in Level /\ lastGain' = lastGain
    BY <1>3, SetMuteType DEF PersonSetsMute, PlacesOK
  <2>2. PathsOK'
    BY <1>3 DEF PersonSetsMute, PathsOK
  <2>3. PlacesOK'
    BY <1>3, <2>1 DEF PersonSetsMute, PlacesOK
  <2>4. up' = up /\ freedoms' = freedoms
    BY <1>3 DEF PersonSetsMute
  <2> QED BY <2>1, <2>2, <2>3, <2>4
<1> QED BY <1>1, <1>2, <1>3 DEF People

\* Steps of the connection keep the invariant.
LEMMA LinkStep == IInv /\ Link => IInv'
<1> SUFFICES ASSUME IInv, Link PROVE IInv'
  OBVIOUS
<1> USE DEF IInv
<1>1. CASE Connect
  <2>1. PathsOK'
    <3>1. inbox \in Seq(Level) /\ server \in Level
      BY DEF PathsOK, PlacesOK
    <3>2. Append(inbox, server) \in Seq(Level) /\ Len(Append(inbox, server)) = Len(inbox) + 1
      BY <3>1, AppendProperties
    <3> QED BY <1>1, <3>1, <3>2 DEF Connect, Push, PathsOK
  <2>2. SourceOK'
    BY <1>1 DEF Connect, SourceOK, SettingsKnown, beliefs, applying
  <2>3. PlacesOK'
    BY <1>1 DEF Connect, PlacesOK, beliefs
  <2>4. up' \in BOOLEAN /\ freedoms' = freedoms
    BY <1>1 DEF Connect
  <2> QED BY <2>1, <2>2, <2>3, <2>4
<1>2. CASE Disconnect
  <2>1. PathsOK'
    BY <1>2 DEF Disconnect, PathsOK
  <2>2. SourceOK'
    BY <1>2 DEF Disconnect, SourceOK, SettingsKnown, beliefs, applying
  <2>3. PlacesOK'
    BY <1>2 DEF Disconnect, PlacesOK, beliefs
  <2>4. up' \in BOOLEAN /\ freedoms' = freedoms
    BY <1>2 DEF Disconnect
  <2> QED BY <2>1, <2>2, <2>3, <2>4
<1>3. CASE SendReportFails
  <2>1. PathsOK'
    BY <1>3 DEF SendReportFails, PathsOK
  <2>2. SourceOK'
    BY <1>3 DEF SendReportFails, SourceOK, SettingsKnown, beliefs, applying
  <2>3. PlacesOK'
    BY <1>3 DEF SendReportFails, PlacesOK, beliefs
  <2>4. up' \in BOOLEAN /\ freedoms' = freedoms
    BY <1>3 DEF SendReportFails
  <2> QED BY <2>1, <2>2, <2>3, <2>4
<1> QED BY <1>1, <1>2, <1>3 DEF Link

\* Steps of the program keep the invariant.
LEMMA ProgramStep == IInv /\ Program => IInv'
<1> SUFFICES ASSUME IInv, Program PROVE IInv'
  OBVIOUS
<1> USE DEF IInv
<1>1. CASE SendReport
  <2>1. PathsOK'
    BY <1>1 DEF SendReport, PathsOK
  <2>2. SourceOK'
    BY <1>1 DEF SendReport, SourceOK, SettingsKnown, beliefs, applying
  <2>3. PlacesOK'
    BY <1>1 DEF SendReport, SourceOK, PlacesOK, beliefs
  <2>4. up' = up /\ freedoms' = freedoms
    BY <1>1 DEF SendReport
  <2> QED BY <2>1, <2>2, <2>3, <2>4
<1>2. CASE Settings
  <2>1. Head(inbox) \in Level
    BY <1>2 DEF Settings, PathsOK
  <2>2. PathsOK'
    BY <1>2 DEF Settings, PathsOK
  <2>3. SourceOK'
    BY <1>2, <2>1 DEF Settings, SourceOK, SettingsKnown, Level
  <2>4. PlacesOK'
    BY <1>2 DEF Settings, PlacesOK
  <2>5. up' = up /\ freedoms' = freedoms
    BY <1>2 DEF Settings
  <2> QED BY <2>2, <2>3, <2>4, <2>5
<1>3. CASE Apply
  <2>1. lastVolume \in Volumes /\ lastMuted \in Muted
    BY <1>3 DEF Apply, TimeoutFires, SourceOK, SettingsKnown
  <2>2. VolumeRequest(lastVolume) \in Request /\ MuteRequest(lastMuted) \in Request
    BY <2>1 DEF VolumeRequest, MuteRequest, Request
  <2>3. requests' \in Seq(Request) /\ Len(requests') <= MaxRequests
    <3>1. Append(requests, MuteRequest(lastMuted)) \in Seq(Request)
          /\ Len(Append(requests, MuteRequest(lastMuted))) = Len(requests) + 1
      BY <2>2, AppendProperties DEF PathsOK
    <3> DEFINE both == <<VolumeRequest(lastVolume), MuteRequest(lastMuted)>>
    <3>2. both \in Seq(Request) /\ Len(both) = 2
      BY <2>2
    <3>3. requests \o both \in Seq(Request)
          /\ Len(requests \o both) = Len(requests) + 2
      <4>1. requests \in Seq(Request)
        BY DEF PathsOK
      <4> HIDE DEF both
      <4>2. Len(requests \o both) = Len(requests) + Len(both) /\ requests \o both \in Seq(Request)
        BY <3>2, <4>1, ConcatProperties, Zenon
      <4> QED BY <3>2, <4>2, Zenon
    <3>4. Len(requests) \in Nat
      BY DEF PathsOK
    <3>5. \/ requests' = Append(requests, MuteRequest(lastMuted))
          \/ requests' = requests \o both
      BY <1>3 DEF Apply
    <3>6. Len(requests) + 2 <= MaxRequests
      BY <1>3 DEF Apply
    <3>7. requests' \in Seq(Request)
      BY <3>1, <3>3, <3>5, Zenon
    <3>8. Len(requests') = Len(requests) + 1 \/ Len(requests') = Len(requests) + 2
      BY <3>1, <3>3, <3>5, Zenon
    <3> HIDE DEF both
    <3> QED BY <3>4, <3>6, <3>7, <3>8
  <2>4. PathsOK'
    BY <1>3, <2>3 DEF Apply, PathsOK
  <2>5. local' \in Level
    <3>1. local.volume \in Volumes
      BY DEF SourceOK, Level
    <3>2. \/ local' = [volume |-> local.volume, muted |-> lastMuted]
          \/ local' = [volume |-> lastVolume, muted |-> lastMuted]
      BY <1>3 DEF Apply
    <3> QED BY <2>1, <3>1, <3>2 DEF Level
  <2>6. SourceOK'
    BY <1>3, <2>1, <2>5 DEF Apply, SourceOK, SettingsKnown
  <2>7. PlacesOK'
    BY <1>3, <2>1 DEF Apply, PlacesOK
  <2>8. up' = up /\ freedoms' = freedoms
    BY <1>3 DEF Apply
  <2> QED BY <2>4, <2>6, <2>7, <2>8
<1>4. CASE GraceEnds
  <2>1. PathsOK'
    BY <1>4 DEF GraceEnds, PathsOK
  <2>2. SourceOK'
    BY <1>4 DEF GraceEnds, SourceOK, SettingsKnown, beliefs
  <2>3. PlacesOK'
    BY <1>4 DEF GraceEnds, PlacesOK, beliefs
  <2>4. up' = up /\ freedoms' = freedoms
    BY <1>4 DEF GraceEnds
  <2> QED BY <2>1, <2>2, <2>3, <2>4
<1>5. CASE RunRequest
  <2>1. Head(requests) \in Request
    BY <1>5 DEF RunRequest, PathsOK
  <2>2. PathsOK'
    BY <1>5 DEF RunRequest, PathsOK
  <2>3. SourceOK' /\ player' \in Level /\ lastGain' = lastGain
    <3>1. CASE Head(requests).kind = "volume" /\ SetVolume(Head(requests).to)
      <4>1. Head(requests).to \in Volumes
        BY <2>1, <3>1 DEF Request
      <4> QED BY <3>1, <4>1, SetVolumeType DEF PlacesOK
    <3>2. CASE Head(requests).kind = "mute" /\ SetMute(Head(requests).to)
      <4>1. Head(requests).to \in Muted
        BY <2>1, <3>2 DEF Request
      <4> QED BY <3>2, <4>1, SetMuteType DEF PlacesOK
    <3> QED BY <1>5, <3>1, <3>2 DEF RunRequest
  <2>4. PlacesOK'
    BY <1>5, <2>3 DEF RunRequest, PlacesOK
  <2>5. up' = up /\ freedoms' = freedoms
    BY <1>5 DEF RunRequest
  <2> QED BY <2>2, <2>3, <2>4, <2>5
<1> QED BY <1>1, <1>2, <1>3, <1>4, <1>5 DEF Program

\* A stutter keeps the invariant.
LEMMA Stutter == IInv /\ UNCHANGED vars => IInv'
BY DEF IInv, SourceOK, PlacesOK, PathsOK, SettingsKnown, vars, beliefs, applying

-----------------------------------------------------------------------------
\* The inductive invariant holds in every reachable state.
THEOREM VolumeInvariant == Spec => []IInv
<1>1. IInv /\ [Next]_vars => IInv'
  BY PeopleStep, ProgramStep, LinkStep, Stutter DEF Next
<1> QED BY InitIInv, <1>1, PTL DEF Spec

\* Type correctness: in particular, only levels the server or a person has
\* chosen are ever applied or reported.
THEOREM VolumeTypeOK == Spec => []TypeOK
BY VolumeInvariant, IInvTypeOK, PTL

-----------------------------------------------------------------------------
\* What running a request does, field by field.
\* The source's record with another mute.
LEMMA MutedAs ==
    ASSUME NEW muted \in Muted, Source \in SourceType
    PROVE  LET t == [Source EXCEPT !.local.muted = muted]
           IN  /\ t \in SourceType /\ t.local = [volume |-> local.volume, muted |-> muted]
               /\ t.report = report /\ t.lastVolume = lastVolume /\ t.lastMuted = lastMuted
               /\ t.grace = grace /\ t.applyIn = applyIn
<1>1. local = Source.local /\ local \in Level
  BY DEF SourceType, Source
<1> DEFINE l == [Source.local EXCEPT !.muted = muted]
<1>2. l \in Level /\ l = [volume |-> local.volume, muted |-> muted]
  BY <1>1 DEF Level
<1> HIDE DEF l
<1>3. LET t == [Source EXCEPT !.local = l]
      IN  /\ t \in SourceType /\ t.local = l
          /\ t.report = report /\ t.lastVolume = lastVolume /\ t.lastMuted = lastMuted
          /\ t.grace = grace /\ t.applyIn = applyIn
  BY <1>2 DEF SourceType, Source
<1>4. [Source EXCEPT !.local.muted = muted] = [Source EXCEPT !.local = l]
  BY DEF l
<1> QED BY <1>2, <1>3, <1>4

\* Setting the mute, field by field.
LEMMA SetMuteDoes ==
    ASSUME IInv, NEW muted \in Muted, SetMute(muted)
    PROVE  /\ player' = [volume |-> player.volume, muted |-> muted]
           /\ UNCHANGED <<lastGain, lastVolume, grace, applyIn>>
           /\ player.muted = muted => UNCHANGED <<report, lastMuted, local>>
           /\ player.muted # muted =>
                /\ local' = [volume |-> local.volume, muted |-> muted]
                /\ lastMuted' = muted
                /\ report' = IF muted = lastMuted THEN report ELSE {local'}
<1>1. player' = [volume |-> player.volume, muted |-> muted]
  BY DEF SetMute
<1>2. CASE player.muted = muted
  <2>1. Become(Source)
    BY <1>2 DEF SetMute
  <2> QED BY <1>1, <1>2, <2>1 DEF Become, Source
<1>3. CASE player.muted # muted
  <2>1. Become(NotifyMute(Source, muted))
    BY <1>3 DEF SetMute
  <2> DEFINE t == [Source EXCEPT !.local.muted = muted]
  <2>2. /\ t.local = [volume |-> local.volume, muted |-> muted] /\ t.report = report
        /\ t.lastVolume = lastVolume /\ t.lastMuted = lastMuted /\ t.grace = grace /\ t.applyIn = applyIn
        /\ t \in SourceType
    BY SourceIsTyped, MutedAs DEF IInv
  <2>3. NotifyMute(Source, muted) = IF muted = lastMuted THEN t
                                    ELSE [t EXCEPT !.report = {t.local}, !.lastMuted = muted]
    BY DEF NotifyMute, Source
  <2> HIDE DEF t
  <2>4. CASE muted = lastMuted
    BY <1>1, <1>3, <2>1, <2>2, <2>3, <2>4 DEF Become
  <2>5. CASE muted # lastMuted
    <3> DEFINE u == [t EXCEPT !.report = {t.local}, !.lastMuted = muted]
    <3>1. /\ u.local = t.local /\ u.report = {t.local} /\ u.lastMuted = muted
          /\ u.lastVolume = lastVolume /\ u.grace = grace /\ u.applyIn = applyIn
      BY <2>2 DEF SourceType
    <3>2. Become(u)
      BY <2>1, <2>3, <2>5
    <3> HIDE DEF u
    <3> QED BY <1>1, <1>3, <2>2, <2>5, <3>1, <3>2 DEF Become
  <2> QED BY <2>4, <2>5
<1> QED BY <1>2, <1>3

\* Setting the volume of a muted player leaves the source as if it had been unmuted.
UnmutedLocal  == IF player.muted = 1 THEN [volume |-> local.volume, muted |-> 0] ELSE local
UnmutedReport == IF player.muted = 1 /\ lastMuted # 0 THEN {UnmutedLocal} ELSE report

\* Setting the volume, field by field.
LEMMA SetVolumeDoes ==
    ASSUME IInv, NEW volume \in Volumes, SetVolume(volume)
    PROVE  /\ player' = [volume |-> volume, muted |-> 0] /\ lastGain' = lastGain
           /\ lastMuted' = IF player.muted = 1 THEN 0 ELSE lastMuted
           /\ volume = lastGain =>
                /\ UNCHANGED <<lastVolume, grace, applyIn>>
                /\ local' = UnmutedLocal /\ report' = UnmutedReport
           /\ volume # lastGain =>
                /\ local' = [volume |-> volume, muted |-> UnmutedLocal.muted]
                /\ applyIn' = IF applyIn = "after grace" THEN "due" ELSE applyIn
                /\ lastVolume' = volume
                /\ report' = IF volume = lastVolume THEN UnmutedReport ELSE {local'}
<1> DEFINE s == IF player.muted = 1 THEN NotifyMute(Source, 0) ELSE Source
           lm == IF player.muted = 1 THEN 0 ELSE lastMuted
<1>0. Source \in SourceType /\ 0 \in Muted /\ local \in Level
  BY SourceIsTyped DEF IInv, SourceOK, Muted
<1>1. /\ s \in SourceType /\ s.report = UnmutedReport /\ s.lastVolume = lastVolume /\ s.lastMuted = lm
      /\ s.local = UnmutedLocal /\ s.grace = grace /\ s.applyIn = applyIn
  <2> DEFINE t == [Source EXCEPT !.local.muted = 0]
             u == [t EXCEPT !.report = {t.local}, !.lastMuted = 0]
  <2>1. /\ t \in SourceType /\ t.local = [volume |-> local.volume, muted |-> 0]
        /\ t.report = report /\ t.lastVolume = lastVolume /\ t.lastMuted = lastMuted
        /\ t.grace = grace /\ t.applyIn = applyIn
    BY <1>0, MutedAs
  <2>2. NotifyMute(Source, 0) = IF 0 = lastMuted THEN t ELSE u
    BY DEF NotifyMute, Source
  <2> HIDE DEF t
  <2>3. /\ u \in SourceType /\ u.local = t.local /\ u.report = {t.local} /\ u.lastMuted = 0
        /\ u.lastVolume = lastVolume /\ u.grace = grace /\ u.applyIn = applyIn
    BY <2>1, <1>0 DEF SourceType
  <2> HIDE DEF u
  <2>4. CASE player.muted # 1
    BY <1>0, <2>4 DEF UnmutedLocal, UnmutedReport, Source
  <2>5. CASE player.muted = 1 /\ 0 = lastMuted
    BY <2>1, <2>2, <2>5 DEF UnmutedLocal, UnmutedReport
  <2>6. CASE player.muted = 1 /\ 0 # lastMuted
    BY <2>1, <2>2, <2>3, <2>6 DEF UnmutedLocal, UnmutedReport
  <2> QED BY <2>4, <2>5, <2>6
<1>2. player' = [volume |-> volume, muted |-> 0] /\ Become(NotifyVolume(s, volume))
  BY DEF SetVolume
<1> HIDE DEF s, lm
<1> DEFINE l == [s.local EXCEPT !.volume = volume]
           t == [s EXCEPT !.grace = "running", !.local.volume = volume,
                          !.applyIn = IF @ = "after grace" THEN "due" ELSE @]
           a == IF applyIn = "after grace" THEN "due" ELSE applyIn
<1>3. l \in Level /\ l = [volume |-> volume, muted |-> UnmutedLocal.muted]
  <2>1. s.local \in Level /\ s.local = UnmutedLocal
    BY <1>1 DEF SourceType
  <2> QED BY <2>1 DEF Level
<1>4. /\ t \in SourceType /\ t.report = UnmutedReport /\ t.lastVolume = lastVolume /\ t.lastMuted = lm
      /\ t.local = l /\ t.grace = "running" /\ t.applyIn = a
  <2>1. t = [[[s EXCEPT !.grace = "running"] EXCEPT !.local = l] EXCEPT !.applyIn = a]
    BY <1>1 DEF SourceType
  <2> HIDE DEF l, t
  <2>2. a \in {"off", "due", "after grace"}
    BY <1>1 DEF SourceType
  <2> HIDE DEF a
  <2> QED BY <1>1, <1>3, <2>1, <2>2 DEF SourceType
<1>5. NotifyVolume(s, volume) = IF volume = lastGain THEN s ELSE IF volume = s.lastVolume THEN t
                                ELSE [t EXCEPT !.report = {t.local}, !.lastVolume = volume]
  BY DEF NotifyVolume
<1> HIDE DEF t, l, a
<1>6. CASE volume = lastGain
  BY <1>1, <1>2, <1>5, <1>6 DEF Become, lm
<1>7. CASE volume # lastGain /\ volume = lastVolume
  BY <1>1, <1>2, <1>3, <1>4, <1>5, <1>7 DEF Become, lm, a
<1>8. CASE volume # lastGain /\ volume # lastVolume
  <2> DEFINE u == [t EXCEPT !.report = {t.local}, !.lastVolume = volume]
  <2>1. /\ u.local = t.local /\ u.report = {t.local} /\ u.lastVolume = volume
        /\ u.lastMuted = t.lastMuted /\ u.grace = t.grace /\ u.applyIn = t.applyIn
    BY <1>4 DEF SourceType
  <2>2. Become(u)
    BY <1>1, <1>2, <1>5, <1>8
  <2> HIDE DEF u
  <2>3. /\ local' = l /\ report' = {l} /\ lastVolume' = volume /\ lastMuted' = lm
        /\ lastGain' = lastGain /\ applyIn' = a
    BY <1>4, <2>1, <2>2 DEF Become
  <2> QED BY <1>2, <1>3, <1>8, <2>3 DEF lm, a
<1> QED BY <1>6, <1>7, <1>8

-----------------------------------------------------------------------------
(* The last push.  While it is on its way it is the last in the inbox;     *)
(* then the source believes in it, and what it still asks for ends in it.  *)
(* This needs an orchestrator that defers requests only while nothing else *)
(* happens to the source: a volume that runs late, after others have been  *)
(* asked for, is taken for a local change and put in the place of the push.*)
Alone == "deferred" \in freedoms => freedoms = {"deferred"}

IsMute(r, m)   == r.kind = "mute" /\ r.to = m
IsVolume(r, v) == r.kind = "volume" /\ r.to = v

Carried(level) ==
    /\ lastVolume = level.volume
    /\ lastMuted = level.muted \/ (Len(requests) = 1 /\ applyIn = "off" /\ player.muted # level.muted)
    /\ applyIn = "due" => Len(requests) = 0
    /\ \/ Len(requests) = 0 /\ (applyIn = "off" => player = level)
       \/ Len(requests) = 1 /\ IsMute(requests[1], level.muted)
          /\ (applyIn = "off" => player.volume = level.volume)
       \/ Len(requests) = 2 /\ IsVolume(requests[1], level.volume) /\ IsMute(requests[2], level.muted)
          /\ applyIn = "off" /\ lastGain = level.volume
       \/ Len(requests) = 3 /\ IsMute(requests[1], level.muted)
          /\ IsVolume(requests[2], level.volume) /\ IsMute(requests[3], level.muted)
          /\ applyIn = "off" /\ lastGain = level.volume

PushCarried ==
    \A level \in lastPush :
        /\ lastPush = {level}
        /\ inbox # <<>> => inbox[Len(inbox)] = level
        /\ inbox = <<>> => Carried(level)

\* An orchestrator that defers requests does so for one push at a time.
OnePush ==
    "deferred" \in freedoms =>
        /\ Len(inbox) <= 1
        /\ ~up \/ inbox # <<>> \/ lastPush = {} => requests = <<>> /\ applyIn = "off"
        /\ ~up \/ lastPush = {} => inbox = <<>>

Word == PushCarried /\ OnePush

\* The sequence without its first entry.
LEMMA TailIs ==
    ASSUME NEW S, NEW s \in Seq(S), s # <<>>
    PROVE  /\ Head(s) = s[1] /\ Tail(s) \in Seq(S) /\ Len(Tail(s)) = Len(s) - 1
           /\ Len(s) \in Nat /\ Len(s) >= 1
           /\ \A i \in 1..Len(s) - 1 : Tail(s)[i] = s[i + 1]
BY HeadTailProperties, EmptySeq, LenProperties

\* The sequence with one entry more.
LEMMA AppendIs ==
    ASSUME NEW S, NEW s \in Seq(S), NEW e \in S
    PROVE  /\ Append(s, e) \in Seq(S) /\ Append(s, e) # <<>>
           /\ Len(Append(s, e)) = Len(s) + 1 /\ Append(s, e)[Len(s) + 1] = e
           /\ \A i \in 1..Len(s) : Append(s, e)[i] = s[i]
BY AppendProperties

\* The sequence with two entries more.
LEMMA PairIs ==
    ASSUME NEW S, NEW s \in Seq(S), NEW v \in S, NEW m \in S
    PROVE  LET b == s \o <<v, m>>
           IN  /\ b \in Seq(S) /\ Len(b) = Len(s) + 2
               /\ b[Len(s) + 1] = v /\ b[Len(s) + 2] = m
               /\ \A i \in 1..Len(s) : b[i] = s[i]
<1> DEFINE p == <<v, m>>
<1>1. p \in Seq(S) /\ Len(p) = 2 /\ p[1] = v /\ p[2] = m
  OBVIOUS
<1>2. Len(s) \in Nat
  BY LenProperties
<1> HIDE DEF p
<1>3. /\ s \o p \in Seq(S) /\ Len(s \o p) = Len(s) + Len(p)
      /\ \A i \in 1..Len(s) + Len(p) :
           (s \o p)[i] = IF i <= Len(s) THEN s[i] ELSE p[i - Len(s)]
  BY <1>1, ConcatProperties
<1>4. Len(s) + 1 \in 1..Len(s) + Len(p) /\ Len(s) + 2 \in 1..Len(s) + Len(p)
  BY <1>1, <1>2
<1>5. (s \o p)[Len(s) + 1] = p[1] /\ (s \o p)[Len(s) + 2] = p[2]
  BY <1>2, <1>3, <1>4
<1>6. \A i \in 1..Len(s) : (s \o p)[i] = s[i]
  BY <1>1, <1>2, <1>3
<1> QED BY <1>1, <1>3, <1>5, <1>6 DEF p

\* The sequence without entries.
LEMMA EmptyIs == ASSUME NEW S, NEW s \in Seq(S) PROVE s = <<>> <=> Len(s) = 0
BY EmptySeq, LenProperties

\* A push replaces what was to be carried.
LEMMA PushWord ==
    ASSUME IInv, NEW level \in Level, Push(level), freedoms' = freedoms, up',
           UNCHANGED <<requests, applyIn>>,
           "deferred" \in freedoms => inbox = <<>> /\ requests = <<>> /\ applyIn = "off"
    PROVE  Word'
<1>1. inbox \in Seq(Level) /\ inbox' = Append(inbox, level) /\ lastPush' = {level}
  BY DEF IInv, PathsOK, Push
<1>2. /\ inbox' # <<>> /\ Len(inbox') = Len(inbox) + 1 /\ inbox'[Len(inbox')] = level
  BY <1>1, AppendIs
<1>3. PushCarried'
  BY <1>1, <1>2 DEF PushCarried
<1>4. OnePush'
  <2>1. inbox = <<>> => Len(inbox) = 0
    BY <1>1, EmptyIs
  <2> QED BY <1>1, <1>2, <2>1 DEF OnePush
<1> QED BY <1>3, <1>4 DEF Word

\* Settings taken from the inbox: the last of them is what is carried from now on.
LEMMA SettingsWord ==
    ASSUME IInv, Word, Settings
    PROVE  Word'
<1>1. /\ inbox \in Seq(Level) /\ inbox # <<>> /\ inbox' = Tail(inbox) /\ applyIn' = "due"
      /\ lastVolume' = Head(inbox).volume /\ lastMuted' = Head(inbox).muted
      /\ UNCHANGED <<freedoms, up, requests, player, lastPush>>
  BY DEF Settings, IInv, PathsOK
<1>2. requests = <<>> /\ Len(requests) = 0
  <2>1. requests = <<>>
    BY <1>1 DEF Settings, MayRest, Word, OnePush
  <2> QED BY <2>1
<1>3. /\ Head(inbox) = inbox[1] /\ inbox' \in Seq(Level) /\ Len(inbox') = Len(inbox) - 1
      /\ Len(inbox) \in Nat /\ Len(inbox) >= 1
      /\ \A i \in 1..Len(inbox) - 1 : inbox'[i] = inbox[i + 1]
  BY <1>1, TailIs
<1>4. inbox' = <<>> <=> Len(inbox') = 0
  BY <1>3, EmptyIs
<1>5. PushCarried'
  <2> SUFFICES ASSUME NEW level \in lastPush
               PROVE  /\ lastPush = {level}
                      /\ inbox' # <<>> => inbox'[Len(inbox')] = level
                      /\ inbox' = <<>> => Carried(level)'
    BY <1>1 DEF PushCarried
  <2>1. lastPush = {level} /\ inbox[Len(inbox)] = level
    BY <1>1 DEF Word, PushCarried
  <2>2. ASSUME inbox' # <<>> PROVE inbox'[Len(inbox')] = level
    <3>1. Len(inbox') \in 1..Len(inbox) - 1 /\ Len(inbox') + 1 = Len(inbox)
      BY <1>3, <1>4, <2>2
    <3> QED BY <1>3, <2>1, <3>1
  <2>3. ASSUME inbox' = <<>> PROVE Carried(level)'
    <3>1. Len(inbox) = 1
      BY <1>3, <1>4, <2>3
    <3>2. Head(inbox) = level
      BY <1>3, <2>1, <3>1
    <3> QED BY <1>1, <1>2, <3>2 DEF Carried
  <2> QED BY <2>1, <2>2, <2>3
<1>6. OnePush'
  BY <1>1, <1>2, <1>3, <1>4 DEF OnePush, Word
<1> QED BY <1>5, <1>6 DEF Word

\* A step that touches nothing of what Word speaks about.
LEMMA ElsewhereWord ==
    ASSUME Word, UNCHANGED <<freedoms, lastVolume, lastMuted, lastGain, applyIn, requests, player>>,
           UNCHANGED <<inbox, lastPush>>, up' = up \/ "deferred" \notin freedoms
    PROVE  Word'
<1>1. PushCarried'
  BY DEF Word, PushCarried, Carried
<1>2. OnePush'
  BY DEF Word, OnePush
<1> QED BY <1>1, <1>2 DEF Word

\* A step of a person: nobody is owed a push any more.
LEMMA PersonWord ==
    ASSUME Word, Alone, MayAct, lastPush' = {}, UNCHANGED <<freedoms, up, inbox, requests>>,
           applyIn = "off" => applyIn' = "off"
    PROVE  Word'
<1>1. PushCarried'
  BY DEF PushCarried
<1>2. ASSUME "deferred" \in freedoms PROVE inbox = <<>> /\ requests = <<>> /\ applyIn = "off"
  BY <1>2 DEF Alone, MayAct, Quiet
<1>3. OnePush'
  <2> SUFFICES ASSUME "deferred" \in freedoms
               PROVE  Len(inbox) <= 1 /\ requests = <<>> /\ applyIn' = "off" /\ inbox = <<>>
    BY DEF OnePush
  <2> QED BY <1>2 DEF Word, OnePush
<1> QED BY <1>1, <1>3 DEF Word

\* Settings are applied: what is asked for ends in the push.
LEMMA ApplyWord ==
    ASSUME IInv, Word, Apply
    PROVE  Word'
<1>1. /\ UNCHANGED <<freedoms, up, inbox, lastVolume, lastMuted, player, lastPush>>
      /\ requests \in Seq(Request) /\ applyIn # "off"
  BY DEF Apply, IInv, PathsOK, TimeoutFires
<1>0. Len(requests) \in Nat
  BY <1>1, LenProperties
<1>2. lastVolume \in Volumes /\ lastMuted \in Muted
  BY DEF Apply, TimeoutFires, IInv, SourceOK, SettingsKnown
<1> DEFINE v == VolumeRequest(lastVolume)
           m == MuteRequest(lastMuted)
<1>3. v \in Request /\ m \in Request /\ IsVolume(v, lastVolume) /\ IsMute(m, lastMuted)
  BY <1>2 DEF VolumeRequest, MuteRequest, Request, IsVolume, IsMute
<1>4. \/ /\ grace = "running" /\ applyIn' = "after grace" /\ requests' = Append(requests, m)
      \/ /\ grace # "running" /\ applyIn' = "off" /\ lastGain' = lastVolume
         /\ requests' = requests \o <<v, m>>
  BY DEF Apply
<1> HIDE DEF v, m
<1>5. ASSUME NEW level \in lastPush PROVE lastPush = {level} /\ (inbox # <<>> => inbox[Len(inbox)] = level)
  BY DEF Word, PushCarried
<1>6. ASSUME NEW level \in lastPush, inbox = <<>> PROVE Carried(level)'
  <2>1. Carried(level)
    BY <1>6 DEF Word, PushCarried
  <2>2. lastVolume = level.volume /\ lastMuted = level.muted
    BY <1>1, <2>1 DEF Carried
  <2>3. CASE Len(requests) = 0
    <3>1. CASE applyIn' = "after grace" /\ requests' = Append(requests, m)
      <4>1. Len(requests') = 1 /\ requests'[1] = m
        <5>1. Len(requests') = Len(requests) + 1 /\ requests'[Len(requests) + 1] = m
          <6>1. requests \in Seq(Request) /\ m \in Request
            BY <1>1, <1>3
          <6>2. /\ Len(Append(requests, m)) = Len(requests) + 1
                /\ Append(requests, m)[Len(requests) + 1] = m
            BY <6>1, AppendIs
          <6> QED BY <3>1, <6>2, Zenon
        <5> QED BY <2>3, <5>1
      <4> QED BY <1>1, <1>3, <2>2, <3>1, <4>1 DEF Carried
    <3>2. CASE applyIn' = "off" /\ lastGain' = lastVolume /\ requests' = requests \o <<v, m>>
      <4>1. Len(requests') = 2 /\ requests'[1] = v /\ requests'[2] = m
        BY <1>1, <1>3, <2>3, <3>2, PairIs
      <4> QED BY <1>1, <1>3, <2>2, <3>2, <4>1 DEF Carried
    <3> QED BY <1>4, <3>1, <3>2
  <2>4. CASE Len(requests) # 0
    <3>1. Len(requests) = 1 /\ IsMute(requests[1], level.muted) /\ applyIn = "after grace"
      BY <1>1, <2>1, <2>4 DEF Carried, IInv, SourceOK
    <3>2. applyIn' = "off" /\ lastGain' = lastVolume /\ requests' = requests \o <<v, m>>
      BY <1>4, <3>1 DEF Apply, TimeoutFires
    <3>3. /\ Len(requests') = 3 /\ requests'[1] = requests[1]
          /\ requests'[2] = v /\ requests'[3] = m
      <4>1. /\ Len(requests') = Len(requests) + 2
            /\ requests'[Len(requests) + 1] = v /\ requests'[Len(requests) + 2] = m
            /\ \A i \in 1..Len(requests) : requests'[i] = requests[i]
        BY <1>1, <1>3, <3>2, PairIs
      <4>2. Len(requests) = 1
        BY <3>1
      <4> QED BY <4>1, <4>2
    <3> QED BY <1>1, <1>3, <2>2, <3>1, <3>2, <3>3 DEF Carried
  <2> QED BY <2>3, <2>4
<1>7. PushCarried'
  BY <1>1, <1>5, <1>6 DEF PushCarried
<1>8. OnePush'
  BY <1>1 DEF Word, OnePush
<1> QED BY <1>7, <1>8 DEF Word

\* The orchestrator runs a request: what is left still ends in the push.
LEMMA RunWord ==
    ASSUME IInv, Word, RunRequest
    PROVE  Word'
<1>1. /\ UNCHANGED <<freedoms, up, inbox, lastPush>>
      /\ requests \in Seq(Request) /\ requests # <<>> /\ requests' = Tail(requests)
      /\ player \in Level
  BY DEF RunRequest, IInv, PathsOK, PlacesOK
<1>2. /\ Head(requests) = requests[1] /\ Len(requests') = Len(requests) - 1
      /\ Len(requests) \in Nat /\ Len(requests) >= 1
      /\ \A i \in 1..Len(requests) - 1 : requests'[i] = requests[i + 1]
  BY <1>1, TailIs
<1>3. ASSUME NEW level \in lastPush PROVE lastPush = {level} /\ (inbox # <<>> => inbox[Len(inbox)] = level)
  BY DEF Word, PushCarried
<1>4. ASSUME NEW level \in lastPush, inbox = <<>> PROVE Carried(level)'
  <2>1. Carried(level)
    BY <1>4 DEF Word, PushCarried
  <2>2. level \in Level /\ level.volume \in Volumes /\ level.muted \in Muted
        /\ level = [volume |-> level.volume, muted |-> level.muted]
    BY DEF IInv, PathsOK, Level
  <2>3. CASE Len(requests) \in {1, 3}
    <3>1. IsMute(requests[1], level.muted)
      BY <1>2, <2>1, <2>3 DEF Carried
    <3>2. SetMute(level.muted)
      BY <1>2, <3>1 DEF RunRequest, IsMute
    <3>3. /\ player' = [volume |-> player.volume, muted |-> level.muted]
          /\ UNCHANGED <<lastGain, lastVolume, grace, applyIn>>
          /\ player.muted = level.muted => lastMuted' = lastMuted
          /\ player.muted # level.muted => lastMuted' = level.muted
      BY <2>2, <3>2, SetMuteDoes
    <3>4. player'.volume = player.volume /\ player'.muted = level.muted
      BY <3>3
    <3>5. CASE Len(requests) = 1
      <4>1. Len(requests') = 0
        BY <1>2, <3>5
      <4>2. applyIn = "off" => player' = level
        BY <2>1, <2>2, <3>3, <3>5 DEF Carried
      <4>3. lastVolume' = level.volume /\ lastMuted' = level.muted
        BY <2>1, <3>3 DEF Carried
      <4> QED BY <3>3, <4>1, <4>2, <4>3 DEF Carried
    <3>6. CASE Len(requests) = 3
      <4>1. Len(requests') = 2 /\ requests'[1] = requests[2] /\ requests'[2] = requests[3]
        BY <1>2, <3>6
      <4>2. /\ IsVolume(requests[2], level.volume) /\ IsMute(requests[3], level.muted)
            /\ applyIn = "off" /\ lastGain = level.volume /\ lastVolume = level.volume
            /\ lastMuted = level.muted
        BY <2>1, <3>6 DEF Carried
      <4> QED BY <3>3, <4>1, <4>2 DEF Carried
    <3> QED BY <2>3, <3>5, <3>6
  <2>4. CASE Len(requests) = 2
    <3>1. /\ IsVolume(requests[1], level.volume) /\ IsMute(requests[2], level.muted)
          /\ applyIn = "off" /\ lastGain = level.volume /\ lastVolume = level.volume
          /\ lastMuted = level.muted
      BY <2>1, <2>4 DEF Carried
    <3>2. SetVolume(level.volume)
      BY <1>2, <3>1 DEF RunRequest, IsVolume
    <3>3. /\ player' = [volume |-> level.volume, muted |-> 0]
          /\ lastMuted' = IF player.muted = 1 THEN 0 ELSE lastMuted
          /\ UNCHANGED <<lastVolume, applyIn>>
      BY <2>2, <3>1, <3>2, SetVolumeDoes
    <3>4. Len(requests') = 1 /\ requests'[1] = requests[2]
      BY <1>2, <2>4
    <3>5. player'.volume = level.volume /\ player'.muted = 0
      BY <3>3
    <3> QED BY <3>1, <3>3, <3>4, <3>5 DEF Carried
  <2> QED BY <1>2, <2>1, <2>3, <2>4 DEF Carried
<1>5. PushCarried'
  BY <1>1, <1>3, <1>4 DEF PushCarried
<1>6. OnePush'
  <2>1. "deferred" \in freedoms => up /\ inbox = <<>> /\ lastPush # {}
    BY <1>1 DEF Word, OnePush
  <2> QED BY <1>1, <2>1 DEF Word, OnePush
<1> QED BY <1>5, <1>6 DEF Word

\* Every step keeps the last push on its way.
LEMMA WordStep ==
    ASSUME IInv, Alone, Word, [Next]_vars
    PROVE  Word'
<1>1. ASSUME NEW level \in Level, ServerChanges(level) PROVE Word'
  <2>1. UNCHANGED <<freedoms, up, lastVolume, lastMuted, lastGain, applyIn, requests, player>>
    BY <1>1 DEF ServerChanges, beliefs, applying
  <2>2. CASE up
    <3>1. Push(level)
      BY <1>1, <2>2 DEF ServerChanges
    <3>2. "deferred" \in freedoms => inbox = <<>> /\ requests = <<>> /\ applyIn = "off"
      BY <1>1 DEF ServerChanges, MayAct, Quiet, Alone
    <3> QED BY <2>1, <2>2, <3>1, <3>2, PushWord
  <2>3. CASE ~up
    <3>1. UNCHANGED <<inbox, lastPush>>
      BY <1>1, <2>3 DEF ServerChanges
    <3> QED BY <2>1, <3>1, ElsewhereWord
  <2> QED BY <2>2, <2>3
<1>2. ASSUME NEW volume \in Volumes, PersonSetsVolume(volume) PROVE Word'
  <2>1. applyIn = "off" => applyIn' = "off"
    BY <1>2, SetVolumeDoes DEF PersonSetsVolume
  <2> QED BY <1>2, <2>1, PersonWord DEF PersonSetsVolume
<1>3. ASSUME NEW muted \in Muted, PersonSetsMute(muted) PROVE Word'
  <2>1. applyIn = "off" => applyIn' = "off"
    BY <1>3, SetMuteDoes DEF PersonSetsMute
  <2> QED BY <1>3, <2>1, PersonWord DEF PersonSetsMute
<1>4. CASE SendReport
  BY <1>4, ElsewhereWord DEF SendReport, beliefs, applying
<1>5. CASE Settings
  BY <1>5, SettingsWord
<1>6. CASE Apply
  BY <1>6, ApplyWord
<1>7. CASE GraceEnds
  BY <1>7, ElsewhereWord DEF GraceEnds, beliefs
<1>8. CASE RunRequest
  BY <1>8, RunWord
<1>9. CASE Connect
  <2>1. "deferred" \in freedoms => inbox = <<>> /\ requests = <<>> /\ applyIn = "off"
    BY <1>9 DEF Connect, Word, OnePush
  <2>2. server \in Level /\ Push(server) /\ up' /\ UNCHANGED <<freedoms, requests, applyIn>>
    BY <1>9 DEF Connect, IInv, PlacesOK, beliefs, applying
  <2> QED BY <2>1, <2>2, PushWord
<1>10. CASE Disconnect
  <2>1. "deferred" \notin freedoms
    BY <1>10 DEF Disconnect, Alone
  <2> QED BY <1>10, <2>1, ElsewhereWord DEF Disconnect, beliefs, applying
<1>11. CASE SendReportFails
  <2>1. "deferred" \notin freedoms
    BY <1>11 DEF SendReportFails, Alone
  <2> QED BY <1>11, <2>1, ElsewhereWord DEF SendReportFails, beliefs, applying
<1>12. CASE UNCHANGED vars
  BY <1>12, ElsewhereWord DEF vars, beliefs, applying
<1> QED BY <1>1, <1>2, <1>3, <1>4, <1>5, <1>6, <1>7, <1>8, <1>9, <1>10, <1>11, <1>12
        DEF Next, People, Program, Link

\* When all is quiet the player is at the level pushed last, whatever pushes,
\* local changes and drops of the connection overlapped before, as long as the
\* orchestrator runs its requests in time or nothing else happens while it is
\* late (apply_server_state_, notify_volume_changed).
THEOREM VolumeLastWord == Spec => [](Alone => ServerHasTheLastWord)
<1>1. Init => (Alone => Word)
  BY DEF Init, Word, PushCarried, OnePush
<1>2. IInv /\ (Alone => Word) /\ [Next]_vars => (Alone => Word)'
  <2> SUFFICES ASSUME IInv, Alone => Word, [Next]_vars, Alone' PROVE Word'
    OBVIOUS
  <2>1. freedoms' = freedoms
    BY DEF Next, People, Program, Link, vars, ServerChanges, PersonSetsVolume, PersonSetsMute,
           SendReport, Settings, Apply, GraceEnds, RunRequest, Connect, Disconnect, SendReportFails
  <2>2. Alone
    BY <2>1 DEF Alone
  <2> QED BY <2>2, WordStep
<1>3. IInv /\ (Alone => Word) => (Alone => ServerHasTheLastWord)
  <2> SUFFICES ASSUME IInv, Word, Quiet, NEW level \in lastPush PROVE lastPush = {player}
    BY DEF ServerHasTheLastWord
  <2>1. Carried(level) /\ lastPush = {level} /\ Len(requests) = 0 /\ applyIn = "off"
    BY DEF Word, PushCarried, Quiet
  <2> QED BY <2>1 DEF Carried
<1> QED BY VolumeInvariant, <1>1, <1>2, <1>3, PTL DEF Spec

-----------------------------------------------------------------------------
(* While people take turns and the connection holds, a change goes through *)
(* one phase after the other, and in each of them it is known who still    *)
(* has to learn what: the orchestrator from the requests, or the server    *)
(* from the report.                                                        *)
Owed == [volume |-> lastVolume, muted |-> lastMuted]
Reported == report = {Owed} \/ (report = {} /\ server = Owed)

\* The source has not been connected yet.
Down == ~up /\ inbox = <<>> /\ requests = <<>> /\ applyIn = "off" /\ report = {}

\* The server has pushed its level.
Pushed == up /\ inbox = <<server>> /\ requests = <<>> /\ applyIn = "off" /\ report = {}

\* The source knows the level, and waits to apply it.
Held ==
    /\ up /\ inbox = <<>> /\ applyIn # "off" /\ report = {} /\ server = Owed
    /\ \/ requests = <<>>
       \/ Len(requests) = 1 /\ applyIn = "after grace" /\ IsMute(requests[1], lastMuted)

\* The orchestrator has been asked for it.
Asked ==
    /\ up /\ inbox = <<>> /\ applyIn = "off" /\ report = {}
    /\ local = server /\ server = Owed /\ lastGain = lastVolume
    /\ \/ Len(requests) = 2 /\ IsVolume(requests[1], lastVolume) /\ IsMute(requests[2], lastMuted)
       \/ Len(requests) = 3 /\ IsMute(requests[1], lastMuted)
          /\ IsVolume(requests[2], lastVolume) /\ IsMute(requests[3], lastMuted)

\* The volume is set, and that has unmuted the player.
Unmuted ==
    /\ up /\ inbox = <<>> /\ applyIn = "off" /\ Len(requests) = 1
    /\ player.muted = 0 /\ local.volume = lastVolume
    /\ \/ /\ IsMute(requests[1], lastMuted) /\ report = {} /\ server = Owed
          /\ lastMuted = 0 => local.muted = 0
       \/ IsMute(requests[1], 1) /\ lastMuted = 0 /\ local = Owed /\ Reported

\* The player is as the source believes the server believes it to be.
Idle ==
    /\ up /\ inbox = <<>> /\ applyIn = "off" /\ requests = <<>>
    /\ local = Owed /\ player.muted = lastMuted /\ Reported

Turn == Down \/ Pushed \/ Held \/ Asked \/ Unmuted \/ Idle

Phases == <<freedoms, up, inbox, requests, applyIn, report, server, local, lastVolume, lastMuted,
            lastGain, player>>

\* A step that touches nothing the phases speak about.
LEMMA ElsewhereTurn == Turn /\ UNCHANGED Phases => Turn'
<1> SUFFICES ASSUME Turn, UNCHANGED Phases PROVE Turn'
  OBVIOUS
<1>1. /\ freedoms' = freedoms /\ up' = up /\ inbox' = inbox /\ requests' = requests
      /\ applyIn' = applyIn /\ report' = report /\ server' = server /\ local' = local
      /\ lastVolume' = lastVolume /\ lastMuted' = lastMuted /\ lastGain' = lastGain
      /\ player' = player
  BY DEF Phases
<1>2. Owed' = Owed /\ (Reported => Reported')
  BY <1>1 DEF Owed, Reported
<1>3. (Down => Down') /\ (Pushed => Pushed')
  BY <1>1 DEF Down, Pushed
<1>4. Held => Held'
  BY <1>1, <1>2 DEF Held
<1>5. Asked => Asked'
  BY <1>1, <1>2 DEF Asked
<1>6. Unmuted => Unmuted'
  BY <1>1, <1>2 DEF Unmuted
<1>7. Idle => Idle'
  BY <1>1, <1>2 DEF Idle
<1> QED BY <1>3, <1>4, <1>5, <1>6, <1>7 DEF Turn

\* Only then may a person act: all is quiet and everybody agrees.
LEMMA QuietIsIdle == Turn /\ Quiet => Idle /\ server = Owed /\ local = Owed
BY DEF Turn, Quiet, Down, Pushed, Held, Asked, Unmuted, Idle, Reported

\* The fields of the level the source takes the server to believe in.
LEMMA OwedIs ==
    ASSUME IInv, local = Owed
    PROVE  local.volume = lastVolume /\ local.muted = lastMuted
BY DEF Owed

\* A person turns the volume: the report is owed, unless it was all an echo.
LEMMA TurnVolume ==
    ASSUME IInv, Turn, Quiet, NEW volume \in Volumes, PersonSetsVolume(volume)
    PROVE  Turn'
<1>1. /\ Idle /\ server = Owed /\ local = Owed /\ report = {} /\ player.muted = lastMuted
      /\ local.volume = lastVolume /\ local.muted = lastMuted
  BY QuietIsIdle, OwedIs DEF Quiet, Idle
<1>2. UNCHANGED <<server, up, inbox, requests>> /\ SetVolume(volume)
  BY DEF PersonSetsVolume
<1>3. player.muted \in {0, 1} /\ applyIn = "off" /\ up /\ inbox = <<>> /\ requests = <<>>
  BY DEF IInv, PlacesOK, Level, Muted, Quiet
<1>4. player'.muted = 0 /\ lastMuted' = 0 /\ applyIn' = "off"
  BY <1>1, <1>2, <1>3, SetVolumeDoes
<1>5. UnmutedLocal = [volume |-> lastVolume, muted |-> 0]
  BY <1>1, <1>3 DEF UnmutedLocal, Owed
<1>6. UnmutedReport = {UnmutedLocal} \/ (UnmutedReport = {} /\ server = UnmutedLocal)
  BY <1>1, <1>3, <1>5 DEF UnmutedReport, Owed
<1>7. local' = Owed' /\ Reported'
  <2>1. CASE volume = lastGain
    <3>1. lastVolume' = lastVolume /\ local' = UnmutedLocal /\ report' = UnmutedReport
      BY <1>2, <2>1, SetVolumeDoes
    <3> QED BY <1>2, <1>4, <1>5, <1>6, <3>1 DEF Owed, Reported
  <2>2. CASE volume # lastGain
    <3>1. /\ lastVolume' = volume /\ local' = [volume |-> volume, muted |-> UnmutedLocal.muted]
          /\ report' = IF volume = lastVolume THEN UnmutedReport ELSE {local'}
      BY <1>2, <2>2, SetVolumeDoes
    <3>2. local' = Owed'
      BY <1>4, <1>5, <3>1 DEF Owed
    <3>3. volume = lastVolume => UnmutedLocal = Owed'
      BY <1>4, <1>5, <3>1 DEF Owed
    <3> QED BY <1>2, <1>6, <3>1, <3>2, <3>3 DEF Reported
  <2> QED BY <2>1, <2>2
<1> QED BY <1>2, <1>3, <1>4, <1>7 DEF Turn, Idle

\* A person presses mute: the report is owed.
LEMMA TurnMute ==
    ASSUME IInv, Turn, Quiet, NEW muted \in Muted, PersonSetsMute(muted)
    PROVE  Turn'
<1>1. /\ Idle /\ local = Owed /\ player.muted = lastMuted
      /\ local.volume = lastVolume
  BY QuietIsIdle, OwedIs DEF Quiet, Idle
<1>2. UNCHANGED <<server, up, inbox, requests>> /\ SetMute(muted) /\ muted # player.muted
  BY DEF PersonSetsMute
<1>3. applyIn = "off" /\ up /\ inbox = <<>> /\ requests = <<>>
  BY DEF Quiet
<1>4. /\ player' = [volume |-> player.volume, muted |-> muted] /\ lastMuted' = muted
      /\ lastVolume' = lastVolume /\ applyIn' = applyIn
      /\ local' = [volume |-> local.volume, muted |-> muted]
      /\ report' = {local'}
  BY <1>1, <1>2, SetMuteDoes
<1>5. local' = Owed' /\ player'.muted = lastMuted'
  BY <1>1, <1>4 DEF Owed
<1> QED BY <1>2, <1>3, <1>4, <1>5 DEF Turn, Idle, Reported

\* The server's settings arrive at the source.
LEMMA TurnSettings ==
    ASSUME IInv, Turn, Settings
    PROVE  Turn'
<1>1. Pushed
  BY DEF Turn, Settings, Down, Held, Asked, Unmuted, Idle
<1>2. server \in Level /\ server = [volume |-> server.volume, muted |-> server.muted]
  BY DEF IInv, PlacesOK, Level
<1>3. Head(inbox) = server /\ Tail(inbox) = <<>>
  BY <1>1, <1>2 DEF Pushed
<1>4. /\ lastVolume' = server.volume /\ lastMuted' = server.muted
      /\ applyIn' = "due" /\ inbox' = <<>> /\ UNCHANGED <<up, report, server, requests>>
  BY <1>3 DEF Settings
<1>5. Owed' = server
  BY <1>2, <1>4 DEF Owed
<1> QED BY <1>1, <1>4, <1>5 DEF Pushed, Turn, Held

\* The source asks the orchestrator for them.
LEMMA TurnApply ==
    ASSUME IInv, Turn, Apply
    PROVE  Turn'
<1>1. Held
  BY DEF Turn, Apply, TimeoutFires, Down, Pushed, Asked, Unmuted, Idle
<1>2. /\ UNCHANGED <<server, up, inbox, report, lastVolume, lastMuted, player>>
      /\ requests \in Seq(Request)
  BY DEF Apply, IInv, PathsOK
<1>3. Len(requests) \in Nat
  BY <1>2, LenProperties
<1>4. lastVolume \in Volumes /\ lastMuted \in Muted
  BY DEF Apply, TimeoutFires, IInv, SourceOK, SettingsKnown
<1> DEFINE v == VolumeRequest(lastVolume)
           m == MuteRequest(lastMuted)
<1>5. v \in Request /\ m \in Request /\ IsVolume(v, lastVolume) /\ IsMute(m, lastMuted)
  BY <1>4 DEF VolumeRequest, MuteRequest, Request, IsVolume, IsMute
<1>6. \/ /\ grace = "running" /\ applyIn' = "after grace" /\ requests' = Append(requests, m)
      \/ /\ grace # "running" /\ applyIn' = "off" /\ lastGain' = lastVolume
         /\ local' = Owed /\ requests' = requests \o <<v, m>>
  BY DEF Apply, Owed
<1> HIDE DEF v, m
<1>7. Owed' = Owed /\ server = Owed /\ up /\ inbox = <<>> /\ report = {}
  BY <1>1, <1>2 DEF Owed, Held
<1>8. CASE /\ grace = "running" /\ applyIn' = "after grace" /\ requests' = Append(requests, m)
  <2>1. requests = <<>>
    BY <1>1, <1>8 DEF Held, Apply, TimeoutFires
  <2>2. Len(requests) = 0
    BY <2>1
  <2>3. Len(Append(requests, m)) = Len(requests) + 1 /\ Append(requests, m)[Len(requests) + 1] = m
    BY <1>2, <1>5, AppendIs
  <2>4. Len(requests') = 1 /\ requests'[1] = m
    <3>1. Len(requests') = Len(requests) + 1 /\ requests'[Len(requests) + 1] = m
      BY <1>8, <2>3, Zenon
    <3> QED BY <2>2, <3>1
  <2>5. IsMute(m, lastMuted')
    BY <1>2, <1>5
  <2> QED BY <1>2, <1>7, <1>8, <2>4, <2>5 DEF Turn, Held
<1>9. CASE /\ grace # "running" /\ applyIn' = "off" /\ lastGain' = lastVolume
           /\ local' = Owed /\ requests' = requests \o <<v, m>>
  <2>1. /\ Len(requests') = Len(requests) + 2
        /\ requests'[Len(requests) + 1] = v /\ requests'[Len(requests) + 2] = m
        /\ \A i \in 1..Len(requests) : requests'[i] = requests[i]
    BY <1>2, <1>5, <1>9, PairIs
  <2>2. /\ up' /\ inbox' = <<>> /\ applyIn' = "off" /\ report' = {} /\ local' = server'
        /\ server' = Owed' /\ lastGain' = lastVolume'
    BY <1>2, <1>7, <1>9
  <2>3. IsMute(m, lastMuted') /\ IsVolume(v, lastVolume')
    BY <1>2, <1>5
  <2>4. CASE Len(requests) = 0
    <3>1. Len(requests') = 2 /\ requests'[1] = v /\ requests'[2] = m
      BY <2>1, <2>4
    <3> QED BY <2>2, <2>3, <3>1 DEF Turn, Asked
  <2>5. CASE Len(requests) = 1 /\ IsMute(requests[1], lastMuted)
    <3>1. Len(requests') = 3 /\ requests'[1] = requests[1] /\ requests'[2] = v /\ requests'[3] = m
      BY <2>1, <2>5
    <3>2. IsMute(requests'[1], lastMuted')
      BY <1>2, <2>5, <3>1
    <3> QED BY <2>2, <2>3, <3>1, <3>2 DEF Turn, Asked
  <2>6. requests = <<>> => Len(requests) = 0
    OBVIOUS
  <2> QED BY <1>1, <2>4, <2>5, <2>6 DEF Held
<1> QED BY <1>6, <1>8, <1>9

\* The orchestrator runs a request.
LEMMA TurnRun ==
    ASSUME IInv, Turn, RunRequest
    PROVE  Turn'
<1>1. /\ UNCHANGED <<up, inbox, server>>
      /\ requests \in Seq(Request) /\ requests # <<>> /\ requests' = Tail(requests)
      /\ player.muted \in {0, 1} /\ local \in Level
  BY DEF RunRequest, IInv, PathsOK, PlacesOK, SourceOK, Level, Muted
<1>2. /\ Head(requests) = requests[1] /\ Len(requests') = Len(requests) - 1
      /\ Len(requests) \in Nat /\ Len(requests) >= 1 /\ requests' \in Seq(Request)
      /\ \A i \in 1..Len(requests) - 1 : requests'[i] = requests[i + 1]
  BY <1>1, TailIs
<1>3. Head(requests) \in Request
  BY <1>1 
<1>4. ASSUME NEW m, IsMute(requests[1], m) PROVE m \in Muted /\ SetMute(m)
  BY <1>2, <1>3, <1>4 DEF RunRequest, IsMute, Request
<1>5. Len(requests) = 1 => requests' = <<>>
  BY <1>2, EmptyIs
<1>6. CASE Held
  <2>1. Len(requests) = 1 /\ IsMute(requests[1], lastMuted)
    BY <1>1, <1>6 DEF Held
  <2>2. /\ UNCHANGED <<lastVolume, lastMuted, applyIn, report>>
    BY <1>4, <2>1, SetMuteDoes
  <2> QED BY <1>1, <1>5, <1>6, <2>1, <2>2 DEF Turn, Held, Owed
<1>7. CASE Asked
  <2>0. local.volume = lastVolume /\ local.muted = lastMuted /\ server = Owed /\ report = {}
    BY <1>7, OwedIs DEF Asked
  <2>1. CASE Len(requests) = 3
    <3>1. IsMute(requests[1], lastMuted)
      BY <1>7, <2>1 DEF Asked
    <3>2. /\ UNCHANGED <<lastVolume, lastMuted, applyIn, report, lastGain>>
          /\ local' = local \/ local' = [volume |-> local.volume, muted |-> lastMuted]
      BY <1>4, <3>1, SetMuteDoes
    <3>3. local' = local
      BY <1>7, <2>0, <3>2 DEF Asked, Owed
    <3>4. Len(requests') = 2 /\ requests'[1] = requests[2] /\ requests'[2] = requests[3]
      BY <1>2, <2>1
    <3>5. IsVolume(requests'[1], lastVolume') /\ IsMute(requests'[2], lastMuted')
      BY <1>7, <2>1, <3>2, <3>4 DEF Asked
    <3>6. Owed' = Owed
      BY <3>2 DEF Owed
    <3> QED BY <1>1, <1>7, <3>2, <3>3, <3>4, <3>5, <3>6 DEF Turn, Asked
  <2>2. CASE Len(requests) = 2
    <3>1. IsVolume(requests[1], lastVolume) /\ IsMute(requests[2], lastMuted) /\ lastGain = lastVolume
      BY <1>7, <2>2 DEF Asked
    <3>2. lastVolume \in Volumes /\ SetVolume(lastVolume)
      BY <1>2, <1>3, <3>1 DEF RunRequest, IsVolume, Request
    <3>3. /\ UNCHANGED <<lastVolume, applyIn>> /\ player' = [volume |-> lastVolume, muted |-> 0]
          /\ lastMuted' = IF player.muted = 1 THEN 0 ELSE lastMuted
          /\ local' = UnmutedLocal /\ report' = UnmutedReport
      BY <3>1, <3>2, SetVolumeDoes
    <3>4. Len(requests') = 1 /\ IsMute(requests'[1], lastMuted) /\ player'.muted = 0
      BY <1>2, <2>2, <3>1, <3>3
    <3>5. /\ up' /\ inbox' = <<>> /\ applyIn' = "off"
      BY <1>1, <1>7, <3>3 DEF Asked
    <3>6. local'.volume = lastVolume'
      BY <2>0, <3>3 DEF UnmutedLocal
    <3>7. CASE player.muted = 0 \/ lastMuted = 0
      <4>1. lastMuted' = lastMuted /\ report' = {} /\ (lastMuted = 0 => local'.muted = 0)
        BY <1>1, <2>0, <3>3, <3>7 DEF UnmutedReport, UnmutedLocal
      <4>2. server' = Owed'
        BY <1>1, <2>0, <3>3, <4>1 DEF Owed
      <4> QED BY <3>4, <3>5, <3>6, <4>1, <4>2 DEF Turn, Unmuted
    <3>8. CASE player.muted = 1 /\ lastMuted # 0
      <4>1. IsMute(requests'[1], 1)
        <5>1. lastMuted = 1
          BY <1>1, <2>0, <3>8 DEF Level, Muted
        <5> QED BY <3>4, <5>1
      <4>2. lastMuted' = 0 /\ local' = [volume |-> lastVolume, muted |-> 0] /\ report' = {local'}
        BY <2>0, <3>3, <3>8 DEF UnmutedLocal, UnmutedReport
      <4>3. local' = Owed' /\ Reported'
        BY <3>3, <4>2 DEF Owed, Reported
      <4> QED BY <3>4, <3>5, <3>6, <4>1, <4>2, <4>3 DEF Turn, Unmuted
    <3> QED BY <1>1, <3>7, <3>8
  <2> QED BY <1>7, <2>1, <2>2 DEF Asked
<1>8. CASE Unmuted
  <2>1. /\ Len(requests) = 1 /\ player.muted = 0 /\ local.volume = lastVolume
        /\ up /\ inbox = <<>> /\ applyIn = "off" /\ requests' = <<>>
    BY <1>5, <1>8 DEF Unmuted
  <2>2. CASE /\ IsMute(requests[1], lastMuted) /\ report = {} /\ server = Owed
             /\ lastMuted = 0 => local.muted = 0
    <3>1. /\ UNCHANGED <<lastVolume, lastMuted, applyIn, report>>
          /\ player'.muted = lastMuted
          /\ IF lastMuted = 0 THEN local' = local
             ELSE local' = [volume |-> local.volume, muted |-> lastMuted]
      BY <1>4, <2>1, <2>2, SetMuteDoes
    <3>2. local' = Owed /\ Owed' = Owed
      <4>1. local = [volume |-> local.volume, muted |-> local.muted]
        BY <1>1 DEF Level
      <4> QED BY <2>1, <2>2, <3>1, <4>1 DEF Owed
    <3> QED BY <1>1, <2>1, <2>2, <3>1, <3>2 DEF Turn, Idle, Reported
  <2>3. CASE IsMute(requests[1], 1) /\ lastMuted = 0 /\ local = Owed /\ Reported
    <3>1. /\ UNCHANGED <<lastVolume, applyIn>> /\ lastMuted' = 1 /\ player'.muted = 1
          /\ local' = [volume |-> local.volume, muted |-> 1] /\ report' = {local'}
      BY <1>4, <2>1, <2>3, SetMuteDoes
    <3>2. local' = Owed'
      BY <2>1, <3>1 DEF Owed
    <3> QED BY <1>1, <2>1, <3>1, <3>2 DEF Turn, Idle, Reported
  <2> QED BY <1>8, <2>2, <2>3 DEF Unmuted
<1> QED BY <1>1, <1>6, <1>7, <1>8 DEF Turn, Down, Pushed, Idle

\* Every step keeps the phases.
LEMMA TurnStep ==
    ASSUME IInv, OneAtATime, Turn, [Next]_vars
    PROVE  Turn'
<1>0. "overlap" \notin freedoms /\ "drops" \notin freedoms
  BY DEF OneAtATime
<1>1. ASSUME NEW level \in Level, ServerChanges(level) PROVE Turn'
  <2>1. Quiet
    BY <1>0, <1>1 DEF ServerChanges, MayAct
  <2>2. /\ inbox' = Append(inbox, level) /\ server' = level
        /\ UNCHANGED <<up, requests, applyIn, report>>
    BY <1>1, <2>1 DEF ServerChanges, Push, Quiet, beliefs, applying
  <2> QED BY <2>1, <2>2 DEF Quiet, Turn, Pushed
<1>2. ASSUME NEW volume \in Volumes, PersonSetsVolume(volume) PROVE Turn'
  BY <1>0, <1>2, TurnVolume DEF PersonSetsVolume, MayAct
<1>3. ASSUME NEW muted \in Muted, PersonSetsMute(muted) PROVE Turn'
  BY <1>0, <1>3, TurnMute DEF PersonSetsMute, MayAct
<1>4. CASE SendReport
  <2>1. /\ up /\ report # {} /\ server' \in report /\ report' = {}
        /\ UNCHANGED <<up, inbox, requests, applyIn, local, lastVolume, lastMuted, lastGain, player>>
    BY <1>4 DEF SendReport, beliefs, applying
  <2>2. report = {Owed} /\ Owed' = Owed
    BY <2>1 DEF Turn, Down, Pushed, Held, Asked, Unmuted, Idle, Reported, Owed
  <2>3. Reported'
    BY <2>1, <2>2 DEF Reported
  <2>4. CASE Idle
    BY <2>1, <2>2, <2>3, <2>4 DEF Turn, Idle
  <2>5. CASE Unmuted
    BY <2>1, <2>2, <2>3, <2>5 DEF Turn, Unmuted
  <2> QED BY <2>1, <2>4, <2>5 DEF Turn, Down, Pushed, Held, Asked
<1>5. CASE Settings
  BY <1>5, TurnSettings
<1>6. CASE Apply
  BY <1>6, TurnApply
<1>7. CASE GraceEnds
  BY <1>7, ElsewhereTurn DEF GraceEnds, beliefs, Phases
<1>8. CASE RunRequest
  BY <1>8, TurnRun
<1>9. CASE Connect
  <2>1. Down
    BY <1>9 DEF Connect, Turn, Pushed, Held, Asked, Unmuted, Idle
  <2>2. up' /\ inbox' = Append(inbox, server) /\ UNCHANGED <<server, requests, applyIn, report>>
    BY <1>9 DEF Connect, Push, beliefs, applying
  <2> QED BY <2>1, <2>2 DEF Down, Turn, Pushed
<1>10. CASE Disconnect
  BY <1>0, <1>10 DEF Disconnect
<1>11. CASE SendReportFails
  BY <1>0, <1>11 DEF SendReportFails
<1>12. CASE UNCHANGED vars
  BY <1>12, ElsewhereTurn DEF vars, beliefs, applying, Phases
<1> QED BY <1>1, <1>2, <1>3, <1>4, <1>5, <1>6, <1>7, <1>8, <1>9, <1>10, <1>11, <1>12
        DEF Next, People, Program, Link

\* While people take turns, the server knows of every mute and unmute once all
\* is quiet, and the source knows the level the server believes in
\* (notify_mute_changed, notify_volume_changed, the settings callback).
THEOREM VolumeBothEndsAgree == Spec => []BothEndsAgree
<1>1. Init => Turn
  BY DEF Init, Turn, Down
<1>2. IInv /\ (OneAtATime => Turn) /\ [Next]_vars => (OneAtATime => Turn)'
  <2> SUFFICES ASSUME IInv, OneAtATime => Turn, [Next]_vars, OneAtATime' PROVE Turn'
    OBVIOUS
  <2>1. freedoms' = freedoms
    BY DEF Next, People, Program, Link, vars, ServerChanges, PersonSetsVolume, PersonSetsMute,
           SendReport, Settings, Apply, GraceEnds, RunRequest, Connect, Disconnect, SendReportFails
  <2>2. OneAtATime
    BY <2>1 DEF OneAtATime
  <2> QED BY <2>2, TurnStep
<1>3. (OneAtATime => Turn) => BothEndsAgree
  <2> SUFFICES ASSUME OneAtATime => Turn, OneAtATime, Quiet
               PROVE  /\ lastVolume = server.volume /\ lastMuted = server.muted
                      /\ player.muted = server.muted
    BY DEF BothEndsAgree, BeliefIsRight, MuteAgrees
  <2>1. Idle /\ server = Owed
    BY QuietIsIdle
  <2> QED BY <2>1 DEF Idle, Owed
<1> QED BY VolumeInvariant, <1>1, <1>2, <1>3, PTL DEF Spec

-----------------------------------------------------------------------------
(* The transport: type correctness, and that the watchdog never undoes a   *)
(* halt. The second rests on one fact, HaltRemembered: whatever happens    *)
(* after a halt was accepted, the flag the watchdog looks at stays raised  *)
(* until a PLAY or a play_uri clears both.                                 *)

HaltRemembered == haltStands => userHalted

HaltInv == RoutingOK /\ HaltRemembered

USE TransportAssumption

\* The initial state satisfies the inductive invariant.
LEMMA HaltBegins == TransportInit => HaltInv
<1> SUFFICES ASSUME TransportInit PROVE HaltInv
  OBVIOUS
<1>1. CountersOK
  BY DEF TransportInit, CountersOK, States
<1>2. FlagsOK
  BY Zenon DEF TransportInit, FlagsOK
<1>3. HaltRemembered
  BY DEF TransportInit, HaltRemembered
<1> QED BY <1>1, <1>2, <1>3 DEF HaltInv, RoutingOK

\* Raising a request starts its age afresh and stays within the bound.
LEMMA RequestPlayCounters ==
    ASSUME CountersOK, RequestPlay
    PROVE  pendingAge' \in 0..PendingTicks /\ plays' \in 0..MaxPlays
BY DEF CountersOK, RequestPlay

\* A round of the watchdog: an old request is dropped before its age can
\* exceed PendingTicks.
LEMMA RearmCounters ==
    ASSUME CountersOK, Rearm
    PROVE  pendingAge' \in 0..PendingTicks /\ plays' \in 0..MaxPlays
<1> DEFINE pending == pendingStart /\ ~(pendingStart /\ pendingAge >= PendingTicks)
<1>1. CASE MayRearm(pending)
  BY <1>1, RequestPlayCounters DEF Rearm
<1>2. CASE ~MayRearm(pending)
  <2>1. plays' = plays /\ pendingAge' = IF pending THEN pendingAge + 1 ELSE 0
    BY <1>2 DEF Rearm
  <2>2. pending => pendingAge + 1 \in 0..PendingTicks
    BY DEF CountersOK
  <2> QED BY <2>1, <2>2 DEF CountersOK
<1> QED BY <1>1, <1>2

\* Every step keeps the counters in their ranges.
LEMMA NextCounters == CountersOK /\ [TransportNext]_transportVars => CountersOK'
<1> SUFFICES ASSUME CountersOK, [TransportNext]_transportVars PROVE CountersOK'
  OBVIOUS
<1>1. CASE StreamStart
  <2>1. pendingAge' \in 0..PendingTicks /\ plays' \in 0..MaxPlays
    BY <1>1, RequestPlayCounters DEF StreamStart, CountersOK
  <2> QED BY <1>1, <2>1 DEF StreamStart, CountersOK
<1>2. CASE StreamEnd \/ ChunksChange
  BY <1>2 DEF StreamEnd, ChunksChange, CountersOK, States
<1>3. CASE Rearm
  BY <1>3, RearmCounters DEF Rearm, CountersOK
<1>4. ASSUME NEW canPlay \in BOOLEAN, Answer(canPlay) \/ PersonPlaysUri(canPlay)
      PROVE  CountersOK'
  BY <1>4 DEF Answer, PersonPlaysUri, PlayUri, CountersOK, States
<1>5. CASE LoseRequest
  BY <1>5 DEF LoseRequest, CountersOK
<1>6. CASE CommandPlay \/ CommandPause \/ CommandStop
  BY <1>6 DEF CommandPlay, CommandPause, CommandStop, CountersOK, States
<1>7. CASE SetBehavior
  BY <1>7 DEF SetBehavior, CountersOK
<1>8. CASE UNCHANGED transportVars
  BY <1>8 DEF transportVars, CountersOK
<1> QED BY <1>1, <1>2, <1>3, <1>4, <1>5, <1>6, <1>7, <1>8 DEF TransportNext

\* Every step keeps the flags Boolean.
LEMMA NextFlags == FlagsOK /\ [TransportNext]_transportVars => FlagsOK'
<1> SUFFICES ASSUME FlagsOK, [TransportNext]_transportVars PROVE FlagsOK'
  OBVIOUS
<1>1. CASE StreamStart
  BY <1>1, Zenon DEF StreamStart, RequestPlay, FlagsOK
<1>2. CASE StreamEnd
  BY <1>2, Zenon DEF StreamEnd, FlagsOK
<1>3. CASE ChunksChange
  BY <1>3, Zenon DEF ChunksChange, FlagsOK
<1>4. CASE Rearm
  BY <1>4, Zenon DEF Rearm, RequestPlay, FlagsOK
<1>5. ASSUME NEW canPlay \in BOOLEAN, Answer(canPlay) \/ PersonPlaysUri(canPlay)
      PROVE  FlagsOK'
  BY <1>5, Zenon DEF Answer, PersonPlaysUri, PlayUri, FlagsOK
<1>6. CASE LoseRequest
  BY <1>6, Zenon DEF LoseRequest, FlagsOK
<1>7. CASE CommandPlay
  BY <1>7, Zenon DEF CommandPlay, FlagsOK
<1>8. CASE CommandPause \/ CommandStop
  BY <1>8, Zenon DEF CommandPause, CommandStop, FlagsOK
<1>9. CASE SetBehavior
  BY <1>9, Zenon DEF SetBehavior, FlagsOK
<1>10. CASE UNCHANGED transportVars
  BY <1>10, Zenon DEF transportVars, FlagsOK
<1> QED
  BY <1>1, <1>2, <1>3, <1>4, <1>5, <1>6, <1>7, <1>8, <1>9, <1>10 DEF TransportNext

\* Every step keeps the memory of a halt.
LEMMA NextHalt == HaltRemembered /\ [TransportNext]_transportVars => HaltRemembered'
BY DEF HaltRemembered, TransportNext, transportVars, StreamStart, StreamEnd, ChunksChange, Rearm, Answer,
       PersonPlaysUri, PlayUri, LoseRequest, CommandPlay, CommandPause, CommandStop,
       SetBehavior

\* A round that raises a new request was allowed to: a request still pending
\* only grows older.
LEMMA RearmAllowed ==
    ASSUME HaltInv, Rearm, pendingStart', pendingAge' = 0, haltStands
    PROVE  behavior = "resume"
<1> DEFINE pending == pendingStart /\ ~(pendingStart /\ pendingAge >= PendingTicks)
<1>1. CASE MayRearm(pending)
  BY <1>1 DEF MayRearm, HaltInv, HaltRemembered
<1>2. CASE ~MayRearm(pending)
  <2>1. pendingStart' = pending /\ pendingAge' = IF pending THEN pendingAge + 1 ELSE 0
    BY <1>2 DEF Rearm
  <2>2. pendingAge' = pendingAge + 1
    BY <2>1
  <2> QED BY <2>2 DEF HaltInv, RoutingOK, CountersOK
<1> QED BY <1>1, <1>2

-----------------------------------------------------------------------------
\* The inductive invariant holds in every reachable state.
THEOREM TransportInvariant == TransportSpec => []HaltInv
<1>1. HaltInv /\ [TransportNext]_transportVars => HaltInv'
  BY NextCounters, NextFlags, NextHalt DEF HaltInv, RoutingOK
<1> QED BY HaltBegins, <1>1, PTL DEF TransportSpec

\* Type correctness of the transport.
THEOREM TransportTypeOK == TransportSpec => []RoutingOK
BY TransportInvariant, PTL DEF HaltInv

\* The watchdog never asks for playback against a standing halt, unless
\* pause_behavior says so.
THEOREM TransportRearmHonoursHalt == TransportSpec => RearmHonoursHalt
<1>1. HaltInv => [Rearm /\ pendingStart' /\ pendingAge' = 0 /\ haltStands =>
                  behavior = "resume"]_transportVars
  BY RearmAllowed
<1> QED BY TransportInvariant, <1>1, PTL DEF RearmHonoursHalt
=============================================================================
