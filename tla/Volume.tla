------------------------------- MODULE Volume -------------------------------
(***************************************************************************)
(* Volume and mute, kept the same in three places: the Snapcast server,    *)
(* the snapclient media source, and the orchestrator of the framework      *)
(* (the media player a person sees).  The server pushes settings, the      *)
(* source asks the orchestrator for them, the orchestrator tells the       *)
(* source what changed, and the source reports what it takes for a local   *)
(* change.  Nothing in the messages says who caused them: the source must  *)
(* guess from the values whether a notification is its own echo.           *)
(***************************************************************************)
EXTENDS Integers, Sequences

CONSTANTS
    Volumes,      \* slider positions in use, none of them 0
    MaxInbox,     \* bound: settings under way from the server
    MaxRequests,  \* bound: requests the orchestrator has deferred
    FreedomSets   \* the environments to consider, see VolumeAssumption

\* "overlap": people act before the last change has settled.  "deferred": the
\* orchestrator leaves requests waiting while other things happen.  "drops":
\* the connection breaks.
ASSUME VolumeAssumption ==
    /\ Volumes \subseteq 1..100 /\ 100 \in Volumes
    /\ MaxInbox \in Nat \ {0}
    /\ MaxRequests \in Nat /\ MaxRequests > 1
    /\ FreedomSets \subseteq SUBSET {"overlap", "deferred", "drops"}

Unknown == -1
Muted   == {0, 1}
Level   == [volume : Volumes, muted : Muted]

VARIABLES
    freedoms,      \* auxiliary: what may happen in this behaviour
    server,        \* the level the server believes in
    up,            \* the connection stands
    inbox,         \* ServerSettings on their way to the main loop
    report,        \* the level client_info_ holds while it is dirty, or none
    lastVolume,    \* last_server_volume_
    lastMuted,     \* last_server_muted_
    lastGain,      \* last_requested_gain_
    local,         \* local_volume_, local_muted_
    grace,         \* is a local change less than LOCAL_VOLUME_GRACE_MS ago?
    applyIn,       \* the "apply_server_settings" timeout: off, due, or after the grace
    requests,      \* request_volume_ and request_mute_ the orchestrator has not run
    player,        \* the level the orchestrator plays at
    lastPush       \* auxiliary: the last push, unless a person has acted since

beliefs  == <<lastVolume, lastMuted, lastGain, local>>
applying == <<grace, applyIn>>
vars == <<freedoms, server, up, inbox, report, beliefs, applying, requests, player, lastPush>>

Request == [kind : {"volume"}, to : Volumes] \cup [kind : {"mute"}, to : Muted]
VolumeRequest(v) == [kind |-> "volume", to |-> v]
MuteRequest(m)   == [kind |-> "mute", to |-> m]

\* Nothing is under way any more.
Quiet == up /\ inbox = <<>> /\ requests = <<>> /\ applyIn = "off" /\ report = {}

MayAct  == "overlap" \in freedoms \/ Quiet
\* Unless they may be deferred, requests run before anything else on the main loop.
MayRest == "deferred" \in freedoms \/ requests = <<>>

Init ==
    /\ freedoms \in FreedomSets
    /\ server \in Level /\ player \in Level
    /\ up = FALSE /\ inbox = <<>>
    /\ report = {}
    /\ lastVolume = Unknown /\ lastMuted = Unknown /\ lastGain = Unknown
    /\ local = [volume |-> 100, muted |-> 0]
    /\ grace = "over" /\ applyIn = "off"
    /\ requests = <<>>
    /\ lastPush = {}

-----------------------------------------------------------------------------
(* The server and the connection. *)

Push(level) ==
    /\ inbox' = Append(inbox, level)
    /\ lastPush' = {level}

\* Somebody changes the level at the server.  It is pushed if we are there.
ServerChanges(level) ==
    /\ MayAct /\ Len(inbox) < MaxInbox
    /\ server' = level
    /\ IF up THEN Push(level) ELSE UNCHANGED <<inbox, lastPush>>
    /\ UNCHANGED <<freedoms, up, report, beliefs, applying, requests, player>>

\* After our Hello the server pushes the level it has on record for us.
Connect ==
    /\ ~up /\ Len(inbox) < MaxInbox
    /\ up' = TRUE
    /\ Push(server)
    /\ UNCHANGED <<freedoms, server, report, beliefs, applying, requests, player>>

\* The session ends.  Neither the queue of events nor a pending report is cleared.
Disconnect ==
    /\ up /\ "drops" \in freedoms
    /\ up' = FALSE
    /\ UNCHANGED <<freedoms, server, inbox, report, beliefs, applying, requests, player, lastPush>>

\* Mutant: the flag is left raised, to be safe.
SendReportAgain ==
    /\ up /\ report # {}
    /\ server' \in report
    /\ UNCHANGED <<freedoms, up, inbox, report, beliefs, applying, requests, player, lastPush>>

\* The network task reports the latest level.  The server does not answer.
SendReport ==
    /\ up /\ report # {}
    /\ server' \in report
    /\ report' = {}
    /\ UNCHANGED <<freedoms, up, inbox, beliefs, applying, requests, player, lastPush>>

\* The flag is taken down before the send; when the send fails the report is lost.
SendReportFails ==
    /\ up /\ report # {} /\ "drops" \in freedoms
    /\ report' = {}
    /\ up' = FALSE
    /\ UNCHANGED <<freedoms, server, inbox, beliefs, applying, requests, player, lastPush>>

-----------------------------------------------------------------------------
(* The media source applies what the server pushed. *)

\* The settings callback: remember them, apply them once the loop is through.
Settings ==
    /\ MayRest /\ inbox # <<>>
    /\ lastVolume' = Head(inbox).volume /\ lastMuted' = Head(inbox).muted
    /\ applyIn' = "due"
    /\ inbox' = Tail(inbox)
    /\ UNCHANGED <<freedoms, server, up, report, lastGain, local, grace, requests, player, lastPush>>

TimeoutFires == applyIn = "due" \/ (applyIn = "after grace" /\ grace = "over")

\* Mutant: the mute request is queued first.
ApplyMuteFirst ==
    /\ MayRest /\ TimeoutFires /\ Len(requests) + 2 <= MaxRequests
    /\ IF grace = "running"
       THEN /\ local' = [volume |-> local.volume, muted |-> lastMuted]
            /\ requests' = Append(requests, MuteRequest(lastMuted))
            /\ applyIn' = "after grace"
            /\ UNCHANGED lastGain
       ELSE /\ local' = [volume |-> lastVolume, muted |-> lastMuted]
            /\ lastGain' = lastVolume
            /\ requests' = requests \o <<MuteRequest(lastMuted), VolumeRequest(lastVolume)>>
            /\ applyIn' = "off"
    /\ UNCHANGED <<freedoms, server, up, inbox, report, lastVolume, lastMuted, grace, player, lastPush>>

\* apply_server_state_: mute at once, volume when no local change is recent.
\* Volume goes first because setting it unmutes.  Its check that settings have
\* arrived is left out: TypeOK shows that they have.
Apply ==
    /\ MayRest /\ TimeoutFires /\ Len(requests) + 2 <= MaxRequests
    /\ IF grace = "running"
       THEN /\ local' = [volume |-> local.volume, muted |-> lastMuted]
            /\ requests' = Append(requests, MuteRequest(lastMuted))
            /\ applyIn' = "after grace"
            /\ UNCHANGED lastGain
       ELSE /\ local' = [volume |-> lastVolume, muted |-> lastMuted]
            /\ lastGain' = lastVolume
            /\ requests' = requests \o <<VolumeRequest(lastVolume), MuteRequest(lastMuted)>>
            /\ applyIn' = "off"
    /\ UNCHANGED <<freedoms, server, up, inbox, report, lastVolume, lastMuted, grace, player, lastPush>>

\* LOCAL_VOLUME_GRACE_MS after the last local change.
GraceEnds ==
    /\ grace = "running"
    /\ grace' = "over"
    /\ UNCHANGED <<freedoms, server, up, inbox, report, beliefs, applyIn, requests, player, lastPush>>

-----------------------------------------------------------------------------
(* The orchestrator tells the source what changed.  The source's fields as *)
(* a record, so that the two notifications of one change compose.          *)

Source == [report |-> report, lastVolume |-> lastVolume, lastMuted |-> lastMuted,
           local |-> local, grace |-> grace, applyIn |-> applyIn]

Become(s) ==
    /\ report' = s.report
    /\ lastVolume' = s.lastVolume /\ lastMuted' = s.lastMuted
    /\ local' = s.local /\ grace' = s.grace /\ applyIn' = s.applyIn
    /\ UNCHANGED lastGain

\* Mutant: the reported mute is not remembered.
NotifyMuteForgets(s, muted) ==
    LET t == [s EXCEPT !.local.muted = muted]
    IN  IF muted = s.lastMuted THEN t
        ELSE [t EXCEPT !.report = {t.local}]

\* notify_mute_changed: report it unless the server is thought to know.
NotifyMute(s, muted) ==
    LET t == [s EXCEPT !.local.muted = muted]
    IN  IF muted = s.lastMuted THEN t
        ELSE [t EXCEPT !.report = {t.local}, !.lastMuted = muted]

\* Mutant: the reported volume is not remembered.
NotifyVolumeForgets(s, volume) ==
    LET t == [s EXCEPT !.grace = "running", !.local.volume = volume,
                       !.applyIn = IF @ = "after grace" THEN "due" ELSE @]
    IN  IF volume = lastGain THEN s
        ELSE IF volume = s.lastVolume THEN t
        ELSE [t EXCEPT !.report = {t.local}]

\* notify_volume_changed: the gain requested last is taken for an echo.  Any
\* other starts the grace anew; a timeout already set for the end of the old
\* one then comes too early, at a time we leave open.
NotifyVolume(s, volume) ==
    LET t == [s EXCEPT !.grace = "running", !.local.volume = volume,
                       !.applyIn = IF @ = "after grace" THEN "due" ELSE @]
    IN  IF volume = lastGain THEN s
        ELSE IF volume = s.lastVolume THEN t
        ELSE [t EXCEPT !.report = {t.local}, !.lastVolume = volume]

\* Setting a volume unmutes.
SetVolume(volume) ==
    LET unmuted == IF player.muted = 1 THEN NotifyMute(Source, 0) ELSE Source
    IN  /\ player' = [volume |-> volume, muted |-> 0]
        /\ Become(NotifyVolume(unmuted, volume))

SetMute(muted) ==
    /\ player' = [volume |-> player.volume, muted |-> muted]
    /\ Become(IF player.muted = muted THEN Source ELSE NotifyMute(Source, muted))

\* The orchestrator runs the oldest request.
RunRequest ==
    /\ requests # <<>>
    /\ requests' = Tail(requests)
    /\ \/ Head(requests).kind = "volume" /\ SetVolume(Head(requests).to)
       \/ Head(requests).kind = "mute" /\ SetMute(Head(requests).to)
    /\ UNCHANGED <<freedoms, server, up, inbox, lastPush>>

\* A person moves the slider or presses mute.
PersonSetsVolume(volume) ==
    /\ MayRest /\ MayAct
    /\ SetVolume(volume)
    /\ lastPush' = {}
    /\ UNCHANGED <<freedoms, server, up, inbox, requests>>

PersonSetsMute(muted) ==
    /\ MayRest /\ MayAct /\ muted # player.muted
    /\ SetMute(muted)
    /\ lastPush' = {}
    /\ UNCHANGED <<freedoms, server, up, inbox, requests>>

-----------------------------------------------------------------------------
People ==
    \/ \E level \in Level : ServerChanges(level)
    \/ \E volume \in Volumes : PersonSetsVolume(volume)
    \/ \E muted \in Muted : PersonSetsMute(muted)

Program == SendReport \/ Settings \/ Apply \/ GraceEnds \/ RunRequest

Link == Connect \/ Disconnect \/ SendReportFails

Next == People \/ Program \/ Link

Spec == Init /\ [][Next]_vars

\* Both tasks run, timers fire, the orchestrator gets to its requests and the
\* connection is retried.
FairSpec ==
    /\ Spec
    /\ WF_vars(SendReport) /\ WF_vars(Settings) /\ WF_vars(Apply)
    /\ WF_vars(GraceEnds) /\ WF_vars(RunRequest) /\ WF_vars(Connect)

-----------------------------------------------------------------------------
(* Properties. *)

LevelsOK ==
    /\ server \in Level /\ player \in Level /\ local \in Level
    /\ lastVolume \in Volumes \cup {Unknown} /\ lastGain \in Volumes \cup {Unknown}
    /\ lastMuted \in Muted \cup {Unknown}
    /\ grace \in {"over", "running"}
    /\ applyIn \in {"off", "due", "after grace"}

QueuesOK ==
    /\ inbox \in Seq(Level) /\ Len(inbox) <= MaxInbox
    /\ requests \in Seq(Request) /\ Len(requests) <= MaxRequests
    /\ report \subseteq Level /\ lastPush \subseteq Level

\* Type correctness.  That local is a level says that nothing is applied before
\* the server has pushed something.
TypeOK == LevelsOK /\ QueuesOK /\ up \in BOOLEAN /\ freedoms \in FreedomSets

\* "Only ever apply the latest state", "a genuine concurrent server change is
\* delayed, not lost": when all is quiet the player is at the level pushed
\* last, unless a person has changed it since, however pushes and local
\* changes overlapped before.
ServerHasTheLastWord == Quiet /\ lastPush # {} => lastPush = {player}

\* People take turns, and the connection holds.
OneAtATime == freedoms \cap {"overlap", "drops"} = {}

\* "Record its new belief here": when all is quiet the source knows the level
\* the server believes in, or it would report too little or too much next.
BeliefIsRight ==
    OneAtATime /\ Quiet /\ lastVolume # Unknown =>
        lastVolume = server.volume /\ lastMuted = server.muted

\* A mute or unmute here reaches the server, also after a volume push at a
\* muted player made the orchestrator unmute and mute again.
MuteAgrees == OneAtATime /\ Quiet => player.muted = server.muted

\* While people take turns, both ends come to the same view of each other.
BothEndsAgree == BeliefIsRight /\ MuteAgrees

\* A local volume reaches the server: "otherwise the next change back would
\* look like an echo" is what recording the server's belief should prevent.
VolumeAgrees == OneAtATime /\ Quiet => player.volume = server.volume

\* Requests, notifications and reports do not keep answering each other: once
\* people and the connection leave it alone, all gets quiet.
Settles == []<>Quiet \/ []<><<People \/ Disconnect \/ SendReportFails>>_vars
=============================================================================
