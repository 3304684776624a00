------------------------------ MODULE Session -------------------------------
(***************************************************************************)
(* The connection to a Snapcast server.  The network task looks for a      *)
(* server, holds one session at a time and reports what happens in events. *)
(* The main loop mirrors the state of the network, pauses everything for   *)
(* an OTA update, lets people choose another server, and drains the events *)
(* into the radio's mode and the media source.  The two share a flag (drop *)
(* this session), a mirrored readiness, the chosen server under a mutex,   *)
(* and a queue that drops what does not fit.                               *)
(***************************************************************************)
EXTENDS Integers, Sequences

CONSTANTS
    Announced,    \* servers mDNS finds, and the select entity offers
    Typed,        \* servers people type by hand
    ConfigHost,   \* server_host of the configuration, or None: then mDNS
    QueueCap,     \* places in the event queue (8)
    MaxHeld       \* bound: requests for the radio's performance mode

None == "none"

Hosts == Announced \cup Typed \cup ({ConfigHost} \ {None})

ASSUME SessionAssumption ==
    /\ None \notin Announced \cup Typed
    /\ QueueCap \in Nat \ {0}
    /\ MaxHeld \in Nat /\ MaxHeld > 1

Events == {"connected", "disconnected", "start", "end"}

VARIABLES
    netPhase,    \* where the network task is
    target,      \* the host this session was started for
    discovered,  \* the first entry of discovered_servers_
    codec,       \* has a codec header been accepted?
    streaming,   \* stream_active_
    mainPhase,   \* "flag" between a main-loop change and its reconnect_requested_
    ota,         \* ota_paused_
    ready,       \* network_ready_
    reconnect,   \* reconnect_requested_
    manual,      \* manual_host_
    selected,    \* selected_host_
    events,      \* event_queue_
    lost,        \* auxiliary: an event was dropped
    viewUp,      \* the listener's view: connected?
    held         \* requests for performance mode the hub has not released

netVars    == <<netPhase, target, discovered, codec, streaming>>
choiceVars == <<manual, selected>>
mirrorVars == <<ota, ready>>
viewVars   == <<viewUp, held>>
queueVars  == <<events, lost>>
vars == <<netVars, mainPhase, mirrorVars, reconnect, choiceVars, queueVars, viewVars>>

\* override_host_: what is typed by hand beats what is selected.
Override == IF manual # None THEN manual ELSE selected

\* The server that ought to be used: override, configuration, mDNS.
Choice ==
    IF Override # None THEN Override
    ELSE IF ConfigHost # None THEN ConfigHost ELSE discovered

Init ==
    /\ netPhase = "wait" /\ target = None /\ discovered = None
    /\ codec = FALSE /\ streaming = FALSE
    /\ mainPhase = "loop"
    /\ ota = FALSE /\ ready = FALSE
    /\ reconnect = FALSE
    /\ manual = None /\ selected = None
    /\ events = <<>> /\ lost = FALSE
    /\ viewUp = FALSE /\ held = 0

\* post_event_: after 50 ms without room the event is dropped.
Post(event) ==
    IF Len(events) < QueueCap
    THEN events' = Append(events, event) /\ UNCHANGED lost
    ELSE lost' = TRUE /\ UNCHANGED events

SetStreaming(active) ==
    /\ streaming' = active
    /\ IF active = streaming THEN UNCHANGED queueVars
       ELSE Post(IF active THEN "start" ELSE "end")

-----------------------------------------------------------------------------
(* The network task.  Its delays between attempts are left out: they only  *)
(* take time.                                                              *)

\* Mutant: a pending request to drop the session holds the next one back.
NetReadyHeldBack ==
    /\ netPhase = "wait" /\ ready /\ ~reconnect
    /\ netPhase' = "begin"
    /\ UNCHANGED <<target, discovered, codec, streaming, mainPhase, mirrorVars,
                   reconnect, choiceVars, queueVars, viewVars>>

NetReady ==
    /\ netPhase = "wait" /\ ready
    /\ netPhase' = "begin"
    /\ UNCHANGED <<target, discovered, codec, streaming, mainPhase, mirrorVars,
                   reconnect, choiceVars, queueVars, viewVars>>

\* connection_session_ takes down the flag first ...
NetBegin ==
    /\ netPhase = "begin"
    /\ reconnect' = FALSE
    /\ netPhase' = "choose"
    /\ UNCHANGED <<target, discovered, codec, streaming, mainPhase, mirrorVars,
                   choiceVars, queueVars, viewVars>>

\* ... and reads the override after, under the mutex.  It also scans with a
\* server at hand, when the list for the select entity is due.
NetChoose ==
    /\ netPhase = "choose"
    /\ target' = IF Override # None THEN Override ELSE ConfigHost
    /\ netPhase' = "scan" \/ (netPhase' = "connect" /\ target' # None)
    /\ UNCHANGED <<discovered, codec, streaming, mainPhase, mirrorVars, reconnect,
                   choiceVars, queueVars, viewVars>>

\* An mDNS scan; when it finds nothing the previous result stands.
NetScan(found) ==
    /\ netPhase = "scan"
    /\ discovered' = IF found = None THEN discovered ELSE found
    /\ target' = IF target = None THEN discovered' ELSE target
    /\ netPhase' = IF target' = None THEN "wait" ELSE "connect"
    /\ UNCHANGED <<codec, streaming, mainPhase, mirrorVars, reconnect, choiceVars,
                   queueVars, viewVars>>

NetConnectFails ==
    /\ netPhase = "connect"
    /\ netPhase' = "wait"
    /\ UNCHANGED <<target, discovered, codec, streaming, mainPhase, mirrorVars,
                   reconnect, choiceVars, queueVars, viewVars>>

\* Mutant: the flag is taken down again once the connection stands.
NetConnectClears ==
    /\ netPhase = "connect"
    /\ netPhase' = "up" /\ codec' = FALSE
    /\ reconnect' = FALSE
    /\ Post("connected")
    /\ UNCHANGED <<target, discovered, streaming, mainPhase, mirrorVars, choiceVars,
                   viewVars>>

\* The socket is connected: a fresh session without a codec.
NetConnect ==
    /\ netPhase = "connect"
    /\ netPhase' = "up" /\ codec' = FALSE
    /\ Post("connected")
    /\ UNCHANGED <<target, discovered, streaming, mainPhase, mirrorVars, reconnect,
                   choiceVars, viewVars>>

\* Mutant: a codec header ends the stream, started or not.
NetCodecAlwaysEnds(accepted) ==
    /\ netPhase = "up"
    /\ codec' = accepted
    /\ streaming' = FALSE /\ Post("end")
    /\ UNCHANGED <<netPhase, target, discovered, mainPhase, mirrorVars, reconnect,
                   choiceVars, viewVars>>

\* A codec header ends the stream; the codec may be one we cannot play.
NetCodec(accepted) ==
    /\ netPhase = "up"
    /\ codec' = accepted
    /\ SetStreaming(FALSE)
    /\ UNCHANGED <<netPhase, target, discovered, mainPhase, mirrorVars, reconnect,
                   choiceVars, viewVars>>

\* A chunk starts the stream, once there is a codec to play it with.
NetChunk ==
    /\ netPhase = "up" /\ codec
    /\ SetStreaming(TRUE)
    /\ UNCHANGED <<netPhase, target, discovered, codec, mainPhase, mirrorVars, reconnect,
                   choiceVars, viewVars>>

\* Chunks have been missing for longer than keepalive_hold; with "never",
\* which keeps the stream, this step is not taken.
NetIdle ==
    /\ netPhase = "up" /\ streaming
    /\ SetStreaming(FALSE)
    /\ UNCHANGED <<netPhase, target, discovered, codec, mainPhase, mirrorVars, reconnect,
                   choiceVars, viewVars>>

\* Mutant: a playing stream is not interrupted.
NetDropIdle ==
    /\ netPhase = "up" /\ reconnect /\ ~streaming
    /\ netPhase' = "close"
    /\ UNCHANGED <<target, discovered, codec, streaming, mainPhase, mirrorVars,
                   reconnect, choiceVars, queueVars, viewVars>>

\* recv_exact_ sees the flag.
NetDrop ==
    /\ netPhase = "up" /\ reconnect
    /\ netPhase' = "close"
    /\ UNCHANGED <<target, discovered, codec, streaming, mainPhase, mirrorVars,
                   reconnect, choiceVars, queueVars, viewVars>>

\* The server closes the connection, or has been silent for too long.
NetServerGone ==
    /\ netPhase = "up"
    /\ netPhase' = "close"
    /\ UNCHANGED <<target, discovered, codec, streaming, mainPhase, mirrorVars,
                   reconnect, choiceVars, queueVars, viewVars>>

\* The end of a session: first the stream ends ...
NetClose ==
    /\ netPhase = "close"
    /\ SetStreaming(FALSE)
    /\ netPhase' = "closed"
    /\ UNCHANGED <<target, discovered, codec, mainPhase, mirrorVars, reconnect, choiceVars,
                   viewVars>>

\* ... then the connection.
NetClosed ==
    /\ netPhase = "closed"
    /\ Post("disconnected")
    /\ netPhase' = "wait"
    /\ UNCHANGED <<target, discovered, codec, streaming, mainPhase, mirrorVars,
                   reconnect, choiceVars, viewVars>>

\* What the network task does on its own, and what the server makes it do.
NetStep ==
    \/ NetReady \/ NetBegin \/ NetChoose
    \/ \E found \in Announced \cup {None} : NetScan(found)
    \/ NetConnect \/ NetConnectFails
    \/ NetDrop \/ NetClose \/ NetClosed

ServerStep ==
    \/ \E accepted \in BOOLEAN : NetCodec(accepted)
    \/ NetChunk \/ NetIdle \/ NetServerGone

-----------------------------------------------------------------------------
(* The playout task: a stream that stays late, or timestamps that cannot be *)
(* trusted, end the session.                                               *)
PlayoutBailout ==
    /\ reconnect' = TRUE
    /\ UNCHANGED <<netVars, mainPhase, mirrorVars, choiceVars, queueVars, viewVars>>

-----------------------------------------------------------------------------
(* The main loop. *)

\* SnapclientHub::loop mirrors into the client whether WiFi, which comes and
\* goes, is up and no update runs ...
MainMirror(wifiUp) ==
    /\ mainPhase = "loop"
    /\ ready' = (wifiUp /\ ~ota)
    /\ UNCHANGED <<netVars, mainPhase, ota, reconnect, choiceVars, queueVars, viewVars>>

\* ... and drains its events: the radio is put in performance mode for a
\* stream and released after it.
MainDrain ==
    /\ mainPhase = "loop" /\ events # <<>>
    /\ events' = Tail(events)
    /\ viewUp' = (IF Head(events) = "connected" THEN TRUE
                  ELSE IF Head(events) = "disconnected" THEN FALSE ELSE viewUp)
    /\ held' = (IF Head(events) = "start" /\ held < MaxHeld THEN held + 1
                ELSE IF Head(events) = "end" /\ held > 0 THEN held - 1 ELSE held)
    /\ UNCHANGED <<netVars, mainPhase, mirrorVars, reconnect, choiceVars, lost>>

\* set_server_manual and set_server_selection write the override ...
MainChoose(newManual, newSelected) ==
    /\ mainPhase = "loop"
    /\ newManual = manual \/ newSelected = selected
    /\ manual' = newManual /\ selected' = newSelected
    /\ mainPhase' = IF Override' # Override THEN "flag" ELSE "loop"
    /\ UNCHANGED <<netVars, mirrorVars, reconnect, queueVars, viewVars>>

OtaStart ==
    /\ mainPhase = "loop" /\ ~ota
    /\ ota' = TRUE /\ ready' = FALSE
    /\ mainPhase' = "flag"
    /\ UNCHANGED <<netVars, reconnect, choiceVars, queueVars, viewVars>>

\* ... and raise the flag after, as OtaStart does.
MainFlag ==
    /\ mainPhase = "flag"
    /\ reconnect' = TRUE
    /\ mainPhase' = "loop"
    /\ UNCHANGED <<netVars, mirrorVars, choiceVars, queueVars, viewVars>>

\* The update failed or was aborted; a completed one reboots.
OtaEnd ==
    /\ mainPhase = "loop" /\ ota
    /\ ota' = FALSE
    /\ UNCHANGED <<netVars, mainPhase, ready, reconnect, choiceVars, queueVars, viewVars>>

MainStep ==
    \/ \E wifiUp \in BOOLEAN : MainMirror(wifiUp)
    \/ MainDrain
    \/ \E m \in Typed \cup {None}, s \in Announced \cup {None} : MainChoose(m, s)
    \/ OtaStart \/ MainFlag \/ OtaEnd

Next == NetStep \/ ServerStep \/ PlayoutBailout \/ MainStep

Spec == Init /\ [][Next]_vars

\* Both threads run: every receive looks at the flag, and every turn of the
\* main loop drains, whatever else happened in it.  A server that
\* is looked for and tried again and again is found and reached.
FairSpec ==
    /\ Spec
    /\ WF_vars(NetStep) /\ WF_vars(NetDrop) /\ SF_vars(NetConnect)
    /\ SF_vars(\E found \in Announced : NetScan(found))
    /\ WF_vars(MainFlag) /\ SF_vars(MainDrain)

-----------------------------------------------------------------------------
(* Properties. *)

PlacesOK ==
    /\ netPhase \in {"wait", "begin", "choose", "scan", "connect", "up", "close", "closed"}
    /\ mainPhase \in {"loop", "flag"}
    /\ {target, discovered, manual, selected} \subseteq Hosts \cup {None}
    /\ events \in Seq(Events) /\ Len(events) <= QueueCap
    /\ held \in 0..MaxHeld

FlagsOK ==
    /\ codec \in BOOLEAN /\ streaming \in BOOLEAN
    /\ ota \in BOOLEAN /\ ready \in BOOLEAN
    /\ reconnect \in BOOLEAN /\ lost \in BOOLEAN /\ viewUp \in BOOLEAN

TypeOK == PlacesOK /\ FlagsOK

\* A session, and an attempt at one, is for the server people have chosen last
\* or is about to be dropped: no choice slips between taking down the flag and
\* reading the override, or between writing the override and raising the flag.
ChosenServer ==
    netPhase \in {"connect", "up"} /\ ~reconnect /\ mainPhase = "loop" => target = Choice

\* Where the listener can stand, and where the network task does.
Down      == [link |-> "down", held |-> 0]
Connected == [link |-> "up", held |-> 0]
Streaming == [link |-> "up", held |-> 1]

View    == [link |-> IF viewUp THEN "up" ELSE "down", held |-> held]
Network == [link |-> IF netPhase \in {"up", "close", "closed"} THEN "up" ELSE "down",
            held |-> IF streaming THEN 1 ELSE 0]

\* What an event finds, and what it leaves.
Before(event) == IF event = "connected" THEN Down
                 ELSE IF event = "end" THEN Streaming ELSE Connected
After(event) == IF event = "disconnected" THEN Down
                ELSE IF event = "start" THEN Streaming ELSE Connected

\* As long as no event was dropped, the queue leads step by step from what the
\* listener has seen to the network task's own state: each event finds what
\* the one before it left, so that the radio is held once, for a stream within
\* a connection, and released after it.
ListenerInStep ==
    ~lost =>
        /\ events = <<>> => View = Network
        /\ events # <<>> => Before(Head(events)) = View /\ After(events[Len(events)]) = Network
        /\ \A i \in 1..Len(events) - 1 : After(events[i]) = Before(events[i + 1])

\* A session with a server people no longer want ends.
ChoiceTakesEffect ==
    (netPhase = "up" /\ target # Choice) ~> (netPhase # "up" \/ target = Choice)

\* With the network up, no update and a server that can be found, the client
\* gets back to a session, whatever broke the last.
ComesBack == <>[]ready => []<>(netPhase = "up")

=============================================================================
