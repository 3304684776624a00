----------------------------- MODULE Transport ------------------------------
(***************************************************************************)
(* The transport of the snapclient media source: who decides whether the   *)
(* speaker plays.  The stream going live or ending (events of the client), *)
(* a person or automation (play_uri, PLAY, PAUSE, STOP) and a watchdog     *)
(* that re-requests playback when audio arrives and nothing routes it all  *)
(* change the same few fields on the main loop.  Between a request for     *)
(* playback and its answer lies the orchestrator of the framework, which   *)
(* answers later, or never.                                                *)
(***************************************************************************)
EXTENDS Integers

CONSTANTS
    PendingTicks,  \* watchdog rounds an unanswered request is kept (3 in the code)
    MaxPlays       \* bound: requests waiting at the orchestrator

ASSUME TransportAssumption ==
    /\ PendingTicks \in Nat
    /\ MaxPlays \in Nat \ {0}

States    == {"idle", "playing", "paused"}
Behaviors == {"allow", "resume", "ignore"}

VARIABLES
    state,         \* MediaSourceState, as far as the source sets it
    pendingStart,  \* pending_start_
    pendingAge,    \* watchdog rounds since start_requested_ms_
    streamLive,    \* stream_live_
    userHalted,    \* user_halted_
    flowing,       \* audio_flowing(): chunks have arrived lately
    behavior,      \* pause_behavior
    plays,         \* play requests the orchestrator has not answered
    haltStands     \* auxiliary: a halt was accepted, no PLAY or play_uri since

transportVars ==
    <<state, pendingStart, pendingAge, streamLive, userHalted, flowing, behavior, plays,
      haltStands>>

\* set_playback_state_ keeps the client's output gate in lockstep.
OutputActive == state = "playing"

TransportInit ==
    /\ state = "idle"
    /\ pendingStart = FALSE /\ pendingAge = 0
    /\ streamLive = FALSE /\ flowing = FALSE
    /\ userHalted = FALSE /\ haltStands = FALSE
    /\ behavior \in Behaviors
    /\ plays = 0

\* Ask the orchestrator to route audio from us.  One more request than the
\* bound stands for one it loses.
RequestPlay ==
    /\ pendingStart' = TRUE /\ pendingAge' = 0
    /\ plays' = IF plays < MaxPlays THEN plays + 1 ELSE plays

-----------------------------------------------------------------------------
(* Events of the client. *)

StreamStart ==
    /\ streamLive' = TRUE
    /\ IF ~pendingStart /\ state = "idle"
       THEN RequestPlay
       ELSE UNCHANGED <<pendingStart, pendingAge, plays>>
    /\ UNCHANGED <<state, userHalted, flowing, behavior, haltStands>>

StreamEnd ==
    /\ streamLive' = FALSE /\ state' = "idle"
    /\ UNCHANGED <<pendingStart, pendingAge, userHalted, flowing, behavior, plays,
                   haltStands>>

\* Chunks start or stop arriving.  They go missing within a live stream too:
\* keepalive_hold keeps it open.
ChunksChange ==
    /\ flowing' = ~flowing
    /\ UNCHANGED <<state, pendingStart, pendingAge, streamLive, userHalted, behavior,
                   plays, haltStands>>

-----------------------------------------------------------------------------
(* The watchdog, every REARM_INTERVAL_MS. *)

\* Is there audio, is nobody routing it, and may we ask?
MayRearm(pending) ==
    /\ streamLive /\ flowing /\ ~pending
    /\ state # "paused" /\ ~OutputActive
    /\ userHalted => behavior = "resume"

\* Mutant: an unanswered request is waited for.
RearmWaitsForever ==
    /\ IF MayRearm(pendingStart)
       THEN RequestPlay
       ELSE UNCHANGED <<pendingStart, pendingAge, plays>>
    /\ UNCHANGED <<state, streamLive, userHalted, flowing, behavior, haltStands>>

\* A request nobody answered is dropped, and asked again if still wanted.
Rearm ==
    LET expired == pendingStart /\ pendingAge >= PendingTicks
        pending == pendingStart /\ ~expired
    IN  /\ IF MayRearm(pending)
           THEN RequestPlay
           ELSE /\ pendingStart' = pending
                /\ pendingAge' = IF pending THEN pendingAge + 1 ELSE 0
                /\ UNCHANGED plays
        /\ UNCHANGED <<state, streamLive, userHalted, flowing, behavior, haltStands>>

-----------------------------------------------------------------------------
(* The orchestrator and the person. *)

\* play_uri: the request is no longer pending and no halt stands, even when
\* the source cannot play.
PlayUri(canPlay) ==
    /\ pendingStart' = FALSE /\ pendingAge' = 0
    /\ userHalted' = FALSE /\ haltStands' = FALSE
    /\ state' = IF canPlay THEN "playing" ELSE state
    /\ UNCHANGED <<streamLive, flowing, behavior>>

\* The orchestrator answers one of our requests.
Answer(canPlay) ==
    /\ plays > 0
    /\ plays' = plays - 1
    /\ PlayUri(canPlay)

\* It loses one: another source was given the pipeline, or it was busy.
LoseRequest ==
    /\ plays > 0
    /\ plays' = plays - 1
    /\ UNCHANGED <<state, pendingStart, pendingAge, streamLive, userHalted, flowing,
                   behavior, haltStands>>

\* Somebody plays the source by its URI.
PersonPlaysUri(canPlay) ==
    /\ PlayUri(canPlay)
    /\ UNCHANGED plays

CommandPlay ==
    /\ state' = "playing" /\ userHalted' = FALSE /\ haltStands' = FALSE
    /\ UNCHANGED <<pendingStart, pendingAge, streamLive, flowing, behavior, plays>>

\* Mutant: only STOP is remembered as a halt.
CommandPauseForgets ==
    /\ behavior # "ignore"
    /\ state' = "paused" /\ haltStands' = TRUE
    /\ UNCHANGED <<userHalted, pendingStart, pendingAge, streamLive, flowing, behavior,
                   plays>>

\* PAUSE and STOP are refused under IGNORE.
CommandPause ==
    /\ behavior # "ignore"
    /\ state' = "paused" /\ userHalted' = TRUE /\ haltStands' = TRUE
    /\ UNCHANGED <<pendingStart, pendingAge, streamLive, flowing, behavior, plays>>

CommandStop ==
    /\ behavior # "ignore"
    /\ state' = "idle" /\ userHalted' = TRUE /\ haltStands' = TRUE
    /\ UNCHANGED <<pendingStart, pendingAge, streamLive, flowing, behavior, plays>>

\* The pause_behavior entity.
SetBehavior ==
    /\ behavior' \in Behaviors \ {behavior}
    /\ UNCHANGED <<state, pendingStart, pendingAge, streamLive, userHalted, flowing,
                   plays, haltStands>>

TransportNext ==
    \/ StreamStart \/ StreamEnd \/ ChunksChange
    \/ Rearm
    \/ \E canPlay \in BOOLEAN : Answer(canPlay) \/ PersonPlaysUri(canPlay)
    \/ LoseRequest
    \/ CommandPlay \/ CommandPause \/ CommandStop
    \/ SetBehavior

TransportSpec == TransportInit /\ [][TransportNext]_transportVars

\* The watchdog's interval fires, and an orchestrator that is asked again and
\* again eventually starts a source that is able to play.
TransportFairSpec == TransportSpec /\ WF_transportVars(Rearm) /\ SF_transportVars(Answer(TRUE))

-----------------------------------------------------------------------------
(* Properties. *)

CountersOK ==
    /\ state \in States /\ behavior \in Behaviors
    /\ pendingAge \in 0..PendingTicks /\ plays \in 0..MaxPlays

FlagsOK ==
    /\ pendingStart \in BOOLEAN /\ streamLive \in BOOLEAN /\ flowing \in BOOLEAN
    /\ userHalted \in BOOLEAN /\ haltStands \in BOOLEAN

\* Type correctness: a request is never kept beyond PendingTicks rounds.
RoutingOK == CountersOK /\ FlagsOK

\* "Any deliberate halt, PAUSE or STOP, must never be undone by the re-arm":
\* the watchdog asks for playback while a halt stands only under RESUME, also
\* when the stream has since ended and dropped a pause to idle.
RearmHonoursHalt ==
    [][Rearm /\ pendingStart' /\ pendingAge' = 0 /\ haltStands =>
           behavior = "resume"]_transportVars

\* "A source that lands in IDLE for any reason stays there until a human
\* presses play" is the failure the watchdog exists for: with chunks arriving
\* and no halt to honour the source gets to play, however often requests are
\* lost or refused.
AudioIsRouted ==
    (streamLive /\ flowing /\ state = "idle" /\ (~userHalted \/ behavior = "resume"))
        ~> (state # "idle" \/ ~streamLive \/ ~flowing
              \/ (userHalted /\ behavior # "resume"))

=============================================================================
