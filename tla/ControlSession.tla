--------------------------- MODULE ControlSession ----------------------------
(* The JSON-RPC session beside the stream session (control_session.cpp) and the *)
(* hand-off of what it learns to the main loop. A line that arrives says that   *)
(* something changed, what a stream plays now, or how the server stands. The    *)
(* server is the one of the active stream session. Left out: who else is        *)
(* connected, learned from the same lines and handed to the beacons at once.    *)
EXTENDS Naturals, Sequences

CONSTANTS
  Streams,     \* streams of the server
  Silent,      \* those of them without metadata (process streams)
  Titles,      \* what the others may play
  Lines,       \* bound: lines under way to the client
  Unknown      \* nothing heard, shown, or carried

ASSUME ControlAssumption ==
  Silent \subseteq Streams /\ Streams # {} /\ Titles # {} /\ Lines \in Nat \ {0}
  /\ Unknown \notin Streams \union Titles

VARIABLES
  server,      \* the server: our group's stream and what every stream plays
  up,          \* a stream session is up
  conn,        \* state_, and BACKOFF for IDLE before next_connect_us_
  wire,        \* lines from the server that have not been read
  asked,       \* the server has a request to answer
  pending,     \* status_pending_
  recent,      \* the last request was sent less than STATUS_MIN_INTERVAL_US ago
  streamId,    \* stream_id_
  identity,    \* stream_identity_ and its dirty flag
  metadata,    \* metadata_ and its dirty flag
  turn,        \* what the main loop takes next: metadata, then identity
  scope,       \* stream_id_hash_: the stream whose phases are comparable
  sensors,     \* the text sensors: name of the stream and title
  still,       \* nothing changes and nothing fails any more
  missed,      \* history: the answer read last was too long and was dropped
  overtaken    \* history: metadata of a stream left before was taken after its successor

netVars == <<conn, asked, pending, recent, streamId, missed>>
mainVars == <<turn, scope, sensors>>
ctlVars == <<server, up, wire, identity, metadata, still, overtaken, netVars, mainVars>>

Nothing == [stream |-> Unknown, title |-> Unknown]

------------------------------------------------------------------------------
\* What the client sees of the server.
Standing == [stream : Streams, title : [Streams -> Titles \union {Unknown}]]

Playing(s, st) == [kind |-> "stream", id |-> s, title |-> st.title[s]]
Status(st) == [kind |-> "status", of |-> st]
Oversized == [kind |-> "oversized"]
Moved == [kind |-> "moved"]

Told(line) == wire' = IF conn = "READY" THEN Append(wire, line) ELSE wire

\* Group.OnStreamChanged or Client.OnConnect; Server.OnUpdate.
Notices(st) == {Moved, Status(st)}

ServerChanges ==
  /\ ~still /\ Len(wire) < Lines
  /\ \/ \E s \in Streams :
          /\ server' = [server EXCEPT !.stream = s]
          /\ \E line \in Notices(server') : Told(line)
     \/ \E s \in Streams \ Silent, t \in Titles :
          /\ server' = [server EXCEPT !.title[s] = t]
          /\ server' # server
          /\ Told(Playing(s, server'))
  /\ UNCHANGED <<up, identity, metadata, still, overtaken, netVars, mainVars>>

\* A server with many clients answers on a line longer than RX_LINE_CAP.
Answer ==
  /\ asked /\ Len(wire) < Lines
  /\ asked' = FALSE
  /\ \/ wire' = Append(wire, Status(server))
     \/ ~still /\ wire' = Append(wire, Oversized)
  /\ UNCHANGED <<server, up, conn, pending, recent, streamId, identity, metadata,
                 still, missed, overtaken, mainVars>>

------------------------------------------------------------------------------
\* Mutant: a request outlives its connection.
DroppedKeepsRequest(state) ==
  /\ conn' = state /\ wire' = <<>> /\ asked' = FALSE
  /\ UNCHANGED <<server, recent, pending, streamId, identity, metadata, still, missed,
                 overtaken, mainVars>>

Dropped(state) ==
  /\ conn' = state /\ wire' = <<>> /\ asked' = FALSE /\ pending' = FALSE
  /\ UNCHANGED <<server, recent, streamId, identity, metadata, still, missed,
                 overtaken, mainVars>>

\* fail_: the link breaks, or the server closes it.
Fail ==
  /\ ~still /\ conn \in {"CONNECTING", "READY"}
  /\ Dropped("BACKOFF") /\ UNCHANGED up

\* close(): the stream session ended, perhaps for another server.
Close ==
  /\ ~still /\ up
  /\ up' = FALSE /\ Dropped("IDLE")

StreamSession ==
  /\ ~up /\ up' = TRUE
  /\ UNCHANGED <<server, wire, identity, metadata, still, overtaken, netVars, mainVars>>

\* start_connect_ and poll_connect_.
Reach(state) ==
  /\ conn' = state
  /\ pending' = IF state = "READY" THEN TRUE ELSE pending
  /\ UNCHANGED <<server, up, wire, asked, recent, streamId, identity, metadata,
                 still, missed, overtaken, mainVars>>

StartConnect == up /\ conn = "IDLE" /\ \E s \in {"CONNECTING", "READY"} : Reach(s)
PollConnect == up /\ conn = "CONNECTING" /\ Reach("READY")
BackoffOver == conn = "BACKOFF" /\ Reach("IDLE")

Quiet ==
  /\ recent /\ recent' = FALSE
  /\ UNCHANGED <<server, up, conn, wire, asked, pending, streamId, identity, metadata,
                 still, missed, overtaken, mainVars>>

------------------------------------------------------------------------------
\* Mutant: what has not been taken yet is not replaced.
SetMetadataOnce(s, t) ==
  metadata' = IF t = Unknown \/ metadata.dirty THEN metadata
              ELSE [value |-> [stream |-> s, title |-> t], dirty |-> TRUE]

\* set_metadata_: a stream that carries none says nothing.
SetMetadata(s, t) ==
  metadata' = IF t = Unknown \/ metadata.value = [stream |-> s, title |-> t] THEN metadata
              ELSE [value |-> [stream |-> s, title |-> t], dirty |-> TRUE]

\* parse_server_, of which handle_stream_ is a part.
ParseServer(st) ==
  /\ streamId' = st.stream
  /\ identity' = IF st.stream = streamId THEN identity ELSE [value |-> st.stream, dirty |-> TRUE]
  /\ SetMetadata(st.stream, st.title[st.stream])
  /\ missed' = FALSE

HandleStream(line) ==
  /\ IF streamId = line.id THEN SetMetadata(line.id, line.title) ELSE UNCHANGED metadata
  /\ pending' = (pending \/ streamId = Unknown)
  /\ UNCHANGED <<streamId, identity, missed>>

\* Mutant: a change of group is left to the next update.
IgnoreMove == UNCHANGED <<pending, streamId, identity, metadata, missed>>

HandleMove == pending' = TRUE /\ UNCHANGED <<streamId, identity, metadata, missed>>

\* handle_line_; a line that is too long is dropped with its tail.
Handle(line) ==
  \/ line.kind = "moved" /\ HandleMove
  \/ line.kind = "stream" /\ HandleStream(line)
  \/ line.kind = "status" /\ ParseServer(line.of) /\ UNCHANGED pending
  \/ line.kind = "oversized" /\ missed' = TRUE /\ UNCHANGED <<pending, streamId, identity, metadata>>

ReadLine ==
  /\ conn = "READY" /\ wire # <<>>
  /\ wire' = Tail(wire)
  /\ Handle(Head(wire))
  /\ UNCHANGED <<server, up, conn, asked, recent, still, overtaken, mainVars>>

\* service(), once everything that arrived has been read.
RequestStatus ==
  /\ conn = "READY" /\ wire = <<>> /\ pending /\ ~recent
  /\ asked' = TRUE /\ pending' = FALSE /\ recent' = TRUE
  /\ UNCHANGED <<server, up, conn, wire, streamId, identity, metadata, still,
                 missed, overtaken, mainVars>>

------------------------------------------------------------------------------
\* loop(), first half: on_stream_metadata sets the scope from the name as well.
TakeMetadata ==
  /\ turn = "metadata" /\ turn' = "identity"
  /\ IF metadata.dirty
     THEN /\ sensors' = metadata.value
          /\ scope' = metadata.value.stream
          /\ overtaken' = (~identity.dirty /\ metadata.value.stream # streamId)
     ELSE UNCHANGED <<sensors, scope, overtaken>>
  /\ metadata' = [metadata EXCEPT !.dirty = FALSE]
  /\ UNCHANGED <<server, up, wire, identity, still, netVars>>

\* Mutant: the scope rides on the metadata alone.
KeepScope == UNCHANGED scope

ScopeFromIdentity == scope' = IF identity.dirty THEN identity.value ELSE scope

\* loop(), second half.
TakeIdentity ==
  /\ turn = "identity" /\ turn' = "metadata"
  /\ ScopeFromIdentity
  /\ overtaken' = IF identity.dirty THEN FALSE ELSE overtaken
  /\ identity' = [identity EXCEPT !.dirty = FALSE]
  /\ UNCHANGED <<server, up, wire, metadata, sensors, still, netVars>>

HoldStill ==
  /\ ~still /\ still' = TRUE
  /\ UNCHANGED <<server, up, wire, identity, metadata, overtaken, netVars, mainVars>>

------------------------------------------------------------------------------
Mailbox(v) == [value |-> v, dirty |-> FALSE]

CtlInit ==
  /\ server \in {st \in Standing : \A s \in Streams : st.title[s] = Unknown <=> s \in Silent}
  /\ up = FALSE /\ conn = "IDLE" /\ wire = <<>> /\ asked = FALSE
  /\ pending = FALSE /\ recent = FALSE /\ streamId = Unknown
  /\ identity = Mailbox(Unknown) /\ metadata = Mailbox(Nothing)
  /\ turn = "metadata" /\ scope = Unknown /\ sensors = Nothing
  /\ still = FALSE /\ missed = FALSE /\ overtaken = FALSE

Service == StartConnect \/ PollConnect \/ ReadLine \/ RequestStatus
Loop == TakeMetadata \/ TakeIdentity
Time == BackoffOver \/ Quiet

\* What comes about by itself: a task's turn, the end of a wait, the server's answer,
\* the next stream session.
Due == Service \/ Time \/ Answer \/ StreamSession

CtlNext == ServerChanges \/ Fail \/ Close \/ Loop \/ Due \/ HoldStill

------------------------------------------------------------------------------
CtlTypeOK ==
  /\ server \in Standing /\ conn \in {"IDLE", "BACKOFF", "CONNECTING", "READY"}
  /\ Len(wire) <= Lines /\ (conn # "READY" => wire = <<>> /\ ~asked /\ ~pending)
  /\ streamId \in Streams \union {Unknown}
  /\ {up, asked, pending, recent, still, missed, overtaken} \subseteq BOOLEAN
  /\ identity.value \in Streams \union {Unknown} /\ scope \in Streams \union {Unknown}
  /\ {metadata.value, sensors} \subseteq [stream : Streams, title : Titles] \union {Nothing}
  /\ turn \in {"metadata", "identity"}

\* A session in which everything that arrived has been read and no answer is owed knows
\* the stream of its group and what it plays; only a dropped answer leaves it behind.
AllHeard == conn = "READY" /\ wire = <<>> /\ ~pending /\ ~asked /\ ~missed

HearsItsStream ==
  AllHeard =>
    /\ streamId = server.stream
    /\ \/ server.stream \in Silent
       \/ metadata.value = [stream |-> server.stream, title |-> server.title[server.stream]]

\* What the main loop shows, and the scope it gives the beacons, is what the session heard
\* last, or the mailbox still holds it (SnapcastClient::loop).
ShowsWhatItHears ==
  /\ metadata.dirty \/ sensors = metadata.value
  /\ identity.dirty \/ overtaken \/ scope = streamId

\* Left alone, the device knows the stream of its group, however its notices, answers
\* and connections overlapped: only an answer dropped for its length leaves the view
\* behind.
ViewCatchesUp ==
  <>[]still => <>[](missed \/ streamId = server.stream)

\* control_session.cpp:328: the scope follows the identity also to a stream without
\* metadata, unless metadata of the stream before it is taken only afterwards.
ScopeFollows == <>[]still => <>[](missed \/ overtaken \/ scope = server.stream)

\* The title shown ends up being the one our stream plays, if it has one.
TitleFollows ==
  <>[]still => <>[](\/ missed
                    \/ server.stream \in Silent
                    \/ sensors = [stream |-> server.stream, title |-> server.title[server.stream]])
==============================================================================
