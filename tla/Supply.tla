------------------------------- MODULE Supply -------------------------------
(***************************************************************************)
(* The supply path of the snapclient: the network task decodes a wire      *)
(* chunk and hands it to the player task through two queues that have to   *)
(* stay in step,                                                           *)
(*                                                                         *)
(*    pcm_ring_      a byte ring holding decoded PCM, and                  *)
(*    record_queue_  a bounded queue of ChunkRecords, one per chunk, each  *)
(*                   saying how many bytes of the ring are that chunk.     *)
(*                                                                         *)
(* The ring carries no framing of its own: a record that is lost, posted   *)
(* early or popped without its bytes being consumed would shift the        *)
(* timestamp of every later sample.  The network task is emit_pcm_, the    *)
(* player task is the loop of player_task_ with push_chunk_ and            *)
(* discard_ring_bytes_, the main loop only switches the output on and off. *)
(*                                                                         *)
(* Bytes are abstract units.  A record also carries `at', the position of  *)
(* its first byte in the stream of everything ever written to the ring: an *)
(* auxiliary value the code does not have and no action reads.             *)
(***************************************************************************)
EXTENDS Integers, Sequences

CONSTANTS
    RingCapacity,    \* config_.buffer_size, bytes pcm_ring_ can hold
    QueueCapacity,   \* records record_queue_ can hold (160 in the code)
    ChunkSizes,      \* decoded lengths a chunk may have
    SliceSize,       \* SLICE_BUFFER_SIZE, the most one ring read may return
    Skips,           \* bytes the servo may ask push_chunk_ to drop
    WaitLimit,       \* polls before emit_pcm_ gives up (EMIT_ROOM_WAIT_MAX_US)
    RefuseLimit,     \* refused writes before push_chunk_ gives up (20)
    MaxBytes         \* bound: bytes supplied in one behaviour

ASSUME SupplyAssumption ==
    /\ RingCapacity \in Nat
    /\ QueueCapacity \in Nat \ {0}
    /\ ChunkSizes \subseteq Nat \ {0}
    /\ SliceSize \in Nat \ {0}
    /\ Skips \subseteq Nat
    /\ WaitLimit \in Nat
    /\ RefuseLimit \in Nat \ {0}
    /\ MaxBytes \in Nat

VARIABLES
    netPhase,      \* where emit_pcm_ is: "recv" is outside it
    len,           \* length of the chunk being emitted, 0 outside emit_pcm_
    written,       \* bytes of it in the ring and not yet counted in pcmIn
    waited,        \* polls spent waiting for room
    avail,         \* pcm_ring_->available()
    queue,         \* record_queue_
    pcmIn,         \* pcm_in_bytes_
    pcmOut,        \* pcm_out_bytes_: read to be played
    pcmDiscard,    \* pcm_discard_bytes_: read to be dropped
    plPhase,       \* player_phase_, as far as the supply path tells apart
    rem,           \* bytes of the popped record still in the ring
    got,           \* bytes of it in slice_buffer_
    offset,        \* bytes of slice_buffer_ the pipeline has taken
    skip,          \* bytes of this chunk still to be dropped
    zeroWrites,    \* consecutive refused writes of this slice
    outputActive   \* output_active_

netVars    == <<netPhase, len, written, waited>>
playerVars == <<plPhase, rem, got, offset, skip, zeroWrites>>
vars       == <<netVars, playerVars, avail, queue, pcmIn, pcmOut, pcmDiscard,
                outputActive>>

Record == [at : Nat, bytes : Nat \ {0}]
Free   == RingCapacity - avail

\* The position of the next byte to leave the ring.
ReadPos == pcmOut + pcmDiscard

\* The position behind the last byte some posted record describes.
PostedEnd == IF netPhase = "post" THEN pcmIn - len ELSE pcmIn

Init ==
    /\ netPhase = "recv" /\ len = 0 /\ written = 0 /\ waited = 0
    /\ avail = 0 /\ queue = <<>>
    /\ pcmIn = 0 /\ pcmOut = 0 /\ pcmDiscard = 0
    /\ plPhase = "idle" /\ rem = 0 /\ got = 0 /\ offset = 0
    /\ skip = 0 /\ zeroWrites = 0
    /\ outputActive = FALSE

-----------------------------------------------------------------------------
(* The network task: emit_pcm_. *)

\* A chunk has been decoded.  (An empty one returns at once.)
NetDecode(n) ==
    /\ netPhase = "recv"
    /\ pcmIn + n <= MaxBytes
    /\ netPhase' = "room" /\ len' = n /\ waited' = 0
    /\ UNCHANGED <<written, playerVars, avail, queue, pcmIn, pcmOut, pcmDiscard,
                   outputActive>>

\* No room for the whole chunk: sleep 10 ms and look again.
NetPoll ==
    /\ netPhase = "room" /\ Free < len
    /\ waited <= WaitLimit
    /\ waited' = waited + 1
    /\ UNCHANGED <<netPhase, len, written, playerVars, avail, queue, pcmIn, pcmOut,
                   pcmDiscard, outputActive>>

\* Mutant: a dropped chunk is counted as supplied.
NetDropCounted ==
    /\ netPhase = "room" /\ Free < len
    /\ waited > WaitLimit
    /\ netPhase' = "recv" /\ len' = 0 /\ waited' = 0 /\ pcmIn' = pcmIn + len
    /\ UNCHANGED <<written, playerVars, avail, queue, pcmOut, pcmDiscard, outputActive>>

\* Waited EMIT_ROOM_WAIT_MAX_US: drop the chunk, keep the task.
NetDropChunk ==
    /\ netPhase = "room" /\ Free < len
    /\ waited > WaitLimit
    /\ netPhase' = "recv" /\ len' = 0 /\ waited' = 0
    /\ UNCHANGED <<written, playerVars, avail, queue, pcmIn, pcmOut, pcmDiscard,
                   outputActive>>

\* Mutant: any room is taken for enough room.
NetAnyRoom ==
    /\ netPhase = "room" /\ Free > 0
    /\ netPhase' = "write" /\ waited' = 0
    /\ UNCHANGED <<len, written, playerVars, avail, queue, pcmIn, pcmOut, pcmDiscard,
                   outputActive>>

\* There is room for all of it.
NetRoom ==
    /\ netPhase = "room" /\ Free >= len
    /\ netPhase' = "write" /\ waited' = 0
    /\ UNCHANGED <<len, written, playerVars, avail, queue, pcmIn, pcmOut, pcmDiscard,
                   outputActive>>

\* Mutant: a short write is taken for a complete one.
NetShortWrite(n) ==
    /\ netPhase = "write"
    /\ n <= len - written /\ n <= Free
    /\ avail' = avail + n
    /\ netPhase' = "post" /\ written' = 0 /\ pcmIn' = pcmIn + len
    /\ UNCHANGED <<len, waited, playerVars, queue, pcmOut, pcmDiscard, outputActive>>

\* One write_without_replacement: takes what fits, possibly in parts.  The
\* mass-balance counter moves when the last part is in.
NetWrite(n) ==
    /\ netPhase = "write"
    /\ n <= len - written /\ n <= Free
    /\ avail' = avail + n
    /\ IF written + n = len
       THEN netPhase' = "post" /\ written' = 0 /\ pcmIn' = pcmIn + len
       ELSE written' = written + n /\ UNCHANGED <<netPhase, pcmIn>>
    /\ UNCHANGED <<len, waited, playerVars, queue, pcmOut, pcmDiscard, outputActive>>

\* xQueueSend succeeds; while the queue is full it is retried, with no limit.
NetPost ==
    /\ netPhase = "post"
    /\ Len(queue) < QueueCapacity
    /\ queue' = Append(queue, [at |-> pcmIn - len, bytes |-> len])
    /\ netPhase' = "recv" /\ len' = 0
    /\ UNCHANGED <<written, waited, playerVars, avail, pcmIn, pcmOut, pcmDiscard,
                   outputActive>>

NetStep ==
    \/ NetPoll \/ NetDropChunk \/ NetRoom \/ NetPost
    \/ \E n \in 1..len : NetWrite(n)

-----------------------------------------------------------------------------
(* The player task. *)

\* Back to waiting for a record.
PlayerIdle ==
    /\ plPhase' = "idle" /\ rem' = 0 /\ got' = 0 /\ offset' = 0
    /\ skip' = 0 /\ zeroWrites' = 0

\* Give up on the popped record: what is left of it in the ring is read and
\* dropped.
PlayerAbandon(left) ==
    IF left = 0
    THEN PlayerIdle
    ELSE /\ plPhase' = "discard" /\ rem' = left /\ got' = 0 /\ offset' = 0
         /\ skip' = 0 /\ zeroWrites' = 0

\* Pop a record and decide what becomes of it.  With the output inactive it
\* is discarded; otherwise the timebase and the deadline decide: "discard"
\* (no timebase, late, implausibly far ahead, injected starvation), "lead"
\* (first chunk: wait for its deadline) or "read" (play it).
PlayerTake(fate, s) ==
    /\ plPhase = "idle" /\ queue # <<>>
    /\ ~outputActive => fate = "discard"
    /\ queue' = Tail(queue)
    /\ plPhase' = fate /\ rem' = Head(queue).bytes
    /\ got' = 0 /\ offset' = 0 /\ zeroWrites' = 0
    /\ skip' = IF fate = "read" THEN s ELSE 0
    /\ UNCHANGED <<netVars, avail, pcmIn, pcmOut, pcmDiscard, outputActive>>

\* The wait for the first deadline ends: the deadline came, or the output
\* stopped.  Either way push_chunk_ is entered.
PlayerLeadOver ==
    /\ plPhase = "lead"
    /\ plPhase' = "read"
    /\ UNCHANGED <<netVars, rem, got, offset, skip, zeroWrites, avail, queue, pcmIn,
                   pcmOut, pcmDiscard, outputActive>>

\* One ring read of push_chunk_.  The slice is complete when it is full or
\* the chunk ends; dropped frames are taken off its front.
PlayerRead(n) ==
    /\ plPhase = "read"
    /\ n <= rem /\ n <= avail /\ got + n <= SliceSize
    /\ rem' = rem - n /\ got' = got + n
    /\ avail' = avail - n /\ pcmOut' = pcmOut + n
    /\ IF got + n = SliceSize \/ rem = n
       THEN /\ plPhase' = "write" /\ zeroWrites' = 0
            /\ offset' = IF skip < got + n THEN skip ELSE got + n
            /\ skip' = skip - offset'
       ELSE UNCHANGED <<plPhase, zeroWrites, offset, skip>>
    /\ UNCHANGED <<netVars, queue, pcmIn, pcmDiscard, outputActive>>

\* Mutant: the last refusal tolerated starts the count again.
PlayerWriteForever(n) ==
    /\ plPhase = "write" /\ outputActive
    /\ offset < got /\ offset + n <= got
    /\ offset' = offset + n
    /\ zeroWrites' = IF n > 0 THEN 0 ELSE (zeroWrites + 1) % RefuseLimit
    /\ UNCHANGED <<plPhase, rem, got, skip>>
    /\ UNCHANGED <<netVars, avail, queue, pcmIn, pcmOut, pcmDiscard, outputActive>>

\* The pipeline takes n bytes of the slice; none at all is a refusal, and the
\* last refusal tolerated abandons the chunk.
PlayerWrite(n) ==
    /\ plPhase = "write" /\ outputActive
    /\ offset < got /\ offset + n <= got
    /\ \/ /\ n > 0
          /\ offset' = offset + n /\ zeroWrites' = 0
          /\ UNCHANGED <<plPhase, rem, got, skip>>
       \/ /\ n = 0 /\ zeroWrites + 1 < RefuseLimit
          /\ zeroWrites' = zeroWrites + 1
          /\ UNCHANGED <<plPhase, rem, got, offset, skip>>
       \/ /\ n = 0 /\ zeroWrites + 1 >= RefuseLimit
          /\ PlayerAbandon(rem)
    /\ UNCHANGED <<netVars, avail, queue, pcmIn, pcmOut, pcmDiscard, outputActive>>

\* Mutant: the rest of an aborted chunk is left in the ring.
PlayerAbortLeavesRest ==
    /\ plPhase = "write" /\ offset < got
    /\ ~outputActive
    /\ PlayerIdle
    /\ UNCHANGED <<netVars, avail, queue, pcmIn, pcmOut, pcmDiscard, outputActive>>

\* The consumer went away in the middle of a chunk.
PlayerAbort ==
    /\ plPhase = "write" /\ offset < got
    /\ ~outputActive
    /\ PlayerAbandon(rem)
    /\ UNCHANGED <<netVars, avail, queue, pcmIn, pcmOut, pcmDiscard, outputActive>>

\* Mutant: a chunk ends with its first slice.
PlayerOneSlice ==
    /\ plPhase = "write" /\ offset = got
    /\ PlayerIdle
    /\ UNCHANGED <<netVars, avail, queue, pcmIn, pcmOut, pcmDiscard, outputActive>>

\* The slice is written: go on with the next one, or with the next record.
PlayerSliceDone ==
    /\ plPhase = "write" /\ offset = got
    /\ IF rem = 0
       THEN PlayerIdle
       ELSE plPhase' = "read" /\ got' = 0 /\ offset' = 0
            /\ UNCHANGED <<rem, skip, zeroWrites>>
    /\ UNCHANGED <<netVars, avail, queue, pcmIn, pcmOut, pcmDiscard, outputActive>>

\* Mutant: a discard reads whole slices, past the end of the chunk.
PlayerDiscardSlices(n) ==
    /\ plPhase = "discard"
    /\ n <= avail /\ n <= SliceSize
    /\ avail' = avail - n /\ pcmDiscard' = pcmDiscard + n
    /\ PlayerAbandon(rem - n)
    /\ UNCHANGED <<netVars, queue, pcmIn, pcmOut, outputActive>>

\* One ring read of discard_ring_bytes_.
PlayerDiscard(n) ==
    /\ plPhase = "discard"
    /\ n <= rem /\ n <= avail /\ n <= SliceSize
    /\ avail' = avail - n /\ pcmDiscard' = pcmDiscard + n
    /\ PlayerAbandon(rem - n)
    /\ UNCHANGED <<netVars, queue, pcmIn, pcmOut, outputActive>>

PlayerStep ==
    \/ \E fate \in {"discard", "lead", "read"}, s \in Skips : PlayerTake(fate, s)
    \/ PlayerLeadOver \/ PlayerAbort \/ PlayerSliceDone
    \/ \E n \in 1..SliceSize : PlayerRead(n)
    \/ \E n \in 0..SliceSize : PlayerWrite(n)
    \/ \E n \in 1..SliceSize : PlayerDiscard(n)

-----------------------------------------------------------------------------
\* The main loop starts or stops the output (set_output_active).
SetOutputActive ==
    /\ outputActive' = ~outputActive
    /\ UNCHANGED <<netVars, playerVars, avail, queue, pcmIn, pcmOut, pcmDiscard>>

Next ==
    \/ \E n \in ChunkSizes : NetDecode(n)
    \/ NetStep
    \/ PlayerStep
    \/ SetOutputActive

Spec == Init /\ [][Next]_vars

\* Both tasks keep being scheduled; the server and the user owe nothing.
FairSpec == Spec /\ WF_vars(NetStep) /\ WF_vars(PlayerStep)

-----------------------------------------------------------------------------
(* Properties. *)

TypeOK ==
    /\ netPhase \in {"recv", "room", "write", "post"}
    /\ len \in Nat /\ written \in Nat /\ waited \in Nat
    /\ avail \in Nat
    /\ queue \in Seq(Record)
    /\ pcmIn \in Nat /\ pcmOut \in Nat /\ pcmDiscard \in Nat
    /\ plPhase \in {"idle", "lead", "read", "write", "discard"}
    /\ rem \in Nat /\ got \in Nat /\ offset \in Nat /\ skip \in Nat
    /\ zeroWrites \in Nat
    /\ outputActive \in BOOLEAN

\* Framing never slips (push_chunk_, discard_ring_bytes_, emit_pcm_): what the
\* player reads next is the rest of the record it holds, then the queued
\* records in order with no gap, up to the chunk not yet posted.  A slip would
\* stamp every later sample with another chunk's server time.
Framed ==
    LET next == ReadPos + rem
    IN  /\ IF queue = <<>> THEN next = PostedEnd ELSE queue[1].at = next
        /\ \A i \in 1..(Len(queue) - 1) :
               queue[i + 1].at = queue[i].at + queue[i].bytes
        /\ queue # <<>> =>
               queue[Len(queue)].at + queue[Len(queue)].bytes = PostedEnd

\* "A popped record's bytes are guaranteed present": push_chunk_ and
\* discard_ring_bytes_ loop without a limit until they have read the record,
\* which is only safe if the ring holds all that is left of it.
PoppedBytesPresent == rem <= avail

\* Writing the chunk never blocks half way: once emit_pcm_ starts to write,
\* the rest of the chunk fits, however the player interleaves.
WholeChunkFits == netPhase = "write" => len - written <= Free

\* The diagnosed wedge, "phase=idle(record queue), ring=524288 bytes": an idle
\* player with an empty queue, and PCM in the ring that belongs to no record.
\* The only such bytes are those of the chunk emit_pcm_ is writing right now.
NoStrandedPcm ==
    plPhase = "idle" /\ queue = <<>> /\ netPhase # "post" => avail = written

\* The MASSBAL line: what entered the ring and did not leave it is in it.
MassBalance ==
    /\ avail = (pcmIn + written) - ReadPos
    /\ ReadPos <= pcmIn + written
    /\ avail <= RingCapacity

\* Ring and record queue say the same of every byte, so what the player reads next is
\* there and is what its record describes.
RingAndQueueAgree == TypeOK /\ Framed /\ PoppedBytesPresent /\ MassBalance

\* No interleaving of the two tasks ends with each waiting for the other: the network
\* task never stops half way through a chunk, nor the player before PCM without a record.
NeverWedged == WholeChunkFits /\ NoStrandedPcm

\* "Whatever wedged the player, the network task must outlive it": emit_pcm_
\* always returns, so time sync, control and OTA keep being served.
NetworkTaskReturns == []<>(netPhase = "recv")

\* Everything posted is eventually consumed: the player gets back to waiting
\* on an empty queue once the server has stopped sending.
SupplyDrains == <>[](netPhase = "recv") => []<>(avail = 0)
=============================================================================
