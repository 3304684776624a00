----------------------------- MODULE Acquisition -----------------------------
(* How scripts/i2s-skew.py gets its captures. With --stream a reader thread    *)
(* (stream_reader) reads blocks of one long acquisition after another          *)
(* (stream_blocks) into a bounded queue and the measuring loop takes them;     *)
(* otherwise the loop runs one capture at a time, the next one started in a    *)
(* pool while the last is measured. CaptureFailures decides when a run of      *)
(* failures ends the process.                                                  *)
EXTENDS Integers, Sequences, FiniteSets

CONSTANTS
  Depth,          \* depth of the queue, --stream-buffer (16)
  FullAcq,        \* blocks an acquisition is expected to give, `expect`
  StarveLimit,    \* short acquisitions in a row that raise (3)
  MaxRestarts,    \* acquisitions restarted in a row before the error is latched (6)
  Limit,          \* equal failures in a row that end the process (HARD_LIMIT, 40)
  Complaints,     \* what measuring a block can fail with
  MaxBlocks,      \* bound: blocks the analyser ever delivers
  MaxOrphans      \* bound: abandoned captures waiting in the pool

ASSUME AcquisitionAssumption ==
  /\ Depth \in Nat \ {0}
  /\ FullAcq \in Nat
  /\ StarveLimit \in Nat \ {0}
  /\ MaxRestarts \in Nat
  /\ Limit \in Nat \ {0, 1}
  /\ Complaints \intersect {"none", "cause", "ended", "capture"} = {}
  /\ MaxBlocks \in Nat
  /\ MaxOrphans \in Nat

VARIABLES
  mode,       \* "stream", "prefetch" or "direct" (--no-prefetch)
  alive,      \* the analyser still answers
  rpc,        \* the reader thread
  nblk,       \* blocks of the running acquisition
  starved,    \* short acquisitions in a row, local to the generator
  restarts,   \* state["restarts"]
  error,      \* state["error"] is set
  done,       \* state["done"]
  made,       \* blocks read off sigrok: the k-th is block k
  dropped,    \* the blocks that found the queue full; state["dropped"] is their number
  queue,      \* q: blocks, then the sentinel
  mpc,        \* the measuring loop
  taken,      \* the last block measured
  fails,      \* FAILURES.n
  msg,        \* FAILURES.last
  pending,    \* the capture started ahead: none, running, good or bad
  orphans     \* captures in the pool that nothing waits for any more

readerVars == <<rpc, nblk, starved, restarts, error, done, made, dropped>>
governor == <<fails, msg>>
poolVars == <<pending, orphans>>
vars == <<mode, alive, readerVars, queue, mpc, taken, governor, poolVars>>

Sentinel == 0           \* None on the queue; blocks are numbered from 1
Short == IF FullAcq \div 2 > 1 THEN FullAcq \div 2 ELSE 1

Init ==
  /\ mode \in {"stream", "prefetch", "direct"}
  /\ alive = TRUE
  /\ rpc = IF mode = "stream" THEN "spawn" ELSE "off"
  /\ nblk = 0 /\ starved = 0 /\ restarts = 0
  /\ error = FALSE /\ done = FALSE
  /\ made = 0 /\ dropped = {} /\ queue = <<>>
  /\ mpc = "top" /\ taken = 0
  /\ fails = 0 /\ msg = "none"
  /\ pending = "none" /\ orphans = 0

------------------------------------------------------------------------------
(* The reader thread *)

\* A new sigrok process for the next acquisition.
Spawn ==
  /\ rpc = "spawn"
  /\ rpc' = "reading" /\ nblk' = 0
  /\ UNCHANGED <<mode, alive, starved, restarts, error, done, made, dropped,
                 queue, mpc, taken, governor, poolVars>>

\* Mutant: a full queue makes room by discarding its oldest block.
OfferDropsOldest(b) ==
  /\ queue' = Append(IF Len(queue) < Depth THEN queue ELSE Tail(queue), b)
  /\ dropped' = IF Len(queue) < Depth THEN dropped ELSE dropped \union {b}

\* put_nowait: a block the loop is too far behind for is dropped and counted.
Offer(b) ==
  \/ /\ Len(queue) < Depth
     /\ queue' = Append(queue, b)
     /\ UNCHANGED dropped
  \/ /\ Len(queue) >= Depth
     /\ dropped' = dropped \union {b}
     /\ UNCHANGED queue

\* A whole block came: the acquisition counts as recovered.
ReadBlock ==
  /\ rpc = "reading" /\ alive /\ made < MaxBlocks /\ nblk < FullAcq
  /\ made' = made + 1 /\ nblk' = nblk + 1 /\ restarts' = 0
  /\ Offer(made + 1)
  /\ UNCHANGED <<mode, alive, rpc, starved, error, done, mpc, taken, governor, poolVars>>

\* Mutant: the reader stops after its last restart without leaving the reason.
RaisedUnsaid ==
  /\ starved' = 0
  /\ restarts' = restarts + 1
  /\ rpc' = IF restarts + 1 > MaxRestarts THEN "latched" ELSE "backoff"
  /\ UNCHANGED error

\* The generator raised: it is gone, and so is its count of short acquisitions.
\* Restarted with a backoff, unless this was one failure too many.
Raised ==
  /\ starved' = 0
  /\ restarts' = restarts + 1
  /\ \/ /\ restarts + 1 > MaxRestarts
        /\ error' = TRUE /\ rpc' = "latched"
     \/ /\ restarts + 1 <= MaxRestarts
        /\ rpc' = "backoff" /\ UNCHANGED error

\* The acquisition ended: the analyser could not be claimed, or it stopped
\* early (once too often in a row, or not), or it ran its time.
EndOfAcquisition ==
  /\ rpc = "reading"
  /\ \/ Raised
     \/ /\ nblk < Short
        /\ starved + 1 >= StarveLimit
        /\ Raised
     \/ /\ nblk < Short
        /\ starved + 1 < StarveLimit
        /\ starved' = starved + 1 /\ rpc' = "spawn"
        /\ UNCHANGED <<restarts, error>>
     \/ /\ nblk >= Short
        /\ starved' = 0 /\ rpc' = "spawn"
        /\ UNCHANGED <<restarts, error>>
  /\ UNCHANGED <<mode, alive, nblk, done, made, dropped, queue, mpc, taken,
                 governor, poolVars>>

\* time.sleep(2 * restarts) is over.
Restart ==
  /\ rpc = "backoff"
  /\ rpc' = "spawn"
  /\ UNCHANGED <<mode, alive, nblk, starved, restarts, error, done, made, dropped,
                 queue, mpc, taken, governor, poolVars>>

MarkDone ==
  /\ rpc = "latched"
  /\ done' = TRUE /\ rpc' = "closing"
  /\ UNCHANGED <<mode, alive, nblk, starved, restarts, error, made, dropped,
                 queue, mpc, taken, governor, poolVars>>

\* The sentinel that wakes the loop is given up where the queue is full.
PutSentinel ==
  /\ rpc = "closing"
  /\ rpc' = "stopped"
  /\ queue' = IF Len(queue) < Depth THEN Append(queue, Sentinel) ELSE queue
  /\ UNCHANGED <<mode, alive, nblk, starved, restarts, error, done, made, dropped,
                 mpc, taken, governor, poolVars>>

------------------------------------------------------------------------------
(* The measuring loop *)

\* Mutant: the message never compares equal (it carries a time, say).
FailedAnew(m) ==
  /\ fails' = 1
  /\ msg' = m
  /\ mpc' = IF fails' >= Limit THEN "exited" ELSE "sleep"
  /\ pending' = "none"

\* CaptureFailures.failed, the capture started ahead forgotten: equal failures
\* are counted, another message starts a new run, and the last one exits.
Failed(m) ==
  /\ fails' = IF m = msg THEN fails + 1 ELSE 1
  /\ msg' = m
  /\ mpc' = IF fails' >= Limit THEN "exited" ELSE "sleep"
  /\ pending' = "none"

\* The loop starts over: take(), the capture started ahead, or one of its own.
Begin ==
  /\ mpc = "top"
  /\ mpc' = IF mode = "stream" THEN "take"
            ELSE IF pending = "none" THEN "direct" ELSE "result"
  /\ UNCHANGED <<mode, alive, readerVars, queue, taken, governor, poolVars>>

\* --count is reached, or the operator interrupts the run.
Stop ==
  /\ mpc = "top"
  /\ mpc' = "stopped"
  /\ UNCHANGED <<mode, alive, readerVars, queue, taken, governor, poolVars>>

\* take() looks for a latched error before it waits for a block.
Take ==
  /\ mpc = "take"
  /\ \/ error /\ Failed("cause")
     \/ ~error /\ mpc' = "get" /\ UNCHANGED <<governor, pending>>
  /\ UNCHANGED <<mode, alive, readerVars, queue, taken, orphans>>

Get ==
  /\ mpc = "get" /\ queue # <<>>
  /\ queue' = Tail(queue)
  /\ \/ /\ Head(queue) = Sentinel
        /\ Failed(IF error THEN "cause" ELSE "ended")
        /\ UNCHANGED taken
     \/ /\ Head(queue) # Sentinel
        /\ taken' = Head(queue) /\ mpc' = "measure"
        /\ UNCHANGED <<governor, pending>>
  /\ UNCHANGED <<mode, alive, readerVars, orphans>>

\* q.get gave up after 5 s ...
GetTimeout ==
  /\ mpc = "get" /\ queue = <<>>
  /\ mpc' = "empty"
  /\ UNCHANGED <<mode, alive, readerVars, queue, taken, governor, poolVars>>

\* ... and only then looks whether the reader has stopped.
AfterTimeout ==
  /\ mpc = "empty"
  /\ \/ done /\ Failed("ended")
     \/ ~done /\ mpc' = "take" /\ UNCHANGED <<governor, pending>>
  /\ UNCHANGED <<mode, alive, readerVars, queue, taken, orphans>>

\* The loop's own sigrok returned: the next capture is started ahead at once
\* (--no-prefetch: not at all).
\* A dead analyser fails, always with the same message.
DirectDone ==
  /\ mpc = "direct"
  /\ \/ /\ alive /\ mpc' = "measure"
        /\ pending' = IF mode = "prefetch" THEN "running" ELSE "none"
        /\ UNCHANGED governor
     \/ Failed("capture")
  /\ UNCHANGED <<mode, alive, readerVars, queue, taken, orphans>>

\* The capture that was started ahead is ready: take it and start the next.
ResultReady ==
  /\ mpc = "result"
  /\ \/ pending = "good" /\ mpc' = "measure" /\ pending' = "running" /\ UNCHANGED governor
     \/ pending = "bad" /\ Failed("capture")
  /\ UNCHANGED <<mode, alive, readerVars, queue, taken, orphans>>

\* The pool's only worker finishes a capture, abandoned ones first.
PoolDone ==
  /\ \/ orphans > 0 /\ orphans' = orphans - 1 /\ UNCHANGED pending
     \/ /\ orphans = 0 /\ pending = "running"
        /\ pending' \in IF alive THEN {"good", "bad"} ELSE {"bad"}
        /\ UNCHANGED orphans
  /\ UNCHANGED <<mode, alive, readerVars, queue, mpc, taken, governor>>

\* measure_capture gave a row: the run of failures is over.
MeasureOk ==
  /\ mpc = "measure"
  /\ fails' = 0 /\ msg' = "none"
  /\ mpc' = "top"
  /\ UNCHANGED <<mode, alive, readerVars, queue, taken, poolVars>>

\* ... or raised: a capture still running in the pool is abandoned there.
MeasureFails ==
  /\ mpc = "measure"
  /\ \E m \in Complaints : Failed(m)
  /\ \/ pending = "running" /\ orphans < MaxOrphans /\ orphans' = orphans + 1
     \/ pending # "running" /\ UNCHANGED orphans
  /\ UNCHANGED <<mode, alive, readerVars, queue, taken>>

\* The backoff is over.
Wake ==
  /\ mpc = "sleep"
  /\ mpc' = "top"
  /\ UNCHANGED <<mode, alive, readerVars, queue, taken, governor, poolVars>>

------------------------------------------------------------------------------
\* The analyser is unplugged, or claimed by another program, for good.
Die ==
  /\ alive /\ alive' = FALSE
  /\ UNCHANGED <<mode, readerVars, queue, mpc, taken, governor, poolVars>>

Reader == Spawn \/ ReadBlock \/ EndOfAcquisition \/ Restart \/ MarkDone \/ PutSentinel
Loop == \/ Begin \/ Take \/ Get \/ GetTimeout \/ AfterTimeout \/ DirectDone
        \/ ResultReady \/ MeasureOk \/ MeasureFails \/ Wake

Over == mpc \in {"exited", "stopped"} /\ UNCHANGED vars

Next == Reader \/ Loop \/ PoolDone \/ Stop \/ Die \/ Over

\* Every acquisition is bounded by --time and every capture by --timeout, so
\* the threads keep running; nothing else is assumed of the analyser.
Fairness == WF_vars(Reader) /\ WF_vars(Loop) /\ WF_vars(PoolDone)

Spec == Init /\ [][Next]_vars /\ Fairness
------------------------------------------------------------------------------
(* Properties *)

FlagsOK == alive \in BOOLEAN /\ error \in BOOLEAN /\ done \in BOOLEAN

ReaderOK ==
  /\ rpc \in {"off", "spawn", "reading", "backoff", "latched", "closing", "stopped"}
  /\ nblk \in 0..FullAcq /\ starved \in 0..(StarveLimit - 1)
  /\ restarts \in 0..(MaxRestarts + 1)
  /\ made \in 0..MaxBlocks /\ dropped \in SUBSET (1..MaxBlocks)

QueueOK == queue \in Seq(0..MaxBlocks) /\ Len(queue) <= Depth

LoopOK ==
  /\ mode \in {"stream", "prefetch", "direct"}
  /\ mpc \in {"top", "take", "get", "empty", "direct", "result", "measure",
              "sleep", "exited", "stopped"}
  /\ taken \in 0..MaxBlocks
  /\ fails \in 0..Limit
  /\ msg \in Complaints \union {"none", "cause", "ended", "capture"}
  /\ pending \in {"none", "running", "good", "bad"}
  /\ orphans \in 0..MaxOrphans

TypeOK == FlagsOK /\ ReaderOK /\ QueueOK /\ LoopOK

\* What the loop is given is the abstract feed: blocks in order, none twice,
\* none missing that was not counted, whatever the two threads' timing.
Feed == INSTANCE LossyFeed WITH sent <- made, lost <- dropped, last <- taken
StreamIsLossyFeed == Feed!FeedSpec

\* A run of failures of the stream itself ends the process with the reason the
\* acquisition gave up, never with a bare "stream ended" (take()'s comment).
GivesUpWithTheCause ==
  mode = "stream" /\ mpc = "exited" => msg \in Complaints \union {"cause"}

\* An analyser that stops answering ends the process, in either mode: neither
\* thread waits for the other for ever and no retry is endless.
DeadAnalyserEndsRun == ~alive ~> mpc \in {"exited", "stopped"}

==============================================================================
