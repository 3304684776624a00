----------------------------- MODULE BenchProofs -----------------------------
(* Components of the bench, which share nothing but this file.                 *)
(* Acquisition: type correctness, that the stream gives up with its cause, and *)
(* that reader, queue and loop implement LossyFeed, for every depth of the      *)
(* queue, every limit and any number of blocks. CaptureTable: what a run has    *)
(* recorded is read back and kept, for any number of runs, rows and archives.   *)
(* SkewGate: a true reference keeps every row true, for every frame, window,    *)
(* gate and set of lags. LivePlot: one draw at a time, for any number of rows,  *)
(* elements and requests. LogTail: polls read a log as one pass would, for every  *)
(* log. SerialLog: what was read is logged, in order and once.                    *)
EXTENDS Acquisition, CaptureTable, SkewGate, LivePlot, LogTail, SerialLog,
        SequenceTheorems, FiniteSetTheorems, WellFoundedInduction, TLAPS

USE AcquisitionAssumption

\* The reader only runs while it may be restarted, the loop while it may fail.
BudgetsOK ==
  /\ rpc \in {"spawn", "reading", "backoff"} => restarts <= MaxRestarts
  /\ mpc # "exited" => fails < Limit

\* The queue holds, in order, the blocks that are neither taken nor dropped,
\* and at its end the sentinel once the reader has put it there.
FeedOK ==
  /\ taken <= made /\ dropped \subseteq 1..made
  /\ rpc # "stopped" => \A i \in 1..Len(queue) : queue[i] # Sentinel
  /\ \A i \in 1..Len(queue) : \A j \in 1..Len(queue) :
        i < j /\ queue[j] # Sentinel => queue[i] # Sentinel /\ queue[i] < queue[j]
  /\ \A i \in 1..Len(queue) : queue[i] # Sentinel =>
        queue[i] > taken /\ queue[i] <= made /\ queue[i] \notin dropped
  /\ \A b \in 1..made : b > taken /\ b \notin dropped =>
        \E i \in 1..Len(queue) : queue[i] = b

\* A reader that stops has latched its error first; the stream is the only
\* source of the loop, and "stream ended" is said at most once.
CauseOK ==
  /\ rpc \in {"latched", "closing", "stopped"} => error
  /\ done => error
  /\ mode # "stream" => rpc = "off"
  /\ mode = "stream" =>
       /\ mpc \notin {"direct", "result"}
       /\ msg # "capture"
       /\ msg = "ended" => /\ mpc \in {"sleep", "top", "take", "stopped"}
                           /\ error /\ fails = 1
       /\ mpc = "exited" => msg # "none"

IInv == TypeOK /\ BudgetsOK /\ FeedOK /\ CauseOK

\* The disjuncts of a step.
LEMMA Steps ==
  ASSUME [Next]_vars
  PROVE  \/ Spawn \/ ReadBlock \/ EndOfAcquisition \/ Restart \/ MarkDone \/ PutSentinel
         \/ Begin \/ Take \/ Get \/ GetTimeout \/ AfterTimeout \/ DirectDone
         \/ ResultReady \/ MeasureOk \/ MeasureFails \/ Wake \/ PoolDone \/ Stop \/ Die
         \/ UNCHANGED vars
BY Zenon DEF Next, Reader, Loop, Over

LEMMA InitIInv == Init => IInv
<1> SUFFICES ASSUME Init PROVE IInv
  OBVIOUS
<1>1. FlagsOK
  BY Zenon DEF Init, FlagsOK
<1>2. ReaderOK
  BY DEF Init, ReaderOK
<1>3. QueueOK
  BY EmptySeq DEF Init, QueueOK
<1>4. LoopOK
  BY DEF Init, LoopOK
<1>5. BudgetsOK
  BY DEF Init, BudgetsOK
<1>6. FeedOK
  BY DEF Init, FeedOK, Sentinel
<1>7. CauseOK
  BY DEF Init, CauseOK
<1> QED BY <1>1, <1>2, <1>3, <1>4, <1>5, <1>6, <1>7 DEF IInv, TypeOK

------------------------------------------------------------------------------
\* Flags stay flags.
LEMMA FlagsStep == ASSUME FlagsOK, [Next]_vars PROVE FlagsOK'
<1>1. alive' = alive \/ alive' = FALSE
  BY Steps, Zenon DEF Spawn, ReadBlock, EndOfAcquisition, Restart, MarkDone, PutSentinel,
     Begin, Take, Get, GetTimeout, AfterTimeout, DirectDone, ResultReady, MeasureOk,
     MeasureFails, Wake, PoolDone, Stop, Die, vars
<1>2. error' = error \/ error' = TRUE
  BY Steps, Zenon DEF Spawn, ReadBlock, EndOfAcquisition, Raised, Restart, MarkDone,
     PutSentinel, Begin, Take, Get, GetTimeout, AfterTimeout, DirectDone, ResultReady,
     MeasureOk, MeasureFails, Wake, PoolDone, Stop, Die, vars, readerVars
<1>3. done' = done \/ done' = TRUE
  BY Steps, Zenon DEF Spawn, ReadBlock, EndOfAcquisition, Restart, MarkDone,
     PutSentinel, Begin, Take, Get, GetTimeout, AfterTimeout, DirectDone, ResultReady,
     MeasureOk, MeasureFails, Wake, PoolDone, Stop, Die, vars, readerVars
<1> QED BY <1>1, <1>2, <1>3, Zenon DEF FlagsOK

\* The loop's steps leave the reader alone.
LEMMA LoopLeavesReader ==
  ASSUME \/ Begin \/ Take \/ Get \/ GetTimeout \/ AfterTimeout \/ DirectDone
         \/ ResultReady \/ MeasureOk \/ MeasureFails \/ Wake \/ PoolDone \/ Stop \/ Die
         \/ UNCHANGED vars
  PROVE  UNCHANGED readerVars
BY Zenon DEF Begin, Take, Get, GetTimeout, AfterTimeout, DirectDone, ResultReady, MeasureOk,
   MeasureFails, Wake, PoolDone, Stop, Die, vars

\* The reader's steps leave the loop alone.
LEMMA ReaderLeavesLoop ==
  ASSUME Spawn \/ ReadBlock \/ EndOfAcquisition \/ Restart \/ MarkDone \/ PutSentinel
  PROVE  UNCHANGED <<mode, mpc, taken, governor, poolVars>>
BY Zenon DEF Spawn, ReadBlock, EndOfAcquisition, Restart, MarkDone, PutSentinel

\* Only three steps touch the queue.
LEMMA QueueSteps ==
  ASSUME [Next]_vars
  PROVE  ReadBlock \/ PutSentinel \/ Get \/ UNCHANGED queue
BY Steps, Zenon DEF Spawn, EndOfAcquisition, Restart, MarkDone, Begin, Take, GetTimeout,
   AfterTimeout, DirectDone, ResultReady, MeasureOk, MeasureFails, Wake, PoolDone, Stop,
   Die, vars

\* The reader's counters keep their ranges and its budget of restarts.
LEMMA ReaderStep ==
  ASSUME IInv, [Next]_vars
  PROVE  ReaderOK' /\ (rpc' \in {"spawn", "reading", "backoff"} => restarts' <= MaxRestarts)
<1>0. ReaderOK /\ (rpc \in {"spawn", "reading", "backoff"} => restarts <= MaxRestarts)
  BY Zenon DEF IInv, TypeOK, BudgetsOK
<1> HIDE DEF ReaderOK
<1>1. CASE Spawn
  <2>1. rpc = "spawn" /\ rpc' = "reading" /\ nblk' = 0 /\ starved' = starved
        /\ restarts' = restarts /\ made' = made /\ dropped' = dropped
    BY <1>1, Zenon DEF Spawn
  <2> QED BY <1>0, <2>1 DEF ReaderOK
<1>2. CASE Restart
  <2>1. rpc = "backoff" /\ rpc' = "spawn" /\ nblk' = nblk /\ starved' = starved
        /\ restarts' = restarts /\ made' = made /\ dropped' = dropped
    BY <1>2, Zenon DEF Restart
  <2> QED BY <1>0, <2>1 DEF ReaderOK
<1>3. CASE MarkDone \/ PutSentinel
  <2>1. rpc' \in {"closing", "stopped"} /\ nblk' = nblk /\ starved' = starved
        /\ restarts' = restarts /\ made' = made /\ dropped' = dropped
    BY <1>3, Zenon DEF MarkDone, PutSentinel
  <2> QED BY <1>0, <2>1 DEF ReaderOK
<1>4. CASE ReadBlock
  <2>1. rpc' = rpc /\ starved' = starved /\ made < MaxBlocks /\ nblk < FullAcq
        /\ made' = made + 1 /\ nblk' = nblk + 1 /\ restarts' = 0
    BY <1>4, Zenon DEF ReadBlock
  <2>2. dropped' = dropped \/ dropped' = dropped \union {made + 1}
    BY <1>4, Zenon DEF ReadBlock, Offer
  <2>3. made + 1 \in 1..MaxBlocks /\ dropped \in SUBSET (1..MaxBlocks)
    BY <1>0, <2>1 DEF ReaderOK
  <2>4. dropped' \in SUBSET (1..MaxBlocks)
    BY <2>2, <2>3, Zenon
  <2>5. made' \in 0..MaxBlocks /\ nblk' \in 0..FullAcq /\ restarts' \in 0..(MaxRestarts + 1)
        /\ restarts' <= MaxRestarts
    BY <1>0, <2>1 DEF ReaderOK
  <2> QED BY <1>0, <2>1, <2>4, <2>5, Zenon DEF ReaderOK
<1>5. CASE EndOfAcquisition
  <2>1. rpc = "reading" /\ nblk' = nblk /\ made' = made /\ dropped' = dropped
    BY <1>5, Zenon DEF EndOfAcquisition
  <2>2. \/ /\ starved' = 0 /\ restarts' = restarts + 1
           /\ \/ restarts + 1 > MaxRestarts /\ rpc' = "latched"
              \/ restarts + 1 <= MaxRestarts /\ rpc' = "backoff"
        \/ /\ starved + 1 < StarveLimit /\ starved' = starved + 1
           /\ rpc' = "spawn" /\ restarts' = restarts
        \/ starved' = 0 /\ rpc' = "spawn" /\ restarts' = restarts
    BY <1>5, Zenon DEF EndOfAcquisition, Raised
  <2> QED BY <1>0, <2>1, <2>2 DEF ReaderOK
<1>6. CASE UNCHANGED readerVars
  <2>1. rpc' = rpc /\ nblk' = nblk /\ starved' = starved
        /\ restarts' = restarts /\ made' = made /\ dropped' = dropped
    BY <1>6, Zenon DEF readerVars
  <2> QED BY <1>0, <2>1 DEF ReaderOK
<1> QED BY <1>1, <1>2, <1>3, <1>4, <1>5, <1>6, Steps, LoopLeavesReader, Zenon

\* A failure keeps the governor's ranges and its budget.
LEMMA FailedKeeps ==
  ASSUME NEW m \in Complaints \union {"cause", "ended", "capture"}, Failed(m),
         fails \in 0..Limit, fails < Limit
  PROVE  /\ fails' \in 1..Limit /\ msg' = m /\ pending' = "none"
         /\ mpc' \in {"sleep", "exited"} /\ (mpc' # "exited" => fails' < Limit)
BY DEF Failed

\* What a step does to the loop: it fails with a message, measures, or moves on.
LEMMA LoopEffects ==
  ASSUME IInv, [Next]_vars
  PROVE  \/ UNCHANGED <<mode, mpc, taken, governor, poolVars>>
         \/ /\ UNCHANGED <<mode, fails, msg>> /\ mpc # "exited" /\ mpc' # "exited"
            /\ mpc' \in {"top", "take", "get", "empty", "direct", "result", "measure", "stopped"}
            /\ UNCHANGED taken \/ (queue # <<>> /\ taken' = Head(queue))
            /\ pending' \in {pending, "running", "none"} /\ orphans' = orphans
         \/ /\ UNCHANGED <<mode, mpc, taken, fails, msg>>
            /\ \/ orphans > 0 /\ orphans' = orphans - 1 /\ pending' = pending
               \/ pending' \in {"good", "bad"} /\ orphans' = orphans
         \/ /\ UNCHANGED <<mode, taken, pending, orphans>> /\ mpc' = "top"
            /\ fails' = 0 /\ msg' = "none"
         \/ /\ UNCHANGED <<mode, taken>> /\ mpc # "exited"
            /\ \E m \in Complaints \union {"cause", "ended", "capture"} : Failed(m)
            /\ orphans' = orphans \/ (orphans < MaxOrphans /\ orphans' = orphans + 1)
<1>1. CASE Begin \/ Stop \/ GetTimeout \/ Wake
  BY <1>1 DEF Begin, Stop, GetTimeout, Wake, governor, poolVars
<1>2. CASE Take
  <2>1. CASE error
    BY <1>2, <2>1, Zenon DEF Take
  <2>2. CASE ~error
    BY <1>2, <2>2 DEF Take, governor
  <2> QED BY <2>1, <2>2
<1>3. CASE Get
  <2>1. CASE Head(queue) = Sentinel
    <3>1. mpc = "get" /\ Failed(IF error THEN "cause" ELSE "ended")
          /\ taken' = taken /\ orphans' = orphans /\ mode' = mode
      BY <1>3, <2>1, Zenon DEF Get
    <3>2. \E m \in Complaints \union {"cause", "ended", "capture"} : Failed(m)
      <4>1. CASE error
        BY <3>1, <4>1, Zenon
      <4>2. CASE ~error
        BY <3>1, <4>2, Zenon
      <4> QED BY <4>1, <4>2
    <3> QED BY <3>1, <3>2
  <2>2. CASE Head(queue) # Sentinel
    <3>1. mpc = "get" /\ mpc' = "measure" /\ taken' = Head(queue) /\ queue # <<>>
          /\ UNCHANGED <<mode, fails, msg, pending, orphans>>
      BY <1>3, <2>2, Zenon DEF Get, governor
    <3> QED BY <3>1
  <2> QED BY <2>1, <2>2
<1>4. CASE AfterTimeout
  <2>1. CASE done
    BY <1>4, <2>1, Zenon DEF AfterTimeout
  <2>2. CASE ~done
    BY <1>4, <2>2 DEF AfterTimeout, governor
  <2> QED BY <2>1, <2>2
<1>5. CASE DirectDone
  <2>1. CASE Failed("capture")
    BY <1>5, <2>1, Zenon DEF DirectDone
  <2>2. CASE ~Failed("capture")
    <3>1. mpc = "direct" /\ mpc' = "measure" /\ pending' \in {"running", "none"}
          /\ UNCHANGED <<mode, taken, fails, msg, orphans>>
      BY <1>5, <2>2, Zenon DEF DirectDone, governor
    <3> QED BY <3>1
  <2> QED BY <2>1, <2>2
<1>6. CASE ResultReady
  <2>1. CASE Failed("capture")
    BY <1>6, <2>1, Zenon DEF ResultReady
  <2>2. CASE ~Failed("capture")
    BY <1>6, <2>2 DEF ResultReady, governor
  <2> QED BY <2>1, <2>2
<1>7. CASE PoolDone
  <2>1. /\ UNCHANGED <<mode, mpc, taken, fails, msg>>
        /\ \/ orphans > 0 /\ orphans' = orphans - 1 /\ pending' = pending
           \/ pending' \in {"good", "bad"} /\ orphans' = orphans
    BY <1>7, Zenon DEF PoolDone, governor
  <2> QED BY <2>1
<1>8. CASE MeasureOk
  BY <1>8 DEF MeasureOk, poolVars
<1>9. CASE MeasureFails
  <2>1. /\ UNCHANGED <<mode, taken>> /\ mpc = "measure"
        /\ \E m \in Complaints : Failed(m)
        /\ orphans' = orphans \/ (orphans < MaxOrphans /\ orphans' = orphans + 1)
    BY <1>9, Zenon DEF MeasureFails
  <2> QED BY <2>1
<1>10. CASE Spawn \/ ReadBlock \/ EndOfAcquisition \/ Restart \/ MarkDone \/ PutSentinel
  BY <1>10, ReaderLeavesLoop, Zenon
<1>11. CASE Die \/ UNCHANGED vars
  BY <1>11, Zenon DEF Die, vars
<1> QED BY <1>1, <1>2, <1>3, <1>4, <1>5, <1>6, <1>7, <1>8, <1>9, <1>10, <1>11, Steps, Zenon

\* The loop keeps its ranges and its budget of failures.
LEMMA LoopStep ==
  ASSUME IInv, [Next]_vars
  PROVE  LoopOK' /\ (mpc' # "exited" => fails' < Limit)
<1>0. LoopOK /\ QueueOK /\ (mpc # "exited" => fails < Limit)
  BY Zenon DEF IInv, TypeOK, BudgetsOK
<1>1. queue # <<>> => Head(queue) \in 0..MaxBlocks
  BY <1>0, HeadTailProperties DEF QueueOK
<1>2. CASE \E m \in Complaints \union {"cause", "ended", "capture"} : Failed(m)
           /\ UNCHANGED <<mode, taken>> /\ mpc # "exited"
           /\ (orphans' = orphans \/ (orphans < MaxOrphans /\ orphans' = orphans + 1))
  BY <1>0, <1>2, FailedKeeps DEF LoopOK
<1> QED BY <1>0, <1>1, <1>2, LoopEffects DEF LoopOK, governor, poolVars

\* The queue keeps its type and its depth.
LEMMA QueueStep == ASSUME IInv, [Next]_vars PROVE QueueOK'
<1>0. QueueOK /\ made \in 0..MaxBlocks /\ Len(queue) \in Nat
  BY LenProperties DEF IInv, TypeOK, QueueOK, ReaderOK
<1>1. CASE ReadBlock
  <2>1. queue' = queue \/ (Len(queue) < Depth /\ queue' = Append(queue, made + 1))
    BY <1>1, Zenon DEF ReadBlock, Offer
  <2>2. made + 1 \in 0..MaxBlocks
    BY <1>0, <1>1 DEF ReadBlock
  <2>3. Append(queue, made + 1) \in Seq(0..MaxBlocks)
        /\ Len(Append(queue, made + 1)) = Len(queue) + 1
    BY <1>0, <2>2, AppendProperties DEF QueueOK
  <2> QED BY <1>0, <2>1, <2>3 DEF QueueOK
<1>2. CASE PutSentinel
  <2>1. queue' = queue \/ (Len(queue) < Depth /\ queue' = Append(queue, Sentinel))
    BY <1>2, Zenon DEF PutSentinel
  <2>2. Sentinel \in 0..MaxBlocks
    BY DEF Sentinel
  <2>3. Append(queue, Sentinel) \in Seq(0..MaxBlocks)
        /\ Len(Append(queue, Sentinel)) = Len(queue) + 1
    BY <1>0, <2>2, AppendProperties DEF QueueOK
  <2> QED BY <1>0, <2>1, <2>3 DEF QueueOK
<1>3. CASE Get
  <2>1. queue # <<>> /\ queue' = Tail(queue)
    BY <1>3, Zenon DEF Get
  <2>2. Tail(queue) \in Seq(0..MaxBlocks) /\ Len(Tail(queue)) = Len(queue) - 1
    BY <1>0, <2>1, HeadTailProperties DEF QueueOK
  <2> QED BY <1>0, <2>1, <2>2 DEF QueueOK
<1>4. CASE UNCHANGED queue
  BY <1>0, <1>4, Zenon DEF QueueOK
<1> QED BY <1>1, <1>2, <1>3, <1>4, QueueSteps, Zenon

------------------------------------------------------------------------------
\* A queue in order, of blocks still to come: the properties Offer, PutSentinel
\* and Get keep.
LEMMA FeedStep == ASSUME IInv, [Next]_vars PROVE FeedOK'
<1>0. /\ FeedOK /\ queue \in Seq(0..MaxBlocks) /\ Len(queue) \in Nat
      /\ made \in 0..MaxBlocks /\ taken \in 0..MaxBlocks /\ dropped \in SUBSET (1..MaxBlocks)
      /\ \A i \in 1..Len(queue) : queue[i] \in 0..MaxBlocks
  BY LenProperties, ElementOfSeq DEF IInv, TypeOK, QueueOK, ReaderOK, LoopOK
<1>1. CASE ReadBlock
  <2>1. rpc = "reading" /\ rpc' = rpc /\ made < MaxBlocks /\ made' = made + 1 /\ taken' = taken
    BY <1>1, Zenon DEF ReadBlock
  <2>2. CASE dropped' = dropped \union {made + 1} /\ queue' = queue
    BY <1>0, <2>1, <2>2 DEF FeedOK
  <2>3. CASE dropped' = dropped /\ queue' = Append(queue, made + 1)
    <3> DEFINE q == Append(queue, made + 1)
    <3>1. made + 1 \in 0..MaxBlocks
      BY <1>0, <2>1
    <3>2. /\ Len(q) = Len(queue) + 1 /\ q[Len(queue) + 1] = made + 1
          /\ \A i \in 1..Len(queue) : q[i] = queue[i]
      BY <1>0, <3>1, AppendProperties
    <3>3. queue' = q
      BY <2>3
    <3> HIDE DEF q
    <3>4. taken' <= made' /\ dropped' \subseteq 1..made'
      BY <1>0, <2>1, <2>3 DEF FeedOK
    <3>5. \A i \in 1..Len(q) : q[i] # Sentinel
      <4> SUFFICES ASSUME NEW i \in 1..Len(q) PROVE q[i] # Sentinel
        OBVIOUS
      <4>1. CASE i \in 1..Len(queue)
        <5>1. q[i] = queue[i]
          BY <3>2, <4>1
        <5>2. queue[i] # Sentinel
          BY <1>0, <2>1, <4>1 DEF FeedOK
        <5> QED BY <5>1, <5>2
      <4>2. CASE i = Len(queue) + 1
        BY <1>0, <3>2, <4>2 DEF Sentinel
      <4> QED BY <1>0, <3>2, <4>1, <4>2
    <3>6. \A i \in 1..Len(q) : \A j \in 1..Len(q) : i < j => q[i] < q[j]
      <4> SUFFICES ASSUME NEW i \in 1..Len(q), NEW j \in 1..Len(q), i < j
                   PROVE  q[i] < q[j]
        OBVIOUS
      <4>1. i \in 1..Len(queue) /\ q[i] = queue[i] /\ q[i] <= made
        BY <1>0, <2>1, <3>2, <3>5 DEF FeedOK
      <4>2. CASE j \in 1..Len(queue)
        BY <1>0, <3>2, <3>5, <4>1, <4>2 DEF FeedOK
      <4>3. CASE j = Len(queue) + 1
        BY <1>0, <3>2, <4>1, <4>3
      <4> QED BY <1>0, <3>2, <4>2, <4>3
    <3>7. \A i \in 1..Len(q) : q[i] > taken' /\ q[i] <= made' /\ q[i] \notin dropped'
      <4> SUFFICES ASSUME NEW i \in 1..Len(q)
                   PROVE  q[i] > taken /\ q[i] <= made + 1 /\ q[i] \notin dropped
        BY <2>1, <2>3
      <4>1. CASE i \in 1..Len(queue)
        <5>1. q[i] = queue[i] /\ queue[i] # Sentinel
          BY <3>2, <3>5, <4>1
        <5>2. queue[i] > taken /\ queue[i] <= made /\ queue[i] \notin dropped
          BY <1>0, <4>1, <5>1 DEF FeedOK
        <5>3. queue[i] \in Int
          BY <1>0, <4>1
        <5> QED BY <1>0, <5>1, <5>2, <5>3
      <4>2. CASE i = Len(queue) + 1
        BY <1>0, <3>2, <4>2 DEF FeedOK
      <4> QED BY <1>0, <3>2, <4>1, <4>2
    <3>8. \A b \in 1..made' : b > taken' /\ b \notin dropped' =>
             \E i \in 1..Len(q) : q[i] = b
      <4> SUFFICES ASSUME NEW b \in 1..(made + 1), b > taken, b \notin dropped
                   PROVE  \E i \in 1..Len(q) : q[i] = b
        BY <2>1, <2>3
      <4>1. CASE b = made + 1
        BY <1>0, <3>2, <4>1
      <4>2. CASE b \in 1..made
        <5>1. PICK i \in 1..Len(queue) : queue[i] = b
          BY <1>0, <4>2 DEF FeedOK
        <5> QED BY <1>0, <3>2, <5>1
      <4> QED BY <1>0, <4>1, <4>2
    <3> QED BY <2>1, <3>3, <3>4, <3>5, <3>6, <3>7, <3>8 DEF FeedOK
  <2> QED BY <1>1, <2>2, <2>3, Zenon DEF ReadBlock, Offer
<1>2. CASE PutSentinel
  <2>1. rpc' = "stopped" /\ rpc = "closing" /\ made' = made /\ dropped' = dropped /\ taken' = taken
    BY <1>2, Zenon DEF PutSentinel
  <2>2. CASE queue' = queue
    BY <1>0, <2>1, <2>2 DEF FeedOK
  <2>3. CASE queue' = Append(queue, Sentinel)
    <3> DEFINE q == Append(queue, Sentinel)
    <3>1. Sentinel \in 0..MaxBlocks
      BY DEF Sentinel
    <3>2. /\ Len(q) = Len(queue) + 1 /\ q[Len(queue) + 1] = Sentinel
          /\ \A i \in 1..Len(queue) : q[i] = queue[i]
      BY <1>0, <3>1, AppendProperties
    <3> HIDE DEF q
    <3> QED BY <1>0, <2>1, <2>3, <3>2 DEF FeedOK, Sentinel, q
  <2> QED BY <1>2, <2>2, <2>3, Zenon DEF PutSentinel
<1>3. CASE Get
  <2>1. queue # <<>> /\ queue' = Tail(queue) /\ rpc' = rpc /\ made' = made /\ dropped' = dropped
    BY <1>3, Zenon DEF Get, readerVars
  <2>2. /\ Len(Tail(queue)) = Len(queue) - 1 /\ Len(queue) > 0 /\ Head(queue) = queue[1]
        /\ \A i \in 1..Len(Tail(queue)) : Tail(queue)[i] = queue[i + 1]
    BY <1>0, <2>1, HeadTailProperties, EmptySeq, LenProperties
  <2>3. CASE Head(queue) = Sentinel /\ taken' = taken
    <3>1. \A b \in 1..made : b > taken /\ b \notin dropped =>
             \E i \in 1..Len(Tail(queue)) : Tail(queue)[i] = b
      <4> SUFFICES ASSUME NEW b \in 1..made, b > taken, b \notin dropped
                   PROVE  \E i \in 1..Len(Tail(queue)) : Tail(queue)[i] = b
        OBVIOUS
      <4>1. PICK i \in 1..Len(queue) : queue[i] = b
        BY <1>0 DEF FeedOK
      <4>2. i # 1 /\ i - 1 \in 1..Len(Tail(queue))
        BY <1>0, <2>2, <2>3, <4>1 DEF Sentinel
      <4> QED BY <1>0, <2>2, <4>1, <4>2
    <3> QED BY <1>0, <2>1, <2>2, <2>3, <3>1 DEF FeedOK
  <2>4. CASE Head(queue) # Sentinel /\ taken' = Head(queue)
    <3>1. \A b \in 1..made : b > taken' /\ b \notin dropped =>
             \E i \in 1..Len(Tail(queue)) : Tail(queue)[i] = b
      <4> SUFFICES ASSUME NEW b \in 1..made, b > taken', b \notin dropped
                   PROVE  \E i \in 1..Len(Tail(queue)) : Tail(queue)[i] = b
        OBVIOUS
      <4>1. PICK i \in 1..Len(queue) : queue[i] = b
        BY <1>0, <2>2, <2>4 DEF FeedOK
      <4>2. i # 1 /\ i - 1 \in 1..Len(Tail(queue))
        BY <1>0, <2>2, <2>4, <4>1
      <4> QED BY <1>0, <2>2, <4>1, <4>2
    <3>2. taken' <= made
      BY <1>0, <2>2, <2>4 DEF FeedOK
    <3>3. \A i \in 1..Len(Tail(queue)) : Tail(queue)[i] # Sentinel =>
             Tail(queue)[i] > taken' /\ Tail(queue)[i] <= made /\ Tail(queue)[i] \notin dropped
      BY <1>0, <2>2, <2>4 DEF FeedOK
    <3> QED BY <1>0, <2>1, <2>2, <3>1, <3>2, <3>3 DEF FeedOK
  <2> QED BY <1>3, <2>3, <2>4, Zenon DEF Get
<1>4. CASE UNCHANGED queue /\ ~ReadBlock /\ ~PutSentinel /\ ~Get
  <2>1. UNCHANGED <<made, dropped, taken>> /\ (rpc' # "stopped" => rpc # "stopped")
    BY <1>4, Steps, Zenon DEF Spawn, EndOfAcquisition, Raised, Restart, MarkDone, Begin, Take,
       GetTimeout, AfterTimeout, DirectDone, ResultReady, MeasureOk, MeasureFails, Wake,
       PoolDone, Stop, Die, vars, readerVars
  <2> QED BY <1>0, <1>4, <2>1 DEF FeedOK
<1> QED BY <1>1, <1>2, <1>3, <1>4, QueueSteps, Zenon

\* The part of CauseOK about the reader and the queue.
LEMMA ReaderCause ==
  ASSUME IInv, [Next]_vars
  PROVE  /\ rpc' \in {"latched", "closing", "stopped"} => error'
         /\ done' => error'
         /\ mode' # "stream" => rpc' = "off"
<1>0. /\ rpc \in {"latched", "closing", "stopped"} => error
      /\ done => error
      /\ mode # "stream" => rpc = "off"
  BY Zenon DEF IInv, CauseOK
<1>1. CASE Spawn \/ ReadBlock \/ Restart
  <2>1. /\ rpc \in {"spawn", "reading", "backoff"} /\ rpc' \in {"spawn", "reading"}
        /\ error' = error /\ done' = done /\ mode' = mode
    BY <1>1, Zenon DEF Spawn, ReadBlock, Restart
  <2>2. rpc # "off" /\ rpc' \notin {"latched", "closing", "stopped"}
    BY <2>1
  <2> QED BY <1>0, <2>1, <2>2, Zenon
<1>2. CASE EndOfAcquisition
  <2>1. /\ rpc = "reading" /\ done' = done /\ mode' = mode
        /\ \/ error' = TRUE
           \/ error' = error /\ rpc' \in {"backoff", "spawn"}
    BY <1>2, Zenon DEF EndOfAcquisition, Raised
  <2>2. rpc # "off" /\ (rpc' \in {"backoff", "spawn"} => rpc' \notin {"latched", "closing", "stopped"})
    BY <2>1
  <2> QED BY <1>0, <2>1, <2>2, Zenon
<1>3. CASE MarkDone \/ PutSentinel
  <2>1. rpc \in {"latched", "closing"} /\ error' = error /\ mode' = mode
    BY <1>3, Zenon DEF MarkDone, PutSentinel
  <2>2. rpc # "off" /\ rpc \in {"latched", "closing", "stopped"}
    BY <2>1
  <2> QED BY <1>0, <2>1, <2>2, Zenon
<1>4. CASE UNCHANGED readerVars
  <2>1. rpc' = rpc /\ error' = error /\ done' = done
    BY <1>4, Zenon DEF readerVars
  <2>2. mode' = mode
    BY LoopEffects, ReaderLeavesLoop, Zenon
  <2> QED BY <1>0, <2>1, <2>2, Zenon
<1> QED BY <1>1, <1>2, <1>3, <1>4, Steps, LoopLeavesReader, Zenon

\* The sentinel is only there once the error is latched.
LEMMA SentinelMeansError ==
  ASSUME IInv, Get, Head(queue) = Sentinel
  PROVE  error
<1>1. /\ queue \in Seq(0..MaxBlocks) /\ queue # <<>> /\ FeedOK
      /\ (rpc \in {"latched", "closing", "stopped"} => error)
  BY Zenon DEF IInv, TypeOK, QueueOK, CauseOK, Get
<1>2. Len(queue) \in Nat /\ Len(queue) > 0 /\ Head(queue) = queue[1]
  BY <1>1, EmptySeq, LenProperties, HeadTailProperties
<1>3. rpc = "stopped"
  BY <1>1, <1>2 DEF FeedOK
<1> QED BY <1>1, <1>3

\* In a stream, a failure is a complaint about a block, the latched cause, or
\* once, before the cause is known to the loop, the bare end of the stream.
LEMMA StreamFails ==
  ASSUME IInv, [Next]_vars, mode = "stream", mpc # mpc', mpc' \in {"sleep", "exited"}
  PROVE  \/ \E m \in Complaints \union {"cause"} : Failed(m)
         \/ Failed("ended") /\ error /\ mpc \in {"get", "empty"}
<1>0. mpc \notin {"direct", "result"} /\ (done => error)
  BY Zenon DEF IInv, CauseOK
<1>1. CASE Take
  <2>1. mpc = "take" /\ (Failed("cause") \/ mpc' = "get")
    BY <1>1, Zenon DEF Take
  <2> QED BY <2>1
<1>2. CASE Get
  <2>1. CASE Head(queue) = Sentinel
    <3>1. error
      BY <1>2, <2>1, SentinelMeansError
    <3>2. Failed(IF error THEN "cause" ELSE "ended")
      BY <1>2, <2>1, Zenon DEF Get
    <3> QED BY <3>1, <3>2, Zenon
  <2>2. CASE Head(queue) # Sentinel
    <3>1. mpc' = "measure"
      BY <1>2, <2>2, Zenon DEF Get
    <3> QED BY <3>1
  <2> QED BY <2>1, <2>2
<1>3. CASE AfterTimeout
  <2>1. mpc = "empty" /\ ((done /\ Failed("ended")) \/ mpc' = "take")
    BY <1>3, Zenon DEF AfterTimeout
  <2>2. CASE done /\ Failed("ended")
    BY <1>0, <2>1, <2>2, Zenon
  <2>3. CASE mpc' = "take"
    BY <2>3
  <2> QED BY <2>1, <2>2, <2>3, Zenon
<1>4. CASE MeasureFails
  BY <1>4, Zenon DEF MeasureFails
<1>5. CASE DirectDone \/ ResultReady
  <2>1. mpc \in {"direct", "result"}
    BY <1>5, Zenon DEF DirectDone, ResultReady
  <2> QED BY <1>0, <2>1, Zenon
<1>6. CASE Begin
  <2>1. mpc' \in {"take", "direct", "result"}
    BY <1>6, Zenon DEF Begin
  <2> QED BY <2>1
<1>7. CASE Stop \/ GetTimeout \/ MeasureOk \/ Wake
  <2>1. mpc' \in {"stopped", "empty", "top"}
    BY <1>7, Zenon DEF Stop, GetTimeout, MeasureOk, Wake
  <2> QED BY <2>1
<1>8. CASE PoolDone \/ Die \/ UNCHANGED vars
  <2>1. mpc' = mpc
    BY <1>8, Zenon DEF PoolDone, Die, vars
  <2> QED BY <2>1
<1>9. CASE Spawn \/ ReadBlock \/ EndOfAcquisition \/ Restart \/ MarkDone \/ PutSentinel
  BY <1>9, ReaderLeavesLoop, Zenon
<1> QED BY <1>1, <1>2, <1>3, <1>4, <1>5, <1>6, <1>7, <1>8, <1>9, Steps, Zenon

\* A latched error stays latched.
LEMMA ErrorStays == ASSUME [Next]_vars, error PROVE error'
BY Steps, Zenon DEF Spawn, ReadBlock, EndOfAcquisition, Raised, Restart, MarkDone, PutSentinel,
   Begin, Take, Get, GetTimeout, AfterTimeout, DirectDone, ResultReady, MeasureOk,
   MeasureFails, Wake, PoolDone, Stop, Die, vars, readerVars

\* Where the loop goes when it does not fail: what was said last, and how often,
\* stands until a block is measured.
LEMMA StreamMoves ==
  ASSUME IInv, [Next]_vars, mode = "stream", ~(mpc # mpc' /\ mpc' \in {"sleep", "exited"})
  PROVE  /\ mpc' \notin {"direct", "result"}
         /\ \/ msg' = msg /\ fails' = fails
            \/ msg' = "none" /\ mpc' = "top"
         /\ mpc' = mpc \/ msg' = "none" \/ <<mpc, mpc'>> \in
              {<<"top", "take">>, <<"top", "stopped">>, <<"take", "get">>, <<"sleep", "top">>,
               <<"get", "measure">>, <<"get", "empty">>, <<"empty", "take">>}
         /\ <<mpc, mpc'>> = <<"take", "get">> => ~error
<1>0. mpc \notin {"direct", "result"}
  BY Zenon DEF IInv, CauseOK
<1>1. CASE Begin
  <2>1. mpc = "top" /\ mpc' = "take" /\ msg' = msg /\ fails' = fails
    BY <1>1, Zenon DEF Begin, governor
  <2> QED BY <2>1
<1>2. CASE Stop
  <2>1. mpc = "top" /\ mpc' = "stopped" /\ msg' = msg /\ fails' = fails
    BY <1>2, Zenon DEF Stop, governor
  <2> QED BY <2>1
<1>3. CASE Wake
  <2>1. mpc = "sleep" /\ mpc' = "top" /\ msg' = msg /\ fails' = fails
    BY <1>3, Zenon DEF Wake, governor
  <2> QED BY <2>1
<1>4. CASE GetTimeout
  <2>1. mpc = "get" /\ mpc' = "empty" /\ msg' = msg /\ fails' = fails
    BY <1>4, Zenon DEF GetTimeout, governor
  <2> QED BY <2>1
<1>5. CASE MeasureOk
  <2>1. mpc' = "top" /\ msg' = "none"
    BY <1>5, Zenon DEF MeasureOk
  <2>2. mpc = "measure"
    BY <1>5, Zenon DEF MeasureOk
  <2> QED BY <2>1, <2>2
<1>6. CASE \E m \in Complaints \union {"cause", "ended"} : Failed(m) /\ mpc \in {"take", "get", "empty", "measure"}
  <2>1. mpc' \in {"sleep", "exited"}
    BY <1>6, Zenon DEF Failed
  <2> QED BY <1>6, <2>1
<1>7. CASE Take
  <2>1. CASE Failed("cause")
    BY <1>6, <1>7, <2>1, Zenon DEF Take
  <2>2. CASE ~Failed("cause")
    <3>1. mpc = "take" /\ mpc' = "get" /\ msg' = msg /\ fails' = fails
      BY <1>7, <2>2, Zenon DEF Take, governor
    <3>2. ~error
      BY <1>7, <2>2, Zenon DEF Take
    <3>3. <<mpc, mpc'>> = <<"take", "get">> /\ mpc' \notin {"direct", "result"}
      BY <3>1
    <3> QED BY <3>1, <3>2, <3>3, Zenon
  <2> QED BY <2>1, <2>2
<1>8. CASE Get
  <2>1. CASE Head(queue) = Sentinel
    <3>1. mpc = "get" /\ Failed(IF error THEN "cause" ELSE "ended")
      BY <1>8, <2>1, Zenon DEF Get
    <3>2. Failed("cause") \/ Failed("ended")
      <4>1. CASE error
        BY <3>1, <4>1, Zenon
      <4>2. CASE ~error
        BY <3>1, <4>2, Zenon
      <4> QED BY <4>1, <4>2
    <3> QED BY <1>6, <3>1, <3>2, Zenon
  <2>2. CASE Head(queue) # Sentinel
    <3>1. mpc = "get" /\ mpc' = "measure" /\ msg' = msg /\ fails' = fails
      BY <1>8, <2>2, Zenon DEF Get, governor
    <3> QED BY <3>1
  <2> QED BY <2>1, <2>2
<1>9. CASE AfterTimeout
  <2>1. CASE Failed("ended")
    BY <1>6, <1>9, <2>1, Zenon DEF AfterTimeout
  <2>2. CASE ~Failed("ended")
    <3>1. mpc = "empty" /\ mpc' = "take" /\ msg' = msg /\ fails' = fails
      BY <1>9, <2>2, Zenon DEF AfterTimeout, governor
    <3> QED BY <3>1
  <2> QED BY <2>1, <2>2
<1>10. CASE MeasureFails
  BY <1>6, <1>10, Zenon DEF MeasureFails
<1>11. CASE DirectDone \/ ResultReady
  <2>1. mpc \in {"direct", "result"}
    BY <1>11, Zenon DEF DirectDone, ResultReady
  <2> QED BY <1>0, <2>1, Zenon
<1>12. CASE PoolDone \/ Die \/ UNCHANGED vars \/ Spawn \/ ReadBlock \/ EndOfAcquisition
            \/ Restart \/ MarkDone \/ PutSentinel
  <2>1. mpc' = mpc /\ msg' = msg /\ fails' = fails
    BY <1>12, ReaderLeavesLoop, Zenon DEF PoolDone, Die, vars, governor
  <2>2. <<mpc, mpc'>> # <<"take", "get">>
    BY <2>1
  <2> QED BY <1>0, <2>1, <2>2, Zenon
<1> QED BY <1>1, <1>2, <1>3, <1>4, <1>5, <1>7, <1>8, <1>9, <1>10, <1>11, <1>12, Steps, Zenon

LEMMA CauseStep == ASSUME IInv, [Next]_vars PROVE CauseOK'
<1>0. /\ mode = "stream" =>
          /\ mpc \notin {"direct", "result"}
          /\ msg # "capture"
          /\ msg = "ended" => /\ mpc \in {"sleep", "top", "take", "stopped"}
                              /\ error /\ fails = 1
          /\ mpc = "exited" => msg # "none"
      /\ LoopOK
  BY Zenon DEF IInv, CauseOK, TypeOK
<1>1. mode' = mode
  BY LoopEffects, Zenon
<1>2. ASSUME mode = "stream"
      PROVE  /\ mpc' \notin {"direct", "result"}
             /\ msg' # "capture"
             /\ msg' = "ended" => mpc' \in {"sleep", "top", "take", "stopped"} /\ fails' = 1
             /\ msg' = "ended" => error'
             /\ mpc' = "exited" => msg' # "none"
  <2>1. CASE mpc # mpc' /\ mpc' \in {"sleep", "exited"}
    <3>1. CASE \E m \in Complaints \union {"cause"} : Failed(m)
      <4>1. msg' \in Complaints \union {"cause"}
        BY <3>1, Zenon DEF Failed
      <4>2. msg' \notin {"capture", "ended", "none"}
        BY <4>1
      <4> QED BY <2>1, <4>2
    <3>2. CASE Failed("ended") /\ error /\ mpc \in {"get", "empty"}
      <4>1. msg # "ended"
        BY <1>0, <1>2, <3>2
      <4>2. msg' = "ended" /\ fails' = 1 /\ mpc' = "sleep"
        BY <3>2, <4>1 DEF Failed
      <4>3. error'
        BY <3>2, ErrorStays
      <4> QED BY <4>2, <4>3
    <3> QED BY <1>2, <2>1, <3>1, <3>2, StreamFails
  <2>2. CASE ~(mpc # mpc' /\ mpc' \in {"sleep", "exited"})
    <3>1. /\ mpc' \notin {"direct", "result"}
          /\ \/ msg' = msg /\ fails' = fails
             \/ msg' = "none" /\ mpc' = "top"
          /\ mpc' = mpc \/ msg' = "none" \/ <<mpc, mpc'>> \in
               {<<"top", "take">>, <<"top", "stopped">>, <<"take", "get">>, <<"sleep", "top">>,
                <<"get", "measure">>, <<"get", "empty">>, <<"empty", "take">>}
          /\ <<mpc, mpc'>> = <<"take", "get">> => ~error
      BY <1>2, <2>2, StreamMoves
    <3>2. msg' = "ended" => error'
      <4>1. msg' = "ended" => msg = "ended"
        BY <3>1
      <4> QED BY <1>0, <1>2, <4>1, ErrorStays, Zenon
    <3>3. msg' = "ended" => mpc' \in {"sleep", "top", "take", "stopped"} /\ fails' = 1
      <4>1. CASE <<mpc, mpc'>> = <<"take", "get">>
        <5>1. ~error
          BY <3>1, <4>1
        <5>2. msg # "ended" /\ (msg' = msg \/ msg' = "none")
          BY <1>0, <1>2, <3>1, <5>1, Zenon
        <5> QED BY <5>2
      <4>2. CASE <<mpc, mpc'>> # <<"take", "get">>
        BY <1>0, <1>2, <2>2, <3>1, <4>2
      <4> QED BY <4>1, <4>2
    <3>4. mpc' = "exited" => msg' # "none"
      BY <1>0, <1>2, <2>2, <3>1
    <3> QED BY <1>0, <1>2, <3>1, <3>2, <3>3, <3>4
  <2> QED BY <2>1, <2>2
<1>3. mode' = "stream" =>
        /\ mpc' \notin {"direct", "result"}
        /\ msg' # "capture"
        /\ msg' = "ended" => mpc' \in {"sleep", "top", "take", "stopped"} /\ error' /\ fails' = 1
        /\ mpc' = "exited" => msg' # "none"
  BY <1>1, <1>2, Zenon
<1> QED BY <1>3, ReaderCause, Zenon DEF CauseOK

LEMMA IInvKept == IInv /\ [Next]_vars => IInv'
<1> SUFFICES ASSUME IInv, [Next]_vars PROVE IInv'
  OBVIOUS
<1>1. FlagsOK'
  BY FlagsStep, Zenon DEF IInv, TypeOK
<1>2. ReaderOK' /\ LoopOK' /\ BudgetsOK'
  BY ReaderStep, LoopStep, Zenon DEF BudgetsOK
<1> QED BY <1>1, <1>2, QueueStep, FeedStep, CauseStep, Zenon DEF IInv, TypeOK

------------------------------------------------------------------------------
\* The inductive invariant of the specification.
THEOREM AcquisitionInvariant == Spec => []IInv
BY InitIInv, IInvKept, PTL DEF Spec

\* Type correctness for every depth, limit and set of complaints.
THEOREM AcquisitionTypeOK == Spec => []TypeOK
<1>1. IInv => TypeOK
  BY Zenon DEF IInv
<1> QED BY <1>1, AcquisitionInvariant, PTL

\* When failures of the stream itself end the process, the reason is the one the
\* acquisition latched, for every limit of at least two equal failures.
THEOREM AcquisitionGivesUpWithTheCause == Spec => []GivesUpWithTheCause
<1>1. IInv => GivesUpWithTheCause
  <2> SUFFICES ASSUME IInv, mode = "stream", mpc = "exited"
               PROVE  msg \in Complaints \union {"cause"}
    BY Zenon DEF GivesUpWithTheCause
  <2>1. LoopOK /\ msg # "capture" /\ msg # "none"
        /\ (msg = "ended" => mpc \in {"sleep", "top", "take", "stopped"})
    BY Zenon DEF IInv, TypeOK, CauseOK
  <2> QED BY <2>1 DEF LoopOK
<1> QED BY <1>1, AcquisitionInvariant, PTL

------------------------------------------------------------------------------
\* The oldest queued block is the oldest that was neither taken nor dropped.
LEMMA HeadIsNext ==
  ASSUME IInv, Get, Head(queue) # Sentinel
  PROVE  /\ Head(queue) \in (taken + 1)..made
         /\ Head(queue) \notin dropped
         /\ (taken + 1)..(Head(queue) - 1) \subseteq dropped
<1>1. /\ queue \in Seq(0..MaxBlocks) /\ queue # <<>> /\ FeedOK
      /\ made \in 0..MaxBlocks /\ taken \in 0..MaxBlocks
  BY Zenon DEF IInv, TypeOK, QueueOK, ReaderOK, LoopOK, Get
<1>2. Len(queue) \in Nat /\ Len(queue) > 0 /\ Head(queue) = queue[1]
      /\ \A i \in 1..Len(queue) : queue[i] \in 0..MaxBlocks
  BY <1>1, EmptySeq, LenProperties, HeadTailProperties, ElementOfSeq
<1>3. Head(queue) \in (taken + 1)..made /\ Head(queue) \notin dropped
  BY <1>1, <1>2 DEF FeedOK
<1>4. ASSUME NEW b \in (taken + 1)..(Head(queue) - 1), b \notin dropped PROVE FALSE
  <2>1. PICK i \in 1..Len(queue) : queue[i] = b
    BY <1>1, <1>3, <1>4 DEF FeedOK
  <2>2. i # 1 /\ b # Sentinel
    BY <1>1, <1>2, <1>3, <1>4, <2>1 DEF Sentinel
  <2>3. 1 \in 1..Len(queue) /\ 1 < i /\ queue[i] # Sentinel
    BY <1>2, <2>1, <2>2
  <2>4. queue[1] < queue[i]
    BY <1>1, <2>3 DEF FeedOK
  <2>5. Head(queue) \in Int /\ b \in Int /\ b < Head(queue)
    BY <1>1, <1>3, <1>4
  <2> QED BY <1>2, <2>1, <2>4, <2>5
<1> QED BY <1>3, <1>4

\* Every step is a step of the abstract feed or leaves it alone.
LEMMA StepIsFeedStep ==
  ASSUME IInv, [Next]_vars
  PROVE  [Feed!FeedNext]_(Feed!feedVars)
<1> USE DEF Feed!feedVars
<1>1. CASE ReadBlock
  <2>1. /\ made < MaxBlocks /\ made' = made + 1 /\ taken' = taken
        /\ dropped' = dropped \/ dropped' = dropped \union {made + 1}
    BY <1>1, Zenon DEF ReadBlock, Offer
  <2>2. Feed!Acquire
    BY <2>1 DEF Feed!Acquire
  <2> QED BY <2>2 DEF Feed!FeedNext
<1>2. CASE Get
  <2>1. made' = made /\ dropped' = dropped
    BY <1>2, Zenon DEF Get, readerVars
  <2>2. CASE Head(queue) = Sentinel
    BY <1>2, <2>1, <2>2, Zenon DEF Get
  <2>3. CASE Head(queue) # Sentinel
    <3>1. taken' = Head(queue)
      BY <1>2, <2>3, Zenon DEF Get
    <3>2. Feed!Deliver(Head(queue))
      BY <1>2, <2>1, <2>3, <3>1, HeadIsNext, Zenon DEF Feed!Deliver
    <3>3. Head(queue) \in 1..MaxBlocks
      <4>1. made \in 0..MaxBlocks /\ taken \in 0..MaxBlocks
        BY Zenon DEF IInv, TypeOK, ReaderOK, LoopOK
      <4> QED BY <1>2, <2>3, <4>1, HeadIsNext
    <3> QED BY <3>2, <3>3, Zenon DEF Feed!FeedNext
  <2> QED BY <2>2, <2>3
<1>3. CASE ~ReadBlock /\ ~Get
  <2>1. UNCHANGED <<made, dropped, taken>>
    BY <1>3, Steps, Zenon DEF Spawn, EndOfAcquisition, Restart, MarkDone, PutSentinel, Begin,
       Take, GetTimeout, AfterTimeout, DirectDone, ResultReady, MeasureOk, MeasureFails, Wake,
       PoolDone, Stop, Die, vars, readerVars
  <2> QED BY <2>1
<1> QED BY <1>1, <1>2, <1>3

\* The reader thread, the queue and the measuring loop implement a lossy feed:
\* order, no duplicate, every loss counted, for any depth and number of blocks.
THEOREM AcquisitionIsLossyFeed == Spec => StreamIsLossyFeed
<1>1. Init => Feed!FeedInit
  BY DEF Init, Feed!FeedInit
<1>2. IInv /\ [Next]_vars => [Feed!FeedNext]_(Feed!feedVars)
  BY StepIsFeedStep
<1> QED BY <1>1, <1>2, AcquisitionInvariant, PTL DEF Spec, StreamIsLossyFeed, Feed!FeedSpec

------------------------------------------------------------------------------
\* The table of a run and its archives.

HIDE AcquisitionAssumption

\* A set of natural numbers that is not empty has a least one.
LEMMA LeastNumber ==
  ASSUME NEW T \in SUBSET Nat, T # {}
  PROVE  \E x \in T : \A y \in T : x <= y
<1>1. \E x \in T : \A y \in T : ~(<<y, x>> \in OpToRel(<, Nat))
  BY NatLessThanWellFounded, WFMin, Zenon
<1>2. PICK x \in T : \A y \in T : ~(<<y, x>> \in OpToRel(<, Nat))
  BY <1>1
<1>3. \A y \in T : ~(y < x)
  BY <1>2 DEF OpToRel
<1> QED BY <1>3

\* The table and the run that writes it: a run without its header has written no
\* row, one with its header is on the clock of the rows that are there.
Recorded ==
  /\ table \in Tables \union {Absent} /\ now \in Int /\ writes \in Nat
  /\ run # Absent =>
       /\ table # Absent
       /\ run.header \in BOOLEAN
       /\ run.header = FALSE => table.rows = <<>>
       /\ run.header = TRUE =>
            /\ run.start \in Int /\ table.head # "older"
            /\ table.head # "dump" =>
                 \A i \in DOMAIN table.rows : table.rows[i].un - table.rows[i].el = run.start
  /\ OneClock
  /\ table # Absent /\ table.head = "older" => \A i \in DOMAIN table.rows : table.rows[i].v = 100

Archives == [name : Int \X Nat, table : Tables]

\* The archives: every table replaced was changed before those that replaced it,
\* every archive is one of them, none is there twice, and the last are all there.
Archived ==
  /\ archives \subseteq Archives /\ IsFiniteSet(archives)
  /\ replaced \in Seq(Tables)
  /\ IF table = Absent THEN archives = {} /\ replaced = <<>>
     ELSE /\ table.changed <= writes
          /\ \A i \in 1..Len(replaced) : replaced[i].changed < table.changed
  /\ \A i, j \in 1..Len(replaced) : i < j => replaced[i].changed < replaced[j].changed
  /\ \A a \in archives : \E i \in 1..Len(replaced) : a.table = replaced[i]
  /\ \A a, b \in archives : a.table = b.table => a = b
  /\ \A i \in 1..Len(replaced) :
       i > Len(replaced) - Keep => \E a \in archives : a.table = replaced[i]

\* The fields of a table, and the rows' times.
LEMMA TableIs ==
  ASSUME NEW t \in Tables
  PROVE  /\ t.head \in Heads /\ t.rows \in Seq(Entries) /\ t.changed \in Nat
         /\ Len(t.rows) \in Nat /\ DOMAIN t.rows = 1..Len(t.rows)
         /\ \A i \in 1..Len(t.rows) : t.rows[i].un \in Int /\ t.rows[i].el \in Int
<1>1. t.head \in Heads /\ t.rows \in Seq(Entries) /\ t.changed \in Nat
  BY DEF Tables
<1>2. Len(t.rows) \in Nat /\ DOMAIN t.rows = 1..Len(t.rows)
  BY <1>1
<1>3. \A i \in 1..Len(t.rows) : t.rows[i] \in Entries
  BY <1>1
<1> QED BY <1>1, <1>2, <1>3 DEF Entries

\* The anchor is that of the first row, if there is one and it has two times.
LEMMA AnchorIs ==
  ASSUME NEW t \in Tables
  PROVE  /\ t.rows = <<>> \/ t.head = "dump" => LoadExisting(t).anchor = Absent
         /\ t.rows # <<>> /\ t.head # "dump"
              => /\ LoadExisting(t).anchor = t.rows[1].un - t.rows[1].el
                 /\ LoadExisting(t).anchor \in Int
<1>1. t # Absent
  BY TableAssumption
<1>2. t.rows # <<>> => t.rows[1].un \in Int /\ t.rows[1].el \in Int
  <2>1. t.rows # <<>> => 1 \in 1..Len(t.rows)
    BY TableIs
  <2> QED BY <2>1, TableIs
<1> QED BY <1>1, <1>2 DEF LoadExisting

\* What a fresh run leaves in the file before its header.
LEMMA EmptyIs ==
  ASSUME NEW n \in Nat
  PROVE  /\ [Empty EXCEPT !.changed = n] \in Tables
         /\ [Empty EXCEPT !.changed = n].rows = <<>>
         /\ [Empty EXCEPT !.changed = n].head = "none"
         /\ [Empty EXCEPT !.changed = n].changed = n
<1>1. [Empty EXCEPT !.changed = n] = [head |-> "none", rows |-> <<>>, changed |-> n]
  BY DEF Empty
<1>2. <<>> \in Seq(Entries)
  OBVIOUS
<1> QED BY <1>1, <1>2 DEF Tables, Heads

\* A table found is one row, on a clock of anchor 0.
LEMMA FoundIs ==
  ASSUME NEW h \in Heads
  PROVE  /\ Found(h) \in Tables /\ Found(h).changed = 0
         /\ \A i \in DOMAIN Found(h).rows :
              /\ Found(h).rows[i].un - Found(h).rows[i].el = 0
              /\ Found(h).rows[i].v = 100
         /\ Found(h).rows # <<>> /\ Found(h).rows[1].un - Found(h).rows[1].el = 0
<1>1. [el |-> 0, un |-> 0, v |-> 100] \in Entries
  BY DEF Entries
<1>2. Found(h) = [head |-> h, rows |-> <<[el |-> 0, un |-> 0, v |-> 100]>>, changed |-> 0]
  BY DEF Found
<1>3. /\ Found(h).head = h /\ Found(h).changed = 0
      /\ Found(h).rows = <<[el |-> 0, un |-> 0, v |-> 100]>>
  BY <1>2
<1>4. Found(h).rows \in Seq(Entries) /\ DOMAIN Found(h).rows = 1..1
  BY <1>1, <1>3
<1>5. Found(h) \in Tables
  BY <1>2, <1>3, <1>4 DEF Tables
<1>6. Found(h).rows[1] = [el |-> 0, un |-> 0, v |-> 100]
  BY <1>3
<1> QED BY <1>3, <1>4, <1>5, <1>6

\* Recorded and Archived at the start, for each file that may be found.
LEMMA RecordedBegins == TableInit => Recorded
<1> SUFFICES ASSUME TableInit PROVE Recorded
  OBVIOUS
<1>1. run = Absent /\ now = 1 /\ writes = 0
  BY DEF TableInit
<1>2. CASE table = Absent
  BY <1>1, <1>2 DEF Recorded, OneClock
<1>3. ASSUME NEW h \in Heads, table = Found(h)
      PROVE  Recorded
  <2>1. table.head # "dump" => LoadExisting(table).anchor = table.rows[1].un - table.rows[1].el
    BY <1>3, FoundIs, AnchorIs
  <2>2. OneClock
    BY <2>1, <1>3, FoundIs DEF OneClock
  <2> QED BY <1>1, <1>3, <2>2, FoundIs DEF Recorded
<1> QED BY <1>2, <1>3 DEF TableInit

LEMMA ArchivedBegins == TableInit => Archived
<1> SUFFICES ASSUME TableInit PROVE Archived
  OBVIOUS
<1>1. archives = {} /\ writes = 0 /\ replaced = <<>> /\ IsFiniteSet({})
  BY FS_EmptySet DEF TableInit
<1>2. table # Absent => table.changed = 0
  BY FoundIs DEF TableInit
<1> QED BY <1>1, <1>2 DEF Archived

\* The name of an archive is new.
LEMMA NameIsNew ==
  ASSUME Archived, NEW stamp \in Int
  PROVE  /\ ArchiveName(stamp) \in Int \X Nat
         /\ \A a \in archives : a.name # ArchiveName(stamp)
<1> DEFINE same == {b \in archives : b.name[1] = stamp}
           numbers == {a.name[2] : a \in same}
           c == Cardinality(archives)
           free == 0..c \ numbers
<1>1. IsFiniteSet(archives) /\ c \in Nat
  BY FS_CardinalityType DEF Archived
<1>2. \A a \in archives : a.name \in Int \X Nat /\ a.name[2] \in Nat
  BY DEF Archived, Archives
<1>3. IsFiniteSet(same) /\ Cardinality(same) <= c /\ Cardinality(same) \in Nat
  BY <1>1, FS_Subset, FS_CardinalityType
<1>4. IsFiniteSet(numbers) /\ Cardinality(numbers) <= Cardinality(same) /\ Cardinality(numbers) \in Nat
  <2> DEFINE num == [a \in same |-> a.name[2]]
  <2>1. num \in Surjection(same, numbers)
    BY DEF Surjection
  <2> QED BY <1>3, <2>1, FS_Surjection, FS_CardinalityType
<1>5. IsFiniteSet(0..c) /\ Cardinality(0..c) = c + 1
  BY <1>1, FS_Interval
<1>6. free # {}
  <2> SUFFICES ASSUME 0..c \subseteq numbers PROVE FALSE
    OBVIOUS
  <2>1. Cardinality(0..c) <= Cardinality(numbers)
    BY <1>4, FS_Subset
  <2> HIDE DEF numbers, c, same
  <2> QED BY <1>1, <1>3, <1>4, <1>5, <2>1
<1>7. Min(free) \in free
  <2>1. free \in SUBSET Nat
    BY <1>1
  <2>2. \E x \in free : \A y \in free : x <= y
    BY <2>1, <1>6, LeastNumber
  <2> QED BY <2>2 DEF Min
<1>8. ArchiveName(stamp) = <<stamp, Min(free)>>
  BY DEF ArchiveName
<1>9. Min(free) \in Nat /\ Min(free) \notin numbers
  BY <1>1, <1>7
<1> HIDE DEF free
<1>10. ASSUME NEW a \in archives, a.name = <<stamp, Min(free)>>
       PROVE  FALSE
  <2>1. a \in same /\ a.name[2] = Min(free)
    BY <1>10
  <2> QED BY <1>9, <2>1
<1> QED BY <1>8, <1>9, <1>10

\* Fewer than Keep archives are younger than one of the tables replaced last.
LEMMA FewAreYounger ==
  ASSUME NEW as \in SUBSET Archives, IsFiniteSet(as), NEW r \in Seq(Tables),
         \A i, j \in 1..Len(r) : i < j => r[i].changed < r[j].changed,
         \A a \in as : \E i \in 1..Len(r) : a.table = r[i],
         \A a, b \in as : a.table = b.table => a = b,
         NEW i \in 1..Len(r), i > Len(r) - Keep
  PROVE  Cardinality({b \in as : b.table.changed > r[i].changed}) < Keep
<1> DEFINE B == {b \in as : b.table.changed > r[i].changed}
           at == [b \in B |-> CHOOSE j \in 1..Len(r) : b.table = r[j]]
<1>1. Len(r) \in Nat /\ Keep \in Nat /\ \A j \in 1..Len(r) : r[j].changed \in Nat
  <2>1. Len(r) \in Nat /\ \A j \in 1..Len(r) : r[j] \in Tables
    OBVIOUS
  <2> QED BY <2>1, TableIs, TableAssumption
<1>2. \A b \in B : at[b] \in 1..Len(r) /\ b.table = r[at[b]]
  OBVIOUS
<1> HIDE DEF at
<1>3. ASSUME NEW b \in B
      PROVE  at[b] \in i + 1..Len(r)
  <2>1. r[at[b]].changed > r[i].changed /\ at[b] \in 1..Len(r)
    BY <1>2
  <2>2. at[b] > i
    BY <1>1, <2>1
  <2> QED BY <1>1, <2>1, <2>2
<1>4. ASSUME NEW b \in B, NEW d \in B, at[b] = at[d]
      PROVE  b = d
  <2>1. b \in as /\ d \in as /\ b.table = d.table
    BY <1>2, <1>4
  <2> QED BY <2>1
<1>5. at \in Injection(B, i + 1..Len(r))
  BY <1>3, <1>4 DEF Injection, at, IsInjective
<1>6. IsFiniteSet(i + 1..Len(r)) /\ Cardinality(i + 1..Len(r)) = Len(r) - i
  <2>1. i \in Int /\ i + 1 \in Int /\ Len(r) \in Int /\ i <= Len(r)
    BY <1>1
  <2>2. /\ IsFiniteSet(i + 1..Len(r))
        /\ Cardinality(i + 1..Len(r)) = IF i + 1 > Len(r) THEN 0 ELSE Len(r) - (i + 1) + 1
    BY <2>1, FS_Interval
  <2> QED BY <2>1, <2>2
<1>7. Cardinality(B) <= Len(r) - i /\ Cardinality(B) \in Nat
  BY <1>5, <1>6, FS_Injection, FS_CardinalityType
<1> QED BY <1>1, <1>7

\* A fresh run begins an empty table.
LEMMA StartFreshRecords == Recorded /\ StartFresh => Recorded'
<1> SUFFICES ASSUME Recorded, StartFresh PROVE Recorded'
  OBVIOUS
<1>1. /\ table' = [Empty EXCEPT !.changed = writes + 1] /\ writes' = writes + 1
      /\ run' = [header |-> FALSE, start |-> Absent] /\ now' = now
  BY DEF StartFresh
<1>2. /\ writes + 1 \in Nat /\ now \in Int
  BY DEF Recorded
<1>3. table' \in Tables /\ table'.rows = <<>> /\ table'.head = "none"
  BY <1>1, <1>2, EmptyIs
<1>4. table' # Absent
  BY <1>3, TableAssumption
<1>5. DOMAIN table'.rows = {}
  BY <1>3
<1>6. OneClock'
  BY <1>5 DEF OneClock
<1>7. run'.header = FALSE
  BY <1>1
<1> QED BY <1>1, <1>2, <1>3, <1>4, <1>5, <1>6, <1>7 DEF Recorded

\* A fresh run archives the table it replaces under a name of its own, and what
\* Retained drops is older than the last Keep.
LEMMA StartFreshArchives == Recorded /\ Archived /\ StartFresh => Archived'
<1> SUFFICES ASSUME Recorded, Archived, StartFresh PROVE Archived'
  OBVIOUS
<1>1. /\ table' = [Empty EXCEPT !.changed = writes + 1] /\ writes' = writes + 1
  BY DEF StartFresh
<1>2. writes + 1 \in Nat /\ writes \in Nat /\ table \in Tables \union {Absent}
  BY DEF Recorded
<1>3. table'.changed = writes + 1 /\ table' # Absent
  BY <1>1, <1>2, EmptyIs, TableAssumption
<1> DEFINE r == replaced
           n == Len(replaced)
<1>4. /\ n \in Nat /\ r \in Seq(Tables) /\ \A i \in 1..n : r[i] \in Tables /\ r[i].changed \in Nat
  <2>1. n \in Nat /\ r \in Seq(Tables) /\ \A i \in 1..n : r[i] \in Tables
    BY DEF Archived
  <2> QED BY <2>1, TableIs
<1>5. CASE UNCHANGED <<archives, replaced>>
  <2>1. \A i \in 1..n : r[i].changed < writes + 1
    <3>1. CASE table = Absent
      <4>1. n = 0
        BY <3>1 DEF Archived
      <4> QED BY <4>1
    <3>2. CASE table # Absent
      <4>1. table.changed \in Nat
        BY <1>2, <3>2, TableIs
      <4> QED BY <1>2, <1>4, <3>2, <4>1 DEF Archived
    <3> QED BY <3>1, <3>2
  <2>2. archives' = archives /\ replaced' = replaced
    BY <1>5
  <2>3. table'.changed <= writes'
    BY <1>1, <1>2, <1>3
  <2> QED BY <1>3, <2>1, <2>2, <2>3 DEF Archived
<1>6. ASSUME table # Absent,
             archives' = Retained({a \in archives : a.name # ArchiveName(now)}
                                    \union {[name |-> ArchiveName(now), table |-> table]}),
             replaced' = Append(replaced, table)
      PROVE  Archived'
  <2> DEFINE new == [name |-> ArchiveName(now), table |-> table]
             as == archives \union {new}
             s == Append(replaced, table)
  <2>1. table \in Tables /\ table.changed \in Nat /\ table.changed <= writes
    BY <1>2, <1>6, TableIs DEF Archived
  <2>2. /\ ArchiveName(now) \in Int \X Nat
        /\ {a \in archives : a.name # ArchiveName(now)} = archives
    BY NameIsNew DEF Recorded
  <2>3. archives' = Retained(as)
    BY <1>6, <2>2
  <2>4. as \in SUBSET Archives /\ IsFiniteSet(as)
    <3>1. new \in Archives
      BY <2>1, <2>2 DEF Archives
    <3> QED BY <3>1, FS_AddElement DEF Archived
  <2>5. /\ s \in Seq(Tables) /\ Len(s) = n + 1 /\ s[n + 1] = table
        /\ \A i \in 1..n : s[i] = r[i]
    BY <1>4, <2>1
  <2>6. \A i \in 1..n : r[i].changed < table.changed
    BY <1>6 DEF Archived
  <2>7. \A i, j \in 1..n : i < j => r[i].changed < r[j].changed
    BY DEF Archived
  <2>8. \A a \in archives : \E i \in 1..n : a.table = r[i]
    BY DEF Archived
  <2>9. \A a, b \in archives : a.table = b.table => a = b
    BY DEF Archived
  <2>10. \A i \in 1..n : i > n - Keep => \E a \in archives : a.table = r[i]
    BY DEF Archived
  <2> HIDE DEF s, n, r
  <2>11. \A i, j \in 1..Len(s) : i < j => s[i].changed < s[j].changed
    <3> SUFFICES ASSUME NEW i \in 1..Len(s), NEW j \in 1..Len(s), i < j
                 PROVE  s[i].changed < s[j].changed
      OBVIOUS
    <3>1. i \in 1..n
      BY <1>4, <2>5
    <3>2. CASE j \in 1..n
      BY <3>1, <3>2, <2>5, <2>7
    <3>3. CASE j = n + 1
      BY <3>1, <3>3, <2>5, <2>6
    <3> QED BY <1>4, <2>5, <3>2, <3>3
  <2>12. \A a \in as : \E i \in 1..Len(s) : a.table = s[i]
    <3> SUFFICES ASSUME NEW a \in as PROVE \E i \in 1..Len(s) : a.table = s[i]
      OBVIOUS
    <3>1. CASE a \in archives
      BY <3>1, <1>4, <2>5, <2>8
    <3>2. CASE a = new
      <4>1. a.table = s[n + 1] /\ n + 1 \in 1..Len(s)
        BY <3>2, <1>4, <2>5
      <4> QED BY <4>1
    <3> QED BY <3>1, <3>2
  <2>13. \A a \in archives : a.table # table
    <3> SUFFICES ASSUME NEW a \in archives, a.table = table PROVE FALSE
      OBVIOUS
    <3>1. PICK i \in 1..n : table = r[i]
      BY <2>8
    <3> QED BY <3>1, <2>1, <2>6
  <2>14. \A a, b \in as : a.table = b.table => a = b
    BY <2>9, <2>13
  <2>15. archives' \subseteq as
    BY <2>3 DEF Retained
  <2>16. IsFiniteSet(archives')
    BY <2>4, <2>15, FS_Subset
  <2>17. ASSUME NEW i \in 1..Len(s), i > Len(s) - Keep
         PROVE  \E a \in archives' : a.table = s[i]
    <3>1. \E a \in as : a.table = s[i]
      <4>1. CASE i = n + 1
        <5>1. new \in as /\ new.table = table
          OBVIOUS
        <5> QED BY <4>1, <5>1, <2>5
      <4>2. CASE i \in 1..n
        <5>1. i > n - Keep
          BY <2>17, <2>5, <1>4, <4>2, TableAssumption
        <5> QED BY <5>1, <4>2, <2>5, <2>10
      <4> QED BY <4>1, <4>2, <1>4, <2>5
    <3>2. PICK a \in as : a.table = s[i]
      BY <3>1
    <3>3. Cardinality({b \in as : b.table.changed > s[i].changed}) < Keep
      BY <2>17, <2>4, <2>5, <2>11, <2>12, <2>14, FewAreYounger
    <3>4. a \in archives'
      BY <2>3, <3>2, <3>3 DEF Retained
    <3> QED BY <3>2, <3>4
  <2>18. \A i \in 1..Len(s) : s[i].changed < table'.changed
    <3> SUFFICES ASSUME NEW i \in 1..Len(s) PROVE s[i].changed < writes + 1
      BY <1>3
    <3>1. s[i].changed \in Nat /\ s[i].changed <= table.changed
      <4>1. CASE i = n + 1
        BY <4>1, <2>1, <2>5
      <4>2. CASE i \in 1..n
        BY <4>2, <1>4, <2>1, <2>5, <2>6
      <4> QED BY <4>1, <4>2, <1>4, <2>5
    <3> QED BY <3>1, <2>1, <1>2
  <2>19. replaced' = s
    BY <1>6 DEF s
  <2> HIDE DEF as
  <2>20. archives' \subseteq Archives
    BY <2>4, <2>15
  <2>21. table'.changed <= writes'
    BY <1>1, <1>2, <1>3
  <2>22. \A a \in archives' : \E i \in 1..Len(s) : a.table = s[i]
    BY <2>12, <2>15
  <2>23. \A a, b \in archives' : a.table = b.table => a = b
    BY <2>14, <2>15
  <2> QED BY <1>3, <2>5, <2>11, <2>16, <2>17, <2>18, <2>19, <2>20, <2>21, <2>22, <2>23
         DEF Archived
<1>7. \/ UNCHANGED <<archives, replaced>>
      \/ /\ table # Absent
         /\ archives' = Retained({a \in archives : a.name # ArchiveName(now)}
                                   \union {[name |-> ArchiveName(now), table |-> table]})
         /\ replaced' = Append(replaced, table)
  BY DEF StartFresh
<1> QED BY <1>5, <1>6, <1>7

\* The table with its header, and with one more row.
LEMMA HeaderIs ==
  ASSUME NEW t \in Tables, NEW n \in Nat
  PROVE  LET u == [t EXCEPT !.head = "today", !.changed = n]
         IN  u \in Tables /\ u.head = "today" /\ u.rows = t.rows /\ u.changed = n
BY DEF Tables, Heads

LEMMA RowIs ==
  ASSUME NEW t \in Tables, NEW n \in Nat, NEW e \in Entries
  PROVE  LET u == [t EXCEPT !.rows = Append(@, e), !.changed = n]
         IN  /\ u \in Tables /\ u.head = t.head /\ u.rows = Append(t.rows, e)
             /\ u.changed = n
<1>1. t.rows \in Seq(Entries)
  BY DEF Tables
<1>2. ASSUME NEW r \in Seq(Entries)
      PROVE  LET u == [t EXCEPT !.rows = r, !.changed = n]
             IN  u \in Tables /\ u.head = t.head /\ u.rows = r /\ u.changed = n
  BY DEF Tables
<1>3. Append(t.rows, e) \in Seq(Entries)
  BY <1>1
<1> QED BY <1>2, <1>3

\* A run appended to a table counts from its anchor.
LEMMA StartAppendRecords == Recorded /\ StartAppend => Recorded'
<1> SUFFICES ASSUME Recorded, StartAppend PROVE Recorded'
  OBVIOUS
<1>1. /\ table' = IF table = Absent THEN [Empty EXCEPT !.changed = writes + 1] ELSE table
      /\ writes' = IF table = Absent THEN writes + 1 ELSE writes
      /\ run' = [header |-> table # Absent,
                 start |-> IF table = Absent THEN Absent ELSE AppendStart(table)]
      /\ now' = now /\ ~Refused(table, TRUE)
  BY DEF StartAppend
<1>2. writes \in Nat /\ now \in Int /\ table \in Tables \union {Absent}
  BY DEF Recorded
<1>3. CASE table = Absent
  <2>1. table' = [Empty EXCEPT !.changed = writes + 1] /\ writes' = writes + 1
    BY <1>1, <1>3
  <2>2. table' \in Tables /\ table'.rows = <<>> /\ table'.head = "none"
    <3>1. writes + 1 \in Nat
      BY <1>2
    <3> QED BY <2>1, <3>1, EmptyIs
  <2>3. table' # Absent /\ DOMAIN table'.rows = {}
    BY <2>2, TableAssumption
  <2>4. OneClock'
    BY <2>3 DEF OneClock
  <2>5. run'.header = FALSE
    BY <1>1, <1>3
  <2>6. now' \in Int /\ writes' \in Nat
    BY <1>1, <1>2, <2>1
  <2> QED BY <2>2, <2>3, <2>4, <2>5, <2>6 DEF Recorded
<1>4. CASE table # Absent
  <2>1. table' = table /\ writes' = writes
    BY <1>1, <1>4
  <2>2. run'.header = TRUE /\ run'.start = AppendStart(table)
    BY <1>1, <1>4
  <2>3. table \in Tables /\ table.head # "older"
    BY <1>1, <1>2, <1>4 DEF Refused
  <2>4. AppendStart(table) \in Int
    BY <1>2, <2>3, AnchorIs DEF AppendStart
  <2>5. table.head # "dump" =>
          \A i \in DOMAIN table.rows : table.rows[i].un - table.rows[i].el = AppendStart(table)
    <3> SUFFICES ASSUME table.head # "dump", NEW i \in DOMAIN table.rows
                 PROVE  table.rows[i].un - table.rows[i].el = AppendStart(table)
      OBVIOUS
    <3>1. table.rows # <<>>
      OBVIOUS
    <3>2. LoadExisting(table).anchor \in Int
      BY <2>3, <3>1, AnchorIs
    <3>3. AppendStart(table) = LoadExisting(table).anchor
      BY <3>2, TableAssumption DEF AppendStart
    <3> QED BY <1>4, <3>3 DEF Recorded, OneClock
  <2>6. OneClock'
    BY <2>1 DEF Recorded, OneClock
  <2> QED BY <1>1, <1>2, <1>4, <2>1, <2>2, <2>3, <2>4, <2>5, <2>6 DEF Recorded
<1> QED BY <1>3, <1>4

\* The header is written to a file without rows.
LEMMA WriteHeaderRecords == Recorded /\ WriteHeader => Recorded'
<1> SUFFICES ASSUME Recorded, WriteHeader PROVE Recorded'
  OBVIOUS
<1>1. /\ run # Absent /\ ~run.header
      /\ table' = [table EXCEPT !.head = "today", !.changed = writes + 1] /\ writes' = writes + 1
      /\ run' = [header |-> TRUE, start |-> now] /\ now' = now
  BY DEF WriteHeader
<1>2. /\ writes \in Nat /\ now \in Int /\ table \in Tables
      /\ run.header = FALSE
  BY <1>1 DEF Recorded
<1>3. table.rows = <<>>
  BY <1>1, <1>2 DEF Recorded
<1>4. table' \in Tables /\ table'.head = "today" /\ table'.rows = <<>>
  <2>1. writes + 1 \in Nat
    BY <1>2
  <2> QED BY <1>1, <1>2, <1>3, <2>1, HeaderIs
<1>5. table' # Absent /\ DOMAIN table'.rows = {}
  BY <1>4, TableAssumption
<1>6. OneClock'
  BY <1>5 DEF OneClock
<1>7. run'.header = TRUE /\ run'.start = now
  BY <1>1
<1> QED BY <1>1, <1>2, <1>4, <1>5, <1>6, <1>7 DEF Recorded

\* A row is on the clock of the run, which is that of the table.
LEMMA WriteRowRecords == Recorded /\ WriteRow => Recorded'
<1> SUFFICES ASSUME Recorded, WriteRow PROVE Recorded'
  OBVIOUS
<1> DEFINE e == [el |-> now - run.start, un |-> now, v |-> 200 + writes]
<1>1. /\ run # Absent /\ run.header
      /\ table' = [table EXCEPT !.rows = Append(@, e), !.changed = writes + 1]
      /\ writes' = writes + 1 /\ run' = run /\ now' = now
  BY DEF WriteRow
<1>2. writes \in Nat /\ now \in Int /\ table \in Tables /\ run.header = TRUE
  BY <1>1 DEF Recorded
<1>3. run.start \in Int /\ table.head # "older"
  BY <1>1, <1>2 DEF Recorded
<1>4. e \in Entries /\ e.un - e.el = run.start
  BY <1>2, <1>3 DEF Entries
<1> HIDE DEF e
<1>5. table.rows \in Seq(Entries) /\ Len(table.rows) \in Nat
  BY <1>2, TableIs
<1>6. table' \in Tables /\ table'.head = table.head /\ table'.rows = Append(table.rows, e)
  <2>1. writes + 1 \in Nat
    BY <1>2
  <2> QED BY <1>1, <1>2, <1>4, <2>1, RowIs
<1>7. table' # Absent
  BY <1>6, TableAssumption
<1>8. /\ DOMAIN table'.rows = 1..Len(table.rows) + 1
      /\ \A i \in 1..Len(table.rows) : table'.rows[i] = table.rows[i]
      /\ table'.rows[Len(table.rows) + 1] = e
      /\ table'.rows # <<>>
  BY <1>4, <1>5, <1>6
<1>9. table.head # "dump" =>
        \A i \in DOMAIN table'.rows : table'.rows[i].un - table'.rows[i].el = run.start
  <2> SUFFICES ASSUME table.head # "dump", NEW i \in DOMAIN table'.rows
               PROVE  table'.rows[i].un - table'.rows[i].el = run.start
    OBVIOUS
  <2>1. CASE i \in 1..Len(table.rows)
    <3>1. table.rows[i].un - table.rows[i].el = run.start
      BY <1>1, <1>2, <1>5, <2>1 DEF Recorded
    <3> QED BY <1>8, <2>1, <3>1
  <2>2. CASE i = Len(table.rows) + 1
    BY <1>4, <1>8, <2>2
  <2> QED BY <1>5, <1>8, <2>1, <2>2
<1>10. OneClock'
  <2> SUFFICES ASSUME table'.head # "dump", NEW i \in DOMAIN table'.rows
               PROVE  table'.rows[i].un - table'.rows[i].el = LoadExisting(table').anchor
    BY DEF OneClock
  <2>1. LoadExisting(table').anchor = table'.rows[1].un - table'.rows[1].el
    BY <1>6, <1>8, AnchorIs
  <2>2. 1 \in DOMAIN table'.rows
    BY <1>5, <1>8
  <2> QED BY <1>6, <1>9, <2>1, <2>2
<1>11. run' = run /\ table'.head # "older" /\ now' \in Int /\ writes' \in Nat
  BY <1>1, <1>2, <1>3, <1>6
<1>12. run'.header = TRUE /\ run'.start \in Int /\ (table'.head # "dump" =>
         \A i \in DOMAIN table'.rows : table'.rows[i].un - table'.rows[i].el = run'.start)
  BY <1>2, <1>3, <1>6, <1>9, <1>11
<1> HIDE DEF e
<1> QED BY <1>6, <1>7, <1>10, <1>11, <1>12 DEF Recorded

\* Ends, kills and the wall clock leave the table as it is.
LEMMA OthersRecord == Recorded /\ (End \/ Tick \/ UNCHANGED tableVars) => Recorded'
<1>1. Recorded /\ End => Recorded'
  BY DEF Recorded, End, OneClock
<1>2. Recorded /\ Tick => Recorded'
  BY DEF Recorded, Tick, OneClock
<1>3. Recorded /\ UNCHANGED tableVars => Recorded'
  BY DEF Recorded, OneClock, tableVars
<1> QED BY <1>1, <1>2, <1>3

\* A table that is written to, or begun, is younger than all that were replaced.
LEMMA YoungerArchives ==
  ASSUME Archived, Recorded, UNCHANGED <<archives, replaced>>,
         \/ UNCHANGED <<table, writes>>
         \/ table' # Absent /\ table'.changed = writes + 1 /\ writes' = writes + 1
  PROVE  Archived'
<1>1. CASE UNCHANGED <<table, writes>>
  BY <1>1 DEF Archived
<1>2. CASE table' # Absent /\ table'.changed = writes + 1 /\ writes' = writes + 1
  <2>1. writes \in Nat /\ Len(replaced) \in Nat
        /\ \A i \in 1..Len(replaced) : replaced[i].changed \in Nat
    <3>1. writes \in Nat /\ Len(replaced) \in Nat /\ \A i \in 1..Len(replaced) : replaced[i] \in Tables
      BY DEF Archived, Recorded
    <3> QED BY <3>1, TableIs
  <2>2. \A i \in 1..Len(replaced) : replaced[i].changed < writes + 1
    <3>1. CASE table = Absent
      <4>1. Len(replaced) = 0
        BY <3>1 DEF Archived
      <4> QED BY <4>1
    <3>2. CASE table # Absent
      <4>1. table.changed \in Nat
        BY <3>2, TableIs DEF Recorded
      <4> QED BY <2>1, <3>2, <4>1 DEF Archived
    <3> QED BY <3>1, <3>2
  <2>3. archives' = archives /\ replaced' = replaced /\ table'.changed <= writes'
    BY <1>2, <2>1
  <2> QED BY <1>2, <2>2, <2>3 DEF Archived
<1> QED BY <1>1, <1>2

\* Only a fresh run touches the archives.
LEMMA OthersArchive ==
  Recorded /\ Archived
    /\ (StartAppend \/ WriteHeader \/ WriteRow \/ End \/ Tick \/ UNCHANGED tableVars) => Archived'
<1> SUFFICES ASSUME Recorded, Archived,
                    StartAppend \/ WriteHeader \/ WriteRow \/ End \/ Tick \/ UNCHANGED tableVars
             PROVE  Archived'
  OBVIOUS
<1>1. CASE StartAppend
  <2>1. UNCHANGED <<archives, replaced>>
    BY <1>1 DEF StartAppend
  <2>2. CASE table = Absent
    <3>1. table' = [Empty EXCEPT !.changed = writes + 1] /\ writes' = writes + 1
      BY <1>1, <2>2 DEF StartAppend
    <3>2. writes + 1 \in Nat
      BY DEF Recorded
    <3>3. table' # Absent /\ table'.changed = writes + 1
      BY <3>1, <3>2, EmptyIs, TableAssumption
    <3> QED BY <2>1, <3>1, <3>3, YoungerArchives
  <2>3. CASE table # Absent
    <3>1. UNCHANGED <<table, writes>>
      BY <1>1, <2>3 DEF StartAppend
    <3> QED BY <2>1, <3>1, YoungerArchives
  <2> QED BY <2>2, <2>3
<1>2. CASE WriteHeader
  <2>1. /\ UNCHANGED <<archives, replaced>> /\ writes' = writes + 1
        /\ table' = [table EXCEPT !.head = "today", !.changed = writes + 1]
    BY <1>2 DEF WriteHeader
  <2>2. table \in Tables
    BY <1>2 DEF WriteHeader, Recorded
  <2>3. table' \in Tables /\ table'.changed = writes + 1
    <3>1. writes + 1 \in Nat
      BY DEF Recorded
    <3> QED BY <2>1, <2>2, <3>1, HeaderIs
  <2> QED BY <2>1, <2>3, YoungerArchives, TableAssumption
<1>3. CASE WriteRow
  <2>1. UNCHANGED <<archives, replaced>> /\ writes' = writes + 1
    BY <1>3 DEF WriteRow
  <2>2. table \in Tables
    BY <1>3 DEF WriteRow, Recorded
  <2>3. table'.changed = writes + 1
    BY <1>3, <2>2 DEF WriteRow, Tables
  <2>4. table' # Absent
    <3>1. Recorded'
      BY <1>3, WriteRowRecords
    <3>2. run' # Absent
      BY <1>3 DEF WriteRow
    <3> QED BY <3>1, <3>2 DEF Recorded
  <2> QED BY <2>1, <2>3, <2>4, YoungerArchives
<1>4. CASE End \/ Tick \/ UNCHANGED tableVars
  <2>1. UNCHANGED <<table, writes, archives, replaced>>
    BY <1>4 DEF End, Tick, tableVars
  <2> QED BY <2>1, YoungerArchives
<1> QED BY <1>1, <1>2, <1>3, <1>4

\* Both parts are inductive.
LEMMA RecordedKept == Recorded /\ [TableNext]_tableVars => Recorded'
BY StartFreshRecords, StartAppendRecords, WriteHeaderRecords, WriteRowRecords, OthersRecord
   DEF TableNext

LEMMA ArchivedKept == Recorded /\ Archived /\ [TableNext]_tableVars => Archived'
BY StartFreshArchives, OthersArchive DEF TableNext

\* A table on one clock and of one layout reads back as it was written.
LEMMA RecordedReadsBack == Recorded => ReadsBack
<1> SUFFICES ASSUME Recorded, table # Absent, table.head # "dump"
             PROVE  /\ LoadExisting(table).ys = [i \in DOMAIN table.rows |-> table.rows[i].v]
                    /\ table.head = "today" => Len(LoadColumn(table)) = Len(table.rows)
                    /\ table.head = "older" => \A i \in DOMAIN table.rows : table.rows[i].v = 100
  BY DEF ReadsBack
<1>1. /\ table \in Tables /\ Len(table.rows) \in Nat /\ DOMAIN table.rows = 1..Len(table.rows)
  BY TableIs DEF Recorded
<1>2. LoadExisting(table).ys = [i \in DOMAIN table.rows |-> table.rows[i].v]
  <2>1. CASE table.rows = <<>>
    <3>1. LoadExisting(table).ys = <<>> /\ DOMAIN table.rows = {}
      BY <2>1 DEF LoadExisting
    <3>2. [i \in {} |-> table.rows[i].v] = <<>>
      OBVIOUS
    <3> QED BY <3>1, <3>2
  <2>2. CASE table.rows # <<>>
    BY <2>2 DEF LoadExisting
  <2> QED BY <2>1, <2>2
<1>3. table.head = "today" => Len(LoadColumn(table)) = Len(table.rows)
  <2> SUFFICES ASSUME table.head = "today" PROVE Len(LoadColumn(table)) = Len(table.rows)
    OBVIOUS
  <2>1. LoadColumn(table)
          = [i \in 1..Len(table.rows) |-> <<table.rows[i].el, table.rows[i].v>>]
    BY <1>1 DEF LoadColumn
  <2> QED BY <1>1, <2>1
<1>4. table.head = "older" => \A i \in DOMAIN table.rows : table.rows[i].v = 100
  BY DEF Recorded
<1> QED BY <1>2, <1>3, <1>4

\* What a run recorded is read back as it was, on one clock, and kept while it is
\* recent, through any number of fresh starts, appends and kills (load_existing,
\* archive and the writer of i2s-skew.py).
THEOREM TableKeepsRuns == TableSpec => []RunsAreKept
<1>1. TableInit => Recorded /\ Archived
  BY RecordedBegins, ArchivedBegins
<1>2. Recorded /\ Archived /\ [TableNext]_tableVars => (Recorded /\ Archived)'
  BY RecordedKept, ArchivedKept
<1>3. Recorded /\ Archived => RunsAreKept
  <2> SUFFICES ASSUME Recorded, Archived PROVE RunsAreKept
    OBVIOUS
  <2>1. OneClock
    BY DEF Recorded
  <2>2. RecentRunsSurvive
    <3>1. DOMAIN replaced = 1..Len(replaced)
      BY DEF Archived
    <3> QED BY <3>1 DEF RecentRunsSurvive, Archived
  <2> QED BY <2>1, <2>2, RecordedReadsBack DEF RunsAreKept
<1> QED BY <1>1, <1>2, <1>3, PTL DEF TableSpec

------------------------------------------------------------------------------
\* The gates of a measured offset.

\* How many values sorting puts before one of a history.
LEMMA BeforeIs ==
  ASSUME NEW h \in Seq(Int), NEW i \in DOMAIN h
  PROVE  /\ Before(h, i) \subseteq (1..Len(h)) \ {i} /\ IsFiniteSet(Before(h, i))
         /\ Cardinality(Before(h, i)) \in 0..Len(h) - 1
<1>1. Len(h) \in Nat /\ DOMAIN h = 1..Len(h) /\ h[i] \in Int /\ i \in 1..Len(h)
  OBVIOUS
<1>2. Before(h, i) \subseteq (1..Len(h)) \ {i}
  BY <1>1 DEF Before
<1> DEFINE n == Len(h)
<1>3. IsFiniteSet(1..n) /\ Cardinality(1..n) = n
  <2>1. n \in Int /\ 1 <= n
    BY <1>1
  <2> HIDE DEF n
  <2> QED BY <2>1, FS_Interval
<1>4. IsFiniteSet((1..n) \ {i}) /\ Cardinality((1..n) \ {i}) = n - 1
  <2>1. i \in 1..n
    BY <1>1
  <2> HIDE DEF n
  <2> QED BY <1>3, <2>1, FS_RemoveElement
<1>5. /\ IsFiniteSet(Before(h, i))
      /\ Cardinality(Before(h, i)) <= Len(h) - 1
  BY <1>2, <1>4, FS_Subset
<1>6. Cardinality(Before(h, i)) \in Nat
  BY <1>5, FS_CardinalityType
<1> QED BY <1>1, <1>2, <1>5, <1>6

\* No two places of a history have the same number of values before them.
LEMMA PlacesDiffer ==
  ASSUME NEW h \in Seq(Int), NEW i \in DOMAIN h, NEW j \in DOMAIN h, i # j
  PROVE  Cardinality(Before(h, i)) # Cardinality(Before(h, j))
<1>1. ASSUME NEW a \in DOMAIN h, NEW b \in DOMAIN h, a \in Before(h, b)
      PROVE  Cardinality(Before(h, a)) < Cardinality(Before(h, b))
  <2>1. /\ Len(h) \in Nat /\ DOMAIN h = 1..Len(h)
        /\ \A c \in DOMAIN h : h[c] \in Int /\ c \in Int
    OBVIOUS
  <2>2. Before(h, a) \subseteq Before(h, b) /\ a \notin Before(h, a)
    BY <1>1, <2>1 DEF Before
  <2>3. IsFiniteSet(Before(h, b)) /\ IsFiniteSet(Before(h, a))
    BY BeforeIs
  <2>4. /\ Cardinality(Before(h, a)) <= Cardinality(Before(h, b))
        /\ Cardinality(Before(h, a)) = Cardinality(Before(h, b)) => Before(h, a) = Before(h, b)
    BY <2>2, <2>3, FS_Subset
  <2>5. Cardinality(Before(h, a)) \in Int /\ Cardinality(Before(h, b)) \in Int
    BY BeforeIs
  <2> QED BY <1>1, <2>2, <2>4, <2>5
<1>2. i \in Before(h, j) \/ j \in Before(h, i)
  <2>1. h[i] \in Int /\ h[j] \in Int /\ i \in Int /\ j \in Int
    OBVIOUS
  <2> QED BY <2>1 DEF Before
<1>3. Cardinality(Before(h, i)) \in Int /\ Cardinality(Before(h, j)) \in Int
  BY BeforeIs
<1> QED BY <1>1, <1>2, <1>3

\* The median of a history that is not empty is one of its values.
LEMMA MedianIsIn ==
  ASSUME NEW h \in Seq(Int), h # <<>>
  PROVE  \E i \in DOMAIN h : MedianOf(h) = h[i]
<1> DEFINE n == Len(h)
           place == [i \in 1..n |-> Cardinality(Before(h, i))]
<1>1. n \in Nat \ {0} /\ DOMAIN h = 1..n
  OBVIOUS
<1>2. \A i \in 1..n : place[i] \in 0..n - 1
  BY <1>1, BeforeIs
<1>3. \A i, j \in 1..n : i # j => place[i] # place[j]
  BY <1>1, PlacesDiffer
<1>4. /\ IsFiniteSet(1..n) /\ Cardinality(1..n) = n
      /\ IsFiniteSet(0..n - 1) /\ Cardinality(0..n - 1) = n
  <2>1. n \in Int /\ n - 1 \in Int /\ 1 <= n
    BY <1>1
  <2> HIDE DEF n
  <2>2. IsFiniteSet(1..n) /\ Cardinality(1..n) = n
    BY <2>1, FS_Interval
  <2>3. IsFiniteSet(0..n - 1) /\ Cardinality(0..n - 1) = n
    BY <2>1, FS_Interval
  <2> QED BY <2>2, <2>3
<1>5. place \in Injection(1..n, 0..n - 1)
  BY <1>2, <1>3 DEF Injection, IsInjective
<1>6. place \in Surjection(1..n, 0..n - 1)
  <2> HIDE DEF place, n
  <2> QED BY <1>4, <1>5, FS_Injection
<1>7. n \div 2 \in 0..n - 1
  BY <1>1
<1>8. \E i \in 1..n : place[i] = n \div 2
  <2> HIDE DEF place
  <2> QED BY <1>6, <1>7 DEF Surjection
<1>9. \E i \in DOMAIN h : Cardinality(Before(h, i)) = n \div 2
  BY <1>1, <1>8
<1> QED BY <1>9 DEF MedianOf

\* Whole frames are rounded to themselves.
LEMMA FramesRound ==
  ASSUME NEW d \in Int
  PROVE  RoundFrames(d * Frame) = d
<1>1. Frame \in Int /\ Frame > 0
  BY GateAssumption
<1>2. ASSUME NEW b \in Int, b > 0, NEW q \in Int, NEW r \in Int, 0 <= r, r < b
      PROVE  (q * b + r) \div b = q
  BY <1>2
<1>3. 2 * (d * Frame) + Frame = d * (2 * Frame) + Frame
  BY <1>1
<1> DEFINE b == 2 * Frame
<1>4. b \in Int /\ b > 0 /\ Frame < b
  BY <1>1
<1>5. (d * b + Frame) \div b = d
  <2> HIDE DEF b
  <2> QED BY <1>1, <1>2, <1>4
<1> QED BY <1>3, <1>5 DEF RoundFrames

\* A preferred lag, and all that is kept, comes with the lag of a row before.
GateInv == GateTypeOK /\ (prefer # None => k # None)

\* The bounded histories.
LEMMA PushIs ==
  ASSUME NEW T, NEW h \in Seq(T), Len(h) <= Window, NEW x \in T
  PROVE  Push(h, x) \in Seq(T) /\ Len(Push(h, x)) <= Window /\ Push(h, x) # <<>>
<1>1. Window \in Nat \ {0} /\ Len(h) \in Nat
  BY GateAssumption
<1>2. CASE Len(h) < Window
  BY <1>1, <1>2 DEF Push
<1>3. CASE ~(Len(h) < Window)
  <2>1. h # <<>>
    BY <1>1, <1>3
  <2>2. Tail(h) \in Seq(T) /\ Len(Tail(h)) = Len(h) - 1
    BY <2>1
  <2>3. Push(h, x) = Append(Tail(h), x)
    BY <1>3 DEF Push
  <2>4. Append(Tail(h), x) \in Seq(T) /\ Len(Append(Tail(h), x)) = Len(h)
    BY <1>1, <2>2
  <2> QED BY <1>1, <2>3, <2>4
<1> QED BY <1>2, <1>3

\* An offset is rebuilt by whole frames, and wrapped by whole frames.
LEMMA RebuiltByFrames ==
  ASSUME GateInv, NEW off \in Int
  PROVE  \E c \in Int : Rebuilt(off) = off + c * Frame
<1>1. Picked \subseteq Int /\ None \notin Int /\ Frame \in Int
  BY GateAssumption
<1>2. CASE prefer # None /\ Near(k, prefer) <= RebuildMax
  <2>1. prefer \in Int /\ k \in Int
    BY <1>1, <1>2 DEF GateInv, GateTypeOK
  <2>2. prefer - k \in Int /\ Rebuilt(off) = off + (prefer - k) * Frame
    BY <1>2, <2>1 DEF Rebuilt
  <2> QED BY <2>2
<1>3. CASE ~(prefer # None /\ Near(k, prefer) <= RebuildMax)
  <2>1. Rebuilt(off) = off /\ off = off + 0 * Frame
    BY <1>1, <1>3 DEF Rebuilt
  <2> QED BY <2>1
<1> QED BY <1>2, <1>3

\* It is of the kind of those values.
LEMMA MedianIsInt ==
  ASSUME NEW T \in SUBSET Int, NEW h \in Seq(T), h # <<>>
  PROVE  MedianOf(h) \in T
<1>1. h \in Seq(Int)
  BY SeqMonotonic
<1>2. PICK i \in DOMAIN h : MedianOf(h) = h[i]
  BY <1>1, MedianIsIn
<1> QED BY <1>2

\* The wrap gives a number, whatever the reference.
LEMMA WrappedIsInt ==
  ASSUME GateInv, NEW off \in Int
  PROVE  Wrapped(off) \in Int
<1>1. Frame \in Nat \ {0}
  BY GateAssumption
<1>2. refHist # <<>> => MedianOf(refHist) \in Int
  BY MedianIsInt DEF GateInv, GateTypeOK
<1> DEFINE ref == MedianOf(refHist)
           cand == RoundFrames(ref - off)
<1>3. ASSUME ref \in Int
      PROVE  cand \in Int
  <2>1. 2 * (ref - off) + Frame \in Int /\ 2 * Frame \in Int /\ 2 * Frame > 0
    BY <1>1, <1>3
  <2> HIDE DEF ref
  <2> QED BY <2>1 DEF RoundFrames
<1>4. ASSUME ref \in Int
      PROVE  off + cand * Frame \in Int
  <2> HIDE DEF cand, ref
  <2> QED BY <1>1, <1>3, <1>4
<1>5. Wrapped(off) = IF refHist # <<>> /\ 10 * Near(off + cand * Frame, ref) < 3 * Frame
                     THEN off + cand * Frame ELSE off
  BY DEF Wrapped
<1> HIDE DEF cand, ref
<1>6. CASE refHist # <<>>
  <2>1. off + cand * Frame \in Int
    BY <1>2, <1>4, <1>6 DEF ref
  <2> QED BY <1>5, <2>1
<1>7. CASE refHist = <<>>
  BY <1>5, <1>7
<1> QED BY <1>6, <1>7

\* While the reference is true, whole frames off are wrapped back to the truth.
LEMMA WrappedIsTrue ==
  ASSUME GateInv, AnchorTrue, NEW c \in Int
  PROVE  Wrapped(Skew + c * Frame) = Skew
<1>1. Frame \in Nat \ {0} /\ Sub \in Int /\ lag \in Int
  BY GateAssumption DEF GateInv, GateTypeOK
<1>2. Skew \in Int
  <2>1. lag * Frame \in Int
    BY <1>1
  <2> QED BY <1>1, <2>1 DEF Skew
<1> DEFINE s == Skew
           off == s + c * Frame
<1>3. refHist # <<>> /\ MedianOf(refHist) = s
  BY DEF AnchorTrue
<1> HIDE DEF s
<1>4. s \in Int
  BY <1>2 DEF s
<1>5. s - off = (-c) * Frame /\ -c \in Int
  BY <1>1, <1>4
<1>6. RoundFrames(s - off) = -c
  BY <1>5, FramesRound
<1>7. off + (-c) * Frame = s
  BY <1>1, <1>4
<1>8. 10 * Near(s, s) < 3 * Frame
  BY <1>1, <1>4 DEF Near
<1>9. Wrapped(off) = off + (-c) * Frame
  BY <1>3, <1>6, <1>7, <1>8 DEF Wrapped
<1> QED BY <1>7, <1>9 DEF s

\* What is measured is the truth and whole frames, none for the true lag.
LEMMA MeasuredIs ==
  ASSUME GateInv, NEW pick \in Picked
  PROVE  /\ Measured(pick) \in Int /\ Measured(lag) = Skew /\ pick \in Int /\ Skew \in Int
         /\ \E c \in Int : Measured(pick) = Skew + c * Frame
<1>1. Frame \in Int /\ Sub \in Int /\ lag \in Int /\ pick \in Int
  BY GateAssumption DEF GateInv, GateTypeOK
<1>2. Skew \in Int /\ (pick - lag) * Frame \in Int /\ pick - lag \in Int
  BY <1>1 DEF Skew
<1>3. (lag - lag) * Frame = 0
  BY <1>1
<1>4. /\ Measured(pick) = Skew + (pick - lag) * Frame
      /\ Measured(lag) = Skew + (lag - lag) * Frame
  BY DEF Measured
<1> HIDE DEF Skew
<1>5. Measured(pick) \in Int /\ Measured(lag) = Skew
  <2> DEFINE e == (pick - lag) * Frame
  <2>1. e \in Int /\ Measured(pick) = Skew + e
    BY <1>2, <1>4
  <2> HIDE DEF e
  <2> QED BY <1>2, <1>3, <1>4, <2>1
<1> QED BY <1>1, <1>2, <1>4, <1>5

\* The row of a capture, with the reference true: what is written is true.
LEMMA RowIsTrue ==
  ASSUME GateInv, AnchorTrue, NEW pick \in Picked, NEW clear, NEW trusted,
         clear => pick = lag, Row(pick, clear, trusted)
  PROVE  out' \in {Skew, None}
<1> DEFINE raw == Measured(pick)
           off == IF clear THEN raw ELSE Wrapped(Rebuilt(raw))
<1>1. out' \in {off, None}
  BY DEF Row
<1>2. CASE clear
  BY <1>2, <1>1, MeasuredIs
<1>3. CASE ~clear
  <2>1. PICK c \in Int : raw = Skew + c * Frame
    BY MeasuredIs
  <2>2. raw \in Int /\ Skew \in Int /\ Frame \in Int
    BY MeasuredIs, GateAssumption
  <2>3. PICK d \in Int : Rebuilt(raw) = raw + d * Frame
    <3> HIDE DEF raw
    <3> QED BY <2>2, RebuiltByFrames
  <2>4. Rebuilt(raw) = Skew + (c + d) * Frame
    <3> HIDE DEF raw
    <3> QED BY <2>1, <2>2, <2>3
  <2>5. Wrapped(Rebuilt(raw)) = Skew
    BY <2>4, WrappedIsTrue
  <2> QED BY <1>1, <1>3, <2>5
<1> QED BY <1>2, <1>3

\* The frame counts stay bounded and made of lags that were picked.
LEMMA TakeLagKeeps ==
  ASSUME GateInv, NEW pick \in Picked, NEW clear, TakeLag(pick, clear)
  PROVE  /\ prefer' \in Picked \union {None} /\ pendingLag' \in Picked \union {None}
         /\ lagHist' \in Seq(Picked) /\ Len(lagHist') <= Window
<1>1. /\ prefer \in Picked \union {None} /\ pendingLag \in Picked \union {None}
      /\ lagHist \in Seq(Picked) /\ Len(lagHist) <= Window /\ Picked \subseteq Int
      /\ Window \in Nat \ {0}
  BY GateAssumption DEF GateInv, GateTypeOK
<1>2. CASE prefer # None /\ Near(pick, prefer) > MaxJump
  <2>1. CASE JumpHeld(pick)
    BY <1>1, <1>2, <2>1 DEF TakeLag
  <2>2. CASE ~JumpHeld(pick)
    <3>1. lagHist' = <<pick>> /\ prefer' = pick /\ pendingLag' = None
      BY <1>2, <2>2 DEF TakeLag
    <3> QED BY <1>1, <3>1
  <2> QED BY <2>1, <2>2
<1>3. CASE ~(prefer # None /\ Near(pick, prefer) > MaxJump)
  <2>1. /\ lagHist' = Push(lagHist, pick) /\ pendingLag' = None
        /\ prefer' = IF clear THEN None ELSE MedianOf(lagHist')
    BY <1>3 DEF TakeLag
  <2>2. lagHist' \in Seq(Picked) /\ Len(lagHist') <= Window /\ lagHist' # <<>>
    BY <1>1, <2>1, PushIs
  <2>3. MedianOf(lagHist') \in Picked
    BY <1>1, <2>2, MedianIsInt
  <2> QED BY <2>1, <2>2, <2>3
<1> QED BY <1>2, <1>3

\* So does everything a row leaves behind.
LEMMA RowKeeps ==
  ASSUME GateInv, NEW pick \in Picked, NEW clear, NEW trusted, Row(pick, clear, trusted)
  PROVE  /\ k' = pick /\ k' # None
         /\ prefer' \in Picked \union {None} /\ pendingLag' \in Picked \union {None}
         /\ lagHist' \in Seq(Picked) /\ Len(lagHist') <= Window
         /\ refHist' \in Seq(Int) /\ Len(refHist') <= Window
         /\ consecReject' \in 0..ReseedAfter /\ (out' \in Int \/ out' = None)
<1> DEFINE raw == Measured(pick)
           off == IF clear THEN raw ELSE Wrapped(Rebuilt(raw))
<1>1. /\ k' = pick
      /\ IF ~Consistent(off, pick)
         THEN /\ Reseed(pick) /\ out' = None
              /\ UNCHANGED <<prefer, pendingLag, lagHist>>
         ELSE /\ TakeLag(pick, clear)
              /\ IF JumpHeld(pick) \/ ~trusted
                 THEN out' = None /\ UNCHANGED <<refHist, consecReject>>
                 ELSE /\ out' = off /\ refHist' = Push(refHist, off)
                      /\ consecReject' = 0
  BY DEF Row
<1>2. /\ Picked \subseteq Int /\ None \notin Int /\ Frame \in Int /\ Window \in Nat \ {0}
      /\ ReseedAfter \in Nat \ {0} /\ pick \in Int
  BY GateAssumption
<1>3. /\ prefer \in Picked \union {None} /\ pendingLag \in Picked \union {None}
      /\ lagHist \in Seq(Picked) /\ Len(lagHist) <= Window
      /\ refHist \in Seq(Int) /\ Len(refHist) <= Window /\ consecReject \in 0..ReseedAfter
  BY DEF GateInv, GateTypeOK
<1>4. off \in Int
  <2>1. raw \in Int
    BY MeasuredIs
  <2> HIDE DEF raw
  <2>2. PICK c \in Int : Rebuilt(raw) = raw + c * Frame
    BY <2>1, RebuiltByFrames
  <2>3. Rebuilt(raw) \in Int
    BY <1>2, <2>1, <2>2
  <2>4. Wrapped(Rebuilt(raw)) \in Int
    BY <2>3, WrappedIsInt
  <2> QED BY <2>1, <2>4
<1> HIDE DEF off, raw
<1>5. k' = pick /\ k' # None
  BY <1>1, <1>2
<1>6. CASE ~Consistent(off, pick)
  <2>1. Reseed(pick) /\ out' = None /\ UNCHANGED <<prefer, pendingLag, lagHist>>
    BY <1>1, <1>6
  <2>2. <<pick * Frame>> \in Seq(Int) /\ Len(<<pick * Frame>>) = 1
    <3>1. pick * Frame \in Int
      BY <1>2
    <3> QED BY <3>1
  <2>3. refHist' \in Seq(Int) /\ Len(refHist') <= Window
    BY <1>2, <1>3, <2>1, <2>2 DEF Reseed
  <2>4. consecReject' \in 0..ReseedAfter
    BY <1>2, <1>3, <2>1 DEF Reseed
  <2> QED BY <1>3, <1>5, <2>1, <2>3, <2>4
<1>7. CASE Consistent(off, pick)
  <2>1. TakeLag(pick, clear)
    BY <1>1, <1>7
  <2>2. /\ prefer' \in Picked \union {None} /\ pendingLag' \in Picked \union {None}
        /\ lagHist' \in Seq(Picked) /\ Len(lagHist') <= Window
    BY <2>1, TakeLagKeeps
  <2>3. CASE JumpHeld(pick) \/ ~trusted
    <3>1. out' = None /\ UNCHANGED <<refHist, consecReject>>
      BY <1>1, <1>7, <2>3
    <3> QED BY <1>3, <1>5, <2>2, <3>1
  <2>4. CASE ~(JumpHeld(pick) \/ ~trusted)
    <3>1. out' = off /\ refHist' = Push(refHist, off) /\ consecReject' = 0
      BY <1>1, <1>7, <2>4
    <3>2. refHist' \in Seq(Int) /\ Len(refHist') <= Window
      BY <1>3, <1>4, <3>1, PushIs
    <3> QED BY <1>2, <1>4, <1>5, <2>2, <3>1, <3>2
  <2> QED BY <2>3, <2>4
<1> QED BY <1>6, <1>7

\* GateInv at the start, and kept by every step.
LEMMA GateBegins == GateInit => GateInv
<1> SUFFICES ASSUME GateInit PROVE GateInv
  OBVIOUS
<1>1. <<>> \in Seq(Picked) /\ <<>> \in Seq(Int) /\ Len(<<>>) = 0
  OBVIOUS
<1>2. Window \in Nat \ {0} /\ ReseedAfter \in Nat \ {0}
  BY GateAssumption
<1>3. GateTypeOK
  <2>1. /\ lag \in TrueLags /\ settled = FALSE /\ turn = 0
        /\ k = None /\ prefer = None /\ pendingLag = None /\ lagHist = <<>>
        /\ refHist = <<>> /\ consecReject = 0 /\ out = None
    BY DEF GateInit
  <2>2. Len(<<>>) <= Window
    BY <1>1, <1>2
  <2>3. 0 \in 0..1 /\ 0 \in 0..ReseedAfter
    BY <1>2
  <2> QED BY <1>1, <2>1, <2>2, <2>3 DEF GateTypeOK
<1> QED BY <1>3 DEF GateInit, GateInv

LEMMA GateStep == GateInv /\ [GateNext]_gateVars => GateInv'
<1> SUFFICES ASSUME GateInv, [GateNext]_gateVars PROVE GateInv'
  OBVIOUS
<1>1. /\ lag \in TrueLags /\ settled \in BOOLEAN /\ turn \in 0..1 /\ lag \in Picked
      /\ None \notin Picked
  BY GateAssumption DEF GateInv, GateTypeOK
<1>2. ASSUME NEW pick \in Picked, NEW clear, NEW trusted, Row(pick, clear, trusted),
             lag' = lag, settled' = settled, turn' \in 0..1
      PROVE  GateInv'
  <2>1. /\ k' = pick /\ k' # None
        /\ prefer' \in Picked \union {None} /\ pendingLag' \in Picked \union {None}
        /\ lagHist' \in Seq(Picked) /\ Len(lagHist') <= Window
        /\ refHist' \in Seq(Int) /\ Len(refHist') <= Window
        /\ consecReject' \in 0..ReseedAfter /\ (out' \in Int \/ out' = None)
    BY <1>2, RowKeeps
  <2> QED BY <1>1, <1>2, <2>1 DEF GateInv, GateTypeOK
<1>3. CASE AnyRow
  <2>1. PICK pick \in Picked : (\E trusted \in BOOLEAN : Row(pick, FALSE, trusted)) \/ NoMatch(pick)
    BY <1>3 DEF AnyRow
  <2>2. UNCHANGED <<lag, settled, turn>>
    BY <1>3 DEF AnyRow
  <2>3. CASE NoMatch(pick)
    BY <1>1, <2>2, <2>3 DEF NoMatch, GateInv, GateTypeOK
  <2>4. CASE \E trusted \in BOOLEAN : Row(pick, FALSE, trusted)
    BY <1>1, <1>2, <2>2, <2>4
  <2> QED BY <2>1, <2>3, <2>4
<1>4. CASE HonestRow
  <2>1. PICK clear \in BOOLEAN : Row(lag, clear, TRUE)
    BY <1>4 DEF HonestRow
  <2>2. turn' \in 0..1 /\ lag' = lag /\ settled' = settled
    BY <1>1, <1>4 DEF HonestRow
  <2> QED BY <1>1, <1>2, <2>1, <2>2
<1>5. CASE Step
  BY <1>1, <1>5 DEF Step, rowVars, GateInv, GateTypeOK
<1>6. CASE Settle
  BY <1>1, <1>6 DEF Settle, rowVars, GateInv, GateTypeOK
<1>7. CASE UNCHANGED gateVars
  BY <1>7 DEF gateVars, GateInv, GateTypeOK
<1> QED BY <1>3, <1>4, <1>5, <1>6, <1>7 DEF GateNext

\* Whichever way the row came about.
LEMMA AnchoredRow ==
  ASSUME GateInv, AnyRow \/ HonestRow, AnchorTrue
  PROVE  out' \in {Skew, None}
<1>1. lag \in Picked
  BY GateAssumption DEF GateInv, GateTypeOK
<1>2. CASE AnyRow
  <2>1. PICK pick \in Picked : (\E trusted \in BOOLEAN : Row(pick, FALSE, trusted)) \/ NoMatch(pick)
    BY <1>2 DEF AnyRow
  <2> QED BY <2>1, RowIsTrue DEF NoMatch
<1>3. CASE HonestRow
  BY <1>1, <1>3, RowIsTrue DEF HonestRow
<1> QED BY <1>2, <1>3

\* While the continuity reference is true no row is written down a frame off,
\* whatever lag its correlation picked and whatever lag the row before left behind;
\* the histories stay bounded throughout (the gates of main in i2s-skew.py).
THEOREM GateRowsAreTrue == GateSpec => RowsAreTrue
<1>1. GateInv => GateTypeOK
  BY DEF GateInv
<1>2. GateInv /\ [GateNext]_gateVars =>
        [(AnyRow \/ HonestRow) /\ AnchorTrue => out' \in {Skew, None}]_gateVars
  BY AnchoredRow
<1> QED BY <1>1, <1>2, GateBegins, GateStep, PTL DEF GateSpec, RowsAreTrue, AnchoredRowIsTrue

------------------------------------------------------------------------------
\* The lock of the live plot.

\* A version that waits to be sent is that of a frame.
PlotInv == PlotTypeOK /\ LockMeansDraw /\ (fresh => frame \in Frames)

\* What a draw becomes on its way.
LEMMA DrawMoves ==
  ASSUME PlotInv, draw # Nothing
  PROVE  /\ draw \in Draws /\ busy = TRUE /\ draw.snap \in 0..MaxSnaps /\ draw.laid \subseteq Elements
         /\ \A pc \in {"lay", "release"} : [draw EXCEPT !.pc = pc] \in Draws
         /\ \A laid \in SUBSET Elements : [draw EXCEPT !.pc = "publish", !.laid = laid] \in Draws
<1>1. draw \in Draws /\ busy = TRUE
  BY DEF PlotInv, PlotTypeOK, LockMeansDraw
<1> QED BY <1>1 DEF Draws

\* A new draw, or none, and the lock with it.
LEMMA DrawStarts ==
  ASSUME NEW s \in 0..MaxSnaps
  PROVE  \A pc \in {"file", "lay"} : /\ [snap |-> s, pc |-> pc, laid |-> {}] \in Draws
                                     /\ [snap |-> s, pc |-> pc, laid |-> {}] # Nothing
<1>1. \A pc \in {"file", "lay"} : [snap |-> s, pc |-> pc, laid |-> {}] \in Draws
  BY DEF Draws
<1> QED BY <1>1, PlotAssumption

\* The lock is free at the start.
LEMMA PlotBegins == PlotInit => PlotInv
<1> SUFFICES ASSUME PlotInit PROVE PlotInv
  OBVIOUS
<1>1. 0 \in 0..MaxSnaps /\ {} \subseteq Elements
  BY PlotAssumption
<1>2. LockMeansDraw /\ fresh = FALSE
  BY DEF PlotInit, LockMeansDraw
<1>3. PlotTypeOK
  BY <1>1 DEF PlotInit, PlotTypeOK
<1> QED BY <1>2, <1>3 DEF PlotInv

\* The measuring loop takes the lock for the draw it starts, and for nothing else.
LEMMA MainKeeps == PlotInv /\ MainStep => PlotInv'
<1> SUFFICES ASSUME PlotInv, MainStep PROVE PlotInv'
  OBVIOUS
<1> USE DEF PlotInv, PlotTypeOK, LockMeansDraw, mainVars, drawVars, viewVars, pageVars
<1>1. CASE Measure
  BY <1>1, PlotAssumption DEF Measure
<1>2. CASE Skip
  BY <1>2 DEF Skip
<1>3. CASE Due
  BY <1>3 DEF Due
<1>4. CASE StartDraw
  <2>1. draw' \in Draws /\ draw' # Nothing
    BY <1>4, DrawStarts DEF StartDraw
  <2> QED BY <1>4, <2>1 DEF StartDraw
<1>5. CASE Finish
  BY <1>5 DEF Finish
<1>6. CASE FinalFile
  BY <1>6 DEF FinalFile
<1>7. CASE FinalLay
  BY <1>7 DEF FinalLay
<1>8. CASE FinalPublish
  <2>1. frame' \in Frames
    BY <1>8 DEF FinalPublish, Frames
  <2> QED BY <1>8, <2>1 DEF FinalPublish
<1> QED BY <1>1, <1>2, <1>3, <1>4, <1>5, <1>6, <1>7, <1>8 DEF MainStep

\* A draw keeps the lock until it releases it, raised or not.
LEMMA DrawKeeps == PlotInv /\ DrawStep => PlotInv'
<1> SUFFICES ASSUME PlotInv, DrawStep PROVE PlotInv'
  OBVIOUS
<1>1. draw # Nothing
  BY DEF DrawStep, WriteFile, LayOut, Publish, PublishRefused, DrawRaised, Release, Drawing
<1>2. /\ draw \in Draws /\ busy = TRUE /\ draw.snap \in 0..MaxSnaps /\ draw.laid \subseteq Elements
      /\ \A pc \in {"lay", "release"} : [draw EXCEPT !.pc = pc] \in Draws
      /\ \A laid \in SUBSET Elements : [draw EXCEPT !.pc = "publish", !.laid = laid] \in Draws
  BY <1>1, DrawMoves
<1>3. Nothing \notin Draws
  BY PlotAssumption
<1>4. ASSUME draw' \in Draws, busy' = busy, UNCHANGED <<mainVars, redraw, redraws, pageVars>>,
             file' \in 0..MaxSnaps \union {Nothing}, fresh' \in BOOLEAN,
             frame' \in Frames \union {Nothing}, fresh' => frame' \in Frames
      PROVE  PlotInv'
  BY <1>2, <1>3, <1>4 DEF PlotInv, PlotTypeOK, LockMeansDraw, mainVars, pageVars
<1>5. CASE WriteFile
  <2>1. draw' \in Draws
    BY <1>2, <1>5 DEF WriteFile
  <2> QED BY <1>2, <1>4, <1>5, <2>1 DEF WriteFile, PlotInv, PlotTypeOK
<1>6. CASE LayOut
  <2>1. draw' \in Draws
    BY <1>2, <1>6 DEF LayOut, PlotInv, PlotTypeOK
  <2> QED BY <1>4, <1>6, <2>1 DEF LayOut, PlotInv, PlotTypeOK, viewVars
<1>7. CASE Publish
  <2>1. draw' \in Draws
    BY <1>2, <1>7 DEF Publish
  <2>2. frame' \in Frames
    BY <1>2, <1>7 DEF Publish, Frames, PlotInv, PlotTypeOK
  <2> QED BY <1>4, <1>7, <2>1, <2>2 DEF Publish, PlotInv, PlotTypeOK
<1>8. CASE PublishRefused \/ DrawRaised
  <2>1. draw' \in Draws
    BY <1>2, <1>8 DEF PublishRefused, DrawRaised
  <2> QED BY <1>4, <1>8, <2>1 DEF PublishRefused, DrawRaised, PlotInv, PlotTypeOK, viewVars
<1>9. CASE Release
  BY <1>9 DEF Release, PlotInv, PlotTypeOK, LockMeansDraw, mainVars, viewVars, pageVars
<1> QED BY <1>5, <1>6, <1>7, <1>8, <1>9 DEF DrawStep

\* A redraw takes the lock if it is free and is gone if it is not.
LEMMA PageKeeps == PlotInv /\ (PageStep \/ Resend \/ Toggle \/ Resize \/ CalmDown) => PlotInv'
<1> SUFFICES ASSUME PlotInv, PageStep \/ Resend \/ Toggle \/ Resize \/ CalmDown PROVE PlotInv'
  OBVIOUS
<1>1. CASE Redraw
  <2>1. PICK s \in redraws :
          /\ redraws' = redraws \ {s}
          /\ IF busy THEN UNCHANGED <<draw, busy>>
             ELSE draw' = [snap |-> s, pc |-> "lay", laid |-> {}] /\ busy' = TRUE
    BY <1>1 DEF Redraw
  <2>2. UNCHANGED <<mainVars, redraw, viewVars, pageVars>>
    BY <1>1 DEF Redraw
  <2>3. s \in 0..MaxSnaps
    BY <2>1 DEF PlotInv, PlotTypeOK
  <2>4. draw' \in Draws \union {Nothing} /\ busy' \in BOOLEAN /\ LockMeansDraw'
    <3>1. CASE busy
      BY <2>1, <3>1 DEF PlotInv, PlotTypeOK, LockMeansDraw
    <3>2. CASE ~busy
      BY <2>1, <2>3, <3>2, DrawStarts DEF LockMeansDraw
    <3> QED BY <3>1, <3>2
  <2>5. redraws' \subseteq 0..MaxSnaps
    BY <2>1 DEF PlotInv, PlotTypeOK
  <2> QED BY <2>2, <2>4, <2>5 DEF PlotInv, PlotTypeOK, mainVars, viewVars, pageVars
<1>2. CASE Control
  <2>1. hidden' \subseteq Elements /\ requests' \subseteq (SUBSET Elements) \union {Nothing}
    <3>1. PICK r \in requests :
            hidden' = (IF r = Nothing THEN hidden ELSE r) /\ requests' = requests \ {r}
      BY <1>2 DEF Control
    <3>2. /\ requests \subseteq (SUBSET Elements) \union {Nothing} /\ hidden \subseteq Elements
      BY DEF PlotInv, PlotTypeOK
    <3>3. r # Nothing => r \subseteq Elements
      BY <3>1, <3>2
    <3> QED BY <3>1, <3>2, <3>3
  <2>2. redraws' \subseteq 0..MaxSnaps
    BY <1>2 DEF Control, PlotInv, PlotTypeOK
  <2> QED BY <1>2, <2>1, <2>2 DEF Control, PlotInv, PlotTypeOK, LockMeansDraw, mainVars, viewVars
<1>3. CASE Send \/ Resend
  <2>1. frame \in Frames
    BY <1>3 DEF Send, Resend, PlotInv, PlotTypeOK
  <2>2. page' \subseteq Elements
    BY <1>3, <2>1 DEF Send, Resend, Frames
  <2>3. /\ UNCHANGED <<mainVars, drawVars, frame, file, hidden, requests, quiet>>
        /\ fresh' \in BOOLEAN
    BY <1>3 DEF Send, Resend, viewVars, PlotInv, PlotTypeOK
  <2> QED BY <2>1, <2>2, <2>3 DEF PlotInv, PlotTypeOK, LockMeansDraw, mainVars, drawVars
<1>4. CASE Toggle
  <2>1. page' \subseteq Elements /\ requests' \subseteq (SUBSET Elements) \union {Nothing}
    BY <1>4 DEF Toggle, PlotInv, PlotTypeOK
  <2> QED BY <1>4, <2>1 DEF Toggle, PlotInv, PlotTypeOK, LockMeansDraw, mainVars, drawVars, viewVars
<1>5. CASE Resize
  <2>1. requests' \subseteq (SUBSET Elements) \union {Nothing}
    BY <1>5 DEF Resize, PlotInv, PlotTypeOK
  <2> QED BY <1>5, <2>1 DEF Resize, PlotInv, PlotTypeOK, LockMeansDraw, mainVars, drawVars, viewVars
<1>6. CASE CalmDown
  BY <1>6 DEF CalmDown, PlotInv, PlotTypeOK, LockMeansDraw, mainVars, drawVars, viewVars
<1> QED BY <1>1, <1>2, <1>3, <1>4, <1>5, <1>6 DEF PageStep

\* plot_busy is held exactly while a draw is under way: whoever asks, whatever raises
\* and whenever the run ends, a second draw never starts over the first (the safety
\* half of LockIsForDraws; draw_async and redraw in i2s-skew.py).
THEOREM PlotLockIsForOneDraw == PlotSpec => [](PlotTypeOK /\ LockMeansDraw)
<1>1. PlotInv => PlotTypeOK /\ LockMeansDraw
  BY DEF PlotInv
<1>2. PlotInv /\ [PlotNext]_plotVars => PlotInv'
  <2>1. PlotInv /\ UNCHANGED plotVars => PlotInv'
    BY DEF PlotInv, PlotTypeOK, LockMeansDraw, plotVars, mainVars, drawVars, viewVars, pageVars
  <2> QED BY <2>1, MainKeeps, DrawKeeps, PageKeeps DEF PlotNext
<1> QED BY <1>1, <1>2, PlotBegins, PTL DEF PlotSpec

------------------------------------------------------------------------------
\* The tail of the log.

\* Numbers grow along what was written, and are those written so far.
Ascending(s) ==
  /\ \A i \in 1..Len(s) : s[i].id \in 1..written
  /\ \A i, j \in 1..Len(s) : i < j => s[i].id < s[j].id

\* A poll begins behind all that was read of what the file holds.
TailInv ==
  /\ written \in Nat /\ nextRead \in Nat
  /\ log \in Seq([line : Lines, id : Nat]) /\ read \in Seq([line : Lines, id : Nat])
  /\ Ascending(log) /\ Ascending(read)
  /\ \A a \in 1..Len(read), i \in 1..Len(log) :
       i > Start(nextRead) => read[a].id < log[i].id

\* Nothing is written or read at the start.
LEMMA TailBegins == TailInit => TailInv
<1> SUFFICES ASSUME TailInit PROVE TailInv
  OBVIOUS
<1>1. log = <<>> /\ read = <<>> /\ written = 0 /\ nextRead = 0
  BY DEF TailInit
<1>2. <<>> \in Seq([line : Lines, id : Nat]) /\ Len(<<>>) = 0
  OBVIOUS
<1> QED BY <1>1, <1>2 DEF TailInv, Ascending

\* The lines from an offset on.
LEMMA RestIs ==
  ASSUME TailInv, NEW from \in 0..Len(log)
  PROVE  LET rest == SubSeq(log, from + 1, Len(log))
         IN  /\ rest \in Seq([line : Lines, id : Nat]) /\ Len(rest) = Len(log) - from
             /\ \A i \in 1..Len(rest) : rest[i] = log[from + i]
             /\ Ascending(rest)
<1> DEFINE rest == SubSeq(log, from + 1, Len(log))
<1>1. log \in Seq([line : Lines, id : Nat]) /\ Len(log) \in Nat /\ from \in Nat /\ Ascending(log)
  BY DEF TailInv
<1>2. /\ rest \in Seq([line : Lines, id : Nat]) /\ Len(rest) = Len(log) - from
      /\ \A i \in 1..Len(rest) : rest[i] = log[from + i]
  <2>1. \A i \in from + 1..Len(log) : log[i] \in [line : Lines, id : Nat]
    <3>1. \A i \in 1..Len(log) : log[i] \in [line : Lines, id : Nat]
      BY <1>1, ElementOfSeq
    <3>2. \A i \in from + 1..Len(log) : i \in 1..Len(log)
      BY <1>1
    <3> QED BY <3>1, <3>2
  <2>2. /\ rest \in Seq([line : Lines, id : Nat])
        /\ Len(rest) = IF from + 1 <= Len(log) THEN Len(log) - (from + 1) + 1 ELSE 0
        /\ \A i \in 1..Len(log) - (from + 1) + 1 : rest[i] = log[from + 1 + i - 1]
    BY <1>1, <2>1, SubSeqProperties
  <2>3. Len(rest) = Len(log) - from /\ Len(log) - (from + 1) + 1 = Len(log) - from
    BY <1>1, <2>2
  <2>4. \A i \in 1..Len(rest) : rest[i] = log[from + i]
    <3> SUFFICES ASSUME NEW i \in 1..Len(rest) PROVE rest[i] = log[from + i]
      OBVIOUS
    <3> HIDE DEF rest
    <3>1. i \in Int /\ from + 1 + i - 1 = from + i /\ i \in 1..Len(log) - (from + 1) + 1
      BY <1>1, <2>3
    <3> QED BY <2>2, <3>1
  <2> QED BY <2>2, <2>3, <2>4
<1> HIDE DEF rest
<1>3. Ascending(rest)
  <2>1. \A i \in 1..Len(rest) : from + i \in 1..Len(log)
    BY <1>1, <1>2
  <2>2. \A i \in 1..Len(rest) : rest[i].id \in 1..written
    BY <1>1, <1>2, <2>1 DEF Ascending
  <2>3. ASSUME NEW i \in 1..Len(rest), NEW j \in 1..Len(rest), i < j
        PROVE  rest[i].id < rest[j].id
    <3>1. from + i \in 1..Len(log) /\ from + j \in 1..Len(log) /\ from + i < from + j
      BY <1>1, <2>1, <2>3
    <3>2. log[from + i].id < log[from + j].id
      BY <1>1, <3>1 DEF Ascending
    <3> QED BY <1>2, <3>2
  <2> QED BY <2>2, <2>3 DEF Ascending
<1> QED BY <1>2, <1>3 DEF rest

\* A read begins no earlier than asked for, and within the file.
LEMMA ReadBegins ==
  ASSUME TailInv, NEW from \in Nat
  PROVE  /\ Start(from) \in 0..Len(log)
         /\ Tail0(Start(from)) \in 0..Len(log) /\ Tail0(Start(from)) >= Start(from)
<1>1. Len(log) \in Nat /\ TailLines \in Nat
  BY TailAssumption DEF TailInv
<1>2. Start(from) \in 0..Len(log)
  BY <1>1 DEF Start
<1> QED BY <1>1, <1>2 DEF Tail0

\* What a read adds is behind all that was kept.
LEMMA ReadAppends ==
  ASSUME TailInv, NEW kept \in Seq([line : Lines, id : Nat]), Ascending(kept),
         NEW from \in 0..Len(log),
         \A a \in 1..Len(kept), i \in 1..Len(log) : i > from => kept[a].id < log[i].id
  PROVE  LET all == kept \o SubSeq(log, from + 1, Len(log))
         IN  all \in Seq([line : Lines, id : Nat]) /\ Ascending(all)
<1> DEFINE rest == SubSeq(log, from + 1, Len(log))
           all == kept \o rest
<1>1. /\ rest \in Seq([line : Lines, id : Nat]) /\ Len(rest) = Len(log) - from
      /\ \A i \in 1..Len(rest) : rest[i] = log[from + i]
      /\ Ascending(rest)
  BY RestIs
<1>2. Len(log) \in Nat /\ Len(kept) \in Nat /\ from \in Nat
  BY DEF TailInv
<1> HIDE DEF rest
<1>3. /\ all \in Seq([line : Lines, id : Nat]) /\ Len(all) = Len(kept) + Len(rest)
      /\ \A i \in 1..Len(kept) : all[i] = kept[i]
      /\ \A i \in Len(kept) + 1..Len(all) : all[i] = rest[i - Len(kept)]
  <2>1. /\ all \in Seq([line : Lines, id : Nat]) /\ Len(all) = Len(kept) + Len(rest)
        /\ \A i \in 1..Len(kept) + Len(rest) :
             all[i] = IF i <= Len(kept) THEN kept[i] ELSE rest[i - Len(kept)]
    BY <1>1, ConcatProperties
  <2>2. Len(rest) \in Nat
    BY <1>1
  <2> HIDE DEF all
  <2>3. \A i \in 1..Len(kept) : i \in 1..Len(kept) + Len(rest) /\ i <= Len(kept)
    BY <1>2, <2>2
  <2>4. \A i \in Len(kept) + 1..Len(all) :
          i \in 1..Len(kept) + Len(rest) /\ ~(i <= Len(kept))
    BY <1>2, <2>1, <2>2
  <2> QED BY <2>1, <2>3, <2>4
<1> HIDE DEF all
<1>4. Len(rest) \in Nat
  BY <1>1
<1>5. \A i \in Len(kept) + 1..Len(all) : i - Len(kept) \in 1..Len(rest)
  BY <1>2, <1>3, <1>4
<1>6. \A i \in 1..Len(all) : i \in 1..Len(kept) \/ i \in Len(kept) + 1..Len(all)
  BY <1>2, <1>3, <1>4
<1>7. \A i \in 1..Len(all) : all[i].id \in 1..written
  BY <1>1, <1>3, <1>5, <1>6 DEF Ascending
<1>8. ASSUME NEW i \in 1..Len(all), NEW j \in 1..Len(all), i < j
      PROVE  all[i].id < all[j].id
  <2>1. CASE i \in 1..Len(kept) /\ j \in 1..Len(kept)
    BY <1>3, <1>8, <2>1 DEF Ascending
  <2>2. CASE i \in Len(kept) + 1..Len(all) /\ j \in Len(kept) + 1..Len(all)
    <3>1. /\ i - Len(kept) \in 1..Len(rest) /\ j - Len(kept) \in 1..Len(rest)
          /\ i - Len(kept) < j - Len(kept)
      BY <1>2, <1>5, <1>8, <2>2
    <3> QED BY <1>1, <1>3, <2>2, <3>1 DEF Ascending
  <2>3. CASE i \in 1..Len(kept) /\ j \in Len(kept) + 1..Len(all)
    <3>1. j - Len(kept) \in 1..Len(rest)
      BY <1>5, <2>3
    <3>2. from + (j - Len(kept)) \in 1..Len(log) /\ from + (j - Len(kept)) > from
      BY <1>1, <1>2, <3>1
    <3>3. kept[i].id < log[from + (j - Len(kept))].id
      BY <2>3, <3>2
    <3>4. all[i] = kept[i] /\ all[j] = log[from + (j - Len(kept))]
      BY <1>1, <1>3, <2>3, <3>1
    <3> QED BY <3>3, <3>4
  <2>4. ~(i \in Len(kept) + 1..Len(all) /\ j \in 1..Len(kept))
    BY <1>2, <1>3, <1>4, <1>8
  <2> QED BY <1>6, <2>1, <2>2, <2>3, <2>4
<1> QED BY <1>3, <1>7, <1>8 DEF Ascending, all, rest

\* After a read nothing of the file is left to read.
LEMMA ReadKeeps ==
  ASSUME TailInv, UNCHANGED <<log, ino, written>>, nextRead' = Len(log), ident' = ino,
         read' \in Seq([line : Lines, id : Nat]), Ascending(read')
  PROVE  TailInv'
<1>1. Len(log) \in Nat /\ Ascending(log) /\ written \in Nat /\ log \in Seq([line : Lines, id : Nat])
  BY DEF TailInv
<1>2. Start(nextRead)' = Len(log)
  BY <1>1 DEF Start
<1>3. Ascending(log)' /\ Ascending(read)'
  BY <1>1 DEF Ascending
<1>4. \A a \in 1..Len(read'), i \in 1..Len(log') :
        i > Start(nextRead)' => read'[a].id < log'[i].id
  BY <1>1, <1>2
<1> QED BY <1>1, <1>3, <1>4 DEF TailInv

\* Polls read on, and what is written is new.
LEMMA TailKept == TailInv /\ [TailNext]_tailVars => TailInv'
<1> SUFFICES ASSUME TailInv, [TailNext]_tailVars PROVE TailInv'
  OBVIOUS
<1>1. /\ written \in Nat /\ nextRead \in Nat /\ Len(log) \in Nat /\ Len(read) \in Nat
      /\ log \in Seq([line : Lines, id : Nat]) /\ read \in Seq([line : Lines, id : Nat])
      /\ Ascending(log) /\ Ascending(read)
  BY DEF TailInv
<1>2. ASSUME NEW from \in Nat, NEW kept \in {<<>>, read}, kept = read => from = nextRead,
             UNCHANGED <<log, ino, written>>, nextRead' = Len(log), ident' = ino,
             read' = kept \o SubSeq(log, Tail0(Start(from)) + 1, Len(log))
      PROVE  TailInv'
  <2> DEFINE first == Tail0(Start(from))
  <2>1. first \in 0..Len(log) /\ Start(from) \in 0..Len(log) /\ first >= Start(from)
    BY <1>2, ReadBegins
  <2>2. kept \in Seq([line : Lines, id : Nat]) /\ Ascending(kept)
    <3>1. <<>> \in Seq([line : Lines, id : Nat]) /\ Ascending(<<>>)
      BY DEF Ascending
    <3> QED BY <1>1, <1>2, <3>1
  <2>3. \A a \in 1..Len(kept), i \in 1..Len(log) : i > first => kept[a].id < log[i].id
    <3>1. CASE kept = <<>>
      BY <3>1
    <3>2. CASE kept = read
      <4> HIDE DEF first
      <4>1. from = nextRead
        BY <1>2, <3>2
      <4>2. \A i \in 1..Len(log) : i > first => i > Start(nextRead)
        BY <2>1, <4>1
      <4> QED BY <3>2, <4>2 DEF TailInv
    <3> QED BY <1>2, <3>1, <3>2
  <2>4. read' \in Seq([line : Lines, id : Nat]) /\ Ascending(read')
    <3> HIDE DEF first
    <3>1. LET all == kept \o SubSeq(log, first + 1, Len(log))
          IN  all \in Seq([line : Lines, id : Nat]) /\ Ascending(all)
      BY <2>1, <2>2, <2>3, ReadAppends
    <3> QED BY <1>2, <3>1 DEF first
  <2> QED BY <1>2, <2>4, ReadKeeps
<1>3. CASE Prime
  <2>1. /\ UNCHANGED <<log, ino, written>> /\ nextRead' = Len(log) /\ ident' = ino
        /\ read' = SubSeq(log, Tail0(Start(0)) + 1, Len(log))
    BY <1>3 DEF Prime
  <2>2. Tail0(Start(0)) \in 0..Len(log)
    BY ReadBegins
  <2>3. read' \in Seq([line : Lines, id : Nat]) /\ Ascending(read')
    <3> DEFINE first == Tail0(Start(0))
    <3>1. first \in 0..Len(log)
      BY <2>2
    <3> HIDE DEF first
    <3>2. LET rest == SubSeq(log, first + 1, Len(log))
          IN  rest \in Seq([line : Lines, id : Nat]) /\ Ascending(rest)
      BY <3>1, RestIs
    <3> QED BY <2>1, <3>2 DEF first
  <2> QED BY <2>1, <2>3, ReadKeeps
<1>4. CASE Poll
  <2>1. /\ UNCHANGED <<log, ino, written>> /\ nextRead' = Len(log) /\ ident' = ino
        /\ read' = read \o SubSeq(log, Tail0(Start(nextRead)) + 1, Len(log))
    BY <1>4 DEF Poll, PollFrom, Gathered
  <2> QED BY <1>1, <1>2, <2>1
<1>5. CASE Replot
  <2>1. /\ UNCHANGED <<log, ino, written>> /\ nextRead' = Len(log) /\ ident' = ino
        /\ read' = <<>> \o SubSeq(log, Tail0(Start(0)) + 1, Len(log))
    BY <1>5 DEF Replot, PollFrom, NothingKept
  <2>2. Tail0(Start(0)) \in 0..Len(log)
    BY ReadBegins
  <2>3. read' \in Seq([line : Lines, id : Nat]) /\ Ascending(read')
    <3> DEFINE first == Tail0(Start(0))
    <3>1. first \in 0..Len(log)
      BY <2>2
    <3> HIDE DEF first
    <3>2. <<>> \in Seq([line : Lines, id : Nat]) /\ Ascending(<<>>) /\ Len(<<>>) = 0
      BY DEF Ascending
    <3>3. \A a \in 1..Len(<<>>), i \in 1..Len(log) : i > first => <<>>[a].id < log[i].id
      BY <3>2
    <3>4. LET all == <<>> \o SubSeq(log, first + 1, Len(log))
          IN  all \in Seq([line : Lines, id : Nat]) /\ Ascending(all)
      BY <3>1, <3>2, <3>3, ReadAppends, Zenon
    <3> QED BY <2>1, <3>4 DEF first
  <2> QED BY <2>1, <2>3, ReadKeeps
<1>6. CASE WriteLine
  <2>1. PICK l \in Lines : log' = Append(log, [line |-> l, id |-> written + 1])
    BY <1>6 DEF WriteLine
  <2>2. written' = written + 1 /\ UNCHANGED <<ino, nextRead, ident, read>>
    BY <1>6 DEF WriteLine
  <2>3. [line |-> l, id |-> written + 1] \in [line : Lines, id : Nat]
    BY <1>1
  <2>4. /\ log' \in Seq([line : Lines, id : Nat]) /\ Len(log') = Len(log) + 1
        /\ \A i \in 1..Len(log) : log'[i] = log[i]
        /\ log'[Len(log) + 1].id = written + 1
    BY <1>1, <2>1, <2>3
  <2>5. Ascending(read)'
    BY <1>1, <2>2 DEF Ascending
  <2>6. Ascending(log)'
    <3>1. \A i \in 1..Len(log') : i \in 1..Len(log) \/ i = Len(log) + 1
      BY <1>1, <2>4
    <3>2. \A i \in 1..Len(log) : log[i].id \in 1..written
      BY <1>1 DEF Ascending
    <3>3. \A i \in 1..Len(log') : log'[i].id \in 1..written'
      <4> SUFFICES ASSUME NEW i \in 1..Len(log') PROVE log'[i].id \in 1..written'
        OBVIOUS
      <4>1. CASE i \in 1..Len(log)
        <5>1. log'[i] = log[i]
          BY <2>4, <4>1
        <5>2. log[i].id \in 1..written
          BY <3>2, <4>1
        <5>3. log[i].id \in 1..written + 1
          BY <1>1, <5>2
        <5> QED BY <2>2, <5>1, <5>3
      <4>2. CASE i = Len(log) + 1
        BY <1>1, <2>2, <2>4, <4>2
      <4> QED BY <3>1, <4>1, <4>2
    <3>4. ASSUME NEW i \in 1..Len(log'), NEW j \in 1..Len(log'), i < j
          PROVE  log'[i].id < log'[j].id
      <4>1. i \in 1..Len(log)
        BY <1>1, <2>4, <3>4
      <4>2. CASE j \in 1..Len(log)
        BY <1>1, <2>4, <3>4, <4>1, <4>2 DEF Ascending
      <4>3. CASE j = Len(log) + 1
        <5>1. log'[i].id \in 1..written /\ log'[j].id = written + 1
          BY <2>4, <3>2, <4>1, <4>3
        <5> QED BY <1>1, <5>1
      <4> QED BY <3>1, <4>2, <4>3
    <3> QED BY <3>3, <3>4 DEF Ascending
  <2>7. ASSUME NEW a \in 1..Len(read), NEW i \in 1..Len(log'), i > Start(nextRead)'
        PROVE  read[a].id < log'[i].id
    <3>1. CASE i \in 1..Len(log)
      <4>1. i > Start(nextRead)
        BY <1>1, <2>2, <2>4, <2>7, <3>1 DEF Start
      <4>2. read[a].id < log[i].id
        BY <3>1, <4>1 DEF TailInv
      <4> QED BY <2>4, <3>1, <4>2
    <3>2. CASE i = Len(log) + 1
      <4>1. read[a].id \in 1..written /\ log'[i].id = written + 1
        BY <1>1, <2>4, <3>2 DEF Ascending
      <4> QED BY <1>1, <4>1
    <3> QED BY <1>1, <2>4, <3>1, <3>2
  <2>8. written' \in Nat /\ nextRead' \in Nat /\ read' = read
    BY <1>1, <2>2
  <2> QED BY <1>1, <2>4, <2>5, <2>6, <2>7, <2>8 DEF TailInv
<1>7. CASE Recreate \/ Truncate
  <2>1. log' = <<>> /\ UNCHANGED <<written, nextRead, read>>
    BY <1>7 DEF Recreate, Truncate
  <2>2. log' \in Seq([line : Lines, id : Nat]) /\ Len(log') = 0
    BY <2>1
  <2>3. Ascending(log)' /\ Ascending(read)'
    BY <1>1, <2>1, <2>2 DEF Ascending
  <2> QED BY <1>1, <2>1, <2>2, <2>3 DEF TailInv
<1>8. CASE UNCHANGED tailVars
  BY <1>8 DEF tailVars, TailInv, Ascending, Start
<1> QED BY <1>3, <1>4, <1>5, <1>6, <1>7, <1>8 DEF TailNext

\* A set that holds 0 and the next of every number it holds has them all.
LEMMA SetInduction ==
  ASSUME NEW S, 0 \in S, \A n \in Nat : n \in S => n + 1 \in S
  PROVE  Nat \subseteq S
<1> SUFFICES ASSUME Nat \ S # {} PROVE FALSE
  OBVIOUS
<1>1. PICK x \in Nat \ S : \A y \in Nat \ S : x <= y
  BY LeastNumber
<1>2. x # 0 /\ x - 1 \in Nat /\ x - 1 \in S
  BY <1>1
<1> QED BY <1>1, <1>2

\* What the parser carries from line to line, and what it gathers.
Carried == {"role", "oor", "oorT", "dlmode", "dlmodeT", "tau", "tauT", "trim", "resync", "pipe", "peers"}
Fields == Carried \union {"ev", "readings", "seedLines"}

IsSeq(s) == \E T : s \in Seq(T)

IsParser(p) ==
  /\ DOMAIN p = Fields /\ p.oor \in BOOLEAN
  /\ IsSeq(p.ev) /\ IsSeq(p.readings)

\* Two parsers that carry the same; the first has gathered E and R before.
Ahead(p, q, E, R) ==
  /\ IsParser(p) /\ IsParser(q) /\ \A f \in Carried : p[f] = q[f]
  /\ IsSeq(E) /\ IsSeq(R)
  /\ p.ev = E \o q.ev /\ p.readings = R \o q.readings

LEMMA JoinIsSeq ==
  ASSUME NEW s, NEW t, IsSeq(s), IsSeq(t)
  PROVE  IsSeq(s \o t)
<1>1. PICK S : s \in Seq(S)
  BY DEF IsSeq
<1>2. PICK T : t \in Seq(T)
  BY DEF IsSeq
<1>3. s \in Seq(S \union T) /\ t \in Seq(S \union T)
  BY <1>1, <1>2
<1>4. s \o t \in Seq(S \union T)
  BY <1>3, ConcatProperties
<1> QED BY <1>4 DEF IsSeq

Glued(s, t) == s \o t

LEMMA JoinsRegroup ==
  ASSUME NEW s, NEW t, NEW u, IsSeq(s), IsSeq(t), IsSeq(u)
  PROVE  Glued(Glued(s, t), u) = Glued(s, Glued(t, u))
<1>1. PICK S : s \in Seq(S)
  BY DEF IsSeq
<1>2. PICK T : t \in Seq(T)
  BY DEF IsSeq
<1>3. PICK U : u \in Seq(U)
  BY DEF IsSeq
<1> DEFINE A == S \union T \union U
<1>4. s \in Seq(A) /\ t \in Seq(A) /\ u \in Seq(A)
  BY <1>1, <1>2, <1>3
<1> HIDE DEF A
<1> QED BY <1>4, ConcatAssociative DEF Glued

LEMMA OneMore ==
  ASSUME NEW s, NEW x, IsSeq(s)
  PROVE  IsSeq(<<x>>) /\ Append(s, x) = s \o <<x>> /\ IsSeq(Append(s, x))
<1>1. PICK S : s \in Seq(S)
  BY DEF IsSeq
<1> DEFINE A == S \union {x}
<1>2. s \in Seq(A) /\ x \in A /\ <<x>> \in Seq(A)
  BY <1>1
<1> HIDE DEF A
<1>3. Append(s, x) = s \o <<x>>
  BY <1>2, AppendIsConcat
<1>4. Append(s, x) \in Seq(A)
  BY <1>2, AppendProperties
<1> QED BY <1>2, <1>3, <1>4 DEF IsSeq

\* What is gathered later comes behind what was gathered before.
LEMMA EventsAhead ==
  ASSUME NEW p, NEW q, NEW E, NEW R, Ahead(p, q, E, R), NEW s, IsSeq(s)
  PROVE  Ahead([p EXCEPT !.ev = @ \o s], [q EXCEPT !.ev = @ \o s], E, R)
<1> DEFINE pp == [p EXCEPT !.ev = @ \o s]
           qq == [q EXCEPT !.ev = @ \o s]
<1>1. pp.ev = p.ev \o s /\ qq.ev = q.ev \o s /\ IsSeq(pp.ev) /\ IsSeq(qq.ev) /\ pp.ev = E \o qq.ev
  <2>1. pp.ev = p.ev \o s /\ qq.ev = q.ev \o s
    BY DEF Ahead, IsParser, Fields
  <2>2. IsSeq(p.ev \o s) /\ IsSeq(q.ev \o s)
    BY JoinIsSeq DEF Ahead, IsParser
  <2>3. (E \o q.ev) \o s = E \o (q.ev \o s)
    <3>1. IsSeq(E) /\ IsSeq(q.ev)
      BY DEF Ahead, IsParser
    <3>2. Glued(Glued(E, q.ev), s) = Glued(E, Glued(q.ev, s))
      BY <3>1, JoinsRegroup
    <3> QED BY <3>2, Zenon DEF Glued
  <2>4. p.ev = E \o q.ev
    BY DEF Ahead
  <2> HIDE DEF pp, qq
  <2> QED BY <2>1, <2>2, <2>3, <2>4
<1>2. /\ DOMAIN pp = DOMAIN p /\ DOMAIN qq = DOMAIN q
      /\ \A f \in Fields : f # "ev" => pp[f] = p[f] /\ qq[f] = q[f]
  BY DEF Ahead, IsParser
<1> HIDE DEF pp, qq
<1> QED BY <1>1, <1>2, Zenon DEF Ahead, IsParser, Fields, Carried

LEMMA ReadingsAhead ==
  ASSUME NEW p, NEW q, NEW E, NEW R, Ahead(p, q, E, R), NEW s, IsSeq(s)
  PROVE  Ahead([p EXCEPT !.readings = @ \o s], [q EXCEPT !.readings = @ \o s], E, R)
<1> DEFINE pp == [p EXCEPT !.readings = @ \o s]
           qq == [q EXCEPT !.readings = @ \o s]
<1>1. pp.readings = p.readings \o s /\ qq.readings = q.readings \o s /\ IsSeq(pp.readings) /\ IsSeq(qq.readings) /\ pp.readings = R \o qq.readings
  <2>1. pp.readings = p.readings \o s /\ qq.readings = q.readings \o s
    BY DEF Ahead, IsParser, Fields
  <2>2. IsSeq(p.readings \o s) /\ IsSeq(q.readings \o s)
    BY JoinIsSeq DEF Ahead, IsParser
  <2>3. (R \o q.readings) \o s = R \o (q.readings \o s)
    <3>1. IsSeq(R) /\ IsSeq(q.readings)
      BY DEF Ahead, IsParser
    <3>2. Glued(Glued(R, q.readings), s) = Glued(R, Glued(q.readings, s))
      BY <3>1, JoinsRegroup
    <3> QED BY <3>2, Zenon DEF Glued
  <2>4. p.readings = R \o q.readings
    BY DEF Ahead
  <2> HIDE DEF pp, qq
  <2> QED BY <2>1, <2>2, <2>3, <2>4
<1>2. /\ DOMAIN pp = DOMAIN p /\ DOMAIN qq = DOMAIN q
      /\ \A f \in Fields : f # "readings" => pp[f] = p[f] /\ qq[f] = q[f]
  BY DEF Ahead, IsParser
<1> HIDE DEF pp, qq
<1> QED BY <1>1, <1>2, Zenon DEF Ahead, IsParser, Fields, Carried

\* The same value carried, or any seeds.
LEMMA CarriedAhead ==
  ASSUME NEW p, NEW q, NEW E, NEW R, Ahead(p, q, E, R),
         NEW c \in Carried, NEW v, c = "oor" => v \in BOOLEAN
  PROVE  Ahead([p EXCEPT ![c] = v], [q EXCEPT ![c] = v], E, R)
<1> DEFINE pp == [p EXCEPT ![c] = v]
           qq == [q EXCEPT ![c] = v]
<1>1. pp[c] = v /\ qq[c] = v
  BY DEF Ahead, IsParser, Fields
<1>2. /\ DOMAIN pp = DOMAIN p /\ DOMAIN qq = DOMAIN q
      /\ \A g \in Fields : g # c => pp[g] = p[g] /\ qq[g] = q[g]
  BY DEF Ahead, IsParser
<1> HIDE DEF pp, qq
<1>3. \A g \in Carried : pp[g] = qq[g]
  BY <1>1, <1>2, Zenon DEF Ahead, Fields
<1>4. pp.ev = p.ev /\ qq.ev = q.ev /\ pp.readings = p.readings /\ qq.readings = q.readings
  BY <1>2 DEF Fields, Carried
<1>5. pp.oor \in BOOLEAN /\ qq.oor \in BOOLEAN
  BY <1>1, <1>2 DEF Fields, Carried, Ahead, IsParser
<1>6. IsParser(pp) /\ IsParser(qq)
  BY <1>2, <1>4, <1>5 DEF Ahead, IsParser
<1>7. p.ev = E \o q.ev /\ p.readings = R \o q.readings /\ IsSeq(E) /\ IsSeq(R)
  BY DEF Ahead
<1>8. pp.ev = E \o qq.ev /\ pp.readings = R \o qq.readings
  BY <1>4, <1>7
<1>9. Ahead(pp, qq, E, R)
  BY <1>3, <1>6, <1>7, <1>8, Zenon DEF Ahead
<1> QED BY <1>9 DEF pp, qq

LEMMA SeedsAhead ==
  ASSUME NEW p, NEW q, NEW E, NEW R, Ahead(p, q, E, R), NEW v
  PROVE  Ahead([p EXCEPT !.seedLines = v], q, E, R) /\ Ahead(p, [q EXCEPT !.seedLines = v], E, R)
<1> DEFINE pp == [p EXCEPT !.seedLines = v]
           qq == [q EXCEPT !.seedLines = v]
<1>1. /\ DOMAIN pp = DOMAIN p /\ DOMAIN qq = DOMAIN q
      /\ \A g \in Fields : g # "seedLines" => pp[g] = p[g] /\ qq[g] = q[g]
  BY DEF Ahead, IsParser
<1> HIDE DEF pp, qq
<1>2. Ahead(pp, q, E, R)
  BY <1>1, Zenon DEF Ahead, IsParser, Fields, Carried
<1>3. Ahead(p, qq, E, R)
  BY <1>1, Zenon DEF Ahead, IsParser, Fields, Carried
<1> QED BY <1>2, <1>3 DEF pp, qq

\* An event marked on the same condition.
LEMMA MarkAhead ==
  ASSUME NEW p, NEW q, NEW E, NEW R, Ahead(p, q, E, R), NEW l, NEW c, NEW d, NEW what, c <=> d
  PROVE  Ahead(Mark(p, l, c, what), Mark(q, l, d, what), E, R)
<1> DEFINE x == <<l.tod, what>>
<1>1. CASE ~c
  <2>1. ~d
    BY <1>1
  <2> QED BY <1>1, <2>1 DEF Mark
<1>2. CASE c
  <2>1. IsSeq(<<x>>) /\ Append(p.ev, x) = p.ev \o <<x>> /\ Append(q.ev, x) = q.ev \o <<x>>
    BY OneMore DEF Ahead, IsParser
  <2>2. Ahead([p EXCEPT !.ev = @ \o <<x>>], [q EXCEPT !.ev = @ \o <<x>>], E, R)
    BY <2>1, EventsAhead
  <2>3. d
    BY <1>2
  <2>4. Mark(p, l, c, what) = [p EXCEPT !.ev = @ \o <<x>>]
    BY <1>2, <2>1 DEF Mark
  <2>5. Mark(q, l, d, what) = [q EXCEPT !.ev = @ \o <<x>>]
    BY <2>3, <2>1 DEF Mark
  <2> QED BY <2>2, <2>4, <2>5
<1> QED BY <1>1, <1>2

LEMMA ReadingAhead ==
  ASSUME NEW p, NEW q, NEW E, NEW R, Ahead(p, q, E, R), NEW l, NEW name, NEW v
  PROVE  Ahead(Reading(p, l, name, v), Reading(q, l, name, v), E, R)
<1> DEFINE x == <<name, l.tod, l.dev, v>>
<1>1. IsSeq(<<x>>) /\ Append(p.readings, x) = p.readings \o <<x>> /\ Append(q.readings, x) = q.readings \o <<x>>
  BY OneMore DEF Ahead, IsParser
<1>2. Ahead([p EXCEPT !.readings = @ \o <<x>>], [q EXCEPT !.readings = @ \o <<x>>], E, R)
  BY <1>1, ReadingsAhead
<1> QED BY <1>1, <1>2 DEF Reading

LEMMA RoleAhead ==
  ASSUME NEW p, NEW q, NEW E, NEW R, Ahead(p, q, E, R), NEW l
  PROVE  Ahead(Role(p, l), Role(q, l), E, R)
<1>1. p.role = q.role
  BY DEF Ahead, Carried
<1>2. Ahead(Mark(p, l, p.role \notin {Nil, l.role}, "role"), Mark(q, l, q.role \notin {Nil, l.role}, "role"), E, R)
  BY <1>1, MarkAhead
<1> QED BY <1>2, CarriedAhead DEF Role, Carried

\* Whatever the line, two parsers that carry the same go on to carry the same, and what
\* they gather they add behind what they had.
LEMMA LineAhead ==
  ASSUME NEW p, NEW q, NEW E, NEW R, Ahead(p, q, E, R), NEW l \in Lines
  PROVE  Ahead(ParseLine(p, l), ParseLine(q, l), E, R)
<1> DEFINE a == Role(p, l)
           b == Role(q, l)
<1>0. Ahead(a, b, E, R)
  BY RoleAhead
<1> HIDE DEF a, b
<1>s. a.oor = b.oor /\ a.oorT = b.oorT /\ a.dlmode = b.dlmode /\ a.dlmodeT = b.dlmodeT /\ a.tau = b.tau
      /\ a.tauT = b.tauT /\ a.trim = b.trim /\ a.resync = b.resync /\ a.pipe = b.pipe /\ a.peers = b.peers
  BY <1>0 DEF Ahead, Carried
<1>1. Ahead(AudioWindow(a, l), AudioWindow(b, l), E, R)
  BY <1>0, ReadingAhead DEF AudioWindow
<1>2. Ahead(OutOfRange(a, l), OutOfRange(b, l), E, R)
  <2> DEFINE c == (a.oorT # Nil /\ l.tod < a.oorT) \/ ~a.oor
             d == (b.oorT # Nil /\ l.tod < b.oorT) \/ ~b.oor
             m == Mark(a, l, c, "oor")
             n == Mark(b, l, d, "oor")
  <2>1. Ahead(m, n, E, R)
    <3>1. c <=> d
      BY <1>s
    <3> QED BY <1>0, <3>1, MarkAhead
  <2> HIDE DEF m, n
  <2>2. Ahead([m EXCEPT !.oor = TRUE], [n EXCEPT !.oor = TRUE], E, R)
    BY <2>1, CarriedAhead DEF Carried
  <2>3. Ahead([[m EXCEPT !.oor = TRUE] EXCEPT !.oorT = l.tod], [[n EXCEPT !.oor = TRUE] EXCEPT !.oorT = l.tod], E, R)
    BY <2>2, CarriedAhead DEF Carried
  <2> QED BY <2>3 DEF OutOfRange, m, n
<1>3. Ahead(DelayLoop(a, l), DelayLoop(b, l), E, R)
  <2>1. Ahead(Reading(a, l, "dl_err", l.v), Reading(b, l, "dl_err", l.v), E, R)
    BY <1>0, ReadingAhead
  <2> QED BY <2>1, CarriedAhead DEF DelayLoop, Carried
<1>4. Ahead(DelayMode(a, l), DelayMode(b, l), E, R)
  <2> DEFINE back(x)  == x.dlmodeT # Nil /\ l.tod < x.dlmodeT
             set(x)  == IF back(x) THEN Nil ELSE x.dlmode
             since(x) == IF back(x) THEN Nil ELSE x.dlmodeT
             due(x)   == l.v # set(x) /\ (since(x) = Nil \/ l.tod - since(x) >= DlEvent)
             m == Mark(a, l, due(a), "dlloop")
             n == Mark(b, l, due(b), "dlloop")
             t == IF due(a) THEN l.tod ELSE since(a)
             u == IF due(b) THEN l.tod ELSE since(b)
  <2>1. due(a) <=> due(b)
    BY <1>s
  <2>2. t = u
    BY <1>s
  <2>3. Ahead(m, n, E, R)
    <3> HIDE DEF due
    <3> QED BY <1>0, <2>1, MarkAhead
  <2> HIDE DEF m, n, t, u, due
  <2>4. Ahead([m EXCEPT !.dlmode = l.v], [n EXCEPT !.dlmode = l.v], E, R)
    BY <2>3, CarriedAhead DEF Carried
  <2>5. Ahead([[m EXCEPT !.dlmode = l.v] EXCEPT !.dlmodeT = t], [[n EXCEPT !.dlmode = l.v] EXCEPT !.dlmodeT = u], E, R)
    BY <2>2, <2>4, CarriedAhead DEF Carried
  <2> QED BY <2>5 DEF DelayMode, m, n, t, u, due
<1>5. Ahead(ServoParam(a, l), ServoParam(b, l), E, R)
  BY <1>0, MarkAhead DEF ServoParam
<1>6. Ahead(ServoTune(a, l), ServoTune(b, l), E, R)
  <2> DEFINE tau(x) == IF x.tauT # Nil /\ l.tod < x.tauT THEN Nil ELSE x.tau
             m == Mark(a, l, l.v # tau(a), "servotune")
             n == Mark(b, l, l.v # tau(b), "servotune")
  <2>1. Ahead(m, n, E, R)
    <3>1. tau(a) = tau(b)
      BY <1>s
    <3> HIDE DEF tau
    <3> QED BY <1>0, <3>1, MarkAhead
  <2> HIDE DEF m, n
  <2>2. Ahead([m EXCEPT !.tau = l.v], [n EXCEPT !.tau = l.v], E, R)
    BY <2>1, CarriedAhead DEF Carried
  <2>3. Ahead([[m EXCEPT !.tau = l.v] EXCEPT !.tauT = l.tod], [[n EXCEPT !.tau = l.v] EXCEPT !.tauT = l.tod], E, R)
    BY <2>2, CarriedAhead DEF Carried
  <2> QED BY <2>3 DEF ServoTune, m, n
<1>7. Ahead(RenderPhase(a, l), RenderPhase(b, l), E, R)
  <2>1. CASE l.v = Nil
    BY <1>0, <2>1 DEF RenderPhase
  <2>2. CASE l.v # Nil
    <3> DEFINE x == <<"rphase", l.tod, l.v, l.dev>>
    <3>1. IsSeq(<<x>>) /\ Append(a.readings, x) = a.readings \o <<x>> /\ Append(b.readings, x) = b.readings \o <<x>>
      BY <1>0, OneMore DEF Ahead, IsParser
    <3>2. Ahead([a EXCEPT !.readings = @ \o <<x>>], [b EXCEPT !.readings = @ \o <<x>>], E, R)
      BY <1>0, <3>1, ReadingsAhead
    <3> QED BY <2>2, <3>1, <3>2 DEF RenderPhase
  <2> QED BY <2>1, <2>2
<1>8. Ahead(Believed(a, l), Believed(b, l), E, R)
  BY <1>0, ReadingAhead DEF Believed
<1>9. Ahead(Inject(a, l), Inject(b, l), E, R)
  BY <1>0, ReadingAhead DEF Inject
<1>10. Ahead(Repair(a, l), Repair(b, l), E, R)
  BY <1>0, ReadingAhead DEF Repair
<1>11. Ahead(SeedDrain(a, l), SeedDrain(b, l), E, R)
  <2> DEFINE c == SeedDrain(a, l)
             d == SeedDrain(b, l)
  <2>1. c = a \/ \E v : c = [a EXCEPT !.seedLines = v]
    BY DEF SeedDrain
  <2>2. d = b \/ \E v : d = [b EXCEPT !.seedLines = v]
    BY DEF SeedDrain
  <2> HIDE DEF c, d
  <2>3. Ahead(c, b, E, R)
    <3>1. ASSUME NEW v, c = [a EXCEPT !.seedLines = v] PROVE Ahead(c, b, E, R)
      BY <1>0, <3>1, SeedsAhead
    <3> QED BY <1>0, <2>1, <3>1
  <2>4. Ahead(c, d, E, R)
    <3>1. ASSUME NEW v, d = [b EXCEPT !.seedLines = v] PROVE Ahead(c, d, E, R)
      BY <2>3, <3>1, SeedsAhead
    <3> QED BY <2>2, <2>3, <3>1
  <2> QED BY <2>4 DEF c, d
<1>12. Ahead(SeedAnchor(a, l), SeedAnchor(b, l), E, R)
  <2> DEFINE c == [a EXCEPT !.seedLines = Append(a.seedLines, <<l.tod, l.v, Nil>>)]
  <2>1. Ahead(c, b, E, R)
    BY <1>0, SeedsAhead
  <2> HIDE DEF c
  <2>2. Ahead(c, [b EXCEPT !.seedLines = Append(b.seedLines, <<l.tod, l.v, Nil>>)], E, R)
    BY <2>1, SeedsAhead
  <2> QED BY <2>2 DEF SeedAnchor, c
<1>13. Ahead(Burst(a, l), Burst(b, l), E, R)
  BY <1>0, ReadingAhead DEF Burst
<1>14. ASSUME l.kind = "preburst"
       PROVE  Ahead(PreBurst(a, l), PreBurst(b, l), E, R)
  <2>1. IsSeq(BurstChunks(l))
    <3> DEFINE n == Len(l.v.gaps)
               chunk(i) == <<"rsync", l.tod, FoldLeft(LAMBDA x, y : x + y, l.dev, SubSeq(l.v.gaps, 2, i)), i>>
               all == [i \in 1..n |-> chunk(i)]
    <3>1. n \in Nat
      BY <1>14, TailAssumption
    <3> HIDE DEF n, chunk
    <3>2. all \in Seq({chunk(i) : i \in 1..n})
      BY <3>1
    <3> HIDE DEF all
    <3> QED BY <3>2, Zenon DEF IsSeq, BurstChunks, all, chunk, n
  <2> QED BY <1>0, <2>1, ReadingsAhead DEF PreBurst
<1>20. ASSUME NEW x, NEW y, Ahead(x, y, E, R), NEW v
       PROVE  Ahead(Trim(x, l, v), Trim(y, l, v), E, R) /\ Ahead(Pipeline(x, l, v), Pipeline(y, l, v), E, R)
  <2>1. x.trim = y.trim /\ x.pipe = y.pipe
    BY <1>20 DEF Ahead, Carried
  <2>2. Ahead(Mark(x, l, x.trim # Nil /\ Far(v, x.trim, TrimPpm), "trim"), Mark(y, l, y.trim # Nil /\ Far(v, y.trim, TrimPpm), "trim"), E, R)
    BY <1>20, <2>1, MarkAhead
  <2>3. Ahead(Mark(x, l, x.pipe # Nil /\ Far(v, x.pipe, PipeMs), "pipeline"), Mark(y, l, y.pipe # Nil /\ Far(v, y.pipe, PipeMs), "pipeline"), E, R)
    BY <1>20, <2>1, MarkAhead
  <2> QED BY <2>2, <2>3, CarriedAhead DEF Trim, Pipeline, Carried
<1>15. Ahead(Steering(a, l), Steering(b, l), E, R)
  <2> DEFINE c == l.v.samples = 0 \/ l.v.railed
             w == IF l.v.samples = 0 THEN "trimstop" ELSE "trimrail"
  <2>1. Ahead(Mark(a, l, c, w), Mark(b, l, c, w), E, R)
    BY <1>0, MarkAhead
  <2> QED BY <1>20, <2>1 DEF Steering
<1>16. Ahead(NoRateLock(a, l), NoRateLock(b, l), E, R)
  BY <1>0, MarkAhead DEF NoRateLock
<1>17. Ahead(SyncExtra(a, l), SyncExtra(b, l), E, R)
  <2> DEFINE m == Pipeline(a, l, l.v.pipe)
             n == Pipeline(b, l, l.v.pipe)
  <2>1. Ahead(m, n, E, R)
    BY <1>0, <1>20
  <2>2. m.peers = n.peers
    BY <2>1 DEF Ahead, Carried
  <2> HIDE DEF m, n
  <2>3. Ahead(Mark(m, l, m.peers \notin {Nil, l.v.peers}, "consensus"), Mark(n, l, n.peers \notin {Nil, l.v.peers}, "consensus"), E, R)
    BY <2>1, <2>2, MarkAhead
  <2> QED BY <2>1, <2>3, CarriedAhead DEF SyncExtra, Carried, m, n
<1>18. Ahead(RenderTag(a, l), RenderTag(b, l), E, R)
  BY <1>0, MarkAhead DEF RenderTag
<1>19. Ahead(PhaseIn(a, l), PhaseIn(b, l), E, R)
  BY <1>0, MarkAhead DEF PhaseIn
<1>21. Ahead(Sync(a, l), Sync(b, l), E, R)
  <2> DEFINE m(x) == Mark(x, l, Far(l.v.median, 0, SyncUs), "sync")
             n(x) == IF l.v.pipe = Nil THEN m(x) ELSE Pipeline(m(x), l, l.v.pipe)
             o(x) == Mark(n(x), l, l.v.corrected, "corrected")
             h(x) == HardResyncs(o(x), l)
  <2>1. Ahead(m(a), m(b), E, R)
    BY <1>0, MarkAhead
  <2> HIDE DEF m
  <2>2. Ahead(n(a), n(b), E, R)
    BY <2>1, <1>20
  <2> HIDE DEF n
  <2>3. Ahead(o(a), o(b), E, R)
    BY <2>2, MarkAhead
  <2> HIDE DEF o
  <2>4. o(a).resync = o(b).resync
    BY <2>3 DEF Ahead, Carried
  <2>5. Ahead(h(a), h(b), E, R)
    <3> DEFINE r(x) == x.resync # Nil /\ l.v.resyncs > x.resync
    <3>1. r(o(a)) <=> r(o(b))
      BY <2>4
    <3>2. Ahead(Mark(o(a), l, r(o(a)), "resync"), Mark(o(b), l, r(o(b)), "resync"), E, R)
      <4> HIDE DEF r
      <4> QED BY <2>3, <3>1, MarkAhead
    <3> QED BY <3>2, CarriedAhead DEF HardResyncs, Carried
  <2> HIDE DEF h
  <2>6. Ahead(IF l.v.trim = Nil THEN h(a) ELSE Trim(h(a), l, l.v.trim), IF l.v.trim = Nil THEN h(b) ELSE Trim(h(b), l, l.v.trim), E, R)
    BY <2>5, <1>20
  <2> QED BY <2>6 DEF Sync, h, o, n, m
<1>22. Ahead(Temperature(a, l), Temperature(b, l), E, R)
  BY <1>0, ReadingAhead DEF Temperature
<1> DEFINE kinds == {"window", "oor", "dl", "mode", "param", "tune", "rphase", "believed", "inject", "repair",
                     "drain", "anchor", "burst", "preburst", "steering", "nolock", "syncx", "tag", "phasein",
                     "sync", "temp"}
<1>23. CASE l.kind \notin kinds
  <2>1. ParseLine(p, l) = a /\ ParseLine(q, l) = b
    BY <1>23 DEF ParseLine, a, b
  <2> QED BY <1>0, <2>1
<1>24. CASE l.kind \in kinds
  BY <1>1, <1>2, <1>3, <1>4, <1>5, <1>6, <1>7, <1>8, <1>9, <1>10, <1>11, <1>12, <1>13, <1>14, <1>15, <1>16,
     <1>17, <1>18, <1>19, <1>21, <1>22, <1>24 DEF ParseLine, a, b
<1> QED BY <1>23, <1>24

------------------------------------------------------------------------------
\* The parser line by line.
Passes(p, s, n, f) == f = [i \in 0..n |-> IF i = 0 THEN p ELSE ParseLine(f[i - 1], s[i].line)]

LEMMA PassesExist ==
  ASSUME NEW p, NEW s, NEW n \in Nat
  PROVE  \E f : Passes(p, s, n, f)
<1> DEFINE S == {m \in Nat : \E f : Passes(p, s, m, f)}
<1>1. 0 \in S
  <2>1. Passes(p, s, 0, [i \in 0..0 |-> p])
    BY DEF Passes
  <2> QED BY <2>1
<1>2. ASSUME NEW m \in Nat, m \in S
      PROVE  m + 1 \in S
  <2>1. PICK f : Passes(p, s, m, f)
    BY <1>2
  <2> DEFINE g == [i \in 0..m + 1 |-> IF i = 0 THEN p ELSE ParseLine(f[i - 1], s[i].line)]
  <2>2. \A i \in 0..m : g[i] = f[i]
    BY <2>1 DEF Passes
  <2>3. g = [i \in 0..m + 1 |-> IF i = 0 THEN p ELSE ParseLine(g[i - 1], s[i].line)]
    <3> HIDE DEF g
    <3>1. \A i \in 0..m + 1 : i # 0 => g[i - 1] = f[i - 1]
      BY <2>2
    <3> QED BY <3>1 DEF g
  <2> HIDE DEF g
  <2> QED BY <2>3 DEF Passes
<1> HIDE DEF S
<1>3. Nat \subseteq S
  BY <1>1, <1>2, SetInduction
<1> QED BY <1>3 DEF S

LEMMA ParseIs ==
  ASSUME NEW p, NEW s, Len(s) \in Nat
  PROVE  \E f : Passes(p, s, Len(s), f) /\ Parse(p, s) = f[Len(s)]
<1> DEFINE after == CHOOSE f : f = [i \in 0..Len(s) |-> IF i = 0 THEN p ELSE ParseLine(f[i - 1], s[i].line)]
<1>1. Passes(p, s, Len(s), after)
  <2>1. \E f : f = [i \in 0..Len(s) |-> IF i = 0 THEN p ELSE ParseLine(f[i - 1], s[i].line)]
    <3>1. PICK f : Passes(p, s, Len(s), f)
      BY PassesExist
    <3> QED BY <3>1 DEF Passes
  <2> QED BY <2>1, Zenon DEF Passes
<1>2. Parse(p, s) = after[Len(s)]
  BY DEF Parse
<1> QED BY <1>1, <1>2

LEMMA ParseNone == ASSUME NEW p PROVE Parse(p, <<>>) = p
<1>1. PICK f : Passes(p, <<>>, Len(<<>>), f) /\ Parse(p, <<>>) = f[Len(<<>>)]
  BY ParseIs
<1> QED BY <1>1 DEF Passes

LEMMA ParseJoin ==
  ASSUME NEW A, NEW p, NEW s \in Seq(A), NEW t \in Seq(A)
  PROVE  Parse(p, s \o t) = Parse(Parse(p, s), t)
<1> DEFINE u == s \o t
           n == Len(s)
           m == Len(t)
<1>1. /\ n \in Nat /\ m \in Nat /\ Len(u) = n + m
      /\ \A i \in 1..n + m : u[i] = IF i <= n THEN s[i] ELSE t[i - n]
  BY ConcatProperties
<1> HIDE DEF u, n, m
<1>2. \A i \in 1..n : u[i] = s[i]
  BY <1>1
<1>3. \A i \in 1..m : u[n + i] = t[i]
  <2> SUFFICES ASSUME NEW i \in 1..m PROVE u[n + i] = t[i]
    OBVIOUS
  <2>1. n + i \in 1..n + m /\ ~(n + i <= n) /\ n + i - n = i
    BY <1>1
  <2> QED BY <1>1, <2>1
<1>4. PICK f : Passes(p, s, n, f) /\ Parse(p, s) = f[n]
  BY <1>1, ParseIs DEF n
<1>5. PICK g : Passes(f[n], t, m, g) /\ Parse(f[n], t) = g[m]
  BY <1>1, ParseIs DEF m
<1>6. PICK h : Passes(p, u, Len(u), h) /\ Parse(p, u) = h[Len(u)]
  BY <1>1, ParseIs
<1> DEFINE S == {x \in Nat : x \in 0..n => h[x] = f[x]}
           T == {x \in Nat : x \in 0..m => h[n + x] = g[x]}
<1>7. Nat \subseteq S
  <2>1. 0 \in S
    BY <1>4, <1>6 DEF Passes
  <2>2. ASSUME NEW x \in Nat, x \in S PROVE x + 1 \in S
    <3> SUFFICES ASSUME x + 1 \in 0..n PROVE h[x + 1] = f[x + 1]
      BY <2>2
    <3>1. x \in 0..n /\ x + 1 \in 0..Len(u) /\ x + 1 # 0 /\ x + 1 - 1 = x /\ x + 1 \in 1..n
      BY <1>1
    <3>2. h[x + 1] = ParseLine(h[x], u[x + 1].line) /\ f[x + 1] = ParseLine(f[x], s[x + 1].line)
      BY <1>1, <1>2, <1>4, <1>5, <1>6, <3>1 DEF Passes
    <3> QED BY <1>2, <2>2, <3>1, <3>2
  <2> HIDE DEF S
  <2> QED BY <2>1, <2>2, SetInduction
<1>8. Nat \subseteq T
  <2>1. 0 \in T
    <3>1. h[n] = f[n] /\ n + 0 = n
      BY <1>1, <1>7
    <3>2. g[0] = f[n]
      BY <1>1, <1>5 DEF Passes
    <3> QED BY <3>1, <3>2
  <2>2. ASSUME NEW x \in Nat, x \in T PROVE x + 1 \in T
    <3> SUFFICES ASSUME x + 1 \in 0..m PROVE h[n + (x + 1)] = g[x + 1]
      BY <2>2
    <3>1. /\ x \in 0..m /\ n + (x + 1) \in 0..Len(u) /\ n + (x + 1) # 0 /\ n + (x + 1) - 1 = n + x
          /\ x + 1 \in 1..m /\ x + 1 # 0 /\ x + 1 - 1 = x
      BY <1>1
    <3>2. h[n + (x + 1)] = ParseLine(h[n + x], u[n + (x + 1)].line)
      <4> DEFINE y == n + (x + 1)
      <4>1. y \in 0..Len(u) /\ y # 0 /\ y - 1 = n + x
        BY <1>1, <3>1
      <4> HIDE DEF y
      <4>2. h[y] = ParseLine(h[y - 1], u[y].line)
        BY <1>6, <4>1 DEF Passes
      <4> QED BY <4>1, <4>2 DEF y
    <3>3. g[x + 1] = ParseLine(g[x], t[x + 1].line)
      BY <1>5, <3>1 DEF Passes
    <3> QED BY <1>3, <2>2, <3>1, <3>2, <3>3
  <2> HIDE DEF T
  <2> QED BY <2>1, <2>2, SetInduction
<1>9. h[Len(u)] = g[m]
  <2>1. m \in T /\ m \in 0..m
    BY <1>1, <1>8
  <2> QED BY <1>1, <2>1
<1> QED BY <1>4, <1>5, <1>6, <1>9 DEF u

LEMMA ParseAhead ==
  ASSUME NEW s \in Seq([line : Lines, id : Nat]), NEW p, NEW q, NEW E, NEW R, Ahead(p, q, E, R)
  PROVE  Ahead(Parse(p, s), Parse(q, s), E, R)
<1>1. Len(s) \in Nat /\ \A i \in 1..Len(s) : s[i].line \in Lines
  <2>1. \A i \in 1..Len(s) : s[i] \in [line : Lines, id : Nat]
    BY ElementOfSeq
  <2> QED BY <2>1
<1>2. PICK f : Passes(p, s, Len(s), f) /\ Parse(p, s) = f[Len(s)]
  BY <1>1, ParseIs
<1>3. PICK g : Passes(q, s, Len(s), g) /\ Parse(q, s) = g[Len(s)]
  BY <1>1, ParseIs
<1> DEFINE n == Len(s)
           S == {x \in Nat : x \in 0..n => Ahead(f[x], g[x], E, R)}
<1>4. 0 \in S
  <2>1. f[0] = p /\ g[0] = q
    BY <1>1, <1>2, <1>3 DEF Passes
  <2> QED BY <2>1
<1>5. ASSUME NEW x \in Nat, x \in S PROVE x + 1 \in S
  <2> SUFFICES ASSUME x + 1 \in 0..n PROVE Ahead(f[x + 1], g[x + 1], E, R)
    BY <1>5
  <2>1. x \in 0..n /\ x + 1 # 0 /\ x + 1 - 1 = x /\ x + 1 \in 1..n
    BY <1>1
  <2>2. f[x + 1] = ParseLine(f[x], s[x + 1].line) /\ g[x + 1] = ParseLine(g[x], s[x + 1].line)
    <3>1. Passes(p, s, n, f) /\ Passes(q, s, n, g)
      BY <1>2, <1>3
    <3> HIDE DEF n
    <3> QED BY <2>1, <3>1 DEF Passes
  <2>3. s[x + 1].line \in Lines /\ Ahead(f[x], g[x], E, R)
    BY <1>1, <1>5, <2>1
  <2> QED BY <2>2, <2>3, LineAhead
<1> HIDE DEF S
<1>6. Nat \subseteq S
  BY <1>4, <1>5, SetInduction
<1> QED BY <1>1, <1>2, <1>3, <1>6 DEF S

LEMMA FreshIs == IsParser(Fresh) /\ Fresh.ev = <<>> /\ Fresh.readings = <<>> /\ Fresh.seedLines = <<>>
<1>1. IsSeq(<<>>)
  BY DEF IsSeq
<1>2. DOMAIN Fresh = Fields
  BY DEF Fresh, Fields, Carried
<1>3. Fresh.ev = <<>> /\ Fresh.readings = <<>> /\ Fresh.seedLines = <<>> /\ Fresh.oor = FALSE
  BY DEF Fresh
<1> QED BY <1>1, <1>2, <1>3 DEF IsParser

\* What is kept of a parser is the parser without what it gathered.
LEMMA SavedIs ==
  ASSUME NEW p, IsParser(p)
  PROVE  /\ IsParser(Saved(p)) /\ \A f \in Carried : Saved(p)[f] = p[f]
         /\ Saved(p).ev = <<>> /\ Saved(p).readings = <<>> /\ Saved(p).seedLines = <<>>
<1> DEFINE s == Saved(p)
<1>1. /\ DOMAIN s = Fields /\ s.ev = <<>> /\ s.readings = <<>> /\ s.seedLines = <<>>
      /\ \A f \in Carried : s[f] = p[f]
  BY DEF IsParser, Fields, Carried, Saved
<1> HIDE DEF s
<1>2. IsSeq(<<>>)
  BY DEF IsSeq
<1>3. s.oor \in BOOLEAN
  BY <1>1 DEF IsParser, Carried
<1>4. IsParser(s)
  BY <1>1, <1>2, <1>3 DEF IsParser
<1> QED BY <1>1, <1>4 DEF s

\* A parser that carries the same and has gathered nothing.
LEMMA AheadOfClean ==
  ASSUME NEW p, NEW q, IsParser(p), IsParser(q), \A f \in Carried : p[f] = q[f],
         q.ev = <<>>, q.readings = <<>>
  PROVE  Ahead(p, q, p.ev, p.readings)
<1>1. IsSeq(p.ev) /\ IsSeq(p.readings)
  BY DEF IsParser
<1>2. p.ev \o <<>> = p.ev
  <2>1. PICK S : p.ev \in Seq(S)
    BY <1>1 DEF IsSeq
  <2> QED BY <2>1, ConcatEmptySeq
<1>3. p.readings \o <<>> = p.readings
  <2>1. PICK S : p.readings \in Seq(S)
    BY <1>1 DEF IsSeq
  <2> QED BY <2>1, ConcatEmptySeq
<1> QED BY <1>1, <1>2, <1>3 DEF Ahead

LEMMA OnePassIsParser ==
  ASSUME NEW s \in Seq([line : Lines, id : Nat])
  PROVE  IsParser(OnePass(s))
<1>1. Ahead(Fresh, Fresh, Fresh.ev, Fresh.readings)
  BY FreshIs, AheadOfClean
<1>2. Ahead(Parse(Fresh, s), Parse(Fresh, s), Fresh.ev, Fresh.readings)
  BY <1>1, ParseAhead
<1> QED BY <1>2 DEF OnePass, Ahead

\* One pass over what was read before and what is read now.
LEMMA OnePassGoesOn ==
  ASSUME NEW s \in Seq([line : Lines, id : Nat]), NEW t \in Seq([line : Lines, id : Nat]),
         NEW c, IsParser(c), \A f \in Carried : OnePass(s)[f] = c[f],
         c.ev = <<>>, c.readings = <<>>
  PROVE  Ahead(OnePass(s \o t), Parse(c, t), OnePass(s).ev, OnePass(s).readings)
<1> DEFINE w == OnePass(s)
<1>1. IsParser(w)
  BY OnePassIsParser
<1>2. OnePass(s \o t) = Parse(w, t)
  BY ParseJoin DEF OnePass
<1> HIDE DEF w
<1>3. Ahead(w, c, w.ev, w.readings)
  BY <1>1, AheadOfClean DEF w
<1>4. Ahead(Parse(w, t), Parse(c, t), w.ev, w.readings)
  BY <1>3, ParseAhead
<1> QED BY <1>2, <1>4 DEF w

------------------------------------------------------------------------------
\* Where a poll goes on: behind the last line read, unless the file is another one or was
\* cut off since.
FileInv ==
  /\ written \in 0..MaxLines /\ nextRead \in 0..MaxLines /\ Len(log) <= written
  /\ ino \in 1..MaxFiles /\ ident \in (1..ino) \union {Nil} /\ cut \in BOOLEAN
  /\ phase \in {"start", "live", "replot"} /\ (phase # "start" => ident # Nil)
  /\ ident = ino /\ ~cut /\ nextRead > 0 =>
       nextRead <= Len(log) /\ Len(read) > 0 /\ read[Len(read)] = log[nextRead]

\* What is carried and what was gathered are those of one pass over what was read.
ParseInv ==
  /\ IsParser(carrying) /\ carrying.ev = <<>> /\ carrying.readings = <<>> /\ carrying.seedLines = <<>>
  /\ phase = "start" => carrying = Fresh /\ marks = <<>>
  /\ phase = "live" =>
       /\ \A f \in Carried : OnePass(read)[f] = carrying[f]
       /\ primed \in 0..Len(read) /\ IsSeq(marks)
       /\ OnePass(read).ev = Glued(OnePass(SubSeq(read, 1, primed)).ev, marks)
       /\ OnePass(read).readings = readings

LEMMA FileBegins == TailInit => FileInv /\ ParseInv
<1> SUFFICES ASSUME TailInit PROVE FileInv /\ ParseInv
  OBVIOUS
<1>1. FileInv
  <2>1. /\ log = <<>> /\ ino = 1 /\ written = 0 /\ nextRead = 0 /\ ident = Nil /\ phase = "start" /\ cut = FALSE
        /\ Len(<<>>) = 0
    BY DEF TailInit
  <2>2. Len(log) = 0 /\ MaxLines \in Nat /\ MaxFiles \in Nat \ {0}
    BY <2>1, TailAssumption
  <2>3. written \in 0..MaxLines /\ nextRead \in 0..MaxLines /\ Len(log) <= written
    BY <2>1, <2>2
  <2>4. ino \in 1..MaxFiles /\ ident \in (1..ino) \union {Nil}
    BY <2>1, <2>2
  <2>5. ~(nextRead > 0)
    BY <2>1
  <2> QED BY <2>1, <2>3, <2>4, <2>5, Zenon DEF FileInv
<1>2. carrying = Fresh /\ marks = <<>> /\ phase = "start"
  BY DEF TailInit
<1>3. ParseInv
  BY <1>2, FreshIs, Zenon DEF ParseInv
<1> QED BY <1>1, <1>3

\* A read of the rest of the file leaves the file known to its last line.
LEMMA ReadKnows ==
  ASSUME TailInv, FileInv, NEW from \in Nat, NEW kept \in {<<>>, read},
         \/ kept = <<>> /\ from = 0 /\ cut' \in BOOLEAN
         \/ kept = read /\ from = nextRead /\ phase = "live" /\ cut' = (cut /\ Len(log) >= nextRead),
         UNCHANGED <<log, ino, written>>, nextRead' = Len(log), ident' = ino,
         read' = kept \o SubSeq(log, Tail0(Start(from)) + 1, Len(log)),
         phase' \in {"live", "replot"}
  PROVE  FileInv'
<1> DEFINE first == Tail0(Start(from))
           rest == SubSeq(log, first + 1, Len(log))
<1>1. /\ written \in Nat /\ nextRead \in Nat /\ Len(log) \in Nat /\ Len(read) \in Nat
      /\ log \in Seq([line : Lines, id : Nat]) /\ read \in Seq([line : Lines, id : Nat])
  BY DEF TailInv
<1>2. /\ written' \in 0..MaxLines /\ nextRead' \in 0..MaxLines /\ Len(log)' <= written'
      /\ ino' \in 1..MaxFiles /\ ident' \in (1..ino') \union {Nil} /\ cut' \in BOOLEAN
      /\ phase' \in {"start", "live", "replot"} /\ ident' # Nil
  <2>1. written' = written /\ Len(log') = Len(log) /\ ino' = ino
    OBVIOUS
  <2>2. Len(log) <= written /\ written \in 0..MaxLines /\ ino \in 1..MaxFiles /\ cut \in BOOLEAN
    BY DEF FileInv
  <2>3. Len(log) \in 0..MaxLines /\ ino \in 1..ino /\ ino # Nil
    BY <1>1, <2>2, TailAssumption
  <2>4. cut' \in BOOLEAN
    BY <2>2
  <2> QED BY <2>1, <2>2, <2>3, <2>4
<1>3. ASSUME ~cut', Len(log) > 0
      PROVE  Len(read') > 0 /\ read'[Len(read')] = log[Len(log)]
  <2>1. first \in 0..Len(log)
    BY ReadBegins
  <2>2. /\ rest \in Seq([line : Lines, id : Nat]) /\ Len(rest) = Len(log) - first
        /\ \A i \in 1..Len(rest) : rest[i] = log[first + i]
    <3> HIDE DEF first
    <3> QED BY <2>1, RestIs
  <2>3. kept \in Seq([line : Lines, id : Nat]) /\ Len(kept) \in Nat
    <3>1. CASE kept = <<>>
      BY <3>1
    <3>2. CASE kept = read
      BY <1>1, <3>2
    <3> QED BY <3>1, <3>2
  <2>4. read' = kept \o rest
    OBVIOUS
  <2>5. CASE first < Len(log)
    <3> DEFINE all == kept \o rest
    <3> HIDE DEF rest, first
    <3>1. /\ Len(all) = Len(kept) + Len(rest)
          /\ \A i \in 1..Len(kept) + Len(rest) : all[i] = IF i <= Len(kept) THEN kept[i] ELSE rest[i - Len(kept)]
      BY <2>2, <2>3, ConcatProperties
    <3>2. Len(rest) \in Nat /\ Len(rest) > 0 /\ first + Len(rest) = Len(log)
      BY <1>1, <2>1, <2>2, <2>5
    <3>3. /\ Len(kept) + Len(rest) \in 1..Len(kept) + Len(rest) /\ ~(Len(kept) + Len(rest) <= Len(kept))
          /\ Len(kept) + Len(rest) - Len(kept) = Len(rest) /\ Len(rest) \in 1..Len(rest)
      BY <2>3, <3>2
    <3> HIDE DEF all
    <3>4. Len(all) > 0 /\ all[Len(all)] = rest[Len(rest)]
      BY <2>3, <3>1, <3>2, <3>3
    <3>5. rest[Len(rest)] = log[Len(log)]
      BY <2>2, <3>2, <3>3
    <3> QED BY <2>4, <3>4, <3>5 DEF all
  <2>6. CASE first = Len(log)
    <3>1. Start(from) # 0
      BY <1>1, <1>3, <2>6, TailAssumption DEF Tail0
    <3>2. from # 0 /\ kept = read /\ from = nextRead /\ ident = ino /\ nextRead <= Len(log) /\ first = nextRead
      <4>1. from # 0 /\ Start(from) = from /\ ident \in {Nil, ino} /\ from <= Len(log)
        BY <1>1, <3>1 DEF Start
      <4>2. kept = read /\ from = nextRead /\ phase = "live"
        BY <4>1
      <4>3. Tail0(Start(from)) = from
        BY <4>1 DEF Tail0
      <4>4. ident # Nil
        BY <4>2 DEF FileInv
      <4> QED BY <4>1, <4>2, <4>3, <4>4
    <3>3. ~cut /\ nextRead > 0 /\ nextRead = Len(log)
      BY <1>1, <1>3, <2>6, <3>1, <3>2
    <3>4. Len(read) > 0 /\ read[Len(read)] = log[Len(log)]
      BY <3>2, <3>3 DEF FileInv
    <3>5. rest = <<>>
      <4> HIDE DEF first
      <4> QED BY <1>1, <2>6, SubSeqEmpty
    <3>6. read' = read
      <4> HIDE DEF rest
      <4> QED BY <1>1, <2>4, <3>2, <3>5, ConcatEmptySeq
    <3> QED BY <3>4, <3>6
  <2> HIDE DEF first, rest
  <2>7. first < Len(log) \/ first = Len(log)
    BY <1>1, <2>1
  <2> QED BY <2>5, <2>6, <2>7
<1>4. ident' = ino' /\ ~cut' /\ nextRead' > 0 =>
        nextRead' <= Len(log') /\ Len(read') > 0 /\ read'[Len(read')] = log'[nextRead']
  <2>1. nextRead' = Len(log) /\ log' = log
    OBVIOUS
  <2>2. Len(log) <= Len(log)
    BY <1>1
  <2> HIDE DEF first, rest
  <2> QED BY <1>3, <2>1, <2>2
<1> HIDE DEF first, rest
<1> QED BY <1>2, <1>4 DEF FileInv

LEMMA FileKept == TailInv /\ FileInv /\ [TailNext]_tailVars => FileInv'
<1> SUFFICES ASSUME TailInv, FileInv, [TailNext]_tailVars PROVE FileInv'
  OBVIOUS
<1>1. /\ written \in Nat /\ nextRead \in Nat /\ Len(log) \in Nat /\ Len(read) \in Nat
      /\ log \in Seq([line : Lines, id : Nat]) /\ read \in Seq([line : Lines, id : Nat])
      /\ MaxLines \in Nat /\ MaxFiles \in Nat
  BY TailAssumption DEF TailInv
<1>2. CASE Prime
  <2>1. /\ UNCHANGED <<log, ino, written>> /\ nextRead' = Len(log) /\ ident' = ino /\ cut' = FALSE
        /\ read' = SubSeq(log, Tail0(Start(0)) + 1, Len(log)) /\ phase' = "live"
    BY <1>2 DEF Prime
  <2>2. read' = <<>> \o SubSeq(log, Tail0(Start(0)) + 1, Len(log))
    <3> DEFINE first == Tail0(Start(0))
    <3>1. first \in 0..Len(log)
      BY ReadBegins
    <3> HIDE DEF first
    <3>2. SubSeq(log, first + 1, Len(log)) \in Seq([line : Lines, id : Nat])
      BY <3>1, RestIs
    <3> QED BY <2>1, <3>2, ConcatEmptySeq DEF first
  <2> QED BY <2>1, <2>2, ReadKnows
<1>3. CASE Poll
  <2>1. /\ UNCHANGED <<log, ino, written>> /\ nextRead' = Len(log) /\ ident' = ino /\ phase' = "live"
        /\ phase = "live" /\ cut' = (cut /\ Len(log) >= nextRead)
        /\ read' = read \o SubSeq(log, Tail0(Start(nextRead)) + 1, Len(log))
    BY <1>3 DEF Poll, PollFrom, Gathered
  <2> QED BY <1>1, <2>1, ReadKnows
<1>4. CASE Replot
  <2>1. /\ UNCHANGED <<log, ino, written>> /\ nextRead' = Len(log) /\ ident' = ino /\ phase' = "replot"
        /\ cut' = (cut /\ Len(log) >= nextRead)
        /\ read' = <<>> \o SubSeq(log, Tail0(Start(0)) + 1, Len(log))
    BY <1>4 DEF Replot, PollFrom, NothingKept
  <2>2. cut' \in BOOLEAN
    BY <2>1
  <2> QED BY <2>1, <2>2, ReadKnows
<1>5. CASE WriteLine
  <2>1. PICK l \in Lines : log' = Append(log, [line |-> l, id |-> written + 1])
    BY <1>5 DEF WriteLine
  <2>2. /\ written' = written + 1 /\ written < MaxLines
        /\ UNCHANGED <<ino, nextRead, ident, read, phase, cut>>
    BY <1>5 DEF WriteLine
  <2>3. [line |-> l, id |-> written + 1] \in [line : Lines, id : Nat]
    BY <1>1
  <2>4. Len(log') = Len(log) + 1 /\ \A i \in 1..Len(log) : log'[i] = log[i]
    BY <1>1, <2>1, <2>3, AppendProperties
  <2>5. written' \in 0..MaxLines /\ Len(log') <= written'
    BY <1>1, <2>2, <2>4 DEF FileInv
  <2>6. ASSUME ident = ino, ~cut, nextRead > 0
        PROVE  nextRead <= Len(log') /\ Len(read) > 0 /\ read[Len(read)] = log'[nextRead]
    <3>1. nextRead <= Len(log) /\ Len(read) > 0 /\ read[Len(read)] = log[nextRead]
      BY <2>6 DEF FileInv
    <3>2. nextRead \in 1..Len(log)
      BY <1>1, <2>6, <3>1
    <3> QED BY <1>1, <2>4, <3>1, <3>2
  <2> QED BY <2>2, <2>5, <2>6 DEF FileInv
<1>6. CASE Recreate
  <2>1. log' = <<>> /\ Len(log') = 0 /\ ino' = ino + 1 /\ ino < MaxFiles /\ cut' = FALSE
        /\ UNCHANGED <<written, nextRead, ident, read, phase>>
    BY <1>6 DEF Recreate
  <2>2. ino' \in 1..MaxFiles /\ ident' \in (1..ino') \union {Nil} /\ ident' # ino'
    BY <1>1, <2>1, TailAssumption DEF FileInv
  <2>3. /\ written' \in 0..MaxLines /\ nextRead' \in 0..MaxLines /\ Len(log') <= written'
        /\ phase' \in {"start", "live", "replot"} /\ (phase' # "start" => ident' # Nil) /\ cut' \in BOOLEAN
    <3>1. /\ written \in 0..MaxLines /\ nextRead \in 0..MaxLines
          /\ phase \in {"start", "live", "replot"} /\ (phase # "start" => ident # Nil)
      BY DEF FileInv
    <3>2. Len(log') <= written'
      BY <1>1, <2>1
    <3> QED BY <2>1, <3>1, <3>2, Zenon
  <2> QED BY <2>2, <2>3 DEF FileInv
<1>7. CASE Truncate
  <2>1. log' = <<>> /\ Len(log') = 0 /\ cut' = (ident = ino /\ nextRead > 0)
        /\ UNCHANGED <<ino, written, nextRead, ident, read, phase>>
    BY <1>7 DEF Truncate
  <2>2. cut' \in BOOLEAN
    BY <2>1
  <2>3. ident' = ino' /\ ~cut' => ~(nextRead' > 0)
    BY <2>1
  <2>4. ino' \in 1..MaxFiles /\ ident' \in (1..ino') \union {Nil} /\ (phase' # "start" => ident' # Nil)
    BY <2>1 DEF FileInv
  <2>5. /\ written' \in 0..MaxLines /\ nextRead' \in 0..MaxLines /\ Len(log') <= written'
        /\ phase' \in {"start", "live", "replot"}
    BY <1>1, <2>1 DEF FileInv
  <2> QED BY <2>2, <2>3, <2>4, <2>5 DEF FileInv
<1>8. CASE UNCHANGED tailVars
  BY <1>8 DEF tailVars, FileInv
<1> QED BY <1>2, <1>3, <1>4, <1>5, <1>6, <1>7, <1>8 DEF TailNext

LEMMA ParseKept == TailInv /\ ParseInv /\ [TailNext]_tailVars => ParseInv'
<1> SUFFICES ASSUME TailInv, ParseInv, [TailNext]_tailVars PROVE ParseInv'
  OBVIOUS
<1> DEFINE Logged == Seq([line : Lines, id : Nat])
<1>1. log \in Logged /\ read \in Logged /\ Len(log) \in Nat /\ Len(read) \in Nat /\ nextRead \in Nat
  BY DEF TailInv
<1>2. ASSUME NEW from \in Nat
      PROVE  /\ SubSeq(log, Tail0(Start(from)) + 1, Len(log)) \in Logged
             /\ Len(SubSeq(log, Tail0(Start(from)) + 1, Len(log))) = Len(log) - Tail0(Start(from))
             /\ Len(log) - Tail0(Start(from)) \in Nat
  <2> DEFINE first == Tail0(Start(from))
  <2>1. first \in 0..Len(log)
    BY ReadBegins
  <2> HIDE DEF first
  <2>2. SubSeq(log, first + 1, Len(log)) \in Logged /\ Len(SubSeq(log, first + 1, Len(log))) = Len(log) - first
    BY <2>1, RestIs
  <2> QED BY <1>1, <2>1, <2>2 DEF first
<1>3. IsParser(carrying) /\ carrying.ev = <<>> /\ carrying.readings = <<>>
  BY DEF ParseInv
<1>4. ASSUME NEW s \in Logged
      PROVE  IsParser(Parse(carrying, s))
  <2>1. Ahead(Parse(carrying, s), Parse(carrying, s), carrying.ev, carrying.readings)
    BY <1>3, <1>4, AheadOfClean, ParseAhead
  <2> QED BY <2>1 DEF Ahead
<1>5. CASE Prime
  <2> DEFINE rest == SubSeq(log, Tail0(Start(0)) + 1, Len(log))
             p == Parse(carrying, rest)
  <2>1. /\ carrying' = Saved(p) /\ read' = rest /\ primed' = Len(log) - Tail0(Start(0)) /\ phase' = "live"
        /\ readings' = p.readings /\ marks' = <<>> /\ carrying = Fresh
    BY <1>5, Zenon DEF Prime, Parsed, ParseInv
  <2>2. rest \in Logged /\ primed' = Len(rest) /\ Len(rest) \in Nat
    BY <1>2, <2>1
  <2>3. IsParser(p) /\ p = OnePass(rest)
    BY <1>4, <2>1, <2>2 DEF OnePass
  <2> HIDE DEF rest, p
  <2>4. OnePass(read')  = p /\ SubSeq(read', 1, primed') = read' /\ primed' \in 0..Len(read')
    BY <2>1, <2>2, <2>3, SubSeqFull
  <2>5. p.ev = Glued(p.ev, <<>>) /\ IsSeq(<<>>)
    <3>1. PICK S : p.ev \in Seq(S)
      BY <2>3 DEF IsParser, IsSeq
    <3> QED BY <3>1, ConcatEmptySeq DEF Glued, IsSeq
  <2>6. /\ IsParser(carrying') /\ \A f \in Carried : carrying'[f] = p[f]
        /\ carrying'.ev = <<>> /\ carrying'.readings = <<>> /\ carrying'.seedLines = <<>>
    BY <2>1, <2>3, SavedIs
  <2> QED BY <2>1, <2>4, <2>5, <2>6 DEF ParseInv
<1>6. CASE Poll
  <2> DEFINE rest == SubSeq(log, Tail0(Start(nextRead)) + 1, Len(log))
             p == Parse(carrying, rest)
             before == OnePass(SubSeq(read, 1, primed)).ev
  <2>1. /\ carrying' = Saved(p) /\ read' = read \o rest /\ primed' = primed /\ phase = "live" /\ phase' = "live"
        /\ readings' = readings \o p.readings /\ marks' = marks \o p.ev
    BY <1>6, Zenon DEF Poll, PollFrom, Parsed, Gathered
  <2>2. rest \in Logged
    BY <1>1, <1>2
  <2>3. IsParser(p)
    BY <1>4, <2>2
  <2>4. /\ \A f \in Carried : OnePass(read)[f] = carrying[f]
        /\ primed \in 0..Len(read) /\ IsSeq(marks)
        /\ OnePass(read).ev = Glued(before, marks) /\ OnePass(read).readings = readings
    BY <2>1 DEF ParseInv
  <2> HIDE DEF rest
  <2>5. Ahead(OnePass(read \o rest), p, OnePass(read).ev, OnePass(read).readings)
    BY <1>1, <1>3, <2>2, <2>4, OnePassGoesOn
  <2> HIDE DEF p
  <2>6. SubSeq(read', 1, primed') = SubSeq(read, 1, primed)
    <3>1. CASE primed = 0
      BY <2>1, <3>1, SubSeqEmpty
    <3>2. CASE primed # 0
      <4>1. 1 \in 1..Len(read) /\ primed \in 1..Len(read)
        BY <1>1, <2>4, <3>2
      <4> QED BY <1>1, <2>1, <2>2, <4>1, SubSeqOfConcat1
    <3> QED BY <3>1, <3>2
  <2>7. IsSeq(before)
    <3>1. SubSeq(read, 1, primed) \in Logged
      <4>1. primed \in Int /\ \A i \in 1..primed : i \in 1..Len(read)
        BY <1>1, <2>4
      <4>2. \A i \in 1..Len(read) : read[i] \in [line : Lines, id : Nat]
        BY <1>1, ElementOfSeq
      <4> QED BY <4>1, <4>2, SubSeqProperties
    <3> QED BY <3>1, OnePassIsParser DEF IsParser
  <2> HIDE DEF before
  <2>8. IsSeq(p.ev) /\ IsSeq(marks')
    BY <2>1, <2>3, <2>4, JoinIsSeq DEF IsParser
  <2>9. OnePass(read').ev = Glued(before, marks')
    <3>1. OnePass(read').ev = Glued(Glued(before, marks), p.ev)
      BY <2>1, <2>4, <2>5 DEF Ahead, Glued
    <3>2. Glued(Glued(before, marks), p.ev) = Glued(before, Glued(marks, p.ev))
      BY <2>4, <2>7, <2>8, JoinsRegroup
    <3>3. marks' = Glued(marks, p.ev)
      BY <2>1 DEF Glued
    <3> QED BY <3>1, <3>2, <3>3
  <2>10. OnePass(read').readings = readings'
    BY <2>1, <2>4, <2>5 DEF Ahead
  <2>11. primed' \in 0..Len(read')
    <3>1. Len(read') = Len(read) + Len(rest) /\ Len(rest) \in Nat
      BY <1>1, <2>1, <2>2, ConcatProperties
    <3> QED BY <1>1, <2>1, <2>4, <3>1
  <2>12. /\ IsParser(carrying') /\ \A f \in Carried : carrying'[f] = OnePass(read')[f]
         /\ carrying'.ev = <<>> /\ carrying'.readings = <<>> /\ carrying'.seedLines = <<>>
    BY <2>1, <2>3, <2>5, SavedIs DEF Ahead
  <2> QED BY <2>1, <2>6, <2>8, <2>9, <2>10, <2>11, <2>12 DEF ParseInv, before
<1>7. CASE Replot
  <2> DEFINE rest == SubSeq(log, Tail0(Start(0)) + 1, Len(log))
             p == Parse(carrying, rest)
  <2>1. carrying' = Saved(p) /\ phase' = "replot"
    BY <1>7, Zenon DEF Replot, PollFrom, Parsed
  <2>2. IsParser(p)
    BY <1>2, <1>4
  <2> HIDE DEF p
  <2> QED BY <2>1, <2>2, SavedIs DEF ParseInv
<1>8. CASE WriteLine \/ Recreate \/ Truncate \/ UNCHANGED tailVars
  <2>1. UNCHANGED <<carrying, marks, readings, phase, read, primed>>
    BY <1>8 DEF WriteLine, Recreate, Truncate, tailVars
  <2> QED BY <2>1 DEF ParseInv
<1> QED BY <1>5, <1>6, <1>7, <1>8 DEF TailNext

LEMMA TailIsTyped == TailInv /\ FileInv /\ ParseInv => TailTypeOK
<1> SUFFICES ASSUME TailInv, FileInv, ParseInv PROVE TailTypeOK
  OBVIOUS
<1>1. ident \in 1..MaxFiles \union {Nil}
  BY TailAssumption DEF FileInv
<1>2. \A i \in DOMAIN log : log[i].line \in Lines /\ log[i].id \in 1..written
  <2>1. \A i \in 1..Len(log) : log[i] \in [line : Lines, id : Nat]
    BY ElementOfSeq DEF TailInv
  <2>2. DOMAIN log = 1..Len(log)
    BY DEF TailInv
  <2> QED BY <2>1, <2>2 DEF TailInv, Ascending
<1>3. DOMAIN carrying = DOMAIN Fresh /\ carrying.oor \in BOOLEAN
  BY FreshIs DEF ParseInv, IsParser
<1> QED BY <1>1, <1>2, <1>3 DEF TailTypeOK, FileInv, ParseInv

LEMMA AscendingReadOnce == TailInv => ReadOnce
<1> SUFFICES ASSUME TailInv, NEW i \in 1..Len(read) - 1 PROVE read[i].id < read[i + 1].id
  BY DEF ReadOnce
<1>1. Len(read) \in Nat /\ Ascending(read)
  BY DEF TailInv
<1>2. i \in 1..Len(read) /\ i + 1 \in 1..Len(read) /\ i < i + 1
  BY <1>1
<1> QED BY <1>1, <1>2 DEF Ascending

LEMMA PolledIsWhole == ParseInv => PolledIsOnePass
BY Zenon DEF ParseInv, PolledIsOnePass, Glued

LEMMA PollReadsOn ==
  ASSUME TailInv, FileInv, Poll, ~(cut /\ Len(log) >= nextRead)
  PROVE  \/ /\ read # <<>>
            /\ \E n \in DOMAIN log : /\ log[n] = Last(read)
                                    /\ read' = read \o SubSeq(log, n + 1, Len(log))
         \/ /\ \A i \in DOMAIN log, a \in DOMAIN read : log[i] # read[a]
            /\ read' = read \o SubSeq(log, Tail0(0) + 1, Len(log))
<1>1. /\ nextRead \in Nat /\ Len(log) \in Nat /\ Len(read) \in Nat
      /\ DOMAIN log = 1..Len(log) /\ DOMAIN read = 1..Len(read)
  BY DEF TailInv
<1>2. read' = read \o SubSeq(log, Tail0(Start(nextRead)) + 1, Len(log))
  BY DEF Poll, PollFrom, Gathered
<1>3. CASE Start(nextRead) = 0
  <2>1. \A i \in DOMAIN log, a \in DOMAIN read : read[a].id < log[i].id
    BY <1>1, <1>3 DEF TailInv
  <2>2. \A i \in DOMAIN log, a \in DOMAIN read : log[i].id \in Nat
    <3>1. \A i \in 1..Len(log) : log[i] \in [line : Lines, id : Nat]
      BY ElementOfSeq DEF TailInv
    <3> QED BY <1>1, <3>1
  <2>3. \A i \in DOMAIN log, a \in DOMAIN read : log[i] # read[a]
    BY <2>1, <2>2
  <2> QED BY <1>2, <1>3, <2>3
<1>4. CASE Start(nextRead) # 0
  <2>1. Start(nextRead) = nextRead /\ ident \in {Nil, ino} /\ nextRead <= Len(log) /\ nextRead > 0 /\ ~cut
    BY <1>1, <1>4 DEF Start
  <2>2. ident = ino
    BY <2>1 DEF FileInv, Poll
  <2>3. Len(read) > 0 /\ read[Len(read)] = log[nextRead]
    BY <2>1, <2>2 DEF FileInv
  <2>4. Tail0(Start(nextRead)) = nextRead
    BY <2>1 DEF Tail0
  <2>5. nextRead \in DOMAIN log /\ log[nextRead] = Last(read)
    BY <1>1, <2>1, <2>3 DEF Last
  <2>6. read # <<>>
    BY <2>3
  <2> QED BY <1>2, <2>4, <2>5, <2>6
<1> QED BY <1>3, <1>4

\* However the polls fall, and whatever becomes of the file between them: the events and
\* the series are those of one pass over the lines read, no line is read twice, and a poll
\* leaves out none but what a first read's tail does (i2s-skew.py, parse_sync_events and
\* its callers).
THEOREM TailLogIsReadOnce == TailSpec => LogIsReadOnce
<1> DEFINE Inv == TailInv /\ FileInv /\ ParseInv
<1>1. TailInit => Inv
  BY TailBegins, FileBegins
<1>2. Inv /\ [TailNext]_tailVars => Inv'
  BY TailKept, FileKept, ParseKept
<1>3. Inv => TailTypeOK /\ PolledIsOnePass
  BY TailIsTyped, PolledIsWhole
<1>4. Inv => ReadOnce
  BY AscendingReadOnce
<1>5. Inv /\ [TailNext]_tailVars => [ReadsOn]_tailVars
  BY PollReadsOn DEF ReadsOn
<1> HIDE DEF Inv
<1> QED BY <1>1, <1>2, <1>3, <1>4, <1>5, PTL DEF TailSpec, LogIsReadOnce, NothingSkipped

------------------------------------------------------------------------------
\* Appending a sequence to a sequence of sequences appends it to their concatenation.
Joins(ss, n, join) == join = [i \in 1..n |-> IF i = 1 THEN ss[i] ELSE Glued(join[i - 1], ss[i])]

LEMMA Regrouped ==
  ASSUME NEW T, NEW s \in Seq(T), NEW t \in Seq(T), NEW u \in Seq(T)
  PROVE  Glued(Glued(s, t), u) = Glued(s, Glued(t, u))
BY ConcatAssociative DEF Glued

LEMMA JoinsExist ==
  ASSUME NEW ss, NEW n \in Nat
  PROVE  \E join : Joins(ss, n, join)
<1> DEFINE S == {m \in Nat : \E join : Joins(ss, m, join)}
<1>1. 0 \in S
  <2>1. Joins(ss, 0, [i \in 1..0 |-> ss[i]])
    BY DEF Joins
  <2> QED BY <2>1
<1>2. ASSUME NEW m \in Nat, m \in S
      PROVE  m + 1 \in S
  <2>1. PICK f : Joins(ss, m, f)
    BY <1>2
  <2> DEFINE g == [i \in 1..m + 1 |-> IF i = 1 THEN ss[i] ELSE Glued(f[i - 1], ss[i])]
  <2>2. \A i \in 1..m : g[i] = f[i]
    BY <2>1 DEF Joins
  <2>3. g = [i \in 1..m + 1 |-> IF i = 1 THEN ss[i] ELSE Glued(g[i - 1], ss[i])]
    <3> HIDE DEF g
    <3>1. \A i \in 1..m + 1 : i # 1 => g[i - 1] = f[i - 1]
      BY <2>2
    <3> QED BY <3>1 DEF g
  <2> HIDE DEF g
  <2> QED BY <2>3 DEF Joins
<1> HIDE DEF S
<1>3. Nat \subseteq S
  BY <1>1, <1>2, SetInduction
<1> QED BY <1>3 DEF S

LEMMA FlattenIs ==
  ASSUME NEW ss, Len(ss) \in Nat \ {0}
  PROVE  \E join : Joins(ss, Len(ss), join) /\ FlattenSeq(ss) = join[Len(ss)]
<1> DEFINE join == CHOOSE f : f = [i \in 1..Len(ss) |-> IF i = 1 THEN ss[i] ELSE Glued(f[i - 1], ss[i])]
<1>1. Joins(ss, Len(ss), join)
  <2>1. \E f : f = [i \in 1..Len(ss) |-> IF i = 1 THEN ss[i] ELSE Glued(f[i - 1], ss[i])]
    <3>1. PICK f : Joins(ss, Len(ss), f)
      BY JoinsExist
    <3> QED BY <3>1 DEF Joins
  <2> QED BY <2>1, Zenon DEF Joins
<1>2. FlattenSeq(ss) = join[Len(ss)]
  BY DEF FlattenSeq, Glued
<1> QED BY <1>1, <1>2

LEMMA JoinsAgree ==
  ASSUME NEW ss, NEW tt, NEW n \in Nat, NEW m \in Nat, n <= m, NEW f, NEW g,
         Joins(ss, n, f), Joins(tt, m, g), \A i \in 1..n : ss[i] = tt[i]
  PROVE  \A i \in 1..n : f[i] = g[i]
<1> DEFINE S == {x \in Nat : x + 1 \in 1..n => f[x + 1] = g[x + 1]}
<1>1. 0 \in S
  BY DEF Joins
<1>2. ASSUME NEW x \in Nat, x \in S PROVE x + 1 \in S
  <2> SUFFICES ASSUME x + 2 \in 1..n PROVE f[x + 2] = g[x + 2]
    BY <1>2
  <2>1. x + 1 \in 1..n /\ x + 2 \in 1..m /\ x + 2 # 1 /\ x + 2 - 1 = x + 1
    OBVIOUS
  <2>2. f[x + 2] = Glued(f[x + 1], ss[x + 2]) /\ g[x + 2] = Glued(g[x + 1], tt[x + 2])
    BY <2>1 DEF Joins
  <2> QED BY <1>2, <2>1, <2>2
<1> HIDE DEF S
<1>3. Nat \subseteq S
  BY <1>1, <1>2, SetInduction
<1> QED
  <2> SUFFICES ASSUME NEW i \in 1..n PROVE f[i] = g[i]
    OBVIOUS
  <2>1. i - 1 \in S /\ i - 1 + 1 = i
    BY <1>3
  <2> QED BY <2>1 DEF S

LEMMA JoinsGoOn ==
  ASSUME NEW ss, NEW tt, NEW n \in Nat \ {0}, NEW f, NEW g,
         Joins(ss, n, f), Joins(tt, n + 1, g), \A i \in 1..n : ss[i] = tt[i]
  PROVE  g[n + 1] = Glued(f[n], tt[n + 1])
<1>1. n \in 1..n /\ n \in Nat /\ n + 1 \in Nat /\ n <= n + 1 /\ n + 1 \in 1..n + 1 /\ n + 1 - 1 = n
  OBVIOUS
<1>2. f[n] = g[n]
  BY <1>1, JoinsAgree
<1>3. g[n + 1] = Glued(g[n], tt[n + 1])
  BY <1>1 DEF Joins
<1> QED BY <1>2, <1>3

LEMMA FlattenAppend ==
  ASSUME NEW T, NEW ss \in Seq(Seq(T)), NEW s \in Seq(T)
  PROVE  FlattenSeq(Append(ss, s)) = FlattenSeq(ss) \o s
<1> DEFINE tt == Append(ss, s)
           n == Len(ss)
<1>1. n \in Nat /\ Len(tt) = n + 1 /\ tt[n + 1] = s /\ \A i \in 1..n : tt[i] = ss[i]
  BY AppendProperties
<1> HIDE DEF tt
<1>2. PICK g : Joins(tt, n + 1, g) /\ FlattenSeq(tt) = g[n + 1]
  BY <1>1, FlattenIs
<1>3. CASE n = 0
  <2>1. ss = <<>>
    BY <1>3, EmptySeq
  <2>2. FlattenSeq(ss) = <<>>
    BY <2>1 DEF FlattenSeq
  <2>3. FlattenSeq(tt) = s
    BY <1>1, <1>2, <1>3 DEF Joins
  <2> QED BY <2>2, <2>3, ConcatEmptySeq DEF tt
<1>4. CASE n > 0
  <2>1. PICK f : Joins(ss, n, f) /\ FlattenSeq(ss) = f[n]
    BY <1>1, <1>4, FlattenIs
  <2>2. n \in Nat \ {0} /\ Joins(ss, n, f) /\ Joins(tt, n + 1, g) /\ \A i \in 1..n : ss[i] = tt[i]
    BY <1>1, <1>2, <1>4, <2>1
  <2> HIDE DEF n
  <2>3. g[n + 1] = Glued(f[n], tt[n + 1])
    BY <2>2, JoinsGoOn
  <2>4. FlattenSeq(tt) = Glued(FlattenSeq(ss), s)
    BY <1>1, <1>2, <2>1, <2>3
  <2> QED BY <2>4 DEF tt, Glued
<1> QED BY <1>1, <1>3, <1>4

LEMMA JoinsType ==
  ASSUME NEW T, NEW ss, NEW n \in Nat, NEW f, Joins(ss, n, f), \A i \in 1..n : ss[i] \in Seq(T)
  PROVE  \A i \in 1..n : f[i] \in Seq(T)
<1> DEFINE S == {x \in Nat : x + 1 \in 1..n => f[x + 1] \in Seq(T)}
<1>1. 0 \in S
  BY DEF Joins
<1>2. ASSUME NEW x \in Nat, x \in S PROVE x + 1 \in S
  <2> SUFFICES ASSUME x + 2 \in 1..n PROVE f[x + 2] \in Seq(T)
    BY <1>2
  <2>1. x + 1 \in 1..n /\ x + 2 # 1 /\ x + 2 - 1 = x + 1
    OBVIOUS
  <2>2. f[x + 2] = Glued(f[x + 1], ss[x + 2])
    BY <2>1 DEF Joins
  <2>3. f[x + 1] \in Seq(T) /\ ss[x + 2] \in Seq(T)
    BY <1>2, <2>1
  <2> QED BY <2>2, <2>3, ConcatProperties DEF Glued
<1> HIDE DEF S
<1>3. Nat \subseteq S
  BY <1>1, <1>2, SetInduction
<1> QED
  <2> SUFFICES ASSUME NEW i \in 1..n PROVE f[i] \in Seq(T)
    OBVIOUS
  <2>1. i - 1 \in S /\ i - 1 + 1 = i
    BY <1>3
  <2> QED BY <2>1 DEF S

LEMMA FlattenType ==
  ASSUME NEW T, NEW ss \in Seq(Seq(T))
  PROVE  FlattenSeq(ss) \in Seq(T)
<1>1. Len(ss) \in Nat /\ \A i \in 1..Len(ss) : ss[i] \in Seq(T)
  BY ElementOfSeq
<1>2. CASE Len(ss) = 0
  <2>1. FlattenSeq(ss) = <<>>
    BY <1>2, EmptySeq DEF FlattenSeq
  <2> QED BY <2>1
<1>3. CASE Len(ss) # 0
  <2>1. PICK f : Joins(ss, Len(ss), f) /\ FlattenSeq(ss) = f[Len(ss)]
    BY <1>1, <1>3, FlattenIs
  <2>2. \A i \in 1..Len(ss) : f[i] \in Seq(T)
    BY <1>1, <2>1, JoinsType
  <2> QED BY <1>1, <1>3, <2>1, <2>2
<1> QED BY <1>1, <1>2, <1>3

------------------------------------------------------------------------------
Piece == Nat \X {1, 2}

\* A line on the terminal: pieces of which the last one, and only that, ends a line.
IsLine(s) == s # <<>> /\ Ends(Last(s)) /\ ~HasLine(Front(s))

\* What was read is what was printed and what is pending; the file is what was printed,
\* but for at most the line printed last.
SerialInv ==
  /\ line \in Piece /\ unread \in Seq(Piece) /\ buf \in Seq(Piece) /\ collected \in Seq(Piece)
  /\ printed \in Seq(Seq(Piece)) /\ sink \in Seq(Seq(Piece))
  /\ FlattenSeq(printed) \o buf = collected
  /\ \A i \in 1..Len(printed) : IsLine(printed[i])
  /\ Len(printed) - Len(sink) \in 0..1 /\ \A i \in 1..Len(sink) : sink[i] = printed[i]

LEMMA SerialBegins == SerialInit => SerialInv
<1> SUFFICES ASSUME SerialInit PROVE SerialInv
  OBVIOUS
<1>1. /\ line = <<1, 1>> /\ unread = <<>> /\ buf = <<>> /\ collected = <<>>
      /\ printed = <<>> /\ sink = <<>>
  BY DEF SerialInit
<1>2. FlattenSeq(printed) \o buf = <<>>
  BY <1>1 DEF FlattenSeq
<1> QED BY <1>1, <1>2 DEF SerialInv, Piece

\* A sequence in two parts.
LEMMA SplitAt ==
  ASSUME NEW T, NEW s \in Seq(T), NEW n \in 1..Len(s)
  PROVE  /\ SubSeq(s, 1, n) \in Seq(T) /\ Len(SubSeq(s, 1, n)) = n
         /\ \A i \in 1..n : SubSeq(s, 1, n)[i] = s[i]
         /\ SubSeq(s, n + 1, Len(s)) \in Seq(T)
         /\ SubSeq(s, 1, n) \o SubSeq(s, n + 1, Len(s)) = s
<1>1. Len(s) \in Nat /\ n \in Nat /\ \A i \in 1..Len(s) : s[i] \in T
  BY ElementOfSeq
<1>2. \A i \in 1..n : s[i] \in T
  BY <1>1
<1>3. /\ SubSeq(s, 1, n) \in Seq(T)
      /\ Len(SubSeq(s, 1, n)) = IF 1 <= n THEN n - 1 + 1 ELSE 0
      /\ \A i \in 1..n - 1 + 1 : SubSeq(s, 1, n)[i] = s[1 + i - 1]
  BY <1>1, <1>2, SubSeqProperties
<1>4. \A i \in n + 1..Len(s) : s[i] \in T
  BY <1>1
<1>5. SubSeq(s, n + 1, Len(s)) \in Seq(T)
  BY <1>1, <1>4, SubSeqProperties
<1>6. SubSeq(s, 1, n) \o SubSeq(s, n + 1, Len(s)) = s
  <2>1. 1 \in 1..Len(s) + 1 /\ n \in 1 - 1..Len(s) /\ Len(s) \in n..Len(s)
    BY <1>1
  <2> QED BY <2>1, ConcatAdjacentSubSeq, SubSeqFull
<1>7. \A i \in 1..n : SubSeq(s, 1, n)[i] = s[i]
  <2>1. \A i \in 1..n : i \in 1..n - 1 + 1 /\ 1 + i - 1 = i
    BY <1>1
  <2> QED BY <1>3, <2>1
<1> QED BY <1>1, <1>3, <1>5, <1>6, <1>7

\* The pending pieces up to the first that ends a line are a line.
LEMMA FirstLine ==
  ASSUME NEW s \in Seq(Piece), HasLine(s)
  PROVE  FirstEnd(s) \in 1..Len(s) /\ IsLine(SubSeq(s, 1, FirstEnd(s)))
<1> DEFINE T == {i \in 1..Len(s) : Ends(s[i])}
           n == FirstEnd(s)
           got == SubSeq(s, 1, n)
<1>1. Len(s) \in Nat /\ DOMAIN s = 1..Len(s)
  OBVIOUS
<1>2. \E i \in DOMAIN s : Ends(s[i]) /\ \A j \in 1..i - 1 : ~Ends(s[j])
  <2>1. T \in SUBSET Nat /\ T # {}
    BY <1>1 DEF HasLine
  <2>2. PICK i \in T : \A j \in T : i <= j
    BY <2>1, LeastNumber
  <2>3. \A j \in 1..i - 1 : ~Ends(s[j])
    BY <1>1, <2>2
  <2> QED BY <1>1, <2>2, <2>3
<1>3. n \in 1..Len(s) /\ Ends(s[n]) /\ \A j \in 1..n - 1 : ~Ends(s[j])
  BY <1>1, <1>2 DEF FirstEnd
<1> HIDE DEF n
<1>4. got \in Seq(Piece) /\ Len(got) = n /\ \A i \in 1..n : got[i] = s[i]
  BY <1>3, SplitAt
<1>5. got # <<>> /\ Ends(Last(got))
  <2>1. n \in 1..n /\ Len(got) # 0
    BY <1>1, <1>3, <1>4
  <2> QED BY <1>3, <1>4, <2>1 DEF Last
<1>6. ~HasLine(Front(got))
  <2> DEFINE front == SubSeq(got, 1, n - 1)
  <2>1. n - 1 \in Int /\ \A i \in 1..n - 1 : got[i] \in Piece /\ got[i] = s[i]
    <3>1. \A i \in 1..n - 1 : i \in 1..n /\ i \in 1..Len(got)
      BY <1>1, <1>3, <1>4
    <3> QED BY <1>1, <1>3, <1>4, <3>1, ElementOfSeq
  <2>2. /\ front \in Seq(Piece) /\ Len(front) = IF 1 <= n - 1 THEN n - 1 - 1 + 1 ELSE 0
        /\ \A i \in 1..n - 1 - 1 + 1 : front[i] = got[1 + i - 1]
    <3> HIDE DEF got
    <3>1. 1 \in Int /\ \A i \in 1..n - 1 : got[i] \in Piece
      BY <2>1
    <3> QED BY <2>1, <3>1, SubSeqProperties
  <2>3. DOMAIN front \subseteq 1..n - 1 /\ \A i \in 1..n - 1 : i \in 1..n - 1 - 1 + 1 /\ 1 + i - 1 = i
    <3>1. DOMAIN front = 1..Len(front)
      BY <2>2
    <3> QED BY <1>1, <1>3, <2>2, <3>1
  <2>4. \A i \in DOMAIN front : front[i] = s[i]
    BY <2>1, <2>2, <2>3
  <2> QED BY <1>3, <1>4, <2>3, <2>4 DEF HasLine, Front
<1> QED BY <1>3, <1>5, <1>6 DEF n, IsLine

LEMMA ReadChunkKeeps == SerialInv /\ ReadChunk => SerialInv'
<1> SUFFICES ASSUME SerialInv, ReadChunk PROVE SerialInv'
  OBVIOUS
<1>1. PICK n \in 1..ReadSize :
        /\ n <= Len(unread)
        /\ buf' = buf \o SubSeq(unread, 1, n)
        /\ collected' = collected \o SubSeq(unread, 1, n)
        /\ unread' = SubSeq(unread, n + 1, Len(unread))
  BY DEF ReadChunk
<1>2. unread \in Seq(Piece) /\ buf \in Seq(Piece) /\ collected \in Seq(Piece) /\ printed \in Seq(Seq(Piece))
  BY DEF SerialInv
<1>3. n \in 1..Len(unread)
  BY <1>1, <1>2, SerialAssumption
<1> DEFINE got == SubSeq(unread, 1, n)
<1>4. got \in Seq(Piece) /\ unread' \in Seq(Piece)
  BY <1>1, <1>2, <1>3, SplitAt
<1> HIDE DEF got
<1>5. buf' = buf \o got /\ collected' = collected \o got
  BY <1>1 DEF got
<1>6. buf' \in Seq(Piece) /\ collected' \in Seq(Piece)
  BY <1>2, <1>4, <1>5, ConcatProperties
<1>7. FlattenSeq(printed) \o buf' = collected'
  <2> DEFINE all == FlattenSeq(printed)
  <2>1. all \in Seq(Piece)
    BY <1>2, FlattenType
  <2>2. all \o buf = collected
    BY DEF SerialInv
  <2> HIDE DEF all
  <2>3. (all \o buf) \o got = all \o (buf \o got)
    <3>1. Glued(Glued(all, buf), got) = Glued(all, Glued(buf, got))
      BY <1>2, <1>4, <2>1, Regrouped
    <3> QED BY <3>1, Zenon DEF Glued
  <2> QED BY <1>5, <2>2, <2>3 DEF all
<1>8. UNCHANGED <<line, printed, sink>>
  BY DEF ReadChunk
<1> QED BY <1>4, <1>6, <1>7, <1>8 DEF SerialInv

LEMMA PrintLineKeeps == SerialInv /\ PrintLine => SerialInv'
<1> SUFFICES ASSUME SerialInv, PrintLine PROVE SerialInv'
  OBVIOUS
<1> DEFINE n == FirstEnd(buf)
           got == SubSeq(buf, 1, n)
<1>1. /\ buf \in Seq(Piece) /\ printed \in Seq(Seq(Piece)) /\ sink \in Seq(Seq(Piece))
      /\ HasLine(buf) /\ Len(sink) = Len(printed) /\ UNCHANGED <<line, unread, sink, collected>>
  BY DEF SerialInv, PrintLine
<1>2. n \in 1..Len(buf) /\ IsLine(got)
  BY <1>1, FirstLine
<1>3. got \in Seq(Piece) /\ buf' \in Seq(Piece) /\ got \o buf' = buf
  <2>1. buf' = SubSeq(buf, n + 1, Len(buf))
    BY DEF PrintLine
  <2> HIDE DEF n
  <2> QED BY <1>1, <1>2, <2>1, SplitAt
<1>4. printed' = Append(printed, got)
  BY DEF PrintLine
<1> HIDE DEF n, got
<1>5. FlattenSeq(printed') \o buf' = collected'
  <2> DEFINE all == FlattenSeq(printed)
  <2>1. FlattenSeq(printed') = all \o got /\ all \in Seq(Piece)
    BY <1>1, <1>3, <1>4, FlattenAppend, FlattenType
  <2>2. all \o buf = collected
    BY DEF SerialInv
  <2> HIDE DEF all
  <2>3. (all \o got) \o buf' = all \o (got \o buf')
    <3>1. Glued(Glued(all, got), buf') = Glued(all, Glued(got, buf'))
      BY <1>3, <2>1, Regrouped
    <3> QED BY <3>1, Zenon DEF Glued
  <2> QED BY <1>1, <1>3, <2>1, <2>2, <2>3
<1>6. /\ printed' \in Seq(Seq(Piece)) /\ Len(printed') = Len(printed) + 1
      /\ \A i \in 1..Len(printed) : printed'[i] = printed[i]
      /\ printed'[Len(printed) + 1] = got
  BY <1>1, <1>3, <1>4, AppendProperties
<1>7. \A i \in 1..Len(printed') : IsLine(printed'[i])
  <2>1. \A i \in 1..Len(printed') : i \in 1..Len(printed) \/ i = Len(printed) + 1
    <3>1. Len(printed) \in Nat
      BY <1>1
    <3> HIDE <1>1
    <3> QED BY <1>6, <3>1
  <2>2. \A i \in 1..Len(printed) : IsLine(printed[i])
    BY DEF SerialInv
  <2> QED BY <1>2, <1>6, <2>1, <2>2
<1>8. Len(printed') - Len(sink') \in 0..1 /\ \A i \in 1..Len(sink') : sink'[i] = printed'[i]
  <2>1. Len(printed) \in Nat /\ \A i \in 1..Len(sink) : sink[i] = printed[i]
    BY <1>1 DEF SerialInv
  <2>2. Len(printed') - Len(sink') = 1
    <3>1. Len(printed') = Len(printed) + 1 /\ Len(sink') = Len(printed) /\ Len(printed) \in Nat
      BY <1>1, <1>6, <2>1
    <3> QED BY <3>1
  <2> QED BY <1>1, <1>6, <2>1, <2>2
<1> QED BY <1>1, <1>3, <1>5, <1>6, <1>7, <1>8 DEF SerialInv

LEMMA SinkLineKeeps == SerialInv /\ SinkLine => SerialInv'
<1> SUFFICES ASSUME SerialInv, SinkLine PROVE SerialInv'
  OBVIOUS
<1>1. /\ printed \in Seq(Seq(Piece)) /\ sink \in Seq(Seq(Piece)) /\ Len(sink) < Len(printed)
      /\ Len(printed) - Len(sink) \in 0..1 /\ \A i \in 1..Len(sink) : sink[i] = printed[i]
      /\ UNCHANGED <<line, unread, buf, printed, collected>>
  BY DEF SerialInv, SinkLine
<1>2. Len(printed) \in Nat /\ Len(sink) \in Nat /\ Len(printed) = Len(sink) + 1
  BY <1>1
<1>3. sink' = Append(sink, printed[Len(printed)]) /\ printed[Len(printed)] \in Seq(Piece)
  <2>1. Len(printed) \in 1..Len(printed)
    BY <1>2
  <2> QED BY <1>1, <2>1, ElementOfSeq DEF SinkLine, Last
<1>4. /\ sink' \in Seq(Seq(Piece)) /\ Len(sink') = Len(sink) + 1
      /\ \A i \in 1..Len(sink) : sink'[i] = sink[i]
      /\ sink'[Len(sink) + 1] = printed[Len(printed)]
  BY <1>1, <1>3, AppendProperties
<1>5. \A i \in 1..Len(sink') : sink'[i] = printed[i]
  <2>1. \A i \in 1..Len(sink') : i \in 1..Len(sink) \/ i = Len(sink) + 1
    BY <1>2, <1>4
  <2> QED BY <1>1, <1>2, <1>4, <2>1
<1>6. Len(printed') - Len(sink') \in 0..1
  BY <1>1, <1>2, <1>4
<1> QED BY <1>1, <1>4, <1>5, <1>6 DEF SerialInv

LEMMA SerialKept == SerialInv /\ [SerialNext]_serialVars => SerialInv'
<1> SUFFICES ASSUME SerialInv, [SerialNext]_serialVars PROVE SerialInv'
  OBVIOUS
<1>1. CASE Emit
  <2>1. line \in Piece /\ unread \in Seq(Piece)
    BY DEF SerialInv
  <2>2. line' \in Piece
    BY <1>1, <2>1 DEF Emit, Piece, Ends
  <2>3. unread' \in Seq(Piece)
    BY <1>1, <2>1 DEF Emit
  <2> QED BY <1>1, <2>2, <2>3 DEF Emit, SerialInv
<1>2. CASE Reset
  <2>1. line' \in Piece /\ unread' \in Seq(Piece)
    BY <1>2 DEF Reset, SerialInv, Piece
  <2> QED BY <1>2, <2>1 DEF Reset, SerialInv
<1>3. CASE Return \/ Attach \/ Detach \/ Interrupt \/ UNCHANGED serialVars
  <2>1. UNCHANGED <<line, unread, buf, printed, sink, collected>>
    BY <1>3 DEF Return, Attach, Detach, KeptOver, Interrupt, serialVars
  <2> QED BY <2>1 DEF SerialInv
<1> QED
  BY <1>1, <1>2, <1>3, ReadChunkKeeps, PrintLineKeeps, SinkLineKeeps DEF SerialNext

LEMMA SerialInvReads == SerialInv => LoggedAsRead
<1> SUFFICES ASSUME SerialInv PROVE LoggedAsRead
  OBVIOUS
<1>1. /\ printed \in Seq(Seq(Piece)) /\ sink \in Seq(Seq(Piece))
      /\ Len(printed) - Len(sink) \in 0..1 /\ \A i \in 1..Len(sink) : sink[i] = printed[i]
  BY DEF SerialInv
<1>2. IsPrefix(sink, printed)
  <2>1. CASE Len(sink) = 0
    <3>1. SubSeq(sink, 1, Len(sink)) = <<>> /\ SubSeq(printed, 1, Len(sink)) = <<>>
      BY <2>1, SubSeqEmpty
    <3> QED BY <1>1, <2>1, <3>1 DEF IsPrefix
  <2>2. CASE Len(sink) # 0
    <3>1. Len(sink) \in 1..Len(printed) /\ Len(sink) <= Len(printed)
      BY <1>1, <2>2
    <3>2. SubSeq(sink, 1, Len(sink)) = sink
      BY <1>1, SubSeqFull
    <3>3. /\ SubSeq(printed, 1, Len(sink)) \in Seq(Seq(Piece))
          /\ Len(SubSeq(printed, 1, Len(sink))) = Len(sink)
          /\ \A i \in 1..Len(sink) : SubSeq(printed, 1, Len(sink))[i] = printed[i]
      BY <1>1, <3>1, SplitAt
    <3> HIDE <2>2
    <3>4. sink = SubSeq(printed, 1, Len(sink))
      BY <1>1, <3>3, SeqEqual
    <3> QED BY <3>1, <3>2, <3>4 DEF IsPrefix
  <2> QED BY <2>1, <2>2
<1>3. \A i \in DOMAIN printed : Ends(Last(printed[i])) /\ ~HasLine(Front(printed[i]))
  <2>1. DOMAIN printed = 1..Len(printed)
    BY <1>1
  <2>2. \A i \in 1..Len(printed) : IsLine(printed[i])
    BY DEF SerialInv
  <2> QED BY <2>1, <2>2, Zenon DEF IsLine
<1> QED BY <1>1, <1>2, <1>3 DEF SerialInv, LoggedAsRead

THEOREM SerialLogsAsRead == SerialSpec => []LoggedAsRead
<1>1. SerialInit => SerialInv
  BY SerialBegins
<1>2. SerialInv /\ [SerialNext]_serialVars => SerialInv'
  BY SerialKept
<1>3. SerialInv => LoggedAsRead
  BY SerialInvReads
<1> QED BY <1>1, <1>2, <1>3, PTL DEF SerialSpec
==============================================================================
