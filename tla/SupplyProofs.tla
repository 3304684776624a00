---------------------------- MODULE SupplyProofs ----------------------------
(***************************************************************************)
(* Proofs about Supply, for every ring and queue capacity, every set of    *)
(* chunk sizes and every number of bytes supplied.                         *)
(*                                                                         *)
(* The inductive invariant adds to the checked properties what they need   *)
(* from the tasks' local state: a chunk is written from 0 to len, only a   *)
(* chunk in the "write" phase is partly in the ring, an idle player holds  *)
(* no bytes, and no record reaches beyond what has been posted.            *)
(***************************************************************************)
EXTENDS Supply, TLAPS

\* emit_pcm_ holds a chunk exactly while it is running, and only while it is
\* writing can part of it be in the ring.
EmitState ==
    /\ netPhase = "recv" <=> len = 0
    /\ netPhase # "write" => written = 0
    /\ netPhase = "write" => written < len
    /\ netPhase = "post" => len <= pcmIn

\* An idle player has nothing of the ring to its name.
PlayerState ==
    /\ plPhase = "idle" => rem = 0
    /\ plPhase = "discard" => rem > 0

\* No record, popped or queued, describes bytes beyond the posted end.
Bounded ==
    /\ ReadPos + rem <= PostedEnd
    /\ \A i \in 1..Len(queue) : queue[i].at + queue[i].bytes <= PostedEnd

IInv ==
    /\ TypeOK
    /\ EmitState
    /\ PlayerState
    /\ Framed
    /\ Bounded
    /\ MassBalance
    /\ WholeChunkFits

-----------------------------------------------------------------------------
\* The initial state satisfies the inductive invariant.
LEMMA InitIInv == Init => IInv
<1> SUFFICES ASSUME Init PROVE IInv
  OBVIOUS
<1> USE DEF Init, ReadPos, PostedEnd, Free
<1>1. TypeOK
  <2>1. queue \in Seq(Record)
    OBVIOUS
  <2>2. outputActive \in BOOLEAN
    OBVIOUS
  <2> QED BY <2>1, <2>2 DEF TypeOK
<1>2. EmitState /\ PlayerState
  BY DEF EmitState, PlayerState
<1>3. Framed /\ Bounded
  BY DEF Framed, Bounded
<1>4. MassBalance /\ WholeChunkFits
  BY SupplyAssumption DEF MassBalance, WholeChunkFits
<1> QED BY <1>1, <1>2, <1>3, <1>4 DEF IInv

USE SupplyAssumption

\* The posted end and the framing depend on the queue, the read position and
\* the chunk being emitted only: a step that leaves all of them alone keeps
\* both.
LEMMA FramingKept ==
    ASSUME IInv, UNCHANGED queue, ReadPos' + rem' = ReadPos + rem,
           PostedEnd' = PostedEnd
    PROVE  Framed' /\ Bounded'
BY DEF IInv, Framed, Bounded

\* Popping a record gives the player its bytes, and those only.
LEMMA TakeFramed ==
    ASSUME IInv, NEW fate \in {"discard", "lead", "read"}, NEW s \in Skips,
           PlayerTake(fate, s)
    PROVE  Framed' /\ Bounded'
<1>1. /\ queue \in Seq(Record) /\ queue # <<>> /\ rem = 0
      /\ queue' = Tail(queue) /\ rem' = queue[1].bytes
      /\ ReadPos' = ReadPos /\ PostedEnd' = PostedEnd
    BY DEF IInv, TypeOK, PlayerState, PlayerTake, netVars, ReadPos, PostedEnd
<1>2. /\ Len(queue) \in Nat \ {0} /\ Len(queue') = Len(queue) - 1
      /\ queue' \in Seq(Record)
      /\ \A i \in 1..Len(queue') : queue'[i] = queue[i + 1]
    BY <1>1
<1>3. ReadPos \in Nat /\ PostedEnd \in Int /\ queue[1].at = ReadPos
    BY <1>1 DEF IInv, TypeOK, Framed, ReadPos, PostedEnd
<1>4. \A i \in 1..Len(queue) : queue[i] \in Record
    BY <1>1
<1>5. Bounded'
  <2>1. ReadPos' + rem' <= PostedEnd'
    BY <1>1, <1>2, <1>3, <1>4 DEF IInv, Bounded, Record
  <2>2. \A i \in 1..Len(queue') : queue'[i].at + queue'[i].bytes <= PostedEnd'
    BY <1>1, <1>2 DEF IInv, Bounded
  <2> QED BY <2>1, <2>2 DEF Bounded
<1>6. Framed'
  <2>1. CASE Len(queue) = 1
    <3>1. queue' = <<>>
      BY <1>1, <1>2, <2>1
    <3>2. ReadPos' + rem' = PostedEnd'
      BY <1>1, <1>2, <1>3, <1>4, <2>1 DEF IInv, Framed, Record
    <3> QED BY <3>1, <3>2 DEF Framed
  <2>2. CASE Len(queue) > 1
    <3>1. queue' # <<>>
      BY <1>2, <2>2
    <3>2. queue'[1].at = ReadPos' + rem'
      BY <1>1, <1>2, <1>3, <1>4, <2>2 DEF IInv, Framed, Record
    <3>3. \A i \in 1..(Len(queue') - 1) :
              queue'[i + 1].at = queue'[i].at + queue'[i].bytes
      BY <1>1, <1>2 DEF IInv, Framed
    <3>4. queue'[Len(queue')].at + queue'[Len(queue')].bytes = PostedEnd'
      BY <1>1, <1>2, <2>2 DEF IInv, Framed
    <3> QED BY <3>1, <3>2, <3>3, <3>4 DEF Framed
  <2> QED BY <1>2, <2>1, <2>2
<1> QED BY <1>5, <1>6

\* Posting a record continues the chain of records with no gap.
LEMMA PostFramed ==
    ASSUME IInv, NetPost
    PROVE  Framed' /\ Bounded' /\ queue' \in Seq(Record)
<1> DEFINE r == [at |-> pcmIn - len, bytes |-> len]
<1>1. /\ queue \in Seq(Record) /\ queue' = Append(queue, r)
      /\ len \in Nat \ {0} /\ pcmIn \in Nat /\ len <= pcmIn
      /\ ReadPos' = ReadPos /\ rem' = rem /\ ReadPos \in Nat /\ rem \in Nat
      /\ PostedEnd = pcmIn - len /\ PostedEnd' = pcmIn
    BY DEF IInv, TypeOK, EmitState, NetPost, playerVars, ReadPos, PostedEnd
<1>2. r \in Record /\ r.at = pcmIn - len /\ r.bytes = len
    BY <1>1 DEF Record
<1> HIDE DEF r
<1>3. /\ queue' \in Seq(Record) /\ queue' # <<>>
      /\ Len(queue) \in Nat /\ Len(queue') = Len(queue) + 1
      /\ queue'[Len(queue) + 1] = r
      /\ \A i \in 1..Len(queue) : queue'[i] = queue[i] /\ queue[i] \in Record
    BY <1>1, <1>2
<1>4. Bounded'
  <2>1. \A i \in 1..Len(queue) : queue[i].at + queue[i].bytes <= PostedEnd'
    BY <1>1, <1>3 DEF IInv, Bounded, Record
  <2>2. r.at + r.bytes <= PostedEnd'
    BY <1>1, <1>2
  <2>3. ReadPos' + rem' <= PostedEnd'
    BY <1>1 DEF IInv, Bounded
  <2> QED BY <1>3, <2>1, <2>2, <2>3 DEF Bounded
<1>5. Framed'
  <2>1. queue'[1].at = ReadPos' + rem'
    BY <1>1, <1>2, <1>3 DEF IInv, Framed
  <2>2. \A i \in 1..Len(queue) : queue'[i + 1].at = queue'[i].at + queue'[i].bytes
    <3>1. SUFFICES ASSUME NEW i \in 1..Len(queue)
                   PROVE  queue'[i + 1].at = queue'[i].at + queue'[i].bytes
      OBVIOUS
    <3>2. CASE i = Len(queue)
      BY <1>1, <1>2, <1>3, <3>2 DEF IInv, Framed
    <3>3. CASE i < Len(queue)
      BY <1>3, <3>3 DEF IInv, Framed
    <3> QED BY <1>3, <3>2, <3>3
  <2>3. queue'[Len(queue')].at + queue'[Len(queue')].bytes = PostedEnd'
    BY <1>1, <1>2, <1>3
  <2> QED BY <1>3, <2>1, <2>2, <2>3 DEF Framed
<1> QED BY <1>3, <1>4, <1>5
\* PlayerAbandon(left) leaves exactly `left' bytes to the player.
LEMMA AbandonKeeps ==
    ASSUME NEW left \in Nat, PlayerAbandon(left)
    PROVE  /\ rem' = left /\ got' = 0 /\ offset' = 0 /\ skip' = 0 /\ zeroWrites' = 0
           /\ plPhase' = IF left = 0 THEN "idle" ELSE "discard"
BY DEF PlayerAbandon, PlayerIdle

-----------------------------------------------------------------------------
\* The steps of the network task preserve the invariant.
LEMMA NetPreserves ==
    ASSUME IInv, NetStep \/ \E n \in ChunkSizes : NetDecode(n)
    PROVE  IInv'
<1> USE DEF playerVars, ReadPos, PostedEnd, Free
<1>1. ASSUME NEW n \in ChunkSizes, NetDecode(n) PROVE IInv'
  <2>1. TypeOK' /\ EmitState' /\ PlayerState' /\ MassBalance' /\ WholeChunkFits'
    BY <1>1 DEF NetDecode, IInv, TypeOK, EmitState, PlayerState, MassBalance,
                WholeChunkFits
  <2>2. Framed' /\ Bounded'
    BY <1>1, FramingKept DEF NetDecode
  <2> QED BY <2>1, <2>2 DEF IInv
<1>2. CASE NetPoll
  <2>1. TypeOK' /\ EmitState' /\ PlayerState' /\ MassBalance' /\ WholeChunkFits'
    BY <1>2 DEF NetPoll, IInv, TypeOK, EmitState, PlayerState, MassBalance,
                WholeChunkFits
  <2>2. Framed' /\ Bounded'
    BY <1>2, FramingKept DEF NetPoll
  <2> QED BY <2>1, <2>2 DEF IInv
<1>3. CASE NetDropChunk
  <2>1. TypeOK' /\ EmitState' /\ PlayerState' /\ MassBalance' /\ WholeChunkFits'
    BY <1>3 DEF NetDropChunk, IInv, TypeOK, EmitState, PlayerState, MassBalance,
                WholeChunkFits
  <2>2. Framed' /\ Bounded'
    BY <1>3, FramingKept DEF NetDropChunk
  <2> QED BY <2>1, <2>2 DEF IInv
<1>4. CASE NetRoom
  <2>1. TypeOK' /\ EmitState' /\ PlayerState' /\ MassBalance' /\ WholeChunkFits'
    BY <1>4 DEF NetRoom, IInv, TypeOK, EmitState, PlayerState, MassBalance,
                WholeChunkFits
  <2>2. Framed' /\ Bounded'
    BY <1>4, FramingKept DEF NetRoom
  <2> QED BY <2>1, <2>2 DEF IInv
<1>5. CASE NetPost
  <2>1. Framed' /\ Bounded' /\ queue' \in Seq(Record)
    BY <1>5, PostFramed
  <2>2. TypeOK' /\ EmitState' /\ PlayerState' /\ MassBalance' /\ WholeChunkFits'
    BY <1>5, <2>1 DEF NetPost, IInv, TypeOK, EmitState, PlayerState, MassBalance,
                      WholeChunkFits
  <2> QED BY <2>1, <2>2 DEF IInv
<1>6. ASSUME NEW n \in 1..len, NetWrite(n) PROVE IInv'
  <2>1. TypeOK' /\ EmitState' /\ PlayerState' /\ MassBalance' /\ WholeChunkFits'
    BY <1>6 DEF NetWrite, IInv, TypeOK, EmitState, PlayerState, MassBalance,
                WholeChunkFits
  <2>2. PostedEnd' = PostedEnd
    BY <1>6 DEF NetWrite, IInv, TypeOK
  <2>3. Framed' /\ Bounded'
    BY <1>6, <2>2, FramingKept DEF NetWrite
  <2> QED BY <2>1, <2>3 DEF IInv
<1> QED BY <1>1, <1>2, <1>3, <1>4, <1>5, <1>6 DEF NetStep

\* The steps of the player task preserve the invariant.
LEMMA PlayerPreserves ==
    ASSUME IInv, PlayerStep
    PROVE  IInv'
<1> USE DEF netVars, ReadPos, PostedEnd, Free
<1>1. ASSUME NEW fate \in {"discard", "lead", "read"}, NEW s \in Skips,
             PlayerTake(fate, s)
      PROVE  IInv'
  <2>1. Framed' /\ Bounded'
    BY <1>1, TakeFramed
  <2>2. queue' \in Seq(Record) /\ Head(queue) \in Record
    BY <1>1 DEF PlayerTake, IInv, TypeOK
  <2>3. TypeOK' /\ EmitState' /\ PlayerState' /\ MassBalance' /\ WholeChunkFits'
    BY <1>1, <2>2 DEF PlayerTake, IInv, TypeOK, EmitState, PlayerState, MassBalance,
                      WholeChunkFits, Record
  <2> QED BY <2>1, <2>3 DEF IInv
<1>2. CASE PlayerLeadOver
  <2>1. TypeOK' /\ EmitState' /\ PlayerState' /\ MassBalance' /\ WholeChunkFits'
    BY <1>2 DEF PlayerLeadOver, IInv, TypeOK, EmitState, PlayerState, MassBalance,
                WholeChunkFits
  <2>2. Framed' /\ Bounded'
    BY <1>2, FramingKept DEF PlayerLeadOver
  <2> QED BY <2>1, <2>2 DEF IInv
<1>3. CASE PlayerAbort
  <2>1. rem \in Nat /\ PlayerAbandon(rem)
    BY <1>3 DEF PlayerAbort, IInv, TypeOK
  <2>2. /\ rem' = rem /\ got' = 0 /\ offset' = 0 /\ skip' = 0 /\ zeroWrites' = 0
        /\ plPhase' = IF rem = 0 THEN "idle" ELSE "discard"
    BY <2>1, AbandonKeeps
  <2>3. TypeOK' /\ EmitState' /\ PlayerState' /\ MassBalance' /\ WholeChunkFits'
    BY <1>3, <2>2 DEF PlayerAbort, IInv, TypeOK, EmitState, PlayerState, MassBalance,
                      WholeChunkFits
  <2>4. Framed' /\ Bounded'
    BY <1>3, <2>2, FramingKept DEF PlayerAbort
  <2> QED BY <2>3, <2>4 DEF IInv
<1>4. CASE PlayerSliceDone
  <2>1. rem' = rem
    BY <1>4 DEF PlayerSliceDone, PlayerIdle
  <2>2. TypeOK' /\ EmitState' /\ PlayerState' /\ MassBalance' /\ WholeChunkFits'
    BY <1>4 DEF PlayerSliceDone, PlayerIdle, IInv, TypeOK, EmitState, PlayerState,
                MassBalance, WholeChunkFits
  <2>3. Framed' /\ Bounded'
    BY <1>4, <2>1, FramingKept DEF PlayerSliceDone
  <2> QED BY <2>2, <2>3 DEF IInv
<1>5. ASSUME NEW n \in 1..SliceSize, PlayerRead(n) PROVE IInv'
  <2>1. TypeOK' /\ EmitState' /\ PlayerState' /\ MassBalance' /\ WholeChunkFits'
    BY <1>5 DEF PlayerRead, IInv, TypeOK, EmitState, PlayerState, MassBalance,
                WholeChunkFits
  <2>2. ReadPos' + rem' = ReadPos + rem
    BY <1>5 DEF PlayerRead, IInv, TypeOK
  <2>3. Framed' /\ Bounded'
    BY <1>5, <2>2, FramingKept DEF PlayerRead
  <2> QED BY <2>1, <2>3 DEF IInv
<1>6. ASSUME NEW n \in 0..SliceSize, PlayerWrite(n) PROVE IInv'
  <2>1. /\ rem' = rem
        /\ got' \in Nat /\ offset' \in Nat /\ skip' \in Nat /\ zeroWrites' \in Nat
        /\ plPhase' \in {"write", IF rem = 0 THEN "idle" ELSE "discard"}
    <3>1. CASE n > 0
      BY <1>6, <3>1 DEF PlayerWrite, IInv, TypeOK
    <3>2. CASE n = 0 /\ zeroWrites + 1 < RefuseLimit
      BY <1>6, <3>2 DEF PlayerWrite, IInv, TypeOK
    <3>3. CASE n = 0 /\ zeroWrites + 1 >= RefuseLimit
      <4>1. rem \in Nat /\ PlayerAbandon(rem)
        BY <1>6, <3>3 DEF PlayerWrite, IInv, TypeOK
      <4> QED BY <4>1, AbandonKeeps
    <3> QED BY <1>6, <3>1, <3>2, <3>3 DEF PlayerWrite
  <2>2. TypeOK' /\ EmitState' /\ PlayerState' /\ MassBalance' /\ WholeChunkFits'
    BY <1>6, <2>1 DEF PlayerWrite, IInv, TypeOK, EmitState, PlayerState, MassBalance,
                      WholeChunkFits
  <2>3. Framed' /\ Bounded'
    BY <1>6, <2>1, FramingKept DEF PlayerWrite
  <2> QED BY <2>2, <2>3 DEF IInv
<1>7. ASSUME NEW n \in 1..SliceSize, PlayerDiscard(n) PROVE IInv'
  <2>1. rem - n \in Nat /\ PlayerAbandon(rem - n)
    BY <1>7 DEF PlayerDiscard, IInv, TypeOK
  <2>2. /\ rem' = rem - n
        /\ got' = 0 /\ offset' = 0 /\ skip' = 0 /\ zeroWrites' = 0
        /\ plPhase' = IF rem - n = 0 THEN "idle" ELSE "discard"
    BY <2>1, AbandonKeeps
  <2>3. TypeOK' /\ EmitState' /\ PlayerState' /\ MassBalance' /\ WholeChunkFits'
    BY <1>7, <2>1, <2>2 DEF PlayerDiscard, IInv, TypeOK, EmitState, PlayerState,
                            MassBalance, WholeChunkFits
  <2>4. ReadPos' + rem' = ReadPos + rem
    BY <1>7, <2>2 DEF PlayerDiscard, IInv, TypeOK
  <2>5. Framed' /\ Bounded'
    BY <1>7, <2>4, FramingKept DEF PlayerDiscard
  <2> QED BY <2>3, <2>5 DEF IInv
<1> QED BY <1>1, <1>2, <1>3, <1>4, <1>5, <1>6, <1>7 DEF PlayerStep

\* Every step preserves the inductive invariant.
LEMMA NextIInv == IInv /\ [Next]_vars => IInv'
<1> SUFFICES ASSUME IInv, [Next]_vars PROVE IInv'
  OBVIOUS
<1>1. CASE NetStep \/ \E n \in ChunkSizes : NetDecode(n)
  BY <1>1, NetPreserves
<1>2. CASE PlayerStep
  BY <1>2, PlayerPreserves
<1>3. CASE SetOutputActive
  BY <1>3 DEF SetOutputActive, netVars, playerVars, IInv, TypeOK, EmitState,
              PlayerState, Framed, Bounded, MassBalance, WholeChunkFits, ReadPos,
              PostedEnd, Free
<1>4. CASE UNCHANGED vars
  BY <1>4 DEF vars, netVars, playerVars, IInv, TypeOK, EmitState, PlayerState, Framed,
              Bounded, MassBalance, WholeChunkFits, ReadPos, PostedEnd, Free
<1> QED BY <1>1, <1>2, <1>3, <1>4 DEF Next

\* The inductive invariant gives the checked properties that are not part of it.
LEMMA IInvImplies == IInv => PoppedBytesPresent /\ NoStrandedPcm
<1> SUFFICES ASSUME IInv PROVE PoppedBytesPresent /\ NoStrandedPcm
  OBVIOUS
<1>1. PoppedBytesPresent
  BY DEF IInv, TypeOK, EmitState, Bounded, MassBalance, PoppedBytesPresent, ReadPos,
         PostedEnd
<1>2. NoStrandedPcm
  BY DEF IInv, TypeOK, EmitState, PlayerState, Framed, MassBalance, NoStrandedPcm,
         ReadPos, PostedEnd
<1> QED BY <1>1, <1>2

-----------------------------------------------------------------------------
\* The inductive invariant holds in every reachable state.
THEOREM SupplyInvariant == Spec => []IInv
BY InitIInv, NextIInv, PTL DEF Spec

\* Type correctness of the supply path.
THEOREM SupplyTypeOK == Spec => []TypeOK
<1>1. IInv => TypeOK
  BY DEF IInv
<1> QED BY <1>1, SupplyInvariant, PTL

\* Framing between the byte ring and the record queue (emit_pcm_, push_chunk_,
\* discard_ring_bytes_) never slips, whatever the capacities and chunk sizes.
THEOREM SupplyFramed == Spec => []Framed
<1>1. IInv => Framed
  BY DEF IInv
<1> QED BY <1>1, SupplyInvariant, PTL

\* A popped record's bytes are in the ring, so the unbounded reads of push_chunk_
\* and discard_ring_bytes_ never starve.
THEOREM SupplyPoppedBytes == Spec => []PoppedBytesPresent
BY SupplyInvariant, IInvImplies, PTL

\* The wedge of an idle player, an empty queue and a ring nobody will drain
\* (comment in emit_pcm_) is unreachable.
THEOREM SupplyNoStrandedPcm == Spec => []NoStrandedPcm
BY SupplyInvariant, IInvImplies, PTL

\* Once emit_pcm_ starts to write a chunk, the rest of it always fits.
THEOREM SupplyWholeChunkFits == Spec => []WholeChunkFits
<1>1. IInv => WholeChunkFits
  BY DEF IInv
<1> QED BY <1>1, SupplyInvariant, PTL

\* The mass balance of the ring's three byte counters, and its capacity.
THEOREM SupplyMassBalance == Spec => []MassBalance
<1>1. IInv => MassBalance
  BY DEF IInv
<1> QED BY <1>1, SupplyInvariant, PTL

\* Ring and record queue agree on every byte, for every capacity and chunk size.
THEOREM SupplyRingAndQueueAgree == Spec => []RingAndQueueAgree
BY SupplyTypeOK, SupplyFramed, SupplyPoppedBytes, SupplyMassBalance, PTL DEF RingAndQueueAgree

\* Neither task is left waiting for the other by a chunk written in part.
THEOREM SupplyNeverWedged == Spec => []NeverWedged
BY SupplyWholeChunkFits, SupplyNoStrandedPcm, PTL DEF NeverWedged
=============================================================================
