--------------------------- MODULE SessionProofs ----------------------------
(***************************************************************************)
(* Type correctness of Session, that its sessions are for the server       *)
(* chosen last, and that the listener is told everything in order, for any *)
(* sets of servers and any length of the queue.                            *)
(***************************************************************************)
EXTENDS Session, SequenceTheorems, TLAPS

USE SessionAssumption DEF None

\* A chosen target, with nothing on its way that would drop the session: what
\* is taken to the scan is the override or the configuration, what comes out of
\* it is the choice.
TargetOK ==
    ~reconnect /\ mainPhase = "loop" =>
        /\ netPhase = "scan" => target = (IF Override # None THEN Override ELSE ConfigHost)
        /\ netPhase \in {"connect", "up"} => target = Choice

\* A stream only runs within a session, and ends before it does.
StreamInSession == streaming => netPhase \in {"up", "close"}

IInv == PlacesOK /\ FlagsOK /\ TargetOK /\ StreamInSession /\ ListenerInStep

\* Posting an event leaves a queue of events that is not too long.
LEMMA PostType ==
    ASSUME NEW event \in Events, Post(event), events \in Seq(Events), Len(events) <= QueueCap,
           lost \in BOOLEAN
    PROVE  events' \in Seq(Events) /\ Len(events') <= QueueCap /\ lost' \in BOOLEAN
<1>1. CASE Len(events) < QueueCap
  <2>1. events' = Append(events, event) /\ lost' = lost
    BY <1>1 DEF Post
  <2>2. Append(events, event) \in Seq(Events) /\ Len(Append(events, event)) = Len(events) + 1
    BY AppendProperties
  <2>3. Len(events) \in Nat
    BY LenProperties
  <2>4. lost' \in BOOLEAN
    BY <2>1, Zenon
  <2> QED BY <1>1, <2>1, <2>2, <2>3, <2>4
<1>2. CASE ~(Len(events) < QueueCap)
  <2>1. events' = events /\ lost' = TRUE
    BY <1>2 DEF Post
  <2> QED BY <2>1
<1> QED BY <1>1, <1>2

\* So does turning the stream on or off.
LEMMA StreamingType ==
    ASSUME NEW active \in BOOLEAN, SetStreaming(active), events \in Seq(Events),
           Len(events) <= QueueCap, lost \in BOOLEAN
    PROVE  /\ events' \in Seq(Events) /\ Len(events') <= QueueCap /\ lost' \in BOOLEAN
           /\ streaming' \in BOOLEAN
<1>1. streaming' \in BOOLEAN
  BY Zenon DEF SetStreaming
<1>2. CASE active = streaming
  BY <1>1, <1>2 DEF SetStreaming, queueVars
<1>3. CASE active # streaming
  <2>1. Post(IF active THEN "start" ELSE "end")
    BY <1>3, Zenon DEF SetStreaming
  <2>2. (IF active THEN "start" ELSE "end") \in Events
    BY DEF Events
  <2> QED BY <1>1, <2>1, <2>2, PostType
<1> QED BY <1>2, <1>3

\* The initial state satisfies the inductive invariant.
LEMMA InitIInv == Init => IInv
<1> SUFFICES ASSUME Init PROVE IInv
  OBVIOUS
<1>1. PlacesOK
  BY DEF Init, PlacesOK
<1>2. FlagsOK
  BY Zenon DEF Init, FlagsOK
<1>3. TargetOK /\ StreamInSession
  BY DEF Init, TargetOK, StreamInSession
<1>4. ListenerInStep
  BY DEF Init, ListenerInStep, View, Network
<1> QED BY <1>1, <1>2, <1>3, <1>4 DEF IInv

-----------------------------------------------------------------------------
\* Steps of the network task that post nothing keep the places.
LEMMA QuietStep ==
    ASSUME IInv,
           \/ NetReady \/ NetBegin \/ NetChoose \/ NetConnectFails \/ NetDrop
           \/ \E found \in Announced \cup {None} : NetScan(found)
           \/ NetServerGone \/ PlayoutBailout
    PROVE  PlacesOK'
<1> USE DEF IInv, PlacesOK, queueVars, viewVars, choiceVars, mirrorVars, netVars
<1>1. CASE NetReady \/ NetBegin \/ NetConnectFails \/ NetDrop \/ NetServerGone \/ PlayoutBailout
  BY <1>1 DEF NetReady, NetBegin, NetConnectFails, NetDrop, NetServerGone, PlayoutBailout
<1>2. CASE NetChoose
  BY <1>2 DEF NetChoose, Override, Hosts
<1>3. ASSUME NEW found \in Announced \cup {None}, NetScan(found) PROVE PlacesOK'
  BY <1>3 DEF NetScan, Hosts
<1> QED BY <1>1, <1>2, <1>3

\* Steps of the network task that post an event keep the places.
LEMMA PostingStep ==
    ASSUME IInv,
           \/ NetConnect \/ NetChunk \/ NetIdle \/ NetClose \/ NetClosed
           \/ \E accepted \in BOOLEAN : NetCodec(accepted)
    PROVE  PlacesOK'
<1>0. /\ events \in Seq(Events) /\ Len(events) <= QueueCap /\ lost \in BOOLEAN
      /\ {"connected", "disconnected"} \subseteq Events
  BY DEF IInv, PlacesOK, FlagsOK, Events
<1>1. events' \in Seq(Events) /\ Len(events') <= QueueCap
  <2>1. CASE NetConnect
    BY <1>0, <2>1, PostType DEF NetConnect
  <2>2. CASE NetClosed
    BY <1>0, <2>2, PostType DEF NetClosed
  <2>3. ASSUME NEW active \in BOOLEAN, SetStreaming(active)
        PROVE  events' \in Seq(Events) /\ Len(events') <= QueueCap
    BY <1>0, <2>3, StreamingType
  <2>4. CASE NetChunk
    BY <2>3, <2>4 DEF NetChunk
  <2>5. CASE NetIdle \/ NetClose
    BY <2>3, <2>5 DEF NetIdle, NetClose
  <2>6. ASSUME NEW accepted \in BOOLEAN, NetCodec(accepted)
        PROVE  events' \in Seq(Events) /\ Len(events') <= QueueCap
    BY <2>3, <2>6 DEF NetCodec
  <2> QED BY <2>1, <2>2, <2>4, <2>5, <2>6
<1>2. /\ netPhase' \in {"wait", "begin", "choose", "scan", "connect", "up", "close", "closed"}
      /\ UNCHANGED <<target, discovered, mainPhase, choiceVars, viewVars>>
  BY DEF IInv, PlacesOK, NetConnect, NetChunk, NetIdle, NetClose, NetClosed, NetCodec
<1> QED BY <1>1, <1>2 DEF IInv, PlacesOK, choiceVars, viewVars

\* Steps of the main loop keep the places.
LEMMA MainPlaces == ASSUME IInv, MainStep PROVE PlacesOK'
<1> USE DEF IInv, PlacesOK, queueVars, viewVars, choiceVars, mirrorVars, netVars
<1>1. CASE (\E wifiUp \in BOOLEAN : MainMirror(wifiUp)) \/ OtaStart \/ MainFlag \/ OtaEnd
  BY <1>1 DEF MainMirror, OtaStart, MainFlag, OtaEnd
<1>2. ASSUME NEW m \in Typed \cup {None}, NEW s \in Announced \cup {None}, MainChoose(m, s)
      PROVE  PlacesOK'
  BY <1>2 DEF MainChoose, Hosts
<1>3. CASE MainDrain
  <2>1. /\ Tail(events) \in Seq(Events) /\ Len(Tail(events)) = Len(events) - 1
        /\ Len(events) \in Nat
    BY <1>3, HeadTailProperties, LenProperties DEF MainDrain
  <2>2. events' \in Seq(Events) /\ Len(events') <= QueueCap
    BY <1>3, <2>1 DEF MainDrain
  <2>3. held' \in 0..MaxHeld
    BY <1>3 DEF MainDrain
  <2> QED BY <1>3, <2>2, <2>3 DEF MainDrain
<1> QED BY <1>1, <1>2, <1>3 DEF MainStep

\* Every step keeps the flags.
LEMMA FlagsStep == ASSUME IInv, Next PROVE FlagsOK'
<1>0. FlagsOK /\ events \in Seq(Events) /\ Len(events) <= QueueCap
      /\ {"connected", "disconnected"} \subseteq Events
  BY DEF IInv, PlacesOK, Events
<1>1. ASSUME NEW active \in BOOLEAN, SetStreaming(active)
      PROVE  lost' \in BOOLEAN /\ streaming' \in BOOLEAN
  <2>1. lost \in BOOLEAN
    BY <1>0, Zenon DEF FlagsOK
  <2> QED BY <1>0, <1>1, <2>1, StreamingType
<1>2. ASSUME NEW event \in Events, Post(event) PROVE lost' \in BOOLEAN
  <2>1. lost \in BOOLEAN
    BY <1>0, Zenon DEF FlagsOK
  <2> QED BY <1>0, <1>2, <2>1, PostType
<1>3. ASSUME NetStep PROVE FlagsOK'
  <2> USE DEF queueVars, viewVars, choiceVars, mirrorVars, netVars
  <2>1. CASE NetReady \/ NetChoose \/ NetConnectFails \/ NetDrop
    BY <1>0, <2>1, Zenon DEF NetReady, NetChoose, NetConnectFails, NetDrop, FlagsOK
  <2>2. CASE NetBegin
    BY <1>0, <2>2, Zenon DEF NetBegin, FlagsOK
  <2>3. ASSUME NEW found \in Announced \cup {None}, NetScan(found) PROVE FlagsOK'
    BY <1>0, <2>3, Zenon DEF NetScan, FlagsOK
  <2>4. CASE NetConnect
    BY <1>0, <1>2, <2>4, Zenon DEF NetConnect, FlagsOK
  <2>5. CASE NetClose
    BY <1>0, <1>1, <2>5, Zenon DEF NetClose, FlagsOK
  <2>6. CASE NetClosed
    BY <1>0, <1>2, <2>6, Zenon DEF NetClosed, FlagsOK
  <2> QED BY <1>3, <2>1, <2>2, <2>3, <2>4, <2>5, <2>6 DEF NetStep
<1>4. ASSUME ServerStep PROVE FlagsOK'
  <2> USE DEF queueVars, viewVars, choiceVars, mirrorVars, netVars
  <2>1. ASSUME NEW accepted \in BOOLEAN, NetCodec(accepted) PROVE FlagsOK'
    BY <1>0, <1>1, <2>1, Zenon DEF NetCodec, FlagsOK
  <2>2. CASE NetChunk
    BY <1>0, <1>1, <2>2, Zenon DEF NetChunk, FlagsOK
  <2>3. CASE NetIdle
    BY <1>0, <1>1, <2>3, Zenon DEF NetIdle, FlagsOK
  <2>4. CASE NetServerGone
    BY <1>0, <2>4, Zenon DEF NetServerGone, FlagsOK
  <2> QED BY <1>4, <2>1, <2>2, <2>3, <2>4 DEF ServerStep
<1>5. ASSUME PlayoutBailout PROVE FlagsOK'
  BY <1>0, <1>5, Zenon DEF PlayoutBailout, FlagsOK, queueVars, viewVars, mirrorVars, netVars
<1>6. ASSUME MainStep PROVE FlagsOK'
  <2> USE DEF queueVars, viewVars, choiceVars, mirrorVars, netVars
  <2>1. ASSUME NEW wifiUp \in BOOLEAN, MainMirror(wifiUp) PROVE FlagsOK'
    <3>1. ready' \in BOOLEAN
      BY <2>1, Zenon DEF MainMirror
    <3> QED BY <1>0, <2>1, <3>1, Zenon DEF MainMirror, FlagsOK
  <2>2. CASE MainDrain
    <3>1. viewUp' \in BOOLEAN
      <4>1. viewUp \in BOOLEAN
        BY <1>0, Zenon DEF FlagsOK
      <4> QED BY <2>2, <4>1, Zenon DEF MainDrain
    <3> QED BY <1>0, <2>2, <3>1, Zenon DEF MainDrain, FlagsOK
  <2>3. ASSUME NEW m \in Typed \cup {None}, NEW s \in Announced \cup {None}, MainChoose(m, s)
        PROVE  FlagsOK'
    BY <1>0, <2>3, Zenon DEF MainChoose, FlagsOK
  <2>4. CASE OtaStart
    BY <1>0, <2>4, Zenon DEF OtaStart, FlagsOK
  <2>5. CASE MainFlag
    BY <1>0, <2>5, Zenon DEF MainFlag, FlagsOK
  <2>6. CASE OtaEnd
    BY <1>0, <2>6, Zenon DEF OtaEnd, FlagsOK
  <2> QED BY <1>6, <2>1, <2>2, <2>3, <2>4, <2>5, <2>6 DEF MainStep
<1> QED BY <1>3, <1>4, <1>5, <1>6 DEF Next

\* Every step keeps the target: a choice made while the network task is on its
\* way raises the flag, and a flag taken down is followed by a fresh reading.
LEMMA TargetStep == ASSUME IInv, Next PROVE TargetOK'
<1>0. PlacesOK /\ TargetOK /\ reconnect \in BOOLEAN
  <2>1. reconnect \in BOOLEAN
    BY Zenon DEF IInv, FlagsOK
  <2> QED BY <2>1 DEF IInv
<1> USE <1>0 DEF TargetOK, Override, Choice, choiceVars, netVars
<1>1. CASE NetReady \/ NetBegin \/ NetConnectFails \/ NetDrop \/ NetClose \/ NetClosed
  BY <1>1 DEF NetReady, NetBegin, NetConnectFails, NetDrop, NetClose, NetClosed
<1>2. CASE NetChoose
  BY <1>2 DEF NetChoose
<1>3. ASSUME NEW found \in Announced \cup {None}, NetScan(found) PROVE TargetOK'
  BY <1>3 DEF NetScan
<1>4. CASE NetConnect
  BY <1>4 DEF NetConnect
<1>5. CASE ServerStep
  BY <1>5 DEF ServerStep, NetCodec, NetChunk, NetIdle, NetServerGone
<1>6. CASE PlayoutBailout \/ MainFlag \/ OtaStart
  BY <1>6 DEF PlayoutBailout, MainFlag, OtaStart
<1>7. CASE (\E wifiUp \in BOOLEAN : MainMirror(wifiUp)) \/ MainDrain \/ OtaEnd
  BY <1>7 DEF MainMirror, MainDrain, OtaEnd
<1>8. ASSUME NEW m \in Typed \cup {None}, NEW s \in Announced \cup {None}, MainChoose(m, s)
      PROVE  TargetOK'
  BY <1>8 DEF MainChoose
<1> QED BY <1>1, <1>2, <1>3, <1>4, <1>5, <1>6, <1>7, <1>8 DEF Next, NetStep, MainStep

-----------------------------------------------------------------------------
\* Every step keeps the stream within the session.
LEMMA StreamStep == ASSUME IInv, Next PROVE StreamInSession'
<1>0. StreamInSession /\ streaming \in BOOLEAN
  BY Zenon DEF IInv, FlagsOK
<1> USE <1>0 DEF StreamInSession, netVars
<1>1. CASE NetReady \/ NetBegin \/ NetChoose \/ NetConnectFails \/ NetDrop \/ NetClosed
  BY <1>1 DEF NetReady, NetBegin, NetChoose, NetConnectFails, NetDrop, NetClosed
<1>2. ASSUME NEW found \in Announced \cup {None}, NetScan(found) PROVE StreamInSession'
  BY <1>2 DEF NetScan
<1>3. CASE NetConnect
  BY <1>3 DEF NetConnect
<1>4. CASE NetClose
  BY <1>4 DEF NetClose, SetStreaming
<1>5. CASE ServerStep
  BY <1>5 DEF ServerStep, NetCodec, NetChunk, NetIdle, NetServerGone, SetStreaming
<1>6. CASE PlayoutBailout
  BY <1>6 DEF PlayoutBailout
<1>7. CASE MainStep
  BY <1>7 DEF MainStep, MainMirror, MainDrain, MainChoose, OtaStart, MainFlag, OtaEnd
<1> QED BY <1>1, <1>2, <1>3, <1>4, <1>5, <1>6, <1>7 DEF Next, NetStep

\* An event that fits the network task's change keeps the queue a way from what
\* the listener has seen to where the task is.
LEMMA PostInStep ==
    ASSUME ListenerInStep, events \in Seq(Events), lost \in BOOLEAN,
           NEW event \in Events, Post(event), UNCHANGED viewVars,
           Before(event) = Network, After(event) = Network'
    PROVE  ListenerInStep'
<1>1. View' = View
  BY DEF viewVars, View
<1>2. CASE Len(events) < QueueCap
  <2>1. events' = Append(events, event) /\ lost' = lost
    BY <1>2 DEF Post
  <2>2. SUFFICES ASSUME ~lost PROVE ListenerInStep'
    BY <2>1 DEF ListenerInStep
  <2>3. /\ Len(events) \in Nat /\ Len(events') = Len(events) + 1
        /\ \A i \in 1..Len(events) : events'[i] = events[i]
        /\ events'[Len(events) + 1] = event
    BY <2>1
  <2>4. events' # <<>> /\ Head(events') = IF events = <<>> THEN event ELSE Head(events)
    BY <2>1, <2>3
  <2>5. Before(Head(events')) = View'
    BY <1>1, <2>2, <2>4 DEF ListenerInStep
  <2>6. \A i \in 1..Len(events') - 1 : After(events'[i]) = Before(events'[i + 1])
    <3> SUFFICES ASSUME NEW i \in 1..Len(events) PROVE After(events'[i]) = Before(events'[i + 1])
      BY <2>3
    <3>1. CASE i = Len(events)
      <4>1. After(events[i]) = Network
        BY <2>2, <3>1 DEF ListenerInStep
      <4> QED BY <2>3, <3>1, <4>1
    <3>2. CASE i < Len(events)
      <4>1. i \in 1..Len(events) - 1 /\ i + 1 \in 1..Len(events)
        BY <2>3, <3>2
      <4>2. After(events[i]) = Before(events[i + 1])
        BY <2>2, <4>1 DEF ListenerInStep
      <4> QED BY <2>3, <4>1, <4>2
    <3> QED BY <2>3, <3>1, <3>2
  <2>7. After(events'[Len(events')]) = Network'
    BY <2>3
  <2> QED BY <2>4, <2>5, <2>6, <2>7 DEF ListenerInStep
<1>3. CASE ~(Len(events) < QueueCap)
  BY <1>3 DEF Post, ListenerInStep
<1> QED BY <1>2, <1>3

\* The stream is only ever turned on or off within a session.
LEMMA StreamingInStep ==
    ASSUME IInv, NEW active \in BOOLEAN, SetStreaming(active), UNCHANGED viewVars,
           netPhase \in {"up", "close"}, netPhase' \in {"up", "close", "closed"}
    PROVE  ListenerInStep'
<1>1. /\ ListenerInStep /\ events \in Seq(Events) /\ lost \in BOOLEAN
      /\ streaming \in BOOLEAN /\ streaming' = active
  BY Zenon DEF IInv, PlacesOK, FlagsOK, SetStreaming
<1>2. CASE active = streaming
  BY <1>1, <1>2 DEF SetStreaming, queueVars, viewVars, ListenerInStep, View, Network
<1>3. CASE active # streaming
  <2> DEFINE event == IF active THEN "start" ELSE "end"
  <2>1. Post(event)
    BY <1>3, Zenon DEF SetStreaming
  <2>2. event \in Events
    BY DEF Events
  <2>3. Before(event) = Network /\ After(event) = Network'
    BY <1>1, <1>3 DEF Before, After, Network, Down, Connected, Streaming
  <2> QED BY <1>1, <2>1, <2>2, <2>3, PostInStep
<1> QED BY <1>2, <1>3

\* The listener takes the next step of the way.
LEMMA DrainInStep == ASSUME IInv, MainDrain PROVE ListenerInStep'
<1>1. /\ ListenerInStep /\ events \in Seq(Events) /\ events # <<>> /\ lost' = lost
      /\ events' = Tail(events) /\ held \in 0..MaxHeld /\ viewUp \in BOOLEAN
      /\ UNCHANGED <<netPhase, streaming>>
  <2>1. viewUp \in BOOLEAN
    BY Zenon DEF IInv, FlagsOK
  <2> QED BY <2>1 DEF IInv, PlacesOK, MainDrain, netVars
<1>2. SUFFICES ASSUME ~lost PROVE ListenerInStep'
  BY <1>1 DEF ListenerInStep
<1>3. /\ Head(events) \in Events /\ Len(events) \in Nat \ {0} /\ Len(events') = Len(events) - 1
      /\ \A i \in 1..Len(events) - 1 : events'[i] = events[i + 1]
      /\ Head(events) = events[1] /\ Network' = Network
  BY <1>1 DEF Network
<1>4. /\ Before(Head(events)) = View /\ After(events[Len(events)]) = Network
      /\ \A i \in 1..Len(events) - 1 : After(events[i]) = Before(events[i + 1])
  BY <1>1, <1>2 DEF ListenerInStep
<1>5. View' = After(Head(events))
  <2>1. /\ Before(Head(events)).held = held
        /\ Before(Head(events)).link = IF viewUp THEN "up" ELSE "down"
    BY <1>4 DEF View
  <2>2. /\ viewUp' = (IF Head(events) = "connected" THEN TRUE
                      ELSE IF Head(events) = "disconnected" THEN FALSE ELSE viewUp)
        /\ held' = (IF Head(events) = "start" /\ held < MaxHeld THEN held + 1
                    ELSE IF Head(events) = "end" /\ held > 0 THEN held - 1 ELSE held)
    BY <1>1 DEF MainDrain
  <2>3. CASE Head(events) = "connected"
    BY <1>1, <2>1, <2>2, <2>3 DEF View, Before, After, Down, Connected
  <2>4. CASE Head(events) = "disconnected"
    BY <1>1, <2>1, <2>2, <2>4 DEF View, Before, After, Down, Connected
  <2>5. CASE Head(events) = "start"
    BY <1>1, <2>1, <2>2, <2>5 DEF View, Before, After, Streaming, Connected
  <2>6. CASE Head(events) = "end"
    BY <1>1, <2>1, <2>2, <2>6 DEF View, Before, After, Streaming, Connected
  <2> QED BY <1>3, <2>3, <2>4, <2>5, <2>6 DEF Events
<1>6. CASE Len(events) = 1
  BY <1>1, <1>3, <1>4, <1>5, <1>6 DEF ListenerInStep
<1>7. CASE Len(events) > 1
  <2>1. events' # <<>> /\ Head(events') = events[2] /\ events'[Len(events')] = events[Len(events)]
    <3>1. events' \in Seq(Events) /\ Len(events') \in 1..Len(events) - 1
      BY <1>1, <1>3, <1>7
    <3>2. events'[1] = events[2] /\ events'[Len(events')] = events[Len(events') + 1]
      BY <1>3, <1>7, <3>1
    <3> QED BY <1>3, <3>1, <3>2
  <2>2. Before(Head(events')) = View'
    BY <1>3, <1>4, <1>5, <1>7, <2>1
  <2>3. \A i \in 1..Len(events') - 1 : After(events'[i]) = Before(events'[i + 1])
    BY <1>3, <1>4
  <2> QED BY <1>3, <1>4, <2>1, <2>2, <2>3 DEF ListenerInStep
<1> QED BY <1>3, <1>6, <1>7

\* Every step keeps the listener in step.
LEMMA ListenerStep == ASSUME IInv, Next PROVE ListenerInStep'
<1>0. /\ ListenerInStep /\ StreamInSession /\ events \in Seq(Events) /\ lost \in BOOLEAN
      /\ streaming \in BOOLEAN /\ {"connected", "disconnected"} \subseteq Events
  BY Zenon DEF IInv, PlacesOK, FlagsOK, Events
<1> USE DEF netVars, queueVars, viewVars
<1>1. ASSUME UNCHANGED <<queueVars, viewVars, streaming>>, Network' = Network
      PROVE  ListenerInStep'
  BY <1>0, <1>1 DEF ListenerInStep, View
<1>2. CASE NetReady \/ NetBegin \/ NetChoose \/ NetConnectFails \/ NetDrop
  BY <1>1, <1>2 DEF NetReady, NetBegin, NetChoose, NetConnectFails, NetDrop, Network
<1>3. ASSUME NEW found \in Announced \cup {None}, NetScan(found) PROVE ListenerInStep'
  BY <1>1, <1>3 DEF NetScan, Network
<1>4. CASE NetConnect
  <2>1. Before("connected") = Network /\ After("connected") = Network'
    BY <1>0, <1>4 DEF NetConnect, StreamInSession, Before, After, Network, Down, Connected
  <2> QED BY <1>0, <1>4, <2>1, PostInStep DEF NetConnect
<1>5. CASE NetClose
  BY <1>5, StreamingInStep DEF NetClose
<1>6. CASE NetClosed
  <2>1. Before("disconnected") = Network /\ After("disconnected") = Network'
    BY <1>0, <1>6 DEF NetClosed, StreamInSession, Before, After, Network, Down, Connected
  <2> QED BY <1>0, <1>6, <2>1, PostInStep DEF NetClosed
<1>7. CASE ServerStep
  <2>1. ASSUME NEW accepted \in BOOLEAN, NetCodec(accepted) PROVE ListenerInStep'
    BY <2>1, StreamingInStep DEF NetCodec
  <2>2. CASE NetChunk \/ NetIdle
    BY <2>2, StreamingInStep DEF NetChunk, NetIdle
  <2>3. CASE NetServerGone
    BY <1>1, <2>3 DEF NetServerGone, Network
  <2> QED BY <1>7, <2>1, <2>2, <2>3 DEF ServerStep
<1>8. CASE PlayoutBailout
  BY <1>1, <1>8 DEF PlayoutBailout, Network
<1>9. CASE MainDrain
  BY <1>9, DrainInStep
<1>10. CASE (\E wifiUp \in BOOLEAN : MainMirror(wifiUp)) \/ OtaStart \/ MainFlag \/ OtaEnd
  BY <1>1, <1>10 DEF MainMirror, OtaStart, MainFlag, OtaEnd, Network
<1>11. ASSUME NEW m \in Typed \cup {None}, NEW s \in Announced \cup {None}, MainChoose(m, s)
       PROVE  ListenerInStep'
  BY <1>1, <1>11 DEF MainChoose, Network
<1> QED BY <1>2, <1>3, <1>4, <1>5, <1>6, <1>7, <1>8, <1>9, <1>10, <1>11 DEF Next, NetStep, MainStep

-----------------------------------------------------------------------------
\* The inductive invariant holds in every behaviour of Session.
THEOREM SessionInvariant == Spec => []IInv
<1>1. IInv /\ [Next]_vars => IInv'
  <2> SUFFICES ASSUME IInv, [Next]_vars PROVE IInv'
    OBVIOUS
  <2>1. CASE Next
    <3>1. PlacesOK'
      BY <2>1, QuietStep, PostingStep, MainPlaces DEF Next, NetStep, ServerStep
    <3> QED BY <2>1, <3>1, FlagsStep, TargetStep, StreamStep, ListenerStep DEF IInv
  <2>2. CASE UNCHANGED vars
    <3> USE DEF vars, netVars, choiceVars, mirrorVars, viewVars, queueVars
    <3>1. PlacesOK' /\ TargetOK' /\ StreamInSession'
      BY <2>2 DEF IInv, PlacesOK, TargetOK, Override, Choice, StreamInSession
    <3>2. FlagsOK'
      BY <2>2, Zenon DEF IInv, FlagsOK
    <3>3. ListenerInStep'
      BY <2>2 DEF IInv, ListenerInStep, View, Network
    <3> QED BY <3>1, <3>2, <3>3 DEF IInv
  <2> QED BY <2>1, <2>2
<1> QED BY InitIInv, <1>1, PTL DEF Spec

\* Type correctness of every behaviour of Session: the queue of events never
\* holds more than its places, and every target is a server somebody named.
THEOREM SessionTypeOK == Spec => []TypeOK
<1>1. IInv => TypeOK
  BY DEF IInv, TypeOK
<1> QED BY SessionInvariant, <1>1, PTL

\* No session outlives, unflagged, the choice it was made for: the order in
\* which the flag is taken down and the override read is enough.
THEOREM SessionChosenServer == Spec => []ChosenServer
<1>1. IInv => ChosenServer
  BY DEF IInv, TargetOK, ChosenServer
<1> QED BY SessionInvariant, <1>1, PTL

\* As long as no event is dropped, the listener sees what happened in order: no
\* disconnect before the end of the stream, no stream twice, and at the end of
\* the queue it stands where the network task does.
THEOREM SessionListenerInStep == Spec => []ListenerInStep
<1>1. IInv => ListenerInStep
  BY DEF IInv
<1> QED BY SessionInvariant, <1>1, PTL
=============================================================================
