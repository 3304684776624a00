--------------------------- MODULE ConsensusProofs ---------------------------
(***************************************************************************)
(* Type correctness of Consensus, that lines of other access points and,   *)
(* in time, of other servers and of devices that are gone are not used,    *)
(* and that a group that is left alone comes to average the same lines:    *)
(* for any number of devices, access points, servers and disturbances.     *)
(***************************************************************************)
EXTENDS Consensus, TLAPS

USE ConsensusAssumption

\* A device that was serviced since the interval began knows where it is.
Located ==
    \A d \in Devices :
        streaming[d] /\ calm > 0 /\ (todo[d] # Work \/ calm > 1) =>
            bssid[d] = wifi[d]

\* A line heard from a client of another server loses its life as fast as the
\* session gains age.
ForeignDecays ==
    \A d \in Devices : \A h \in heard[d] :
        h.line.server # server[d] => h.left + since[d] <= Stale

InSession == {d \in Devices : streaming[d]}

\* The lines their owner would publish again: it is in session, settled, and still
\* where it measured them.
Sound == {l \in Line : /\ streaming[l.by] /\ settled[l.by]
                       /\ l.ap = wifi[l.by] /\ l.server = server[l.by]}

\* A device publishes its own line.
OwnIsOwn == \A d \in Devices : \A l \in own[d] : l.by = d

\* A whole interval after a disturbance every datagram sent before it was read or lost.
AirIsSound == calm > 0 => \A m \in air : m.to \in InSession => m.line \in Sound

\* A line that is sound no more loses its life as fast as calm lasts, and so does a
\* mapping made from it.
HeardIsSound ==
    \A d \in InSession : \A h \in heard[d] :
        (h.line \in Sound /\ h.line.server = server[d]) \/ h.left + calm <= Stale

AdoptedIsSound ==
    \A d \in InSession : \A l \in adopted[d] :
        l.by = d \/ (l \in Sound /\ l.server = server[d]) \/ mapLeft[d] + calm < Settling

-----------------------------------------------------------------------------
(* What the operators return. *)

\* A device that is associated measures a line on its access point.
LEMMA MeasuredLine ==
    ASSUME PlacesOK, NEW d \in Devices, wifi[d] # NoAp
    PROVE  Measured(d) \in Line /\ Measured(d).ap = wifi[d]
BY DEF PlacesOK, Measured, Line

\* What is kept or newly read is a set of lines that are not stale, and what
\* is newly read passed the filters.
LEMMA ReceiveType ==
    ASSUME NEW d \in Devices, NEW kept \in SUBSET Heard, NEW got \in SUBSET Beacon
    PROVE  /\ Receive(d, kept, got) \in SUBSET Heard
           /\ \A h \in Receive(d, kept, got) :
                 h \in kept \/ (h.line.ap = wifi[d] /\ h.line.server = server[d])
BY DEF Receive, Accepts, Heard, Beacon

\* The copies of a beacon are datagrams.
LEMMA CopiesType ==
    ASSUME NEW d \in Devices, Measured(d) \in Line
    PROVE  Copies(d) \subseteq Beacon
BY DEF Copies, Beacon

\* Growing old keeps a set of lines a set of lines, each of which was there
\* with one more interval to live.
LEMMA AgedType ==
    ASSUME NEW lines \in SUBSET Heard
    PROVE  /\ Aged(lines) \in SUBSET Heard
           /\ \A h \in Aged(lines) : \E g \in lines : h.line = g.line /\ h.left = g.left - 1
BY DEF Aged, Heard

LEMMA WaitedType ==
    ASSUME NEW sent \in SUBSET Beacon
    PROVE  Waited(sent) \subseteq Beacon
BY DEF Waited, Beacon

\* A pool of lines is a set of lines.
LEMMA PoolType ==
    ASSUME NEW mine \in SUBSET Line, NEW peers \in SUBSET Heard
    PROVE  Pool(mine, peers) \in SUBSET Line
BY DEF Pool, Heard

-----------------------------------------------------------------------------
(* Each part of the type invariant is preserved by each step. *)

\* The names of the actions of a device and of the other actions.
LEMMA Steps ==
    ASSUME [Next]_vars
    PROVE  \/ Tick
           \/ \E m \in air : Lose(m)
           \/ \E d \in Devices : ServiceDisassociated(d)
           \/ \E d \in Devices : \E got \in SUBSET Inbox(d), twice \in BOOLEAN, due \in BOOLEAN :
                 Service(d, got, twice, due)
           \/ \E d \in Devices, ap \in APs \cup {NoAp} : Roam(d, ap)
           \/ \E d \in Devices, s \in Servers : Connect(d, s)
           \/ \E d \in Devices : StreamStart(d)
           \/ \E d \in Devices : StreamEnd(d)
           \/ \E d \in Devices : Settle(d)
           \/ \E d \in Devices : Unsettle(d)
           \/ \E d \in Devices : Miss(d)
           \/ UNCHANGED vars
BY Zenon DEF Next, ServiceAny

LEMMA PlacesStep == PlacesOK /\ [Next]_vars => PlacesOK'
<1> SUFFICES ASSUME PlacesOK, [Next]_vars PROVE PlacesOK'
  OBVIOUS
<1> USE DEF PlacesOK
<1>1. CASE Tick
  BY <1>1 DEF Tick
<1>2. ASSUME NEW m \in air, Lose(m) PROVE PlacesOK'
  BY <1>2 DEF Lose
<1>3. ASSUME NEW d \in Devices, ServiceDisassociated(d) PROVE PlacesOK'
  BY <1>3 DEF ServiceDisassociated
<1>4. ASSUME NEW d \in Devices, NEW got \in SUBSET Inbox(d), NEW twice \in BOOLEAN,
             NEW due \in BOOLEAN, Service(d, got, twice, due)
      PROVE  PlacesOK'
  BY <1>4 DEF Service
<1>5. ASSUME NEW d \in Devices, NEW ap \in APs \cup {NoAp}, Roam(d, ap) PROVE PlacesOK'
  BY <1>5 DEF Roam
<1>6. ASSUME NEW d \in Devices, NEW s \in Servers, Connect(d, s) PROVE PlacesOK'
  BY <1>6 DEF Connect
<1>7. ASSUME NEW d \in Devices, StreamStart(d) \/ StreamEnd(d) \/ Settle(d) \/ Unsettle(d) \/ Miss(d)
      PROVE  PlacesOK'
  BY <1>7 DEF StreamStart, StreamEnd, Settle, Unsettle, Miss
<1>8. CASE UNCHANGED vars
  BY <1>8 DEF vars
<1> QED BY <1>1, <1>2, <1>3, <1>4, <1>5, <1>6, <1>7, <1>8, Steps

LEMMA FlagsStep == FlagsOK /\ [Next]_vars => FlagsOK'
<1> SUFFICES ASSUME FlagsOK, [Next]_vars PROVE FlagsOK'
  OBVIOUS
<1>1. \/ streaming' = streaming
      \/ \E d \in Devices : streaming' = [streaming EXCEPT ![d] = TRUE]
      \/ \E d \in Devices : streaming' = [streaming EXCEPT ![d] = FALSE]
  BY Steps, Zenon DEF Tick, Lose, ServiceDisassociated, Service, Roam, Connect, StreamStart,
                      StreamEnd, Settle, Unsettle, Miss, vars
<1>2. \/ settled' = settled
      \/ \E d \in Devices : settled' = [settled EXCEPT ![d] = TRUE]
      \/ \E d \in Devices : settled' = [settled EXCEPT ![d] = FALSE]
  BY Steps, Zenon DEF Tick, Lose, ServiceDisassociated, Service, Roam, Connect, StreamStart,
                      StreamEnd, Settle, Unsettle, Miss, vars
<1>3. streaming' \in [Devices -> BOOLEAN]
  BY <1>1 DEF FlagsOK
<1>4. settled' \in [Devices -> BOOLEAN]
  BY <1>2 DEF FlagsOK
<1> QED BY <1>3, <1>4 DEF FlagsOK

\* One service call leaves lines where there were lines.
LEMMA ServiceLines ==
    ASSUME PlacesOK, LinesOK, NEW d \in Devices, NEW got \in SUBSET Inbox(d),
           NEW twice \in BOOLEAN, NEW due \in BOOLEAN, Service(d, got, twice, due)
    PROVE  LinesOK'
<1> DEFINE peers == Receive(d, Kept(d, heard[d]), got)
           pool == Pool(Mine(d), peers)
<1>1. Measured(d) \in Line
  BY MeasuredLine DEF Service
<1>2. got \in SUBSET Beacon
  BY DEF Inbox, LinesOK
<1>3. Kept(d, heard[d]) \in SUBSET Heard /\ Kept(d, own[d]) \in SUBSET Line
      /\ Kept(d, adopted[d]) \in SUBSET Line
  BY DEF Kept, LinesOK
<1>4. Mine(d) \in SUBSET Line
  BY <1>1, <1>3 DEF Mine
<1>5. peers \in SUBSET Heard
  BY <1>2, <1>3, ReceiveType
<1>6. pool \in SUBSET Line
  BY <1>4, <1>5, PoolType
<1>7. /\ own' = [own EXCEPT ![d] = Mine(d)]
      /\ heard' = [heard EXCEPT ![d] = peers]
      /\ \/ adopted' = [adopted EXCEPT ![d] = pool]
         \/ adopted' = [adopted EXCEPT ![d] = Kept(d, adopted[d])]
      /\ air' \subseteq air \cup Copies(d)
  <2> HIDE DEF pool, peers
  <2> QED BY Zenon DEF Service, pool, peers
<1>8. Copies(d) \subseteq Beacon
  BY <1>1, CopiesType
<1> HIDE DEF pool, peers
<1> QED BY <1>3, <1>4, <1>5, <1>6, <1>7, <1>8 DEF LinesOK

LEMMA LinesStep == PlacesOK /\ LinesOK /\ [Next]_vars => LinesOK'
<1> SUFFICES ASSUME PlacesOK, LinesOK, [Next]_vars PROVE LinesOK'
  OBVIOUS
<1>1. CASE Tick
  <2>1. air' \subseteq Beacon
    BY <1>1, WaitedType DEF Tick, LinesOK
  <2>2. heard' \in [Devices -> SUBSET Heard]
    <3>1. \A d \in Devices : Aged(heard[d]) \in SUBSET Heard
      BY AgedType DEF LinesOK
    <3> QED BY <1>1, <3>1 DEF Tick
  <2>3. adopted' \in [Devices -> SUBSET Line] /\ own' = own
    BY <1>1 DEF Tick, LinesOK
  <2> QED BY <2>1, <2>2, <2>3 DEF LinesOK
<1>2. ASSUME NEW m \in air, Lose(m) PROVE LinesOK'
  BY <1>2 DEF Lose, LinesOK
<1>3. ASSUME NEW d \in Devices, ServiceDisassociated(d) PROVE LinesOK'
  BY <1>3 DEF ServiceDisassociated, LinesOK
<1>4. ASSUME NEW d \in Devices, NEW got \in SUBSET Inbox(d), NEW twice \in BOOLEAN,
             NEW due \in BOOLEAN, Service(d, got, twice, due)
      PROVE  LinesOK'
  BY <1>4, ServiceLines
<1>5. ASSUME NEW d \in Devices, NEW ap \in APs \cup {NoAp}, Roam(d, ap) PROVE LinesOK'
  BY <1>5 DEF Roam, LinesOK
<1>6. ASSUME NEW d \in Devices, NEW s \in Servers, Connect(d, s) PROVE LinesOK'
  BY <1>6 DEF Connect, LinesOK
<1>7. ASSUME NEW d \in Devices, StreamStart(d) \/ StreamEnd(d) \/ Settle(d) \/ Unsettle(d) \/ Miss(d)
      PROVE  LinesOK'
  BY <1>7 DEF StreamStart, StreamEnd, Settle, Unsettle, Miss, LinesOK
<1>8. CASE UNCHANGED vars
  BY <1>8 DEF vars, LinesOK
<1> QED BY <1>1, <1>2, <1>3, <1>4, <1>5, <1>6, <1>7, <1>8, Steps

LEMMA CountersStep == CountersOK /\ [Next]_vars => CountersOK'
<1> SUFFICES ASSUME CountersOK, [Next]_vars PROVE CountersOK'
  OBVIOUS
<1> USE DEF CountersOK
<1>1. CASE Tick
  BY <1>1 DEF Tick, Settling
<1>2. ASSUME NEW m \in air, Lose(m) PROVE CountersOK'
  BY <1>2 DEF Lose, Disturb, Settling
<1>3. ASSUME NEW d \in Devices, ServiceDisassociated(d) PROVE CountersOK'
  BY <1>3 DEF ServiceDisassociated
<1>4. ASSUME NEW d \in Devices, NEW got \in SUBSET Inbox(d), NEW twice \in BOOLEAN,
             NEW due \in BOOLEAN, Service(d, got, twice, due)
      PROVE  CountersOK'
  <2>1. \E left \in 0 .. Expiry : mapLeft' = [mapLeft EXCEPT ![d] = left]
    BY <1>4 DEF Service
  <2>2. \E done \in SUBSET Work : todo' = [todo EXCEPT ![d] = todo[d] \ done]
    BY <1>4 DEF Service, Work
  <2>3. UNCHANGED <<since, calm, moves>>
    BY <1>4 DEF Service
  <2> QED BY <2>1, <2>2, <2>3
<1>5. ASSUME NEW d \in Devices, NEW ap \in APs \cup {NoAp}, Roam(d, ap) PROVE CountersOK'
  BY <1>5 DEF Roam, Disturb, Settling
<1>6. ASSUME NEW d \in Devices, NEW s \in Servers, Connect(d, s) PROVE CountersOK'
  BY <1>6 DEF Connect, Disturb, Settling
<1>7. ASSUME NEW d \in Devices, StreamStart(d) \/ StreamEnd(d) \/ Settle(d) \/ Unsettle(d) \/ Miss(d)
      PROVE  CountersOK'
  BY <1>7 DEF StreamStart, StreamEnd, Settle, Unsettle, Miss, Disturb, Settles, Settling
<1>8. CASE UNCHANGED vars
  BY <1>8 DEF vars
<1> QED BY <1>1, <1>2, <1>3, <1>4, <1>5, <1>6, <1>7, <1>8, Steps

-----------------------------------------------------------------------------
(* The two timebase invariants and the decay of foreign lines. *)

LEMMA TimebaseStep == TypeOK /\ OneTimebase /\ [Next]_vars => OneTimebase'
<1> SUFFICES ASSUME TypeOK, OneTimebase, [Next]_vars PROVE OneTimebase'
  OBVIOUS
<1> USE DEF Pool
<1>1. CASE Tick
  <2>1. \A d \in Devices : \A h \in Aged(heard[d]) : h.line.ap = bssid[d]
    BY AgedType DEF OneTimebase, TypeOK, LinesOK
  <2> QED BY <1>1, <2>1 DEF Tick, OneTimebase, TypeOK, LinesOK, CountersOK
<1>2. ASSUME NEW d \in Devices, ServiceDisassociated(d) PROVE OneTimebase'
  BY <1>2 DEF ServiceDisassociated, OneTimebase, TypeOK, PlacesOK, LinesOK
<1>3. ASSUME NEW d \in Devices, NEW got \in SUBSET Inbox(d), NEW twice \in BOOLEAN,
             NEW due \in BOOLEAN, Service(d, got, twice, due)
      PROVE  OneTimebase'
  <2> DEFINE peers == Receive(d, Kept(d, heard[d]), got)
             pool == Pool(Mine(d), peers)
  <2>1. Measured(d) \in Line /\ Measured(d).ap = wifi[d]
    BY <1>3, MeasuredLine DEF Service, TypeOK
  <2>2. got \in SUBSET Beacon
    BY DEF Inbox, TypeOK, LinesOK
  <2>3. /\ \A l \in Kept(d, own[d]) \cup Kept(d, adopted[d]) : l.ap = wifi[d]
        /\ \A h \in Kept(d, heard[d]) : h \in Heard /\ h.line.ap = wifi[d]
    BY DEF Kept, Roamed, OneTimebase, TypeOK, PlacesOK, LinesOK, Heard, Line
  <2>4. \A l \in Mine(d) : l.ap = wifi[d]
    BY <2>1, <2>3 DEF Mine
  <2>5. \A h \in peers : h.line.ap = wifi[d]
    BY <2>2, <2>3, ReceiveType
  <2>6. \A l \in pool : l.ap = wifi[d]
    BY <2>4, <2>5
  <2>7. /\ own' = [own EXCEPT ![d] = Mine(d)]
        /\ heard' = [heard EXCEPT ![d] = peers]
        /\ \/ adopted' = [adopted EXCEPT ![d] = pool]
           \/ adopted' = [adopted EXCEPT ![d] = Kept(d, adopted[d])]
        /\ bssid' = [bssid EXCEPT ![d] = wifi[d]]
    <3> HIDE DEF pool, peers
    <3> QED BY <1>3, Zenon DEF Service, pool, peers
  <2> HIDE DEF pool, peers
  <2> QED BY <2>3, <2>4, <2>5, <2>6, <2>7 DEF OneTimebase, TypeOK, PlacesOK, LinesOK
<1>4. CASE UNCHANGED <<own, heard, adopted, bssid>>
  BY <1>4 DEF OneTimebase
<1> QED BY <1>1, <1>2, <1>3, <1>4, Steps, Zenon
        DEF Lose, Roam, Connect, StreamStart, StreamEnd, Settle, Unsettle, Miss, vars

LEMMA LocatedStep == TypeOK /\ Located /\ [Next]_vars => Located'
<1> SUFFICES ASSUME TypeOK, Located, [Next]_vars PROVE Located'
  OBVIOUS
<1>1. CASE Tick
  <2>1. ASSUME NEW d \in Devices, streaming[d], calm > 0 PROVE bssid[d] = wifi[d]
    <3>1. "consensus" \notin todo[d]
      BY <1>1, <2>1 DEF Tick, Served
    <3> QED BY <2>1, <3>1 DEF Located, Work
  <2>2. \A d \in Devices : todo'[d] = Work
    BY <1>1 DEF Tick
  <2>3. calm' > 1 => calm > 0
    BY <1>1 DEF Tick, TypeOK, CountersOK, Settling
  <2> QED BY <1>1, <2>1, <2>2, <2>3 DEF Tick, Located
<1>2. ASSUME NEW d \in Devices, ServiceDisassociated(d) PROVE Located'
  BY <1>2 DEF ServiceDisassociated, Located, TypeOK, PlacesOK, CountersOK
<1>3. ASSUME NEW d \in Devices, NEW got \in SUBSET Inbox(d), NEW twice \in BOOLEAN,
             NEW due \in BOOLEAN, Service(d, got, twice, due)
      PROVE  Located'
  <2>1. /\ bssid' = [bssid EXCEPT ![d] = wifi[d]]
        /\ \E done : todo' = [todo EXCEPT ![d] = done]
        /\ UNCHANGED <<streaming, calm, wifi>>
    BY <1>3, Zenon DEF Service
  <2> QED BY <2>1 DEF Located, TypeOK, PlacesOK, CountersOK
<1>4. CASE calm' = 0
  BY <1>4 DEF Located
<1>5. CASE UNCHANGED vars
  BY <1>5 DEF Located, vars
<1> QED BY <1>1, <1>2, <1>3, <1>4, <1>5, Steps, Zenon
        DEF Lose, Roam, Connect, StreamStart, StreamEnd, Settle, Unsettle, Miss, Disturb, Settles

LEMMA DecayStep == TypeOK /\ ForeignDecays /\ [Next]_vars => ForeignDecays'
<1> SUFFICES ASSUME TypeOK, ForeignDecays, [Next]_vars PROVE ForeignDecays'
  OBVIOUS
<1>1. CASE Tick
  <2>1. ASSUME NEW d \in Devices, NEW h \in Aged(heard[d]), h.line.server # server[d]
        PROVE  h.left + (IF since[d] < Stale THEN since[d] + 1 ELSE Stale) <= Stale
    <3>1. PICK g \in heard[d] : h.line = g.line /\ h.left = g.left - 1
      BY AgedType DEF TypeOK, LinesOK
    <3>2. g.left + since[d] <= Stale /\ g.left \in 1 .. Stale /\ since[d] \in 0 .. Stale
      BY <2>1, <3>1 DEF ForeignDecays, TypeOK, LinesOK, CountersOK, Heard
    <3> QED BY <3>1, <3>2
  <2>2. /\ \A d \in Devices : heard'[d] = Aged(heard[d])
        /\ \A d \in Devices : since'[d] = IF since[d] < Stale THEN since[d] + 1 ELSE Stale
        /\ server' = server
    BY <1>1 DEF Tick
  <2> QED BY <2>1, <2>2 DEF ForeignDecays
<1>2. ASSUME NEW d \in Devices, NEW s \in Servers, Connect(d, s) PROVE ForeignDecays'
  <2>1. \A h \in heard[d] : h.left \in 1 .. Stale
    BY DEF TypeOK, LinesOK, Heard
  <2> QED BY <1>2, <2>1 DEF Connect, ForeignDecays, TypeOK, PlacesOK, CountersOK
<1>3. ASSUME NEW d \in Devices, ServiceDisassociated(d) PROVE ForeignDecays'
  BY <1>3 DEF ServiceDisassociated, ForeignDecays, TypeOK, LinesOK
<1>4. ASSUME NEW d \in Devices, NEW got \in SUBSET Inbox(d), NEW twice \in BOOLEAN,
             NEW due \in BOOLEAN, Service(d, got, twice, due)
      PROVE  ForeignDecays'
  <2> DEFINE peers == Receive(d, Kept(d, heard[d]), got)
  <2>1. got \in SUBSET Beacon /\ Kept(d, heard[d]) \in SUBSET Heard
        /\ Kept(d, heard[d]) \subseteq heard[d]
    BY DEF Inbox, Kept, TypeOK, LinesOK
  <2>2. \A h \in peers : h \in heard[d] \/ h.line.server = server[d]
    BY <2>1, ReceiveType
  <2>3. heard' = [heard EXCEPT ![d] = peers] /\ UNCHANGED <<server, since>>
    BY <1>4, Zenon DEF Service
  <2> HIDE DEF peers
  <2> QED BY <2>2, <2>3 DEF ForeignDecays, TypeOK, LinesOK
<1>5. CASE UNCHANGED <<heard, server, since>>
  BY <1>5 DEF ForeignDecays
<1> QED BY <1>1, <1>2, <1>3, <1>4, <1>5, Steps, Zenon
        DEF Lose, Roam, StreamStart, StreamEnd, Settle, Unsettle, Miss, vars

-----------------------------------------------------------------------------
(* What became of a device that is gone. *)

\* Right after a disturbance a line may be anyone's, but lives no longer than any.
LEMMA SoonSound ==
    ASSUME TypeOK, [Next]_vars, calm' = 0
    PROVE  HeardIsSound' /\ AdoptedIsSound'
<1>1. LinesOK' /\ CountersOK'
  BY LinesStep, CountersStep DEF TypeOK
<1>2. InSession' \subseteq Devices
  BY DEF InSession
<1>3. \A d \in Devices : \A h \in heard'[d] : h.left \in 1 .. Stale
  BY <1>1 DEF LinesOK, Heard
<1>4. \A d \in Devices : mapLeft'[d] \in 0 .. Expiry
  BY <1>1 DEF CountersOK
<1>5. HeardIsSound'
  BY <1>2, <1>3 DEF HeardIsSound
<1>6. AdoptedIsSound'
  BY <1>2, <1>4 DEF AdoptedIsSound, Settling
<1> QED BY <1>5, <1>6

\* What a device in session hears is sound, or was heard before.
LEMMA PeersAreSound ==
    ASSUME TypeOK, AirIsSound, HeardIsSound, NEW d \in InSession, NEW got \in SUBSET Inbox(d)
    PROVE  \A h \in Receive(d, Kept(d, heard[d]), got) :
              (h.line \in Sound /\ h.line.server = server[d]) \/ h.left + calm <= Stale
<1> SUFFICES ASSUME NEW h \in Receive(d, Kept(d, heard[d]), got)
             PROVE  (h.line \in Sound /\ h.line.server = server[d]) \/ h.left + calm <= Stale
  OBVIOUS
<1>1. CASE h \in Kept(d, heard[d])
  BY <1>1 DEF Kept, HeardIsSound
<1>2. CASE \E g \in got : Accepts(d, g) /\ h = [line |-> g.line, left |-> Stale]
  <2>1. PICK g \in got : Accepts(d, g) /\ h = [line |-> g.line, left |-> Stale]
    BY <1>2
  <2>2. g \in air /\ g.to = d /\ g.line.server = server[d]
    BY <2>1 DEF Inbox, Accepts
  <2>3. calm \in Nat
    BY DEF TypeOK, CountersOK, Settling
  <2>4. CASE calm > 0
    BY <2>1, <2>2, <2>4 DEF AirIsSound
  <2>5. CASE calm = 0
    BY <2>1, <2>5
  <2> QED BY <2>3, <2>4, <2>5
<1> QED BY <1>1, <1>2 DEF Receive

LEMMA OwnStep == TypeOK /\ OwnIsOwn /\ [Next]_vars => OwnIsOwn'
<1> SUFFICES ASSUME TypeOK, OwnIsOwn, [Next]_vars PROVE OwnIsOwn'
  OBVIOUS
<1>1. ASSUME NEW d \in Devices, ServiceDisassociated(d) PROVE OwnIsOwn'
  BY <1>1 DEF ServiceDisassociated, OwnIsOwn, TypeOK, LinesOK
<1>2. ASSUME NEW d \in Devices, own' = [own EXCEPT ![d] = Mine(d)] PROVE OwnIsOwn'
  <2>1. \A l \in Mine(d) : l.by = d
    BY DEF Mine, Measured, Kept, OwnIsOwn
  <2> QED BY <1>2, <2>1 DEF OwnIsOwn, TypeOK, LinesOK
<1>3. CASE UNCHANGED own
  BY <1>3 DEF OwnIsOwn
<1> QED BY <1>1, <1>2, <1>3, Steps, Zenon
        DEF Tick, Service, Lose, Roam, Connect, StreamStart, StreamEnd, Settle, Unsettle, Miss, vars

\* While nothing around the devices changes, the same lines are sound.
LEMMA SoundStays ==
    ASSUME UNCHANGED <<wifi, server, streaming, settled>>
    PROVE  InSession' = InSession /\ Sound' = Sound
BY Zenon DEF InSession, Sound

\* The steps that are not disturbances: those of the object, and of time.
LEMMA CalmSteps ==
    ASSUME [Next]_vars
    PROVE  \/ Tick
           \/ \E d \in Devices : ServiceDisassociated(d)
           \/ \E d \in Devices : \E got \in SUBSET Inbox(d), twice \in BOOLEAN, due \in BOOLEAN :
                 Service(d, got, twice, due)
           \/ calm' = 0
           \/ UNCHANGED vars
BY Steps, Zenon DEF Lose, Roam, Connect, StreamStart, StreamEnd, Settle, Unsettle, Miss, Disturb, Settles

LEMMA AirStep == TypeOK /\ AirIsSound /\ [Next]_vars => AirIsSound'
<1> SUFFICES ASSUME TypeOK, AirIsSound, [Next]_vars PROVE AirIsSound'
  OBVIOUS
<1>1. CASE Tick
  <2>1. ASSUME NEW m \in air' PROVE m.to \notin InSession
    <3>1. PICK n \in air : m.to = n.to
      BY <1>1, <2>1 DEF Tick, Waited
    <3>2. n.to \in Devices
      BY DEF TypeOK, LinesOK, Beacon
    <3>3. ASSUME n.to \in InSession PROVE FALSE
      BY <1>1, <3>2, <3>3 DEF InSession, Tick, Served, Inbox
    <3> QED BY <3>1, <3>3
  <2>2. InSession' = InSession
    BY <1>1, SoundStays, Zenon DEF Tick
  <2> QED BY <2>1, <2>2 DEF AirIsSound
<1>2. ASSUME NEW d \in Devices, ServiceDisassociated(d) PROVE AirIsSound'
  <2>1. UNCHANGED <<wifi, server, streaming, settled, calm, air>>
    BY <1>2, Zenon DEF ServiceDisassociated
  <2> QED BY <2>1, SoundStays DEF AirIsSound
<1>3. ASSUME NEW d \in Devices, NEW got \in SUBSET Inbox(d), NEW twice \in BOOLEAN,
             NEW due \in BOOLEAN, Service(d, got, twice, due)
      PROVE  AirIsSound'
  <2>1. UNCHANGED <<wifi, server, streaming, settled, calm>>
        /\ air' \subseteq air \cup (IF Sends(d) THEN Copies(d) ELSE {})
    BY <1>3, Zenon DEF Service
  <2>2. ASSUME Sends(d) PROVE Measured(d) \in Sound
    <3>1. Measured(d) \in Line
      BY <1>3, MeasuredLine, Zenon DEF Service, TypeOK
    <3>2. streaming[d] /\ settled[d]
      BY <1>3, <2>2, Zenon DEF Service, Sends
    <3>3. Measured(d).by = d /\ Measured(d).ap = wifi[d] /\ Measured(d).server = server[d]
      BY DEF Measured
    <3> QED BY <3>1, <3>2, <3>3, Zenon DEF Sound
  <2>3. \A m \in Copies(d) : m.line = Measured(d)
    BY DEF Copies
  <2>4. Sound' = Sound /\ InSession' = InSession
    BY <2>1, SoundStays
  <2> QED BY <2>1, <2>2, <2>3, <2>4 DEF AirIsSound
<1>4. CASE calm' = 0
  BY <1>4 DEF AirIsSound
<1>5. CASE UNCHANGED vars
  <2>1. UNCHANGED <<wifi, server, streaming, settled, calm, air>>
    BY <1>5, Zenon DEF vars
  <2> QED BY <2>1, SoundStays DEF AirIsSound
<1> QED BY <1>1, <1>2, <1>3, <1>4, <1>5, CalmSteps, Zenon

LEMMA HeardStep ==
    TypeOK /\ AirIsSound /\ HeardIsSound /\ [Next]_vars => HeardIsSound'
<1> SUFFICES ASSUME TypeOK, AirIsSound, HeardIsSound, [Next]_vars PROVE HeardIsSound'
  OBVIOUS
<1>1. CASE Tick
  <2>1. UNCHANGED <<wifi, server, streaming, settled>>
        /\ \A d \in Devices : heard'[d] = Aged(heard[d])
    BY <1>1, Zenon DEF Tick
  <2>2. calm' = IF calm < Settling THEN calm + 1 ELSE calm
    BY <1>1 DEF Tick
  <2>3. ASSUME NEW d \in InSession, NEW h \in Aged(heard[d])
        PROVE  (h.line \in Sound /\ h.line.server = server[d]) \/ h.left + calm' <= Stale
    <3>1. d \in Devices
      BY DEF InSession
    <3>2. PICK g \in heard[d] : h.line = g.line /\ h.left = g.left - 1
      BY <3>1, AgedType DEF TypeOK, LinesOK
    <3>3. g.left \in 1 .. Stale /\ calm \in 0 .. Settling
      BY <3>1 DEF TypeOK, LinesOK, CountersOK, Heard
    <3>4. (g.line \in Sound /\ g.line.server = server[d]) \/ g.left + calm <= Stale
      BY DEF HeardIsSound
    <3> QED BY <2>2, <3>2, <3>3, <3>4 DEF Settling
  <2>4. Sound' = Sound /\ InSession' = InSession
    BY <2>1, SoundStays
  <2> QED BY <2>1, <2>3, <2>4 DEF HeardIsSound, InSession
<1>2. ASSUME NEW d \in Devices, ServiceDisassociated(d) PROVE HeardIsSound'
  <2>1. UNCHANGED <<wifi, server, streaming, settled, calm>>
        /\ (heard' = heard \/ heard' = [heard EXCEPT ![d] = {}])
    BY <1>2, Zenon DEF ServiceDisassociated
  <2> QED BY <2>1, SoundStays DEF HeardIsSound, InSession, TypeOK, LinesOK
<1>3. ASSUME NEW d \in Devices, NEW got \in SUBSET Inbox(d), NEW twice \in BOOLEAN,
             NEW due \in BOOLEAN, Service(d, got, twice, due)
      PROVE  HeardIsSound'
  <2> DEFINE peers == Receive(d, Kept(d, heard[d]), got)
  <2>1. /\ UNCHANGED <<wifi, server, streaming, settled, calm>>
        /\ heard' = [heard EXCEPT ![d] = peers]
    <3> HIDE DEF peers
    <3> QED BY <1>3, Zenon DEF Service, peers
  <2>2. d \in InSession
    BY <1>3, Zenon DEF Service, InSession
  <2>3. ASSUME NEW h \in peers
        PROVE  (h.line \in Sound /\ h.line.server = server[d]) \/ h.left + calm <= Stale
    BY <2>2, <2>3, PeersAreSound
  <2> HIDE DEF peers
  <2>4. Sound' = Sound /\ InSession' = InSession
    BY <2>1, SoundStays
  <2> QED BY <2>1, <2>3, <2>4 DEF HeardIsSound, InSession, TypeOK, LinesOK
<1>4. CASE calm' = 0
  BY <1>4, SoonSound, Zenon
<1>5. CASE UNCHANGED vars
  <2>1. UNCHANGED <<wifi, server, streaming, settled, calm, heard>>
    BY <1>5, Zenon DEF vars
  <2> QED BY <2>1, SoundStays DEF HeardIsSound
<1> QED BY <1>1, <1>2, <1>3, <1>4, <1>5, CalmSteps, Zenon

LEMMA AdoptedStep ==
    TypeOK /\ OwnIsOwn /\ AirIsSound /\ HeardIsSound /\ AdoptedIsSound /\ [Next]_vars
      => AdoptedIsSound'
<1> SUFFICES ASSUME TypeOK, OwnIsOwn, AirIsSound, HeardIsSound, AdoptedIsSound, [Next]_vars
             PROVE  AdoptedIsSound'
  OBVIOUS
<1>1. CASE Tick
  <2>1. UNCHANGED <<wifi, server, streaming, settled>>
    BY <1>1, Zenon DEF Tick
  <2>2. /\ calm' = IF calm < Settling THEN calm + 1 ELSE calm
        /\ \A d \in Devices : mapLeft'[d] = IF mapLeft[d] > 0 THEN mapLeft[d] - 1 ELSE 0
        /\ \A d \in Devices : adopted'[d] = IF mapLeft[d] > 1 THEN adopted[d] ELSE {}
    BY <1>1 DEF Tick
  <2>3. ASSUME NEW d \in InSession, NEW l \in adopted'[d]
        PROVE  l.by = d \/ (l \in Sound /\ l.server = server[d]) \/ mapLeft'[d] + calm' < Settling
    <3>1. d \in Devices
      BY DEF InSession
    <3>2. mapLeft[d] \in 0 .. Expiry /\ calm \in 0 .. Settling
      BY <3>1 DEF TypeOK, CountersOK
    <3>3. mapLeft[d] > 1 /\ l \in adopted[d]
      BY <2>2, <2>3, <3>1
    <3>4. l.by = d \/ (l \in Sound /\ l.server = server[d]) \/ mapLeft[d] + calm < Settling
      BY <3>3 DEF AdoptedIsSound
    <3> QED BY <2>2, <3>1, <3>2, <3>3, <3>4 DEF Settling
  <2>4. Sound' = Sound /\ InSession' = InSession
    BY <2>1, SoundStays
  <2> QED BY <2>1, <2>3, <2>4 DEF AdoptedIsSound
<1>2. ASSUME NEW d \in Devices, ServiceDisassociated(d) PROVE AdoptedIsSound'
  <2>1. UNCHANGED <<wifi, server, streaming, settled, calm>>
    BY <1>2, Zenon DEF ServiceDisassociated
  <2>2. \/ UNCHANGED <<adopted, mapLeft>>
        \/ adopted' = [adopted EXCEPT ![d] = {}] /\ mapLeft' = [mapLeft EXCEPT ![d] = 0]
    BY <1>2, Zenon DEF ServiceDisassociated
  <2> QED BY <2>1, <2>2, SoundStays DEF AdoptedIsSound, InSession, TypeOK, LinesOK, CountersOK
<1>3. ASSUME NEW d \in Devices, NEW got \in SUBSET Inbox(d), NEW twice \in BOOLEAN,
             NEW due \in BOOLEAN, Service(d, got, twice, due)
      PROVE  AdoptedIsSound'
  <2> DEFINE peers == Receive(d, Kept(d, heard[d]), got)
             pool == Pool(Mine(d), peers)
  <2>1. /\ UNCHANGED <<wifi, server, streaming, settled, calm>>
        /\ \/ adopted' = [adopted EXCEPT ![d] = pool] /\ mapLeft' = [mapLeft EXCEPT ![d] = Expiry]
           \/ adopted' = [adopted EXCEPT ![d] = {}] /\ \E n : mapLeft' = [mapLeft EXCEPT ![d] = n]
           \/ UNCHANGED <<adopted, mapLeft>>
    <3>1. ~Roamed(d) => Kept(d, adopted[d]) = adopted[d]
      BY DEF Kept
    <3>2. Roamed(d) => Kept(d, adopted[d]) = {}
      BY DEF Kept
    <3>3. /\ UNCHANGED <<wifi, server, streaming, settled, calm>>
          /\ adopted' = [adopted EXCEPT ![d] = IF due /\ pool # {} THEN pool ELSE Kept(d, @)]
          /\ mapLeft' = [mapLeft EXCEPT ![d] =
               IF due /\ pool # {} THEN Expiry ELSE IF Roamed(d) THEN 0 ELSE @]
      <4> HIDE DEF pool, peers
      <4> QED BY <1>3, Zenon DEF Service, pool, peers
    <3> HIDE DEF pool, peers
    <3> QED BY <3>1, <3>2, <3>3 DEF TypeOK, LinesOK, CountersOK
  <2>2. d \in InSession
    BY <1>3, Zenon DEF Service, InSession
  <2>3. \A h \in peers : (h.line \in Sound /\ h.line.server = server[d]) \/ h.left + calm <= Stale
    BY <2>2, PeersAreSound
  <2>4. ASSUME NEW l \in pool
        PROVE  l.by = d \/ (l \in Sound /\ l.server = server[d]) \/ Expiry + calm < Settling
    <3>1. CASE l \in Mine(d)
      BY <3>1 DEF Mine, Measured, Kept, OwnIsOwn
    <3>2. CASE l \in {h.line : h \in peers}
      <4>1. PICK h \in peers : l = h.line
        BY <3>2
      <4>2. h.left \in 1 .. Stale /\ calm \in 0 .. Settling
        <5>1. peers \in SUBSET Heard
          BY ReceiveType DEF Kept, Inbox, TypeOK, LinesOK
        <5> QED BY <5>1 DEF Heard, TypeOK, CountersOK
      <4> QED BY <2>3, <4>1, <4>2 DEF Settling
    <3> QED BY <3>1, <3>2 DEF Pool
  <2> HIDE DEF pool, peers
  <2>5. Sound' = Sound /\ InSession' = InSession
    BY <2>1, SoundStays
  <2>6. InSession \subseteq Devices
    BY DEF InSession
  <2>7. CASE adopted' = [adopted EXCEPT ![d] = pool] /\ mapLeft' = [mapLeft EXCEPT ![d] = Expiry]
    BY <2>1, <2>4, <2>5, <2>6, <2>7 DEF AdoptedIsSound, TypeOK, LinesOK, CountersOK
  <2>8. CASE adopted' = [adopted EXCEPT ![d] = {}] /\ \E n : mapLeft' = [mapLeft EXCEPT ![d] = n]
    BY <2>1, <2>5, <2>6, <2>8 DEF AdoptedIsSound, TypeOK, LinesOK, CountersOK
  <2>9. CASE UNCHANGED <<adopted, mapLeft>>
    BY <2>1, <2>5, <2>9 DEF AdoptedIsSound
  <2> QED BY <2>1, <2>7, <2>8, <2>9
<1>4. CASE calm' = 0
  BY <1>4, SoonSound, Zenon
<1>5. CASE UNCHANGED vars
  <2>1. UNCHANGED <<wifi, server, streaming, settled, calm, adopted, mapLeft>>
    BY <1>5, Zenon DEF vars
  <2> QED BY <2>1, SoundStays DEF AdoptedIsSound
<1> QED BY <1>1, <1>2, <1>3, <1>4, <1>5, CalmSteps, Zenon

-----------------------------------------------------------------------------
IInv == TypeOK /\ OneTimebase /\ Located /\ ForeignDecays
IInvSound == OwnIsOwn /\ AirIsSound /\ HeardIsSound /\ AdoptedIsSound

LEMMA InitIInv == Init => IInv
<1> SUFFICES ASSUME Init PROVE IInv
  OBVIOUS
<1>1. TypeOK
  BY DEF Init, TypeOK, PlacesOK, FlagsOK, LinesOK, CountersOK, Settling, Work
<1> QED BY <1>1 DEF Init, IInv, OneTimebase, Pool, Located, ForeignDecays

LEMMA InitIInvSound == Init => IInvSound
BY DEF Init, IInvSound, OwnIsOwn, AirIsSound, HeardIsSound, AdoptedIsSound, InSession

LEMMA NextIInv == IInv /\ [Next]_vars => IInv'
BY PlacesStep, FlagsStep, LinesStep, CountersStep, TimebaseStep, LocatedStep, DecayStep
   DEF IInv, TypeOK

LEMMA NextIInvSound == TypeOK /\ IInvSound /\ [Next]_vars => IInvSound'
BY OwnStep, AirStep, HeardStep, AdoptedStep DEF IInvSound

\* What the inductive invariant says of a mapping and of the lines heard.
LEMMA LocatesAdopted == IInv => RoamIsNoticed
BY DEF IInv, TypeOK, CountersOK, OneTimebase, Located, RoamIsNoticed, Pool

LEMMA LocatesForeign == IInv => ForeignLinesExpire
<1> SUFFICES ASSUME IInv, NEW d \in Devices, since[d] = Stale, NEW h \in heard[d]
             PROVE  h.line.server = server[d]
  BY DEF ForeignLinesExpire
<1>1. h.left \in 1 .. Stale
  BY DEF IInv, TypeOK, LinesOK, Heard
<1> QED BY <1>1 DEF IInv, ForeignDecays

\* Every state of every behaviour is of the declared type.
THEOREM TypeCorrect == Spec => []TypeOK
<1>1. IInv => TypeOK
  BY DEF IInv
<1> QED BY <1>1, InitIInv, NextIInv, PTL DEF Spec

\* No line measured on another access point than the device last saw is ever
\* published, kept or adopted by it.
THEOREM OneTimebaseHolds == Spec => []OneTimebase
<1>1. IInv => OneTimebase
  BY DEF IInv
<1> QED BY <1>1, InitIInv, NextIInv, PTL DEF Spec

\* A whole interval after the last disturbance, a device in session computes
\* its deadlines from the counter of the access point it is on, or from none.
THEOREM RoamIsNoticedHolds == Spec => []RoamIsNoticed
<1>1. IInv => RoamIsNoticed
  BY LocatesAdopted
<1> QED BY <1>1, InitIInv, NextIInv, PTL DEF Spec

\* Lines heard from clients of the previous server are gone Stale intervals
\* after the session was opened.
THEOREM ForeignLinesExpireHolds == Spec => []ForeignLinesExpire
<1>1. IInv => ForeignLinesExpire
  BY LocatesForeign
<1> QED BY <1>1, InitIInv, NextIInv, PTL DEF Spec

\* Nor is a device that left steering the others, once its line is stale and what was
\* made of it has expired; both ways to outlast one's group, for every group.
THEOREM StrangersAreForgottenHolds == Spec => []StrangersAreForgotten
<1>1. ASSUME IInv, IInvSound PROVE GoneIsForgotten
  <2>1. ASSUME calm >= Settling, NEW d \in Devices, streaming[d], NEW l \in adopted[d], l.by # d
        PROVE  streaming[l.by] /\ settled[l.by] /\ wifi[l.by] = wifi[d] /\ server[l.by] = server[d]
    <3>1. d \in InSession
      BY <2>1, Zenon DEF InSession
    <3>2. mapLeft[d] + calm >= Settling
      BY <1>1, <2>1 DEF IInv, TypeOK, CountersOK, Settling
    <3>3. l \in Sound /\ l.server = server[d]
      <4>1. ~(mapLeft[d] + calm < Settling)
        BY <1>1, <2>1, <3>2 DEF IInv, TypeOK, CountersOK, Settling
      <4> QED BY <1>1, <2>1, <3>1, <4>1, Zenon DEF IInvSound, AdoptedIsSound
    <3>4. l.ap = wifi[d]
      <4>1. RoamIsNoticed
        BY <1>1, LocatesAdopted
      <4>2. calm > 1
        BY <1>1, <2>1 DEF IInv, TypeOK, CountersOK, Settling
      <4> QED BY <2>1, <4>1, <4>2, Zenon DEF RoamIsNoticed
    <3> QED BY <3>3, <3>4, Zenon DEF Sound
  <2> QED BY <2>1, Zenon DEF GoneIsForgotten, Settling
<1>2. IInv => ForeignLinesExpire
  BY LocatesForeign
<1>3. IInv => TypeOK
  BY DEF IInv
<1> QED BY <1>1, <1>2, <1>3, InitIInv, NextIInv, InitIInvSound, NextIInvSound, PTL
        DEF Spec, StrangersAreForgotten

-----------------------------------------------------------------------------
(* Agreement.  Stale intervals after the last disturbance the lines a      *)
(* device pools are those of the devices that play with it: no others,     *)
(* because lines that are sound no more have died, and all of them,        *)
(* because in each calm interval each of them is sent and read.            *)
Playing(d) == streaming[d] /\ settled[d] /\ wifi[d] # NoAp

Fellow(d, f) ==
    Playing(f) /\ wifi[f] = wifi[d] /\ server[f] = server[d] /\ SameScope(d, f)

Group(d) == {Measured(f) : f \in {g \in Devices : Fellow(d, g)}}

Copy(d, f) == [to |-> d, line |-> Measured(f), age |-> 0]
Latest(f)  == [line |-> Measured(f), left |-> Stale]

HeardInScope == \A d \in Devices : \A h \in heard[d] : SameScope(d, h.line.by)

\* A device that sent its beacon in a calm interval published the line it would again.
Published ==
    \A d \in Devices : Playing(d) /\ calm > 0 /\ ("beacon" \notin todo[d] \/ calm > 1) =>
        own[d] = {Measured(d)}

\* In a calm interval a beacon is on its way to each fellow, or was read.
Delivered ==
    \A d, f \in Devices :
        calm > 0 /\ Playing(d) /\ d # f /\ Fellow(d, f) /\ "beacon" \notin todo[f] =>
            Copy(d, f) \in air \/ Latest(f) \in heard[d]

\* After a calm interval each fellow is heard.
Remembered ==
    \A d, f \in Devices :
        calm > 1 /\ Playing(d) /\ d # f /\ Fellow(d, f) => \E h \in heard[d] : h.line = Measured(f)

\* From then on the group is what is adopted.
Agreed ==
    \A d \in Devices : Playing(d) /\ calm >= Stale =>
        /\ "consensus" \notin todo[d] => mapLeft[d] = Expiry
        /\ "consensus" \notin todo[d] \/ calm > Stale => adopted[d] = Group(d)

IInvAgreed == HeardInScope /\ Published /\ Delivered /\ Remembered /\ Agreed

\* Fellows stay fellows while nothing around the devices changes.
LEMMA FellowsStay ==
    ASSUME UNCHANGED <<wifi, server, streaming, settled>>
    PROVE  \A d, f \in Devices :
              /\ Playing(d)' = Playing(d) /\ Fellow(d, f)' = Fellow(d, f)
              /\ Measured(d)' = Measured(d) /\ Copy(d, f)' = Copy(d, f)
              /\ Latest(f)' = Latest(f) /\ Group(d)' = Group(d)
BY Zenon DEF Playing, Fellow, Measured, Copy, Latest, Group

\* A sound line is the one its owner would measure again.
LEMMA SoundIs ==
    ASSUME TypeOK, NEW l \in Sound
    PROVE  /\ l.by \in Devices /\ l = Measured(l.by)
           /\ streaming[l.by] /\ settled[l.by] /\ wifi[l.by] = l.ap /\ server[l.by] = l.server
<1>1. l \in Line /\ l.by \in Devices
  BY DEF Sound, Line
<1>2. streaming[l.by] /\ settled[l.by] /\ wifi[l.by] = l.ap /\ server[l.by] = l.server
  BY Zenon DEF Sound
<1>3. l = [by |-> l.by, ap |-> l.ap, server |-> l.server]
  BY <1>1 DEF Line
<1> QED BY <1>1, <1>2, <1>3 DEF Measured

\* In a calm interval a line that is read does not replace another of its owner's.
LEMMA Reception ==
    ASSUME TypeOK, AirIsSound, calm > 0, NEW d \in InSession, NEW got \in SUBSET Inbox(d),
           NEW kept \in SUBSET Heard, NEW f \in Devices
    PROVE  /\ (\E h \in kept : h.line = Measured(f)) =>
                \E h \in Receive(d, kept, got) : h.line = Measured(f)
           /\ Latest(f) \in kept => Latest(f) \in Receive(d, kept, got)
           /\ Copy(d, f) \in got /\ Accepts(d, Copy(d, f)) => Latest(f) \in Receive(d, kept, got)
<1> DEFINE fresh == {m.line : m \in {g \in got : Accepts(d, g)}}
<1>1. \A l \in fresh : l \in Sound
  BY DEF Inbox, AirIsSound
<1>2. Receive(d, kept, got) = {h \in kept : \A l \in fresh : l.by # h.line.by}
                                \cup {[line |-> l, left |-> Stale] : l \in fresh}
  BY DEF Receive
<1>3. Measured(f).by = f
  BY DEF Measured
<1>4. ASSUME NEW l \in fresh, l.by = f PROVE l = Measured(f)
  BY <1>1, <1>4, SoundIs
<1>5. Copy(d, f) \in got /\ Accepts(d, Copy(d, f)) => Measured(f) \in fresh
  BY DEF Copy
<1> HIDE DEF fresh
<1>6. Measured(f) \in fresh => Latest(f) \in Receive(d, kept, got) /\ Latest(f).line = Measured(f)
  BY <1>2 DEF Latest
<1>7. ASSUME Measured(f) \notin fresh, NEW h \in kept, h.line = Measured(f)
      PROVE  h \in Receive(d, kept, got)
  BY <1>2, <1>3, <1>4, <1>7
<1>8. ASSUME Latest(f) \in kept PROVE Latest(f) \in Receive(d, kept, got)
  BY <1>6, <1>7, <1>8 DEF Latest
<1>9. ASSUME NEW h \in kept, h.line = Measured(f)
      PROVE  \E k \in Receive(d, kept, got) : k.line = Measured(f)
  BY <1>6, <1>7, <1>9
<1> QED BY <1>5, <1>6, <1>8, <1>9

\* What a device keeps was measured where it is: it has not roamed since.
LEMMA KeptWhole ==
    ASSUME OneTimebase, NEW d \in Devices, NEW h \in heard[d], h.line.ap = wifi[d]
    PROVE  Kept(d, heard[d]) = heard[d]
BY DEF OneTimebase, Pool, Kept, Roamed

\* The timers one service call serves, and then what it does, part by part.
Done(d, due) ==
    (IF Sends(d) THEN {"beacon"} ELSE {}) \cup (IF due THEN {"consensus"} ELSE {})

\* It changes nothing around the devices.
LEMMA ServiceAround ==
    ASSUME TypeOK, NEW d \in Devices, NEW got \in SUBSET Inbox(d),
           NEW twice \in BOOLEAN, NEW due \in BOOLEAN, Service(d, got, twice, due)
    PROVE  d \in InSession /\ wifi[d] # NoAp /\ UNCHANGED <<wifi, server, streaming, settled, calm>>
BY Zenon DEF Service, InSession

\* It publishes, and reads what has arrived.
LEMMA ServiceLists ==
    ASSUME TypeOK, NEW d \in Devices, NEW got \in SUBSET Inbox(d),
           NEW twice \in BOOLEAN, NEW due \in BOOLEAN, Service(d, got, twice, due)
    PROVE  own'[d] = Mine(d) /\ heard'[d] = Receive(d, Kept(d, heard[d]), got)
BY DEF Service, TypeOK, LinesOK

\* Its timers are served.
LEMMA ServiceTodo ==
    ASSUME TypeOK, NEW d \in Devices, NEW got \in SUBSET Inbox(d),
           NEW twice \in BOOLEAN, NEW due \in BOOLEAN, Service(d, got, twice, due)
    PROVE  todo'[d] = todo[d] \ Done(d, due)
BY DEF Service, Done, TypeOK, CountersOK

\* It leaves the other devices alone.
LEMMA ServiceOthers ==
    ASSUME TypeOK, NEW d \in Devices, NEW got \in SUBSET Inbox(d),
           NEW twice \in BOOLEAN, NEW due \in BOOLEAN, Service(d, got, twice, due)
    PROVE  \A e \in Devices \ {d} :
              /\ own'[e] = own[e] /\ heard'[e] = heard[e] /\ adopted'[e] = adopted[e]
              /\ mapLeft'[e] = mapLeft[e] /\ todo'[e] = todo[e]
<1>1. \A e \in Devices \ {d} : own'[e] = own[e] /\ heard'[e] = heard[e]
  BY DEF Service, TypeOK, LinesOK
<1>2. \A e \in Devices \ {d} : mapLeft'[e] = mapLeft[e] /\ todo'[e] = todo[e]
  BY DEF Service, TypeOK, CountersOK
<1>3. \A e \in Devices \ {d} : adopted'[e] = adopted[e]
  BY DEF Service, TypeOK, LinesOK
<1> QED BY <1>1, <1>2, <1>3

\* What was not read stays in the air, and what was sent is.
LEMMA ServiceAir ==
    ASSUME TypeOK, NEW d \in Devices, NEW got \in SUBSET Inbox(d),
           NEW twice \in BOOLEAN, NEW due \in BOOLEAN, Service(d, got, twice, due)
    PROVE  (Sends(d) => Copies(d) \subseteq air') /\ \A m \in air : m \notin got => m \in air'
<1>1. air' = (IF twice THEN air ELSE air \ got) \cup (IF Sends(d) THEN Copies(d) ELSE {})
  BY DEF Service
<1> QED BY <1>1

\* A disassociated device, and only it, forgets what it knew.
LEMMA DisassociatedDoes ==
    ASSUME TypeOK, NEW d \in Devices, ServiceDisassociated(d)
    PROVE  /\ ~Playing(d) /\ UNCHANGED <<wifi, server, streaming, settled, calm, air>>
           /\ \A e \in Devices \ {d} :
                 /\ own'[e] = own[e] /\ heard'[e] = heard[e] /\ adopted'[e] = adopted[e]
                 /\ mapLeft'[e] = mapLeft[e] /\ todo'[e] = todo[e]
<1>1. ~Playing(d) /\ UNCHANGED <<wifi, server, streaming, settled, calm, air>>
  BY Zenon DEF ServiceDisassociated, Playing
<1>2. \A e \in Devices \ {d} : own'[e] = own[e] /\ heard'[e] = heard[e]
  BY DEF ServiceDisassociated, TypeOK, LinesOK
<1>3. \A e \in Devices \ {d} : adopted'[e] = adopted[e]
  BY DEF ServiceDisassociated, TypeOK, LinesOK
<1>4. \A e \in Devices \ {d} : mapLeft'[e] = mapLeft[e] /\ todo'[e] = todo[e]
  BY DEF ServiceDisassociated, TypeOK, CountersOK
<1> QED BY <1>1, <1>2, <1>3, <1>4

\* When an interval ends, every device that plays has done its part.
LEMMA TickDoes ==
    ASSUME TypeOK, Tick
    PROVE  /\ UNCHANGED <<wifi, server, streaming, settled, own>>
           /\ \A d \in Devices :
                 /\ heard'[d] = Aged(heard[d]) /\ todo'[d] = Work
                 /\ adopted'[d] = IF mapLeft[d] > 1 THEN adopted[d] ELSE {}
                 /\ Playing(d) => todo[d] = {} /\ Inbox(d) = {}
           /\ calm \in Nat /\ calm' \in Nat
           /\ calm' > 1 => calm > 0
           /\ calm' > Stale => calm >= Stale
<1>1. UNCHANGED <<wifi, server, streaming, settled, own>>
  BY Zenon DEF Tick
<1>2. \A d \in Devices :
         /\ heard'[d] = Aged(heard[d]) /\ todo'[d] = Work
         /\ adopted'[d] = IF mapLeft[d] > 1 THEN adopted[d] ELSE {}
  BY DEF Tick
<1>3. \A d \in Devices : Playing(d) => todo[d] = {} /\ Inbox(d) = {}
  BY DEF Tick, Served, Playing
<1>4. calm' = (IF calm < Settling THEN calm + 1 ELSE calm) /\ calm \in 0 .. Settling
  BY DEF Tick, TypeOK, CountersOK
<1>5. /\ calm \in Nat /\ calm' \in Nat
      /\ calm' > 1 => calm > 0
      /\ calm' > Stale => calm >= Stale
  BY <1>4 DEF Settling
<1> QED BY <1>1, <1>2, <1>3, <1>5

\* Only lines of the stream are heard.
LEMMA ScopeStep == TypeOK /\ HeardInScope /\ [Next]_vars => HeardInScope'
<1> SUFFICES ASSUME TypeOK, HeardInScope, [Next]_vars PROVE HeardInScope'
  OBVIOUS
<1>0. \A d, e : SameScope(d, e)' = SameScope(d, e)
  BY DEF SameScope
<1>1. CASE Tick
  <2>1. ASSUME NEW d \in Devices, NEW h \in Aged(heard[d]) PROVE SameScope(d, h.line.by)
    <3>1. PICK g \in heard[d] : h.line = g.line
      BY AgedType DEF TypeOK, LinesOK
    <3> QED BY <3>1 DEF HeardInScope
  <2> QED BY <1>0, <1>1, <2>1, TickDoes DEF HeardInScope
<1>2. ASSUME NEW d \in Devices, ServiceDisassociated(d) PROVE HeardInScope'
  <2>1. heard' = heard \/ heard' = [heard EXCEPT ![d] = {}]
    BY <1>2, Zenon DEF ServiceDisassociated
  <2> QED BY <1>0, <2>1 DEF HeardInScope, TypeOK, LinesOK
<1>3. ASSUME NEW d \in Devices, NEW got \in SUBSET Inbox(d), NEW twice \in BOOLEAN,
             NEW due \in BOOLEAN, Service(d, got, twice, due)
      PROVE  HeardInScope'
  <2>1. heard' = [heard EXCEPT ![d] = Receive(d, Kept(d, heard[d]), got)]
    BY <1>3, Zenon DEF Service
  <2>2. ASSUME NEW h \in Receive(d, Kept(d, heard[d]), got) PROVE SameScope(d, h.line.by)
    <3>1. CASE h \in heard[d]
      BY <3>1 DEF HeardInScope
    <3>2. CASE h \notin heard[d]
      <4>1. PICK g \in got : Accepts(d, g) /\ h = [line |-> g.line, left |-> Stale]
        BY <2>2, <3>2 DEF Receive, Kept
      <4> QED BY <4>1 DEF Accepts
    <3> QED BY <3>1, <3>2
  <2> QED BY <1>0, <2>1, <2>2 DEF HeardInScope, TypeOK, LinesOK
<1>4. CASE UNCHANGED heard
  BY <1>0, <1>4 DEF HeardInScope
<1> QED BY <1>1, <1>2, <1>3, <1>4, Steps, Zenon
        DEF Lose, Roam, Connect, StreamStart, StreamEnd, Settle, Unsettle, Miss, vars

\* What a device that plays publishes in a calm interval.
LEMMA MineIs ==
    ASSUME TypeOK, OneTimebase, Published, NEW d \in Devices, Playing(d), calm > 0
    PROVE  Mine(d) = {Measured(d)}
<1>1. CASE Sends(d)
  BY <1>1 DEF Mine
<1>2. CASE ~Sends(d)
  <2>1. "beacon" \notin todo[d]
    BY <1>2, Zenon DEF Sends, Playing
  <2>2. own[d] = {Measured(d)}
    BY <2>1 DEF Published
  <2>3. Measured(d).ap = wifi[d]
    BY DEF Measured
  <2>4. Measured(d).ap = bssid[d]
    BY <2>2 DEF OneTimebase, Pool
  <2>5. ~Roamed(d)
    BY <2>3, <2>4 DEF Roamed
  <2> QED BY <1>2, <2>2, <2>5 DEF Mine, Kept
<1> QED BY <1>1, <1>2

\* Each part of the argument is preserved by each step.
LEMMA PublishedStep == TypeOK /\ OneTimebase /\ Published /\ [Next]_vars => Published'
<1> SUFFICES ASSUME TypeOK, OneTimebase, Published, [Next]_vars, NEW d \in Devices, Playing(d)', calm' > 0,
                    "beacon" \notin todo'[d] \/ calm' > 1
             PROVE  own'[d] = {Measured(d)}'
  BY DEF Published
<1>1. CASE Tick
  <2>1. Playing(d) /\ Measured(d)' = Measured(d)
    BY <1>1, TickDoes, FellowsStay
  <2>2. calm > 0 /\ "beacon" \notin todo[d] /\ own' = own
    BY <1>1, <2>1, TickDoes DEF Work
  <2> QED BY <2>1, <2>2 DEF Published
<1>2. ASSUME NEW e \in Devices, ServiceDisassociated(e) PROVE own'[d] = {Measured(d)}'
  <2>1. Playing(d) /\ Measured(d)' = Measured(d) /\ e # d
    BY <1>2, DisassociatedDoes, FellowsStay
  <2>2. own'[d] = own[d] /\ todo'[d] = todo[d] /\ calm' = calm
    BY <1>2, <2>1, DisassociatedDoes
  <2> QED BY <2>1, <2>2 DEF Published
<1>3. ASSUME NEW e \in Devices, NEW got \in SUBSET Inbox(e), NEW twice \in BOOLEAN,
             NEW due \in BOOLEAN, Service(e, got, twice, due)
      PROVE  own'[d] = {Measured(d)}'
  <2>0. UNCHANGED <<wifi, server, streaming, settled, calm>>
    BY <1>3, ServiceAround
  <2>1. Playing(d) /\ Measured(d)' = Measured(d) /\ calm' = calm
    BY <2>0, FellowsStay
  <2>2. CASE e # d
    <3>1. todo'[d] = todo[d] /\ own'[d] = own[d]
      BY <1>3, <2>2, ServiceOthers
    <3> QED BY <2>1, <3>1 DEF Published
  <2>3. CASE e = d
    <3>1. own'[d] = Mine(d)
      BY <1>3, <2>3, ServiceLists
    <3>2. Mine(d) = {Measured(d)}
      BY <2>1, MineIs
    <3> QED BY <2>1, <3>1, <3>2
  <2> QED BY <2>2, <2>3
<1>4. CASE calm' = 0
  BY <1>4
<1>5. CASE UNCHANGED vars
  <2>1. UNCHANGED <<wifi, server, streaming, settled, own, todo, calm>>
    BY <1>5, Zenon DEF vars
  <2>2. Playing(d) /\ Measured(d)' = Measured(d)
    BY <2>1, FellowsStay
  <2> QED BY <2>1, <2>2 DEF Published
<1> QED BY <1>1, <1>2, <1>3, <1>4, <1>5, CalmSteps, Zenon

LEMMA DeliveredStep ==
    TypeOK /\ OneTimebase /\ AirIsSound /\ Delivered /\ [Next]_vars => Delivered'
<1> SUFFICES ASSUME TypeOK, OneTimebase, AirIsSound, Delivered, [Next]_vars,
                    NEW d \in Devices, NEW f \in Devices, calm' > 0, Playing(d)', d # f,
                    Fellow(d, f)', "beacon" \notin todo'[f]
             PROVE  (Copy(d, f) \in air)' \/ (Latest(f) \in heard[d])'
  BY DEF Delivered
<1>1. CASE Tick
  BY <1>1, TickDoes DEF Work
<1>2. ASSUME NEW e \in Devices, ServiceDisassociated(e)
      PROVE  (Copy(d, f) \in air)' \/ (Latest(f) \in heard[d])'
  <2>1. /\ Playing(d) /\ Fellow(d, f) /\ Playing(f) /\ calm' = calm /\ air' = air
        /\ Copy(d, f)' = Copy(d, f) /\ Latest(f)' = Latest(f)
    BY <1>2, DisassociatedDoes, FellowsStay DEF Fellow
  <2>2. e # d /\ e # f
    BY <1>2, <2>1, DisassociatedDoes
  <2>3. heard'[d] = heard[d] /\ todo'[f] = todo[f]
    BY <1>2, <2>2, DisassociatedDoes
  <2> QED BY <2>1, <2>3 DEF Delivered
<1>3. ASSUME NEW e \in Devices, NEW got \in SUBSET Inbox(e), NEW twice \in BOOLEAN,
             NEW due \in BOOLEAN, Service(e, got, twice, due)
      PROVE  (Copy(d, f) \in air)' \/ (Latest(f) \in heard[d])'
  <2>0. UNCHANGED <<wifi, server, streaming, settled, calm>> /\ e \in InSession
    BY <1>3, ServiceAround
  <2>1. /\ Playing(d) /\ Fellow(d, f) /\ Playing(f) /\ calm' = calm
        /\ Copy(d, f)' = Copy(d, f) /\ Latest(f)' = Latest(f)
    BY <2>0, FellowsStay DEF Fellow
  <2>2. CASE e = f /\ Sends(f)
    <3>1. Copy(d, f) \in Copies(f)
      BY <2>1 DEF Copies, Copy, Playing, Fellow
    <3>2. Copies(f) \subseteq air'
      BY <1>3, <2>2, ServiceAir
    <3> QED BY <2>1, <3>1, <3>2
  <2>3. CASE ~(e = f /\ Sends(f))
    <3>1. "beacon" \notin todo[f]
      <4>1. CASE e # f
        BY <1>3, <4>1, ServiceOthers
      <4>2. CASE e = f
        <5>1. "beacon" \notin Done(f, due)
          BY <2>3, <4>2 DEF Done
        <5>2. todo'[f] = todo[f] \ Done(f, due)
          BY <1>3, <4>2, ServiceTodo
        <5> QED BY <5>1, <5>2
      <4> QED BY <4>1, <4>2
    <3>2. Copy(d, f) \in air \/ Latest(f) \in heard[d]
      BY <2>1, <3>1 DEF Delivered
    <3>3. \A m \in air : m \notin got => m \in air'
      BY <1>3, ServiceAir
    <3>4. CASE e # d
      <4>1. heard'[d] = heard[d]
        BY <1>3, <3>4, ServiceOthers
      <4>2. Copy(d, f) \notin got
        BY <3>4 DEF Copy, Inbox
      <4> QED BY <2>1, <3>2, <3>3, <4>1, <4>2
    <3>5. CASE e = d
      <4>1. heard'[d] = Receive(d, Kept(d, heard[d]), got) /\ d \in InSession
        BY <1>3, <2>0, <3>5, ServiceLists
      <4>2. Kept(d, heard[d]) \in SUBSET Heard /\ got \in SUBSET Inbox(d) /\ calm > 0
        BY <2>1, <3>5 DEF Kept, TypeOK, LinesOK
      <4>3. /\ Latest(f) \in Kept(d, heard[d]) => Latest(f) \in heard'[d]
            /\ Copy(d, f) \in got /\ Accepts(d, Copy(d, f)) => Latest(f) \in heard'[d]
        BY <4>1, <4>2, Reception
      <4>4. Measured(f).ap = wifi[d] /\ Latest(f).line = Measured(f)
        BY <2>1 DEF Measured, Fellow, Latest
      <4>5. Latest(f) \in heard[d] => Latest(f) \in Kept(d, heard[d])
        BY <4>4, KeptWhole
      <4>6. Accepts(d, Copy(d, f))
        BY <2>1, <4>4 DEF Accepts, Copy, Fellow, Measured
      <4> QED BY <2>1, <3>2, <3>3, <4>3, <4>5, <4>6
    <3> QED BY <3>4, <3>5
  <2> QED BY <2>2, <2>3
<1>4. CASE calm' = 0
  BY <1>4
<1>5. CASE UNCHANGED vars
  <2>1. UNCHANGED <<wifi, server, streaming, settled, heard, todo, calm, air>>
    BY <1>5, Zenon DEF vars
  <2>2. /\ Playing(d) /\ Fellow(d, f)
        /\ Copy(d, f)' = Copy(d, f) /\ Latest(f)' = Latest(f)
    BY <2>1, FellowsStay
  <2> QED BY <2>1, <2>2 DEF Delivered
<1> QED BY <1>1, <1>2, <1>3, <1>4, <1>5, CalmSteps, Zenon

LEMMA RememberedStep ==
    ASSUME Stale > 1, TypeOK, OneTimebase, AirIsSound, Delivered, Remembered, [Next]_vars
    PROVE  Remembered'
<1> SUFFICES ASSUME NEW d \in Devices, NEW f \in Devices, calm' > 1, Playing(d)', d # f, Fellow(d, f)'
             PROVE  \E h \in heard'[d] : h.line = Measured(f)'
  BY DEF Remembered
<1>1. CASE Tick
  <2>1. /\ Playing(d) /\ Fellow(d, f) /\ Playing(f) /\ calm > 0
        /\ Measured(f)' = Measured(f)
    BY <1>1, TickDoes, FellowsStay DEF Fellow
  <2>2. todo[f] = {} /\ Inbox(d) = {} /\ heard'[d] = Aged(heard[d])
    BY <1>1, <2>1, TickDoes
  <2>3. Copy(d, f) \notin air
    BY <2>2 DEF Inbox, Copy
  <2>4. Latest(f) \in heard[d]
    BY <2>1, <2>2, <2>3 DEF Delivered
  <2>5. [line |-> Measured(f), left |-> Stale - 1] \in Aged(heard[d])
    <3>1. Latest(f).left > 1 /\ Latest(f).line = Measured(f) /\ Latest(f).left - 1 = Stale - 1
      BY DEF Latest
    <3> QED BY <2>4, <3>1 DEF Aged
  <2> QED BY <2>1, <2>2, <2>5
<1>2. ASSUME NEW e \in Devices, ServiceDisassociated(e) PROVE \E h \in heard'[d] : h.line = Measured(f)'
  <2>1. Playing(d) /\ Fellow(d, f) /\ calm' = calm /\ Measured(f)' = Measured(f)
    BY <1>2, DisassociatedDoes, FellowsStay
  <2>2. e # d /\ heard'[d] = heard[d]
    BY <1>2, <2>1, DisassociatedDoes
  <2> QED BY <2>1, <2>2 DEF Remembered
<1>3. ASSUME NEW e \in Devices, NEW got \in SUBSET Inbox(e), NEW twice \in BOOLEAN,
             NEW due \in BOOLEAN, Service(e, got, twice, due)
      PROVE  \E h \in heard'[d] : h.line = Measured(f)'
  <2>0. UNCHANGED <<wifi, server, streaming, settled, calm>> /\ e \in InSession
    BY <1>3, ServiceAround
  <2>1. Playing(d) /\ Fellow(d, f) /\ calm' = calm /\ Measured(f)' = Measured(f)
    BY <2>0, FellowsStay
  <2>2. PICK h \in heard[d] : h.line = Measured(f)
    BY <2>1 DEF Remembered
  <2>3. CASE e # d
    <3>1. heard'[d] = heard[d]
      BY <1>3, <2>3, ServiceOthers
    <3> QED BY <2>1, <2>2, <3>1
  <2>4. CASE e = d
    <3>1. heard'[d] = Receive(d, Kept(d, heard[d]), got) /\ d \in InSession
      BY <1>3, <2>0, <2>4, ServiceLists
    <3>2. h.line.ap = wifi[d]
      BY <2>1, <2>2 DEF Measured, Fellow
    <3>3. Kept(d, heard[d]) = heard[d] /\ heard[d] \in SUBSET Heard
      BY <3>2, KeptWhole DEF TypeOK, LinesOK
    <3>4. calm > 0 /\ got \in SUBSET Inbox(d)
      BY <2>1, <2>4 DEF TypeOK, CountersOK
    <3>5. \E k \in Receive(d, heard[d], got) : k.line = Measured(f)
      <4>1. \E k \in heard[d] : k.line = Measured(f)
        BY <2>2
      <4>2. got \in SUBSET Inbox(d) /\ d \in InSession /\ calm > 0 /\ heard[d] \in SUBSET Heard
        BY <3>1, <3>3, <3>4
      <4> QED BY <4>1, <4>2, Reception
    <3> QED BY <2>1, <3>1, <3>3, <3>5
  <2> QED BY <2>3, <2>4
<1>4. CASE calm' = 0
  BY <1>4
<1>5. CASE UNCHANGED vars
  <2>1. UNCHANGED <<wifi, server, streaming, settled, heard, calm>>
    BY <1>5, Zenon DEF vars
  <2>2. Playing(d) /\ Fellow(d, f) /\ Measured(f)' = Measured(f)
    BY <2>1, FellowsStay
  <2> QED BY <2>1, <2>2 DEF Remembered
<1> QED BY <1>1, <1>2, <1>3, <1>4, <1>5, CalmSteps, Zenon

\* Once lines that are sound no more have died, a device pools its group.
LEMMA PoolIsGroup ==
    ASSUME Stale > 1, TypeOK, OneTimebase, AirIsSound, HeardIsSound, HeardInScope, Published,
           Remembered, NEW d \in Devices, Playing(d), calm >= Stale, NEW got \in SUBSET Inbox(d)
    PROVE  Pool(Mine(d), Receive(d, Kept(d, heard[d]), got)) = Group(d)
<1> DEFINE kept == Kept(d, heard[d])
           peers == Receive(d, kept, got)
<1>1. /\ d \in InSession /\ calm \in Nat /\ calm > 1 /\ calm > 0 /\ wifi[d] # NoAp
      /\ kept \in SUBSET Heard /\ got \in SUBSET Beacon
  <2>1. d \in InSession /\ wifi[d] # NoAp
    BY Zenon DEF Playing, InSession
  <2>2. calm \in Nat
    BY DEF TypeOK, CountersOK, Settling
  <2>3. kept \in SUBSET Heard /\ got \in SUBSET Beacon
    BY DEF Kept, Inbox, TypeOK, LinesOK
  <2> HIDE DEF kept
  <2> QED BY <2>1, <2>2, <2>3
<1>2. Mine(d) = {Measured(d)}
  BY <1>1, MineIs
<1>3. ASSUME NEW h \in peers PROVE h.line \in Group(d)
  <2>1. h.left \in 1 .. Stale /\ h.line \in Line /\ (h \in kept \/ h.line.ap = wifi[d])
    BY <1>1, <1>3, ReceiveType DEF Heard
  <2>2. h.line \in Sound /\ h.line.server = server[d]
    <3>1. (h.line \in Sound /\ h.line.server = server[d]) \/ h.left + calm <= Stale
      BY <1>1, <1>3, PeersAreSound
    <3> QED BY <1>1, <2>1, <3>1
  <2>3. h.line.ap = wifi[d]
    <3>1. CASE h \in kept
      <4>1. h \in heard[d] /\ ~Roamed(d)
        BY <3>1 DEF Kept
      <4>2. h.line.ap = bssid[d] /\ bssid[d] # NoAp
        BY <2>1, <4>1 DEF OneTimebase, Pool, Line
      <4> QED BY <4>1, <4>2 DEF Roamed
    <3> QED BY <2>1, <3>1
  <2>4. SameScope(d, h.line.by)
    <3>1. CASE h \in heard[d]
      BY <3>1 DEF HeardInScope
    <3>2. CASE h \notin heard[d]
      <4>1. PICK g \in got : Accepts(d, g) /\ h = [line |-> g.line, left |-> Stale]
        BY <1>3, <3>2 DEF Receive, Kept
      <4> QED BY <4>1 DEF Accepts
    <3> QED BY <3>1, <3>2
  <2>5. /\ h.line.by \in Devices /\ h.line = Measured(h.line.by)
        /\ streaming[h.line.by] /\ settled[h.line.by] /\ wifi[h.line.by] = h.line.ap
        /\ server[h.line.by] = h.line.server
    BY <2>2, SoundIs
  <2>6. Fellow(d, h.line.by)
    BY <1>1, <2>2, <2>3, <2>4, <2>5, Zenon DEF Fellow, Playing
  <2> QED BY <2>5, <2>6 DEF Group
<1>4. ASSUME NEW f \in Devices, Fellow(d, f), f # d PROVE \E h \in peers : h.line = Measured(f)
  <2>1. PICK g \in heard[d] : g.line = Measured(f)
    BY <1>1, <1>4 DEF Remembered
  <2>2. g.line.ap = wifi[d]
    BY <1>4, <2>1 DEF Measured, Fellow
  <2>3. kept = heard[d]
    BY <2>2, KeptWhole
  <2> HIDE DEF kept
  <2>4. \E h \in kept : h.line = Measured(f)
    BY <2>1, <2>3
  <2> QED BY <1>1, <2>4, Reception, Zenon
<1>5. Fellow(d, d)
  BY DEF Fellow, SameScope
<1> HIDE DEF peers
<1>6. {h.line : h \in peers} \subseteq Group(d) /\ Measured(d) \in Group(d)
  BY <1>3, <1>5 DEF Group
<1>7. ASSUME NEW l \in Group(d) PROVE l \in {Measured(d)} \cup {h.line : h \in peers}
  BY <1>4 DEF Group
<1>8. Pool(Mine(d), peers) = {Measured(d)} \cup {h.line : h \in peers}
  BY <1>2 DEF Pool
<1> QED BY <1>6, <1>7, <1>8 DEF peers

LEMMA AgreedStep ==
    ASSUME Stale > 1, Expiry > 1, TypeOK, OneTimebase, Located, AirIsSound, HeardIsSound,
           HeardInScope, Published, Remembered, Agreed, [Next]_vars
    PROVE  Agreed'
<1> SUFFICES ASSUME NEW d \in Devices, Playing(d)', calm' >= Stale
             PROVE  /\ "consensus" \notin todo'[d] => mapLeft'[d] = Expiry
                    /\ "consensus" \notin todo'[d] \/ calm' > Stale => adopted'[d] = Group(d)'
  BY DEF Agreed
<1>1. CASE Tick
  <2>1. Playing(d) /\ Group(d)' = Group(d) /\ "consensus" \in todo'[d] /\ todo[d] = {}
    BY <1>1, TickDoes, FellowsStay DEF Work
  <2>2. ASSUME calm' > Stale PROVE adopted'[d] = Group(d)
    <3>1. calm >= Stale
      BY <1>1, <2>2, TickDoes
    <3>2. mapLeft[d] = Expiry /\ adopted[d] = Group(d)
      BY <2>1, <3>1 DEF Agreed
    <3> QED BY <1>1, <3>2, TickDoes
  <2> QED BY <2>1, <2>2
<1>2. ASSUME NEW e \in Devices, ServiceDisassociated(e)
      PROVE  /\ "consensus" \notin todo'[d] => mapLeft'[d] = Expiry
             /\ "consensus" \notin todo'[d] \/ calm' > Stale => adopted'[d] = Group(d)'
  <2>1. Playing(d) /\ Group(d)' = Group(d) /\ calm' = calm
    BY <1>2, DisassociatedDoes, FellowsStay
  <2>2. adopted'[d] = adopted[d] /\ mapLeft'[d] = mapLeft[d] /\ todo'[d] = todo[d]
    BY <1>2, <2>1, DisassociatedDoes
  <2> QED BY <2>1, <2>2 DEF Agreed
<1>3. ASSUME NEW e \in Devices, NEW got \in SUBSET Inbox(e), NEW twice \in BOOLEAN,
             NEW due \in BOOLEAN, Service(e, got, twice, due)
      PROVE  /\ "consensus" \notin todo'[d] => mapLeft'[d] = Expiry
             /\ "consensus" \notin todo'[d] \/ calm' > Stale => adopted'[d] = Group(d)'
  <2>0. UNCHANGED <<wifi, server, streaming, settled, calm>>
    BY <1>3, ServiceAround
  <2>1. Playing(d) /\ Group(d)' = Group(d) /\ calm' = calm
    BY <2>0, FellowsStay
  <2> DEFINE pool == Pool(Mine(e), Receive(e, Kept(e, heard[e]), got))
  <2>3. /\ adopted' = [adopted EXCEPT ![e] = IF due /\ pool # {} THEN pool ELSE Kept(e, @)]
        /\ mapLeft' = [mapLeft EXCEPT ![e] =
               IF due /\ pool # {} THEN Expiry ELSE IF Roamed(e) THEN 0 ELSE @]
    <3> HIDE DEF pool
    <3> QED BY <1>3, Zenon DEF Service, pool
  <2>4. CASE e # d
    <3> HIDE DEF pool
    <3>1. adopted'[d] = adopted[d] /\ mapLeft'[d] = mapLeft[d] /\ todo'[d] = todo[d]
      BY <1>3, <2>4, ServiceOthers
    <3> QED BY <2>1, <3>1 DEF Agreed
  <2>5. CASE e = d
    <3>1. pool = Group(d) /\ Measured(d) \in Group(d)
      <4>1. pool = Group(d)
        BY <2>1, <2>5, PoolIsGroup
      <4> HIDE DEF pool
      <4> QED BY <2>1, <4>1 DEF Group, Fellow, SameScope
    <3> HIDE DEF pool
    <3>2. CASE due
      BY <2>1, <2>3, <2>5, <3>1, <3>2 DEF TypeOK, LinesOK, CountersOK
    <3>3. CASE ~due
      <4>0. "consensus" \notin Done(d, due) /\ todo'[d] = todo[d] \ Done(d, due)
        <5>1. todo'[d] = todo[d] \ Done(d, due)
          BY <1>3, <2>5, ServiceTodo
        <5> QED BY <3>3, <5>1 DEF Done
      <4>1. "consensus" \notin todo'[d] => "consensus" \notin todo[d]
        BY <4>0
      <4>2. ~Roamed(d)
        <5>1. streaming[d] /\ calm > 1
          BY <2>1 DEF Playing, TypeOK, CountersOK, Settling
        <5>2. bssid[d] = wifi[d]
          BY <5>1 DEF Located, TypeOK, CountersOK, Settling
        <5> QED BY <5>2 DEF Roamed
      <4>3. adopted'[d] = adopted[d] /\ mapLeft'[d] = mapLeft[d]
        BY <2>3, <2>5, <3>3, <4>2 DEF Kept, TypeOK, LinesOK, CountersOK
      <4> QED BY <2>1, <4>1, <4>3 DEF Agreed
    <3> QED BY <3>2, <3>3
  <2> QED BY <2>4, <2>5
<1>4. CASE calm' = 0
  BY <1>4
<1>5. CASE UNCHANGED vars
  <2>1. UNCHANGED <<wifi, server, streaming, settled, adopted, mapLeft, todo, calm>>
    BY <1>5, Zenon DEF vars
  <2>2. Playing(d) /\ Group(d)' = Group(d)
    BY <2>1, FellowsStay
  <2> QED BY <2>1, <2>2 DEF Agreed
<1> QED BY <1>1, <1>2, <1>3, <1>4, <1>5, CalmSteps, Zenon

\* Stale intervals after the last disturbance, devices that play together average the
\* same lines and so compute the same deadlines: for any number of devices and streams,
\* as long as a line outlives the interval it was read in, and a mapping the one it was
\* made in.
THEOREM SetsAgreeHolds == ASSUME Stale > 1, Expiry > 1 PROVE Spec => []SetsAgree
<1> DEFINE I == IInv /\ IInvSound /\ IInvAgreed
<1>1. Init => I
  <2>1. Init => IInvAgreed
    BY DEF Init, IInvAgreed, HeardInScope, Published, Delivered, Remembered, Agreed
  <2> QED BY <2>1, InitIInv, InitIInvSound
<1>2. I /\ [Next]_vars => I'
  <2> SUFFICES ASSUME IInv, IInvSound, IInvAgreed, [Next]_vars PROVE IInvAgreed'
    BY NextIInv, NextIInvSound DEF IInv
  <2> USE DEF IInv, IInvSound, IInvAgreed
  <2>1. HeardInScope' /\ Published'
    BY ScopeStep, PublishedStep
  <2>2. Delivered'
    BY DeliveredStep
  <2>3. Remembered'
    BY RememberedStep
  <2>4. Agreed'
    BY AgreedStep
  <2> QED BY <2>1, <2>2, <2>3, <2>4
<1>3. I => SetsAgree
  <2> SUFFICES ASSUME I, calm > Stale, NEW d \in Devices, NEW e \in Devices, Together(d, e)
               PROVE  adopted[d] = adopted[e]
    BY DEF SetsAgree
  <2>1. Playing(d) /\ Playing(e) /\ wifi[d] = wifi[e] /\ server[d] = server[e]
        /\ Stream[d] = Stream[e]
    BY Zenon DEF Together, Playing
  <2>2. \A f \in Devices : Fellow(d, f) <=> Fellow(e, f)
    BY <2>1 DEF Fellow, SameScope
  <2>3. Group(d) = Group(e)
    BY <2>2 DEF Group
  <2>4. calm >= Stale
    BY DEF IInv, TypeOK, CountersOK, Settling
  <2>5. adopted[d] = Group(d) /\ adopted[e] = Group(e)
    BY <2>1, <2>4 DEF IInvAgreed, Agreed
  <2> QED BY <2>3, <2>5
<1> QED BY <1>1, <1>2, <1>3, PTL DEF Spec
=============================================================================
