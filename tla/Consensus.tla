------------------------------ MODULE Consensus ------------------------------
(***************************************************************************)
(* The group timebase: the TsfSync object of each client on one network.   *)
(* A client publishes, once per beacon interval, the line that maps its    *)
(* server's clock to the TSF counter of its access point, hears the lines  *)
(* of the others, and adopts the mean of its own line and the live lines   *)
(* it heard.  The mean is a function of that set, so the model keeps the   *)
(* set and not the number.                                                 *)
(*                                                                         *)
(* A line is who measured it, on which access point, against which server. *)
(* Time is counted in beacon intervals: in each one a client in session is *)
(* serviced until its beacon and its consensus are done, and datagrams     *)
(* arrive.  Whatever departs from that (a loss, a missed interval, a roam, *)
(* a change of session) is a disturbance; Disturbances bounds how many a   *)
(* behaviour has, calm counts the intervals since the last.                *)
(***************************************************************************)
EXTENDS Naturals, FiniteSets, TLC

CONSTANTS
    Devices, APs, Servers,
    NoAp,           \* not associated
    Stream,         \* the stream each device plays, Unknown before it is told
    Unknown,
    Stale,          \* PEER_MAP_STALE_US, in beacon intervals
    Expiry,         \* MAPPING_EXPIRY_US
    Clamp,          \* MAX_EXTRAPOLATION_US
    Disturbances

ASSUME ConsensusAssumption ==
    /\ NoAp \notin APs
    /\ Stale \in Nat \ {0} /\ Expiry \in Nat \ {0} /\ Clamp \in Nat
    /\ Disturbances \in Nat
    /\ Stream \in [Devices -> STRING]

VARIABLES
    wifi,       \* the access point each device is really associated with
    bssid,      \* bssid_, NoAp when have_bssid_ is FALSE
    server,     \* server_id_hash_ of the session
    streaming,  \* stream_active_: service() only runs while it holds
    settled,    \* est.valid && est.mature
    own,        \* the published line, {} when pub_valid_ is FALSE
    heard,      \* the peers' lines that have not gone stale
    adopted,    \* the lines the mapping is the mean of, {} when there is none
    mapLeft,    \* intervals until the mapping expires
    since,      \* intervals since the session was opened, up to Stale
    todo,       \* timers that elapsed and were not served in this interval
    air,        \* datagrams sent and not yet received
    calm,       \* intervals since the last disturbance
    moves       \* disturbances so far

vars == <<wifi, bssid, server, streaming, settled, own, heard, adopted,
          mapLeft, since, todo, air, calm, moves>>

-----------------------------------------------------------------------------
Line    == [by : Devices, ap : APs, server : Servers]
Heard   == [line : Line, left : 1 .. Stale]
Beacon  == [to : Devices, line : Line, age : 0 .. Clamp]
Work    == {"beacon", "consensus"}
Settling == Stale + Expiry         \* calm is not counted further

Init ==
    /\ wifi \in [Devices -> APs]
    /\ bssid = [d \in Devices |-> NoAp]
    /\ server \in [Devices -> Servers]
    /\ streaming = [d \in Devices |-> FALSE]
    /\ settled = [d \in Devices |-> FALSE]
    /\ own = [d \in Devices |-> {}]
    /\ heard = [d \in Devices |-> {}]
    /\ adopted = [d \in Devices |-> {}]
    /\ mapLeft = [d \in Devices |-> 0]
    /\ since = [d \in Devices |-> Stale]
    /\ todo = [d \in Devices |-> Work]
    /\ air = {}
    /\ calm = 0
    /\ moves = 0

-----------------------------------------------------------------------------
(* receive_ *)

Inbox(d) == {m \in air : m.to = d}

\* Lines are pooled within a stream; a device that does not know its stream
\* yet pools with everyone.
SameScope(d, e) ==
    Stream[d] = Unknown \/ Stream[e] = Unknown \/ Stream[d] = Stream[e]

\* Mutant: the access point in the datagram is not looked at.
AcceptsAnyAP(d, m) ==
    m.line.server = server[d] /\ SameScope(d, m.line.by) /\ m.age <= Clamp

\* Mutant: nor the server.
AcceptsAnyServer(d, m) ==
    m.line.ap = wifi[d] /\ SameScope(d, m.line.by) /\ m.age <= Clamp

\* The filters a datagram passes: access point, server, stream, age.
Accepts(d, m) ==
    /\ m.line.ap = wifi[d]
    /\ m.line.server = server[d]
    /\ SameScope(d, m.line.by)
    /\ m.age <= Clamp

\* A peer's slot is overwritten by the datagram read last; a line counts as
\* seen when it is read, however long it waited.
Receive(d, kept, got) ==
    LET fresh == {m.line : m \in {g \in got : Accepts(d, g)}}
    IN  {h \in kept : \A l \in fresh : l.by # h.line.by}
          \cup {[line |-> l, left |-> Stale] : l \in fresh}

(* broadcast_: the line is measured against the own estimate, never against
   what was adopted; it goes to every device in reach of the network. *)
Measured(d) == [by |-> d, ap |-> wifi[d], server |-> server[d]]

Copies(d) ==
    {[to |-> e, line |-> Measured(d), age |-> 0] :
        e \in {f \in Devices \ {d} : wifi[f] # NoAp}}

\* Mutant: the own line is left out of the mean.
PoolOthers(mine, peers) == {h.line : h \in peers}

(* update_consensus_: the own line whatever its age, and the peers' live
   lines; with none of them the mapping is left as it is. *)
Pool(mine, peers) == mine \cup {h.line : h \in peers}

-----------------------------------------------------------------------------
(* service() *)

\* Mutant: a roam is not noticed.
RoamedNever(d) == FALSE

\* reset_ runs when the access point changed under the device: nothing that
\* was published, heard or adopted is kept.
Roamed(d) == bssid[d] # NoAp /\ bssid[d] # wifi[d]

Kept(d, lines) == IF Roamed(d) THEN {} ELSE lines

\* The beacon goes out when its timer has elapsed, from a settled estimate.
Sends(d) == settled[d] /\ "beacon" \in todo[d]

Mine(d) == IF Sends(d) THEN {Measured(d)} ELSE Kept(d, own[d])

\* esp_wifi_sta_get_ap_info fails: forget the access point and all it meant.
ServiceDisassociated(d) ==
    /\ streaming[d]
    /\ wifi[d] = NoAp
    /\ IF bssid[d] = NoAp
       THEN UNCHANGED <<bssid, own, heard, adopted, mapLeft>>
       ELSE /\ bssid' = [bssid EXCEPT ![d] = NoAp]
            /\ own' = [own EXCEPT ![d] = {}]
            /\ heard' = [heard EXCEPT ![d] = {}]
            /\ adopted' = [adopted EXCEPT ![d] = {}]
            /\ mapLeft' = [mapLeft EXCEPT ![d] = 0]
    /\ todo' = [todo EXCEPT ![d] = {}]
    /\ UNCHANGED <<wifi, server, streaming, settled, since, air, calm, moves>>

\* got is what the socket holds, at most one datagram of each peer per call;
\* twice says that the unicast copies are still to come; due, that the
\* consensus timer elapsed.
Service(d, got, twice, due) ==
    LET peers == Receive(d, Kept(d, heard[d]), got)
        pool  == Pool(Mine(d), peers)
        adopt == due /\ pool # {}
    IN  /\ streaming[d]
        /\ wifi[d] # NoAp
        /\ bssid' = [bssid EXCEPT ![d] = wifi[d]]
        /\ own' = [own EXCEPT ![d] = Mine(d)]
        /\ heard' = [heard EXCEPT ![d] = peers]
        /\ adopted' = [adopted EXCEPT ![d] = IF adopt THEN pool ELSE Kept(d, @)]
        /\ mapLeft' = [mapLeft EXCEPT ![d] =
               IF adopt THEN Expiry ELSE IF Roamed(d) THEN 0 ELSE @]
        /\ todo' = [todo EXCEPT ![d] =
               @ \ ((IF Sends(d) THEN {"beacon"} ELSE {})
                      \cup (IF due THEN {"consensus"} ELSE {}))]
        /\ air' = (IF twice THEN air ELSE air \ got)
                    \cup (IF Sends(d) THEN Copies(d) ELSE {})
        /\ UNCHANGED <<wifi, server, streaming, settled, since, calm, moves>>

OnePerPeer(got) == \A m, n \in got : m.line.by = n.line.by => m = n

ServiceAny(d) ==
    \E got \in SUBSET Inbox(d), twice \in BOOLEAN, due \in BOOLEAN :
        OnePerPeer(got) /\ Service(d, got, twice, due)

-----------------------------------------------------------------------------
(* What surrounds the object: the radio, the session, the clock filter.     *)

Disturb == moves < Disturbances /\ moves' = moves + 1 /\ calm' = 0
Settles == calm' = 0 /\ UNCHANGED moves

\* The radio roams, loses its access point, or finds one again.
Roam(d, ap) ==
    /\ Disturb
    /\ ap # wifi[d]
    /\ wifi' = [wifi EXCEPT ![d] = ap]
    /\ air' = IF ap = NoAp THEN air \ Inbox(d) ELSE air
    /\ UNCHANGED <<bssid, server, streaming, settled, own, heard, adopted,
                   mapLeft, since, todo>>

\* A session opens, with the same server or another: the clock filter starts
\* afresh, and nothing tells the timebase.
Connect(d, s) ==
    /\ Disturb
    /\ wifi[d] # NoAp
    /\ server' = [server EXCEPT ![d] = s]
    /\ streaming' = [streaming EXCEPT ![d] = FALSE]
    /\ settled' = [settled EXCEPT ![d] = FALSE]
    /\ since' = [since EXCEPT ![d] = 0]
    /\ UNCHANGED <<wifi, bssid, own, heard, adopted, mapLeft, todo, air>>

StreamStart(d) ==
    /\ Settles
    /\ wifi[d] # NoAp
    /\ ~streaming[d]
    /\ streaming' = [streaming EXCEPT ![d] = TRUE]
    /\ UNCHANGED <<wifi, bssid, server, settled, own, heard, adopted, mapLeft,
                   since, todo, air>>

StreamEnd(d) ==
    /\ Disturb
    /\ streaming[d]
    /\ streaming' = [streaming EXCEPT ![d] = FALSE]
    /\ UNCHANGED <<wifi, bssid, server, settled, own, heard, adopted, mapLeft,
                   since, todo, air>>

\* The filter settles once the burst is answered; its estimate is no longer
\* fresh when the server stops answering.
Settle(d) ==
    /\ Settles
    /\ wifi[d] # NoAp
    /\ ~settled[d]
    /\ settled' = [settled EXCEPT ![d] = TRUE]
    /\ UNCHANGED <<wifi, bssid, server, streaming, own, heard, adopted,
                   mapLeft, since, todo, air>>

Unsettle(d) ==
    /\ Disturb
    /\ settled[d]
    /\ settled' = [settled EXCEPT ![d] = FALSE]
    /\ UNCHANGED <<wifi, bssid, server, streaming, own, heard, adopted,
                   mapLeft, since, todo, air>>

\* A datagram is lost, or is read while the TSF counter cannot be.
Lose(m) ==
    /\ Disturb
    /\ air' = air \ {m}
    /\ UNCHANGED <<wifi, bssid, server, streaming, settled, own, heard,
                   adopted, mapLeft, since, todo>>

\* The network task is busy, or the TSF counter unreadable, for an interval.
Miss(d) ==
    /\ Disturb
    /\ streaming[d]
    /\ todo[d] # {}
    /\ todo' = [todo EXCEPT ![d] = {}]
    /\ air' = air \ Inbox(d)
    /\ UNCHANGED <<wifi, bssid, server, streaming, settled, own, heard,
                   adopted, mapLeft, since>>

\* Mutant: lines heard never go stale.
AgedNever(lines) == lines

\* PEER_MAP_STALE_US: a line not heard again is dropped.
Aged(lines) ==
    {[line |-> h.line, left |-> h.left - 1] : h \in {g \in lines : g.left > 1}}

Waited(sent) ==
    {[to |-> m.to, line |-> m.line, age |-> m.age + 1] :
        m \in {n \in sent : n.age < Clamp}}

\* The work of the interval is done.
Served(d) ==
    /\ todo[d] \subseteq IF settled[d] THEN {} ELSE {"beacon"}
    /\ Inbox(d) = {}

\* One beacon interval passes.  Expired lines and an expired mapping are
\* never read again, so they are dropped here.  Datagrams wait only for a
\* device that is not being serviced, and are too old after Clamp.
Tick ==
    /\ \A d \in Devices : streaming[d] => Served(d)
    /\ heard' = [d \in Devices |-> Aged(heard[d])]
    /\ mapLeft' = [d \in Devices |-> IF mapLeft[d] > 0 THEN mapLeft[d] - 1 ELSE 0]
    /\ adopted' = [d \in Devices |-> IF mapLeft[d] > 1 THEN adopted[d] ELSE {}]
    /\ since' = [d \in Devices |-> IF since[d] < Stale THEN since[d] + 1 ELSE Stale]
    /\ todo' = [d \in Devices |-> Work]
    /\ air' = Waited(air)
    /\ calm' = IF calm < Settling THEN calm + 1 ELSE calm
    /\ UNCHANGED <<wifi, bssid, server, streaming, settled, own, moves>>

Next ==
    \/ Tick
    \/ \E m \in air : Lose(m)
    \/ \E d \in Devices :
          \/ ServiceDisassociated(d)
          \/ ServiceAny(d)
          \/ \E ap \in APs \cup {NoAp} : Roam(d, ap)
          \/ \E s \in Servers : Connect(d, s)
          \/ StreamStart(d)
          \/ StreamEnd(d)
          \/ Settle(d)
          \/ Unsettle(d)
          \/ Miss(d)

Spec == Init /\ [][Next]_vars

-----------------------------------------------------------------------------
(* Properties *)

PlacesOK ==
    /\ wifi \in [Devices -> APs \cup {NoAp}]
    /\ bssid \in [Devices -> APs \cup {NoAp}]
    /\ server \in [Devices -> Servers]

FlagsOK ==
    /\ streaming \in [Devices -> BOOLEAN]
    /\ settled \in [Devices -> BOOLEAN]

LinesOK ==
    /\ own \in [Devices -> SUBSET Line]
    /\ heard \in [Devices -> SUBSET Heard]
    /\ adopted \in [Devices -> SUBSET Line]
    /\ air \subseteq Beacon

CountersOK ==
    /\ mapLeft \in [Devices -> 0 .. Expiry]
    /\ since \in [Devices -> 0 .. Stale]
    /\ todo \in [Devices -> SUBSET Work]
    /\ calm \in 0 .. Settling
    /\ moves \in 0 .. Disturbances

\* Type invariant of the per-device state of TsfSync and of its surroundings.
TypeOK == PlacesOK /\ FlagsOK /\ LinesOK /\ CountersOK

\* Two access points count unrelated TSF clocks: no line measured on another
\* one than the device last saw is published, kept or adopted, through roams
\* to and fro, datagrams that waited, and disassociation.
OneTimebase ==
    \A d \in Devices :
        \A l \in Pool(own[d], heard[d]) \cup adopted[d] : l.ap = bssid[d]

\* One whole interval after the last disturbance, a device in session computes no
\* deadline from the counter of an access point it is not on.
RoamIsNoticed ==
    calm > 1 => \A d \in Devices : streaming[d] =>
        \A l \in adopted[d] : l.ap = wifi[d]

\* Stale intervals after it opened a session, no line of another server is
\* left among those a device heard: only its own may be.
ForeignLinesExpire ==
    \A d \in Devices : since[d] = Stale =>
        \A h \in heard[d] : h.line.server = server[d]

\* Devices that play together: one access point, server and stream, settled.
Together(d, e) ==
    /\ streaming[d] /\ streaming[e] /\ settled[d] /\ settled[e]
    /\ wifi[d] = wifi[e] /\ wifi[d] # NoAp
    /\ server[d] = server[e]
    /\ Stream[d] = Stream[e]

\* The adopted line must be the same on every device of a group: Stale
\* intervals after the last disturbance the sets they average are equal.
SetsAgree ==
    calm > Stale => \A d, e \in Devices : Together(d, e) => adopted[d] = adopted[e]

\* A device that left, settled no more or changed server steers nobody but
\* itself once its line is stale and the mappings made from it have expired.
GoneIsForgotten ==
    calm >= Stale + Expiry =>
        \A d \in Devices : streaming[d] => \A l \in adopted[d] :
            l.by = d \/ /\ streaming[l.by] /\ settled[l.by]
                        /\ wifi[l.by] = wifi[d] /\ server[l.by] = server[d]

\* Neither a former server's clients nor a device that is gone steer a group for good.
StrangersAreForgotten == ForeignLinesExpire /\ GoneIsForgotten

=============================================================================
