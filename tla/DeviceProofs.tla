---------------------------- MODULE DeviceProofs -----------------------------
(* What holds of the device beside its ring and its ledger, for every value of  *)
(* the constants: servo, position, control session, access point, divider.      *)
EXTENDS Device, TLAPS, WellFoundedInduction, FiniteSetTheorems

\* Whatever the device does, it is a step of one part, which the others sit out.
LEMMA ServoSteps == [Next]_vars => [ServoNext]_servoVars
BY DEF Next, vars, InSettings, AtAccessPoint, InControl, InLock, OfPosition, InServo

LEMMA PositionSteps == [Next]_vars => [PositionNext]_positionVars
BY DEF Next, vars, InSettings, AtAccessPoint, InControl, InLock, OfPosition, InServo

LEMMA ApSteps == [Next]_vars => [ApNext]_apVars
BY DEF Next, vars, InSettings, AtAccessPoint, InControl, InLock, OfPosition, InServo

LEMMA SettingsSteps == [Next]_vars => [SettingsNext]_settingsVars
BY DEF Next, vars, InSettings, AtAccessPoint, InControl, InLock, OfPosition, InServo

LEMMA ControlSteps == [Next]_vars => [CtlNext]_ctlVars
BY DEF Next, vars, InSettings, AtAccessPoint, InControl, InLock, OfPosition, InServo

LEMMA LockSteps == [Next]_vars => [LockNext]_lockVars
BY DEF Next, vars, InSettings, AtAccessPoint, InControl, InLock, OfPosition, InServo

------------------------------------------------------------------------------
\* The servo. Of the two counts that open the gate, one at least was begun after the
\* audio was last moved: the window after a resync, the chunks in band after a chunk out
\* of it. And a displacement has been counted no more often than it was measured.
Evidence == streak >= inBand \/ streak >= filled

Counts ==
  /\ filled \in 0..Window /\ inBand \in 0..Window
  /\ streak \in 0..Window /\ seen \in 0..Confirm
  /\ wait \in 0..AnchorWait \union {Unset} /\ late \in 0..StaleFor \union {Unset}
  /\ trial \in [dir : -1..1, n : 0..Confirm]
  /\ storm \in [n : 0..StormCount, age : 0..StormSpan + 1]
  /\ Evidence
  /\ trial.n <= seen

Switches ==
  /\ sink \in [valid : BOOLEAN, starved : BOOLEAN, fed : BOOLEAN]
  /\ on \in BOOLEAN /\ reconnect \in BOOLEAN

LEMMA CountsBegin == ServoInit => Counts
BY ServoAssumption DEF ServoInit, Counts, NoTrial, Evidence

LEMMA CappedType ==
  ASSUME NEW most \in Nat, NEW n \in 0..most
  PROVE  Capped(n, most) \in 0..most /\ Capped(n, most) >= n
BY DEF Capped

LEMMA CappedGrows ==
  ASSUME NEW most \in Nat, NEW n \in 0..most, NEW m \in 0..most, n <= m
  PROVE  Capped(n, most) <= Capped(m, most)
BY DEF Capped

LEMMA CountedType ==
  ASSUME NEW t \in [dir : -1..1, n : 0..Confirm], NEW err \in Errors, NEW fresh
  PROVE  Counted(t, err, fresh) \in [dir : -1..1, n : 0..Confirm]
BY ServoAssumption DEF Counted, NoTrial, Direction, Capped, Errors

\* A chunk that reads the error leaves the displacement counted no more than measured.
LEMMA ReadKeeps ==
  ASSUME Counts, NEW err \in Errors, NEW fresh \in BOOLEAN, Read(err, fresh)
  PROVE  trial' \in [dir : -1..1, n : 0..Confirm] /\ seen' \in 0..Confirm /\ trial'.n <= seen'
<1>1. trial' \in [dir : -1..1, n : 0..Confirm]
  BY CountedType DEF Read, Counts
<1>2. seen' \in 0..Confirm /\ trial'.n <= seen'
  BY ServoAssumption DEF Read, Counts, Counted, Capped, NoTrial
<1> QED BY <1>1, <1>2

LEMMA StormedType ==
  ASSUME Counts
  PROVE  Stormed(storm) \in [n : 0..StormCount, age : 0..StormSpan + 1]
BY ServoAssumption DEF Counts, Stormed, Capped

LEMMA LateKeeps ==
  ASSUME Counts, NEW side, Bailout(side)
  PROVE  late' \in 0..StaleFor \union {Unset}
BY ServoAssumption DEF Counts, Bailout

\* The gate after a chunk: what it counts, and when it opens.
LEMMA GateKeeps ==
  ASSUME Counts, NEW playing \in BOOLEAN, NEW n \in 0..Window, NEW near \in BOOLEAN,
         NEW settled \in BOOLEAN, NEW anchor \in BOOLEAN, Gate(playing, n, near, settled, anchor)
  PROVE  /\ inBand' \in 0..Window /\ inBand' <= Capped(inBand, Window)
         /\ ~near => inBand' = 0
         /\ wait' \in 0..AnchorWait \union {Unset}
         /\ on' /\ ~playing => near /\ n = Window /\ Capped(inBand, Window) = Window
<1>1. Capped(inBand, Window) \in 0..Window /\ Capped(inBand, Window) >= inBand
  BY CappedType, ServoAssumption DEF Counts
<1>2. /\ inBand' \in 0..Window /\ inBand' <= Capped(inBand, Window)
      /\ ~near => inBand' = 0
  BY <1>1, ServoAssumption DEF Gate, Counts
<1>3. wait' \in 0..AnchorWait \union {Unset}
  <2>1. Waits \in 0..AnchorWait \union {Unset}
    BY ServoAssumption DEF Waits, Counts
  <2> QED BY <2>1 DEF Gate, Counts
<1>4. on' /\ ~playing => near /\ n = Window /\ Capped(inBand, Window) = Window
  BY Zenon DEF Gate
<1> QED BY <1>2, <1>3, <1>4

\* One chunk that is not discarded, in its three outcomes: what the later steps need.
Settled ==
  /\ Counts'
  /\ ~on /\ on' => streak' = Window
  /\ storm' # storm => seen' = Confirm

LEMMA ResyncLateKeeps ==
  ASSUME Counts, NEW err \in Errors, NEW side, NEW ok, Bailout(side),
         trial' \in [dir : -1..1, n : 0..Confirm], seen' \in 0..Confirm, trial'.n <= seen',
         Displaced(trial', err, ok), ResyncLate(err, side)
  PROVE  Settled
<1>1. PICK level \in Levels :
        /\ storm' = Stormed(storm)
        /\ on' = (on /\ ~Mutes(Stormed(storm), side, level))
        /\ filled' = Emptied(Capped(filled, Window)) /\ streak' = 0
        /\ UNCHANGED <<sink, inBand, wait>>
  BY DEF ResyncLate
<1>2. seen' = Confirm
  BY DEF Displaced
<1>3. ~(~on /\ on')
  BY <1>1, Zenon
<1>4. Counts'
  BY <1>1, StormedType, LateKeeps, ServoAssumption DEF Counts, Evidence, Emptied
<1> QED BY <1>2, <1>3, <1>4 DEF Settled

LEMMA ResyncEarlyKeeps ==
  ASSUME Counts, Switches, NEW err \in Errors, NEW side, NEW ok, NEW near \in BOOLEAN, Bailout(side),
         trial' \in [dir : -1..1, n : 0..Confirm], seen' \in 0..Confirm, trial'.n <= seen',
         Displaced(trial', err, ok), ResyncEarly(err, side, near)
  PROVE  Settled
<1>1. PICK level \in Levels :
        /\ storm' = Stormed(storm)
        /\ filled' = Emptied(Capped(filled, Window)) /\ streak' = 0
        /\ Gate(on /\ ~Mutes(Stormed(storm), side, level), Emptied(Capped(filled, Window)), near, TRUE, TRUE)
  BY DEF ResyncEarly
<1> DEFINE playing == on /\ ~Mutes(Stormed(storm), side, level)
<1>2. seen' = Confirm
  BY DEF Displaced
<1>3. Emptied(Capped(filled, Window)) = 0 /\ 0 \in 0..Window /\ 0 # Window
  BY ServoAssumption DEF Emptied
<1>4. playing \in BOOLEAN /\ TRUE \in BOOLEAN
  OBVIOUS
<1>5. /\ inBand' \in 0..Window
      /\ wait' \in 0..AnchorWait \union {Unset}
      /\ on' /\ ~playing => Emptied(Capped(filled, Window)) = Window
  <2> HIDE DEF playing
  <2>1. Gate(playing, 0, near, TRUE, TRUE)
    BY <1>1, <1>3 DEF playing
  <2> QED BY <1>3, <1>4, <2>1, GateKeeps
<1>6. ~(~on /\ on')
  BY <1>3, <1>5, Zenon
<1>7. Counts'
  BY <1>1, <1>3, <1>5, StormedType, LateKeeps, ServoAssumption DEF Counts, Evidence
<1> QED BY <1>2, <1>6, <1>7 DEF Settled

LEMMA PlayKeeps ==
  ASSUME Counts, Switches, NEW side, NEW near \in BOOLEAN, Bailout(side),
         trial' \in [dir : -1..1, n : 0..Confirm], seen' \in 0..Confirm, trial'.n <= seen',
         Play(near)
  PROVE  Settled
<1> DEFINE n == Capped(filled, Window)
<1>1. PICK settled \in BOOLEAN, anchor \in BOOLEAN :
        /\ filled' = n
        /\ streak' = IF near THEN Capped(streak, Window) ELSE 0
        /\ Gate(on, n, near, settled, anchor)
        /\ UNCHANGED storm
  BY Zenon DEF Play, SettledFor
<1>2. /\ n \in 0..Window /\ Capped(streak, Window) \in 0..Window
      /\ Capped(inBand, Window) \in 0..Window
  BY CappedType, ServoAssumption DEF Counts
<1>3. Capped(streak, Window) >= Capped(inBand, Window) \/ Capped(streak, Window) >= n
  BY CappedGrows, ServoAssumption DEF Counts, Evidence
<1>4. on \in BOOLEAN
  BY DEF Switches
<1>5. /\ inBand' \in 0..Window /\ inBand' <= Capped(inBand, Window)
      /\ ~near => inBand' = 0
      /\ wait' \in 0..AnchorWait \union {Unset}
      /\ on' /\ ~on => near /\ n = Window /\ Capped(inBand, Window) = Window
  <2> HIDE DEF n
  <2> QED BY <1>1, <1>2, <1>4, GateKeeps
<1>6. ~on /\ on' => streak' = Window
  <2> HIDE DEF n
  <2>1. near /\ n = Window /\ Capped(inBand, Window) = Window => streak' = Window
    BY <1>1, <1>2, <1>3, ServoAssumption
  <2> QED BY <1>5, <2>1, Zenon
<1>7. Evidence'
  <2> HIDE DEF n
  <2>1. CASE near
    BY <1>1, <1>2, <1>3, <1>5, <2>1, ServoAssumption DEF Evidence
  <2>2. CASE ~near
    BY <1>1, <1>5, <2>2 DEF Evidence
  <2> QED BY <2>1, <2>2
<1>8. Counts'
  <2> HIDE DEF n
  <2> QED BY <1>1, <1>2, <1>5, <1>7, LateKeeps, ServoAssumption DEF Counts
<1> QED BY <1>1, <1>6, <1>8 DEF Settled

LEMMA JudgeKeeps ==
  ASSUME Counts, Switches, Judge
  PROVE  Settled
<1>1. PICK err \in Errors, side \in Sides, tags, fresh, ok \in BOOLEAN :
        /\ Bailout(side) /\ Read(err, fresh)
        /\ IF Displaced(trial', err, ok)
           THEN ResyncLate(err, side) \/ \E near \in NearFor(err, tags) : ResyncEarly(err, side, near)
           ELSE \E near \in NearFor(err, tags) : Play(near)
  BY DEF Judge
<1>2. trial' \in [dir : -1..1, n : 0..Confirm] /\ seen' \in 0..Confirm /\ trial'.n <= seen'
  BY <1>1, ReadKeeps
<1>3. NearFor(err, tags) \subseteq BOOLEAN
  BY Zenon DEF NearFor
<1>4. CASE Displaced(trial', err, ok) /\ ResyncLate(err, side)
  BY <1>1, <1>2, <1>4, ResyncLateKeeps
<1>5. ASSUME Displaced(trial', err, ok), NEW near \in NearFor(err, tags), ResyncEarly(err, side, near)
      PROVE  Settled
  BY <1>1, <1>2, <1>3, <1>5, ResyncEarlyKeeps
<1>6. ASSUME NEW near \in NearFor(err, tags), Play(near)
      PROVE  Settled
  BY <1>1, <1>2, <1>3, <1>6, PlayKeeps
<1> QED BY <1>1, <1>4, <1>5, <1>6

LEMMA SinkRecord ==
  ASSUME NEW v \in BOOLEAN, NEW s \in BOOLEAN, NEW f \in BOOLEAN
  PROVE  [valid |-> v, starved |-> s, fed |-> f] \in [valid : BOOLEAN, starved : BOOLEAN, fed : BOOLEAN]
OBVIOUS

LEMMA SwitchesKeep ==
  ASSUME Switches, [ServoNext]_servoVars
  PROVE  Switches'
<1>1. CASE Judge
  <2>1. PICK err \in Errors, side \in Sides, tags, fresh, ok \in BOOLEAN :
          /\ Bailout(side)
          /\ \/ ResyncLate(err, side)
             \/ \E near \in NearFor(err, tags) : ResyncEarly(err, side, near) \/ Play(near)
    BY <1>1 DEF Judge
  <2>2. reconnect' \in BOOLEAN
    BY <2>1, Zenon DEF Bailout
  <2>3. CASE ResyncLate(err, side)
    BY <2>2, <2>3, Zenon DEF ResyncLate, Switches
  <2>4. ASSUME NEW near \in NearFor(err, tags), ResyncEarly(err, side, near)
        PROVE  Switches'
    <3>1. on' \in BOOLEAN
      BY <2>4, Zenon DEF ResyncEarly, Gate, Switches
    <3>2. sink' = [sink EXCEPT !.fed = TRUE]
      BY <2>4, Zenon DEF ResyncEarly
    <3> QED BY <2>2, <3>1, <3>2 DEF Switches
  <2>5. ASSUME NEW near \in NearFor(err, tags), Play(near)
        PROVE  Switches'
    <3>1. on' \in BOOLEAN
      BY <2>5, Zenon DEF Play, Gate, Switches
    <3>2. sink' = [sink EXCEPT !.fed = TRUE]
      BY <2>5, Zenon DEF Play
    <3> QED BY <2>2, <3>1, <3>2 DEF Switches
  <2> QED BY <2>1, <2>3, <2>4, <2>5
<1>2. CASE Discard \/ PushFirst
  <2>1. on' \in BOOLEAN /\ reconnect' = reconnect
    BY <1>2, Zenon DEF Discard, PushFirst, Seed
  <2>2. \E v, f \in BOOLEAN : sink' = [valid |-> v, starved |-> FALSE, fed |-> f]
    <3>1. CASE Discard
      <4> DEFINE v == Valid
                 f == sink.fed /\ ~sink.starved
      <4>1. v \in BOOLEAN /\ f \in BOOLEAN
        BY Zenon DEF Valid
      <4>2. sink' = [valid |-> v, starved |-> FALSE, fed |-> f]
        BY <3>1, Zenon DEF Discard
      <4> HIDE DEF v, f
      <4> QED BY <4>1, <4>2, Zenon
    <3>2. CASE PushFirst
      BY <3>2, Zenon DEF PushFirst
    <3> QED BY <1>2, <3>1, <3>2
  <2>3. sink' \in [valid : BOOLEAN, starved : BOOLEAN, fed : BOOLEAN]
    <3>1. PICK v, f \in BOOLEAN : sink' = [valid |-> v, starved |-> FALSE, fed |-> f]
      BY <2>2
    <3>2. FALSE \in BOOLEAN
      OBVIOUS
    <3> QED BY <3>1, <3>2, SinkRecord, Zenon
  <2> QED BY <2>1, <2>3 DEF Switches
<1>3. CASE Heard \/ Break \/ Reconnect \/ Elapse \/ Promise \/ UNCHANGED servoVars
  BY <1>3 DEF Heard, Break, Drain, Activate, Reconnect, Elapse, Promise, servoVars, Switches
<1> QED BY <1>1, <1>2, <1>3 DEF ServoNext, Chunk

\* The steps that are not a judged chunk open no gate and count no resync.
LEMMA OthersKeep ==
  ASSUME Counts, Switches,
         Discard \/ PushFirst \/ Heard \/ Break \/ Reconnect \/ Elapse \/ Promise \/ UNCHANGED servoVars
  PROVE  /\ Counts'
         /\ ~(~on /\ on')
         /\ storm'.n = storm.n /\ storm'.age >= storm.age
<1>1. CASE Discard \/ PushFirst
  <2>1. /\ filled' \in {0, filled} /\ streak' \in {0, streak}
        /\ streak' = 0 => filled' = 0 \/ streak' = streak
        /\ streak' # streak => filled' = 0
        /\ UNCHANGED <<inBand, wait, trial, storm, late, seen>>
    BY <1>1 DEF Discard, PushFirst, Seed, Emptied
  <2>2. ~(~on /\ on')
    BY <1>1, Zenon DEF Discard, PushFirst, Seed
  <2>3. (streak' = 0 /\ filled' = 0) \/ (streak' = streak /\ filled' = filled)
    BY <1>1 DEF Discard, PushFirst, Seed, Emptied
  <2> QED BY <2>1, <2>2, <2>3, ServoAssumption DEF Counts, Evidence
<1>2. CASE Heard \/ Break \/ Reconnect \/ Promise \/ UNCHANGED servoVars
  <2>1. UNCHANGED <<on, filled, inBand, wait, trial, storm, late, streak, seen>>
    BY <1>2, Zenon DEF Heard, Break, Reconnect, Promise, servoVars
  <2>2. Counts'
    BY <2>1, Zenon DEF Counts, Evidence
  <2>3. ~(~on /\ on')
    BY <2>1, Zenon
  <2> QED BY <2>1, <2>2, <2>3 DEF Counts
<1>3. CASE Elapse
  <2>1. Capped(storm.age, StormSpan + 1) \in 0..StormSpan + 1 /\ Capped(storm.age, StormSpan + 1) >= storm.age
    BY CappedType, ServoAssumption DEF Counts
  <2>2. /\ Older(wait, AnchorWait) \in 0..AnchorWait \union {Unset}
        /\ Older(late, StaleFor) \in 0..StaleFor \union {Unset}
    BY ServoAssumption DEF Counts, Older, Capped
  <2>3. storm' = [storm EXCEPT !.age = Capped(storm.age, StormSpan + 1)]
    BY <1>3 DEF Elapse
  <2> QED BY <1>3, <2>1, <2>2, <2>3 DEF Elapse, Counts, Evidence
<1> QED BY <1>1, <1>2, <1>3

\* player_task_: sound comes back only over a whole window of chunks in band since the
\* audio was last moved, and what cannot be undone is done on a measurement repeated
\* Confirm times, for every length of the window and every limit of time.
THEOREM ServoOnFreshEvidence == Spec => NothingOnStaleEvidence
<1> DEFINE Inv == Counts /\ Switches
<1>1. Init => Inv
  <2>1. ServoInit => Switches
    BY SinkRecord, Zenon DEF ServoInit, Switches
  <2> QED BY <2>1, CountsBegin DEF Init
<1>2. ASSUME Inv, [Next]_vars
      PROVE  /\ Inv'
             /\ [~on /\ on' => streak' = Window]_servoVars
             /\ [storm'.n # storm.n \/ storm'.age < storm.age => seen' = Confirm]_servoVars
  <2>1. [ServoNext]_servoVars
    BY <1>2, ServoSteps
  <2>2. Switches'
    BY <1>2, <2>1, SwitchesKeep
  <2>3. CASE Judge
    <3>1. Settled
      BY <1>2, <2>3, JudgeKeeps
    <3>2. storm'.n # storm.n \/ storm'.age < storm.age => storm' # storm
      BY <1>2 DEF Counts
    <3> QED BY <2>2, <3>1, <3>2, Zenon DEF Settled
  <2>4. CASE ~Judge
    <3>1. /\ Counts'
          /\ ~(~on /\ on')
          /\ storm'.n = storm.n /\ storm'.age >= storm.age
      BY <1>2, <2>1, <2>4, OthersKeep DEF ServoNext, Chunk
    <3>2. ~(storm'.n # storm.n \/ storm'.age < storm.age)
      BY <1>2, <3>1 DEF Counts
    <3> QED BY <2>2, <3>1, <3>2, Zenon
  <2> QED BY <2>3, <2>4
<1>3. Inv => (part = "servo" => ServoTypeOK)
  BY DEF Counts, Switches, ServoTypeOK
<1> QED BY <1>1, <1>2, <1>3, PTL DEF Spec, NothingOnStaleEvidence, UnmuteIsEarned, ResyncIsConfirmed

------------------------------------------------------------------------------
\* The position: a flight, and the books kept of it.
Flights == [on : BOOLEAN, id : 0..Corrections, age : 0..Oldest]

LEMMA LargestIs ==
  ASSUME NEW S \in {Settles, Depths}
  PROVE  Largest(S) \in S /\ Largest(S) \in Nat /\ \A t \in S : t <= Largest(S)
BY PositionAssumption DEF Largest

LEMMA OldestType == Oldest \in Nat /\ Furthest \in Nat
BY LargestIs, PositionAssumption DEF Oldest, Furthest, MaxInFlight

LEMMA AgedType ==
  ASSUME NEW f \in Flights
  PROVE  Aged(f) \in Flights /\ Aged(f).id = f.id /\ Aged(f).on = f.on
<1> DEFINE age == IF ~f.on \/ f.age = Oldest THEN f.age ELSE f.age + 1
<1>1. Aged(f) = [f EXCEPT !.age = age]
  BY DEF Aged
<1>2. age \in 0..Oldest
  BY OldestType DEF Flights
<1> HIDE DEF age
<1> QED BY <1>1, <1>2 DEF Flights

LEMMA EngineKeeps ==
  ASSUME NEW f \in Flights, NEW measured, NEW settle
  PROVE  LET e == Engine(f, measured, settle)
         IN  e \in Flights /\ e.id = f.id /\ (e.on => f.on)
<1> DEFINE a == Aged(f)
<1>1. a \in Flights /\ a.id = f.id /\ a.on = f.on
  BY AgedType
<1>2. [a EXCEPT !.on = FALSE] \in Flights /\ [a EXCEPT !.on = FALSE].id = f.id /\ ~[a EXCEPT !.on = FALSE].on
  <2> HIDE DEF a
  <2> QED BY <1>1 DEF Flights
<1>3. Engine(f, measured, settle) \in {a, [a EXCEPT !.on = FALSE]}
  BY Zenon DEF Engine, Expired
<1> HIDE DEF a
<1> QED BY <1>1, <1>2, <1>3

\* The landing that is waited for is no nearer than what is still to be played before
\* it, and what is in flight has not been credited.
Awaited == awaited.id # 0 => awaited.id \in DOMAIN ahead /\ ahead[awaited.id] <= awaited.left
Uncredited == flight.on => flight.id \in 1..issued /\ credited[flight.id] = 0

Books ==
  /\ issued \in 0..Corrections /\ hold \in 0..Largest(Settles)
  /\ DOMAIN ahead \subseteq 1..issued /\ ahead \in [DOMAIN ahead -> Nat]
  /\ awaited \in [id : 0..Corrections, left : 0..Furthest]
  /\ credited \in [1..Corrections -> Nat]
  /\ Awaited
  /\ CreditIsEarned

Landings == flight \in Flights /\ Uncredited

LEMMA PositionBegins == PositionInit => Books /\ Landings
<1> SUFFICES ASSUME PositionInit PROVE Books /\ Landings
  OBVIOUS
<1>1. Books
  BY PositionAssumption, LargestIs, OldestType DEF PositionInit, Books, Awaited, CreditIsEarned
<1>2. Landings
  BY PositionAssumption, OldestType DEF PositionInit, Landings, Uncredited, Flights
<1> QED BY <1>1, <1>2

LEMMA HoldKeeps ==
  ASSUME Books, NEW settle \in Settles, (Issue(settle) /\ issued < Corrections) \/ NoIssue
  PROVE  hold' \in 0..Largest(Settles) /\ issued' \in 0..Corrections /\ issued' \in {issued, issued + 1}
BY LargestIs, PositionAssumption DEF Books, Issue, NoIssue, Less

LEMMA PlayedIs ==
  ASSUME Books, NEW moving
  PROVE  /\ DOMAIN Played(moving) = DOMAIN ahead
         /\ \A id \in DOMAIN ahead : /\ Played(moving)[id] = (IF moving THEN Less(ahead[id]) ELSE ahead[id])
                                     /\ Played(moving)[id] \in Nat /\ Played(moving)[id] <= ahead[id]
BY DEF Books, Played, Less

\* What is launched is a correction of its own, that nobody awaits.
LEMMA LaunchedType ==
  ASSUME Books, issued < Corrections
  PROVE  Launched \in Flights /\ Launched.id = issued + 1 /\ credited[issued + 1] = 0
<1>1. Launched \in Flights /\ Launched.id = issued + 1
  BY OldestType, PositionAssumption DEF Launched, Flights, Books
<1>2. issued + 1 \in 1..Corrections /\ issued + 1 \notin DOMAIN ahead
  BY PositionAssumption DEF Books
<1>3. credited[issued + 1] = 0
  BY <1>2, PositionAssumption DEF Books, CreditIsEarned
<1> QED BY <1>1, <1>3

\* A landing is credited once, to the correction that landed.
LEMMA ConfirmedKeeps ==
  ASSUME Books, NEW f \in Flights, Confirmed(f),
         f.on => credited[f.id] = 0
  PROVE  /\ credited' \in [1..Corrections -> Nat]
         /\ flight' \in Flights /\ flight'.id = f.id
         /\ flight'.on => f.on /\ credited'[f.id] = 0
         /\ \/ credited' = credited
            \/ /\ f.id = awaited.id /\ awaited.id # 0 /\ awaited.left = 0
               /\ credited' = [credited EXCEPT ![awaited.id] = 1]
<1>1. CASE awaited.id # 0 /\ awaited.left = 0 /\ HasLanded(f, awaited.id)
  <2>1. f.on /\ f.id = awaited.id
    BY <1>1, Zenon DEF HasLanded
  <2>2. credited' = [credited EXCEPT ![f.id] = @ + 1] /\ flight' = [f EXCEPT !.on = FALSE]
    BY <1>1, Zenon DEF Confirmed
  <2>3. awaited.id \in 1..Corrections
    BY <1>1 DEF Books
  <2>a. credited[awaited.id] = 0
    BY <2>1, Zenon
  <2>b. credited' = [credited EXCEPT ![awaited.id] = credited[awaited.id] + 1]
    BY <2>1, <2>2, Zenon
  <2>4. credited' = [credited EXCEPT ![awaited.id] = 1]
    BY <2>a, <2>b, <2>3
  <2>5. flight' \in Flights /\ flight'.id = f.id /\ ~flight'.on
    BY <2>2 DEF Flights
  <2> QED BY <1>1, <2>1, <2>3, <2>4, <2>5 DEF Books
<1>2. CASE ~(awaited.id # 0 /\ awaited.left = 0 /\ HasLanded(f, awaited.id))
  <2>1. credited' = credited /\ flight' = f
    BY <1>2, Zenon DEF Confirmed
  <2> QED BY <2>1 DEF Books
<1> QED BY <1>1, <1>2

LEMMA RebaselineKeeps ==
  ASSUME Books, Landings, Rebaseline
  PROVE  (Books /\ Landings)'
<1>1. Books'
  <2>1. PICK n \in awaited.left..Furthest : awaited' = [awaited EXCEPT !.left = n]
    BY DEF Rebaseline
  <2>2. ahead' = [id \in DOMAIN ahead |-> 0] /\ UNCHANGED <<flight, hold, issued, credited>>
    BY DEF Rebaseline
  <2>3. /\ DOMAIN ahead' = DOMAIN ahead /\ ahead' \in [DOMAIN ahead' -> Nat]
        /\ \A id \in DOMAIN ahead : ahead'[id] = 0
    BY <2>2
  <2>4. awaited' \in [id : 0..Corrections, left : 0..Furthest] /\ awaited'.id = awaited.id
    BY <2>1, OldestType DEF Books
  <2>5. Awaited'
    BY <2>3, <2>4 DEF Awaited, Books
  <2> QED BY <2>2, <2>3, <2>4, <2>5 DEF Books, CreditIsEarned
<1>2. Landings'
  BY DEF Rebaseline, Landings, Uncredited
<1> QED BY <1>1, <1>2

LEMMA DropKeeps ==
  ASSUME Books, Landings, NEW measured, NEW settle \in Settles, NEW moving, DropChunk(measured, settle, moving)
  PROVE  (Books /\ Landings)'
<1> DEFINE f == Engine(flight, measured, settle)
<1>1. f \in Flights /\ f.id = flight.id /\ (f.on => flight.on)
  BY EngineKeeps DEF Landings
<1>2. /\ \/ issued < Corrections /\ Issue(settle) /\ flight' = Launched
         \/ NoIssue /\ flight' = f
      /\ ahead' = Played(moving)
      /\ awaited' = [awaited EXCEPT !.left = IF moving THEN Less(awaited.left) ELSE awaited.left]
      /\ UNCHANGED credited
  BY Zenon DEF DropChunk, MayIssue
<1> HIDE DEF f
<1>3. hold' \in 0..Largest(Settles) /\ issued' \in 0..Corrections /\ issued' \in {issued, issued + 1}
  BY <1>2, HoldKeeps
<1>4. Books'
  <2>1. DOMAIN ahead' \subseteq 1..issued' /\ ahead' \in [DOMAIN ahead' -> Nat]
    <3>1. ahead' = [i \in DOMAIN ahead |-> IF moving THEN Less(ahead[i]) ELSE ahead[i]]
      BY <1>2 DEF Played
    <3> QED BY <1>2, <1>3, <3>1, PlayedIs DEF Books
  <2>2. awaited' \in [id : 0..Corrections, left : 0..Furthest] /\ Awaited'
    BY <1>2, PlayedIs, OldestType DEF Books, Awaited, Less
  <2>3. CreditIsEarned'
    BY <1>2, PlayedIs DEF Books, CreditIsEarned, Less
  <2> QED BY <1>2, <1>3, <2>1, <2>2, <2>3 DEF Books
<1>5. Landings'
  <2>1. CASE issued < Corrections /\ Issue(settle) /\ flight' = Launched
    BY <1>2, <2>1, LaunchedType DEF Landings, Uncredited, Issue, Books
  <2>2. CASE NoIssue /\ flight' = f
    BY <1>1, <1>2, <2>2 DEF Landings, Uncredited, NoIssue
  <2> QED BY <1>2, <2>1, <2>2
<1> QED BY <1>4, <1>5

\* A landing is confirmed before a new correction is applied.
LEMMA CreditKeeps ==
  ASSUME Books, NEW f \in Flights, Confirmed(f), f.on => credited[f.id] = 0
  PROVE  \A id \in 1..Corrections :
           credited'[id] > 0 => credited'[id] = 1 /\ id \in DOMAIN ahead /\ ahead[id] = 0
<1>1. CASE credited' = credited
  BY <1>1 DEF Books, CreditIsEarned
<1>2. CASE /\ awaited.id # 0 /\ awaited.left = 0
           /\ credited' = [credited EXCEPT ![awaited.id] = 1]
  <2>1. awaited.id \in DOMAIN ahead /\ ahead[awaited.id] = 0
    BY <1>2 DEF Books, Awaited
  <2> QED BY <1>2, <2>1 DEF Books, CreditIsEarned
<1> QED BY <1>1, <1>2, ConfirmedKeeps

LEMMA PushIssues ==
  ASSUME Books, Landings, NEW settle \in Settles, issued < Corrections, Issue(settle), Confirmed(Launched),
         NEW d \in Depths, NEW more \in 0..Margin,
         awaited' = [id |-> issued', left |-> d + Margin], ahead' = Delivered(issued', d + more)
  PROVE  (Books /\ Landings)'
<1>1. Launched \in Flights /\ Launched.id = issued + 1 /\ credited[issued + 1] = 0
  BY LaunchedType
<1>2. hold' \in 0..Largest(Settles) /\ issued' = issued + 1 /\ issued' \in 1..Corrections
  BY HoldKeeps, PositionAssumption DEF Issue, Books
<1>3. /\ credited' \in [1..Corrections -> Nat]
      /\ flight' \in Flights /\ flight'.id = issued + 1
      /\ flight'.on => credited'[issued + 1] = 0
  BY <1>1, ConfirmedKeeps
<1>4. /\ DOMAIN ahead' = DOMAIN ahead \union {issued'}
      /\ \A i \in DOMAIN ahead : ahead'[i] = ahead[i]
      /\ ahead'[issued'] = d + more
  BY <1>2 DEF Delivered, Books
<1>5. d \in Nat /\ d <= Largest(Depths) /\ more \in Nat /\ more <= Margin /\ Margin \in Nat
  BY LargestIs, PositionAssumption
<1>6. ahead' \in [DOMAIN ahead' -> Nat]
  <2>1. ahead' = [i \in DOMAIN ahead \union {issued'} |-> IF i = issued' THEN d + more ELSE ahead[i]]
    BY DEF Delivered
  <2>2. d + more \in Nat
    BY <1>5
  <2> QED BY <1>5, <2>1, <2>2 DEF Books
<1>7. awaited' \in [id : 0..Corrections, left : 0..Furthest] /\ Awaited'
  <2>1. d + Margin \in 0..Furthest
    BY <1>5, LargestIs DEF Furthest
  <2> QED BY <1>2, <1>4, <1>5, <2>1 DEF Awaited
<1>8. CreditIsEarned'
  <2>1. \A id \in 1..Corrections :
          credited'[id] > 0 => credited'[id] = 1 /\ id \in DOMAIN ahead /\ ahead[id] = 0
    BY <1>1, CreditKeeps
  <2> QED BY <1>4, <2>1 DEF CreditIsEarned
<1>9. Books'
  BY <1>2, <1>3, <1>4, <1>6, <1>7, <1>8 DEF Books
<1> QED BY <1>2, <1>3, <1>9 DEF Landings, Uncredited

LEMMA PushGoesOn ==
  ASSUME Books, Landings, NEW settle \in Settles, NEW moving,
         NEW f \in Flights, f.id = flight.id, f.on => flight.on, NoIssue, Confirmed(f),
         awaited' = IF awaited.left = 0 THEN [id |-> 0, left |-> 0]
                    ELSE [awaited EXCEPT !.left = IF moving THEN awaited.left - 1 ELSE awaited.left],
         ahead' = Played(moving)
  PROVE  (Books /\ Landings)'
<1>1. hold' \in 0..Largest(Settles) /\ issued' = issued
  BY HoldKeeps DEF NoIssue
<1>2. f.on => credited[f.id] = 0 /\ f.id \in 1..issued
  BY DEF Landings, Uncredited
<1>3. /\ credited' \in [1..Corrections -> Nat]
      /\ flight' \in Flights /\ flight'.id = f.id
      /\ flight'.on => f.on /\ credited'[f.id] = 0
  BY <1>2, ConfirmedKeeps
<1>4. ahead' = [i \in DOMAIN ahead |-> IF moving THEN Less(ahead[i]) ELSE ahead[i]]
  BY DEF Played
<1>5. DOMAIN ahead' \subseteq 1..issued' /\ ahead' \in [DOMAIN ahead' -> Nat]
  BY <1>1, <1>4, PlayedIs DEF Books
<1>6. awaited' \in [id : 0..Corrections, left : 0..Furthest]
  BY OldestType, PositionAssumption DEF Books
<1>7. Awaited'
  <2>1. CASE awaited.left = 0
    BY <2>1 DEF Awaited
  <2>2. CASE awaited.left # 0
    BY <1>4, <2>2 DEF Awaited, Books, Less
  <2> QED BY <2>1, <2>2
<1>8. CreditIsEarned'
  <2>1. \A id \in 1..Corrections :
          credited'[id] > 0 => credited'[id] = 1 /\ id \in DOMAIN ahead /\ ahead[id] = 0
    BY <1>2, CreditKeeps
  <2> QED BY <1>4, <2>1 DEF CreditIsEarned, Less
<1>9. Books'
  BY <1>1, <1>3, <1>5, <1>6, <1>7, <1>8 DEF Books
<1> QED BY <1>1, <1>2, <1>3, <1>9 DEF Landings, Uncredited

\* confirm_position_landed: whatever is late, dropped with its chunk or put off by an
\* empty sink, a correction is credited at most once and only when it was delivered and
\* all that was ahead of it has been played; for every depth of the sink.
THEOREM PositionCreditIsEarned == Spec => [](part = "position" => PositionTypeOK /\ CreditIsEarned)
<1>1. Init => Books /\ Landings
  BY PositionBegins DEF Init
<1>2. Books /\ Landings /\ [Next]_vars => (Books /\ Landings)'
  <2> SUFFICES ASSUME Books, Landings, [Next]_vars
               PROVE  (Books /\ Landings)'
    OBVIOUS
  <2>1. CASE Rebaseline
    BY <2>1, RebaselineKeeps
  <2>2. ASSUME NEW measured \in BOOLEAN, NEW settle \in Settles, NEW moving \in BOOLEAN,
               DropChunk(measured, settle, moving)
        PROVE  (Books /\ Landings)'
    BY <2>2, DropKeeps
  <2>3. ASSUME NEW measured \in BOOLEAN, NEW settle \in Settles, NEW moving \in BOOLEAN,
               PushChunk(measured, settle, moving)
        PROVE  (Books /\ Landings)'
    <3> DEFINE f == Engine(flight, measured, settle)
    <3>1. f \in Flights /\ f.id = flight.id /\ (f.on => flight.on)
      BY EngineKeeps DEF Landings
    <3>2. CASE /\ MayIssue(f, measured) /\ Issue(settle) /\ Confirmed(Launched)
               /\ \E d \in Depths : \E more \in 0..Margin :
                    /\ awaited' = [id |-> issued', left |-> d + Margin]
                    /\ ahead' = Delivered(issued', d + more)
      <4>1. issued < Corrections
        BY <3>2 DEF MayIssue
      <4> QED BY <3>2, <4>1, PushIssues
    <3>3. CASE /\ NoIssue /\ Confirmed(f)
               /\ awaited' = IF awaited.left = 0 THEN [id |-> 0, left |-> 0]
                             ELSE [awaited EXCEPT !.left = IF moving THEN @ - 1 ELSE @]
               /\ ahead' = Played(moving)
      <4> HIDE DEF f
      <4> QED BY <3>1, <3>3, PushGoesOn
    <3> QED BY <2>3, <3>2, <3>3, Zenon DEF PushChunk
  <2>4. CASE UNCHANGED positionVars
    <3>1. Books'
      BY <2>4 DEF positionVars, Books, Awaited, CreditIsEarned
    <3>2. Landings'
      BY <2>4 DEF positionVars, Landings, Uncredited
    <3> QED BY <3>1, <3>2
  <2> QED BY <2>1, <2>2, <2>3, <2>4, PositionSteps DEF PositionNext, Measure
<1>3. Books /\ Landings => PositionTypeOK /\ CreditIsEarned
  BY DEF Books, Landings, PositionTypeOK, Flights
<1> QED BY <1>1, <1>2, <1>3, PTL DEF Spec

------------------------------------------------------------------------------
\* The control session. What lines that have not been read will have said: the last of a
\* set of lines that say it decides, and if there is none, what was heard before them.
LastIn(w, said, true) ==
  \E i \in 1..Len(w) :
    w[i] \in said /\ w[i] \in true /\ \A j \in 1..Len(w) : j > i => w[j] \notin said

NoneIn(w, said) == \A i \in 1..Len(w) : w[i] \notin said

LEMMA AppendPlaces ==
  ASSUME NEW S, NEW w \in Seq(S), NEW x \in S
  PROVE  /\ Append(w, x) \in Seq(S) /\ Len(Append(w, x)) = Len(w) + 1 /\ Len(w) \in Nat
         /\ Append(w, x)[Len(w) + 1] = x
         /\ \A j \in 1..Len(w) : Append(w, x)[j] = w[j] /\ j \in 1..(Len(w) + 1)
<1>1. Append(w, x) \in Seq(S) /\ Len(w) \in Nat
  OBVIOUS
<1>2. Len(Append(w, x)) = Len(w) + 1
  OBVIOUS
<1>3. Append(w, x)[Len(w) + 1] = x
  OBVIOUS
<1>4. \A j \in 1..Len(w) : Append(w, x)[j] = w[j] /\ j \in 1..(Len(w) + 1)
  OBVIOUS
<1> QED BY <1>1, <1>2, <1>3, <1>4

LEMMA LastAppended ==
  ASSUME NEW S, NEW w \in Seq(S), NEW x \in S, NEW said, NEW true, x \in said, x \in true
  PROVE  LastIn(Append(w, x), said, true)
<1>1. Len(w) + 1 \in 1..(Len(w) + 1) /\ \A j \in 1..(Len(w) + 1) : ~(j > Len(w) + 1)
  BY AppendPlaces
<1> QED BY <1>1, AppendPlaces DEF LastIn

LEMMA LastStays ==
  ASSUME NEW S, NEW w \in Seq(S), NEW x \in S, NEW said, NEW true, x \notin said,
         LastIn(w, said, true)
  PROVE  LastIn(Append(w, x), said, true)
<1>1. PICK i \in 1..Len(w) :
        w[i] \in said /\ w[i] \in true /\ \A j \in 1..Len(w) : j > i => w[j] \notin said
  BY DEF LastIn
<1>2. \A j \in 1..(Len(w) + 1) : j > i => Append(w, x)[j] \notin said
  BY <1>1, AppendPlaces
<1>3. i \in 1..(Len(w) + 1) /\ Append(w, x)[i] = w[i]
  BY AppendPlaces
<1> QED BY <1>1, <1>2, <1>3, AppendPlaces DEF LastIn

LEMMA NoneStays ==
  ASSUME NEW S, NEW w \in Seq(S), NEW x \in S, NEW said, x \notin said, NoneIn(w, said)
  PROVE  NoneIn(Append(w, x), said)
BY DEF NoneIn

LEMMA SomeStays ==
  ASSUME NEW S, NEW w \in Seq(S), NEW x \in S, NEW said, ~NoneIn(w, said) \/ x \in said
  PROVE  ~NoneIn(Append(w, x), said)
<1>1. Len(w) + 1 \in 1..(Len(w) + 1)
  BY AppendPlaces
<1> QED BY <1>1, AppendPlaces DEF NoneIn

LEMMA TailPlaces ==
  ASSUME NEW S, NEW w \in Seq(S), w # <<>>
  PROVE  /\ Tail(w) \in Seq(S) /\ Len(Tail(w)) = Len(w) - 1 /\ Head(w) = w[1] /\ Head(w) \in S
         /\ \A i \in 1..(Len(w) - 1) : Tail(w)[i] = w[i + 1] /\ i + 1 \in 1..Len(w)
         /\ Len(w) \in Nat /\ Len(w) > 0
OBVIOUS

\* Reading the first line either leaves the deciding one among the rest, or read it.
LEMMA LastRead ==
  ASSUME NEW S, NEW w \in Seq(S), w # <<>>, NEW said, NEW true, LastIn(w, said, true)
  PROVE  \/ LastIn(Tail(w), said, true)
         \/ Head(w) \in said /\ Head(w) \in true /\ NoneIn(Tail(w), said)
<1>1. PICK i \in 1..Len(w) :
        w[i] \in said /\ w[i] \in true /\ \A j \in 1..Len(w) : j > i => w[j] \notin said
  BY DEF LastIn
<1>2. CASE i = 1
  <2>1. \A j \in 1..(Len(w) - 1) : Tail(w)[j] \notin said
    BY <1>1, <1>2, TailPlaces
  <2> QED BY <1>1, <1>2, <2>1, TailPlaces DEF NoneIn
<1>3. CASE i # 1
  <2>1. PICK n \in 1..(Len(w) - 1) : n = i - 1
    BY <1>3, TailPlaces
  <2>2. n \in 1..Len(Tail(w)) /\ Tail(w)[n] = w[i]
    BY <2>1, TailPlaces
  <2>3. \A j \in 1..Len(Tail(w)) : j > n => Tail(w)[j] \notin said
    BY <1>1, <2>1, TailPlaces
  <2>4. LastIn(Tail(w), said, true)
    BY <1>1, <2>2, <2>3 DEF LastIn
  <2> QED BY <2>4
<1> QED BY <1>2, <1>3

LEMMA NoneRead ==
  ASSUME NEW S, NEW w \in Seq(S), w # <<>>, NEW said, NoneIn(w, said)
  PROVE  NoneIn(Tail(w), said) /\ Head(w) \notin said
<1>1. \A j \in 1..(Len(w) - 1) : Tail(w)[j] \notin said
  BY TailPlaces DEF NoneIn
<1>2. w[1] \notin said
  BY TailPlaces DEF NoneIn
<1> QED BY <1>1, <1>2, TailPlaces DEF NoneIn

LEMMA SomeRead ==
  ASSUME NEW S, NEW w \in Seq(S), w # <<>>, NEW said, ~NoneIn(w, said)
  PROVE  ~NoneIn(Tail(w), said) \/ Head(w) \in said
<1>1. PICK i \in 1..Len(w) : w[i] \in said
  BY DEF NoneIn
<1>2. CASE i = 1
  BY <1>1, <1>2, TailPlaces
<1>3. CASE i # 1
  <2>1. i - 1 \in 1..(Len(w) - 1) /\ Tail(w)[i - 1] = w[i]
    BY <1>3, TailPlaces
  <2> QED BY <1>1, <2>1, TailPlaces DEF NoneIn
<1> QED BY <1>2, <1>3

LEMMA LastIsSome ==
  ASSUME NEW w, NEW said, NEW more, NEW true, true \subseteq more, LastIn(w, said, true)
  PROVE  ~NoneIn(w, more)
BY DEF LastIn, NoneIn

LEMMA EmptySaysNothing ==
  ASSUME NEW said, NEW true
  PROVE  NoneIn(<<>>, said) /\ ~LastIn(<<>>, said, true)
BY DEF NoneIn, LastIn

\* The lines: those that say all, of those what is said of the stream of our group and of
\* its title.
Known == {st \in Standing : \A s \in Streams : st.title[s] = Unknown <=> s \in Silent}
Statuses == {Status(st) : st \in Known}
Plays == [kind : {"stream"}, id : Streams \ Silent, title : Titles]
WireLines == Statuses \union Plays \union {Oversized, Moved}

SayAll == Statuses \union {Oversized}
OfOurs(st) == {l \in Statuses : l.of.stream = st.stream}
SayTitle(st) == Statuses \union {l \in Plays : l.id = st.stream}
OurTitle(st) ==
  {l \in OfOurs(st) : l.of.title[st.stream] = st.title[st.stream]}
    \union {l \in Plays : l.id = st.stream /\ l.title = st.title[st.stream]}

TitleHeard ==
  \/ server.stream \in Silent
  \/ metadata.value = [stream |-> server.stream, title |-> server.title[server.stream]]

\* The session will ask again; or it lost the answer for its length; or what it has heard
\* and is about to hear is what the server stands at.
WillAsk == pending \/ asked \/ ~NoneIn(wire, {Moved})
AnswerLost ==
  \/ LastIn(wire, SayAll, {Oversized})
  \/ NoneIn(wire, SayAll) /\ missed
StreamTold ==
  \/ LastIn(wire, SayAll, OfOurs(server))
  \/ NoneIn(wire, SayAll) /\ streamId = server.stream
TitleTold ==
  \/ LastIn(wire, SayTitle(server), OurTitle(server))
  \/ NoneIn(wire, SayTitle(server)) /\ TitleHeard
Current == StreamTold /\ TitleTold

HearsInTheEnd == conn = "READY" => WillAsk \/ AnswerLost \/ Current

\* What the invariant says besides what is heard, so that a step proves both apart.
Sorts ==
  /\ CtlTypeOK /\ server \in Known /\ wire \in Seq(WireLines)
  /\ identity.value = streamId /\ ShowsWhatItHears
  /\ identity \in [value : Streams \union {Unknown}, dirty : BOOLEAN]
  /\ metadata \in [value : [stream : Streams, title : Titles] \union {Nothing}, dirty : BOOLEAN]

CtlInv == Sorts /\ HearsInTheEnd

LEMMA LineKinds ==
  /\ Moved \in WireLines /\ Oversized \in WireLines /\ Oversized \in SayAll /\ Moved \notin SayAll
  /\ \A l \in Plays : l.kind = "stream" /\ l \notin SayAll /\ l # Moved /\ l \in WireLines
  /\ \A st : Oversized \notin SayTitle(st) /\ Moved \notin SayTitle(st)
  /\ \A l \in Statuses : /\ l.kind = "status" /\ l.of \in Known /\ l # Oversized /\ l # Moved
                         /\ l \in SayAll /\ l \in WireLines
<1>1. \A l \in Statuses : l.kind = "status" /\ l.of \in Known
  BY DEF Statuses, Status
<1>2. \A l \in Plays : l.kind = "stream"
  BY DEF Plays
<1>3. Oversized.kind = "oversized" /\ Moved.kind = "moved"
  BY DEF Oversized, Moved
<1>4. Moved \in WireLines /\ Oversized \in WireLines /\ Oversized \in SayAll /\ Moved \notin SayAll
  BY <1>1, <1>3 DEF WireLines, SayAll
<1>5. \A l \in Plays : l \notin SayAll /\ l # Moved /\ l \in WireLines
  BY <1>1, <1>2, <1>3 DEF WireLines, SayAll
<1>6. \A st : Oversized \notin SayTitle(st) /\ Moved \notin SayTitle(st)
  BY <1>1, <1>2, <1>3 DEF SayTitle
<1>7. \A l \in Statuses : l # Oversized /\ l # Moved /\ l \in SayAll /\ l \in WireLines
  BY <1>1, <1>3 DEF WireLines, SayAll
<1> QED BY <1>1, <1>2, <1>4, <1>5, <1>6, <1>7

LEMMA CtlBegins == CtlInit => CtlInv
<1> SUFFICES ASSUME CtlInit PROVE CtlInv
  OBVIOUS
<1>1. CtlTypeOK
  <2>1. server \in Standing /\ Len(wire) <= Lines
    BY ControlAssumption DEF CtlInit
  <2> QED BY <2>1 DEF CtlInit, CtlTypeOK, Mailbox
<1>2. server \in Known /\ wire \in Seq(WireLines)
  BY DEF CtlInit, Known
<1>3. identity.value = streamId /\ ShowsWhatItHears
  BY DEF CtlInit, Mailbox, ShowsWhatItHears
<1>4. /\ identity \in [value : Streams \union {Unknown}, dirty : BOOLEAN]
      /\ metadata \in [value : [stream : Streams, title : Titles] \union {Nothing}, dirty : BOOLEAN]
  BY DEF CtlInit, Mailbox
<1>5. HearsInTheEnd
  BY DEF CtlInit, HearsInTheEnd
<1> QED BY <1>1, <1>2, <1>3, <1>4, <1>5 DEF CtlInv, Sorts

LEMMA StatusOfKnown == ASSUME NEW st \in Known PROVE Status(st) \in Statuses /\ Status(st).of = st
BY DEF Statuses, Status

LEMMA ServerStays ==
  ASSUME server \in Known
  PROVE  /\ \A s \in Streams : [server EXCEPT !.stream = s] \in Known
         /\ \A s \in Streams \ Silent, t \in Titles : [server EXCEPT !.title[s] = t] \in Known
         /\ \A s \in Streams \ Silent, t \in Titles :
               /\ [server EXCEPT !.title[s] = t].stream = server.stream
               /\ [server EXCEPT !.title[s] = t].title = [server.title EXCEPT ![s] = t]
<1>1. server \in [stream : Streams, title : [Streams -> Titles \union {Unknown}]]
  BY DEF Known, Standing
<1>2. ASSUME NEW s \in Streams PROVE [server EXCEPT !.stream = s] \in Known
  BY <1>1 DEF Known, Standing
<1>3. ASSUME NEW s \in Streams \ Silent, NEW t \in Titles
      PROVE  /\ [server EXCEPT !.title[s] = t] \in Known
             /\ [server EXCEPT !.title[s] = t].stream = server.stream
             /\ [server EXCEPT !.title[s] = t].title = [server.title EXCEPT ![s] = t]
  <2>1. [server EXCEPT !.title[s] = t] \in Standing
    BY <1>1 DEF Standing
  <2>2. [server EXCEPT !.title[s] = t].title = [server.title EXCEPT ![s] = t]
    BY <1>1
  <2>3. \A r \in Streams : [server.title EXCEPT ![s] = t][r] = Unknown <=> r \in Silent
    BY <1>1, ControlAssumption DEF Known
  <2> QED BY <1>1, <2>1, <2>2, <2>3 DEF Known
<1> QED BY <1>2, <1>3

\* What is under way is what was, and one line more.
LEMMA ServerChangesKeeps == ASSUME CtlInv, ServerChanges PROVE CtlInv'
<1> USE DEF CtlInv, Sorts
<1>1. /\ UNCHANGED <<up, identity, metadata, still, overtaken, netVars, mainVars>>
      /\ Len(wire) < Lines /\ server \in Known /\ wire \in Seq(WireLines)
  BY DEF ServerChanges
<1>2. CASE \E s \in Streams :
             /\ server' = [server EXCEPT !.stream = s]
             /\ \E l \in Notices(server') : Told(l)
  <2>1. server' \in Known
    BY <1>2, ServerStays
  <2>2. PICK l \in Notices(server') : Told(l)
    BY <1>2
  <2>3. l = Moved \/ l = Status(server')
    BY <2>2 DEF Notices
  <2>4. l \in WireLines
    BY <2>1, <2>3, StatusOfKnown, LineKinds
  <2>5. HearsInTheEnd'
    <3> SUFFICES ASSUME conn' = "READY" PROVE (WillAsk \/ AnswerLost \/ Current)'
      BY DEF HearsInTheEnd
    <3>1. wire' = Append(wire, l)
      BY <1>1, <2>2 DEF Told, netVars
    <3>2. CASE l = Moved
      BY <2>4, <3>1, <3>2, SomeStays DEF WillAsk
    <3>3. CASE l = Status(server')
      <4>1. l \in Statuses /\ l.of = server'
        BY <2>1, <3>3, StatusOfKnown
      <4>2. l \in SayAll /\ l \in OfOurs(server') /\ l \in SayTitle(server') /\ l \in OurTitle(server')
        BY <4>1 DEF SayAll, OfOurs, SayTitle, OurTitle
      <4>3. LastIn(wire', SayAll, OfOurs(server')) /\ LastIn(wire', SayTitle(server'), OurTitle(server'))
        BY <2>4, <3>1, <4>2, LastAppended
      <4> QED BY <4>3 DEF Current, StreamTold, TitleTold
    <3> QED BY <2>3, <3>2, <3>3
  <2>6. wire' \in Seq(WireLines) /\ (conn = "READY" => Len(wire') = Len(wire) + 1) /\ (conn # "READY" => wire' = wire)
    BY <1>1, <2>2, <2>4, AppendPlaces DEF Told
  <2>7. CtlTypeOK'
    BY <1>1, <2>1, <2>6, ControlAssumption DEF CtlTypeOK, netVars, mainVars, Known
  <2> QED BY <1>1, <2>1, <2>5, <2>6, <2>7 DEF netVars, mainVars, ShowsWhatItHears
<1>3. CASE \E s \in Streams \ Silent, t \in Titles :
             /\ server' = [server EXCEPT !.title[s] = t]
             /\ Told(Playing(s, server'))
  <2>1. PICK s \in Streams \ Silent, t \in Titles :
          server' = [server EXCEPT !.title[s] = t] /\ Told(Playing(s, server'))
    BY <1>3
  <2>2. /\ server' \in Known /\ server'.stream = server.stream
        /\ server'.title = [server.title EXCEPT ![s] = t]
    BY <2>1, ServerStays
  <2>3. server.title \in [Streams -> Titles \union {Unknown}] /\ server.stream \in Streams
    BY DEF Known, Standing
  <2>4. server'.title[s] = t /\ \A r \in Streams : r # s => server'.title[r] = server.title[r]
    BY <2>2, <2>3
  <2> DEFINE l == Playing(s, server')
  <2>5. l \in Plays /\ l.id = s /\ l.title = t
    BY <2>4 DEF Playing, Plays
  <2>6. l \in WireLines /\ l \notin SayAll
    BY <2>5, LineKinds
  <2>7. Told(l)
    BY <2>1
  <2> HIDE DEF l
  <2>8. HearsInTheEnd'
    <3> SUFFICES ASSUME conn' = "READY" PROVE (WillAsk \/ AnswerLost \/ Current)'
      BY DEF HearsInTheEnd
    <3>1. conn = "READY" /\ wire' = Append(wire, l) /\ missed' = missed /\ streamId' = streamId
      BY <1>1, <2>7 DEF Told, netVars
    <3>2. WillAsk \/ AnswerLost \/ Current
      BY <3>1 DEF HearsInTheEnd
    <3>3. CASE WillAsk
      BY <1>1, <2>6, <3>1, <3>3, SomeStays DEF WillAsk, netVars
    <3>4. CASE AnswerLost
      BY <2>6, <3>1, <3>4, LastStays, NoneStays DEF AnswerLost
    <3>5. CASE Current
      <4>1. OfOurs(server') = OfOurs(server)
        BY <2>2 DEF OfOurs
      <4>2. StreamTold'
        BY <2>2, <2>6, <3>1, <3>5, <4>1, LastStays, NoneStays DEF Current, StreamTold
      <4>3. CASE s = server.stream
        <5>1. l \in SayTitle(server') /\ l \in OurTitle(server')
          BY <2>2, <2>4, <2>5, <4>3 DEF SayTitle, OurTitle
        <5>2. LastIn(wire', SayTitle(server'), OurTitle(server'))
          BY <2>6, <3>1, <5>1, LastAppended
        <5> QED BY <4>2, <5>2 DEF Current, TitleTold
      <4>4. CASE s # server.stream
        <5>1. l \notin SayTitle(server)
          BY <2>5, <4>4, LineKinds DEF SayTitle
        <5>2. SayTitle(server') = SayTitle(server)
          BY <2>2 DEF SayTitle
        <5>3. OurTitle(server') = OurTitle(server)
          BY <2>2, <2>3, <2>4, <4>1, <4>4 DEF OurTitle
        <5>4. TitleHeard => TitleHeard'
          BY <1>1, <2>2, <2>3, <2>4, <4>4 DEF TitleHeard
        <5>5. TitleTold'
          BY <2>6, <3>1, <3>5, <5>1, <5>2, <5>3, <5>4, LastStays, NoneStays DEF Current, TitleTold
        <5> QED BY <4>2, <5>5 DEF Current
      <4> QED BY <4>3, <4>4
    <3> QED BY <3>2, <3>3, <3>4, <3>5
  <2>9. wire' \in Seq(WireLines) /\ (conn = "READY" => Len(wire') = Len(wire) + 1) /\ (conn # "READY" => wire' = wire)
    BY <1>1, <2>6, <2>7, AppendPlaces DEF Told
  <2>10. CtlTypeOK'
    BY <1>1, <2>2, <2>9, ControlAssumption DEF CtlTypeOK, netVars, mainVars, Known
  <2> QED BY <1>1, <2>2, <2>8, <2>9, <2>10 DEF netVars, mainVars, ShowsWhatItHears
<1> QED BY <1>2, <1>3 DEF ServerChanges

LEMMA AnswerKeeps == ASSUME CtlInv, Answer PROVE CtlInv'
<1> USE DEF CtlInv, Sorts
<1>1. /\ UNCHANGED <<server, up, conn, pending, recent, streamId, identity, metadata, still,
                     missed, overtaken, mainVars>>
      /\ asked /\ asked' = FALSE /\ Len(wire) < Lines /\ conn = "READY"
      /\ server \in Known /\ wire \in Seq(WireLines)
  BY DEF Answer, CtlTypeOK
<1>2. PICK l \in {Oversized, Status(server)} : wire' = Append(wire, l)
  BY DEF Answer
<1>3. Status(server) \in Statuses /\ Status(server).of = server
  BY <1>1, StatusOfKnown
<1>4. l \in WireLines
  BY <1>2, <1>3, LineKinds
<1>5. AnswerLost' \/ Current'
  <2>1. CASE l = Oversized
    BY <1>2, <1>4, <2>1, LineKinds, LastAppended DEF AnswerLost
  <2>2. CASE l = Status(server)
    <3>1. l \in SayAll /\ l \in OfOurs(server) /\ l \in SayTitle(server) /\ l \in OurTitle(server)
      BY <1>3, <2>2 DEF SayAll, OfOurs, SayTitle, OurTitle
    <3>2. LastIn(wire', SayAll, OfOurs(server)) /\ LastIn(wire', SayTitle(server), OurTitle(server))
      BY <1>2, <1>4, <3>1, LastAppended
    <3> QED BY <1>1, <3>2 DEF Current, StreamTold, TitleTold
  <2> QED BY <2>1, <2>2
<1>6. wire' \in Seq(WireLines) /\ Len(wire') = Len(wire) + 1 /\ Len(wire) \in Nat
  BY <1>1, <1>2, <1>4, AppendPlaces
<1>7. CtlTypeOK'
  <2>1. Len(wire') <= Lines
    BY <1>1, <1>6, ControlAssumption
  <2> QED BY <1>1, <2>1 DEF CtlTypeOK, mainVars
<1> QED BY <1>1, <1>5, <1>6, <1>7 DEF mainVars, ShowsWhatItHears, HearsInTheEnd

LEMMA DroppedKeeps ==
  ASSUME CtlInv, NEW state \in {"IDLE", "BACKOFF"}, Dropped(state),
         up' \in BOOLEAN
  PROVE  CtlInv'
<1>1. CtlTypeOK'
  <2>1. Len(wire') <= Lines
    BY ControlAssumption DEF Dropped
  <2> QED BY <2>1 DEF CtlInv, Sorts, CtlTypeOK, Dropped, mainVars
<1>2. wire' \in Seq(WireLines)
  BY DEF Dropped
<1> QED BY <1>1, <1>2 DEF CtlInv, Sorts, Dropped, mainVars, ShowsWhatItHears, HearsInTheEnd

LEMMA ConnectKeeps == ASSUME CtlInv, StartConnect \/ PollConnect \/ BackoffOver PROVE CtlInv'
<1>1. PICK state \in {"IDLE", "CONNECTING", "READY"} : Reach(state)
  BY DEF StartConnect, PollConnect, BackoffOver
<1>2. conn # "READY" /\ (state # "READY" => pending' = pending)
  BY <1>1 DEF StartConnect, PollConnect, BackoffOver, Reach
<1>3. CtlTypeOK'
  BY <1>1, <1>2 DEF CtlInv, Sorts, CtlTypeOK, Reach, mainVars
<1> QED BY <1>1, <1>3 DEF CtlInv, Sorts, Reach, mainVars, ShowsWhatItHears, HearsInTheEnd, WillAsk

LEMMA QuietKeeps ==
  ASSUME CtlInv, Quiet \/ StreamSession \/ HoldStill
  PROVE  CtlInv'
<1>1. /\ UNCHANGED <<server, conn, wire, asked, pending, streamId, identity, metadata, missed,
                     overtaken, mainVars>>
      /\ {up, recent, still} \subseteq BOOLEAN => {up', recent', still'} \subseteq BOOLEAN
  BY DEF Quiet, StreamSession, HoldStill, netVars
<1>2. CtlTypeOK'
  BY <1>1 DEF CtlInv, Sorts, CtlTypeOK, mainVars
<1>3. HearsInTheEnd'
  BY <1>1 DEF CtlInv, Sorts, HearsInTheEnd, WillAsk, AnswerLost, Current, StreamTold, TitleTold, TitleHeard
<1> QED BY <1>1, <1>2, <1>3 DEF CtlInv, Sorts, mainVars, ShowsWhatItHears

LEMMA RequestKeeps == ASSUME CtlInv, RequestStatus PROVE CtlInv'
<1>1. CtlTypeOK'
  BY DEF CtlInv, Sorts, CtlTypeOK, RequestStatus, mainVars
<1> QED BY <1>1 DEF CtlInv, Sorts, RequestStatus, mainVars, ShowsWhatItHears, HearsInTheEnd, WillAsk

LEMMA LoopKeeps == ASSUME CtlInv, Loop PROVE CtlInv'
<1>1. /\ UNCHANGED <<server, up, wire, still, netVars>>
      /\ metadata'.value = metadata.value /\ identity'.value = identity.value
      /\ identity' \in [value : Streams \union {Unknown}, dirty : BOOLEAN]
      /\ metadata' \in [value : [stream : Streams, title : Titles] \union {Nothing}, dirty : BOOLEAN]
  BY DEF Loop, TakeMetadata, TakeIdentity, CtlInv, Sorts
<1>2. ShowsWhatItHears'
  <2>1. CASE TakeMetadata
    BY <2>1 DEF CtlInv, Sorts, TakeMetadata, ShowsWhatItHears, netVars
  <2>2. CASE TakeIdentity
    BY <2>2 DEF CtlInv, Sorts, TakeIdentity, ScopeFromIdentity, ShowsWhatItHears, netVars
  <2> QED BY <2>1, <2>2 DEF Loop
<1>3. HearsInTheEnd'
  BY <1>1 DEF CtlInv, Sorts, HearsInTheEnd, WillAsk, AnswerLost, Current, StreamTold, TitleTold, TitleHeard, netVars
<1>4. /\ scope' \in Streams \union {Unknown} /\ overtaken' \in BOOLEAN
      /\ sensors' \in [stream : Streams, title : Titles] \union {Nothing}
      /\ turn' \in {"metadata", "identity"}
  <2>1. CASE TakeMetadata
    <3>1. metadata.value \in [stream : Streams, title : Titles] \union {Nothing}
      BY DEF CtlInv, Sorts
    <3>2. metadata.value.stream \in Streams \union {Unknown}
      BY <3>1 DEF Nothing
    <3> QED BY <2>1, <3>1, <3>2 DEF CtlInv, Sorts, CtlTypeOK, TakeMetadata
  <2>2. CASE TakeIdentity
    BY <2>2 DEF CtlInv, Sorts, CtlTypeOK, TakeIdentity, ScopeFromIdentity
  <2> QED BY <2>1, <2>2 DEF Loop
<1>5. CtlTypeOK'
  BY <1>1, <1>4 DEF CtlInv, Sorts, CtlTypeOK, netVars
<1> QED BY <1>1, <1>2, <1>3, <1>5 DEF CtlInv, Sorts, netVars

LEMMA LineByKind ==
  ASSUME NEW l \in WireLines
  PROVE  /\ l.kind = "moved" => l = Moved
         /\ l.kind = "oversized" => l = Oversized
         /\ l.kind = "status" => l \in Statuses
         /\ l.kind = "stream" => l \in Plays
<1>1. Oversized.kind = "oversized" /\ Moved.kind = "moved"
  BY DEF Oversized, Moved
<1>2. l \in Plays => l.kind = "stream"
  BY DEF Plays
<1>3. l \in Statuses => l.kind = "status"
  BY LineKinds
<1> QED BY <1>1, <1>2, <1>3 DEF WireLines

\* What reading a line does to the mailboxes leaves them in step with the session.
LEMMA SetMetadataKeeps ==
  ASSUME Sorts, NEW s \in Streams, NEW t \in Titles \union {Unknown}, SetMetadata(s, t),
         sensors' = sensors
  PROVE  /\ metadata' \in [value : [stream : Streams, title : Titles] \union {Nothing}, dirty : BOOLEAN]
         /\ metadata'.dirty \/ sensors' = metadata'.value
         /\ t # Unknown => metadata'.value = [stream |-> s, title |-> t]
<1>1. CASE t = Unknown \/ metadata.value = [stream |-> s, title |-> t]
  BY <1>1 DEF Sorts, SetMetadata, ShowsWhatItHears
<1>2. CASE ~(t = Unknown \/ metadata.value = [stream |-> s, title |-> t])
  <2>1. metadata' = [value |-> [stream |-> s, title |-> t], dirty |-> TRUE]
    BY <1>2 DEF SetMetadata
  <2> QED BY <1>2, <2>1
<1> QED BY <1>1, <1>2

LEMMA HandleKeeps ==
  ASSUME Sorts, NEW l \in WireLines, Handle(l), UNCHANGED <<server, mainVars, overtaken>>
  PROVE  /\ pending' \in BOOLEAN /\ missed' \in BOOLEAN /\ streamId' \in Streams \union {Unknown}
         /\ identity' \in [value : Streams \union {Unknown}, dirty : BOOLEAN]
         /\ metadata' \in [value : [stream : Streams, title : Titles] \union {Nothing}, dirty : BOOLEAN]
         /\ identity'.value = streamId' /\ ShowsWhatItHears'
<1>1. CASE l.kind = "moved" /\ HandleMove
  BY <1>1 DEF HandleMove, Sorts, CtlTypeOK, ShowsWhatItHears, mainVars
<1>2. CASE l.kind = "oversized" /\ missed' = TRUE /\ UNCHANGED <<pending, streamId, identity, metadata>>
  BY <1>2 DEF Sorts, CtlTypeOK, ShowsWhatItHears, mainVars
<1>3. CASE l.kind = "stream" /\ HandleStream(l)
  <2>1. l.id \in Streams /\ l.title \in Titles
    BY <1>3, LineByKind DEF Plays
  <2>2. /\ metadata' \in [value : [stream : Streams, title : Titles] \union {Nothing}, dirty : BOOLEAN]
        /\ metadata'.dirty \/ sensors' = metadata'.value
    <3>1. CASE streamId = l.id
      BY <1>3, <2>1, <3>1, SetMetadataKeeps DEF HandleStream, mainVars
    <3>2. CASE streamId # l.id
      BY <1>3, <3>2 DEF HandleStream, mainVars, Sorts, ShowsWhatItHears
    <3> QED BY <3>1, <3>2
  <2> QED BY <1>3, <2>2 DEF HandleStream, Sorts, CtlTypeOK, ShowsWhatItHears, mainVars
<1>4. CASE l.kind = "status" /\ ParseServer(l.of) /\ UNCHANGED pending
  <2>1. l.of \in Known
    BY <1>4, LineByKind, LineKinds
  <2>2. l.of.stream \in Streams /\ l.of.title[l.of.stream] \in Titles \union {Unknown}
    BY <2>1 DEF Known, Standing
  <2>3. /\ metadata' \in [value : [stream : Streams, title : Titles] \union {Nothing}, dirty : BOOLEAN]
        /\ metadata'.dirty \/ sensors' = metadata'.value
    BY <1>4, <2>2, SetMetadataKeeps DEF ParseServer, mainVars
  <2>4. /\ identity' \in [value : Streams \union {Unknown}, dirty : BOOLEAN]
        /\ identity'.value = streamId' /\ (identity'.dirty \/ overtaken' \/ scope' = streamId')
    <3>1. CASE l.of.stream = streamId
      BY <1>4, <3>1 DEF ParseServer, mainVars, Sorts, ShowsWhatItHears
    <3>2. CASE l.of.stream # streamId
      BY <1>4, <2>2, <3>2 DEF ParseServer
    <3> QED BY <3>1, <3>2
  <2>5. pending' \in BOOLEAN /\ missed' \in BOOLEAN /\ streamId' \in Streams \union {Unknown}
    BY <1>4, <2>2 DEF ParseServer, Sorts, CtlTypeOK
  <2> QED BY <2>3, <2>4, <2>5 DEF ShowsWhatItHears
<1> QED BY <1>1, <1>2, <1>3, <1>4 DEF Handle

LEMMA ReadHears == ASSUME CtlInv, ReadLine PROVE HearsInTheEnd'
<1> DEFINE l == Head(wire)
<1>1. /\ conn = "READY" /\ wire # <<>> /\ wire' = Tail(wire) /\ wire \in Seq(WireLines)
      /\ Handle(l) /\ UNCHANGED <<server, conn, asked>> /\ server \in Known
  BY DEF ReadLine, CtlInv, Sorts
<1>2. l \in WireLines
  BY <1>1, TailPlaces
<1> HIDE DEF l
<1>3. WillAsk \/ AnswerLost \/ Current
  BY <1>1 DEF CtlInv, Sorts, HearsInTheEnd
<1>4. /\ \A said : NoneIn(wire, said) => NoneIn(wire', said) /\ l \notin said
      /\ \A said : ~NoneIn(wire, said) => ~NoneIn(wire', said) \/ l \in said
      /\ \A said, true : LastIn(wire, said, true) =>
            \/ LastIn(wire', said, true)
            \/ l \in said /\ l \in true /\ NoneIn(wire', said)
  BY <1>1, NoneRead, SomeRead, LastRead DEF l
<1>5. SUFFICES (WillAsk \/ AnswerLost \/ Current)'
  BY DEF HearsInTheEnd
<1>6. CASE l.kind = "moved" /\ HandleMove
  BY <1>6 DEF HandleMove, WillAsk
<1>7. CASE l.kind # "moved" /\ WillAsk
  <2>1. l # Moved
    BY <1>7 DEF Moved
  <2>2. pending => pending'
    BY <1>1, <1>7 DEF Handle, HandleMove, HandleStream
  <2> QED BY <1>1, <1>4, <1>7, <2>1, <2>2 DEF WillAsk
<1>8. CASE l.kind = "oversized" /\ ~WillAsk
  <2>1. l = Oversized /\ missed' = TRUE /\ UNCHANGED <<streamId, metadata>>
    BY <1>1, <1>2, <1>8, LineByKind DEF Handle
  <2>2. l \in SayAll /\ l \notin SayTitle(server) /\ l \notin OfOurs(server)
    BY <2>1, LineKinds DEF OfOurs, SayTitle
  <2>3. CASE AnswerLost
    BY <1>4, <2>1, <2>2, <2>3 DEF AnswerLost
  <2>4. CASE Current
    <3>1. StreamTold'
      BY <1>1, <1>4, <2>2, <2>4 DEF Current, StreamTold
    <3>2. TitleTold'
      BY <1>1, <1>4, <2>1, <2>2, <2>4 DEF Current, TitleTold, TitleHeard
    <3> QED BY <3>1, <3>2 DEF Current
  <2> QED BY <1>3, <1>8, <2>3, <2>4
<1>9. CASE l.kind = "stream" /\ HandleStream(l) /\ ~WillAsk
  <2>1. l \in Plays /\ l \notin SayAll /\ l.id \in Streams /\ l.title \in Titles
    BY <1>2, <1>9, LineByKind, LineKinds DEF Plays
  <2>2. UNCHANGED <<streamId, missed>>
    BY <1>9 DEF HandleStream
  <2>3. CASE AnswerLost
    BY <1>4, <2>1, <2>2, <2>3 DEF AnswerLost
  <2>4. CASE Current
    <3>1. StreamTold'
      BY <1>1, <1>4, <2>1, <2>2, <2>4 DEF Current, StreamTold
    <3>2. NoneIn(wire', SayTitle(server)) => streamId = server.stream
      <4>1. OfOurs(server) \subseteq SayTitle(server)
        BY DEF OfOurs, SayTitle
      <4> QED BY <1>1, <2>2, <3>1, <4>1, LastIsSome DEF StreamTold
    <3>3. CASE LastIn(wire, SayTitle(server), OurTitle(server))
      <4>1. CASE LastIn(wire', SayTitle(server), OurTitle(server))
        BY <1>1, <3>1, <4>1 DEF Current, TitleTold
      <4>2. CASE l \in OurTitle(server) /\ NoneIn(wire', SayTitle(server))
        <5>1. l.id = server.stream /\ l.title = server.title[server.stream]
          BY <2>1, <4>2, LineKinds DEF OurTitle, OfOurs
        <5>2. SetMetadata(l.id, l.title)
          BY <1>9, <3>2, <4>2, <5>1 DEF HandleStream
        <5>3. metadata'.value = [stream |-> l.id, title |-> l.title]
          BY <2>1, <5>2, ControlAssumption DEF SetMetadata
        <5> QED BY <1>1, <3>1, <4>2, <5>1, <5>3 DEF Current, TitleTold, TitleHeard
      <4> QED BY <1>4, <3>3, <4>1, <4>2
    <3>4. CASE NoneIn(wire, SayTitle(server)) /\ TitleHeard
      <4>1. NoneIn(wire', SayTitle(server)) /\ l \notin SayTitle(server)
        BY <1>4, <3>4
      <4>2. l.id # server.stream
        BY <2>1, <4>1 DEF SayTitle
      <4>3. metadata' = metadata
        BY <1>9, <3>2, <4>1, <4>2 DEF HandleStream
      <4> QED BY <1>1, <3>1, <3>4, <4>1, <4>3 DEF Current, TitleTold, TitleHeard
    <3> QED BY <2>4, <3>3, <3>4 DEF Current, TitleTold
  <2> QED BY <1>3, <1>9, <2>3, <2>4
<1>10. CASE l.kind = "status" /\ ParseServer(l.of) /\ ~WillAsk
  <2>1. l \in Statuses /\ l \in SayAll /\ l \in SayTitle(server) /\ l # Oversized
    BY <1>2, <1>10, LineByKind, LineKinds DEF SayTitle
  <2>2. streamId' = l.of.stream /\ SetMetadata(l.of.stream, l.of.title[l.of.stream])
    BY <1>10 DEF ParseServer
  <2>3. CASE AnswerLost
    BY <1>4, <2>1, <2>3 DEF AnswerLost
  <2>4. CASE Current
    <3>1. StreamTold'
      <4>1. l \in OfOurs(server) => streamId' = server.stream
        BY <2>2 DEF OfOurs
      <4> QED BY <1>1, <1>4, <2>1, <2>4, <4>1 DEF Current, StreamTold
    <3>2. l \in OurTitle(server) => TitleHeard'
      <4> SUFFICES ASSUME l \in OurTitle(server), server.stream \notin Silent PROVE TitleHeard'
        BY <1>1 DEF TitleHeard
      <4>1. l.of.stream = server.stream /\ l.of.title[server.stream] = server.title[server.stream]
        BY <2>1, LineKinds DEF OurTitle, OfOurs
      <4>2. server.title[server.stream] # Unknown
        BY <1>1 DEF Known, Standing
      <4>3. metadata'.value = [stream |-> server.stream, title |-> server.title[server.stream]]
        BY <2>2, <4>1, <4>2 DEF SetMetadata
      <4> QED BY <1>1, <4>3 DEF TitleHeard
    <3>3. TitleTold'
      BY <1>1, <1>4, <2>1, <2>4, <3>2 DEF Current, TitleTold
    <3> QED BY <3>1, <3>3 DEF Current
  <2> QED BY <1>3, <1>10, <2>3, <2>4
<1> QED BY <1>1, <1>6, <1>7, <1>8, <1>9, <1>10 DEF Handle

LEMMA ReadLineKeeps == ASSUME CtlInv, ReadLine PROVE CtlInv'
<1>1. /\ wire' = Tail(wire) /\ wire # <<>> /\ wire \in Seq(WireLines) /\ Handle(Head(wire))
      /\ conn = "READY" /\ Sorts /\ Len(wire) <= Lines
      /\ UNCHANGED <<server, up, conn, asked, recent, still, overtaken, mainVars>>
  BY DEF ReadLine, CtlInv, Sorts, CtlTypeOK
<1>2. /\ wire' \in Seq(WireLines) /\ Len(wire') <= Lines /\ Head(wire) \in WireLines
  BY <1>1, TailPlaces, ControlAssumption
<1>3. /\ pending' \in BOOLEAN /\ missed' \in BOOLEAN /\ streamId' \in Streams \union {Unknown}
      /\ identity' \in [value : Streams \union {Unknown}, dirty : BOOLEAN]
      /\ metadata' \in [value : [stream : Streams, title : Titles] \union {Nothing}, dirty : BOOLEAN]
      /\ identity'.value = streamId' /\ ShowsWhatItHears'
  BY <1>1, <1>2, HandleKeeps
<1>4. CtlTypeOK'
  BY <1>1, <1>2, <1>3 DEF Sorts, CtlTypeOK, mainVars
<1> QED BY <1>1, <1>2, <1>3, <1>4, ReadHears DEF CtlInv, Sorts

LEMMA CtlKept == CtlInv /\ [CtlNext]_ctlVars => CtlInv'
<1> SUFFICES ASSUME CtlInv, [CtlNext]_ctlVars PROVE CtlInv'
  OBVIOUS
<1>1. CASE ServerChanges
  BY <1>1, ServerChangesKeeps
<1>2. CASE Answer
  BY <1>2, AnswerKeeps
<1>3. CASE Fail \/ Close
  <2>1. up' \in BOOLEAN
    BY <1>3 DEF Fail, Close, CtlInv, Sorts, CtlTypeOK
  <2> QED BY <1>3, <2>1, DroppedKeeps DEF Fail, Close
<1>4. CASE StartConnect \/ PollConnect \/ BackoffOver
  BY <1>4, ConnectKeeps
<1>5. CASE Quiet \/ StreamSession \/ HoldStill
  BY <1>5, QuietKeeps
<1>6. CASE RequestStatus
  BY <1>6, RequestKeeps
<1>7. CASE ReadLine
  BY <1>7, ReadLineKeeps
<1>8. CASE Loop
  BY <1>8, LoopKeeps
<1>9. CASE UNCHANGED ctlVars
  BY <1>9 DEF ctlVars, netVars, mainVars, CtlInv, Sorts, CtlTypeOK, ShowsWhatItHears, HearsInTheEnd,
              WillAsk, AnswerLost, Current, StreamTold, TitleTold, TitleHeard
<1> QED BY <1>1, <1>2, <1>3, <1>4, <1>5, <1>6, <1>7, <1>8, <1>9 DEF CtlNext, Due, Service, Time

\* The safety half of FollowsTheServer: whatever moves, changes, fails, is too long or is
\* told in whatever order, a session that has read everything and awaits nothing knows its
\* stream and the title it plays, and the main loop shows what the session heard.
THEOREM SessionHearsItsStream ==
  Spec => [](part = "control" => CtlTypeOK /\ HearsItsStream /\ ShowsWhatItHears)
<1>1. Init => CtlInv
  BY CtlBegins DEF Init
<1>2. CtlInv /\ [Next]_vars => CtlInv'
  BY CtlKept, ControlSteps
<1>3. CtlInv => CtlTypeOK /\ HearsItsStream /\ ShowsWhatItHears
  <2> SUFFICES ASSUME CtlInv, AllHeard PROVE HearsItsStream
    BY DEF CtlInv, Sorts, HearsItsStream
  <2>1. /\ conn = "READY" /\ wire = <<>> /\ ~pending /\ ~asked /\ ~missed
        /\ WillAsk \/ AnswerLost \/ Current
    BY DEF AllHeard, CtlInv, Sorts, HearsInTheEnd
  <2>2. \A said, true : NoneIn(wire, said) /\ ~LastIn(wire, said, true)
    BY <2>1, EmptySaysNothing
  <2>3. streamId = server.stream /\ TitleHeard
    BY <2>1, <2>2 DEF WillAsk, AnswerLost, Current, StreamTold, TitleTold
  <2> QED BY <2>3 DEF HearsItsStream, TitleHeard
<1> QED BY <1>1, <1>2, <1>3, PTL DEF Spec

------------------------------------------------------------------------------
\* The access point: the picker and the station it drives; what is dropping is nowhere.
Pickers == [desired : Aps \union {NoAp}, since : 0..Fallback + 1, released : BOOLEAN]
Stations ==
  {s \in [known : BOOLEAN, pin : Aps \union {NoAp}, at : Aps \union {NoAp}, dropping : BOOLEAN] :
     s.dropping => s.at = NoAp}

LEMMA RetriedIs ==
  ASSUME NEW s \in Stations
  PROVE  /\ Retried(s) \in Stations
         /\ Retried(s).known = s.known /\ Retried(s).pin = s.pin
         /\ Retried(s).at = IF s.at = s.pin THEN s.at ELSE NoAp
<1> DEFINE r == [s EXCEPT !.at = NoAp, !.dropping = TRUE]
<1>1. r \in Stations /\ r.known = s.known /\ r.pin = s.pin /\ r.at = NoAp
  BY DEF Stations
<1> HIDE DEF r
<1>2. CASE s.at # NoAp /\ s.at # s.pin
  <2>1. Retried(s) = r
    BY <1>2, Zenon DEF Retried, r
  <2> QED BY <1>1, <1>2, <2>1
<1>3. CASE ~(s.at # NoAp /\ s.at # s.pin)
  <2>1. Retried(s) = s
    BY <1>3, Zenon DEF Retried
  <2> QED BY <1>3, <2>1
<1> QED BY <1>2, <1>3

LEMMA LockedIs ==
  ASSUME NEW p \in Pickers, NEW s \in Stations
  PROVE  /\ Locked(p, s) \in Stations /\ Locked(p, s).known = s.known
         /\ Armed(p, s) => /\ Locked(p, s).pin = p.desired
                           /\ Locked(p, s).at = IF s.at = p.desired THEN s.at ELSE NoAp
         /\ ~Armed(p, s) => Locked(p, s).pin = NoAp /\ Locked(p, s).at = s.at
<1>1. ASSUME NEW x \in Aps \union {NoAp}
      PROVE  LET r == [s EXCEPT !.pin = x]
             IN  r \in Stations /\ r.known = s.known /\ r.pin = x /\ r.at = s.at
  BY DEF Stations
<1>2. CASE Armed(p, s)
  <2> DEFINE r == [s EXCEPT !.pin = p.desired]
  <2>1. p.desired \in Aps \union {NoAp}
    BY DEF Pickers
  <2>2. r \in Stations /\ r.known = s.known /\ r.pin = p.desired /\ r.at = s.at
    BY <1>1, <2>1
  <2> HIDE DEF r
  <2>3. Locked(p, s) = Retried(r)
    BY <1>2, Zenon DEF Locked, r
  <2> QED BY <1>2, <2>2, <2>3, RetriedIs, Zenon
<1>3. CASE ~Armed(p, s)
  <2>1. Locked(p, s) = [s EXCEPT !.pin = NoAp]
    BY <1>3, Zenon DEF Locked
  <2> QED BY <1>1, <1>3, <2>1
<1> QED BY <1>2, <1>3

LEMMA WaitingIs ==
  ASSUME NEW p \in Pickers, NEW s \in Stations
  PROVE  /\ Waiting(p, s) \in Pickers
         /\ Waiting(p, s).desired = p.desired /\ Waiting(p, s).released = p.released
         /\ Armed(p, s) /\ Locked(p, s).at = NoAp => Waiting(p, s).since # 0
<1> DEFINE q == [p EXCEPT !.since = 1]
<1>1. q \in Pickers /\ q.desired = p.desired /\ q.released = p.released /\ q.since = 1
  BY AccessPointAssumption DEF Pickers
<1> HIDE DEF q
<1>2. CASE Armed(p, s) /\ Locked(p, s).at = NoAp /\ p.since = 0
  <2>1. Waiting(p, s) = q
    BY <1>2, Zenon DEF Waiting, q
  <2> QED BY <1>1, <2>1
<1>3. CASE ~(Armed(p, s) /\ Locked(p, s).at = NoAp /\ p.since = 0)
  <2>1. Waiting(p, s) = p
    BY <1>3, Zenon DEF Waiting
  <2> QED BY <1>3, <2>1, Zenon
<1> QED BY <1>2, <1>3

\* What applying the constraint leaves of the preference and of the wait.
InForceOf(p, s) ==
  /\ s.known => /\ s.pin = IF p.desired # NoAp /\ ~p.released THEN p.desired ELSE NoAp
                /\ s.at # NoAp => p.desired \in {NoAp, s.at} \/ p.released
  /\ ~s.known => s.pin = NoAp /\ s.at = NoAp

LEMMA ApplyLockKeeps ==
  ASSUME NEW p \in Pickers, NEW s \in Stations, ~s.known => s.at = NoAp, ApplyLock(p, s)
  PROVE  /\ picker' \in Pickers /\ sta' \in Stations
         /\ picker'.desired = p.desired /\ picker'.released = p.released /\ sta'.known = s.known
         /\ InForceOf(picker', sta')
         /\ sta'.at = NoAp /\ sta'.pin # NoAp => picker'.since > 0
         /\ s.at = NoAp => sta'.at = NoAp
<1>1. picker' = Waiting(p, s) /\ sta' = Locked(p, s)
  BY DEF ApplyLock
<1>2. picker' \in Pickers /\ sta' \in Stations
  BY <1>1, LockedIs, WaitingIs
<1>3. InForceOf(picker', sta')
  <2>1. CASE Armed(p, s)
    <3>1. sta'.pin = p.desired /\ (sta'.at = NoAp \/ sta'.at = p.desired) /\ s.known /\ ~p.released /\ p.desired # NoAp
      BY <1>1, <2>1, LockedIs, Zenon DEF Armed
    <3> QED BY <1>1, <3>1, LockedIs, WaitingIs, Zenon DEF InForceOf
  <2>2. CASE ~Armed(p, s)
    <3>1. sta'.pin = NoAp /\ sta'.at = s.at /\ (~s.known \/ p.released \/ p.desired = NoAp)
      BY <1>1, <2>2, LockedIs, Zenon DEF Armed
    <3>2. sta'.known = s.known /\ picker'.desired = p.desired /\ picker'.released = p.released
      BY <1>1, LockedIs, WaitingIs
    <3>3. CASE ~s.known
      BY <3>1, <3>2, <3>3 DEF InForceOf
    <3>4. CASE s.known
      <4>1. picker'.released \/ picker'.desired = NoAp
        BY <3>1, <3>2, <3>4, Zenon
      <4> QED BY <3>1, <3>2, <3>4, <4>1 DEF InForceOf
    <3> QED BY <3>3, <3>4
  <2> QED BY <2>1, <2>2
<1>4. sta'.at = NoAp /\ sta'.pin # NoAp => picker'.since > 0
  <2>1. sta'.at = NoAp /\ sta'.pin # NoAp => picker'.since # 0
    BY <1>1, LockedIs, WaitingIs, Zenon
  <2> QED BY <1>2, <2>1, AccessPointAssumption DEF Pickers
<1>5. s.at = NoAp => sta'.at = NoAp
  BY <1>1, LockedIs, Zenon
<1> QED BY <1>1, <1>2, <1>3, <1>4, <1>5, LockedIs, WaitingIs

\* While the constraint keeps the device off the air the wait is running, and has run
\* for longer than the device has been off the air, unless the lost link was the
\* preferred one, of which no wait is begun.
OnTime ==
  /\ sta.at # NoAp \/ sta.pin = NoAp => strandedFor = 0
  /\ ~orphaned /\ sta.at = NoAp /\ sta.pin # NoAp => picker.since > strandedFor

Typed ==
  /\ picker \in Pickers /\ sta \in Stations
  /\ stored \in Aps \union {NoAp} /\ onAir \subseteq Aps
  /\ orphaned \in BOOLEAN /\ strandedFor \in 0..Fallback + 2

Kept == Typed /\ InForceOf(picker, sta) /\ OnTime

LEMMA FreshIs ==
  ASSUME NEW ap \in Aps \union {NoAp}
  PROVE  Restored(ap) \in Pickers /\ Controlled(ap) \in Pickers /\ Fresh \in Stations /\ InForceOf(Restored(ap), Fresh)
         /\ Fresh.at = NoAp /\ Fresh.pin = NoAp
<1>1. Restored(ap) \in Pickers /\ Controlled(ap) \in Pickers
  BY AccessPointAssumption DEF Restored, Controlled, Pickers
<1>2. Fresh \in Stations /\ ~Fresh.known /\ Fresh.pin = NoAp /\ Fresh.at = NoAp
  BY DEF Fresh, Stations
<1> QED BY <1>1, <1>2 DEF InForceOf

LEMMA DisconnectedKeeps ==
  ASSUME Typed, NEW s \in Stations, s.at = NoAp, InForceOf(picker, s), Disconnected(s)
  PROVE  /\ picker' \in Pickers /\ sta' \in Stations
         /\ InForceOf(picker', sta')
         /\ sta'.at = NoAp
         /\ \/ picker' = picker /\ sta'.pin = s.pin
            \/ s.pin = NoAp /\ (sta'.pin # NoAp => picker'.since > 0)
<1>1. CASE picker.released
  <2> DEFINE p == [picker EXCEPT !.released = FALSE, !.since = 0]
  <2>1. p \in Pickers
    <3>1. 0 \in 0..Fallback + 1
      BY AccessPointAssumption
    <3> QED BY <3>1 DEF Pickers, Typed
  <2>2. ApplyLock(p, s)
    BY <1>1, Zenon DEF Disconnected
  <2>3. s.pin = NoAp
    BY <1>1, Zenon DEF InForceOf
  <2> HIDE DEF p
  <2> QED BY <2>1, <2>2, <2>3, ApplyLockKeeps
<1>2. CASE ~picker.released
  <2>1. picker' = picker /\ sta' = s
    BY <1>2, Zenon DEF Disconnected
  <2> QED BY <2>1 DEF Typed
<1> QED BY <1>1, <1>2

LEMMA ControlKeeps ==
  ASSUME Kept, NEW ap \in Aps \union {NoAp}, Control(ap)
  PROVE  Kept'
<1>1. ApplyLock(Controlled(ap), sta) /\ stored' = ap /\ orphaned' = FALSE /\ strandedFor' = 0 /\ UNCHANGED <<onAir, calm>>
  BY DEF Control
<1>2. Controlled(ap) \in Pickers /\ sta \in Stations /\ (~sta.known => sta.at = NoAp)
  BY FreshIs DEF Kept, Typed, InForceOf
<1>3. /\ picker' \in Pickers /\ sta' \in Stations /\ InForceOf(picker', sta')
      /\ sta'.at = NoAp /\ sta'.pin # NoAp => picker'.since > 0
  BY <1>1, <1>2, ApplyLockKeeps
<1>4. Typed'
  <2>1. orphaned' \in BOOLEAN
    BY <1>1, Zenon
  <2> QED BY <1>1, <1>3, <2>1, AccessPointAssumption DEF Kept, Typed
<1>5. OnTime'
  BY <1>1, <1>3 DEF OnTime
<1>6. InForceOf(picker, sta)'
  BY <1>3 DEF InForceOf
<1> QED BY <1>4, <1>5, <1>6 DEF Kept

LEMMA AssociateKeeps ==
  ASSUME Kept, NEW ap \in Aps, Associate(ap)
  PROVE  Kept'
<1> DEFINE p == [picker EXCEPT !.since = 0]
           s == [sta EXCEPT !.at = ap, !.known = TRUE]
<1>1. ApplyLock(p, s) /\ orphaned' = FALSE /\ strandedFor' = 0 /\ UNCHANGED <<stored, onAir, calm>>
  BY DEF Associate
<1>2. p \in Pickers /\ s \in Stations /\ s.known
  <2>1. 0 \in 0..Fallback + 1
    BY AccessPointAssumption
  <2>2. p \in Pickers
    BY <2>1 DEF Kept, Typed, Pickers
  <2>3. s \in Stations /\ s.known
    <3>1. ~sta.dropping
      BY Zenon DEF Associate
    <3> QED BY <3>1 DEF Kept, Typed, Stations
  <2> QED BY <2>2, <2>3
<1> HIDE DEF p, s
<1>3. /\ picker' \in Pickers /\ sta' \in Stations /\ InForceOf(picker', sta')
      /\ sta'.at = NoAp /\ sta'.pin # NoAp => picker'.since > 0
  BY <1>1, <1>2, ApplyLockKeeps
<1>4. Typed'
  <2>1. orphaned' \in BOOLEAN
    BY <1>1, Zenon
  <2> QED BY <1>1, <1>3, <2>1, AccessPointAssumption DEF Kept, Typed
<1>5. OnTime'
  BY <1>1, <1>3 DEF OnTime
<1>6. InForceOf(picker, sta)'
  BY <1>3 DEF InForceOf
<1> QED BY <1>4, <1>5, <1>6 DEF Kept

LEMMA ReportLossKeeps ==
  ASSUME Kept, ReportLoss
  PROVE  Kept'
<1> DEFINE s == [sta EXCEPT !.dropping = FALSE]
<1>1. Disconnected(s) /\ UNCHANGED <<stored, onAir, calm, strandedFor, orphaned>>
  BY DEF ReportLoss
<1>2. s \in Stations /\ s.at = NoAp /\ s.known = sta.known /\ s.pin = sta.pin
  BY DEF Kept, Typed, Stations, ReportLoss
<1>3. InForceOf(picker, s)
  <2> HIDE DEF s
  <2> QED BY <1>2 DEF Kept, InForceOf
<1> HIDE DEF s
<1>4. /\ picker' \in Pickers /\ sta' \in Stations
      /\ InForceOf(picker', sta')
      /\ sta'.at = NoAp
      /\ \/ picker' = picker /\ sta'.pin = s.pin
         \/ s.pin = NoAp /\ (sta'.pin # NoAp => picker'.since > 0)
  BY <1>1, <1>2, <1>3, DisconnectedKeeps DEF Kept
<1>5. OnTime'
  <2>1. sta.pin = NoAp => strandedFor' = 0
    BY <1>1 DEF Kept, OnTime
  <2>2. ~orphaned' /\ sta.pin # NoAp => picker.since > strandedFor'
    <3>1. sta.at = NoAp
      BY DEF ReportLoss, Kept, Typed, Stations
    <3> QED BY <1>1, <3>1, Zenon DEF Kept, OnTime
  <2> QED BY <1>2, <1>4, <2>1, <2>2 DEF OnTime
<1> QED BY <1>1, <1>4, <1>5 DEF Kept, Typed, InForceOf

LEMMA LostKeeps ==
  ASSUME Kept, Connected, Lost, UNCHANGED <<stored, calm, strandedFor>>, onAir' \subseteq Aps
  PROVE  Kept'
<1> DEFINE s == [sta EXCEPT !.at = NoAp]
<1>1. Disconnected(s) /\ orphaned' = (sta.pin = sta.at)
  BY DEF Lost
<1>2. s \in Stations /\ s.at = NoAp /\ s.known = sta.known /\ s.pin = sta.pin
  BY DEF Kept, Typed, Stations
<1>3. InForceOf(picker, s)
  <2> HIDE DEF s
  <2> QED BY <1>2 DEF Kept, InForceOf
<1> HIDE DEF s
<1>4. /\ picker' \in Pickers /\ sta' \in Stations
      /\ InForceOf(picker', sta')
      /\ sta'.at = NoAp
      /\ \/ picker' = picker /\ sta'.pin = s.pin
         \/ s.pin = NoAp /\ (sta'.pin # NoAp => picker'.since > 0)
  BY <1>1, <1>2, <1>3, DisconnectedKeeps DEF Kept
<1>5. strandedFor = 0
  BY Zenon DEF Kept, OnTime, Connected
<1>6. sta.pin # NoAp => sta.pin = sta.at
  BY Zenon DEF Kept, InForceOf, Connected
<1>7. OnTime'
  <2>1. sta.pin # NoAp => orphaned'
    BY <1>1, <1>6, Zenon
  <2>2. sta.pin = NoAp /\ sta'.pin # NoAp => picker'.since > 0
    BY <1>2, <1>4
  <2> QED BY <1>2, <1>4, <1>5, <2>1, <2>2 DEF OnTime
<1>8. orphaned' \in BOOLEAN
  BY <1>1, Zenon
<1>9. picker' \in Pickers /\ sta' \in Stations /\ stored' \in Aps \union {NoAp} /\ strandedFor' \in 0..Fallback + 2
  BY <1>4 DEF Kept, Typed
<1>10. InForceOf(picker, sta)'
  BY <1>4 DEF InForceOf
<1> QED BY <1>7, <1>8, <1>9, <1>10 DEF Kept, Typed

\* The constraint is given up in the round its wait runs out.
LEMMA RoundKeeps ==
  ASSUME Kept, Round
  PROVE  Kept'
<1>1. UNCHANGED <<stored, onAir, calm, orphaned>>
  BY DEF Round
<1>2. /\ picker' \in Pickers /\ sta' \in Stations
      /\ picker'.desired = picker.desired /\ sta'.known = sta.known /\ sta'.at = sta.at
      /\ InForceOf(picker', sta')
      /\ \/ sta'.at # NoAp \/ sta'.pin = NoAp
         \/ sta'.pin = sta.pin /\ (picker.since # 0 => picker'.since = picker.since + 1)
  <2>1. CASE ~Watching /\ UNCHANGED <<picker, sta>>
    <3>1. sta.at # NoAp \/ sta.pin = NoAp \/ picker.since = 0
      BY <2>1, Zenon DEF Watching, Kept, InForceOf
    <3> QED BY <2>1, <3>1 DEF Kept, Typed
  <2>2. CASE Watching /\ Connected /\ picker' = [picker EXCEPT !.since = 0] /\ UNCHANGED sta
    <3>1. 0 \in 0..Fallback + 1
      BY AccessPointAssumption
    <3>2. picker' \in Pickers /\ picker'.desired = picker.desired /\ picker'.released = picker.released
      BY <2>2, <3>1 DEF Kept, Typed, Pickers
    <3>3. InForceOf(picker', sta')
      BY <2>2, <3>2 DEF Kept, InForceOf
    <3> QED BY <2>2, <3>2, <3>3 DEF Kept, Typed, Connected
  <2>3. CASE Watching /\ ~Connected /\ Overdue(picker) /\ Release
    <3>1. 0 \in 0..Fallback + 1
      BY AccessPointAssumption
    <3>2. picker' \in Pickers /\ picker'.desired = picker.desired /\ picker'.released
      BY <2>3, <3>1 DEF Kept, Typed, Pickers, Release
    <3>3. sta' \in Stations /\ sta'.known = sta.known /\ sta'.at = sta.at /\ sta'.pin = NoAp
      BY <2>3 DEF Kept, Typed, Stations, Release
    <3>4. sta.at = NoAp
      BY <2>3 DEF Connected
    <3> QED BY <3>2, <3>3, <3>4 DEF InForceOf
  <2>4. CASE Watching /\ ~Connected /\ ~Overdue(picker) /\ Wait
    <3>1. picker.since \in 0..Fallback
      BY <2>4, AccessPointAssumption DEF Overdue, Kept, Typed, Pickers
    <3>2. picker.since + 1 \in 0..Fallback + 1
      BY <3>1, AccessPointAssumption
    <3>3. /\ picker' \in Pickers /\ picker'.desired = picker.desired /\ picker'.released = picker.released
          /\ picker'.since = picker.since + 1
      BY <2>4, <3>2 DEF Kept, Typed, Pickers, Wait
    <3>4. sta' = sta
      BY <2>4 DEF Wait
    <3>5. InForceOf(picker', sta')
      BY <3>3, <3>4 DEF Kept, InForceOf
    <3> QED BY <3>3, <3>4, <3>5 DEF Kept, Typed
  <2> QED BY <2>1, <2>2, <2>3, <2>4, Zenon DEF Round
<1>3. strandedFor' = IF sta.at # NoAp \/ sta'.pin = NoAp THEN 0
                     ELSE IF strandedFor <= Fallback + 1 THEN strandedFor + 1 ELSE strandedFor
  BY DEF Round, Connected
<1>4. strandedFor' \in 0..Fallback + 2
  BY <1>3, AccessPointAssumption DEF Kept, Typed
<1>5. OnTime'
  <2>1. sta'.at # NoAp \/ sta'.pin = NoAp => strandedFor' = 0
    BY <1>2, <1>3
  <2>2. ~orphaned' /\ sta'.at = NoAp /\ sta'.pin # NoAp => picker'.since > strandedFor'
    <3> SUFFICES ASSUME ~orphaned', sta'.at = NoAp, sta'.pin # NoAp
                 PROVE  picker'.since > strandedFor'
      OBVIOUS
    <3>1. sta'.pin = sta.pin /\ sta.at = NoAp /\ (picker.since # 0 => picker'.since = picker.since + 1)
      BY <1>2
    <3>2. picker.since > strandedFor
      BY <1>1, <3>1, Zenon DEF Kept, OnTime
    <3>3. picker.since \in Nat /\ strandedFor \in Nat
      BY DEF Kept, Typed, Pickers
    <3> QED BY <1>3, <3>1, <3>2, <3>3, AccessPointAssumption
  <2> QED BY <2>1, <2>2 DEF OnTime
<1>6. InForceOf(picker, sta)'
  BY <1>2 DEF InForceOf
<1>7. Typed'
  BY <1>1, <1>2, <1>4 DEF Kept, Typed
<1> QED BY <1>5, <1>6, <1>7 DEF Kept

LEMMA VanishKeeps ==
  ASSUME Kept, NEW ap \in Aps, Vanish(ap)
  PROVE  Kept'
<1>1. onAir' \subseteq Aps /\ UNCHANGED <<stored, calm, strandedFor>>
  BY DEF Vanish, Kept, Typed
<1>2. CASE sta.at = ap
  BY <1>1, <1>2, LostKeeps, AccessPointAssumption DEF Vanish, Connected
<1>3. CASE sta.at # ap
  <2>1. UNCHANGED <<picker, sta, orphaned>>
    BY <1>3, Zenon DEF Vanish
  <2> QED BY <1>1, <2>1 DEF Kept, Typed, InForceOf, OnTime
<1> QED BY <1>2, <1>3

LEMMA RebootKeeps ==
  ASSUME Kept, Reboot
  PROVE  Kept'
<1>1. picker' = Restored(stored) /\ sta' = Fresh /\ strandedFor' = 0 /\ orphaned' = FALSE /\ UNCHANGED <<stored, onAir, calm>>
  BY DEF Reboot
<1>2. Restored(stored) \in Pickers /\ Fresh \in Stations /\ InForceOf(Restored(stored), Fresh) /\ Fresh.pin = NoAp
  BY FreshIs DEF Kept, Typed
<1>3. orphaned' \in BOOLEAN
  BY <1>1, Zenon
<1>4. Typed'
  BY <1>1, <1>2, <1>3, AccessPointAssumption DEF Kept, Typed
<1>5. OnTime'
  BY <1>1, <1>2 DEF OnTime
<1>6. InForceOf(picker, sta)'
  BY <1>1, <1>2 DEF InForceOf
<1> QED BY <1>4, <1>5, <1>6 DEF Kept

\* wifi_bssid_select.cpp: the constraint is the preference until it has timed out, and
\* keeps no device off the air for longer, through reboots, losses and changes of mind;
\* for every timeout and every set of access points.
THEOREM PreferenceHeldAndReleased ==
  Spec => [](part = "access point" => ApTypeOK /\ PreferenceInForce /\ ConstraintTimesOut)
<1>1. Init => Kept
  <2> SUFFICES ASSUME ApInit PROVE Kept
    BY DEF Init
  <2>1. /\ picker = Restored(NoAp) /\ sta = Fresh /\ strandedFor = 0 /\ orphaned = FALSE
        /\ stored = NoAp /\ onAir = Aps
    BY DEF ApInit
  <2>2. Restored(NoAp) \in Pickers /\ Fresh \in Stations /\ InForceOf(Restored(NoAp), Fresh) /\ Fresh.pin = NoAp
    BY FreshIs
  <2>3. orphaned \in BOOLEAN
    BY <2>1, Zenon
  <2>4. Typed
    BY <2>1, <2>2, <2>3, AccessPointAssumption DEF Typed
  <2> QED BY <2>1, <2>2, <2>4 DEF Kept, OnTime
<1>2. Kept /\ [Next]_vars => Kept'
  <2> SUFFICES ASSUME Kept, [Next]_vars
               PROVE  Kept'
    OBVIOUS
  <2>1. CASE CalmAir \/ (\E ap \in Aps : Appear(ap)) \/ UNCHANGED apVars
    <3>1. UNCHANGED <<picker, sta, stored, strandedFor, orphaned>> /\ onAir' \subseteq Aps
      BY <2>1 DEF CalmAir, Appear, apVars, Kept, Typed
    <3> QED BY <3>1 DEF Kept, Typed, InForceOf, OnTime
  <2>2. CASE LoseLink
    BY <2>2, LostKeeps DEF LoseLink, Kept, Typed
  <2> QED BY <2>1, <2>2, ApSteps, ControlKeeps, AssociateKeeps, ReportLossKeeps, RoundKeeps,
             VanishKeeps, RebootKeeps DEF ApNext, Disturb, Join
<1>3. Kept => ApTypeOK /\ PreferenceInForce /\ ConstraintTimesOut
  <2> SUFFICES ASSUME Kept PROVE ApTypeOK /\ PreferenceInForce /\ ConstraintTimesOut
    OBVIOUS
  <2>1. ApTypeOK
    BY DEF Kept, Typed, Pickers, Stations, ApTypeOK
  <2>2. PreferenceInForce
    BY Zenon DEF Kept, InForceOf, PreferenceInForce, Connected
  <2>3. ConstraintTimesOut
    <3> SUFFICES ASSUME ~orphaned PROVE strandedFor <= Fallback + 1
      BY DEF ConstraintTimesOut
    <3>1. strandedFor = 0 \/ picker.since > strandedFor
      BY DEF Kept, OnTime
    <3> QED BY <3>1, AccessPointAssumption DEF Kept, Typed, Pickers
  <2> QED BY <2>1, <2>2, <2>3
<1> QED BY <1>1, <1>2, <1>3, PTL DEF Spec

------------------------------------------------------------------------------
\* Every set of numbers has a least one, and so a set that holds 0 and the next of
\* every number it holds has them all.
LEMMA LeastNumber ==
  ASSUME NEW T \in SUBSET Nat, T # {}
  PROVE  \E x \in T : \A y \in T : x <= y
<1>1. \E x \in T : \A y \in T : ~(<<y, x>> \in OpToRel(<, Nat))
  BY NatLessThanWellFounded, WFMin, Zenon
<1>2. PICK x \in T : \A y \in T : ~(<<y, x>> \in OpToRel(<, Nat))
  BY <1>1
<1>3. \A y \in T : ~(y < x)
  BY <1>2 DEF OpToRel
<1> QED BY <1>3

LEMMA SetInduction ==
  ASSUME NEW S, 0 \in S, \A n \in Nat : n \in S => n + 1 \in S
  PROVE  Nat \subseteq S
<1> SUFFICES ASSUME Nat \ S # {} PROVE FALSE
  OBVIOUS
<1>1. PICK x \in Nat \ S : \A y \in Nat \ S : x <= y
  BY LeastNumber
<1>2. x # 0 /\ x - 1 \in Nat /\ x - 1 \in S
  BY <1>1
<1> QED BY <1>1, <1>2

------------------------------------------------------------------------------
\* Fractions are compared without dividing.
Ratios == {p \in Nat \X Nat : p[2] > 0}

LEMMA AtMostTransitive ==
  ASSUME NEW p \in Ratios, NEW q \in Ratios, NEW r \in Ratios, AtMost(p, q), AtMost(q, r)
  PROVE  AtMost(p, r)
<1> DEFINE p1 == p[1]
           p2 == p[2]
           q1 == q[1]
           q2 == q[2]
           r1 == r[1]
           r2 == r[2]
<1>1. /\ p1 \in Nat /\ q1 \in Nat /\ r1 \in Nat
      /\ p2 \in Nat \ {0} /\ q2 \in Nat \ {0} /\ r2 \in Nat \ {0}
      /\ p1 * q2 <= q1 * p2 /\ q1 * r2 <= r1 * q2
  BY DEF Ratios, AtMost
<1> SUFFICES p1 * r2 <= r1 * p2
  BY DEF AtMost
<1> HIDE DEF p1, p2, q1, q2, r1, r2
<1>2. (p1 * q2) * r2 <= (q1 * p2) * r2 /\ (q1 * r2) * p2 <= (r1 * q2) * p2
  BY <1>1
<1>3. (p1 * r2) * q2 <= (r1 * p2) * q2
  BY <1>1, <1>2
<1> QED BY <1>1, <1>3

\* The fraction below the target and the one above it that a denominator offers.
LEMMA FloorCeil ==
  ASSUME NEW n \in Nat, NEW g \in Nat \ {0}, n < g, NEW a \in Nat \ {0}
  PROVE  LET t == <<n, g>>
         IN  /\ FloorOf(t, a)[2] = a /\ FloorOf(t, a)[1] \in 0..a - 1
             /\ CeilOf(t, a)[2] = a /\ CeilOf(t, a)[1] \in 0..a - 1
             /\ AtMost(FloorOf(t, a), t)
             /\ \A b \in 0..a - 1 : /\ b * g <= n * a => b <= FloorOf(t, a)[1]
                                    /\ b * g > n * a => b >= CeilOf(t, a)[1] /\ AtMost(t, CeilOf(t, a))
<1> DEFINE x == n * a
           d == x \div g
           e == (x + g - 1) \div g
<1>1. x \in Nat /\ x < g * a
  OBVIOUS
<1>2. d \in Nat /\ d * g <= x /\ x < (d + 1) * g
  <2> HIDE DEF x
  <2> QED BY <1>1
<1>3. e \in Nat /\ e * g <= x + g - 1 /\ x + g - 1 < (e + 1) * g
  <2> HIDE DEF x
  <2>1. x + g - 1 \in Nat
    BY <1>1
  <2> QED BY <2>1
<1>4. d <= a - 1
  BY <1>1, <1>2
<1>5. FloorOf(<<n, g>>, a) = <<d, a>>
  BY <1>4, <1>2 DEF FloorOf, AtMostLast
<1>6. CeilOf(<<n, g>>, a) = <<AtMostLast(e, a), a>>
  BY DEF CeilOf
<1>7. AtMostLast(e, a) \in 0..a - 1 /\ AtMostLast(e, a) <= e
  BY <1>3 DEF AtMostLast
<1>8. ASSUME NEW b \in 0..a - 1
      PROVE  /\ b * g <= n * a => b <= d
             /\ b * g > n * a => e <= b
  <2> HIDE DEF x, d, e
  <2>1. b * g <= x => b <= d
    <3> SUFFICES ASSUME b * g <= x, b >= d + 1 PROVE FALSE
      BY <1>2
    <3>1. b * g >= (d + 1) * g
      BY <1>2
    <3> QED BY <1>1, <1>2, <3>1
  <2>2. b * g > x => e <= b
    BY <1>3, <1>1
  <2> QED BY <2>1, <2>2 DEF x
<1>9. e <= a - 1 => n * a <= AtMostLast(e, a) * g
  <2>1. e <= a - 1 => AtMostLast(e, a) = e
    BY <1>3 DEF AtMostLast
  <2>2. x <= e * g
    <3> HIDE DEF x, e
    <3> QED BY <1>1, <1>3
  <2> QED BY <2>1, <2>2
<1> HIDE DEF d, e
<1>10. AtMost(<<d, a>>, <<n, g>>)
  BY <1>2 DEF AtMost
<1>11. e <= a - 1 => AtMost(<<n, g>>, <<AtMostLast(e, a), a>>)
  BY <1>9 DEF AtMost
<1> QED BY <1>2, <1>4, <1>5, <1>6, <1>7, <1>8, <1>10, <1>11, <1>3

\* What the bracket is once the denominators up to most have been tried: fractions of
\* these denominators around the target, with no other between one of them and it.
Brackets(c, t, most) ==
  /\ c.lo \in Ratios /\ c.lo[2] <= most /\ c.lo[1] < c.lo[2]
  /\ c.hi \in Ratios /\ c.hi[2] <= most /\ c.hi[1] <= c.hi[2]
  /\ AtMost(c.lo, t) /\ AtMost(t, c.hi)
  /\ \A a \in 2..most : \A b \in 0..a - 1 : AtMost(<<b, a>>, c.lo) \/ AtMost(c.hi, <<b, a>>)

LEMMA NarrowedKeeps ==
  ASSUME NEW n \in Nat, NEW g \in Nat \ {0}, n < g, NEW a \in Nat, a >= 2,
         NEW c, Brackets(c, <<n, g>>, a - 1)
  PROVE  Brackets(Narrowed(c, <<n, g>>, a), <<n, g>>, a)
<1> DEFINE t == <<n, g>>
           f == FloorOf(t, a)
           h == CeilOf(t, a)
           r == Narrowed(c, t, a)
<1>1. /\ f \in Ratios /\ f[2] = a /\ f[1] < a
      /\ h \in Ratios /\ h[2] = a /\ h[1] < a
      /\ AtMost(f, t)
  <2>1. f[2] = a /\ f[1] \in 0..a - 1 /\ h[2] = a /\ h[1] \in 0..a - 1 /\ AtMost(f, t)
    BY FloorCeil
  <2>2. f = <<f[1], f[2]>> /\ h = <<h[1], h[2]>>
    BY DEF FloorOf, CeilOf
  <2> HIDE DEF f, h
  <2> QED BY <2>1, <2>2 DEF Ratios
<1>2. \A b \in 0..a - 1 : /\ AtMost(<<b, a>>, t) => AtMost(<<b, a>>, f)
                          /\ ~AtMost(<<b, a>>, t) => AtMost(h, <<b, a>>) /\ AtMost(t, h)
  <2> SUFFICES ASSUME NEW b \in 0..a - 1
               PROVE  /\ AtMost(<<b, a>>, t) => AtMost(<<b, a>>, f)
                      /\ ~AtMost(<<b, a>>, t) => AtMost(h, <<b, a>>) /\ AtMost(t, h)
    OBVIOUS
  <2>1. /\ b * g <= n * a => b <= f[1]
        /\ b * g > n * a => b >= h[1] /\ AtMost(t, h)
    BY FloorCeil
  <2>2. AtMost(<<b, a>>, t) <=> b * g <= n * a
    BY DEF AtMost
  <2>3. ~(b * g <= n * a) => b * g > n * a
    OBVIOUS
  <2> HIDE DEF f, h, t
  <2>4. f[1] \in Nat /\ h[1] \in Nat
    BY <1>1 DEF Ratios
  <2>5. b <= f[1] => AtMost(<<b, a>>, f)
    BY <1>1, <2>4 DEF AtMost
  <2>6. b >= h[1] => AtMost(h, <<b, a>>)
    BY <1>1, <2>4 DEF AtMost
  <2> QED BY <2>1, <2>2, <2>3, <2>5, <2>6, Zenon
<1>3. t \in Ratios
  BY DEF Ratios
<1>4. /\ r.lo = IF AtMost(f, t) /\ Below(c.lo, f) THEN f ELSE c.lo
      /\ r.hi = IF AtMost(t, h) /\ Below(h, c.hi) THEN h ELSE c.hi
  BY DEF Narrowed
<1> HIDE DEF f, h, t, r
<1>5. /\ c.lo \in Ratios /\ c.lo[2] <= a - 1 /\ c.lo[1] < c.lo[2]
      /\ c.hi \in Ratios /\ c.hi[2] <= a - 1 /\ c.hi[1] <= c.hi[2]
      /\ AtMost(c.lo, t) /\ AtMost(t, c.hi)
      /\ \A x \in 2..a - 1 : \A b \in 0..x - 1 : AtMost(<<b, x>>, c.lo) \/ AtMost(c.hi, <<b, x>>)
  BY DEF Brackets, t
<1>6. \A p, q \in Ratios : (Below(p, q) => AtMost(p, q)) /\ (~Below(p, q) => AtMost(q, p)) /\ AtMost(p, p)
  BY DEF Ratios, Below, AtMost
<1>7. /\ r.lo \in Ratios /\ r.lo[2] <= a /\ r.lo[1] < r.lo[2] /\ AtMost(r.lo, t)
      /\ AtMost(c.lo, r.lo) /\ AtMost(f, r.lo)
  <2>1. CASE Below(c.lo, f)
    BY <1>1, <1>4, <1>5, <1>6, <2>1
  <2>2. CASE ~Below(c.lo, f)
    BY <1>1, <1>4, <1>5, <1>6, <2>2 DEF Ratios
  <2> QED BY <2>1, <2>2
<1>8. /\ r.hi \in Ratios /\ r.hi[2] <= a /\ r.hi[1] <= r.hi[2] /\ AtMost(t, r.hi)
      /\ AtMost(r.hi, c.hi) /\ (AtMost(t, h) => AtMost(r.hi, h))
  <2>1. CASE AtMost(t, h) /\ Below(h, c.hi)
    BY <1>1, <1>4, <1>5, <1>6, <2>1 DEF Ratios
  <2>2. CASE ~(AtMost(t, h) /\ Below(h, c.hi))
    BY <1>1, <1>4, <1>5, <1>6, <2>2 DEF Ratios
  <2> QED BY <2>1, <2>2
<1>9. \A x \in 2..a : \A b \in 0..x - 1 : AtMost(<<b, x>>, r.lo) \/ AtMost(r.hi, <<b, x>>)
  <2> SUFFICES ASSUME NEW x \in 2..a, NEW b \in 0..x - 1
               PROVE  AtMost(<<b, x>>, r.lo) \/ AtMost(r.hi, <<b, x>>)
    OBVIOUS
  <2>1. <<b, x>> \in Ratios
    BY DEF Ratios
  <2>2. AtMost(<<b, x>>, c.lo) => AtMost(<<b, x>>, r.lo)
    BY <1>5, <1>7, <2>1, AtMostTransitive
  <2>3. AtMost(c.hi, <<b, x>>) => AtMost(r.hi, <<b, x>>)
    BY <1>5, <1>8, <2>1, AtMostTransitive
  <2>4. CASE x \in 2..a - 1
    BY <1>5, <2>2, <2>3, <2>4
  <2>5. CASE x = a
    <3>1. AtMost(<<b, x>>, f) => AtMost(<<b, x>>, r.lo)
      BY <1>1, <1>7, <2>1, AtMostTransitive
    <3>2. AtMost(t, h) /\ AtMost(h, <<b, x>>) => AtMost(r.hi, <<b, x>>)
      BY <1>1, <1>8, <2>1, AtMostTransitive
    <3> QED BY <1>2, <2>5, <3>1, <3>2
  <2> QED BY <2>4, <2>5
<1> QED BY <1>7, <1>8, <1>9 DEF Brackets, r, t

\* The recursion the loop is written as has a value at every denominator.
Tries(t, most, bracket) ==
  bracket = [a \in 1..most |-> IF a = 1 THEN Widest ELSE Narrowed(bracket[a - 1], t, a)]

LEMMA BracketsExist ==
  ASSUME NEW t, NEW most \in Nat
  PROVE  \E bracket : Tries(t, most, bracket)
<1> DEFINE S == {m \in Nat : \E bracket : Tries(t, m, bracket)}
<1>1. 0 \in S
  <2>1. Tries(t, 0, [a \in 1..0 |-> Widest])
    BY DEF Tries
  <2> QED BY <2>1
<1>2. ASSUME NEW m \in Nat, m \in S
      PROVE  m + 1 \in S
  <2>1. PICK f : Tries(t, m, f)
    BY <1>2
  <2> DEFINE g == [a \in 1..m + 1 |-> IF a = 1 THEN Widest ELSE Narrowed(f[a - 1], t, a)]
  <2>2. \A a \in 1..m : g[a] = f[a]
    BY <2>1 DEF Tries
  <2>3. g = [a \in 1..m + 1 |-> IF a = 1 THEN Widest ELSE Narrowed(g[a - 1], t, a)]
    <3> HIDE DEF g
    <3>1. \A a \in 1..m + 1 : a # 1 => g[a - 1] = f[a - 1]
      BY <2>2
    <3> QED BY <3>1 DEF g
  <2> HIDE DEF g
  <2> QED BY <2>3 DEF Tries
<1> HIDE DEF S
<1>3. Nat \subseteq S
  BY <1>1, <1>2, SetInduction
<1> QED BY <1>3 DEF S

LEMMA BracketUpToIs ==
  ASSUME NEW t, NEW most \in Nat \ {0}
  PROVE  \E bracket : Tries(t, most, bracket) /\ BracketUpTo(t, most) = bracket[most]
<1> DEFINE bracket == CHOOSE f : f = [a \in 1..most |-> IF a = 1 THEN Widest ELSE Narrowed(f[a - 1], t, a)]
<1>1. Tries(t, most, bracket)
  <2>1. \E f : f = [a \in 1..most |-> IF a = 1 THEN Widest ELSE Narrowed(f[a - 1], t, a)]
    <3>1. PICK f : Tries(t, most, f)
      BY BracketsExist
    <3> QED BY <3>1 DEF Tries
  <2> QED BY <2>1, Zenon DEF Tries
<1>2. BracketUpTo(t, most) = bracket[most]
  BY DEF BracketUpTo
<1> QED BY <1>1, <1>2

\* pick_frac: the two fractions it returns lie around the target, and no fraction of an
\* admitted denominator lies between.
LEMMA BracketIs ==
  ASSUME NEW n \in Nat, NEW g \in Nat \ {0}, n < g
  PROVE  Brackets(Bracket(<<n, g>>), <<n, g>>, MaxDen)
<1>1. PICK bracket : Tries(<<n, g>>, MaxDen, bracket) /\ Bracket(<<n, g>>) = bracket[MaxDen]
  <2>1. MaxDen \in Nat \ {0}
    BY RateLockAssumption
  <2> QED BY <2>1, BracketUpToIs, Zenon DEF Bracket
<1> DEFINE S == {m \in Nat : m + 1 <= MaxDen => Brackets(bracket[m + 1], <<n, g>>, m + 1)}
<1>2. 0 \in S
  <2>1. bracket[1] = Widest
    BY <1>1, RateLockAssumption DEF Tries
  <2>2. Brackets(Widest, <<n, g>>, 1)
    BY DEF Brackets, Widest, Ratios, AtMost
  <2> QED BY <2>1, <2>2
<1>3. ASSUME NEW m \in Nat, m \in S
      PROVE  m + 1 \in S
  <2> SUFFICES ASSUME m + 2 <= MaxDen
               PROVE  Brackets(bracket[m + 2], <<n, g>>, m + 2)
    OBVIOUS
  <2>1. Brackets(bracket[m + 1], <<n, g>>, m + 1)
    BY <1>3, RateLockAssumption
  <2>2. bracket[m + 2] = Narrowed(bracket[m + 1], <<n, g>>, m + 2)
    <3>1. m + 2 \in 1..MaxDen /\ m + 2 # 1 /\ (m + 2) - 1 = m + 1
      BY RateLockAssumption
    <3> QED BY <1>1, <3>1 DEF Tries
  <2>3. (m + 2) - 1 = m + 1 /\ m + 2 \in Nat /\ m + 2 >= 2
    OBVIOUS
  <2> QED BY <2>1, <2>2, <2>3, NarrowedKeeps
<1> HIDE DEF S
<1>4. Nat \subseteq S
  BY <1>2, <1>3, SetInduction
<1>5. Brackets(bracket[MaxDen], <<n, g>>, MaxDen)
  <2>1. MaxDen - 1 \in S /\ (MaxDen - 1) + 1 = MaxDen
    BY <1>4, RateLockAssumption
  <2> QED BY <2>1, RateLockAssumption DEF S
<1> QED BY <1>1, <1>5

\* No target is so near to one that the fraction above it would have to be one.
LEMMA HighEnd ==
  ASSUME NEW n \in Targets
  PROVE  LET c == Bracket(<<n, Grid>>)
         IN  Same(c.lo, <<n, Grid>>) \/ c.hi[1] < c.hi[2]
<1> DEFINE t == <<n, Grid>>
           c == Bracket(t)
           top == <<MaxDen - 1, MaxDen>>
<1>1. n \in Nat /\ Grid \in Nat \ {0} /\ n * MaxDen <= Grid * (MaxDen - 1) /\ MaxDen \in Nat /\ MaxDen >= 2
  BY RateLockAssumption
<1>2. n < Grid
  BY <1>1
<1>3. Brackets(c, t, MaxDen)
  BY <1>1, <1>2, BracketIs
<1>4. t \in Ratios /\ top \in Ratios /\ AtMost(t, top)
  BY <1>1 DEF Ratios, AtMost
<1>5. /\ c.lo \in Ratios /\ c.hi \in Ratios /\ AtMost(c.lo, t)
      /\ AtMost(top, c.lo) \/ AtMost(c.hi, top)
  <2> HIDE DEF c, t
  <2>1. MaxDen \in 2..MaxDen /\ MaxDen - 1 \in 0..MaxDen - 1
    BY <1>1
  <2> QED BY <1>3, <2>1 DEF Brackets
<1>6. CASE AtMost(top, c.lo)
  <2> HIDE DEF c, t, top
  <2>1. AtMost(t, c.lo)
    BY <1>4, <1>5, <1>6, AtMostTransitive
  <2>2. Same(c.lo, t)
    BY <1>4, <1>5, <2>1 DEF AtMost, Same, Ratios
  <2> QED BY <2>2 DEF c, t
<1>7. CASE AtMost(c.hi, top)
  <2>1. c.hi[1] * MaxDen <= (MaxDen - 1) * c.hi[2]
    <3> HIDE DEF c
    <3> QED BY <1>7 DEF AtMost
  <2>2. c.hi[1] \in Nat /\ c.hi[2] \in Nat \ {0}
    BY <1>5 DEF Ratios
  <2>3. c.hi[1] < c.hi[2]
    <3> HIDE DEF c
    <3>1. ASSUME c.hi[1] >= c.hi[2] PROVE FALSE
      <4>1. c.hi[1] * MaxDen >= c.hi[2] * MaxDen
        BY <1>1, <2>2, <3>1
      <4>2. (MaxDen - 1) * c.hi[2] = c.hi[2] * MaxDen - c.hi[2]
        BY <1>1, <2>2
      <4> DEFINE x == c.hi[1] * MaxDen
                 y == c.hi[2] * MaxDen
      <4>3. x \in Int /\ y \in Int
        BY <1>1, <2>2
      <4>4. x <= y - c.hi[2] /\ x >= y
        BY <2>1, <4>1, <4>2
      <4> HIDE DEF x, y
      <4> QED BY <2>2, <4>3, <4>4
    <3> QED BY <2>2, <3>1
  <2> HIDE DEF c
  <2>4. c.hi[1] < c.hi[2]
    BY <2>3
  <2> QED BY <2>4 DEF c
<1> HIDE DEF c
<1> QED BY <1>5, <1>6, <1>7 DEF c
\* The Euclidean division the encoding rests on.
LEMMA Division ==
  ASSUME NEW a \in Nat, NEW z \in Nat, 0 < z, z <= a
  PROVE  /\ a \div z \in Nat /\ 1 <= a \div z /\ a \div z <= a
         /\ a % z \in 0..z - 1
         /\ (a \div z) * z + (a % z) = a
  OBVIOUS

\* The part of an admitted fraction that is encoded.
LEMMA SmallerPart ==
  ASSUME NEW a \in 2..MaxDen, NEW b \in 1..a - 1
  PROVE  /\ Smaller(b, a) \in 1..a - 1
         /\ b = IF 2 * b > a THEN a - Smaller(b, a) ELSE Smaller(b, a)
  BY RateLockAssumption DEF Smaller

\* encode_frac, decode_frac: a fraction with an admitted denominator comes back as it
\* went in, numerator and denominator both, through fields too narrow for the product.
THEOREM FractionSurvivesTheFields ==
  ASSUME NEW a \in 2..MaxDen, NEW b \in 1..a - 1
  PROVE  Decode(Encode(b, a)) = <<b, a>>
<1> DEFINE z == Smaller(b, a)
<1> DEFINE r == Encode(b, a)
<1>1. a \in Nat /\ z \in Nat /\ 0 < z /\ z < a /\ a < Field /\ b # 0 /\ b < a /\ Field \in Nat
  BY SmallerPart, RateLockAssumption
<1>2. /\ a \div z \in Nat /\ 1 <= a \div z /\ a \div z <= a /\ a % z \in 0..z - 1
      /\ (a \div z) * z + (a % z) = a
  BY <1>1, Division
<1>3. \A n \in 0..Field - 1 : n % Field = n
  BY <1>1
<1>4. r = [z |-> z, y |-> a % z, x |-> a \div z - 1, yn1 |-> 2 * b > a]
  <2>1. z \in 0..Field - 1 /\ a % z \in 0..Field - 1 /\ a \div z - 1 \in 0..Field - 1
    <3> HIDE DEF z
    <3> QED BY <1>1, <1>2
  <2>2. z % Field = z /\ (a % z) % Field = a % z /\ (a \div z - 1) % Field = a \div z - 1
    <3> HIDE DEF z
    <3> QED BY <2>1, <1>3, Zenon
  <2> QED BY <1>1, <2>2 DEF Encode
<1>5. r.z = z /\ r.y = a % z /\ r.x = a \div z - 1 /\ r.yn1 = (2 * b > a)
  BY <1>4
<1>6. (r.x + 1) * r.z + r.y = a
  BY <1>1, <1>2, <1>5
<1>7. b = IF r.yn1 THEN a - r.z ELSE r.z
  BY <1>5, SmallerPart
<1> QED BY <1>1, <1>5, <1>6, <1>7 DEF Decode

\* A value for the register, by its lowest terms or not, comes back as the same fraction.
LEMMA HeldInTheFields ==
  ASSUME NEW p \in Ratios, p[2] <= MaxDen, p[1] < p[2]
  PROVE  LET d == Decode(Encode(p[1], p[2]))
         IN  d[2] \in 1..MaxDen /\ d[1] \in 0..d[2] - 1 /\ Same(d, p)
<1>1. CASE p[1] = 0
  <2>1. Decode(Encode(p[1], p[2])) = <<0, 1>>
    BY <1>1 DEF Encode, Decode
  <2>2. 1 \in 1..MaxDen /\ Same(<<0, 1>>, p)
    BY <1>1, RateLockAssumption DEF Ratios, Same
  <2> QED BY <2>1, <2>2
<1>2. CASE p[1] # 0
  <2>1. p[2] \in 2..MaxDen /\ p[1] \in 1..p[2] - 1
    BY <1>2, RateLockAssumption DEF Ratios
  <2>2. Decode(Encode(p[1], p[2])) = <<p[1], p[2]>>
    BY <2>1, FractionSurvivesTheFields
  <2>3. Same(<<p[1], p[2]>>, p)
    BY DEF Same
  <2> QED BY <2>1, <2>2, <2>3, RateLockAssumption
<1> QED BY <1>1, <1>2

LEMMA SameTransitive ==
  ASSUME NEW p \in Ratios, NEW q \in Ratios, NEW r \in Ratios, Same(p, q), Same(q, r)
  PROVE  Same(p, r)
<1>1. AtMost(p, q) /\ AtMost(q, r) /\ AtMost(r, q) /\ AtMost(q, p)
  BY DEF Same, AtMost, Ratios
<1>2. AtMost(p, r) /\ AtMost(r, p)
  BY <1>1, AtMostTransitive
<1> QED BY <1>2 DEF Same, AtMost, Ratios

\* The duty of a target between the ends is no more than whole.
LEMMA DutyType ==
  ASSUME NEW t \in Ratios, NEW c, c.lo \in Ratios, c.hi \in Ratios, Below(c.lo, t), Below(t, c.hi)
  PROVE  Duty(t, c) \in 0..Quantum
<1> DEFINE t1 == t[1]
           t2 == t[2]
           l1 == c.lo[1]
           l2 == c.lo[2]
           h1 == c.hi[1]
           h2 == c.hi[2]
           p == (t1 * l2 - l1 * t2) * h2
           g == (h1 * l2 - l1 * h2) * t2
<1>1. /\ t1 \in Nat /\ l1 \in Nat /\ h1 \in Nat
      /\ t2 \in Nat \ {0} /\ l2 \in Nat \ {0} /\ h2 \in Nat \ {0}
      /\ l1 * t2 < t1 * l2 /\ t1 * h2 < h1 * t2
  BY DEF Ratios, Below
<1>2. Duty(t, c) = (2 * p * Quantum + g) \div (2 * g)
  BY DEF Duty
<1> HIDE DEF t1, t2, l1, l2, h1, h2
<1>3. p \in Int /\ p > 0
  <2>1. t1 * l2 - l1 * t2 \in Int /\ t1 * l2 - l1 * t2 > 0
    BY <1>1
  <2> QED BY <1>1, <2>1
<1>4. g \in Int /\ g - p = (h1 * t2 - t1 * h2) * l2
  BY <1>1
<1>5. g > p
  <2>1. h1 * t2 - t1 * h2 \in Int /\ h1 * t2 - t1 * h2 > 0
    BY <1>1
  <2>2. (h1 * t2 - t1 * h2) * l2 > 0
    BY <1>1, <2>1
  <2> QED BY <1>3, <1>4, <2>2
<1> HIDE DEF p, g
<1>6. Quantum \in Nat
  BY RateLockAssumption
<1> DEFINE x == 2 * p * Quantum + g
<1>7. x \in Nat /\ x < (Quantum + 1) * (2 * g)
  <2>1. 2 * p * Quantum <= 2 * g * Quantum /\ 2 * p * Quantum >= 0 /\ 2 * p * Quantum \in Int
    BY <1>3, <1>4, <1>5, <1>6
  <2>2. (Quantum + 1) * (2 * g) = 2 * g * Quantum + 2 * g
    BY <1>4, <1>6
  <2> DEFINE y == 2 * p * Quantum
             z == 2 * g * Quantum
  <2>3. z \in Int /\ y \in Int /\ y <= z /\ y >= 0 /\ x = y + g /\ (Quantum + 1) * (2 * g) = z + 2 * g
    BY <1>4, <1>6, <2>1, <2>2
  <2> HIDE DEF x, y, z
  <2> QED BY <1>3, <1>4, <1>5, <2>3
<1>8. 2 * g \in Nat \ {0}
  BY <1>3, <1>4, <1>5
<1> HIDE DEF x
<1>9. \A k \in Nat \ {0} : x < (Quantum + 1) * k => x \div k \in 0..Quantum
  <2> SUFFICES ASSUME NEW k \in Nat \ {0}, x < (Quantum + 1) * k
               PROVE  x \div k \in 0..Quantum
    OBVIOUS
  <2>1. x \div k \in Nat /\ (x \div k) * k <= x
    BY <1>7
  <2>2. ASSUME x \div k >= Quantum + 1 PROVE FALSE
    <3>1. (x \div k) * k >= (Quantum + 1) * k
      BY <1>6, <2>1, <2>2
    <3> QED BY <1>6, <1>7, <2>1, <3>1
  <2> QED BY <1>6, <2>1, <2>2
<1> QED BY <1>2, <1>7, <1>8, <1>9 DEF x

\* The accumulator is the shortfall itself.
Shortfall == acc = owed /\ acc \in 0..Quantum - 1

\* A dithered target has its bracket, both ends of which the register can hold.
Ends(d) ==
  /\ Brackets([lo |-> d.lo, hi |-> d.hi], d.target, MaxDen)
  /\ Below(d.lo, d.target) /\ Below(d.target, d.hi)
  /\ d.hi[1] < d.hi[2]

Dithered ==
  /\ dither.on \in BOOLEAN /\ dither.duty \in 0..Quantum /\ dither.target \in Ratios
  /\ dither.on => Ends(dither)

LEMMA LockBegins == LockInit => Shortfall /\ Dithered /\ RegisterIsHeld
<1> SUFFICES ASSUME LockInit PROVE Shortfall /\ Dithered /\ RegisterIsHeld
  OBVIOUS
<1>1. Shortfall
  BY RateLockAssumption DEF LockInit, Shortfall
<1>2. dither.on = FALSE /\ dither.duty = 0 /\ dither.target = <<0, Grid>>
  BY DEF LockInit
<1>3. Dithered
  <2>1. dither.on \in BOOLEAN /\ ~dither.on
    BY <1>2, Zenon
  <2> QED BY <1>2, <2>1, RateLockAssumption DEF Dithered, Ratios
<1>4. RegisterIsHeld
  <2>1. Decode(register) = <<0, 1>>
    BY DEF LockInit, Encode, Decode
  <2> QED BY <1>2, <2>1, RateLockAssumption DEF RegisterIsHeld, Same
<1> QED BY <1>1, <1>3, <1>4

LEMMA SetTrimKeeps ==
  ASSUME Shortfall, Dithered, RegisterIsHeld, NEW n \in Targets, SetTrim(<<n, Grid>>)
  PROVE  (Shortfall /\ Dithered /\ RegisterIsHeld)'
<1> DEFINE t == <<n, Grid>>
           c == Bracket(t)
           one == IF Same(c.lo, t) THEN c.lo ELSE c.hi
<1>1. n \in Nat /\ Grid \in Nat \ {0} /\ n < Grid /\ t \in Ratios
  BY RateLockAssumption DEF Ratios
<1>2. Brackets(c, t, MaxDen)
  BY <1>1, BracketIs
<1>3. Same(c.lo, t) \/ c.hi[1] < c.hi[2]
  BY HighEnd
<1>4. /\ IF Same(c.lo, t) \/ Same(c.hi, t)
         THEN /\ dither' = [dither EXCEPT !.on = FALSE, !.target = t]
              /\ register' = Encode(one[1], one[2])
         ELSE /\ dither' = [on |-> TRUE, target |-> t, lo |-> c.lo, hi |-> c.hi, duty |-> Duty(t, c)]
              /\ UNCHANGED register
      /\ UNCHANGED <<acc, owed>>
  BY DEF SetTrim
<1> HIDE DEF t, c
<1>5. c.lo \in Ratios /\ c.lo[2] <= MaxDen /\ c.lo[1] < c.lo[2] /\ c.hi \in Ratios /\ c.hi[2] <= MaxDen
      /\ AtMost(c.lo, t) /\ AtMost(t, c.hi)
  BY <1>2 DEF Brackets
<1>6. Shortfall'
  BY <1>4 DEF Shortfall
<1>7. CASE Same(c.lo, t) \/ Same(c.hi, t)
  <2>1. one \in Ratios /\ one[2] <= MaxDen /\ one[1] < one[2] /\ Same(one, t)
    BY <1>3, <1>5, <1>7
  <2>2. dither' = [dither EXCEPT !.on = FALSE, !.target = t] /\ register' = Encode(one[1], one[2])
    BY <1>4, <1>7
  <2> HIDE DEF one
  <2>3. LET d == Decode(register')
        IN  d[2] \in 1..MaxDen /\ d[1] \in 0..d[2] - 1 /\ Same(d, one)
    BY <2>1, <2>2, HeldInTheFields
  <2>4. Decode(register') \in Ratios
    <3>1. Decode(register') = <<Decode(register')[1], Decode(register')[2]>>
      BY DEF Decode
    <3> QED BY <2>3, <3>1, RateLockAssumption DEF Ratios
  <2>5. Same(Decode(register'), t)
    BY <1>1, <2>1, <2>3, <2>4, SameTransitive
  <2>6. dither'.target = t /\ dither'.duty = dither.duty /\ dither'.on = FALSE
    BY <2>2
  <2>7. Dithered'
    <3>1. dither'.on \in BOOLEAN /\ ~dither'.on
      BY <2>6, Zenon
    <3> QED BY <1>1, <2>6, <3>1 DEF Dithered
  <2> QED BY <1>6, <2>3, <2>5, <2>6, <2>7 DEF RegisterIsHeld
<1>8. CASE ~(Same(c.lo, t) \/ Same(c.hi, t))
  <2>1. /\ dither' = [on |-> TRUE, target |-> t, lo |-> c.lo, hi |-> c.hi, duty |-> Duty(t, c)]
        /\ UNCHANGED register
    BY <1>4, <1>8
  <2>2. /\ dither'.on = TRUE /\ dither'.target = t /\ dither'.lo = c.lo /\ dither'.hi = c.hi
        /\ dither'.duty = Duty(t, c)
    BY <2>1
  <2>3. Below(c.lo, t) /\ Below(t, c.hi) /\ c.hi[1] < c.hi[2]
    BY <1>1, <1>3, <1>5, <1>8 DEF Ratios, AtMost, Below, Same
  <2>4. Duty(t, c) \in 0..Quantum
    BY <1>1, <1>5, <2>3, DutyType
  <2>5. Ends(dither')
    <3>1. Brackets([lo |-> c.lo, hi |-> c.hi], t, MaxDen)
      BY <1>2 DEF Brackets
    <3> QED BY <2>2, <2>3, <3>1 DEF Ends
  <2>6. Dithered'
    <3>1. dither'.on \in BOOLEAN
      BY <2>2, Zenon
    <3> QED BY <1>1, <2>2, <2>4, <2>5, <3>1 DEF Dithered
  <2>7. RegisterIsHeld'
    BY <2>1, <2>2 DEF RegisterIsHeld
  <2> QED BY <1>6, <2>6, <2>7
<1> QED BY <1>7, <1>8

LEMMA TickKeeps ==
  ASSUME Shortfall, Dithered, RegisterIsHeld, Tick
  PROVE  (Shortfall /\ Dithered /\ RegisterIsHeld)'
<1>1. Shortfall'
  BY RateLockAssumption DEF Tick, Carries, Shortfall, Dithered
<1>2. PICK end \in {dither.lo, dither.hi} : register' = Encode(end[1], end[2])
  BY DEF Tick
<1>3. dither.on /\ dither' = dither
  BY DEF Tick
<1>4. end \in Ratios /\ end[2] <= MaxDen /\ end[1] < end[2]
  BY <1>2, <1>3 DEF Dithered, Ends, Brackets
<1>5. LET d == Decode(register')
      IN  d[2] \in 1..MaxDen /\ d[1] \in 0..d[2] - 1
  BY <1>2, <1>4, HeldInTheFields
<1> QED BY <1>1, <1>3, <1>5 DEF Dithered, RegisterIsHeld

\* set_trim_ppm and tick: the register holds what was asked for or an end of the
\* tightest bracket of it, and the ticks that alternate between the ends never differ
\* by as much as one from those asked for; for every denominator that is admitted, every
\* width of the fields that takes it and every resolution of the duty.
THEOREM LockHoldsTheTrim == Spec => []TrimIsHeld
<1> DEFINE Inv == Shortfall /\ Dithered /\ RegisterIsHeld
<1>1. Init => Inv
  BY LockBegins DEF Init
<1>2. Inv /\ [Next]_vars => Inv'
  <2> SUFFICES ASSUME Inv, [Next]_vars PROVE Inv'
    OBVIOUS
  <2>1. CASE UNCHANGED lockVars
    BY <2>1 DEF lockVars, Shortfall, Dithered, RegisterIsHeld
  <2> QED BY <2>1, LockSteps, SetTrimKeeps, TickKeeps DEF LockNext
<1>3. Inv => TrimIsHeld
  <2> SUFFICES ASSUME Inv PROVE LockTypeOK /\ RegisterIsHeld /\ BracketIsTight /\ WithinOneTick
    BY DEF TrimIsHeld
  <2>1. LockTypeOK
    BY DEF LockTypeOK, Dithered, Shortfall
  <2>2. WithinOneTick
    BY RateLockAssumption DEF WithinOneTick, Shortfall
  <2>3. BracketIsTight
    <3> SUFFICES ASSUME dither.on
                 PROVE  /\ Below(dither.lo, dither.target) /\ Below(dither.target, dither.hi)
                        /\ \A f \in Representable : AtMost(f, dither.lo) \/ AtMost(dither.hi, f)
      BY DEF BracketIsTight
    <3>1. Ends(dither)
      BY DEF Dithered
    <3> QED BY <3>1 DEF Ends, Brackets, Representable
  <2> QED BY <2>1, <2>2, <2>3
<1> QED BY <1>1, <1>2, <1>3, PTL DEF Spec

------------------------------------------------------------------------------
\* The entities and their settings. First what an accepted configuration gives, and
\* what an option of a select stands for.
LEMMA WithinIs ==
  ASSUME NEW t, NEW lo \in Int, NEW hi \in Int, Within(t, lo, hi)
  PROVE  t \in Int
BY SMT DEF Within

LEMMA FirmwareIs ==
  ASSUME NEW f \in Firmwares
  PROVE  /\ f.modes["channel"] \in {"stereo", "left", "right", "mono"}
         /\ f.modes["phase"] \in {"none", "left", "right", "both"}
         /\ f.modes["pause"] \in {"allow", "resume", "ignore"}
         /\ f.modes["resilience"] \in {"mute_on_storm", "play_through_storms", "never_mute"}
         /\ f.deadband \in Int /\ f.hard \in Int /\ 2 * f.deadband < f.hard * 1000
<1>1. PICK y \in Boards : Accepted(y) /\ f = ToCode(y)
  BY DEF Firmwares, Builds
<1>2. /\ f.modes = [channel |-> y.channel, phase |-> y.phase, pause |-> y.pause,
                    resilience |-> y.resilience]
      /\ f.deadband = y.deadband /\ f.hard = y.hard \div 1000
  BY <1>1 DEF ToCode
<1>3. /\ f.modes["channel"] = y.channel /\ f.modes["phase"] = y.phase
      /\ f.modes["pause"] = y.pause /\ f.modes["resilience"] = y.resilience
  BY <1>2
<1>4. y.deadband \in Int /\ y.fine \in Int /\ y.hard \in Int
  <2>1. SyncSchema(y)
    BY <1>1 DEF Accepted
  <2>2. /\ Within(y.deadband, 100, 20000) /\ Within(y.fine, 250, 50000)
        /\ Within(y.hard, 10000, 1000000)
    BY <2>1, SMT DEF SyncSchema
  <2> QED BY <2>2, WithinIs
<1>5. 2 * y.deadband < y.fine /\ y.fine < (y.hard \div 1000) * 1000
  BY <1>1 DEF Accepted, ConvergenceBands
<1> QED BY <1>1, <1>2, <1>3, <1>4, <1>5 DEF Accepted, ModeSchema

LEMMA OptionsAre ==
  ASSUME NEW f, f.kind \in Indexed
  PROVE  /\ f.kind = "channel" /\ f.mono => OptionsOf(f) = <<"Mix", "Left", "Right">>
         /\ f.kind = "channel" /\ ~f.mono => OptionsOf(f) = <<"Stereo", "Left", "Right", "Mono">>
         /\ f.kind = "phase" /\ f.mono => OptionsOf(f) = <<"None", "Inverted">>
         /\ f.kind = "phase" /\ ~f.mono => OptionsOf(f) = <<"None", "Left", "Right", "Both">>
         /\ f.kind = "pause" => OptionsOf(f) = <<"Allow", "Resume", "Ignore">>
         /\ f.kind = "resilience"
              => OptionsOf(f) = <<"Mute on storms", "Play through storms", "Never mute">>
BY DEF OptionsOf, Indexed

LEMMA CountOf ==
  ASSUME NEW s, NEW a, NEW b, NEW c, NEW d, s \in {<<a, b>>, <<a, b, c>>, <<a, b, c, d>>}
  PROVE  Len(s) \in Nat \ {0} /\ DOMAIN s = 1..Len(s) /\ s # <<>>
<1>1. CASE s = <<a, b>>
  BY <1>1
<1>2. CASE s = <<a, b, c>>
  BY <1>2
<1>3. CASE s = <<a, b, c, d>>
  BY <1>3
<1> QED BY <1>1, <1>2, <1>3

LEMMA OptionsCount ==
  ASSUME NEW f, f.kind \in Indexed
  PROVE  /\ Len(OptionsOf(f)) \in Nat \ {0}
         /\ DOMAIN OptionsOf(f) = 1..Len(OptionsOf(f))
         /\ OptionsOf(f) # <<>>
<1>1. \E a, b, c, d : OptionsOf(f) \in {<<a, b>>, <<a, b, c>>, <<a, b, c, d>>}
  <2>1. CASE f.kind = "channel" /\ f.mono
    <3>1. OptionsOf(f) = <<"Mix", "Left", "Right">>
      BY <2>1, OptionsAre
    <3> QED BY <3>1
  <2>2. CASE f.kind = "channel" /\ ~f.mono
    <3>1. OptionsOf(f) = <<"Stereo", "Left", "Right", "Mono">>
      BY <2>2, OptionsAre
    <3> QED BY <3>1
  <2>3. CASE f.kind = "phase" /\ f.mono
    <3>1. OptionsOf(f) = <<"None", "Inverted">>
      BY <2>3, OptionsAre
    <3> QED BY <3>1, Zenon
  <2>4. CASE f.kind = "phase" /\ ~f.mono
    <3>1. OptionsOf(f) = <<"None", "Left", "Right", "Both">>
      BY <2>4, OptionsAre
    <3> QED BY <3>1
  <2>5. CASE f.kind = "pause"
    <3>1. OptionsOf(f) = <<"Allow", "Resume", "Ignore">>
      BY <2>5, OptionsAre
    <3> QED BY <3>1
  <2>6. CASE f.kind = "resilience"
    <3>1. OptionsOf(f) = <<"Mute on storms", "Play through storms", "Never mute">>
      BY <2>6, OptionsAre
    <3> QED BY <3>1
  <2> QED BY <2>1, <2>2, <2>3, <2>4, <2>5, <2>6 DEF Indexed
<1> QED BY <1>1, CountOf

LEMMA ModesAre ==
  ASSUME NEW f, f.kind \in Indexed
  PROVE  /\ f.kind = "channel" /\ f.mono => \A i : ModeAt(f, i) = <<"mono", "left", "right">>[i]
         /\ f.kind = "channel" /\ ~f.mono
              => \A i : ModeAt(f, i) = <<"stereo", "left", "right", "mono">>[i]
         /\ f.kind = "phase" /\ f.mono => \A i : ModeAt(f, i) = <<"none", "both">>[i]
         /\ f.kind = "phase" /\ ~f.mono
              => \A i : ModeAt(f, i) = <<"none", "left", "right", "both">>[i]
         /\ f.kind = "pause" => \A i : ModeAt(f, i) = <<"allow", "resume", "ignore">>[i]
         /\ f.kind = "resilience"
              => \A i : ModeAt(f, i) = <<"mute_on_storm", "play_through_storms", "never_mute">>[i]
BY DEF ModeAt, Modes, Indexed

LEMMA IndexIs ==
  ASSUME NEW s, NEW e, \E i \in DOMAIN s : s[i] = e
  PROVE  Index(s, e) \in DOMAIN s /\ s[Index(s, e)] = e
BY DEF Index


LEMMA ThreeOptions ==
  ASSUME NEW a, NEW b, NEW c
  PROVE  Len(<<a, b, c>>) = 3 /\ DOMAIN <<a, b, c>> = 1..3
OBVIOUS

LEMMA OneOfThree ==
  ASSUME NEW a, NEW b, NEW c, a # b, a # c, b # c,
         NEW s, s = <<a, b, c>>, NEW i \in 1..3
  PROVE  Index(s, s[i]) = i
<1> DEFINE j == Index(s, s[i])
<1>1. \E k \in DOMAIN s : s[k] = s[i]
  OBVIOUS
<1>2. j \in DOMAIN s /\ s[j] = s[i]
  BY <1>1, IndexIs
<1> QED BY <1>2

LEMMA InitialIsListed ==
  ASSUME NEW f \in Firmwares, f.kind \in Indexed
  PROVE  InitialIndex(f) \in 1..Len(OptionsOf(f))
<1>1. CASE f.kind = "channel" /\ f.mono
  <2>1. InitialIndex(f) \in 1..3
    <3>1. InitialIndex(f) = IF f.modes[f.kind] = "left" THEN 2
                            ELSE IF f.modes[f.kind] = "right" THEN 3 ELSE 1
      BY <1>1, Zenon DEF InitialIndex
    <3> QED BY <3>1
  <2>2. OptionsOf(f) = <<"Mix", "Left", "Right">>
    BY <1>1, OptionsAre
  <2> QED BY <2>1, <2>2
<1>2. CASE f.kind = "channel" /\ ~f.mono
  <2>1. InitialIndex(f) = Index(<<"stereo", "left", "right", "mono">>, f.modes["channel"])
    <3>1. InitialIndex(f) = Index(Modes(f.kind), f.modes[f.kind])
      BY <1>2, Zenon DEF InitialIndex
    <3> QED BY <1>2, <3>1, Zenon DEF Modes
  <2>2. OptionsOf(f) = <<"Stereo", "Left", "Right", "Mono">>
    BY <1>2, OptionsAre
  <2>3. InitialIndex(f) \in DOMAIN <<"stereo", "left", "right", "mono">>
    <3>1. \E i \in DOMAIN <<"stereo", "left", "right", "mono">> :
            <<"stereo", "left", "right", "mono">>[i] = f.modes["channel"]
      BY FirmwareIs
    <3> QED BY <3>1, <2>1, IndexIs
  <2> QED BY <2>2, <2>3
<1>3. CASE f.kind = "phase" /\ f.mono
  <2>1. InitialIndex(f) \in 1..2
    <3>1. InitialIndex(f) = IF f.modes[f.kind] = "none" THEN 1 ELSE 2
      BY <1>3, Zenon DEF InitialIndex
    <3> QED BY <3>1
  <2>2. OptionsOf(f) = <<"None", "Inverted">>
    BY <1>3, OptionsAre
  <2> QED BY <2>1, <2>2
<1>4. CASE f.kind = "phase" /\ ~f.mono
  <2>1. InitialIndex(f) = Index(<<"none", "left", "right", "both">>, f.modes["phase"])
    <3>1. InitialIndex(f) = Index(Modes(f.kind), f.modes[f.kind])
      BY <1>4, Zenon DEF InitialIndex
    <3> QED BY <1>4, <3>1, Zenon DEF Modes
  <2>2. OptionsOf(f) = <<"None", "Left", "Right", "Both">>
    BY <1>4, OptionsAre
  <2>3. InitialIndex(f) \in DOMAIN <<"none", "left", "right", "both">>
    <3>1. \E i \in DOMAIN <<"none", "left", "right", "both">> :
            <<"none", "left", "right", "both">>[i] = f.modes["phase"]
      BY FirmwareIs
    <3> QED BY <3>1, <2>1, IndexIs
  <2> QED BY <2>2, <2>3
<1>5. CASE f.kind = "pause"
  <2>1. InitialIndex(f) = Index(<<"allow", "resume", "ignore">>, f.modes["pause"])
    <3>1. InitialIndex(f) = Index(Modes(f.kind), f.modes[f.kind])
      BY <1>5, Zenon DEF InitialIndex
    <3> QED BY <1>5, <3>1, Zenon DEF Modes
  <2>2. OptionsOf(f) = <<"Allow", "Resume", "Ignore">>
    BY <1>5, OptionsAre
  <2>3. InitialIndex(f) \in DOMAIN <<"allow", "resume", "ignore">>
    <3>1. \E i \in DOMAIN <<"allow", "resume", "ignore">> :
            <<"allow", "resume", "ignore">>[i] = f.modes["pause"]
      BY FirmwareIs
    <3> QED BY <3>1, <2>1, IndexIs
  <2> QED BY <2>2, <2>3
<1>6. CASE f.kind = "resilience"
  <2>1. InitialIndex(f)
          = Index(<<"mute_on_storm", "play_through_storms", "never_mute">>, f.modes["resilience"])
    <3>1. InitialIndex(f) = Index(Modes(f.kind), f.modes[f.kind])
      BY <1>6, Zenon DEF InitialIndex
    <3> QED BY <1>6, <3>1, Zenon DEF Modes
  <2>2. OptionsOf(f) = <<"Mute on storms", "Play through storms", "Never mute">>
    BY <1>6, OptionsAre
  <2>3. InitialIndex(f) \in DOMAIN <<"mute_on_storm", "play_through_storms", "never_mute">>
    <3>1. \E i \in DOMAIN <<"mute_on_storm", "play_through_storms", "never_mute">> :
            <<"mute_on_storm", "play_through_storms", "never_mute">>[i] = f.modes["resilience"]
      BY FirmwareIs
    <3> QED BY <3>1, <2>1, IndexIs
  <2>4. Len(<<"Mute on storms", "Play through storms", "Never mute">>) = 3
    BY ThreeOptions, Zenon
  <2>5. InitialIndex(f) \in 1..3
    BY <2>3
  <2> QED BY <2>2, <2>4, <2>5, Zenon
<1> QED BY <1>1, <1>2, <1>3, <1>4, <1>5, <1>6 DEF Indexed

LEMMA BootIsListed ==
  ASSUME NEW f \in Firmwares, f.kind \in Indexed, NEW s, s.select \in (Nat \ {0}) \union {None}
  PROVE  /\ BootIndex(f, s) \in 1..Len(OptionsOf(f))
         /\ f.restore /\ s.select # None /\ s.select <= Len(OptionsOf(f))
              => BootIndex(f, s) = s.select
<1>1. CASE f.restore /\ s.select # None /\ s.select <= Len(OptionsOf(f))
  BY <1>1, OptionsCount DEF BootIndex
<1>2. CASE ~(f.restore /\ s.select # None /\ s.select <= Len(OptionsOf(f)))
  <2>1. BootIndex(f, s) = InitialIndex(f)
    BY <1>2 DEF BootIndex
  <2> QED BY <2>1, <1>2, InitialIsListed
<1> QED BY <1>1, <1>2

\* An option of an enum's select says the mode of its index.
LEMMA ModeIsSaid ==
  ASSUME firmware.kind \in Indexed, NEW i \in 1..Len(OptionsOf(firmware))
  PROVE  ModeAt(firmware, i) = Says(firmware.kind, OptionsOf(firmware)[i])
<1>1. CASE firmware.kind = "channel" /\ firmware.mono
  <2>1. OptionsOf(firmware) = <<"Mix", "Left", "Right">>
    BY <1>1, OptionsAre
  <2>2. i \in 1..3 /\ ModeAt(firmware, i) = <<"mono", "left", "right">>[i]
    BY <1>1, <2>1, ModesAre
  <2>3. Says(firmware.kind, OptionsOf(firmware)[i])
          = [Stereo |-> "stereo", Mix |-> "mono", Mono |-> "mono", Left |-> "left", Right |-> "right"]
              [<<"Mix", "Left", "Right">>[i]]
    BY <1>1, <2>1, Zenon DEF Says
  <2> QED BY <2>2, <2>3
<1>2. CASE firmware.kind = "channel" /\ ~firmware.mono
  <2>1. OptionsOf(firmware) = <<"Stereo", "Left", "Right", "Mono">>
    BY <1>2, OptionsAre
  <2>2. i \in 1..4 /\ ModeAt(firmware, i) = <<"stereo", "left", "right", "mono">>[i]
    BY <1>2, <2>1, ModesAre
  <2>3. Says(firmware.kind, OptionsOf(firmware)[i])
          = [Stereo |-> "stereo", Mix |-> "mono", Mono |-> "mono", Left |-> "left", Right |-> "right"]
              [<<"Stereo", "Left", "Right", "Mono">>[i]]
    BY <1>2, <2>1, Zenon DEF Says
  <2> QED BY <2>2, <2>3
<1>3. CASE firmware.kind = "phase" /\ firmware.mono
  <2>1. OptionsOf(firmware) = <<"None", "Inverted">>
    BY <1>3, OptionsAre
  <2>2. i \in 1..2 /\ ModeAt(firmware, i) = <<"none", "both">>[i]
    BY <1>3, <2>1, ModesAre
  <2>3. Says(firmware.kind, OptionsOf(firmware)[i])
          = [None |-> "none", Inverted |-> "both", Both |-> "both", Left |-> "left", Right |-> "right"]
              [<<"None", "Inverted">>[i]]
    BY <1>3, <2>1, Zenon DEF Says
  <2> QED BY <2>2, <2>3
<1>4. CASE firmware.kind = "phase" /\ ~firmware.mono
  <2>1. OptionsOf(firmware) = <<"None", "Left", "Right", "Both">>
    BY <1>4, OptionsAre
  <2>2. i \in 1..4 /\ ModeAt(firmware, i) = <<"none", "left", "right", "both">>[i]
    BY <1>4, <2>1, ModesAre
  <2>3. Says(firmware.kind, OptionsOf(firmware)[i])
          = [None |-> "none", Inverted |-> "both", Both |-> "both", Left |-> "left", Right |-> "right"]
              [<<"None", "Left", "Right", "Both">>[i]]
    BY <1>4, <2>1, Zenon DEF Says
  <2> QED BY <2>2, <2>3
<1>5. CASE firmware.kind = "pause"
  <2>1. OptionsOf(firmware) = <<"Allow", "Resume", "Ignore">>
    BY <1>5, OptionsAre
  <2>2. i \in 1..3 /\ ModeAt(firmware, i) = <<"allow", "resume", "ignore">>[i]
    BY <1>5, <2>1, ModesAre
  <2>3. Index(OptionsOf(firmware), OptionsOf(firmware)[i]) = i
    <3>1. i \in 1..3
      BY <2>2
    <3>2. PICK a, b, c : OptionsOf(firmware) = <<a, b, c>> /\ a # b /\ a # c /\ b # c
      BY <2>1, Zenon
    <3> QED BY <3>1, <3>2, OneOfThree
  <2>4. Modes(firmware.kind) = <<"allow", "resume", "ignore">>
    BY <1>5, Zenon DEF Modes
  <2>5. Says(firmware.kind, OptionsOf(firmware)[i])
          = Modes(firmware.kind)[Index(OptionsOf(firmware), OptionsOf(firmware)[i])]
    BY <1>5, Zenon DEF Says
  <2> QED BY <2>2, <2>3, <2>4, <2>5, Zenon
<1>6. CASE firmware.kind = "resilience"
  <2>1. OptionsOf(firmware) = <<"Mute on storms", "Play through storms", "Never mute">>
    BY <1>6, OptionsAre
  <2>2. /\ i \in 1..3
        /\ ModeAt(firmware, i) = <<"mute_on_storm", "play_through_storms", "never_mute">>[i]
    <3>1. Len(<<"Mute on storms", "Play through storms", "Never mute">>) = 3
      BY ThreeOptions, Zenon
    <3> QED BY <1>6, <2>1, <3>1, ModesAre, Zenon
  <2>3. Index(OptionsOf(firmware), OptionsOf(firmware)[i]) = i
    <3>1. i \in 1..3
      BY <2>2
    <3>2. PICK a, b, c : OptionsOf(firmware) = <<a, b, c>> /\ a # b /\ a # c /\ b # c
      BY <2>1, Zenon
    <3> QED BY <3>1, <3>2, OneOfThree
  <2>4. Modes(firmware.kind) = <<"mute_on_storm", "play_through_storms", "never_mute">>
    BY <1>6, Zenon DEF Modes
  <2>5. Says(firmware.kind, OptionsOf(firmware)[i])
          = Modes(firmware.kind)[Index(OptionsOf(firmware), OptionsOf(firmware)[i])]
    BY <1>6, Zenon DEF Says
  <2> QED BY <2>2, <2>3, <2>4, <2>5, Zenon
<1> QED BY <1>1, <1>2, <1>3, <1>4, <1>5, <1>6 DEF Indexed

------------------------------------------------------------------------------
\* What holds of an entity between any two steps. Flash, and what the power does not
\* take of it: a choice is an index or an option, by the kind of the entity.
InFlash(f, s) ==
  /\ DOMAIN s = {"select", "text", "number", "crystal"}
  /\ s.crystal \in (-Limit..Limit) \union {None}
  /\ f.kind \in Indexed => s.select \in (Nat \ {0}) \union {None}
  /\ f.kind = "server" => s.select \in PickerOptions \union {None}

Shapes ==
  /\ firmware \in Firmwares /\ restored \in BOOLEAN
  /\ DOMAIN hub = {"mode", "selected", "manual", "number", "crystal", "saved"}
  /\ DOMAIN shown = {"option", "text", "number"}
  /\ DOMAIN typed = {"crystal", "tuned"}
  /\ InFlash(firmware, flash) /\ InFlash(firmware, nvs)

\* An entity that offers options has one of them active.
HasOption(f, l, p) ==
  IF f.kind \in Indexed \union {"server"}
  THEN l # <<>> /\ Len(l) \in Nat /\ DOMAIN l = 1..Len(l) /\ p.option \in 1..Len(l)
  ELSE l = <<>> /\ p.option = 0

\* A select over an enum: the hub plays the option shown, which is the choice made last;
\* flash holds its index.
Enumerated(f, s, h, l, p, c) ==
  f.kind \in Indexed =>
    /\ l = OptionsOf(f)
    /\ p.option \in 1..Len(OptionsOf(f))
    /\ h.mode = ModeAt(f, p.option)
    /\ c # None => l[p.option] = c /\ (f.restore => s.select = p.option)

\* The picker: the hub looks for the server shown. Flash holds what fits of the choice.
Picked(f, s, h, l, p, c) ==
  f.kind = "server" =>
    /\ \A i \in DOMAIN l : l[i] \in PickerOptions
    /\ \E i \in DOMAIN l : l[i] = Automatic
    /\ h.selected = Target(l[p.option])
    /\ Published(l[p.option]) = l[p.option]
    /\ h.manual = p.text
    /\ c # None => /\ c \in PickerOptions
                   /\ c.whole /\ c.name \notin Long => l[p.option] = c
                   /\ f.restore => s.select = Stored(c)

\* The crystal: once restored, the hub knows what flash holds, and neither what it
\* plays by nor what is saved is a step away from what was learned or typed last.
SavedCrystal(s) == IF s.crystal = None THEN 0 ELSE s.crystal

Learned(f, s, h, r, t) ==
  /\ h.crystal \in -Limit..Limit
  /\ f.kind = "crystal" =>
       /\ t.crystal \in -Limit..Limit
       /\ Apart(t.crystal, SavedCrystal(s)) < SaveStep
       /\ IF r THEN /\ h.saved = SavedCrystal(s)
                    /\ h.crystal # 0 => Apart(t.crystal, h.crystal) < SaveStep
          ELSE h.crystal = 0 /\ h.saved = 0

\* A knob that the API did not go past.
Turned(f, s, h, p, t) ==
  f.kind = "tunable" /\ ~t.tuned =>
    (s.number = None \/ Takes(f.param, s.number) => h.number = p.number)

LEMMA ApartIs ==
  ASSUME NEW a \in Int, NEW b \in Int
  PROVE  Apart(a, b) \in Nat /\ Apart(a, a) = 0
BY DEF Apart

LEMMA ClampedIs ==
  ASSUME NEW x \in Int
  PROVE  Clamped(x) \in -Limit..Limit /\ (x \in -Limit..Limit => Clamped(x) = x)
BY SettingsAssumption DEF Clamped, Bound

\* What the picker makes of an option.
LEMMA OptionsOfPicker ==
  /\ Automatic \in PickerOptions /\ Target(Automatic) = None /\ Published(Automatic) = Automatic
  /\ \A o \in PickerOptions :
       /\ Published(o) \in PickerOptions
       /\ Target(Published(o)) = Target(o) /\ Published(Published(o)) = Published(o)
       /\ Published(o) \in {o, Automatic}
       /\ Stored(o) \in PickerOptions /\ (o.name \notin Long => Stored(o) = o)
       /\ o.whole => Published(o) = o
<1>1. Automatic \in PickerOptions /\ Target(Automatic) = None
  BY DEF Automatic, Option, PickerOptions, Target
<1>2. Published(Automatic) = Automatic
  BY <1>1 DEF Published
<1>3. ASSUME NEW o \in PickerOptions
      PROVE  /\ Published(o) \in PickerOptions
             /\ Target(Published(o)) = Target(o) /\ Published(Published(o)) = Published(o)
             /\ Published(o) \in {o, Automatic}
  BY <1>1, <1>2 DEF Published
<1>4. ASSUME NEW o \in PickerOptions
      PROVE  Stored(o) \in PickerOptions /\ (o.name \notin Long => Stored(o) = o)
  BY DEF Stored, PickerOptions
<1>5. ASSUME NEW o \in PickerOptions, o.whole
      PROVE  Published(o) = o
  <2>1. Target(o) = o.name
    BY <1>5 DEF Target
  <2>2. o = [name |-> o.name, whole |-> TRUE]
    BY <1>5 DEF PickerOptions
  <2> QED BY <2>1, <2>2 DEF Published, Automatic, Option
<1> QED BY <1>1, <1>2, <1>3, <1>4, <1>5

LEMMA BootListIs ==
  ASSUME NEW f, NEW s, f.kind = "server", InFlash(f, s)
  PROVE  LET o == BootServer(f, s)
             l == BootList(o)
             i == Index(l, Published(o))
         IN  /\ o \in PickerOptions
             /\ Len(l) \in Nat /\ DOMAIN l = 1..Len(l) /\ l # <<>>
             /\ i \in DOMAIN l /\ l[i] = Published(o)
             /\ \A k \in DOMAIN l : l[k] \in PickerOptions
             /\ \E k \in DOMAIN l : l[k] = Automatic
<1> DEFINE o == BootServer(f, s)
           l == BootList(o)
           i == Index(l, Published(o))
<1>1. o \in PickerOptions
  BY OptionsOfPicker DEF BootServer, InFlash
<1> HIDE DEF o
<1>2. CASE o = Automatic
  <2>1. l = <<Automatic>>
    BY <1>2 DEF BootList
  <2>2. Len(l) = 1 /\ DOMAIN l = 1..1 /\ l # <<>> /\ l[1] = Automatic
    BY <2>1
  <2>3. \E k \in DOMAIN l : l[k] = Published(o)
    BY <2>2, <1>2, OptionsOfPicker
  <2> HIDE DEF l
  <2>4. i \in DOMAIN l /\ l[i] = Published(o)
    BY <2>3, IndexIs
  <2> QED BY <1>1, <2>2, <2>4, OptionsOfPicker DEF o, l
<1>3. CASE o # Automatic
  <2>1. l = <<Automatic, o>>
    BY <1>3 DEF BootList
  <2>2. Len(l) = 2 /\ DOMAIN l = 1..2 /\ l # <<>> /\ l[1] = Automatic /\ l[2] = o
    BY <2>1
  <2>3. \E k \in DOMAIN l : l[k] = Published(o)
    <3>1. Published(o) = o \/ Published(o) = Automatic
      BY <1>1, OptionsOfPicker
    <3> QED BY <2>2, <3>1
  <2> HIDE DEF l
  <2>4. i \in DOMAIN l /\ l[i] = Published(o)
    BY <2>3, IndexIs
  <2> QED BY <1>1, <2>2, <2>4, OptionsOfPicker DEF o, l
<1> QED BY <1>2, <1>3

------------------------------------------------------------------------------
\* Boots.
LEMMA BootShapes ==
  ASSUME NEW f, NEW s
  PROVE  /\ DOMAIN Running(f, s) = {"mode", "selected", "manual", "number", "crystal", "saved"}
         /\ DOMAIN PublishedAtBoot(f, s) = {"option", "text", "number"}
BY DEF Running, PublishedAtBoot

LEMMA BootEnumerated ==
  ASSUME NEW f \in Firmwares, NEW s, InFlash(f, s), f.kind \in Indexed
  PROVE  /\ OptionsAtBoot(f, s) = OptionsOf(f)
         /\ PublishedAtBoot(f, s).option = BootIndex(f, s)
         /\ Running(f, s).mode = ModeAt(f, BootIndex(f, s))
         /\ BootIndex(f, s) \in 1..Len(OptionsOf(f))
         /\ f.restore /\ s.select # None /\ s.select <= Len(OptionsOf(f))
              => BootIndex(f, s) = s.select
<1>1. s.select \in (Nat \ {0}) \union {None}
  BY DEF InFlash
<1> QED BY <1>1, BootIsListed DEF OptionsAtBoot, PublishedAtBoot, Running

LEMMA BootPicked ==
  ASSUME NEW f \in Firmwares, NEW s, InFlash(f, s), f.kind = "server",
         NEW h, NEW l, NEW p,
         h = Running(f, s), l = OptionsAtBoot(f, s), p = PublishedAtBoot(f, s)
  PROVE  /\ BootServer(f, s) \in PickerOptions
         /\ Len(l) \in Nat /\ DOMAIN l = 1..Len(l) /\ l # <<>>
         /\ p.option \in DOMAIN l
         /\ l[p.option] = Published(BootServer(f, s))
         /\ \A k \in DOMAIN l : l[k] \in PickerOptions
         /\ \E k \in DOMAIN l : l[k] = Automatic
         /\ h.selected = Target(l[p.option])
         /\ Published(l[p.option]) = l[p.option]
         /\ h.manual = p.text
<1> DEFINE o == BootServer(f, s)
<1>1. "server" \notin Indexed
  BY DEF Indexed
<1>2. l = BootList(o) /\ p.option = Index(BootList(o), Published(o)) /\ h.selected = Target(o)
  BY <1>1 DEF OptionsAtBoot, PublishedAtBoot, Running
<1>3. h.manual = p.text
  BY DEF PublishedAtBoot, Running
<1>4. /\ o \in PickerOptions
      /\ Len(l) \in Nat /\ DOMAIN l = 1..Len(l) /\ l # <<>>
      /\ p.option \in DOMAIN l /\ l[p.option] = Published(o)
      /\ \A k \in DOMAIN l : l[k] \in PickerOptions
      /\ \E k \in DOMAIN l : l[k] = Automatic
  BY <1>2, BootListIs
<1>5. Target(Published(o)) = Target(o) /\ Published(Published(o)) = Published(o)
  BY <1>4, OptionsOfPicker
<1> HIDE DEF o
<1>6. h.selected = Target(l[p.option]) /\ Published(l[p.option]) = l[p.option]
  BY <1>2, <1>4, <1>5
<1> QED BY <1>3, <1>4, <1>6 DEF o

\* At boot there is an option where there are some.
LEMMA BootActive ==
  ASSUME NEW f \in Firmwares, NEW s, InFlash(f, s)
  PROVE  HasOption(f, OptionsAtBoot(f, s), PublishedAtBoot(f, s))
<1>1. CASE f.kind \in Indexed
  <2>1. /\ OptionsAtBoot(f, s) = OptionsOf(f)
        /\ PublishedAtBoot(f, s).option \in 1..Len(OptionsOf(f))
    BY <1>1, BootEnumerated
  <2> QED BY <1>1, <2>1, OptionsCount DEF HasOption
<1>2. CASE f.kind = "server"
  BY <1>2, BootPicked DEF HasOption
<1>3. CASE f.kind \notin Indexed \union {"server"}
  BY <1>3 DEF HasOption, OptionsAtBoot, PublishedAtBoot
<1> QED BY <1>1, <1>2, <1>3

\* With no choice to remember, a boot is consistent in itself.
LEMMA BootForgets ==
  ASSUME NEW f \in Firmwares, NEW s, InFlash(f, s)
  PROVE  /\ Enumerated(f, s, Running(f, s), OptionsAtBoot(f, s), PublishedAtBoot(f, s), None)
         /\ Picked(f, s, Running(f, s), OptionsAtBoot(f, s), PublishedAtBoot(f, s), None)
BY BootEnumerated, BootPicked DEF Enumerated, Picked

LEMMA BootTurned ==
  ASSUME NEW f, NEW s, NEW t
  PROVE  Turned(f, s, Running(f, s), PublishedAtBoot(f, s), t)
BY DEF Turned, Running, PublishedAtBoot, BootNumber, ShownAtBoot

LEMMA BootLearned ==
  ASSUME NEW f, NEW s, NEW t,
         f.kind = "crystal" => /\ t.crystal \in -Limit..Limit
                               /\ Apart(t.crystal, SavedCrystal(s)) < SaveStep
  PROVE  Learned(f, s, Running(f, s), FALSE, t)
<1>1. Running(f, s).crystal = 0 /\ Running(f, s).saved = 0 /\ 0 \in -Limit..Limit
  BY SettingsAssumption DEF Running
<1> QED BY <1>1 DEF Learned

\* A choice that flash remembers comes back with the same options.
LEMMA BootRemembersIndex ==
  ASSUME NEW f \in Firmwares, NEW s, InFlash(f, s), f.restore,
         NEW g, g.kind = f.kind, g.mono = f.mono, g.restore,
         NEW h, NEW l, NEW p, NEW c,
         Enumerated(g, s, h, l, p, c)
  PROVE  Enumerated(f, s, Running(f, s), OptionsAtBoot(f, s), PublishedAtBoot(f, s), c)
<1>1. CASE f.kind \in Indexed /\ c # None
  <2>1. OptionsOf(g) = OptionsOf(f)
    BY Zenon DEF OptionsOf
  <2>2. /\ l = OptionsOf(f) /\ p.option \in 1..Len(OptionsOf(f))
        /\ l[p.option] = c /\ s.select = p.option
    BY <1>1, <2>1 DEF Enumerated
  <2>3. BootIndex(f, s) = p.option
    <3>1. s.select # None /\ s.select <= Len(OptionsOf(f))
      BY <1>1, <2>2, OptionsCount, SettingsAssumption
    <3> QED BY <1>1, <2>2, <3>1, BootEnumerated
  <2> QED BY <1>1, <2>2, <2>3, BootEnumerated DEF Enumerated
<1>2. CASE f.kind \in Indexed /\ c = None
  BY <1>2, BootForgets
<1>3. CASE f.kind \notin Indexed
  BY <1>3 DEF Enumerated
<1> QED BY <1>1, <1>2, <1>3

LEMMA BootRemembersServer ==
  ASSUME NEW f \in Firmwares, NEW s, InFlash(f, s), f.restore,
         NEW g, g.kind = f.kind, g.restore,
         NEW h, NEW l, NEW p, NEW c,
         Picked(g, s, h, l, p, c)
  PROVE  Picked(f, s, Running(f, s), OptionsAtBoot(f, s), PublishedAtBoot(f, s), c)
<1>1. CASE f.kind = "server" /\ c # None
  <2>1. c \in PickerOptions /\ s.select = Stored(c)
    BY <1>1 DEF Picked
  <2>2. BootServer(f, s) = Stored(c)
    <3>1. Stored(c) # None
      BY <2>1, OptionsOfPicker, SettingsAssumption
    <3> QED BY <2>1, <3>1 DEF BootServer
  <2>3. c.whole /\ c.name \notin Long => Published(Stored(c)) = c
    BY <2>1, OptionsOfPicker
  <2>4. OptionsAtBoot(f, s)[PublishedAtBoot(f, s).option] = Published(Stored(c))
    BY <1>1, <2>2, BootPicked
  <2> QED BY <1>1, <2>1, <2>3, <2>4, BootPicked DEF Picked
<1>2. CASE f.kind = "server" /\ c = None
  BY <1>2, BootForgets
<1>3. CASE f.kind # "server"
  BY <1>3 DEF Picked
<1> QED BY <1>1, <1>2, <1>3

------------------------------------------------------------------------------
\* The invariant, and its steps.
Consistent ==
  /\ Shapes
  /\ HasOption(firmware, options, shown)
  /\ Enumerated(firmware, flash, hub, options, shown, chosen)
  /\ Picked(firmware, flash, hub, options, shown, chosen)
  /\ Learned(firmware, flash, hub, restored, typed)
  /\ Turned(firmware, flash, hub, shown, typed)

LEMMA ConsistentBegins == SettingsInit => Consistent
<1> SUFFICES ASSUME SettingsInit PROVE Consistent
  OBVIOUS
<1>1. InFlash(firmware, Blank)
  BY DEF InFlash, Blank
<1>2. firmware \in Firmwares /\ flash = Blank /\ nvs = Blank
  BY DEF SettingsInit
<1>3. /\ hub = Running(firmware, flash) /\ options = OptionsAtBoot(firmware, flash)
      /\ shown = PublishedAtBoot(firmware, flash)
  BY DEF SettingsInit
<1>4. restored = FALSE /\ chosen = None /\ typed = [crystal |-> 0, tuned |-> FALSE]
  BY DEF SettingsInit
<1>5. Shapes
  <2>1. DOMAIN typed = {"crystal", "tuned"}
    BY <1>4
  <2> QED BY <2>1, <1>1, <1>2, <1>3, <1>4, BootShapes DEF Shapes
<1>6. HasOption(firmware, options, shown)
  BY <1>1, <1>2, <1>3, BootActive
<1>7. /\ Enumerated(firmware, flash, hub, options, shown, chosen)
      /\ Picked(firmware, flash, hub, options, shown, chosen)
  BY <1>1, <1>2, <1>3, <1>4, BootForgets
<1>8. Learned(firmware, flash, hub, restored, typed)
  <2>1. typed.crystal = 0 /\ SavedCrystal(flash) = 0
    BY <1>2, <1>4 DEF SavedCrystal, Blank
  <2>2. Apart(0, 0) < SaveStep /\ 0 \in -Limit..Limit
    BY SettingsAssumption DEF Apart
  <2> QED BY <2>1, <2>2, <1>3, <1>4, BootLearned
<1>9. Turned(firmware, flash, hub, shown, typed)
  BY <1>3, BootTurned
<1> QED BY <1>5, <1>6, <1>7, <1>8, <1>9 DEF Consistent

LEMMA ChooseKeeps == Consistent /\ Choose => Consistent'
<1> SUFFICES ASSUME Consistent, Choose PROVE Consistent'
  OBVIOUS
<1>1. /\ firmware.kind \in Indexed
      /\ UNCHANGED <<firmware, nvs, options, restored, typed>>
  BY DEF Choose
<1>2. firmware.kind \notin {"server", "tunable", "crystal"}
  BY <1>1 DEF Indexed
<1>3. PICK i \in DOMAIN options :
        /\ hub' = [hub EXCEPT !.mode = ModeAt(firmware, i)]
        /\ shown' = [shown EXCEPT !.option = i]
        /\ flash' = IF firmware.restore THEN [flash EXCEPT !.select = i] ELSE flash
        /\ chosen' = options[i]
  BY DEF Choose
<1>4. i \in 1..Len(options) /\ options = OptionsOf(firmware)
  BY <1>1, <1>3 DEF Consistent, HasOption, Enumerated
<1>5. /\ DOMAIN hub' = DOMAIN hub /\ hub'.mode = ModeAt(firmware, i) /\ hub'.crystal = hub.crystal
      /\ DOMAIN shown' = DOMAIN shown /\ shown'.option = i
  BY <1>3 DEF Consistent, Shapes
<1>6. InFlash(firmware, flash') /\ (firmware.restore => flash'.select = i)
  BY <1>2, <1>3, <1>4 DEF Consistent, Shapes, InFlash, HasOption
<1>7. Shapes'
  BY <1>1, <1>5, <1>6 DEF Consistent, Shapes
<1>8. HasOption(firmware, options, shown)'
  BY <1>1, <1>4, <1>5 DEF Consistent, HasOption
<1>9. Enumerated(firmware, flash, hub, options, shown, chosen)'
  BY <1>1, <1>3, <1>4, <1>5, <1>6 DEF Enumerated
<1>10. Picked(firmware, flash, hub, options, shown, chosen)'
  BY <1>1, <1>2 DEF Picked
<1>11. Learned(firmware, flash, hub, restored, typed)'
  BY <1>1, <1>2, <1>5 DEF Consistent, Learned
<1>12. Turned(firmware, flash, hub, shown, typed)'
  BY <1>1, <1>2 DEF Turned
<1> QED BY <1>7, <1>8, <1>9, <1>10, <1>11, <1>12 DEF Consistent

LEMMA ChooseServerKeeps == Consistent /\ ChooseServer => Consistent'
<1> SUFFICES ASSUME Consistent, ChooseServer PROVE Consistent'
  OBVIOUS
<1>1. /\ firmware.kind = "server"
      /\ UNCHANGED <<firmware, nvs, options, restored, typed>>
  BY DEF ChooseServer
<1>2. firmware.kind \notin Indexed \union {"tunable", "crystal"}
  BY <1>1 DEF Indexed
<1>3. PICK i \in DOMAIN options :
        /\ hub' = [hub EXCEPT !.selected = Target(options[i])]
        /\ shown' = [shown EXCEPT !.option = Index(options, Published(options[i]))]
        /\ flash' = SaveServer(options[i])
        /\ chosen' = options[i]
  BY DEF ChooseServer
<1> DEFINE o == options[i]
<1>4. /\ o \in PickerOptions /\ \E k \in DOMAIN options : options[k] = Automatic
      /\ hub.manual = shown.text /\ \A k \in DOMAIN options : options[k] \in PickerOptions
  BY <1>1 DEF Consistent, Picked
<1>5. \E k \in DOMAIN options : options[k] = Published(o)
  <2>1. Published(o) \in {o, Automatic}
    BY <1>4, OptionsOfPicker
  <2> QED BY <1>4, <2>1
<1>6. /\ Target(Published(o)) = Target(o) /\ Published(Published(o)) = Published(o)
      /\ Stored(o) \in PickerOptions /\ (o.whole => Published(o) = o)
  BY <1>4, OptionsOfPicker
<1>7. /\ DOMAIN hub' = DOMAIN hub /\ hub'.selected = Target(o) /\ hub'.crystal = hub.crystal
      /\ hub'.manual = hub.manual
      /\ DOMAIN shown' = DOMAIN shown /\ shown'.option = Index(options, Published(o))
      /\ shown'.text = shown.text
  BY <1>3 DEF Consistent, Shapes
<1> HIDE DEF o
<1>8. shown'.option \in DOMAIN options /\ options[shown'.option] = Published(o)
  BY <1>5, <1>7, IndexIs
<1>9. InFlash(firmware, flash') /\ (firmware.restore => flash'.select = Stored(o))
  <2>1. flash' = IF firmware.restore THEN [flash EXCEPT !.select = Stored(o)] ELSE flash
    BY <1>3 DEF SaveServer, o
  <2> QED BY <1>2, <1>6, <2>1 DEF Consistent, Shapes, InFlash
<1>10. Shapes'
  BY <1>1, <1>7, <1>9 DEF Consistent, Shapes
<1>11. HasOption(firmware, options, shown)'
  BY <1>1, <1>8 DEF Consistent, HasOption
<1>12. Enumerated(firmware, flash, hub, options, shown, chosen)'
  BY <1>1, <1>2 DEF Enumerated
<1>13. Picked(firmware, flash, hub, options, shown, chosen)'
  <2>1. chosen' = o
    BY <1>3 DEF o
  <2>2. hub'.selected = Target(options[shown'.option])
    BY <1>6, <1>7, <1>8
  <2> QED BY <1>1, <1>4, <1>6, <1>7, <1>8, <1>9, <2>1, <2>2 DEF Picked
<1>14. Learned(firmware, flash, hub, restored, typed)'
  BY <1>1, <1>2, <1>7 DEF Consistent, Learned
<1>15. Turned(firmware, flash, hub, shown, typed)'
  BY <1>1, <1>2 DEF Turned
<1> QED BY <1>10, <1>11, <1>12, <1>13, <1>14, <1>15 DEF Consistent

LEMMA TypeServerKeeps == Consistent /\ TypeServer => Consistent'
<1> SUFFICES ASSUME Consistent, TypeServer PROVE Consistent'
  OBVIOUS
<1>1. /\ firmware.kind = "server"
      /\ UNCHANGED <<firmware, nvs, options, restored, chosen, typed>>
  BY DEF TypeServer
<1>2. firmware.kind \notin Indexed \union {"tunable", "crystal"}
  BY <1>1 DEF Indexed
<1>3. PICK n \in Names \union {None} :
        /\ hub' = [hub EXCEPT !.manual = n]
        /\ shown' = [shown EXCEPT !.text = n]
        /\ flash' = IF firmware.restore THEN [flash EXCEPT !.text = n] ELSE flash
  BY DEF TypeServer
<1>4. /\ DOMAIN hub' = DOMAIN hub /\ hub'.manual = n /\ hub'.crystal = hub.crystal
      /\ hub'.selected = hub.selected
      /\ DOMAIN shown' = DOMAIN shown /\ shown'.text = n /\ shown'.option = shown.option
  BY <1>3 DEF Consistent, Shapes
<1>5. InFlash(firmware, flash') /\ flash'.select = flash.select
  BY <1>2, <1>3 DEF Consistent, Shapes, InFlash
<1>6. Shapes'
  BY <1>1, <1>4, <1>5 DEF Consistent, Shapes
<1>7. HasOption(firmware, options, shown)'
  BY <1>1, <1>4 DEF Consistent, HasOption
<1>8. Enumerated(firmware, flash, hub, options, shown, chosen)'
  BY <1>1, <1>2 DEF Enumerated
<1>9. Picked(firmware, flash, hub, options, shown, chosen)'
  BY <1>1, <1>4, <1>5 DEF Consistent, Picked
<1>10. Learned(firmware, flash, hub, restored, typed)'
  BY <1>1, <1>2, <1>4 DEF Consistent, Learned
<1>11. Turned(firmware, flash, hub, shown, typed)'
  BY <1>1, <1>2 DEF Turned
<1> QED BY <1>6, <1>7, <1>8, <1>9, <1>10, <1>11 DEF Consistent

LEMMA FoundIs ==
  ASSUME NEW found \in SetToAllKPermutations(Names)
  PROVE  \E n \in Nat : found \in [1..n -> Names]
<1>1. PICK S \in SUBSET Names : found \in SetToSeqs(S)
  BY DEF SetToAllKPermutations
<1>2. Cardinality(S) \in Nat
  BY SettingsAssumption, FS_Subset, FS_CardinalityType
<1>3. found \in [1..Cardinality(S) -> S]
  BY <1>1 DEF SetToSeqs
<1>4. found \in [1..Cardinality(S) -> Names]
  BY <1>3
<1> QED BY <1>2, <1>4

\* A list begins with Automatic and has the option that was current.
LEMMA ListedIs ==
  ASSUME NEW found \in SetToAllKPermutations(Names), NEW current \in PickerOptions
  PROVE  LET list == Listed(found, current)
         IN  /\ Len(list) \in Nat /\ DOMAIN list = 1..Len(list) /\ list # <<>>
             /\ list[1] = Automatic /\ 1 \in DOMAIN list
             /\ \A k \in DOMAIN list : list[k] \in PickerOptions
             /\ \E k \in DOMAIN list : list[k] = current
<1>1. PICK n \in Nat : found \in [1..n -> Names]
  BY FoundIs
<1> DEFINE some == [i \in DOMAIN found |-> Option(found[i])]
           list == <<Automatic>> \o some
<1>2. DOMAIN found = 1..n /\ \A i \in 1..n : Option(found[i]) \in PickerOptions
  BY <1>1 DEF Option, PickerOptions
<1>3. some \in Seq(PickerOptions)
  BY <1>2
<1>4. <<Automatic>> \in Seq(PickerOptions) /\ Len(<<Automatic>>) = 1 /\ <<Automatic>>[1] = Automatic
  BY OptionsOfPicker
<1> HIDE DEF some
<1>5. list \in Seq(PickerOptions) /\ Len(list) = 1 + Len(some) /\ list[1] = Automatic
  BY <1>3, <1>4
<1> HIDE DEF list
<1>6. CASE current \in ToSet(list)
  <2>1. Listed(found, current) = list
    BY <1>6 DEF Listed, list, some
  <2>2. \E k \in DOMAIN list : list[k] = current
    BY <1>6 DEF ToSet
  <2>3. Len(some) \in Nat
    BY <1>3
  <2>4. Len(list) \in Nat \ {0} /\ DOMAIN list = 1..Len(list)
        /\ \A k \in DOMAIN list : list[k] \in PickerOptions
    BY <1>5, <2>3
  <2>5. list # <<>>
    BY <2>4
  <2> QED BY <1>5, <2>1, <2>2, <2>4, <2>5
<1>7. CASE current \notin ToSet(list)
  <2> DEFINE longer == Append(list, current)
  <2>1. Listed(found, current) = longer
    BY <1>7 DEF Listed, list, some
  <2>2. Len(some) \in Nat
    BY <1>3
  <2>3. /\ longer \in Seq(PickerOptions) /\ Len(longer) = Len(list) + 1
        /\ longer[1] = Automatic /\ longer[Len(longer)] = current
    BY <1>5, <2>2
  <2> HIDE DEF longer
  <2>4. Len(longer) \in Nat \ {0} /\ DOMAIN longer = 1..Len(longer)
        /\ \A k \in DOMAIN longer : longer[k] \in PickerOptions
    BY <1>5, <2>2, <2>3
  <2>5. longer # <<>>
    BY <2>4
  <2>6. \E k \in DOMAIN longer : longer[k] = current
    BY <2>3, <2>4
  <2> QED BY <2>1, <2>3, <2>4, <2>5, <2>6
<1> QED BY <1>6, <1>7

LEMMA DiscoverKeeps == Consistent /\ Discover => Consistent'
<1> SUFFICES ASSUME Consistent, Discover PROVE Consistent'
  OBVIOUS
<1>1. /\ firmware.kind = "server"
      /\ UNCHANGED <<firmware, nvs, flash, hub, restored, chosen, typed>>
  BY DEF Discover
<1>2. firmware.kind \notin Indexed \union {"tunable", "crystal"}
  BY <1>1 DEF Indexed
<1> DEFINE current == options[shown.option]
<1>3. PICK found \in SetToAllKPermutations(Names) :
        /\ options' = Listed(found, current)
        /\ shown' = [shown EXCEPT !.option = Index(Listed(found, current), current)]
  BY DEF Discover, Active
<1>4. current \in PickerOptions
  BY <1>1 DEF Consistent, Picked, HasOption
<1>5. /\ DOMAIN shown' = DOMAIN shown /\ shown'.option = Index(options', current)
      /\ shown'.text = shown.text
  BY <1>3 DEF Consistent, Shapes
<1> HIDE DEF current
<1>6. /\ Len(options') \in Nat /\ DOMAIN options' = 1..Len(options') /\ options' # <<>>
      /\ \A k \in DOMAIN options' : options'[k] \in PickerOptions
      /\ \E k \in DOMAIN options' : options'[k] = Automatic
      /\ \E k \in DOMAIN options' : options'[k] = current
  BY <1>3, <1>4, ListedIs
<1>7. shown'.option \in DOMAIN options' /\ options'[shown'.option] = current
  BY <1>5, <1>6, IndexIs
<1>8. Shapes'
  BY <1>1, <1>5 DEF Consistent, Shapes
<1>9. HasOption(firmware, options, shown)'
  BY <1>1, <1>6, <1>7 DEF HasOption
<1>10. Enumerated(firmware, flash, hub, options, shown, chosen)'
  BY <1>1, <1>2 DEF Enumerated
<1>11. Picked(firmware, flash, hub, options, shown, chosen)'
  BY <1>1, <1>5, <1>6, <1>7 DEF Consistent, Picked, current
<1>12. Learned(firmware, flash, hub, restored, typed)'
  BY <1>1 DEF Consistent, Learned
<1>13. Turned(firmware, flash, hub, shown, typed)'
  BY <1>1, <1>2 DEF Turned
<1> QED BY <1>8, <1>9, <1>10, <1>11, <1>12, <1>13 DEF Consistent

\* What an entity of another kind asks for.
LEMMA OfAnotherKind ==
  ASSUME firmware'.kind \notin Indexed \union {"server"}
  PROVE  /\ Enumerated(firmware, flash, hub, options, shown, chosen)'
         /\ Picked(firmware, flash, hub, options, shown, chosen)'
BY DEF Enumerated, Picked

LEMMA SetNumberKeeps == Consistent /\ SetNumber => Consistent'
<1> SUFFICES ASSUME Consistent, SetNumber PROVE Consistent'
  OBVIOUS
<1>1. /\ firmware.kind = "tunable"
      /\ UNCHANGED <<firmware, nvs, options, restored, chosen, typed>>
  BY DEF SetNumber
<1>2. firmware.kind \notin Indexed \union {"server", "crystal"}
  BY <1>1 DEF Indexed
<1>3. PICK v \in Values :
        /\ hub' = IF Takes(firmware.param, v) THEN [hub EXCEPT !.number = v] ELSE hub
        /\ flash' = [flash EXCEPT !.number = v]
        /\ shown' = [shown EXCEPT !.number = v]
  BY DEF SetNumber
<1>4. /\ DOMAIN hub' = DOMAIN hub /\ hub'.crystal = hub.crystal
      /\ Takes(firmware.param, v) => hub'.number = v
      /\ DOMAIN shown' = DOMAIN shown /\ shown'.number = v /\ shown'.option = shown.option
  BY <1>3 DEF Consistent, Shapes
<1>5. InFlash(firmware, flash') /\ flash'.number = v
  BY <1>2, <1>3 DEF Consistent, Shapes, InFlash
<1>6. v # None
  BY SettingsAssumption
<1>7. Shapes'
  BY <1>1, <1>4, <1>5 DEF Consistent, Shapes
<1>8. HasOption(firmware, options, shown)'
  BY <1>1, <1>4 DEF Consistent, HasOption
<1>9. /\ Enumerated(firmware, flash, hub, options, shown, chosen)'
      /\ Picked(firmware, flash, hub, options, shown, chosen)'
  BY <1>1, <1>2, OfAnotherKind
<1>10. Learned(firmware, flash, hub, restored, typed)'
  BY <1>1, <1>2, <1>4 DEF Consistent, Learned
<1>11. Turned(firmware, flash, hub, shown, typed)'
  BY <1>1, <1>4, <1>5, <1>6 DEF Turned
<1> QED BY <1>7, <1>8, <1>9, <1>10, <1>11 DEF Consistent

LEMMA TuneKeeps == Consistent /\ Tune => Consistent'
<1> SUFFICES ASSUME Consistent, Tune PROVE Consistent'
  OBVIOUS
<1>1. /\ firmware.kind = "tunable" /\ typed' = [typed EXCEPT !.tuned = TRUE]
      /\ UNCHANGED <<firmware, nvs, flash, options, shown, restored, chosen>>
  BY DEF Tune
<1>2. firmware.kind \notin Indexed \union {"server", "crystal"}
  BY <1>1 DEF Indexed
<1>3. DOMAIN typed' = DOMAIN typed /\ typed'.tuned
  BY <1>1 DEF Consistent, Shapes
<1>4. PICK v \in Values : hub' = [hub EXCEPT !.number = v]
  BY DEF Tune
<1>5. DOMAIN hub' = DOMAIN hub /\ hub'.crystal = hub.crystal
  BY <1>4 DEF Consistent, Shapes
<1>6. Shapes'
  BY <1>1, <1>3, <1>5 DEF Consistent, Shapes
<1>7. HasOption(firmware, options, shown)'
  BY <1>1 DEF Consistent, HasOption
<1>8. /\ Enumerated(firmware, flash, hub, options, shown, chosen)'
      /\ Picked(firmware, flash, hub, options, shown, chosen)'
  BY <1>1, <1>2, OfAnotherKind
<1>9. Learned(firmware, flash, hub, restored, typed)'
  BY <1>1, <1>2, <1>5 DEF Consistent, Learned
<1>10. Turned(firmware, flash, hub, shown, typed)'
  BY <1>3 DEF Turned
<1> QED BY <1>6, <1>7, <1>8, <1>9, <1>10 DEF Consistent

LEMMA RestoreCrystalKeeps == Consistent /\ RestoreCrystal => Consistent'
<1> SUFFICES ASSUME Consistent, RestoreCrystal PROVE Consistent'
  OBVIOUS
<1>1. /\ firmware.kind = "crystal" /\ ~restored /\ restored' = TRUE
      /\ UNCHANGED <<firmware, nvs, flash, options, shown, chosen, typed>>
      /\ hub' = IF flash.crystal = None THEN hub
                ELSE [hub EXCEPT !.crystal = Clamped(flash.crystal), !.saved = flash.crystal]
  BY DEF RestoreCrystal
<1>2. firmware.kind \notin Indexed \union {"server", "tunable"}
  BY <1>1 DEF Indexed
<1>3. /\ hub.crystal = 0 /\ typed.crystal \in -Limit..Limit
      /\ Apart(typed.crystal, SavedCrystal(flash)) < SaveStep
  BY <1>1 DEF Consistent, Learned
<1>4. DOMAIN hub' = DOMAIN hub
  BY <1>1 DEF Consistent, Shapes
<1>5. Shapes'
  BY <1>1, <1>4 DEF Consistent, Shapes
<1>6. HasOption(firmware, options, shown)'
  BY <1>1 DEF Consistent, HasOption
<1>7. /\ Enumerated(firmware, flash, hub, options, shown, chosen)'
      /\ Picked(firmware, flash, hub, options, shown, chosen)'
  BY <1>1, <1>2, OfAnotherKind
<1>8. Learned(firmware, flash, hub, restored, typed)'
  <2>1. CASE flash.crystal = None
    <3>1. hub' = hub /\ hub.saved = 0 /\ 0 \in -Limit..Limit
      BY <2>1, <1>1, SettingsAssumption DEF Consistent, Learned
    <3>2. SavedCrystal(flash) = 0
      BY <2>1 DEF SavedCrystal
    <3> QED BY <1>1, <1>3, <3>1, <3>2 DEF Learned
  <2>2. CASE flash.crystal # None
    <3>1. flash.crystal \in -Limit..Limit
      BY <2>2 DEF Consistent, Shapes, InFlash
    <3>2. Clamped(flash.crystal) = flash.crystal
      BY <3>1, ClampedIs, SettingsAssumption
    <3>3. hub'.crystal = flash.crystal /\ hub'.saved = flash.crystal
      BY <1>1, <2>2, <3>2 DEF Consistent, Shapes
    <3>4. SavedCrystal(flash) = flash.crystal
      BY <2>2 DEF SavedCrystal
    <3> QED BY <1>1, <1>3, <3>1, <3>3, <3>4 DEF Learned
  <2> QED BY <2>1, <2>2
<1>9. Turned(firmware, flash, hub, shown, typed)'
  BY <1>1, <1>2 DEF Turned
<1> QED BY <1>5, <1>6, <1>7, <1>8, <1>9 DEF Consistent

LEMMA LearnKeeps == Consistent /\ Learn => Consistent'
<1> SUFFICES ASSUME Consistent, Learn PROVE Consistent'
  OBVIOUS
<1>1. /\ firmware.kind = "crystal" /\ restored
      /\ UNCHANGED <<firmware, nvs, options, shown, restored, chosen>>
  BY DEF Learn
<1>2. firmware.kind \notin Indexed \union {"server", "tunable"}
  BY <1>1 DEF Indexed
<1>3. PICK x \in Crystals, overdue \in BOOLEAN :
        LET save == x # 0 /\ (overdue \/ MovedSinceSave(x))
        IN  /\ hub' = [hub EXCEPT !.crystal = x, !.saved = IF save THEN x ELSE @]
            /\ flash' = IF save THEN [flash EXCEPT !.crystal = x] ELSE flash
            /\ typed' = [typed EXCEPT !.crystal = x]
  BY DEF Learn
<1> DEFINE save == x # 0 /\ (overdue \/ MovedSinceSave(x))
<1>4. x \in -Limit..Limit /\ x # 0 /\ x \in Int /\ x # None
  BY SettingsAssumption
<1>5. /\ DOMAIN hub' = DOMAIN hub /\ hub'.crystal = x
      /\ hub'.saved = IF save THEN x ELSE hub.saved
      /\ DOMAIN typed' = DOMAIN typed /\ typed'.crystal = x
  BY <1>3 DEF Consistent, Shapes
<1>6. /\ InFlash(firmware, flash')
      /\ SavedCrystal(flash') = IF save THEN x ELSE SavedCrystal(flash)
  BY <1>2, <1>3, <1>4 DEF Consistent, Shapes, InFlash, SavedCrystal
<1>7. ~save => Apart(x, SavedCrystal(flash)) < SaveStep
  <2>1. hub.saved = SavedCrystal(flash)
    BY <1>1 DEF Consistent, Learned
  <2>2. SavedCrystal(flash) \in Int
    BY SettingsAssumption DEF Consistent, Shapes, InFlash, SavedCrystal
  <2>3. Apart(x, SavedCrystal(flash)) \in Nat
    BY <1>4, <2>2, ApartIs
  <2> QED BY <1>4, <2>1, <2>3, SettingsAssumption DEF MovedSinceSave
<1>8. Apart(x, x) = 0 /\ 0 < SaveStep
  BY <1>4, ApartIs, SettingsAssumption
<1> HIDE DEF save
<1>9. Shapes'
  BY <1>1, <1>5, <1>6 DEF Consistent, Shapes
<1>10. HasOption(firmware, options, shown)'
  BY <1>1 DEF Consistent, HasOption
<1>11. /\ Enumerated(firmware, flash, hub, options, shown, chosen)'
       /\ Picked(firmware, flash, hub, options, shown, chosen)'
  BY <1>1, <1>2, OfAnotherKind
<1>12. Learned(firmware, flash, hub, restored, typed)'
  <2>1. Apart(x, SavedCrystal(flash')) < SaveStep
    BY <1>6, <1>7, <1>8
  <2>2. hub'.saved = SavedCrystal(flash')
    BY <1>1, <1>5, <1>6 DEF Consistent, Learned
  <2> QED BY <1>1, <1>4, <1>5, <1>8, <2>1, <2>2 DEF Learned
<1>13. Turned(firmware, flash, hub, shown, typed)'
  BY <1>1, <1>2 DEF Turned
<1> QED BY <1>9, <1>10, <1>11, <1>12, <1>13 DEF Consistent

LEMMA SetCrystalKeeps == Consistent /\ SetCrystal => Consistent'
<1> SUFFICES ASSUME Consistent, SetCrystal PROVE Consistent'
  OBVIOUS
<1>1. /\ firmware.kind = "crystal" /\ restored
      /\ UNCHANGED <<firmware, options, restored, chosen>>
  BY DEF SetCrystal
<1>2. firmware.kind \notin Indexed \union {"server", "tunable"}
  BY <1>1 DEF Indexed
<1>3. PICK v \in Values :
        LET x == Clamped(v)
        IN  /\ hub' = [hub EXCEPT !.crystal = x, !.saved = x]
            /\ flash' = [flash EXCEPT !.crystal = x] /\ nvs' = [flash EXCEPT !.crystal = x]
            /\ shown' = [shown EXCEPT !.number = v]
            /\ typed' = [typed EXCEPT !.crystal = x]
  BY DEF SetCrystal
<1> DEFINE x == Clamped(v)
<1>4. x \in -Limit..Limit /\ x \in Int /\ x # None
  BY ClampedIs, SettingsAssumption
<1>5. /\ DOMAIN hub' = DOMAIN hub /\ hub'.crystal = x /\ hub'.saved = x
      /\ DOMAIN shown' = DOMAIN shown /\ shown'.option = shown.option
      /\ DOMAIN typed' = DOMAIN typed /\ typed'.crystal = x
  BY <1>3 DEF Consistent, Shapes
<1>6. InFlash(firmware, flash') /\ InFlash(firmware, nvs') /\ SavedCrystal(flash') = x
  BY <1>2, <1>3, <1>4 DEF Consistent, Shapes, InFlash, SavedCrystal
<1>7. Apart(x, x) = 0 /\ 0 < SaveStep
  BY <1>4, ApartIs, SettingsAssumption
<1> HIDE DEF x
<1>8. Shapes'
  BY <1>1, <1>5, <1>6 DEF Consistent, Shapes
<1>9. HasOption(firmware, options, shown)'
  BY <1>1, <1>5 DEF Consistent, HasOption
<1>10. /\ Enumerated(firmware, flash, hub, options, shown, chosen)'
       /\ Picked(firmware, flash, hub, options, shown, chosen)'
  BY <1>1, <1>2, OfAnotherKind
<1>11. Learned(firmware, flash, hub, restored, typed)'
  BY <1>1, <1>4, <1>5, <1>6, <1>7 DEF Learned
<1>12. Turned(firmware, flash, hub, shown, typed)'
  BY <1>1, <1>2 DEF Turned
<1> QED BY <1>8, <1>9, <1>10, <1>11, <1>12 DEF Consistent

LEMMA TrackKeeps == Consistent /\ Track => Consistent'
<1> SUFFICES ASSUME Consistent, Track PROVE Consistent'
  OBVIOUS
<1>1. /\ firmware.kind = "crystal" /\ shown' = [shown EXCEPT !.number = hub.crystal]
      /\ UNCHANGED <<firmware, nvs, flash, hub, options, restored, chosen, typed>>
  BY DEF Track
<1>2. firmware.kind \notin Indexed \union {"server", "tunable"}
  BY <1>1 DEF Indexed
<1>3. DOMAIN shown' = DOMAIN shown /\ shown'.option = shown.option
  BY <1>1 DEF Consistent, Shapes
<1>4. Shapes'
  BY <1>1, <1>3 DEF Consistent, Shapes
<1>5. HasOption(firmware, options, shown)'
  BY <1>1, <1>3 DEF Consistent, HasOption
<1>6. /\ Enumerated(firmware, flash, hub, options, shown, chosen)'
      /\ Picked(firmware, flash, hub, options, shown, chosen)'
  BY <1>1, <1>2, OfAnotherKind
<1>7. Learned(firmware, flash, hub, restored, typed)'
  BY <1>1 DEF Consistent, Learned
<1>8. Turned(firmware, flash, hub, shown, typed)'
  BY <1>1, <1>2 DEF Turned
<1> QED BY <1>4, <1>5, <1>6, <1>7, <1>8 DEF Consistent

LEMMA SyncKeeps == Consistent /\ Sync => Consistent'
<1> SUFFICES ASSUME Consistent, Sync PROVE Consistent'
  OBVIOUS
<1>1. nvs' = flash /\ UNCHANGED <<firmware, flash, hub, options, shown, restored, chosen, typed>>
  BY DEF Sync
<1>2. Shapes'
  BY <1>1 DEF Consistent, Shapes
<1>3. HasOption(firmware, options, shown)'
  BY <1>1 DEF Consistent, HasOption
<1>4. Enumerated(firmware, flash, hub, options, shown, chosen)'
  BY <1>1 DEF Consistent, Enumerated
<1>5. Picked(firmware, flash, hub, options, shown, chosen)'
  BY <1>1 DEF Consistent, Picked
<1>6. Learned(firmware, flash, hub, restored, typed)'
  BY <1>1 DEF Consistent, Learned
<1>7. Turned(firmware, flash, hub, shown, typed)'
  BY <1>1 DEF Consistent, Turned
<1> QED BY <1>2, <1>3, <1>4, <1>5, <1>6, <1>7 DEF Consistent

\* What persist_now writes is as good as what flash holds, and as near to what was
\* learned or typed last.
LEMMA PersistNowIs ==
  ASSUME Consistent
  PROVE  /\ InFlash(firmware, PersistNow)
         /\ firmware.kind # "crystal" => PersistNow = flash
         /\ firmware.kind = "crystal" =>
              /\ typed.crystal \in -Limit..Limit
              /\ Apart(typed.crystal, SavedCrystal(PersistNow)) < SaveStep
<1>1. CASE firmware.kind = "crystal" /\ hub.crystal # 0
  <2>1. PersistNow = [flash EXCEPT !.crystal = hub.crystal]
    BY <1>1 DEF PersistNow
  <2>2. hub.crystal \in -Limit..Limit /\ hub.crystal # None
    BY SettingsAssumption DEF Consistent, Learned
  <2>3. InFlash(firmware, PersistNow)
    BY <2>1, <2>2, <1>1 DEF Consistent, Shapes, InFlash, Indexed
  <2>4. SavedCrystal(PersistNow) = hub.crystal
    BY <2>1, <2>2 DEF Consistent, Shapes, InFlash, SavedCrystal
  <2>5. typed.crystal \in -Limit..Limit /\ Apart(typed.crystal, hub.crystal) < SaveStep
    BY <1>1 DEF Consistent, Learned
  <2> QED BY <1>1, <2>3, <2>4, <2>5
<1>2. CASE ~(firmware.kind = "crystal" /\ hub.crystal # 0)
  BY <1>2 DEF PersistNow, Consistent, Shapes, Learned
<1> QED BY <1>1, <1>2

\* A boot is consistent, whatever it boots with, as long as it does not remember
\* another choice than flash does.
LEMMA BootKeeps ==
  ASSUME Consistent, NEW f \in Firmwares, f.kind = firmware.kind,
         NEW s, InFlash(f, s), InFlash(f, nvs'), Boot(f, s), flash' = s,
         DOMAIN typed' = {"crystal", "tuned"},
         f.kind = "crystal" => /\ typed'.crystal \in -Limit..Limit
                               /\ Apart(typed'.crystal, SavedCrystal(s)) < SaveStep,
         \/ chosen' = None
         \/ /\ chosen' = chosen /\ f.mono = firmware.mono /\ f.restore /\ firmware.restore
            /\ f.kind # "crystal" => s = flash
  PROVE  Consistent'
<1>1. /\ firmware' = f /\ restored' = FALSE
      /\ hub' = Running(f, s) /\ options' = OptionsAtBoot(f, s) /\ shown' = PublishedAtBoot(f, s)
  BY DEF Boot
<1>2. Shapes'
  BY <1>1, BootShapes DEF Shapes
<1>3. HasOption(firmware, options, shown)'
  BY <1>1, BootActive
<1>4. /\ Enumerated(firmware, flash, hub, options, shown, chosen)'
      /\ Picked(firmware, flash, hub, options, shown, chosen)'
  <2>1. CASE chosen' = None
    BY <1>1, <2>1, BootForgets
  <2>2. CASE f.kind = "crystal"
    BY <1>1, <2>2, OfAnotherKind DEF Indexed
  <2>3. CASE chosen' # None /\ f.kind # "crystal"
    <3>1. chosen' = chosen /\ f.mono = firmware.mono /\ f.restore /\ firmware.restore /\ s = flash
      BY <2>3
    <3>2. Enumerated(f, s, Running(f, s), OptionsAtBoot(f, s), PublishedAtBoot(f, s), chosen)
      BY <3>1, BootRemembersIndex DEF Consistent
    <3>3. Picked(f, s, Running(f, s), OptionsAtBoot(f, s), PublishedAtBoot(f, s), chosen)
      BY <3>1, BootRemembersServer DEF Consistent
    <3> QED BY <1>1, <3>1, <3>2, <3>3
  <2> QED BY <2>1, <2>2, <2>3
<1>5. Learned(firmware, flash, hub, restored, typed)'
  BY <1>1, BootLearned
<1>6. Turned(firmware, flash, hub, shown, typed)'
  BY <1>1, BootTurned
<1> QED BY <1>2, <1>3, <1>4, <1>5, <1>6 DEF Consistent

LEMMA RestartKeeps == Consistent /\ Restart => Consistent'
<1> SUFFICES ASSUME Consistent, Restart PROVE Consistent'
  OBVIOUS
<1> DEFINE s == PersistNow
<1>1. /\ flash' = s /\ nvs' = s /\ Boot(firmware, s)
      /\ typed' = [typed EXCEPT !.tuned = FALSE]
      /\ chosen' = IF firmware.restore THEN chosen ELSE None
  BY DEF Restart
<1>2. /\ InFlash(firmware, s) /\ (firmware.kind # "crystal" => s = flash)
      /\ firmware.kind = "crystal" => /\ typed.crystal \in -Limit..Limit
                                      /\ Apart(typed.crystal, SavedCrystal(s)) < SaveStep
  BY PersistNowIs
<1>3. DOMAIN typed' = {"crystal", "tuned"} /\ typed'.crystal = typed.crystal
  BY <1>1 DEF Consistent, Shapes
<1>4. firmware \in Firmwares
  BY DEF Consistent, Shapes
<1>5. chosen' = None \/ (chosen' = chosen /\ firmware.restore)
  BY <1>1
<1> HIDE DEF s
<1> QED BY <1>1, <1>2, <1>3, <1>4, <1>5, BootKeeps

LEMMA UpdateKeeps == Consistent /\ Update => Consistent'
<1> SUFFICES ASSUME Consistent, Update PROVE Consistent'
  OBVIOUS
<1> DEFINE s == PersistNow
<1>1. flash' = s /\ nvs' = s /\ typed' = [typed EXCEPT !.tuned = FALSE]
  BY DEF Update
<1>2. PICK f \in Firmwares :
        /\ f.kind = firmware.kind /\ Boot(f, s)
        /\ chosen' = IF f.mono = firmware.mono /\ f.restore /\ firmware.restore
                     THEN chosen ELSE None
  BY DEF Update
<1>3. /\ InFlash(firmware, s) /\ (firmware.kind # "crystal" => s = flash)
      /\ firmware.kind = "crystal" => /\ typed.crystal \in -Limit..Limit
                                      /\ Apart(typed.crystal, SavedCrystal(s)) < SaveStep
  BY PersistNowIs
<1>4. DOMAIN typed' = {"crystal", "tuned"} /\ typed'.crystal = typed.crystal
  BY <1>1 DEF Consistent, Shapes
<1>5. \/ chosen' = None
      \/ chosen' = chosen /\ f.mono = firmware.mono /\ f.restore /\ firmware.restore
  BY <1>2
<1> HIDE DEF s
<1>6. InFlash(f, s)
  BY <1>2, <1>3 DEF InFlash
<1> QED BY <1>1, <1>2, <1>3, <1>4, <1>5, <1>6, BootKeeps

LEMMA PowerLossKeeps == Consistent /\ PowerLoss => Consistent'
<1> SUFFICES ASSUME Consistent, PowerLoss PROVE Consistent'
  OBVIOUS
<1>1. /\ flash' = nvs /\ nvs' = nvs /\ Boot(firmware, nvs)
      /\ chosen' = IF firmware.restore /\ nvs = flash THEN chosen ELSE None
      /\ typed' = [tuned |-> FALSE,
                    crystal |-> IF nvs = flash THEN typed.crystal
                                ELSE IF nvs.crystal = None THEN 0 ELSE nvs.crystal]
  BY DEF PowerLoss
<1>2. firmware \in Firmwares /\ InFlash(firmware, nvs) /\ InFlash(firmware, nvs')
  BY <1>1 DEF Consistent, Shapes
<1>3. /\ DOMAIN typed' = {"crystal", "tuned"}
      /\ typed'.crystal = IF nvs = flash THEN typed.crystal ELSE SavedCrystal(nvs)
  BY <1>1 DEF SavedCrystal
<1>4. firmware.kind = "crystal" => /\ typed'.crystal \in -Limit..Limit
                                   /\ Apart(typed'.crystal, SavedCrystal(nvs)) < SaveStep
  <2>1. CASE nvs = flash
    BY <1>3, <2>1 DEF Consistent, Learned
  <2>2. CASE nvs # flash
    <3>1. SavedCrystal(nvs) \in -Limit..Limit
      BY <1>2, SettingsAssumption DEF InFlash, SavedCrystal
    <3>2. Apart(SavedCrystal(nvs), SavedCrystal(nvs)) = 0 /\ 0 < SaveStep
      BY <3>1, ApartIs, SettingsAssumption
    <3> QED BY <1>3, <2>2, <3>1, <3>2
  <2> QED BY <2>1, <2>2
<1>5. chosen' = None \/ (chosen' = chosen /\ firmware.restore /\ nvs = flash)
  BY <1>1
<1> QED BY <1>1, <1>2, <1>3, <1>4, <1>5, BootKeeps

------------------------------------------------------------------------------
LEMMA ConsistentKept == Consistent /\ [SettingsNext]_settingsVars => Consistent'
<1>1. Consistent /\ SettingsNext => Consistent'
  BY ChooseKeeps, ChooseServerKeeps, TypeServerKeeps, DiscoverKeeps, SetNumberKeeps, TuneKeeps,
     RestoreCrystalKeeps, LearnKeeps, SetCrystalKeeps, TrackKeeps,
     SyncKeeps, RestartKeeps, UpdateKeeps, PowerLossKeeps DEF SettingsNext
<1>2. Consistent /\ UNCHANGED settingsVars => Consistent'
  <2> SUFFICES ASSUME Consistent, UNCHANGED settingsVars PROVE Consistent'
    OBVIOUS
  <2>1. UNCHANGED <<firmware, flash, nvs, hub, options, shown, restored, chosen, typed>>
    BY DEF settingsVars
  <2>2. Shapes'
    BY <2>1 DEF Consistent, Shapes
  <2>3. HasOption(firmware, options, shown)'
    BY <2>1 DEF Consistent, HasOption
  <2>4. Enumerated(firmware, flash, hub, options, shown, chosen)'
    BY <2>1 DEF Consistent, Enumerated
  <2>5. Picked(firmware, flash, hub, options, shown, chosen)'
    BY <2>1 DEF Consistent, Picked
  <2>6. Learned(firmware, flash, hub, restored, typed)'
    BY <2>1 DEF Consistent, Learned
  <2>7. Turned(firmware, flash, hub, shown, typed)'
    BY <2>1 DEF Consistent, Turned
  <2> QED BY <2>2, <2>3, <2>4, <2>5, <2>6, <2>7 DEF Consistent
<1> QED BY <1>1, <1>2

LEMMA ConsistentTypes == Consistent => SettingsTypeOK
<1> SUFFICES ASSUME Consistent PROVE SettingsTypeOK
  OBVIOUS
<1>1. restored \in BOOLEAN /\ hub.crystal \in -Limit..Limit
  BY DEF Consistent, Shapes, Learned
<1>2. flash.crystal # None => flash.crystal \in -Limit..Limit
  BY DEF Consistent, Shapes, InFlash
<1>3. shown.option \in 0..Len(options) /\ (shown.option = 0 <=> options = <<>>)
  <2>1. CASE firmware.kind \in Indexed \union {"server"}
    BY <2>1 DEF Consistent, HasOption
  <2>2. CASE firmware.kind \notin Indexed \union {"server"}
    <3>1. options = <<>> /\ shown.option = 0
      BY <2>2 DEF Consistent, HasOption
    <3>2. Len(options) = 0
      BY <3>1
    <3> QED BY <3>1, <3>2
  <2> QED BY <2>1, <2>2
<1> QED BY <1>1, <1>2, <1>3 DEF SettingsTypeOK

LEMMA ConsistentBand == Consistent => ResyncOutsideUnmuteBand
<1> SUFFICES ASSUME Consistent, NEW span \in DmaSpans PROVE 2 * firmware.deadband < HardUs(span)
  BY DEF ResyncOutsideUnmuteBand
<1>1. /\ firmware.deadband \in Int /\ firmware.hard \in Int
      /\ 2 * firmware.deadband < firmware.hard * 1000
  BY FirmwareIs DEF Consistent, Shapes
<1>2. (3 * span) \div 2 \in Int
  BY SettingsAssumption
<1> QED BY <1>1, <1>2 DEF HardUs

LEMMA ConsistentServer == Consistent => ServerAsShown
<1> SUFFICES ASSUME Consistent, firmware.kind = "server"
             PROVE  InForce = IF shown.text # None THEN shown.text
                              ELSE IF options[shown.option] # Automatic
                                   THEN options[shown.option].name ELSE firmware.server
  BY DEF ServerAsShown
<1> DEFINE o == options[shown.option]
<1>1. /\ hub.manual = shown.text /\ hub.selected = Target(o) /\ Published(o) = o
  BY DEF Consistent, Picked
<1>2. Target(o) = None <=> o = Automatic
  BY <1>1, OptionsOfPicker DEF Published
<1>3. o # Automatic => Target(o) = o.name
  BY <1>2 DEF Target
<1> HIDE DEF o
<1>4. InForce = IF shown.text # None THEN shown.text
                ELSE IF o # Automatic THEN o.name ELSE firmware.server
  BY <1>1, <1>2, <1>3 DEF InForce
<1> QED BY <1>4 DEF o

LEMMA ConsistentShows ==
  Consistent => PlaysWhatItShows /\ ChoiceSurvives /\ KnobIsHonest /\ StoredCrystalIsClose
<1> SUFFICES ASSUME Consistent
             PROVE  PlaysWhatItShows /\ ChoiceSurvives /\ KnobIsHonest /\ StoredCrystalIsClose
  OBVIOUS
<1>1. PlaysWhatItShows
  <2> SUFFICES ASSUME firmware.kind \in Indexed
               PROVE  hub.mode = Says(firmware.kind, options[shown.option])
    BY DEF PlaysWhatItShows
  <2>1. /\ options = OptionsOf(firmware) /\ shown.option \in 1..Len(OptionsOf(firmware))
        /\ hub.mode = ModeAt(firmware, shown.option)
    BY DEF Consistent, Enumerated
  <2> QED BY <2>1, ModeIsSaid
<1>2. ChoiceSurvives
  BY DEF ChoiceSurvives, Consistent, Enumerated, Picked
<1>3. KnobIsHonest
  BY DEF KnobIsHonest, Consistent, Turned
<1>4. StoredCrystalIsClose
  BY DEF StoredCrystalIsClose, Consistent, Learned, SavedCrystal
<1> QED BY <1>1, <1>2, <1>3, <1>4

\* SettingsHold: whatever configurations are written, whatever servers are found and
\* whatever a person sets, every firmware is consistent, an entity shows what is in
\* force, and a choice survives reboots, updates and losses of power.
THEOREM SettingsAlwaysHold == Spec => []SettingsHold
<1>1. Init => Consistent
  BY ConsistentBegins DEF Init
<1>2. Consistent /\ [Next]_vars => Consistent'
  BY ConsistentKept, SettingsSteps
<1>3. Consistent => SettingsHold
  BY ConsistentTypes, ConsistentBand, ConsistentServer, ConsistentShows DEF SettingsHold
<1> QED BY <1>1, <1>2, <1>3, PTL DEF Spec
==============================================================================
