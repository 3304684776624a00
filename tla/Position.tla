------------------------------ MODULE Position -------------------------------
(* Moving the playback position by whole frames (timing_engine.cpp, and the     *)
(* seam of player_task_ where its commands are applied): a correction is        *)
(* issued, is in flight until the client confirms its landing by the frames     *)
(* played, and is credited to the crystal only then. Whether the error calls    *)
(* for a correction, and of how many frames, is left open. A step is a chunk.   *)
EXTENDS Naturals

CONSTANTS
  Settles,     \* what settle_us() may come to, in chunks
  Depths,      \* what may be queued ahead of a correction, in chunks
  Margin,      \* what the client adds to it before it confirms
  Corrections  \* bound: corrections of a behaviour

ASSUME PositionAssumption ==
  /\ Settles \subseteq Nat \ {0} /\ Depths \subseteq Nat /\ Margin \in Nat /\ Corrections \in Nat
  /\ \A S \in {Settles, Depths} : \E s \in S : \A t \in S : t <= s

VARIABLES
  flight,      \* in_flight_, in_flight_id_, and the chunks since in_flight_since_us_
  hold,        \* chunks until serialise_until_us_
  issued,      \* next_id_ - 1
  awaited,     \* pending_correction_id_, and the chunks until pending_correction_at_frame_
  ahead,       \* what is still to be played before each correction that was delivered
  credited     \* history: how often each correction was credited

positionVars == <<flight, hold, issued, awaited, ahead, credited>>

MaxInFlight == 3    \* MAX_IN_FLIGHT_HORIZONS

Largest(S) == CHOOSE s \in S : \A t \in S : t <= s
Oldest == MaxInFlight * Largest(Settles) + 1            \* bound on ages told apart
Furthest == 2 * (Largest(Depths) + Margin)              \* bound on a landing put off
Less(n) == IF n = 0 THEN 0 ELSE n - 1

------------------------------------------------------------------------------
Aged(f) == [f EXCEPT !.age = IF ~f.on \/ @ = Oldest THEN @ ELSE @ + 1]

\* Mutant: a landing that is never reported is waited for.
NeverExpired(f, settle) == f

Expired(f, settle) == IF f.on /\ f.age > MaxInFlight * settle THEN [f EXCEPT !.on = FALSE] ELSE f

\* Engine::step: nothing expires and nothing is issued without a measurement, or with
\* less audio in the buffer than that takes.
Engine(f, measured, settle) == IF measured THEN Expired(Aged(f), settle) ELSE Aged(f)

MayIssue(f, measured) == measured /\ ~f.on /\ hold = 0 /\ issued < Corrections

Issue(settle) == issued' = issued + 1 /\ hold' = settle
NoIssue == hold' = Less(hold) /\ UNCHANGED issued

\* Mutant: the id is read after it was counted up.
LaunchedNext == [on |-> TRUE, id |-> issued + 2, age |-> 0]

Launched == [on |-> TRUE, id |-> issued + 1, age |-> 0]

\* Mutant: what is in flight has landed when anything has.
AnyLanded(f, id) == f.on

\* confirm_position_landed credits the correction in flight, if it is the one.
HasLanded(f, id) == f.on /\ f.id = id

------------------------------------------------------------------------------
Played(moving) == [id \in DOMAIN ahead |-> IF moving THEN Less(ahead[id]) ELSE ahead[id]]
Delivered(id, n) == [i \in DOMAIN ahead \union {id} |-> IF i = id THEN n ELSE ahead[i]]

\* Later than the resync threshold: the chunk is dropped, and the command with it.
DropChunk(measured, settle, moving) ==
  LET f == Engine(flight, measured, settle)
  IN  /\ \/ MayIssue(f, measured) /\ Issue(settle) /\ flight' = Launched
         \/ NoIssue /\ flight' = f
      /\ ahead' = Played(moving)
      /\ awaited' = [awaited EXCEPT !.left = IF moving THEN Less(@) ELSE @]
      /\ UNCHANGED credited

\* The landing of an earlier correction is confirmed before a new one is applied.
Confirmed(f) ==
  IF awaited.id # 0 /\ awaited.left = 0 /\ HasLanded(f, awaited.id)
  THEN /\ credited' = [credited EXCEPT ![f.id] = @ + 1]
       /\ flight' = [f EXCEPT !.on = FALSE]
  ELSE UNCHANGED credited /\ flight' = f

PushChunk(measured, settle, moving) ==
  LET f == Engine(flight, measured, settle)
  IN  \/ /\ MayIssue(f, measured) /\ Issue(settle) /\ Confirmed(Launched)
         /\ \E d \in Depths : \E more \in 0..Margin :
              /\ awaited' = [id |-> issued', left |-> d + Margin]
              /\ ahead' = Delivered(issued', d + more)
      \/ /\ NoIssue /\ Confirmed(f)
         /\ awaited' = IF awaited.left = 0 THEN [id |-> 0, left |-> 0]
                       ELSE [awaited EXCEPT !.left = IF moving THEN @ - 1 ELSE @]
         /\ ahead' = Played(moving)

\* rebaseline_after_starvation_: all is played out, and the frames count from zero, so
\* a landing that was waited for is put off.
Rebaseline ==
  /\ ahead' = [id \in DOMAIN ahead |-> 0]
  /\ awaited.id # 0 /\ \E n \in awaited.left..Furthest : awaited' = [awaited EXCEPT !.left = n]
  /\ UNCHANGED <<flight, hold, issued, credited>>

PositionInit ==
  /\ flight = [on |-> FALSE, id |-> 0, age |-> 0]
  /\ hold = 0 /\ issued = 0 /\ awaited = [id |-> 0, left |-> 0]
  /\ ahead = [id \in {} |-> 0] /\ credited = [id \in 1..Corrections |-> 0]

Measure(measured) ==
  \E settle \in Settles, moving \in BOOLEAN :
    DropChunk(measured, settle, moving) \/ PushChunk(measured, settle, moving)

PositionNext == Rebaseline \/ \E measured \in BOOLEAN : Measure(measured)

------------------------------------------------------------------------------
PositionTypeOK ==
  /\ flight \in [on : BOOLEAN, id : 0..Corrections, age : 0..Oldest]
  /\ hold \in 0..Largest(Settles) /\ issued \in 0..Corrections
  /\ awaited \in [id : 0..Corrections, left : 0..Furthest]
  /\ DOMAIN ahead \subseteq 1..issued

\* A correction is credited to the crystal at most once, and only when it was
\* delivered and everything ahead of it has been played: not one that was dropped
\* with its chunk, or that is under way while an older one lands after its time.
CreditIsEarned ==
  \A id \in 1..Corrections :
    credited[id] > 0 => credited[id] = 1 /\ id \in DOMAIN ahead /\ ahead[id] = 0

\* The position is never held for ever by a correction nobody will confirm.
FlightEnds == []<>(~flight.on)
==============================================================================
