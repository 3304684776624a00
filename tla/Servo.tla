-------------------------------- MODULE Servo --------------------------------
(* What player_task_ of snapcast_client.cpp does with a chunk: discard it, play *)
(* it, play it in silence, drop it to catch up or put silence before it. The    *)
(* errors are taken by what they are compared with, and what they measure is    *)
(* left to the sink and the network; a tick is the unit of the time limits.     *)
EXTENDS Integers

CONSTANTS
  Window,      \* MEDIAN_WINDOW
  Confirm,     \* RESYNC_CONFIRM_SAMPLES
  StormCount,  \* RESYNC_STORM_COUNT
  StormSpan,   \* RESYNC_STORM_WINDOW_US
  AnchorWait,  \* UNMUTE_ANCHOR_MAX_WAIT_US
  StaleFor,    \* STALE_BAILOUT_US
  Unset        \* a time that is 0

ASSUME ServoAssumption ==
  /\ {Window, Confirm, StormCount} \subseteq Nat \ {0}
  /\ {StormSpan, AnchorWait, StaleFor} \subseteq Nat

VARIABLES
  sink,      \* playout_valid_, pipeline_starved_, and whether anything was pushed since the seed
  on,        \* converged
  filled,    \* err_window_filled
  inBand,    \* in_band_chunks
  wait,      \* time since unmute_anchor_wait_us
  trial,     \* resync_confirm_dir, resync_confirm_run
  storm,     \* storm_resyncs, time since storm_window_us
  late,      \* time since stale_since_us
  reconnect,     \* reconnect_requested_
  promise,      \* what is promised of the rest of the behaviour
  streak,    \* history: chunks in band since the last seed, resync or chunk out of it
  seen       \* history: measurements taken since the error was last within the threshold

servoVars == <<sink, on, filled, inBand, wait, trial, storm, late, reconnect, promise, streak, seen>>

Capped(n, most) == IF n < most THEN n + 1 ELSE most
Older(t, most) == IF t = Unset THEN Unset ELSE Capped(t, most)

(* Of the deadline error, positive when late: in the band of the unmute gate,   *)
(* out of it, beyond the hard resync threshold, beyond what is plausible; only  *)
(* beyond the threshold does it matter whether it is late or early.             *)
Errors == {-2, 0, 1, 2, 3}
Beyond(err) == err \in {-2, 2}
Direction(err) == IF err > 0 THEN 1 ELSE -1
Sides == {"early", "within", "late"}    \* the ledger's error, by the server's buffer
Levels == {"mute_on_storm", "play_through_storms", "never_mute"}    \* SyncResilience

------------------------------------------------------------------------------
NoTrial == [dir |-> 0, n |-> 0]

\* Mutant: what is counted is evaluations, not measurements.
CountedEachTime(t, err, fresh) ==
  IF ~Beyond(err) THEN NoTrial
  ELSE [dir |-> Direction(err), n |-> IF t.dir = Direction(err) THEN Capped(t.n, Confirm) ELSE 1]

\* The confirmation of a displacement: a measurement is counted once however many
\* chunks read it, and one in the other direction starts over.
Counted(t, err, fresh) ==
  IF ~Beyond(err) THEN NoTrial
  ELSE IF t.n > 0 /\ ~fresh THEN t
  ELSE [dir |-> Direction(err), n |-> IF t.dir = Direction(err) THEN Capped(t.n, Confirm) ELSE 1]

Displaced(t, err, ok) == Beyond(err) /\ t.n = Confirm /\ ok

Stormed(s) ==
  IF s.age > StormSpan THEN [n |-> 1, age |-> 0] ELSE [s EXCEPT !.n = Capped(@, StormCount)]

Mutes(s, side, level) ==
  \/ level = "mute_on_storm" /\ s.n = StormCount
  \/ level # "never_mute" /\ side # "within"

\* Mutant: every late chunk sets the time.
BackloggedAnew(since) == FALSE

Backlogged(since) == since # Unset /\ since >= StaleFor

\* check_stale_bailout_
Bailout(side) ==
  /\ reconnect' = (reconnect \/ (side = "late" /\ Backlogged(late)))
  /\ late' = IF side # "late" \/ Backlogged(late) THEN Unset
             ELSE IF late = Unset THEN 0 ELSE late

------------------------------------------------------------------------------
\* Mutant: the window survives what it was measured against.
EmptiedNever(n) == n

\* A seed or a resync: the errors in the window are of another placement.
Emptied(n) == 0

\* rebaseline_after_starvation_, which every chunk goes through first.
Seed ==
  /\ on' = (on /\ ~sink.starved)
  /\ filled' = IF sink.starved THEN Emptied(filled) ELSE filled
  /\ streak' = IF sink.starved THEN 0 ELSE streak
Valid == sink.valid /\ ~sink.starved

\* The chunk has no deadline, or is the first and its deadline is past or too far.
Discard ==
  /\ promise # "in band"
  /\ Seed
  /\ sink' = [valid |-> Valid, starved |-> FALSE, fed |-> sink.fed /\ ~sink.starved]
  /\ UNCHANGED <<inBand, wait, trial, storm, late, reconnect, promise, seen>>

\* Nothing was heard of the sink yet: the chunk waits for its time and goes in silence.
PushFirst ==
  /\ ~Valid /\ promise # "late"
  /\ Seed
  /\ sink' = [valid |-> FALSE, starved |-> FALSE, fed |-> TRUE]
  /\ UNCHANGED <<inBand, wait, trial, storm, late, reconnect, promise, seen>>

\* What a judged chunk may find: without tags the ledger's error is the one that counts.
Measured(err, side, tags) ==
  /\ ~tags => (side = "late" => err >= 2) /\ (side = "early" => err <= -2)
  /\ promise = "in band" => err = 0
  /\ promise = "late" => side = "late"

\* Whether the measurement is new and its source agreed with is asked of a large error only.
Asked(err, tags, fresh, ok) ==
  /\ ~Beyond(err) => fresh
  /\ ~Beyond(err) \/ ~tags => ok

\* The gate's own error, or the group's agreement: the tags' error, or else the median
\* of a window that may lag behind the chunk's.
NearFor(err, tags) ==
  IF promise = "in band" THEN {TRUE}
  ELSE IF ~tags /\ Capped(filled, Window) = Window THEN BOOLEAN
  ELSE {near \in BOOLEAN : (err = 0 => near) /\ (near => err \in {0, 1})}

\* Whether the playout is on the group's timebase; the sink's depth agrees with the ledger.
SettledFor == IF promise = "in band" THEN {TRUE} ELSE BOOLEAN

Read(err, fresh) ==
  /\ trial' = Counted(trial, err, fresh)
  /\ seen' = IF ~Beyond(err) THEN 0 ELSE IF fresh \/ seen = 0 THEN Capped(seen, Confirm) ELSE seen

\* Mutant: every chunk that is held starts the wait again.
WaitsAnew == 0

Waits == IF wait = Unset THEN 0 ELSE wait
WaitedOut == wait # Unset /\ wait >= AnchorWait

\* The unmute gate, after a chunk that found the window filled by n and is played.
Gate(playing, n, near, settled, anchor) ==
  LET counts == ~playing /\ n = Window /\ settled
      enough == counts /\ Capped(inBand, Window) = Window
  IN  IF ~near
      THEN inBand' = 0 /\ wait' = Unset /\ on' = playing
      ELSE /\ inBand' = IF counts THEN Capped(inBand, Window) ELSE inBand
           /\ on' = (playing \/ (enough /\ (anchor \/ WaitedOut)))
           /\ wait' = IF ~enough THEN wait
                      ELSE IF anchor \/ WaitedOut THEN Unset ELSE Waits

\* Late: the chunk is dropped, and nothing after it is done.
ResyncLate(err, side) ==
  \E level \in Levels :
    LET s == Stormed(storm)
    IN  /\ err > 0
        /\ storm' = s
        /\ on' = (on /\ ~Mutes(s, side, level))
        /\ filled' = Emptied(Capped(filled, Window)) /\ streak' = 0
        /\ UNCHANGED <<sink, inBand, wait>>

\* Early: silence is put before the chunk, which goes on to the gate.
ResyncEarly(err, side, near) ==
  \E level \in Levels :
    LET s == Stormed(storm)
        n == Emptied(Capped(filled, Window))
    IN  /\ err < 0
        /\ storm' = s
        /\ filled' = n /\ streak' = 0
        /\ Gate(on /\ ~Mutes(s, side, level), n, near, TRUE, TRUE)
        /\ sink' = [sink EXCEPT !.fed = TRUE]

Play(near) ==
  LET n == Capped(filled, Window)
  IN  \E settled \in SettledFor, anchor \in BOOLEAN :
        /\ filled' = n
        /\ streak' = IF near THEN Capped(streak, Window) ELSE 0
        /\ Gate(on, n, near, settled, anchor)
        /\ sink' = [sink EXCEPT !.fed = TRUE]
        /\ UNCHANGED storm

Judge ==
  /\ Valid
  /\ \E err \in Errors, side \in Sides, tags, fresh, ok \in BOOLEAN :
       /\ Measured(err, side, tags) /\ Asked(err, tags, fresh, ok)
       /\ Bailout(side)
       /\ Read(err, fresh)
       /\ IF Displaced(trial', err, ok)
          THEN ResyncLate(err, side) \/ \E near \in NearFor(err, tags) : ResyncEarly(err, side, near)
          ELSE \E near \in NearFor(err, tags) : Play(near)
  /\ UNCHANGED promise

Chunk == Discard \/ PushFirst \/ Judge

------------------------------------------------------------------------------
\* The sink reports frames; of what was never pushed it reports padding.
Heard ==
  /\ ~sink.valid /\ sink' = [sink EXCEPT !.valid = TRUE]
  /\ UNCHANGED <<on, filled, inBand, wait, trial, storm, late, reconnect, promise, streak, seen>>
Answers == sink.fed /\ Heard

\* The sink runs empty, or the source is activated again.
Drain == sink.valid /\ sink' = [sink EXCEPT !.starved = TRUE]
Activate == sink' = [sink EXCEPT !.valid = FALSE, !.fed = FALSE]
Break ==
  /\ promise # "in band"
  /\ Drain \/ Activate
  /\ UNCHANGED <<on, filled, inBand, wait, trial, storm, late, reconnect, promise, streak, seen>>

\* The network task takes the request.
Reconnect ==
  /\ reconnect /\ reconnect' = FALSE
  /\ UNCHANGED <<sink, on, filled, inBand, wait, trial, storm, late, promise, streak, seen>>

Elapse ==
  /\ storm' = [storm EXCEPT !.age = Capped(@, StormSpan + 1)]
  /\ wait' = Older(wait, AnchorWait) /\ late' = Older(late, StaleFor)
  /\ UNCHANGED <<sink, on, filled, inBand, trial, reconnect, promise, streak, seen>>

\* From here on chunks are where they belong, or past the server's buffer.
Promise ==
  /\ promise = "none" /\ promise' \in {"in band", "late"}
  /\ UNCHANGED <<sink, on, filled, inBand, wait, trial, storm, late, reconnect, streak, seen>>

ServoInit ==
  /\ sink = [valid |-> FALSE, starved |-> FALSE, fed |-> FALSE]
  /\ on = FALSE /\ filled = 0 /\ inBand = 0 /\ wait = Unset
  /\ trial = NoTrial /\ storm = [n |-> 0, age |-> StormSpan + 1]
  /\ late = Unset /\ reconnect = FALSE /\ promise = "none"
  /\ streak = 0 /\ seen = 0

ServoNext == Chunk \/ Heard \/ Break \/ Reconnect \/ Elapse \/ Promise

------------------------------------------------------------------------------
ServoTypeOK ==
  /\ sink \in [valid : BOOLEAN, starved : BOOLEAN, fed : BOOLEAN]
  /\ on \in BOOLEAN /\ reconnect \in BOOLEAN
  /\ filled \in 0..Window /\ inBand \in 0..Window
  /\ wait \in 0..AnchorWait \union {Unset} /\ late \in 0..StaleFor \union {Unset}
  /\ trial \in [dir : -1..1, n : 0..Confirm]
  /\ storm \in [n : 0..StormCount, age : 0..StormSpan + 1]

\* Sound comes back only when a whole window of chunks was in band since the audio was
\* last moved under it, whatever a resync or a seed left counted from before.
UnmuteIsEarned == [][~on /\ on' => streak' = Window]_servoVars

\* The repair that cannot be undone never acts on one bad snapshot, which every chunk
\* reads until the next is published: it has been measured Confirm times.
ResyncIsConfirmed ==
  [][storm'.n # storm.n \/ storm'.age < storm.age => seen' = Confirm]_servoVars

\* When chunks come where they belong the device gets to play and keeps playing, also
\* if the ledger and the sink's depth never come to agree.
GetsAudible == <>[](promise = "in band") => <>[]on

\* While the sink plays, a stream that stays late past the server's buffer is given up.
BailsOut == <>[](promise = "late" /\ Valid) => []<>reconnect
==============================================================================
