------------------------------- MODULE Settings ------------------------------
(* From the YAML of a board to what the board runs with: validation and code    *)
(* generation (components/snapclient/__init__.py and its platforms), then the   *)
(* entities a person changes the settings with, through reboots, power losses   *)
(* and new firmware. An entity keeps its choice in flash; a firmware is what    *)
(* code generation made of an accepted configuration with one such entity.      *)
EXTENDS Integers, Sequences, SequencesExt

CONSTANTS
  Boards,      \* the YAML configurations people write
  Names,       \* servers mDNS may find, and people may type
  Long,        \* those of them whose option does not fit its place in flash
  Values,      \* what people set a number to
  Crystals,    \* what the loop may learn: a float never lands on 0 exactly
  Limit,       \* CRYSTAL_LIMIT_PPM, in units of a crystal
  SaveStep,    \* the movement of the crystal that is worth a write, 2 ppm
  DmaSpans,    \* spans of the sink's DMA buffer that may be measured, in us
  None         \* nothing stored, shown, chosen or configured

\* An option of the picker, as flash holds it too: whole, or cut off.
PickerOptions == [name : Names \union {None}, whole : BOOLEAN]

ASSUME SettingsAssumption ==
  /\ IsFiniteSet(Names) /\ Long \subseteq Names
  /\ Values \subseteq Int /\ DmaSpans \subseteq Nat
  /\ Limit \in Nat /\ SaveStep \in Nat \ {0}
  /\ Crystals \subseteq (-Limit..Limit) \ {0}
  /\ None \notin Int /\ None \notin PickerOptions

VARIABLES
  firmware, \* what runs: settings of the hub, and of the entity
  flash,    \* what has been saved: the choice, the typed server, number, crystal
  nvs,      \* what of it has been written and outlives the power
  hub,      \* what is in force
  options,  \* options of the select
  shown,    \* the option active in it (its index), the texts and numbers published
  restored, \* the player task has restored the crystal since boot
  chosen,   \* history: the choice made last on this firmware, or None
  typed     \* history: the last of a tunable's values a person gave

settingsVars == <<firmware, flash, nvs, hub, options, shown, restored, chosen, typed>>

Bound(x, lo, hi) == IF x < lo THEN lo ELSE IF x > hi THEN hi ELSE x
Apart(a, b) == IF a > b THEN a - b ELSE b - a
Index(s, e) == CHOOSE i \in DOMAIN s : s[i] = e

------------------------------------------------------------------------------
\* CONFIG_SCHEMA. Times are in microseconds.
Within(t, lo, hi) == t \in lo..hi

\* positive_time_period_milliseconds refuses what milliseconds cannot hold.
WholeMs(t) == t >= 0 /\ t % 1000 = 0

SyncSchema(y) ==
  /\ WholeMs(y.interval) /\ Within(y.interval, 100000, 60000000)
  /\ Within(y.deadband, 100, 20000)
  /\ Within(y.fine, 250, 50000)
  /\ WholeMs(y.hard) /\ Within(y.hard, 10000, 1000000)

\* Boot defaults of what an entity may override.
ModeSchema(y) ==
  /\ y.channel \in {"stereo", "left", "right", "mono"}
  /\ y.phase \in {"none", "left", "right", "both"}
  /\ y.pause \in {"allow", "resume", "ignore"}
  /\ y.resilience \in {"mute_on_storm", "play_through_storms", "never_mute"}

CorrectionSchema(y) == Within(y.align, 0, 20000) /\ y.splice >= 0

\* A hold of None is "never".
HoldSchema(y) ==
  /\ y.hold = None \/ WholeMs(y.hold)
  /\ WholeMs(y.idle) /\ Within(y.idle, 500000, 30000000)

StreamSchema(y) == y.port \in 0..65535 /\ y.buffer >= 65536

\* The bus is named by its id; the lock needs the S3's clock divider.
RateLockSchema(y) == y.bus # None => y.variant = "s3"

\* static_delay of the media source.
DelaySchema(y) == WholeMs(y.delay) /\ y.delay <= 2000000

\* Mutant: the limits are allowed to meet and to cross the resync's.
LowerBandOnly(y) == 2 * y.deadband < y.fine

ConvergenceBands(y) == 2 * y.deadband < y.fine /\ y.fine < (y.hard \div 1000) * 1000

Accepted(y) ==
  /\ SyncSchema(y) /\ ModeSchema(y) /\ CorrectionSchema(y) /\ HoldSchema(y) /\ StreamSchema(y)
  /\ RateLockSchema(y) /\ DelaySchema(y) /\ ConvergenceBands(y)

\* The ports i2s_audio assigns: in the order of declaration, but a PDM
\* microphone has its own bus at port 0.
PortMap(y) ==
  LET order == IF y.pdm = None THEN y.buses ELSE <<y.pdm>> \o Remove(y.buses, y.pdm)
  IN  [b \in ToSet(order) |-> Index(order, b) - 1]

\* What to_code makes of it. A keepalive of 0 is "never".
ToCode(y) ==
  [deadband |-> y.deadband, fine |-> y.fine, hard |-> y.hard \div 1000,
   interval |-> y.interval \div 1000, idle |-> y.idle \div 1000,
   hold |-> IF y.hold = None THEN 0 ELSE y.hold \div 1000, delay |-> y.delay \div 1000,
   align |-> y.align, splice |-> y.splice, buffer |-> y.buffer, server |-> y.server,
   modes |-> [channel |-> y.channel, phase |-> y.phase, pause |-> y.pause,
              resilience |-> y.resilience],
   port |-> IF y.bus = None THEN None ELSE PortMap(y)[y.bus],
   features |-> {f \in {"flac", "opus", "tsf", "observer", "diagnostics", "reanchor"} : y[f]}
                  \union IF y.bus = None THEN {} ELSE {"rate_lock"},
   kind |-> y.kind, mono |-> y.mono, restore |-> y.restore, param |-> y.param]

\* A build that ends in a firmware: an unknown bus stops it in to_code.
Builds(y) == Accepted(y) /\ (y.bus # None => y.bus \in DOMAIN PortMap(y))
Firmwares == {ToCode(y) : y \in {b \in Boards : Builds(b)}}

------------------------------------------------------------------------------
\* The selects over an enum of the hub, in the order of that enum.
Indexed == {"channel", "phase", "pause", "resilience"}

Modes(kind) ==
  CASE kind = "channel"    -> <<"stereo", "left", "right", "mono">>
    [] kind = "phase"      -> <<"none", "left", "right", "both">>
    [] kind = "pause"      -> <<"allow", "resume", "ignore">>
    [] kind = "resilience" -> <<"mute_on_storm", "play_through_storms", "never_mute">>

\* The options code generation gives a select, fewer on an amplifier that sums
\* both channels.
OptionsOf(f) ==
  CASE f.kind = "channel" /\ f.mono  -> <<"Mix", "Left", "Right">>
    [] f.kind = "channel" /\ ~f.mono -> <<"Stereo", "Left", "Right", "Mono">>
    [] f.kind = "phase" /\ f.mono    -> <<"None", "Inverted">>
    [] f.kind = "phase" /\ ~f.mono   -> <<"None", "Left", "Right", "Both">>
    [] f.kind = "pause"              -> <<"Allow", "Resume", "Ignore">>
    [] f.kind = "resilience"         -> <<"Mute on storms", "Play through storms", "Never mute">>

\* Mutant: the mode of an index does not look at mono_dac.
ModeByEnum(f, i) == Modes(f.kind)[i]

\* apply_index_
ModeAt(f, i) ==
  CASE f.kind = "channel" /\ f.mono -> <<"mono", "left", "right">>[i]
    [] f.kind = "phase" /\ f.mono   -> <<"none", "both">>[i]
    [] OTHER                        -> Modes(f.kind)[i]

\* initial_index_: where the hub's default has no option, the nearest one.
InitialIndex(f) ==
  LET mode == f.modes[f.kind]
  IN  CASE f.kind = "channel" /\ f.mono ->
             IF mode = "left" THEN 2 ELSE IF mode = "right" THEN 3 ELSE 1
        [] f.kind = "phase" /\ f.mono   -> IF mode = "none" THEN 1 ELSE 2
        [] OTHER                        -> Index(Modes(f.kind), mode)

\* Mutant: what flash holds is not looked at.
BootIndexDefault(f, s) == InitialIndex(f)

\* SnapclientIndexedSelect::setup
BootIndex(f, s) ==
  IF f.restore /\ s.select # None /\ s.select <= Len(OptionsOf(f))
  THEN s.select ELSE InitialIndex(f)

------------------------------------------------------------------------------
\* The picker of servers. An option names its server; cut off in flash it names
\* nothing any more.
Option(n) == [name |-> n, whole |-> TRUE]
Automatic == Option(None)
Target(o) == IF o.whole THEN o.name ELSE None
Stored(o) == IF o.name \in Long THEN [o EXCEPT !.whole = FALSE] ELSE o

\* What the picker publishes for an option.
Published(o) == IF Target(o) = None THEN Automatic ELSE o

\* SnapclientServerSelect::setup
BootServer(f, s) == IF f.restore /\ s.select # None THEN s.select ELSE Automatic
BootList(o) == IF o = Automatic THEN <<Automatic>> ELSE <<Automatic, o>>

\* on_servers_discovered_: the choice stays listed whether found or not.
Listed(found, current) ==
  LET list == <<Automatic>> \o [i \in DOMAIN found |-> Option(found[i])]
  IN  IF current \in ToSet(list) THEN list ELSE Append(list, current)

\* Mutant: the current option is read once the list is another.
ActiveLate(list) == Bound(shown.option, 1, Len(list))

\* The current option, read before the list is replaced.
Active(list) == Index(list, options[shown.option])

------------------------------------------------------------------------------
\* SERVO_PARAM_NUMBERS: "the useful editing range, not the code's own limits".
EditingRange ==
  [timing_target_us |-> 1..500, blank_ms |-> 0..5000, gap_blank_ms |-> 0..2000,
   tag_stale_ms |-> 100..10000, rate_authority_ppm |-> 30..180]
Tunables == DOMAIN EditingRange

\* The code's own limits: set_servo_param refuses what is outside them.
Takes(p, v) ==
  CASE p = "blank_ms"           -> v \in 100..2000
    [] p = "gap_blank_ms"       -> v \in 10..500
    [] p = "tag_stale_ms"       -> v \in 200..10000
    [] p = "rate_authority_ppm" -> v \in 30..180
    [] p = "timing_target_us"   -> TRUE

\* What the servo starts with.
Compiled ==
  [timing_target_us |-> 10, blank_ms |-> 500, gap_blank_ms |-> 50, tag_stale_ms |-> 1000,
   rate_authority_ppm |-> 150]

\* Mutant: a restored value is shown, but the servo is not told.
BootNumberShown(f, s) == Compiled[f.param]

\* A tunable at boot: what flash holds if the servo takes it.
BootNumber(f, s) ==
  IF s.number # None /\ Takes(f.param, s.number)
  THEN s.number ELSE Compiled[f.param]

\* SnapclientServoParamNumber::setup
ShownAtBoot(f, s) == IF s.number # None THEN s.number ELSE BootNumber(f, s)

------------------------------------------------------------------------------
\* The hub's setup, then that of the entity. The crystal starts from 0 until
\* the player task runs.
Running(f, s) ==
  [mode     |-> IF f.kind \in Indexed THEN ModeAt(f, BootIndex(f, s)) ELSE None,
   selected |-> IF f.kind = "server" THEN Target(BootServer(f, s)) ELSE None,
   manual   |-> IF f.kind = "server" /\ f.restore THEN s.text ELSE None,
   number   |-> IF f.kind = "tunable" THEN BootNumber(f, s) ELSE None,
   crystal |-> 0, saved |-> 0]

OptionsAtBoot(f, s) ==
  IF f.kind \in Indexed THEN OptionsOf(f)
  ELSE IF f.kind = "server" THEN BootList(BootServer(f, s)) ELSE <<>>

PublishedAtBoot(f, s) ==
  [option |-> IF f.kind \in Indexed THEN BootIndex(f, s)
              ELSE IF f.kind = "server" THEN Index(BootList(BootServer(f, s)), Published(BootServer(f, s)))
              ELSE 0,
   text   |-> IF f.kind = "server" /\ f.restore THEN s.text ELSE None,
   number |-> IF f.kind = "tunable" THEN ShownAtBoot(f, s) ELSE None]

Boot(f, s) ==
  /\ firmware' = f
  /\ hub' = Running(f, s) /\ options' = OptionsAtBoot(f, s) /\ shown' = PublishedAtBoot(f, s)
  /\ restored' = FALSE

Blank == [select |-> None, text |-> None, number |-> None, crystal |-> None]

SettingsInit ==
  /\ firmware \in Firmwares
  /\ flash = Blank /\ nvs = Blank
  /\ hub = Running(firmware, Blank) /\ options = OptionsAtBoot(firmware, Blank)
  /\ shown = PublishedAtBoot(firmware, Blank)
  /\ restored = FALSE /\ chosen = None /\ typed = [crystal |-> 0, tuned |-> FALSE]

------------------------------------------------------------------------------
\* A choice in a select over an enum.
Choose ==
  /\ firmware.kind \in Indexed
  /\ \E i \in DOMAIN options :
       /\ hub' = [hub EXCEPT !.mode = ModeAt(firmware, i)]
       /\ shown' = [shown EXCEPT !.option = i]
       /\ flash' = IF firmware.restore THEN [flash EXCEPT !.select = i] ELSE flash
       /\ chosen' = options[i]
  /\ UNCHANGED <<firmware, nvs, options, restored, typed>>

SaveServer(o) == IF firmware.restore THEN [flash EXCEPT !.select = Stored(o)] ELSE flash

\* A server picked from the list.
ChooseServer ==
  /\ firmware.kind = "server"
  /\ \E i \in DOMAIN options :
       LET o == options[i]
       IN  /\ hub' = [hub EXCEPT !.selected = Target(o)]
           /\ shown' = [shown EXCEPT !.option = Index(options, Published(o))]
           /\ flash' = SaveServer(o)
           /\ chosen' = o
  /\ UNCHANGED <<firmware, nvs, options, restored, typed>>

\* A server typed, or the text cleared. 64 characters fit in flash.
TypeServer ==
  /\ firmware.kind = "server"
  /\ \E n \in Names \union {None} :
       /\ hub' = [hub EXCEPT !.manual = n]
       /\ shown' = [shown EXCEPT !.text = n]
       /\ flash' = IF firmware.restore THEN [flash EXCEPT !.text = n] ELSE flash
  /\ UNCHANGED <<firmware, nvs, options, restored, chosen, typed>>

\* A scan that found servers, in any order.
Discover ==
  /\ firmware.kind = "server"
  /\ \E found \in SetToAllKPermutations(Names) :
       LET list == Listed(found, options[shown.option])
       IN  options' = list /\ shown' = [shown EXCEPT !.option = Active(list)]
  /\ UNCHANGED <<firmware, nvs, flash, hub, restored, chosen, typed>>

\* A number set by a person: published and stored, whether the servo took it.
SetNumber ==
  /\ firmware.kind = "tunable"
  /\ \E v \in Values \intersect EditingRange[firmware.param] :
       /\ hub' = IF Takes(firmware.param, v) THEN [hub EXCEPT !.number = v] ELSE hub
       /\ flash' = [flash EXCEPT !.number = v]
       /\ shown' = [shown EXCEPT !.number = v]
  /\ UNCHANGED <<firmware, nvs, options, restored, chosen, typed>>

\* The same parameter through the API's action: the number hears nothing of it.
Tune ==
  /\ firmware.kind = "tunable"
  /\ \E v \in Values : Takes(firmware.param, v) /\ hub' = [hub EXCEPT !.number = v]
  /\ typed' = [typed EXCEPT !.tuned = TRUE]
  /\ UNCHANGED <<firmware, nvs, flash, options, shown, restored, chosen>>

------------------------------------------------------------------------------
\* Mutant: what is typed or restored is taken as it is.
Unclamped(x) == x

\* TimingEngine::set_crystal_ppm
Clamped(x) == Bound(x, -Limit, Limit)

\* The crystal: learned by the loop, restored by the player task, and typed.
RestoreCrystal ==
  /\ firmware.kind = "crystal" /\ ~restored
  /\ restored' = TRUE
  /\ hub' = IF flash.crystal = None THEN hub
            ELSE [hub EXCEPT !.crystal = Clamped(flash.crystal), !.saved = flash.crystal]
  /\ UNCHANGED <<firmware, nvs, flash, options, shown, chosen, typed>>

\* Mutant: the movement is taken from the last decision, not from the last write.
MovedSinceLast(x) == Apart(x, hub.crystal) >= SaveStep

MovedSinceSave(x) == Apart(x, hub.saved) >= SaveStep

\* A decision of the loop moves the crystal; far from what is stored, or after
\* ten minutes, it is written.
Learn ==
  /\ firmware.kind = "crystal" /\ restored
  /\ \E x \in Crystals, overdue \in BOOLEAN :
       LET save == x # 0 /\ (overdue \/ MovedSinceSave(x))
       IN  /\ hub' = [hub EXCEPT !.crystal = x, !.saved = IF save THEN x ELSE @]
           /\ flash' = IF save THEN [flash EXCEPT !.crystal = x] ELSE flash
           /\ typed' = [typed EXCEPT !.crystal = x]
  /\ UNCHANGED <<firmware, nvs, options, shown, restored, chosen>>

\* The crystal set by a person, up to 2000 ppm, is kept within its limit and written at once,
\* zero too. The API is up long after the player task has started.
SetCrystal ==
  /\ firmware.kind = "crystal" /\ restored
  /\ \E v \in {x \in Values : Apart(x, 0) <= 10 * Limit} :
       LET x == Clamped(v)
       IN  /\ hub' = [hub EXCEPT !.crystal = x, !.saved = x]
           /\ flash' = [flash EXCEPT !.crystal = x] /\ nvs' = [flash EXCEPT !.crystal = x]
           /\ shown' = [shown EXCEPT !.number = v]
           /\ typed' = [typed EXCEPT !.crystal = x]
  /\ UNCHANGED <<firmware, options, restored, chosen>>

\* loop(): the number follows the crystal.
Track ==
  /\ firmware.kind = "crystal" /\ shown.number # hub.crystal
  /\ shown' = [shown EXCEPT !.number = hub.crystal]
  /\ UNCHANGED <<firmware, nvs, flash, hub, options, restored, chosen, typed>>

------------------------------------------------------------------------------
\* persist_now: a crystal of 0 was never learned.
PersistNow ==
  IF firmware.kind = "crystal" /\ hub.crystal # 0
  THEN [flash EXCEPT !.crystal = hub.crystal] ELSE flash

\* The preferences are written every minute ...
Sync == nvs # flash /\ nvs' = flash /\ UNCHANGED <<firmware, flash, hub, options, shown, restored, chosen, typed>>

\* ... and before a restart ...
Restart ==
  /\ flash' = PersistNow /\ nvs' = PersistNow
  /\ Boot(firmware, PersistNow)
  /\ typed' = [typed EXCEPT !.tuned = FALSE]
  /\ chosen' = IF firmware.restore THEN chosen ELSE None

\* ... which an update ends with, in another firmware for the same entity. What
\* a choice is to it is up to its options.
Update ==
  /\ flash' = PersistNow /\ nvs' = PersistNow
  /\ \E f \in Firmwares :
       /\ f.kind = firmware.kind /\ f.param = firmware.param
       /\ Boot(f, PersistNow)
       /\ chosen' = IF f.mono = firmware.mono /\ f.restore /\ firmware.restore THEN chosen ELSE None
  /\ typed' = [typed EXCEPT !.tuned = FALSE]

\* When the power goes, what was not written is gone.
PowerLoss ==
  /\ flash' = nvs /\ Boot(firmware, nvs)
  /\ chosen' = IF firmware.restore /\ nvs = flash THEN chosen ELSE None
  /\ typed' = [tuned |-> FALSE,
                crystal |-> IF nvs = flash THEN typed.crystal
                            ELSE IF nvs.crystal = None THEN 0 ELSE nvs.crystal]
  /\ UNCHANGED nvs

SettingsNext ==
  \/ Choose \/ ChooseServer \/ TypeServer \/ Discover \/ SetNumber \/ Tune
  \/ RestoreCrystal \/ Learn \/ SetCrystal \/ Track
  \/ Sync \/ Restart \/ Update \/ PowerLoss

SettingsSpec == SettingsInit /\ [][SettingsNext]_settingsVars

------------------------------------------------------------------------------
SettingsTypeOK ==
  /\ restored \in BOOLEAN
  /\ shown.option \in 0..Len(options)
  /\ shown.option = 0 <=> options = <<>>
  /\ hub.crystal \in -Limit..Limit
  /\ flash.crystal # None => flash.crystal \in -Limit..Limit

\* What the hard resync fires at on the device, whatever the sink's buffer: the
\* threshold, but clear of one DMA buffer.
HardUs(span) ==
  LET us == firmware.hard * 1000 IN IF (3 * span) \div 2 > us THEN (3 * span) \div 2 ELSE us

\* No accepted configuration lets the resync fire inside the band in which a
\* muted client has to stay to be heard again ("or convergence cannot finish"),
\* although the two limits are only ever compared with a third.
ResyncOutsideUnmuteBand == \A span \in DmaSpans : 2 * firmware.deadband < HardUs(span)

\* An option says what the hub does, on either kind of amplifier, and whatever
\* firmware and flash the entity has been through.
Says(kind, option) ==
  CASE kind = "channel" ->
         [Stereo |-> "stereo", Mix |-> "mono", Mono |-> "mono", Left |-> "left", Right |-> "right"][option]
    [] kind = "phase" ->
         [None |-> "none", Inverted |-> "both", Both |-> "both", Left |-> "left", Right |-> "right"][option]
    [] OTHER -> Modes(kind)[Index(OptionsOf(firmware), option)]

PlaysWhatItShows ==
  firmware.kind \in Indexed => hub.mode = Says(firmware.kind, options[shown.option])

\* A choice that is kept in flash is the one in force after every reboot and
\* every firmware with the same options; of a server, as long as its option
\* fits there.
ChoiceSurvives ==
  /\ firmware.kind \in Indexed /\ chosen # None => options[shown.option] = chosen
  /\ firmware.kind = "server" /\ chosen # None /\ chosen.whole /\ chosen.name \notin Long
       => options[shown.option] = chosen

\* The hub looks for the server that the typed text, the picker and the YAML
\* name, in this order, while scans reorder, empty and fill the list.
InForce ==
  IF hub.manual # None THEN hub.manual
  ELSE IF hub.selected # None THEN hub.selected ELSE firmware.server

ServerAsShown ==
  firmware.kind = "server" =>
    InForce = IF shown.text # None THEN shown.text
              ELSE IF options[shown.option] # Automatic THEN options[shown.option].name
              ELSE firmware.server

\* A knob nobody turned shows what runs ("an empty knob is honest, a minimum is
\* not"); one that was turned to a value the servo takes runs at it, after a
\* reboot too. The API's action goes past the knob.
KnobIsHonest ==
  firmware.kind = "tunable" /\ ~typed.tuned =>
    (flash.number = None \/ Takes(firmware.param, flash.number) => hub.number = shown.number)

\* The crystal saved is never a stale one: it is less than the step that is worth
\* a write from the one learned or typed last, through restarts and updates, also
\* one before the player task has run, and losses of power.
StoredCrystalIsClose ==
  firmware.kind = "crystal" =>
    Apart(typed.crystal, IF flash.crystal = None THEN 0 ELSE flash.crystal) < SaveStep
==============================================================================
