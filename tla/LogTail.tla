------------------------------- MODULE LogTail -------------------------------
(* How scripts/i2s-skew.py follows the log of a board while it measures: the   *)
(* log is polled from the offset the last poll stopped at, what a line means   *)
(* depends on state carried from poll to poll, and the file may be replaced    *)
(* under it. The state is first primed with what the log already holds; then   *)
(* either the run is live, or it is a replot that reads the log once more.     *)
(* A line is a record of its kind, its time of day, the device time it carries *)
(* (Nil if it has none), the group state it names (or Nil) and its value.    *)
EXTENDS Integers, Sequences, SequencesExt

CONSTANTS
  Lines,      \* the lines a log may hold
  MaxLines,   \* bound: lines ever written
  MaxKinds,   \* bound: kinds of line in what was read and can be read
  MaxFiles,   \* bound: files ever created under the name
  TailLines,  \* --log-tail-mb, in lines: a first read takes only the end (0: all of it)
  TrimPpm, PipeMs, SyncUs, TagUs, PhaseUs,   \* thresholds of the marks
  DlEvent,    \* --dl-event-s
  Nil

ASSUME TailAssumption ==
  /\ TailLines \in Nat /\ MaxLines \in Nat /\ MaxFiles \in Nat \ {0}
  /\ Nil \notin Nat
  /\ \A l \in Lines : l.kind = "preburst" => l.v.gaps \in Seq(Int)

VARIABLES
  log, ino,       \* the file under the name: its lines and its identity
  written,        \* lines written so far
  nextRead, ident,     \* where the next poll starts, and the file it knows
  carrying,       \* LOG_STATE: what the parser carries
  marks, readings, seedLines,   \* events, series and seeds gathered so far
  phase,          \* "start", "live", "replot"
  read, primed,   \* history: the lines read, how many of them by the priming
  cut             \* history: truncated in place, and no poll has noticed yet

tailVars == <<log, ino, written, nextRead, ident, carrying, marks, readings, seedLines, phase,
              read, primed, cut>>

Far(a, b, n) == a - b >= n \/ b - a >= n

Fresh == [role |-> Nil, oor |-> FALSE, oorT |-> Nil, dlmode |-> Nil, dlmodeT |-> Nil,
          tau |-> Nil, tauT |-> Nil, trim |-> Nil, resync |-> Nil, pipe |-> Nil,
          peers |-> Nil, ev |-> <<>>, readings |-> <<>>, seedLines |-> <<>>]

TailInit ==
  /\ log = <<>> /\ ino = 1 /\ written = 0
  /\ nextRead = 0 /\ ident = Nil /\ carrying = Fresh
  /\ marks = <<>> /\ readings = <<>> /\ seedLines = <<>>
  /\ phase = "start" /\ read = <<>> /\ primed = 0 /\ cut = FALSE

------------------------------------------------------------------------------
\* One line. p is the parser: the carried state and what this poll gathered.
Mark(p, l, cond, what) ==
  IF cond THEN [p EXCEPT !.ev = Append(@, <<l.tod, what>>)] ELSE p

Reading(p, l, name, v) == [p EXCEPT !.readings = Append(@, <<name, l.tod, l.dev, v>>)]

Role(p, l) ==
  IF l.role = Nil THEN p
  ELSE [Mark(p, l, p.role \notin {Nil, l.role}, "role") EXCEPT !.role = l.role]

\* A window of audio with its mean trim, Nil where no trim was programmed.
AudioWindow(p, l) == Reading(p, l, "window", l.v)

\* Only the first out-of-range line of a run is marked; a time that went back
\* starts a new run.
OutOfRange(p, l) ==
  LET back == p.oorT # Nil /\ l.tod < p.oorT
  IN  [Mark(p, l, back \/ ~p.oor, "oor") EXCEPT !.oor = TRUE, !.oorT = l.tod]

DelayLoop(p, l) == [Reading(p, l, "dl_err", l.v) EXCEPT !.oor = FALSE]

\* The loop's mode is marked when it changes, DlEvent apart at least.
DelayMode(p, l) ==
  LET back  == p.dlmodeT # Nil /\ l.tod < p.dlmodeT
      mode  == IF back THEN Nil ELSE p.dlmode
      since == IF back THEN Nil ELSE p.dlmodeT
      due   == l.v # mode /\ (since = Nil \/ l.tod - since >= DlEvent)
  IN  [Mark(p, l, due, "dlloop") EXCEPT !.dlmode = l.v,
                                         !.dlmodeT = IF due THEN l.tod ELSE since]

ServoParam(p, l) == Mark(p, l, TRUE, "servoparam")

\* The first tau is marked as well as every change of it.
ServoTune(p, l) ==
  LET tau == IF p.tauT # Nil /\ l.tod < p.tauT THEN Nil ELSE p.tau
  IN  [Mark(p, l, l.v # tau, "servotune") EXCEPT !.tau = l.v, !.tauT = l.tod]

\* The gate phase goes into the series with value and device time swapped.
RenderPhase(p, l) ==
  IF l.v = Nil THEN p
  ELSE [p EXCEPT !.readings = Append(@, <<"rphase", l.tod, l.v, l.dev>>)]

Believed(p, l) == Reading(p, l, "phase", l.v)

Inject(p, l) == Reading(p, l, "inject", l.v)

Repair(p, l) == Reading(p, [l EXCEPT !.dev = Nil], "repair", l.v)

SeedAnchor(p, l) == [p EXCEPT !.seedLines = Append(@, <<l.tod, l.v, Nil>>)]

\* The drain belongs to the last seed this poll has read.
SeedDrain(p, l) ==
  IF p.seedLines = <<>> THEN p ELSE [p EXCEPT !.seedLines[Len(p.seedLines)][3] = l.v]

Burst(p, l) == Reading(p, l, "rsync", l.v)

\* The chunks before a burst, with times rebuilt from their gaps; a line cut in
\* the middle is refused.
BurstChunks(l) ==
  [i \in 1..Len(l.v.gaps) |->
     <<"rsync", l.tod, FoldLeft(LAMBDA a, b : a + b, l.dev, SubSeq(l.v.gaps, 2, i)), i>>]

PreBurst(p, l) == IF l.v.cut THEN p ELSE [p EXCEPT !.readings = @ \o BurstChunks(l)]

\* Steering: the three ways it fails to happen, and steps of the applied trim.
Trim(p, l, v) ==
  [Mark(p, l, p.trim # Nil /\ Far(v, p.trim, TrimPpm), "trim") EXCEPT !.trim = v]

Steering(p, l) ==
  Trim(Mark(p, l, l.v.samples = 0 \/ l.v.railed,
            IF l.v.samples = 0 THEN "trimstop" ELSE "trimrail"), l, l.v.applied)

NoRateLock(p, l) == Mark(p, l, TRUE, "trimstop")

Pipeline(p, l, v) ==
  [Mark(p, l, p.pipe # Nil /\ Far(v, p.pipe, PipeMs), "pipeline") EXCEPT !.pipe = v]

SyncExtra(p, l) ==
  LET q == Pipeline(p, l, l.v.pipe)
  IN  IF l.v.peers = Nil THEN q
      ELSE [Mark(q, l, q.peers \notin {Nil, l.v.peers}, "consensus")
              EXCEPT !.peers = l.v.peers]

RenderTag(p, l) ==
  Mark(p, l, l.v.measured = Nil \/ (l.v.inferred # Nil /\ Far(l.v.measured, l.v.inferred, TagUs)),
       "rendertag")

\* The worst peer's phase is what is marked.
PhaseIn(p, l) == Mark(p, l, \E d \in l.v : Far(d, 0, PhaseUs), "phasein")

HardResyncs(p, l) ==
  [Mark(p, l, p.resync # Nil /\ l.v.resyncs > p.resync, "resync") EXCEPT !.resync = l.v.resyncs]

\* The report itself; trim and pipeline may be missing from it.
Sync(p, l) ==
  LET a == Mark(p, l, Far(l.v.median, 0, SyncUs), "sync")
      b == IF l.v.pipe = Nil THEN a ELSE Pipeline(a, l, l.v.pipe)
      c == HardResyncs(Mark(b, l, l.v.corrected, "corrected"), l)
  IN  IF l.v.trim = Nil THEN c ELSE Trim(c, l, l.v.trim)

Temperature(p, l) == Reading(p, [l EXCEPT !.dev = Nil], "temp", l.v)

\* The first pattern that matches takes the line; the group state is read
\* whatever else the line is.
ParseLine(p, l) ==
  LET q == Role(p, l)
  IN  CASE l.kind = "window" -> AudioWindow(q, l)
        [] l.kind = "oor" -> OutOfRange(q, l)
        [] l.kind = "dl" -> DelayLoop(q, l)
        [] l.kind = "mode" -> DelayMode(q, l)
        [] l.kind = "param" -> ServoParam(q, l)
        [] l.kind = "tune" -> ServoTune(q, l)
        [] l.kind = "rphase" -> RenderPhase(q, l)
        [] l.kind = "believed" -> Believed(q, l)
        [] l.kind = "inject" -> Inject(q, l)
        [] l.kind = "repair" -> Repair(q, l)
        [] l.kind = "drain" -> SeedDrain(q, l)
        [] l.kind = "anchor" -> SeedAnchor(q, l)
        [] l.kind = "burst" -> Burst(q, l)
        [] l.kind = "preburst" -> PreBurst(q, l)
        [] l.kind = "steering" -> Steering(q, l)
        [] l.kind = "nolock" -> NoRateLock(q, l)
        [] l.kind = "syncx" -> SyncExtra(q, l)
        [] l.kind = "tag" -> RenderTag(q, l)
        [] l.kind = "phasein" -> PhaseIn(q, l)
        [] l.kind = "sync" -> Sync(q, l)
        [] l.kind = "temp" -> Temperature(q, l)
        [] OTHER -> q

\* The lines of a read, one after the other.
Parse(p, s) ==
  LET after[i \in 0..Len(s)] == IF i = 0 THEN p ELSE ParseLine(after[i - 1], s[i].line)
  IN  after[Len(s)]

------------------------------------------------------------------------------
\* Mutant: the trim the last report named is not carried to the next poll.
SavedButTrim(p) == [p EXCEPT !.ev = <<>>, !.readings = <<>>, !.seedLines = <<>>, !.trim = Nil]

\* Mutant: what a poll gathered is carried as well.
SavedWhole(p) == p

\* What is carried to the next poll: everything but what was gathered.
Saved(p) == [p EXCEPT !.ev = <<>>, !.readings = <<>>, !.seedLines = <<>>]

\* Mutant: only a file that shrank is read from its start.
StartBySize(from) == IF from > Len(log) THEN 0 ELSE from

\* Mutant: the offset of the last poll is dropped.
StartAnew(from) == 0

\* Another file than the one known, or one that shrank, is read from its start.
Start(from) == IF ident \notin {Nil, ino} \/ from > Len(log) THEN 0 ELSE from

\* A read from the start takes only the tail.
Tail0(from) ==
  IF from = 0 /\ TailLines # 0 /\ Len(log) > TailLines THEN Len(log) - TailLines ELSE from

Parsed(from) == Parse(carrying, SubSeq(log, from + 1, Len(log)))

\* A poll from an offset: what is gathered comes after what was kept.
PollFrom(from0, kept) ==
  LET from == Tail0(Start(from0))
      p    == Parsed(from)
  IN  /\ marks' = kept.marks \o p.ev
      /\ readings' = kept.readings \o p.readings
      /\ seedLines' = kept.seedLines \o p.seedLines
      /\ carrying' = Saved(p) /\ nextRead' = Len(log) /\ ident' = ino
      /\ read' = kept.read \o SubSeq(log, from + 1, Len(log))
      /\ cut' = (cut /\ Len(log) >= nextRead)
      /\ UNCHANGED <<log, ino, written>>

Gathered == [marks |-> marks, readings |-> readings, seedLines |-> seedLines, read |-> read]
NothingKept == [marks |-> <<>>, readings |-> <<>>, seedLines |-> <<>>, read |-> <<>>]

\* Baselines before the acquisition: the series are kept, the events are not.
Prime ==
  /\ phase = "start"
  /\ LET from == Tail0(Start(0))
         p    == Parsed(from)
     IN  /\ readings' = p.readings /\ seedLines' = p.seedLines
         /\ carrying' = Saved(p) /\ nextRead' = Len(log) /\ ident' = ino
         /\ read' = SubSeq(log, from + 1, Len(log))
         /\ primed' = Len(log) - from
  /\ phase' = "live" /\ cut' = FALSE
  /\ UNCHANGED <<log, ino, written, marks>>

\* A poll of the measuring loop.
Poll ==
  /\ phase = "live"
  /\ PollFrom(nextRead, Gathered)
  /\ UNCHANGED <<phase, primed>>

\* --replot: the series are cleared and the log is read anew, with the state
\* the priming left.
Replot ==
  /\ phase = "live" /\ Len(read) = primed
  /\ PollFrom(0, NothingKept)
  /\ phase' = "replot" /\ primed' = 0

------------------------------------------------------------------------------
\* The logger appends a line, is started again under a new file, or truncates
\* the file it had.
WriteLine ==
  /\ phase # "replot" /\ written < MaxLines
  /\ \E l \in Lines :
       /\ Cardinality({e.line.kind : e \in ToSet(read \o log)} \union {l.kind}) <= MaxKinds
       /\ log' = Append(log, [line |-> l, id |-> written + 1])
  /\ written' = written + 1
  /\ UNCHANGED <<ino, nextRead, ident, carrying, marks, readings, seedLines, phase, read, primed, cut>>

Recreate ==
  /\ phase = "live" /\ ino < MaxFiles
  /\ log' = <<>> /\ ino' = ino + 1 /\ cut' = FALSE
  /\ UNCHANGED <<written, nextRead, ident, carrying, marks, readings, seedLines, phase, read, primed>>

Truncate ==
  /\ phase = "live" /\ log # <<>>
  /\ log' = <<>> /\ cut' = (ident = ino /\ nextRead > 0)
  /\ UNCHANGED <<ino, written, nextRead, ident, carrying, marks, readings, seedLines, phase, read, primed>>

TailNext == Prime \/ Poll \/ Replot \/ WriteLine \/ Recreate \/ Truncate

TailSpec == TailInit /\ [][TailNext]_tailVars

------------------------------------------------------------------------------
TailTypeOK ==
  /\ written \in 0..MaxLines /\ ino \in 1..MaxFiles /\ nextRead \in 0..MaxLines
  /\ ident \in 1..MaxFiles \union {Nil}
  /\ phase \in {"start", "live", "replot"} /\ cut \in BOOLEAN
  /\ \A i \in DOMAIN log : log[i].line \in Lines /\ log[i].id \in 1..written
  /\ DOMAIN carrying = DOMAIN Fresh /\ carrying.ev = <<>> /\ carrying.readings = <<>> /\ carrying.seedLines = <<>>
  /\ carrying.oor \in BOOLEAN

OnePass(s) == Parse(Fresh, s)

\* "State must survive across polls": however the polls fall, the events and
\* the series of a live run are those of one pass over the lines it read.
PolledIsOnePass ==
  phase = "live" =>
    LET whole == OnePass(read)
    IN  /\ whole.ev = OnePass(SubSeq(read, 1, primed)).ev \o marks
        /\ whole.readings = readings

\* No line is ever read twice, whatever becomes of the file.
ReadOnce == \A i \in 1..Len(read) - 1 : read[i].id < read[i + 1].id

\* A poll reads on behind the last line read, or if the file holds none that was read,
\* from its start: all of it, up to the tail of a first read. Only a file cut off in
\* place and filled again beyond the old offset escapes it.
ReadsOn ==
  Poll /\ ~(cut /\ Len(log) >= nextRead) =>
    \/ /\ read # <<>>
       /\ \E n \in DOMAIN log : log[n] = Last(read) /\ read' = read \o SubSeq(log, n + 1, Len(log))
    \/ /\ \A i \in DOMAIN log, a \in DOMAIN read : log[i] # read[a]
       /\ read' = read \o SubSeq(log, Tail0(0) + 1, Len(log))

NothingSkipped == [][ReadsOn]_tailVars

\* A log followed poll by poll, truncated or replaced under way, gives what one pass over
\* what it held gives: no line lost, none twice (i2s-skew.py, the tail of the log).
LogIsReadOnce == [](TailTypeOK /\ PolledIsOnePass /\ ReadOnce) /\ NothingSkipped
==============================================================================
