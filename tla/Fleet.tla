-------------------------------- MODULE Fleet --------------------------------
(* What scripts/sync-delta.py and scripts/diagnose-logs.py make of the logs of  *)
(* several boards, one log a board: how far apart two boards play, which one is *)
(* offset as a whole, and what caused the incidents. A line is a record of its  *)
(* time of day, its kind and, where it has them (else None), the median error,  *)
(* the audio buffered, the depth of the pipeline and the lateness of a resync.  *)
EXTENDS Series, Inputs

CONSTANTS
  PairReach,                \* --window
  DepthTail, DepthOutlier,  \* DEPTH_TAIL, DEPTH_OUTLIER_MS
  RingLow,                  \* RING_LOW_MS
  IncidentGap,              \* INCIDENT_GAP_S
  Simultaneous, ClusterGap, \* SIMULTANEOUS_S, CLUSTER_S
  OtaShadow,                \* OTA_SHADOW_S
  FreezeMs                  \* UPSTREAM_FREEZE_MS

------------------------------------------------------------------------------
\* sync-delta: a log as <<time, median>>, its times of day unwrapped.

\* Mutant: every step back is midnight.
AnyStepBack(t, prev) == t < prev

\* "A large step backwards is midnight; a small one is just two log lines racing."
Midnight(t, prev) == t + Day \div 2 < prev

MedianSeries(text) ==
  LET Add(r, l) ==
        LET day == IF r.prev # None /\ Midnight(l.t, r.prev) THEN r.day + 1 ELSE r.day
        IN  [day |-> day, prev |-> l.t, out |-> Append(r.out, <<l.t + day * Day, l.median>>)]
  IN  FoldLeft(Add, [day |-> 0, prev |-> None, out |-> <<>>],
               SelectSeq(text, LAMBDA l : l.median # None)).out

\* The depths, where they are on the same line as the median.
Depths(text) ==
  LET ds == SelectSeq(text, LAMBDA l : l.median # None /\ l.depth # None)
  IN  [i \in 1..Min({DepthTail, Len(ds)}) |-> ds[Len(ds) - Min({DepthTail, Len(ds)}) + i].depth]

\* The first of the longest series is the time base.
TimeBase(all) ==
  Min({i \in DOMAIN all : \A j \in DOMAIN all : Len(all[j]) <= Len(all[i])})

\* Mutant: the nearest report is taken however far it is.
MedianHowever(series, t) == IF series = <<>> THEN None ELSE NearestAt(series, t)[2]

MedianNear(series, t) ==
  LET hit == NearestAt(series, t)
  IN  IF hit = None \/ Dist(hit[1], t) > PairReach THEN None ELSE hit[2]

\* The rows in which two boards at least have a report.
PairedRows(all) ==
  LET row(p) == [i \in DOMAIN all |-> MedianNear(all[i], p[1])]
      rows   == [k \in DOMAIN all[TimeBase(all)] |-> row(all[TimeBase(all)][k])]
  IN  SelectSeq(rows, LAMBDA r : Cardinality({i \in DOMAIN r : r[i] # None}) >= 2)

PairDeltas(rows, i, j) ==
  LET both == SelectSeq(rows, LAMBDA r : r[i] # None /\ r[j] # None)
  IN  [k \in DOMAIN both |-> both[k][i] - both[k][j]]

\* Mutant: the group's reference is the mean of the boards.
ReferenceMean(typical2) == (2 * SumOf(typical2, LAMBDA x : x)) \div Len(typical2)

\* The group's reference, four times (as typical depths are doubled).
Reference(typical2) == TwiceMedian(typical2)

\* report_depth: the boards whose depth is off the group's.
OffsetBoards(depths) ==
  LET have     == SetToSeq({b \in DOMAIN depths : depths[b] # <<>>})
      typical2 == [k \in DOMAIN have |-> TwiceMedian(depths[have[k]])]
  IN  IF Len(have) < 2 THEN {}
      ELSE {have[k] : k \in {k \in DOMAIN have : Dist(2 * typical2[k], Reference(typical2)) >= 4 * DepthOutlier}}

------------------------------------------------------------------------------
\* diagnose-logs: a log as events, in order of time.
Markers ==
  {"starve", "wedge", "reconnect", "stream_idle", "ota_start", "ota_done", "tsf_lead", "tsf_yield",
   "tsf_reanchor", "lock"}

Event(l, kind, late) == [t |-> l.t, kind |-> kind, late |-> late]

EventsOf(text) ==
  LET Add(ev, l) ==
        LET whole == l.median # None /\ l.buffered # None
        IN  ev \o (IF l.kind \in Markers THEN <<Event(l, l.kind, 0)>> ELSE <<>>)
               \o (IF l.kind = "resync" THEN <<Event(l, "resync", Max({0, l.late}))>> ELSE <<>>)
               \o (IF whole /\ l.buffered < RingLow THEN <<Event(l, "ring_low", 0)>> ELSE <<>>)
               \o (IF whole /\ l.depth # None /\ l.depth < 0 THEN <<Event(l, "pipeline_neg", 0)>> ELSE <<>>)
  IN  SortSeq(FoldLeft(Add, <<>>, text), LAMBDA e, f : e.t < f.t)

Context == {"lock", "tsf_lead", "tsf_yield", "ota_done"}

\* Failures that follow each other closely are one incident of the board.
Incidents(board, events) ==
  LET Add(out, e) ==
        IF e.kind \in Context THEN out
        ELSE IF out # <<>> /\ e.t - Last(out).to <= IncidentGap
        THEN [out EXCEPT ![Len(out)] =
                [@ EXCEPT !.to = e.t, !.kinds = @ \union {e.kind}, !.late = Max({@, e.late})]]
        ELSE Append(out, [from |-> e.t, to |-> e.t, board |-> board, kinds |-> {e.kind}, late |-> e.late])
  IN  FoldLeft(Add, <<>>, events)

Before(x, y) == x.from < y.from \/ (x.from = y.from /\ (x.to < y.to \/ (x.to = y.to /\ x.board < y.board)))

\* Incidents of any board that follow each other closely are one of the fleet.
FleetIncidents(all) ==
  LET Add(groups, inc) ==
        IF groups # <<>> /\ inc.from - Max({i.to : i \in Last(groups)}) <= ClusterGap
        THEN [groups EXCEPT ![Len(groups)] = @ \union {inc}] ELSE Append(groups, {inc})
  IN  FoldLeft(Add, <<>>, SortSeq(FlattenSeq(all), Before))

BoardsOf(group) == {i.board : i \in group}
KindsOf(group) == UNION {i.kinds : i \in group}

\* Mutant: how long the server was away is not looked at.
ClassBySpread(group, otas) ==
  IF "wedge" \in KindsOf(group) THEN "WEDGE"
  ELSE IF "pipeline_neg" \in KindsOf(group) THEN "ACCOUNTING"
  ELSE IF \E o \in otas : Min({i.from : i \in group}) - o \in 0..OtaShadow THEN "OTA"
  ELSE IF Cardinality(BoardsOf(group)) = 1 THEN "DEVICE"
  ELSE IF Max({i.to : i \in group}) - Min({i.from : i \in group}) <= Simultaneous THEN "UPSTREAM"
  ELSE "CONGESTION"

\* The plane of an incident, "most specific first".
Class(group, otas) ==
  LET from    == Min({i.from : i \in group})
      spread  == Max({i.to : i \in group}) - from
      several == Cardinality(BoardsOf(group)) >= 2
      dropped == KindsOf(group) \intersect {"reconnect", "stream_idle"} # {}
      frozen  == \E i \in group : i.late >= FreezeMs
  IN  IF "wedge" \in KindsOf(group) THEN "WEDGE"
      ELSE IF "pipeline_neg" \in KindsOf(group) THEN "ACCOUNTING"
      ELSE IF \E o \in otas : from - o \in 0..OtaShadow THEN "OTA"
      ELSE IF several /\ ((dropped /\ spread <= Simultaneous) \/ frozen) THEN "UPSTREAM"
      ELSE IF several THEN "CONGESTION" ELSE "DEVICE"

Otas(logs) == {l.t : l \in {l \in UNION {ToSet(logs[b]) : b \in DOMAIN logs} : l.kind = "ota_start"}}

Diagnosed(logs) ==
  LET groups == FleetIncidents([b \in DOMAIN logs |-> Incidents(b, EventsOf(logs[b]))])
  IN  [k \in DOMAIN groups |-> [boards |-> BoardsOf(groups[k]), kinds |-> KindsOf(groups[k]),
                                 class |-> Class(groups[k], Otas(logs))]]

\* The board most isolated incidents concentrate on, if any is a board's own.
Suspect(found) ==
  LET alone == SelectSeq(found, LAMBDA g : Cardinality(g.boards) = 1
                                             /\ g.kinds \intersect {"wedge", "pipeline_neg"} = {})
      n(b)  == Len(SelectSeq(alone, LAMBDA g : g.boards = {b}))
  IN  IF \A k \in DOMAIN found : found[k].class # "DEVICE" THEN None
      ELSE CHOOSE b \in UNION {g.boards : g \in ToSet(alone)} :
             \A c \in UNION {g.boards : g \in ToSet(alone)} : n(c) <= n(b)

------------------------------------------------------------------------------
\* Two boards log their medians, which differ by 7 and slew by 1 in a unit of
\* time; an element is the board and the time since the line before, -1 where two
\* lines race.
Stamps == [i \in DOMAIN input |-> 10 + FoldLeft(+, 0, [j \in 1..i |-> input[j][2]])]
TimesOf(b) == SelectSeq([i \in DOMAIN input |-> IF input[i][1] = b THEN Stamps[i] ELSE None],
                        LAMBDA t : t # None)
Log(b) == [i \in DOMAIN TimesOf(b) |->
             [t |-> TimesOf(b)[i] % Day, median |-> TimesOf(b)[i] - 7 * b]]

\* No midnight in a race or in half a day of silence.
Followable(ts) ==
  \A i \in 1..Len(ts) - 1 :
    ts[i] \div Day # ts[i + 1] \div Day => 0 < ts[i + 1] - ts[i] /\ ts[i + 1] - ts[i] < Day \div 2

\* Across midnights and races the times of a series are the true ones.
UnwrappedTimesAreTrue ==
  case = "medians" =>
    \A b \in 1..2 : Followable(TimesOf(b)) =>
      \A i \in DOMAIN TimesOf(b) :
        MedianSeries(Log(b))[i][1] = TimesOf(b)[i] - Day * (TimesOf(b)[1] \div Day)

\* However the reports fall, what is printed of two boards is their offset, up to
\* what they slew within the window, or twice that where lines race; and where none
\* do, no report of the time base with one of the other board in reach is left out.
\* Both logs begin on the same day: each is unwrapped on its own.
PairsMeasureTheOffset ==
  case = "medians" /\ (\A b \in 1..2 : TimesOf(b) # <<>> /\ Followable(TimesOf(b)))
    /\ TimesOf(1)[1] \div Day = TimesOf(2)[1] \div Day =>
    LET all   == <<MedianSeries(Log(1)), MedianSeries(Log(2))>>
        rows  == PairedRows(all)
        base  == all[TimeBase(all)]
        other == all[3 - TimeBase(all)]
        races == \E i \in DOMAIN input : input[i][2] < 0
    IN  /\ \A d \in ToSet(PairDeltas(rows, 1, 2)) : Dist(d, 7) <= PairReach * (IF races THEN 2 ELSE 1)
        /\ ~races =>
             Len(rows) = Len(SelectSeq(base, LAMBDA p : \E q \in ToSet(other) : Dist(p[1], q[1]) <= PairReach))

------------------------------------------------------------------------------
\* Boards and their depths; 0 is normal but for a sawtooth of 1.
DepthsLogged ==
  [b \in 1..3 |->
     Depths(SelectSeq([i \in DOMAIN input |-> [board |-> input[i][1], median |-> 0, depth |-> input[i][2]]],
                      LAMBDA l : l.board = b))]

\* The one number that shows a board late as a whole: while most of the boards heard
\* of are where they should be, exactly the board that is off is flagged, not one
\* whose depth the outlier drags the group away from, and not one that was off before.
OffsetBoardIsFlagged ==
  case = "depths" =>
    LET heard   == {b \in 1..3 : DepthsLogged[b] # <<>>}
        healthy == {b \in heard : \A d \in ToSet(DepthsLogged[b]) : d \in -1..1}
        off     == {b \in heard : \A d \in ToSet(DepthsLogged[b]) : d < -DepthOutlier}
        flagged == OffsetBoards(DepthsLogged)
    IN  2 * Cardinality(healthy) > Cardinality(heard) =>
          flagged \intersect healthy = {} /\ off \subseteq flagged

------------------------------------------------------------------------------
\* Episodes that happen to three boards, each of one cause, as lines <<board, time
\* since its start, kind, late, report>>. They lie too far apart to be one incident,
\* but an update's shadow may reach the next; a board that locks again is no failure.
NoReport == [median |-> None, buffered |-> None, depth |-> None]
Starving(buffered) == [median |-> 0, buffered |-> buffered, depth |-> None]
L(b, at, kind) == [board |-> b, at |-> at, kind |-> kind, late |-> 0, report |-> NoReport]

Script(cause) ==
  CASE cause = "server"     -> <<L(1, 0, "reconnect"), L(2, 1, "reconnect"), L(3, Simultaneous, "stream_idle")>>
    [] cause = "freeze"     -> <<[L(1, 0, "resync") EXCEPT !.late = 3],
                                 [L(3, ClusterGap, "resync") EXCEPT !.late = FreezeMs]>>
    [] cause = "air"        -> <<L(1, 0, "starve"), [L(1, 1, "report") EXCEPT !.report = Starving(RingLow - 1)],
                                 L(2, ClusterGap, "reconnect")>>
    [] cause = "radio2"     -> <<L(2, 0, "starve"), [L(2, IncidentGap, "resync") EXCEPT !.late = FreezeMs]>>
    [] cause = "radio3"     -> <<[L(3, 0, "report") EXCEPT !.report = Starving(RingLow - 1)],
                                 [L(3, ClusterGap, "resync") EXCEPT !.late = -FreezeMs]>>
    [] cause = "update"     -> <<L(3, 0, "ota_start"), L(1, 1, "starve"), L(3, ClusterGap, "reconnect"),
                                 L(3, ClusterGap + 1, "ota_done")>>
    [] cause = "mixer"      -> <<L(1, 0, "wedge"), L(2, 1, "reconnect")>>
    [] cause = "accounting" -> <<[L(2, 0, "report") EXCEPT !.report = [Starving(RingLow) EXCEPT !.depth = -1]],
                                 L(3, 0, "reconnect")>>

Causes == {"server", "freeze", "air", "radio2", "radio3", "update", "mixer", "accounting"}

Plane(cause) ==
  CASE cause \in {"server", "freeze"} -> "UPSTREAM" [] cause = "air" -> "CONGESTION"
    [] cause \in {"radio2", "radio3"} -> "DEVICE"   [] cause = "update" -> "OTA"
    [] cause = "mixer" -> "WEDGE"                   [] cause = "accounting" -> "ACCOUNTING"

\* An episode is over ClusterGap + 1 after its start, and locks at its end.
StartsAt == [k \in DOMAIN input |-> FoldLeft(+, 0, [j \in 1..k |-> ClusterGap + 1 + input[j][2]])]
LinesOf(k) == Append(Script(input[k][1]), L(1, ClusterGap + 2, "lock"))
LogsOf ==
  LET all == FlattenSeq([k \in DOMAIN input |->
               [i \in DOMAIN LinesOf(k) |->
                  [board |-> LinesOf(k)[i].board, kind |-> LinesOf(k)[i].kind, late |-> LinesOf(k)[i].late,
                   t |-> StartsAt[k] + LinesOf(k)[i].at] @@ LinesOf(k)[i].report]])
  IN  [b \in 1..3 |-> SelectSeq(all, LAMBDA l : l.board = b)]

Shadowed(k) ==
  \E j \in 1..k : input[j][1] = "update" /\ StartsAt[k] - StartsAt[j] <= OtaShadow

\* Every episode is found once and blamed on its plane, whatever came before it:
\* trouble of one board never on the server, a server's never on a board; in the
\* shadow of an update only what is more specific is told apart. Without updates
\* the board to be looked at is one that had most trouble of its own.
CauseIsNamed ==
  case = "episodes" =>
    LET found == Diagnosed(LogsOf)
        n(c)  == Len(SelectSeq(input, LAMBDA e : e[1] = c))
    IN  /\ [k \in DOMAIN found |-> found[k].class] =
             [k \in DOMAIN input |->
                IF Shadowed(k) /\ input[k][1] \notin {"mixer", "accounting"} THEN "OTA" ELSE Plane(input[k][1])]
        /\ n("update") = 0 =>
             Suspect(found) \in (IF n("radio2") >= n("radio3") /\ n("radio2") > 0 THEN {2} ELSE {})
                                  \union (IF n("radio3") >= n("radio2") /\ n("radio3") > 0 THEN {3} ELSE {})
                                  \union (IF n("radio2") + n("radio3") = 0 THEN {None} ELSE {})
==============================================================================
