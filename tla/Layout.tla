------------------------------- MODULE Layout -------------------------------
(* How scripts/i2s-skew.py lays a plot out (build_plot) when some of its groups *)
(* are hidden: what is drawn, in which colour, on which axis, and which toggles *)
(* the page is given. A plot is [trace, panels, overlays, events, expand]; a    *)
(* panel [label, pid, series, sid], its series and the overlays functions from  *)
(* names to points. Names are numbers, since their order matters, and a colour  *)
(* is an index of its palette. Pixels, padding and ticks are left out.          *)
EXTENDS Series, Inputs

CONSTANTS
  PanelColours, OverlayColours,  \* colours of PANEL_PALETTE, of opal
  MadReach                       \* 6 * 1.4826 rounded, of --overlay-expand

\* The colour of the k-th of a sorted set of names.
Colour(names, k, palette) == Cardinality({n \in names : n < k}) % palette

------------------------------------------------------------------------------
\* Panels.
PanelId(p) == <<"panel", IF p.pid = None THEN p.label ELSE p.pid>>
SeriesId(p, k) == <<"series", IF p.pid = None THEN p.label ELSE p.pid, p.sid[k]>>

Clean(p) == [k \in DOMAIN p.series |-> Finite(p.series[k])]
HasPoints(series) == \E k \in DOMAIN series : series[k] # <<>>

\* The panels that have something in them.
Candidates(plot) == SelectSeq(plot.panels, LAMBDA p : HasPoints(Clean(p)))

\* Mutant: a hidden series is dropped with its place in the palette.
KeptDropped(p, hidden) ==
  LET on == IF PanelId(p) \in hidden THEN {} ELSE {k \in DOMAIN p.series : SeriesId(p, k) \notin hidden}
  IN  [k \in on |-> Clean(p)[k]]

\* A hidden series keeps its place, empty.
KeptSeries(p, hidden) ==
  [k \in DOMAIN p.series |->
     IF PanelId(p) \in hidden \/ SeriesId(p, k) \in hidden THEN <<>> ELSE Clean(p)[k]]

\* A panel with nothing left to draw gives its band back.
Extra(plot, hidden) ==
  LET all  == Candidates(plot)
      kept == [i \in DOMAIN all |-> [id |-> PanelId(all[i]), of |-> all[i], series |-> KeptSeries(all[i], hidden)]]
  IN  SelectSeq(kept, LAMBDA b : b.id \notin hidden /\ HasPoints(b.series))

\* The lines of a band, and the range of its axis.
BandOf(b) ==
  LET shown  == {k \in DOMAIN b.series : b.series[k] # <<>>}
      values == {p[2] : p \in UNION {ToSet(b.series[k]) : k \in shown}}
  IN  [id |-> b.id, lo |-> Min(values), hi |-> Max(values),
       lines |-> {<<SeriesId(b.of, k), Colour(DOMAIN b.series, k, PanelColours)>> : k \in shown}]

------------------------------------------------------------------------------
\* The top panel.

\* The time axis holds the trace and every panel that is shown.
TimeAxis(plot, hidden) ==
  LET bands  == Extra(plot, hidden)
      panels == UNION {UNION {ToSet(b.series[k]) : k \in DOMAIN b.series} : b \in ToSet(bands)}
      times  == {p[1] : p \in ToSet(Finite(plot.trace)) \union panels}
  IN  IF Max(times) = Min(times) THEN <<Min(times), Min(times) + 1>> ELSE <<Min(times), Max(times)>>

\* Four times the value axis: the trace's, or with --overlay-expand as far as the
\* overlays reach but for their outliers; 0 is on it.
ValueAxis(plot) ==
  LET trace == {4 * p[2] : p \in ToSet(Finite(plot.trace))} \union {0}
      values(k) == [i \in DOMAIN Finite(plot.overlays[k]) |-> Finite(plot.overlays[k])[i][2]]
      med2(k)   == TwiceMedian(values(k))
      mad4(k)   == TwiceMedian([i \in DOMAIN values(k) |-> Dist(2 * values(k)[i], med2(k))])
      reach(k)  == IF mad4(k) > 0
                   THEN {2 * med2(k) - MadReach * mad4(k), 2 * med2(k) + MadReach * mad4(k)}
                   ELSE {4 * v : v \in ToSet(values(k))}
      all == trace \union (IF plot.expand
                           THEN UNION {reach(k) : k \in {k \in DOMAIN plot.overlays : values(k) # <<>>}} ELSE {})
  IN  <<Min(all), Max(all)>>

EventId(kind) == <<"event", kind>>

\* Events on the time axis, of a kind that is shown.
Marks(plot, hidden) ==
  LET x == TimeAxis(plot, hidden)
  IN  {e \in plot.events : x[1] <= e[1] /\ e[1] <= x[2] /\ EventId(e[2]) \notin hidden}

OverlayId(k) == <<"overlay", k>>

\* Overlays of two points at least; the colour is of the place among all.
OverlayGroups(plot) ==
  {<<OverlayId(k), Colour(DOMAIN plot.overlays, k, OverlayColours)>> :
     k \in {k \in DOMAIN plot.overlays : Len(Finite(plot.overlays[k])) >= 2}}

OverlayLines(plot, hidden) == {o \in OverlayGroups(plot) : o[1] \notin hidden}

\* The stretches nothing was measured in.
Dropouts(plot, hidden) ==
  LET segs == SplitRuns(Finite(plot.trace))
  IN  IF <<"gaps">> \in hidden THEN {} ELSE {<<Last(segs[k])[1], segs[k + 1][1][1]>> : k \in 1..Len(segs) - 1}

------------------------------------------------------------------------------
\* Mutant: an overlay is registered once it is known to be shown.
OverlayTogglesOf(plot, hidden) == OverlayLines(plot, hidden)

\* "Registered before the hide test."
OverlayToggles(plot, hidden) == OverlayGroups(plot)

\* The toggles, <<id, colour>>; without a measurement there are only the panels'.
Legend(plot, hidden) ==
  LET all == ToSet(Candidates(plot))
  IN  {<<PanelId(p), None>> : p \in all}
        \union UNION {{<<SeriesId(p, k), Colour(DOMAIN p.series, k, PanelColours)>> : k \in DOMAIN p.series} : p \in all}
        \union (IF Finite(plot.trace) = <<>> THEN {}
                ELSE {<<EventId(e[2]), None>> : e \in plot.events}
                       \union {<<<<"trace">>, None>>, <<<<"band">>, None>>} \union OverlayToggles(plot, hidden)
                       \union (IF Len(SplitRuns(Finite(plot.trace))) > 1 THEN {<<<<"gaps">>, None>>} ELSE {}))

BuildPlot(plot, hidden) ==
  LET extra == Extra(plot, hidden)
  IN  IF Finite(plot.trace) = <<>> THEN [legend |-> Legend(plot, hidden), x |-> None]
      ELSE [legend |-> Legend(plot, hidden), x |-> TimeAxis(plot, hidden), y |-> ValueAxis(plot),
            bands |-> Table([i \in DOMAIN extra |-> BandOf(extra[i])]), trace |-> <<"trace">> \notin hidden,
            marks |-> Marks(plot, hidden), overlays |-> OverlayLines(plot, hidden),
            shades |-> Dropouts(plot, hidden)]

------------------------------------------------------------------------------
\* A run with a dropout, two panels, one of whose labels changes with the spacing of
\* its rows, a panel that outlasts the trace, one without points, an overlay too
\* short to draw, and marks of which one is after the trace. An input is which of
\* these there are, what the label says, and what is hidden.
Scene(s) ==
  [trace  |-> IF s.measured THEN <<<<1, 5>>, <<2, None>>, <<3, 8>>, <<5, 7>>, <<30, 9>>>> ELSE <<<<1, None>>>>,
   panels |-> <<[label |-> "rates", pid |-> None, sid |-> [k \in 1..3 |-> k],
                 series |-> <<<<<<1, 3>>, <<2, 4>>>>, <<<<3, None>>>>, <<<<1, 9>>, <<6, 2>>>>>>],
                [label |-> s.label, pid |-> "derivative", sid |-> [k \in 1..2 |-> k + 4],
                 series |-> <<<<<<0, 1>>, <<40, 2>>>>, <<<<2, 6>>>>>>],
                [label |-> "temperature", pid |-> None, sid |-> <<1>>, series |-> <<<<<<1, None>>>>>>]>>,
   overlays |-> <<<<<<1, 9>>, <<2, 9>>, <<3, 1>>>>, <<<<1, 4>>>>, <<<<1, 6>>, <<40, 7>>>>>>,
   events |-> {<<2, "resync">>, <<4, "trim">>, <<35, "trim">>},
   expand |-> s.expand]

Laid(hide) == BuildPlot(Scene(input[1].scene), hide)

LinesOn(l) == UNION {l.bands[i].lines : i \in DOMAIN l.bands}

\* Whatever is hidden, every toggle stays, under the same id whatever its panel is
\* labelled and in the colour its line is drawn in: none is a one-way door.
TogglesStay ==
  LET Stay(l, legend) ==
        /\ l.legend = legend
        /\ l.x # None => LinesOn(l) \union l.overlays \subseteq l.legend
        /\ \A g, h \in l.legend : g[1] = h[1] => g = h
  IN  case = "layout" /\ input # <<>> =>
        Stay(Laid(input[1].hidden), Legend(Scene([input[1].scene EXCEPT !.label = "other"]), {}))

\* Hiding takes away what is hidden and nothing else, and recolours nothing; a panel
\* with nothing to show takes no room, and no axis is stretched by what is hidden, but
\* by the trace, which the axes are for, and by overlays with --overlay-expand.
HidingTakesOnlyItself ==
  LET gone(stroke, hidden) ==
        stroke[1] \in hidden \/ (stroke[1][1] = "series" /\ <<"panel", stroke[1][2]>> \in hidden)
      PointsOf(shown, plot) ==
        UNION {UNION {ToSet(Clean(p)[k]) : k \in {k \in DOMAIN p.series : SeriesId(p, k) \in shown}} :
                 p \in ToSet(plot.panels)}
      Spans(x, times) == <<x[1], x[2]>> = <<Min({1} \union times), Max({30} \union times)>>
      Less(l, whole, plot, hidden) ==
        /\ LinesOn(l) = {stroke \in LinesOn(whole) : ~gone(stroke, hidden)}
        /\ l.overlays = {o \in whole.overlays : ~gone(o, hidden)} /\ l.y = whole.y
        /\ Spans(l.x, {p[1] : p \in PointsOf({stroke[1] : stroke \in LinesOn(l)}, plot)})
        /\ \A i \in DOMAIN l.bands : l.bands[i].lines # {}
        /\ \A i, j \in DOMAIN l.bands : i # j => l.bands[i].id # l.bands[j].id
        /\ l.marks = {e \in plot.events : EventId(e[2]) \notin hidden /\ e[1] <= l.x[2]}
  IN  case = "layout" /\ input # <<>> /\ input[1].scene.measured =>
        Less(Laid(input[1].hidden), Laid({}), Scene(input[1].scene), input[1].hidden)
==============================================================================
