----------------------------- MODULE MCHostSide -----------------------------
EXTENDS HostSide

MCSlopes == {0, 3, -2}
MCJumps == {0, 8, -30}

MCLogRows ==
  {[gap |-> g, delay |-> d, stamped |-> TRUE, boot |-> FALSE] : g \in {1, 5}, d \in {0, 2}}
    \union {[gap |-> 3, delay |-> 1, stamped |-> s, boot |-> TRUE] : s \in BOOLEAN}
    \union {[gap |-> 2, delay |-> 2, stamped |-> FALSE, boot |-> FALSE]}

MCArms ==
  {[kind |-> k, drops |-> d] : k \in {"real", "flat", "growing"},
                               d \in {<<0, 0, 0>>, <<1, 0, 1>>, <<1, 1, 1>>}}

MCChunks ==
  {[ok |-> TRUE, gap |-> FALSE, lag |-> l, mean |-> m] : l \in {0, 2, 9, 11, 30}, m \in {0, 101}}
    \union {[ok |-> FALSE, gap |-> FALSE, lag |-> 9, mean |-> 0], [ok |-> TRUE, gap |-> TRUE, lag |-> 9, mean |-> 0]}

MCCaptures ==
  {[dt |-> d, rate |-> r, planted |-> 0, ok |-> TRUE, timed |-> TRUE] : d \in {1, 5}, r \in {2, -1}}
    \union {[dt |-> 1, rate |-> 2, planted |-> 0, ok |-> FALSE, timed |-> TRUE],
            [dt |-> 1, rate |-> -1, planted |-> 7, ok |-> FALSE, timed |-> TRUE],
            [dt |-> 1, rate |-> 2, planted |-> 7, ok |-> TRUE, timed |-> FALSE]}

MCHideable ==
  {<<"panel", "rates">>, <<"panel", "derivative">>, <<"series", "rates", 1>>, <<"series", "rates", 3>>,
   <<"series", "derivative", 5>>, <<"event", "trim">>, <<"trace">>, <<"overlay", 1>>, <<"gaps">>}
MCScenes ==
  {[measured |-> m, label |-> l, expand |-> m] : m \in BOOLEAN, l \in {"d(rate)/dt, 1s fit", "d(rate)/dt, 5s fit"}}

MCElements ==
  [series   |-> {<<1, 0>>, <<1, None>>, <<2, 0>>, <<2, 7>>, <<12, 0>>, <<12, 7>>},
   windows  |-> {<<"ok", 1>>, <<"ok", -2>>} \union {"late", "noA", "noB", "short"} \X {1},
   log      |-> MCLogRows,
   recovery |-> {0, 3, 10, 30, 90},
   drift    |-> {1, 2, 40},
   arms     |-> MCArms,
   drain    |-> {0, 3, 6, 10, 13},
   chunks   |-> MCChunks,
   clock    |-> 0..2 * Day,
   content  |-> {0, 2, -4},
   locks    |-> [silent : {FALSE}, strong : BOOLEAN, clear : BOOLEAN, lag : {0, 1, 3}]
                  \union {[silent |-> TRUE, strong |-> FALSE, clear |-> FALSE, lag |-> 0]},
   rolling  |-> 1..3,
   medians  |-> {1, 2} \X {-1, 0, 1, 5},
   depths   |-> (1..3) \X {-1, 1, -6},
   episodes |-> Causes \X {6, 7},
   raw      |-> {"ok", "step", "wide"},
   rates    |-> MCCaptures,
   phases   |-> {"a", "b", "row"} \X {0, 1, 3},
   layout   |-> [scene : MCScenes, hidden : SUBSET MCHideable]]

MCMaxInput ==
  [series |-> 4, windows |-> 4, log |-> 4, recovery |-> 6, drift |-> 7, arms |-> 2, drain |-> 4,
   chunks |-> 3, clock |-> 2, content |-> 5, locks |-> 3, rolling |-> 5,
   medians |-> 4, depths |-> 4, episodes |-> 3, raw |-> 8, rates |-> 4, phases |-> 4, layout |-> 1]

MCOffsets == {-14, -1, 12}
MCContents ==
  {<<0, 2, 0, 0, -4, 0>>, <<0, -4, 0, 2, 0, 0>>, <<2, 0, -4, 0, 0, 2>>, <<0, 2, -4, 0, 2, 0>>,
   <<-4, 0, 0, 2, 2, 0>>, <<2, -4, 2, 0, 0, 0>>}
MCLosses == {<<1, 0>>, <<20, 3>>, <<34, 1>>, <<41, 7>>}

\* One or two lines of every kind that the carried state or the tail can tell
\* apart; of the kinds that only add a sample, the trim window stands for all.
Line(kind, tod, v) == [kind |-> kind, tod |-> tod, dev |-> tod, role |-> Nil, v |-> v]
WithRole(l, r) == [l EXCEPT !.role = r]

Report(median, corrected, resyncs, trim, pipe) ==
  [median |-> median, corrected |-> corrected, resyncs |-> resyncs, trim |-> trim, pipe |-> pipe]

MCLines ==
  {Line("window", 1, 2), Line("oor", 2, 5), Line("oor", 4, 5), Line("dl", 3, 1),
   Line("mode", 1, 10), Line("mode", 3, 20),
   Line("tune", 2, 7), Line("tune", 3, 8),
   Line("rphase", 2, 9),
   Line("drain", 3, 4), Line("anchor", 2, 6),
   Line("preburst", 2, [cut |-> FALSE, gaps |-> <<5, 1, 1>>]),
   Line("preburst", 2, [cut |-> TRUE, gaps |-> <<>>]),
   Line("steering", 2, [samples |-> 0, railed |-> FALSE, applied |-> 3]),
   Line("syncx", 2, [pipe |-> 4, peers |-> 1]), Line("syncx", 2, [pipe |-> 1, peers |-> 2]),
   Line("tag", 2, [measured |-> 1, inferred |-> Nil]),
   Line("phasein", 2, {1, -3}),
   WithRole(Line("sync", 2, Report(0, FALSE, 1, 0, Nil)), Nil),
   WithRole(Line("sync", 3, Report(3, TRUE, 2, 3, 1)), 2)}
==============================================================================
