---------------------------- MODULE CaptureTable ----------------------------
(* The table of rows a run of scripts/i2s-skew.py writes: a fresh run replaces *)
(* it and archives what was there, --append continues it on its own clock, a   *)
(* run may be killed anywhere. A table is its header and its rows; a row is the *)
(* elapsed time, the wall clock and the value written.                         *)
EXTENDS Integers, Sequences, FiniteSetsExt

CONSTANTS
  MaxNow,      \* bound: the wall clock
  MaxRuns,     \* bound: runs started
  MaxRows,     \* bound: rows of a table
  Keep,        \* archives kept, 5 in the code
  Absent       \* no table, no run, no anchor

\* The headers: of today, of before columns were added, of a dump of frames, of
\* something else, and none.
Heads == {"today", "older", "dump", "foreign", "none"}

Entries == [el : Int, un : Int, v : Int]
Tables == [head : Heads, rows : Seq(Entries), changed : Nat]

ASSUME TableAssumption == Keep \in Nat /\ Absent \notin Int /\ Absent \notin Tables

VARIABLES
  table,    \* the file --out names, or Absent
  archives, \* the archives: stamp, number, last write, table
  run,      \* the run in progress, or Absent: whether it has its header, its start
  now,      \* the wall clock
  writes,   \* history: writes so far, which order the files' times of change
  runs,     \* history: runs so far
  replaced  \* history: the tables replaced

tableVars == <<table, archives, run, now, writes, runs, replaced>>

Empty == [head |-> "none", rows |-> <<>>, changed |-> 0]
Found(h) == [head |-> h, rows |-> <<[el |-> 0, un |-> 0, v |-> 100]>>, changed |-> 0]

TableInit ==
  /\ table \in {Absent} \union {Found(h) : h \in Heads \ {"none"}}
  /\ archives = {} /\ run = Absent /\ now = 1 /\ writes = 0 /\ runs = 0 /\ replaced = <<>>

------------------------------------------------------------------------------
\* Reading.

\* Mutant: rows are appended whatever columns the table has.
RefusedForeign(t, append) == t # Absent /\ t.head = "foreign"

\* What a run refuses to start on.
Refused(t, append) ==
  t # Absent /\ (t.head = "foreign" \/ (append /\ t.head = "older"))

\* load_existing: in a dump the second column is the value; the anchor is the wall
\* clock of elapsed time 0.
LoadExisting(t) ==
  IF t = Absent \/ t.rows = <<>> THEN [ys |-> <<>>, anchor |-> Absent]
  ELSE IF t.head = "dump"
       THEN [ys |-> [i \in DOMAIN t.rows |-> IF i = 1 THEN t.rows[i].v ELSE t.rows[i].un], anchor |-> Absent]
       ELSE [ys |-> [i \in DOMAIN t.rows |-> t.rows[i].v], anchor |-> t.rows[1].un - t.rows[1].el]

\* load_column and load_rates: nothing without the column in the header.
LoadColumn(t) ==
  IF t = Absent \/ t.head # "today" THEN <<>>
  ELSE [i \in DOMAIN t.rows |-> <<t.rows[i].el, t.rows[i].v>>]

------------------------------------------------------------------------------
\* Mutant: an archive of the same second is overwritten.
NameAlways0(stamp) == <<stamp, 0>>

\* The archive's name: the second it is made in, numbered if that is taken.
ArchiveName(stamp) ==
  LET numbers == {a.name[2] : a \in {b \in archives : b.name[1] = stamp}}
  IN  <<stamp, Min(0..Cardinality(archives) \ numbers)>>

\* Only the archives changed last are kept.
Retained(as) ==
  {a \in as : Cardinality({b \in as : b.table.changed > a.table.changed}) < Keep}

\* A run without --append. An empty file is not worth an archive.
StartFresh ==
  /\ run = Absent /\ runs < MaxRuns /\ ~Refused(table, FALSE)
  /\ IF table = Absent \/ table = [Empty EXCEPT !.changed = table.changed]
     THEN UNCHANGED <<archives, replaced>>
     ELSE LET name == ArchiveName(now)
          IN  /\ archives' = Retained({a \in archives : a.name # name}
                                        \union {[name |-> name, table |-> table]})
              /\ replaced' = Append(replaced, table)
  /\ table' = [Empty EXCEPT !.changed = writes + 1] /\ writes' = writes + 1
  /\ run' = [header |-> FALSE, start |-> Absent]
  /\ runs' = runs + 1
  /\ UNCHANGED now

\* Mutant: an appended run has its own clock.
StartOf(t) == now

\* The wall clock an appended run counts from.
AppendStart(t) == IF LoadExisting(t).anchor = Absent THEN now ELSE LoadExisting(t).anchor

\* A run with --append: the header is written only to a file that was not there.
StartAppend ==
  /\ run = Absent /\ runs < MaxRuns /\ ~Refused(table, TRUE)
  /\ table' = IF table = Absent THEN [Empty EXCEPT !.changed = writes + 1] ELSE table
  /\ writes' = IF table = Absent THEN writes + 1 ELSE writes
  /\ run' = [header |-> table # Absent, start |-> IF table = Absent THEN Absent ELSE AppendStart(table)]
  /\ runs' = runs + 1
  /\ UNCHANGED <<archives, now, replaced>>

WriteHeader ==
  /\ run # Absent /\ ~run.header
  /\ table' = [table EXCEPT !.head = "today", !.changed = writes + 1] /\ writes' = writes + 1
  /\ run' = [header |-> TRUE, start |-> now]
  /\ UNCHANGED <<archives, now, runs, replaced>>

WriteRow ==
  /\ run # Absent /\ run.header /\ Len(table.rows) < MaxRows
  /\ table' = [table EXCEPT !.rows = Append(@, [el |-> now - run.start, un |-> now, v |-> 200 + writes]),
                            !.changed = writes + 1]
  /\ writes' = writes + 1
  /\ UNCHANGED <<archives, run, now, runs, replaced>>

\* A run ends, or is killed wherever it is.
End == run # Absent /\ run' = Absent /\ UNCHANGED <<table, archives, now, writes, runs, replaced>>

Tick == now < MaxNow /\ now' = now + 1 /\ UNCHANGED <<table, archives, run, writes, runs, replaced>>

TableNext == StartFresh \/ StartAppend \/ WriteHeader \/ WriteRow \/ End \/ Tick

TableSpec == TableInit /\ [][TableNext]_tableVars

------------------------------------------------------------------------------
\* However runs are started, appended and killed, all rows of a table are on one
\* clock: wall clock and elapsed time differ by its anchor throughout.
OneClock ==
  table # Absent /\ table.head # "dump" =>
    \A i \in DOMAIN table.rows : table.rows[i].un - table.rows[i].el = LoadExisting(table).anchor

\* A table reads back as it was written, by row and by column: runs never mix
\* layouts in one file. (One appended to a dump does; see the README.)
ReadsBack ==
  table # Absent /\ table.head # "dump" =>
    /\ LoadExisting(table).ys = [i \in DOMAIN table.rows |-> table.rows[i].v]
    /\ table.head = "today" => Len(LoadColumn(table)) = Len(table.rows)
    /\ table.head = "older" => \A i \in DOMAIN table.rows : table.rows[i].v = 100

\* Starting a run never loses the rows of the last ones: the tables replaced last
\* are in the archive, whole, even if they were replaced within a second.
RecentRunsSurvive ==
  LET n == Len(replaced)
  IN  \A i \in DOMAIN replaced : i > n - Keep => \E a \in archives : a.table = replaced[i]

\* What a run recorded is read back as it was, on one clock, and kept while it is recent,
\* through fresh starts, appends and kills (i2s-skew.py, the table of a run).
RunsAreKept == OneClock /\ ReadsBack /\ RecentRunsSurvive

==============================================================================
