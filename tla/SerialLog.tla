------------------------------ MODULE SerialLog ------------------------------
(* scripts/serial-log.py: a board writes lines, the logger reads them from its   *)
(* serial port in pieces, prints every line and appends it to a file. The port    *)
(* vanishes and returns whenever the board resets. A line is two pieces, <<n, 1>> *)
(* and <<n, 2>>, the second of which ends it.                                     *)
EXTENDS Integers, Sequences, SequencesExt

CONSTANTS
  MaxWritten,  \* bound: lines a board writes
  ReadSize,    \* pieces a read returns at most
  Unopened     \* no file descriptor

ASSUME SerialAssumption == ReadSize \in Nat \ {0}

VARIABLES
  port,     \* there is a device under the name; its number, one more a reset, or 0
  fd,       \* the device that was opened, or Unopened
  line,     \* the piece the board writes next
  unread,   \* pieces in the port
  buf,      \* pieces read and not logged, pending in the script
  printed, sink, \* lines on the terminal and in the file
  stopped,  \* Ctrl-C
  collected       \* history: the pieces read

serialVars == <<port, fd, line, unread, buf, printed, sink, stopped, collected>>

SerialInit ==
  /\ port = 1 /\ fd = Unopened /\ line = <<1, 1>> /\ unread = <<>>
  /\ buf = <<>> /\ printed = <<>> /\ sink = <<>> /\ stopped = FALSE /\ collected = <<>>

Ends(piece) == piece[2] = 2
HasLine(s) == \E i \in DOMAIN s : Ends(s[i])
FirstEnd(s) == CHOOSE i \in DOMAIN s : Ends(s[i]) /\ \A j \in 1..i - 1 : ~Ends(s[j])

\* Every line read is printed and appended before the port is looked at again.
Idle == ~stopped /\ ~HasLine(buf) /\ Len(sink) = Len(printed)

------------------------------------------------------------------------------
\* The board writes a piece, resets in the middle of a line or between two, and
\* comes back as another device. What was not read is gone.
Emit ==
  /\ port # 0 /\ line[1] <= MaxWritten /\ Len(unread) < 2 * ReadSize
  /\ unread' = Append(unread, line)
  /\ line' = IF Ends(line) THEN <<line[1] + 1, 1>> ELSE <<line[1], 2>>
  /\ UNCHANGED <<port, fd, buf, printed, sink, stopped, collected>>

Reset ==
  /\ port # 0 /\ line[1] <= MaxWritten
  /\ port' = 0 /\ unread' = <<>> /\ line' = <<line[1] + 1, 1>>
  /\ UNCHANGED <<fd, buf, printed, sink, stopped, collected>>

Return ==
  /\ port = 0 /\ port' = line[1]
  /\ UNCHANGED <<fd, line, unread, buf, printed, sink, stopped, collected>>

\* The port may be there and still refuse to be opened; that is tried again.
Attach ==
  /\ Idle /\ fd = Unopened /\ port # 0
  /\ fd' = port
  /\ UNCHANGED <<port, line, unread, buf, printed, sink, stopped, collected>>

\* Mutant: what was pending goes with the port.
Forgotten == <<>>

\* What was pending is kept.
KeptOver == buf

\* A read of a device that is gone, or another one by now, fails or ends the file.
Detach ==
  /\ Idle /\ fd # Unopened /\ fd # port
  /\ fd' = Unopened /\ buf' = KeptOver
  /\ UNCHANGED <<port, line, unread, printed, sink, stopped, collected>>

ReadChunk ==
  /\ Idle /\ fd # Unopened /\ fd = port /\ unread # <<>>
  /\ \E n \in 1..ReadSize :
       /\ n <= Len(unread)
       /\ buf' = buf \o SubSeq(unread, 1, n)
       /\ collected' = collected \o SubSeq(unread, 1, n)
       /\ unread' = SubSeq(unread, n + 1, Len(unread))
  /\ UNCHANGED <<port, fd, line, printed, sink, stopped>>

PrintLine ==
  /\ ~stopped /\ HasLine(buf) /\ Len(sink) = Len(printed)
  /\ printed' = Append(printed, SubSeq(buf, 1, FirstEnd(buf)))
  /\ buf' = SubSeq(buf, FirstEnd(buf) + 1, Len(buf))
  /\ UNCHANGED <<port, fd, line, unread, sink, stopped, collected>>

SinkLine ==
  /\ ~stopped /\ Len(sink) < Len(printed)
  /\ sink' = Append(sink, Last(printed))
  /\ UNCHANGED <<port, fd, line, unread, buf, printed, stopped, collected>>

\* Ctrl-C, at any point.
Interrupt ==
  /\ ~stopped /\ stopped' = TRUE /\ fd' = Unopened
  /\ UNCHANGED <<port, line, unread, buf, printed, sink, collected>>

SerialNext ==
  \/ Emit \/ Reset \/ Return
  \/ Attach \/ Detach \/ ReadChunk \/ PrintLine \/ SinkLine \/ Interrupt

SerialSpec == SerialInit /\ [][SerialNext]_serialVars

------------------------------------------------------------------------------
\* Through resets in the middle of a line, reads of any size and an interrupt
\* anywhere, what was read is logged, once and in order; the file misses at most
\* the line that was being logged. A line that a reset cut off is not lost but
\* leads the first line after it.
LoggedAsRead ==
  /\ FlattenSeq(printed) \o buf = collected
  /\ \A i \in DOMAIN printed : Ends(Last(printed[i])) /\ ~HasLine(Front(printed[i]))
  /\ IsPrefix(sink, printed) /\ Len(printed) - Len(sink) \in 0..1
==============================================================================
