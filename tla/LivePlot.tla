------------------------------ MODULE LivePlot ------------------------------
(* The plot of a running capture (scripts/i2s-skew.py): the measuring loop     *)
(* hands a snapshot of its rows to a draw thread, the draw writes the file and *)
(* publishes a frame, a page shows the frames and lets the reader hide         *)
(* elements, and a hidden element asks for a redraw of the last snapshot.      *)
EXTENDS Integers, FiniteSets

CONSTANTS
  Elements,   \* what the legend lets a reader hide
  MaxSnaps,   \* bound: snapshots told apart
  MaxToggles, \* bound: requests and redraws in flight
  Nothing     \* no draw, no snapshot, no frame

Draws == [snap : 0..MaxSnaps, pc : {"file", "lay", "publish", "release"}, laid : SUBSET Elements]
Frames == [snap : 0..MaxSnaps, laid : SUBSET Elements, named : SUBSET Elements]

ASSUME PlotAssumption == MaxSnaps \in Nat /\ Nothing \notin Draws

VARIABLES
  rows,      \* how far the measurement is
  main,      \* the measuring loop: "row", "check", "acquire", then the final plot
  busy,      \* plot_busy
  draw,      \* the draw under plot_busy, or Nothing
  redraw,    \* PLOT_SERVER.redraw: the snapshot it closes over, or Nothing
  redraws,   \* redraw threads that have not tried the lock yet
  hidden,    \* PLOT_SERVER.hidden
  frame,     \* PLOT_SERVER.frame: the snapshot and elements laid out and named
  file,      \* the snapshot in the file
  fresh,     \* the page's connection has a version it has not sent
  page,      \* what the page believes is hidden
  requests,  \* /control requests on their way: a set to hide, or Nothing
  finalLaid, \* the elements the final plot was laid out without
  quiet      \* the reader leaves the page alone, and draws succeed

mainVars == <<rows, main, finalLaid>>
drawVars == <<busy, draw, redraw, redraws>>
viewVars == <<frame, file, fresh>>
pageVars == <<hidden, page, requests, quiet>>
plotVars == <<mainVars, drawVars, viewVars, pageVars>>

PlotInit ==
  /\ rows = 0 /\ main = "row" /\ finalLaid = {}
  /\ busy = FALSE /\ draw = Nothing /\ redraw = Nothing /\ redraws = {}
  /\ hidden = {} /\ page = {} /\ requests = {} /\ quiet = FALSE
  /\ frame = Nothing /\ file = Nothing /\ fresh = FALSE

------------------------------------------------------------------------------
(* The measuring loop.                                                         *)

Measure ==
  /\ main = "row"
  /\ rows' = IF rows < MaxSnaps THEN rows + 1 ELSE rows
  /\ main' = "check"
  /\ UNCHANGED <<finalLaid, drawVars, viewVars, pageVars>>

\* A draw is not due, or one in progress makes this one be skipped.
Skip ==
  /\ main = "check" /\ main' = "row"
  /\ UNCHANGED <<rows, finalLaid, drawVars, viewVars, pageVars>>

\* Due, and the lock is found free: the snapshot is taken.
Due ==
  /\ main = "check" /\ ~busy
  /\ main' = "acquire"
  /\ UNCHANGED <<rows, finalLaid, drawVars, viewVars, pageVars>>

\* The lock is taken (waited for, if a redraw was faster) and the draw started.
StartDraw ==
  /\ main = "acquire" /\ ~busy
  /\ \E writes \in BOOLEAN : draw' = [snap |-> rows, pc |-> IF writes THEN "file" ELSE "lay", laid |-> {}]
  /\ busy' = TRUE /\ redraw' = rows
  /\ main' = "row"
  /\ UNCHANGED <<rows, finalLaid, redraws, viewVars, pageVars>>

\* --count is reached, or the run is interrupted.
Finish ==
  /\ main = "row" /\ rows > 0
  /\ main' = "file"
  /\ UNCHANGED <<rows, finalLaid, drawVars, viewVars, pageVars>>

\* The final plot is not under plot_busy.
FinalFile ==
  /\ main = "file" /\ file' = rows /\ main' = "lay"
  /\ UNCHANGED <<rows, finalLaid, drawVars, frame, fresh, pageVars>>

FinalLay ==
  /\ main = "lay" /\ finalLaid' = hidden /\ main' = "publish"
  /\ UNCHANGED <<rows, drawVars, viewVars, pageVars>>

FinalPublish ==
  /\ main = "publish"
  /\ frame' = [snap |-> rows, laid |-> finalLaid, named |-> hidden] /\ fresh' = TRUE
  /\ main' = "exited"
  /\ UNCHANGED <<rows, finalLaid, drawVars, file, pageVars>>

------------------------------------------------------------------------------
(* The draw thread. It dies with the process.                                  *)

Drawing(pc) == main # "exited" /\ draw # Nothing /\ draw.pc = pc

\* The file is laid out with nothing hidden and replaced as a whole.
WriteFile ==
  /\ Drawing("file")
  /\ file' = draw.snap /\ draw' = [draw EXCEPT !.pc = "lay"]
  /\ UNCHANGED <<mainVars, busy, redraw, redraws, frame, fresh, pageVars>>

\* The elements the reader has hidden are read, then the frame is laid out.
LayOut ==
  /\ Drawing("lay")
  /\ draw' = [draw EXCEPT !.pc = "publish", !.laid = hidden]
  /\ UNCHANGED <<mainVars, busy, redraw, redraws, viewVars, pageVars>>

\* Mutant: a new frame counts no version.
PublishSilently ==
  /\ Drawing("publish")
  /\ frame' = [snap |-> draw.snap, laid |-> draw.laid, named |-> hidden]
  /\ draw' = [draw EXCEPT !.pc = "release"]
  /\ UNCHANGED <<mainVars, busy, redraw, redraws, file, fresh, pageVars>>

\* The frame names the elements hidden by now, gets a version and wakes the page.
Publish ==
  /\ Drawing("publish")
  /\ frame' = [snap |-> draw.snap, laid |-> draw.laid, named |-> hidden] /\ fresh' = TRUE
  /\ draw' = [draw EXCEPT !.pc = "release"]
  /\ UNCHANGED <<mainVars, busy, redraw, redraws, file, pageVars>>

\* A coordinate that is not finite: the view holds the previous frame.
PublishRefused ==
  /\ Drawing("publish") /\ ~quiet
  /\ draw' = [draw EXCEPT !.pc = "release"]
  /\ UNCHANGED <<mainVars, busy, redraw, redraws, viewVars, pageVars>>

\* Mutant: a draw that raised leaves the lock taken.
RaisedHolding ==
  /\ (Drawing("file") \/ Drawing("lay")) /\ ~quiet
  /\ draw' = Nothing
  /\ UNCHANGED <<mainVars, busy, redraw, redraws, viewVars, pageVars>>

\* Laying out or writing raises: it is printed, and the lock is given back.
DrawRaised ==
  /\ (Drawing("file") \/ Drawing("lay")) /\ ~quiet
  /\ draw' = [draw EXCEPT !.pc = "release"]
  /\ UNCHANGED <<mainVars, busy, redraw, redraws, viewVars, pageVars>>

Release ==
  /\ Drawing("release")
  /\ draw' = Nothing /\ busy' = FALSE
  /\ UNCHANGED <<mainVars, redraw, redraws, viewVars, pageVars>>

\* Mutant: a redraw that does not get the lock gives it back all the same.
RedrawReleasing ==
  /\ main # "exited"
  /\ \E s \in redraws :
       /\ redraws' = redraws \ {s}
       /\ IF busy THEN busy' = FALSE /\ UNCHANGED draw
          ELSE draw' = [snap |-> s, pc |-> "lay", laid |-> {}] /\ busy' = TRUE
  /\ UNCHANGED <<mainVars, redraw, viewVars, pageVars>>

\* A redraw thread draws its snapshot if the lock is free, and is gone if not.
Redraw ==
  /\ main # "exited"
  /\ \E s \in redraws :
       /\ redraws' = redraws \ {s}
       /\ IF busy THEN UNCHANGED <<draw, busy>>
          ELSE draw' = [snap |-> s, pc |-> "lay", laid |-> {}] /\ busy' = TRUE
  /\ UNCHANGED <<mainVars, redraw, viewVars, pageVars>>

------------------------------------------------------------------------------
(* The page and the handlers that serve it.                                    *)

\* The reader hides or shows an element: the page sends its whole set.
Toggle ==
  /\ ~quiet /\ main # "exited" /\ frame # Nothing
  /\ \E e \in Elements :
       /\ page' = IF e \in page THEN page \ {e} ELSE page \union {e}
       /\ Cardinality(requests) < MaxToggles /\ requests' = requests \union {page'}
  /\ UNCHANGED <<mainVars, drawVars, viewVars, hidden, quiet>>

\* The page reports its size, as it does before it has seen a frame, or the
\* reader picks another window of time.
Resize ==
  /\ ~quiet /\ main # "exited" /\ Cardinality(requests) < MaxToggles
  /\ requests' = requests \union {Nothing}
  /\ UNCHANGED <<mainVars, drawVars, viewVars, hidden, page, quiet>>

\* Mutant: the redraw is started without asking whether there is one.
ControlUnchecked ==
  /\ main # "exited" /\ Cardinality(redraws) < MaxToggles
  /\ \E r \in requests :
       /\ hidden' = IF r = Nothing THEN hidden ELSE r
       /\ requests' = requests \ {r}
  /\ redraws' = redraws \union {redraw}
  /\ UNCHANGED <<mainVars, busy, draw, redraw, viewVars, page, quiet>>

\* /control: what it sets is taken, and a thread is started to redraw.
Control ==
  /\ main # "exited" /\ Cardinality(redraws) < MaxToggles
  /\ \E r \in requests :
       /\ hidden' = IF r = Nothing THEN hidden ELSE r
       /\ requests' = requests \ {r}
  /\ redraws' = IF redraw = Nothing THEN redraws ELSE redraws \union {redraw}
  /\ UNCHANGED <<mainVars, busy, draw, redraw, viewVars, page, quiet>>

\* /events: a version the connection has not sent goes to the page, which takes
\* over what the frame says is hidden.
Send ==
  /\ main # "exited" /\ fresh
  /\ fresh' = FALSE /\ page' = frame.named
  /\ UNCHANGED <<mainVars, drawVars, frame, file, hidden, requests, quiet>>

\* The wait times out after 10 s: the current frame is sent once more.
Resend ==
  /\ main # "exited" /\ ~fresh /\ frame # Nothing
  /\ page' = frame.named
  /\ UNCHANGED <<mainVars, drawVars, viewVars, hidden, requests, quiet>>

CalmDown ==
  /\ ~quiet /\ quiet' = TRUE
  /\ UNCHANGED <<mainVars, drawVars, viewVars, hidden, page, requests>>

------------------------------------------------------------------------------
MainStep == Measure \/ Skip \/ Due \/ StartDraw \/ Finish \/ FinalFile \/ FinalLay \/ FinalPublish
DrawStep == WriteFile \/ LayOut \/ Publish \/ PublishRefused \/ DrawRaised \/ Release
PageStep == Redraw \/ Control \/ Send

PlotNext == MainStep \/ DrawStep \/ PageStep \/ Resend \/ Toggle \/ Resize \/ CalmDown

\* Every thread runs, and the time between plots passes: a draw becomes due
\* again and again. Nothing forces the run to end.
PlotSpec ==
  /\ PlotInit /\ [][PlotNext]_plotVars
  /\ WF_plotVars(Measure \/ Skip \/ StartDraw \/ FinalFile \/ FinalLay \/ FinalPublish)
  /\ SF_plotVars(Due) /\ SF_plotVars(StartDraw)
  /\ WF_plotVars(DrawStep) /\ WF_plotVars(Redraw) /\ WF_plotVars(Control) /\ WF_plotVars(Send)

------------------------------------------------------------------------------
PlotTypeOK ==
  /\ rows \in 0..MaxSnaps /\ finalLaid \subseteq Elements
  /\ main \in {"row", "check", "acquire", "file", "lay", "publish", "exited"}
  /\ busy \in BOOLEAN /\ fresh \in BOOLEAN /\ quiet \in BOOLEAN
  /\ draw \in Draws \union {Nothing}
  /\ redraw \in 0..MaxSnaps \union {Nothing} /\ redraws \subseteq 0..MaxSnaps
  /\ hidden \subseteq Elements /\ page \subseteq Elements /\ requests \subseteq (SUBSET Elements) \union {Nothing}
  /\ frame \in Frames \union {Nothing} /\ file \in 0..MaxSnaps \union {Nothing}

\* plot_busy is held exactly while a draw is under way: a second draw never
\* starts over the first, whoever asks for it.
LockMeansDraw == busy <=> draw # Nothing

\* A draw that starts gives the lock back, even one that raised: the live view
\* cannot stop for good while the capture goes on.
LockGivenBack == busy ~> (~busy \/ main = "exited")

\* The lock serves one draw at a time and is never left behind.
LockIsForDraws == [](PlotTypeOK /\ LockMeansDraw) /\ LockGivenBack

\* While the capture goes on and the reader leaves the page alone, page, server
\* and frame come to agree on what is hidden.
ViewsAgree ==
  <>[](quiet /\ main # "exited") =>
    <>[](frame # Nothing /\ frame.laid = hidden /\ frame.named = hidden /\ page = hidden)

==============================================================================
