------------------------------ MODULE LossyFeed ------------------------------
(* What the measuring loop of scripts/i2s-skew.py is promised of the stream of *)
(* blocks it takes from: the blocks come in the order they were acquired,      *)
(* none of them twice, and the only ones missing are those counted as lost.    *)
EXTENDS Integers

CONSTANT MaxBlocks      \* bound on the blocks acquired

VARIABLES
  sent,   \* blocks acquired so far: they are numbered 1..sent
  lost,   \* the ones that were dropped
  last    \* the last one the loop was given, 0 before the first

feedVars == <<sent, lost, last>>

FeedInit == sent = 0 /\ lost = {} /\ last = 0

\* A block arrives: it is kept for the loop or lost at once.
Acquire ==
  /\ sent < MaxBlocks
  /\ sent' = sent + 1
  /\ lost' \in {lost, lost \union {sent + 1}}
  /\ UNCHANGED last

\* The loop is given the oldest block it has not been given that is not lost.
Deliver(b) ==
  /\ b \in (last + 1)..sent
  /\ b \notin lost
  /\ (last + 1)..(b - 1) \subseteq lost
  /\ last' = b
  /\ UNCHANGED <<sent, lost>>

FeedNext == Acquire \/ \E b \in 1..MaxBlocks : Deliver(b)

FeedSpec == FeedInit /\ [][FeedNext]_feedVars
==============================================================================
