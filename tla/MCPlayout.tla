----------------------------- MODULE MCPlayout ------------------------------
(* Instances of Playout for TLC: reports of up to two frames against writes  *)
(* of one or two, so that a report can be smaller than, equal to and larger  *)
(* than what is queued; a measured depth of zero or two, so that a debt may  *)
(* be none, part or all of the seed.                                         *)
EXTENDS Playout

MCCredits == {0, 1, 2}
MCWrites  == {1, 2}
MCDepths  == {0, 1, 2}
=============================================================================
