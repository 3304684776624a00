------------------------------ MODULE MCSupply ------------------------------
(* Instances of Supply for TLC: chunks of one or three units, a ring of four *)
(* units (so a three-unit chunk meets a nearly full ring, and the ring       *)
(* may hold more chunks than the record queue) and two-unit slices.          *)
EXTENDS Supply

MCChunkSizes == {1, 3}
MCSkips      == {0, 1}
=============================================================================
