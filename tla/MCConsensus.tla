---------------------------- MODULE MCConsensus ----------------------------
(***************************************************************************)
(* Instances of Consensus for TLC: two devices on one stream, two access   *)
(* points and two servers, all interchangeable, with two disturbances at   *)
(* any two moments.  A line is stale, and a mapping expired, after two     *)
(* beacon intervals; a datagram is read up to one interval late.           *)
(***************************************************************************)
EXTENDS Consensus

MCStream == [d \in Devices |-> "radio"]

MCSymmetry ==
    Permutations(Devices) \cup Permutations(APs) \cup Permutations(Servers)
=============================================================================
