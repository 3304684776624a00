------------------------------ MODULE MCVolume ------------------------------
(***************************************************************************)
(* The instance of Volume for TLC: two positions of the slider to move     *)
(* between, and people who take turns, an orchestrator that also defers    *)
(* requests, or people and a connection that spare nobody.                 *)
(***************************************************************************)
EXTENDS Volume

MCVolumes == {60, 100}
MCFreedomSets == {{}, {"deferred"}, {"overlap", "drops"}}
TurnTaking == {{}}
=============================================================================
