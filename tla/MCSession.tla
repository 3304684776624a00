----------------------------- MODULE MCSession ------------------------------
(***************************************************************************)
(* Instances of Session for TLC: one server to be found and one to be      *)
(* typed, a queue of two events, so that it overflows within one session,  *)
(* and no configured server, so that all ways to a target are taken.       *)
(***************************************************************************)
EXTENDS Session
=============================================================================
