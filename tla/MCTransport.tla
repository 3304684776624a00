---------------------------- MODULE MCTransport -----------------------------
(* The instance of Transport for TLC; its constants are plain numbers, given *)
(* in the .cfg files.                                                        *)
EXTENDS Transport
=============================================================================
