------------------------------ MODULE MCServer ------------------------------
(***************************************************************************)
(* Small instances of Server.  Liveness is checked with safety, so no      *)
(* symmetry is used.                                                       *)
(***************************************************************************)
EXTENDS Server
=============================================================================
