------------------------------- MODULE MCAssets -----------------------------
(***************************************************************************)
(* Small instances of Assets for TLC.                                      *)
(***************************************************************************)
EXTENDS Assets
=============================================================================
