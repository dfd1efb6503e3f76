---------------------------- MODULE MCProvision -----------------------------
(***************************************************************************)
(* Provision for TLC: two or three runs of the launcher on one host.       *)
(***************************************************************************)
EXTENDS Provision
=============================================================================
