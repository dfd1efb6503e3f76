---------------------------- MODULE MCOpenShell ----------------------------
(* OpenShell against a gateway that reuses the name of a sandbox. *)
EXTENDS OpenShell
=============================================================================
