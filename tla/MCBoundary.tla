----------------------------- MODULE MCBoundary -----------------------------
(***************************************************************************)
(* Small instances of Boundary.  Operation slots are interchangeable, and  *)
(* so are callers.                                                         *)
(***************************************************************************)
EXTENDS Boundary, TLC

Symmetry == Permutations(Op) \cup Permutations(Caller)
=============================================================================
