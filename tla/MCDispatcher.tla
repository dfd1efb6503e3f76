---------------------------- MODULE MCDispatcher ----------------------------
(***************************************************************************)
(* Dispatcher for TLC: commands and processes are model values.            *)
(***************************************************************************)
EXTENDS Dispatcher, TLC

\* Commands and processes are interchangeable.
Symmetry == Permutations(Dispatch) \cup Permutations(Proc)
=============================================================================
