------------------------------ MODULE MCNative ------------------------------
(* One native execution: two pipes under tight limits, two proxied connections. *)
EXTENDS Native, TLC
CONSTANTS c1, c2
MCConns == {c1, c2}
MCAllowed == {c1}
=============================================================================
