---------------------------- MODULE MCCheckLoop ----------------------------
(* CheckLoop on small instances.                                           *)
EXTENDS CheckLoop
CONSTANTS w1, w2
=============================================================================
