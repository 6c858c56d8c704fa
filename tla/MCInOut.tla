------------------------------ MODULE MCInOut ------------------------------
(* InOut on small instances.                                               *)
EXTENDS InOut
=============================================================================
