------------------------------ MODULE MCEvents ------------------------------
(* Events on small instances.                                              *)
EXTENDS Events
CONSTANTS t1, t2, r1, r2, r3
=============================================================================
