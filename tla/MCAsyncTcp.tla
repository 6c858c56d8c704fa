----------------------------- MODULE MCAsyncTcp -----------------------------
(* AsyncTcp on small instances.                                            *)
EXTENDS AsyncTcp
=============================================================================
