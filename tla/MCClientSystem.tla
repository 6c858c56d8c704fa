--------------------------- MODULE MCClientSystem ---------------------------
(* ClientSystem on small instances.                                        *)
EXTENDS ClientSystem

Both == {TRUE, FALSE}
Always == {TRUE}
=============================================================================
