----------------------------- MODULE ClientLife -----------------------------
(***************************************************************************)
(* What ecs/AClientSystem promises a client and its listeners, with no     *)
(* threads, checks or counts: the client's open, heart and close are       *)
(* called one at a time in the order of its phases; on_client_opened is    *)
(* emitted at most once between an open and its close; on_client_closed is *)
(* emitted once for each close, also of a client whose open failed, and    *)
(* before it is opened again, and once more when it is removed.            *)
(* ClientSystem implements this module.                                    *)
(***************************************************************************)
VARIABLES
  phase,   \* _status
  call,    \* the callback under way, its pending part included
  told,    \* on_client_opened was emitted, and on_client_closed not since
  owes,    \* on_client_closed is to be emitted
  gone     \* the client was removed from its manager

vars == <<phase, call, told, owes, gone>>

Init ==
  /\ phase = "Invalid" /\ call = "none"
  /\ told = FALSE /\ owes = FALSE /\ gone = FALSE

Call(from, to, callback) ==
  /\ phase = from /\ phase' = to
  /\ call = "none" /\ call' = callback
  /\ UNCHANGED <<told, gone>>

Open  == Call("Invalid", "Opening", "open") /\ UNCHANGED owes
Heart == Call("Opened", "Opened", "heart") /\ UNCHANGED owes
Close == Call("Closing", "Closed", "close") /\ owes' = TRUE

Return == call # "none" /\ call' = "none" /\ UNCHANGED <<phase, told, owes, gone>>

TellOpened ==
  /\ phase = "Opening" /\ call = "none" /\ ~told
  /\ phase' = "Opened" /\ told' = TRUE
  /\ UNCHANGED <<call, owes, gone>>

(* The client failed, or its end was asked for.                            *)
GiveUp ==
  /\ phase \in {"Opening", "Opened"} /\ call = "none"
  /\ phase' = "Closing"
  /\ UNCHANGED <<call, told, owes, gone>>

TellClosed ==
  /\ phase = "Closed" /\ call = "none" /\ owes
  /\ owes' = FALSE /\ told' = FALSE
  /\ UNCHANGED <<phase, call, gone>>

(* What follows a close that was told: the client starts anew, or leaves.  *)
Over == phase = "Closed" /\ call = "none" /\ ~told /\ ~owes /\ ~gone

Reset  == Over /\ phase' = "Invalid" /\ UNCHANGED <<call, told, owes, gone>>
Remove == Over /\ owes' = TRUE /\ gone' = TRUE /\ UNCHANGED <<phase, call, told>>

Next ==
  \/ Open \/ Heart \/ Close \/ Return
  \/ TellOpened \/ GiveUp \/ TellClosed \/ Reset \/ Remove

Spec == Init /\ [][Next]_vars
=============================================================================
