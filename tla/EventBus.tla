------------------------------ MODULE EventBus ------------------------------
(***************************************************************************)
(* What ecs/AEvent promises the receivers of one event, with no chains,    *)
(* tree nodes or counts: an emission reaches the receivers subscribed at   *)
(* that moment, but those whose preproc declines it, and each of them      *)
(* once; a oneshot receiver that takes it is no longer subscribed.         *)
(* Events implements this module.                                          *)
(***************************************************************************)
CONSTANTS Thread, Receiver, Oneshot, Preproc

VARIABLES
  subscribed,  \* the receivers of the event
  owed         \* per thread: those its emission has yet to call

vars == <<subscribed, owed>>

Init == subscribed = {} /\ owed = [t \in Thread |-> {}]

Subscribe(r) ==
  /\ r \notin subscribed /\ \A t \in Thread : r \notin owed[t]
  /\ subscribed' = subscribed \cup {r}
  /\ UNCHANGED owed

Unsubscribe(r) ==
  /\ r \in subscribed /\ subscribed' = subscribed \ {r}
  /\ UNCHANGED owed

Emit(t) ==
  /\ owed[t] = {}
  /\ \E taking \in SUBSET subscribed :
       /\ subscribed \ Preproc \subseteq taking
       /\ subscribed' = subscribed \ (taking \cap Oneshot)
       /\ owed' = [owed EXCEPT ![t] = taking]

Deliver(t) ==
  /\ \E r \in owed[t] : owed' = [owed EXCEPT ![t] = @ \ {r}]
  /\ UNCHANGED subscribed

Clear == subscribed' = {} /\ UNCHANGED owed

Next ==
  \/ Clear
  \/ \E r \in Receiver : Subscribe(r) \/ Unsubscribe(r)
  \/ \E t \in Thread : Emit(t) \/ Deliver(t)

Safety == Init /\ [][Next]_vars
Spec == Safety /\ \A t \in Thread : WF_vars(Deliver(t))
=============================================================================
