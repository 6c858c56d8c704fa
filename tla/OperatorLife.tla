---------------------------- MODULE OperatorLife ----------------------------
(***************************************************************************)
(* What the pool of base/AOperator.cpp promises the owner of an AOperator, *)
(* with no threads, lists or clocks: a posting is either still waiting,    *)
(* or it has been taken - by its timer (fired) or by a post or a wakeup    *)
(* (readied) - and then its done() is called once, or a signal takes it    *)
(* back and done() is never called.  A pool that stops calls done(-EINTR)  *)
(* of what it still holds.  ThreadPool implements this module.             *)
(***************************************************************************)
EXTENDS Integers

CONSTANT Op            \* the operators

VARIABLES
  st,                  \* st[o]: where the one posting of o stands
  calls                \* the calls of done() under way, with their results

EINTR == -4            \* the result of done(-EINTR)
States == {"idle", "waiting", "fired", "ready"}

TypeOK == st \in [Op -> States] /\ calls \subseteq Op \X {0, 1, EINTR}

Init == st = [o \in Op |-> "idle"] /\ calls = {}

Move(o, from, to) == st[o] = from /\ st' = [st EXCEPT ![o] = to]

(* AOperatorPost with a tick: a timer or a pending operator.               *)
Wait(o) == Move(o, "idle", "waiting") /\ UNCHANGED calls

(* AOperatorPost with tick 0, AThreadPost.                                 *)
Ready(o) == Move(o, "idle", "ready") /\ UNCHANGED calls

(* AOperatorSignal: the posting is still waiting, or the call returns -1.  *)
Wakeup(o) == Move(o, "waiting", "ready") /\ UNCHANGED calls
Cancel(o) == Move(o, "waiting", "idle") /\ UNCHANGED calls

(* A thread finds a set of expired timers of one tick.                     *)
Expire(S) ==
  /\ S # {}
  /\ \A o \in S : st[o] = "waiting"
  /\ st' = [o \in Op |-> IF o \in S THEN "fired" ELSE st[o]]
  /\ UNCHANGED calls

(* done(0) of a fired operator, done(1) of a readied one.                  *)
Call(o) ==
  \/ Move(o, "fired", "idle") /\ calls' = calls \cup {<<o, 0>>}
  \/ Move(o, "ready", "idle") /\ calls' = calls \cup {<<o, 1>>}

Return(c) == calls' = calls \ {c} /\ UNCHANGED st

(* done(-EINTR) for what a finishing thread, or the whole pool, drains.  A *)
(* fired operator is never drained: its thread calls it before it exits.   *)
Drain(o) ==
  /\ \/ Move(o, "waiting", "idle")
     \/ Move(o, "ready", "idle")
  /\ calls' = calls \cup {<<o, EINTR>>}

Next ==
  \/ \E o \in Op :
       Wait(o) \/ Ready(o) \/ Wakeup(o) \/ Cancel(o) \/ Call(o) \/ Drain(o)
  \/ \E S \in SUBSET Op : Expire(S)
  \/ \E c \in calls : Return(c)

Spec == Init /\ [][Next]_<<st, calls>>
=============================================================================
