------------------------------- MODULE InOut -------------------------------
(***************************************************************************)
(* The message line of ecs/AInOutComponent (posting, input, end) and its   *)
(* output cycle, with the owner that opens and ends its sessions: the      *)
(* callbacks of iot/MQTTClient, whose busy count tells AClientSystem when  *)
(* the io object may be closed and a new session opened.  The io object is *)
(* external: it takes a message, answers at once or later, in any thread.  *)
(*                                                                         *)
(* Every action takes the component's mutex at most once.                  *)
(***************************************************************************)
EXTENDS Integers, Sequences, FiniteSets, SequencesExt

CONSTANTS
  Msg,       \* the messages (AMessage)
  Thread,    \* the threads that post messages or complete inputs
  MaxLate    \* no session is opened while more finishing outputs are late

NoMsg == "none"

ASSUME InOutAssumption == NoMsg \notin Msg /\ MaxLate \in Nat

VARIABLES
  abort,      \* _abort
  queue,      \* _queue
  post_end,   \* on_post_end # NULL
  io,         \* the message an input of the io object is pending for, or NoMsg
  tried,      \* the io object was given the head of the queue
  shut,       \* the io object was shut down
  out,        \* the output cycle: "off", in _outmsg_done ("run"), or pending
  late,       \* finishing output cycles that have yet to call _input_end
  busy,       \* _client._busy_count, without AClientSystem's own
  refs,       \* the references to the entity the component holds
  pc, msg, more, result   \* per thread: where it is, and its local variables

vars == <<abort, queue, post_end, io, tried, shut, out, late, busy, refs, pc,
          msg, more, result>>
owner == <<shut, out, late>>
locals == <<msg, more, result>>

Results == {"ok", "error", "intr"}

TypeOK ==
  /\ abort \in BOOLEAN /\ post_end \in BOOLEAN /\ shut \in BOOLEAN
  /\ tried \in BOOLEAN
  /\ queue \in Seq(Msg)
  /\ io \in Msg \cup {NoMsg}
  /\ out \in {"off", "run", "wait"}
  /\ late \in Nat /\ busy \in 0 .. 2 /\ refs \in Int
  /\ pc \in [Thread -> {"idle", "refuse", "first", "send", "done", "tell", "next"}]
  /\ msg \in [Thread -> Msg \cup {NoMsg}]
  /\ more \in [Thread -> BOOLEAN]
  /\ result \in [Thread -> Results]

Init ==
  /\ abort = TRUE /\ queue = <<>> /\ post_end = FALSE
  /\ io = NoMsg /\ tried = FALSE /\ shut = FALSE /\ out = "off" /\ late = 0
  /\ busy = 0 /\ refs = 0
  /\ pc = [t \in Thread |-> "idle"]
  /\ msg = [t \in Thread |-> NoMsg]
  /\ more = [t \in Thread |-> FALSE]
  /\ result = [t \in Thread |-> "ok"]

Goto(t, place) == pc[t] # place /\ pc' = [pc EXCEPT ![t] = place]

----------------------------------------------------------------------------
(* Posting.                                                                *)

(* The poster owns the message: it is in no queue and in no done().        *)
Free(m) == m \notin ToSet(queue) /\ \A t \in Thread : msg[t] # m

(* _do_post, up to its unlock: only the first message is input at once.    *)
PostAtOnce(t, m) ==   \* mutant: input is not left to the driver of the queue
  /\ pc[t] = "idle" /\ Free(m)
  /\ IF abort
     THEN /\ Goto(t, "refuse")
          /\ msg' = [msg EXCEPT ![t] = m]
          /\ UNCHANGED queue
     ELSE queue' = Append(queue, m) /\ Goto(t, "first") /\ UNCHANGED msg
  /\ UNCHANGED <<abort, post_end, io, tried, owner, busy, refs, more, result>>

Post(t, m) ==
  /\ pc[t] = "idle" /\ Free(m)
  /\ IF abort
     THEN /\ Goto(t, "refuse")
          /\ msg' = [msg EXCEPT ![t] = m]
          /\ UNCHANGED queue
     ELSE /\ queue' = Append(queue, m)
          /\ IF queue = <<>> THEN Goto(t, "first") ELSE UNCHANGED pc
          /\ UNCHANGED msg
  /\ UNCHANGED <<abort, post_end, io, tried, owner, busy, refs, more, result>>

(* msg->done2(-EINTR) of a refused message has returned.                   *)
Refused(t) ==
  /\ pc[t] = "refuse" /\ Goto(t, "idle")
  /\ msg' = [msg EXCEPT ![t] = NoMsg]
  /\ UNCHANGED <<abort, queue, post_end, io, tried, owner, busy, refs, more, result>>

(* do_input of the head of the queue: the io object answers later, through *)
(* _inmsg.done(), or at once.                                              *)
Input(t) ==
  /\ pc[t] \in {"first", "send"}
  /\ refs' = IF pc[t] = "first" THEN refs + 1 ELSE refs
  /\ \/ Goto(t, "idle") /\ io' = Head(queue) /\ UNCHANGED result
     \/ /\ Goto(t, "done") /\ UNCHANGED io
        /\ \E r \in {"ok", "error"} : result' = [result EXCEPT ![t] = r]
  /\ tried' = TRUE
  /\ UNCHANGED <<abort, queue, post_end, owner, busy, msg, more>>

(* A pending input completes and the io object calls _inmsg.done().        *)
InputDone(t) ==
  /\ pc[t] = "idle" /\ io # NoMsg
  /\ Goto(t, "done") /\ io' = NoMsg
  /\ \E r \in {"ok", "error"} : result' = [result EXCEPT ![t] = r]
  /\ UNCHANGED <<abort, queue, post_end, tried, owner, busy, refs, msg, more>>

(* on_post_end: use(-1).                                                   *)
AnnounceAgain(ending) ==   \* mutant: the end may be announced a second time
  /\ post_end' = (post_end /\ ~ending)
  /\ busy' = IF ending THEN busy - 1 ELSE busy

AnnounceEnd(ending) ==
  /\ post_end' = (post_end /\ ~ending)
  /\ busy' = IF post_end /\ ending THEN busy - 1 ELSE busy

(* _inmsg_done, its critical section: the head leaves the queue, and the   *)
(* last message of an aborted session ends it.                             *)
PopKeepsHead(t) ==   \* mutant: the message does not leave the queue
  /\ pc[t] = "done" /\ Goto(t, "tell")
  /\ msg' = [msg EXCEPT ![t] = Head(queue)]
  /\ more' = [more EXCEPT ![t] = TRUE]
  /\ AnnounceEnd(abort)
  /\ tried' = FALSE
  /\ UNCHANGED <<abort, queue, io, owner, refs, result>>

EagerPop(t) ==   \* mutant: the end does not wait for the queue to empty
  /\ pc[t] = "done" /\ Goto(t, "tell")
  /\ msg' = [msg EXCEPT ![t] = Head(queue)]
  /\ queue' = Tail(queue)
  /\ more' = [more EXCEPT ![t] = Tail(queue) # <<>>]
  /\ AnnounceEnd(abort)
  /\ tried' = FALSE
  /\ UNCHANGED <<abort, io, owner, refs, result>>

Pop(t) ==
  /\ pc[t] = "done" /\ Goto(t, "tell")
  /\ msg' = [msg EXCEPT ![t] = Head(queue)]
  /\ queue' = Tail(queue)
  /\ more' = [more EXCEPT ![t] = Tail(queue) # <<>>]
  /\ AnnounceEnd(abort /\ Tail(queue) = <<>>)
  /\ tried' = FALSE
  /\ UNCHANGED <<abort, io, owner, refs, result>>

(* msg->done2(result) has returned; with no next message the chain ends.   *)
DropEach(t) ==   \* mutant: a reference is dropped for every message
  /\ pc[t] = "tell"
  /\ msg' = [msg EXCEPT ![t] = NoMsg]
  /\ Goto(t, IF more[t] THEN "next" ELSE "idle")
  /\ refs' = refs - 1
  /\ UNCHANGED <<abort, queue, post_end, io, tried, owner, busy, more, result>>

Tell(t) ==
  /\ pc[t] = "tell"
  /\ msg' = [msg EXCEPT ![t] = NoMsg]
  /\ Goto(t, IF more[t] THEN "next" ELSE "idle")
  /\ refs' = IF more[t] THEN refs ELSE refs - 1
  /\ UNCHANGED <<abort, queue, post_end, io, tried, owner, busy, more, result>>

(* _abort is read without the mutex: it may be set before the do_input it  *)
(* did not stop.                                                           *)
KeepResult(t) ==   \* mutant: the rest is told what the last message was
  /\ pc[t] = "next"
  /\ Goto(t, IF abort THEN "done" ELSE "send")
  /\ UNCHANGED <<abort, queue, post_end, io, tried, owner, busy, refs, locals>>

Continue(t) ==
  /\ pc[t] = "next"
  /\ IF abort
     THEN Goto(t, "done") /\ result' = [result EXCEPT ![t] = "intr"]
     ELSE Goto(t, "send") /\ UNCHANGED result
  /\ UNCHANGED <<abort, queue, post_end, io, tried, owner, busy, refs, msg, more>>

----------------------------------------------------------------------------
(* The output cycle, one at a time.                                        *)

(* _outmsg_done asks for more output, pending or at once.                  *)
Output ==
  /\ out = "run" /\ out' = "wait"
  /\ UNCHANGED <<abort, queue, post_end, io, tried, shut, late, busy, refs, pc, locals>>

OutputDone ==
  /\ out = "wait" /\ out' = "run"
  /\ UNCHANGED <<abort, queue, post_end, io, tried, shut, late, busy, refs, pc, locals>>

(* MQTTOutput finds an error: use(-1) comes before its _input_end.         *)
OutputFails ==
  /\ out = "run" /\ out' = "off"
  /\ busy' = busy - 1 /\ late' = late + 1
  /\ UNCHANGED <<abort, queue, post_end, io, tried, shut, refs, pc, locals>>

----------------------------------------------------------------------------
(* Sessions.                                                               *)

(* _input_end: no more posts; the end is announced now, or by Pop.         *)
ForgetfulInputEnd ==   \* mutant: with an empty queue nobody announces it
  abort' = TRUE /\ UNCHANGED <<post_end, busy>>
InputEnd == abort' = TRUE /\ AnnounceEnd(queue = <<>>)

(* The _input_end of MQTTOutput, and _outmsg_done's release after it.      *)
LateInputEnd ==
  /\ late > 0 /\ late' = late - 1
  /\ InputEnd
  /\ refs' = refs - 1
  /\ UNCHANGED <<queue, io, tried, shut, out, pc, locals>>

(* MQTTAbort, called by AClientSystem while the session is open; after its *)
(* end, with busy = 0, the call would find abort set and nothing to end.   *)
Abort ==
  /\ busy > 0
  /\ InputEnd
  /\ shut' = TRUE
  /\ UNCHANGED <<queue, io, tried, out, late, refs, pc, locals>>

(* The last step of MQTTClient::open: use(2), _input_begin, _output_cycle. *)
(* AClientSystem opens again only with a busy count of 0.                  *)
Begin ==
  /\ busy = 0 /\ late <= MaxLate
  /\ abort' = FALSE /\ post_end' = TRUE
  /\ busy' = 2 /\ out' = "run" /\ refs' = refs + 1 /\ shut' = FALSE
  /\ UNCHANGED <<queue, io, tried, late, pc, locals>>

Chain(t) == Refused(t) \/ Input(t) \/ Pop(t) \/ Tell(t) \/ Continue(t)

Next ==
  \/ \E t \in Thread, m \in Msg : Post(t, m)
  \/ \E t \in Thread : Chain(t) \/ InputDone(t)
  \/ Output \/ OutputDone \/ OutputFails \/ LateInputEnd
  \/ Begin \/ Abort

Spec == Init /\ [][Next]_vars

----------------------------------------------------------------------------
(* Properties.                                                             *)

(* The thread that has to see to the head of the queue.                    *)
Drives(t) == pc[t] \in {"first", "send", "done", "next"} \/ (pc[t] = "tell" /\ more[t])

(* While there are messages exactly one thread, or the pending input of    *)
(* the io object, sees to the first of them: the io object never has two   *)
(* inputs in the one _inmsg, and no message is left behind in a queue that *)
(* nobody empties - although posters and completions race.                 *)
OneDriver ==
  /\ \A t, u \in Thread : Drives(t) /\ Drives(u) => t = u
  /\ io # NoMsg => queue # <<>> /\ io = Head(queue) /\ \A t \in Thread : ~Drives(t)
  /\ queue # <<>> <=> (io # NoMsg \/ \E t \in Thread : Drives(t))

(* A message has one owner: it is once in the queue, or in one done().     *)
OneOwner ==
  /\ IsInjective(queue)
  /\ \A t \in Thread : msg[t] # NoMsg => msg[t] \notin ToSet(queue)
  /\ \A t, u \in Thread : msg[t] = msg[u] /\ msg[t] # NoMsg => t = u

(* The busy count tells the truth: at 0 nothing is queued, pending or      *)
(* about to be, so that closing the io object and opening a session are    *)
(* safe; the assertion of _input_begin holds.                              *)
QuietWhenIdle ==
  busy = 0 =>
    /\ abort /\ ~post_end /\ queue = <<>>
    /\ io = NoMsg /\ out = "off" /\ \A t \in Thread : ~Drives(t)

(* The component holds a reference to its entity for every chain that may  *)
(* still touch it, and no other: a message line that is being served, its  *)
(* last done(), and each output cycle.                                     *)
Serving == {t \in Thread : pc[t] \in {"send", "done", "tell", "next"}}
RefsBalance ==
  refs = Cardinality(Serving) + (IF io # NoMsg THEN 1 ELSE 0)
           + (IF out # "off" THEN 1 ELSE 0) + late

(* Messages are answered once, in the order of their acceptance, with      *)
(* -EINTR only after the end of the session was asked for, and the end is  *)
(* announced once, with the last answer.                                   *)
Reply(t) == <<msg[t], IF pc[t] = "refuse" THEN "intr" ELSE result[t]>>
Replies == {Reply(t) : t \in {u \in Thread : msg[u] # NoMsg}}
Line == INSTANCE InOutLine WITH
  line <- queue, sent <- tried, closing <- abort, open <- post_end, answers <- Replies
KeepsOrder == Line!Spec

(* Threads run, a pending io completes once the io object is shut down,    *)
(* and then the output cycle cannot succeed for ever.                      *)
Fairness ==
  /\ \A t \in Thread : WF_vars(Chain(t))
  /\ SF_vars(shut /\ \E t \in Thread : InputDone(t))
  /\ WF_vars(shut /\ OutputDone) /\ WF_vars(LateInputEnd)
  /\ SF_vars(shut /\ OutputFails)
FairSpec == Spec /\ Fairness

(* An aborted session ends: its messages are answered, and the busy count  *)
(* reaches 0 for AClientSystem to close the client and open it again.      *)
AbortEnds == shut ~> busy = 0
=============================================================================
