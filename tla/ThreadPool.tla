----------------------------- MODULE ThreadPool -----------------------------
(***************************************************************************)
(* The thread pool of base/AOperator.cpp (Linux build): the timers, the    *)
(* pending list, the public list and the private lists of the operators,   *)
(* the loop of AThreadRun over epoll and eventfd, and the calls a program  *)
(* makes on them from its own threads and from the callbacks.              *)
(*                                                                         *)
(* One rb-tree node with the operators chained to it is the sequence       *)
(* waiting[k] of the operators due at tick k, the node's own first.  The   *)
(* mutex of the pool is held exactly while a thread is in "check"; every   *)
(* other critical section is one action.                                   *)
(***************************************************************************)
EXTENDS Integers, Sequences, SequencesExt

CONSTANTS
  Op,            \* the operators (AOperator)
  Thread, Pool,  \* the threads of the pool; Pool is the one that owns it
  Client,        \* threads of the program outside the pool
  Busy,          \* pool threads with sockets, and with callbacks that call
  TickCount,     \* the clock of GetTickCount counts modulo TickCount
  Start, End,    \* its first and its last tick; End = TickCount: no last one
  MaxTimewait,   \* AThread.max_timewait
  Timeouts,      \* the timeouts a caller of delay() may ask for
  Wakeups,       \* the values a caller gives to delay()'s wakeup
  Slack,         \* ticks the clock may run ahead of the threads
  MaxSignals,    \* posts are not made while this many wakeups are unread
  Stops          \* the threads the program may stop

Null == "null"       \* ao_thread of an operator no thread has claimed
NoWake == "none"     \* the caller owes no eventfd write
PublicWake == "all"  \* the caller is to write the public eventfd

ASSUME ThreadAssumption ==
  /\ Pool \in Thread
  /\ {Null, NoWake, PublicWake} \cap Thread = {}
  /\ Client \cap Thread = {} /\ Busy \subseteq Thread

ASSUME TickAssumption ==
  /\ TickCount \in Nat /\ TickCount >= 4
  /\ Start \in 0 .. TickCount - 1 /\ End \in Nat
  /\ MaxTimewait \in Nat /\ Timeouts \subseteq Nat \ {0}
  /\ Slack \in Nat /\ MaxSignals \in Nat /\ Stops \subseteq Thread

(* Signed differences of ticks are meant for waits of less than half the   *)
(* range of a DWORD: 24 days, with the lateness of a thread.               *)
ASSUME WindowAssumption ==
  \A d \in Timeouts \cup {MaxTimewait} : d + 2 + Slack < TickCount \div 2

Caller == Client \cup Thread
Tick == 0 .. TickCount - 1
INFINITE == TickCount - 1          \* -1u
TimerTick == Tick \ {0, INFINITE}  \* 0 is "not waiting"
EINTR == -4                        \* the result of done(-EINTR)
NoCall == <<>>                     \* not in a done()
NoDeadline == -1                   \* its max_timewait is <= 0: check next

VARIABLES
  now,        \* GetTickCount()
  ao_tick,    \* per operator
  ao_thread,  \* per operator: the thread that claimed it, or Null
  waiting,    \* pool->waiting_tree with the chains of its nodes
  pending,    \* pool->pending_list
  public,     \* pool->public_list
  private,    \* at->private_list, per thread
  batch,      \* timeout_list, then working_list, with the result to give
  pc,         \* where AThreadRun of each thread is
  calling,    \* the operator whose done() it is in, with the result
  deadline,   \* tick at which its max_timewait runs out
  running,    \* at->running
  events,     \* the eventfds its last epoll_wait reported
  sem,        \* count of the public eventfd (EFD_SEMAPHORE)
  pub_edge,   \* a write of it this thread's epoll has not reported yet
  prv_edge,   \* the same of the thread's private eventfd
  owe         \* the AThreadWakeup each caller still has to make

vars == <<now, ao_tick, ao_thread, waiting, pending, public, private, batch,
          calling, pc, deadline, running, events, sem, pub_edge, prv_edge, owe>>
timers == <<ao_tick, ao_thread, waiting, pending>>
signals == <<events, sem, pub_edge, prv_edge>>

TypeOK ==
  /\ now \in Tick
  /\ ao_tick \in [Op -> Tick]
  /\ ao_thread \in [Op -> Thread \cup {Null}]
  /\ waiting \in [TimerTick -> Seq(Op)]
  /\ pending \in Seq(Op) /\ public \in Seq(Op)
  /\ private \in [Thread -> Seq(Op)]
  /\ batch \in [Thread -> Seq(Op \X {0, 1})]
  /\ calling \in [Thread -> (Op \X {0, 1, EINTR}) \cup {NoCall}]
  /\ pc \in [Thread -> {"loop", "check", "batch", "call", "called", "sleep",
                        "read", "io", "ioed", "exit", "drain", "walk", "freed"}]
  /\ deadline \in [Thread -> Tick \cup {NoDeadline}]
  /\ running \in [Thread -> BOOLEAN]
  /\ events \in [Thread -> SUBSET {"private", "public"}]
  /\ sem \in Nat
  /\ pub_edge \in [Thread -> BOOLEAN] /\ prv_edge \in [Thread -> BOOLEAN]
  /\ owe \in [Caller -> Thread \cup {NoWake, PublicWake}]

Init ==
  /\ now = Start
  /\ ao_tick = [o \in Op |-> 0]
  /\ ao_thread = [o \in Op |-> Null]
  /\ waiting = [k \in TimerTick |-> <<>>]
  /\ pending = <<>> /\ public = <<>>
  /\ private = [t \in Thread |-> <<>>]
  /\ batch = [t \in Thread |-> <<>>]
  /\ calling = [t \in Thread |-> NoCall]
  /\ pc = [t \in Thread |-> "loop"]
  /\ deadline = [t \in Thread |-> NoDeadline]
  /\ running = [t \in Thread |-> TRUE]
  /\ events = [t \in Thread |-> {}]
  /\ sem = 0
  /\ pub_edge = [t \in Thread |-> FALSE]
  /\ prv_edge = [t \in Thread |-> FALSE]
  /\ owe = [x \in Caller |-> NoWake]

----------------------------------------------------------------------------
(* Ticks: AOperatorTimewaitCompare is the signed difference of two DWORDs, *)
(* and delay() steps over the two ticks that mean something else.          *)

Compare(a, k) ==
  LET d == (a - k) % TickCount
  IN  IF d < TickCount \div 2 THEN d ELSE d - TickCount

DueTick(timeout) ==
  LET tick == (now + timeout) % TickCount
  IN  IF tick \in {0, INFINITE} THEN (tick + 2) % TickCount ELSE tick

Keys == {k \in TimerTick : waiting[k] # <<>>}
IsFirst(k) == \A j \in Keys : Compare(k, j) <= 0    \* rb_first
Due(k) == Compare(now, k) >= -1

(* list_del_init of one operator.                                          *)
Unlink(s, o) == RemoveAt(s, CHOOSE i \in DOMAIN s : s[i] = o)

(* An operator is in no list and its done() is not about to be called.     *)
Operators(calls) == [i \in DOMAIN calls |-> calls[i][1]]
Batch(t) == ToSet(Operators(batch[t]))
Idle(o) ==
  /\ ao_tick[o] = 0
  /\ o \notin ToSet(public)
  /\ \A t \in Thread : o \notin ToSet(private[t]) \cup Batch(t)

MutexFree == \A t \in Thread : pc[t] # "check"

(* AThreadEnd has joined the thread: nobody may post to it any more.       *)
Joined(t) == pc[t] \in {"drain", "walk", "freed"}
Ended(t) == pc[t] = "exit" \/ Joined(t)

----------------------------------------------------------------------------
(* The calls of a program, from a client thread or from a done() callback. *)
(* Each takes the mutex once and makes its AThreadWakeup afterwards.       *)

MayCall(x) ==
  /\ owe[x] = NoWake
  /\ x \in Thread => x \in Busy /\ pc[x] \in {"call", "io"}
  /\ MutexFree
  /\ ~Joined(Pool)
  /\ sem < MaxSignals

CallMade(x, wake) ==
  /\ owe' = [owe EXCEPT ![x] = wake]
  /\ pc' = [t \in Thread |->
              IF t # x THEN pc[t]
              ELSE IF pc[t] = "call" THEN "called" ELSE "ioed"]
  /\ UNCHANGED <<now, batch, calling, deadline, running, signals>>

(* AOperatorPost(asop, at, INFINITE).                                      *)
PostPending(x, o) ==
  /\ MayCall(x) /\ Idle(o)
  /\ ao_thread' = [ao_thread EXCEPT ![o] = Null]
  /\ ao_tick' = [ao_tick EXCEPT ![o] = INFINITE]
  /\ pending' = Append(pending, o)
  /\ CallMade(x, NoWake)
  /\ UNCHANGED <<waiting, public, private>>

(* delay(at, timeout, wakeup): the tick keys the rb-tree; only a new first *)
(* node wakes the pool.                                                    *)
NewFirstOnly(k) == waiting[k] = <<>> /\ Keys = {}  \* mutant: an earlier one too
NewFirst(k) == waiting[k] = <<>> /\ IsFirst(k)

PostTimer(x, o, timeout, wakeup) ==
  LET k == DueTick(timeout) IN
  /\ MayCall(x) /\ Idle(o)
  /\ ao_thread' = [ao_thread EXCEPT ![o] = Null]
  /\ ao_tick' = [ao_tick EXCEPT ![o] = k]
  /\ waiting' = [waiting EXCEPT ![k] = Append(@, o)]
  /\ CallMade(x, IF NewFirst(k) /\ wakeup THEN PublicWake ELSE NoWake)
  /\ UNCHANGED <<pending, public, private>>

(* The tail AThreadPost and AOperatorSignal share: a private list is woken *)
(* only when it was empty, the public one always.                          *)
QuietQueue(x, o, at) ==   \* mutant: the private wakeup is forgotten
  IF ao_thread[o] = at
  THEN /\ private' = [private EXCEPT ![at] = Append(@, o)]
       /\ CallMade(x, NoWake)
       /\ UNCHANGED public
  ELSE /\ public' = Append(public, o)
       /\ CallMade(x, PublicWake)
       /\ UNCHANGED private

Queue(x, o, at) ==
  IF ao_thread[o] = at
  THEN /\ private' = [private EXCEPT ![at] = Append(@, o)]
       /\ CallMade(x, IF private[at] = <<>> THEN at ELSE NoWake)
       /\ UNCHANGED public
  ELSE /\ public' = Append(public, o)
       /\ CallMade(x, PublicWake)
       /\ UNCHANGED private

(* AThreadPost(at, asop).                                                  *)
ThreadPost(x, o, at) ==
  /\ MayCall(x) /\ Idle(o)
  /\ ~Joined(at)
  /\ Queue(x, o, at)
  /\ UNCHANGED timers

(* AOperatorPost(asop, at, 0): always public, ao_thread is reset first.    *)
PostNow(x, o) ==
  /\ MayCall(x) /\ Idle(o)
  /\ ao_thread' = [ao_thread EXCEPT ![o] = Null]
  /\ public' = Append(public, o)
  /\ CallMade(x, PublicWake)
  /\ UNCHANGED <<ao_tick, waiting, pending, private>>

(* The first half of AOperatorSignal takes the operator out of the tree or *)
(* of the pending list; a first follower takes over its chain.  With       *)
(* ao_tick = 0 the call returns -1 and changes nothing.                    *)
Unwait(o) ==
  /\ ao_tick[o] # 0
  /\ ao_tick' = [ao_tick EXCEPT ![o] = 0]
  /\ IF ao_tick[o] = INFINITE
     THEN pending' = Unlink(pending, o) /\ UNCHANGED waiting
     ELSE /\ waiting' = [waiting EXCEPT ![ao_tick[o]] = Unlink(@, o)]
          /\ UNCHANGED pending
  /\ UNCHANGED ao_thread

(* AOperatorSignal(asop, at, TRUE) returns 0: done(1) will be called.      *)
SignalWakeup(x, o, at) ==
  /\ MayCall(x)
  /\ ~Joined(at)
  /\ Unwait(o)
  /\ Queue(x, o, at)

(* AOperatorSignal(asop, at, FALSE) returns 1: done() will not be called.  *)
SignalCancel(x, o) ==
  /\ MayCall(x)
  /\ Unwait(o)
  /\ CallMade(x, NoWake)
  /\ UNCHANGED <<public, private>>

(* AThreadWakeup: one write wakes the epoll of every thread that watches   *)
(* the eventfd - all of them the public one.                               *)
Wakeup(x) ==
  /\ owe[x] # NoWake
  /\ owe' = [owe EXCEPT ![x] = NoWake]
  /\ IF owe[x] = PublicWake
     THEN /\ sem' = sem + 1
          /\ pub_edge' = [t \in Thread |-> TRUE]
          /\ UNCHANGED prv_edge
     ELSE /\ prv_edge' = [prv_edge EXCEPT ![owe[x]] = TRUE]
          /\ UNCHANGED <<sem, pub_edge>>
  /\ UNCHANGED <<now, timers, public, private, batch, calling, pc, deadline, running,
                 events>>

----------------------------------------------------------------------------
(* AThreadRun: one pass of the loop checks the lists if the local          *)
(* max_timewait has run out, and then waits in epoll.                      *)

BeginCheck(t) ==
  /\ pc[t] = "loop" /\ running[t] /\ deadline[t] = NoDeadline
  /\ MutexFree
  /\ pc' = [pc EXCEPT ![t] = "check"]
  /\ UNCHANGED <<now, timers, public, private, batch, calling, deadline, running,
                 signals, owe>>

(* An expired first node is moved with its chain, the chain ahead of it.   *)
ExpireHead(t) ==   \* mutant: the chain of an expired node is left behind
  /\ pc[t] = "check"
  /\ \E k \in Keys :
       /\ IsFirst(k) /\ Due(k)
       /\ waiting' = [waiting EXCEPT ![k] = <<>>]
       /\ ao_tick' = [ao_tick EXCEPT ![Head(waiting[k])] = 0]
       /\ batch' = [batch EXCEPT ![t] = Append(@, <<Head(waiting[k]), 0>>)]
  /\ UNCHANGED <<now, ao_thread, pending, public, private, calling, pc, deadline,
                 running, signals, owe>>

SameResults(s, result) ==   \* mutant: every operator is told 0
  [i \in DOMAIN s |-> <<s[i], 0>>]
Results(s, result) == [i \in DOMAIN s |-> <<s[i], result>>]

Expire(t) ==
  /\ pc[t] = "check"
  /\ \E k \in Keys :
       /\ IsFirst(k) /\ Due(k)
       /\ waiting' = [waiting EXCEPT ![k] = <<>>]
       /\ ao_tick' = [o \in Op |->
                        IF o \in ToSet(waiting[k]) THEN 0 ELSE ao_tick[o]]
       /\ batch' = [batch EXCEPT ![t] = @ \o
                      Results(Append(Tail(waiting[k]), Head(waiting[k])), 0)]
  /\ UNCHANGED <<now, ao_thread, pending, public, private, calling, pc, deadline,
                 running, signals, owe>>

(* The first node no other thread has claimed is claimed and bounds the    *)
(* wait; the nodes before it are left to the threads that claimed them.    *)
Claimable(t, k) == k \in Keys /\ ao_thread[Head(waiting[k])] \in {Null, t}
Claims(t, k) ==
  /\ Claimable(t, k)
  /\ \A j \in Keys : Claimable(t, j) => Compare(k, j) <= 0

ClaimWithoutWait(t) ==   \* mutant: the claimed node does not bound the wait
  /\ deadline' = [deadline EXCEPT ![t] = (now + MaxTimewait) % TickCount]
  /\ IF \E k \in Keys : Claimable(t, k)
     THEN \E k \in Keys :
            /\ Claims(t, k)
            /\ ao_thread' = [ao_thread EXCEPT ![Head(waiting[k])] = t]
     ELSE UNCHANGED ao_thread

ClaimNext(t) ==
  IF \E k \in Keys : Claimable(t, k)
  THEN \E k \in Keys :
         /\ Claims(t, k)
         /\ ao_thread' = [ao_thread EXCEPT ![Head(waiting[k])] = t]
         /\ deadline' = [deadline EXCEPT ![t] =
              (now + (IF -Compare(now, k) < MaxTimewait
                      THEN -Compare(now, k) ELSE MaxTimewait)) % TickCount]
  ELSE /\ deadline' = [deadline EXCEPT ![t] = (now + MaxTimewait) % TickCount]
       /\ UNCHANGED ao_thread

(* With every expired node moved, the thread takes one public operator and *)
(* all its private ones, and unlocks.                                      *)
EndCheck(t) ==
  LET some == IF public = <<>> THEN <<>> ELSE <<Head(public)>> IN
  /\ pc[t] = "check"
  /\ \A k \in Keys : ~Due(k)
  /\ ClaimNext(t)
  /\ public' = IF public = <<>> THEN public ELSE Tail(public)
  /\ private' = [private EXCEPT ![t] = <<>>]
  /\ batch' = [batch EXCEPT ![t] = @ \o Results(some \o private[t], 1)]
  /\ pc' = [pc EXCEPT ![t] = "batch"]
  /\ UNCHANGED <<now, ao_tick, waiting, pending, calling, running, signals, owe>>

(* done2(0) of a fired operator or done2(1) of a posted one.               *)
CallNext(t) ==
  /\ pc[t] = "batch" /\ batch[t] # <<>>
  /\ batch' = [batch EXCEPT ![t] = Tail(@)]
  /\ calling' = [calling EXCEPT ![t] = Head(batch[t])]
  /\ pc' = [pc EXCEPT ![t] = "call"]
  /\ UNCHANGED <<now, timers, public, private, deadline, running, signals,
                 owe>>

Return(t) ==
  /\ owe[t] = NoWake
  /\ calling' = [calling EXCEPT ![t] = NoCall]
  /\ \/ pc[t] \in {"call", "called"} /\ pc' = [pc EXCEPT ![t] = "batch"]
     \/ /\ pc[t] \in {"io", "ioed"}
        /\ pc' = [pc EXCEPT ![t] = IF events[t] = {} THEN "loop" ELSE "read"]
  /\ UNCHANGED <<now, timers, public, private, batch, deadline, running,
                 signals, owe>>

(* After a check the time since the previous pass - the last sleep         *)
(* included - is taken off the wait it computed: the thread waits until    *)
(* some tick no later than that deadline, only polls epoll, or checks the  *)
(* lists once more.                                                        *)
WaitAfterCheck(t) ==
  /\ pc[t] = "batch" /\ batch[t] = <<>>
  /\ \/ /\ pc' = [pc EXCEPT ![t] = "loop"]
        /\ deadline' = [deadline EXCEPT ![t] = NoDeadline]
     \/ /\ Compare(deadline[t], now) >= 0
        /\ pc' = [pc EXCEPT ![t] = "sleep"]
        /\ deadline' = [deadline EXCEPT ![t] = NoDeadline]
     \/ \E left \in 1 .. Compare(deadline[t], now) :
          /\ pc' = [pc EXCEPT ![t] = "sleep"]
          /\ deadline' = [deadline EXCEPT ![t] = (now + left) % TickCount]
  /\ UNCHANGED <<now, timers, public, private, batch, calling, running, signals,
                 owe>>

(* A pass without a check: what is left of the wait, if anything is.       *)
WaitAgain(t) ==
  LET left == Compare(deadline[t], now) IN
  /\ pc[t] = "loop" /\ running[t] /\ deadline[t] # NoDeadline
  /\ pc' = [pc EXCEPT ![t] = IF left < 0 THEN "loop" ELSE "sleep"]
  /\ deadline' = [deadline EXCEPT ![t] = IF left > 0 THEN @ ELSE NoDeadline]
  /\ UNCHANGED <<now, timers, public, private, batch, calling, running, signals,
                 owe>>

(* epoll_wait reports the eventfds with a new edge that can still be read,  *)
(* or times out, or reports a socket, whose operator's done() is called.   *)
Reported(t) == (IF prv_edge[t] THEN {"private"} ELSE {}) \cup
               (IF pub_edge[t] THEN {"public"} ELSE {})

WakeBySignal(t) ==
  /\ pc[t] = "sleep" /\ Reported(t) # {}
  /\ pc' = [pc EXCEPT ![t] = "read"]
  /\ events' = [events EXCEPT ![t] = Reported(t)]
  /\ pub_edge' = [pub_edge EXCEPT ![t] = FALSE]
  /\ UNCHANGED <<now, timers, public, private, batch, calling, deadline, running,
                 sem, prv_edge, owe>>

(* read() clears a private counter, with what was added since epoll_wait,  *)
(* and takes one from the public one, unless another thread emptied it.    *)
(* No epoll reports an edge of the emptied eventfd before the next write.  *)
BlindRead(t) ==   \* mutant: takes one from a counter another thread emptied
  /\ pc[t] = "read"
  /\ pc' = [pc EXCEPT ![t] = "loop"]
  /\ deadline' = [deadline EXCEPT ![t] = NoDeadline]
  /\ events' = [events EXCEPT ![t] = {}]
  /\ prv_edge' = [prv_edge EXCEPT ![t] = @ /\ "private" \notin events[t]]
  /\ sem' = IF "public" \in events[t] THEN sem - 1 ELSE sem
  /\ pub_edge' = [u \in Thread |-> pub_edge[u] /\ sem' > 0]
  /\ UNCHANGED <<now, timers, public, private, batch, calling, running, owe>>

ReadSignal(t) ==
  /\ pc[t] = "read"
  /\ pc' = [pc EXCEPT ![t] = "loop"]
  /\ deadline' = [deadline EXCEPT ![t] = NoDeadline]
  /\ events' = [events EXCEPT ![t] = {}]
  /\ prv_edge' = [prv_edge EXCEPT ![t] = @ /\ "private" \notin events[t]]
  /\ sem' = IF "public" \in events[t] /\ sem > 0 THEN sem - 1 ELSE sem
  /\ pub_edge' = [u \in Thread |-> pub_edge[u] /\ sem' > 0]
  /\ UNCHANGED <<now, timers, public, private, batch, calling, running, owe>>

PollForever(t) ==   \* mutant: a wait of 0 has no timeout
  /\ pc[t] = "sleep"
  /\ deadline[t] # NoDeadline /\ Compare(now, deadline[t]) >= 0
  /\ pc' = [pc EXCEPT ![t] = "loop"]
  /\ UNCHANGED <<now, timers, public, private, batch, calling, deadline, running,
                 signals, owe>>

WakeByTimeout(t) ==
  /\ pc[t] = "sleep"
  /\ deadline[t] = NoDeadline \/ Compare(now, deadline[t]) >= 0
  /\ pc' = [pc EXCEPT ![t] = "loop"]
  /\ UNCHANGED <<now, timers, public, private, batch, calling, deadline, running,
                 signals, owe>>

(* The socket is called first, then the eventfds reported with it are read.*)
WakeByIo(t) ==
  /\ t \in Busy /\ pc[t] = "sleep"
  /\ pc' = [pc EXCEPT ![t] = "io"]
  /\ events' = [events EXCEPT ![t] = Reported(t)]
  /\ pub_edge' = [pub_edge EXCEPT ![t] = FALSE]
  /\ UNCHANGED <<now, timers, public, private, batch, calling, deadline, running,
                 sem, prv_edge, owe>>

Exit(t) ==
  /\ pc[t] = "loop" /\ ~running[t]
  /\ pc' = [pc EXCEPT ![t] = "exit"]
  /\ UNCHANGED <<now, timers, public, private, batch, calling, deadline, running,
                 signals, owe>>

----------------------------------------------------------------------------
(* Shutdown: every thread is told to stop, then each is joined and its     *)
(* lists are drained with done(-EINTR), the pool's own thread last.        *)

AllEnded(S) == \A t \in S : pc[t] = "freed"

(* AThreadAbort(at): at->running = 0, then a private wakeup.               *)
AbortQuietly(x, t) ==   \* mutant: wakes, as a post does, an empty list only
  /\ t \in Stops
  /\ x \in Client /\ owe[x] = NoWake /\ running[t]
  /\ running' = [running EXCEPT ![t] = FALSE]
  /\ owe' = [owe EXCEPT ![x] = IF private[t] = <<>> THEN t ELSE NoWake]
  /\ UNCHANGED <<now, timers, public, private, batch, calling, pc, deadline, signals>>

ThreadAbort(x, t) ==
  /\ t \in Stops
  /\ x \in Client /\ owe[x] = NoWake /\ running[t]
  /\ running' = [running EXCEPT ![t] = FALSE]
  /\ owe' = [owe EXCEPT ![x] = t]
  /\ UNCHANGED <<now, timers, public, private, batch, calling, pc, deadline, signals>>

(* AThreadEnd(at) joins the thread when no call that could use it is under *)
(* way: of a worker its own wakeups, of the pool's own thread any call.    *)
Join(t) ==
  /\ pc[t] = "exit"
  /\ \A x \in Caller : owe[x] # t
  /\ t = Pool => AllEnded(Thread \ {Pool}) /\ \A x \in Caller : owe[x] = NoWake
  /\ pc' = [pc EXCEPT ![t] = "drain"]
  /\ UNCHANGED <<now, timers, public, private, batch, calling, deadline, running,
                 signals, owe>>

(* The lists are emptied one operator at a time, each told -EINTR.  No     *)
(* ao_tick is reset: the pool takes no call any more.                      *)
Told(t, o) == calling[t] = NoCall /\ calling' = [calling EXCEPT ![t] = <<o, EINTR>>]

DrainReturn(t) ==
  /\ pc[t] \in {"drain", "walk"} /\ calling[t] # NoCall
  /\ calling' = [calling EXCEPT ![t] = NoCall]
  /\ UNCHANGED <<now, timers, public, private, batch, pc, deadline, running, signals,
                 owe>>

DrainPrivate(t) ==
  /\ pc[t] = "drain" /\ private[t] # <<>>
  /\ Told(t, Head(private[t]))
  /\ private' = [private EXCEPT ![t] = Tail(@)]
  /\ UNCHANGED <<now, timers, public, batch, pc, deadline, running, signals, owe>>

(* A thread that shares another one's pool is free()d here; the pool's own *)
(* splices its public list ahead of the pending one.                       *)
Drained(t) == pc[t] = "drain" /\ private[t] = <<>> /\ calling[t] = NoCall

WorkerFreed(t) ==
  /\ t # Pool /\ Drained(t)
  /\ pc' = [pc EXCEPT ![t] = "freed"]
  /\ UNCHANGED <<now, timers, public, private, batch, calling, deadline, running,
                 signals, owe>>

ForgetPublic(t) ==   \* mutant: the public list is not spliced to pending
  /\ t = Pool /\ Drained(t)
  /\ pc' = [pc EXCEPT ![t] = "walk"]
  /\ UNCHANGED <<now, timers, public, private, batch, calling, deadline, running,
                 signals, owe>>

SplicePublic(t) ==
  /\ t = Pool /\ Drained(t)
  /\ pending' = public \o pending /\ public' = <<>>
  /\ pc' = [pc EXCEPT ![t] = "walk"]
  /\ UNCHANGED <<now, ao_tick, ao_thread, waiting, private, batch, calling, deadline,
                 running, signals, owe>>

(* The tree from rb_first on: the chain of a node goes before the node,    *)
(* which is erased with it.                                                *)
DropChain(t) ==   \* mutant: a node is erased with its chain still linked
  /\ pc[t] = "walk"
  /\ \E k \in Keys :
       /\ IsFirst(k)
       /\ Told(t, Head(waiting[k]))
       /\ waiting' = [waiting EXCEPT ![k] = <<>>]
  /\ UNCHANGED <<now, ao_tick, ao_thread, pending, public, private, batch, pc, deadline,
                 running, signals, owe>>

NextOf(s) == IF Len(s) > 1 THEN s[2] ELSE s[1]
DrainTree(t) ==
  /\ pc[t] = "walk"
  /\ \E k \in Keys :
       /\ IsFirst(k)
       /\ Told(t, NextOf(waiting[k]))
       /\ waiting' = [waiting EXCEPT ![k] = Unlink(@, NextOf(@))]
  /\ UNCHANGED <<now, ao_tick, ao_thread, pending, public, private, batch, pc, deadline,
                 running, signals, owe>>

DrainPending(t) ==
  /\ pc[t] = "walk" /\ Keys = {} /\ pending # <<>>
  /\ Told(t, Head(pending))
  /\ pending' = Tail(pending)
  /\ UNCHANGED <<now, ao_tick, ao_thread, waiting, public, private, batch, pc, deadline,
                 running, signals, owe>>

PoolFreed(t) ==
  /\ pc[t] = "walk" /\ Keys = {} /\ pending = <<>> /\ calling[t] = NoCall
  /\ pc' = [pc EXCEPT ![t] = "freed"]
  /\ UNCHANGED <<now, timers, public, private, batch, calling, deadline, running,
                 signals, owe>>

(* The pool is gone; the program goes on without it.                       *)
Stopped == AllEnded(Thread) /\ UNCHANGED vars

----------------------------------------------------------------------------
(* The clock.  The comparison of ticks means something only while no timer *)
(* and no sleep is left behind by half the range of a DWORD, 24 days: the  *)
(* clock waits here after Slack ticks.  It is not read under the mutex.    *)

ClockTick ==
  /\ MutexFree /\ ~Joined(Pool) /\ now # End
  /\ \A k \in Keys : Compare(now, k) < Slack
  /\ \A t \in Thread : deadline[t] # NoDeadline => Compare(now, deadline[t]) < Slack
  /\ now' = (now + 1) % TickCount
  /\ UNCHANGED <<timers, public, private, batch, calling, pc, deadline, running,
                 signals, owe>>

Call(x) ==
  \E o \in Op :
    \/ PostPending(x, o) \/ PostNow(x, o) \/ SignalCancel(x, o)
    \/ \E d \in Timeouts, w \in Wakeups : PostTimer(x, o, d, w)
    \/ \E at \in Thread : ThreadPost(x, o, at) \/ SignalWakeup(x, o, at)

Run(t) ==
  \/ BeginCheck(t) \/ Expire(t) \/ EndCheck(t) \/ CallNext(t) \/ Return(t)
  \/ WaitAfterCheck(t) \/ WaitAgain(t) \/ WakeBySignal(t) \/ ReadSignal(t)
  \/ WakeByTimeout(t) \/ Exit(t)

ThreadEnd(t) ==
  \/ Join(t) \/ DrainReturn(t) \/ DrainPrivate(t) \/ WorkerFreed(t)
  \/ SplicePublic(t) \/ DrainTree(t) \/ DrainPending(t) \/ PoolFreed(t)

Next ==
  \/ \E x \in Caller : Call(x) \/ Wakeup(x)
  \/ \E t \in Thread : Run(t) \/ WakeByIo(t) \/ ThreadEnd(t)
  \/ \E x \in Client, t \in Thread : ThreadAbort(x, t)
  \/ ClockTick
  \/ Stopped

Spec == Init /\ [][Next]_vars

----------------------------------------------------------------------------
(* Properties.                                                             *)

(* Exactly once: an operator is in at most one list, once, and is due at a *)
(* tick exactly while it is in the tree or the pending list.  A second     *)
(* place would call done() twice or corrupt the intrusive links; no place  *)
(* with ao_tick set would be a timer AOperatorSignal cannot find.  While   *)
(* the pool is drained the lists shrink, and no operator enters one again. *)
DueIsListed ==
  /\ \A k \in TimerTick : ToSet(waiting[k]) = {o \in Op : ao_tick[o] = k}
  /\ ToSet(pending) = {o \in Op : ao_tick[o] = INFINITE}
ListedIsDue ==
  /\ \A k \in TimerTick : ToSet(waiting[k]) \subseteq {o \in Op : ao_tick[o] = k}
  /\ ToSet(pending) \subseteq {o \in Op :
       ao_tick[o] = INFINITE \/ (ao_tick[o] = 0 /\ pc[Pool] # "drain")}
WaitsWhereDue == IF Joined(Pool) THEN ListedIsDue ELSE DueIsListed
ReadyIsNotDue ==
  /\ \A o \in ToSet(public) : ao_tick[o] = 0
  /\ \A t \in Thread : \A o \in ToSet(private[t]) \cup Batch(t) : ao_tick[o] = 0
NoRepeats ==
  /\ \A k \in TimerTick : IsInjective(waiting[k])
  /\ IsInjective(pending) /\ IsInjective(public)
  /\ \A t \in Thread : IsInjective(private[t]) /\ IsInjective(Operators(batch[t]))
Apart ==
  \A t \in Thread :
    /\ ToSet(public) \cap (ToSet(private[t]) \cup Batch(t)) = {}
    /\ \A u \in Thread : ToSet(private[t]) \cap Batch(u) = {}
    /\ \A u \in Thread \ {t} :
         /\ ToSet(private[t]) \cap ToSet(private[u]) = {}
         /\ Batch(t) \cap Batch(u) = {}
OnePlace == WaitsWhereDue /\ ReadyIsNotDue /\ NoRepeats /\ Apart

(* A thread that is sure to check the lists before it waits again.         *)
WillCheck(t) ==
  \/ pc[t] \in {"check", "read"} \/ events[t] # {}
  \/ ~Ended(t) /\ deadline[t] = NoDeadline
  \/ prv_edge[t] \/ pub_edge[t]

(* A private list is woken only when it was empty: an operator in it is    *)
(* never left to the thread's timeout, whatever the order of the posts,    *)
(* the eventfd writes and the thread's own passes.                         *)
PrivateIsServed ==
  \A t \in Thread :
    private[t] # <<>> /\ ~Ended(t) =>
      WillCheck(t) \/ \E x \in Caller : owe[x] = t

(* No thread sleeps through its stop: one that was told to stop and is in  *)
(* epoll_wait has its eventfd to be woken by, or is owed the write of      *)
(* AThreadAbort - which no read of the eventfd takes too early, although   *)
(* running is read and written without the mutex.                          *)
StopIsServed ==
  \A t \in Thread :
    pc[t] = "sleep" /\ ~running[t] => prv_edge[t] \/ \E x \in Caller : owe[x] = t

(* A thread that looks at the lists no later than tick k.                  *)
Watches(t, k) ==
  \/ WillCheck(t)
  \/ deadline[t] # NoDeadline /\ Compare(deadline[t], k) <= 0

(* No timer is overslept: while the pool is not being stopped and every    *)
(* timer is posted with wakeup, some thread looks at the tree by the time  *)
(* the first timer is due, or a wakeup for it is on its way - although     *)
(* each claimed timer is watched by one thread only, and the claims and    *)
(* the first node change under the sleeping threads.                       *)
NoOversleep ==
  (\A t \in Thread : running[t]) =>
    \A k \in Keys : IsFirst(k) =>
      \/ \E t \in Thread : Watches(t, k)
      \/ \E x \in Caller : owe[x] = PublicWake

(* A claim is kept: the thread that claimed a node looks at the tree by    *)
(* its tick, so the other threads may skip it.                             *)
ClaimIsWatched ==
  \A k \in Keys :
    LET t == ao_thread[Head(waiting[k])]
    IN  t # Null /\ running[t] => Watches(t, k)

(* Nothing is left behind at shutdown: when the pool is gone no operator   *)
(* is in any of the lists AThreadEnd walked, the workers' included, nor    *)
(* did a thread exit with a call still to make.                            *)
Timed(o) == o \in ToSet(pending) \/ \E k \in TimerTick : o \in ToSet(waiting[k])
Queued(o) ==
  o \in ToSet(public) \/ \E t \in Thread : o \in ToSet(private[t]) \cup Batch(t)
DrainedAtEnd == pc[Pool] = "freed" => \A o \in Op : ~Timed(o) /\ ~Queued(o)

(* The pool keeps the promise of OperatorLife: a posting is called once,   *)
(* with 0 only if it expired, 1 only if it was posted or signalled and     *)
(* -EINTR only if its pool stopped, or it is cancelled while it still      *)
(* waits and is never called.                                              *)
Waits(o) == ao_tick[o] # 0 /\ (Joined(Pool) => Timed(o))
Standing(o) ==
  IF Waits(o) THEN "waiting"
  ELSE IF \E t \in Thread : \E i \in DOMAIN batch[t] : batch[t][i] = <<o, 0>>
       THEN "fired"
  ELSE IF Queued(o) \/ (Joined(Pool) /\ Timed(o)) THEN "ready" ELSE "idle"
Life == INSTANCE OperatorLife WITH
  st <- [o \in Op |-> Standing(o)],
  calls <- {calling[t] : t \in Thread} \ {NoCall}
KeepsPromise == Life!Spec

----------------------------------------------------------------------------
(* Every thread runs, callbacks return, a started call makes its wakeup,   *)
(* the clock advances and AThreadEnd joins what has exited.  Nothing obliges *)
(* the program to call, nor a socket to become ready.                      *)
Fairness ==
  /\ \A t \in Thread : WF_vars(Run(t)) /\ SF_vars(BeginCheck(t))
  /\ \A t \in Thread : WF_vars(ThreadEnd(t))
  /\ \A x \in Caller : WF_vars(Wakeup(x))
  /\ SF_vars(ClockTick)
FairSpec == Spec /\ Fairness

(* Every posting that waits for a tick or is in a list is called or taken  *)
(* back in the end, although one wakeup may stand for several posts: the   *)
(* timeouts of the threads see to what the eventfds did not.  What a pool  *)
(* that is being stopped leaves is for DrainedAtEnd.                       *)
EachIsCalled ==
  \A o \in Op :
    (~Idle(o) /\ ao_tick[o] # INFINITE) ~>
      (Idle(o) \/ ao_tick[o] = INFINITE \/ \E t \in Thread : ~running[t])
=============================================================================
