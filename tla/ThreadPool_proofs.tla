-------------------------- MODULE ThreadPool_proofs --------------------------
(***************************************************************************)
(* The thread pool keeps every operator in at most one list, once, and in  *)
(* the lists its tick names - whatever the number of operators, threads,   *)
(* clients and ticks.  The inductive invariant is TypeOK /\ OnePlace: the  *)
(* type of a list after AOperatorSignal depends on the operator being in   *)
(* it, which is what OnePlace says.                                        *)
(* Further on: what AThreadEnd leaves behind, that a private list is       *)
(* served, and - with the ticks in a window around the clock - that a      *)
(* claimed timer and the first timer are looked at in time.                *)
(***************************************************************************)
EXTENDS ThreadPool, SeqFacts

(* TypeOK in two parts: the lists of the operators, and the rest.          *)
ListsOK ==
  /\ ao_tick \in [Op -> Tick]
  /\ waiting \in [TimerTick -> Seq(Op)]
  /\ pending \in Seq(Op) /\ public \in Seq(Op)
  /\ private \in [Thread -> Seq(Op)]
  /\ batch \in [Thread -> Seq(Op \X {0, 1})]
ControlOK ==
  /\ now \in Tick
  /\ ao_thread \in [Op -> Thread \cup {Null}]
  /\ calling \in [Thread -> (Op \X {0, 1, EINTR}) \cup {NoCall}]
  /\ pc \in [Thread -> {"loop", "check", "batch", "call", "called", "sleep",
                        "read", "io", "ioed", "exit", "drain", "walk", "freed"}]
  /\ deadline \in [Thread -> Tick \cup {NoDeadline}]
  /\ running \in [Thread -> BOOLEAN]
  /\ events \in [Thread -> SUBSET {"private", "public"}]
  /\ sem \in Nat
  /\ pub_edge \in [Thread -> BOOLEAN] /\ prv_edge \in [Thread -> BOOLEAN]
  /\ owe \in [Caller -> Thread \cup {NoWake, PublicWake}]

(* The two parts of TypeOK are the whole of it, before and after a step.   *)
LEMMA TypeParts == /\ TypeOK <=> ListsOK /\ ControlOK
                   /\ TypeOK' <=> ListsOK' /\ ControlOK'
  BY DEF TypeOK, ListsOK, ControlOK

(* The arithmetic of ticks: the remainder of any integer is a tick, and    *)
(* delay() never names one of the two ticks that mean something else.      *)
LEMMA TickFacts ==
  /\ 0 \in Tick /\ INFINITE \in Tick /\ 0 # INFINITE
  /\ \A k \in TimerTick : k \in Tick /\ k # 0 /\ k # INFINITE
  /\ \A k \in Tick : k \in Int
  /\ \A n \in Int : n % TickCount \in Tick
  BY TickAssumption DEF Tick, TimerTick, INFINITE

(* delay() yields the tick of a timer.                                     *)
LEMMA DueTickFact ==
  ASSUME now \in Tick, NEW timeout \in Timeouts
  PROVE  DueTick(timeout) \in TimerTick
<1> DEFINE tick == (now + timeout) % TickCount
<1>1. tick \in Tick
  <2>1. now + timeout \in Int
    BY TickAssumption, TickFacts
  <2> QED BY <2>1, TickFacts
<1>2. (INFINITE + 2) % TickCount = 1 /\ (0 + 2) % TickCount = 2
  BY TickAssumption DEF INFINITE
<1>3. {1, 2} \subseteq TimerTick
  BY TickAssumption DEF TimerTick, Tick, INFINITE
<1> HIDE DEF tick
<1>4. IF tick \in {0, INFINITE} THEN (tick + 2) % TickCount \in TimerTick
                                ELSE tick \in TimerTick
  BY <1>1, <1>2, <1>3 DEF TimerTick
<1> QED BY <1>4 DEF DueTick, tick

(* The signed difference of two ticks is an integer.                       *)
LEMMA CompareFact == \A a, k \in Int : Compare(a, k) \in Int
<1>1. \A a, k \in Int : (a - k) % TickCount \in Int
  BY TickFacts
<1> QED BY <1>1, TickAssumption DEF Compare

----------------------------------------------------------------------------
(* The names in a batch.                                                   *)

(* The batch of a thread names operators; adding and taking results adds   *)
(* and takes their operators.                                              *)
LEMMA OperatorsFacts ==
  /\ \A b \in Seq(Op \X {0, 1}) : Operators(b) \in Seq(Op)
  /\ \A b \in Seq(Op \X {0, 1}) : b # <<>> =>
       /\ Operators(b) # <<>> /\ Operators(Tail(b)) = Tail(Operators(b))
       /\ Tail(b) \in Seq(Op \X {0, 1}) /\ Head(b) \in Op \X {0, 1}
  /\ \A b, c \in Seq(Op \X {0, 1}) : Operators(b \o c) = Operators(b) \o Operators(c)
  /\ \A s \in Seq(Op), r \in {0, 1} :
       Results(s, r) \in Seq(Op \X {0, 1}) /\ Operators(Results(s, r)) = s
<1>1. ASSUME NEW b \in Seq(Op \X {0, 1})
      PROVE  /\ Operators(b) \in Seq(Op) /\ Len(Operators(b)) = Len(b)
             /\ \A i \in 1 .. Len(b) : Operators(b)[i] = b[i][1]
  <2>1. \A i \in 1 .. Len(b) : b[i] \in Op \X {0, 1} /\ b[i][1] \in Op
    OBVIOUS
  <2>2. Operators(b) = [i \in 1 .. Len(b) |-> b[i][1]] /\ Len(b) \in Nat
    BY DEF Operators
  <2> QED BY <2>1, <2>2
<1>2. ASSUME NEW b \in Seq(Op \X {0, 1}), b # <<>>
      PROVE  /\ Operators(b) # <<>> /\ Operators(Tail(b)) = Tail(Operators(b))
             /\ Tail(b) \in Seq(Op \X {0, 1}) /\ Head(b) \in Op \X {0, 1}
  <2>1. /\ Tail(b) \in Seq(Op \X {0, 1}) /\ Head(b) \in Op \X {0, 1}
        /\ Len(Tail(b)) = Len(b) - 1 /\ Len(b) \in Nat \ {0}
        /\ \A i \in 1 .. Len(b) - 1 : Tail(b)[i] = b[i + 1]
    BY <1>2
  <2> DEFINE s == Operators(b)
             r == Operators(Tail(b))
  <2>2. s \in Seq(Op) /\ Len(s) = Len(b) /\ \A i \in 1 .. Len(b) : s[i] = b[i][1]
    BY <1>1
  <2>3. /\ r \in Seq(Op) /\ Len(r) = Len(b) - 1
        /\ \A i \in 1 .. Len(b) - 1 : r[i] = b[i + 1][1]
    <3>1. /\ r \in Seq(Op) /\ Len(r) = Len(Tail(b))
          /\ \A i \in 1 .. Len(Tail(b)) : r[i] = Tail(b)[i][1]
      BY <1>1, <2>1
    <3> QED BY <2>1, <3>1
  <2> HIDE DEF s, r
  <2>4. s # <<>> /\ Tail(s) \in Seq(Op) /\ Len(Tail(s)) = Len(b) - 1
        /\ \A i \in 1 .. Len(b) - 1 : Tail(s)[i] = s[i + 1]
    BY <2>1, <2>2
  <2>5. \A i \in 1 .. Len(b) - 1 : Tail(s)[i] = r[i]
    BY <2>1, <2>2, <2>3, <2>4
  <2>6. r = Tail(s)
    <3>1. Len(Tail(s)) = Len(r) /\ \A i \in 1 .. Len(Tail(s)) : Tail(s)[i] = r[i]
      BY <2>3, <2>4, <2>5
    <3>2. r \in Seq(Op) /\ Tail(s) \in Seq(Op)
      BY <2>3, <2>4
    <3> QED BY <3>1, <3>2, SeqEqual
  <2> QED BY <2>1, <2>4, <2>6 DEF s, r
<1>3. ASSUME NEW b \in Seq(Op \X {0, 1}), NEW c \in Seq(Op \X {0, 1})
      PROVE  Operators(b \o c) = Operators(b) \o Operators(c)
  <2> DEFINE s == Operators(b \o c)
             r == Operators(b) \o Operators(c)
  <2>1. /\ b \o c \in Seq(Op \X {0, 1}) /\ Len(b \o c) = Len(b) + Len(c)
        /\ \A i \in 1 .. Len(b) + Len(c) :
             (b \o c)[i] = IF i <= Len(b) THEN b[i] ELSE c[i - Len(b)]
        /\ Len(b) \in Nat /\ Len(c) \in Nat
    OBVIOUS
  <2>2. /\ s \in Seq(Op) /\ Len(s) = Len(b) + Len(c)
        /\ \A i \in 1 .. Len(b) + Len(c) :
             s[i] = IF i <= Len(b) THEN b[i][1] ELSE c[i - Len(b)][1]
    <3>1. /\ s \in Seq(Op) /\ Len(s) = Len(b \o c)
          /\ \A i \in 1 .. Len(b \o c) : s[i] = (b \o c)[i][1]
      BY <1>1, <2>1
    <3> QED BY <2>1, <3>1
  <2>3. /\ Operators(b) \in Seq(Op) /\ Len(Operators(b)) = Len(b)
        /\ Operators(c) \in Seq(Op) /\ Len(Operators(c)) = Len(c)
    BY <1>1
  <2>4. /\ r \in Seq(Op) /\ Len(r) = Len(b) + Len(c)
        /\ \A i \in 1 .. Len(b) + Len(c) :
             r[i] = IF i <= Len(b) THEN Operators(b)[i] ELSE Operators(c)[i - Len(b)]
    <3>1. \A i \in 1 .. Len(Operators(b)) + Len(Operators(c)) :
            (Operators(b) \o Operators(c))[i] =
              IF i <= Len(Operators(b)) THEN Operators(b)[i]
              ELSE Operators(c)[i - Len(Operators(b))]
      BY <2>3, ConcatAt
    <3>2. /\ Operators(b) \o Operators(c) \in Seq(Op)
          /\ Len(Operators(b) \o Operators(c)) = Len(Operators(b)) + Len(Operators(c))
      BY <2>3, ConcatAt
    <3> QED BY <2>3, <3>1, <3>2
  <2> HIDE DEF s, r
  <2>5. ASSUME NEW i \in 1 .. Len(b) + Len(c) PROVE s[i] = r[i]
    <3>1. CASE i <= Len(b)
      <4>1. i \in 1 .. Len(b)
        BY <2>1, <3>1
      <4> QED BY <1>1, <2>2, <2>4, <3>1, <4>1
    <3>2. CASE ~(i <= Len(b))
      <4>1. i - Len(b) \in 1 .. Len(c)
        BY <2>1, <3>2
      <4> QED BY <1>1, <2>2, <2>4, <3>2, <4>1
    <3> QED BY <3>1, <3>2
  <2>6. s = r
    BY <2>1, <2>2, <2>4, <2>5, SeqEqual
  <2> QED BY <2>6 DEF s, r
<1>4. ASSUME NEW s \in Seq(Op), NEW r \in {0, 1}
      PROVE  Results(s, r) \in Seq(Op \X {0, 1}) /\ Operators(Results(s, r)) = s
  <2>1. Results(s, r) = [i \in 1 .. Len(s) |-> <<s[i], r>>] /\ Len(s) \in Nat
    BY DEF Results
  <2>2. /\ Results(s, r) \in Seq(Op \X {0, 1}) /\ Len(Results(s, r)) = Len(s)
        /\ \A i \in 1 .. Len(s) : Results(s, r)[i] = <<s[i], r>>
    BY <2>1
  <2>3. /\ Operators(Results(s, r)) \in Seq(Op)
        /\ Len(Operators(Results(s, r))) = Len(s)
        /\ \A i \in 1 .. Len(s) : Operators(Results(s, r))[i] = s[i]
    <3> DEFINE b == Results(s, r)
    <3>1. /\ b \in Seq(Op \X {0, 1}) /\ Len(b) = Len(s)
          /\ \A i \in 1 .. Len(s) : b[i] = <<s[i], r>>
      BY <2>2
    <3> HIDE DEF b
    <3>2. /\ Operators(b) \in Seq(Op) /\ Len(Operators(b)) = Len(b)
          /\ \A i \in 1 .. Len(b) : Operators(b)[i] = b[i][1]
      BY <1>1, <3>1
    <3>3. \A i \in 1 .. Len(s) : Operators(b)[i] = s[i]
      BY <3>1, <3>2
    <3> QED BY <3>1, <3>2, <3>3 DEF b
  <2>4. s \in Seq(Op) /\ Len(Operators(Results(s, r))) = Len(s)
    BY <2>2, <2>3
  <2> QED BY <2>2, <2>3, <2>4, SeqEqual
<1> QED BY <1>1, <1>2, <1>3, <1>4

----------------------------------------------------------------------------
(* The types of everything but the lists.                                  *)

(* A call leaves its caller where it was, and names the eventfd to write.  *)
LEMMA CallMadeType ==
  ASSUME TypeOK, NEW x \in Caller, NEW wake \in Thread \cup {NoWake, PublicWake},
         CallMade(x, wake), ao_thread' \in [Op -> Thread \cup {Null}]
  PROVE  ControlOK'
  BY DEF TypeOK, ControlOK, CallMade, signals

(* The tail of AThreadPost and AOperatorSignal has the types of a call.    *)
LEMMA QueueType ==
  ASSUME TypeOK, NEW x \in Caller, NEW o \in Op, NEW at \in Thread, Queue(x, o, at),
         UNCHANGED ao_thread
  PROVE  ControlOK'
<1>1. ao_thread' \in [Op -> Thread \cup {Null}]
  BY DEF TypeOK
<1>2. CASE ao_thread[o] = at
  <2>1. PICK wake \in Thread \cup {NoWake, PublicWake} : CallMade(x, wake)
    BY <1>2 DEF Queue
  <2> QED BY <1>1, <2>1, CallMadeType
<1>3. CASE ao_thread[o] # at
  <2>1. CallMade(x, PublicWake)
    BY <1>3 DEF Queue
  <2> QED BY <1>1, <2>1, CallMadeType
<1> QED BY <1>2, <1>3

(* The calls of the program keep the types of the control state.           *)
LEMMA CallControl ==
  ASSUME TypeOK, NEW x \in Caller, NEW o \in Op,
         \/ PostPending(x, o) \/ PostNow(x, o) \/ SignalCancel(x, o)
         \/ \E d \in Timeouts, w \in Wakeups : PostTimer(x, o, d, w)
         \/ \E at \in Thread : ThreadPost(x, o, at) \/ SignalWakeup(x, o, at)
  PROVE  ControlOK'
<1>1. ao_thread' = ao_thread \/ ao_thread' = [ao_thread EXCEPT ![o] = Null]
  BY DEF PostPending, PostNow, SignalCancel, PostTimer, ThreadPost, SignalWakeup,
         Unwait, timers
<1>2. ao_thread' \in [Op -> Thread \cup {Null}]
  BY <1>1 DEF TypeOK
<1>3. CASE \/ PostPending(x, o) \/ PostNow(x, o) \/ SignalCancel(x, o)
           \/ \E d \in Timeouts, w \in Wakeups : PostTimer(x, o, d, w)
  <2>1. PICK wake \in Thread \cup {NoWake, PublicWake} : CallMade(x, wake)
    BY <1>3 DEF PostPending, PostNow, SignalCancel, PostTimer
  <2> QED BY <1>2, <2>1, CallMadeType
<1>4. CASE \E at \in Thread : ThreadPost(x, o, at) \/ SignalWakeup(x, o, at)
  <2>1. PICK at \in Thread : Queue(x, o, at) /\ UNCHANGED ao_thread
    BY <1>4 DEF ThreadPost, SignalWakeup, Unwait, timers
  <2> QED BY <2>1, QueueType
<1> QED BY <1>3, <1>4

(* After a claim the thread has a deadline, whatever it has claimed.       *)
LEMMA ClaimType ==
  ASSUME TypeOK, NEW t \in Thread, ClaimNext(t)
  PROVE  /\ ao_thread' \in [Op -> Thread \cup {Null}]
         /\ \E limit \in Tick : deadline' = [deadline EXCEPT ![t] = limit]
<1> USE DEF TypeOK
<1>1. now \in Int /\ (now + MaxTimewait) % TickCount \in Tick
  BY TickFacts, TickAssumption
<1>2. CASE \E k \in Keys : Claimable(t, k)
  <2>1. PICK k \in Keys :
          /\ ao_thread' = [ao_thread EXCEPT ![Head(waiting[k])] = t]
          /\ deadline' = [deadline EXCEPT ![t] =
               (now + (IF -Compare(now, k) < MaxTimewait
                       THEN -Compare(now, k) ELSE MaxTimewait)) % TickCount]
    BY <1>2 DEF ClaimNext
  <2>2. k \in Int /\ Compare(now, k) \in Int
    BY <1>1, TickFacts, CompareFact DEF Keys
  <2> DEFINE wait == IF -Compare(now, k) < MaxTimewait
                     THEN -Compare(now, k) ELSE MaxTimewait
  <2>3. wait \in Int
    BY <2>2, TickAssumption
  <2> HIDE DEF wait
  <2>4. now + wait \in Int
    BY <1>1, <2>3
  <2>5. (now + wait) % TickCount \in Tick
    BY <2>4, TickFacts
  <2>6. deadline' = [deadline EXCEPT ![t] = (now + wait) % TickCount]
    BY <2>1 DEF wait
  <2>7. ao_thread' \in [Op -> Thread \cup {Null}]
    BY <2>1
  <2> QED BY <2>5, <2>6, <2>7
<1>3. CASE ~ \E k \in Keys : Claimable(t, k)
  BY <1>1, <1>3 DEF ClaimNext
<1> QED BY <1>2, <1>3

(* The loop of a thread keeps the types of the control state.              *)
LEMMA RunControl ==
  ASSUME TypeOK, NEW t \in Thread, Run(t) \/ WakeByIo(t)
  PROVE  ControlOK'
<1> USE DEF TypeOK, ControlOK
<1>1. CASE BeginCheck(t)
  BY <1>1 DEF BeginCheck, timers, signals
<1>2. CASE Expire(t)
  BY <1>2 DEF Expire, signals
<1>3. CASE EndCheck(t)
  <2>1. PICK limit \in Tick : deadline' = [deadline EXCEPT ![t] = limit]
    BY <1>3, ClaimType DEF EndCheck
  <2>2. ao_thread' \in [Op -> Thread \cup {Null}]
    BY <1>3, ClaimType DEF EndCheck
  <2>3. deadline' \in [Thread -> Tick \cup {NoDeadline}]
    BY <2>1
  <2> QED BY <1>3, <2>2, <2>3 DEF EndCheck, signals
<1>4. CASE CallNext(t)
  <2>1. Head(batch[t]) \in Op \X {0, 1}
    BY <1>4, OperatorsFacts DEF CallNext
  <2> QED BY <1>4, <2>1 DEF CallNext, timers, signals
<1>5. CASE Return(t)
  BY <1>5 DEF Return, timers, signals
<1>6. CASE WaitAfterCheck(t)
  <2>1. deadline' \in [Thread -> Tick \cup {NoDeadline}]
    <3>1. CASE deadline' = [deadline EXCEPT ![t] = NoDeadline]
      BY <3>1
    <3>2. CASE \E left \in 1 .. Compare(deadline[t], now) :
                 deadline' = [deadline EXCEPT ![t] = (now + left) % TickCount]
      <4>1. PICK left \in 1 .. Compare(deadline[t], now) :
              deadline' = [deadline EXCEPT ![t] = (now + left) % TickCount]
        BY <3>2
      <4>2. now + left \in Int
        BY TickFacts
      <4>3. (now + left) % TickCount \in Tick
        BY <4>2, TickFacts
      <4> QED BY <4>1, <4>3
    <3> QED BY <1>6, <3>1, <3>2 DEF WaitAfterCheck
  <2> QED BY <1>6, <2>1 DEF WaitAfterCheck, timers, signals
<1>7. CASE WaitAgain(t)
  BY <1>7 DEF WaitAgain, timers, signals
<1>8. CASE WakeBySignal(t)
  BY <1>8 DEF WakeBySignal, Reported, timers
<1>9. CASE ReadSignal(t)
  BY <1>9 DEF ReadSignal, timers
<1>10. CASE WakeByTimeout(t)
  BY <1>10 DEF WakeByTimeout, timers, signals
<1>11. CASE Exit(t)
  BY <1>11 DEF Exit, timers, signals
<1>12. CASE WakeByIo(t)
  BY <1>12 DEF WakeByIo, Reported, timers
<1> QED BY <1>1, <1>2, <1>3, <1>4, <1>5, <1>6, <1>7, <1>8, <1>9, <1>10, <1>11,
           <1>12 DEF Run

(* AThreadEnd tells an operator of its lists -EINTR, or moves its thread on. *)
LEMMA TreeHead ==
  ASSUME ListsOK, NEW k \in Keys
  PROVE  /\ k \in TimerTick /\ waiting[k] \in Seq(Op) /\ waiting[k] # <<>>
         /\ NextOf(waiting[k]) \in Op /\ NextOf(waiting[k]) \in ToSet(waiting[k])
<1>1. k \in TimerTick /\ waiting[k] \in Seq(Op) /\ waiting[k] # <<>>
  BY DEF Keys, ListsOK
<1>2. PICK s \in Seq(Op) : s = waiting[k] /\ s # <<>>
  BY <1>1
<1>3. NextOf(s) \in Op /\ NextOf(s) \in ToSet(s)
  BY <1>2 DEF NextOf, ToSet
<1> QED BY <1>1, <1>2, <1>3

LEMMA EndControl ==
  ASSUME TypeOK, NEW t \in Thread, ThreadEnd(t)
  PROVE  ControlOK'
<1>0. ListsOK
  BY TypeParts
<1>1. /\ UNCHANGED <<now, ao_thread, deadline, running, events, sem, pub_edge, prv_edge, owe>>
      /\ pc' = pc \/ \E to \in {"drain", "walk", "freed"} : pc' = [pc EXCEPT ![t] = to]
  BY DEF ThreadEnd, Join, DrainReturn, DrainPrivate, WorkerFreed, SplicePublic, DrainTree,
     DrainPending, PoolFreed, timers, signals
<1>2. calling' \in [Thread -> (Op \X {0, 1, EINTR}) \cup {NoCall}]
  <2>1. CASE UNCHANGED calling
    BY <2>1 DEF TypeOK
  <2>2. CASE DrainReturn(t)
    BY <2>2 DEF DrainReturn, TypeOK
  <2>3. CASE \E o \in Op : Told(t, o)
    BY <2>3 DEF Told, TypeOK
  <2>4. CASE DrainPrivate(t)
    <3>1. Head(private[t]) \in Op
      BY <1>0, <2>4, TailFacts DEF DrainPrivate, ListsOK
    <3> QED BY <2>3, <2>4, <3>1 DEF DrainPrivate
  <2>5. CASE DrainPending(t)
    <3>1. Head(pending) \in Op
      BY <1>0, <2>5, TailFacts DEF DrainPending, ListsOK
    <3> QED BY <2>3, <2>5, <3>1 DEF DrainPending
  <2>6. CASE DrainTree(t)
    <3>1. PICK k \in Keys : Told(t, NextOf(waiting[k]))
      BY <2>6 DEF DrainTree
    <3> QED BY <1>0, <2>3, <3>1, TreeHead
  <2> QED BY <2>1, <2>2, <2>4, <2>5, <2>6
          DEF ThreadEnd, Join, WorkerFreed, SplicePublic, PoolFreed
<1>3. pc' \in [Thread -> {"loop", "check", "batch", "call", "called", "sleep",
                         "read", "io", "ioed", "exit", "drain", "walk", "freed"}]
  BY <1>1 DEF TypeOK
<1> QED BY <1>1, <1>2, <1>3 DEF TypeOK, ControlOK

(* Every step keeps the types of the control state.                        *)
LEMMA ControlStep ==
  ASSUME TypeOK, [Next]_vars
  PROVE  ControlOK'
<1>1. ASSUME NEW x \in Caller, Call(x) PROVE ControlOK'
  BY <1>1, CallControl DEF Call
<1>2. ASSUME NEW x \in Caller, Wakeup(x) PROVE ControlOK'
  <2>1. /\ sem' \in Nat /\ pub_edge' \in [Thread -> BOOLEAN]
        /\ prv_edge' \in [Thread -> BOOLEAN]
    <3>1. CASE owe[x] = PublicWake
      <4>1. sem' = sem + 1 /\ pub_edge' = [t \in Thread |-> TRUE] /\ prv_edge' = prv_edge
        BY <1>2, <3>1 DEF Wakeup
      <4>2. sem' \in Nat
        BY <4>1 DEF TypeOK
      <4>3. pub_edge' \in [Thread -> BOOLEAN]
        BY <4>1, ZenonT(20)
      <4> QED BY <4>1, <4>2, <4>3 DEF TypeOK
    <3>2. CASE owe[x] # PublicWake
      <4>1. owe[x] \in Thread
        BY <1>2, <3>2 DEF Wakeup, TypeOK
      <4>2. prv_edge' = [prv_edge EXCEPT ![owe[x]] = TRUE] /\ UNCHANGED <<sem, pub_edge>>
        BY <1>2, <3>2 DEF Wakeup
      <4> QED BY <4>1, <4>2 DEF TypeOK
    <3> QED BY <3>1, <3>2
  <2>2. owe' \in [Caller -> Thread \cup {NoWake, PublicWake}]
    BY <1>2 DEF Wakeup, TypeOK
  <2> QED BY <1>2, <2>1, <2>2 DEF Wakeup, timers, TypeOK, ControlOK
<1>3. ASSUME NEW t \in Thread, Run(t) \/ WakeByIo(t) PROVE ControlOK'
  BY <1>3, RunControl
<1>4. ASSUME NEW t \in Thread, ThreadEnd(t) PROVE ControlOK'
  BY <1>4, EndControl
<1>5. ASSUME NEW x \in Client, NEW t \in Thread, ThreadAbort(x, t) PROVE ControlOK'
  BY <1>5 DEF ThreadAbort, timers, signals, Caller, TypeOK, ControlOK
<1>6. CASE ClockTick
  <2>1. (now + 1) % TickCount \in Tick
    BY TickFacts DEF TypeOK
  <2> QED BY <1>6, <2>1 DEF ClockTick, timers, signals, TypeOK, ControlOK
<1>7. CASE Stopped \/ UNCHANGED vars
  BY <1>7 DEF Stopped, vars, TypeOK, ControlOK
<1> QED BY <1>1, <1>2, <1>3, <1>4, <1>5, <1>6, <1>7 DEF Next

----------------------------------------------------------------------------
(* OnePlace, regrouped: the lists of the operators that wait, the lists of *)
(* those that are ready, and that no operator is in both.                  *)
Waiting ==
  /\ DueIsListed
  /\ \A k \in TimerTick : IsInjective(waiting[k])
  /\ IsInjective(pending)
ReadyOnce ==
  /\ IsInjective(public)
  /\ \A t \in Thread : IsInjective(private[t]) /\ IsInjective(Operators(batch[t]))
  /\ Apart
Ready(o) ==
  \/ o \in ToSet(public)
  \/ \E t \in Thread : o \in ToSet(private[t]) \cup Batch(t)
NotBoth == \A o : Ready(o) => ao_tick[o] = 0

(* The three parts of OnePlace are the whole of it, before and after, as   *)
(* long as AThreadEnd has not joined the pool's own thread.                *)
Live == ~Joined(Pool)
LEMMA PlaceParts == /\ Live => (OnePlace <=> Waiting /\ ReadyOnce /\ NotBoth)
                    /\ Live' => (OnePlace' <=> Waiting' /\ ReadyOnce' /\ NotBoth')
  BY DEF OnePlace, Waiting, ReadyOnce, NotBoth, Ready, NoRepeats, ReadyIsNotDue,
     WaitsWhereDue, Live

(* An idle operator, and one that waits, are not ready.                    *)
LEMMA IdleIsNotReady ==
  /\ \A o : Idle(o) => ~Ready(o) /\ ao_tick[o] = 0
  /\ NotBoth => \A o : ao_tick[o] # 0 => ~Ready(o)
  BY DEF Idle, Ready, NotBoth

(* A ready list takes an operator that is in none: each is still in one.   *)
LEMMA PushPublic ==
  ASSUME ListsOK, ReadyOnce, NEW o \in Op, ~Ready(o),
         public' = Append(public, o), UNCHANGED <<private, batch>>
  PROVE  public' \in Seq(Op) /\ ReadyOnce' /\ \A p : Ready(p)' => Ready(p) \/ p = o
<1>1. public' \in Seq(Op) /\ ToSet(public') = ToSet(public) \cup {o} /\ IsInjective(public')
  BY AppendFacts DEF ListsOK, ReadyOnce, Ready
<1>2. \A t \in Thread : private'[t] = private[t] /\ Batch(t)' = Batch(t)
  BY DEF Batch
<1>3. Apart'
  BY <1>1, <1>2 DEF ReadyOnce, Apart, Ready
<1> QED BY <1>1, <1>2, <1>3 DEF ReadyOnce, Ready

(* The same of the private list of a thread.                               *)
LEMMA PushPrivate ==
  ASSUME ListsOK, ReadyOnce, NEW o \in Op, ~Ready(o), NEW at \in Thread,
         private' = [private EXCEPT ![at] = Append(@, o)], UNCHANGED <<public, batch>>
  PROVE  /\ private' \in [Thread -> Seq(Op)] /\ ReadyOnce'
         /\ \A p : Ready(p)' => Ready(p) \/ p = o
<1>1. private[at] \in Seq(Op) /\ IsInjective(private[at]) /\ o \notin ToSet(private[at])
  BY DEF ListsOK, ReadyOnce, Ready
<1>2. /\ Append(private[at], o) \in Seq(Op)
      /\ ToSet(Append(private[at], o)) = ToSet(private[at]) \cup {o}
      /\ IsInjective(Append(private[at], o))
  BY <1>1, AppendFacts
<1>3. /\ private' \in [Thread -> Seq(Op)]
      /\ ToSet(private'[at]) = ToSet(private[at]) \cup {o}
      /\ \A t \in Thread : t # at => private'[t] = private[t]
      /\ \A t \in Thread : IsInjective(private'[t]) /\ Batch(t)' = Batch(t)
  BY <1>2 DEF ListsOK, ReadyOnce, Batch
<1>4. Apart'
  BY <1>3 DEF ReadyOnce, Apart, Ready
<1>5. \A p : Ready(p)' => Ready(p) \/ p = o
  BY <1>3 DEF Ready
<1> QED BY <1>3, <1>4, <1>5 DEF ReadyOnce

(* The same of the batch of a thread, and of a list of operators.          *)
LEMMA PushBatch ==
  ASSUME ListsOK, ReadyOnce, NEW t \in Thread, NEW s \in Seq(Op), NEW r \in {0, 1},
         IsInjective(s), \A o \in ToSet(s) : ~Ready(o),
         batch' = [batch EXCEPT ![t] = @ \o Results(s, r)], UNCHANGED <<public, private>>
  PROVE  /\ batch' \in [Thread -> Seq(Op \X {0, 1})] /\ ReadyOnce'
         /\ \A p : Ready(p)' => Ready(p) \/ p \in ToSet(s)
<1>1. /\ Results(s, r) \in Seq(Op \X {0, 1}) /\ Operators(Results(s, r)) = s
      /\ batch[t] \in Seq(Op \X {0, 1}) /\ Operators(batch[t]) \in Seq(Op)
  BY OperatorsFacts DEF ListsOK
<1>2. /\ batch[t] \o Results(s, r) \in Seq(Op \X {0, 1})
      /\ Operators(batch[t] \o Results(s, r)) = Operators(batch[t]) \o s
  <2> DEFINE c == Results(s, r)
  <2>1. c \in Seq(Op \X {0, 1}) /\ Operators(c) = s
    BY <1>1
  <2> HIDE DEF c
  <2>2. Operators(batch[t] \o c) = Operators(batch[t]) \o s
    BY <1>1, <2>1, OperatorsFacts
  <2>3. batch[t] \o c \in Seq(Op \X {0, 1})
    BY <1>1, <2>1, ConcatFacts
  <2> QED BY <2>2, <2>3 DEF c
<1>3. ToSet(Operators(batch[t])) \cap ToSet(s) = {} /\ IsInjective(Operators(batch[t]))
  BY DEF Ready, Batch, ReadyOnce
<1>4. /\ ToSet(Operators(batch[t]) \o s) = Batch(t) \cup ToSet(s)
      /\ IsInjective(Operators(batch[t]) \o s)
  BY <1>1, <1>3, ConcatFacts DEF Batch
<1>5. /\ batch' \in [Thread -> Seq(Op \X {0, 1})]
      /\ batch'[t] = batch[t] \o Results(s, r)
      /\ \A u \in Thread : u # t => batch'[u] = batch[u]
  BY <1>2 DEF ListsOK
<1>6. /\ Batch(t)' = Batch(t) \cup ToSet(s)
      /\ \A u \in Thread : u # t => Batch(u)' = Batch(u)
      /\ \A u \in Thread : IsInjective(Operators(batch'[u]))
  BY <1>2, <1>4, <1>5 DEF Batch, ReadyOnce
<1>7. Apart'
  <2>1. ASSUME NEW u \in Thread PROVE /\ ToSet(public) \cap Batch(u)' = {}
                                      /\ \A v \in Thread : ToSet(private[v]) \cap Batch(u)' = {}
    BY <1>6 DEF ReadyOnce, Apart, Ready
  <2>2. ASSUME NEW u \in Thread, NEW v \in Thread, u # v
        PROVE  Batch(u)' \cap Batch(v)' = {}
    <3>1. Batch(u) \cap Batch(v) = {}
      BY <2>2 DEF ReadyOnce, Apart
    <3>2. ToSet(s) \cap Batch(u) = {} /\ ToSet(s) \cap Batch(v) = {}
      BY DEF Ready
    <3> QED BY <1>6, <2>2, <3>1, <3>2
  <2>3. /\ UNCHANGED <<public, private>>
        /\ \A u \in Thread : ToSet(public) \cap ToSet(private[u]) = {}
        /\ \A u, v \in Thread : u # v => ToSet(private[u]) \cap ToSet(private[v]) = {}
    BY DEF ReadyOnce, Apart
  <2> QED BY <2>1, <2>2, <2>3 DEF Apart
<1>8. \A p : Ready(p)' => Ready(p) \/ p \in ToSet(s)
  BY <1>6 DEF Ready
<1> QED BY <1>5, <1>6, <1>7, <1>8 DEF ReadyOnce

(* The tail of AThreadPost and AOperatorSignal puts the operator in one.   *)
LEMMA QueueFacts ==
  ASSUME ListsOK, ReadyOnce, NEW x, NEW o \in Op, NEW at \in Thread, ~Ready(o),
         Queue(x, o, at)
  PROVE  /\ public' \in Seq(Op) /\ private' \in [Thread -> Seq(Op)]
         /\ batch' = batch /\ ReadyOnce' /\ \A p : Ready(p)' => Ready(p) \/ p = o
<1>1. CASE ao_thread[o] = at
  <2>1. /\ private' = [private EXCEPT ![at] = Append(@, o)]
        /\ UNCHANGED <<public, batch>>
    BY <1>1 DEF Queue, CallMade
  <2> QED BY <2>1, PushPrivate DEF ListsOK
<1>2. CASE ao_thread[o] # at
  <2>1. public' = Append(public, o) /\ UNCHANGED <<private, batch>>
    BY <1>2 DEF Queue, CallMade
  <2> QED BY <2>1, PushPublic DEF ListsOK
<1> QED BY <1>1, <1>2

(* list_del_init takes one operator out, and keeps the others apart.       *)
LEMMA UnlinkFacts ==
  ASSUME NEW s \in Seq(Op), IsInjective(s), NEW o, o \in ToSet(s)
  PROVE  /\ Unlink(s, o) \in Seq(Op) /\ IsInjective(Unlink(s, o))
         /\ ToSet(Unlink(s, o)) = ToSet(s) \ {o}
<1> DEFINE i == CHOOSE i \in DOMAIN s : s[i] = o
<1>1. i \in DOMAIN s /\ s[i] = o
  BY DEF ToSet
<1> HIDE DEF i
<1>2. /\ RemoveAt(s, i) \in Seq(Op) /\ IsInjective(RemoveAt(s, i))
      /\ ToSet(RemoveAt(s, i)) = ToSet(s) \ {o}
  BY <1>1, RemoveFacts
<1> QED BY <1>2 DEF Unlink, i

(* The first half of AOperatorSignal takes the operator out of its list.   *)
LEMMA UnwaitFacts ==
  ASSUME ListsOK, Waiting, NEW o \in Op, Unwait(o)
  PROVE  /\ ao_tick[o] # 0 /\ ao_tick' = [ao_tick EXCEPT ![o] = 0]
         /\ waiting' \in [TimerTick -> Seq(Op)] /\ pending' \in Seq(Op) /\ Waiting'
<1>1. ASSUME NEW s \in Seq(Op), IsInjective(s), o \in ToSet(s)
      PROVE  /\ Unlink(s, o) \in Seq(Op) /\ IsInjective(Unlink(s, o))
             /\ ToSet(Unlink(s, o)) = ToSet(s) \ {o}
  BY <1>1, UnlinkFacts
<1>2. ao_tick[o] # 0 /\ ao_tick' = [ao_tick EXCEPT ![o] = 0] /\ ao_tick[o] \in Tick
  BY DEF Unwait, ListsOK
<1>3. /\ \A p \in Op : p # o => ao_tick'[p] = ao_tick[p]
      /\ ao_tick'[o] = 0
  BY <1>2 DEF ListsOK
<1>4. CASE ao_tick[o] = INFINITE
  <2>1. pending' = Unlink(pending, o) /\ waiting' = waiting
    BY <1>4 DEF Unwait
  <2>2. pending \in Seq(Op) /\ IsInjective(pending) /\ o \in ToSet(pending)
    BY <1>4 DEF ListsOK, Waiting, DueIsListed
  <2>3. /\ pending' \in Seq(Op) /\ IsInjective(pending')
        /\ ToSet(pending') = ToSet(pending) \ {o}
    BY <1>1, <2>1, <2>2
  <2>4. DueIsListed'
    BY <1>3, <1>4, <2>1, <2>3, TickFacts DEF Waiting, DueIsListed
  <2> QED BY <1>2, <2>1, <2>3, <2>4 DEF ListsOK, Waiting
<1>5. CASE ao_tick[o] # INFINITE
  <2> DEFINE k == ao_tick[o]
  <2>1. waiting' = [waiting EXCEPT ![k] = Unlink(@, o)] /\ pending' = pending
    BY <1>5 DEF Unwait
  <2>2. k \in TimerTick
    BY <1>2, <1>5 DEF TimerTick
  <2>3. waiting[k] \in Seq(Op) /\ IsInjective(waiting[k]) /\ o \in ToSet(waiting[k])
    BY <2>2 DEF ListsOK, Waiting, DueIsListed
  <2>4. /\ Unlink(waiting[k], o) \in Seq(Op) /\ IsInjective(Unlink(waiting[k], o))
        /\ ToSet(Unlink(waiting[k], o)) = ToSet(waiting[k]) \ {o}
    BY <1>1, <2>3
  <2> HIDE DEF k
  <2>5. /\ waiting' \in [TimerTick -> Seq(Op)]
        /\ waiting'[k] = Unlink(waiting[k], o)
        /\ \A j \in TimerTick : j # k => waiting'[j] = waiting[j]
    BY <2>1, <2>2, <2>4 DEF ListsOK
  <2>6. ToSet(pending') = {p \in Op : ao_tick'[p] = INFINITE}
    BY <1>3, <1>5, <2>1, TickFacts DEF Waiting, DueIsListed
  <2>7. ASSUME NEW j \in TimerTick PROVE ToSet(waiting'[j]) = {p \in Op : ao_tick'[p] = j}
    <3>1. ToSet(waiting[j]) = {p \in Op : ao_tick[p] = j}
      BY DEF Waiting, DueIsListed
    <3>2. CASE j = k
      BY <1>3, <2>4, <2>5, <3>1, <3>2, TickFacts
    <3>3. CASE j # k
      BY <1>3, <2>5, <3>1, <3>3, TickFacts DEF k
    <3> QED BY <3>2, <3>3
  <2>8. \A j \in TimerTick : IsInjective(waiting'[j])
    BY <2>4, <2>5 DEF Waiting
  <2> QED BY <1>2, <2>1, <2>5, <2>6, <2>7, <2>8 DEF ListsOK, Waiting, DueIsListed
<1> QED BY <1>4, <1>5

----------------------------------------------------------------------------
(* Every step keeps OnePlace.                                              *)
Placed == ListsOK /\ Waiting /\ ReadyOnce /\ NotBoth

(* What is ready is an operator.                                           *)
LEMMA SetOfReady ==
  ASSUME ListsOK, NEW p, Ready(p)
  PROVE  p \in Op
<1>1. \A s \in Seq(Op) : ToSet(s) \subseteq Op
  BY DEF ToSet
<1>2. \A t \in Thread : Operators(batch[t]) \in Seq(Op)
  BY OperatorsFacts DEF ListsOK
<1> QED BY <1>1, <1>2 DEF Ready, Batch, ListsOK

(* A step that leaves the lists alone keeps the operators in their places. *)
LEMMA ListsUnchanged ==
  ASSUME Placed, UNCHANGED <<ao_tick, waiting, pending, public, private, batch>>
  PROVE  Placed'
  BY DEF Placed, ListsOK, Waiting, DueIsListed, ReadyOnce, Apart, NotBoth, Ready, Batch

(* The calls of the program: an idle operator enters one list, and one     *)
(* that waits leaves its list and enters at most one other.                *)
LEMMA CallPlaces ==
  ASSUME TypeOK, Placed, NEW x \in Caller, NEW o \in Op,
         \/ PostPending(x, o) \/ PostNow(x, o) \/ SignalCancel(x, o)
         \/ \E d \in Timeouts, w \in Wakeups : PostTimer(x, o, d, w)
         \/ \E at \in Thread : ThreadPost(x, o, at) \/ SignalWakeup(x, o, at)
  PROVE  Placed'
<1>1. CASE PostPending(x, o)
  <2>1. /\ ~Ready(o) /\ ao_tick[o] = 0 /\ ao_tick' = [ao_tick EXCEPT ![o] = INFINITE]
        /\ pending' = Append(pending, o) /\ UNCHANGED <<waiting, public, private, batch>>
    BY <1>1, IdleIsNotReady DEF PostPending, CallMade
  <2>2. /\ ao_tick' \in [Op -> Tick] /\ ao_tick'[o] = INFINITE
        /\ \A p : p # o => ao_tick'[p] = ao_tick[p]
    BY <2>1, TickFacts DEF Placed, ListsOK
  <2>3. o \notin ToSet(pending)
    BY <2>1, TickFacts DEF Placed, Waiting, DueIsListed
  <2>4. /\ pending' \in Seq(Op) /\ IsInjective(pending')
        /\ ToSet(pending') = ToSet(pending) \cup {o}
    BY <2>1, <2>3, AppendFacts DEF Placed, ListsOK, Waiting
  <2>5. DueIsListed'
    BY <2>1, <2>2, <2>4, TickFacts DEF Placed, Waiting, DueIsListed
  <2>6. ReadyOnce' /\ \A p : Ready(p)' <=> Ready(p)
    BY <2>1 DEF Placed, ReadyOnce, Apart, Ready, Batch
  <2>7. NotBoth'
    BY <2>1, <2>2, <2>6 DEF Placed, NotBoth
  <2> QED BY <2>1, <2>2, <2>4, <2>5, <2>6, <2>7 DEF Placed, ListsOK, Waiting
<1>2. ASSUME NEW d \in Timeouts, NEW w \in Wakeups, PostTimer(x, o, d, w) PROVE Placed'
  <2> DEFINE k == DueTick(d)
  <2>1. /\ ~Ready(o) /\ ao_tick[o] = 0 /\ ao_tick' = [ao_tick EXCEPT ![o] = k]
        /\ waiting' = [waiting EXCEPT ![k] = Append(@, o)]
        /\ UNCHANGED <<pending, public, private, batch>>
    BY <1>2, IdleIsNotReady DEF PostTimer, CallMade
  <2>2. k \in TimerTick
    BY DueTickFact DEF TypeOK
  <2> HIDE DEF k
  <2>3. /\ ao_tick' \in [Op -> Tick] /\ ao_tick'[o] = k
        /\ \A p : p # o => ao_tick'[p] = ao_tick[p]
    BY <2>1, <2>2, TickFacts DEF Placed, ListsOK
  <2>4. o \notin ToSet(waiting[k]) /\ waiting[k] \in Seq(Op) /\ IsInjective(waiting[k])
    BY <2>1, <2>2, TickFacts DEF Placed, ListsOK, Waiting, DueIsListed
  <2>5. /\ Append(waiting[k], o) \in Seq(Op) /\ IsInjective(Append(waiting[k], o))
        /\ ToSet(Append(waiting[k], o)) = ToSet(waiting[k]) \cup {o}
    BY <2>4, AppendFacts
  <2>6. /\ waiting' \in [TimerTick -> Seq(Op)] /\ waiting'[k] = Append(waiting[k], o)
        /\ \A j \in TimerTick : j # k => waiting'[j] = waiting[j]
    BY <2>1, <2>2, <2>5 DEF Placed, ListsOK
  <2>7. \A j \in TimerTick : ToSet(waiting'[j]) = {p \in Op : ao_tick'[p] = j}
    <3> SUFFICES ASSUME NEW j \in TimerTick
                 PROVE  ToSet(waiting'[j]) = {p \in Op : ao_tick'[p] = j}
      OBVIOUS
    <3>1. ToSet(waiting[j]) = {p \in Op : ao_tick[p] = j}
      BY DEF Placed, Waiting, DueIsListed
    <3>2. CASE j = k
      BY <2>3, <2>5, <2>6, <3>1, <3>2
    <3>3. CASE j # k
      BY <2>1, <2>3, <2>6, <3>1, <3>3, TickFacts
    <3> QED BY <3>2, <3>3
  <2>8. ToSet(pending') = {p \in Op : ao_tick'[p] = INFINITE}
    BY <2>1, <2>2, <2>3, TickFacts DEF Placed, Waiting, DueIsListed
  <2>9. ReadyOnce' /\ \A p : Ready(p)' <=> Ready(p)
    BY <2>1 DEF Placed, ReadyOnce, Apart, Ready, Batch
  <2>10. NotBoth'
    BY <2>1, <2>3, <2>9 DEF Placed, NotBoth
  <2>11. \A j \in TimerTick : IsInjective(waiting'[j])
    BY <2>5, <2>6 DEF Placed, Waiting
  <2> QED BY <2>1, <2>3, <2>6, <2>7, <2>8, <2>9, <2>10, <2>11
          DEF Placed, ListsOK, Waiting, DueIsListed
<1>3. CASE PostNow(x, o)
  <2>1. /\ ~Ready(o) /\ ao_tick[o] = 0 /\ public' = Append(public, o)
        /\ UNCHANGED <<ao_tick, waiting, pending, private, batch>>
    BY <1>3, IdleIsNotReady DEF PostNow, CallMade
  <2>2. /\ public' \in Seq(Op) /\ ReadyOnce' /\ \A p : Ready(p)' => Ready(p) \/ p = o
    BY <2>1, PushPublic DEF Placed
  <2> QED BY <2>1, <2>2 DEF Placed, ListsOK, Waiting, DueIsListed, NotBoth
<1>4. ASSUME NEW at \in Thread, ThreadPost(x, o, at) PROVE Placed'
  <2>1. /\ ~Ready(o) /\ ao_tick[o] = 0 /\ Queue(x, o, at)
        /\ UNCHANGED <<ao_tick, waiting, pending>>
    BY <1>4, IdleIsNotReady DEF ThreadPost, timers
  <2>2. /\ public' \in Seq(Op) /\ private' \in [Thread -> Seq(Op)]
        /\ batch' = batch /\ ReadyOnce' /\ \A p : Ready(p)' => Ready(p) \/ p = o
    BY <2>1, QueueFacts DEF Placed
  <2> QED BY <2>1, <2>2 DEF Placed, ListsOK, Waiting, DueIsListed, NotBoth
<1>5. ASSUME NEW at \in Thread, SignalWakeup(x, o, at) PROVE Placed'
  <2>1. Unwait(o) /\ Queue(x, o, at)
    BY <1>5 DEF SignalWakeup
  <2>2. /\ ao_tick[o] # 0 /\ ao_tick' = [ao_tick EXCEPT ![o] = 0]
        /\ waiting' \in [TimerTick -> Seq(Op)] /\ pending' \in Seq(Op) /\ Waiting'
    BY <2>1, UnwaitFacts DEF Placed
  <2>3. ~Ready(o)
    BY <2>2, IdleIsNotReady DEF Placed
  <2>4. /\ public' \in Seq(Op) /\ private' \in [Thread -> Seq(Op)]
        /\ batch' = batch /\ ReadyOnce' /\ \A p : Ready(p)' => Ready(p) \/ p = o
    BY <2>1, <2>3, QueueFacts DEF Placed
  <2>5. /\ ao_tick' \in [Op -> Tick] /\ ao_tick'[o] = 0
        /\ \A p : p # o => ao_tick'[p] = ao_tick[p]
    BY <2>2, TickFacts DEF Placed, ListsOK
  <2>6. NotBoth'
    BY <2>4, <2>5 DEF Placed, NotBoth
  <2> QED BY <2>2, <2>4, <2>5, <2>6 DEF Placed, ListsOK
<1>6. CASE SignalCancel(x, o)
  <2>1. Unwait(o) /\ UNCHANGED <<public, private, batch>>
    BY <1>6 DEF SignalCancel, CallMade
  <2>2. /\ ao_tick[o] # 0 /\ ao_tick' = [ao_tick EXCEPT ![o] = 0]
        /\ waiting' \in [TimerTick -> Seq(Op)] /\ pending' \in Seq(Op) /\ Waiting'
    BY <2>1, UnwaitFacts DEF Placed
  <2>3. ~Ready(o)
    BY <2>2, IdleIsNotReady DEF Placed
  <2>4. ReadyOnce' /\ \A p : Ready(p)' <=> Ready(p)
    BY <2>1 DEF Placed, ReadyOnce, Apart, Ready, Batch
  <2>5. /\ ao_tick' \in [Op -> Tick] /\ ao_tick'[o] = 0
        /\ \A p : p # o => ao_tick'[p] = ao_tick[p]
    BY <2>2, TickFacts DEF Placed, ListsOK
  <2>6. NotBoth'
    BY <2>4, <2>5 DEF Placed, NotBoth
  <2> QED BY <2>1, <2>2, <2>4, <2>5, <2>6 DEF Placed, ListsOK
<1> QED BY <1>1, <1>2, <1>3, <1>4, <1>5, <1>6

(* An expired node: its operators go from the tree to the batch.           *)
LEMMA ExpirePlaces ==
  ASSUME Placed, NEW t \in Thread, Expire(t)
  PROVE  Placed'
<1>1. PICK k \in Keys :
        /\ waiting' = [waiting EXCEPT ![k] = <<>>]
        /\ ao_tick' = [o \in Op |-> IF o \in ToSet(waiting[k]) THEN 0 ELSE ao_tick[o]]
        /\ batch' = [batch EXCEPT ![t] = @ \o
                       Results(Append(Tail(waiting[k]), Head(waiting[k])), 0)]
  BY DEF Expire
<1>2. UNCHANGED <<pending, public, private>>
  BY DEF Expire
<1> DEFINE w == waiting[k]
           s == Append(Tail(w), Head(w))
<1>3. /\ k \in TimerTick /\ w \in Seq(Op) /\ w # <<>> /\ IsInjective(w)
      /\ ToSet(w) = {o \in Op : ao_tick[o] = k}
  BY DEF Keys, Placed, ListsOK, Waiting, DueIsListed
<1>4. s \in Seq(Op) /\ IsInjective(s) /\ ToSet(s) = ToSet(w)
  <2> HIDE DEF w
  <2>1. /\ Head(w) \in Op /\ Tail(w) \in Seq(Op) /\ IsInjective(Tail(w))
        /\ ToSet(w) = {Head(w)} \cup ToSet(Tail(w)) /\ Head(w) \notin ToSet(Tail(w))
    BY <1>3, TailFacts
  <2>2. /\ s \in Seq(Op) /\ IsInjective(s) /\ ToSet(s) = ToSet(Tail(w)) \cup {Head(w)}
    <3>1. \A r \in Seq(Op), o \in Op : IsInjective(r) /\ o \notin ToSet(r) =>
            /\ Append(r, o) \in Seq(Op) /\ IsInjective(Append(r, o))
            /\ ToSet(Append(r, o)) = ToSet(r) \cup {o}
      BY AppendFacts
    <3> QED BY <2>1, <3>1
  <2> QED BY <2>1, <2>2
<1>5. batch' = [batch EXCEPT ![t] = @ \o Results(s, 0)]
  BY <1>1
<1>6. ao_tick' = [o \in Op |-> IF o \in ToSet(s) THEN 0 ELSE ao_tick[o]]
  BY <1>1, <1>4
<1>7. ToSet(s) = {o \in Op : ao_tick[o] = k}
  BY <1>3, <1>4
<1> HIDE DEF w, s
<1>8. \A o \in ToSet(s) : ~Ready(o)
  BY <1>3, <1>7, TickFacts, IdleIsNotReady DEF Placed
<1>9. /\ batch' \in [Thread -> Seq(Op \X {0, 1})] /\ ReadyOnce'
      /\ \A p : Ready(p)' => Ready(p) \/ p \in ToSet(s)
  BY <1>2, <1>4, <1>5, <1>8, PushBatch DEF Placed
<1>10. /\ ao_tick' \in [Op -> Tick]
       /\ \A o \in Op : ao_tick'[o] = IF ao_tick[o] = k THEN 0 ELSE ao_tick[o]
  BY <1>6, <1>7, TickFacts DEF Placed, ListsOK
<1>11. /\ waiting' \in [TimerTick -> Seq(Op)] /\ waiting'[k] = <<>>
       /\ \A j \in TimerTick : j # k => waiting'[j] = waiting[j]
  BY <1>1, <1>3 DEF Placed, ListsOK
<1>12. ASSUME NEW j \in TimerTick
       PROVE  ToSet(waiting'[j]) = {o \in Op : ao_tick'[o] = j} /\ IsInjective(waiting'[j])
  <2>1. ToSet(waiting[j]) = {o \in Op : ao_tick[o] = j} /\ IsInjective(waiting[j])
    BY DEF Placed, Waiting, DueIsListed
  <2>2. CASE j = k
    BY <1>10, <1>11, <2>2, TickFacts, EmptyFacts
  <2>3. CASE j # k
    BY <1>10, <1>11, <2>1, <2>3, TickFacts
  <2> QED BY <2>2, <2>3
<1>13. ToSet(pending') = {o \in Op : ao_tick'[o] = INFINITE}
  BY <1>2, <1>3, <1>10, TickFacts DEF Placed, Waiting, DueIsListed
<1>14. NotBoth'
  <2>1. \A p \in ToSet(s) : ao_tick'[p] = 0
    BY <1>7, <1>10
  <2>2. ASSUME NEW p, Ready(p) PROVE ao_tick'[p] = 0
    <3>1. p \in Op
      BY <2>2, SetOfReady DEF Placed
    <3>2. ao_tick[p] = 0
      BY <2>2 DEF Placed, NotBoth
    <3> QED BY <1>10, <3>1, <3>2
  <2> QED BY <1>9, <2>1, <2>2 DEF NotBoth
<1> QED BY <1>2, <1>9, <1>10, <1>11, <1>12, <1>13, <1>14
        DEF Placed, ListsOK, Waiting, DueIsListed

(* The end of a check: one public operator and all the private ones go to  *)
(* the batch.                                                              *)
LEMMA EndCheckPlaces ==
  ASSUME Placed, NEW t \in Thread, EndCheck(t)
  PROVE  Placed'
<1> DEFINE some == IF public = <<>> THEN <<>> ELSE <<Head(public)>>
           s == some \o private[t]
<1>1. /\ public' = IF public = <<>> THEN public ELSE Tail(public)
      /\ private' = [private EXCEPT ![t] = <<>>]
      /\ batch' = [batch EXCEPT ![t] = @ \o Results(s, 1)]
      /\ UNCHANGED <<ao_tick, waiting, pending>>
  BY DEF EndCheck
<1>2. /\ public \in Seq(Op) /\ IsInjective(public)
      /\ private[t] \in Seq(Op) /\ IsInjective(private[t])
      /\ ToSet(public) \cap ToSet(private[t]) = {}
  BY DEF Placed, ListsOK, ReadyOnce, Apart
<1>3. /\ some \in Seq(Op) /\ public' \in Seq(Op) /\ IsInjective(some) /\ IsInjective(public')
      /\ ToSet(public) = ToSet(some) \cup ToSet(public')
      /\ ToSet(some) \cap ToSet(public') = {}
  <2>1. CASE public = <<>>
    BY <1>1, <1>2, <2>1, EmptyFacts
  <2>2. CASE public # <<>>
    <3>1. /\ Head(public) \in Op /\ Tail(public) \in Seq(Op) /\ IsInjective(Tail(public))
          /\ ToSet(public) = {Head(public)} \cup ToSet(Tail(public))
          /\ Head(public) \notin ToSet(Tail(public))
      BY <1>2, <2>2, TailFacts
    <3>2. ToSet(<<Head(public)>>) = {Head(public)} /\ IsInjective(<<Head(public)>>)
      BY DEF ToSet, IsInjective
    <3>3. some = <<Head(public)>> /\ public' = Tail(public)
      BY <1>1, <2>2
    <3> QED BY <3>1, <3>2, <3>3
  <2> QED BY <2>1, <2>2
<1> HIDE DEF some
<1>4. /\ s \in Seq(Op) /\ IsInjective(s) /\ ToSet(s) = ToSet(some) \cup ToSet(private[t])
  BY <1>2, <1>3, ConcatFacts
<1> HIDE DEF s
(* The state between: taken from the lists and not yet in the batch.       *)
<1>5. /\ private' \in [Thread -> Seq(Op)] /\ private'[t] = <<>>
      /\ \A u \in Thread : u # t => private'[u] = private[u]
  BY <1>1 DEF Placed, ListsOK
<1>6. \A u \in Thread : /\ IsInjective(private'[u])
                        /\ ToSet(private'[u]) = IF u = t THEN {} ELSE ToSet(private[u])
  BY <1>5, EmptyFacts DEF Placed, ReadyOnce
<1>7. /\ Results(s, 1) \in Seq(Op \X {0, 1}) /\ Operators(Results(s, 1)) = s
      /\ batch[t] \in Seq(Op \X {0, 1}) /\ Operators(batch[t]) \in Seq(Op)
  BY <1>4, OperatorsFacts DEF Placed, ListsOK
<1>8. /\ batch[t] \o Results(s, 1) \in Seq(Op \X {0, 1})
      /\ Operators(batch[t] \o Results(s, 1)) = Operators(batch[t]) \o s
  <2> DEFINE c == Results(s, 1)
  <2>1. c \in Seq(Op \X {0, 1}) /\ Operators(c) = s
    BY <1>7
  <2> HIDE DEF c
  <2>2. Operators(batch[t] \o c) = Operators(batch[t]) \o s
    BY <1>7, <2>1, OperatorsFacts
  <2>3. batch[t] \o c \in Seq(Op \X {0, 1})
    BY <1>7, <2>1, ConcatFacts
  <2> QED BY <2>2, <2>3 DEF c
<1>9. ToSet(Operators(batch[t])) \cap ToSet(s) = {} /\ IsInjective(Operators(batch[t]))
  BY <1>3, <1>4 DEF Placed, ReadyOnce, Apart, Batch
<1>10. /\ ToSet(Operators(batch[t]) \o s) = Batch(t) \cup ToSet(s)
       /\ IsInjective(Operators(batch[t]) \o s)
  BY <1>4, <1>7, <1>9, ConcatFacts DEF Batch
<1>11. /\ batch' \in [Thread -> Seq(Op \X {0, 1})]
       /\ batch'[t] = batch[t] \o Results(s, 1)
       /\ \A u \in Thread : u # t => batch'[u] = batch[u]
  BY <1>1, <1>8 DEF Placed, ListsOK
<1>12. /\ Batch(t)' = Batch(t) \cup ToSet(s)
       /\ \A u \in Thread : u # t => Batch(u)' = Batch(u)
       /\ \A u \in Thread : IsInjective(Operators(batch'[u]))
  BY <1>8, <1>10, <1>11 DEF Batch, Placed, ReadyOnce
<1>13. Apart'
  <2>1. ASSUME NEW u \in Thread
        PROVE  /\ ToSet(public') \cap (ToSet(private'[u]) \cup Batch(u)') = {}
               /\ \A v \in Thread : ToSet(private'[u]) \cap Batch(v)' = {}
    BY <1>3, <1>4, <1>6, <1>12 DEF Placed, ReadyOnce, Apart
  <2>2. ASSUME NEW u \in Thread, NEW v \in Thread, u # v
        PROVE  /\ ToSet(private'[u]) \cap ToSet(private'[v]) = {}
               /\ Batch(u)' \cap Batch(v)' = {}
    BY <1>3, <1>4, <1>6, <1>12, <2>2 DEF Placed, ReadyOnce, Apart
  <2> QED BY <2>1, <2>2 DEF Apart
<1>14. \A p : Ready(p)' => Ready(p)
  BY <1>3, <1>4, <1>6, <1>12 DEF Ready
<1>15. ReadyOnce'
  BY <1>3, <1>6, <1>12, <1>13 DEF ReadyOnce
<1>16. NotBoth'
  BY <1>1, <1>14 DEF Placed, NotBoth
<1> QED BY <1>1, <1>3, <1>5, <1>11, <1>15, <1>16 DEF Placed, ListsOK, Waiting, DueIsListed

(* A call: its operator leaves the batch.                                  *)
LEMMA CallNextPlaces ==
  ASSUME Placed, NEW t \in Thread, CallNext(t)
  PROVE  Placed'
<1>1. /\ batch[t] # <<>> /\ batch' = [batch EXCEPT ![t] = Tail(@)]
      /\ UNCHANGED <<ao_tick, waiting, pending, public, private>>
  BY DEF CallNext, timers
<1>2. batch[t] \in Seq(Op \X {0, 1}) /\ IsInjective(Operators(batch[t]))
  BY DEF Placed, ListsOK, ReadyOnce
<1>3. /\ Operators(batch[t]) \in Seq(Op) /\ Operators(batch[t]) # <<>>
      /\ Operators(Tail(batch[t])) = Tail(Operators(batch[t]))
      /\ Tail(batch[t]) \in Seq(Op \X {0, 1})
  BY <1>1, <1>2, OperatorsFacts
<1>4. /\ IsInjective(Tail(Operators(batch[t])))
      /\ ToSet(Tail(Operators(batch[t]))) \subseteq Batch(t)
  BY <1>2, <1>3, TailFacts DEF Batch
<1>5. /\ batch' \in [Thread -> Seq(Op \X {0, 1})] /\ batch'[t] = Tail(batch[t])
      /\ \A u \in Thread : u # t => batch'[u] = batch[u]
  BY <1>1, <1>3 DEF Placed, ListsOK
<1>6. \A u \in Thread : Batch(u)' \subseteq Batch(u) /\ IsInjective(Operators(batch'[u]))
  BY <1>3, <1>4, <1>5 DEF Batch, Placed, ReadyOnce
<1>7. Apart' /\ ReadyOnce'
  BY <1>1, <1>6 DEF Placed, ReadyOnce, Apart
<1>8. NotBoth'
  BY <1>1, <1>6 DEF Placed, NotBoth, Ready
<1>9. ListsOK'
  BY <1>1, <1>5 DEF Placed, ListsOK
<1>10. Waiting'
  BY <1>1 DEF Placed, Waiting, DueIsListed
<1> QED BY <1>7, <1>8, <1>9, <1>10 DEF Placed

----------------------------------------------------------------------------
(* Shutdown.  A thread outside a check has called its whole batch; the     *)
(* lists AThreadEnd has walked through stay empty, and it is the turn of   *)
(* the pool's own thread when the others are gone.                         *)
Emptied ==
  /\ \A t \in Thread :
       pc[t] \notin {"check", "batch", "call", "called"} => batch[t] = <<>>
  /\ \A t \in Thread : pc[t] \in {"walk", "freed"} => private[t] = <<>>
  /\ \A t \in Thread : pc[t] = "walk" => t = Pool
  /\ Joined(Pool) => AllEnded(Thread \ {Pool})
  /\ pc[Pool] \in {"walk", "freed"} => public = <<>>
  /\ pc[Pool] = "freed" => Keys = {} /\ pending = <<>>

(* The calls of the program name no joined thread, and no joined pool.     *)
LEMMA CallEmptied ==
  ASSUME TypeOK, Emptied, NEW x \in Caller, NEW o \in Op,
         \/ PostPending(x, o) \/ PostNow(x, o) \/ SignalCancel(x, o)
         \/ \E d \in Timeouts, w \in Wakeups : PostTimer(x, o, d, w)
         \/ \E at \in Thread : ThreadPost(x, o, at) \/ SignalWakeup(x, o, at)
  PROVE  Emptied' /\ Live /\ Live'
<1>1. MayCall(x) /\ \E wake : CallMade(x, wake)
  BY DEF PostPending, PostNow, SignalCancel, PostTimer, ThreadPost, SignalWakeup, Queue
<1>2. /\ ~Joined(Pool) /\ batch' = batch
      /\ \A t \in Thread : \/ pc'[t] = pc[t]
                           \/ pc[t] = "call" /\ pc'[t] = "called"
                           \/ pc[t] = "io" /\ pc'[t] = "ioed"
  BY <1>1, ThreadAssumption DEF MayCall, CallMade, TypeOK
<1>3. ~Joined(Pool)'
  BY <1>2, ThreadAssumption DEF Joined
<1>4. \A t \in Thread : Joined(t) => private'[t] = private[t]
  <2>1. CASE \E at \in Thread : ThreadPost(x, o, at) \/ SignalWakeup(x, o, at)
    <3>1. PICK at \in Thread : ~Joined(at) /\ Queue(x, o, at)
      BY <2>1 DEF ThreadPost, SignalWakeup
    <3> QED BY <3>1 DEF Queue, TypeOK
  <2>2. CASE ~ \E at \in Thread : ThreadPost(x, o, at) \/ SignalWakeup(x, o, at)
    BY <2>2 DEF PostPending, PostNow, SignalCancel, PostTimer
  <2> QED BY <2>1, <2>2
<1>5. pc'[Pool] \notin {"walk", "freed"}
  BY <1>3 DEF Joined
<1> QED BY <1>2, <1>3, <1>4, <1>5 DEF Emptied, Joined, Live

(* The loop of a thread leaves an empty batch behind when it waits.        *)
LEMMA RunEmptied ==
  ASSUME TypeOK, Emptied, NEW t \in Thread, Run(t) \/ WakeByIo(t)
  PROVE  Emptied' /\ Live /\ Live'
<1>1. /\ ~Ended(t) /\ ~Joined(t)'
      /\ \A u \in Thread : u # t => pc'[u] = pc[u] /\ batch'[u] = batch[u]
      /\ \A u \in Thread : u # t => private'[u] = private[u]
  BY DEF Run, BeginCheck, Expire, EndCheck, CallNext, Return, WaitAfterCheck, WaitAgain,
         WakeBySignal, ReadSignal, WakeByTimeout, Exit, WakeByIo, TypeOK, Ended, Joined
<1>2. ~Joined(Pool) /\ ~Joined(Pool)'
  <2>1. CASE t = Pool
    BY <1>1, <2>1 DEF Ended
  <2>2. CASE t # Pool
    <3>1. ~Joined(Pool)
      BY <1>1, <2>2 DEF Emptied, AllEnded, Ended, Joined
    <3> QED BY <1>1, <2>2, <3>1, ThreadAssumption DEF Joined
  <2> QED BY <2>1, <2>2
<1>3. pc'[t] \notin {"check", "batch", "call", "called"} => batch'[t] = <<>>
  BY DEF Run, BeginCheck, Expire, EndCheck, CallNext, Return, WaitAfterCheck, WaitAgain,
         WakeBySignal, ReadSignal, WakeByTimeout, Exit, WakeByIo, TypeOK, Emptied
<1>4. pc'[t] \notin {"walk", "freed"} /\ pc'[Pool] \notin {"walk", "freed"}
  BY <1>1, <1>2 DEF Joined
<1> QED BY <1>1, <1>2, <1>3, <1>4 DEF Emptied, Live

(* AThreadEnd empties a list before it goes on to the next.                *)
LEMMA EndEmptied ==
  ASSUME TypeOK, Emptied, NEW t \in Thread, ThreadEnd(t)
  PROVE  Emptied'
<1> USE DEF TypeOK
<1>0. UNCHANGED batch
  BY DEF ThreadEnd, Join, DrainReturn, DrainPrivate, WorkerFreed, SplicePublic, DrainTree,
     DrainPending, PoolFreed
<1>1. CASE Join(t)
  <2>1. pc[t] = "exit" /\ pc' = [pc EXCEPT ![t] = "drain"] /\ UNCHANGED private
        /\ (t = Pool => AllEnded(Thread \ {Pool}))
    BY <1>1 DEF Join
  <2>2. pc'[t] = "drain" /\ \A u \in Thread : u # t => pc'[u] = pc[u]
    BY <2>1
  <2>3. t # Pool => ~Joined(Pool) /\ ~Joined(Pool)'
    BY <2>1, <2>2, ThreadAssumption DEF Emptied, AllEnded, Joined
  <2>4. pc'[Pool] \notin {"walk", "freed"}
    BY <2>2, <2>3 DEF Joined
  <2>5. Joined(Pool)' => AllEnded(Thread \ {Pool})'
    BY <2>1, <2>2, <2>3 DEF AllEnded
  <2> QED BY <1>0, <2>1, <2>2, <2>4, <2>5 DEF Emptied
<1>2. CASE DrainReturn(t) \/ DrainPrivate(t)
  <2>1. /\ UNCHANGED <<pc, public, waiting, pending>>
        /\ \A u \in Thread : pc[u] \in {"walk", "freed"} => private'[u] = private[u]
    BY <1>2 DEF DrainReturn, DrainPrivate, timers
  <2> QED BY <1>0, <2>1 DEF Emptied, Joined, AllEnded, Keys
<1>3. CASE WorkerFreed(t)
  <2>1. /\ t # Pool /\ pc[t] = "drain" /\ pc' = [pc EXCEPT ![t] = "freed"]
        /\ private[t] = <<>> /\ UNCHANGED <<private, public, waiting, pending>>
    BY <1>3 DEF WorkerFreed, Drained, timers
  <2>2. pc'[t] = "freed" /\ \A u \in Thread : u # t => pc'[u] = pc[u]
    BY <2>1
  <2>3. pc'[Pool] = pc[Pool]
    BY <2>1, <2>2, ThreadAssumption
  <2> QED BY <1>0, <2>1, <2>2, <2>3 DEF Emptied, Joined, AllEnded, Keys
<1>4. CASE SplicePublic(t)
  <2>1. /\ t = Pool /\ pc[t] = "drain" /\ pc' = [pc EXCEPT ![t] = "walk"]
        /\ private[t] = <<>> /\ public' = <<>> /\ UNCHANGED <<private, waiting>>
    BY <1>4 DEF SplicePublic, Drained
  <2>2. pc'[t] = "walk" /\ \A u \in Thread : u # t => pc'[u] = pc[u]
    BY <2>1
  <2> QED BY <1>0, <2>1, <2>2 DEF Emptied, Joined, AllEnded
<1>5. CASE DrainTree(t) \/ DrainPending(t)
  <2>1. /\ UNCHANGED <<pc, public, private>> /\ pc[t] = "walk"
    BY <1>5 DEF DrainTree, DrainPending
  <2>2. pc[Pool] = "walk"
    BY <2>1 DEF Emptied
  <2> QED BY <1>0, <2>1, <2>2 DEF Emptied, Joined, AllEnded
<1>6. CASE PoolFreed(t)
  <2>1. /\ pc[t] = "walk" /\ pc' = [pc EXCEPT ![t] = "freed"]
        /\ Keys = {} /\ pending = <<>> /\ UNCHANGED <<private, public, waiting, pending>>
    BY <1>6 DEF PoolFreed, timers
  <2>2. t = Pool /\ pc'[t] = "freed" /\ \A u \in Thread : u # t => pc'[u] = pc[u]
    BY <2>1 DEF Emptied
  <2> QED BY <1>0, <2>1, <2>2 DEF Emptied, Joined, AllEnded, Keys
<1> QED BY <1>1, <1>2, <1>3, <1>4, <1>5, <1>6 DEF ThreadEnd

(* Every step keeps Emptied.                                               *)
LEMMA EmptiedStep ==
  ASSUME TypeOK, Emptied, [Next]_vars
  PROVE  Emptied'
<1>1. ASSUME NEW x \in Caller, Call(x) PROVE Emptied'
  BY <1>1, CallEmptied DEF Call
<1>2. ASSUME NEW t \in Thread, Run(t) \/ WakeByIo(t) PROVE Emptied'
  BY <1>2, RunEmptied
<1>3. ASSUME NEW t \in Thread, ThreadEnd(t) PROVE Emptied'
  BY <1>3, EndEmptied
<1>4. ASSUME NEW x \in Caller, Wakeup(x) PROVE Emptied'
  BY <1>4 DEF Wakeup, timers, Emptied, AllEnded, Joined, Keys
<1>5. ASSUME NEW x \in Client, NEW t \in Thread, ThreadAbort(x, t) PROVE Emptied'
  BY <1>5 DEF ThreadAbort, timers, Emptied, AllEnded, Joined, Keys
<1>6. CASE ClockTick \/ Stopped \/ UNCHANGED vars
  BY <1>6 DEF ClockTick, Stopped, vars, timers, Emptied, AllEnded, Joined, Keys
<1> QED BY <1>1, <1>2, <1>3, <1>4, <1>5, <1>6 DEF Next

----------------------------------------------------------------------------
(* While the pool is drained no operator is in two lists, or twice in one; *)
(* before that each waits where its tick says.                             *)
Draining ==
  /\ ListsOK /\ ReadyOnce /\ NotBoth /\ ListedIsDue
  /\ \A k \in TimerTick : IsInjective(waiting[k])
  /\ IsInjective(pending)
Spread == (Live => Placed) /\ (~Live => Draining)

LEMMA SpreadIs ==
  /\ TypeOK /\ OnePlace => Spread
  /\ TypeOK' /\ OnePlace' => Spread'
  /\ Spread => ListsOK /\ OnePlace
  /\ Spread' => ListsOK' /\ OnePlace'
  BY TypeParts DEF Spread, Placed, Draining, Live, OnePlace, Waiting, ReadyOnce, NotBoth,
     Ready, NoRepeats, ReadyIsNotDue, WaitsWhereDue

(* A list that loses its first operator.                                   *)
LEMMA PopFacts ==
  ASSUME NEW s \in Seq(Op), IsInjective(s), s # <<>>
  PROVE  /\ Head(s) \in Op /\ Tail(s) \in Seq(Op) /\ IsInjective(Tail(s))
         /\ ToSet(Tail(s)) = ToSet(s) \ {Head(s)} /\ Head(s) \in ToSet(s)
  BY TailFacts

(* done(-EINTR) of the head of a private list.                             *)
LEMMA PopPrivate ==
  ASSUME ListsOK, ReadyOnce, NotBoth, NEW t \in Thread, private[t] # <<>>,
         private' = [private EXCEPT ![t] = Tail(@)], UNCHANGED <<ao_tick, public, batch>>
  PROVE  /\ private' \in [Thread -> Seq(Op)] /\ ReadyOnce' /\ NotBoth'
         /\ ToSet(private'[t]) = ToSet(private[t]) \ {Head(private[t])}
         /\ Head(private[t]) \in ToSet(private[t]) /\ Head(private[t]) \in Op
         /\ \A u \in Thread : u # t => private'[u] = private[u]
<1>1. PICK s \in Seq(Op) : s = private[t] /\ IsInjective(s) /\ s # <<>>
  BY DEF ListsOK, ReadyOnce
<1>2. /\ private'[t] = Tail(s) /\ \A u \in Thread : u # t => private'[u] = private[u]
      /\ private' \in [Thread -> Seq(Op)]
  BY <1>1, PopFacts DEF ListsOK
<1>3. /\ IsInjective(private'[t]) /\ ToSet(private'[t]) = ToSet(s) \ {Head(s)}
      /\ Head(s) \in ToSet(s) /\ Head(s) \in Op
  BY <1>1, <1>2, PopFacts
<1>4. \A u \in Thread : Batch(u)' = Batch(u) /\ ToSet(private'[u]) \subseteq ToSet(private[u])
  BY <1>1, <1>2, <1>3 DEF Batch
<1>5. Apart'
  <2>1. UNCHANGED public /\ Apart
    BY DEF ReadyOnce
  <2>2. ASSUME NEW u \in Thread
        PROVE  ToSet(public') \cap (ToSet(private'[u]) \cup Batch(u)') = {}
    BY <1>4, <2>1 DEF Apart
  <2>3. ASSUME NEW u \in Thread, NEW v \in Thread
        PROVE  ToSet(private'[u]) \cap Batch(v)' = {}
    <3>1. ToSet(private[u]) \cap Batch(v) = {}
      BY <2>1 DEF Apart
    <3> QED BY <1>4, <3>1
  <2>4. ASSUME NEW u \in Thread, NEW v \in Thread \ {u}
        PROVE  /\ ToSet(private'[u]) \cap ToSet(private'[v]) = {}
               /\ Batch(u)' \cap Batch(v)' = {}
    <3>1. ToSet(private[u]) \cap ToSet(private[v]) = {} /\ Batch(u) \cap Batch(v) = {}
      BY <2>1 DEF Apart
    <3> QED BY <1>4, <3>1
  <2> QED BY <2>2, <2>3, <2>4 DEF Apart
<1>6. ReadyOnce'
  BY <1>2, <1>3, <1>5 DEF ReadyOnce
<1>7. NotBoth'
  BY <1>4 DEF NotBoth, Ready
<1> QED BY <1>1, <1>2, <1>3, <1>6, <1>7

(* done(-EINTR) of an operator of the tree, the last of its node at the end. *)
LEMMA PopTree ==
  ASSUME ListsOK, \A k \in TimerTick : IsInjective(waiting[k]), NEW k \in Keys,
         waiting' = [waiting EXCEPT ![k] = Unlink(@, NextOf(@))]
  PROVE  /\ waiting' \in [TimerTick -> Seq(Op)]
         /\ \A j \in TimerTick : IsInjective(waiting'[j])
         /\ ToSet(waiting'[k]) = ToSet(waiting[k]) \ {NextOf(waiting[k])}
         /\ \A j \in TimerTick : j # k => waiting'[j] = waiting[j]
<1>1. PICK s \in Seq(Op) : s = waiting[k] /\ IsInjective(s) /\ k \in TimerTick
                          /\ NextOf(s) \in ToSet(s)
  BY TreeHead
<1>2. PICK r \in Seq(Op) : /\ r = Unlink(s, NextOf(s)) /\ IsInjective(r)
                           /\ ToSet(r) = ToSet(s) \ {NextOf(s)}
  BY <1>1, UnlinkFacts
<1>3. waiting' = [waiting EXCEPT ![k] = r]
  BY <1>1, <1>2
<1>4. /\ waiting' \in [TimerTick -> Seq(Op)] /\ waiting'[k] = r
      /\ \A j \in TimerTick : j # k => waiting'[j] = waiting[j]
  BY <1>1, <1>3 DEF ListsOK
<1> QED BY <1>1, <1>2, <1>4

(* AThreadEnd keeps the operators apart while it takes them out.           *)
LEMMA EndPlaces ==
  ASSUME TypeOK, Emptied, Spread, NEW t \in Thread, ThreadEnd(t)
  PROVE  Spread'
<1>0. ListsOK /\ ReadyOnce /\ NotBoth
  BY DEF Spread, Placed, Draining
<1>1. /\ \A k \in TimerTick : IsInjective(waiting[k])
      /\ IsInjective(pending) /\ ListedIsDue
  BY DEF Spread, Placed, Draining, Waiting, DueIsListed, ListedIsDue
<1>2. CASE Join(t)
  <2>1. /\ pc' = [pc EXCEPT ![t] = "drain"]
        /\ UNCHANGED <<ao_tick, waiting, pending, public, private, batch>>
    BY <1>2 DEF Join, timers
  <2>2. CASE t # Pool
    <3>1. Live' <=> Live
      BY <2>1, <2>2, ThreadAssumption DEF Live, Joined, TypeOK
    <3>2. Placed => Placed'
      BY <2>1, ListsUnchanged
    <3>3. Draining => Draining'
      BY <2>1, <2>2, ThreadAssumption DEF Draining, ListsOK, ReadyOnce, Apart, NotBoth,
         Ready, Batch, ListedIsDue, TypeOK
    <3> QED BY <3>1, <3>2, <3>3 DEF Spread
  <2>3. CASE t = Pool
    <3>1. Live /\ pc'[Pool] = "drain"
      BY <1>2, <2>1, <2>3 DEF Join, Live, Joined, TypeOK
    <3>2. Placed /\ Placed'
      BY <2>1, <3>1, ListsUnchanged DEF Spread
    <3>3. Draining'
      BY <3>2 DEF Draining, Placed, Waiting, DueIsListed, ListedIsDue
    <3>4. ~Live'
      BY <3>1 DEF Live, Joined
    <3> QED BY <3>3, <3>4 DEF Spread
  <2> QED BY <2>2, <2>3
<1>3. CASE DrainReturn(t)
  <2>1. UNCHANGED <<pc, ao_tick, waiting, pending, public, private, batch>>
    BY <1>3 DEF DrainReturn, timers
  <2>2. (Placed => Placed') /\ (Live' <=> Live)
    BY <2>1, ListsUnchanged DEF Live, Joined
  <2>3. Draining => Draining'
    BY <2>1 DEF Draining, ListsOK, ReadyOnce, Apart, NotBoth, Ready, Batch, ListedIsDue
  <2> QED BY <2>2, <2>3 DEF Spread
<1>4. CASE DrainPrivate(t)
  <2>1. /\ UNCHANGED <<pc, ao_tick, waiting, pending, public, batch>> /\ private[t] # <<>>
        /\ private' = [private EXCEPT ![t] = Tail(@)]
    BY <1>4 DEF DrainPrivate, timers
  <2>2. private' \in [Thread -> Seq(Op)] /\ ReadyOnce' /\ NotBoth'
    BY <1>0, <2>1, PopPrivate
  <2>3. ListsOK'
    BY <1>0, <2>1, <2>2 DEF ListsOK
  <2>4. (Live' <=> Live) /\ (Waiting => Waiting') /\ (ListedIsDue => ListedIsDue')
    BY <2>1 DEF Live, Joined, Waiting, DueIsListed, ListedIsDue
  <2> QED BY <1>1, <2>1, <2>2, <2>3, <2>4 DEF Spread, Placed, Draining
<1>5. CASE WorkerFreed(t)
  <2>1. /\ pc' = [pc EXCEPT ![t] = "freed"] /\ t # Pool
        /\ UNCHANGED <<ao_tick, waiting, pending, public, private, batch>>
    BY <1>5 DEF WorkerFreed, timers
  <2>2. (Live' <=> Live) /\ pc'[Pool] = pc[Pool]
    BY <2>1, ThreadAssumption DEF Live, Joined, TypeOK
  <2>3. (Placed => Placed')
    BY <2>1, ListsUnchanged
  <2>4. Draining => Draining'
    BY <2>1, <2>2 DEF Draining, ListsOK, ReadyOnce, Apart, NotBoth, Ready, Batch, ListedIsDue
  <2> QED BY <2>2, <2>3, <2>4 DEF Spread
<1>6. CASE SplicePublic(t)
  <2>1. /\ t = Pool /\ pc[Pool] = "drain" /\ pc'[Pool] = "walk"
        /\ pending' = public \o pending /\ public' = <<>>
        /\ UNCHANGED <<ao_tick, waiting, private, batch>>
    BY <1>6, ThreadAssumption DEF SplicePublic, Drained, TypeOK
  <2>2. \A o \in ToSet(public) : ao_tick[o] = 0
    BY <1>0 DEF NotBoth, Ready
  <2>3. \A o \in ToSet(pending) : o \in Op /\ ao_tick[o] = INFINITE
    BY <1>1, <2>1 DEF ListedIsDue
  <2>4. public \in Seq(Op) /\ pending \in Seq(Op) /\ IsInjective(public)
        /\ IsInjective(pending)
    BY <1>0, <1>1 DEF ListsOK, ReadyOnce
  <2>5. ToSet(public) \cap ToSet(pending) = {}
    BY <2>2, <2>3, TickFacts
  <2>6. /\ public \o pending \in Seq(Op) /\ IsInjective(public \o pending)
        /\ ToSet(public \o pending) = ToSet(public) \cup ToSet(pending)
    BY <2>4, <2>5, ConcatFacts
  <2>7. /\ pending' \in Seq(Op) /\ IsInjective(pending')
        /\ ToSet(pending') = ToSet(public) \cup ToSet(pending)
    BY <2>1, <2>6
  <2>8. ListedIsDue'
    <3>1. \A o \in ToSet(public) : o \in Op
      BY <2>4 DEF ToSet
    <3> QED BY <1>1, <2>1, <2>2, <2>3, <2>7, <3>1 DEF ListedIsDue
  <2>9. /\ public' \in Seq(Op) /\ ToSet(public') = {} /\ IsInjective(public')
        /\ \A u \in Thread : Batch(u)' = Batch(u)
    BY <2>1, EmptyFacts DEF Batch
  <2>10. Apart' /\ ReadyOnce' /\ NotBoth'
    <3>1. Apart'
      BY <1>0, <2>1, <2>9 DEF ReadyOnce, Apart
    <3>2. ReadyOnce'
      BY <1>0, <2>1, <2>9, <3>1 DEF ReadyOnce
    <3> QED BY <1>0, <2>1, <2>9, <3>1, <3>2 DEF NotBoth, Ready
  <2>11. ~Live'
    BY <2>1 DEF Live, Joined
  <2>12. ListsOK'
    BY <1>0, <2>1, <2>7, <2>9 DEF ListsOK
  <2> QED BY <1>1, <2>1, <2>7, <2>8, <2>10, <2>11, <2>12 DEF Spread, Draining
<1>7. CASE DrainTree(t)
  <2>1. PICK k \in Keys : waiting' = [waiting EXCEPT ![k] = Unlink(@, NextOf(@))]
    BY <1>7 DEF DrainTree
  <2>2. UNCHANGED <<pc, ao_tick, pending, public, private, batch>> /\ ~Live /\ ~Live'
    BY <1>7 DEF DrainTree, Emptied, Live, Joined
  <2>3. /\ waiting' \in [TimerTick -> Seq(Op)] /\ k \in TimerTick
        /\ \A j \in TimerTick : IsInjective(waiting'[j])
        /\ \A j \in TimerTick : ToSet(waiting'[j]) \subseteq ToSet(waiting[j])
    <3>1. /\ waiting' \in [TimerTick -> Seq(Op)]
          /\ \A j \in TimerTick : IsInjective(waiting'[j])
          /\ ToSet(waiting'[k]) = ToSet(waiting[k]) \ {NextOf(waiting[k])}
          /\ \A j \in TimerTick : j # k => waiting'[j] = waiting[j]
      BY <1>0, <1>1, <2>1, PopTree
    <3> QED BY <3>1 DEF Keys
  <2>4. ListedIsDue'
    BY <1>1, <2>2, <2>3 DEF ListedIsDue
  <2>5. ReadyOnce' /\ NotBoth' /\ ListsOK'
    BY <1>0, <2>2, <2>3 DEF ReadyOnce, Apart, NotBoth, Ready, Batch, ListsOK
  <2> QED BY <1>1, <2>2, <2>3, <2>4, <2>5 DEF Spread, Draining
<1>8. CASE DrainPending(t)
  <2>1. pending # <<>> /\ pending' = Tail(pending)
        /\ UNCHANGED <<pc, ao_tick, waiting, public, private, batch>> /\ ~Live /\ ~Live'
    BY <1>8 DEF DrainPending, Emptied, Live, Joined
  <2>2. /\ pending' \in Seq(Op) /\ IsInjective(pending')
        /\ ToSet(pending') \subseteq ToSet(pending)
    BY <1>0, <1>1, <2>1, PopFacts DEF ListsOK
  <2>3. ListedIsDue'
    BY <1>1, <2>1, <2>2 DEF ListedIsDue
  <2>4. ReadyOnce' /\ NotBoth' /\ ListsOK'
    BY <1>0, <2>1, <2>2 DEF ReadyOnce, Apart, NotBoth, Ready, Batch, ListsOK
  <2> QED BY <1>1, <2>1, <2>2, <2>3, <2>4 DEF Spread, Draining
<1>9. CASE PoolFreed(t)
  <2>1. UNCHANGED <<ao_tick, waiting, pending, public, private, batch>> /\ ~Live /\ ~Live'
        /\ pc[Pool] = "walk" /\ pc'[Pool] = "freed"
    BY <1>9, ThreadAssumption DEF PoolFreed, Emptied, Live, Joined, timers, TypeOK
  <2>2. Draining => Draining'
    BY <2>1 DEF Draining, ListsOK, ReadyOnce, Apart, NotBoth, Ready, Batch, ListedIsDue
  <2> QED BY <2>1, <2>2 DEF Spread
<1> QED BY <1>2, <1>3, <1>4, <1>5, <1>6, <1>7, <1>8, <1>9 DEF ThreadEnd

(* Every step keeps the operators in their places.                         *)
LEMMA PlacesStep ==
  ASSUME TypeOK, Emptied, Spread, [Next]_vars
  PROVE  Spread'
<1>1. ASSUME NEW x \in Caller, Call(x) PROVE Spread'
  <2>1. Live /\ Live'
    BY <1>1, CallEmptied DEF Call
  <2>2. Placed'
    BY <1>1, <2>1, CallPlaces DEF Call, Spread
  <2> QED BY <2>1, <2>2 DEF Spread
<1>2. ASSUME UNCHANGED <<pc, ao_tick, waiting, pending, public, private, batch>>
      PROVE  Spread'
  <2>1. (Placed => Placed') /\ (Live' <=> Live)
    BY <1>2, ListsUnchanged DEF Live, Joined
  <2>2. Draining => Draining'
    BY <1>2 DEF Draining, ListsOK, ReadyOnce, Apart, NotBoth, Ready, Batch, ListedIsDue
  <2> QED BY <2>1, <2>2 DEF Spread
<1>3. ASSUME NEW x \in Caller, Wakeup(x) PROVE Spread'
  BY <1>2, <1>3 DEF Wakeup, timers
<1>4. ASSUME NEW t \in Thread, Run(t) \/ WakeByIo(t) PROVE Spread'
  <2>0. Live /\ Live' /\ Placed
    BY <1>4, RunEmptied DEF Spread
  <2>1. CASE Expire(t) \/ EndCheck(t) \/ CallNext(t)
    <3>1. Placed'
      BY <2>0, <2>1, ExpirePlaces, EndCheckPlaces, CallNextPlaces
    <3> QED BY <2>0, <3>1 DEF Spread
  <2>2. CASE ~(Expire(t) \/ EndCheck(t) \/ CallNext(t))
    <3>1. UNCHANGED <<ao_tick, waiting, pending, public, private, batch>>
      BY <1>4, <2>2 DEF Run, BeginCheck, Return, WaitAfterCheck, WaitAgain, WakeBySignal,
         ReadSignal, WakeByTimeout, Exit, WakeByIo, timers
    <3>2. Placed'
      BY <2>0, <3>1, ListsUnchanged
    <3> QED BY <2>0, <3>2 DEF Spread
  <2> QED BY <2>1, <2>2
<1>5. ASSUME NEW t \in Thread, ThreadEnd(t) PROVE Spread'
  BY <1>5, EndPlaces
<1>6. ASSUME NEW x \in Client, NEW t \in Thread, ThreadAbort(x, t) PROVE Spread'
  BY <1>2, <1>6 DEF ThreadAbort, timers
<1>7. CASE ClockTick \/ Stopped \/ UNCHANGED vars
  BY <1>2, <1>7 DEF ClockTick, Stopped, vars, timers
<1> QED BY <1>1, <1>3, <1>4, <1>5, <1>6, <1>7 DEF Next

----------------------------------------------------------------------------
(* The invariants of the lists, together.                                  *)
LEMMA SpreadInvariant == Spec => [](TypeOK /\ Emptied /\ Spread)
<1>1. Init => TypeOK /\ Emptied /\ Spread
  <2> SUFFICES ASSUME Init PROVE TypeOK /\ Emptied /\ Spread
    OBVIOUS
  <2>1. TypeOK
    BY TickAssumption, TickFacts DEF Init, TypeOK, Tick
  <2>2. Operators(<<>>) = <<>>
    BY DEF Operators
  <2>3. /\ \A t \in Thread : private[t] = <<>> /\ Batch(t) = {}
        /\ \A t \in Thread : IsInjective(Operators(batch[t]))
    BY <2>2, EmptyFacts DEF Init, Batch
  <2>4. Waiting
    BY TickFacts, EmptyFacts DEF Init, Waiting, DueIsListed
  <2>5. ReadyOnce /\ NotBoth
    BY <2>3, EmptyFacts DEF Init, ReadyOnce, Apart, NotBoth, Ready
  <2>6. Live /\ Emptied
    BY ThreadAssumption DEF Init, Emptied, Joined, Live
  <2> QED BY <2>1, <2>4, <2>5, <2>6, TypeParts DEF Spread, Placed
<1>2. TypeOK /\ Emptied /\ Spread /\ [Next]_vars => (TypeOK /\ Emptied /\ Spread)'
  BY ControlStep, PlacesStep, EmptiedStep, SpreadIs, TypeParts
<1> QED BY <1>1, <1>2, PTL DEF Spec

(* In every reachable state the variables have their types - in particular *)
(* the public eventfd is never read below zero, a timer never gets a tick  *)
(* that means something else - and every operator is in at most one list   *)
(* of AOperator.cpp, once, the one its tick names.                         *)
THEOREM Placement == Spec => [](TypeOK /\ OnePlace)
<1>1. Spread => OnePlace
  BY SpreadIs
<1> QED BY <1>1, SpreadInvariant, PTL

(* When AThreadEnd has come to the end of its walk over the lists of the   *)
(* pool no operator is left in any list, of any thread: every posting was  *)
(* called, told -EINTR or taken back.                                      *)
THEOREM Drain == Spec => []DrainedAtEnd
<1>1. Emptied => DrainedAtEnd
  <2> SUFFICES ASSUME Emptied, pc[Pool] = "freed", NEW o \in Op
               PROVE  ~Timed(o) /\ ~Queued(o)
    BY DEF DrainedAtEnd
  <2>1. /\ public = <<>> /\ pending = <<>>
        /\ \A k \in TimerTick : waiting[k] = <<>>
        /\ \A t \in Thread : private[t] = <<>> /\ batch[t] = <<>>
    BY DEF Emptied, AllEnded, Joined, Keys
  <2>2. Operators(<<>>) = <<>>
    BY DEF Operators
  <2> QED BY <2>1, <2>2, EmptyFacts DEF Timed, Queued, Batch
<1> QED BY <1>1, SpreadInvariant, PTL

----------------------------------------------------------------------------
(* Private wakeups.  Stronger than the property, a thread with a private   *)
(* list does not rely on the public eventfd, whose edges other threads     *)
(* take away; eventfds are reported only to a thread that goes on to read  *)
(* them, and a check always ends with a deadline.                          *)
Serves(t) ==
  \/ pc[t] \in {"check", "read"} \/ events[t] # {} \/ deadline[t] = NoDeadline
  \/ prv_edge[t] \/ \E x \in Caller : owe[x] = t
Served ==
  \A t \in Thread :
    /\ pc[t] \in {"batch", "call", "called"} => deadline[t] # NoDeadline
    /\ events[t] # {} => pc[t] \in {"read", "io", "ioed", "exit", "drain", "walk", "freed"}
    /\ private[t] # <<>> /\ pc[t] \notin {"exit", "drain", "walk", "freed"} => Serves(t)

(* The calls of the program: only a list that was empty needs a wakeup.    *)
LEMMA CallServed ==
  ASSUME TypeOK, Served, NEW x \in Caller, NEW o \in Op,
         \/ PostPending(x, o) \/ PostNow(x, o) \/ SignalCancel(x, o)
         \/ \E d \in Timeouts, w \in Wakeups : PostTimer(x, o, d, w)
         \/ \E at \in Thread : ThreadPost(x, o, at) \/ SignalWakeup(x, o, at)
  PROVE  Served'
<1>1. MayCall(x) /\ \E wake : CallMade(x, wake)
  BY DEF PostPending, PostNow, SignalCancel, PostTimer, ThreadPost, SignalWakeup, Queue
<1>2. /\ UNCHANGED <<deadline, events, prv_edge>>
      /\ \A t \in Thread :
           \/ pc'[t] = pc[t]
           \/ pc[t] = "call" /\ pc'[t] = "called"
           \/ pc[t] = "io" /\ pc'[t] = "ioed"
      /\ owe[x] = NoWake /\ \A y \in Caller : y # x => owe'[y] = owe[y]
  BY <1>1 DEF MayCall, CallMade, signals, TypeOK
<1>3. \A t \in Thread : Serves(t) => Serves(t)'
  BY <1>2, ThreadAssumption DEF Serves
<1>4. ASSUME NEW t \in Thread, private'[t] # <<>>
      PROVE  private[t] # <<>> \/ owe'[x] = t
  <2>1. CASE \E at \in Thread : ThreadPost(x, o, at) \/ SignalWakeup(x, o, at)
    <3>1. PICK at \in Thread : Queue(x, o, at)
      BY <2>1 DEF ThreadPost, SignalWakeup
    <3>2. CASE ao_thread[o] = at /\ t = at /\ private[at] = <<>>
      BY <3>1, <3>2 DEF Queue, CallMade, TypeOK
    <3>3. CASE ~(ao_thread[o] = at /\ t = at /\ private[at] = <<>>)
      BY <1>4, <3>1, <3>3 DEF Queue, TypeOK
    <3> QED BY <3>2, <3>3
  <2>2. CASE ~ \E at \in Thread : ThreadPost(x, o, at) \/ SignalWakeup(x, o, at)
    BY <1>4, <2>2 DEF PostPending, PostNow, SignalCancel, PostTimer
  <2> QED BY <2>1, <2>2
<1>5. \A t \in Thread : owe'[x] = t => Serves(t)'
  BY DEF Serves
<1> QED BY <1>2, <1>3, <1>4, <1>5 DEF Served

(* The loop of a thread concerns its own list, except that its read of the *)
(* public eventfd takes edges away, on which Serves does not rely.         *)
LEMMA RunServed ==
  ASSUME TypeOK, Served, NEW t \in Thread, Run(t) \/ WakeByIo(t)
  PROVE  Served'
<1>1. /\ UNCHANGED owe
      /\ \A u \in Thread : u # t => /\ pc'[u] = pc[u] /\ private'[u] = private[u]
                                    /\ events'[u] = events[u]
                                    /\ prv_edge'[u] = prv_edge[u]
  <2>1. CASE BeginCheck(t) \/ Expire(t) \/ EndCheck(t) \/ CallNext(t) \/ Return(t) \/ Exit(t)
    BY <2>1 DEF BeginCheck, Expire, EndCheck, CallNext, Return, Exit, TypeOK, timers, signals
  <2>2. CASE WaitAfterCheck(t) \/ WaitAgain(t) \/ WakeByTimeout(t)
    BY <2>2 DEF WaitAfterCheck, WaitAgain, WakeByTimeout, TypeOK, timers, signals
  <2>3. CASE WakeBySignal(t) \/ ReadSignal(t) \/ WakeByIo(t)
    BY <2>3 DEF WakeBySignal, ReadSignal, WakeByIo, TypeOK, timers
  <2> QED BY <2>1, <2>2, <2>3 DEF Run
<1> DEFINE P(u) == /\ pc[u] \in {"batch", "call", "called"} => deadline[u] # NoDeadline
                   /\ events[u] # {} => pc[u] \in {"read", "io", "ioed", "exit", "drain", "walk", "freed"}
                   /\ private[u] # <<>> /\ pc[u] \notin {"exit", "drain", "walk", "freed"} => Serves(u)
<1>2. P(t)
  BY DEF Served
<1>3. (\A u \in Thread : u # t => deadline'[u] = deadline[u]) /\ P(t)' => Served'
  BY <1>1 DEF Served, Serves
<1> USE DEF TypeOK, Serves
<1>4. CASE EndCheck(t)
  <2>1. PICK limit \in Tick : deadline' = [deadline EXCEPT ![t] = limit]
    BY <1>4, ClaimType DEF EndCheck
  <2>2. limit # NoDeadline
    BY TickFacts, TickAssumption DEF Tick, NoDeadline
  <2>3. pc'[t] = "batch" /\ private'[t] = <<>> /\ events' = events /\ pc[t] = "check"
    BY <1>4 DEF EndCheck, signals
  <2> QED BY <1>2, <1>3, <2>1, <2>2, <2>3
<1>5. CASE BeginCheck(t) \/ Expire(t) \/ Exit(t)
  BY <1>2, <1>3, <1>5 DEF BeginCheck, Expire, Exit, timers, signals
<1>6. CASE CallNext(t) \/ Return(t)
  BY <1>1, <1>2, <1>3, <1>6 DEF CallNext, Return, timers, signals
<1>7. CASE WaitAfterCheck(t) \/ WaitAgain(t)
  BY <1>1, <1>2, <1>3, <1>7 DEF WaitAfterCheck, WaitAgain, timers, signals
<1>8. CASE WakeBySignal(t) \/ WakeByTimeout(t)
  BY <1>1, <1>2, <1>3, <1>8 DEF WakeBySignal, WakeByTimeout, Reported, timers, signals
<1>9. CASE ReadSignal(t)
  BY <1>1, <1>2, <1>3, <1>9 DEF ReadSignal, timers
<1>10. CASE WakeByIo(t)
  BY <1>1, <1>2, <1>3, <1>10 DEF WakeByIo, Reported, timers
<1> QED BY <1>4, <1>5, <1>6, <1>7, <1>8, <1>9, <1>10 DEF Run

(* Every step keeps Served.                                                *)
LEMMA ServedStep ==
  ASSUME TypeOK, Served, [Next]_vars
  PROVE  Served'
<1>1. ASSUME NEW x \in Caller, Call(x) PROVE Served'
  BY <1>1, CallServed DEF Call
<1>2. ASSUME NEW t \in Thread, Run(t) \/ WakeByIo(t) PROVE Served'
  BY <1>2, RunServed
<1>3. ASSUME NEW t \in Thread, ThreadEnd(t) PROVE Served'
  <2>1. /\ UNCHANGED <<deadline, events, prv_edge, owe>>
        /\ pc'[t] \in {"drain", "walk", "freed"}
        /\ \A u \in Thread : u # t => pc'[u] = pc[u] /\ private'[u] = private[u]
    BY <1>3 DEF ThreadEnd, Join, DrainReturn, DrainPrivate, WorkerFreed, SplicePublic,
       DrainTree, DrainPending, PoolFreed, Drained, signals, TypeOK
  <2>2. \A u \in Thread : u # t => (Serves(u)' <=> Serves(u))
    BY <2>1 DEF Serves
  <2> QED BY <2>1, <2>2 DEF Served
<1>4. ASSUME NEW x \in Caller, Wakeup(x) PROVE Served'
  <2>1. UNCHANGED <<pc, deadline, events, private>>
    BY <1>4 DEF Wakeup
  <2>2. ASSUME NEW t \in Thread, Serves(t) PROVE Serves(t)'
    <3>1. \A y \in Caller : y # x => owe'[y] = owe[y]
      BY <1>4 DEF Wakeup, TypeOK
    <3>2. prv_edge'[t] = prv_edge[t] \/ prv_edge'[t] = TRUE
      BY <1>4 DEF Wakeup, TypeOK
    <3>3. owe[x] = t => prv_edge'[t] = TRUE
      BY <1>4, ThreadAssumption DEF Wakeup, TypeOK
    <3> QED BY <2>1, <2>2, <3>1, <3>2, <3>3 DEF Serves
  <2> QED BY <2>1, <2>2 DEF Served
<1>5. ASSUME NEW x \in Client, NEW t \in Thread, ThreadAbort(x, t) PROVE Served'
  <2>1. /\ UNCHANGED <<pc, deadline, events, prv_edge, private>> /\ owe[x] = NoWake
        /\ \A y \in Caller : y # x => owe'[y] = owe[y]
    BY <1>5 DEF ThreadAbort, signals, TypeOK
  <2> QED BY <2>1, ThreadAssumption DEF Served, Serves
<1>6. CASE ClockTick \/ Stopped \/ UNCHANGED vars
  BY <1>6 DEF ClockTick, Stopped, vars, timers, signals, Served, Serves
<1> QED BY <1>1, <1>2, <1>3, <1>4, <1>5, <1>6 DEF Next

(* AThreadPost and AOperatorSignal wake a private list only when it was    *)
(* empty, and yet a thread never waits with operators in its list.         *)
THEOREM PrivateService == Spec => []PrivateIsServed
<1>1. Init => Served
  BY DEF Init, Served
<1>2. TypeOK /\ Served /\ [Next]_vars => Served'
  BY ServedStep
<1>3. Served => PrivateIsServed
  BY DEF Served, Serves, PrivateIsServed, WillCheck, Ended, Joined
<1> QED BY <1>1, <1>2, <1>3, Placement, PTL DEF Spec

----------------------------------------------------------------------------
(* Timers.  While the clock waits for the threads every tick in use lies   *)
(* in a window around it; within one a signed difference is a difference.  *)
Half == TickCount \div 2
Reach == Half - Slack - 1
InWindow(k) == -Reach <= Compare(now, k) /\ Compare(now, k) <= Slack
Window ==
  /\ \A k \in Keys : InWindow(k)
  /\ \A t \in Thread : deadline[t] # NoDeadline => InWindow(deadline[t])

(* Only the first of a chain is claimed, and the thread that claimed it    *)
(* has a deadline no later than its tick - it does not rely on an eventfd. *)
Keeps(t, k) == deadline[t] = NoDeadline \/ Compare(deadline[t], k) <= 0
Kept(k) ==
  /\ \A i \in DOMAIN waiting[k] : i # 1 => ao_thread[waiting[k][i]] = Null
  /\ \A t \in Thread : ao_thread[Head(waiting[k])] = t => Keeps(t, k)
Claimed == \A k \in Keys : Kept(k)

(* What has left its loop was stopped.                                     *)
Halted == \A t \in Thread : pc[t] \in {"exit", "drain", "walk", "freed"} => ~running[t]

Watched == Window /\ Claimed /\ Halted


(* Comparing and adding, without remainders.                               *)
LEMMA HalfFact ==
  /\ TickCount \in Nat /\ Half \in Nat /\ 2 <= Half /\ 2 * Half <= TickCount
  /\ TickCount <= 2 * Half + 1
  BY TickAssumption DEF Half

LEMMA Remainder ==
  ASSUME NEW n \in Int
  PROVE  /\ n \in 0 .. TickCount - 1 => n % TickCount = n
         /\ n \in TickCount .. 2 * TickCount - 1 => n % TickCount = n - TickCount
         /\ n \in -TickCount .. -1 => n % TickCount = n + TickCount
  BY TickAssumption

LEMMA CompareIs ==
  ASSUME NEW a \in Tick, NEW k \in Tick
  PROVE  Compare(a, k) =
           LET d == IF a >= k THEN a - k ELSE a - k + TickCount
           IN  IF d < Half THEN d ELSE d - TickCount
<1>1. a - k \in Int /\ a \in Int /\ k \in Int /\ TickCount \in Nat
  BY TickFacts, TickAssumption
<1>2. (a - k) % TickCount = IF a >= k THEN a - k ELSE a - k + TickCount
  BY <1>1, Remainder DEF Tick
<1> QED BY <1>2 DEF Compare, Half

(* Signed differences add up as long as they stay within half the range.   *)
LEMMA CompareSum ==
  ASSUME NEW a \in Tick, NEW b \in Tick, NEW c \in Tick
  PROVE  /\ Compare(a, b) \in Int
         /\ Compare(a, b) + Compare(b, c) \in 1 - Half .. Half - 1
              => Compare(a, c) = Compare(a, b) + Compare(b, c)
         /\ -Half < Compare(a, b) => Compare(b, a) = -Compare(a, b)
         /\ Compare(a, a) = 0
<1>1. a \in 0 .. TickCount - 1 /\ b \in 0 .. TickCount - 1 /\ c \in 0 .. TickCount - 1
  BY DEF Tick
<1>2. Compare(a, b) \in Int
  BY TickFacts, CompareFact
<1>3. -Half < Compare(a, b) => Compare(b, a) = -Compare(a, b)
  BY <1>1, HalfFact, CompareIs
<1>4. Compare(a, a) = 0
  BY <1>1, HalfFact, CompareIs
<1>5. Compare(a, b) + Compare(b, c) \in 1 - Half .. Half - 1
        => Compare(a, c) = Compare(a, b) + Compare(b, c)
  BY <1>1, HalfFact, CompareIs
<1> QED BY <1>2, <1>3, <1>4, <1>5

(* A tick n later.                                                         *)
LEMMA CompareLater ==
  ASSUME NEW a \in Tick, NEW n \in 0 .. Half - 1
  PROVE  /\ (a + n) % TickCount \in Tick
         /\ Compare((a + n) % TickCount, a) = n
         /\ Compare(a, (a + n) % TickCount) = -n
<1>1. a \in 0 .. TickCount - 1 /\ n \in Nat /\ a + n \in Int /\ a + n \in 0 .. 2 * TickCount - 1
  BY HalfFact DEF Tick
<1> DEFINE b == (a + n) % TickCount
<1>2. b \in Tick /\ b = IF a + n < TickCount THEN a + n ELSE a + n - TickCount
  BY <1>1, HalfFact, Remainder DEF Tick
<1> HIDE DEF b
<1>3. Compare(b, a) = n
  BY <1>1, <1>2, HalfFact, CompareIs
<1>4. Compare(a, b) = -n
  BY <1>2, <1>3, HalfFact, CompareSum
<1> QED BY <1>2, <1>3, <1>4 DEF b

(* Within the window ticks are ordered by their distance from the clock.   *)
LEMMA WindowOrder ==
  ASSUME now \in Tick, NEW a \in Tick, NEW b \in Tick, InWindow(a), InWindow(b)
  PROVE  /\ Compare(a, b) = Compare(now, b) - Compare(now, a)
         /\ Compare(now, a) \in Int /\ Compare(now, b) \in Int
<1>1. Compare(now, a) \in -Reach .. Slack /\ Compare(now, b) \in -Reach .. Slack
  BY CompareSum, HalfFact, TickAssumption DEF InWindow, Reach
<1>2. Compare(a, now) = -Compare(now, a)
  BY <1>1, CompareSum, HalfFact, TickAssumption DEF Reach
<1>3. Compare(a, now) + Compare(now, b) \in 1 - Half .. Half - 1
  BY <1>1, <1>2, HalfFact, TickAssumption DEF Reach
<1> QED BY <1>1, <1>2, <1>3, CompareSum

(* A tick at most Reach from now is in the window.                         *)
LEMMA SoonInWindow ==
  ASSUME now \in Tick, NEW n \in 0 .. Reach
  PROVE  /\ (now + n) % TickCount \in Tick /\ InWindow((now + n) % TickCount)
         /\ Compare(now, (now + n) % TickCount) = -n
  BY CompareLater, HalfFact, TickAssumption DEF Reach, InWindow

(* The waits that occur are within reach.                                  *)
LEMMA ReachFact ==
  /\ Reach \in Nat /\ MaxTimewait <= Reach /\ Reach + Slack = Half - 1
  /\ \A d \in Timeouts : d \in Nat /\ d + 2 <= Reach
  BY HalfFact, TickAssumption, WindowAssumption DEF Reach, Half

LEMMA DueInWindow ==
  ASSUME now \in Tick, NEW d \in Timeouts
  PROVE  InWindow(DueTick(d))
<1> DEFINE tick == (now + d) % TickCount
<1>1. d \in Nat /\ d + 2 <= Reach /\ Reach \in Nat /\ Reach + Slack = Half - 1 /\ Slack \in Nat
  BY ReachFact, TickAssumption
<1>2. tick \in Tick /\ InWindow(tick) /\ Compare(now, tick) = -d
  BY <1>1, SoonInWindow
<1> HIDE DEF tick
<1>3. CASE tick \notin {0, INFINITE}
  BY <1>2, <1>3 DEF DueTick, tick
<1>4. CASE tick \in {0, INFINITE}
  <2>1. DueTick(d) = (tick + 2) % TickCount
    BY <1>4 DEF DueTick, tick
  <2>2. DueTick(d) \in Tick /\ Compare(tick, DueTick(d)) = -2
    BY <1>1, <1>2, <2>1, CompareLater, HalfFact
  <2>3. Compare(now, DueTick(d)) = -d - 2
    <3>1. -d + -2 \in 1 - Half .. Half - 1 /\ -d + -2 = -d - 2
      BY <1>1, HalfFact
    <3> QED BY <1>2, <2>2, <3>1, CompareSum
  <2>4. -Reach <= -d - 2 /\ -d - 2 <= Slack
    BY <1>1
  <2> QED BY <2>3, <2>4 DEF InWindow
<1> QED BY <1>3, <1>4

(* The keys of the tree are ticks; so is a deadline that is set.           *)
LEMMA KeyFacts ==
  ASSUME TypeOK
  PROVE  /\ now \in Tick /\ \A k \in Keys : k \in Tick /\ k \in TimerTick
         /\ \A t \in Thread : deadline[t] # NoDeadline => deadline[t] \in Tick
         /\ NoDeadline \notin Tick
         /\ \A k \in Keys : waiting[k] \in Seq(Op) /\ waiting[k] # <<>>
<1>1. NoDeadline \notin Tick
  BY DEF NoDeadline, Tick
<1>2. \A k \in Keys : k \in TimerTick /\ waiting[k] \in Seq(Op) /\ waiting[k] # <<>>
  BY DEF TypeOK, Keys
<1>3. now \in Tick /\ \A t \in Thread : deadline[t] # NoDeadline => deadline[t] \in Tick
  BY DEF TypeOK
<1> QED BY <1>1, <1>2, <1>3, TickFacts

----------------------------------------------------------------------------
(* Who looks at a tick.                                                    *)
Looks(k) == (\E t \in Thread : Watches(t, k)) \/ \E x \in Caller : owe[x] = PublicWake
AllRun == \A t \in Thread : running[t]

(* What watches a tick watches the later ones.                             *)
LEMMA WatchesLater ==
  ASSUME TypeOK, Window, NEW j \in Keys, NEW k \in Keys, Compare(j, k) <= 0, Looks(j)
  PROVE  Looks(k)
<1>1. CASE \E x \in Caller : owe[x] = PublicWake
  BY <1>1 DEF Looks
<1>2. ASSUME NEW t \in Thread, Watches(t, j) PROVE Watches(t, k)
  <2>1. CASE WillCheck(t)
    BY <2>1 DEF Watches
  <2>2. CASE deadline[t] # NoDeadline /\ Compare(deadline[t], j) <= 0
    <3>1. /\ deadline[t] \in Tick /\ InWindow(deadline[t]) /\ now \in Tick
          /\ j \in Tick /\ k \in Tick /\ InWindow(j) /\ InWindow(k)
      BY <2>2, KeyFacts DEF Window
    <3>2. /\ Compare(deadline[t], j) = Compare(now, j) - Compare(now, deadline[t])
          /\ Compare(deadline[t], k) = Compare(now, k) - Compare(now, deadline[t])
          /\ Compare(j, k) = Compare(now, k) - Compare(now, j)
          /\ Compare(now, j) \in Int /\ Compare(now, k) \in Int
          /\ Compare(now, deadline[t]) \in Int
      BY <3>1, WindowOrder
    <3>3. Compare(deadline[t], k) <= 0
      BY <2>2, <3>2
    <3> QED BY <2>2, <3>3 DEF Watches
  <2> QED BY <1>2, <2>1, <2>2 DEF Watches
<1> QED BY <1>1, <1>2 DEF Looks

(* When one node may go, the first that is left is looked at as before.    *)
LEMMA FirstAfter ==
  ASSUME TypeOK, Window, NoOversleep, AllRun, NEW gone, Keys \subseteq Keys' \cup {gone},
         NEW k \in Keys, k \in Keys', IsFirst(k)'
  PROVE  Looks(k)
<1>1. \A j \in Keys : j # gone => Compare(k, j) <= 0
  BY DEF IsFirst
<1>2. \A j \in Keys : IsFirst(j) => Looks(j)
  BY DEF NoOversleep, AllRun, Looks
<1>3. CASE IsFirst(k)
  BY <1>2, <1>3
<1>4. CASE ~IsFirst(k)
  <2>1. gone \in Keys /\ ~(Compare(k, gone) <= 0)
    BY <1>1, <1>4 DEF IsFirst
  <2>2. /\ \A i, j \in Keys : Compare(i, j) = Compare(now, j) - Compare(now, i)
        /\ \A j \in Keys : Compare(now, j) \in Int
    BY KeyFacts, WindowOrder DEF Window
  <2>3. Compare(gone, k) <= 0 /\ \A j \in Keys : Compare(gone, j) <= 0
    BY <1>1, <2>1, <2>2
  <2>4. Looks(gone)
    BY <1>2, <2>1, <2>3 DEF IsFirst
  <2> QED BY <2>1, <2>3, <2>4, WatchesLater
<1> QED BY <1>3, <1>4

----------------------------------------------------------------------------
(* Steps that leave the clock, the tree and the claims alone.              *)

(* A deadline is only ever given up - to check - or brought forward.       *)
Sooner(t) ==
  \/ deadline'[t] = deadline[t] \/ deadline'[t] = NoDeadline
  \/ /\ deadline[t] # NoDeadline /\ InWindow(deadline'[t])
     /\ Compare(deadline'[t], deadline[t]) <= 0

LEMMA SoonerWatches ==
  ASSUME TypeOK, deadline' \in [Thread -> Tick \cup {NoDeadline}], Window,
         NEW t \in Thread, NEW k \in Tick, InWindow(k), Sooner(t),
         deadline[t] # NoDeadline, Compare(deadline[t], k) <= 0
  PROVE  deadline'[t] = NoDeadline \/ Compare(deadline'[t], k) <= 0
<1>1. CASE deadline'[t] = deadline[t] \/ deadline'[t] = NoDeadline
  BY <1>1
<1>2. CASE /\ InWindow(deadline'[t]) /\ deadline'[t] # NoDeadline
           /\ Compare(deadline'[t], deadline[t]) <= 0
  <2>1. PICK a \in Tick, b \in Tick : a = deadline'[t] /\ b = deadline[t]
    BY <1>2 DEF TypeOK
  <2>2. InWindow(a) /\ InWindow(b) /\ now \in Tick
    BY <1>2, <2>1 DEF Window, TypeOK
  <2>3. /\ Compare(a, k) = Compare(now, k) - Compare(now, a)
        /\ Compare(a, b) = Compare(now, b) - Compare(now, a)
        /\ Compare(b, k) = Compare(now, k) - Compare(now, b)
        /\ Compare(now, a) \in Int /\ Compare(now, b) \in Int /\ Compare(now, k) \in Int
    BY <2>2, WindowOrder
  <2>4. Compare(a, b) <= 0 /\ Compare(b, k) <= 0
    BY <1>2, <2>1
  <2>5. Compare(a, k) <= 0
    BY <2>3, <2>4
  <2> QED BY <2>1, <2>5
<1> QED BY <1>1, <1>2 DEF Sooner

(* Then the ticks stay in the window, and claims are kept.                 *)
LEMMA SoonerKeeps ==
  ASSUME TypeOK, deadline' \in [Thread -> Tick \cup {NoDeadline}], Window, Claimed,
         UNCHANGED <<now, ao_thread, waiting>>, \A t \in Thread : Sooner(t)
  PROVE  Window' /\ Claimed'
<1>1. Keys' = Keys /\ \A k \in Keys : k \in Tick /\ InWindow(k)
  BY KeyFacts DEF Keys, Window
<1>2. Window'
  BY <1>1 DEF Window, Sooner, InWindow
<1>3. ASSUME NEW k \in Keys, NEW t \in Thread, Keeps(t, k) PROVE Keeps(t, k)'
  BY <1>1, <1>3, SoonerWatches DEF Keeps, Sooner
<1>4. Claimed'
  BY <1>1, <1>3 DEF Claimed, Kept
<1> QED BY <1>2, <1>4

(* And whoever looks at a tick still does, if nothing else makes a thread  *)
(* forget to check.                                                        *)
LEMMA SoonerLooks ==
  ASSUME TypeOK, deadline' \in [Thread -> Tick \cup {NoDeadline}], Window,
         Halted', AllRun', \A t \in Thread : Sooner(t),
         NEW k \in Tick, InWindow(k), Looks(k),
         \A t \in Thread : WillCheck(t) => \E u \in Thread : WillCheck(u)',
         \A x \in Caller : owe[x] = PublicWake =>
           owe'[x] = PublicWake \/ \E u \in Thread : WillCheck(u)'
  PROVE  Looks(k)'
<1>1. \A t \in Thread : deadline'[t] = NoDeadline => WillCheck(t)'
  BY DEF Halted, AllRun, WillCheck, Ended, Joined
<1>2. ASSUME NEW t \in Thread, deadline[t] # NoDeadline, Compare(deadline[t], k) <= 0
      PROVE  Watches(t, k)'
  BY <1>1, <1>2, SoonerWatches DEF Watches
<1> QED BY <1>2 DEF Looks, Watches

(* So such a step keeps NoOversleep.                                       *)
LEMMA SoonerStep ==
  ASSUME TypeOK, deadline' \in [Thread -> Tick \cup {NoDeadline}], Window, NoOversleep,
         UNCHANGED <<now, ao_thread, waiting, running>>, Halted',
         \A t \in Thread : Sooner(t),
         \A t \in Thread : AllRun /\ WillCheck(t) => \E u \in Thread : WillCheck(u)',
         \A x \in Caller : owe[x] = PublicWake =>
           owe'[x] = PublicWake \/ \E u \in Thread : WillCheck(u)'
  PROVE  NoOversleep'
<1> SUFFICES ASSUME AllRun', NEW k \in Keys', IsFirst(k)' PROVE Looks(k)'
  BY DEF NoOversleep, AllRun, Looks
<1>1. Keys' = Keys /\ k \in Keys /\ IsFirst(k) /\ AllRun
  BY DEF Keys, IsFirst, AllRun
<1>2. Looks(k) /\ k \in Tick /\ InWindow(k)
  BY <1>1, KeyFacts DEF NoOversleep, AllRun, Looks, Window
<1>3. \A t \in Thread : WillCheck(t) => \E u \in Thread : WillCheck(u)'
  BY <1>1
<1> QED BY <1>2, <1>3, SoonerLooks

----------------------------------------------------------------------------
(* The calls of the program.  A call stops no thread, takes back no wakeup *)
(* and moves no deadline.                                                  *)
LEMMA CallLooks ==
  ASSUME TypeOK, Halted, NEW x \in Caller, NEW wake, MayCall(x), CallMade(x, wake)
  PROVE  /\ UNCHANGED <<now, deadline, running>> /\ Halted'
         /\ \A k : Looks(k) => Looks(k)'
<1>1. /\ UNCHANGED <<now, deadline, running, events, prv_edge, pub_edge>>
      /\ owe[x] = NoWake /\ owe' = [owe EXCEPT ![x] = wake]
      /\ pc' = [t \in Thread |-> IF t # x THEN pc[t]
                                 ELSE IF pc[t] = "call" THEN "called" ELSE "ioed"]
      /\ x \in Thread => pc[x] \in {"call", "io"}
  BY DEF MayCall, CallMade, signals
<1>2. \A t \in Thread :
        /\ pc'[t] \in {"exit", "drain", "walk", "freed"} <=> pc[t] \in {"exit", "drain", "walk", "freed"}
        /\ pc[t] \in {"check", "read"} => pc'[t] = pc[t]
  BY <1>1
<1>3. \A t \in Thread : WillCheck(t) => WillCheck(t)'
  BY <1>1, <1>2 DEF WillCheck, Ended, Joined
<1>4. \A y \in Caller : owe[y] = PublicWake => owe'[y] = PublicWake
  BY <1>1 DEF TypeOK, NoWake, PublicWake
<1>5. \A k : Looks(k) => Looks(k)'
  BY <1>1, <1>3, <1>4 DEF Looks, Watches
<1> QED BY <1>1, <1>2, <1>5 DEF Halted

(* A node that stays as it was, with its claims and the deadlines.         *)
LEMMA KeptSame ==
  ASSUME NEW k, Kept(k), waiting'[k] = waiting[k], waiting[k] \in Seq(Op),
         waiting[k] # <<>>, deadline' = deadline,
         \A p \in ToSet(waiting[k]) : ao_thread'[p] = ao_thread[p]
  PROVE  Kept(k)'
<1>1. \A i \in DOMAIN waiting[k] : waiting[k][i] \in ToSet(waiting[k])
  BY DEF ToSet
<1>2. Head(waiting[k]) = waiting[k][1] /\ 1 \in DOMAIN waiting[k]
  OBVIOUS
<1> QED BY <1>1, <1>2 DEF Kept, Keeps

(* The nodes of the tree hold operators that wait, each its own.           *)
LEMMA NodeFacts ==
  ASSUME ListsOK, Waiting, NEW k \in Keys
  PROVE  /\ k \in TimerTick /\ waiting[k] \in Seq(Op) /\ waiting[k] # <<>>
         /\ 1 \in DOMAIN waiting[k] /\ Head(waiting[k]) = waiting[k][1]
         /\ \A i \in DOMAIN waiting[k] : waiting[k][i] \in Op /\ ao_tick[waiting[k][i]] = k
         /\ \A i, j \in DOMAIN waiting[k] : waiting[k][i] = waiting[k][j] => i = j
         /\ \A p \in ToSet(waiting[k]) : p \in Op /\ ao_tick[p] = k
<1>1. k \in TimerTick /\ waiting[k] \in Seq(Op) /\ waiting[k] # <<>> /\ k # 0
  BY TickFacts DEF Keys, ListsOK
<1>2. ToSet(waiting[k]) = {o \in Op : ao_tick[o] = k} /\ IsInjective(waiting[k])
  BY <1>1 DEF Waiting, DueIsListed
<1>3. 1 \in DOMAIN waiting[k] /\ Head(waiting[k]) = waiting[k][1]
  BY <1>1
<1>4. \A i \in DOMAIN waiting[k] : waiting[k][i] \in ToSet(waiting[k])
  BY DEF ToSet
<1> QED BY <1>1, <1>2, <1>3, <1>4 DEF IsInjective

(* A call that leaves the tree alone, and resets the claim of an operator  *)
(* that is idle.                                                           *)
LEMMA TreeUnchanged ==
  ASSUME TypeOK, Waiting, Watched, NEW x \in Caller, NEW o \in Op, NEW wake, MayCall(x),
         CallMade(x, wake), waiting' = waiting, ao_tick[o] = 0,
         ao_thread' = ao_thread \/ ao_thread' = [ao_thread EXCEPT ![o] = Null]
  PROVE  Watched' /\ (NoOversleep => NoOversleep')
<1>1. /\ UNCHANGED <<now, deadline, running>> /\ Halted'
      /\ \A k : Looks(k) => Looks(k)'
  BY CallLooks DEF Watched
<1>2. Keys' = Keys /\ Window' /\ \A k \in Keys : IsFirst(k)' => IsFirst(k)
  BY <1>1 DEF Watched, Window, InWindow, Keys, IsFirst
<1>3. ASSUME NEW k \in Keys PROVE Kept(k)'
  <2>1. /\ waiting[k] \in Seq(Op) /\ waiting[k] # <<>>
        /\ \A p \in ToSet(waiting[k]) : p \in Op /\ p # o
    BY NodeFacts, TypeParts, TickFacts
  <2>2. \A p \in ToSet(waiting[k]) : ao_thread'[p] = ao_thread[p]
    BY <2>1 DEF TypeOK
  <2> QED BY <1>1, <2>1, <2>2, KeptSame DEF Watched, Claimed
<1>4. NoOversleep => NoOversleep'
  BY <1>1, <1>2 DEF NoOversleep, Looks
<1> QED BY <1>1, <1>2, <1>3, <1>4 DEF Watched, Claimed

(* delay(): a new node is within reach of the clock, and unclaimed; when   *)
(* it is the first one the pool is woken.                                  *)
LEMMA PostTimerWatched ==
  ASSUME TypeOK, Waiting, Watched, NEW x \in Caller, NEW o \in Op, NEW d \in Timeouts,
         NEW w, PostTimer(x, o, d, w)
  PROVE  Watched' /\ (w = TRUE /\ NoOversleep => NoOversleep')
<1>1. PICK k \in TimerTick : k = DueTick(d)
  BY DueTickFact DEF TypeOK
<1>2. PICK wake : wake = IF NewFirst(k) /\ w THEN PublicWake ELSE NoWake
  OBVIOUS
<1>3. /\ MayCall(x) /\ Idle(o) /\ CallMade(x, wake)
      /\ ao_thread' = [ao_thread EXCEPT ![o] = Null]
      /\ waiting' = [waiting EXCEPT ![k] = Append(@, o)]
  BY <1>1, <1>2 DEF PostTimer
<1>4. /\ UNCHANGED <<now, deadline, running>> /\ Halted'
      /\ \A j : Looks(j) => Looks(j)'
  BY <1>3, CallLooks DEF Watched
<1>5. /\ waiting'[k] = Append(waiting[k], o) /\ waiting[k] \in Seq(Op)
      /\ \A j \in TimerTick : j # k => waiting'[j] = waiting[j]
  BY <1>3 DEF TypeOK
<1>6. /\ waiting'[k] \in Seq(Op) /\ Len(waiting'[k]) = Len(waiting[k]) + 1
      /\ DOMAIN waiting[k] = 1 .. Len(waiting[k])
      /\ \A i \in 1 .. Len(waiting[k]) : waiting'[k][i] = waiting[k][i]
      /\ waiting'[k][Len(waiting[k]) + 1] = o
      /\ DOMAIN waiting'[k] = 1 .. Len(waiting[k]) + 1
  BY <1>5
<1>7. Keys' = Keys \cup {k} /\ (k \in Keys <=> waiting[k] # <<>>)
  BY <1>5, <1>6 DEF Keys
<1>8. Window'
  <2>1. InWindow(k)
    BY <1>1, DueInWindow DEF TypeOK
  <2> QED BY <1>4, <1>7, <2>1 DEF Watched, Window, InWindow
<1>9. \A j \in Keys : \A p \in ToSet(waiting[j]) : ao_thread'[p] = ao_thread[p]
  <2>1. \A j \in Keys : \A p \in ToSet(waiting[j]) : p \in Op /\ p # o
    BY <1>3, NodeFacts, TypeParts, TickFacts DEF Idle
  <2> QED BY <1>3, <2>1 DEF TypeOK
<1>10. ASSUME NEW j \in Keys', j # k PROVE Kept(j)'
  <2>1. j \in Keys /\ waiting'[j] = waiting[j] /\ Kept(j)
    BY <1>5, <1>7, <1>10 DEF Watched, Claimed, Keys
  <2>2. waiting[j] \in Seq(Op) /\ waiting[j] # <<>>
    BY <2>1, NodeFacts, TypeParts
  <2> QED BY <1>4, <1>9, <2>1, <2>2, KeptSame
<1>11. Kept(k)'
  <2>1. ao_thread'[o] = Null
    BY <1>3 DEF TypeOK
  <2>2. CASE k \in Keys
    <3>1. \A i \in DOMAIN waiting[k] : ao_thread'[waiting[k][i]] = ao_thread[waiting[k][i]]
      BY <1>9, <2>2 DEF ToSet
    <3>2. 1 \in 1 .. Len(waiting[k]) /\ Head(waiting[k]) = waiting[k][1]
      BY <1>5, <1>7, <2>2
    <3>3. Head(waiting'[k]) = waiting'[k][1]
      BY <1>6
    <3>4. Kept(k)
      BY <2>2 DEF Watched, Claimed
    <3>5. \A i \in DOMAIN waiting'[k] : i # 1 => ao_thread'[waiting'[k][i]] = Null
      BY <1>6, <2>1, <3>1, <3>4 DEF Kept
    <3>6. ao_thread'[Head(waiting'[k])] = ao_thread[Head(waiting[k])]
      BY <1>6, <3>1, <3>2, <3>3
    <3> QED BY <1>4, <3>4, <3>5, <3>6 DEF Kept, Keeps
  <2>3. CASE k \notin Keys
    <3>1. Len(waiting[k]) = 0
      BY <1>5, <1>7, <2>3
    <3>2. DOMAIN waiting'[k] = 1 .. 1 /\ Head(waiting'[k]) = o
      BY <1>6, <3>1
    <3> QED BY <2>1, <3>2, ThreadAssumption DEF Kept
  <2> QED BY <2>2, <2>3
<1>12. ASSUME w = TRUE, NoOversleep PROVE NoOversleep'
  <2> SUFFICES ASSUME AllRun', NEW j \in Keys', IsFirst(j)' PROVE Looks(j)'
    BY DEF NoOversleep, AllRun, Looks
  <2>1. \A i \in Keys : Compare(j, i) <= 0
    BY <1>7 DEF IsFirst
  <2>2. CASE j \in Keys
    BY <1>4, <1>12, <2>1, <2>2 DEF IsFirst, NoOversleep, AllRun, Looks
  <2>3. CASE j \notin Keys
    <3>1. j = k /\ NewFirst(k)
      BY <1>7, <2>1, <2>3 DEF NewFirst, IsFirst
    <3>2. owe'[x] = PublicWake
      BY <1>2, <1>3, <1>12, <3>1 DEF CallMade, TypeOK
    <3> QED BY <3>2 DEF Looks
  <2> QED BY <2>2, <2>3
<1> QED BY <1>4, <1>7, <1>8, <1>10, <1>11, <1>12 DEF Watched, Claimed

(* AOperatorSignal: the node of a cancelled timer may go, or its first     *)
(* follower becomes the node - unclaimed, so the threads that skipped it   *)
(* for the claim of the old one must still be in time for it.              *)
LEMMA UnwaitWatched ==
  ASSUME TypeOK, Waiting, Watched, NEW x \in Caller, NEW o \in Op, NEW wake, MayCall(x),
         CallMade(x, wake), Unwait(o)
  PROVE  Watched' /\ (NoOversleep => NoOversleep')
<1>1. CASE waiting' = waiting
  <2>1. Keys' = Keys /\ ao_thread' = ao_thread
    BY <1>1 DEF Unwait, Keys
  <2>2. /\ UNCHANGED <<now, deadline, running>> /\ Halted'
        /\ \A k : Looks(k) => Looks(k)'
    BY CallLooks DEF Watched
  <2>3. Window' /\ Claimed'
    BY <1>1, <2>1, <2>2 DEF Watched, Window, InWindow, Claimed, Kept, Keeps
  <2>4. NoOversleep => NoOversleep'
    BY <2>1, <2>2 DEF NoOversleep, IsFirst, Looks
  <2> QED BY <2>2, <2>3, <2>4 DEF Watched
<1>2. CASE waiting' # waiting
  <2>1. PICK k \in TimerTick : k = ao_tick[o]
    BY <1>2 DEF Unwait, TypeOK, TimerTick
  <2> DEFINE w == waiting[k]
  <2>2. waiting' = [waiting EXCEPT ![k] = Unlink(@, o)] /\ ao_thread' = ao_thread
    BY <1>2, <2>1 DEF Unwait
  <2>3. PICK s \in Seq(Op) : s = w /\ IsInjective(s) /\ o \in ToSet(s)
    BY <2>1 DEF TypeOK, Waiting, DueIsListed
  <2>4. PICK i \in DOMAIN s : Unlink(s, o) = RemoveAt(s, i) /\ s[i] = o
    <3>1. \E i \in DOMAIN s : s[i] = o
      BY <2>3 DEF ToSet
    <3>2. (CHOOSE i \in DOMAIN s : s[i] = o) \in DOMAIN s
          /\ s[CHOOSE i \in DOMAIN s : s[i] = o] = o
      BY <3>1
    <3> QED BY <3>2 DEF Unlink
  <2>5. PICK r \in Seq(Op) : r = RemoveAt(s, i)
    BY <2>3, <2>4, RemoveAtFacts
  <2>6. /\ Len(s) \in Nat /\ i \in 1 .. Len(s) /\ Len(r) = Len(s) - 1 /\ k \in Keys
        /\ \A j \in 1 .. Len(s) - 1 : r[j] = IF j < i THEN s[j] ELSE s[j + 1]
    BY <2>3, <2>4, <2>5, RemoveAtFacts DEF Keys
  <2>7. /\ waiting'[k] = r /\ \A j \in TimerTick : j # k => waiting'[j] = waiting[j]
    <3>1. Unlink(waiting[k], o) = r
      BY <2>3, <2>4, <2>5
    <3>2. waiting \in [TimerTick -> Seq(Op)]
      BY DEF TypeOK
    <3>3. waiting'[k] = Unlink(waiting[k], o)
      BY <2>2, <3>2 DEF w
    <3>4. \A j \in TimerTick : j # k => waiting'[j] = waiting[j]
      BY <2>2, <3>2
    <3> QED BY <3>1, <3>3, <3>4
  <2> HIDE DEF w
  <2>8. Keys' \subseteq Keys /\ Keys \subseteq Keys' \cup {k}
    BY <2>6, <2>7 DEF Keys
  <2>9. /\ UNCHANGED <<now, deadline, running>> /\ Halted'
        /\ \A j : Looks(j) => Looks(j)'
    BY CallLooks DEF Watched
  <2>10. Window'
    BY <2>8, <2>9 DEF Watched, Window, InWindow
  <2>11. ASSUME NEW j \in Keys', j # k PROVE Kept(j)'
    <3>1. j \in Keys /\ waiting'[j] = waiting[j] /\ Kept(j)
      BY <2>7, <2>8, <2>11 DEF Watched, Claimed, Keys
    <3> QED BY <2>2, <2>9, <3>1 DEF Kept, Keeps
  <2>12. ASSUME r # <<>> PROVE Kept(k)'
    <3>1. 1 \in 1 .. Len(s) - 1 /\ DOMAIN r = 1 .. Len(s) - 1 /\ DOMAIN s = 1 .. Len(s)
          /\ Head(r) = r[1] /\ Head(s) = s[1]
      BY <2>3, <2>6, <2>12
    <3>2. Kept(k)
      BY <2>6 DEF Watched, Claimed
    <3>3. /\ \A j \in DOMAIN s : j # 1 => ao_thread[s[j]] = Null
          /\ \A t \in Thread : ao_thread[s[1]] = t => Keeps(t, k)
      BY <2>3, <3>1, <3>2 DEF Kept, w
    <3>4. ASSUME NEW j \in DOMAIN r, j # 1 PROVE ao_thread[r[j]] = Null
      <4>1. j \in DOMAIN s /\ j + 1 \in DOMAIN s /\ j + 1 # 1
        BY <3>1, <2>6
      <4>2. r[j] = s[j] \/ r[j] = s[j + 1]
        BY <2>6, <3>1
      <4> QED BY <3>3, <3>4, <4>1, <4>2
    <3>5. r[1] = s[1] \/ ao_thread[r[1]] = Null
      <4>1. 2 \in DOMAIN s /\ 1 + 1 = 2
        BY <3>1, <2>6
      <4>2. r[1] = s[1] \/ r[1] = s[2]
        BY <2>6, <3>1, <4>1
      <4> QED BY <3>3, <4>1, <4>2
    <3>6. \A t \in Thread : ao_thread[r[1]] = t => Keeps(t, k)
      BY <3>3, <3>5, ThreadAssumption
    <3> QED BY <2>2, <2>7, <2>9, <3>1, <3>4, <3>6 DEF Kept, Keeps
  <2>13. Claimed'
    BY <2>7, <2>11, <2>12 DEF Claimed, Keys
  <2>14. ASSUME NoOversleep PROVE NoOversleep'
    <3> SUFFICES ASSUME AllRun', NEW j \in Keys', IsFirst(j)' PROVE Looks(j)'
      BY DEF NoOversleep, AllRun, Looks
    <3>1. AllRun /\ j \in Keys
      BY <2>8, <2>9 DEF AllRun
    <3>2. Looks(j)
      BY <2>8, <2>14, <3>1, FirstAfter DEF Watched
    <3> QED BY <2>9, <3>2
  <2> QED BY <2>9, <2>10, <2>13, <2>14 DEF Watched
<1> QED BY <1>1, <1>2

(* The calls of the program, together.                                     *)
LEMMA CallWatched ==
  ASSUME TypeOK, Waiting, Watched, NEW x \in Caller, Call(x)
  PROVE  Watched' /\ (Wakeups \subseteq {TRUE} /\ NoOversleep => NoOversleep')
<1>1. PICK o \in Op :
        \/ PostPending(x, o) \/ PostNow(x, o) \/ SignalCancel(x, o)
        \/ \E d \in Timeouts, w \in Wakeups : PostTimer(x, o, d, w)
        \/ \E at \in Thread : ThreadPost(x, o, at) \/ SignalWakeup(x, o, at)
  BY DEF Call
<1>2. CASE PostPending(x, o) \/ PostNow(x, o)
  <2>1. PICK wake : MayCall(x) /\ Idle(o) /\ CallMade(x, wake)
    BY <1>2 DEF PostPending, PostNow
  <2>2. waiting' = waiting /\ ao_thread' = [ao_thread EXCEPT ![o] = Null]
    BY <1>2 DEF PostPending, PostNow
  <2> QED BY <2>1, <2>2, TreeUnchanged DEF Idle
<1>3. ASSUME NEW at \in Thread, ThreadPost(x, o, at) PROVE Watched' /\ (NoOversleep => NoOversleep')
  <2>1. PICK wake : MayCall(x) /\ Idle(o) /\ CallMade(x, wake)
    BY <1>3 DEF ThreadPost, Queue
  <2>2. waiting' = waiting /\ ao_thread' = ao_thread
    BY <1>3 DEF ThreadPost, timers
  <2> QED BY <2>1, <2>2, TreeUnchanged DEF Idle
<1>4. CASE SignalCancel(x, o) \/ \E at \in Thread : SignalWakeup(x, o, at)
  <2>1. PICK wake : MayCall(x) /\ CallMade(x, wake) /\ Unwait(o)
    BY <1>4 DEF SignalCancel, SignalWakeup, Queue
  <2> QED BY <2>1, UnwaitWatched
<1>5. ASSUME NEW d \in Timeouts, NEW w \in Wakeups, PostTimer(x, o, d, w)
      PROVE  Watched' /\ (Wakeups \subseteq {TRUE} /\ NoOversleep => NoOversleep')
  BY <1>5, PostTimerWatched
<1> QED BY <1>1, <1>2, <1>3, <1>4, <1>5

----------------------------------------------------------------------------
(* The loop of a thread.                                                   *)

(* An expired node goes while its thread holds the mutex, and checks.      *)
LEMMA ExpireWatched ==
  ASSUME TypeOK, Waiting, Watched, NEW t \in Thread, Expire(t)
  PROVE  Watched' /\ NoOversleep'
<1>1. PICK k \in Keys : waiting' = [waiting EXCEPT ![k] = <<>>]
  BY DEF Expire
<1>2. /\ pc[t] = "check" /\ UNCHANGED <<now, ao_thread, pc, deadline, running>>
  BY DEF Expire
<1>3. \A j \in Keys' : j \in Keys /\ waiting'[j] = waiting[j]
  BY <1>1 DEF Keys, TypeOK
<1>4. Window' /\ Halted'
  BY <1>2, <1>3 DEF Watched, Window, Halted, InWindow
<1>5. Claimed'
  BY <1>2, <1>3 DEF Watched, Claimed, Kept, Keeps
<1>6. NoOversleep'
  BY <1>2 DEF NoOversleep, Watches, WillCheck, Ended, Joined
<1> QED BY <1>4, <1>5, <1>6 DEF Watched

(* The wait a check ends with: until the first node that no other thread   *)
(* has claimed, or max_timewait if that is sooner or there is none.        *)
LEMMA ClaimLimit ==
  ASSUME TypeOK, Waiting, Watched, NEW t \in Thread, ClaimNext(t),
         \A k \in Keys : ~Due(k)
  PROVE  \E limit \in Tick :
           /\ deadline' = [deadline EXCEPT ![t] = limit] /\ InWindow(limit)
           /\ \A k \in Keys : Claimable(t, k) => Compare(limit, k) <= 0
           /\ \/ ao_thread' = ao_thread
              \/ \E k \in Keys : /\ Claimable(t, k)
                               /\ ao_thread' = [ao_thread EXCEPT ![Head(waiting[k])] = t]
<1>1. /\ now \in Tick /\ Reach \in Nat /\ MaxTimewait \in Nat /\ MaxTimewait <= Reach
      /\ \A k \in Keys : k \in Tick /\ InWindow(k)
  BY KeyFacts, ReachFact, TickAssumption DEF Watched, Window
<1>2. CASE \E k \in Keys : Claimable(t, k)
  <2>1. PICK k \in Keys :
          /\ Claims(t, k)
          /\ ao_thread' = [ao_thread EXCEPT ![Head(waiting[k])] = t]
          /\ deadline' = [deadline EXCEPT ![t] =
               (now + (IF -Compare(now, k) < MaxTimewait
                       THEN -Compare(now, k) ELSE MaxTimewait)) % TickCount]
    BY <1>2 DEF ClaimNext
  <2> DEFINE n == IF -Compare(now, k) < MaxTimewait THEN -Compare(now, k) ELSE MaxTimewait
             limit == (now + n) % TickCount
  <2>2. /\ k \in Tick /\ InWindow(k) /\ Compare(now, k) \in Int
        /\ -Reach <= Compare(now, k) /\ ~(Compare(now, k) >= -1)
    BY <1>1, CompareSum DEF InWindow, Due
  <2>3. n \in 0 .. Reach /\ n <= -Compare(now, k)
    BY <1>1, <2>2
  <2>4. deadline' = [deadline EXCEPT ![t] = limit]
    BY <2>1
  <2> HIDE DEF n
  <2>5. limit \in Tick /\ InWindow(limit) /\ Compare(now, limit) = -n
    BY <1>1, <2>3, SoonInWindow
  <2> HIDE DEF limit
  <2>6. ASSUME NEW j \in Keys, Claimable(t, j) PROVE Compare(limit, j) <= 0
    <3>1. Compare(k, j) <= 0 /\ j \in Tick /\ InWindow(j)
      BY <1>1, <2>1, <2>6 DEF Claims
    <3>2. /\ Compare(k, j) = Compare(now, j) - Compare(now, k)
          /\ Compare(limit, j) = Compare(now, j) - Compare(now, limit)
          /\ Compare(now, j) \in Int
      BY <1>1, <2>2, <2>5, <3>1, WindowOrder
    <3> QED BY <2>2, <2>3, <2>5, <3>1, <3>2
  <2> QED BY <2>1, <2>4, <2>5, <2>6 DEF Claims
<1>3. CASE ~ \E k \in Keys : Claimable(t, k)
  <2> DEFINE limit == (now + MaxTimewait) % TickCount
  <2>1. deadline' = [deadline EXCEPT ![t] = limit] /\ ao_thread' = ao_thread
    BY <1>3 DEF ClaimNext
  <2>2. MaxTimewait \in 0 .. Reach
    BY <1>1
  <2>3. limit \in Tick /\ InWindow(limit)
    BY <1>1, <2>2, SoonInWindow
  <2> QED BY <1>3, <2>1, <2>3
<1> QED BY <1>2, <1>3

(* A check ends with a deadline in time for every node the thread may      *)
(* claim; the others are kept by the threads that claimed them.            *)
LEMMA EndCheckWatched ==
  ASSUME TypeOK, Waiting, Watched, NEW t \in Thread, EndCheck(t)
  PROVE  Watched' /\ NoOversleep'
<1>1. PICK limit \in Tick :
        /\ deadline' = [deadline EXCEPT ![t] = limit] /\ InWindow(limit)
        /\ \A k \in Keys : Claimable(t, k) => Compare(limit, k) <= 0
        /\ \/ ao_thread' = ao_thread
           \/ \E k \in Keys : /\ Claimable(t, k)
                            /\ ao_thread' = [ao_thread EXCEPT ![Head(waiting[k])] = t]
  BY ClaimLimit DEF EndCheck
<1>2. /\ UNCHANGED <<now, waiting, running, events, pub_edge, prv_edge, owe>>
      /\ pc' = [pc EXCEPT ![t] = "batch"] /\ Keys' = Keys
  BY DEF EndCheck, signals, Keys
<1>3. /\ deadline'[t] = limit /\ limit # NoDeadline
      /\ \A u \in Thread : u # t => deadline'[u] = deadline[u] /\ pc'[u] = pc[u]
      /\ pc'[t] = "batch"
  BY <1>1, <1>2, KeyFacts DEF TypeOK
<1>4. Window'
  BY <1>1, <1>2, <1>3 DEF Watched, Window, InWindow
<1>5. Halted'
  BY <1>2, <1>3 DEF Watched, Halted
<1>6. \A k \in Keys : ao_thread[Head(waiting[k])] = t => Compare(limit, k) <= 0
  BY <1>1 DEF Claimable
<1>7. ASSUME ao_thread' = ao_thread PROVE Claimed'
  <2>1. ASSUME NEW k \in Keys PROVE Kept(k)'
    <3>1. Kept(k)
      BY DEF Watched, Claimed
    <3>2. \A u \in Thread : ao_thread[Head(waiting[k])] = u => Keeps(u, k)'
      BY <1>3, <1>6, <3>1 DEF Kept, Keeps
    <3> QED BY <1>2, <1>7, <3>1, <3>2 DEF Kept
  <2> QED BY <1>2, <2>1 DEF Claimed
<1>8. ASSUME NEW j \in Keys, Claimable(t, j),
             ao_thread' = [ao_thread EXCEPT ![Head(waiting[j])] = t]
      PROVE  Claimed'
  <2>1. PICK h \in Op : h = Head(waiting[j]) /\ ao_tick[h] = j
    BY NodeFacts, TypeParts
  <2>2. ao_thread'[h] = t /\ \A p \in Op : p # h => ao_thread'[p] = ao_thread[p]
    BY <1>8, <2>1 DEF TypeOK
  <2>3. ASSUME NEW k \in Keys PROVE Kept(k)'
    <3>1. /\ 1 \in DOMAIN waiting[k] /\ Head(waiting[k]) = waiting[k][1]
          /\ \A i \in DOMAIN waiting[k] : waiting[k][i] \in Op /\ ao_tick[waiting[k][i]] = k
          /\ \A a, b \in DOMAIN waiting[k] : waiting[k][a] = waiting[k][b] => a = b
      BY NodeFacts, TypeParts
    <3>2. \A i \in DOMAIN waiting[k] : i # 1 => waiting[k][i] # h
      BY <2>1, <3>1
    <3>3. Kept(k)
      BY DEF Watched, Claimed
    <3>4. \A i \in DOMAIN waiting[k] : i # 1 => ao_thread'[waiting[k][i]] = Null
      BY <2>2, <3>1, <3>2, <3>3 DEF Kept
    <3>5. CASE k = j
      <4>1. Compare(limit, k) <= 0 /\ Keeps(t, k)'
        BY <1>1, <1>3, <1>8, <3>5 DEF Keeps
      <4> QED BY <1>2, <2>1, <2>2, <3>4, <3>5, <4>1 DEF Kept
    <3>6. CASE k # j
      <4>1. ao_thread'[Head(waiting[k])] = ao_thread[Head(waiting[k])]
        BY <2>1, <2>2, <3>1, <3>6
      <4> QED BY <1>2, <1>3, <1>6, <3>3, <3>4, <4>1 DEF Kept, Keeps
    <3> QED BY <3>5, <3>6
  <2> QED BY <1>2, <2>3 DEF Claimed
<1>9. Claimed'
  BY <1>1, <1>7, <1>8
<1>10. NoOversleep'
  <2> SUFFICES ASSUME AllRun', NEW k \in Keys', IsFirst(k)' PROVE \E u \in Thread : Watches(u, k)'
    BY DEF NoOversleep, AllRun
  <2>1. k \in Keys /\ waiting[k] # <<>> /\ Head(waiting[k]) \in Op
    BY <1>2, NodeFacts, TypeParts
  <2>2. CASE Claimable(t, k)
    BY <1>1, <1>3, <2>1, <2>2 DEF Watches
  <2>3. CASE ~Claimable(t, k)
    <3>1. PICK u \in Thread : u # t /\ ao_thread[Head(waiting[k])] = u
      BY <2>1, <2>3 DEF Claimable, TypeOK
    <3>2. Keeps(u, k)
      BY <2>1, <3>1 DEF Watched, Claimed, Kept
    <3>3. Keeps(u, k)'
      BY <1>3, <3>1, <3>2 DEF Keeps
    <3>4. pc'[u] \notin {"exit", "drain", "walk", "freed"}
      BY <1>5 DEF Halted, AllRun
    <3> QED BY <3>3, <3>4 DEF Keeps, Watches, WillCheck, Ended, Joined
  <2> QED BY <2>2, <2>3
<1> QED BY <1>4, <1>5, <1>9, <1>10 DEF Watched

(* Every other step of the loop gives a deadline up or brings it forward,  *)
(* and no thread forgets to check - except those whose edge of the public  *)
(* eventfd another thread's read takes away: that thread checks.           *)
LEMMA RunSooner ==
  ASSUME TypeOK, deadline' \in [Thread -> Tick \cup {NoDeadline}], Watched, Served,
         NEW t \in Thread, Run(t) \/ WakeByIo(t), ~Expire(t), ~EndCheck(t)
  PROVE  /\ \A u \in Thread : Sooner(u)
         /\ \A u \in Thread : AllRun /\ WillCheck(u) => \E v \in Thread : WillCheck(v)'
         /\ Halted'
<1>1. /\ UNCHANGED <<now, running>>
      /\ \A u \in Thread : u # t =>
           /\ pc'[u] = pc[u] /\ deadline'[u] = deadline[u] /\ events'[u] = events[u]
           /\ prv_edge'[u] = prv_edge[u] /\ (pub_edge'[u] = pub_edge[u] \/ ReadSignal(t))
  BY DEF Run, BeginCheck, CallNext, Return, WaitAfterCheck, WaitAgain,
         WakeBySignal, ReadSignal, WakeByTimeout, Exit, WakeByIo, TypeOK, timers, signals
<1>2. Sooner(t)
  <2>1. CASE WaitAfterCheck(t)
    <3>1. CASE deadline'[t] = NoDeadline
      BY <3>1 DEF Sooner
    <3>2. CASE deadline'[t] # NoDeadline
      <4>1. deadline[t] # NoDeadline /\ now \in Tick
        BY <2>1 DEF WaitAfterCheck, Served, TypeOK
      <4>2. PICK left \in 1 .. Compare(deadline[t], now) :
              deadline' = [deadline EXCEPT ![t] = (now + left) % TickCount]
        BY <2>1, <3>2 DEF WaitAfterCheck, TypeOK
      <4>3. PICK d \in Tick : d = deadline[t] /\ InWindow(d)
        BY <4>1 DEF TypeOK, Watched, Window
      <4>4. PICK e : e = (now + left) % TickCount
        OBVIOUS
      <4>5. /\ -Reach <= Compare(now, d) /\ Compare(now, d) \in Int /\ Reach \in Nat
            /\ Compare(d, now) = -Compare(now, d)
        BY <4>1, <4>3, CompareSum, ReachFact, HalfFact, TickAssumption DEF InWindow
      <4>6. left \in 0 .. Reach /\ left + Compare(now, d) <= 0
        BY <4>2, <4>3, <4>5
      <4>7. e \in Tick /\ InWindow(e) /\ Compare(now, e) = -left
        BY <4>1, <4>4, <4>6, SoonInWindow
      <4>8. Compare(e, d) = Compare(now, d) - Compare(now, e)
        BY <4>1, <4>3, <4>7, WindowOrder
      <4>9. Compare(e, d) <= 0
        BY <4>5, <4>6, <4>7, <4>8
      <4>10. deadline'[t] = e
        BY <4>2, <4>4 DEF TypeOK
      <4> QED BY <4>1, <4>3, <4>7, <4>9, <4>10 DEF Sooner
    <3> QED BY <3>1, <3>2
  <2>2. CASE ~WaitAfterCheck(t)
    BY <2>2 DEF Sooner, Run, BeginCheck, CallNext, Return, WaitAgain,
       WakeBySignal, ReadSignal, WakeByTimeout, Exit, WakeByIo, TypeOK
  <2> QED BY <2>1, <2>2
<1>3. Halted'
  <2>1. pc'[t] \in {"exit", "drain", "walk", "freed"} => ~running[t]
    BY DEF Run, BeginCheck, CallNext, Return, WaitAfterCheck, WaitAgain,
       WakeBySignal, ReadSignal, WakeByTimeout, Exit, WakeByIo, TypeOK
  <2> QED BY <1>1, <2>1 DEF Watched, Halted
<1>4. CASE ReadSignal(t)
  <2>1. WillCheck(t)'
    BY <1>4 DEF ReadSignal, WillCheck, Ended, Joined, TypeOK
  <2> QED BY <1>1, <1>2, <1>3, <2>1 DEF Sooner
<1>5. CASE ~ReadSignal(t)
  <2>1. \A u \in Thread : u # t => (WillCheck(u) => WillCheck(u)')
    BY <1>1, <1>5 DEF WillCheck, Ended, Joined
  <2>2. AllRun /\ WillCheck(t) => WillCheck(t)'
    <3> USE DEF WillCheck, Ended, Joined, TypeOK
    <3>1. CASE BeginCheck(t)
      BY <3>1 DEF BeginCheck
    <3>2. CASE CallNext(t) \/ Return(t)
      BY <3>2 DEF CallNext, Return, timers, signals
    <3>3. CASE WaitAfterCheck(t)
      BY <3>3 DEF WaitAfterCheck, signals, Served
    <3>4. CASE WaitAgain(t)
      BY <3>4 DEF WaitAgain, signals
    <3>5. CASE WakeBySignal(t)
      BY <3>5 DEF WakeBySignal
    <3>6. CASE WakeByTimeout(t)
      BY <3>6 DEF WakeByTimeout, signals
    <3>7. CASE Exit(t)
      BY <3>7 DEF Exit, AllRun
    <3>8. CASE WakeByIo(t)
      <4>1. /\ pc[t] = "sleep" /\ pc'[t] = "io" /\ events[t] = {}
            /\ events'[t] = Reported(t) /\ prv_edge' = prv_edge /\ deadline' = deadline
        BY <3>8 DEF WakeByIo, Served
      <4>2. pub_edge[t] => Reported(t) # {}
        BY DEF Reported
      <4> QED BY <4>1, <4>2
    <3> QED BY <1>5, <3>1, <3>2, <3>3, <3>4, <3>5, <3>6, <3>7, <3>8 DEF Run
  <2>3. \A u \in Thread : AllRun /\ WillCheck(u) => WillCheck(u)'
    BY <2>1, <2>2
  <2> QED BY <1>1, <1>2, <1>3, <2>3 DEF Sooner
<1> QED BY <1>4, <1>5

(* So the loop of a thread keeps the invariant.                            *)
LEMMA RunWatched ==
  ASSUME TypeOK, TypeOK', Waiting, Watched, Served, NEW t \in Thread, Run(t) \/ WakeByIo(t)
  PROVE  Watched' /\ (NoOversleep => NoOversleep')
<1>1. CASE Expire(t) \/ EndCheck(t)
  BY <1>1, ExpireWatched, EndCheckWatched
<1>2. CASE ~Expire(t) /\ ~EndCheck(t)
  <2>1. UNCHANGED <<now, ao_thread, waiting, running, owe>>
    BY <1>2 DEF Run, BeginCheck, CallNext, Return, WaitAfterCheck, WaitAgain,
       WakeBySignal, ReadSignal, WakeByTimeout, Exit, WakeByIo, timers
  <2>2. deadline' \in [Thread -> Tick \cup {NoDeadline}]
    BY DEF TypeOK
  <2>3. /\ \A u \in Thread : Sooner(u)
        /\ \A u \in Thread : AllRun /\ WillCheck(u) => \E v \in Thread : WillCheck(v)'
        /\ Halted'
    BY <1>2, <2>2, RunSooner
  <2>4. Window' /\ Claimed'
    BY <2>1, <2>2, <2>3, SoonerKeeps DEF Watched
  <2>5. ASSUME NoOversleep PROVE NoOversleep'
    BY <2>1, <2>2, <2>3, <2>5, SoonerStep DEF Watched
  <2> QED BY <2>3, <2>4, <2>5 DEF Watched
<1> QED BY <1>1, <1>2

(* The clock: it waits before a tick in use leaves the window.             *)
LEMMA ClockWatched ==
  ASSUME TypeOK, Watched, ClockTick
  PROVE  Watched' /\ (NoOversleep => NoOversleep')
<1>1. PICK next \in Tick : next = now' /\ next = (now + 1) % TickCount
  BY SoonInWindow, CompareLater, HalfFact DEF ClockTick, TypeOK
<1>2. /\ UNCHANGED <<ao_thread, waiting, pc, deadline, running, events, pub_edge, prv_edge,
                     owe>>
      /\ \A k \in Keys : Compare(now, k) < Slack
      /\ \A t \in Thread : deadline[t] # NoDeadline => Compare(now, deadline[t]) < Slack
  BY DEF ClockTick, timers, signals
<1>3. Keys' = Keys
  BY <1>2 DEF Keys
<1>4. ASSUME NEW k \in Tick, InWindow(k), Compare(now, k) < Slack PROVE InWindow(k)'
  <2>1. Compare(next, now) = 1 /\ now \in Tick
    BY <1>1, CompareLater, HalfFact DEF TypeOK
  <2>2. Compare(now, k) \in Int /\ -Reach <= Compare(now, k) /\ Reach + Slack = Half - 1
        /\ Reach \in Nat /\ Slack \in Nat /\ Half \in Nat
    BY <1>4, <2>1, CompareSum, ReachFact, HalfFact, TickAssumption DEF InWindow
  <2>3. Compare(next, k) = 1 + Compare(now, k)
    <3>1. 1 + Compare(now, k) \in 1 - Half .. Half - 1
      BY <1>4, <2>2
    <3> QED BY <2>1, <3>1, CompareSum
  <2>4. -Reach <= Compare(next, k) /\ Compare(next, k) <= Slack
    BY <1>4, <2>2, <2>3
  <2> QED BY <1>1, <2>4 DEF InWindow
<1>5. Window'
  BY <1>2, <1>3, <1>4, KeyFacts DEF Watched, Window
<1>6. Claimed' /\ Halted'
  BY <1>2, <1>3 DEF Watched, Claimed, Halted, Kept, Keeps
<1>7. NoOversleep => NoOversleep'
  BY <1>2, <1>3 DEF NoOversleep, IsFirst, Watches, WillCheck, Ended, Joined
<1> QED BY <1>5, <1>6, <1>7 DEF Watched

(* No thread starts again, and the pool's own is joined once.              *)
LEMMA HaltedStep ==
  ASSUME TypeOK, Emptied, Halted, [Next]_vars
  PROVE  Halted' /\ (Live' => Live)
<1> USE DEF Halted, Live
<1>1. ASSUME NEW x \in Caller, Call(x) PROVE Halted' /\ (Live' => Live)
  <2>1. MayCall(x) /\ \E wake : CallMade(x, wake)
    BY <1>1 DEF Call, PostPending, PostNow, SignalCancel, PostTimer, ThreadPost,
       SignalWakeup, Queue
  <2> QED BY <2>1 DEF MayCall, CallMade, Joined, TypeOK
<1>2. ASSUME NEW t \in Thread, Run(t) \/ WakeByIo(t) PROVE Halted' /\ (Live' => Live)
  <2>1. Live /\ UNCHANGED running
    BY <1>2, RunEmptied DEF Run, BeginCheck, Expire, EndCheck, CallNext, Return,
       WaitAfterCheck, WaitAgain, WakeBySignal, ReadSignal, WakeByTimeout, Exit, WakeByIo
  <2>2. /\ \A u \in Thread : u # t => pc'[u] = pc[u]
        /\ pc'[t] \in {"exit", "drain", "walk", "freed"} => ~running[t]
    BY <1>2 DEF Run, BeginCheck, Expire, EndCheck, CallNext, Return, WaitAfterCheck,
       WaitAgain, WakeBySignal, ReadSignal, WakeByTimeout, Exit, WakeByIo, TypeOK
  <2> QED BY <2>1, <2>2
<1>3. ASSUME NEW t \in Thread, ThreadEnd(t) PROVE Halted' /\ (Live' => Live)
  <2>1. /\ UNCHANGED running /\ pc[t] \in {"exit", "drain", "walk"}
        /\ pc[t] # "exit" => pc'[t] \in {"drain", "walk", "freed"}
        /\ pc[t] = "exit" => Join(t)
        /\ \A u \in Thread : u # t => pc'[u] = pc[u]
    BY <1>3 DEF ThreadEnd, Join, DrainReturn, DrainPrivate, WorkerFreed, SplicePublic,
       DrainTree, DrainPending, PoolFreed, Drained, TypeOK
  <2>2. \A u \in Thread : pc'[u] = pc[u] \/ u = t
    BY <2>1
  <2> QED BY <2>1, <2>2, ThreadAssumption DEF Joined
<1>4. ASSUME NEW x \in Caller, Wakeup(x) PROVE Halted' /\ (Live' => Live)
  BY <1>4 DEF Wakeup, Joined
<1>5. ASSUME NEW x \in Client, NEW t \in Thread, ThreadAbort(x, t)
      PROVE  Halted' /\ (Live' => Live)
  BY <1>5 DEF ThreadAbort, Joined, TypeOK
<1>6. CASE ClockTick \/ Stopped \/ UNCHANGED vars
  BY <1>6 DEF ClockTick, Stopped, vars, Joined
<1> QED BY <1>1, <1>2, <1>3, <1>4, <1>5, <1>6 DEF Next

(* Every step keeps the window and the claims; and no timer is overslept   *)
(* as long as every one is posted with wakeup.                             *)
LEMMA WatchedStep ==
  ASSUME TypeOK, TypeOK', Emptied, Waiting, Watched, Served, Live, [Next]_vars
  PROVE  Watched' /\ (Wakeups \subseteq {TRUE} /\ NoOversleep => NoOversleep')
<1>1. ASSUME NEW x \in Caller, Call(x)
      PROVE  Watched' /\ (Wakeups \subseteq {TRUE} /\ NoOversleep => NoOversleep')
  BY <1>1, CallWatched
<1>2. ASSUME NEW x \in Caller, Wakeup(x) PROVE Watched' /\ (NoOversleep => NoOversleep')
  <2>1. UNCHANGED <<now, ao_thread, waiting, pc, deadline, running, events>>
    BY <1>2 DEF Wakeup, timers
  <2>2. /\ \A y \in Caller : owe[y] = PublicWake =>
             owe'[y] = PublicWake \/ \E u \in Thread : WillCheck(u)'
        /\ \A u \in Thread : WillCheck(u) => WillCheck(u)'
    <3>1. /\ \A y \in Caller : y # x => owe'[y] = owe[y]
          /\ \A u \in Thread : /\ pub_edge[u] => pub_edge'[u]
                               /\ prv_edge[u] => prv_edge'[u]
      BY <1>2 DEF Wakeup, TypeOK
    <3>2. owe[x] = PublicWake => pub_edge'[Pool]
      BY <1>2, ThreadAssumption DEF Wakeup
    <3> QED BY <2>1, <3>1, <3>2, ThreadAssumption DEF WillCheck, Ended, Joined
  <2>3. (\A t \in Thread : Sooner(t)) /\ Halted'
    BY <2>1 DEF Sooner, Watched, Halted
  <2>4. deadline' \in [Thread -> Tick \cup {NoDeadline}]
    BY DEF TypeOK
  <2>5. Window' /\ Claimed'
    BY <2>1, <2>3, <2>4, SoonerKeeps DEF Watched
  <2>6. ASSUME NoOversleep PROVE NoOversleep'
    BY <2>1, <2>2, <2>3, <2>4, <2>6, SoonerStep DEF Watched
  <2> QED BY <2>3, <2>5, <2>6 DEF Watched
<1>3. ASSUME NEW t \in Thread, Run(t) \/ WakeByIo(t)
      PROVE  Watched' /\ (NoOversleep => NoOversleep')
  BY <1>3, RunWatched
<1>4. ASSUME NEW t \in Thread, ThreadEnd(t)
      PROVE  Watched' /\ (NoOversleep => NoOversleep')
  <2>1. ~DrainTree(t)
    BY <1>4 DEF DrainTree, Emptied, Live, Joined
  <2>2. UNCHANGED <<now, ao_thread, waiting, deadline, running>>
    BY <1>4, <2>1 DEF ThreadEnd, Join, DrainReturn, DrainPrivate, WorkerFreed, SplicePublic,
       DrainPending, PoolFreed, timers
  <2>3. Halted' /\ pc[t] \in {"exit", "drain", "walk"}
    BY <1>4, HaltedStep DEF Next, Watched, ThreadEnd, Join, DrainReturn, DrainPrivate,
       WorkerFreed, SplicePublic, DrainTree, DrainPending, PoolFreed, Drained
  <2>4. ~running'[t]
    BY <2>2, <2>3 DEF Watched, Halted
  <2>5. NoOversleep'
    BY <2>4 DEF NoOversleep
  <2>6. Window' /\ Claimed'
    BY <2>2 DEF Watched, Window, InWindow, Claimed, Kept, Keeps, Keys
  <2> QED BY <2>3, <2>5, <2>6 DEF Watched
<1>5. ASSUME NEW x \in Client, NEW t \in Thread, ThreadAbort(x, t)
      PROVE  Watched' /\ (NoOversleep => NoOversleep')
  <2>1. /\ UNCHANGED <<now, ao_thread, waiting, pc, deadline>>
        /\ running' = [running EXCEPT ![t] = FALSE]
    BY <1>5 DEF ThreadAbort, timers
  <2>2. Window' /\ Claimed'
    BY <2>1 DEF Watched, Window, InWindow, Claimed, Kept, Keeps, Keys
  <2>3. Halted' /\ NoOversleep'
    BY <2>1 DEF Watched, Halted, NoOversleep, TypeOK
  <2> QED BY <2>2, <2>3 DEF Watched
<1>6. CASE ClockTick
  BY <1>6, ClockWatched
<1>7. CASE Stopped \/ UNCHANGED vars
  <2>1. UNCHANGED <<now, ao_thread, waiting, pc, deadline, running, events, pub_edge,
                    prv_edge, owe>>
    BY <1>7 DEF Stopped, vars
  <2>2. Watched'
    BY <2>1 DEF Watched, Window, InWindow, Claimed, Kept, Keeps, Keys, Halted
  <2>3. NoOversleep => NoOversleep'
    BY <2>1 DEF NoOversleep, IsFirst, Keys, Watches, WillCheck, Ended, Joined
  <2> QED BY <2>2, <2>3
<1> QED BY <1>1, <1>2, <1>3, <1>4, <1>5, <1>6, <1>7 DEF Next

(* At the start no timer waits, and every thread is about to check.        *)
LEMMA WatchedInit == Init => Watched /\ Served /\ NoOversleep
<1> SUFFICES ASSUME Init PROVE Watched /\ Served /\ NoOversleep
  OBVIOUS
<1>1. Keys = {} /\ \A t \in Thread : deadline[t] = NoDeadline /\ pc[t] = "loop"
  BY DEF Init, Keys
<1>2. Watched
  BY <1>1 DEF Watched, Window, Claimed, Halted
<1>3. Served
  BY DEF Init, Served
<1> QED BY <1>1, <1>2, <1>3 DEF NoOversleep

(* While the pool is drained no thread runs, and no timer is due to one.   *)
Watching ==
  /\ Halted /\ Served /\ (Live => Watched)
  /\ Wakeups \subseteq {TRUE} => NoOversleep

LEMMA WatchingInvariant == Spec => [](TypeOK /\ Emptied /\ Spread /\ Watching)
<1>1. Init => Watching
  BY WatchedInit DEF Watching, Watched
<1>2. TypeOK /\ TypeOK' /\ Emptied /\ Spread /\ Watching /\ [Next]_vars => Watching'
  <2> SUFFICES ASSUME TypeOK, TypeOK', Emptied, Spread, Watching, [Next]_vars
               PROVE  Watching'
    OBVIOUS
  <2>1. Halted' /\ (Live' => Live) /\ Served'
    BY HaltedStep, ServedStep DEF Watching
  <2>2. CASE Live
    <3>1. Watched' /\ (Wakeups \subseteq {TRUE} /\ NoOversleep => NoOversleep')
      BY <2>2, WatchedStep DEF Watching, Spread, Placed
    <3> QED BY <2>1, <3>1 DEF Watching
  <2>3. CASE ~Live
    <3>1. ~Live'
      BY <2>1, <2>3
    <3>2. ~running'[Pool]
      BY <2>1, <3>1, ThreadAssumption DEF Halted, Live, Joined
    <3>3. NoOversleep'
      BY <3>2, ThreadAssumption DEF NoOversleep
    <3> QED BY <2>1, <3>1, <3>3 DEF Watching
  <2> QED BY <2>2, <2>3
<1> QED BY <1>1, <1>2, SpreadInvariant, PTL DEF Spec

(* A claim is kept: the node a thread has claimed is looked at by its      *)
(* tick, whatever was posted, cancelled and claimed in between, and        *)
(* however the clock wraps around.                                         *)
THEOREM ClaimsKept == Spec => []ClaimIsWatched
<1>1. TypeOK /\ Emptied /\ Spread /\ Watching => ClaimIsWatched
  <2> SUFFICES ASSUME TypeOK, Emptied, Spread, Watching, NEW k \in Keys,
                      ao_thread[Head(waiting[k])] # Null,
                      running[ao_thread[Head(waiting[k])]]
               PROVE  Watches(ao_thread[Head(waiting[k])], k)
    BY DEF ClaimIsWatched
  <2>1. Head(waiting[k]) \in Op
    BY TailFacts DEF Keys, TypeOK
  <2>2. PICK t \in Thread : t = ao_thread[Head(waiting[k])]
    BY <2>1 DEF TypeOK
  <2>3. CASE Live
    <3>1. Keeps(t, k) /\ pc[t] \notin {"exit", "drain", "walk", "freed"}
      BY <2>2, <2>3 DEF Watching, Watched, Claimed, Kept, Halted
    <3> QED BY <2>2, <3>1 DEF Keeps, Watches, WillCheck, Ended, Joined
  <2>4. CASE ~Live
    <3>1. pc[t] \in {"drain", "walk", "freed"}
      BY <2>4 DEF Live, Emptied, AllEnded, Joined
    <3> QED BY <2>2, <3>1 DEF Watching, Halted
  <2> QED BY <2>3, <2>4
<1> QED BY <1>1, WatchingInvariant, PTL

(* No timer is overslept while the pool runs, provided delay() is called   *)
(* with wakeup - as every caller in the repository but ALog does.          *)
THEOREM TimersInTime ==
  ASSUME Wakeups \subseteq {TRUE}
  PROVE  Spec => []NoOversleep
<1>1. Watching => NoOversleep
  BY DEF Watching
<1> QED BY <1>1, WatchingInvariant, PTL

----------------------------------------------------------------------------
(* The stop of a thread.  From the moment it has been told until it leaves *)
(* its loop it has an edge of its own eventfd, or is owed one - unless it  *)
(* is where it tests running next.                                         *)
Stopping ==
  \A t \in Thread :
    pc[t] \in {"check", "batch", "call", "called", "sleep"} /\ ~running[t] =>
      prv_edge[t] \/ \E x \in Caller : owe[x] = t

LEMMA StoppingStep ==
  ASSUME TypeOK, Stopping, [Next]_vars
  PROVE  Stopping'
<1> DEFINE Pass == {"check", "batch", "call", "called", "sleep"}
<1> USE DEF Stopping
<1>1. ASSUME NEW x \in Caller, Call(x) PROVE Stopping'
  <2>1. MayCall(x) /\ \E wake : CallMade(x, wake)
    BY <1>1 DEF Call, PostPending, PostNow, SignalCancel, PostTimer, ThreadPost,
       SignalWakeup, Queue
  <2>2. /\ UNCHANGED <<running, prv_edge>> /\ \A t \in Thread : pc'[t] \in Pass => pc[t] \in Pass
        /\ owe[x] = NoWake /\ \A y \in Caller : y # x => owe'[y] = owe[y]
    BY <2>1 DEF MayCall, CallMade, signals, TypeOK
  <2>3. \A t \in Thread : t # NoWake
    BY ThreadAssumption
  <2>4. \A t \in Thread : (\E y \in Caller : owe[y] = t) => \E y \in Caller : owe'[y] = t
    BY <2>2, <2>3
  <2> QED BY <2>2, <2>4
<1>2. ASSUME NEW x \in Caller, Wakeup(x) PROVE Stopping'
  <2>1. /\ UNCHANGED <<pc, running>> /\ \A y \in Caller : y # x => owe'[y] = owe[y]
    BY <1>2 DEF Wakeup, TypeOK
  <2>2. CASE owe[x] = PublicWake
    <3>1. UNCHANGED prv_edge /\ \A t \in Thread : owe[x] # t
      BY <1>2, <2>2, ThreadAssumption DEF Wakeup
    <3> QED BY <2>1, <3>1
  <2>3. CASE owe[x] # PublicWake
    <3>1. prv_edge' = [prv_edge EXCEPT ![owe[x]] = TRUE]
      BY <1>2, <2>3 DEF Wakeup
    <3>2. \A t \in Thread : (prv_edge[t] => prv_edge'[t]) /\ (owe[x] = t => prv_edge'[t])
      BY <3>1 DEF TypeOK
    <3> QED BY <2>1, <3>2
  <2> QED BY <2>2, <2>3
<1>3. ASSUME NEW t \in Thread, Run(t) \/ WakeByIo(t) PROVE Stopping'
  <2>1. /\ UNCHANGED <<running, owe>>
        /\ \A u \in Thread : u # t => pc'[u] = pc[u] /\ prv_edge'[u] = prv_edge[u]
    BY <1>3 DEF Run, BeginCheck, Expire, EndCheck, CallNext, Return, WaitAfterCheck,
       WaitAgain, WakeBySignal, ReadSignal, WakeByTimeout, Exit, WakeByIo, signals, TypeOK
  <2>2. pc'[t] \in Pass /\ ~running[t] => pc[t] \in Pass /\ prv_edge'[t] = prv_edge[t]
    <3>1. CASE WaitAgain(t) \/ BeginCheck(t) \/ ReadSignal(t) \/ WakeByTimeout(t) \/ Exit(t)
      BY <3>1 DEF WaitAgain, BeginCheck, ReadSignal, WakeByTimeout, Exit, TypeOK
    <3>2. CASE WakeBySignal(t) \/ WakeByIo(t) \/ Return(t)
      BY <3>2 DEF WakeBySignal, WakeByIo, Return, signals, TypeOK
    <3>3. CASE Expire(t) \/ EndCheck(t) \/ CallNext(t) \/ WaitAfterCheck(t)
      BY <3>3 DEF Expire, EndCheck, CallNext, WaitAfterCheck, signals, TypeOK
    <3> QED BY <1>3, <3>1, <3>2, <3>3 DEF Run
  <2> QED BY <2>1, <2>2
<1>4. ASSUME NEW t \in Thread, ThreadEnd(t) PROVE Stopping'
  <2>1. /\ UNCHANGED <<running, owe, prv_edge>> /\ pc'[t] \notin Pass
        /\ \A u \in Thread : u # t => pc'[u] = pc[u]
    BY <1>4 DEF ThreadEnd, Join, DrainReturn, DrainPrivate, WorkerFreed, SplicePublic,
       DrainTree, DrainPending, PoolFreed, Drained, signals, TypeOK
  <2> QED BY <2>1
<1>5. ASSUME NEW x \in Client, NEW t \in Thread, ThreadAbort(x, t) PROVE Stopping'
  <2>1. /\ UNCHANGED <<pc, prv_edge>> /\ owe[x] = NoWake /\ x \in Caller
        /\ owe'[x] = t /\ \A y \in Caller : y # x => owe'[y] = owe[y]
        /\ \A u \in Thread : u # t => running'[u] = running[u]
    BY <1>5 DEF ThreadAbort, signals, Caller, TypeOK
  <2>2. \A u \in Thread : u # NoWake
    BY ThreadAssumption
  <2> QED BY <2>1, <2>2
<1>6. CASE ClockTick \/ Stopped \/ UNCHANGED vars
  BY <1>6 DEF ClockTick, Stopped, vars, signals
<1> QED BY <1>1, <1>2, <1>3, <1>4, <1>5, <1>6 DEF Next

(* No thread sleeps through its stop: running is cleared before the write  *)
(* of AThreadAbort, so the read that takes the write off the eventfd is    *)
(* followed by a test of running that sees it.                             *)
THEOREM StopsServed == Spec => []StopIsServed
<1>1. Init => Stopping
  BY DEF Init, Stopping
<1>2. TypeOK /\ Stopping /\ [Next]_vars => Stopping'
  BY StoppingStep
<1>3. Stopping => StopIsServed
  BY DEF Stopping, StopIsServed
<1> QED BY <1>1, <1>2, <1>3, Placement, PTL DEF Spec

(* Every variable keeps its type.                                          *)
THEOREM TypeCorrect == Spec => []TypeOK
  BY Placement, PTL
=============================================================================
