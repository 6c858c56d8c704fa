------------------------ MODULE OperatorLife_proofs ------------------------
(***************************************************************************)
(* The thread pool keeps the promise of OperatorLife, whatever the number  *)
(* of operators, threads and clients: every step of the pool is a step of  *)
(* that module, or none of its owner's concern.                            *)
(***************************************************************************)
EXTENDS ThreadPool_proofs

(* An operator that expired and has yet to be told so.  Until the pool's   *)
(* own thread is joined a tick says that an operator waits.                *)
Fired(o) == \E t \in Thread : \E i \in DOMAIN batch[t] : batch[t][i] = <<o, 0>>
StandingPlain(o) ==
  IF ao_tick[o] # 0 THEN "waiting"
  ELSE IF Fired(o) THEN "fired" ELSE IF Ready(o) THEN "ready" ELSE "idle"

LEMMA StandingIs ==
  ASSUME NEW o
  PROVE  /\ Live => Standing(o) = StandingPlain(o)
         /\ Live' => Standing(o)' = StandingPlain(o)'
  BY DEF Standing, StandingPlain, Fired, Ready, Waits, Queued, Live

(* The operators of a batch, by their entries.                             *)
LEMMA BatchElements ==
  ASSUME NEW b \in Seq(Op \X {0, 1})
  PROVE  \A i \in DOMAIN b : /\ b[i][1] \in ToSet(Operators(b))
                             /\ i \in DOMAIN Operators(b) /\ Operators(b)[i] = b[i][1]
  BY DEF Operators, ToSet

(* What is fired is in a batch, and so ready.                              *)
LEMMA FiredInBatch ==
  ASSUME ListsOK, NEW o, Fired(o)
  PROVE  \E t \in Thread : o \in Batch(t)
<1>1. PICK t \in Thread : \E i \in DOMAIN batch[t] : batch[t][i] = <<o, 0>>
  BY DEF Fired
<1>2. PICK i \in DOMAIN batch[t] : batch[t][i] = <<o, 0>>
  BY <1>1
<1>3. o \in Batch(t)
  BY <1>2, BatchElements DEF ListsOK, Batch
<1> QED BY <1>3

(* Its batch is one of the ready lists.                                    *)
LEMMA FiredIsReady ==
  ASSUME ListsOK, NEW o, Fired(o)
  PROVE  Ready(o)
  BY FiredInBatch DEF Ready

(* An operator stands elsewhere only if its tick or its lists change.      *)
LEMMA StandsStill ==
  ASSUME Live, Live', NEW o, ao_tick'[o] = ao_tick[o], Ready(o)' <=> Ready(o), Fired(o)' <=> Fired(o)
  PROVE  Standing(o)' = Standing(o)
  BY StandingIs DEF StandingPlain

LEMMA FiredSame ==
  ASSUME UNCHANGED batch, NEW o
  PROVE  Fired(o)' <=> Fired(o)
  BY DEF Fired

(* A step that moves one operator, as OperatorLife sees it.                *)
LEMMA MoveOne ==
  ASSUME NEW o \in Op, NEW from, NEW to, Standing(o) = from, Standing(o)' = to,
         \A p \in Op : p # o => Standing(p)' = Standing(p)
  PROVE  Life!Move(o, from, to)
  BY DEF Life!Move

(* What the owners see of a step.                                          *)
Seen == <<[o \in Op |-> Standing(o)], {calling[t] : t \in Thread} \ {NoCall}>>

LEMMA Unseen ==
  ASSUME \A o \in Op : Standing(o)' = Standing(o), UNCHANGED calling
  PROVE  UNCHANGED Seen
<1>1. [o \in Op |-> Standing(o)]' = [o \in Op |-> Standing(o)]
  OBVIOUS
<1>2. ({calling[t] : t \in Thread} \ {NoCall})' = {calling[t] : t \in Thread} \ {NoCall}
  OBVIOUS
<1> QED BY <1>1, <1>2 DEF Seen

(* A step that leaves ticks, lists and calls alone is not seen, unless it  *)
(* is the join of the pool.                                                *)
LEMMA NotSeen ==
  ASSUME UNCHANGED <<timers, public, private, batch, calling>>, Live' <=> Live
  PROVE  UNCHANGED Seen
<1>1. ASSUME NEW o \in Op PROVE Standing(o)' = Standing(o)
  BY DEF timers, Standing, Waits, Timed, Queued, Batch, Live
<1> QED BY <1>1, Unseen

LifeStep == [Life!Next]_Seen

----------------------------------------------------------------------------
(* The calls of the program.                                               *)

(* A posting or a wakeup appends one operator to one ready list.           *)
LEMMA QueueReady ==
  ASSUME ListsOK, NEW x, NEW o \in Op, NEW at \in Thread, Queue(x, o, at)
  PROVE  batch' = batch /\ calling' = calling /\ \A p : Ready(p)' <=> Ready(p) \/ p = o
<1>1. CASE ao_thread[o] = at
  <2>1. /\ private' = [private EXCEPT ![at] = Append(@, o)]
        /\ UNCHANGED <<public, batch, calling>>
    BY <1>1 DEF Queue, CallMade
  <2>2. /\ private'[at] = Append(private[at], o) /\ private[at] \in Seq(Op)
        /\ \A t \in Thread : t # at => private'[t] = private[t]
    BY <2>1 DEF ListsOK
  <2>3. ToSet(private'[at]) = ToSet(private[at]) \cup {o}
    BY <2>2, AppendFacts
  <2> QED BY <2>1, <2>2, <2>3 DEF Ready, Batch
<1>2. CASE ao_thread[o] # at
  <2>1. public' = Append(public, o) /\ UNCHANGED <<private, batch, calling>>
    BY <1>2 DEF Queue, CallMade
  <2>2. ToSet(public') = ToSet(public) \cup {o}
    BY <2>1, AppendFacts DEF ListsOK
  <2> QED BY <2>1, <2>2 DEF Ready, Batch
<1> QED BY <1>1, <1>2

(* Where an idle and a waiting operator stand.                             *)
LEMMA Stands ==
  ASSUME Placed, Live, NEW o
  PROVE  /\ Idle(o) => ~Ready(o) /\ ao_tick[o] = 0 /\ Standing(o) = "idle"
         /\ ao_tick[o] # 0 => ~Ready(o) /\ Standing(o) = "waiting"
  BY IdleIsNotReady, FiredIsReady, StandingIs DEF Placed, StandingPlain

(* An idle operator waits or is ready, one that waits is ready or idle.    *)
LEMMA CallLife ==
  ASSUME TypeOK, Placed, Live, Live', NEW x \in Caller, NEW o \in Op,
         \/ PostPending(x, o) \/ PostNow(x, o) \/ SignalCancel(x, o)
         \/ \E d \in Timeouts, w \in Wakeups : PostTimer(x, o, d, w)
         \/ \E at \in Thread : ThreadPost(x, o, at) \/ SignalWakeup(x, o, at)
  PROVE  Life!Next
<1>0. ListsOK /\ ao_tick \in [Op -> Tick]
  BY DEF Placed, ListsOK
<1>1. calling' = calling /\ batch' = batch
  <2>1. CASE \E at \in Thread : ThreadPost(x, o, at) \/ SignalWakeup(x, o, at)
    BY <1>0, <2>1, QueueReady DEF ThreadPost, SignalWakeup
  <2>2. CASE ~ \E at \in Thread : ThreadPost(x, o, at) \/ SignalWakeup(x, o, at)
    BY <2>2 DEF PostPending, PostNow, SignalCancel, PostTimer, CallMade
  <2> QED BY <2>1, <2>2
<1>2. UNCHANGED ({calling[t] : t \in Thread} \ {NoCall})
  BY <1>1
<1>3. \A p : Fired(p)' <=> Fired(p)
  BY <1>1, FiredSame
<1>4. ASSUME NEW k \in Tick \ {0}, Idle(o), ao_tick' = [ao_tick EXCEPT ![o] = k],
             UNCHANGED <<public, private>>
      PROVE  Life!Wait(o)
  <2>1. \A p \in Op : p # o => Standing(p)' = Standing(p)
    <3> SUFFICES ASSUME NEW p \in Op, p # o PROVE Standing(p)' = Standing(p)
      OBVIOUS
    <3>1. (Ready(p)' <=> Ready(p)) /\ ao_tick'[p] = ao_tick[p]
      BY <1>0, <1>1, <1>4 DEF Ready, Batch
    <3> QED BY <1>3, <3>1, StandsStill
  <2>2. Standing(o) = "idle"
    BY <1>4, Stands
  <2>3. Standing(o)' = "waiting"
    BY <1>0, <1>4, StandingIs DEF StandingPlain
  <2> QED BY <1>2, <2>1, <2>2, <2>3, MoveOne DEF Life!Wait
<1>5. CASE PostPending(x, o)
  <2>1. Life!Wait(o)
    BY <1>4, <1>5, TickFacts DEF PostPending
  <2> QED BY <2>1 DEF Life!Next
<1>6. ASSUME NEW d \in Timeouts, NEW w \in Wakeups, PostTimer(x, o, d, w)
      PROVE  Life!Next
  <2>1. DueTick(d) \in Tick \ {0}
    BY DueTickFact, TickFacts DEF TypeOK
  <2>2. Life!Wait(o)
    BY <1>4, <1>6, <2>1 DEF PostTimer
  <2> QED BY <2>2 DEF Life!Next
<1>7. ASSUME Idle(o), UNCHANGED ao_tick, \A p : Ready(p)' <=> Ready(p) \/ p = o
      PROVE  Life!Next
  <2>1. \A p \in Op : p # o => Standing(p)' = Standing(p)
    BY <1>3, <1>7, StandsStill
  <2>2. Standing(o) = "idle" /\ ~Ready(o) /\ ao_tick[o] = 0
    BY <1>7, Stands
  <2>3. Standing(o)' = "ready"
    BY <1>0, <1>3, <1>7, <2>2, StandingIs, FiredIsReady DEF StandingPlain
  <2>4. Life!Ready(o)
    BY <1>2, <2>1, <2>2, <2>3, MoveOne DEF Life!Ready
  <2> QED BY <2>4 DEF Life!Next
<1>8. CASE PostNow(x, o)
  <2>1. public' = Append(public, o) /\ UNCHANGED <<ao_tick, private>> /\ Idle(o)
    BY <1>8 DEF PostNow
  <2>2. ToSet(public') = ToSet(public) \cup {o}
    BY <1>0, <2>1, AppendFacts DEF ListsOK
  <2>3. \A p : Ready(p)' <=> Ready(p) \/ p = o
    BY <1>1, <2>1, <2>2 DEF Ready, Batch
  <2> QED BY <1>7, <2>1, <2>3
<1>9. ASSUME NEW at \in Thread, ThreadPost(x, o, at)
      PROVE  Life!Next
  <2>1. Idle(o) /\ Queue(x, o, at) /\ UNCHANGED ao_tick
    BY <1>9 DEF ThreadPost, timers
  <2> QED BY <1>0, <1>7, <2>1, QueueReady
<1>10. ASSUME Unwait(o)
       PROVE  /\ Standing(o) = "waiting" /\ ~Ready(o)
              /\ ao_tick'[o] = 0 /\ \A p \in Op : p # o => ao_tick'[p] = ao_tick[p]
  BY <1>0, <1>10, Stands DEF Unwait
<1>11. ASSUME NEW at \in Thread, SignalWakeup(x, o, at)
       PROVE  Life!Next
  <2>1. Unwait(o) /\ Queue(x, o, at)
    BY <1>11 DEF SignalWakeup
  <2>2. \A p : Ready(p)' <=> Ready(p) \/ p = o
    BY <1>0, <2>1, QueueReady
  <2>3. \A p \in Op : p # o => Standing(p)' = Standing(p)
    BY <1>3, <1>10, <2>1, <2>2, StandsStill
  <2>4. Standing(o)' = "ready"
    BY <1>0, <1>3, <1>10, <2>1, <2>2, StandingIs, FiredIsReady DEF StandingPlain
  <2>5. Life!Wakeup(o)
    BY <1>2, <1>10, <2>1, <2>3, <2>4, MoveOne DEF Life!Wakeup
  <2> QED BY <2>5 DEF Life!Next
<1>12. CASE SignalCancel(x, o)
  <2>1. Unwait(o) /\ UNCHANGED <<public, private>>
    BY <1>12 DEF SignalCancel
  <2>2. \A p : Ready(p)' <=> Ready(p)
    BY <1>1, <2>1 DEF Ready, Batch
  <2>3. \A p \in Op : p # o => Standing(p)' = Standing(p)
    BY <1>3, <1>10, <2>1, <2>2, StandsStill
  <2>4. Standing(o)' = "idle"
    BY <1>0, <1>3, <1>10, <2>1, <2>2, StandingIs, FiredIsReady DEF StandingPlain
  <2>5. Life!Cancel(o)
    BY <1>2, <1>10, <2>1, <2>3, <2>4, MoveOne DEF Life!Cancel
  <2> QED BY <2>5 DEF Life!Next
<1> QED BY <1>5, <1>6, <1>8, <1>9, <1>11, <1>12

----------------------------------------------------------------------------
(* The batches.                                                            *)

(* What is moved to a batch is ready there, and fired if it is told 0.     *)
LEMMA PushedBatch ==
  ASSUME ListsOK, NEW t \in Thread, NEW s \in Seq(Op), NEW r \in {0, 1},
         batch' = [batch EXCEPT ![t] = @ \o Results(s, r)]
  PROVE  /\ Batch(t)' = Batch(t) \cup ToSet(s)
         /\ \A u \in Thread : u # t => Batch(u)' = Batch(u)
         /\ \A p : Fired(p)' <=> Fired(p) \/ (r = 0 /\ p \in ToSet(s))
<1> DEFINE b == batch[t]
           c == Results(s, r)
<1>1. b \in Seq(Op \X {0, 1}) /\ c \in Seq(Op \X {0, 1}) /\ Operators(c) = s
  BY OperatorsFacts DEF ListsOK
<1>2. Len(c) = Len(s) /\ \A i \in 1 .. Len(s) : c[i] = <<s[i], r>>
  BY DEF Results
<1> HIDE DEF b, c
<1>3. batch'[t] = b \o c /\ \A u \in Thread : u # t => batch'[u] = batch[u]
  BY DEF ListsOK, b, c
<1>4. Operators(b \o c) = Operators(b) \o s /\ Operators(b) \in Seq(Op)
  BY <1>1, OperatorsFacts
<1>5. ToSet(Operators(b) \o s) = ToSet(Operators(b)) \cup ToSet(s)
  BY <1>4, ConcatFacts
<1>6. Batch(t)' = Batch(t) \cup ToSet(s) /\ \A u \in Thread : u # t => Batch(u)' = Batch(u)
  BY <1>3, <1>4, <1>5 DEF Batch, b
<1>7. ToSet(b \o c) = ToSet(b) \cup ToSet(c)
  BY <1>1, ConcatFacts
<1>8. \A p : <<p, 0>> \in ToSet(c) <=> r = 0 /\ p \in ToSet(s)
  <2>1. DOMAIN c = 1 .. Len(s) /\ DOMAIN s = 1 .. Len(s)
    BY <1>1, <1>2
  <2>2. \A p : \A i \in 1 .. Len(s) : c[i] = <<p, 0>> <=> s[i] = p /\ r = 0
    BY <1>2
  <2>3. \A p : <<p, 0>> \in ToSet(c) <=> \E i \in 1 .. Len(s) : c[i] = <<p, 0>>
    BY <2>1 DEF ToSet
  <2>4. \A p : p \in ToSet(s) <=> \E i \in 1 .. Len(s) : s[i] = p
    BY <2>1 DEF ToSet
  <2> QED BY <2>2, <2>3, <2>4
<1>9. \A p : Fired(p) <=> \E u \in Thread : <<p, 0>> \in ToSet(batch[u])
  BY DEF Fired, ToSet
<1>10. \A p : Fired(p)' <=> \E u \in Thread : <<p, 0>> \in ToSet(batch'[u])
  BY DEF Fired, ToSet
<1>11. \A p : Fired(p)' <=> Fired(p) \/ (r = 0 /\ p \in ToSet(s))
  BY <1>3, <1>7, <1>8, <1>9, <1>10 DEF b
<1> QED BY <1>6, <1>11

(* An expired node with its chain fires.                                   *)
LEMMA ExpireLife ==
  ASSUME Placed, Live, Live', NEW t \in Thread, Expire(t)
  PROVE  Life!Next
<1>1. PICK k \in Keys :
        /\ ao_tick' = [o \in Op |-> IF o \in ToSet(waiting[k]) THEN 0 ELSE ao_tick[o]]
        /\ batch' = [batch EXCEPT ![t] = @ \o
                       Results(Append(Tail(waiting[k]), Head(waiting[k])), 0)]
  BY DEF Expire
<1>2. UNCHANGED <<public, private, calling>>
  BY DEF Expire
<1> DEFINE w == waiting[k]
           s == Append(Tail(w), Head(w))
<1>3. /\ w \in Seq(Op) /\ w # <<>> /\ k \in TimerTick
      /\ ToSet(w) = {o \in Op : ao_tick[o] = k}
  BY DEF Keys, Placed, ListsOK, Waiting, DueIsListed
<1>4. s \in Seq(Op) /\ ToSet(s) = ToSet(w) /\ ToSet(w) # {}
  <2> HIDE DEF w
  <2>1. /\ Head(w) \in Op /\ Tail(w) \in Seq(Op)
        /\ ToSet(w) = {Head(w)} \cup ToSet(Tail(w))
    BY <1>3, TailFacts
  <2>2. s \in Seq(Op) /\ ToSet(s) = ToSet(Tail(w)) \cup {Head(w)}
    <3>1. \A r \in Seq(Op), o \in Op :
            Append(r, o) \in Seq(Op) /\ ToSet(Append(r, o)) = ToSet(r) \cup {o}
      BY AppendFacts
    <3> QED BY <2>1, <3>1
  <2> QED BY <2>1, <2>2
<1>5. batch' = [batch EXCEPT ![t] = @ \o Results(s, 0)]
  BY <1>1
<1>6. ao_tick' = [o \in Op |-> IF o \in ToSet(w) THEN 0 ELSE ao_tick[o]]
  BY <1>1
<1> HIDE DEF w, s
<1>7. \A p : /\ Fired(p)' <=> Fired(p) \/ p \in ToSet(w)
             /\ Ready(p)' <=> Ready(p) \/ p \in ToSet(w)
  <2>1. /\ Batch(t)' = Batch(t) \cup ToSet(s)
        /\ \A u \in Thread : u # t => Batch(u)' = Batch(u)
        /\ \A p : Fired(p)' <=> Fired(p) \/ (0 = 0 /\ p \in ToSet(s))
    <3>1. ListsOK /\ s \in Seq(Op) /\ 0 \in {0, 1}
      BY <1>4 DEF Placed
    <3> QED BY <1>5, <3>1, PushedBatch
  <2>2. \A p : Fired(p)' <=> Fired(p) \/ p \in ToSet(w)
    BY <1>4, <2>1
  <2>3. \A p : Ready(p)' <=> Ready(p) \/ p \in ToSet(w)
    BY <1>2, <1>4, <2>1 DEF Ready
  <2> QED BY <2>2, <2>3
<1>8. \A o \in ToSet(w) : o \in Op /\ Standing(o) = "waiting"
  BY <1>3, TickFacts, Stands
<1>9. \A o \in Op : Standing(o)' = IF o \in ToSet(w) THEN "fired" ELSE Standing(o)
  BY <1>6, <1>7, StandingIs DEF StandingPlain
<1>10. Life!Expire(ToSet(w))
  <2>1. UNCHANGED ({calling[u] : u \in Thread} \ {NoCall})
    BY <1>2
  <2> QED BY <1>4, <1>8, <1>9, <2>1 DEF Life!Expire
<1> QED BY <1>8, <1>10 DEF Life!Next

(* The end of a check moves ready operators between their lists.           *)
LEMMA EndCheckLife ==
  ASSUME Placed, Live, Live', NEW t \in Thread, EndCheck(t)
  PROVE  UNCHANGED Seen
<1> DEFINE some == IF public = <<>> THEN <<>> ELSE <<Head(public)>>
           s == some \o private[t]
<1>1. /\ public' = IF public = <<>> THEN public ELSE Tail(public)
      /\ private' = [private EXCEPT ![t] = <<>>]
      /\ batch' = [batch EXCEPT ![t] = @ \o Results(s, 1)]
      /\ UNCHANGED <<ao_tick, calling>>
  BY DEF EndCheck
<1>2. some \in Seq(Op) /\ ToSet(public) = ToSet(some) \cup ToSet(public')
  <2>1. CASE public = <<>>
    BY <1>1, <2>1
  <2>2. CASE public # <<>>
    <3>1. Head(public) \in Op /\ ToSet(public) = {Head(public)} \cup ToSet(Tail(public))
      BY <2>2, TailFacts DEF Placed, ListsOK
    <3>2. ToSet(<<Head(public)>>) = {Head(public)}
      BY DEF ToSet
    <3> QED BY <1>1, <2>2, <3>1, <3>2
  <2> QED BY <2>1, <2>2
<1> HIDE DEF some
<1>3. s \in Seq(Op) /\ ToSet(s) = ToSet(some) \cup ToSet(private[t])
  BY <1>2, ConcatFacts DEF Placed, ListsOK
<1> HIDE DEF s
<1>4. \A u \in Thread : ToSet(private'[u]) = IF u = t THEN {} ELSE ToSet(private[u])
  <2>1. private'[t] = <<>> /\ \A u \in Thread : u # t => private'[u] = private[u]
    BY <1>1 DEF Placed, ListsOK
  <2> QED BY <2>1, EmptyFacts
<1>5. /\ Batch(t)' = Batch(t) \cup ToSet(s)
      /\ \A u \in Thread : u # t => Batch(u)' = Batch(u)
      /\ \A p : Fired(p)' <=> Fired(p)
  <2>1. ListsOK /\ s \in Seq(Op) /\ 1 \in {0, 1}
    BY <1>3 DEF Placed
  <2>2. /\ Batch(t)' = Batch(t) \cup ToSet(s)
        /\ \A u \in Thread : u # t => Batch(u)' = Batch(u)
        /\ \A p : Fired(p)' <=> Fired(p) \/ (1 = 0 /\ p \in ToSet(s))
    BY <1>1, <2>1, PushedBatch
  <2> QED BY <2>2
<1>6. \A p : Ready(p)' <=> Ready(p)
  BY <1>2, <1>3, <1>4, <1>5 DEF Ready
<1>7. \A o \in Op : Standing(o)' = Standing(o)
  BY <1>1, <1>5, <1>6, StandsStill
<1> QED BY <1>1, <1>7, Unseen

(* Between its calls a thread is in none.                                  *)
Calling == \A t \in Thread :
             calling[t] # NoCall => pc[t] \in {"call", "called", "drain", "walk"}

(* done2() of the next of a batch: it leaves the one place it was in.      *)
LEMMA CallNextLife ==
  ASSUME TypeOK, Placed, Live, Live', Calling, NEW t \in Thread, CallNext(t)
  PROVE  Life!Next
<1> DEFINE b == batch[t]
<1>1. /\ b # <<>> /\ b \in Seq(Op \X {0, 1}) /\ IsInjective(Operators(b))
      /\ batch' = [batch EXCEPT ![t] = Tail(b)]
      /\ calling' = [calling EXCEPT ![t] = Head(b)] /\ calling[t] = NoCall
      /\ UNCHANGED <<ao_tick, public, private>>
  BY DEF CallNext, timers, Placed, ListsOK, ReadyOnce, Calling
<1>2. \A u \in Thread : batch'[u] = IF u = t THEN Tail(b) ELSE batch[u]
  BY <1>1 DEF Placed, ListsOK
<1>3. PICK o \in Op, r \in {0, 1} : Head(b) = <<o, r>>
  <2>1. Head(b) \in Op \X {0, 1}
    BY <1>1, OperatorsFacts
  <2> QED BY <2>1
<1> HIDE DEF b
<1> DEFINE s == Operators(b)
<1>4. s \in Seq(Op) /\ s # <<>> /\ Operators(Tail(b)) = Tail(s) /\ Tail(b) \in Seq(Op \X {0, 1})
  BY <1>1, OperatorsFacts
<1>5. Head(s) = o
  <2>1. 1 \in DOMAIN b /\ Head(b) = b[1]
    BY <1>1
  <2>2. s[1] = b[1][1]
    BY <1>1, <2>1, BatchElements
  <2> QED BY <1>3, <1>4, <2>1, <2>2
<1>6. ToSet(s) = {o} \cup ToSet(Tail(s)) /\ o \notin ToSet(Tail(s))
  BY <1>1, <1>4, <1>5, TailFacts
<1>7. /\ Batch(t) = {o} \cup Batch(t)' /\ o \notin Batch(t)'
      /\ \A u \in Thread : u # t => Batch(u)' = Batch(u)
  BY <1>2, <1>4, <1>6 DEF Batch, b
<1>8. /\ o \notin ToSet(public) /\ \A u \in Thread : o \notin ToSet(private[u])
      /\ \A u \in Thread : u # t => o \notin Batch(u)
      /\ ao_tick[o] = 0
  BY <1>7 DEF Placed, ReadyOnce, Apart, NotBoth, Ready
<1>9. ~Ready(o)' /\ \A p : p # o => (Ready(p)' <=> Ready(p))
  BY <1>1, <1>7, <1>8 DEF Ready
<1>10. ToSet(b) = {<<o, r>>} \cup ToSet(Tail(b))
  BY <1>1, <1>3, TailFacts
<1>11. /\ \A p : Fired(p) <=> \E u \in Thread : <<p, 0>> \in ToSet(batch[u])
       /\ \A p : Fired(p)' <=> \E u \in Thread : <<p, 0>> \in ToSet(batch'[u])
  BY DEF Fired, ToSet
<1>12. \A p : p # o => (Fired(p)' <=> Fired(p))
  BY <1>2, <1>10, <1>11 DEF b
<1>13. ListsOK'
  BY CallNextPlaces DEF Placed
<1>14. ~Fired(o)'
  <2> SUFFICES ASSUME NEW u \in Thread, NEW i \in DOMAIN batch'[u], batch'[u][i] = <<o, 0>>
               PROVE  FALSE
    BY DEF Fired
  <2>1. batch'[u] \in Seq(Op \X {0, 1}) /\ batch'[u][i][1] = o
    BY <1>13 DEF ListsOK
  <2>2. batch'[u][i][1] \in ToSet(Operators(batch'[u]))
    BY <2>1, BatchElements
  <2>3. o \in Batch(u)'
    BY <2>1, <2>2 DEF Batch
  <2> QED BY <1>9, <2>3 DEF Ready
<1>15. Fired(o) <=> r = 0
  <2>1. r = 0 => Fired(o)
    BY <1>10, <1>11 DEF b
  <2>2. ASSUME Fired(o) PROVE r = 0
    <3>1. PICK u \in Thread : <<o, 0>> \in ToSet(batch[u])
      BY <1>11, <2>2
    <3>2. u = t \/ <<o, 0>> \in ToSet(batch'[u])
      BY <1>2, <3>1
    <3>3. ~(<<o, 0>> \in ToSet(batch'[u]))
      BY <1>11, <1>14
    <3>4. <<o, 0>> \in ToSet(b) /\ ~(<<o, 0>> \in ToSet(Tail(b)))
      BY <1>2, <3>1, <3>2, <3>3 DEF b
    <3>5. <<o, 0>> = <<o, r>>
      BY <1>10, <3>4
    <3> QED BY <3>5
  <2> QED BY <2>1, <2>2
<1>16. Ready(o)
  BY <1>7 DEF Ready
<1>17. /\ Standing(o) = IF r = 0 THEN "fired" ELSE "ready"
       /\ Standing(o)' = "idle"
  BY <1>1, <1>8, <1>9, <1>14, <1>15, <1>16, StandingIs DEF StandingPlain
<1>18. \A p \in Op : p # o => Standing(p)' = Standing(p)
  BY <1>1, <1>9, <1>12, StandsStill
<1>19. Life!Move(o, IF r = 0 THEN "fired" ELSE "ready", "idle")
  BY <1>17, <1>18, MoveOne
<1>20. ({calling[u] : u \in Thread} \ {NoCall})'
         = ({calling[u] : u \in Thread} \ {NoCall}) \cup {<<o, r>>}
  <2>1. \A u \in Thread : calling'[u] = IF u = t THEN <<o, r>> ELSE calling[u]
    BY <1>1, <1>3 DEF TypeOK
  <2>2. <<o, r>> # NoCall
    BY DEF NoCall
  <2> QED BY <1>1, <2>1, <2>2
<1>21. Life!Call(o)
  BY <1>19, <1>20 DEF Life!Call
<1> QED BY <1>21 DEF Life!Next

(* The return of a done() - unless another thread is in a call of the same *)
(* operator, which was posted again meanwhile.                             *)
LEMMA ReturnLife ==
  ASSUME TypeOK, NEW t \in Thread, Return(t) \/ DrainReturn(t), Live' <=> Live
  PROVE  Life!Next \/ UNCHANGED Seen
<1> DEFINE before == {calling[u] : u \in Thread} \ {NoCall}
           after == {calling'[u] : u \in Thread} \ {NoCall}
<1>1. \A u \in Thread : calling'[u] = IF u = t THEN NoCall ELSE calling[u]
  BY DEF Return, DrainReturn, TypeOK
<1>2. \A o \in Op : Standing(o)' = Standing(o)
  <2>1. UNCHANGED <<timers, public, private, batch>>
    BY DEF Return, DrainReturn
  <2> QED BY <2>1 DEF timers, Standing, Waits, Timed, Queued, Batch, Live
<1>3. [o \in Op |-> Standing(o)]' = [o \in Op |-> Standing(o)]
  BY <1>2
<1>4. CASE after = before
  BY <1>3, <1>4 DEF Seen
<1>5. CASE after # before
  <2>1. after = before \ {calling[t]} /\ calling[t] \in before
    BY <1>1, <1>5
  <2>2. \E c \in before : after = before \ {c}
    BY <2>1
  <2> QED BY <1>3, <2>2 DEF Life!Next, Life!Return
<1> QED BY <1>4, <1>5

(* Only a thread that runs its batch, or drains its lists, is in a done(). *)
LEMMA CallingStep ==
  ASSUME TypeOK, Calling, [Next]_vars
  PROVE  Calling'
<1>1. ASSUME NEW x \in Caller, Call(x) PROVE Calling'
  <2>1. MayCall(x) /\ \E wake : CallMade(x, wake)
    BY <1>1 DEF Call, PostPending, PostNow, SignalCancel, PostTimer, ThreadPost,
       SignalWakeup, Queue
  <2> QED BY <2>1 DEF MayCall, CallMade, Calling
<1>2. ASSUME NEW t \in Thread, Run(t) \/ WakeByIo(t) PROVE Calling'
  <2>1. \A u \in Thread : u # t => pc'[u] = pc[u] /\ calling'[u] = calling[u]
    BY <1>2 DEF Run, BeginCheck, Expire, EndCheck, CallNext, Return, WaitAfterCheck,
       WaitAgain, WakeBySignal, ReadSignal, WakeByTimeout, Exit, WakeByIo, TypeOK
  <2>2. calling'[t] # NoCall => pc'[t] \in {"call", "called", "drain", "walk"}
    <3>1. CASE CallNext(t) \/ Return(t)
      BY <3>1 DEF CallNext, Return, TypeOK
    <3>2. CASE ~(CallNext(t) \/ Return(t))
      <4>1. calling' = calling /\ pc[t] \notin {"call", "called", "drain", "walk"}
        BY <1>2, <3>2 DEF Run, BeginCheck, Expire, EndCheck, WaitAfterCheck, WaitAgain,
           WakeBySignal, ReadSignal, WakeByTimeout, Exit, WakeByIo
      <4> QED BY <4>1 DEF Calling
    <3> QED BY <3>1, <3>2
  <2> QED BY <2>1, <2>2 DEF Calling
<1>3. ASSUME NEW t \in Thread, ThreadEnd(t) PROVE Calling'
  <2>1. \A u \in Thread : u # t => pc'[u] = pc[u] /\ calling'[u] = calling[u]
    BY <1>3 DEF ThreadEnd, Join, DrainReturn, DrainPrivate, WorkerFreed, SplicePublic,
       DrainTree, DrainPending, PoolFreed, Told, TypeOK
  <2>2. pc'[t] \in {"drain", "walk"} \/ calling'[t] = NoCall
    <3>1. CASE Join(t) \/ SplicePublic(t)
      BY <3>1 DEF Join, SplicePublic, TypeOK
    <3>2. CASE DrainReturn(t) \/ WorkerFreed(t) \/ PoolFreed(t)
      BY <3>2 DEF DrainReturn, WorkerFreed, PoolFreed, Drained, TypeOK
    <3>3. CASE DrainPrivate(t) \/ DrainTree(t) \/ DrainPending(t)
      BY <3>3 DEF DrainPrivate, DrainTree, DrainPending
    <3> QED BY <1>3, <3>1, <3>2, <3>3 DEF ThreadEnd
  <2> QED BY <2>1, <2>2 DEF Calling
<1>4. ASSUME NEW x \in Caller, Wakeup(x) PROVE Calling'
  BY <1>4 DEF Wakeup, Calling
<1>5. ASSUME NEW x \in Client, NEW t \in Thread, ThreadAbort(x, t) PROVE Calling'
  BY <1>5 DEF ThreadAbort, Calling
<1>6. CASE ClockTick \/ Stopped \/ UNCHANGED vars
  BY <1>6 DEF ClockTick, Stopped, vars, Calling
<1> QED BY <1>1, <1>2, <1>3, <1>4, <1>5, <1>6 DEF Next

----------------------------------------------------------------------------
(* Shutdown.                                                               *)

(* done(-EINTR) of one operator that still waited or was ready.            *)
LEMMA DrainedOne ==
  ASSUME TypeOK, NEW t \in Thread, NEW o \in Op, Told(t, o),
         Standing(o) \in {"waiting", "ready"}, Standing(o)' = "idle",
         \A p \in Op : p # o => Standing(p)' = Standing(p)
  PROVE  Life!Next
<1>1. ({calling[u] : u \in Thread} \ {NoCall})'
         = ({calling[u] : u \in Thread} \ {NoCall}) \cup {<<o, Life!EINTR>>}
  <2>1. /\ calling[t] = NoCall
        /\ \A u \in Thread : calling'[u] = IF u = t THEN <<o, EINTR>> ELSE calling[u]
    BY DEF Told, TypeOK
  <2>2. <<o, EINTR>> # NoCall /\ EINTR = Life!EINTR
    BY DEF NoCall, EINTR, Life!EINTR
  <2> QED BY <2>1, <2>2
<1>2. Life!Move(o, "waiting", "idle") \/ Life!Move(o, "ready", "idle")
  BY MoveOne
<1>3. Life!Drain(o)
  BY <1>1, <1>2 DEF Life!Drain
<1> QED BY <1>3 DEF Life!Next

(* No operator has fired any more when the pool's own thread is joined,    *)
(* and one in both the tree and a ready list there is not.                 *)
LEMMA DrainingFacts ==
  ASSUME TypeOK, Emptied, Spread, ~Live
  PROVE  /\ Draining /\ \A o : ~Fired(o)
         /\ \A t \in Thread \ {Pool} : pc[t] = "freed"
<1>1. \A t \in Thread : Ended(t)
  BY DEF Live, Emptied, AllEnded, Joined, Ended
<1>2. \A t \in Thread : batch[t] = <<>>
  BY <1>1 DEF Emptied, Ended, Joined
<1> QED BY <1>2 DEF Spread, Fired, Live, Emptied, AllEnded

(* The head of a private list is told.                                     *)
LEMMA DrainPrivateLife ==
  ASSUME TypeOK, Emptied, Spread, NEW t \in Thread, DrainPrivate(t)
  PROVE  Life!Next
<1>0. ListsOK /\ ReadyOnce /\ NotBoth
  BY DEF Spread, Placed, Draining
<1>1. /\ private[t] # <<>> /\ private' = [private EXCEPT ![t] = Tail(@)]
      /\ UNCHANGED <<pc, ao_tick, waiting, pending, public, batch>> /\ pc[t] = "drain"
  BY DEF DrainPrivate, timers
<1>2. PICK o \in Op : o = Head(private[t]) /\ Told(t, o) /\ o \in ToSet(private[t])
  BY <1>0, <1>1, PopPrivate DEF DrainPrivate
<1>3. /\ ToSet(private'[t]) = ToSet(private[t]) \ {o}
      /\ \A u \in Thread : u # t => private'[u] = private[u]
  BY <1>0, <1>1, <1>2, PopPrivate
<1>4. /\ o \notin ToSet(public) /\ \A u \in Thread : o \notin Batch(u)
      /\ \A u \in Thread : u # t => o \notin ToSet(private[u])
  BY <1>0, <1>2 DEF ReadyOnce, Apart
<1>5. Queued(o) /\ ao_tick[o] = 0 /\ ~Fired(o)
  <2>1. Queued(o) /\ Ready(o)
    BY <1>2 DEF Queued, Ready
  <2> QED BY <1>0, <1>4, <2>1, FiredInBatch DEF NotBoth
<1>6. /\ ~Queued(o)' /\ \A p : p # o => (Queued(p)' <=> Queued(p))
      /\ \A p : (Timed(p)' <=> Timed(p)) /\ (Fired(p)' <=> Fired(p))
  <2>1. \A u \in Thread : Batch(u)' = Batch(u)
    BY <1>1 DEF Batch
  <2>2. \A p : (Timed(p)' <=> Timed(p)) /\ (Fired(p)' <=> Fired(p))
    BY <1>1 DEF Timed, Fired
  <2>3. ~Queued(o)'
    BY <1>1, <1>3, <1>4, <2>1 DEF Queued
  <2>4. ASSUME NEW p, p # o PROVE Queued(p)' <=> Queued(p)
    BY <1>1, <1>3, <2>1, <2>4 DEF Queued
  <2> QED BY <2>2, <2>3, <2>4
<1>7. ~Live => ~Timed(o)
  <2>1. SUFFICES ASSUME ~Live PROVE ~Timed(o)
    OBVIOUS
  <2>2. t = Pool /\ ListedIsDue
    BY <1>1, <2>1, DrainingFacts DEF Draining
  <2>3. \A k \in TimerTick : o \notin ToSet(waiting[k])
    BY <1>5, <2>2, TickFacts DEF ListedIsDue
  <2>4. o \notin ToSet(pending)
    BY <1>1, <1>5, <2>2, TickFacts DEF ListedIsDue
  <2> QED BY <2>3, <2>4 DEF Timed
<1>8. Joined(Pool)' <=> Joined(Pool)
  BY <1>1 DEF Joined
<1>9. Standing(o) = "ready" /\ Standing(o)' = "idle"
  BY <1>1, <1>5, <1>6, <1>7, <1>8 DEF Standing, Waits, Fired, Live
<1>10. \A p \in Op : p # o => Standing(p)' = Standing(p)
  BY <1>1, <1>6, <1>8 DEF Standing, Waits, Fired
<1> QED BY <1>2, <1>9, <1>10, DrainedOne

(* An operator of the tree or of the pending list is told.                 *)
LEMMA WalkLife ==
  ASSUME TypeOK, Emptied, Spread, ~Live, NEW t \in Thread, NEW o \in Op, Told(t, o),
         Timed(o), ~Queued(o), ~Timed(o)', \A p : p # o => (Timed(p)' <=> Timed(p)),
         UNCHANGED <<pc, ao_tick, public, private, batch>>
  PROVE  Life!Next
<1>1. /\ \A p : Queued(p)' <=> Queued(p)
      /\ \A p : ~Fired(p) /\ ~Fired(p)'
      /\ Joined(Pool) /\ Joined(Pool)'
  <2>1. \A u \in Thread : Batch(u)' = Batch(u)
    BY DEF Batch
  <2>2. \A p : Queued(p)' <=> Queued(p)
    BY <2>1 DEF Queued
  <2>3. \A p : ~Fired(p) /\ ~Fired(p)'
    BY DrainingFacts DEF Fired
  <2> QED BY <2>2, <2>3 DEF Live, Joined
<1>2. Standing(o) \in {"waiting", "ready"} /\ Standing(o)' = "idle"
  BY <1>1 DEF Standing, Waits, Fired
<1>3. \A p \in Op : p # o => Standing(p)' = Standing(p)
  BY <1>1 DEF Standing, Waits, Fired
<1> QED BY <1>2, <1>3, DrainedOne

(* One of the first node of the tree.                                      *)
LEMMA DrainTreeLife ==
  ASSUME TypeOK, Emptied, Spread, NEW t \in Thread, DrainTree(t)
  PROVE  Life!Next
<1>1. /\ UNCHANGED <<pc, ao_tick, pending, public, private, batch>>
      /\ pc[t] = "walk" /\ t = Pool /\ ~Live
  BY DEF DrainTree, Emptied, Live, Joined
<1>2. Draining
  BY <1>1, DrainingFacts
<1>3. PICK k \in Keys : /\ Told(t, NextOf(waiting[k]))
                        /\ waiting' = [waiting EXCEPT ![k] = Unlink(@, NextOf(@))]
  BY DEF DrainTree
<1>4. PICK o \in Op : o = NextOf(waiting[k]) /\ o \in ToSet(waiting[k]) /\ k \in TimerTick
  BY <1>2, TreeHead DEF Draining
<1>5. /\ ToSet(waiting'[k]) = ToSet(waiting[k]) \ {o}
      /\ \A j \in TimerTick : j # k => waiting'[j] = waiting[j]
  BY <1>2, <1>3, <1>4, PopTree DEF Draining
<1>6. ao_tick[o] = k /\ k # 0 /\ k # INFINITE
  BY <1>2, <1>4, TickFacts DEF Draining, ListedIsDue
<1>7. /\ o \notin ToSet(pending)
      /\ \A j \in TimerTick : j # k => o \notin ToSet(waiting[j])
  BY <1>2, <1>6 DEF Draining, ListedIsDue
<1>8. Timed(o) /\ ~Timed(o)'
  BY <1>1, <1>4, <1>5, <1>7 DEF Timed
<1>9. \A p : p # o => (Timed(p)' <=> Timed(p))
  <2> SUFFICES ASSUME NEW p, p # o PROVE Timed(p)' <=> Timed(p)
    OBVIOUS
  <2>1. \A j \in TimerTick : p \in ToSet(waiting'[j]) <=> p \in ToSet(waiting[j])
    BY <1>5
  <2> QED BY <1>1, <2>1 DEF Timed
<1>10. ~Queued(o)
  <2>1. ~Ready(o)
    BY <1>2, <1>6 DEF Draining, NotBoth
  <2> QED BY <2>1 DEF Queued, Ready
<1>11. Told(t, o)
  BY <1>3, <1>4
<1> QED BY <1>1, <1>8, <1>9, <1>10, <1>11, WalkLife

(* One of the pending list, or of what was public before the walk.         *)
LEMMA DrainPendingLife ==
  ASSUME TypeOK, Emptied, Spread, NEW t \in Thread, DrainPending(t)
  PROVE  Life!Next
<1>1. /\ UNCHANGED <<pc, ao_tick, waiting, public, private, batch>>
      /\ pc[t] = "walk" /\ t = Pool /\ ~Live /\ pending # <<>>
      /\ pending' = Tail(pending) /\ Keys = {}
  BY DEF DrainPending, Emptied, Live, Joined
<1>2. Draining
  BY <1>1, DrainingFacts
<1>3. PICK o \in Op : o = Head(pending) /\ Told(t, o) /\ o \in ToSet(pending)
                      /\ ToSet(pending') = ToSet(pending) \ {o}
  BY <1>1, <1>2, PopFacts DEF DrainPending, Draining, ListsOK
<1>4. \A k \in TimerTick : waiting[k] = <<>> /\ waiting'[k] = <<>>
  BY <1>1 DEF Keys
<1>5. Timed(o) /\ ~Timed(o)' /\ \A p : p # o => (Timed(p)' <=> Timed(p))
  BY <1>3, <1>4, EmptyFacts DEF Timed
<1>6. ~Queued(o)
  <2>1. public = <<>> /\ \A u \in Thread : private[u] = <<>> /\ batch[u] = <<>>
    BY <1>1, DrainingFacts DEF Emptied
  <2>2. Operators(<<>>) = <<>>
    BY DEF Operators
  <2> QED BY <2>1, <2>2, EmptyFacts DEF Queued, Batch
<1> QED BY <1>1, <1>3, <1>5, <1>6, WalkLife

(* The public list goes to the pending one: its operators are ready still. *)
LEMMA SpliceLife ==
  ASSUME TypeOK, Emptied, Spread, NEW t \in Thread, SplicePublic(t)
  PROVE  UNCHANGED Seen
<1>1. /\ t = Pool /\ pc[Pool] = "drain" /\ pc'[Pool] = "walk"
      /\ pending' = public \o pending /\ public' = <<>>
      /\ UNCHANGED <<ao_tick, waiting, private, batch, calling>>
  BY ThreadAssumption DEF SplicePublic, Drained, TypeOK
<1>2. Joined(Pool) /\ Joined(Pool)' /\ ~Live
  BY <1>1 DEF Joined, Live
<1>3. Draining
  BY <1>2, DrainingFacts
<1>4. ToSet(pending') = ToSet(public) \cup ToSet(pending) /\ ToSet(public') = {}
  BY <1>1, <1>3, ConcatFacts, EmptyFacts DEF Draining, ListsOK
<1>5. \A p : Timed(p)' <=> Timed(p) \/ p \in ToSet(public)
  BY <1>1, <1>4 DEF Timed
<1>6. \A u \in Thread : Batch(u)' = Batch(u)
  BY <1>1 DEF Batch
<1>7. /\ \A p : Queued(p)' => Queued(p)
      /\ \A p : Queued(p) => Queued(p)' \/ p \in ToSet(public)
      /\ \A p : p \in ToSet(public) => Queued(p)
  BY <1>1, <1>4, <1>6 DEF Queued
<1>8. \A p : p \in ToSet(public) => ao_tick[p] = 0
  BY <1>3 DEF Draining, NotBoth, Ready
<1>9. \A p : Waits(p)' <=> Waits(p)
  BY <1>1, <1>2, <1>5, <1>8 DEF Waits
<1>10. \A p : Queued(p)' \/ (Joined(Pool)' /\ Timed(p)')
                <=> Queued(p) \/ (Joined(Pool) /\ Timed(p))
  BY <1>2, <1>5, <1>7
<1>11. \A p : Fired(p)' <=> Fired(p)
  BY <1>1, FiredSame
<1>12. \A o \in Op : Standing(o)' = Standing(o)
  BY <1>9, <1>10, <1>11 DEF Standing, Fired
<1> QED BY <1>1, <1>12, Unseen

(* Joined, the pool's own thread has every operator with a tick listed.    *)
LEMMA JoinLife ==
  ASSUME TypeOK, Emptied, Spread, NEW t \in Thread, Join(t)
  PROVE  UNCHANGED Seen
<1>1. /\ UNCHANGED <<timers, public, private, batch, calling>>
      /\ pc[t] = "exit" /\ pc' = [pc EXCEPT ![t] = "drain"]
  BY DEF Join
<1>2. CASE t # Pool
  <2>1. pc'[Pool] = pc[Pool]
    BY <1>1, <1>2, ThreadAssumption DEF TypeOK
  <2>2. Live' <=> Live
    BY <2>1 DEF Live, Joined
  <2> QED BY <1>1, <2>2, NotSeen
<1>3. CASE t = Pool
  <2>1. Live /\ Joined(Pool)' /\ Placed
    BY <1>1, <1>3 DEF Live, Joined, Spread, TypeOK
  <2>2. /\ \A p : (Timed(p)' <=> Timed(p)) /\ (Queued(p)' <=> Queued(p))
        /\ \A p : Fired(p)' <=> Fired(p)
    BY <1>1 DEF timers, Timed, Queued, Batch, Fired
  <2>3. \A p \in Op : ao_tick[p] # 0 <=> Timed(p)
    <3>1. ASSUME NEW p \in Op, ao_tick[p] # 0 PROVE Timed(p)
      <4>1. ao_tick[p] \in TimerTick \/ ao_tick[p] = INFINITE
        BY <3>1 DEF TimerTick, TypeOK
      <4> QED BY <2>1, <4>1 DEF Placed, Waiting, DueIsListed, Timed
    <3>2. ASSUME NEW p \in Op, Timed(p) PROVE ao_tick[p] # 0
      BY <2>1, <3>2, TickFacts DEF Placed, Waiting, DueIsListed, Timed
    <3> QED BY <3>1, <3>2
  <2>4. \A p \in Op : Waits(p)' <=> Waits(p)
    BY <1>1, <2>1, <2>2, <2>3 DEF Waits, Live, timers
  <2>5. \A p \in Op : Waits(p) <=> Timed(p)
    BY <2>1, <2>3 DEF Waits, Live
  <2>6. \A o \in Op : Standing(o)' = Standing(o)
    BY <2>1, <2>2, <2>4, <2>5 DEF Standing, Fired, Live
  <2> QED BY <1>1, <2>6, Unseen
<1> QED BY <1>2, <1>3

(* The steps of AThreadEnd.                                                *)
LEMMA EndLife ==
  ASSUME TypeOK, Emptied, Spread, NEW t \in Thread, ThreadEnd(t)
  PROVE  LifeStep
<1>1. CASE Join(t) \/ SplicePublic(t)
  BY <1>1, JoinLife, SpliceLife DEF LifeStep
<1>2. CASE DrainPrivate(t) \/ DrainTree(t) \/ DrainPending(t)
  BY <1>2, DrainPrivateLife, DrainTreeLife, DrainPendingLife DEF LifeStep
<1>3. CASE DrainReturn(t)
  <2>1. Live' <=> Live
    BY <1>3 DEF DrainReturn, Live, Joined
  <2> QED BY <1>3, <2>1, ReturnLife DEF LifeStep
<1>4. CASE WorkerFreed(t) \/ PoolFreed(t)
  <2>1. UNCHANGED <<timers, public, private, batch, calling>>
    BY <1>4 DEF WorkerFreed, PoolFreed
  <2>2. Live' <=> Live
    BY <1>4, ThreadAssumption DEF WorkerFreed, PoolFreed, Drained, Emptied, Live, Joined,
       TypeOK
  <2> QED BY <2>1, <2>2, NotSeen DEF LifeStep
<1> QED BY <1>1, <1>2, <1>3, <1>4 DEF ThreadEnd

----------------------------------------------------------------------------
(* Every step of the pool.                                                 *)

(* A step of the pool is a step of OperatorLife, or its owners see none.   *)
LEMMA StepLife ==
  ASSUME TypeOK, Emptied, Spread, Calling, [Next]_vars
  PROVE  LifeStep
<1>1. ASSUME NEW x \in Caller, Call(x) PROVE LifeStep
  <2>1. Live /\ Live' /\ Placed
    BY <1>1, CallEmptied DEF Call, Spread
  <2>2. Life!Next
    BY <1>1, <2>1, CallLife DEF Call
  <2> QED BY <2>2 DEF LifeStep
<1>2. ASSUME NEW t \in Thread, Run(t) \/ WakeByIo(t) PROVE LifeStep
  <2>0. Live /\ Live' /\ Placed
    BY <1>2, RunEmptied DEF Spread
  <2>1. CASE Expire(t) \/ CallNext(t)
    BY <2>0, <2>1, ExpireLife, CallNextLife DEF LifeStep
  <2>2. CASE EndCheck(t) \/ Return(t)
    BY <2>0, <2>2, EndCheckLife, ReturnLife DEF LifeStep
  <2>3. CASE ~(Expire(t) \/ EndCheck(t) \/ CallNext(t) \/ Return(t))
    <3>1. UNCHANGED <<timers, public, private, batch, calling>>
      BY <1>2, <2>3 DEF Run, BeginCheck, WaitAfterCheck, WaitAgain, WakeBySignal,
         ReadSignal, WakeByTimeout, Exit, WakeByIo
    <3> QED BY <2>0, <3>1, NotSeen DEF LifeStep
  <2> QED BY <2>1, <2>2, <2>3
<1>3. ASSUME NEW t \in Thread, ThreadEnd(t) PROVE LifeStep
  BY <1>3, EndLife
<1>4. ASSUME UNCHANGED <<pc, timers, public, private, batch, calling>> PROVE LifeStep
  <2>1. Live' <=> Live
    BY <1>4 DEF Live, Joined
  <2> QED BY <1>4, <2>1, NotSeen DEF LifeStep
<1>5. ASSUME NEW x \in Caller, Wakeup(x) PROVE LifeStep
  BY <1>4, <1>5 DEF Wakeup
<1>6. ASSUME NEW x \in Client, NEW t \in Thread, ThreadAbort(x, t) PROVE LifeStep
  BY <1>4, <1>6 DEF ThreadAbort
<1>7. CASE ClockTick \/ Stopped \/ UNCHANGED vars
  BY <1>4, <1>7 DEF ClockTick, Stopped, vars, timers
<1> QED BY <1>1, <1>2, <1>3, <1>5, <1>6, <1>7 DEF Next

(* The thread pool implements OperatorLife: whatever the threads, the      *)
(* eventfds and the clock do, a posting is called once, with 0 only if it  *)
(* expired, 1 only if it was posted or signalled and -EINTR only if its    *)
(* pool or its thread ended, or it is taken back while it still waits and  *)
(* is never called.                                                        *)
THEOREM PromiseKept == Spec => KeepsPromise
<1>1. Init => Life!Init /\ Calling
  <2> SUFFICES ASSUME Init PROVE Life!Init /\ Calling
    OBVIOUS
  <2>1. Operators(<<>>) = <<>>
    BY DEF Operators
  <2>2. /\ \A t \in Thread : batch[t] = <<>> /\ private[t] = <<>> /\ calling[t] = NoCall
        /\ public = <<>> /\ \A o \in Op : ao_tick[o] = 0
    BY DEF Init
  <2>3. Live
    BY ThreadAssumption DEF Init, Live, Joined
  <2>4. \A o \in Op : Standing(o) = "idle"
    BY <2>1, <2>2, <2>3, StandingIs, EmptyFacts DEF StandingPlain, Fired, Ready, Batch
  <2>5. {calling[t] : t \in Thread} \ {NoCall} = {}
    BY <2>2
  <2>6. Calling
    BY <2>2 DEF Calling
  <2> QED BY <2>4, <2>5, <2>6 DEF Life!Init
<1>2. TypeOK /\ Calling /\ [Next]_vars => Calling'
  BY CallingStep
<1>3. TypeOK /\ Emptied /\ Spread /\ Calling /\ [Next]_vars => [Life!Next]_Seen
  BY StepLife DEF LifeStep
<1>4. [Life!Next]_Seen => [Life!Next]_<<[o \in Op |-> Standing(o)],
                                        {calling[t] : t \in Thread} \ {NoCall}>>
  BY DEF Seen
<1> QED BY <1>1, <1>2, <1>3, <1>4, SpreadInvariant, PTL DEF Spec, KeepsPromise, Life!Spec
=============================================================================
