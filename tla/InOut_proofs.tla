---------------------------- MODULE InOut_proofs ----------------------------
(***************************************************************************)
(* The message line of AInOutComponent, for any number of messages and     *)
(* threads: one driver, one owner, and a busy count of 0 that means quiet. *)
(***************************************************************************)
EXTENDS InOut, SeqFacts, FiniteSetTheorems

(* What the safety invariants do not say themselves: a session that is     *)
(* over is aborted and drained, the busy count is one for the line and one *)
(* for the output, and a thread holds a message exactly while it answers   *)
(* one.                                                                    *)
Accounts ==
  /\ ~post_end => abort /\ queue = <<>>
  /\ busy = (IF post_end THEN 1 ELSE 0) + (IF out # "off" THEN 1 ELSE 0)
  /\ \A t \in Thread : msg[t] # NoMsg <=> pc[t] \in {"refuse", "tell"}

(* An answer of the io object is for a message it was given, and -EINTR    *)
(* for one it was not, in an aborted session.                              *)
Honest ==
  /\ \A t \in Thread :
       /\ Drives(t) /\ pc[t] # "done" => ~tried
       /\ pc[t] = "done" => (tried <=> result[t] # "intr")
       /\ pc[t] = "done" /\ result[t] = "intr" => abort
  /\ io # NoMsg => tried
  /\ queue = <<>> => ~tried

IInv == TypeOK /\ OneDriver /\ OneOwner /\ Accounts /\ Honest

(* The last invariant of the model follows from the others.                *)
LEMMA Quiet == ASSUME IInv PROVE QuietWhenIdle
  BY DEF IInv, TypeOK, OneDriver, Accounts, QuietWhenIdle

(* The first of a queue of a driving thread is there.                      *)
LEMMA HeadFacts ==
  ASSUME IInv, queue # <<>>
  PROVE  /\ Head(queue) \in Msg /\ Tail(queue) \in Seq(Msg)
         /\ Head(queue) # NoMsg /\ Head(queue) \in ToSet(queue)
         /\ ToSet(queue) = {Head(queue)} \cup ToSet(Tail(queue))
         /\ IsInjective(Tail(queue)) /\ Head(queue) \notin ToSet(Tail(queue))
<1>1. queue \in Seq(Msg) /\ IsInjective(queue)
  BY DEF IInv, TypeOK, OneOwner
<1> QED BY <1>1, TailFacts, InOutAssumption

(* Posting keeps the invariant: only the post that finds the queue empty   *)
(* becomes a driver.                                                       *)
LEMMA PostStep ==
  ASSUME IInv, NEW t \in Thread, NEW m \in Msg, Post(t, m)
  PROVE  IInv'
<1>1. /\ pc[t] = "idle" /\ msg[t] = NoMsg /\ m \notin ToSet(queue) /\ m # NoMsg
      /\ \A u \in Thread : msg[u] # m
  BY InOutAssumption DEF Post, Free, IInv, TypeOK, Accounts
<1>2. CASE abort
  <2>1. /\ pc' = [pc EXCEPT ![t] = "refuse"] /\ msg' = [msg EXCEPT ![t] = m]
        /\ UNCHANGED <<abort, queue, post_end, io, tried, owner, busy, refs, more, result>>
    BY <1>2 DEF Post, Goto
  <2>2. TypeOK'
    BY <2>1 DEF IInv, TypeOK, owner
  <2>3. \A u \in Thread : Drives(u)' <=> Drives(u)
    BY <1>1, <2>1 DEF Drives, IInv, TypeOK
  <2>4. OneDriver'
    BY <2>1, <2>3 DEF IInv, OneDriver
  <2>5. OneOwner'
    BY <1>1, <2>1 DEF IInv, OneOwner, TypeOK
  <2>6. Accounts'
    BY <1>1, <2>1 DEF IInv, Accounts, TypeOK, owner
  <2>7. Honest'
    BY <1>1, <2>1, <2>3 DEF IInv, Honest, TypeOK
  <2> QED BY <2>2, <2>4, <2>5, <2>6, <2>7 DEF IInv
<1>3. CASE ~abort
  <2>1. /\ queue' = Append(queue, m)
        /\ pc' = IF queue = <<>> THEN [pc EXCEPT ![t] = "first"] ELSE pc
        /\ UNCHANGED <<abort, post_end, io, tried, owner, busy, refs, msg, more, result>>
    BY <1>3 DEF Post, Goto
  <2>2. /\ queue' \in Seq(Msg) /\ queue' # <<>> /\ IsInjective(queue')
        /\ ToSet(queue') = ToSet(queue) \cup {m}
        /\ Head(queue') = IF queue = <<>> THEN m ELSE Head(queue)
    <3>1. queue \in Seq(Msg) /\ IsInjective(queue)
      BY DEF IInv, TypeOK, OneOwner
    <3>2. /\ queue' # <<>> /\ Head(queue') = IF queue = <<>> THEN m ELSE Head(queue)
      BY <2>1, <3>1
    <3> QED BY <1>1, <2>1, <3>1, <3>2, AppendFacts
  <2>3. TypeOK'
    BY <2>1, <2>2 DEF IInv, TypeOK, owner
  <2>4. \A u \in Thread : Drives(u)' <=> (Drives(u) \/ (u = t /\ queue = <<>>))
    BY <1>1, <2>1 DEF Drives, IInv, TypeOK
  <2>5. OneDriver'
    BY <2>1, <2>2, <2>4 DEF IInv, OneDriver
  <2>6. OneOwner'
    BY <1>1, <2>1, <2>2 DEF IInv, OneOwner
  <2>7. Accounts'
    BY <1>1, <1>3, <2>1, <2>2 DEF IInv, Accounts, TypeOK, owner
  <2>8. Honest'
    BY <1>1, <2>1, <2>2, <2>4 DEF IInv, Honest, TypeOK
  <2> QED BY <2>3, <2>5, <2>6, <2>7, <2>8 DEF IInv
<1> QED BY <1>2, <1>3

(* The driver's own steps, and the completion of a pending input.          *)
LEMMA ChainStep ==
  ASSUME IInv, NEW t \in Thread, Chain(t) \/ InputDone(t)
  PROVE  IInv'
<1>1. CASE Refused(t)
  <2>1. /\ pc[t] = "refuse" /\ pc' = [pc EXCEPT ![t] = "idle"]
        /\ msg' = [msg EXCEPT ![t] = NoMsg]
        /\ UNCHANGED <<abort, queue, post_end, io, tried, owner, busy, refs, more, result>>
    BY <1>1 DEF Refused, Goto
  <2>2. \A u \in Thread : Drives(u)' <=> Drives(u)
    BY <2>1 DEF Drives, IInv, TypeOK
  <2>3. TypeOK' /\ OneOwner' /\ Accounts'
    BY <2>1 DEF IInv, TypeOK, OneOwner, Accounts, owner
  <2>4. OneDriver' /\ Honest'
    BY <2>1, <2>2 DEF IInv, TypeOK, OneDriver, Honest
  <2> QED BY <2>3, <2>4 DEF IInv
<1>2. CASE Input(t)
  <2>1. /\ Drives(t) /\ queue # <<>> /\ io = NoMsg /\ \A u \in Thread : Drives(u) => u = t
    BY <1>2 DEF Input, IInv, OneDriver, Drives
  <2>2. /\ tried' = TRUE
        /\ UNCHANGED <<abort, queue, post_end, owner, busy, msg, more>>
        /\ refs' \in Int
    BY <1>2 DEF Input, IInv, TypeOK
  <2>3. CASE pc' = [pc EXCEPT ![t] = "idle"] /\ io' = Head(queue) /\ UNCHANGED result
    <3>1. \A u \in Thread : ~Drives(u)'
      BY <2>1, <2>2, <2>3 DEF Drives, IInv, TypeOK
    <3>2. TypeOK' /\ OneOwner' /\ Accounts'
      BY <1>2, <2>1, <2>2, <2>3, HeadFacts
         DEF Input, IInv, TypeOK, OneOwner, Accounts, owner
    <3>3. OneDriver'
      BY <2>1, <2>2, <2>3, <3>1, HeadFacts DEF OneDriver
    <3>4. Honest'
      BY <2>1, <2>2, <2>3, <3>1 DEF Honest, Drives
    <3> QED BY <3>2, <3>3, <3>4 DEF IInv
  <2>4. CASE /\ pc' = [pc EXCEPT ![t] = "done"] /\ UNCHANGED io
             /\ \E r \in {"ok", "error"} : result' = [result EXCEPT ![t] = r]
    <3>1. \A u \in Thread : Drives(u)' <=> u = t
      BY <2>1, <2>2, <2>4 DEF Drives, IInv, TypeOK
    <3>2. TypeOK' /\ OneOwner' /\ Accounts'
      BY <1>2, <2>1, <2>2, <2>4
         DEF Input, IInv, TypeOK, OneOwner, Accounts, owner, Results
    <3>3. OneDriver'
      BY <2>1, <2>2, <2>4, <3>1 DEF OneDriver
    <3>4. result'[t] # "intr"
      BY <2>4 DEF IInv, TypeOK
    <3>5. Honest'
      BY <2>1, <2>2, <2>4, <3>1, <3>4 DEF Honest, Drives, IInv, TypeOK
    <3> QED BY <3>2, <3>3, <3>5 DEF IInv
  <2> QED BY <1>2, <2>3, <2>4 DEF Input, Goto
<1>3. CASE InputDone(t)
  <2>1. /\ pc[t] = "idle" /\ io # NoMsg /\ pc' = [pc EXCEPT ![t] = "done"] /\ io' = NoMsg
        /\ UNCHANGED <<abort, queue, post_end, tried, owner, busy, refs, msg, more>>
        /\ \A u \in Thread : ~Drives(u)
    BY <1>3 DEF InputDone, Goto, IInv, OneDriver
  <2>2. PICK r \in {"ok", "error"} : result' = [result EXCEPT ![t] = r]
    BY <1>3 DEF InputDone
  <2>3. \A u \in Thread : Drives(u)' <=> u = t
    BY <2>1 DEF Drives, IInv, TypeOK
  <2>4. TypeOK' /\ OneOwner' /\ Accounts'
    BY <2>1, <2>2 DEF IInv, TypeOK, OneOwner, Accounts, owner, Results
  <2>5. OneDriver'
    BY <2>1, <2>3 DEF IInv, OneDriver
  <2>6. Honest'
    BY <2>1, <2>2, <2>3 DEF IInv, TypeOK, Honest, Drives, OneDriver
  <2> QED BY <2>4, <2>5, <2>6 DEF IInv
<1>4. CASE Pop(t)
  <2>1. /\ Drives(t) /\ queue # <<>> /\ io = NoMsg /\ \A u \in Thread : Drives(u) => u = t
    BY <1>4 DEF Pop, IInv, OneDriver, Drives
  <2>2. /\ pc[t] = "done" /\ pc' = [pc EXCEPT ![t] = "tell"]
        /\ msg' = [msg EXCEPT ![t] = Head(queue)] /\ queue' = Tail(queue)
        /\ more' = [more EXCEPT ![t] = Tail(queue) # <<>>] /\ tried' = FALSE
        /\ post_end' = (post_end /\ ~(abort /\ Tail(queue) = <<>>))
        /\ busy' = IF post_end /\ abort /\ Tail(queue) = <<>> THEN busy - 1 ELSE busy
        /\ UNCHANGED <<abort, io, owner, refs, result>>
    BY <1>4 DEF Pop, Goto, AnnounceEnd
  <2>3. post_end /\ msg[t] = NoMsg
    BY <2>1, <2>2 DEF IInv, Accounts
  <2>4. Accounts'
    <3>1. ~post_end' => abort' /\ queue' = <<>>
      BY <2>2, <2>3
    <3>2. busy' = (IF post_end' THEN 1 ELSE 0) + (IF out' # "off" THEN 1 ELSE 0)
      <4>1. busy = 1 + (IF out # "off" THEN 1 ELSE 0) /\ out' = out
        BY <2>2, <2>3 DEF IInv, Accounts, owner
      <4>2. CASE abort /\ Tail(queue) = <<>>
        <5>1. ~post_end' /\ busy' = busy - 1
          BY <2>2, <2>3, <4>2
        <5> QED BY <4>1, <5>1
      <4>3. CASE ~(abort /\ Tail(queue) = <<>>)
        <5>1. post_end' /\ busy' = busy
          BY <2>2, <2>3, <4>3
        <5> QED BY <4>1, <5>1
      <4> QED BY <4>2, <4>3
    <3>3. \A u \in Thread : msg'[u] # NoMsg <=> pc'[u] \in {"refuse", "tell"}
      BY <2>1, <2>2, HeadFacts DEF IInv, Accounts, TypeOK
    <3> QED BY <3>1, <3>2, <3>3 DEF Accounts
  <2>5. TypeOK'
    <3>1. busy' \in 0 .. 2
      <4>1. busy' = (IF post_end' THEN 1 ELSE 0) + (IF out' # "off" THEN 1 ELSE 0)
        BY <2>4 DEF Accounts
      <4> QED BY <4>1
    <3> QED BY <2>1, <2>2, <3>1, HeadFacts DEF IInv, TypeOK, owner
  <2>6. \A u \in Thread : Drives(u)' <=> (u = t /\ Tail(queue) # <<>>)
    BY <2>1, <2>2 DEF Drives, IInv, TypeOK
  <2>7. OneDriver'
    BY <2>1, <2>2, <2>6 DEF OneDriver
  <2>8. OneOwner'
    BY <2>1, <2>2, HeadFacts DEF IInv, OneOwner, TypeOK
  <2>9. Honest'
    BY <2>1, <2>2, <2>6 DEF Honest, Drives, IInv, TypeOK
  <2> QED BY <2>4, <2>5, <2>7, <2>8, <2>9 DEF IInv
<1>5. CASE Tell(t)
  <2>1. /\ pc[t] = "tell" /\ msg' = [msg EXCEPT ![t] = NoMsg]
        /\ pc' = [pc EXCEPT ![t] = IF more[t] THEN "next" ELSE "idle"]
        /\ refs' \in Int
        /\ UNCHANGED <<abort, queue, post_end, io, tried, owner, busy, more, result>>
    BY <1>5 DEF Tell, Goto, IInv, TypeOK
  <2>2. \A u \in Thread : Drives(u)' <=> Drives(u)
    BY <2>1 DEF Drives, IInv, TypeOK
  <2>3. TypeOK' /\ OneOwner' /\ Accounts'
    BY <2>1 DEF IInv, TypeOK, OneOwner, Accounts, owner
  <2>4. OneDriver'
    BY <2>1, <2>2 DEF IInv, OneDriver
  <2>5. \A u \in Thread : pc'[u] = "done" <=> pc[u] = "done"
    BY <2>1 DEF IInv, TypeOK
  <2>6. Honest'
    BY <2>1, <2>2, <2>5 DEF IInv, Honest
  <2> QED BY <2>3, <2>4, <2>6 DEF IInv
<1>6. CASE Continue(t)
  <2>1. /\ pc[t] = "next"
        /\ \/ abort /\ pc' = [pc EXCEPT ![t] = "done"] /\ result' = [result EXCEPT ![t] = "intr"]
           \/ ~abort /\ pc' = [pc EXCEPT ![t] = "send"] /\ UNCHANGED result
        /\ UNCHANGED <<abort, queue, post_end, io, tried, owner, busy, refs, msg, more>>
    BY <1>6 DEF Continue, Goto
  <2>2. \A u \in Thread : Drives(u)' <=> Drives(u)
    BY <2>1 DEF Drives, IInv, TypeOK
  <2>3. TypeOK' /\ OneOwner' /\ Accounts'
    BY <2>1 DEF IInv, TypeOK, OneOwner, Accounts, owner, Results
  <2>4. OneDriver'
    BY <2>1, <2>2 DEF IInv, OneDriver
  <2>5. ~tried /\ Drives(t)
    BY <2>1 DEF IInv, Honest, Drives
  <2>6. ASSUME NEW u \in Thread
        PROVE  /\ Drives(u)' /\ pc'[u] # "done" => ~tried'
               /\ pc'[u] = "done" => (tried' <=> result'[u] # "intr")
               /\ pc'[u] = "done" /\ result'[u] = "intr" => abort'
    <3>1. CASE u = t
      BY <2>1, <2>5, <3>1 DEF IInv, TypeOK
    <3>2. CASE u # t
      <4>1. pc'[u] = pc[u] /\ result'[u] = result[u]
        BY <2>1, <3>2 DEF IInv, TypeOK
      <4> QED BY <2>1, <2>2, <4>1 DEF IInv, Honest
    <3> QED BY <3>1, <3>2
  <2>7. Honest'
    BY <2>1, <2>6 DEF IInv, Honest
  <2> QED BY <2>3, <2>4, <2>7 DEF IInv
<1> QED BY <1>1, <1>2, <1>3, <1>4, <1>5, <1>6 DEF Chain

(* The output cycle and the sessions keep it: opening needs a quiet line.  *)
LEMMA SessionStep ==
  ASSUME IInv,
         Output \/ OutputDone \/ OutputFails \/ LateInputEnd \/ Begin \/ Abort
  PROVE  IInv'
<1>1. UNCHANGED <<queue, io, tried, pc, locals>>
  BY DEF Output, OutputDone, OutputFails, LateInputEnd, Begin, Abort
<1>2. \A u \in Thread : Drives(u)' <=> Drives(u)
  BY <1>1 DEF Drives, locals
<1>3. OneDriver' /\ OneOwner'
  BY <1>1, <1>2 DEF IInv, OneDriver, OneOwner, locals
<1>4. Accounts'
  <2>1. \A t \in Thread : msg'[t] # NoMsg <=> pc'[t] \in {"refuse", "tell"}
    BY <1>1 DEF IInv, Accounts, locals
  <2>2. CASE LateInputEnd \/ Abort
    <3>1. /\ abort' /\ out' = out
          /\ post_end' = (post_end /\ ~(queue = <<>>))
          /\ busy' = IF post_end /\ queue = <<>> THEN busy - 1 ELSE busy
      BY <2>2 DEF LateInputEnd, Abort, InputEnd, AnnounceEnd
    <3>2. CASE queue = <<>> /\ post_end
      <4>1. ~post_end' /\ busy' = busy - 1
        BY <3>1, <3>2
      <4>2. busy = 1 + (IF out # "off" THEN 1 ELSE 0)
        BY <3>2 DEF IInv, Accounts
      <4> QED BY <1>1, <2>1, <3>1, <3>2, <4>1, <4>2 DEF Accounts
    <3>3. CASE ~(queue = <<>> /\ post_end)
      <4>1. (post_end' <=> post_end) /\ busy' = busy
        BY <3>1, <3>3
      <4> QED BY <1>1, <2>1, <3>1, <4>1 DEF IInv, Accounts
    <3> QED BY <3>2, <3>3
  <2>3. CASE OutputFails
    BY <1>1, <2>1, <2>3 DEF OutputFails, IInv, Accounts
  <2>4. CASE Begin
    BY <1>1, <2>1, <2>4 DEF Begin, Accounts
  <2>5. CASE Output \/ OutputDone
    BY <1>1, <2>1, <2>5 DEF Output, OutputDone, IInv, Accounts
  <2> QED BY <2>2, <2>3, <2>4, <2>5
<1>5. TypeOK'
  <2>1. busy' \in 0 .. 2
    <3>1. busy' = (IF post_end' THEN 1 ELSE 0) + (IF out' # "off" THEN 1 ELSE 0)
      BY <1>4 DEF Accounts
    <3> QED BY <3>1
  <2>2. abort' \in BOOLEAN /\ post_end' \in BOOLEAN /\ shut' \in BOOLEAN
    BY DEF Output, OutputDone, OutputFails, LateInputEnd, Begin, Abort, InputEnd,
           AnnounceEnd, IInv, TypeOK
  <2>3. out' \in {"off", "run", "wait"} /\ late' \in Nat /\ refs' \in Int
    BY DEF Output, OutputDone, OutputFails, LateInputEnd, Begin, Abort, IInv, TypeOK
  <2> QED BY <1>1, <2>1, <2>2, <2>3 DEF IInv, TypeOK, locals
<1>6. Honest'
  <2>2. ASSUME NEW t \in Thread, pc[t] = "done" PROVE queue # <<>>
    BY <2>2 DEF IInv, OneDriver, Drives
  <2>3. \A t \in Thread : pc[t] = "done" /\ result[t] = "intr" => abort'
    <3>1. CASE Begin
      BY <2>2, <3>1 DEF Begin, IInv, Accounts
    <3>2. CASE ~Begin
      BY <3>2 DEF Output, OutputDone, OutputFails, LateInputEnd, Abort, InputEnd,
           IInv, Honest
    <3> QED BY <3>1, <3>2
  <2> QED BY <1>1, <1>2, <2>3 DEF IInv, Honest, locals
<1> QED BY <1>3, <1>4, <1>5, <1>6 DEF IInv

(* Every step keeps the invariant.                                         *)
LEMMA IInvStep == IInv /\ [Next]_vars => IInv'
<1> SUFFICES ASSUME IInv, [Next]_vars PROVE IInv'
  OBVIOUS
<1>1. CASE UNCHANGED vars
  <2>1. \A u \in Thread : Drives(u)' <=> Drives(u)
    BY <1>1 DEF vars, Drives
  <2> QED BY <1>1, <2>1
          DEF vars, IInv, TypeOK, OneDriver, OneOwner, Accounts, Honest
<1>2. CASE Next
  BY <1>2, PostStep, ChainStep, SessionStep DEF Next
<1> QED BY <1>1, <1>2

(* The invariant holds before the first session.                           *)
LEMMA IInvInit == Init => IInv
<1> SUFFICES ASSUME Init PROVE IInv
  OBVIOUS
<1>1. \A t \in Thread : pc[t] = "idle" /\ msg[t] = NoMsg /\ ~Drives(t)
  BY DEF Init, Drives
<1>2. /\ pc \in [Thread -> {"idle", "refuse", "first", "send", "done", "tell", "next"}]
      /\ msg \in [Thread -> Msg \cup {NoMsg}]
      /\ more \in [Thread -> BOOLEAN]
      /\ result \in [Thread -> Results]
  BY DEF Init, Results
<1>3. /\ abort \in BOOLEAN /\ post_end \in BOOLEAN /\ shut \in BOOLEAN
      /\ tried \in BOOLEAN
  <2>1. abort = TRUE /\ post_end = FALSE /\ shut = FALSE /\ tried = FALSE
    BY DEF Init
  <2> QED BY <2>1
<1>4. /\ io \in Msg \cup {NoMsg} /\ out \in {"off", "run", "wait"}
      /\ late \in Nat /\ busy \in 0 .. 2 /\ refs \in Int
  <2>1. io = NoMsg /\ out = "off" /\ late = 0 /\ busy = 0 /\ refs = 0
    BY DEF Init
  <2> QED BY <2>1
<1>5. queue \in Seq(Msg)
  <2>1. queue = <<>>
    BY DEF Init
  <2>2. <<>> \in Seq(Msg)
    OBVIOUS
  <2> QED BY <2>1, <2>2
<1>6. TypeOK
  BY <1>2, <1>3, <1>5, <1>4 DEF TypeOK
<1>7. OneDriver
  BY <1>1 DEF Init, OneDriver
<1>8. OneOwner
  BY <1>1, EmptyFacts DEF Init, OneOwner
<1>9. Accounts
  BY <1>1 DEF Init, Accounts
<1>10. Honest
  BY <1>1 DEF Init, Honest
<1> QED BY <1>6, <1>7, <1>8, <1>9, <1>10 DEF IInv

(* The invariant holds in every reachable state.                           *)
LEMMA Invariant == Spec => []IInv
  BY IInvInit, IInvStep, PTL DEF Spec

(* The variables keep their types: the busy count stays within 0 and 2.    *)
THEOREM Types == Spec => []TypeOK
<1>1. IInv => TypeOK
  BY DEF IInv
<1> QED BY <1>1, Invariant, PTL

(* However posts and completions race, the first message of the queue has  *)
(* one driver, so _inmsg is never used twice and no message is stranded.   *)
THEOREM Driver == Spec => []OneDriver
<1>1. IInv => OneDriver
  BY DEF IInv
<1> QED BY <1>1, Invariant, PTL

(* A message is in the queue once or in one done(), never both.            *)
THEOREM Owner == Spec => []OneOwner
<1>1. IInv => OneOwner
  BY DEF IInv
<1> QED BY <1>1, Invariant, PTL

(* With a busy count of 0 nothing is under way: AClientSystem may close    *)
(* the io object and open a session, and the assertion of _input_begin     *)
(* holds.                                                                  *)
THEOREM SafeToClose == Spec => []QuietWhenIdle
<1>1. IInv => QuietWhenIdle
  BY Quiet
<1> QED BY <1>1, Invariant, PTL

----------------------------------------------------------------------------
(* The references.  Only those in their last done() can be several, so     *)
(* those who serve the line are counted as they come and go.               *)
Balance == IsFiniteSet(Serving) /\ RefsBalance

(* The next driver is counted in, and out with the last message.           *)
LEMMA ServingMoves ==
  ASSUME IsFiniteSet(Serving), NEW t \in Thread, Serving' \in {Serving \cup {t}, Serving \ {t}}
  PROVE  /\ IsFiniteSet(Serving') /\ Cardinality(Serving) \in Int
         /\ t \in Serving <=> t \in Serving' => Cardinality(Serving') = Cardinality(Serving)
         /\ t \notin Serving /\ t \in Serving' =>
              Cardinality(Serving') = Cardinality(Serving) + 1
         /\ t \in Serving /\ t \notin Serving' =>
              Cardinality(Serving') = Cardinality(Serving) - 1
  BY FS_AddElement, FS_RemoveElement, FS_CardinalityType

(* The steps of the line: a reference is taken with the first input and    *)
(* goes from thread to io object and back.                                 *)
LEMMA ChainBalance ==
  ASSUME IInv, Balance, NEW t \in Thread, Chain(t) \/ InputDone(t)
  PROVE  Balance'
<1>1. pc' = [pc EXCEPT ![t] = pc'[t]] /\ UNCHANGED <<out, late>>
  BY DEF Chain, Refused, Input, Pop, Tell, Continue, InputDone, Goto, IInv, TypeOK, owner
<1>2. \A u \in Thread : u # t => (u \in Serving' <=> u \in Serving)
  BY <1>1 DEF Serving, IInv, TypeOK
<1>3. Serving' \in {Serving \cup {t}, Serving \ {t}}
  BY <1>2 DEF Serving
<1>4. refs' \in Int /\ refs \in Int /\ late \in Int
  BY DEF Chain, Refused, Input, Pop, Tell, Continue, InputDone, IInv, TypeOK
<1> DEFINE Places == {"send", "done", "tell", "next"}
           held == IF io # NoMsg THEN 1 ELSE 0
<1>5. (t \in Serving <=> pc[t] \in Places) /\ (t \in Serving' <=> pc'[t] \in Places)
  BY DEF Serving
<1>6. /\ IsFiniteSet(Serving') /\ Cardinality(Serving) \in Int
      /\ Cardinality(Serving') = Cardinality(Serving)
           + (IF pc'[t] \in Places THEN 1 ELSE 0) - (IF pc[t] \in Places THEN 1 ELSE 0)
  BY <1>3, <1>5, ServingMoves DEF Balance
<1>7. refs' - refs = (IF pc'[t] \in Places THEN 1 ELSE 0) - (IF pc[t] \in Places THEN 1 ELSE 0)
                     + held' - held
  <2>1. CASE Input(t)
    <3>1. io = NoMsg /\ queue # <<>>
      BY <2>1 DEF Input, IInv, OneDriver, Drives
    <3>2. Head(queue) # NoMsg
      BY <3>1, HeadFacts
    <3> QED BY <2>1, <3>1, <3>2, <1>4 DEF Input, Goto, IInv, TypeOK
  <2>2. CASE InputDone(t)
    BY <2>2 DEF InputDone, Goto, IInv, TypeOK
  <2>3. CASE Tell(t)
    BY <2>3 DEF Tell, Goto, IInv, TypeOK
  <2>4. CASE Pop(t) \/ Continue(t) \/ Refused(t)
    BY <2>4 DEF Pop, Continue, Refused, Goto, IInv, TypeOK
  <2> QED BY <2>1, <2>2, <2>3, <2>4 DEF Chain
<1> HIDE DEF Places
<1> QED BY <1>1, <1>4, <1>6, <1>7 DEF Balance, RefsBalance

(* Posts and the owner's steps leave the line alone; a session takes a     *)
(* reference for its output cycle, and its last _input_end gives it back.  *)
LEMMA OtherBalance ==
  ASSUME IInv, Balance,
         \/ \E t \in Thread, m \in Msg : Post(t, m)
         \/ Output \/ OutputDone \/ OutputFails \/ LateInputEnd \/ Begin \/ Abort
         \/ UNCHANGED vars
  PROVE  Balance'
<1>1. Serving' = Serving /\ io' = io
  <2>1. CASE \E t \in Thread, m \in Msg : Post(t, m)
    <3>1. PICK t \in Thread : /\ pc[t] = "idle" /\ io' = io
                              /\ \/ pc' = pc
                                 \/ pc' = [pc EXCEPT ![t] = "first"]
                                 \/ pc' = [pc EXCEPT ![t] = "refuse"]
      BY <2>1 DEF Post, Goto
    <3>2. \A u \in Thread : u \in Serving' <=> u \in Serving
      BY <3>1 DEF Serving, IInv, TypeOK
    <3> QED BY <3>1, <3>2 DEF Serving
  <2>2. CASE UNCHANGED <<pc, io>>
    BY <2>2 DEF Serving
  <2> QED BY <2>1, <2>2 DEF Output, OutputDone, OutputFails, LateInputEnd, Begin, Abort, vars
<1>2. Cardinality(Serving) \in Int /\ late \in Int
  BY FS_CardinalityType DEF Balance, IInv, TypeOK
<1>3. CASE Begin
  <2>1. out = "off"
    BY <1>3, Quiet DEF Begin, QuietWhenIdle
  <2> QED BY <1>1, <1>2, <1>3, <2>1 DEF Begin, Balance, RefsBalance
<1>4. CASE OutputFails \/ LateInputEnd \/ Output \/ OutputDone
  BY <1>1, <1>2, <1>4 DEF OutputFails, LateInputEnd, Output, OutputDone, Balance, RefsBalance
<1>5. CASE (\E t \in Thread, m \in Msg : Post(t, m)) \/ Abort \/ UNCHANGED vars
  BY <1>1, <1>5 DEF Post, Abort, vars, owner, Balance, RefsBalance
<1> QED BY <1>3, <1>4, <1>5

(* The entity of a component is referenced once for each chain that may    *)
(* still touch it, and when none does no reference is left.                *)
THEOREM ReferencesBalance == Spec => []RefsBalance
<1>1. Init => Balance
  <2> SUFFICES ASSUME Init PROVE Balance
    OBVIOUS
  <2>1. Serving = {}
    BY DEF Init, Serving
  <2> QED BY <2>1, FS_EmptySet DEF Init, Balance, RefsBalance
<1>2. IInv /\ Balance /\ [Next]_vars => Balance'
  BY ChainBalance, OtherBalance DEF Next
<1>3. Balance => RefsBalance
  BY DEF Balance
<1> QED BY <1>1, <1>2, <1>3, Invariant, PTL DEF Spec

----------------------------------------------------------------------------
(* The component implements the line of InOutLine.                         *)

(* An answer is a message of the program and a result.                     *)
LEMMA ReplyType ==
  ASSUME IInv, NEW t \in Thread, msg[t] # NoMsg
  PROVE  Reply(t) \in Line!Answers /\ Reply(t) \in Replies
<1>1. msg[t] \in Msg /\ result[t] \in Results
  BY DEF IInv, TypeOK
<1> QED BY <1>1 DEF Line!Answers, Reply, Replies, Results

(* A step that begins no done() and ends none leaves the answers alone.    *)
LEMMA RepliesKept ==
  ASSUME UNCHANGED msg,
         \A u \in Thread : msg[u] # NoMsg =>
           result'[u] = result[u] /\ (pc'[u] = "refuse" <=> pc[u] = "refuse")
  PROVE  Replies' = Replies
<1>1. \A u \in Thread : msg[u] # NoMsg => Reply(u)' = Reply(u)
  BY DEF Reply
<1> QED BY <1>1 DEF Replies

(* A thread that begins a done() adds its answer.                          *)
LEMMA RepliesAdd ==
  ASSUME NEW t \in Thread, msg[t] = NoMsg, msg'[t] # NoMsg, UNCHANGED result,
         \A u \in Thread \ {t} : msg'[u] = msg[u] /\ pc'[u] = pc[u]
  PROVE  Replies' = Replies \cup {Reply(t)'}
<1>1. \A u \in Thread \ {t} : Reply(u)' = Reply(u)
  BY DEF Reply
<1> QED BY <1>1 DEF Replies

(* A thread whose done() returns takes its answer away, and no other one.  *)
LEMMA RepliesDrop ==
  ASSUME IInv, NEW t \in Thread, msg[t] # NoMsg, msg'[t] = NoMsg, UNCHANGED result,
         \A u \in Thread \ {t} : msg'[u] = msg[u] /\ pc'[u] = pc[u]
  PROVE  Replies' = Replies \ {Reply(t)}
<1>1. \A u \in Thread \ {t} : Reply(u)' = Reply(u)
  BY DEF Reply
<1>2. \A u \in Thread \ {t} : msg[u] # NoMsg => Reply(u) # Reply(t)
  BY DEF Reply, IInv, OneOwner
<1> QED BY <1>1, <1>2 DEF Replies

(* Posting accepts a message, or refuses it.                               *)
LEMMA PostImplements ==
  ASSUME IInv, NEW t \in Thread, NEW m \in Msg, Post(t, m)
  PROVE  Line!Next
<1>1. /\ pc[t] = "idle" /\ msg[t] = NoMsg /\ m # NoMsg
      /\ \A u \in Thread : msg[u] # m
  BY InOutAssumption DEF Post, Free, IInv, TypeOK, Accounts
<1>2. Line!Free(m)
  <2>1. \A i \in DOMAIN queue : queue[i] # m
    BY DEF Post, Free, ToSet
  <2>2. \A a \in Replies : a[1] # m
    BY <1>1 DEF Replies, Reply
  <2> QED BY <2>1, <2>2 DEF Line!Free
<1>3. CASE abort
  <2>1. /\ pc' = [pc EXCEPT ![t] = "refuse"] /\ msg' = [msg EXCEPT ![t] = m]
        /\ UNCHANGED <<queue, tried, abort, post_end, result>>
    BY <1>3 DEF Post, Goto
  <2>2. Replies' = Replies \cup {Reply(t)'}
    BY <1>1, <2>1, RepliesAdd DEF IInv, TypeOK
  <2>3. Reply(t)' = <<m, "intr">>
    BY <2>1 DEF Reply, IInv, TypeOK
  <2>4. Line!Refuse(m)
    BY <1>2, <1>3, <2>1, <2>2, <2>3 DEF Line!Refuse
  <2> QED BY <2>4 DEF Line!Next
<1>4. CASE ~abort
  <2>1. /\ queue' = Append(queue, m)
        /\ pc' = IF queue = <<>> THEN [pc EXCEPT ![t] = "first"] ELSE pc
        /\ UNCHANGED <<tried, abort, post_end, msg, result>>
    BY <1>4 DEF Post, Goto
  <2>2. Replies' = Replies
    BY <1>1, <2>1, RepliesKept DEF IInv, TypeOK
  <2>3. Line!Accept(m)
    BY <1>2, <1>4, <2>1, <2>2 DEF Line!Accept
  <2> QED BY <2>3 DEF Line!Next
<1> QED BY <1>3, <1>4

(* The driver sends the head of the queue and answers it.                  *)
LEMMA ChainImplements ==
  ASSUME IInv, NEW t \in Thread, Chain(t) \/ InputDone(t)
  PROVE  [Line!Next]_(Line!vars)
<1>1. CASE Refused(t) \/ Tell(t)
  <2>1. /\ msg[t] # NoMsg /\ msg' = [msg EXCEPT ![t] = NoMsg]
        /\ \A u \in Thread \ {t} : pc'[u] = pc[u]
        /\ UNCHANGED <<queue, tried, abort, post_end, result>>
    BY <1>1 DEF Refused, Tell, Goto, IInv, TypeOK, Accounts
  <2>2. msg'[t] = NoMsg /\ \A u \in Thread \ {t} : msg'[u] = msg[u]
    BY <2>1 DEF IInv, TypeOK
  <2>3. Replies' = Replies \ {Reply(t)}
    BY <2>1, <2>2, RepliesDrop
  <2>4. Line!Return(Reply(t)) /\ Reply(t) \in Line!Answers
    BY <2>1, <2>3, ReplyType DEF Line!Return
  <2> QED BY <2>4 DEF Line!Next
<1>2. CASE Input(t)
  <2>1. /\ Drives(t) /\ pc[t] # "done" /\ msg[t] = NoMsg
        /\ UNCHANGED <<queue, abort, post_end, msg>> /\ tried' = TRUE
        /\ \A u \in Thread \ {t} : pc'[u] = pc[u] /\ result'[u] = result[u]
    BY <1>2 DEF Input, Goto, Drives, IInv, TypeOK, Accounts
  <2>2. queue # <<>> /\ ~tried
    BY <2>1 DEF IInv, OneDriver, Honest
  <2>3. Replies' = Replies
    BY <2>1, RepliesKept
  <2>4. Line!Send
    BY <2>1, <2>2, <2>3 DEF Line!Send
  <2> QED BY <2>4 DEF Line!Next
<1>3. CASE Pop(t)
  <2>1. /\ pc[t] = "done" /\ msg[t] = NoMsg /\ Drives(t)
        /\ pc' = [pc EXCEPT ![t] = "tell"]
        /\ msg' = [msg EXCEPT ![t] = Head(queue)]
        /\ queue' = Tail(queue) /\ tried' = FALSE
        /\ post_end' = (post_end /\ ~(abort /\ Tail(queue) = <<>>))
        /\ UNCHANGED <<abort, result>>
    BY <1>3 DEF Pop, Goto, AnnounceEnd, Drives, IInv, TypeOK, Accounts
  <2>2. queue # <<>>
    BY <2>1 DEF IInv, OneDriver
  <2>3. Head(queue) # NoMsg
    BY <2>2, HeadFacts
  <2>4. Replies' = Replies \cup {Reply(t)'}
    BY <2>1, <2>3, RepliesAdd DEF IInv, TypeOK
  <2>5. Reply(t)' = <<Head(queue), result[t]>>
    BY <2>1 DEF Reply, IInv, TypeOK
  <2>6. IF result[t] = "intr" THEN abort /\ ~tried ELSE tried
    BY <2>1 DEF IInv, Honest
  <2>7. Line!Answer(result[t])
    BY <2>1, <2>2, <2>4, <2>5, <2>6 DEF Line!Answer
  <2>8. result[t] \in {"ok", "error", "intr"}
    BY DEF IInv, TypeOK, Results
  <2> QED BY <2>7, <2>8 DEF Line!Next
<1>4. CASE Continue(t) \/ InputDone(t)
  <2>1. /\ UNCHANGED <<queue, tried, abort, post_end, msg>> /\ msg[t] = NoMsg
        /\ \A u \in Thread \ {t} : pc'[u] = pc[u] /\ result'[u] = result[u]
    BY <1>4 DEF Continue, InputDone, Goto, IInv, TypeOK, Accounts
  <2>2. Replies' = Replies
    BY <2>1, RepliesKept
  <2> QED BY <2>1, <2>2 DEF Line!vars
<1> QED BY <1>1, <1>2, <1>3, <1>4 DEF Chain

(* A session opens the line and its end closes it.                         *)
LEMMA SessionImplements ==
  ASSUME IInv, Output \/ OutputDone \/ OutputFails \/ LateInputEnd \/ Begin \/ Abort
  PROVE  [Line!Next]_(Line!vars)
<1>1. UNCHANGED <<queue, tried, pc, msg, result>>
  BY DEF Output, OutputDone, OutputFails, LateInputEnd, Begin, Abort, locals
<1>2. Replies' = Replies
  BY <1>1, RepliesKept
<1>3. CASE Output \/ OutputDone \/ OutputFails
  BY <1>1, <1>2, <1>3 DEF Output, OutputDone, OutputFails, Line!vars
<1>4. CASE LateInputEnd \/ Abort
  <2>1. abort' = TRUE /\ post_end' = (post_end /\ queue # <<>>)
    BY <1>4 DEF LateInputEnd, Abort, InputEnd, AnnounceEnd
  <2>2. Line!Close
    BY <1>1, <1>2, <2>1 DEF Line!Close
  <2> QED BY <2>2 DEF Line!Next
<1>5. CASE Begin
  <2>1. ~post_end /\ abort' = FALSE /\ post_end' = TRUE
    BY <1>5 DEF Begin, IInv, TypeOK, Accounts
  <2>2. Line!Open
    BY <1>1, <1>2, <2>1 DEF Line!Open
  <2> QED BY <2>2 DEF Line!Next
<1> QED BY <1>3, <1>4, <1>5

(* Whatever the interleaving of posters, completions and sessions, the     *)
(* component answers each accepted message once, in the order of           *)
(* acceptance, and announces the end once: it implements InOutLine.        *)
THEOREM Implements == Spec => KeepsOrder
<1>1. Init => Line!Init
  <2> SUFFICES ASSUME Init PROVE Line!Init
    OBVIOUS
  <2>1. \A t \in Thread : msg[t] = NoMsg
    BY DEF Init
  <2>2. Replies = {}
    BY <2>1 DEF Replies
  <2> QED BY <2>2 DEF Init, Line!Init
<1>2. IInv /\ [Next]_vars => [Line!Next]_(Line!vars)
  <2> SUFFICES ASSUME IInv, [Next]_vars PROVE [Line!Next]_(Line!vars)
    OBVIOUS
  <2>1. CASE UNCHANGED vars
    <3>1. UNCHANGED <<queue, tried, abort, post_end, pc, msg, result>>
      BY <2>1 DEF vars
    <3>2. Replies' = Replies
      BY <3>1, RepliesKept
    <3> QED BY <3>1, <3>2 DEF Line!vars
  <2>2. CASE Next
    BY <2>2, PostImplements, ChainImplements, SessionImplements DEF Next
  <2> QED BY <2>1, <2>2
<1> QED BY <1>1, <1>2, Invariant, PTL DEF Spec, KeepsOrder, Line!Spec
=============================================================================
