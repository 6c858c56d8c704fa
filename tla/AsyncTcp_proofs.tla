-------------------------- MODULE AsyncTcp_proofs --------------------------
(***************************************************************************)
(* The exchange between requests and the epoll thread, for buffers of any  *)
(* size and any lag of the counts, under the assumption Prompt: one holder *)
(* of each request, the assertions of the source, and a binding that gives *)
(* its reference back once.                                                *)
(***************************************************************************)
EXTENDS AsyncTcp, TLAPS

(* What a socket that is bound, or not, says of the epoll thread, of the   *)
(* status words and of the owner.  ao_events and the registration differ   *)
(* only between the two statements of AThreadBind(0).                      *)
Binding ==
  /\ events => reg
  /\ ep = "del" <=> reg /\ ~events
  /\ ep \in {"next", "raise", "try", "io", "park", "error"} => events
  /\ ep \in {"fail", "release"} => ~reg
  /\ reg => net # "none" /\ \A d \in Dir : status[d] # "error"
  /\ phase = "closed" => ~reg
  /\ phase \in {"closed", "closing"} => \A d \in Dir : ~asked[d]

IInv == TypeOK /\ OneHolder /\ BoundIsHeld /\ Binding

(* OneHolder without the names of the holders.                             *)
OneHolderPlain ==
  \A d \in Dir :
    /\ asked[d] <=> \/ Working("owner", d) \/ Working("epoll", d)
                    \/ status[d] = "pending"
    /\ ~(Working("owner", d) /\ Working("epoll", d))
    /\ ~(Working("owner", d) /\ status[d] = "pending")
    /\ ~(Working("epoll", d) /\ status[d] = "pending")

LEMMA Plain == OneHolder <=> OneHolderPlain
  BY DEF OneHolder, OneHolderPlain, Holds, Worker

(* Where the two workers are.                                              *)
LEMMA Workers ==
  ASSUME NEW d \in Dir
  PROVE  /\ Working("owner", d) <=> rp[d] \in {"try", "io", "park"}
         /\ Working("epoll", d) <=> cur = d /\ ep \in {"try", "io", "park"}
  BY DEF Working, Place

LEMMA InitInv == Init => IInv
<1> SUFFICES ASSUME Init PROVE IInv
  OBVIOUS
<1>1. TypeOK
  <2>1. 0 \in 0 .. MaxAvail
    BY TcpAssumption
  <2>2. todo \subseteq Dir /\ cur \in Dir
    BY DEF Init, Dir
  <2>3. ticked \in BOOLEAN /\ edge \in BOOLEAN /\ events \in BOOLEAN /\ reg \in BOOLEAN /\ opening \in BOOLEAN
    BY DEF Init
  <2>4. avail \in [Dir -> 0 .. MaxAvail]
    BY <2>1 DEF Init
  <2>5. /\ status \in [Dir -> {"none", "pending", "signal", "error"}]
        /\ lag \in [Dir -> Int]
    BY DEF Init
  <2>6. /\ asked \in [Dir -> BOOLEAN]
        /\ rp \in [Dir -> {"idle", "try", "io", "park"}]
    BY DEF Init
  <2> QED BY <2>1, <2>2, <2>3, <2>4, <2>5, <2>6 DEF Init, TypeOK
<1>2. OneHolder
  BY Plain, Workers DEF Init, OneHolderPlain
<1>3. BoundIsHeld /\ Binding
  BY DEF Init, BoundIsHeld, Binding, InError
<1> QED BY <1>1, <1>2, <1>3 DEF IInv

(* A worker that moves is the only one that moves.                         *)
LEMMA Moves ==
  ASSUME TypeOK, NEW w \in Worker, NEW d \in Dir, Working(w, d), NEW place, Goto(w, d, place)
  PROVE  \A v \in Worker, e \in Dir :
           Working(v, e)' <=> IF v = w /\ e = d THEN place \in {"try", "io", "park"}
                                              ELSE Working(v, e)
<1>1. CASE w = "owner"
  <2>1. rp' = [rp EXCEPT ![d] = place] /\ UNCHANGED <<ep, cur>>
    BY <1>1 DEF Goto, thread
  <2>2. \A e \in Dir : rp'[e] = IF e = d THEN place ELSE rp[e]
    BY <2>1 DEF TypeOK
  <2> QED BY <1>1, <2>1, <2>2 DEF Working, Place, Worker
<1>2. CASE w = "epoll"
  <2>1. ep' = place /\ UNCHANGED <<rp, cur>> /\ cur = d
    BY <1>2 DEF Goto, Working, Place
  <2> QED BY <1>2, <2>1 DEF Working, Place, Worker
<1> QED BY <1>1, <1>2 DEF Worker

(* The worker goes on with the request, answers it, or leaves it to wait:  *)
(* the request keeps one holder, or has none.                              *)
LEMMA Passes ==
  ASSUME IInv, NEW w \in Worker, NEW d \in Dir, Working(w, d), NEW place, Goto(w, d, place),
         \/ /\ place \in {"try", "io", "park"} /\ UNCHANGED asked
            /\ \A e \in Dir : status'[e] = "pending" <=> status[e] = "pending"
         \/ /\ place \notin {"try", "io", "park"}
            /\ asked' = [asked EXCEPT ![d] = FALSE]
            /\ \A e \in Dir : status'[e] = "pending" <=> status[e] = "pending"
         \/ /\ place \notin {"try", "io", "park"} /\ UNCHANGED asked
            /\ status' = [status EXCEPT ![d] = "pending"]
  PROVE  OneHolder'
<1>1. \A v \in Worker, e \in Dir :
        Working(v, e)' <=> IF v = w /\ e = d THEN place \in {"try", "io", "park"}
                                           ELSE Working(v, e)
  BY Moves DEF IInv
<1>2. TypeOK /\ OneHolderPlain
  BY Plain DEF IInv
<1>3. OneHolderPlain'
  BY <1>1, <1>2 DEF OneHolderPlain, TypeOK, Worker
<1> QED BY <1>3, Plain DEF OneHolder, OneHolderPlain, Holds, Worker

(* The epoll thread stays with a bound socket while it works.              *)
LEMMA StaysBound ==
  ASSUME IInv, NEW w \in Worker, NEW d \in Dir, Working(w, d), NEW place, Goto(w, d, place),
         w = "epoll" => place \in {"try", "io", "park", "next"},
         UNCHANGED <<socket, phase>>,
         \A e \in Dir : status'[e] = "error" => status[e] = "error",
         \A e \in Dir : asked'[e] => asked[e]
  PROVE  BoundIsHeld' /\ Binding'
<1>1. CASE w = "owner"
  <2>1. UNCHANGED <<ep, cur>>
    BY <1>1 DEF Goto, thread
  <2> QED BY <2>1 DEF IInv, BoundIsHeld, Binding, socket, InError
<1>2. CASE w = "epoll"
  <2>1. ep' \in {"try", "io", "park", "next"} /\ ep \in {"try", "io", "park"}
    BY <1>2 DEF Goto, Working, Place
  <2> QED BY <2>1 DEF IInv, BoundIsHeld, Binding, socket, InError
<1> QED BY <1>1, <1>2 DEF Worker

(* AsyncOvlpProc keeps the invariant, whoever runs it.                     *)
LEMMA ProcStep ==
  ASSUME IInv, NEW w \in Worker, NEW d \in Dir, Proc(w, d)
  PROVE  IInv'
<1>1. Working(w, d)
  BY DEF Proc, Try, Transfer, Park, Working
<1> DEFINE End == IF w = "owner" THEN "idle" ELSE "next"
<1>2. ASSUME NEW place \in {"try", "io", "park", End}, Goto(w, d, place)
      PROVE  /\ rp' \in [Dir -> {"idle", "try", "io", "park"}]
             /\ ep' \in {"idle", "next", "raise", "try", "io", "park", "error", "del", "fail",
                        "release"}
             /\ UNCHANGED <<todo, cur>>
  <2>1. CASE w = "owner"
    BY <1>2, <2>1 DEF Goto, thread, IInv, TypeOK
  <2>2. CASE w = "epoll"
    BY <1>2, <2>2 DEF Goto, IInv, TypeOK
  <2> QED BY <2>1, <2>2 DEF Worker
<1>3. ASSUME Answer(w, d), UNCHANGED <<socket, phase>>,
             \A e \in Dir : status'[e] \in {status[e], "none"} /\
                            (status[e] = "pending" => status'[e] = "pending")
      PROVE  OneHolder' /\ BoundIsHeld' /\ Binding'
  <2>1. Goto(w, d, End) /\ asked' = [asked EXCEPT ![d] = FALSE]
    BY <1>3 DEF Answer
  <2>2. OneHolder'
    BY <1>1, <1>3, <2>1, Passes
  <2>3. \A e \in Dir : asked'[e] => asked[e]
    BY <2>1 DEF IInv, TypeOK
  <2> QED BY <1>1, <1>3, <2>1, <2>2, <2>3, StaysBound
<1>4. CASE Try(w, d)
  <2>1. CASE status[d] = "error" /\ Answer(w, d) /\ UNCHANGED status
    <3>1. TypeOK'
      BY <1>2, <1>4, <2>1 DEF Try, Answer, IInv, TypeOK, socket, Worker
    <3> QED BY <1>3, <1>4, <2>1, <3>1 DEF Try, IInv
  <2>2. CASE status[d] # "error"
    <3> DEFINE place == IF status[d] = "signal" \/ lag[d] # 0 THEN "io" ELSE "park"
    <3>1. /\ Goto(w, d, place) /\ UNCHANGED <<asked, socket, phase>>
          /\ status' = [status EXCEPT ![d] = IF @ = "signal" THEN "none" ELSE @]
          /\ UNCHANGED <<avail, opening, lag>>
      BY <1>4, <2>2 DEF Try
    <3>2. \A e \in Dir : /\ status'[e] = "pending" <=> status[e] = "pending"
                         /\ status'[e] = "error" => status[e] = "error"
      BY <3>1 DEF IInv, TypeOK
    <3>3. TypeOK'
      BY <1>2, <3>1 DEF IInv, TypeOK, socket
    <3>4. OneHolder'
      BY <1>1, <3>1, <3>2, Passes
    <3>5. BoundIsHeld' /\ Binding'
      BY <1>1, <3>1, <3>2, StaysBound
    <3> QED BY <3>3, <3>4, <3>5 DEF IInv
  <2> QED BY <1>4, <2>1, <2>2 DEF Try
<1>5. CASE Transfer(w, d)
  <2>1. UNCHANGED <<socket, opening, status, phase>>
    BY <1>5 DEF Transfer
  <2>2. avail' \in [Dir -> 0 .. MaxAvail] /\ lag' \in [Dir -> Int]
    <3>1. CASE FullTransfer(w, d)
      <4>1. PICK n \in 0 .. avail[d] - 1 : avail' = [avail EXCEPT ![d] = n]
        BY <3>1 DEF FullTransfer
      <4>2. n \in 0 .. MaxAvail
        BY <4>1, TcpAssumption DEF IInv, TypeOK
      <4> QED BY <3>1, <4>1, <4>2 DEF FullTransfer, IInv, TypeOK
    <3>2. CASE ShortTransfer(w, d)
      BY <3>2, TcpAssumption DEF ShortTransfer, IInv, TypeOK
    <3>3. CASE NoTransfer(w, d)
      BY <3>3 DEF NoTransfer, IInv, TypeOK
    <3> QED BY <1>5, <3>1, <3>2, <3>3 DEF Transfer
  <2>3. Answer(w, d) \/ (Goto(w, d, "park") /\ UNCHANGED asked)
    BY <1>5 DEF Transfer, FullTransfer, ShortTransfer, NoTransfer
  <2>4. CASE Answer(w, d)
    <3>1. TypeOK'
      BY <1>2, <2>1, <2>2, <2>4 DEF Answer, IInv, TypeOK, socket, Worker
    <3> QED BY <1>3, <2>1, <2>4, <3>1 DEF IInv
  <2>5. CASE Goto(w, d, "park") /\ UNCHANGED asked
    <3>1. TypeOK'
      BY <1>2, <2>1, <2>2, <2>5 DEF IInv, TypeOK, socket
    <3>2. OneHolder'
      BY <1>1, <2>1, <2>5, Passes
    <3>3. BoundIsHeld' /\ Binding'
      BY <1>1, <2>1, <2>5, StaysBound
    <3> QED BY <3>1, <3>2, <3>3 DEF IInv
  <2> QED BY <2>3, <2>4, <2>5
<1>6. CASE Park(w, d)
  <2>1. UNCHANGED <<socket, avail, opening, lag, phase>>
    BY <1>6 DEF Park
  <2>2. CASE /\ status[d] = "none" /\ Goto(w, d, End) /\ UNCHANGED asked
             /\ status' = [status EXCEPT ![d] = "pending"]
    <3>1. TypeOK'
      BY <1>2, <2>1, <2>2 DEF IInv, TypeOK, socket, Worker
    <3>2. OneHolder'
      BY <1>1, <2>2, Passes
    <3>3. \A e \in Dir : status'[e] = "error" => status[e] = "error"
      BY <2>2 DEF IInv, TypeOK
    <3>4. BoundIsHeld' /\ Binding'
      BY <1>1, <2>1, <2>2, <3>3, StaysBound
    <3> QED BY <3>1, <3>2, <3>4 DEF IInv
  <2>3. CASE status[d] = "signal" /\ Goto(w, d, "try") /\ UNCHANGED <<status, asked>>
    <3>1. TypeOK'
      BY <1>2, <2>1, <2>3 DEF IInv, TypeOK, socket
    <3>2. OneHolder'
      BY <1>1, <2>3, Passes
    <3>3. BoundIsHeld' /\ Binding'
      BY <1>1, <2>1, <2>3, StaysBound
    <3> QED BY <3>1, <3>2, <3>3 DEF IInv
  <2>4. CASE Answer(w, d) /\ UNCHANGED status
    <3>1. TypeOK'
      BY <1>2, <2>1, <2>4 DEF Answer, IInv, TypeOK, socket, Worker
    <3> QED BY <1>3, <2>1, <2>4, <3>1 DEF IInv
  <2> QED BY <1>6, <2>2, <2>3, <2>4 DEF Park
<1> QED BY <1>4, <1>5, <1>6 DEF Proc

(* OneHolder survives a step that moves no worker and no waiting request.  *)
LEMMA Untouched ==
  ASSUME OneHolder, UNCHANGED <<rp, asked>>,
         \A e \in Dir : status'[e] = "pending" <=> status[e] = "pending",
         \A e \in Dir : Working("epoll", e)' <=> Working("epoll", e)
  PROVE  OneHolder'
<1>1. \A e \in Dir : Working("owner", e)' <=> Working("owner", e)
  BY DEF Working, Place
<1>2. OneHolderPlain
  BY Plain
<1>3. OneHolderPlain'
  BY <1>1, <1>2 DEF OneHolderPlain
<1> QED BY <1>3 DEF OneHolder, OneHolderPlain, Holds, Worker

(* The events of the epoll thread: readiness, or the answer of an open.    *)
LEMMA SignalStep ==
  ASSUME IInv, Report \/ NextSignal \/ Raise
  PROVE  IInv'
<1>1. CASE Report
  <2>1. /\ ep = "idle" /\ reg /\ events /\ edge' = FALSE
        /\ UNCHANGED <<net, avail, events, reg, held, ticked, rp>>
    BY <1>1 DEF Report, IInv, Binding
  <2>2. CASE opening /\ Connect
    <3> lag' \in [Dir -> Int]
      BY <2>2 DEF Connect, IInv, TypeOK
    <3> UNCHANGED thread
      BY <2>2 DEF Connect
    <3>1. CASE /\ status["send"] = "pending"
               /\ status' = [status EXCEPT !["send"] = "none"] /\ opening' = FALSE
               /\ asked' = [asked EXCEPT !["send"] = FALSE] /\ phase' \in {"open", "failed"}
      <4>1. TypeOK'
        BY <2>1, <3>1 DEF IInv, TypeOK, thread
      <4>2. \A w \in Worker, d \in Dir : Working(w, d)' <=> Working(w, d)
        BY <2>1, <2>2 DEF Connect, Working, Place, thread
      <4>3. OneHolderPlain
        BY Plain DEF IInv
      <4>4. OneHolderPlain'
        BY <3>1, <4>2, <4>3 DEF OneHolderPlain, IInv, TypeOK, Worker
      <4>5. OneHolder'
        BY <4>4 DEF OneHolder, OneHolderPlain, Holds, Worker
      <4>6. BoundIsHeld' /\ Binding'
        BY <2>1, <2>2, <3>1 DEF Connect, IInv, TypeOK, BoundIsHeld, Binding, InError, thread
      <4> QED BY <4>1, <4>5, <4>6 DEF IInv
    <3>2. CASE UNCHANGED <<status, opening, asked, phase>>
      <4>1. TypeOK'
        BY <2>1, <3>2 DEF IInv, TypeOK, thread
      <4>2. OneHolder'
        BY <2>1, <2>2, <3>2, Untouched DEF Connect, Working, Place, IInv, thread
      <4>3. BoundIsHeld' /\ Binding'
        BY <2>1, <2>2, <3>2 DEF Connect, IInv, BoundIsHeld, Binding, InError, thread
      <4> QED BY <4>1, <4>2, <4>3 DEF IInv
    <3> QED BY <2>2, <3>1, <3>2 DEF Connect
  <2>3. CASE /\ ep' \in {"error", "next", "idle"} /\ todo' \subseteq Dir
             /\ UNCHANGED <<cur, lag, status, opening, asked, phase>>
    <3>1. TypeOK'
      BY <2>1, <2>3 DEF IInv, TypeOK
    <3>2. OneHolder'
      BY <2>1, <2>3, Untouched DEF Working, Place, IInv
    <3>3. BoundIsHeld' /\ Binding'
      BY <2>1, <2>3 DEF IInv, BoundIsHeld, Binding, InError
    <3> QED BY <3>1, <3>2, <3>3 DEF IInv
  <2>4. Ready \subseteq Dir /\ todo \subseteq Dir
    BY DEF Ready, Dir, IInv, TypeOK
  <2> QED BY <1>1, <2>2, <2>3, <2>4 DEF Report, thread
<1>2. CASE NextSignal
  <2>1. /\ ep = "next" /\ ep' \in {"idle", "raise"} /\ cur' \in Dir /\ todo' \subseteq Dir
        /\ lag' \in [Dir -> Int]
        /\ UNCHANGED <<socket, avail, opening, status, asked, rp, phase>>
    <3>1. /\ ep = "next" /\ todo \subseteq Dir /\ lag \in [Dir -> Int]
          /\ UNCHANGED <<socket, avail, opening, status, asked, rp, phase>>
      BY <1>2 DEF NextSignal, IInv, TypeOK
    <3>2. CASE todo = {}
      BY <1>2, <3>1, <3>2 DEF NextSignal, Dir
    <3>3. CASE todo # {}
      <4> DEFINE d == IF "send" \in todo THEN "send" ELSE "recv"
      <4>1. /\ d \in Dir /\ ep' = "raise" /\ cur' = d /\ todo' = todo \ {d}
            /\ lag' = [lag EXCEPT ![d] = @ + 1]
        BY <1>2, <3>3 DEF NextSignal, Dir
      <4> HIDE DEF d
      <4> QED BY <3>1, <4>1
    <3> QED BY <3>2, <3>3
  <2>2. TypeOK'
    BY <2>1 DEF IInv, TypeOK, socket
  <2>3. OneHolder'
    BY <2>1, Untouched DEF Working, Place, IInv
  <2>4. BoundIsHeld' /\ Binding'
    BY <2>1 DEF IInv, BoundIsHeld, Binding, InError, socket
  <2> QED BY <2>2, <2>3, <2>4 DEF IInv
<1>3. CASE Raise
  <2>1. /\ ep = "raise" /\ cur \in Dir /\ status' = [status EXCEPT ![cur] = "signal"]
        /\ ep' = (IF status[cur] = "pending" THEN "try" ELSE "next")
        /\ lag' \in [Dir -> Int]
        /\ UNCHANGED <<socket, avail, opening, asked, rp, todo, cur, phase>>
    BY <1>3 DEF Raise, IInv, TypeOK
  <2>2. TypeOK'
    BY <2>1 DEF IInv, TypeOK, socket
  <2>3. \A d \in Dir : /\ Working("owner", d)' <=> Working("owner", d)
                       /\ ~Working("epoll", d)
                       /\ Working("epoll", d)' <=> d = cur /\ status[d] = "pending"
                       /\ status'[d] = "pending" <=> d # cur /\ status[d] = "pending"
    BY <2>1 DEF Working, Place, IInv, TypeOK
  <2>4. OneHolderPlain
    BY Plain DEF IInv
  <2>5. OneHolderPlain'
    BY <2>1, <2>3, <2>4 DEF OneHolderPlain
  <2>6. OneHolder'
    BY <2>5 DEF OneHolder, OneHolderPlain, Holds, Worker
  <2>7. BoundIsHeld' /\ Binding'
    BY <2>1 DEF IInv, TypeOK, BoundIsHeld, Binding, InError, socket
  <2> QED BY <2>2, <2>6, <2>7 DEF IInv
<1> QED BY <1>1, <1>2, <1>3

(* AsyncOvlpError, and the close the epoll thread makes.                   *)
LEMMA ErrorStep ==
  ASSUME IInv, Unbind \/ Delete \/ FailRequest \/ ReleaseBinding \/ CloseDone
  PROVE  IInv'
<1>1. CASE Unbind
  <2>1. TypeOK' /\ BoundIsHeld' /\ Binding'
    BY <1>1 DEF Unbind, IInv, TypeOK, BoundIsHeld, Binding, InError
  <2>2. OneHolder'
    BY <1>1, Untouched DEF Unbind, Working, Place, IInv
  <2> QED BY <2>1, <2>2 DEF IInv
<1>2. CASE Delete
  <2>1. TypeOK' /\ BoundIsHeld' /\ Binding'
    BY <1>2 DEF Delete, IInv, TypeOK, BoundIsHeld, Binding, InError, Dir
  <2>2. OneHolder'
    BY <1>2, Untouched DEF Delete, Working, Place, IInv
  <2> QED BY <2>1, <2>2 DEF IInv
<1>3. CASE FailRequest
  <2>1. /\ ep = "fail" /\ ep' \in {"fail", "release"} /\ cur \in Dir /\ cur' \in Dir
        /\ status' = [status EXCEPT ![cur] = "error"]
        /\ asked' = [asked EXCEPT ![cur] = asked[cur] /\ status[cur] # "pending"]
        /\ phase' \in {phase, "failed"} /\ (phase' # phase => phase = "opening")
        /\ UNCHANGED <<socket, avail, opening, lag, rp, todo>>
    BY <1>3 DEF FailRequest, Dir, IInv, TypeOK
  <2>2. TypeOK'
    BY <2>1 DEF IInv, TypeOK, socket
  <2>3. \A d \in Dir : /\ Working("owner", d)' <=> Working("owner", d)
                       /\ ~Working("epoll", d) /\ ~Working("epoll", d)'
                       /\ status'[d] = "pending" <=> d # cur /\ status[d] = "pending"
                       /\ asked'[d] <=> asked[d] /\ ~(d = cur /\ status[d] = "pending")
    BY <2>1 DEF Working, Place, IInv, TypeOK
  <2>4. OneHolderPlain
    BY Plain DEF IInv
  <2>5. OneHolderPlain'
    BY <2>3, <2>4 DEF OneHolderPlain
  <2>6. OneHolder'
    BY <2>5 DEF OneHolder, OneHolderPlain, Holds, Worker
  <2>7. BoundIsHeld' /\ Binding'
    BY <2>1, <2>3 DEF IInv, BoundIsHeld, Binding, InError, socket
  <2> QED BY <2>2, <2>6, <2>7 DEF IInv
<1>4. CASE ReleaseBinding
  <2>1. TypeOK' /\ BoundIsHeld' /\ Binding'
    BY <1>4 DEF ReleaseBinding, IInv, TypeOK, BoundIsHeld, Binding, InError
  <2>2. OneHolder'
    BY <1>4, Untouched DEF ReleaseBinding, Working, Place, IInv
  <2> QED BY <2>1, <2>2 DEF IInv
<1>5. CASE CloseDone
  <2>1. BoundIsHeld' /\ Binding'
    BY <1>5 DEF CloseDone, Gone, thread, IInv, TypeOK, BoundIsHeld, Binding, InError
  <2>2. TypeOK'
    <3>1. avail' \in [Dir -> 0 .. MaxAvail]
      <4>1. 0 \in 0 .. MaxAvail
        BY TcpAssumption
      <4> QED BY <1>5, <4>1 DEF CloseDone, Gone
    <3>2. net' = "none" /\ edge' = FALSE /\ events' = FALSE /\ reg' = FALSE /\ phase' = "closed"
      BY <1>5 DEF CloseDone, Gone
    <3>3. held' \in 0 .. 1
      BY <2>1 DEF BoundIsHeld
    <3> QED BY <1>5, <3>1, <3>2, <3>3 DEF CloseDone, thread, IInv, TypeOK
  <2>3. OneHolder'
    BY <1>5, Untouched DEF CloseDone, Working, Place, IInv, thread
  <2> QED BY <2>1, <2>2, <2>3 DEF IInv
<1> QED BY <1>1, <1>2, <1>3, <1>4, <1>5

(* An open finds everything of the previous one at an end.                 *)
LEMMA OpenStep ==
  ASSUME Prompt, IInv, Open
  PROVE  IInv'
<1>1. ep = "idle" /\ held = 0 /\ \A d \in Dir : ~asked[d]
  BY DEF Open, IInv, TypeOK, BoundIsHeld, Binding, InError
<1>2. /\ net' = "connecting" /\ opening' = TRUE /\ events' = TRUE /\ reg' = TRUE
      /\ ticked' = TRUE
      /\ edge' = FALSE /\ held' = 1 /\ phase' = "opening"
      /\ asked' = [asked EXCEPT !["send"] = TRUE]
      /\ status' = [d \in Dir |-> IF d = "send" THEN "pending" ELSE "none"]
      /\ UNCHANGED <<rp, thread>>
  BY <1>1 DEF Open
<1>3. TypeOK'
  <2>1. 0 \in 0 .. MaxAvail
    BY TcpAssumption
  <2>2. avail' \in [Dir -> 0 .. MaxAvail] /\ lag' \in [Dir -> Int]
    BY <2>1 DEF Open
  <2>3. /\ status' \in [Dir -> {"none", "pending", "signal", "error"}]
        /\ asked' \in [Dir -> BOOLEAN]
    BY <1>2 DEF IInv, TypeOK
  <2>4. /\ rp' = rp /\ ep' = ep /\ todo' = todo /\ cur' = cur
        /\ net' = "connecting" /\ phase' = "opening" /\ held' = 1
        /\ ticked' \in BOOLEAN
        /\ edge' \in BOOLEAN /\ events' \in BOOLEAN /\ reg' \in BOOLEAN /\ opening' \in BOOLEAN
    BY <1>2 DEF thread
  <2> QED BY <2>2, <2>3, <2>4 DEF IInv, TypeOK
<1>4. OneHolder'
  <2>1. \A w \in Worker, d \in Dir : ~Working(w, d)
    BY <1>1 DEF IInv, OneHolder, Holds, Worker
  <2>2. \A w \in Worker, d \in Dir : ~Working(w, d)'
    BY <1>2, <2>1 DEF Working, Place, Worker, thread
  <2>3. \A d \in Dir : asked'[d] <=> d = "send"
    BY <1>1, <1>2 DEF IInv, TypeOK
  <2>4. \A d \in Dir : status'[d] = "pending" <=> d = "send"
    BY <1>2
  <2>5. OneHolderPlain'
    BY <2>2, <2>3, <2>4 DEF OneHolderPlain, Worker
  <2> QED BY <2>5 DEF OneHolder, OneHolderPlain, Holds, Worker
<1>5. BoundIsHeld' /\ Binding'
  BY <1>1, <1>2 DEF BoundIsHeld, Binding, InError, thread
<1> QED BY <1>3, <1>4, <1>5 DEF IInv

(* The other calls of the owner.                                           *)
LEMMA OwnerStep ==
  ASSUME Prompt, IInv, OpenFails \/ Close \/ Shutdown \/ \E d \in Dir : Request(d)
  PROVE  IInv'
<1>1. CASE OpenFails
  <2>1. TypeOK' /\ BoundIsHeld' /\ Binding'
    BY <1>1 DEF OpenFails, thread, IInv, TypeOK, BoundIsHeld, Binding, InError
  <2>2. OneHolder'
    BY <1>1, Untouched DEF OpenFails, thread, Working, Place, IInv
  <2> QED BY <2>1, <2>2 DEF IInv
<1>2. CASE Close
  <2>1. /\ ep # "del" /\ \A d \in Dir : ~asked[d]
        /\ UNCHANGED <<events, reg, held, ticked, opening, status, lag, asked, rp, thread>>
        /\ \/ (net = "none" \/ ~events) /\ phase' = "closed" /\ Gone
           \/ phase' = "closing" /\ UNCHANGED <<net, avail, edge>>
    BY <1>2 DEF Close, MayClose, Quiet
  <2>2. Gone => avail' \in [Dir -> 0 .. MaxAvail] /\ net' = "none" /\ edge' = FALSE
    <3>1. 0 \in 0 .. MaxAvail
      BY TcpAssumption
    <3> QED BY <3>1 DEF Gone
  <2>3. TypeOK'
    BY <2>1, <2>2 DEF IInv, TypeOK, thread
  <2>4. OneHolder'
    BY <2>1, Untouched DEF thread, Working, Place, IInv
  <2>5. BoundIsHeld' /\ Binding'
    BY <2>1, <2>2 DEF thread, IInv, BoundIsHeld, Binding, InError
  <2> QED BY <2>3, <2>4, <2>5 DEF IInv
<1>3. CASE Shutdown
  <2>1. /\ net' \in {"broken"} /\ edge' \in BOOLEAN
        /\ UNCHANGED <<avail, events, reg, held, ticked, opening, status, lag, asked, rp, thread, phase>>
    BY <1>3 DEF Shutdown, Break, IInv, TypeOK
  <2>2. TypeOK' /\ BoundIsHeld' /\ Binding'
    BY <2>1 DEF thread, IInv, TypeOK, BoundIsHeld, Binding, InError
  <2>3. OneHolder'
    BY <2>1, Untouched DEF thread, Working, Place, IInv
  <2> QED BY <2>2, <2>3 DEF IInv
<1>4. ASSUME NEW d \in Dir, Request(d)
      PROVE  IInv'
  <2>1. /\ ~asked[d] /\ phase = "open"
        /\ asked' = [asked EXCEPT ![d] = TRUE] /\ rp' = [rp EXCEPT ![d] = "try"]
        /\ UNCHANGED <<socket, avail, opening, status, lag, thread, phase>>
    BY <1>4 DEF Request
  <2>2. TypeOK' /\ BoundIsHeld' /\ Binding'
    BY <2>1 DEF socket, thread, IInv, TypeOK, BoundIsHeld, Binding, InError
  <2>3. \A e \in Dir : /\ Working("owner", e)' <=> e = d \/ Working("owner", e)
                       /\ Working("epoll", e)' <=> Working("epoll", e)
                       /\ asked'[e] <=> e = d \/ asked[e]
    BY <2>1 DEF Working, Place, thread, IInv, TypeOK
  <2>4. OneHolderPlain
    BY Plain DEF IInv
  <2>5. OneHolderPlain'
    BY <2>1, <2>3, <2>4 DEF OneHolderPlain
  <2>6. OneHolder'
    BY <2>5 DEF OneHolder, OneHolderPlain, Holds, Worker
  <2> QED BY <2>2, <2>6 DEF IInv
<1> QED BY <1>1, <1>2, <1>3, <1>4

LEMMA NetStep ==
  ASSUME IInv, PeerEnds \/ PeerBreaks \/ \E d \in Dir : Arrive(d)
  PROVE  IInv'
<1>1. /\ net \in {"connecting", "up", "eof"} /\ net' \in {"up", "eof", "broken"}
      /\ edge' = TRUE /\ avail' \in [Dir -> 0 .. MaxAvail]
      /\ UNCHANGED <<events, reg, held, ticked, opening, status, lag, asked, rp, thread, phase>>
  <2>1. CASE PeerEnds \/ PeerBreaks
    BY <2>1 DEF PeerEnds, PeerBreaks, Break, IInv, TypeOK
  <2>2. ASSUME NEW d \in Dir, Arrive(d)
        PROVE  avail' \in [Dir -> 0 .. MaxAvail] /\ net' \in {"up", "eof"}
    <3>1. \A n \in 0 .. MaxAvail : n < MaxAvail => n + 1 \in 0 .. MaxAvail
      BY TcpAssumption
    <3>2. MaxAvail \in 0 .. MaxAvail /\ avail \in [Dir -> 0 .. MaxAvail]
      BY TcpAssumption DEF IInv, TypeOK
    <3> QED BY <2>2, <3>1, <3>2 DEF Arrive
  <2> QED BY <2>1, <2>2 DEF Arrive
<1>2. TypeOK' /\ BoundIsHeld' /\ Binding'
  BY <1>1 DEF thread, IInv, TypeOK, BoundIsHeld, Binding, InError
<1>3. OneHolder'
  BY <1>1, Untouched DEF thread, Working, Place, IInv
<1> QED BY <1>2, <1>3 DEF IInv

LEMMA StepInv ==
  ASSUME Prompt, IInv, [Next]_vars
  PROVE  IInv'
<1>1. CASE EpollStep
  <2>1. CASE \E d \in Dir : Proc("epoll", d)
    BY <2>1, ProcStep DEF Worker
  <2> QED BY <1>1, <2>1, SignalStep, ErrorStep DEF EpollStep
<1>2. CASE \E d \in Dir : Proc("owner", d)
  BY <1>2, ProcStep DEF Worker
<1>3. CASE UNCHANGED vars
  <2>1. TypeOK' /\ BoundIsHeld' /\ Binding'
    BY <1>3 DEF vars, IInv, TypeOK, BoundIsHeld, Binding, InError
  <2>2. OneHolder'
    BY <1>3, Untouched DEF vars, Working, Place, IInv
  <2> QED BY <2>1, <2>2 DEF IInv
<1> QED BY <1>1, <1>2, <1>3, OpenStep, OwnerStep, NetStep DEF Next

LEMMA Invariance ==
  ASSUME Prompt
  PROVE  Spec => []IInv
<1>1. IInv /\ [Next]_vars => IInv'
  BY StepInv
<1> QED BY InitInv, <1>1, PTL DEF Spec

(* Every variable of the socket keeps its type.                            *)
THEOREM TypeCorrect ==
  ASSUME Prompt
  PROVE  Spec => []TypeOK
<1>1. IInv => TypeOK
  BY DEF IInv
<1> QED BY Invariance, <1>1, PTL

(* Whoever exchanges the status word, a request has one holder until it is *)
(* answered, and none after (AsyncOvlpProc, AsyncOvlpSignal).              *)
THEOREM HeldByOne ==
  ASSUME Prompt
  PROVE  Spec => []OneHolder
<1>1. IInv => OneHolder
  BY DEF IInv
<1> QED BY Invariance, <1>1, PTL

(* The assertions of AsyncOvlpSignal, AsyncOvlpError and AsyncTcpClose.    *)
THEOREM AssertionsHold ==
  ASSUME Prompt
  PROVE  Spec => []Assertions
<1>1. IInv => Assertions
  <2> SUFFICES ASSUME IInv PROVE Assertions
    OBVIOUS
  <2>1. ep = "raise" => status[cur] # "error"
    BY DEF IInv, TypeOK, Binding
  <2>2. ep = "del" => reg /\ net # "none"
    BY DEF IInv, Binding
  <2>3. CloseFindsNothingPending
    BY DEF IInv, OneHolder, Holds, CloseFindsNothingPending, MayClose, Quiet
  <2> QED BY <2>1, <2>2, <2>3 DEF Assertions
<1> QED BY Invariance, <1>1, PTL

(* The binding's reference lasts as long as the epoll may report the       *)
(* socket, and is given back once: by the error, or by the close.          *)
THEOREM BindingHeld ==
  ASSUME Prompt
  PROVE  Spec => []BoundIsHeld
<1>1. IInv => BoundIsHeld
  BY DEF IInv
<1> QED BY Invariance, <1>1, PTL
=============================================================================
