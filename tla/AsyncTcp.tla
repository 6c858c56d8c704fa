------------------------------ MODULE AsyncTcp ------------------------------
(***************************************************************************)
(* One socket of io/AModule_AsyncTcp.cpp with the binding of               *)
(* base/AOperator.cpp (AThreadBind): requests in each direction exchange   *)
(* a status word with the one thread whose epoll reports the socket, which *)
(* also fails them and, at last, closes.  The owner opens, requests and    *)
(* closes as the clients do: one request per direction, and close only     *)
(* when none is under way; it may shut the socket down at any time.        *)
(*                                                                         *)
(* The network is external.  A read or write is full, or short, which      *)
(* empties the buffer, or finds nothing (EAGAIN), or fails.                *)
(***************************************************************************)
EXTENDS Integers

CONSTANTS
  MaxAvail,   \* units of data, or of buffer space, at a time
  MaxLag,     \* readiness the requests may be behind, or ahead
  Debug,      \* the build (base.h:125): a failed assertion ends the program
  Prompt      \* no thread stands still between ao_events = 0 and epoll_ctl,
              \* or in an error, while the owner closes, or opens again

ASSUME TcpAssumption ==
  /\ MaxAvail \in Nat \ {0} /\ MaxLag \in Nat
  /\ {Debug, Prompt} \subseteq BOOLEAN

Dir == {"send", "recv"}

VARIABLES
  net,      \* the socket: "none", "connecting", "up", "eof", "broken"
  avail,    \* per direction: what can be transferred
  edge,     \* epoll has readiness to report
  events,   \* send_ovlp.ao_events # 0
  reg,      \* the socket is registered with the thread's epoll
  held,     \* the references the binding holds
  ticked,   \* recv_ovlp.ao_tick # 0: in one union with its ao_fd
  opening,  \* send_ovlp.done = AsyncTcpOpenDone
  status,   \* per direction: none, pending, signal, error
  lag,      \* per direction: signal_count - perform_count
  asked,    \* per direction: the owner waits for an answer
  rp,       \* per direction: where the requester is in AsyncOvlpProc
  ep,       \* where the epoll thread is
  todo,     \* the directions its event has yet to signal
  cur,      \* the direction it signals
  phase     \* the owner: closed, opening, open, failed, closing

vars == <<net, avail, edge, events, reg, held, ticked, opening, status, lag, asked, rp,
          ep, todo, cur, phase>>
socket == <<net, edge, events, reg, held, ticked>>
thread == <<ep, todo, cur>>

TypeOK ==
  /\ net \in {"none", "connecting", "up", "eof", "broken"}
  /\ avail \in [Dir -> 0 .. MaxAvail]
  /\ edge \in BOOLEAN /\ events \in BOOLEAN /\ reg \in BOOLEAN /\ opening \in BOOLEAN
  /\ held \in 0 .. 1 /\ ticked \in BOOLEAN
  /\ status \in [Dir -> {"none", "pending", "signal", "error"}]
  /\ lag \in [Dir -> Int]
  /\ asked \in [Dir -> BOOLEAN]
  /\ rp \in [Dir -> {"idle", "try", "io", "park"}]
  /\ ep \in {"idle", "next", "raise", "try", "io", "park", "error", "del", "fail", "release"}
  /\ todo \subseteq Dir /\ cur \in Dir
  /\ phase \in {"closed", "opening", "open", "failed", "closing"}

Init ==
  /\ net = "none" /\ avail = [d \in Dir |-> 0]
  /\ edge = FALSE /\ events = FALSE /\ reg = FALSE /\ held = 0 /\ ticked = FALSE /\ opening = FALSE
  /\ status = [d \in Dir |-> "none"] /\ lag = [d \in Dir |-> 0]
  /\ asked = [d \in Dir |-> FALSE] /\ rp = [d \in Dir |-> "idle"]
  /\ ep = "idle" /\ todo = {} /\ cur = "send"
  /\ phase = "closed"

----------------------------------------------------------------------------
(* AsyncOvlpProc, by the requester of d or by the epoll thread.            *)

Worker == {"owner", "epoll"}
Place(w, d) == IF w = "owner" THEN rp[d] ELSE IF cur = d THEN ep ELSE "idle"

Goto(w, d, place) ==
  IF w = "owner" THEN rp' = [rp EXCEPT ![d] = place] /\ UNCHANGED thread
                 ELSE ep' = place /\ UNCHANGED <<rp, todo, cur>>

(* The request is answered: by the return of AsyncTcpRequest, or by done2. *)
Answer(w, d) ==
  /\ Goto(w, d, IF w = "owner" THEN "idle" ELSE "next")
  /\ asked' = [asked EXCEPT ![d] = FALSE]

(* op_signal is taken; without one and with lag 0 the io is skipped.       *)
Try(w, d) ==
  /\ Place(w, d) = "try"
  /\ IF status[d] = "error" THEN Answer(w, d) /\ UNCHANGED status
     ELSE /\ Goto(w, d, IF status[d] = "signal" \/ lag[d] # 0 THEN "io" ELSE "park")
          /\ status' = [status EXCEPT ![d] = IF @ = "signal" THEN "none" ELSE @]
          /\ UNCHANGED asked
  /\ UNCHANGED <<socket, avail, opening, lag, phase>>

(* send or recv.  After a short one a request of a block goes on.          *)
FullTransfer(w, d) ==
  /\ avail[d] > 0
  /\ \E n \in 0 .. avail[d] - 1 : avail' = [avail EXCEPT ![d] = n]
  /\ Answer(w, d) /\ UNCHANGED lag

ShortTransfer(w, d) ==
  /\ avail[d] > 0
  /\ avail' = [avail EXCEPT ![d] = 0]
  /\ lag' = [lag EXCEPT ![d] = @ - 1]
  /\ \/ Answer(w, d)
     \/ Goto(w, d, "park") /\ UNCHANGED asked

NoTransfer(w, d) ==
  /\ avail[d] = 0
  /\ IF net = "up" \/ (net = "eof" /\ d = "send")
     THEN Goto(w, d, "park") /\ UNCHANGED asked
     ELSE Answer(w, d)
  /\ UNCHANGED <<avail, lag>>

Transfer(w, d) ==
  /\ Place(w, d) = "io"
  /\ FullTransfer(w, d) \/ ShortTransfer(w, d) \/ NoTransfer(w, d)
  /\ UNCHANGED <<socket, opening, status, phase>>

(* The request waits, unless readiness or an error has come meanwhile.     *)
ParkError(w, d) ==   \* mutant: an error that came meanwhile goes unseen
  /\ Place(w, d) = "park"
  /\ IF status[d] = "signal"
     THEN Goto(w, d, "try") /\ UNCHANGED status
     ELSE /\ Goto(w, d, IF w = "owner" THEN "idle" ELSE "next")
          /\ status' = [status EXCEPT ![d] = "pending"]
  /\ UNCHANGED <<socket, avail, opening, lag, asked, phase>>

Park(w, d) ==
  /\ Place(w, d) = "park"
  /\ \/ /\ status[d] = "none"
        /\ Goto(w, d, IF w = "owner" THEN "idle" ELSE "next")
        /\ status' = [status EXCEPT ![d] = "pending"]
        /\ UNCHANGED asked
     \/ status[d] = "signal" /\ Goto(w, d, "try") /\ UNCHANGED <<status, asked>>
     \/ status[d] \in {"pending", "error"} /\ Answer(w, d) /\ UNCHANGED status
  /\ UNCHANGED <<socket, avail, opening, lag, phase>>

Proc(w, d) == Try(w, d) \/ Transfer(w, d) \/ Park(w, d)

----------------------------------------------------------------------------
(* The epoll thread.                                                       *)

Ready == {d \in Dir : avail[d] > 0} \cup (IF net = "eof" THEN {"recv"} ELSE {})

(* AsyncTcpOpenDone: the first event completes the open, once.             *)
Connect ==
  /\ lag' = [d \in Dir |-> IF d \in Ready THEN lag[d] + 1 ELSE lag[d]]
  /\ IF status["send"] = "pending"
     THEN /\ status' = [status EXCEPT !["send"] = "none"]
          /\ opening' = FALSE /\ asked' = [asked EXCEPT !["send"] = FALSE]
          /\ phase' \in {"open", "failed"}
     ELSE UNCHANGED <<status, opening, asked, phase>>
  /\ UNCHANGED thread

(* epoll_wait reports the socket with all that is ready by now, and calls  *)
(* AsyncTcpOpenDone or AsyncTcpRequestDone.                                *)
Report ==
  /\ ep = "idle" /\ reg /\ edge
  /\ edge' = FALSE
  /\ \/ /\ net = "broken" /\ ep' = "error"
        /\ UNCHANGED <<todo, cur, lag, status, opening, asked, phase>>
     \/ /\ net # "broken" /\ opening /\ Ready # {} /\ Connect
     \/ /\ net # "broken" /\ ~opening /\ ep' = "next" /\ todo' = Ready
        /\ UNCHANGED <<cur, lag, status, opening, asked, phase>>
     \/ /\ net # "broken" /\ opening /\ Ready = {}
        /\ UNCHANGED <<thread, lag, status, opening, asked, phase>>
  /\ UNCHANGED <<net, avail, events, reg, held, ticked, rp>>

(* AsyncOvlpSignal, for EPOLLOUT before EPOLLIN: first the count.          *)
NextSignal ==
  /\ ep = "next"
  /\ IF todo = {} THEN ep' = "idle" /\ cur' = "send" /\ UNCHANGED <<todo, lag>>
     ELSE LET d == IF "send" \in todo THEN "send" ELSE "recv" IN
          /\ ep' = "raise" /\ cur' = d /\ todo' = todo \ {d}
          /\ lag' = [lag EXCEPT ![d] = @ + 1]
  /\ UNCHANGED <<socket, avail, opening, status, asked, rp, phase>>

(* Then the status word; a request that waited is taken up here.           *)
RaiseOnly ==   \* mutant: nobody takes up the request that waited
  /\ ep = "raise" /\ ep' = "next"
  /\ status' = [status EXCEPT ![cur] = "signal"]
  /\ UNCHANGED <<socket, avail, opening, asked, rp, todo, cur, lag, phase>>

RaisePending ==   \* mutant: the request still waits while it is taken up
  /\ ep = "raise"
  /\ IF status[cur] = "pending" THEN ep' = "try" /\ UNCHANGED status
     ELSE ep' = "next" /\ status' = [status EXCEPT ![cur] = "signal"]
  /\ UNCHANGED <<socket, avail, opening, asked, rp, todo, cur, lag, phase>>

Raise ==
  /\ ep = "raise"
  /\ status' = [status EXCEPT ![cur] = "signal"]
  /\ IF status[cur] = "pending"
     THEN ep' = "try" /\ lag' = [lag EXCEPT ![cur] = 1]
     ELSE ep' = "next" /\ UNCHANGED lag
  /\ UNCHANGED <<socket, avail, opening, asked, rp, todo, cur, phase>>

(* AsyncOvlpError: AThreadBind(0) clears ao_events, then calls epoll_ctl.  *)
Unbind ==
  /\ ep = "error" /\ ep' = "del"
  /\ events' = FALSE
  /\ UNCHANGED <<net, avail, edge, reg, held, ticked, opening, status, lag, asked, rp, todo, cur, phase>>

Delete ==
  /\ ep = "del" /\ ep' = "fail" /\ cur' = "recv"
  /\ reg' = FALSE
  /\ UNCHANGED <<net, avail, edge, events, held, ticked, opening, status, lag, asked, rp, todo, phase>>

(* The requests that wait are failed, first the recv then the send, which  *)
(* may be the open.                                                        *)
FailRequest ==
  /\ ep = "fail"
  /\ status' = [status EXCEPT ![cur] = "error"]
  /\ asked' = [asked EXCEPT ![cur] = @ /\ status[cur] # "pending"]
  /\ phase' = IF cur = "send" /\ status["send"] = "pending" /\ phase = "opening"
              THEN "failed" ELSE phase
  /\ IF cur = "recv" THEN ep' = "fail" /\ cur' = "send"
                     ELSE ep' = "release" /\ UNCHANGED cur
  /\ UNCHANGED <<socket, avail, opening, lag, rp, todo>>

ReleaseBinding ==
  /\ ep = "release" /\ ep' = "idle"
  /\ held' = held - 1
  /\ UNCHANGED <<net, avail, edge, events, reg, ticked, opening, status, lag, asked, rp, todo, cur, phase>>

(* closesocket                                                             *)
Gone == net' = "none" /\ avail' = [d \in Dir |-> 0] /\ edge' = FALSE

(* AsyncTcpCloseDone, posted to the thread by AsyncTcpClose.  On the way   *)
(* AThreadCheckTimewait asserts that what was posted has no ao_tick: in a  *)
(* Debug build the program ends there.                                     *)
CloseAndRelease ==   \* mutant: the reference is released once more
  /\ ep = "idle" /\ phase = "closing" /\ phase' = "closed"
  /\ held' = held - 1
  /\ events' = FALSE /\ reg' = FALSE /\ Gone
  /\ UNCHANGED <<ticked, opening, status, lag, asked, rp, thread>>

CloseBound ==   \* mutant: nothing is closed that an error has unbound
  /\ ep = "idle" /\ phase = "closing" /\ phase' = "closed"
  /\ events /\ events' = FALSE /\ held' = held - 1
  /\ reg' = FALSE /\ Gone
  /\ UNCHANGED <<ticked, opening, status, lag, asked, rp, thread>>

CloseDone ==
  /\ ep = "idle" /\ phase = "closing" /\ phase' = "closed"
  /\ Debug => ~ticked
  /\ held' = IF events THEN held - 1 ELSE held
  /\ events' = FALSE /\ reg' = FALSE /\ Gone
  /\ UNCHANGED <<ticked, opening, status, lag, asked, rp, thread>>

EpollStep ==
  \/ Report \/ NextSignal \/ Raise \/ \E d \in Dir : Proc("epoll", d)
  \/ Unbind \/ Delete \/ FailRequest \/ ReleaseBinding \/ CloseDone

----------------------------------------------------------------------------
(* The owner.                                                              *)

InError == {"error", "del", "fail", "release"}

(* AsyncTcpOpen fails before AsyncTcpBind: no address, or no connection,   *)
(* which leaves a socket behind.                                           *)
OpenFails ==
  /\ phase = "closed" /\ phase' = "failed"
  /\ net' \in {"none", "broken"}
  /\ UNCHANGED <<avail, edge, events, reg, held, ticked, opening, status, lag, asked, rp, thread>>

(* AsyncTcpOpen connects and binds; epoll_ctl(ADD) is taken to succeed.    *)
(* AsyncTcpBind sets ao_fd of both; the descriptor of a socket is not 0.   *)
Open ==
  /\ phase = "closed" /\ (Prompt => ep \notin InError)
  /\ net' = "connecting" /\ avail' = [d \in Dir |-> 0] /\ edge' = FALSE
  /\ opening' = TRUE /\ events' = TRUE
  /\ status' = [d \in Dir |-> IF d = "send" THEN "pending" ELSE "none"]
  /\ lag' = [d \in Dir |-> 0]
  /\ reg' = TRUE /\ held' = held + 1 /\ ticked' = TRUE /\ phase' = "opening"
  /\ asked' = [asked EXCEPT !["send"] = TRUE]
  /\ UNCHANGED <<rp, thread>>

(* AsyncTcpRequest, of an opened socket.                                   *)
Request(d) ==
  /\ ~asked[d] /\ phase = "open"
  /\ asked' = [asked EXCEPT ![d] = TRUE]
  /\ rp' = [rp EXCEPT ![d] = "try"]
  /\ UNCHANGED <<socket, avail, opening, status, lag, thread, phase>>

(* AsyncTcpClose with a message: at once when nothing is bound, or by the  *)
(* epoll thread.                                                           *)
Quiet == \A d \in Dir : ~asked[d] /\ rp[d] = "idle"
MayClose == Quiet /\ phase \in {"open", "failed"}

Close ==
  /\ MayClose /\ (Prompt => ep # "del")
  /\ IF net = "none" \/ ~events
     THEN phase' = "closed" /\ Gone
     ELSE phase' = "closing" /\ UNCHANGED <<net, avail, edge>>
  /\ UNCHANGED <<events, reg, held, ticked, opening, status, lag, asked, rp, thread>>

Break == net' = "broken" /\ edge' = TRUE

(* AsyncTcpClose(NULL), by an abort, which may come again.                 *)
Shutdown ==
  /\ phase # "closed" /\ net # "none"
  /\ IF net = "broken" THEN UNCHANGED <<net, edge>> ELSE Break
  /\ UNCHANGED <<avail, events, reg, held, ticked, opening, status, lag, asked, rp, thread, phase>>

----------------------------------------------------------------------------
(* The network.                                                            *)

Arrive(d) ==
  /\ net \in {"connecting", "up"} \/ (net = "eof" /\ d = "send")
  /\ net = "connecting" => d = "send"
  /\ avail[d] < MaxAvail /\ (d = "send" => avail[d] = 0)
  /\ \A e \in Dir : lag[e] \in -MaxLag .. MaxLag
  /\ net' = IF net = "connecting" THEN "up" ELSE net
  /\ avail' = [avail EXCEPT ![d] = IF d = "send" THEN MaxAvail ELSE @ + 1]
  /\ edge' = TRUE
  /\ UNCHANGED <<events, reg, held, ticked, opening, status, lag, asked, rp, thread, phase>>

PeerEnds ==
  /\ net = "up" /\ net' = "eof" /\ edge' = TRUE
  /\ UNCHANGED <<avail, events, reg, held, ticked, opening, status, lag, asked, rp, thread, phase>>

PeerBreaks ==
  /\ net \in {"connecting", "up", "eof"} /\ Break
  /\ UNCHANGED <<avail, events, reg, held, ticked, opening, status, lag, asked, rp, thread, phase>>

Next ==
  \/ EpollStep
  \/ \E d \in Dir : Proc("owner", d) \/ Request(d) \/ Arrive(d)
  \/ OpenFails \/ Open \/ Close \/ Shutdown \/ PeerEnds \/ PeerBreaks

Spec == Init /\ [][Next]_vars

----------------------------------------------------------------------------
(* Properties.                                                             *)

Working(w, d) == Place(w, d) \in {"try", "io", "park"}

(* A request has one holder until it is answered, and none after: the      *)
(* requester, the epoll thread, or the status word; its message and its    *)
(* position are never used by two threads, and it is answered once.        *)
Holds(h, d) == IF h = "word" THEN status[d] = "pending" ELSE Working(h, d)
OneHolder ==
  \A d \in Dir :
    /\ asked[d] <=> \E h \in Worker \cup {"word"} : Holds(h, d)
    /\ \A g, h \in Worker \cup {"word"} : Holds(g, d) /\ Holds(h, d) => g = h

(* A request that waits misses no readiness: data it could transfer, or a  *)
(* broken connection, is about to be reported to it.  The peer's end alone *)
(* (net = "eof") may be missed, see the README.                            *)
NoLostReadiness ==
  \A d \in Dir : status[d] = "pending" /\ reg /\ (avail[d] > 0 \/ net = "broken") =>
    edge \/ d \in todo \/ (cur = d /\ ep = "raise") \/ ep \in InError

(* The assertions of AModule_AsyncTcp.cpp: no signal after an error,       *)
(* nothing pending when it is closed, an error unbound with success.       *)
CloseFindsNothingPending ==
  MayClose /\ net # "none" => \A d \in Dir : status[d] # "pending"
Assertions ==
  /\ ep = "raise" => status[cur] # "error"
  /\ ep = "del" => reg /\ net # "none"
  /\ CloseFindsNothingPending

(* The binding holds its one reference as long as events may come, and the *)
(* thread is still in one.                                                 *)
BoundIsHeld ==
  /\ held = (IF reg \/ ep \in InError THEN 1 ELSE 0)
  /\ ep # "idle" => held = 1

(* The epoll thread and the requesters run, connections that are opened    *)
(* succeed, fail or are shut down, and an owner that can close does.       *)
Fairness ==
  /\ WF_vars(EpollStep) /\ \A d \in Dir : WF_vars(Proc("owner", d))
  /\ WF_vars(Close)
FairSpec == Spec /\ Fairness

(* A broken connection fails whatever waits for it.                        *)
BrokenEnds == \A d \in Dir : net = "broken" /\ asked[d] ~> ~asked[d]

(* A close ends, for the client system to open the socket again.  In a     *)
(* Debug build no bound close does: see PostedHasNoTick.                   *)
ClosingEnds == phase = "closing" ~> phase = "closed"

(* What AThreadCheckTimewait asserts of the operators posted to a thread   *)
(* (AOperator.cpp:100), of the one that AsyncTcpClose posts.               *)
PostedHasNoTick == phase = "closing" => ~ticked
=============================================================================
