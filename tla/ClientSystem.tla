---------------------------- MODULE ClientSystem ----------------------------
(***************************************************************************)
(* One client of ecs/AClientSystem: the check that decides what it needs,  *)
(* the run of its state machine, and its abort, executed by the threads of *)
(* the pool, with its own callbacks open, heart, abort and close.  These   *)
(* are external: they return at once or end later in exec_done, and an     *)
(* opened client may hold a session that ends by itself (iot/MQTTClient).  *)
(*                                                                         *)
(* Time is what matters of it: no interval of the client's options has     *)
(* passed since _main_tick was set (~aged), or any of them may have.       *)
(***************************************************************************)
EXTENDS Integers, FiniteSets

CONSTANTS
  Thread,      \* the threads that check, execute results, complete callbacks
  AutoReopen,  \* the values _auto_reopen may have, a subset of BOOLEAN
  OpenHeart,   \* those of _open_heart && (heart != NULL), the same
  Prompt,      \* no open or close is called and answered while a check stands
               \* between its read of _status and what it decides, and abort
               \* returns within _tick_abort
  Stalls       \* an interval may pass while a run has only its mark to take back

ASSUME ClientAssumption ==
  /\ IsFiniteSet(Thread) /\ Prompt \in BOOLEAN /\ Stalls \in BOOLEAN
  /\ AutoReopen \subseteq BOOLEAN /\ OpenHeart \subseteq BOOLEAN

VARIABLES
  status,      \* _status
  main_abort,  \* _main_abort
  heart,       \* _check_heart
  opened,      \* _last_opened
  busy,        \* _busy_count
  runnable,    \* _run_result.status = Runnable
  aged,        \* an interval may have passed since _main_tick
  listed,      \* the client's entity is in its manager, which references it
  refs,        \* the references to the entity
  pending,     \* the callback that returned 0 and has yet to complete
  session,     \* the opened client's session: "off", "on", or ending
  shut,        \* abort was called since the last open
  aborts,      \* abort # NULL: init2 leaves it NULL, the module may set it
  lost,        \* Results _exec refused, with their count and reference
  due,         \* diff of the check under way: an interval had passed
  seen,        \* the _status it has read
  pc           \* what each thread does

vars == <<status, main_abort, heart, opened, busy, runnable, aged, listed, refs,
          pending, session, shut, aborts, lost, due, seen, pc>>
client == <<status, heart, opened, runnable>>
outside == <<pending, session, shut, aborts>>
check == <<due, seen>>

Statuses == {"Invalid", "Opening", "Opened", "Closing", "Closed"}
Callbacks == {"open", "heart", "close"}
Failures == {"fail", "failing", "closing"}
Runs == Callbacks \cup Failures \cup {"run", "opened", "settle", "beat", "closed", "end"}
Aborts == {"abort", "aborting"}

TypeOK ==
  /\ status \in Statuses /\ seen \in Statuses
  /\ heart \in {"None", "Checking", "CheckDone"}
  /\ {main_abort, opened, runnable, aged, listed, shut, aborts, due} \subseteq BOOLEAN
  /\ busy \in Nat /\ refs \in Nat /\ lost \in Nat
  /\ pending \in Callbacks \cup {"none"}
  /\ session \in {"off", "on", "ending"}
  /\ pc \in [Thread -> Runs \cup Aborts \cup 
                    {"idle", "check", "decide", "leave", "release"}]

(* Created, and pushed into the manager.                                   *)
Init ==
  /\ status = "Invalid" /\ seen = "Invalid" /\ heart = "None"
  /\ main_abort = FALSE /\ opened = FALSE /\ runnable = FALSE
  /\ aged = TRUE /\ listed = TRUE /\ busy = 0 /\ refs = 1
  /\ pending = "none" /\ session = "off" /\ shut = FALSE
  /\ aborts \in BOOLEAN /\ lost = 0 /\ due = FALSE
  /\ pc = [t \in Thread |-> "idle"]

At(t, place) == pc[t] = place
Goto(t, place) == pc' = [pc EXCEPT ![t] = place]
Nobody(places) == \A t \in Thread : pc[t] \notin places

----------------------------------------------------------------------------
(* check_one, under the lock of the system manager: the time first, then   *)
(* _status, then what the rest of the client says.                         *)

CheckBegin(t, d) ==
  /\ listed /\ At(t, "idle") /\ Nobody({"check", "decide"})
  /\ (d => aged) /\ due' = d
  /\ Goto(t, "check")
  /\ UNCHANGED <<client, main_abort, busy, aged, listed, refs, outside, lost, seen>>

CheckStatus(t) ==
  /\ At(t, "check") /\ Goto(t, "decide")
  /\ seen' = status
  /\ UNCHANGED <<client, main_abort, busy, aged, listed, refs, outside, lost, due>>

Needless(t) ==
  Goto(t, "idle") /\ UNCHANGED <<client, main_abort, busy, aged, listed, refs>>

(* The check returns a Result, which counts as busy and is then executed.  *)
GrantUnheld(t, place) ==   \* mutant: the entity is not referenced
  Goto(t, place) /\ busy' = busy + 1 /\ UNCHANGED refs
Grant(t, place) == Goto(t, place) /\ busy' = busy + 1 /\ refs' = refs + 1

GrantRun(t) == Grant(t, "run") /\ runnable' = TRUE

(* A client without an abort of its own is told by _main_abort only.       *)
NoAbort(t) ==
  /\ ~aborts /\ Goto(t, "idle")
  /\ aged' = FALSE /\ main_abort' = TRUE
  /\ UNCHANGED <<client, busy, listed, refs>>

GrantIdleAbort(t) ==   \* mutant: an abort does not count as busy
  \/ /\ aborts /\ Goto(t, "abort") /\ refs' = refs + 1
     /\ aged' = FALSE /\ main_abort' = TRUE
     /\ UNCHANGED <<client, busy, listed>>
  \/ NoAbort(t)
GrantAbort(t) ==
  \/ /\ aborts /\ Grant(t, "abort")
     /\ aged' = FALSE /\ main_abort' = TRUE
     /\ UNCHANGED <<client, listed>>
  \/ NoAbort(t)

CheckInvalid(t) ==
  /\ seen = "Invalid"
  /\ IF busy = 0 /\ due
     THEN /\ GrantRun(t)
          /\ aged' = FALSE /\ main_abort' = FALSE /\ heart' = "Checking"
          /\ UNCHANGED <<status, opened, listed>>
     ELSE Needless(t)

CheckNoOpening(t) ==   \* mutant: an open has all the time it wants
  seen = "Opening" /\ Needless(t)

CheckOpening(t) ==
  /\ seen = "Opening"
  /\ IF due THEN GrantAbort(t) ELSE Needless(t)

(* due names either interval: the longer one goes first.                   *)
CheckDoubleHeart(t) ==   \* mutant: a heart is due although one is under way
  /\ seen = "Opened"
  /\ \/ due /\ GrantAbort(t)
     \/ ~due /\ main_abort
        /\ IF busy = 0
           THEN /\ GrantRun(t) /\ status' = "Closing"
                /\ UNCHANGED <<main_abort, heart, opened, aged, listed>>
           ELSE Needless(t)
     \/ ~main_abort
        /\ IF due
           THEN /\ GrantRun(t) /\ heart' = "Checking"
                /\ UNCHANGED <<status, main_abort, opened, aged, listed>>
           ELSE Needless(t)

CheckOpened(t) ==
  /\ seen = "Opened"
  /\ \/ due /\ GrantAbort(t)
     \/ ~due /\ main_abort
        /\ IF busy = 0
           THEN /\ GrantRun(t) /\ status' = "Closing"
                /\ UNCHANGED <<main_abort, heart, opened, aged, listed>>
           ELSE Needless(t)
     \/ ~main_abort
        /\ IF due /\ heart = "None"
           THEN /\ GrantRun(t) /\ heart' = "Checking"
                /\ UNCHANGED <<status, main_abort, opened, aged, listed>>
           ELSE Needless(t)

CheckLeftClosing(t) ==   \* mutant: a closing client is left to its run
  /\ seen = "Closing"
  /\ IF busy # 0 /\ due THEN GrantAbort(t) ELSE Needless(t)

CheckClosing(t) ==
  /\ seen = "Closing"
  /\ CASE busy = 0 -> GrantRun(t)
                      /\ UNCHANGED <<status, main_abort, heart, opened, aged, listed>>
       [] busy # 0 /\ due -> GrantAbort(t)
       [] OTHER -> Needless(t)

(* A client that is not to be reopened may be removed from the manager,    *)
(* whose reference goes, and is then run once more.                        *)
CheckImpatient(t) ==   \* mutant: a closed client is reopened while busy
  /\ seen = "Closed"
  /\ TRUE \in AutoReopen
  /\ Goto(t, "idle")
  /\ status' = "Invalid" /\ aged' = FALSE /\ main_abort' = FALSE
  /\ UNCHANGED <<heart, opened, runnable, busy, listed, refs>>

CheckClosed(t) ==
  /\ seen = "Closed"
  /\ IF busy # 0 THEN Needless(t)
     ELSE \/ /\ TRUE \in AutoReopen
             /\ Goto(t, "idle")
             /\ status' = "Invalid" /\ aged' = FALSE /\ main_abort' = FALSE
             /\ UNCHANGED <<heart, opened, runnable, busy, listed, refs>>
          \/ /\ FALSE \in AutoReopen
             /\ Goto(t, "run") /\ busy' = busy + 1 /\ runnable' = TRUE
             /\ listed' = FALSE
             /\ UNCHANGED <<refs, status, main_abort, heart, opened, aged>>
          \/ FALSE \in AutoReopen /\ Needless(t)

Check(t) ==
  /\ At(t, "decide")
  /\ \/ CheckInvalid(t) \/ CheckOpening(t) \/ CheckOpened(t)
     \/ CheckClosing(t) \/ CheckClosed(t)
  /\ UNCHANGED <<check, outside, lost>>

----------------------------------------------------------------------------
(* client_run_internal: from the switch to the next callback or the end.   *)

Enter(t, ok) ==
  \/ /\ status = "Invalid" /\ Goto(t, "open")
     /\ status' = "Opening" /\ shut' = FALSE /\ UNCHANGED heart
  \/ /\ status = "Opening" /\ Goto(t, IF ok THEN "opened" ELSE "fail")
     /\ UNCHANGED <<status, heart, shut>>
  \/ /\ status = "Opened"
     /\ IF ok /\ heart = "Checking"
        THEN Goto(t, "heart") /\ heart' = "CheckDone"
        ELSE Goto(t, IF ok THEN "beat" ELSE "fail") /\ UNCHANGED heart
     /\ UNCHANGED <<status, shut>>
  \/ /\ status = "Closing" /\ Goto(t, "close")
     /\ status' = "Closed" /\ UNCHANGED <<heart, shut>>
  \/ /\ status = "Closed" /\ Goto(t, "closed")
     /\ UNCHANGED <<status, heart, shut>>

(* _exec: exec_run of a Result that is still marked.  The other is refused *)
(* with -EINVAL, past the assert(0) that says it cannot be, and nobody     *)
(* gives back what was counted for it.                                     *)
Run(t) ==
  /\ At(t, "run")
  /\ \/ runnable /\ Enter(t, TRUE) /\ UNCHANGED lost
     \/ ~runnable /\ Goto(t, "idle") /\ lost' = lost + 1 /\ UNCHANGED <<status, heart, shut>>
  /\ UNCHANGED <<main_abort, opened, busy, runnable, aged, listed, refs, pending,
                 session, aborts, check>>

(* A successful open may begin a session, which counts as busy.            *)
Begin(callback, ok) ==
  \/ callback = "open" /\ ok /\ session' = "on" /\ busy' = busy + 1
  \/ UNCHANGED <<session, busy>>

(* A callback of the client returns at once, or will complete.             *)
InTime(callback) ==
  Prompt /\ ~Nobody({"decide"}) =>
    (callback = "open" => seen # "Invalid") /\ (callback = "close" => seen = "Closed")

Returns(t, callback) ==
  /\ At(t, callback) /\ InTime(callback)
  /\ \/ /\ Goto(t, "idle") /\ pending' = callback
        /\ UNCHANGED <<session, busy>>
     \/ \E ok \in BOOLEAN :
          /\ Begin(callback, ok)
          /\ Goto(t, CASE callback = "close" -> "closed"
                       [] callback # "close" /\ ~ok -> "fail"
                       [] callback = "open" /\ ok -> "opened"
                       [] callback = "heart" /\ ok -> "beat")
          /\ UNCHANGED pending
  /\ UNCHANGED <<client, main_abort, aged, listed, refs, shut, aborts, lost, check>>

(* It completes: exec_done, in a thread of the io object.                  *)
ExecDone(t) ==
  /\ At(t, "idle") /\ pending # "none" /\ InTime(pending)
  /\ pending' = "none"
  /\ \E ok \in BOOLEAN : Enter(t, ok) /\ Begin(pending, ok)
  /\ UNCHANGED <<main_abort, opened, runnable, aged, listed, refs, aborts, lost, check>>

(* on_client_opened is emitted.                                            *)
Opened(t) ==
  /\ At(t, "opened") /\ Goto(t, "settle")
  /\ status' = "Opened" /\ aged' = FALSE
  /\ UNCHANGED <<main_abort, heart, opened, busy, runnable, listed, refs, outside, lost, check>>

(* Its listeners have returned: the first heart, if the client has one.    *)
Settle(t) ==
  /\ At(t, "settle")
  /\ opened' = TRUE
  /\ \/ TRUE \in OpenHeart /\ Goto(t, "heart") /\ heart' = "CheckDone"
     \/ FALSE \in OpenHeart /\ Goto(t, "end") /\ heart' = "None"
  /\ UNCHANGED <<status, main_abort, busy, runnable, aged, listed, refs, outside, lost, check>>

Beat(t) ==
  /\ At(t, "beat") /\ Goto(t, "end")
  /\ heart' = "None" /\ aged' = FALSE
  /\ UNCHANGED <<status, main_abort, opened, busy, runnable, listed, refs, outside, lost, check>>

(* Open or heart failed: abort is called, if the client has one, and then  *)
(* it is closed here only when nothing but this run is busy.               *)
Fail(t) ==
  /\ At(t, "fail") /\ Goto(t, "failing")
  /\ main_abort' = TRUE /\ shut' = (shut \/ aborts)
  /\ UNCHANGED <<client, busy, aged, listed, refs, pending, session, aborts, lost, check>>

Failing(t) ==
  /\ At(t, "failing") /\ Goto(t, "closing")
  /\ status' = "Closing"
  /\ UNCHANGED <<main_abort, heart, opened, busy, runnable, aged, listed, refs, outside, lost, check>>

CloseAnyway(t) ==   \* mutant: it is closed although a session is still busy
  /\ At(t, "closing")
  /\ Goto(t, "close") /\ status' = "Closed"
  /\ UNCHANGED <<main_abort, heart, opened, busy, runnable, aged, listed, refs, outside, lost, check>>

Close(t) ==
  /\ At(t, "closing")
  /\ IF busy = 1 THEN Goto(t, "close") /\ status' = "Closed"
                 ELSE Goto(t, "end") /\ UNCHANGED status
  /\ UNCHANGED <<main_abort, heart, opened, busy, runnable, aged, listed, refs, outside, lost, check>>

(* on_client_closed was emitted.                                           *)
Closed(t) ==
  /\ At(t, "closed") /\ Goto(t, "end")
  /\ opened' = FALSE
  /\ UNCHANGED <<status, main_abort, heart, busy, runnable, aged, listed, refs, outside, lost, check>>

End(t) ==
  /\ At(t, "end") /\ Goto(t, "leave")
  /\ runnable' = FALSE
  /\ UNCHANGED <<status, main_abort, heart, opened, busy, aged, listed, refs, outside, lost, check>>

Leave(t) ==
  /\ At(t, "leave") /\ Goto(t, "release")
  /\ busy' = busy - 1
  /\ UNCHANGED <<client, main_abort, aged, listed, refs, outside, lost, check>>

Release(t) ==
  /\ At(t, "release") /\ Goto(t, "idle")
  /\ refs' = refs - 1
  /\ UNCHANGED <<client, main_abort, busy, aged, listed, outside, lost, check>>

----------------------------------------------------------------------------
(* client_abort.                                                           *)

Abort(t) ==
  /\ At(t, "abort") /\ Goto(t, "aborting")
  /\ shut' = TRUE
  /\ UNCHANGED <<client, main_abort, busy, aged, listed, refs, pending, session, aborts,
                 lost, check>>

Aborted(t) ==
  /\ At(t, "aborting") /\ Goto(t, "release")
  /\ busy' = busy - 1
  /\ UNCHANGED <<client, main_abort, aged, listed, refs, outside, lost, check>>

----------------------------------------------------------------------------
(* The session, and time.                                                  *)

(* MQTTOutput: _main_abort first, then use(-1).                            *)
SessionFails ==
  /\ session = "on" /\ session' = "ending"
  /\ main_abort' = TRUE
  /\ UNCHANGED <<client, busy, aged, listed, refs, pending, shut, aborts, lost,
                 check, pc>>

SessionEnds ==
  /\ session = "ending" /\ session' = "off"
  /\ busy' = busy - 1
  /\ UNCHANGED <<client, main_abort, aged, listed, refs, pending, shut, aborts, lost,
                 check, pc>>

Age ==
  /\ ~aged /\ (Prompt => Nobody(Aborts)) /\ (~Stalls => Nobody({"end"}))
  /\ aged' = TRUE
  /\ UNCHANGED <<client, main_abort, busy, listed, refs, outside, lost, check, pc>>

RunStep(t) ==
  \/ Run(t) \/ \E callback \in Callbacks : Returns(t, callback)
  \/ Opened(t) \/ Settle(t) \/ Beat(t) \/ Fail(t) \/ Failing(t) \/ Close(t)
  \/ Closed(t) \/ End(t) \/ Leave(t) \/ Release(t)
  \/ Abort(t) \/ Aborted(t)

Next ==
  \/ \E t \in Thread, d \in BOOLEAN : CheckBegin(t, d)
  \/ \E t \in Thread : CheckStatus(t) \/ Check(t) \/ RunStep(t) \/ ExecDone(t)
  \/ SessionFails \/ SessionEnds \/ Age

Spec == Init /\ [][Next]_vars

----------------------------------------------------------------------------
(* Properties.                                                             *)

InRun == {t \in Thread : pc[t] \in Runs}
InAbort == {t \in Thread : pc[t] \in Aborts}

(* _exec and exec_done find their Result runnable (ASystem.h, default:     *)
(* assert(0)): nobody took the mark from it that a check gave it.          *)
ResultIsRunnable ==
  /\ \A t \in Thread : pc[t] = "run" => runnable
  /\ pending # "none" => runnable

(* One run at a time, although checks, completions and late executions are *)
(* in different threads and a check may grant the next while the last one  *)
(* still has its mark to take (line 179); and nothing but a heart that was *)
(* called is taken for one that succeeded (line 155).                      *)
OneRun ==
  /\ \A t, u \in InRun : t = u \/ pc[t] = "end" \/ pc[u] = "end"
  /\ pending # "none" => \A t \in InRun : pc[t] = "end"
  /\ \A t \in Thread : pc[t] = "beat" => heart = "CheckDone"

(* An abort granted to one session never reaches the next one: the client  *)
(* is not opened again before abort has returned, and the one Result of    *)
(* aborts is not executed twice at once.                                   *)
AbortStaysInSession ==
  /\ InAbort # {} => status # "Invalid"
  /\ \A t, u \in InAbort : t = u

(* What an opened client began is over before the client is closed.        *)
SessionOverAtClose == status \in {"Closed", "Invalid"} => session = "off"

(* Whoever may still touch the client holds its entity, also after the     *)
(* manager has let it go, and in the end nobody does - but for the Results *)
(* that were refused.                                                      *)
Holders == InRun \cup InAbort \cup {t \in Thread : pc[t] \in {"leave", "release"}}
RefsBalance ==
  refs = Cardinality(Holders) + (IF pending # "none" THEN 1 ELSE 0)
           + (IF listed THEN 1 ELSE 0) + lost

(* The client and its listeners see the life ClientLife promises.          *)
Under == {c \in Callbacks : pending = c \/ \E t \in Thread : pc[t] = c}
CallNow == IF Under = {} THEN "none" ELSE CHOOSE c \in Callbacks : c \in Under
Told == opened \/ \E t \in Thread : pc[t] = "settle"
Owes ==
  \/ CallNow = "close"
  \/ \E t \in Thread : pc[t] = "closed" \/ (pc[t] = "run" /\ status = "Closed")
Life == INSTANCE ClientLife WITH
  phase <- status, call <- CallNow, told <- Told, owes <- Owes, gone <- ~listed
KeepsLife == Life!Spec

(* Threads run, the checks come again, more often than intervals pass but  *)
(* seeing each one pass; what was aborted completes, and so does close,    *)
(* which nothing aborts.                                                   *)
Fairness ==
  /\ \A t \in Thread : SF_vars(RunStep(t))
  /\ WF_vars(\E t \in Thread : CheckStatus(t) \/ Check(t))
  /\ SF_vars(\E t \in Thread : CheckBegin(t, TRUE))
  /\ SF_vars(busy = 0 /\ \E t \in Thread : CheckBegin(t, FALSE))
  /\ SF_vars((shut \/ pending = "close") /\ \E t \in Thread : ExecDone(t))
  /\ WF_vars(shut /\ SessionFails) /\ WF_vars(SessionEnds) /\ SF_vars(Age)
FairSpec == Spec /\ Fairness

(* An open that never answers is aborted by time, by a client that has an  *)
(* abort; without one nothing ends it.                                     *)
OpeningEnds ==
  status = "Opening" ~>
    status \in {"Opened", "Closed"} \/ (~aborts /\ pending = "open")

(* A client whose session or heart fails is closed, whatever is pending,   *)
(* by its abort; without one it waits for what is pending, and for the     *)
(* session, to end by itself.  A Result that was refused stays counted.    *)
AbortCloses ==
  main_abort ~>
    \/ status = "Closed" \/ lost > 0
    \/ ~aborts /\ (pending # "none" \/ session = "on")
=============================================================================
