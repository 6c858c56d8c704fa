# Verification of AModule

AModule is a C/C++ framework for network programs: a thread pool with timers and
asynchronous io, an entity-component layer that keeps clients connected, and
services and protocols on top (MQTT, HTTP, PVD devices, media streams). This
directory holds TLA+ models of its core, TLC configurations that check them on
small instances, and proofs of their main safety properties for every instance.

Paths are relative to `src/`. The models follow the Linux build (epoll, eventfd).

## 1. The system

### Components

| Component | State | Operations | Hard behaviour | What makes it correct | Models |
|---|---|---|---|---|---|
| Operator pool, `base/AOperator` | rb-tree of timers, pending list, public list, private lists, per-thread wait, eventfds | `AOperatorPost`, `AOperatorSignal`, `AThreadPost`, `AThreadBegin/Abort/End`, the loop of `AThreadRun` | threads and callers race; wakeups coalesce; ticks wrap; shutdown | `done()` once per posting, no timer overslept, nothing lost at the end | `OperatorLife`, `ThreadPool` |
| In/out component, `ecs/AInOutComponent` | `_abort`, `_queue`, `on_post_end`, the two messages | `post`, `_inmsg_done`, `_outmsg_done`, `_input_begin`, `_input_end`, `_output_cycle` | posters, completions and aborts race; flags read without the lock | one message in flight, answers once and in order, the end announced once | `InOutLine`, `InOut` |
| Client system, `ecs/AClientSystem` | per client status, ticks, `_busy_count`, two `Result` records | `check_one`, `client_run_internal`, `client_abort` | timeouts race late answers; results run in several threads; removal | callbacks in order and one at a time, abort ends, no session under a close | `ClientLife`, `ClientSystem` |
| Check loops, `ecs/ASystem` | two operators, ticks, systems, cursor | `start_checkall`, `stop_checkall`, both callbacks, `check_entities` | operator posted before its results run; stop races a running callback | no loop lost or doubled, everyone checked, stop ends it | `CheckLoop` |
| Asynchronous TCP, `io/AModule_AsyncTcp` | per direction a status word and two counters, socket, binding, references | open, request, readiness, error, close | lock-free exchange between request and epoll | a request completes once, no readiness is missed, references balance | `AsyncTcp` |
| Event manager, `ecs/AEvent` | maps by name and index, chains, oneshot, preproc | `_sub`, `_unsub`, `emit`, `clear_sub` | emit calls after unlock; chain heads move | who is subscribed is called, oneshot once, references balance | `EventBus`, `Events` |
| Entities, `ecs/AEntity` | map, references, components | push, pop, cursor of `check_entities` | an entity removes itself under the cursor | references, map and cursor agree | in `CheckLoop`, `ClientSystem` |
| MQTT client, `iot/MQTTClient` | login state, heartbeat, the above | open, heart, abort, close, output | composition of the above | its session callbacks keep the busy count true, its close ends | in `InOut`, `ClientSystem`, `AsyncTcp` |
| Services, `io/AService` | tree of services, `_running` | start (two passes), stop | a member fails half way | a failed start leaves nothing running | not modelled |
| Log, `base/ALog` | files, slices, an operator each | `ALog`, `LogFileAsopDone` | operator started without a lock | every line written once | not modelled |
| Queues, `base/srsw.hpp`, `base/wait_queue.h` | ring indices, list and condition | put/pop, push/pop | no lock; signal only when empty | FIFO, no lost item | not modelled |
| Streams, `device_agent` | plugins, frame queue | dispatch, drop policy | consumers slower than producers | drops to a key frame | not modelled |
| HTTP sessions, `http` | receive and send machines | callbacks | keep-alive, chunks, errors | one response per request | not modelled |

Not modelled, with the reason in `PROJECT.json`: the module registry and option
parser (sequential set-up), plain io wrappers, PVD client (repeats MQTT's pattern),
the legacy `SyncControl` manager, proxies, buffers, intrusive containers, media
parsers, the Windows port, vendored code.

### Interactions

Everything asynchronous is a callback run by a pool thread. `ASystemManager` and
`AEntityManager` own an `AOperator` each: its callback checks every client and
re-posts itself. The check returns `Result` records, and running one calls the
client's `open`, `heart`, `abort` or `close`; these use an `IOObject` (`AsyncTcp`)
whose requests complete in the thread its socket is bound to. An opened MQTT client
starts a session of its `AInOutComponent`: other threads post messages to it, its
output cycle receives. The busy count `_busy_count` ties them together: the session
holds two (the line of messages, the output cycle), and the client system closes,
and opens again, only when it has fallen to 0. Opening and closing are emitted as
events. All references to an entity are counted.

Each model stands on what its neighbour promises:

| Model | asks of its neighbour | who gives it |
|---|---|---|
| `ThreadPool` | an operator is posted only while idle | `CheckLoop.OneAhead` for the check operators |
| `CheckLoop` | the life of an operator; no second result for a client with one | `OperatorLife`; the busy count of `ClientSystem` |
| `ClientSystem` | an aborted callback completes, a close does; a session gives its busy count back | `AsyncTcp.BrokenEnds`, `ClosingEnds`; `InOut.AbortEnds` |
| `InOut` | a session begins only at a busy count of 0, and none is closed before | `ClientSystem.SessionOverAtClose` |
| `AsyncTcp` | one request per direction, close only when none is under way | `InOut.OneDriver`, `InOut.QuietWhenIdle` |

The hazards of this code, each at its line and with the properties that watch it,
are listed under `hazards` in `PROJECT.json`.

## 2. The modules

| Module | What it is |
|---|---|
| `OperatorLife` | abstract: what the owner of one `AOperator` is promised |
| `ThreadPool`, `MCThreadPool*` | the pool as the code has it; implements `OperatorLife` |
| `ThreadPool_proofs` | theorems `Placement`, `TypeCorrect`, `Drain`, `PrivateService`, `StopsServed`, `TimersInTime`, `ClaimsKept` |
| `OperatorLife_proofs` | theorem `PromiseKept`: the refinement |
| `InOutLine` | abstract: one line of messages with its end |
| `InOut`, `MCInOut*` | the component and its owner; implements `InOutLine` |
| `InOut_proofs` | theorems `Types`, `Driver`, `Owner`, `SafeToClose`, `ReferencesBalance`, `Implements` |
| `ClientLife` | abstract: the callbacks a client and its listeners see, in order |
| `ClientSystem`, `MCClientSystem*` | one client of the client system; implements `ClientLife` |
| `ClientSystem_proofs` | five theorems, one per safety property, and `LifeKept`: the refinement |
| `CheckLoop`, `MCCheckLoop*` | the check loops over the manager's entities |
| `CheckLoop_proofs` | theorems `TypeCorrect`, `LoopsLive`, `OneSystemsCallback`, `StopIsQuiet` |
| `AsyncTcp`, `MCAsyncTcp*` | one socket, its requests and its epoll thread |
| `AsyncTcp_proofs` | theorems `TypeCorrect`, `HeldByOne`, `AssertionsHold`, `BindingHeld` |
| `EventBus` | abstract: a set of receivers and what each emission owes |
| `Events`, `MCEvents*` | chains, tree nodes and references; implements `EventBus` |
| `Events_proofs` | theorems `TypeCorrect`, `ErasureIsSafe`, `ReferencesBalance`, `BusKept` |
| `SeqFacts` | lemmas about the sequences that stand for linked lists |

Definitions whose comment begins with "mutant:" are not part of a specification.
Each is a plausible slip in the definition under it; replacing that definition by
it makes TLC report one property violated, which shows that the property has force.

### ThreadPool and the code

| Code | Model |
|---|---|
| `waiting_tree` with the chains of its nodes | `waiting[k]`: the operators due at tick `k`, the node's own first |
| `pending_list`, `public_list`, `private_list` | `pending`, `public`, `private[t]` |
| `timeout_list` then `working_list` of a check | `batch[t]`, each operator with the result it will be told |
| `ao_tick`, `ao_thread` | the same; tick 0 is "not waiting", `INFINITE` the pending list |
| `max_timewait` local to `AThreadRun` | `deadline[t]`, the tick at which it runs out; `NoDeadline` for a wait of 0 |
| the mutex | held exactly while a thread is in `"check"`; any other critical section is one action |
| the eventfd write after the unlock | `owe[x]`, then `Wakeup(x)`: any step may come in between |
| edge-triggered epoll, `EFD_SEMAPHORE` | `pub_edge`, `prv_edge`, `sem` |

`AThreadCheckTimewait` is `BeginCheck`, one `Expire` per expired node, `EndCheck`
(claim, public pop, private splice, unlock), then `CallNext`/`Return` per callback.
`AOperatorPost` is `PostNow`, `PostPending` or `PostTimer`; `AThreadPost` is
`ThreadPost`; `AOperatorSignal` is `SignalWakeup` or `SignalCancel`; `AThreadAbort` is
`ThreadAbort`, its eventfd write a `Wakeup` like the others. `AThreadEnd` is the walk it
is in the code, one `done(-EINTR)` at a time: `Join`, the private list
(`DrainPrivate`), then a worker is freed (`WorkerFreed`), while the pool's own thread
splices the public list ahead of the pending one (`SplicePublic`), empties the tree
from its first node, each chain before its node (`DrainTree`), and the pending list
(`DrainPending`), and is freed last (`PoolFreed`). No `ao_tick` is reset by it, so from the
join on "in a list" and "`ao_tick` is set" are different things: `WaitsWhereDue` and
`Standing` say which one counts.

Abstractions, and why they keep the behaviours:

- The clock does not move while the mutex is held: `cur_timetick` is read once per
  check. The read precedes the lock, which delays the code by its wait for the lock;
  `Slack` already lets the clock run ahead of the threads.
- After a check the code subtracts the time since its previous pass from the new
  wait. `WaitAfterCheck` allows any shorter wait, or a new check.
- `epoll_wait` hands its events over in one batch. The model calls the socket
  first and then reads the eventfds.
- Edges of the public eventfd disappear when its counter reaches 0, since an epoll
  only reports what can be read at that moment.
- A callback or a client makes its calls one at a time, and a callback at most one.
  More would be the same calls from another caller.
- Discipline of the program, which the code relies on and does not check: an
  operator is posted only while idle (in no list), the pool of a finished thread
  is not called, and callbacks told -EINTR while a pool is drained do not post.
  `base/ALog.cpp:233` is a place where the first could fail; see `hazards`.
- `AThreadPost(at, NULL)`, a bare nudge, has no caller in `src/` and is left out.

### InOut and the code

| Code | Model |
|---|---|
| `_abort`, `_queue`, `on_post_end` | `abort`, `queue`, `post_end` |
| a message kept by `IOObject::input` | `io`; `InputDone` is its later completion |
| the locals of `_do_post` and `_inmsg_done` | `pc`, `msg`, `more`, `result` per thread |
| the output cycle | `out`; `OutputFails` is `MQTTOutput` finding an error |
| `MQTTOutput` between `use(-1)` and `_input_end` | `late` |
| `_client._busy_count` without the client system's own | `busy` |
| `addref` and `release` of the entity by the component | `refs` |

`_do_post` is `Post` (its critical section), then `Refused`, or `Input` for the first
message; `_inmsg_done` is `Pop` (critical section), `Tell` (`done2` and the release),
`Continue` (the read of `_abort` without the lock) and `Input`. `on_post_end` is
MQTT's: it gives up the line's busy count. `tried` is a history variable: whether
the io object was given the head. The io object and its completions are external:
it answers each input once, at once or later, with success or an error.

### ClientSystem and the code

| Code | Model |
|---|---|
| `_status`, `_main_abort`, `_check_heart`, `_last_opened`, `_busy_count` | `status`, `main_abort`, `heart`, `opened`, `busy` |
| `_run_result.status == Runnable` | `runnable` |
| `_main_tick` against the three intervals | `aged`: one of them may have passed |
| `diff`, computed when a check begins | `due`: whether an interval had passed then |
| `abort != NULL` | `aborts`, any value from the start: `init2` leaves it NULL |
| a `Result` `_exec` refuses, with its count and reference | `lost` |
| where each pool thread is in `check_one`, `client_run_internal`, `client_abort` | `pc[t]` |
| the `_status` a check has switched on | `seen`, which may be stale when the check goes on |
| a callback that returned 0 | `pending`; `ExecDone` is `exec_done`, in any thread |
| the session an MQTT open begins, `use(2)` to the last `use(-1)` | `session`, one count for both halves |
| `_entity`'s references by manager, runs, aborts | `refs` |

A check is three steps: `CheckBegin` reads the time (line 9), `CheckStatus` reads `_status`
(line 14), `Check` decides with whatever the rest of the client says by then. Each
`case` of it is an operator (`CheckInvalid` ... `CheckClosed`), and an action is each
stretch of `client_run_internal` between two points where another thread can see
the client: `Enter` dispatches on `_status` for a new run and for a completion alike,
and the falls through of the `switch` are the `Goto`s.

`Prompt` names two timing assumptions, which are assumptions of the theorems: while a
check stands between its read of `_status` and its decision, a few instructions with
no call between them, no `open` or `close` is called and answered; and `abort` returns
within `_tick_abort`, since it is queued again while it runs otherwise. Without the
first a check could act on a status that is a whole callback old. Nothing is assumed
of the time between line 9 and the decision: the end of a heart, a session or a run
may lie there, and `due` is then stale, as in the code. Callbacks and listeners may
take any time.

`Stalls` says whether an interval may pass while a run has only its mark to take back
(between lines 156 and 179). The passing run and the theorems allow it; the run of the
finding does not, to show that no such delay is needed.

What the code leaves as it is, and the model with it: a client without an abort
callback whose open never answers stays `Opening` for ever; `on_client_closed` is
emitted also after an open that failed, with no `on_client_opened` before it, and once
more at a removal; the count and the reference of a `Result` that `_exec` refuses are
never given back.

### CheckLoop and the code

`at[w]` is which operator's callback a pool thread runs, and where; `batch[w]` its
`exec_list`; `map` the `_entity_map`, ordered by address; `last` the cursor
`_last_entity`, which is only ever compared, so it may name an entity that is gone.
A scan (`ScanEntities`) is one action, as both mutexes are held, and so is
`check_allsys`; posting, executing one result and reading the tick are steps of
their own. `SM_stop_checkall` is `Reset` and `Signal` for each operator, then `Stopped`.
What clients need is nondeterministic: any that has no result under way (`Free`) may
get one. `Removed` are closed clients whose check removes them; if such a client is
also `Registered`, `check_all` does not end (`"spin"`), see the findings.

### AsyncTcp and the code

| Code | Model |
|---|---|
| `status` of `send_ovlp`, `recv_ovlp` | `status[d]` |
| `signal_count - perform_count` | `lag[d]`; only their difference is used |
| `send_ovlp.ao_events`, the registration itself | `events`, `reg`: `AThreadBind(0)` clears the first before `epoll_ctl` |
| `send_ovlp.done` | `opening` |
| the reference `AsyncTcpBind` takes | `held` |
| `recv_ovlp.ao_tick`, in a union with the `ao_fd` that `AsyncTcpBind` sets | `ticked`: it is not 0 |
| the build: `assert` is compiled in with `_DEBUG` (`base/base.h:125`) | `Debug` |
| a thread in `AsyncOvlpProc` | `rp[d]` for the requester, `ep` with `cur` for the epoll thread |
| the socket, its buffers and the epoll edge | `net`, `avail`, `edge` (external) |

`AsyncOvlpProc` is `Try` (take the signal, compare the counts), `Transfer` (the system
call) and `Park` (the exchange), for whichever of the two threads runs it.
`AsyncTcpRequestDone` is `Report`, then `NextSignal` and `Raise` per direction, or the
four steps of `AsyncOvlpError`. The buffer sizes are abstracted: a transfer is full
(the message is done), or short, which empties the buffer. `epoll_ctl(ADD)` is
taken to succeed, and `Prompt` says that no thread stands still inside `AsyncOvlpError`
while the owner closes or opens the same socket. A close goes by the epoll thread,
whose `AThreadCheckTimewait` asserts that what was posted has no tick: with `Debug`,
`CloseDone` waits for that in vain (see the finding `tcp_close`), so the passing run, and
whatever `ClosingEnds` promises, is about a build without assertions. The DISCONNECT that
`MQTTClose` inputs before it closes is left out.

### Events and the code

The model is of one key of `_name_map` or `_index_map`, which is whatever the tree takes
for equal: `ARecvCmpIndex` (`AEvent.cpp:33`) cuts the difference of two `int64_t` to an
`int`, so indexes that are a multiple of 2^32 apart are one key and share a chain.

`chain` is the tree's first receiver with its `_recv_list`; `nodes` are those whose
`_map_node` is not cleared - a superset of the tree, since `rb_replace_node` leaves the
replaced node as it was; `Linked` is a `_recv_list` that is not empty. `Emit` takes the
mutex, and the loop under it is a `Decline` or a `Take` for each receiver it visits, the
linked before the first; `visits` is what it has yet to visit, and the last visit gives
the mutex back. Meanwhile owners drop references and other emissions call and release
theirs; whatever needs the mutex waits (`MutexFree`). `Clear` is the critical section of
`EM_clear_sub_map` in one step, `Deliver` and `ReleaseCleared` the loops behind the two, one
receiver at a time. A freed receiver may be made anew (`Make`, as `_sub_self` does).
The owner of a receiver unsubscribes only what is still subscribed. Whether it is cannot
be told from the receiver itself: a removed first, whose node `_erase` leaves as it was
(lines 89-91), passes the guard of line 99 and meets the assertions of line 81 or 107.
That was seen by reading only.

## 3. What the runs check

Distinct states are in parentheses.

| Run | Instance | Properties |
|---|---|---|
| `timers` (3.9 million) | 2 threads, 1 client, 2 operators, 16 ticks starting at 14, so the clock wraps and a due tick steps over 0; `max_timewait` 3; `t1` may be stopped | `NoOversleep`, `ClaimIsWatched`, `PrivateIsServed`, `StopIsServed` |
| `stop` (1.2 million) | 2 threads, 1 client that may stop them at any time, 2 operators | `TypeOK`, `OnePlace`, `DrainedAtEnd`, `KeepsPromise` |
| `live` (327 thousand) | 1 thread whose callbacks post and signal too, 1 client that may stop it | `EachIsCalled` |
| `line` (115 thousand) | 2 threads, 3 messages, two sessions overlapping through `late` | `TypeOK`, `OneDriver`, `OneOwner`, `QuietWhenIdle`, `RefsBalance`, `KeepsOrder`, `AbortEnds` |
| `client` (26 thousand) | 2 threads, a client with any options, with and without an abort callback | `TypeOK`, `OneRun`, `AbortStaysInSession`, `SessionOverAtClose`, `RefsBalance`, `KeepsLife`, `OpeningEnds`, `AbortCloses` |
| `checks` (312 thousand) | 2 pool threads, 3 entities, one of them removed by its check | `TypeOK`, `OneAhead`, `NothingChecked`, `EveryoneChecked`, `StopEnds` |
| `tcp` (312 thousand) | one socket in a build without assertions, both directions, one unit of data at a time | `TypeOK`, `OneHolder`, `Assertions`, `BoundIsHeld`, `BrokenEnds`, `ClosingEnds` |
| `events` (16 thousand) | 2 emitting threads, 3 receivers: plain oneshot, oneshot with preproc, preproc | `TypeOK`, `ChainIsErasable`, `RefsBalance`, `KeepsBus` |
| `checks_remove`, `tcp_skip`, `tcp_close`, `client_stale` | see the findings | each violates its one property |

What the passing runs show:

- `OnePlace`, `KeepsPromise`: signal, expiry, posting and shutdown race without an
  operator ever standing in two lists or being called twice, or after a cancel.
- `NoOversleep`, `ClaimIsWatched`: although a claimed timer is watched by one thread
  only and threads sleep on claims that change, the first timer is always watched.
  This is stated for `Wakeups = {TRUE}`. `ALog` passes `FALSE`, and a timer behind
  such a one can be late by up to `max_timewait`: with `FALSE` the property fails,
  and the hazard list says so.
- `PrivateIsServed`: waking a private list only when it was empty loses no wakeup.
- `StopIsServed`: nor does a stop get lost, whatever a thread reads from its eventfd
  between its test of `running` and its `epoll_wait`: with `max_timewait` above 0 no
  timeout would make up for it. The mutant wakes only a thread with an empty private
  list, as a post does.
- `DrainedAtEnd`: the walk of `AThreadEnd` leaves no list, chain or node out. Its mutant
  forgets the splice of the public list; the one of `KeepsPromise` erases a node of the
  tree with its chain, whose operators are then never told.
- `EachIsCalled`: a public wakeup may be lost to coalescing, since a check takes one
  public operator; timeouts see to the rest. It would fail without them.
- `OneDriver`, `OneOwner`, `KeepsOrder`: racing posters and completions never give the
  io object two inputs or strand a message.
- `QuietWhenIdle`: `busy = 0` licenses closing, and `_input_begin`'s assertion holds -
  even when a late `_input_end` of an old session hits the new one.
- `OneRun`: an abort by time, a late completion, a check with a stale time and a failing
  session never run a client's state machine twice at once. A check may grant the next
  run while the last one still has its mark to take back (see the finding
  `client_stale`); what is shown is that no more than that overlaps. It rests on the busy
  count and on the order in which a run gives up its heart, mark, count and reference.
- `AbortStaysInSession`, `SessionOverAtClose`: no close under a live session, and no
  abort of one session in the next.
- `KeepsLife`: callbacks come one at a time, in the order of the phases; `opened` is
  emitted at most once between an open and its close, `closed` once for each close, also
  of a client that was never opened, and once more at a removal (`owes` in `ClientLife`).
- `OpeningEnds`, `AbortCloses`: of a client with an abort callback, an open that never
  answers is aborted and closed in the end, and a client that must go down goes down
  whatever is pending. Of one without, the properties except what waits for an answer;
  they also except a client whose refused `Result` keeps it busy.
- `OneAhead`: `asop->post` before the results run (`ASystem.cpp:105`) neither loses nor
  doubles a loop; it also gives what `ThreadPool` asks of posters. `NothingChecked` is
  deliberately weak: results of the entities' loop may still run after stop.
- `EveryoneChecked`: the cursor starves nobody, whatever is pushed, popped, busy, or
  popped by its own check.
- `OneHolder`: a request is in the hands of the requester, the epoll thread or the
  status word, never two, so `done2` comes once. `BoundIsHeld`: the binding's reference
  is given back once, by the error or by the close.
- `ChainIsErasable`: `_erase`'s assertions hold for all that is subscribed. `KeepsBus`: an
  emission calls each receiver once and a oneshot is picked by one emission only, as
  if all of its visits were made at the last of them.

### Findings

- `checks_remove`: a registered client with `auto_reopen` off is removed by `check_all`
  while that loop stands on it; its list node then points to itself and the loop
  never ends, with both mutexes held (`AClientSystem.cpp:74`, `257`).
- `tcp_skip`: `perform_count == signal_count` is taken for "nothing to transfer"
  (`AModule_AsyncTcp.cpp:130`). Short transfers made on a stale `op_signal` let
  `perform_count` run ahead; then a readiness equalises the counts, a full transfer
  leaves data behind and the next request waits for an edge that does not come.
- `tcp_close`: closing a bound socket posts `recv_ovlp`, whose `ao_fd`, set by
  `AsyncTcpBind` (`AModule_AsyncTcp.cpp:287`), is in one union with `ao_tick`. In the
  makefile's Debug build the first such close ends in `assert(asop->ao_tick == 0)`
  (`AOperator.cpp:100`).
- `client_stale`: `check_one` computes `diff` at line 9 and reads the heart at line 49. A
  heart that ends in between (154-157) leaves a stale `diff` with `HeartNone`: the check
  grants the one `_run_result` again, the ending run then marks it `NotNeed` (line 179),
  and `_exec` meets `default: assert(0)` (`ASystem.h:49`). No thread has to be delayed by
  more than a few instructions.

### Bounds

- Two operators are the least that share a tick (a chain) or compete for a list; two
  threads the least that can claim from each other. `MaxTimewait` is above and below
  the timeouts in different runs; where it is 0 (`stop`, `live`) a wait always ends, so
  nothing about lost wakeups is read from those runs but `EachIsCalled`, which is about
  what timeouts make up for. `TickCount` must exceed twice the longest wait
  plus `Slack`, as a DWORD does for waits under 24 days: that is `WindowAssumption`.
- `MaxSignals` stops new posts while a wakeup is unread; wakeups already owed still
  come, so coalescing happens. `Slack` bounds how far the clock runs past a
  deadline: a thread may be late. `End` stops the clock of the runs where time
  does not go round (`stop`); in `timers` the clock stops after it has wrapped.
- In `InOut`, three messages let one be in flight, one be queued behind and one be
  refused or posted; `MaxLate` bounds how many old output cycles are late.
- In `ClientSystem` nothing is bounded: two threads are enough for a check or abort to
  meet a run, and with three the same properties hold (and are proved for any number).
- In `CheckLoop`, three entities give the cursor one before, one at and one behind it.
- In `AsyncTcp`, `MaxLag` stops the network while the counts are more than that apart;
  the counts still differ by one either way, which is all the code tests (equal
  or not, and reset to 1). `MaxAvail` = 1 makes a transfer empty the buffer or fill
  the message; `tcp_skip` needs 2 for a full transfer that leaves something.
- In `Events`, three receivers are the least for which the second becomes the first
  and still has one behind it.
- Symmetry is used on operators in runs that check safety only.

### Fairness

- `WF(Run(t))`, `WF(Wakeup(x))`: the operating system runs every thread, and a
  caller that unlocked goes on to its write. `SF(BeginCheck(t))`: a thread that keeps
  trying for the mutex gets it. `SF(ClockTick)`: time passes although it is
  disabled while the mutex is held. `WF(ThreadEnd(t))`: `AThreadEnd` goes on.
- `InOut`: threads run (`WF(Chain(t))`); the io object completes what it kept once it
  is shut down (`SF`, as in the model a thread that posts is no completing one), and
  its output then cannot succeed for ever (`SF(shut /\ OutputFails)`). Nothing obliges a
  program to post, a socket to become ready, or a healthy connection to end.
- `ClientSystem`: `SF(RunStep(t))`, since `Prompt` makes callbacks wait for a check;
  `WF(CheckStatus \/ Check)`: a check that began goes on; `SF(CheckBegin(t, TRUE))`,
  `SF(Age)`: the loop of `CheckLoop` comes round (`EveryoneChecked`), intervals pass and
  some check sees one that has; `SF(busy = 0 /\ CheckBegin(t, FALSE))`: checks are more
  frequent than intervals and also see the client between two. `SF(ExecDone)` only for
  what was aborted, or is a close: nothing obliges a server to answer.
- `CheckLoop`: threads run, timers expire, a posted operator is taken (`SF`, several
  workers compete), and whoever stops goes on.
- `AsyncTcp`: the epoll thread and the requesters run, and an owner that can close
  does. Nothing obliges the network to do anything.
- `Events`: an emission goes on to call its receivers.

## 4. What is proved

The proofs assume only the named assumptions on the constants, which TLC evaluates
in every run, and `Prompt` where a theorem states it. They hold for any sets of
operators, threads, clients, entities and messages, any clock and any timeouts.

- `Placement`: `Spec => [](TypeOK /\ OnePlace)`. The two parts need each other: that a
  batch, a list or a callback only holds operators follows from the types, but that
  `Unlink` finds its operator, so that the lists stay sequences, follows from
  `OnePlace`. `TypeOK` is split into the lists and the control state and `OnePlace`
  into waiting, ready and their separation; each action is shown to disturb
  only its own parts, through lemmas on pushing, unlinking, splicing and expiring.
- `Drain`: the strengthening `Emptied` follows the walk of `AThreadEnd`: which lists each
  stage has left empty, that only the pool's own thread walks the tree, and only when
  every worker is gone. Since ticks are not reset by the walk, `OnePlace` is carried
  across the join in two forms (`Spread`: `Placed` before it, `Draining` after).
- `StopsServed`: the strengthening `Stopping` says that a thread told to stop, from its
  check to its sleep, has its private edge or is owed the write: `AThreadAbort` stores
  `running` before it writes, and only `ReadSignal`, after which `running` is tested again,
  takes the edge away.
- `PrivateService`: the strengthening `Served` does not rely on the public eventfd, whose
  edges other threads take away: a thread with a private list is in a check, has
  reported events to read, has no deadline, has a private edge, or is owed a write.
- `TimersInTime`, `ClaimsKept`: both compare ticks that wrap around, which says something
  only of ticks less than half the circle apart. So the core of the invariant is a
  window: whatever is in the tree, and every deadline a thread sleeps to, lies
  between `now - Slack` and the longest wait from `now` (`Window`), which
  `WindowAssumption` makes less than half. Within it comparing is an order and adding a
  tick keeps it. `Claimed` says that only the first operator of a node has a claim, and
  that whoever has it is awake or sleeps no longer than to its tick; `Halted` that a
  thread that left its loop was stopped. That a claimant woken late still comes to
  its check rests on `Served`. Unlinking needs care: when the head of a node goes, the
  next is unclaimed, and whoever skipped the node for its old claim must still be in time.
  `TimersInTime` has the hypothesis `Wakeups \subseteq {TRUE}`, as every caller but `ALog`
  has it; without it the property is false.
- `PromiseKept`: `Spec => KeepsPromise`, from `Spread`, `Emptied` and `Calling` (a thread is
  in a `done()` only while it runs its batch, or walks the lists at the end). Posts and signals map to one move of an
  operator, `Expire` to the expiry of a whole node, `EndCheck` to a stutter, each
  step of the walk to the call of one operator with `-EINTR`. That `CallNext` leaves its
  operator idle needs `OnePlace`, and so does that the walk meets nothing twice.
- `Types`, `Driver`, `Owner`, `SafeToClose`: from one inductive invariant `IInv`. It adds
  `Accounts` (the busy count is one for the line and one for the output; a session
  that is over is aborted and drained; a thread holds a message exactly while it
  answers one) and `Honest` (a result is of a message the io object was given,
  -EINTR of one it was not, in an aborted session). `QuietWhenIdle` is not
  inductive without `Accounts`, nor `OneDriver` without the thread-local facts.
- `ReferencesBalance`: `IInv` with the set of threads that serve the line kept finite,
  whose cardinality moves by one with each thread that comes or goes.
- `Implements`: `Spec => KeepsOrder`. Each step maps to a step of `InOutLine` or a
  stutter: `Post` to `Accept` or `Refuse`, `Input` to `Send`, `Pop` to `Answer`, `Tell` and
  `Refused` to `Return`, an end of input to `Close`, `Begin` to `Open`. `Honest` is what
  makes `Pop` an allowed answer.
- `ClientSystem_proofs`: the five safety properties from one inductive invariant `IInv`,
  all under `Prompt`. Its core counts: `busy` and `refs` are the cardinalities of the
  threads in a run, an abort or on their way out, plus one for a pending callback, the
  session and the manager's list, and what was lost (`BusyBalance`, `HeldBalance`). Around
  it stand facts that tie each place of a run to the status and the heart (`Places`) and
  that tie what a check has read to what may have changed since (`Checks`). They allow
  what the stale `diff` brings: a run that is granted, and gets under way, while the one
  before it is at its end, and a `Result` that lost its mark.
- `LifeKept`: `Spec => KeepsLife`, for any number of threads. Every step maps to a step of
  `ClientLife` or a stutter; three further invariants say which callback is under way at
  each place (`CallInv`), when listeners have been told (`ToldInv`) and when
  `on_client_closed` is owed (`OwesInv`).
- `CheckLoop_proofs`: `OneAhead` is inductive once a callback that is ahead belongs to a
  started loop, and a loop not started or stopped has none (`Started`, `Ends`).
- `AsyncTcp_proofs`, under `Prompt`: `OneHolder`, `BoundIsHeld` and `Binding` are inductive
  together. `Binding` says what the registration implies: of the place of the epoll
  thread (it handles events only of what is bound), of the status words (no error
  stands while bound) and of the owner (a closed handle is not bound, and closing
  begins with no request under way).

- `Events_proofs`, from one inductive invariant `IInv`. `ErasureIsSafe` needs `Known` (what
  was never given to the manager is in none of its lists) for a receiver that
  subscribes, and the balance of references, since only that keeps `Make` from taking
  a receiver that is still linked. `ReferencesBalance` counts holders: each list has a
  receiver once (`Apart`), so a step on a list of one thread changes the cardinality
  by one. `Visiting` is about the emission that holds the mutex: it is alone,
  what it has yet to visit is still subscribed and not picked, and of what it
  picked exactly the oneshot receivers are erased.
- `BusKept`: `Spec => Bus!Safety`, the part of `KeepsBus` without its fairness. Visits
  stutter up to the last, which is the bus's `Emit`: what was picked then contains all
  that may not decline, and what was erased is what the bus takes off (`Visiting`).

Only model-checked: all liveness (`EachIsCalled`, `AbortEnds`, `OpeningEnds`,
`AbortCloses`, `EveryoneChecked`, `StopEnds` of `CheckLoop`, `BrokenEnds`, `ClosingEnds`, and the fairness of
the bus in `KeepsBus`), which is out of the prover's reach. Every invariant the passing
runs check is also proved.

## 5. Not modelled

- Two clients together: they share only the check loop, which `CheckLoop` has.
- `_owner_thread` (a run in a thread of its own) is a step of another thread, which the
  model has already; `clear_all` at the end of a program.
- Composition in one state space: the table of section 1 says which property of one
  model discharges which assumption of another; the product is too large for TLC.
- The peer's end of a connection alone: when a read consumes it together with data, or
  the counts are equal, a waiting request is not told (no EPOLLRDHUP is asked for).
- A failing `epoll_ctl(ADD)` (`AModule_AsyncTcp.cpp:293`), after which the status stays
  pending and a close meets the assertion of line 445: seen by reading only.
- `MQTTClose` inputs a DISCONNECT before it closes (`MQTTClient.cpp:306`). If the open failed
  before the socket was bound, that input is parked with nothing to wake it, and the
  client stays closed and busy: seen by reading only.
- `ALog`'s unlocked start of its operator (`base/ALog.cpp:233`), `WaitQueue`'s signal only
  when empty (`base/wait_queue.h:43`), the single-reader queues, services, the frame
  queue and the HTTP machines: the next modules to write, in that order.
