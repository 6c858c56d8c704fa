----------------------------- MODULE CheckLoop -----------------------------
(***************************************************************************)
(* The check loops of ecs/ASystem.cpp over the entities of ecs/AEntity.cpp:*)
(* two operators, one for all the systems and one for the entities, each   *)
(* called by a thread of the pool, which checks under the mutexes what     *)
(* needs to be run, runs the results without them, and posts the operator  *)
(* again.  The pool is what OperatorLife promises; here an operator can be *)
(* posted in any state, and OneAhead says that it never is but idle, which *)
(* is what OperatorLife and ThreadPool ask of their callers.               *)
(***************************************************************************)
EXTENDS Integers

CONSTANTS
  Worker,    \* the pool's threads
  Last,        \* the entities are 1 .. Last, in the order of their addresses
  Registered,  \* those in the list of AClientSystem (_regist)
  Removed,     \* closed clients a check removes (~_auto_reopen, _auto_remove)
  WhenIdle     \* _check_entities_when_idle

ASSUME LoopAssumption == Last \in Nat /\ WhenIdle \in BOOLEAN

Op == {"systems", "entities"}
Entity == 1 .. Last

VARIABLES
  st,       \* per operator: idle, waiting (a timer), ready
  done,     \* per operator: done # NULL
  tick,     \* per operator: _tick_systems, _tick_entities # 0
  at,       \* per worker: where it is, of which operator's callback
  batch,    \* per worker: the entities of its exec_list
  map,      \* the entities of the manager
  last,     \* _last_entity, 0 is NULL
  main,     \* the program: new, running, the steps of stop_checkall, stopped
  checked   \* history: the entities of the latest check_entities

vars == <<st, done, tick, at, batch, map, last, main, checked>>

Idle == [op |-> "none", pc |-> "idle"]
Steps == {"enter", "check", "spin", "scan", "post", "exec", "delay", "sooner", "later"}

TypeOK ==
  /\ st \in [Op -> {"idle", "waiting", "ready"}]
  /\ done \in [Op -> BOOLEAN] /\ tick \in [Op -> BOOLEAN]
  /\ at \in [Worker -> {Idle} \cup [op : Op, pc : Steps]]
  /\ batch \in [Worker -> SUBSET Entity]
  /\ map \subseteq Entity /\ checked \subseteq Entity /\ last \in 0 .. Last
  /\ main \in {"new", "running", "signal1", "tick2", "signal2", "wait", "stopped"}

Init ==
  /\ st = [o \in Op |-> "idle"] /\ done = [o \in Op |-> FALSE]
  /\ tick = [o \in Op |-> TRUE]
  /\ at = [w \in Worker |-> Idle] /\ batch = [w \in Worker |-> {}]
  /\ map = {} /\ last = 0 /\ main = "new" /\ checked = {}

At(w, pc) == at[w].op # "none" /\ at[w].pc = pc
Goto(w, pc) == at' = [at EXCEPT ![w].pc = pc]
Leave(w) == at' = [at EXCEPT ![w] = Idle]

----------------------------------------------------------------------------
(* The pool.                                                               *)

Expire(o) ==
  /\ st[o] = "waiting" /\ st' = [st EXCEPT ![o] = "ready"]
  /\ UNCHANGED <<done, tick, at, batch, map, last, main, checked>>

Take(w, o) ==
  /\ at[w] = Idle /\ st[o] = "ready"
  /\ st' = [st EXCEPT ![o] = "idle"]
  /\ at' = [at EXCEPT ![w] = [op |-> o, pc |-> "enter"]]
  /\ UNCHANGED <<done, tick, batch, map, last, main, checked>>

----------------------------------------------------------------------------
(* SM_check_allsys_asop and SM_check_entities_asop.                        *)

EnterAlways(w) ==   \* mutant: the tick is not looked at
  /\ At(w, "enter")
  /\ Goto(w, IF at[w].op = "systems" THEN "check" ELSE "scan")
  /\ UNCHANGED <<st, done, tick, batch, map, last, main, checked>>

Enter(w) ==
  /\ At(w, "enter")
  /\ IF tick[at[w].op]
     THEN Goto(w, IF at[w].op = "systems" THEN "check" ELSE "scan") /\ UNCHANGED done
     ELSE Leave(w) /\ done' = [done EXCEPT ![at[w].op] = FALSE]
  /\ UNCHANGED <<st, tick, batch, map, last, main, checked>>

(* An entity with a result under way has no other: AClientSystem's busy    *)
(* count.                                                                  *)
Free == Entity \ UNION {batch[w] : w \in Worker}

(* The mutexes are held by a check that does not end.                      *)
Unlocked == \A w \in Worker : ~At(w, "spin")

(* A client a check has removed is in no list until it is pushed again.    *)
Listed == (Registered \cap Free) \ (Removed \ map)

(* check_allsys: each system checks what it has registered.  A client that *)
(* is removed by it leaves the list under the loop (list_for_each2), which *)
(* goes round on that client for ever.                                     *)
CheckSystems(w) ==
  /\ At(w, "check") /\ Unlocked
  /\ \E results \in SUBSET Listed :
       /\ batch' = [batch EXCEPT ![w] = results]
       /\ map' = map \ (results \cap Removed)
       /\ Goto(w, CASE results \cap Removed # {} -> "spin"
                    [] results = {} /\ WhenIdle -> "scan"
                    [] OTHER -> "exec")
  /\ UNCHANGED <<st, done, tick, last, main, checked>>

(* check_entities: from the one after _last_entity, which may have gone,   *)
(* to the first that has a result, which may remove it.                    *)
Upper == {e \in map : e > last}

AfterScan(w, found) ==
  IF at[w].op = "systems" THEN "exec" ELSE IF found THEN "post" ELSE "delay"

ScanFromFirst(w) ==   \* mutant: every scan begins with the first entity
  /\ At(w, "scan") /\ Unlocked
  /\ \/ /\ last' = 0 /\ checked' = map
        /\ Goto(w, AfterScan(w, FALSE)) /\ UNCHANGED <<batch, map>>
     \/ \E e \in map \cap Free :
          /\ last' = e /\ checked' = {x \in map : x <= e}
          /\ batch' = [batch EXCEPT ![w] = {e}] /\ map' = map \ ({e} \cap Removed)
          /\ Goto(w, AfterScan(w, TRUE))
  /\ UNCHANGED <<st, done, tick, main>>

ScanTooFar(w) ==   \* mutant: the next scan leaves one out
  /\ At(w, "scan") /\ Unlocked
  /\ \/ /\ last' = 0 /\ checked' = Upper
        /\ Goto(w, AfterScan(w, FALSE)) /\ UNCHANGED <<batch, map>>
     \/ \E e \in Upper \cap Free :
          /\ last' = e + 1 /\ checked' = {x \in Upper : x <= e}
          /\ batch' = [batch EXCEPT ![w] = {e}] /\ map' = map \ ({e} \cap Removed)
          /\ Goto(w, AfterScan(w, TRUE))
  /\ UNCHANGED <<st, done, tick, main>>

ScanEntities(w) ==
  /\ At(w, "scan") /\ Unlocked
  /\ \/ /\ last' = 0 /\ checked' = Upper
        /\ Goto(w, AfterScan(w, FALSE)) /\ UNCHANGED <<batch, map>>
     \/ \E e \in Upper \cap Free :
          /\ last' = e /\ checked' = {x \in Upper : x <= e}
          /\ batch' = [batch EXCEPT ![w] = {e}] /\ map' = map \ ({e} \cap Removed)
          /\ Goto(w, AfterScan(w, TRUE))
  /\ UNCHANGED <<st, done, tick, main>>

(* The entities' operator is posted before the results are run.            *)
Post(w) ==
  /\ At(w, "post")
  /\ st' = [st EXCEPT !["entities"] = "ready"]
  /\ Goto(w, "exec")
  /\ UNCHANGED <<done, tick, batch, map, last, main, checked>>

(* _exec_results, one result at a time.                                    *)
Exec(w) ==
  /\ At(w, "exec") /\ batch[w] # {}
  /\ \E e \in batch[w] : batch' = [batch EXCEPT ![w] = @ \ {e}]
  /\ UNCHANGED <<st, done, tick, at, map, last, main, checked>>

ExecThenPost(w) ==   \* mutant: the entities' callback ends as the systems'
  /\ At(w, "exec") /\ batch[w] = {}
  /\ Goto(w, "delay")
  /\ UNCHANGED <<st, done, tick, batch, map, last, main, checked>>

Executed(w) ==
  /\ At(w, "exec") /\ batch[w] = {}
  /\ IF at[w].op = "systems" THEN Goto(w, "delay") ELSE Leave(w)
  /\ UNCHANGED <<st, done, tick, batch, map, last, main, checked>>

(* delay: the tick is read, then the operator is posted with it.           *)
ReadTick(w) ==
  /\ At(w, "delay")
  /\ Goto(w, IF tick[at[w].op] THEN "later" ELSE "sooner")
  /\ UNCHANGED <<st, done, tick, batch, map, last, main, checked>>

Delay(w) ==
  /\ At(w, "later") \/ At(w, "sooner")
  /\ st' = [st EXCEPT ![at[w].op] = IF At(w, "later") THEN "waiting" ELSE "ready"]
  /\ Leave(w)
  /\ UNCHANGED <<done, tick, batch, map, last, main, checked>>

Work(w) ==
  \/ \E o \in Op : Take(w, o)
  \/ Enter(w) \/ CheckSystems(w) \/ ScanEntities(w) \/ Post(w)
  \/ Exec(w) \/ Executed(w) \/ ReadTick(w) \/ Delay(w)

----------------------------------------------------------------------------
(* The program.                                                            *)

(* SM_start_checkall                                                       *)
Start ==
  /\ main = "new" /\ main' = "running"
  /\ done' = [o \in Op |-> TRUE] /\ st' = [o \in Op |-> "ready"]
  /\ UNCHANGED <<tick, at, batch, map, last, checked>>

(* SM_stop_checkall, by a thread that is not of the pool.                  *)
Reset(o, from, to) ==
  /\ main = from /\ main' = to
  /\ tick' = [tick EXCEPT ![o] = FALSE]
  /\ UNCHANGED <<st, done, at, batch, map, last, checked>>

Signal(o, from, to) ==
  /\ main = from /\ main' = to
  /\ st' = [st EXCEPT ![o] = IF @ = "waiting" THEN "ready" ELSE @]
  /\ UNCHANGED <<done, tick, at, batch, map, last, checked>>

StopEarly ==   \* mutant: the entities' operator is not waited for
  /\ main = "wait" /\ ~done["systems"]
  /\ main' = "stopped"
  /\ UNCHANGED <<st, done, tick, at, batch, map, last, checked>>

Stopped ==
  /\ main = "wait" /\ \A o \in Op : ~done[o]
  /\ main' = "stopped"
  /\ UNCHANGED <<st, done, tick, at, batch, map, last, checked>>

Stop ==
  \/ Reset("systems", "running", "signal1") \/ Signal("systems", "signal1", "tick2")
  \/ Reset("entities", "tick2", "signal2") \/ Signal("entities", "signal2", "wait")
  \/ Stopped

(* EM_push and EM_pop, by anybody.                                         *)
Push(e) ==
  /\ Unlocked /\ e \notin map /\ map' = map \cup {e}
  /\ UNCHANGED <<st, done, tick, at, batch, last, main, checked>>

Pop(e) ==
  /\ Unlocked /\ e \in map /\ map' = map \ {e}
  /\ UNCHANGED <<st, done, tick, at, batch, last, main, checked>>

Next ==
  \/ \E o \in Op : Expire(o)
  \/ \E w \in Worker : Work(w)
  \/ Start \/ Stop
  \/ \E e \in Entity : Push(e) \/ Pop(e)

Spec == Init /\ [][Next]_vars

----------------------------------------------------------------------------
(* Properties.                                                             *)

Busy(w, o) == at[w].op = o

(* "single operator execute" (ASystem.h:72): the systems' callback is      *)
(* never run by two threads.                                               *)
SystemsAlone ==
  \A v, w \in Worker : Busy(v, "systems") /\ Busy(w, "systems") => v = w

(* A started loop is never lost: its operator is posted, or a callback is  *)
(* about to post it, and never both.                                       *)
Ahead(w, o) == Busy(w, o) /\ (o = "entities" => at[w].pc # "exec")
OneAhead ==
  \A o \in Op :
    /\ done[o] => st[o] # "idle" \/ \E w \in Worker : Ahead(w, o)
    /\ st[o] # "idle" => done[o] /\ \A w \in Worker : ~Ahead(w, o)
    /\ \A v, w \in Worker : Ahead(v, o) /\ Ahead(w, o) => v = w

(* After stop_checkall nothing is checked; results of the entities' loop   *)
(* may still be running, which it does not wait for.                       *)
NothingChecked ==
  main = "stopped" =>
    /\ \A o \in Op : st[o] = "idle"
    /\ \A w \in Worker : at[w] \in {Idle, [op |-> "entities", pc |-> "exec"]}

(* The threads run, callbacks return and timers expire; who stops goes on. *)
Fairness ==
  /\ \A w \in Worker : WF_vars(Work(w))
  /\ \A o \in Op : WF_vars(Expire(o)) /\ SF_vars(\E w \in Worker : Take(w, o))
  /\ WF_vars(main # "running" /\ Stop)
FairSpec == Spec /\ Fairness

(* Every entity is checked again and again, whatever is pushed, popped or  *)
(* has results, as long as the loop runs.                                  *)
EveryoneChecked ==
  \A e \in Entity : []<>(e \in checked \/ e \notin map \/ main # "running")

(* stop_checkall returns.                                                  *)
StopEnds == main = "signal1" ~> main = "stopped"
=============================================================================
