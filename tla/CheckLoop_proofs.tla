-------------------------- MODULE CheckLoop_proofs --------------------------
(***************************************************************************)
(* For any number of pool threads and entities: the check loops are never  *)
(* lost or doubled, the systems' callback is run by one thread at a time,  *)
(* and after stop_checkall nothing is checked.                             *)
(***************************************************************************)
EXTENDS CheckLoop, TLAPS

(* OneAhead is inductive once the callback that is ahead belongs to a      *)
(* started loop, a loop that has not started or has stopped has none, and  *)
(* the places belong to their operators.                                   *)
Places ==
  \A w \in Worker :
    /\ at[w].pc = "post" => at[w].op = "entities"
    /\ at[w].pc = "check" => at[w].op = "systems"
Started == \A o \in Op : \A w \in Worker : Ahead(w, o) => done[o]
Ends ==
  /\ main = "new" => \A o \in Op : ~done[o] /\ st[o] = "idle"
  /\ main = "stopped" => \A o \in Op : ~done[o]

IInv == TypeOK /\ Places /\ Started /\ Ends /\ OneAhead

(* The initial state.                                                      *)
LEMMA InitInv == Init => IInv
BY LoopAssumption DEF Init, IInv, TypeOK, Places, Started, Ends, OneAhead, Ahead, Busy,
  Idle, Steps, Entity, Op

(* A worker in a callback is at one of its steps, and moves to another.    *)
LEMMA PlaceFacts ==
  ASSUME TypeOK, NEW w \in Worker, at[w].op # "none"
  PROVE  at[w] \in [op : Op, pc : Steps] /\ at[w].op \in Op
  BY DEF TypeOK, Idle

LEMMA GotoFacts ==
  ASSUME TypeOK, NEW w \in Worker, at[w].op # "none", NEW pc \in Steps, Goto(w, pc)
  PROVE  /\ at' \in [Worker -> {Idle} \cup [op : Op, pc : Steps]]
         /\ at'[w].op = at[w].op /\ at'[w].pc = pc
         /\ \A v \in Worker \ {w} : at'[v] = at[v]
<1>1. at[w] \in [op : Op, pc : Steps]
  BY PlaceFacts
<1>2. [at[w] EXCEPT !.pc = pc] = [op |-> at[w].op, pc |-> pc]
  BY <1>1
<1>3. at' = [at EXCEPT ![w] = [op |-> at[w].op, pc |-> pc]]
  BY <1>2 DEF Goto
<1>4. at'[w] = [op |-> at[w].op, pc |-> pc]
  BY <1>3 DEF TypeOK
<1> QED BY <1>1, <1>3, <1>4 DEF TypeOK

LEMMA LeaveFacts ==
  ASSUME TypeOK, NEW w \in Worker, Leave(w)
  PROVE  /\ at' \in [Worker -> {Idle} \cup [op : Op, pc : Steps]]
         /\ at'[w] = Idle
         /\ \A v \in Worker \ {w} : at'[v] = at[v]
  BY DEF Leave, TypeOK

(* Types are kept.                                                         *)
LEMMA TypeStep == TypeOK /\ [Next]_vars => TypeOK'
<1> SUFFICES ASSUME TypeOK, [Next]_vars PROVE TypeOK'
  OBVIOUS
<1> USE LoopAssumption DEF TypeOK
<1>1. ASSUME NEW o \in Op, Expire(o) PROVE TypeOK'
  BY <1>1 DEF Expire
<1>2. ASSUME NEW w \in Worker, NEW o \in Op, Take(w, o) PROVE TypeOK'
  BY <1>2 DEF Take, Steps
<1>3. ASSUME NEW w \in Worker, Enter(w) PROVE TypeOK'
  <2>1. at[w].op \in Op
    BY <1>3, PlaceFacts DEF Enter, At
  <2>2. at' \in [Worker -> {Idle} \cup [op : Op, pc : Steps]]
    <3>1. CASE tick[at[w].op]
      <4>1. PICK pc \in Steps : Goto(w, pc)
        BY <1>3, <3>1 DEF Enter, Steps
      <4> QED BY <1>3, <4>1, GotoFacts DEF Enter, At
    <3>2. CASE ~tick[at[w].op]
      BY <1>3, <3>2, LeaveFacts DEF Enter
    <3> QED BY <3>1, <3>2
  <2> QED BY <1>3, <2>1, <2>2 DEF Enter
<1>4. ASSUME NEW w \in Worker, CheckSystems(w) PROVE TypeOK'
  <2>1. PICK pc \in Steps : Goto(w, pc)
    BY <1>4 DEF CheckSystems, Steps
  <2>2. at' \in [Worker -> {Idle} \cup [op : Op, pc : Steps]]
    BY <1>4, <2>1, GotoFacts DEF CheckSystems, At
  <2>3. Listed \subseteq Entity
    BY DEF Listed, Free
  <2>4. batch' \in [Worker -> SUBSET Entity] /\ map' \subseteq Entity
    <3>1. PICK results \in SUBSET Listed :
            /\ batch' = [batch EXCEPT ![w] = results]
            /\ map' = map \ (results \cap Removed)
      BY <1>4 DEF CheckSystems
    <3> QED BY <2>3, <3>1
  <2> QED BY <1>4, <2>2, <2>4 DEF CheckSystems
<1>5. ASSUME NEW w \in Worker, ScanEntities(w) PROVE TypeOK'
  <2>1. PICK pc \in Steps : Goto(w, pc)
    BY <1>5 DEF ScanEntities, Steps, AfterScan
  <2>2. at' \in [Worker -> {Idle} \cup [op : Op, pc : Steps]]
    BY <1>5, <2>1, GotoFacts DEF ScanEntities, At
  <2>3. UNCHANGED <<st, done, tick, main>> /\ map' \subseteq map
    BY <1>5 DEF ScanEntities
  <2>4. Upper \subseteq Entity /\ 0 \in 0 .. Last /\ Entity \subseteq 0 .. Last
    <3>1. Upper \subseteq Entity
      BY DEF Upper
    <3>2. 0 \in 0 .. Last /\ Entity \subseteq 0 .. Last
      BY SMT DEF Entity
    <3> QED BY <3>1, <3>2
  <2>5. last' \in 0 .. Last /\ checked' \subseteq Entity
    <3>1. \/ last' = 0 /\ checked' = Upper
          \/ \E e \in Upper : last' = e /\ checked' = {x \in Upper : x <= e}
      BY <1>5 DEF ScanEntities
    <3> QED BY <2>4, <3>1
  <2>6. batch' \in [Worker -> SUBSET Entity]
    <3>1. PICK S \in SUBSET Entity : batch' = batch \/ batch' = [batch EXCEPT ![w] = S]
      BY <1>5, <2>4 DEF ScanEntities
    <3> QED BY <3>1
  <2> QED BY <2>2, <2>3, <2>5, <2>6
<1>6. ASSUME NEW w \in Worker, Post(w) PROVE TypeOK'
  <2>1. at' \in [Worker -> {Idle} \cup [op : Op, pc : Steps]]
    BY <1>6, GotoFacts DEF Post, At, Steps
  <2> QED BY <1>6, <2>1 DEF Post
<1>7. ASSUME NEW w \in Worker, Exec(w) PROVE TypeOK'
  BY <1>7 DEF Exec, At
<1>8. ASSUME NEW w \in Worker, Executed(w) PROVE TypeOK'
  <2>1. at' \in [Worker -> {Idle} \cup [op : Op, pc : Steps]]
    BY <1>8, GotoFacts, LeaveFacts DEF Executed, At, Steps
  <2> QED BY <1>8, <2>1 DEF Executed
<1>9. ASSUME NEW w \in Worker, ReadTick(w) PROVE TypeOK'
  <2>1. PICK pc \in Steps : Goto(w, pc)
    BY <1>9 DEF ReadTick, Steps
  <2>2. at' \in [Worker -> {Idle} \cup [op : Op, pc : Steps]]
    BY <1>9, <2>1, GotoFacts DEF ReadTick, At
  <2> QED BY <1>9, <2>2 DEF ReadTick
<1>10. ASSUME NEW w \in Worker, Delay(w) PROVE TypeOK'
  <2>1. at' \in [Worker -> {Idle} \cup [op : Op, pc : Steps]]
    BY <1>10, LeaveFacts DEF Delay
  <2> QED BY <1>10, <2>1 DEF Delay
<1>11. ASSUME Start \/ Stop PROVE TypeOK'
  BY <1>11 DEF Start, Stop, Reset, Signal, Stopped
<1>12. ASSUME NEW e \in Entity, Push(e) \/ Pop(e) PROVE TypeOK'
  BY <1>12 DEF Push, Pop
<1>13. ASSUME UNCHANGED vars PROVE TypeOK'
  BY <1>13 DEF vars
<1> QED
  BY <1>1, <1>2, <1>3, <1>4, <1>5, <1>6, <1>7, <1>8, <1>9, <1>10, <1>11, <1>12, <1>13
     DEF Next, Work

(* The two operators.                                                      *)
LEMMA OpDistinct == "systems" \in Op /\ "entities" \in Op /\ "none" \notin Op
  BY DEF Op

(* Steps after which the same workers are ahead of the same operators, and *)
(* none has been posted or taken.                                          *)
LEMMA NeutralStep ==
  ASSUME IInv, UNCHANGED done,
         \A o \in Op : st'[o] = "idle" <=> st[o] = "idle",
         \A o \in Op : \A v \in Worker : Ahead(v, o)' <=> Ahead(v, o)
  PROVE  OneAhead' /\ Started'
<1>1. Started'
  BY DEF IInv, Started
<1>2. OneAhead'
  BY DEF IInv, OneAhead
<1> QED BY <1>1, <1>2

(* A worker takes an operator, and nobody else was ahead of it.            *)
LEMMA TakeStep ==
  ASSUME IInv, NEW w \in Worker, NEW p \in Op, UNCHANGED done,
         st[p] # "idle", st'[p] = "idle", \A o \in Op \ {p} : st'[o] = st[o],
         Ahead(w, p)', \A o \in Op \ {p} : ~Ahead(w, o)' /\ ~Ahead(w, o),
         \A o \in Op : \A v \in Worker \ {w} : Ahead(v, o)' <=> Ahead(v, o)
  PROVE  OneAhead' /\ Started'
<1>1. done[p] /\ \A v \in Worker : ~Ahead(v, p)
  BY DEF IInv, OneAhead
<1>2. Started'
  BY <1>1 DEF IInv, Started
<1>3. ASSUME NEW o \in Op
      PROVE  /\ done'[o] => st'[o] # "idle" \/ \E v \in Worker : Ahead(v, o)'
             /\ st'[o] # "idle" => done'[o] /\ \A v \in Worker : ~Ahead(v, o)'
             /\ \A u, v \in Worker : Ahead(u, o)' /\ Ahead(v, o)' => u = v
  <2>1. CASE o = p
    BY <1>1, <2>1
  <2>2. CASE o # p
    BY <2>2 DEF IInv, OneAhead
  <2> QED BY <2>1, <2>2
<1>4. OneAhead'
  BY <1>3 DEF OneAhead
<1> QED BY <1>2, <1>4

(* The worker that is ahead posts its operator.                            *)
LEMMA PostStep ==
  ASSUME IInv, NEW w \in Worker, NEW p \in Op, UNCHANGED done,
         Ahead(w, p), st'[p] # "idle", \A o \in Op \ {p} : st'[o] = st[o],
         \A o \in Op : ~Ahead(w, o)', \A o \in Op \ {p} : ~Ahead(w, o),
         \A o \in Op : \A v \in Worker \ {w} : Ahead(v, o)' <=> Ahead(v, o)
  PROVE  OneAhead' /\ Started'
<1>1. done[p] /\ \A v \in Worker \ {w} : ~Ahead(v, p)
  BY DEF IInv, OneAhead, Started
<1>2. Started'
  BY <1>1 DEF IInv, Started
<1>3. ASSUME NEW o \in Op
      PROVE  /\ done'[o] => st'[o] # "idle" \/ \E v \in Worker : Ahead(v, o)'
             /\ st'[o] # "idle" => done'[o] /\ \A v \in Worker : ~Ahead(v, o)'
             /\ \A u, v \in Worker : Ahead(u, o)' /\ Ahead(v, o)' => u = v
  <2>1. CASE o = p
    BY <1>1, <2>1
  <2>2. CASE o # p
    BY <2>2 DEF IInv, OneAhead
  <2> QED BY <2>1, <2>2
<1>4. OneAhead'
  BY <1>3 DEF OneAhead
<1> QED BY <1>2, <1>4

(* The worker that is ahead ends the loop.                                 *)
LEMMA EndStep ==
  ASSUME IInv, NEW w \in Worker, NEW p \in Op, UNCHANGED st,
         Ahead(w, p), done' = [done EXCEPT ![p] = FALSE],
         \A o \in Op : ~Ahead(w, o)', \A o \in Op \ {p} : ~Ahead(w, o),
         \A o \in Op : \A v \in Worker \ {w} : Ahead(v, o)' <=> Ahead(v, o)
  PROVE  OneAhead' /\ Started'
<1>1. /\ \A v \in Worker \ {w} : ~Ahead(v, p)
      /\ st[p] = "idle" /\ ~done'[p] /\ \A o \in Op \ {p} : done'[o] = done[o]
  BY DEF IInv, OneAhead, TypeOK
<1>2. Started'
  BY <1>1 DEF IInv, Started
<1>3. ASSUME NEW o \in Op
      PROVE  /\ done'[o] => st'[o] # "idle" \/ \E v \in Worker : Ahead(v, o)'
             /\ st'[o] # "idle" => done'[o] /\ \A v \in Worker : ~Ahead(v, o)'
             /\ \A u, v \in Worker : Ahead(u, o)' /\ Ahead(v, o)' => u = v
  <2>1. CASE o = p
    BY <1>1, <2>1
  <2>2. CASE o # p
    BY <1>1, <2>2 DEF IInv, OneAhead
  <2> QED BY <2>1, <2>2
<1>4. OneAhead'
  BY <1>3 DEF OneAhead
<1> QED BY <1>2, <1>4

(* A worker that moves within its callback, short of where it no longer is *)
(* ahead, is ahead of what it was.                                         *)
LEMMA MoveFacts ==
  ASSUME TypeOK, NEW w \in Worker, at[w].op # "none", NEW pc \in Steps, Goto(w, pc)
  PROVE  /\ \A o \in Op : Ahead(w, o)' <=> (o = at[w].op /\ (o = "entities" => pc # "exec"))
         /\ \A o \in Op : \A v \in Worker \ {w} : Ahead(v, o)' <=> Ahead(v, o)
<1>1. /\ at'[w].op = at[w].op /\ at'[w].pc = pc
      /\ \A v \in Worker \ {w} : at'[v] = at[v]
  BY GotoFacts
<1> QED BY <1>1 DEF Ahead, Busy

LEMMA GoneFacts ==
  ASSUME TypeOK, NEW w \in Worker, Leave(w)
  PROVE  /\ \A o \in Op : ~Ahead(w, o)'
         /\ \A o \in Op : \A v \in Worker \ {w} : Ahead(v, o)' <=> Ahead(v, o)
  BY LeaveFacts, OpDistinct DEF Ahead, Busy, Idle

LEMMA PlacesStep ==
  ASSUME TypeOK, Places, NEW w \in Worker, at[w].op # "none", NEW pc \in Steps, Goto(w, pc),
         pc = "post" => at[w].op = "entities", pc = "check" => at[w].op = "systems"
  PROVE  Places'
<1>1. /\ at'[w].op = at[w].op /\ at'[w].pc = pc
      /\ \A v \in Worker \ {w} : at'[v] = at[v]
  BY GotoFacts
<1> QED BY <1>1 DEF Places

(* Each step keeps the places, and the loops one ahead.                    *)
LEMMA WorkStep ==
  ASSUME IInv, NEW w \in Worker, Work(w)
  PROVE  OneAhead' /\ Started' /\ Places'
<1>0. TypeOK
  BY DEF IInv
<1>1. ASSUME NEW p \in Op, Take(w, p) PROVE OneAhead' /\ Started' /\ Places'
  <2>1. at' = [at EXCEPT ![w] = [op |-> p, pc |-> "enter"]] /\ at[w] = Idle
    BY <1>1 DEF Take
  <2>2. /\ at'[w] = [op |-> p, pc |-> "enter"] /\ \A v \in Worker \ {w} : at'[v] = at[v]
        /\ st[p] = "ready" /\ st'[p] = "idle" /\ \A o \in Op \ {p} : st'[o] = st[o]
        /\ UNCHANGED done
    BY <1>0, <1>1, <2>1 DEF TypeOK, Take
  <2>3. Places'
    BY <2>2 DEF Places, IInv
  <2>4. /\ Ahead(w, p)' /\ \A o \in Op : ~Ahead(w, o)
        /\ \A o \in Op \ {p} : ~Ahead(w, o)'
        /\ \A o \in Op : \A v \in Worker \ {w} : Ahead(v, o)' <=> Ahead(v, o)
    BY <2>1, <2>2, OpDistinct DEF Ahead, Busy, Idle
  <2> QED BY <2>2, <2>3, <2>4, TakeStep
<1>2. ASSUME Enter(w) PROVE OneAhead' /\ Started' /\ Places'
  <2>1. at[w].op \in Op /\ at[w].pc = "enter" /\ at[w].op # "none"
    BY <1>0, <1>2, PlaceFacts DEF Enter, At
  <2>2. CASE tick[at[w].op]
    <3> DEFINE pc == IF at[w].op = "systems" THEN "check" ELSE "scan"
    <3>1. Goto(w, pc) /\ pc \in Steps /\ UNCHANGED <<st, done>>
      BY <1>2, <2>2 DEF Enter, Steps
    <3>2. Places'
      BY <1>0, <2>1, <3>1, PlacesStep DEF IInv
    <3>3. \A o \in Op : \A v \in Worker : Ahead(v, o)' <=> Ahead(v, o)
      BY <1>0, <2>1, <3>1, MoveFacts DEF Ahead, Busy
    <3> QED BY <3>1, <3>2, <3>3, NeutralStep
  <2>3. CASE ~tick[at[w].op]
    <3>1. Leave(w) /\ done' = [done EXCEPT ![at[w].op] = FALSE] /\ UNCHANGED st
      BY <1>2, <2>3 DEF Enter
    <3>2. Places'
      BY <1>0, <3>1, LeaveFacts DEF Places, IInv, Idle
    <3>3. Ahead(w, at[w].op) /\ \A o \in Op \ {at[w].op} : ~Ahead(w, o)
      BY <2>1 DEF Ahead, Busy
    <3> QED BY <1>0, <2>1, <3>1, <3>2, <3>3, GoneFacts, EndStep
  <2> QED BY <2>2, <2>3
<1>3. ASSUME CheckSystems(w) \/ ScanEntities(w) \/ ReadTick(w)
      PROVE  OneAhead' /\ Started' /\ Places'
  <2>1. at[w].op # "none" /\ at[w].pc \in {"check", "scan", "delay"} /\ UNCHANGED <<st, done>>
    BY <1>3 DEF CheckSystems, ScanEntities, ReadTick, At
  <2>2. PICK pc \in {"spin", "scan", "exec", "post", "delay", "later", "sooner"} :
          /\ Goto(w, pc)
          /\ pc = "exec" => at[w].op # "entities"
          /\ pc = "post" => at[w].op = "entities"
    <3>1. CASE CheckSystems(w)
      <4>1. at[w].op = "systems"
        BY <3>1 DEF CheckSystems, At, IInv, Places
      <4> QED BY <3>1, <4>1 DEF CheckSystems
    <3>2. CASE ScanEntities(w)
      <4>1. at[w].op \in Op
        BY <1>0, <2>1, PlaceFacts
      <4>2. Goto(w, AfterScan(w, TRUE)) \/ Goto(w, AfterScan(w, FALSE))
        BY <3>2 DEF ScanEntities
      <4> QED BY <4>1, <4>2 DEF AfterScan, Op
    <3>3. CASE ReadTick(w)
      BY <3>3 DEF ReadTick
    <3> QED BY <1>3, <3>1, <3>2, <3>3
  <2>3. pc \in Steps
    BY DEF Steps
  <2>4. Places'
    BY <1>0, <2>1, <2>2, <2>3, PlacesStep DEF IInv
  <2>5. \A o \in Op : \A v \in Worker : Ahead(v, o)' <=> Ahead(v, o)
    BY <1>0, <2>1, <2>2, <2>3, MoveFacts DEF Ahead, Busy
  <2> QED BY <2>1, <2>4, <2>5, NeutralStep
<1>4. ASSUME Post(w) PROVE OneAhead' /\ Started' /\ Places'
  <2>1. /\ at[w].op = "entities" /\ at[w].pc = "post" /\ Goto(w, "exec") /\ UNCHANGED done
        /\ st' = [st EXCEPT !["entities"] = "ready"]
    BY <1>4 DEF Post, At, IInv, Places
  <2>2. "exec" \in Steps
    BY DEF Steps
  <2>3. Places'
    BY <1>0, <2>1, <2>2, PlacesStep DEF IInv
  <2>4. /\ Ahead(w, "entities") /\ \A o \in Op : ~Ahead(w, o)'
        /\ \A o \in Op \ {"entities"} : ~Ahead(w, o)
        /\ \A o \in Op : \A v \in Worker \ {w} : Ahead(v, o)' <=> Ahead(v, o)
    BY <1>0, <2>1, <2>2, MoveFacts DEF Ahead, Busy
  <2>5. st'["entities"] = "ready" /\ \A o \in Op \ {"entities"} : st'[o] = st[o]
    BY <1>0, <2>1, OpDistinct DEF TypeOK
  <2> QED BY <2>1, <2>3, <2>4, <2>5, OpDistinct, PostStep
<1>5. ASSUME Exec(w) PROVE OneAhead' /\ Started' /\ Places'
  <2>1. UNCHANGED <<at, st, done>>
    BY <1>5 DEF Exec
  <2>2. Places'
    BY <2>1 DEF Places, IInv
  <2>3. \A o \in Op : \A v \in Worker : Ahead(v, o)' <=> Ahead(v, o)
    BY <2>1 DEF Ahead, Busy
  <2> QED BY <2>1, <2>2, <2>3, NeutralStep
<1>6. ASSUME Executed(w) PROVE OneAhead' /\ Started' /\ Places'
  <2>1. at[w].op \in Op /\ at[w].pc = "exec" /\ at[w].op # "none" /\ UNCHANGED <<st, done>>
    BY <1>0, <1>6, PlaceFacts DEF Executed, At
  <2>2. CASE at[w].op = "systems"
    <3>1. Goto(w, "delay") /\ "delay" \in Steps
      BY <1>6, <2>2 DEF Executed, Steps
    <3>2. Places'
      BY <1>0, <2>1, <3>1, PlacesStep DEF IInv
    <3>3. \A o \in Op : \A v \in Worker : Ahead(v, o)' <=> Ahead(v, o)
      BY <1>0, <2>1, <2>2, <3>1, MoveFacts DEF Ahead, Busy
    <3> QED BY <2>1, <3>2, <3>3, NeutralStep
  <2>3. CASE at[w].op # "systems"
    <3>1. Leave(w)
      BY <1>6, <2>3 DEF Executed
    <3>2. Places'
      BY <1>0, <3>1, LeaveFacts DEF Places, IInv, Idle
    <3>3. \A o \in Op : ~Ahead(w, o)
      BY <2>1, <2>3 DEF Ahead, Busy, Op
    <3>4. \A o \in Op : \A v \in Worker : Ahead(v, o)' <=> Ahead(v, o)
      BY <1>0, <3>1, <3>3, GoneFacts
    <3> QED BY <2>1, <3>2, <3>4, NeutralStep
  <2> QED BY <2>2, <2>3
<1>7. ASSUME Delay(w) PROVE OneAhead' /\ Started' /\ Places'
  <2>1. /\ at[w].op \in Op /\ at[w].pc \in {"later", "sooner"} /\ Leave(w) /\ UNCHANGED done
        /\ st' = [st EXCEPT ![at[w].op] = IF At(w, "later") THEN "waiting" ELSE "ready"]
    BY <1>0, <1>7, PlaceFacts DEF Delay, At
  <2>2. Places'
    BY <1>0, <2>1, LeaveFacts DEF Places, IInv, Idle
  <2>3. Ahead(w, at[w].op) /\ \A o \in Op \ {at[w].op} : ~Ahead(w, o)
    BY <2>1 DEF Ahead, Busy
  <2>4. st'[at[w].op] # "idle" /\ \A o \in Op \ {at[w].op} : st'[o] = st[o]
    BY <1>0, <2>1 DEF TypeOK
  <2> QED BY <1>0, <2>1, <2>2, <2>3, <2>4, GoneFacts, PostStep
<1> QED BY <1>1, <1>2, <1>3, <1>4, <1>5, <1>6, <1>7 DEF Work

(* The program's own steps: a loop is started once, and stopped only when  *)
(* both callbacks have seen the tick reset.                                *)
LEMMA MainStep ==
  ASSUME IInv, Start \/ Stop \/ \E o \in Op : Expire(o)
  PROVE  OneAhead' /\ Started' /\ Places' /\ Ends'
<1>1. UNCHANGED at
  BY DEF Start, Stop, Reset, Signal, Stopped, Expire
<1>2. Places' /\ \A o \in Op : \A v \in Worker : Ahead(v, o)' <=> Ahead(v, o)
  BY <1>1 DEF Places, IInv, Ahead, Busy
<1>3. CASE Start
  <2>1. \A o \in Op : done'[o] /\ st'[o] = "ready" /\ ~done[o]
    BY <1>3 DEF Start, IInv, Ends
  <2>2. \A o \in Op : \A v \in Worker : ~Ahead(v, o)
    BY <2>1 DEF IInv, Started
  <2>3. OneAhead' /\ Started'
    BY <1>2, <2>1, <2>2 DEF OneAhead, Started
  <2>4. Ends'
    BY <1>3 DEF Start, Ends
  <2> QED BY <1>2, <2>3, <2>4
<1>4. CASE Stop \/ \E o \in Op : Expire(o)
  <2>1. UNCHANGED done
    BY <1>4 DEF Stop, Reset, Signal, Stopped, Expire
  <2>2. \A o \in Op : st'[o] = "idle" <=> st[o] = "idle"
    <3>1. CASE UNCHANGED st
      BY <3>1
    <3>2. ASSUME NEW p \in Op, st[p] = "waiting", st' = [st EXCEPT ![p] = "ready"]
          PROVE  \A o \in Op : st'[o] = "idle" <=> st[o] = "idle"
      BY <3>2 DEF IInv, TypeOK
    <3>3. ASSUME NEW p \in Op, st' = [st EXCEPT ![p] = IF @ = "waiting" THEN "ready" ELSE @]
          PROVE  \A o \in Op : st'[o] = "idle" <=> st[o] = "idle"
      BY <3>3 DEF IInv, TypeOK
    <3>4. CASE \E o \in Op : Expire(o)
      BY <3>2, <3>4 DEF Expire
    <3>5. CASE Stop
      <4>1. \/ UNCHANGED st
            \/ \E p \in Op : st' = [st EXCEPT ![p] = IF @ = "waiting" THEN "ready" ELSE @]
        BY <3>5, OpDistinct DEF Stop, Reset, Signal, Stopped
      <4> QED BY <3>1, <3>3, <4>1
    <3> QED BY <1>4, <3>4, <3>5
  <2>3. Ends'
    <3>1. CASE \E o \in Op : Expire(o)
      <4>1. UNCHANGED main
        BY <3>1 DEF Expire
      <4>2. \A o \in Op : st[o] = "idle" => st'[o] = "idle"
        BY <2>2
      <4> QED BY <2>1, <4>1, <4>2 DEF IInv, Ends
    <3>2. CASE Stopped
      BY <2>1, <3>2 DEF Stopped, Ends
    <3>3. CASE Stop /\ ~Stopped
      BY <3>3 DEF Stop, Reset, Signal, Ends
    <3> QED BY <1>4, <3>1, <3>2, <3>3
  <2> QED BY <1>2, <2>1, <2>2, <2>3, NeutralStep
<1> QED BY <1>3, <1>4

LEMMA InvStep == IInv /\ [Next]_vars => IInv'
<1> SUFFICES ASSUME IInv, [Next]_vars PROVE IInv'
  OBVIOUS
<1>1. TypeOK'
  BY TypeStep DEF IInv
<1>2. ASSUME NEW w \in Worker, Work(w) PROVE OneAhead' /\ Started' /\ Places' /\ Ends'
  <2>1. UNCHANGED main
    BY <1>2 DEF Work, Take, Enter, CheckSystems, ScanEntities, Post, Exec, Executed, ReadTick, Delay
  <2>2. OneAhead' /\ Started' /\ Places'
    BY <1>2, WorkStep
  <2>3. \A o \in Op : ~done[o] => ~done'[o]
    <3>1. UNCHANGED done \/ \E p \in Op : done' = [done EXCEPT ![p] = FALSE]
      <4>1. CASE Enter(w)
        BY <1>2, <4>1, PlaceFacts DEF Enter, At, IInv
      <4>2. CASE ~Enter(w)
        BY <1>2, <4>2 DEF Work, Take, CheckSystems, ScanEntities, Post, Exec, Executed, ReadTick, Delay
      <4> QED BY <4>1, <4>2
    <3> QED BY <3>1 DEF IInv, TypeOK
  <2>4. main = "new" => \A o \in Op : st'[o] = "idle"
    <3>1. ASSUME main = "new" PROVE \A o \in Op : ~done[o] /\ st[o] = "idle"
      BY <3>1 DEF IInv, Ends
    <3>2. ASSUME main = "new", NEW o \in Op PROVE st'[o] = "idle"
      BY <2>2, <2>3, <3>1, <3>2 DEF OneAhead
    <3> QED BY <3>2
  <2>5. Ends'
    BY <2>1, <2>3, <2>4 DEF IInv, Ends
  <2> QED BY <2>2, <2>5
<1>3. ASSUME UNCHANGED <<st, done, at, main>> PROVE OneAhead' /\ Started' /\ Places' /\ Ends'
  BY <1>3 DEF IInv, OneAhead, Started, Places, Ends, Ahead, Busy
<1>4. CASE Start \/ Stop \/ \E o \in Op : Expire(o)
  BY <1>1, <1>4, MainStep DEF IInv
<1>5. CASE \E e \in Entity : Push(e) \/ Pop(e)
  BY <1>1, <1>3, <1>5 DEF Push, Pop, IInv
<1>6. CASE UNCHANGED vars
  BY <1>1, <1>3, <1>6 DEF vars, IInv
<1> QED BY <1>1, <1>2, <1>4, <1>5, <1>6 DEF Next, IInv

LEMMA Consequences == IInv => SystemsAlone /\ NothingChecked
<1> SUFFICES ASSUME IInv PROVE SystemsAlone /\ NothingChecked
  OBVIOUS
<1>1. SystemsAlone
  BY OpDistinct DEF IInv, OneAhead, SystemsAlone, Ahead
<1>2. ASSUME main = "stopped"
      PROVE  /\ \A o \in Op : st[o] = "idle"
             /\ \A w \in Worker : at[w] \in {Idle, [op |-> "entities", pc |-> "exec"]}
  <2>1. \A o \in Op : st[o] = "idle" /\ \A w \in Worker : ~Ahead(w, o)
    BY <1>2 DEF IInv, Ends, OneAhead, Started
  <2>2. ASSUME NEW w \in Worker, at[w] # Idle
        PROVE  at[w] = [op |-> "entities", pc |-> "exec"]
    <3>1. at[w] \in [op : Op, pc : Steps]
      BY <2>2 DEF IInv, TypeOK
    <3>2. at[w].op = "entities" /\ at[w].pc = "exec"
      BY <2>1, <3>1 DEF Ahead, Busy
    <3> QED BY <3>1, <3>2
  <2> QED BY <2>1, <2>2
<1> QED BY <1>1, <1>2 DEF NothingChecked

(* The invariant holds in every state.                                     *)
LEMMA Invariant == Spec => []IInv
  BY InitInv, InvStep, PTL DEF Spec

(* Every variable keeps its type.                                          *)
THEOREM TypeCorrect == Spec => []TypeOK
<1>1. IInv => TypeOK
  BY DEF IInv
<1> QED BY <1>1, Invariant, PTL

(* A started check loop is never lost and never doubled: SM_start_checkall *)
(* to SM_stop_checkall, in any number of threads.                          *)
THEOREM LoopsLive == Spec => []OneAhead
<1>1. IInv => OneAhead
  BY DEF IInv
<1> QED BY <1>1, Invariant, PTL

(* SM_check_allsys_asop is run by one thread at a time.                    *)
THEOREM OneSystemsCallback == Spec => []SystemsAlone
  BY Consequences, Invariant, PTL

(* After SM_stop_checkall nothing is checked any more.                     *)
THEOREM StopIsQuiet == Spec => []NothingChecked
  BY Consequences, Invariant, PTL
=============================================================================
