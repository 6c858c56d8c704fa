------------------------ MODULE ClientSystem_proofs ------------------------
(***************************************************************************)
(* For any number of threads, under the assumption Prompt: one run of a    *)
(* client at a time, aborts that stay in their session, sessions that are  *)
(* over at close, a busy count and references that balance, and the life   *)
(* that ClientLife promises.                                               *)
(***************************************************************************)
EXTENDS ClientSystem, FiniteSetTheorems, TLAPS

CountedPlaces == Runs \cup Aborts \cup {"leave"}
HolderPlaces == CountedPlaces \cup {"release"}
AllPlaces == HolderPlaces \cup {"idle", "check", "decide"}
Number(places) == Cardinality({t \in Thread : pc[t] \in places})

(* A run in its last step has only its mark to take back: a check may have *)
(* granted the next one.                                                   *)
Active == Runs \ {"end"}

(* The busy count: executions, the callback that has yet to complete, the  *)
(* session, and what was counted for a Result that was refused.            *)
BusyBalance ==
  busy = Number(CountedPlaces) + (IF pending # "none" THEN 1 ELSE 0)
           + (IF session # "off" THEN 1 ELSE 0) + lost
HeldBalance ==
  refs = Number(HolderPlaces) + (IF pending # "none" THEN 1 ELSE 0)
           + (IF listed THEN 1 ELSE 0) + lost

OneRunner ==
  /\ \A t, u \in Thread : pc[t] \in Active /\ pc[u] \in Active => t = u
  /\ pending # "none" => \A t \in Thread : pc[t] \notin Active

(* What a run, or a callback that has yet to complete, says of the client; *)
(* of the runs only that of a heart may meet the end of another.           *)
Places ==
  /\ \A t \in Thread :
       /\ pc[t] = "run" => /\ status # "Opening"
                           /\ status \in {"Invalid", "Opened"} => heart = "Checking"
                           /\ status = "Closing" => session = "off"
                           /\ status = "Closed" => runnable /\ \A u \in Thread : pc[u] # "end"
       /\ pc[t] = "open" => status = "Opening" /\ heart = "Checking" /\ session = "off"
       /\ pc[t] = "opened" => status = "Opening" /\ heart = "Checking"
       /\ pc[t] = "settle" => status = "Opened" /\ heart = "Checking"
       /\ pc[t] \in {"heart", "beat"} => status = "Opened" /\ heart = "CheckDone"
       /\ pc[t] \in {"fail", "failing"} => status \in {"Opening", "Opened"} /\ heart # "None"
       /\ pc[t] = "failing" => main_abort
       /\ pc[t] = "closing" => status = "Closing" /\ main_abort
       /\ pc[t] \in {"close", "closed"} => status = "Closed"
  /\ pending = "open" => status = "Opening" /\ heart = "Checking" /\ session = "off"
  /\ pending = "heart" => status = "Opened" /\ heart = "CheckDone"
  /\ pending = "close" => status = "Closed"

(* An opening client is busy with it.                                      *)
Opening ==
  status = "Opening" =>
    \/ \E t \in Thread : pc[t] \in {"open", "opened", "fail", "failing"}
    \/ pending = "open"

(* One check at a time, of a listed client, which meets no abort when its  *)
(* time has passed; and what the status it has read is still worth.        *)
InCall(c) == pending = c \/ \E t \in Thread : pc[t] = c
Checks ==
  /\ \A t, u \in Thread : pc[t] \in {"check", "decide"} /\ pc[u] \in {"check", "decide"} => t = u
  /\ \A t \in Thread : pc[t] \in {"check", "decide"} =>
       listed /\ (due => \A u \in Thread : pc[u] \notin Aborts)
  /\ \A t \in Thread : pc[t] = "decide" =>
       /\ seen = "Invalid" => status = "Invalid" \/ InCall("open")
       /\ seen # "Invalid" => status # "Invalid"
       /\ seen = "Opened" /\ status # "Opened" => main_abort
       /\ seen = "Closing" => status \in {"Closing", "Closed"}
       /\ seen = "Closed" => status = "Closed"
       /\ seen # "Closed" /\ status = "Closed" => InCall("close")

Aborting ==
  /\ \A t \in Thread : pc[t] \in Aborts => ~aged /\ status # "Invalid"
  /\ \A t, u \in Thread : pc[t] \in Aborts /\ pc[u] \in Aborts => t = u

IInv ==
  /\ TypeOK /\ OneRunner /\ Places /\ Opening /\ Checks /\ Aborting
  /\ SessionOverAtClose /\ BusyBalance /\ HeldBalance

----------------------------------------------------------------------------
(* Counting.                                                               *)

LEMMA PlaceSets ==
  /\ Runs = {"open", "heart", "close", "fail", "failing", "closing",
             "run", "opened", "settle", "beat", "closed", "end"}
  /\ Aborts = {"abort", "aborting"}
  /\ CountedPlaces = Runs \cup {"abort", "aborting", "leave"}
  /\ HolderPlaces = Runs \cup {"abort", "aborting", "leave", "release"}
  BY DEF Active, Runs, Callbacks, Failures, Aborts, CountedPlaces, HolderPlaces

LEMMA FinitePlaces ==
  ASSUME NEW places
  PROVE  /\ IsFiniteSet({t \in Thread : pc[t] \in places})
         /\ Number(places) \in Nat
  BY ClientAssumption, FS_Subset, FS_CardinalityType DEF Number

(* A thread that moves is counted where it is.                             *)
LEMMA Recount ==
  ASSUME NEW places, NEW t \in Thread, NEW p, pc \in [Thread -> AllPlaces],
         pc' = [pc EXCEPT ![t] = p]
  PROVE  /\ Number(places)' = Number(places) + (IF p \in places THEN 1 ELSE 0)
                                - (IF pc[t] \in places THEN 1 ELSE 0)
         /\ Number(places)' \in Nat
<1> DEFINE S == {u \in Thread : pc[u] \in places}
           R == {u \in Thread : pc'[u] \in places}
<1>1. IsFiniteSet(S) /\ Number(places) = Cardinality(S) /\ Number(places)' = Cardinality(R)
      /\ Cardinality(S) \in Nat
  BY FinitePlaces DEF Number
<1>2. pc'[t] = p /\ \A u \in Thread \ {t} : pc'[u] = pc[u]
  OBVIOUS
<1>3. Cardinality(R) \in Nat
  <2>1. IsFiniteSet(R)
    BY ClientAssumption, FS_Subset
  <2> QED BY <2>1, FS_CardinalityType
<1>4. CASE p \in places /\ pc[t] \in places
  <2>1. R = S
    BY <1>2, <1>4
  <2> QED BY <1>1, <1>4, <2>1
<1>5. CASE p \notin places /\ pc[t] \notin places
  <2>1. R = S
    BY <1>2, <1>5
  <2> QED BY <1>1, <1>5, <2>1
<1>6. CASE p \in places /\ pc[t] \notin places
  <2>1. R = S \cup {t} /\ t \notin S
    BY <1>2, <1>6
  <2>2. Cardinality(R) = Cardinality(S) + 1
    BY <1>1, <2>1, FS_AddElement
  <2> QED BY <1>1, <1>3, <1>6, <2>2
<1>7. CASE p \notin places /\ pc[t] \in places
  <2>1. R = S \ {t} /\ t \in S
    BY <1>2, <1>7
  <2>2. Cardinality(R) = Cardinality(S) - 1
    BY <1>1, <2>1, FS_RemoveElement
  <2> QED BY <1>1, <1>3, <1>7, <2>2
<1> QED BY <1>4, <1>5, <1>6, <1>7

LEMMA NoneThere ==
  ASSUME NEW places
  PROVE  Number(places) = 0 <=> \A t \in Thread : pc[t] \notin places
<1>1. IsFiniteSet({t \in Thread : pc[t] \in places})
  BY FinitePlaces
<1>2. Number(places) = 0 <=> {t \in Thread : pc[t] \in places} = {}
  BY <1>1, FS_EmptySet DEF Number
<1> QED BY <1>2

(* The two balances after a step of one thread.                            *)
LEMMA Moved ==
  ASSUME TypeOK, NEW t \in Thread, NEW p \in AllPlaces, Goto(t, p)
  PROVE  /\ pc' \in [Thread -> AllPlaces] /\ pc'[t] = p
         /\ \A u \in Thread \ {t} : pc'[u] = pc[u]
         /\ \A u \in Thread : pc[u] \in AllPlaces
         /\ Number(CountedPlaces) \in Nat /\ Number(HolderPlaces) \in Nat
         /\ Number(CountedPlaces)' \in Nat /\ Number(HolderPlaces)' \in Nat
         /\ Number(CountedPlaces)' = Number(CountedPlaces)
              + (IF p \in CountedPlaces THEN 1 ELSE 0) - (IF pc[t] \in CountedPlaces THEN 1 ELSE 0)
         /\ Number(HolderPlaces)' = Number(HolderPlaces)
              + (IF p \in HolderPlaces THEN 1 ELSE 0) - (IF pc[t] \in HolderPlaces THEN 1 ELSE 0)
<1>1. pc \in [Thread -> AllPlaces]
  BY DEF TypeOK, AllPlaces, HolderPlaces, CountedPlaces
<1>2. pc' = [pc EXCEPT ![t] = p]
  BY DEF Goto
<1>3. Number(CountedPlaces) \in Nat /\ Number(HolderPlaces) \in Nat
  BY FinitePlaces
<1>4. /\ Number(CountedPlaces)' = Number(CountedPlaces)
           + (IF p \in CountedPlaces THEN 1 ELSE 0) - (IF pc[t] \in CountedPlaces THEN 1 ELSE 0)
      /\ Number(CountedPlaces)' \in Nat
  BY <1>1, <1>2, Recount
<1>5. /\ Number(HolderPlaces)' = Number(HolderPlaces)
           + (IF p \in HolderPlaces THEN 1 ELSE 0) - (IF pc[t] \in HolderPlaces THEN 1 ELSE 0)
      /\ Number(HolderPlaces)' \in Nat
  BY <1>1, <1>2, Recount
<1>6. /\ pc' \in [Thread -> AllPlaces] /\ pc'[t] = p
      /\ \A u \in Thread \ {t} : pc'[u] = pc[u]
  BY <1>1, <1>2
<1> QED BY <1>1, <1>3, <1>4, <1>5, <1>6

LEMMA NoneBusy ==
  ASSUME IInv, busy = 0
  PROVE  /\ \A t \in Thread : pc[t] \notin CountedPlaces
         /\ pending = "none" /\ session = "off"
<1>1. Number(CountedPlaces) \in Nat
  BY FinitePlaces
<1>2. Number(CountedPlaces) = 0 /\ pending = "none" /\ session = "off"
  BY <1>1 DEF IInv, TypeOK, BusyBalance
<1> QED BY <1>2, NoneThere

LEMMA OnlyBusy ==
  ASSUME IInv, busy = 1, NEW t \in Thread, pc[t] \in CountedPlaces
  PROVE  session = "off"
<1>1. Number(CountedPlaces) # 0
  BY NoneThere
<1>2. Number(CountedPlaces) \in Nat
  BY FinitePlaces
<1> QED BY <1>1, <1>2 DEF IInv, TypeOK, BusyBalance

(* A run moves on, and still is one.                                       *)
LEMMA RunMoves ==
  ASSUME IInv, NEW t \in Thread, NEW p \in Runs, pc[t] \in Active, Goto(t, p),
         UNCHANGED <<busy, refs, pending, session, listed, lost>>
  PROVE  /\ OneRunner' /\ BusyBalance' /\ HeldBalance'
         /\ pc' \in [Thread -> AllPlaces] /\ pc'[t] = p
         /\ \A u \in Thread \ {t} : pc'[u] = pc[u] /\ pc[u] \notin Active
         /\ pending = "none"
<1>1. p \in CountedPlaces /\ p \in HolderPlaces /\ p \in AllPlaces
      /\ pc[t] \in CountedPlaces /\ pc[t] \in HolderPlaces
  BY DEF Active, CountedPlaces, HolderPlaces, AllPlaces
<1>2. /\ pc' \in [Thread -> AllPlaces] /\ pc'[t] = p
      /\ \A u \in Thread \ {t} : pc'[u] = pc[u]
      /\ Number(CountedPlaces)' = Number(CountedPlaces)
      /\ Number(HolderPlaces)' = Number(HolderPlaces)
  BY <1>1, Moved DEF IInv
<1>3. /\ pending = "none"
      /\ \A u \in Thread \ {t} : pc[u] \notin Active
  BY DEF IInv, OneRunner
<1>4. OneRunner'
  BY <1>2, <1>3 DEF OneRunner
<1>5. BusyBalance'
  BY <1>2 DEF BusyBalance, IInv
<1>6. HeldBalance'
  BY <1>2 DEF HeldBalance, IInv
<1> QED BY <1>2, <1>3, <1>4, <1>5, <1>6

----------------------------------------------------------------------------
(* The steps of a run, from one of its places to another.                  *)

LEMMA OpenedStep ==
  ASSUME IInv, NEW t \in Thread, Opened(t)
  PROVE  IInv'
<1>1. /\ pc[t] = "opened" /\ Goto(t, "settle")
      /\ status' = "Opened" /\ aged' = FALSE
      /\ UNCHANGED <<busy, refs, pending, session, listed, runnable, seen, due, lost, aborts, main_abort, heart>>
      /\ shut' \in BOOLEAN /\ opened' \in BOOLEAN
  BY DEF Opened, At, client, check, outside, IInv, TypeOK
<1>2. /\ OneRunner' /\ BusyBalance' /\ HeldBalance'
      /\ pc' \in [Thread -> AllPlaces] /\ pc'[t] = "settle"
      /\ \A u \in Thread \ {t} : pc'[u] = pc[u] /\ pc[u] \notin Active
      /\ pending = "none"
  BY <1>1, RunMoves DEF Active, Runs, Callbacks, Failures
<1>3. TypeOK'
  BY <1>1, <1>2 DEF IInv, TypeOK, Statuses, AllPlaces, HolderPlaces, CountedPlaces
<1>4. Places'
  BY <1>1, <1>2 DEF IInv, Places, Active, Runs, Callbacks, Failures
<1>5. Opening'
  BY <1>1, <1>2 DEF IInv, Opening, Places
<1>6. Checks'
  BY <1>1, <1>2 DEF IInv, Checks, InCall, Places, Active, Runs, Callbacks, Failures, Aborts
<1>7. Aborting'
  BY <1>1, <1>2 DEF IInv, Aborting, Places, Aborts
<1>8. SessionOverAtClose'
  BY <1>1, <1>2 DEF IInv, SessionOverAtClose, Places
<1> QED BY <1>2, <1>3, <1>4, <1>5, <1>6, <1>7, <1>8 DEF IInv

LEMMA BeatStep ==
  ASSUME IInv, NEW t \in Thread, Beat(t)
  PROVE  IInv'
<1>1. /\ pc[t] = "beat" /\ Goto(t, "end")
      /\ heart' = "None" /\ aged' = FALSE
      /\ UNCHANGED <<busy, refs, pending, session, listed, runnable, seen, due, lost, aborts, status, main_abort>>
      /\ shut' \in BOOLEAN /\ opened' \in BOOLEAN
  BY DEF Beat, At, client, check, outside, IInv, TypeOK
<1>2. /\ OneRunner' /\ BusyBalance' /\ HeldBalance'
      /\ pc' \in [Thread -> AllPlaces] /\ pc'[t] = "end"
      /\ \A u \in Thread \ {t} : pc'[u] = pc[u] /\ pc[u] \notin Active
      /\ pending = "none"
  BY <1>1, RunMoves DEF Active, Runs, Callbacks, Failures
<1>3. TypeOK'
  BY <1>1, <1>2 DEF IInv, TypeOK, Statuses, AllPlaces, HolderPlaces, CountedPlaces
<1>4. Places'
  BY <1>1, <1>2 DEF IInv, Places, Active, Runs, Callbacks, Failures
<1>5. Opening'
  BY <1>1, <1>2 DEF IInv, Opening, Places
<1>6. Checks'
  BY <1>1, <1>2 DEF IInv, Checks, InCall, Places, Active, Runs, Callbacks, Failures, Aborts
<1>7. Aborting'
  BY <1>1, <1>2 DEF IInv, Aborting, Places, Aborts
<1>8. SessionOverAtClose'
  BY <1>1, <1>2 DEF IInv, SessionOverAtClose, Places
<1> QED BY <1>2, <1>3, <1>4, <1>5, <1>6, <1>7, <1>8 DEF IInv

LEMMA FailStep ==
  ASSUME IInv, NEW t \in Thread, Fail(t)
  PROVE  IInv'
<1>1. /\ pc[t] = "fail" /\ Goto(t, "failing")
      /\ main_abort' = TRUE
      /\ UNCHANGED <<busy, refs, pending, session, listed, runnable, seen, due, lost, aborts, status, heart, aged>>
      /\ shut' \in BOOLEAN /\ opened' \in BOOLEAN
  BY DEF Fail, At, client, check, outside, IInv, TypeOK
<1>2. /\ OneRunner' /\ BusyBalance' /\ HeldBalance'
      /\ pc' \in [Thread -> AllPlaces] /\ pc'[t] = "failing"
      /\ \A u \in Thread \ {t} : pc'[u] = pc[u] /\ pc[u] \notin Active
      /\ pending = "none"
  BY <1>1, RunMoves DEF Active, Runs, Callbacks, Failures
<1>3. TypeOK'
  BY <1>1, <1>2 DEF IInv, TypeOK, Statuses, AllPlaces, HolderPlaces, CountedPlaces
<1>4. Places'
  BY <1>1, <1>2 DEF IInv, Places, Active, Runs, Callbacks, Failures
<1>5. Opening'
  BY <1>1, <1>2 DEF IInv, Opening, Places
<1>6. Checks'
  BY <1>1, <1>2 DEF IInv, Checks, InCall, Places, Active, Runs, Callbacks, Failures, Aborts
<1>7. Aborting'
  BY <1>1, <1>2 DEF IInv, Aborting, Places, Aborts
<1>8. SessionOverAtClose'
  BY <1>1, <1>2 DEF IInv, SessionOverAtClose, Places
<1> QED BY <1>2, <1>3, <1>4, <1>5, <1>6, <1>7, <1>8 DEF IInv

LEMMA FailingStep ==
  ASSUME IInv, NEW t \in Thread, Failing(t)
  PROVE  IInv'
<1>1. /\ pc[t] = "failing" /\ Goto(t, "closing")
      /\ status' = "Closing"
      /\ UNCHANGED <<busy, refs, pending, session, listed, runnable, seen, due, lost, aborts, main_abort, heart, aged>>
      /\ shut' \in BOOLEAN /\ opened' \in BOOLEAN
  BY DEF Failing, At, client, check, outside, IInv, TypeOK
<1>2. /\ OneRunner' /\ BusyBalance' /\ HeldBalance'
      /\ pc' \in [Thread -> AllPlaces] /\ pc'[t] = "closing"
      /\ \A u \in Thread \ {t} : pc'[u] = pc[u] /\ pc[u] \notin Active
      /\ pending = "none"
  BY <1>1, RunMoves DEF Active, Runs, Callbacks, Failures
<1>3. TypeOK'
  BY <1>1, <1>2 DEF IInv, TypeOK, Statuses, AllPlaces, HolderPlaces, CountedPlaces
<1>4. Places'
  BY <1>1, <1>2 DEF IInv, Places, Active, Runs, Callbacks, Failures
<1>5. Opening'
  BY <1>1, <1>2 DEF IInv, Opening, Places
<1>6. Checks'
  BY <1>1, <1>2 DEF IInv, Checks, InCall, Places, Active, Runs, Callbacks, Failures, Aborts
<1>7. Aborting'
  BY <1>1, <1>2 DEF IInv, Aborting, Places, Aborts
<1>8. SessionOverAtClose'
  BY <1>1, <1>2 DEF IInv, SessionOverAtClose, Places
<1> QED BY <1>2, <1>3, <1>4, <1>5, <1>6, <1>7, <1>8 DEF IInv

LEMMA ClosedStep ==
  ASSUME IInv, NEW t \in Thread, Closed(t)
  PROVE  IInv'
<1>1. /\ pc[t] = "closed" /\ Goto(t, "end")
      /\ UNCHANGED <<busy, refs, pending, session, listed, runnable, seen, due, lost, aborts, status, main_abort, heart, aged>>
      /\ shut' \in BOOLEAN /\ opened' \in BOOLEAN
  BY DEF Closed, At, client, check, outside, IInv, TypeOK
<1>2. /\ OneRunner' /\ BusyBalance' /\ HeldBalance'
      /\ pc' \in [Thread -> AllPlaces] /\ pc'[t] = "end"
      /\ \A u \in Thread \ {t} : pc'[u] = pc[u] /\ pc[u] \notin Active
      /\ pending = "none"
  BY <1>1, RunMoves DEF Active, Runs, Callbacks, Failures
<1>3. TypeOK'
  BY <1>1, <1>2 DEF IInv, TypeOK, Statuses, AllPlaces, HolderPlaces, CountedPlaces
<1>4. Places'
  BY <1>1, <1>2 DEF IInv, Places, Active, Runs, Callbacks, Failures
<1>5. Opening'
  BY <1>1, <1>2 DEF IInv, Opening, Places
<1>6. Checks'
  BY <1>1, <1>2 DEF IInv, Checks, InCall, Places, Active, Runs, Callbacks, Failures, Aborts
<1>7. Aborting'
  BY <1>1, <1>2 DEF IInv, Aborting, Places, Aborts
<1>8. SessionOverAtClose'
  BY <1>1, <1>2 DEF IInv, SessionOverAtClose, Places
<1> QED BY <1>2, <1>3, <1>4, <1>5, <1>6, <1>7, <1>8 DEF IInv

LEMMA SettleStep ==
  ASSUME IInv, NEW t \in Thread, Settle(t)
  PROVE  IInv'
<1>1. /\ pc[t] = "settle"
      /\ UNCHANGED <<busy, refs, pending, session, listed, runnable, seen, due, lost, aborts, status, main_abort, aged>>
      /\ shut' \in BOOLEAN /\ opened' \in BOOLEAN
      /\ \/ Goto(t, "heart") /\ heart' = "CheckDone"
         \/ Goto(t, "end") /\ heart' = "None"
  BY DEF Settle, At, check, outside, IInv, TypeOK
<1>2. CASE Goto(t, "heart") /\ heart' = "CheckDone"
  <2>1. /\ OneRunner' /\ BusyBalance' /\ HeldBalance'
        /\ pc' \in [Thread -> AllPlaces] /\ pc'[t] = "heart"
        /\ \A u \in Thread \ {t} : pc'[u] = pc[u] /\ pc[u] \notin Active
        /\ pending = "none"
    BY <1>1, <1>2, RunMoves DEF Active, Runs, Callbacks, Failures
  <2>2. TypeOK'
    BY <1>1, <1>2, <2>1 DEF IInv, TypeOK, Statuses, Callbacks, AllPlaces, HolderPlaces, CountedPlaces
  <2>3. Places'
    BY <1>1, <1>2, <2>1 DEF IInv, Places, Active, Runs, Callbacks, Failures, Aborts
  <2>4. Opening'
    BY <1>1, <1>2, <2>1 DEF IInv, Opening, Places
  <2>5. Checks'
    BY <1>1, <1>2, <2>1 DEF IInv, Checks, InCall, Places, Active, Runs, Callbacks, Failures, Aborts
  <2>6. Aborting'
    BY <1>1, <1>2, <2>1 DEF IInv, Aborting, Places, Aborts
  <2>7. SessionOverAtClose'
    BY <1>1, <1>2, <2>1 DEF IInv, SessionOverAtClose, Places
  <2> QED BY <2>1, <2>2, <2>3, <2>4, <2>5, <2>6, <2>7 DEF IInv
<1>3. CASE Goto(t, "end") /\ heart' = "None"
  <2>1. /\ OneRunner' /\ BusyBalance' /\ HeldBalance'
        /\ pc' \in [Thread -> AllPlaces] /\ pc'[t] = "end"
        /\ \A u \in Thread \ {t} : pc'[u] = pc[u] /\ pc[u] \notin Active
        /\ pending = "none"
    BY <1>1, <1>3, RunMoves DEF Active, Runs, Callbacks, Failures
  <2>2. TypeOK'
    BY <1>1, <1>3, <2>1 DEF IInv, TypeOK, Statuses, Callbacks, AllPlaces, HolderPlaces, CountedPlaces
  <2>3. Places'
    BY <1>1, <1>3, <2>1 DEF IInv, Places, Active, Runs, Callbacks, Failures, Aborts
  <2>4. Opening'
    BY <1>1, <1>3, <2>1 DEF IInv, Opening, Places
  <2>5. Checks'
    BY <1>1, <1>3, <2>1 DEF IInv, Checks, InCall, Places, Active, Runs, Callbacks, Failures, Aborts
  <2>6. Aborting'
    BY <1>1, <1>3, <2>1 DEF IInv, Aborting, Places, Aborts
  <2>7. SessionOverAtClose'
    BY <1>1, <1>3, <2>1 DEF IInv, SessionOverAtClose, Places
  <2> QED BY <2>1, <2>2, <2>3, <2>4, <2>5, <2>6, <2>7 DEF IInv
<1> QED BY <1>1, <1>2, <1>3

LEMMA CloseStep ==
  ASSUME IInv, NEW t \in Thread, Close(t)
  PROVE  IInv'
<1>1. /\ pc[t] = "closing"
      /\ UNCHANGED <<busy, refs, pending, session, listed, runnable, seen, due, lost, aborts, heart, main_abort, aged>>
      /\ shut' \in BOOLEAN /\ opened' \in BOOLEAN
      /\ \/ busy = 1 /\ Goto(t, "close") /\ status' = "Closed"
         \/ Goto(t, "end") /\ status' = status
  BY DEF Close, At, check, outside, IInv, TypeOK
<1>2. CASE busy = 1 /\ Goto(t, "close") /\ status' = "Closed"
  <2>1. session = "off"
    BY <1>1, <1>2, OnlyBusy DEF CountedPlaces, Runs, Failures
  <2>2. /\ OneRunner' /\ BusyBalance' /\ HeldBalance'
        /\ pc' \in [Thread -> AllPlaces] /\ pc'[t] = "close"
        /\ \A u \in Thread \ {t} : pc'[u] = pc[u] /\ pc[u] \notin Active
        /\ pending = "none"
    BY <1>1, <1>2, <2>1, RunMoves DEF Active, Runs, Callbacks, Failures
  <2>3. TypeOK'
    BY <1>1, <1>2, <2>1, <2>2 DEF IInv, TypeOK, Statuses, Callbacks, AllPlaces, HolderPlaces, CountedPlaces
  <2>4. Places'
    BY <1>1, <1>2, <2>1, <2>2 DEF IInv, Places, Active, Runs, Callbacks, Failures, Aborts
  <2>5. Opening'
    BY <1>1, <1>2, <2>1, <2>2 DEF IInv, Opening, Places
  <2>6. Checks'
    BY <1>1, <1>2, <2>1, <2>2 DEF IInv, Checks, InCall, Places, Active, Runs, Callbacks, Failures, Aborts
  <2>7. Aborting'
    BY <1>1, <1>2, <2>1, <2>2 DEF IInv, Aborting, Places, Aborts
  <2>8. SessionOverAtClose'
    BY <1>1, <1>2, <2>1, <2>2 DEF IInv, SessionOverAtClose, Places
  <2> QED BY <2>2, <2>3, <2>4, <2>5, <2>6, <2>7, <2>8 DEF IInv
<1>3. CASE Goto(t, "end") /\ status' = status
  <2>1. /\ OneRunner' /\ BusyBalance' /\ HeldBalance'
        /\ pc' \in [Thread -> AllPlaces] /\ pc'[t] = "end"
        /\ \A u \in Thread \ {t} : pc'[u] = pc[u] /\ pc[u] \notin Active
        /\ pending = "none"
    BY <1>1, <1>3, RunMoves DEF Active, Runs, Callbacks, Failures
  <2>2. TypeOK'
    BY <1>1, <1>3, <2>1 DEF IInv, TypeOK, Statuses, Callbacks, AllPlaces, HolderPlaces, CountedPlaces
  <2>3. Places'
    BY <1>1, <1>3, <2>1 DEF IInv, Places, Active, Runs, Callbacks, Failures, Aborts
  <2>4. Opening'
    BY <1>1, <1>3, <2>1 DEF IInv, Opening, Places
  <2>5. Checks'
    BY <1>1, <1>3, <2>1 DEF IInv, Checks, InCall, Places, Active, Runs, Callbacks, Failures, Aborts
  <2>6. Aborting'
    BY <1>1, <1>3, <2>1 DEF IInv, Aborting, Places, Aborts
  <2>7. SessionOverAtClose'
    BY <1>1, <1>3, <2>1 DEF IInv, SessionOverAtClose, Places
  <2> QED BY <2>1, <2>2, <2>3, <2>4, <2>5, <2>6, <2>7 DEF IInv
<1> QED BY <1>1, <1>2, <1>3

LEMMA RunStarts ==
  ASSUME IInv, NEW t \in Thread, Run(t)
  PROVE  IInv'
<1>1. /\ pc[t] = "run"
      /\ UNCHANGED <<busy, refs, pending, session, listed, runnable, seen, due, aborts, main_abort, aged>>
      /\ shut' \in BOOLEAN /\ opened' \in BOOLEAN
  BY DEF Run, Enter, At, check, IInv, TypeOK
<1>2. CASE Goto(t, "idle") /\ lost' = lost + 1 /\ UNCHANGED <<status, heart>>
  <2>1. /\ pc' \in [Thread -> AllPlaces] /\ pc'[t] = "idle"
        /\ \A u \in Thread \ {t} : pc'[u] = pc[u]
        /\ Number(CountedPlaces) \in Nat /\ Number(HolderPlaces) \in Nat
        /\ Number(CountedPlaces)' = Number(CountedPlaces) - 1
        /\ Number(HolderPlaces)' = Number(HolderPlaces) - 1
    BY <1>1, <1>2, Moved, PlaceSets DEF IInv, AllPlaces
  <2>2. OneRunner'
    BY <1>1, <1>2, <2>1 DEF IInv, OneRunner, Active, Runs, Callbacks, Failures
  <2>3. BusyBalance'
    BY <1>1, <1>2, <2>1 DEF IInv, TypeOK, BusyBalance
  <2>4. HeldBalance'
    BY <1>1, <1>2, <2>1 DEF IInv, TypeOK, HeldBalance
  <2>5. TypeOK'
    BY <1>1, <1>2, <2>1 DEF IInv, TypeOK, Statuses, Callbacks, AllPlaces, HolderPlaces, CountedPlaces
  <2>6. Places'
    BY <1>1, <1>2, <2>1 DEF IInv, Places, Active, Runs, Callbacks, Failures, Aborts
  <2>7. Opening'
    BY <1>1, <1>2, <2>1 DEF IInv, Opening, Places
  <2>8. Checks'
    BY <1>1, <1>2, <2>1 DEF IInv, Checks, InCall, Places, Active, Runs, Callbacks, Failures, Aborts
  <2>9. Aborting'
    BY <1>1, <1>2, <2>1 DEF IInv, Aborting, Places, Aborts
  <2>10. SessionOverAtClose'
    BY <1>1, <1>2, <2>1 DEF IInv, SessionOverAtClose, Places
  <2> QED BY <2>2, <2>3, <2>4, <2>5, <2>6, <2>7, <2>8, <2>9, <2>10 DEF IInv
<1> SUFFICES ASSUME Enter(t, TRUE), lost' = lost
             PROVE  IInv'
  BY <1>2 DEF Run
<1>3. \/ status = "Invalid" /\ Goto(t, "open") /\ status' = "Opening" /\ heart = "Checking" /\ session = "off" /\ UNCHANGED heart
      \/ status = "Opened" /\ Goto(t, "heart") /\ UNCHANGED status /\ heart' = "CheckDone"
      \/ status = "Closing" /\ Goto(t, "close") /\ status' = "Closed" /\ session = "off" /\ UNCHANGED heart
      \/ status = "Closed" /\ Goto(t, "closed") /\ UNCHANGED <<status, heart>>
  <2>1. /\ status # "Opening"
        /\ status \in {"Invalid", "Opened"} => heart = "Checking"
        /\ status \in {"Invalid", "Closing"} => session = "off"
    BY <1>1 DEF IInv, Places, SessionOverAtClose
  <2>2. CASE status = "Invalid"
    BY <2>1, <2>2 DEF Enter
  <2>3. CASE status = "Opened"
    BY <2>1, <2>3 DEF Enter
  <2>4. CASE status \in {"Closing", "Closed"}
    BY <2>1, <2>4 DEF Enter
  <2> QED BY <2>1, <2>2, <2>3, <2>4 DEF IInv, TypeOK, Statuses
<1>4. CASE status = "Invalid" /\ Goto(t, "open") /\ status' = "Opening" /\ heart = "Checking" /\ session = "off" /\ UNCHANGED heart
  <2>1. /\ OneRunner' /\ BusyBalance' /\ HeldBalance'
        /\ pc' \in [Thread -> AllPlaces] /\ pc'[t] = "open"
        /\ \A u \in Thread \ {t} : pc'[u] = pc[u] /\ pc[u] \notin Active
        /\ pending = "none"
    BY <1>1, <1>4, RunMoves DEF Active, Runs, Callbacks, Failures
  <2>2. TypeOK'
    BY <1>1, <1>4, <2>1 DEF IInv, TypeOK, Statuses, Callbacks, AllPlaces, HolderPlaces, CountedPlaces
  <2>3. Places'
    BY <1>1, <1>4, <2>1 DEF IInv, Places, Active, Runs, Callbacks, Failures, Aborts
  <2>4. Opening'
    BY <1>1, <1>4, <2>1 DEF IInv, Opening, Places
  <2>5. Checks'
    BY <1>1, <1>4, <2>1 DEF IInv, Checks, InCall, Places, Active, Runs, Callbacks, Failures, Aborts
  <2>6. Aborting'
    BY <1>1, <1>4, <2>1 DEF IInv, Aborting, Places, Aborts
  <2>7. SessionOverAtClose'
    BY <1>1, <1>4, <2>1 DEF IInv, SessionOverAtClose, Places
  <2> QED BY <2>1, <2>2, <2>3, <2>4, <2>5, <2>6, <2>7 DEF IInv
<1>5. CASE status = "Opened" /\ Goto(t, "heart") /\ UNCHANGED status /\ heart' = "CheckDone"
  <2>1. /\ OneRunner' /\ BusyBalance' /\ HeldBalance'
        /\ pc' \in [Thread -> AllPlaces] /\ pc'[t] = "heart"
        /\ \A u \in Thread \ {t} : pc'[u] = pc[u] /\ pc[u] \notin Active
        /\ pending = "none"
    BY <1>1, <1>5, RunMoves DEF Active, Runs, Callbacks, Failures
  <2>2. TypeOK'
    BY <1>1, <1>5, <2>1 DEF IInv, TypeOK, Statuses, Callbacks, AllPlaces, HolderPlaces, CountedPlaces
  <2>3. Places'
    BY <1>1, <1>5, <2>1 DEF IInv, Places, Active, Runs, Callbacks, Failures, Aborts
  <2>4. Opening'
    BY <1>1, <1>5, <2>1 DEF IInv, Opening, Places
  <2>5. Checks'
    BY <1>1, <1>5, <2>1 DEF IInv, Checks, InCall, Places, Active, Runs, Callbacks, Failures, Aborts
  <2>6. Aborting'
    BY <1>1, <1>5, <2>1 DEF IInv, Aborting, Places, Aborts
  <2>7. SessionOverAtClose'
    BY <1>1, <1>5, <2>1 DEF IInv, SessionOverAtClose, Places
  <2> QED BY <2>1, <2>2, <2>3, <2>4, <2>5, <2>6, <2>7 DEF IInv
<1>6. CASE status = "Closing" /\ Goto(t, "close") /\ status' = "Closed" /\ session = "off" /\ UNCHANGED heart
  <2>1. /\ OneRunner' /\ BusyBalance' /\ HeldBalance'
        /\ pc' \in [Thread -> AllPlaces] /\ pc'[t] = "close"
        /\ \A u \in Thread \ {t} : pc'[u] = pc[u] /\ pc[u] \notin Active
        /\ pending = "none"
    BY <1>1, <1>6, RunMoves DEF Active, Runs, Callbacks, Failures
  <2>2. TypeOK'
    BY <1>1, <1>6, <2>1 DEF IInv, TypeOK, Statuses, Callbacks, AllPlaces, HolderPlaces, CountedPlaces
  <2>3. Places'
    BY <1>1, <1>6, <2>1 DEF IInv, Places, Active, Runs, Callbacks, Failures, Aborts
  <2>4. Opening'
    BY <1>1, <1>6, <2>1 DEF IInv, Opening, Places
  <2>5. Checks'
    BY <1>1, <1>6, <2>1 DEF IInv, Checks, InCall, Places, Active, Runs, Callbacks, Failures, Aborts
  <2>6. Aborting'
    BY <1>1, <1>6, <2>1 DEF IInv, Aborting, Places, Aborts
  <2>7. SessionOverAtClose'
    BY <1>1, <1>6, <2>1 DEF IInv, SessionOverAtClose, Places
  <2> QED BY <2>1, <2>2, <2>3, <2>4, <2>5, <2>6, <2>7 DEF IInv
<1>7. CASE status = "Closed" /\ Goto(t, "closed") /\ UNCHANGED <<status, heart>>
  <2>1. /\ OneRunner' /\ BusyBalance' /\ HeldBalance'
        /\ pc' \in [Thread -> AllPlaces] /\ pc'[t] = "closed"
        /\ \A u \in Thread \ {t} : pc'[u] = pc[u] /\ pc[u] \notin Active
        /\ pending = "none"
    BY <1>1, <1>7, RunMoves DEF Active, Runs, Callbacks, Failures
  <2>2. TypeOK'
    BY <1>1, <1>7, <2>1 DEF IInv, TypeOK, Statuses, Callbacks, AllPlaces, HolderPlaces, CountedPlaces
  <2>3. Places'
    BY <1>1, <1>7, <2>1 DEF IInv, Places, Active, Runs, Callbacks, Failures, Aborts
  <2>4. Opening'
    BY <1>1, <1>7, <2>1 DEF IInv, Opening, Places
  <2>5. Checks'
    BY <1>1, <1>7, <2>1 DEF IInv, Checks, InCall, Places, Active, Runs, Callbacks, Failures, Aborts
  <2>6. Aborting'
    BY <1>1, <1>7, <2>1 DEF IInv, Aborting, Places, Aborts
  <2>7. SessionOverAtClose'
    BY <1>1, <1>7, <2>1 DEF IInv, SessionOverAtClose, Places
  <2> QED BY <2>1, <2>2, <2>3, <2>4, <2>5, <2>6, <2>7 DEF IInv
<1> QED BY <1>3, <1>4, <1>5, <1>6, <1>7

----------------------------------------------------------------------------
(* The steps that end a run, aborts, the session and time.                 *)

LEMMA Sole ==
  ASSUME IInv, NEW t \in Thread, pc[t] \in Active
  PROVE  /\ pending = "none"
         /\ \A u \in Thread \ {t} : pc[u] \notin Active
  BY DEF IInv, OneRunner

LEMMA EndStep ==
  ASSUME IInv, NEW t \in Thread, End(t)
  PROVE  IInv'
<1>1. /\ pc[t] = "end" /\ Goto(t, "leave") /\ runnable' = FALSE
      /\ UNCHANGED <<status, main_abort, heart, busy, aged, listed, refs, pending, session, seen, due, lost, aborts>>
      /\ shut' \in BOOLEAN /\ opened' \in BOOLEAN
  BY DEF End, At, client, check, outside, IInv, TypeOK
<1>2. /\ pc' \in [Thread -> AllPlaces] /\ pc'[t] = "leave"
      /\ \A u \in Thread \ {t} : pc'[u] = pc[u]
      /\ Number(CountedPlaces) \in Nat /\ Number(HolderPlaces) \in Nat
      /\ Number(CountedPlaces)' \in Nat /\ Number(HolderPlaces)' \in Nat
      /\ Number(CountedPlaces)' = Number(CountedPlaces)
            + (IF "leave" \in CountedPlaces THEN 1 ELSE 0) - (IF pc[t] \in CountedPlaces THEN 1 ELSE 0)
      /\ Number(HolderPlaces)' = Number(HolderPlaces)
            + (IF "leave" \in HolderPlaces THEN 1 ELSE 0) - (IF pc[t] \in HolderPlaces THEN 1 ELSE 0)
  BY <1>1, Moved, PlaceSets DEF IInv, AllPlaces
<1>3. OneRunner'
  BY <1>1, <1>2 DEF IInv, OneRunner, Active, Runs, Callbacks, Failures
<1>4. BusyBalance'
  BY <1>1, <1>2, PlaceSets DEF IInv, TypeOK, BusyBalance
<1>5. HeldBalance'
  BY <1>1, <1>2, PlaceSets DEF IInv, TypeOK, HeldBalance
<1>6. busy' \in Nat /\ refs' \in Nat
  BY <1>1, <1>2, <1>4, <1>5, PlaceSets DEF IInv, TypeOK, BusyBalance, HeldBalance
<1>7. TypeOK'
  <2>1. pc' \in [Thread -> Runs \cup Aborts \cup {"idle", "check", "decide", "leave", "release"}]
    <3>1. AllPlaces = Runs \cup Aborts \cup {"idle", "check", "decide", "leave", "release"}
      BY DEF AllPlaces, HolderPlaces, CountedPlaces
    <3> QED BY <1>2, <3>1
  <2>2. /\ status' \in Statuses /\ seen' \in Statuses
        /\ heart' \in {"None", "Checking", "CheckDone"}
        /\ {main_abort', opened', runnable', aged', listed', shut', aborts', due'} \subseteq BOOLEAN /\ lost' \in Nat
        /\ pending' \in Callbacks \cup {"none"} /\ session' \in {"off", "on", "ending"}
    BY <1>1 DEF IInv, TypeOK
  <2> QED BY <1>6, <2>1, <2>2 DEF TypeOK
<1>8. Places'
  BY <1>1, <1>2, <1>6 DEF IInv, Places, Active, Runs, Callbacks, Failures, Aborts
<1>9. Opening'
  BY <1>1, <1>2, <1>6 DEF IInv, Opening, Places
<1>10. Checks'
  BY <1>1, <1>2, <1>6 DEF IInv, Checks, InCall, Places, Active, Runs, Callbacks, Failures, Aborts
<1>11. Aborting'
  BY <1>1, <1>2, <1>6 DEF IInv, Aborting, Places, Aborts
<1>12. SessionOverAtClose'
  BY <1>1, <1>2, <1>6 DEF IInv, SessionOverAtClose, Places
<1> QED BY <1>3, <1>4, <1>5, <1>7, <1>8, <1>9, <1>10, <1>11, <1>12 DEF IInv

LEMMA LeaveStep ==
  ASSUME IInv, NEW t \in Thread, Leave(t)
  PROVE  IInv'
<1>1. /\ pc[t] = "leave" /\ Goto(t, "release") /\ busy' = busy - 1
      /\ UNCHANGED <<status, main_abort, heart, runnable, aged, listed, refs, pending, session, seen, due, lost, aborts>>
      /\ shut' \in BOOLEAN /\ opened' \in BOOLEAN
  BY DEF Leave, At, client, check, outside, IInv, TypeOK
<1>2. /\ pc' \in [Thread -> AllPlaces] /\ pc'[t] = "release"
      /\ \A u \in Thread \ {t} : pc'[u] = pc[u]
      /\ Number(CountedPlaces) \in Nat /\ Number(HolderPlaces) \in Nat
      /\ Number(CountedPlaces)' \in Nat /\ Number(HolderPlaces)' \in Nat
      /\ Number(CountedPlaces)' = Number(CountedPlaces)
            + (IF "release" \in CountedPlaces THEN 1 ELSE 0) - (IF pc[t] \in CountedPlaces THEN 1 ELSE 0)
      /\ Number(HolderPlaces)' = Number(HolderPlaces)
            + (IF "release" \in HolderPlaces THEN 1 ELSE 0) - (IF pc[t] \in HolderPlaces THEN 1 ELSE 0)
  <2>1. TypeOK /\ "release" \in AllPlaces
    BY PlaceSets DEF IInv, AllPlaces
  <2> QED BY <1>1, <2>1, Moved
<1>3. OneRunner'
  BY <1>1, <1>2 DEF IInv, OneRunner, Active, Runs, Callbacks, Failures
<1>4. BusyBalance'
  BY <1>1, <1>2, PlaceSets DEF IInv, TypeOK, BusyBalance
<1>5. HeldBalance'
  BY <1>1, <1>2, PlaceSets DEF IInv, TypeOK, HeldBalance
<1>6. busy' \in Nat /\ refs' \in Nat
  BY <1>1, <1>2, <1>4, <1>5, PlaceSets DEF IInv, TypeOK, BusyBalance, HeldBalance
<1>7. TypeOK'
  BY <1>1, <1>2, <1>6 DEF IInv, TypeOK, Statuses, Callbacks, AllPlaces, HolderPlaces, CountedPlaces
<1>8. Places'
  BY <1>1, <1>2, <1>6 DEF IInv, Places, Active, Runs, Callbacks, Failures, Aborts
<1>9. Opening'
  BY <1>1, <1>2, <1>6 DEF IInv, Opening, Places
<1>10. Checks'
  BY <1>1, <1>2, <1>6 DEF IInv, Checks, InCall, Places, Active, Runs, Callbacks, Failures, Aborts
<1>11. Aborting'
  BY <1>1, <1>2, <1>6 DEF IInv, Aborting, Places, Aborts
<1>12. SessionOverAtClose'
  BY <1>1, <1>2, <1>6 DEF IInv, SessionOverAtClose, Places
<1> QED BY <1>3, <1>4, <1>5, <1>7, <1>8, <1>9, <1>10, <1>11, <1>12 DEF IInv

LEMMA ReleaseStep ==
  ASSUME IInv, NEW t \in Thread, Release(t)
  PROVE  IInv'
<1>1. /\ pc[t] = "release" /\ Goto(t, "idle") /\ refs' = refs - 1
      /\ UNCHANGED <<status, main_abort, heart, busy, runnable, aged, listed, pending, session, seen, due, lost, aborts>>
      /\ shut' \in BOOLEAN /\ opened' \in BOOLEAN
  BY DEF Release, At, client, check, outside, IInv, TypeOK
<1>2. /\ pc' \in [Thread -> AllPlaces] /\ pc'[t] = "idle"
      /\ \A u \in Thread \ {t} : pc'[u] = pc[u]
      /\ Number(CountedPlaces) \in Nat /\ Number(HolderPlaces) \in Nat
      /\ Number(CountedPlaces)' \in Nat /\ Number(HolderPlaces)' \in Nat
      /\ Number(CountedPlaces)' = Number(CountedPlaces)
            + (IF "idle" \in CountedPlaces THEN 1 ELSE 0) - (IF pc[t] \in CountedPlaces THEN 1 ELSE 0)
      /\ Number(HolderPlaces)' = Number(HolderPlaces)
            + (IF "idle" \in HolderPlaces THEN 1 ELSE 0) - (IF pc[t] \in HolderPlaces THEN 1 ELSE 0)
  <2>1. TypeOK /\ "idle" \in AllPlaces
    BY PlaceSets DEF IInv, AllPlaces
  <2> QED BY <1>1, <2>1, Moved
<1>3. OneRunner'
  BY <1>1, <1>2 DEF IInv, OneRunner, Active, Runs, Callbacks, Failures
<1>4. BusyBalance'
  BY <1>1, <1>2, PlaceSets DEF IInv, TypeOK, BusyBalance
<1>5. HeldBalance'
  BY <1>1, <1>2, PlaceSets DEF IInv, TypeOK, HeldBalance
<1>6. busy' \in Nat /\ refs' \in Nat
  BY <1>1, <1>2, <1>4, <1>5, PlaceSets DEF IInv, TypeOK, BusyBalance, HeldBalance
<1>7. TypeOK'
  BY <1>1, <1>2, <1>6 DEF IInv, TypeOK, Statuses, Callbacks, AllPlaces, HolderPlaces, CountedPlaces
<1>8. Places'
  BY <1>1, <1>2, <1>6 DEF IInv, Places, Active, Runs, Callbacks, Failures, Aborts
<1>9. Opening'
  BY <1>1, <1>2, <1>6 DEF IInv, Opening, Places
<1>10. Checks'
  BY <1>1, <1>2, <1>6 DEF IInv, Checks, InCall, Places, Active, Runs, Callbacks, Failures, Aborts
<1>11. Aborting'
  BY <1>1, <1>2, <1>6 DEF IInv, Aborting, Places, Aborts
<1>12. SessionOverAtClose'
  BY <1>1, <1>2, <1>6 DEF IInv, SessionOverAtClose, Places
<1> QED BY <1>3, <1>4, <1>5, <1>7, <1>8, <1>9, <1>10, <1>11, <1>12 DEF IInv

LEMMA AbortStep ==
  ASSUME IInv, NEW t \in Thread, Abort(t)
  PROVE  IInv'
<1>1. /\ pc[t] = "abort" /\ Goto(t, "aborting")
      /\ UNCHANGED <<status, main_abort, heart, busy, runnable, aged, listed, refs, pending, session, seen, due, lost, aborts>>
      /\ shut' \in BOOLEAN /\ opened' \in BOOLEAN
  BY DEF Abort, At, client, check, outside, IInv, TypeOK
<1>2. /\ pc' \in [Thread -> AllPlaces] /\ pc'[t] = "aborting"
      /\ \A u \in Thread \ {t} : pc'[u] = pc[u]
      /\ Number(CountedPlaces) \in Nat /\ Number(HolderPlaces) \in Nat
      /\ Number(CountedPlaces)' \in Nat /\ Number(HolderPlaces)' \in Nat
      /\ Number(CountedPlaces)' = Number(CountedPlaces)
            + (IF "aborting" \in CountedPlaces THEN 1 ELSE 0) - (IF pc[t] \in CountedPlaces THEN 1 ELSE 0)
      /\ Number(HolderPlaces)' = Number(HolderPlaces)
            + (IF "aborting" \in HolderPlaces THEN 1 ELSE 0) - (IF pc[t] \in HolderPlaces THEN 1 ELSE 0)
  <2>1. TypeOK /\ "aborting" \in AllPlaces
    BY PlaceSets DEF IInv, AllPlaces
  <2> QED BY <1>1, <2>1, Moved
<1>3. OneRunner'
  BY <1>1, <1>2 DEF IInv, OneRunner, Active, Runs, Callbacks, Failures
<1>4. BusyBalance'
  BY <1>1, <1>2, PlaceSets DEF IInv, TypeOK, BusyBalance
<1>5. HeldBalance'
  BY <1>1, <1>2, PlaceSets DEF IInv, TypeOK, HeldBalance
<1>6. busy' \in Nat /\ refs' \in Nat
  BY <1>1, <1>2, <1>4, <1>5, PlaceSets DEF IInv, TypeOK, BusyBalance, HeldBalance
<1>7. TypeOK'
  BY <1>1, <1>2, <1>6 DEF IInv, TypeOK, Statuses, Callbacks, AllPlaces, HolderPlaces, CountedPlaces
<1>8. Places'
  BY <1>1, <1>2, <1>6 DEF IInv, Places, Active, Runs, Callbacks, Failures, Aborts
<1>9. Opening'
  BY <1>1, <1>2, <1>6 DEF IInv, Opening, Places
<1>10. Checks'
  BY <1>1, <1>2, <1>6 DEF IInv, Checks, InCall, Places, Active, Runs, Callbacks, Failures, Aborts
<1>11. Aborting'
  BY <1>1, <1>2, <1>6 DEF IInv, Aborting, Places, Aborts
<1>12. SessionOverAtClose'
  BY <1>1, <1>2, <1>6 DEF IInv, SessionOverAtClose, Places
<1> QED BY <1>3, <1>4, <1>5, <1>7, <1>8, <1>9, <1>10, <1>11, <1>12 DEF IInv

LEMMA AbortedStep ==
  ASSUME IInv, NEW t \in Thread, Aborted(t)
  PROVE  IInv'
<1>1. /\ pc[t] = "aborting" /\ Goto(t, "release") /\ busy' = busy - 1
      /\ UNCHANGED <<status, main_abort, heart, runnable, aged, listed, refs, pending, session, seen, due, lost, aborts>>
      /\ shut' \in BOOLEAN /\ opened' \in BOOLEAN
  BY DEF Aborted, At, client, check, outside, IInv, TypeOK
<1>2. /\ pc' \in [Thread -> AllPlaces] /\ pc'[t] = "release"
      /\ \A u \in Thread \ {t} : pc'[u] = pc[u]
      /\ Number(CountedPlaces) \in Nat /\ Number(HolderPlaces) \in Nat
      /\ Number(CountedPlaces)' \in Nat /\ Number(HolderPlaces)' \in Nat
      /\ Number(CountedPlaces)' = Number(CountedPlaces)
            + (IF "release" \in CountedPlaces THEN 1 ELSE 0) - (IF pc[t] \in CountedPlaces THEN 1 ELSE 0)
      /\ Number(HolderPlaces)' = Number(HolderPlaces)
            + (IF "release" \in HolderPlaces THEN 1 ELSE 0) - (IF pc[t] \in HolderPlaces THEN 1 ELSE 0)
  <2>1. TypeOK /\ "release" \in AllPlaces
    BY PlaceSets DEF IInv, AllPlaces
  <2> QED BY <1>1, <2>1, Moved
<1>3. OneRunner'
  BY <1>1, <1>2 DEF IInv, OneRunner, Active, Runs, Callbacks, Failures
<1>4. BusyBalance'
  BY <1>1, <1>2, PlaceSets DEF IInv, TypeOK, BusyBalance
<1>5. HeldBalance'
  BY <1>1, <1>2, PlaceSets DEF IInv, TypeOK, HeldBalance
<1>6. busy' \in Nat /\ refs' \in Nat
  BY <1>1, <1>2, <1>4, <1>5, PlaceSets DEF IInv, TypeOK, BusyBalance, HeldBalance
<1>7. TypeOK'
  BY <1>1, <1>2, <1>6 DEF IInv, TypeOK, Statuses, Callbacks, AllPlaces, HolderPlaces, CountedPlaces
<1>8. Places'
  BY <1>1, <1>2, <1>6 DEF IInv, Places, Active, Runs, Callbacks, Failures, Aborts
<1>9. Opening'
  BY <1>1, <1>2, <1>6 DEF IInv, Opening, Places
<1>10. Checks'
  BY <1>1, <1>2, <1>6 DEF IInv, Checks, InCall, Places, Active, Runs, Callbacks, Failures, Aborts
<1>11. Aborting'
  BY <1>1, <1>2, <1>6 DEF IInv, Aborting, Places, Aborts
<1>12. SessionOverAtClose'
  BY <1>1, <1>2, <1>6 DEF IInv, SessionOverAtClose, Places
<1> QED BY <1>3, <1>4, <1>5, <1>7, <1>8, <1>9, <1>10, <1>11, <1>12 DEF IInv

LEMMA CheckBeginStep ==
  ASSUME IInv, NEW t \in Thread, NEW d \in BOOLEAN, CheckBegin(t, d)
  PROVE  IInv'
<1>1. /\ pc[t] = "idle" /\ Goto(t, "check") /\ listed
      /\ \A u \in Thread : pc[u] # "check" /\ pc[u] # "decide"
      /\ due' \in BOOLEAN /\ (due' => aged)
      /\ UNCHANGED <<status, main_abort, heart, busy, runnable, aged, listed, refs, pending, session, seen, lost, aborts>>
      /\ shut' \in BOOLEAN /\ opened' \in BOOLEAN
  BY DEF CheckBegin, Nobody, At, client, check, outside, IInv, TypeOK
<1>2. /\ pc' \in [Thread -> AllPlaces] /\ pc'[t] = "check"
      /\ \A u \in Thread \ {t} : pc'[u] = pc[u]
      /\ Number(CountedPlaces) \in Nat /\ Number(HolderPlaces) \in Nat
      /\ Number(CountedPlaces)' \in Nat /\ Number(HolderPlaces)' \in Nat
      /\ Number(CountedPlaces)' = Number(CountedPlaces)
            + (IF "check" \in CountedPlaces THEN 1 ELSE 0) - (IF pc[t] \in CountedPlaces THEN 1 ELSE 0)
      /\ Number(HolderPlaces)' = Number(HolderPlaces)
            + (IF "check" \in HolderPlaces THEN 1 ELSE 0) - (IF pc[t] \in HolderPlaces THEN 1 ELSE 0)
  <2>1. TypeOK /\ "check" \in AllPlaces
    BY PlaceSets DEF IInv, AllPlaces
  <2> QED BY <1>1, <2>1, Moved
<1>3. OneRunner'
  BY <1>1, <1>2 DEF IInv, OneRunner, Active, Runs, Callbacks, Failures
<1>4. BusyBalance'
  BY <1>1, <1>2, PlaceSets DEF IInv, TypeOK, BusyBalance
<1>5. HeldBalance'
  BY <1>1, <1>2, PlaceSets DEF IInv, TypeOK, HeldBalance
<1>6. busy' \in Nat /\ refs' \in Nat
  BY <1>1, <1>2, <1>4, <1>5, PlaceSets DEF IInv, TypeOK, BusyBalance, HeldBalance
<1>7. TypeOK'
  BY <1>1, <1>2, <1>6 DEF IInv, TypeOK, Statuses, Callbacks, AllPlaces, HolderPlaces, CountedPlaces
<1>8. Places'
  BY <1>1, <1>2, <1>6 DEF IInv, Places, Active, Runs, Callbacks, Failures, Aborts
<1>9. Opening'
  BY <1>1, <1>2, <1>6 DEF IInv, Opening, Places
<1>10. Checks'
  BY <1>1, <1>2, <1>6 DEF IInv, Checks, Aborting, InCall, Places, Active, Runs, Callbacks, Failures, Aborts
<1>11. Aborting'
  BY <1>1, <1>2, <1>6 DEF IInv, Aborting, Places, Aborts
<1>12. SessionOverAtClose'
  BY <1>1, <1>2, <1>6 DEF IInv, SessionOverAtClose, Places
<1> QED BY <1>3, <1>4, <1>5, <1>7, <1>8, <1>9, <1>10, <1>11, <1>12 DEF IInv

LEMMA CheckStatusStep ==
  ASSUME IInv, NEW t \in Thread, CheckStatus(t)
  PROVE  IInv'
<1>1. /\ pc[t] = "check" /\ Goto(t, "decide") /\ seen' = status
      /\ UNCHANGED <<status, main_abort, heart, busy, runnable, aged, listed, refs, pending, session, due, lost, aborts>>
      /\ shut' \in BOOLEAN /\ opened' \in BOOLEAN
  BY DEF CheckStatus, At, client, check, outside, IInv, TypeOK
<1>2. /\ pc' \in [Thread -> AllPlaces] /\ pc'[t] = "decide"
      /\ \A u \in Thread \ {t} : pc'[u] = pc[u]
      /\ Number(CountedPlaces) \in Nat /\ Number(HolderPlaces) \in Nat
      /\ Number(CountedPlaces)' \in Nat /\ Number(HolderPlaces)' \in Nat
      /\ Number(CountedPlaces)' = Number(CountedPlaces)
            + (IF "decide" \in CountedPlaces THEN 1 ELSE 0) - (IF pc[t] \in CountedPlaces THEN 1 ELSE 0)
      /\ Number(HolderPlaces)' = Number(HolderPlaces)
            + (IF "decide" \in HolderPlaces THEN 1 ELSE 0) - (IF pc[t] \in HolderPlaces THEN 1 ELSE 0)
  <2>1. TypeOK /\ "decide" \in AllPlaces
    BY PlaceSets DEF IInv, AllPlaces
  <2> QED BY <1>1, <2>1, Moved
<1>3. OneRunner'
  BY <1>1, <1>2 DEF IInv, OneRunner, Active, Runs, Callbacks, Failures
<1>4. BusyBalance'
  BY <1>1, <1>2, PlaceSets DEF IInv, TypeOK, BusyBalance
<1>5. HeldBalance'
  BY <1>1, <1>2, PlaceSets DEF IInv, TypeOK, HeldBalance
<1>6. busy' \in Nat /\ refs' \in Nat
  BY <1>1, <1>2, <1>4, <1>5, PlaceSets DEF IInv, TypeOK, BusyBalance, HeldBalance
<1>7. TypeOK'
  BY <1>1, <1>2, <1>6 DEF IInv, TypeOK, Statuses, Callbacks, AllPlaces, HolderPlaces, CountedPlaces
<1>8. Places'
  BY <1>1, <1>2, <1>6 DEF IInv, Places, Active, Runs, Callbacks, Failures, Aborts
<1>9. Opening'
  BY <1>1, <1>2, <1>6 DEF IInv, Opening, Places
<1>10. Checks'
  BY <1>1, <1>2, <1>6 DEF IInv, Checks, Aborting, InCall, Places, Active, Runs, Callbacks, Failures, Aborts
<1>11. Aborting'
  BY <1>1, <1>2, <1>6 DEF IInv, Aborting, Places, Aborts
<1>12. SessionOverAtClose'
  BY <1>1, <1>2, <1>6 DEF IInv, SessionOverAtClose, Places
<1> QED BY <1>3, <1>4, <1>5, <1>7, <1>8, <1>9, <1>10, <1>11, <1>12 DEF IInv

LEMMA SessionFailsStep ==
  ASSUME IInv, SessionFails
  PROVE  IInv'
<1>1. /\ session = "on" /\ session' = "ending" /\ main_abort' = TRUE
      /\ UNCHANGED <<status, heart, busy, runnable, aged, listed, refs, pending, seen, due, lost, aborts>>
      /\ shut' \in BOOLEAN /\ opened' \in BOOLEAN
      /\ pc' = pc
  BY DEF SessionFails, client, check, outside, IInv, TypeOK
<1>2. /\ pc' \in [Thread -> AllPlaces]
      /\ Number(CountedPlaces)' = Number(CountedPlaces)
      /\ Number(HolderPlaces)' = Number(HolderPlaces)
  BY <1>1 DEF IInv, TypeOK, AllPlaces, HolderPlaces, CountedPlaces, Number
<1>3. Number(CountedPlaces) \in Nat
  BY FinitePlaces
<1>4. OneRunner'
  BY <1>1 DEF IInv, OneRunner
<1>5. BusyBalance'
  BY <1>1, <1>2, <1>3 DEF IInv, TypeOK, BusyBalance
<1>6. HeldBalance'
  BY <1>1, <1>2 DEF IInv, HeldBalance
<1>7. busy' \in Nat /\ refs' \in Nat
  BY <1>1, <1>3 DEF IInv, TypeOK, BusyBalance
<1>8. TypeOK'
  BY <1>1, <1>2, <1>7 DEF IInv, TypeOK, Statuses, Callbacks, AllPlaces, HolderPlaces, CountedPlaces
<1>9. Places'
  BY <1>1, <1>2, <1>7 DEF IInv, Places, Active, Runs, Callbacks, Failures, Aborts
<1>10. Opening'
  BY <1>1, <1>2, <1>7 DEF IInv, Opening, Places
<1>11. Checks'
  BY <1>1, <1>2, <1>7 DEF IInv, Checks, InCall, Places, Active, Runs, Callbacks, Failures, Aborts
<1>12. Aborting'
  BY <1>1, <1>2, <1>7 DEF IInv, Aborting, Places, Aborts
<1>13. SessionOverAtClose'
  BY <1>1, <1>2, <1>7 DEF IInv, SessionOverAtClose, Places
<1> QED BY <1>4, <1>5, <1>6, <1>8, <1>9, <1>10, <1>11, <1>12, <1>13 DEF IInv

LEMMA SessionEndsStep ==
  ASSUME IInv, SessionEnds
  PROVE  IInv'
<1>1. /\ session = "ending" /\ session' = "off" /\ busy' = busy - 1
      /\ UNCHANGED <<status, main_abort, heart, runnable, aged, listed, refs, pending, seen, due, lost, aborts>>
      /\ shut' \in BOOLEAN /\ opened' \in BOOLEAN
      /\ pc' = pc
  BY DEF SessionEnds, client, check, outside, IInv, TypeOK
<1>2. /\ pc' \in [Thread -> AllPlaces]
      /\ Number(CountedPlaces)' = Number(CountedPlaces)
      /\ Number(HolderPlaces)' = Number(HolderPlaces)
  BY <1>1 DEF IInv, TypeOK, AllPlaces, HolderPlaces, CountedPlaces, Number
<1>3. Number(CountedPlaces) \in Nat
  BY FinitePlaces
<1>4. OneRunner'
  BY <1>1 DEF IInv, OneRunner
<1>5. BusyBalance'
  BY <1>1, <1>2, <1>3 DEF IInv, TypeOK, BusyBalance
<1>6. HeldBalance'
  BY <1>1, <1>2 DEF IInv, HeldBalance
<1>7. busy' \in Nat /\ refs' \in Nat
  BY <1>1, <1>3 DEF IInv, TypeOK, BusyBalance
<1>8. TypeOK'
  BY <1>1, <1>2, <1>7 DEF IInv, TypeOK, Statuses, Callbacks, AllPlaces, HolderPlaces, CountedPlaces
<1>9. Places'
  BY <1>1, <1>2, <1>7 DEF IInv, Places, Active, Runs, Callbacks, Failures, Aborts
<1>10. Opening'
  BY <1>1, <1>2, <1>7 DEF IInv, Opening, Places
<1>11. Checks'
  BY <1>1, <1>2, <1>7 DEF IInv, Checks, InCall, Places, Active, Runs, Callbacks, Failures, Aborts
<1>12. Aborting'
  BY <1>1, <1>2, <1>7 DEF IInv, Aborting, Places, Aborts
<1>13. SessionOverAtClose'
  BY <1>1, <1>2, <1>7 DEF IInv, SessionOverAtClose, Places
<1> QED BY <1>4, <1>5, <1>6, <1>8, <1>9, <1>10, <1>11, <1>12, <1>13 DEF IInv

LEMMA AgeStep ==
  ASSUME IInv, Prompt, Age
  PROVE  IInv'
<1>1. /\ aged' = TRUE /\ \A t \in Thread : pc[t] \notin Aborts
      /\ UNCHANGED <<status, main_abort, heart, busy, runnable, listed, refs, pending, session, seen, due, lost, aborts>>
      /\ shut' \in BOOLEAN /\ opened' \in BOOLEAN
      /\ pc' = pc
  BY DEF Age, Nobody, client, check, outside, IInv, TypeOK
<1>2. /\ pc' \in [Thread -> AllPlaces]
      /\ Number(CountedPlaces)' = Number(CountedPlaces)
      /\ Number(HolderPlaces)' = Number(HolderPlaces)
  BY <1>1 DEF IInv, TypeOK, AllPlaces, HolderPlaces, CountedPlaces, Number
<1>3. Number(CountedPlaces) \in Nat
  BY FinitePlaces
<1>4. OneRunner'
  BY <1>1 DEF IInv, OneRunner
<1>5. BusyBalance'
  BY <1>1, <1>2, <1>3 DEF IInv, TypeOK, BusyBalance
<1>6. HeldBalance'
  BY <1>1, <1>2 DEF IInv, HeldBalance
<1>7. busy' \in Nat /\ refs' \in Nat
  BY <1>1, <1>3 DEF IInv, TypeOK, BusyBalance
<1>8. TypeOK'
  BY <1>1, <1>2, <1>7 DEF IInv, TypeOK, Statuses, Callbacks, AllPlaces, HolderPlaces, CountedPlaces
<1>9. Places'
  BY <1>1, <1>2, <1>7 DEF IInv, Places, Active, Runs, Callbacks, Failures, Aborts
<1>10. Opening'
  BY <1>1, <1>2, <1>7 DEF IInv, Opening, Places
<1>11. Checks'
  BY <1>1, <1>2, <1>7 DEF IInv, Checks, InCall, Places, Active, Runs, Callbacks, Failures, Aborts
<1>12. Aborting'
  BY <1>1, <1>2, <1>7 DEF IInv, Aborting, Places, Aborts
<1>13. SessionOverAtClose'
  BY <1>1, <1>2, <1>7 DEF IInv, SessionOverAtClose, Places
<1> QED BY <1>4, <1>5, <1>6, <1>8, <1>9, <1>10, <1>11, <1>12, <1>13 DEF IInv

----------------------------------------------------------------------------
(* The client's callbacks return, or complete later.                       *)

LEMMA ReturnsStep ==
  ASSUME IInv, Prompt, NEW t \in Thread, NEW callback \in Callbacks, Returns(t, callback)
  PROVE  IInv'
<1>1. /\ pc[t] = callback /\ callback \in {"open", "heart", "close"}
      /\ UNCHANGED <<status, main_abort, heart, runnable, aged, listed, refs, seen, due, lost, aborts>>
      /\ shut' \in BOOLEAN /\ opened' \in BOOLEAN
      /\ \A u \in Thread : pc[u] = "decide" =>
           (callback = "open" => seen # "Invalid") /\ (callback = "close" => seen = "Closed")
  BY DEF Returns, At, client, check, InTime, Nobody, Callbacks, IInv, TypeOK
<1>2. pending = "none" /\ \A u \in Thread \ {t} : pc[u] \notin Active
  BY <1>1, Sole DEF Active, Runs, Callbacks
<1>3. \/ Goto(t, "idle") /\ pending' = callback /\ UNCHANGED <<session, busy>>
      \/ /\ callback = "open" /\ session = "off" /\ Goto(t, "opened") /\ session' = "on" /\ busy' = busy + 1
         /\ UNCHANGED pending
      \/ /\ UNCHANGED <<session, busy, pending>>
         /\ \E p \in {"opened", "beat", "fail", "closed"} :
              /\ Goto(t, p)
              /\ p = "opened" => callback = "open"
              /\ p = "beat" => callback = "heart"
              /\ p = "fail" => callback \in {"open", "heart"}
              /\ p = "closed" => callback = "close"
  BY <1>1 DEF Returns, Begin, IInv, Places
<1>4. CASE Goto(t, "idle") /\ pending' = callback /\ UNCHANGED <<session, busy>>
  <2>1. /\ pc' \in [Thread -> AllPlaces] /\ pc'[t] = "idle"
        /\ \A u \in Thread \ {t} : pc'[u] = pc[u]
        /\ Number(CountedPlaces) \in Nat /\ Number(HolderPlaces) \in Nat
        /\ Number(CountedPlaces)' \in Nat /\ Number(HolderPlaces)' \in Nat
        /\ Number(CountedPlaces)' = Number(CountedPlaces)
              + (IF "idle" \in CountedPlaces THEN 1 ELSE 0) - (IF pc[t] \in CountedPlaces THEN 1 ELSE 0)
        /\ Number(HolderPlaces)' = Number(HolderPlaces)
              + (IF "idle" \in HolderPlaces THEN 1 ELSE 0) - (IF pc[t] \in HolderPlaces THEN 1 ELSE 0)
    BY <1>1, <1>2, <1>4, Moved, PlaceSets DEF IInv, AllPlaces
  <2>2. OneRunner'
    BY <1>1, <1>2, <1>4, <2>1 DEF IInv, OneRunner, Active, Runs, Callbacks, Failures
  <2>3. BusyBalance'
    BY <1>1, <1>2, <1>4, <2>1, PlaceSets DEF IInv, TypeOK, BusyBalance
  <2>4. HeldBalance'
    BY <1>1, <1>2, <1>4, <2>1, PlaceSets DEF IInv, TypeOK, HeldBalance
  <2>5. busy' \in Nat /\ refs' \in Nat
    BY <1>1, <1>2, <1>4, <2>1, <2>3, <2>4, PlaceSets DEF IInv, TypeOK, BusyBalance, HeldBalance
  <2>6. TypeOK'
    BY <1>1, <1>2, <1>4, <2>1, <2>5 DEF IInv, TypeOK, Statuses, Callbacks, AllPlaces, HolderPlaces, CountedPlaces
  <2>7. Places'
    BY <1>1, <1>2, <1>4, <2>1, <2>5 DEF IInv, Places, Active, Runs, Callbacks, Failures, Aborts
  <2>8. Opening'
    BY <1>1, <1>2, <1>4, <2>1, <2>5 DEF IInv, Opening, Places
  <2>9. Checks'
    BY <1>1, <1>2, <1>4, <2>1, <2>5 DEF IInv, Checks, InCall, Places, Active, Runs, Callbacks, Failures, Aborts
  <2>10. Aborting'
    BY <1>1, <1>2, <1>4, <2>1, <2>5 DEF IInv, Aborting, Places, Aborts
  <2>11. SessionOverAtClose'
    BY <1>1, <1>2, <1>4, <2>1, <2>5 DEF IInv, SessionOverAtClose, Places
  <2> QED BY <2>2, <2>3, <2>4, <2>6, <2>7, <2>8, <2>9, <2>10, <2>11 DEF IInv
<1>5. CASE /\ callback = "open" /\ session = "off" /\ Goto(t, "opened") /\ session' = "on" /\ busy' = busy + 1
           /\ UNCHANGED pending
  <2>1. /\ pc' \in [Thread -> AllPlaces] /\ pc'[t] = "opened"
        /\ \A u \in Thread \ {t} : pc'[u] = pc[u]
        /\ Number(CountedPlaces) \in Nat /\ Number(HolderPlaces) \in Nat
        /\ Number(CountedPlaces)' \in Nat /\ Number(HolderPlaces)' \in Nat
        /\ Number(CountedPlaces)' = Number(CountedPlaces)
              + (IF "opened" \in CountedPlaces THEN 1 ELSE 0) - (IF pc[t] \in CountedPlaces THEN 1 ELSE 0)
        /\ Number(HolderPlaces)' = Number(HolderPlaces)
              + (IF "opened" \in HolderPlaces THEN 1 ELSE 0) - (IF pc[t] \in HolderPlaces THEN 1 ELSE 0)
    BY <1>1, <1>2, <1>5, Moved, PlaceSets DEF IInv, AllPlaces
  <2>2. OneRunner'
    BY <1>1, <1>2, <1>5, <2>1 DEF IInv, OneRunner, Active, Runs, Callbacks, Failures
  <2>3. BusyBalance'
    BY <1>1, <1>2, <1>5, <2>1, PlaceSets DEF IInv, TypeOK, BusyBalance
  <2>4. HeldBalance'
    BY <1>1, <1>2, <1>5, <2>1, PlaceSets DEF IInv, TypeOK, HeldBalance
  <2>5. busy' \in Nat /\ refs' \in Nat
    BY <1>1, <1>2, <1>5, <2>1, <2>3, <2>4, PlaceSets DEF IInv, TypeOK, BusyBalance, HeldBalance
  <2>6. TypeOK'
    BY <1>1, <1>2, <1>5, <2>1, <2>5 DEF IInv, TypeOK, Statuses, Callbacks, AllPlaces, HolderPlaces, CountedPlaces
  <2>7. Places'
    BY <1>1, <1>2, <1>5, <2>1, <2>5 DEF IInv, Places, Active, Runs, Callbacks, Failures, Aborts
  <2>8. Opening'
    BY <1>1, <1>2, <1>5, <2>1, <2>5 DEF IInv, Opening, Places
  <2>9. Checks'
    BY <1>1, <1>2, <1>5, <2>1, <2>5 DEF IInv, Checks, InCall, Places, Active, Runs, Callbacks, Failures, Aborts
  <2>10. Aborting'
    BY <1>1, <1>2, <1>5, <2>1, <2>5 DEF IInv, Aborting, Places, Aborts
  <2>11. SessionOverAtClose'
    BY <1>1, <1>2, <1>5, <2>1, <2>5 DEF IInv, SessionOverAtClose, Places
  <2> QED BY <2>2, <2>3, <2>4, <2>6, <2>7, <2>8, <2>9, <2>10, <2>11 DEF IInv
<1>6. ASSUME UNCHANGED <<session, busy, pending>>,
             NEW p \in {"opened", "beat", "fail", "closed"}, Goto(t, p),
             p = "opened" => callback = "open",
             p = "beat" => callback = "heart",
             p = "fail" => callback \in {"open", "heart"},
             p = "closed" => callback = "close"
      PROVE  IInv'
  <2>1. /\ OneRunner' /\ BusyBalance' /\ HeldBalance'
        /\ pc' \in [Thread -> AllPlaces] /\ pc'[t] = p
        /\ \A u \in Thread \ {t} : pc'[u] = pc[u] /\ pc[u] \notin Active
        /\ pending = "none"
    BY <1>1, <1>6, RunMoves DEF Active, Runs, Callbacks, Failures
  <2>2. TypeOK'
    BY <1>1, <1>6, <2>1 DEF IInv, TypeOK, Statuses, Callbacks, AllPlaces, HolderPlaces, CountedPlaces
  <2>3. Places'
    BY <1>1, <1>6, <2>1 DEF IInv, Places, Active, Runs, Callbacks, Failures, Aborts
  <2>4. Opening'
    BY <1>1, <1>6, <2>1 DEF IInv, Opening, Places
  <2>5. Checks'
    BY <1>1, <1>6, <2>1 DEF IInv, Checks, InCall, Places, Active, Runs, Callbacks, Failures, Aborts
  <2>6. Aborting'
    BY <1>1, <1>6, <2>1 DEF IInv, Aborting, Places, Aborts
  <2>7. SessionOverAtClose'
    BY <1>1, <1>6, <2>1 DEF IInv, SessionOverAtClose, Places
  <2> QED BY <2>1, <2>2, <2>3, <2>4, <2>5, <2>6, <2>7 DEF IInv
<1> QED BY <1>3, <1>4, <1>5, <1>6

LEMMA ExecDoneStep ==
  ASSUME IInv, Prompt, NEW t \in Thread, ExecDone(t)
  PROVE  IInv'
<1>1. /\ pc[t] = "idle" /\ pending # "none" /\ pending' = "none"
      /\ UNCHANGED <<main_abort, runnable, aged, listed, refs, seen, due, lost, aborts>>
      /\ \A u \in Thread : pc[u] \notin Active
      /\ \A u \in Thread : pc[u] = "decide" =>
           (pending = "open" => seen # "Invalid") /\ (pending = "close" => seen = "Closed")
  BY DEF ExecDone, At, check, InTime, Nobody, IInv, OneRunner
<1>2. PICK ok \in BOOLEAN : Enter(t, ok) /\ Begin(pending, ok)
  BY DEF ExecDone
<1>3. \/ UNCHANGED <<session, busy>>
      \/ pending = "open" /\ ok /\ session = "off" /\ session' = "on" /\ busy' = busy + 1
  BY <1>2 DEF Begin, IInv, Places
<1>4. opened' \in BOOLEAN /\ shut' \in BOOLEAN /\ UNCHANGED <<status, heart>>
      /\ \E p \in {"opened", "beat", "fail", "closed"} :
           /\ Goto(t, p)
           /\ p = "opened" => pending = "open" /\ status = "Opening" /\ heart = "Checking"
           /\ p = "beat" => status = "Opened" /\ heart = "CheckDone"
           /\ p = "fail" => status \in {"Opening", "Opened"} /\ heart # "None"
           /\ p = "closed" => pending = "close" /\ status = "Closed"
           /\ status = "Opening" => p \in {"opened", "fail"}
           /\ session' # session => p = "opened"
  <2>1. opened' \in BOOLEAN
    BY DEF ExecDone, IInv, TypeOK
  <2>2. \/ pending = "open" /\ status = "Opening" /\ heart = "Checking"
        \/ pending = "heart" /\ status = "Opened" /\ heart = "CheckDone"
        \/ pending = "close" /\ status = "Closed"
    BY <1>1 DEF IInv, TypeOK, Places, Callbacks
  <2>3. CASE pending = "open" /\ status = "Opening" /\ heart = "Checking"
    <3>1. Goto(t, IF ok THEN "opened" ELSE "fail") /\ UNCHANGED <<status, heart, shut>>
      BY <1>2, <2>3 DEF Enter
    <3> QED BY <1>3, <2>1, <2>3, <3>1 DEF IInv, TypeOK
  <2>4. CASE pending = "heart" /\ status = "Opened" /\ heart = "CheckDone"
    <3>1. Goto(t, IF ok THEN "beat" ELSE "fail") /\ UNCHANGED <<status, heart, shut>>
      BY <1>2, <2>4 DEF Enter
    <3> QED BY <1>3, <2>1, <2>4, <3>1 DEF IInv, TypeOK
  <2>5. CASE pending = "close" /\ status = "Closed"
    <3>1. Goto(t, "closed") /\ UNCHANGED <<status, heart, shut>>
      BY <1>2, <2>5 DEF Enter
    <3> QED BY <1>3, <2>1, <2>5, <3>1 DEF IInv, TypeOK
  <2> QED BY <2>2, <2>3, <2>4, <2>5
<1>5. PICK p \in {"opened", "beat", "fail", "closed"} :
           /\ Goto(t, p)
           /\ p = "opened" => pending = "open" /\ status = "Opening" /\ heart = "Checking"
           /\ p = "beat" => status = "Opened" /\ heart = "CheckDone"
           /\ p = "fail" => status \in {"Opening", "Opened"} /\ heart # "None"
           /\ p = "closed" => pending = "close" /\ status = "Closed"
           /\ status = "Opening" => p \in {"opened", "fail"}
           /\ session' # session => p = "opened"
  BY <1>4
<1>6. opened' \in BOOLEAN /\ shut' \in BOOLEAN /\ UNCHANGED <<status, heart>>
  BY <1>4
<1>7. /\ pc' \in [Thread -> AllPlaces] /\ pc'[t] = p
      /\ \A u \in Thread \ {t} : pc'[u] = pc[u]
      /\ Number(CountedPlaces) \in Nat /\ Number(HolderPlaces) \in Nat
      /\ Number(CountedPlaces)' \in Nat /\ Number(HolderPlaces)' \in Nat
      /\ Number(CountedPlaces)' = Number(CountedPlaces)
            + (IF p \in CountedPlaces THEN 1 ELSE 0) - (IF pc[t] \in CountedPlaces THEN 1 ELSE 0)
      /\ Number(HolderPlaces)' = Number(HolderPlaces)
            + (IF p \in HolderPlaces THEN 1 ELSE 0) - (IF pc[t] \in HolderPlaces THEN 1 ELSE 0)
  <2>1. TypeOK /\ p \in AllPlaces
    BY <1>1, <1>3, <1>5, <1>6, PlaceSets DEF IInv, AllPlaces
  <2> QED BY <1>1, <1>3, <1>5, <1>6, <2>1, Moved
<1>8. OneRunner'
  BY <1>1, <1>3, <1>5, <1>6, <1>7 DEF IInv, OneRunner, Active, Runs, Callbacks, Failures
<1>9. BusyBalance'
  BY <1>1, <1>3, <1>5, <1>6, <1>7, PlaceSets DEF IInv, TypeOK, BusyBalance
<1>10. HeldBalance'
  BY <1>1, <1>3, <1>5, <1>6, <1>7, PlaceSets DEF IInv, TypeOK, HeldBalance
<1>11. busy' \in Nat /\ refs' \in Nat
  BY <1>1, <1>3, <1>5, <1>6, <1>7, <1>9, <1>10, PlaceSets DEF IInv, TypeOK, BusyBalance, HeldBalance
<1>12. TypeOK'
  BY <1>1, <1>3, <1>5, <1>6, <1>7, <1>11 DEF IInv, TypeOK, Statuses, Callbacks, AllPlaces, HolderPlaces, CountedPlaces
<1>13. Places'
  BY <1>1, <1>3, <1>5, <1>6, <1>7, <1>11 DEF IInv, Places, Active, Runs, Callbacks, Failures, Aborts
<1>14. Opening'
  BY <1>1, <1>3, <1>5, <1>6, <1>7, <1>11 DEF IInv, Opening, Places
<1>15. Checks'
  BY <1>1, <1>3, <1>5, <1>6, <1>7, <1>11 DEF IInv, Checks, InCall, Places, Active, Runs, Callbacks, Failures, Aborts
<1>16. Aborting'
  BY <1>1, <1>3, <1>5, <1>6, <1>7, <1>11 DEF IInv, Aborting, Places, Aborts
<1>17. SessionOverAtClose'
  BY <1>1, <1>3, <1>5, <1>6, <1>7, <1>11 DEF IInv, SessionOverAtClose, Places
<1> QED BY <1>8, <1>9, <1>10, <1>12, <1>13, <1>14, <1>15, <1>16, <1>17 DEF IInv

----------------------------------------------------------------------------
(* The outcomes of a check.                                                *)

LEMMA NeedlessStep ==
  ASSUME IInv, NEW t \in Thread, pc[t] = "decide", Needless(t), UNCHANGED <<check, lost, outside>>
  PROVE  IInv'
<1>1. /\ Goto(t, "idle")
      /\ UNCHANGED <<status, main_abort, heart, busy, runnable, aged, listed, refs, pending, session, seen, due, lost, aborts>>
      /\ shut' \in BOOLEAN /\ opened' \in BOOLEAN
  BY DEF Needless, client, check, outside, IInv, TypeOK
<1>2. pc[t] = "decide"
  OBVIOUS
<1>3. /\ pc' \in [Thread -> AllPlaces] /\ pc'[t] = "idle"
      /\ \A u \in Thread \ {t} : pc'[u] = pc[u]
      /\ Number(CountedPlaces) \in Nat /\ Number(HolderPlaces) \in Nat
      /\ Number(CountedPlaces)' \in Nat /\ Number(HolderPlaces)' \in Nat
      /\ Number(CountedPlaces)' = Number(CountedPlaces)
            + (IF "idle" \in CountedPlaces THEN 1 ELSE 0) - (IF pc[t] \in CountedPlaces THEN 1 ELSE 0)
      /\ Number(HolderPlaces)' = Number(HolderPlaces)
            + (IF "idle" \in HolderPlaces THEN 1 ELSE 0) - (IF pc[t] \in HolderPlaces THEN 1 ELSE 0)
  BY <1>1, <1>2, Moved, PlaceSets DEF IInv, AllPlaces
<1>4. OneRunner'
  BY <1>1, <1>2, <1>3 DEF IInv, OneRunner, Active, Runs, Callbacks, Failures
<1>5. BusyBalance'
  BY <1>1, <1>2, <1>3, PlaceSets DEF IInv, TypeOK, BusyBalance
<1>6. HeldBalance'
  BY <1>1, <1>2, <1>3, PlaceSets DEF IInv, TypeOK, HeldBalance
<1>7. busy' \in Nat /\ refs' \in Nat
  BY <1>1, <1>2, <1>3, <1>5, <1>6, PlaceSets DEF IInv, TypeOK, BusyBalance, HeldBalance
<1>8. TypeOK'
  BY <1>1, <1>2, <1>3, <1>7 DEF IInv, TypeOK, Statuses, Callbacks, AllPlaces, HolderPlaces, CountedPlaces
<1>9. Places'
  BY <1>1, <1>2, <1>3, <1>7 DEF IInv, Places, Active, Runs, Callbacks, Failures, Aborts
<1>10. Opening'
  BY <1>1, <1>2, <1>3, <1>7 DEF IInv, Opening, Places
<1>11. Checks'
  BY <1>1, <1>2, <1>3, <1>7 DEF IInv, Checks, InCall, Places, Active, Runs, Callbacks, Failures, Aborts
<1>12. Aborting'
  BY <1>1, <1>2, <1>3, <1>7 DEF IInv, Aborting, Places, Aborts
<1>13. SessionOverAtClose'
  BY <1>1, <1>2, <1>3, <1>7 DEF IInv, SessionOverAtClose, Places
<1> QED BY <1>4, <1>5, <1>6, <1>8, <1>9, <1>10, <1>11, <1>12, <1>13 DEF IInv

(* A run is granted while there is none.                                   *)
LEMMA GrantRunStep ==
  ASSUME IInv, NEW t \in Thread, pc[t] = "decide", GrantRun(t), UNCHANGED <<check, lost, listed, outside>>,
         pending = "none", \A u \in Thread : pc[u] \notin Active,
         main_abort' \in BOOLEAN, opened' \in BOOLEAN,
         aged' \in BOOLEAN, ~aged => ~aged', heart' \in {heart, "Checking"}, status' \in {status, "Closing"},
         status' # "Opening", status' \in {"Invalid", "Opened"} => heart' = "Checking",
         status' = "Closing" => session = "off", status' # "Closed"
  PROVE  IInv'
<1>1. /\ pc[t] = "decide" /\ Goto(t, "run") /\ busy' = busy + 1 /\ refs' = refs + 1 /\ runnable' = TRUE
      /\ UNCHANGED <<seen, due, lost, aborts, listed, pending, session>>
      /\ shut' \in BOOLEAN /\ opened' \in BOOLEAN /\ main_abort' \in BOOLEAN
      /\ pending = "none" /\ \A u \in Thread : pc[u] \notin Active
  BY DEF GrantRun, Grant, check, outside, IInv, TypeOK
<1>2. /\ aged' \in BOOLEAN /\ (~aged => ~aged') /\ heart' \in {heart, "Checking"} /\ status' \in {status, "Closing"}
      /\ status' # "Opening" /\ (status' \in {"Invalid", "Opened"} => heart' = "Checking")
      /\ (status' = "Closing" => session = "off") /\ status' # "Closed"
  OBVIOUS
<1>3. /\ pc' \in [Thread -> AllPlaces] /\ pc'[t] = "run"
      /\ \A u \in Thread \ {t} : pc'[u] = pc[u]
      /\ Number(CountedPlaces) \in Nat /\ Number(HolderPlaces) \in Nat
      /\ Number(CountedPlaces)' \in Nat /\ Number(HolderPlaces)' \in Nat
      /\ Number(CountedPlaces)' = Number(CountedPlaces)
            + (IF "run" \in CountedPlaces THEN 1 ELSE 0) - (IF pc[t] \in CountedPlaces THEN 1 ELSE 0)
      /\ Number(HolderPlaces)' = Number(HolderPlaces)
            + (IF "run" \in HolderPlaces THEN 1 ELSE 0) - (IF pc[t] \in HolderPlaces THEN 1 ELSE 0)
  BY <1>1, <1>2, Moved, PlaceSets DEF IInv, AllPlaces
<1>4. OneRunner'
  BY <1>1, <1>2, <1>3 DEF IInv, OneRunner, Active, Runs, Callbacks, Failures
<1>5. BusyBalance'
  BY <1>1, <1>2, <1>3, PlaceSets DEF IInv, TypeOK, BusyBalance
<1>6. HeldBalance'
  BY <1>1, <1>2, <1>3, PlaceSets DEF IInv, TypeOK, HeldBalance
<1>7. busy' \in Nat /\ refs' \in Nat
  BY <1>1, <1>2, <1>3, <1>5, <1>6, PlaceSets DEF IInv, TypeOK, BusyBalance, HeldBalance
<1>8. TypeOK'
  BY <1>1, <1>2, <1>3, <1>7 DEF IInv, TypeOK, Statuses, Callbacks, AllPlaces, HolderPlaces, CountedPlaces
<1>9. Places'
  BY <1>1, <1>2, <1>3, <1>7 DEF IInv, Places, Active, Runs, Callbacks, Failures, Aborts
<1>10. Opening'
  BY <1>1, <1>2, <1>3, <1>7 DEF IInv, Opening, Places
<1>11. Checks'
  BY <1>1, <1>2, <1>3, <1>7 DEF IInv, Checks, InCall, Places, Active, Runs, Callbacks, Failures, Aborts
<1>12. Aborting'
  BY <1>1, <1>2, <1>3, <1>7 DEF IInv, Aborting, Places, Aborts
<1>13. SessionOverAtClose'
  BY <1>1, <1>2, <1>3, <1>7 DEF IInv, SessionOverAtClose, Places
<1> QED BY <1>4, <1>5, <1>6, <1>8, <1>9, <1>10, <1>11, <1>12, <1>13 DEF IInv

LEMMA AbortGranted ==
  ASSUME IInv, NEW t \in Thread, pc[t] = "decide", Grant(t, "abort"),
         aged' = FALSE, main_abort' = TRUE, UNCHANGED <<client, listed>>,
         UNCHANGED <<check, lost, outside>>, due, seen # "Invalid"
  PROVE  IInv'
<1>1. /\ pc[t] = "decide" /\ Goto(t, "abort") /\ busy' = busy + 1 /\ refs' = refs + 1
      /\ aged' = FALSE /\ main_abort' = TRUE
      /\ UNCHANGED <<status, heart, runnable, listed, pending, session, seen, due, lost, aborts>>
      /\ shut' \in BOOLEAN /\ opened' \in BOOLEAN
  BY DEF GrantAbort, Grant, client, check, outside, IInv, TypeOK
<1>2. status # "Invalid" /\ \A u \in Thread : pc[u] \notin Aborts
  BY DEF IInv, Checks, InCall, Aborting
<1>3. /\ pc' \in [Thread -> AllPlaces] /\ pc'[t] = "abort"
      /\ \A u \in Thread \ {t} : pc'[u] = pc[u]
      /\ Number(CountedPlaces) \in Nat /\ Number(HolderPlaces) \in Nat
      /\ Number(CountedPlaces)' \in Nat /\ Number(HolderPlaces)' \in Nat
      /\ Number(CountedPlaces)' = Number(CountedPlaces)
            + (IF "abort" \in CountedPlaces THEN 1 ELSE 0) - (IF pc[t] \in CountedPlaces THEN 1 ELSE 0)
      /\ Number(HolderPlaces)' = Number(HolderPlaces)
            + (IF "abort" \in HolderPlaces THEN 1 ELSE 0) - (IF pc[t] \in HolderPlaces THEN 1 ELSE 0)
  BY <1>1, <1>2, Moved, PlaceSets DEF IInv, AllPlaces
<1>4. OneRunner'
  BY <1>1, <1>2, <1>3 DEF IInv, OneRunner, Active, Runs, Callbacks, Failures
<1>5. BusyBalance'
  BY <1>1, <1>2, <1>3, PlaceSets DEF IInv, TypeOK, BusyBalance
<1>6. HeldBalance'
  BY <1>1, <1>2, <1>3, PlaceSets DEF IInv, TypeOK, HeldBalance
<1>7. busy' \in Nat /\ refs' \in Nat
  BY <1>1, <1>2, <1>3, <1>5, <1>6, PlaceSets DEF IInv, TypeOK, BusyBalance, HeldBalance
<1>8. TypeOK'
  <2>1. pc' \in [Thread -> Runs \cup Aborts \cup {"idle", "check", "decide", "leave", "release"}]
    <3>1. AllPlaces = Runs \cup Aborts \cup {"idle", "check", "decide", "leave", "release"}
      BY DEF AllPlaces, HolderPlaces, CountedPlaces
    <3> QED BY <1>3, <3>1
  <2>2. /\ status' \in Statuses /\ seen' \in Statuses
        /\ heart' \in {"None", "Checking", "CheckDone"}
        /\ {main_abort', opened', runnable', aged', listed', shut', aborts', due'} \subseteq BOOLEAN /\ lost' \in Nat
        /\ pending' \in Callbacks \cup {"none"} /\ session' \in {"off", "on", "ending"}
    BY <1>1 DEF IInv, TypeOK
  <2> QED BY <1>7, <2>1, <2>2 DEF TypeOK
<1>9. Places'
  BY <1>1, <1>2, <1>3, <1>7 DEF IInv, Places, Active, Runs, Callbacks, Failures, Aborts
<1>10. Opening'
  BY <1>1, <1>2, <1>3, <1>7 DEF IInv, Opening, Places
<1>11. Checks'
  BY <1>1, <1>2, <1>3, <1>7 DEF IInv, Checks, InCall, Places, Active, Runs, Callbacks, Failures, Aborts
<1>12. Aborting'
  BY <1>1, <1>2, <1>3, <1>7 DEF IInv, Aborting, Places, Aborts
<1>13. SessionOverAtClose'
  BY <1>1, <1>2, <1>3, <1>7 DEF IInv, SessionOverAtClose, Places
<1> QED BY <1>4, <1>5, <1>6, <1>8, <1>9, <1>10, <1>11, <1>12, <1>13 DEF IInv

LEMMA NoAbortStep ==
  ASSUME IInv, NEW t \in Thread, pc[t] = "decide", NoAbort(t), UNCHANGED <<check, lost, outside>>
  PROVE  IInv'
<1>1. /\ Goto(t, "idle")
      /\ aged' = FALSE /\ main_abort' = TRUE
      /\ UNCHANGED <<status, heart, busy, runnable, listed, refs, pending, session, seen, due, lost, aborts>>
      /\ shut' \in BOOLEAN /\ opened' \in BOOLEAN
  BY DEF NoAbort, client, check, outside, IInv, TypeOK
<1>2. pc[t] = "decide"
  OBVIOUS
<1>3. /\ pc' \in [Thread -> AllPlaces] /\ pc'[t] = "idle"
      /\ \A u \in Thread \ {t} : pc'[u] = pc[u]
      /\ Number(CountedPlaces) \in Nat /\ Number(HolderPlaces) \in Nat
      /\ Number(CountedPlaces)' \in Nat /\ Number(HolderPlaces)' \in Nat
      /\ Number(CountedPlaces)' = Number(CountedPlaces)
            + (IF "idle" \in CountedPlaces THEN 1 ELSE 0) - (IF pc[t] \in CountedPlaces THEN 1 ELSE 0)
      /\ Number(HolderPlaces)' = Number(HolderPlaces)
            + (IF "idle" \in HolderPlaces THEN 1 ELSE 0) - (IF pc[t] \in HolderPlaces THEN 1 ELSE 0)
  BY <1>1, <1>2, Moved, PlaceSets DEF IInv, AllPlaces
<1>4. OneRunner'
  BY <1>1, <1>2, <1>3 DEF IInv, OneRunner, Active, Runs, Callbacks, Failures
<1>5. BusyBalance'
  BY <1>1, <1>2, <1>3, PlaceSets DEF IInv, TypeOK, BusyBalance
<1>6. HeldBalance'
  BY <1>1, <1>2, <1>3, PlaceSets DEF IInv, TypeOK, HeldBalance
<1>7. busy' \in Nat /\ refs' \in Nat
  BY <1>1, <1>2, <1>3, <1>5, <1>6, PlaceSets DEF IInv, TypeOK, BusyBalance, HeldBalance
<1>8. TypeOK'
  <2>1. pc' \in [Thread -> Runs \cup Aborts \cup {"idle", "check", "decide", "leave", "release"}]
    <3>1. AllPlaces = Runs \cup Aborts \cup {"idle", "check", "decide", "leave", "release"}
      BY DEF AllPlaces, HolderPlaces, CountedPlaces
    <3> QED BY <1>3, <3>1
  <2>2. /\ status' \in Statuses /\ seen' \in Statuses
        /\ heart' \in {"None", "Checking", "CheckDone"}
        /\ {main_abort', opened', runnable', aged', listed', shut', aborts', due'} \subseteq BOOLEAN /\ lost' \in Nat
        /\ pending' \in Callbacks \cup {"none"} /\ session' \in {"off", "on", "ending"}
    BY <1>1 DEF IInv, TypeOK
  <2> QED BY <1>7, <2>1, <2>2 DEF TypeOK
<1>9. Places'
  BY <1>1, <1>2, <1>3, <1>7 DEF IInv, Places, Active, Runs, Callbacks, Failures, Aborts
<1>10. Opening'
  BY <1>1, <1>2, <1>3, <1>7 DEF IInv, Opening, Places
<1>11. Checks'
  BY <1>1, <1>2, <1>3, <1>7 DEF IInv, Checks, InCall, Places, Active, Runs, Callbacks, Failures, Aborts
<1>12. Aborting'
  BY <1>1, <1>2, <1>3, <1>7 DEF IInv, Aborting, Places, Aborts
<1>13. SessionOverAtClose'
  BY <1>1, <1>2, <1>3, <1>7 DEF IInv, SessionOverAtClose, Places
<1> QED BY <1>4, <1>5, <1>6, <1>8, <1>9, <1>10, <1>11, <1>12, <1>13 DEF IInv

LEMMA ClosedChecked ==
  ASSUME IInv, NEW t \in Thread, pc[t] = "decide", CheckClosed(t), UNCHANGED <<check, lost, outside>>
  PROVE  IInv'
<1>1. CASE Needless(t)
  BY <1>1, NeedlessStep
<1>2. CASE ~Needless(t)
  <2>1. /\ pc[t] = "decide" /\ busy = 0 /\ status = "Closed"
        /\ UNCHANGED <<heart, refs, seen, due, lost, aborts, pending, session>>
        /\ shut' \in BOOLEAN /\ opened' \in BOOLEAN
        /\ \/ Goto(t, "idle") /\ status' = "Invalid" /\ aged' = FALSE /\ main_abort' = FALSE
              /\ UNCHANGED <<runnable, busy, listed>>
           \/ Goto(t, "run") /\ busy' = busy + 1 /\ runnable' = TRUE /\ listed' = FALSE
              /\ UNCHANGED <<status, main_abort, aged>>
    BY <1>2 DEF CheckClosed, check, outside, IInv, TypeOK, Checks
  <2>2. /\ pending = "none" /\ session = "off" /\ listed
        /\ \A u \in Thread : pc[u] \notin Runs /\ pc[u] \notin Aborts
    BY <2>1, NoneBusy, PlaceSets DEF IInv, Checks, InCall, CountedPlaces
  <2>3. CASE Goto(t, "idle") /\ status' = "Invalid" /\ aged' = FALSE /\ main_abort' = FALSE
              /\ UNCHANGED <<runnable, busy, listed>>
    <3>1. /\ pc' \in [Thread -> AllPlaces] /\ pc'[t] = "idle"
          /\ \A u \in Thread \ {t} : pc'[u] = pc[u]
          /\ Number(CountedPlaces) \in Nat /\ Number(HolderPlaces) \in Nat
          /\ Number(CountedPlaces)' \in Nat /\ Number(HolderPlaces)' \in Nat
          /\ Number(CountedPlaces)' = Number(CountedPlaces)
                + (IF "idle" \in CountedPlaces THEN 1 ELSE 0) - (IF pc[t] \in CountedPlaces THEN 1 ELSE 0)
          /\ Number(HolderPlaces)' = Number(HolderPlaces)
                + (IF "idle" \in HolderPlaces THEN 1 ELSE 0) - (IF pc[t] \in HolderPlaces THEN 1 ELSE 0)
      <4>1. TypeOK /\ "idle" \in AllPlaces
        BY DEF IInv, AllPlaces
      <4> QED BY <2>1, <2>2, <2>3, <4>1, Moved
    <3>2. OneRunner'
      BY <2>1, <2>2, <2>3, <3>1 DEF IInv, OneRunner, Active, Runs, Callbacks, Failures
    <3>3. BusyBalance'
      BY <2>1, <2>2, <2>3, <3>1, PlaceSets DEF IInv, TypeOK, BusyBalance
    <3>4. HeldBalance'
      BY <2>1, <2>2, <2>3, <3>1, PlaceSets DEF IInv, TypeOK, HeldBalance
    <3>5. busy' \in Nat /\ refs' \in Nat
      BY <2>1, <2>2, <2>3, <3>1, <3>3, <3>4, PlaceSets DEF IInv, TypeOK, BusyBalance, HeldBalance
    <3>6. TypeOK'
      BY <2>1, <2>2, <2>3, <3>1, <3>5 DEF IInv, TypeOK, Statuses, Callbacks, AllPlaces, HolderPlaces, CountedPlaces
    <3>7. Places'
      BY <2>1, <2>2, <2>3, <3>1, <3>5 DEF IInv, Places, Active, Runs, Callbacks, Failures, Aborts
    <3>8. Opening'
      BY <2>1, <2>2, <2>3, <3>1, <3>5 DEF IInv, Opening, Places
    <3>9. Checks'
      BY <2>1, <2>2, <2>3, <3>1, <3>5 DEF IInv, Checks, InCall, Places, Active, Runs, Callbacks, Failures, Aborts
    <3>10. Aborting'
      BY <2>1, <2>2, <2>3, <3>1, <3>5 DEF IInv, Aborting, Places, Aborts
    <3>11. SessionOverAtClose'
      BY <2>1, <2>2, <2>3, <3>1, <3>5 DEF IInv, SessionOverAtClose, Places
    <3> QED BY <3>2, <3>3, <3>4, <3>6, <3>7, <3>8, <3>9, <3>10, <3>11 DEF IInv
  <2>4. CASE Goto(t, "run") /\ busy' = busy + 1 /\ runnable' = TRUE /\ listed' = FALSE
              /\ UNCHANGED <<status, main_abort, aged>>
    <3>1. /\ pc' \in [Thread -> AllPlaces] /\ pc'[t] = "run"
          /\ \A u \in Thread \ {t} : pc'[u] = pc[u]
          /\ Number(CountedPlaces) \in Nat /\ Number(HolderPlaces) \in Nat
          /\ Number(CountedPlaces)' \in Nat /\ Number(HolderPlaces)' \in Nat
          /\ Number(CountedPlaces)' = Number(CountedPlaces)
                + (IF "run" \in CountedPlaces THEN 1 ELSE 0) - (IF pc[t] \in CountedPlaces THEN 1 ELSE 0)
          /\ Number(HolderPlaces)' = Number(HolderPlaces)
                + (IF "run" \in HolderPlaces THEN 1 ELSE 0) - (IF pc[t] \in HolderPlaces THEN 1 ELSE 0)
      BY <2>1, <2>2, <2>4, Moved, PlaceSets DEF IInv, AllPlaces
    <3>2. OneRunner'
      BY <2>1, <2>2, <2>4, <3>1 DEF IInv, OneRunner, Active, Runs, Callbacks, Failures
    <3>3. BusyBalance'
      BY <2>1, <2>2, <2>4, <3>1, PlaceSets DEF IInv, TypeOK, BusyBalance
    <3>4. HeldBalance'
      BY <2>1, <2>2, <2>4, <3>1, PlaceSets DEF IInv, TypeOK, HeldBalance
    <3>5. busy' \in Nat /\ refs' \in Nat
      BY <2>1, <2>2, <2>4, <3>1, <3>3, <3>4, PlaceSets DEF IInv, TypeOK, BusyBalance, HeldBalance
    <3>6. TypeOK'
      BY <2>1, <2>2, <2>4, <3>1, <3>5 DEF IInv, TypeOK, Statuses, Callbacks, AllPlaces, HolderPlaces, CountedPlaces
    <3>7. Places'
      BY <2>1, <2>2, <2>4, <3>1, <3>5 DEF IInv, Places, Active, Runs, Callbacks, Failures, Aborts
    <3>8. Opening'
      BY <2>1, <2>2, <2>4, <3>1, <3>5 DEF IInv, Opening, Places
    <3>9. Checks'
      BY <2>1, <2>2, <2>4, <3>1, <3>5 DEF IInv, Checks, InCall, Places, Active, Runs, Callbacks, Failures, Aborts
    <3>10. Aborting'
      BY <2>1, <2>2, <2>4, <3>1, <3>5 DEF IInv, Aborting, Places, Aborts
    <3>11. SessionOverAtClose'
      BY <2>1, <2>2, <2>4, <3>1, <3>5 DEF IInv, SessionOverAtClose, Places
    <3> QED BY <3>2, <3>3, <3>4, <3>6, <3>7, <3>8, <3>9, <3>10, <3>11 DEF IInv
  <2> QED BY <2>1, <2>3, <2>4
<1> QED BY <1>1, <1>2

LEMMA CheckStep ==
  ASSUME IInv, NEW t \in Thread, Check(t)
  PROVE  IInv'
<1>1. pc[t] = "decide" /\ UNCHANGED <<check, lost, outside>>
  BY DEF Check, At
<1>2. CASE Needless(t)
  BY <1>1, <1>2, NeedlessStep
<1>3. CASE due /\ GrantAbort(t) /\ seen # "Invalid"
  <2>1. CASE NoAbort(t)
    BY <1>1, <2>1, NoAbortStep
  <2>2. CASE ~NoAbort(t)
    <3>1. Grant(t, "abort") /\ aged' = FALSE /\ main_abort' = TRUE /\ UNCHANGED <<client, listed>>
      BY <1>3, <2>2 DEF GrantAbort
    <3> QED BY <1>1, <1>3, <3>1, AbortGranted
  <2> QED BY <2>1, <2>2
<1>4. CASE CheckClosed(t)
  BY <1>1, <1>4, ClosedChecked
<1>5. CASE busy = 0 /\ GrantRun(t) /\ UNCHANGED <<opened, listed>>
           /\ \/ /\ seen = "Invalid" /\ aged' = FALSE /\ main_abort' = FALSE
                 /\ heart' = "Checking" /\ UNCHANGED status
              \/ seen = "Opened" /\ status' = "Closing" /\ UNCHANGED <<main_abort, heart, aged>>
              \/ seen = "Closing" /\ UNCHANGED <<status, main_abort, heart, aged>>
  <2>1. /\ pending = "none" /\ session = "off"
        /\ \A u \in Thread : pc[u] \notin Active /\ pc[u] \notin Callbacks
    BY <1>5, NoneBusy DEF CountedPlaces, Active, Runs
  <2>2. status # "Opening" /\ ~InCall("open") /\ ~InCall("close")
    BY <2>1 DEF IInv, Opening, InCall, Active, Runs, Callbacks, Failures
  <2>3. /\ seen = "Invalid" => status = "Invalid"
        /\ seen = "Closing" => status = "Closing"
    BY <1>1, <2>2 DEF IInv, Checks
  <2>4. main_abort \in BOOLEAN /\ opened \in BOOLEAN /\ aged \in BOOLEAN
    BY DEF IInv, TypeOK
  <2>5. main_abort' \in BOOLEAN /\ opened' \in BOOLEAN
    BY <1>5, <2>4
  <2>6. aged' \in BOOLEAN /\ (~aged => ~aged')
    <3>1. CASE aged' = FALSE
      BY <3>1
    <3>2. CASE aged' = aged
      BY <2>4, <3>2
    <3> QED BY <1>5, <3>1, <3>2
  <2> QED BY <1>1, <1>5, <2>1, <2>2, <2>3, <2>5, <2>6, GrantRunStep
<1>6. CASE /\ seen = "Opened" /\ ~main_abort /\ heart = "None"
           /\ GrantRun(t) /\ heart' = "Checking" /\ UNCHANGED <<status, main_abort, opened, aged, listed>>
  <2>1. status = "Opened"
    BY <1>1, <1>6 DEF IInv, Checks
  <2>2. \A u \in Thread : pc[u] \notin Active
    BY <1>6, <2>1 DEF IInv, Places, Active, Runs, Callbacks, Failures
  <2>3. pending = "none"
    BY <1>6, <2>1 DEF IInv, TypeOK, Callbacks, Places
  <2>4. main_abort' \in BOOLEAN /\ opened' \in BOOLEAN /\ aged' \in BOOLEAN /\ (~aged => ~aged')
    BY <1>6 DEF IInv, TypeOK
  <2> QED BY <1>1, <1>6, <2>1, <2>2, <2>3, <2>4, GrantRunStep
<1> QED BY <1>1, <1>2, <1>3, <1>4, <1>5, <1>6
         DEF Check, CheckInvalid, CheckOpening, CheckOpened, CheckClosing

----------------------------------------------------------------------------
(* The theorems.                                                           *)

LEMMA InitInv == Init => IInv
<1> SUFFICES ASSUME Init PROVE IInv
  OBVIOUS
<1>1. \A t \in Thread : pc[t] = "idle"
  BY DEF Init
<1>2. Number(CountedPlaces) = 0 /\ Number(HolderPlaces) = 0
  <2>1. \A t \in Thread : pc[t] \notin CountedPlaces /\ pc[t] \notin HolderPlaces
    BY <1>1, PlaceSets
  <2> QED BY <2>1, NoneThere
<1>3. TypeOK
  BY DEF Init, TypeOK, Statuses
<1>4. OneRunner /\ Places /\ Opening /\ Checks /\ Aborting
  BY <1>1 DEF Init, OneRunner, Places, Opening, Checks, InCall, Aborting, Active, Runs, Callbacks, Failures, Aborts
<1>5. SessionOverAtClose /\ BusyBalance /\ HeldBalance
  BY <1>2 DEF Init, SessionOverAtClose, BusyBalance, HeldBalance
<1> QED BY <1>3, <1>4, <1>5 DEF IInv

LEMMA StepInv == Prompt /\ IInv /\ [Next]_vars => IInv'
<1> SUFFICES ASSUME Prompt, IInv, [Next]_vars PROVE IInv'
  OBVIOUS
<1>1. CASE UNCHANGED vars
  BY <1>1 DEF vars, IInv, TypeOK, OneRunner, Places, Opening, Checks, InCall, Aborting,
              SessionOverAtClose, BusyBalance, HeldBalance, Number
<1>2. ASSUME NEW t \in Thread, RunStep(t) PROVE IInv'
  BY <1>2, RunStarts, ReturnsStep, OpenedStep, SettleStep, BeatStep, FailStep, FailingStep,
     CloseStep, ClosedStep, EndStep, LeaveStep, ReleaseStep, AbortStep, AbortedStep DEF RunStep
<1>3. ASSUME NEW t \in Thread, NEW d \in BOOLEAN, CheckBegin(t, d) PROVE IInv'
  BY <1>3, CheckBeginStep
<1>4. ASSUME NEW t \in Thread, CheckStatus(t) \/ Check(t) \/ ExecDone(t) PROVE IInv'
  BY <1>4, CheckStatusStep, CheckStep, ExecDoneStep
<1>5. CASE SessionFails \/ SessionEnds \/ Age
  BY <1>5, SessionFailsStep, SessionEndsStep, AgeStep
<1> QED BY <1>1, <1>2, <1>3, <1>4, <1>5 DEF Next

LEMMA Invariance ==
  ASSUME Prompt
  PROVE  Spec => []IInv
<1>1. IInv /\ [Next]_vars => IInv'
  BY StepInv
<1> QED BY InitInv, <1>1, PTL DEF Spec

(* With prompt threads every variable keeps its type: the busy count and   *)
(* the references never fall below zero.                                   *)
THEOREM TypeCorrect ==
  ASSUME Prompt
  PROVE  Spec => []TypeOK
<1>1. IInv => TypeOK
  BY DEF IInv
<1> QED BY Invariance, <1>1, PTL

(* One run of the client at a time, but for the last step of the one       *)
(* before, and no heart is taken for a success that was not called         *)
(* (client_run_internal).                                                  *)
THEOREM OneRunAtATime ==
  ASSUME Prompt
  PROVE  Spec => []OneRun
<1>1. IInv => OneRun
  BY DEF IInv, OneRunner, Places, OneRun, InRun, Active
<1> QED BY Invariance, <1>1, PTL

(* An abort never reaches the next session (check_one, client_abort).      *)
THEOREM AbortsStay ==
  ASSUME Prompt
  PROVE  Spec => []AbortStaysInSession
<1>1. IInv => AbortStaysInSession
  BY DEF IInv, Aborting, AbortStaysInSession, InAbort
<1> QED BY Invariance, <1>1, PTL

(* What an opened client began is over before it is closed.                *)
THEOREM SessionsEndFirst ==
  ASSUME Prompt
  PROVE  Spec => []SessionOverAtClose
<1>1. IInv => SessionOverAtClose
  BY DEF IInv
<1> QED BY Invariance, <1>1, PTL

(* The references to the entity are those of whoever may touch the client. *)
THEOREM ReferencesBalance ==
  ASSUME Prompt
  PROVE  Spec => []RefsBalance
<1>1. Number(HolderPlaces) = Cardinality(Holders)
  <2>1. {t \in Thread : pc[t] \in HolderPlaces} = Holders
    BY DEF Holders, InRun, InAbort, HolderPlaces, CountedPlaces
  <2> QED BY <2>1 DEF Number
<1>2. IInv => RefsBalance
  BY <1>1 DEF IInv, HeldBalance, RefsBalance
<1> QED BY Invariance, <1>2, PTL

-----------------------------------------------------------------------------
(* ClientSystem implements ClientLife: for any number of prompt threads,   *)
(* every step of a client's checks, runs, callbacks and aborts is a step   *)
(* of the life promised to the client and its listeners, or none of it.    *)
AtClose == pending = "close" \/ \E t \in Thread : pc[t] \in {"close", "closed"}

(* What was told of an opened client is taken back before it is Invalid    *)
(* again.                                                                  *)
ToldInv ==
  /\ opened \in BOOLEAN
  /\ opened => status \notin {"Invalid", "Opening"}
  /\ status = "Closed" /\ opened => AtClose

(* The callback under way, as the client sees it.                          *)
CallInv ==
  /\ pending = "none" /\ (\A t \in Thread : pc[t] \notin Callbacks) => CallNow = "none"
  /\ \A t \in Thread : pc[t] \in Callbacks => CallNow = pc[t]
  /\ pending # "none" => CallNow = pending

(* A run owes its listeners on_client_closed from its close on, or when it *)
(* is the last one of a client that was removed.                           *)
Owing(place) == place \in {"close", "closed"} \/ (place = "run" /\ status = "Closed")
OwesInv ==
  /\ \A t \in Thread : pc[t] \in Active =>
       (Owing(pc[t]) => Owes = TRUE) /\ (~Owing(pc[t]) => Owes = FALSE)
  /\ pending # "none" =>
       (pending = "close" => Owes = TRUE) /\ (pending # "close" => Owes = FALSE)
  /\ pending = "none" /\ (\A t \in Thread : pc[t] \notin Active) => Owes = FALSE

(* It is the one CallNow names.                                            *)
LEMMA CallIsKnown == IInv => CallInv
<1> SUFFICES ASSUME IInv PROVE CallInv
  OBVIOUS
<1>1. ASSUME pending = "none", \A t \in Thread : pc[t] \notin Callbacks
      PROVE  CallNow = "none"
  <2>1. Under = {}
    BY <1>1 DEF Under, Callbacks
  <2> QED BY <2>1 DEF CallNow
<1>2. ASSUME NEW t \in Thread, pc[t] \in Callbacks
      PROVE  CallNow = pc[t]
  <2>1. pc[t] \in Active
    BY <1>2 DEF Active, Runs, Callbacks
  <2>2. pending = "none" /\ \A u \in Thread \ {t} : pc[u] \notin Active
    BY <2>1, Sole
  <2>3. Under = {pc[t]}
    BY <1>2, <2>2 DEF Under, Active, Runs, Callbacks
  <2>4. (CHOOSE c \in Callbacks : c \in Under) = pc[t]
    BY <1>2, <2>3
  <2> QED BY <2>3, <2>4 DEF CallNow
<1>3. ASSUME pending # "none"
      PROVE  CallNow = pending
  <2>1. pending \in Callbacks /\ \A t \in Thread : pc[t] \notin Callbacks
    BY <1>3 DEF IInv, TypeOK, OneRunner, Active, Runs, Callbacks
  <2>2. Under = {pending}
    BY <2>1 DEF Under
  <2>3. (CHOOSE c \in Callbacks : c \in Under) = pending
    BY <2>1, <2>2
  <2> QED BY <2>2, <2>3 DEF CallNow
<1> QED BY <1>1, <1>2, <1>3 DEF CallInv

LEMMA OwesIsKnown == IInv => OwesInv
<1> SUFFICES ASSUME IInv PROVE OwesInv
  OBVIOUS
<1>1. CallInv
  BY CallIsKnown
<1>2. (CallNow = "close" \/ \E t \in Thread : Owing(pc[t]) /\ pc[t] \in Active) => Owes = TRUE
  BY <1>1 DEF Owes, Owing, CallInv, Callbacks
<1>3. CallNow # "close" /\ (\A t \in Thread : ~Owing(pc[t])) => Owes = FALSE
  BY DEF Owes, Owing
<1>4. \A t \in Thread : Owing(pc[t]) => pc[t] \in Active
  BY DEF Owing, Active, Runs, Callbacks, Failures
<1>5. ASSUME NEW t \in Thread, pc[t] \in Active
      PROVE  (Owing(pc[t]) => Owes = TRUE) /\ (~Owing(pc[t]) => Owes = FALSE)
  <2>1. pending = "none" /\ \A u \in Thread \ {t} : pc[u] \notin Active
    BY <1>5, Sole
  <2>2. Owing(pc[t]) => Owes = TRUE
    BY <1>2, <1>5
  <2>3. ~Owing(pc[t]) => CallNow # "close" /\ \A u \in Thread : ~Owing(pc[u])
    <3>1. \A u \in Thread : pc[u] \in Callbacks => u = t
      BY <2>1 DEF Active, Runs, Callbacks
    <3>2. CallNow \in {"none", pc[t]}
      BY <1>1, <2>1, <3>1 DEF CallInv
    <3> QED BY <1>4, <2>1, <3>2 DEF Owing
  <2> QED BY <1>3, <2>2, <2>3
<1>6. ASSUME pending # "none"
      PROVE  (pending = "close" => Owes = TRUE) /\ (pending # "close" => Owes = FALSE)
  <2>1. CallNow = pending
    BY <1>1, <1>6 DEF CallInv
  <2>2. \A t \in Thread : ~Owing(pc[t])
    BY <1>4, <1>6 DEF IInv, OneRunner
  <2> QED BY <1>2, <1>3, <2>1, <2>2
<1>7. ASSUME pending = "none", \A t \in Thread : pc[t] \notin Active
      PROVE  Owes = FALSE
  <2>1. \A t \in Thread : pc[t] \notin Callbacks
    BY <1>7 DEF Active, Runs, Callbacks
  <2>2. CallNow = "none"
    BY <1>1, <1>7, <2>1 DEF CallInv
  <2> QED BY <1>3, <1>4, <1>7, <2>2
<1> QED BY <1>5, <1>6, <1>7 DEF OwesInv

(* What the lemmas on steps assume: the invariants before and after.       *)
Ready == /\ IInv /\ IInv' /\ ToldInv
         /\ CallInv /\ CallInv' /\ OwesInv /\ OwesInv'

LEMMA Going ==
  ASSUME Ready, NEW t \in Thread, NEW p, Goto(t, p)
  PROVE  pc'[t] = p /\ \A u \in Thread \ {t} : pc'[u] = pc[u]
  BY DEF Ready, IInv, TypeOK, Goto

----------------------------------------------------------------------------
(* Steps the client and its listeners do not see.                          *)

LEMMA Quiet ==
  ASSUME Ready, NEW t \in Thread, NEW p, Goto(t, p),
         pc[t] \notin Callbacks, pc[t] \notin {"settle", "closed"}, p \notin Callbacks, p # "settle",
         Owing(p) <=> Owing(pc[t]),
         UNCHANGED <<status, opened, pending, listed>>
  PROVE  ToldInv' /\ UNCHANGED Life!vars
<1>1. pc'[t] = p /\ \A u \in Thread \ {t} : pc'[u] = pc[u]
  BY Going
<1>2. CallNow' = CallNow
  <2>1. CASE pending # "none"
    BY <2>1 DEF Ready, CallInv
  <2>2. CASE pending = "none" /\ \E u \in Thread : pc[u] \in Callbacks
    <3>1. PICK u \in Thread : pc[u] \in Callbacks
      BY <2>2
    <3>2. pc'[u] = pc[u]
      BY <1>1, <3>1
    <3> QED BY <3>1, <3>2 DEF Ready, CallInv
  <2>3. CASE pending = "none" /\ \A u \in Thread : pc[u] \notin Callbacks
    <3>1. pending' = "none" /\ \A u \in Thread : pc'[u] \notin Callbacks
      BY <1>1, <2>3
    <3> QED BY <2>3, <3>1 DEF Ready, CallInv
  <2> QED BY <2>1, <2>2, <2>3
<1>3. Told' = Told
  <2>1. (\E u \in Thread : pc'[u] = "settle") <=> (\E u \in Thread : pc[u] = "settle")
    BY <1>1
  <2>2. opened' = opened
    OBVIOUS
  <2> QED BY ONLY <2>1, <2>2, Zenon DEF Told
<1>4. Owes' = Owes
  <2> DEFINE Wants(u) == pc[u] = "closed" \/ (pc[u] = "run" /\ status = "Closed")
  <2>1. \A u \in Thread : Wants(u)' <=> Wants(u)
    BY <1>1 DEF Owing, Callbacks
  <2>2. (\E u \in Thread : Wants(u)') <=> (\E u \in Thread : Wants(u))
    BY <2>1
  <2>3. Owes' <=> (CallNow' = "close" \/ \E u \in Thread : Wants(u)')
    BY DEF Owes
  <2>4. Owes <=> (CallNow = "close" \/ \E u \in Thread : Wants(u))
    BY DEF Owes
  <2>5. Owes' <=> Owes
    BY <1>2, <2>2, <2>3, <2>4
  <2> QED BY ONLY <2>5, Zenon DEF Owes
<1>5. ToldInv'
  <2>1. opened /\ status = "Closed" => AtClose'
    <3>1. ASSUME opened, status = "Closed"
          PROVE  AtClose'
      <4>1. CASE pending = "close"
        BY <4>1 DEF AtClose
      <4>2. CASE \E u \in Thread : pc[u] \in {"close", "closed"}
        <5>1. PICK u \in Thread : pc[u] \in {"close", "closed"}
          BY <4>2
        <5>2. CASE u = t
          BY <5>1, <5>2 DEF Callbacks
        <5>3. CASE u # t
          BY <1>1, <5>1, <5>3 DEF AtClose
        <5> QED BY <5>2, <5>3
      <4> QED BY <3>1, <4>1, <4>2 DEF Ready, ToldInv, AtClose
    <3> QED BY <3>1
  <2> QED BY <2>1 DEF Ready, ToldInv
<1> QED BY <1>2, <1>3, <1>4, <1>5 DEF Life!vars

LEMMA Outside ==
  ASSUME Ready, SessionFails \/ SessionEnds \/ Age
  PROVE  ToldInv' /\ UNCHANGED Life!vars
<1>1. UNCHANGED <<status, opened, pending, pc, listed>>
  BY DEF SessionFails, SessionEnds, Age, client, outside
<1> QED BY <1>1 DEF Ready, ToldInv, AtClose, CallNow, Under, Told, Owes, Life!vars

(* A run, from a place that is no callback: nobody is in one.              *)
LEMMA NoCall ==
  ASSUME Ready, NEW t \in Thread, pc[t] \in Active
  PROVE  /\ pending = "none" /\ \A u \in Thread \ {t} : pc[u] \notin Active
         /\ pc[t] \notin Callbacks => CallNow = "none"
         /\ pc[t] \in Callbacks => CallNow = pc[t]
<1>1. pending = "none" /\ \A u \in Thread \ {t} : pc[u] \notin Active
  BY Sole DEF Ready
<1>2. pc[t] \notin Callbacks => CallNow = "none"
  BY <1>1 DEF Ready, CallInv, Active, Runs, Callbacks
<1> QED BY <1>1, <1>2 DEF Ready, CallInv

(* After it the run is at p, and nothing is pending.                       *)
LEMMA CallAfter ==
  ASSUME Ready, NEW t \in Thread, NEW p \in Runs, Goto(t, p), pending' = "none",
         \A u \in Thread \ {t} : pc[u] \notin Active
  PROVE  /\ p \in Callbacks => CallNow' = p
         /\ p \notin Callbacks => CallNow' = "none"
         /\ p \in {"close", "closed"} => Owes' = TRUE
         /\ p \notin {"close", "closed", "run"} => Owes' = FALSE
<1>1. pc'[t] = p /\ \A u \in Thread \ {t} : pc'[u] \notin Active
  BY Going
<1>2. p \notin Callbacks => \A u \in Thread : pc'[u] \notin Callbacks
  BY <1>1 DEF Active, Runs, Callbacks
<1>3. /\ p \in Callbacks => CallNow' = p
      /\ p \notin Callbacks => CallNow' = "none"
  BY <1>1, <1>2 DEF Ready, CallInv
<1>4. CASE p \in Active
  BY <1>1, <1>3, <1>4 DEF Ready, OwesInv, Owing
<1>5. CASE p \notin Active
  <2>1. p = "end" /\ \A u \in Thread : pc'[u] \notin Active
    BY <1>1, <1>5 DEF Active
  <2> QED BY <1>3, <2>1 DEF Ready, OwesInv
<1> QED BY <1>3, <1>4, <1>5

LEMMA ToldStays ==
  ASSUME Ready, NEW t \in Thread, NEW p, Goto(t, p), pc[t] # "settle", p # "settle",
         UNCHANGED opened
  PROVE  UNCHANGED Told
<1>1. pc'[t] = p /\ \A u \in Thread \ {t} : pc'[u] = pc[u]
  BY Going
<1>2. (\E u \in Thread : pc'[u] = "settle") <=> (\E u \in Thread : pc[u] = "settle")
  BY <1>1
<1>3. opened' = opened
  OBVIOUS
<1> QED BY ONLY <1>2, <1>3, Zenon DEF Told

----------------------------------------------------------------------------
(* Steps of the life.                                                      *)

LEMMA RunLives ==
  ASSUME Ready, NEW t \in Thread, Run(t)
  PROVE  ToldInv' /\ [Life!Next]_(Life!vars)
<1>1. pc[t] = "run" /\ UNCHANGED <<opened, pending, listed>>
  BY DEF Run, At
<1>2. /\ pending = "none" /\ CallNow = "none"
      /\ \A u \in Thread \ {t} : pc[u] \notin Active
  BY <1>1, NoCall DEF Active, Runs, Callbacks
<1>3. \/ status \in {"Opened", "Invalid", "Closing"} /\ Goto(t, "idle") /\ UNCHANGED status
      \/ status = "Invalid" /\ Goto(t, "open") /\ status' = "Opening"
      \/ status = "Opened" /\ Goto(t, "heart") /\ UNCHANGED status
      \/ status = "Closing" /\ Goto(t, "close") /\ status' = "Closed"
      \/ status = "Closed" /\ Goto(t, "closed") /\ UNCHANGED status
  <2>1. /\ status # "Opening"
        /\ status \in {"Invalid", "Opened"} => heart = "Checking"
        /\ status = "Closed" => runnable
    BY <1>1 DEF Ready, IInv, Places
  <2>2. status \in Statuses
    BY DEF Ready, IInv, TypeOK
  <2>3. CASE ~runnable /\ Goto(t, "idle") /\ UNCHANGED status
    BY <2>1, <2>2, <2>3 DEF Statuses
  <2>4. CASE Enter(t, TRUE)
    <3>1. CASE status = "Invalid"
      BY <2>1, <2>4, <3>1 DEF Enter
    <3>2. CASE status = "Opened"
      BY <2>1, <2>4, <3>2 DEF Enter
    <3>3. CASE status \in {"Closing", "Closed"}
      BY <2>1, <2>4, <3>3 DEF Enter
    <3> QED BY <2>1, <2>2, <3>1, <3>2, <3>3 DEF Statuses
  <2> QED BY <2>3, <2>4 DEF Run
<1>4. status # "Closed" => Owes = FALSE
  BY <1>1 DEF Ready, OwesInv, Owing, Active, Runs
<1>5. ASSUME NEW c \in Callbacks, Goto(t, c)
      PROVE  /\ CallNow' = c /\ UNCHANGED Told
             /\ c = "close" => Owes' = TRUE
             /\ c # "close" => Owes' = FALSE
             /\ pc'[t] = c /\ \A u \in Thread \ {t} : pc'[u] = pc[u]
  <2>1. pc'[t] = c /\ \A u \in Thread \ {t} : pc'[u] = pc[u]
    BY <1>5, Going
  <2>2. /\ CallNow' = c
        /\ c = "close" => Owes' = TRUE
        /\ c # "close" => Owes' = FALSE
    BY <1>1, <1>2, <1>5, CallAfter DEF Runs, Callbacks
  <2>3. UNCHANGED Told
    BY <1>1, <1>5, ToldStays DEF Callbacks
  <2> QED BY <2>1, <2>2, <2>3
<1>6. CASE status \in {"Opened", "Invalid", "Closing"} /\ Goto(t, "idle") /\ UNCHANGED status
  BY <1>1, <1>6, Quiet DEF Callbacks, Owing
<1>7. CASE status = "Invalid" /\ Goto(t, "open") /\ status' = "Opening"
  <2>1. CallNow' = "open" /\ UNCHANGED Told /\ Owes' = FALSE
    BY <1>5, <1>7 DEF Callbacks
  <2>2. ToldInv'
    BY <1>1, <1>7 DEF Ready, ToldInv
  <2>3. Life!Open
    BY <1>1, <1>2, <1>4, <1>7, <2>1 DEF Life!Open, Life!Call
  <2> QED BY <2>2, <2>3 DEF Life!Next
<1>8. CASE status = "Opened" /\ Goto(t, "heart") /\ UNCHANGED status
  <2>1. CallNow' = "heart" /\ UNCHANGED Told /\ Owes' = FALSE
    BY <1>5, <1>8 DEF Callbacks
  <2>2. ToldInv'
    BY <1>1, <1>8 DEF Ready, ToldInv
  <2>3. Life!Heart
    BY <1>1, <1>2, <1>4, <1>8, <2>1 DEF Life!Heart, Life!Call
  <2> QED BY <2>2, <2>3 DEF Life!Next
<1>9. CASE status = "Closing" /\ Goto(t, "close") /\ status' = "Closed"
  <2>1. CallNow' = "close" /\ UNCHANGED Told /\ Owes' = TRUE /\ pc'[t] = "close"
    BY <1>5, <1>9 DEF Callbacks
  <2>2. ToldInv'
    BY <1>1, <1>9, <2>1 DEF Ready, ToldInv, AtClose
  <2>3. Life!Close
    BY <1>1, <1>2, <1>9, <2>1 DEF Life!Close, Life!Call
  <2> QED BY <2>2, <2>3 DEF Life!Next
<1>10. CASE status = "Closed" /\ Goto(t, "closed") /\ UNCHANGED status
  BY <1>1, <1>10, Quiet DEF Callbacks, Owing
<1> QED BY <1>3, <1>6, <1>7, <1>8, <1>9, <1>10

LEMMA ReturnsLives ==
  ASSUME Ready, NEW t \in Thread, NEW callback \in Callbacks, Returns(t, callback)
  PROVE  ToldInv' /\ [Life!Next]_(Life!vars)
<1>1. /\ pc[t] = callback /\ callback \in {"open", "heart", "close"}
      /\ UNCHANGED <<status, opened, listed>>
  BY DEF Returns, At, client, Callbacks
<1>2. /\ pending = "none" /\ CallNow = callback
      /\ \A u \in Thread \ {t} : pc[u] \notin Active
  BY <1>1, NoCall DEF Active, Runs, Callbacks
<1>3. PICK p \in {"idle", "closed", "fail", "opened", "beat"} :
        /\ Goto(t, p)
        /\ p = "idle" => pending' = callback
        /\ p # "idle" => pending' = "none" /\ (callback = "close" <=> p = "closed")
  BY <1>1, <1>2 DEF Returns
<1>4. pc'[t] = p /\ \A u \in Thread \ {t} : pc'[u] = pc[u]
  BY <1>3, Going
<1>5. ToldInv'
  <2>1. ASSUME status = "Closed", opened
        PROVE  AtClose'
    <3>1. callback = "close"
      BY <1>1, <1>2, <2>1 DEF Ready, ToldInv, AtClose, Active, Runs, Callbacks
    <3> QED BY <1>3, <1>4, <3>1 DEF AtClose
  <2> QED BY <1>1, <2>1 DEF Ready, ToldInv
<1>6. Told' = Told
  BY <1>1, <1>3, ToldStays
<1>7. /\ callback = "close" => Owes = TRUE
      /\ callback # "close" => Owes = FALSE
  BY <1>1 DEF Ready, OwesInv, Owing, Active, Runs, Callbacks
<1>8. CASE p = "idle"
  <2>1. CallNow' = CallNow
    BY <1>1, <1>2, <1>3, <1>8 DEF Ready, CallInv
  <2>2. Owes' = Owes
    BY <1>1, <1>3, <1>7, <1>8 DEF Ready, OwesInv
  <2> QED BY <1>1, <1>5, <1>6, <2>1, <2>2 DEF Life!vars
<1>9. CASE p # "idle"
  <2>1. /\ CallNow' = "none"
        /\ p = "closed" => Owes' = TRUE
        /\ p # "closed" => Owes' = FALSE
    BY <1>2, <1>3, <1>9, CallAfter DEF Runs, Callbacks, Failures
  <2>2. Owes' = Owes
    <3>1. CASE callback = "close"
      BY <1>3, <1>7, <1>9, <2>1, <3>1
    <3>2. CASE callback # "close"
      BY <1>3, <1>7, <1>9, <2>1, <3>2
    <3> QED BY <3>1, <3>2
  <2>3. Life!Return
    BY <1>1, <1>2, <1>6, <2>1, <2>2 DEF Life!Return
  <2> QED BY <1>5, <2>3 DEF Life!Next
<1> QED BY <1>8, <1>9

LEMMA ExecDoneLives ==
  ASSUME Ready, NEW t \in Thread, ExecDone(t)
  PROVE  ToldInv' /\ [Life!Next]_(Life!vars)
<1>1. /\ pc[t] = "idle" /\ pending \in {"open", "heart", "close"} /\ pending' = "none"
      /\ UNCHANGED <<opened, listed>>
      /\ \A u \in Thread : pc[u] \notin Active
  BY DEF ExecDone, At, Ready, IInv, OneRunner, TypeOK, Callbacks
<1>2. PICK ok \in BOOLEAN : Enter(t, ok)
  BY DEF ExecDone
<1>3. /\ UNCHANGED status
      /\ \E p \in {"opened", "fail", "beat", "closed"} :
           Goto(t, p) /\ (pending = "close" <=> p = "closed")
  <2>1. \/ pending = "open" /\ status = "Opening"
        \/ pending = "heart" /\ status = "Opened" /\ heart = "CheckDone"
        \/ pending = "close" /\ status = "Closed"
    BY <1>1 DEF Ready, IInv, Places
  <2>2. CASE pending = "open" /\ status = "Opening"
    BY <1>2, <2>2 DEF Enter
  <2>3. CASE pending = "heart" /\ status = "Opened" /\ heart = "CheckDone"
    BY <1>2, <2>3 DEF Enter
  <2>4. CASE pending = "close" /\ status = "Closed"
    BY <1>2, <2>4 DEF Enter
  <2> QED BY <2>1, <2>2, <2>3, <2>4
<1>4. PICK p \in {"opened", "fail", "beat", "closed"} :
           Goto(t, p) /\ (pending = "close" <=> p = "closed")
  BY <1>3
<1>5. pc'[t] = p /\ \A u \in Thread \ {t} : pc'[u] = pc[u]
  BY <1>4, Going
<1>6. ToldInv'
  <2>1. ASSUME status = "Closed", opened
        PROVE  AtClose'
    <3>1. pending = "close"
      BY <1>1, <2>1 DEF Ready, ToldInv, AtClose, Active, Runs, Callbacks
    <3> QED BY <1>4, <1>5, <3>1 DEF AtClose
  <2> QED BY <1>1, <1>3, <2>1 DEF Ready, ToldInv
<1>7. Told' = Told
  BY <1>1, <1>4, ToldStays
<1>8. /\ CallNow = pending
      /\ pending = "close" => Owes = TRUE
      /\ pending # "close" => Owes = FALSE
  BY <1>1 DEF Ready, CallInv, OwesInv
<1>9. /\ CallNow' = "none"
      /\ p = "closed" => Owes' = TRUE
      /\ p # "closed" => Owes' = FALSE
  BY <1>1, <1>4, CallAfter DEF Runs, Callbacks, Failures
<1>10. Owes' = Owes
  <2>1. CASE pending = "close"
    BY <1>4, <1>8, <1>9, <2>1
  <2>2. CASE pending # "close"
    BY <1>4, <1>8, <1>9, <2>2
  <2> QED BY <2>1, <2>2
<1>11. Life!Return
  BY <1>1, <1>3, <1>7, <1>8, <1>9, <1>10 DEF Life!Return
<1> QED BY <1>6, <1>11 DEF Life!Next

LEMMA OpenedLives ==
  ASSUME Ready, NEW t \in Thread, Opened(t)
  PROVE  ToldInv' /\ [Life!Next]_(Life!vars)
<1>1. /\ pc[t] = "opened" /\ Goto(t, "settle") /\ status' = "Opened"
      /\ UNCHANGED <<opened, pending, listed>>
  BY DEF Opened, At, outside
<1>2. /\ pending = "none" /\ CallNow = "none" /\ Owes = FALSE
      /\ \A u \in Thread \ {t} : pc[u] \notin Active
  BY <1>1, NoCall DEF Ready, OwesInv, Owing, Active, Runs, Callbacks
<1>3. pc'[t] = "settle" /\ \A u \in Thread \ {t} : pc'[u] = pc[u]
  BY <1>1, Going
<1>4. CallNow' = "none" /\ Owes' = FALSE
  <2>1. "settle" \in Runs /\ "settle" \notin Callbacks
    BY DEF Runs, Callbacks
  <2> QED BY <1>1, <1>2, <2>1, CallAfter
<1>5. status = "Opening" /\ ~opened
  BY <1>1 DEF Ready, IInv, Places, ToldInv
<1>6. ~Told /\ Told'
  BY <1>1, <1>2, <1>3, <1>5 DEF Told, Active, Runs
<1>7. ToldInv'
  BY <1>1, <1>3, <1>5 DEF Ready, ToldInv
<1>8. Life!TellOpened
  BY <1>1, <1>2, <1>4, <1>5, <1>6 DEF Life!TellOpened
<1> QED BY <1>7, <1>8 DEF Life!Next

LEMMA SettleLives ==
  ASSUME Ready, NEW t \in Thread, Settle(t)
  PROVE  ToldInv' /\ [Life!Next]_(Life!vars)
<1>1. /\ pc[t] = "settle" /\ (Goto(t, "heart") \/ Goto(t, "end"))
      /\ opened' = TRUE /\ UNCHANGED <<status, pending, listed>>
  BY DEF Settle, At, outside
<1>2. /\ pending = "none" /\ CallNow = "none" /\ Owes = FALSE
      /\ \A u \in Thread \ {t} : pc[u] \notin Active
  BY <1>1, NoCall DEF Ready, OwesInv, Owing, Active, Runs, Callbacks
<1>3. status = "Opened"
  BY <1>1 DEF Ready, IInv, Places
<1>4. Told = TRUE /\ Told' = TRUE
  BY <1>1 DEF Told
<1>5. ToldInv'
  BY <1>1, <1>3 DEF Ready, ToldInv
<1>6. CASE Goto(t, "heart")
  <2>1. CallNow' = "heart" /\ Owes' = FALSE
    BY <1>1, <1>2, <1>6, CallAfter DEF Runs, Callbacks
  <2>2. Life!Heart
    BY <1>1, <1>2, <1>3, <1>4, <2>1 DEF Life!Heart, Life!Call
  <2> QED BY <1>5, <2>2 DEF Life!Next
<1>7. CASE Goto(t, "end")
  <2>1. CallNow' = "none" /\ Owes' = FALSE
    <3>1. "end" \in Runs /\ "end" \notin Callbacks
      BY DEF Runs, Callbacks
    <3> QED BY <1>1, <1>2, <1>7, <3>1, CallAfter
  <2> QED BY <1>1, <1>2, <1>4, <1>5, <2>1 DEF Life!vars
<1> QED BY <1>1, <1>6, <1>7

LEMMA FailingLives ==
  ASSUME Ready, NEW t \in Thread, Failing(t)
  PROVE  ToldInv' /\ [Life!Next]_(Life!vars)
<1>1. /\ pc[t] = "failing" /\ Goto(t, "closing") /\ status' = "Closing"
      /\ UNCHANGED <<opened, pending, listed>>
  BY DEF Failing, At, outside
<1>2. /\ pending = "none" /\ CallNow = "none" /\ Owes = FALSE
      /\ \A u \in Thread \ {t} : pc[u] \notin Active
  BY <1>1, NoCall DEF Ready, OwesInv, Owing, Active, Runs, Callbacks, Failures
<1>3. CallNow' = "none" /\ Owes' = FALSE
  <2>1. "closing" \in Runs /\ "closing" \notin Callbacks
    BY DEF Runs, Callbacks, Failures
  <2> QED BY <1>1, <1>2, <2>1, CallAfter
<1>4. status \in {"Opening", "Opened"}
  BY <1>1 DEF Ready, IInv, Places
<1>5. Told' = Told
  BY <1>1, ToldStays
<1>6. ToldInv'
  BY <1>1 DEF Ready, ToldInv
<1>7. Life!GiveUp
  BY <1>1, <1>2, <1>3, <1>4, <1>5 DEF Life!GiveUp
<1> QED BY <1>6, <1>7 DEF Life!Next

LEMMA CloseLives ==
  ASSUME Ready, NEW t \in Thread, Close(t)
  PROVE  ToldInv' /\ [Life!Next]_(Life!vars)
<1>1. /\ pc[t] = "closing" /\ UNCHANGED <<opened, pending, listed>>
      /\ \/ Goto(t, "close") /\ status' = "Closed"
         \/ Goto(t, "end") /\ status' = status
  BY DEF Close, At, outside
<1>2. CASE Goto(t, "end") /\ status' = status
  BY <1>1, <1>2, Quiet DEF Callbacks, Owing
<1>3. CASE Goto(t, "close") /\ status' = "Closed"
  <2>1. /\ pending = "none" /\ CallNow = "none" /\ status = "Closing"
        /\ \A u \in Thread \ {t} : pc[u] \notin Active
    BY <1>1, NoCall DEF Active, Runs, Callbacks, Failures, Ready, IInv, Places
  <2>2. pc'[t] = "close"
    BY <1>3, Going
  <2>3. CallNow' = "close" /\ Owes' = TRUE
    BY <1>1, <1>3, <2>1, CallAfter DEF Runs, Callbacks
  <2>4. Told' = Told
    BY <1>1, <1>3, ToldStays
  <2>5. ToldInv'
    BY <1>1, <1>3, <2>2 DEF Ready, ToldInv, AtClose
  <2>6. Life!Close
    BY <1>1, <1>3, <2>1, <2>3, <2>4 DEF Life!Close, Life!Call
  <2> QED BY <2>5, <2>6 DEF Life!Next
<1> QED BY <1>1, <1>2, <1>3

LEMMA ClosedLives ==
  ASSUME Ready, NEW t \in Thread, Closed(t)
  PROVE  ToldInv' /\ [Life!Next]_(Life!vars)
<1>1. /\ pc[t] = "closed" /\ Goto(t, "end") /\ opened' = FALSE
      /\ UNCHANGED <<status, pending, listed>>
  BY DEF Closed, At, outside
<1>2. /\ pending = "none" /\ CallNow = "none" /\ Owes = TRUE
      /\ \A u \in Thread \ {t} : pc[u] \notin Active
  BY <1>1, NoCall DEF Ready, OwesInv, Owing, Active, Runs, Callbacks
<1>3. pc'[t] = "end" /\ \A u \in Thread \ {t} : pc'[u] = pc[u]
  BY <1>1, Going
<1>4. CallNow' = "none" /\ Owes' = FALSE
  <2>1. "end" \in Runs /\ "end" \notin Callbacks
    BY DEF Runs, Callbacks
  <2> QED BY <1>1, <1>2, <2>1, CallAfter
<1>5. status = "Closed"
  BY <1>1 DEF Ready, IInv, Places
<1>6. Told' = FALSE
  BY <1>1, <1>2, <1>3 DEF Told, Active, Runs
<1>7. ToldInv'
  BY <1>1 DEF Ready, ToldInv
<1>8. Life!TellClosed
  BY <1>1, <1>2, <1>4, <1>5, <1>6 DEF Life!TellClosed
<1> QED BY <1>7, <1>8 DEF Life!Next

LEMMA CheckLives ==
  ASSUME Ready, NEW t \in Thread, Check(t)
  PROVE  ToldInv' /\ [Life!Next]_(Life!vars)
<1>1. pc[t] = "decide" /\ UNCHANGED <<opened, pending>> /\ listed
  BY DEF Ready, IInv, Checks, Check, At, outside, CheckInvalid, CheckOpening, CheckOpened,
         CheckClosing, CheckClosed, Needless, GrantAbort, NoAbort, GrantRun, Grant, client
<1>2. \/ UNCHANGED <<status, listed>> /\ (Goto(t, "idle") \/ Goto(t, "abort"))
      \/ /\ UNCHANGED <<status, listed>> /\ Goto(t, "run")
         /\ \/ busy = 0 /\ seen \in {"Invalid", "Closing"}
            \/ seen = "Opened" /\ ~main_abort
      \/ busy = 0 /\ seen = "Opened" /\ status' = "Closing" /\ Goto(t, "run") /\ UNCHANGED listed
      \/ busy = 0 /\ seen = "Closed" /\ status' = "Invalid" /\ Goto(t, "idle") /\ UNCHANGED listed
      \/ busy = 0 /\ seen = "Closed" /\ ~listed' /\ Goto(t, "run") /\ UNCHANGED status
  BY DEF Check, CheckInvalid, CheckOpening, CheckOpened, CheckClosing, CheckClosed,
         Needless, GrantAbort, NoAbort, GrantRun, Grant, client
<1>3. ASSUME busy = 0
      PROVE  /\ CallNow = "none" /\ Owes = FALSE /\ ~AtClose /\ status # "Opening"
             /\ ~InCall("open") /\ ~InCall("close")
             /\ pending = "none" /\ \A u \in Thread : pc[u] \notin Active
  <2>1. pending = "none" /\ \A u \in Thread : pc[u] \notin Active
    BY <1>3, NoneBusy DEF Ready, CountedPlaces, Active
  <2>2. CallNow = "none" /\ Owes = FALSE
    BY <2>1 DEF Ready, CallInv, OwesInv, Active, Runs, Callbacks
  <2>3. /\ ~AtClose /\ status # "Opening" /\ ~InCall("open") /\ ~InCall("close")
    BY <2>1 DEF Ready, IInv, Opening, AtClose, InCall, Active, Runs, Callbacks, Failures
  <2> QED BY <2>1, <2>2, <2>3
<1>4. ASSUME busy = 0, NEW p \in {"idle", "run"}, Goto(t, p)
      PROVE  /\ CallNow' = "none" /\ UNCHANGED Told
             /\ p = "idle" \/ status' # "Closed" => Owes' = FALSE
             /\ p = "run" /\ status' = "Closed" => Owes' = TRUE
  <2>1. pc'[t] = p /\ \A u \in Thread \ {t} : pc'[u] = pc[u]
    BY <1>4, Going
  <2>2. pending' = "none" /\ \A u \in Thread \ {t} : pc'[u] \notin Active
    BY <1>1, <1>3, <1>4, <2>1
  <2>3. UNCHANGED Told
    BY <1>1, <1>4, ToldStays
  <2>4. CallNow' = "none"
    BY <2>1, <2>2 DEF Ready, CallInv, Active, Runs, Callbacks
  <2>5. CASE p = "idle"
    <3>1. \A u \in Thread : pc'[u] \notin Active
      BY <2>1, <2>2, <2>5 DEF Active, Runs, Callbacks, Failures
    <3> QED BY <2>2, <2>3, <2>4, <2>5, <3>1 DEF Ready, OwesInv
  <2>6. CASE p = "run"
    <3>1. pc'[t] \in Active /\ pc'[t] = "run"
      BY <2>1, <2>6 DEF Active, Runs
    <3> QED BY <2>3, <2>4, <2>6, <3>1 DEF Ready, OwesInv, Owing
  <2> QED BY <2>5, <2>6
<1>5. CASE UNCHANGED <<status, listed>> /\ (Goto(t, "idle") \/ Goto(t, "abort"))
  BY <1>1, <1>5, Quiet DEF Callbacks, Owing
<1>6. CASE /\ UNCHANGED <<status, listed>> /\ Goto(t, "run")
           /\ \/ busy = 0 /\ seen \in {"Invalid", "Closing"}
              \/ seen = "Opened" /\ ~main_abort
  <2>1. status # "Closed"
    BY <1>1, <1>3, <1>6 DEF Ready, IInv, Checks
  <2> QED BY <1>1, <1>6, <2>1, Quiet DEF Callbacks, Owing
<1>7. CASE busy = 0 /\ seen = "Opened" /\ status' = "Closing" /\ Goto(t, "run") /\ UNCHANGED listed
  <2>1. status \in {"Opened", "Closing"}
    BY <1>1, <1>3, <1>7 DEF Ready, IInv, TypeOK, Statuses, Checks
  <2>2. ToldInv'
    BY <1>1, <1>7 DEF Ready, ToldInv
  <2>3. CallNow' = "none" /\ UNCHANGED Told /\ Owes' = FALSE
    BY <1>4, <1>7
  <2>4. Life!GiveUp \/ UNCHANGED Life!vars
    BY <1>3, <1>7, <2>1, <2>3 DEF Life!GiveUp, Life!vars
  <2> QED BY <2>2, <2>4 DEF Life!Next
<1>8. CASE busy = 0 /\ seen = "Closed" /\ status' = "Invalid" /\ Goto(t, "idle") /\ UNCHANGED listed
  <2>1. status = "Closed"
    BY <1>1, <1>8 DEF Ready, IInv, Checks
  <2>2. ~opened /\ \A u \in Thread : pc[u] # "settle"
    BY <1>3, <1>8, <2>1 DEF Ready, ToldInv, Active, Runs
  <2>3. ToldInv'
    BY <1>1, <1>8, <2>2 DEF Ready, ToldInv
  <2>4. ~Told
    BY <2>2 DEF Told
  <2>5. CallNow' = "none" /\ UNCHANGED Told /\ Owes' = FALSE
    BY <1>4, <1>8
  <2>6. Life!Reset
    BY <1>1, <1>3, <1>8, <2>1, <2>4, <2>5 DEF Life!Reset, Life!Over
  <2> QED BY <2>3, <2>6 DEF Life!Next
<1>9. CASE busy = 0 /\ seen = "Closed" /\ ~listed' /\ Goto(t, "run") /\ UNCHANGED status
  <2>1. status = "Closed"
    BY <1>1, <1>9 DEF Ready, IInv, Checks
  <2>2. ~opened /\ \A u \in Thread : pc[u] # "settle"
    BY <1>3, <1>9, <2>1 DEF Ready, ToldInv, Active, Runs
  <2>3. ToldInv'
    BY <1>1, <1>9, <2>2 DEF Ready, ToldInv
  <2>4. ~Told
    BY <2>2 DEF Told
  <2>5. CallNow' = "none" /\ UNCHANGED Told /\ Owes' = TRUE
    BY <1>4, <1>9, <2>1
  <2>6. Life!Remove
    BY <1>1, <1>3, <1>9, <2>1, <2>4, <2>5 DEF Life!Remove, Life!Over
  <2> QED BY <2>3, <2>6 DEF Life!Next
<1> QED BY <1>2, <1>5, <1>6, <1>7, <1>8, <1>9

----------------------------------------------------------------------------
(* The refinement.                                                         *)

LEMMA StepLives ==
  ASSUME Ready, [Next]_vars
  PROVE  ToldInv' /\ [Life!Next]_(Life!vars)
<1>1. CASE UNCHANGED vars
  BY <1>1 DEF vars, Ready, ToldInv, AtClose, CallNow, Under, Told, Owes, Life!vars
<1>2. ASSUME NEW t \in Thread, RunStep(t)
      PROVE  ToldInv' /\ [Life!Next]_(Life!vars)
  <2>1. CASE Beat(t)
    BY <2>1, Quiet DEF Beat, At, outside, Callbacks, Owing
  <2>2. CASE Fail(t)
    BY <2>2, Quiet DEF Fail, At, client, Callbacks, Owing
  <2>3. CASE End(t) \/ Leave(t)
    BY <2>3, Quiet DEF End, Leave, At, client, outside, Callbacks, Owing
  <2>4. CASE Release(t)
    BY <2>4, Quiet DEF Release, At, client, outside, Callbacks, Owing
  <2>5. CASE Abort(t) \/ Aborted(t)
    BY <2>5, Quiet DEF Abort, Aborted, At, client, outside, Callbacks, Owing
  <2> QED BY <1>2, <2>1, <2>2, <2>3, <2>4, <2>5, RunLives, ReturnsLives, OpenedLives,
             SettleLives, FailingLives, CloseLives, ClosedLives DEF RunStep
<1>3. ASSUME NEW t \in Thread, NEW d \in BOOLEAN, CheckBegin(t, d) \/ CheckStatus(t)
      PROVE  ToldInv' /\ [Life!Next]_(Life!vars)
  <2>1. /\ pc[t] \in {"idle", "check"} /\ (Goto(t, "check") \/ Goto(t, "decide"))
        /\ UNCHANGED <<status, opened, pending, listed>>
    BY <1>3 DEF CheckBegin, CheckStatus, At, client, outside
  <2> QED BY <2>1, Quiet DEF Callbacks, Owing
<1>4. ASSUME NEW t \in Thread, ExecDone(t)
      PROVE  ToldInv' /\ [Life!Next]_(Life!vars)
  BY <1>4, ExecDoneLives
<1>5. ASSUME NEW t \in Thread, Check(t)
      PROVE  ToldInv' /\ [Life!Next]_(Life!vars)
  BY <1>5, CheckLives
<1>6. CASE SessionFails \/ SessionEnds \/ Age
  BY <1>6, Outside
<1> QED BY <1>1, <1>2, <1>3, <1>4, <1>5, <1>6 DEF Next

(* The client and its listeners see the life ClientLife promises: open,    *)
(* heart and close one at a time and in order, opened told at most once    *)
(* between an open and its close, closed once for each close and once more *)
(* at the removal, and no open before the last close has returned and was  *)
(* told.                                                                   *)
THEOREM LifeKept ==
  ASSUME Prompt
  PROVE  Spec => KeepsLife
<1>1. Init => ToldInv
  BY DEF Init, ToldInv
<1>2. Init => Life!Init
  <2> SUFFICES ASSUME Init PROVE Life!Init
    OBVIOUS
  <2>1. IInv
    BY InitInv
  <2>2. CallInv /\ OwesInv
    BY <2>1, CallIsKnown, OwesIsKnown
  <2>3. CallNow = "none" /\ Owes = FALSE
    BY <2>2 DEF Init, CallInv, OwesInv, Callbacks, Active, Runs, Failures
  <2>4. Told = FALSE
    BY DEF Init, Told
  <2> QED BY <2>3, <2>4 DEF Init, Life!Init
<1>3. IInv /\ CallInv /\ OwesInv /\ ToldInv /\ IInv' /\ CallInv' /\ OwesInv' /\ [Next]_vars
        => ToldInv' /\ [Life!Next]_(Life!vars)
  BY StepLives DEF Ready
<1>4. IInv => CallInv /\ OwesInv
  BY CallIsKnown, OwesIsKnown
<1> QED BY <1>1, <1>2, <1>3, <1>4, Invariance, PTL DEF Spec, KeepsLife, Life!Spec
=============================================================================
