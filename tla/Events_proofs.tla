--------------------------- MODULE Events_proofs ---------------------------
(***************************************************************************)
(* Proofs about Events, for any threads, receivers, oneshot and preproc:   *)
(* the types, that what is subscribed can be erased and is not freed, that *)
(* every reference is accounted for, and that Events implements EventBus.  *)
(***************************************************************************)
EXTENDS Events, SeqFacts, FiniteSetTheorems

(* What was never given to the manager is in none of its lists.            *)
Known ==
  /\ nodes \subseteq managed /\ ToSet(chain) \subseteq managed
  /\ \A t \in Thread : ToSet(recvers[t]) \cup ToSet(cleared[t]) \subseteq managed

(* No list has a receiver twice.                                           *)
Apart ==
  \A t \in Thread :
    IsInjective(visits[t]) /\ IsInjective(recvers[t]) /\ IsInjective(cleared[t])

(* The part of ChainIsErasable that the steps preserve by themselves.      *)
Chained ==
  /\ count = Len(chain) /\ IsInjective(chain)
  /\ \A r \in ToSet(chain) : (r \in nodes) = (r = Head(chain))

(* An emission that holds the mutex: it is alone, what it has yet to visit *)
(* is still subscribed and was not picked; what it picked is subscribed if *)
(* and only if it is not oneshot, and nothing but what may decline was     *)
(* passed over.                                                            *)
Emission(t) ==
  /\ \A u \in Thread : visits[u] # <<>> => u = t
  /\ ToSet(visits[t]) \subseteq ToSet(chain) \ ToSet(recvers[t])
  /\ ToSet(recvers[t]) \ Oneshot \subseteq ToSet(chain)
  /\ ToSet(recvers[t]) \cap Oneshot \cap ToSet(chain) = {}
  /\ ToSet(chain) \ Preproc \subseteq ToSet(recvers[t]) \cup ToSet(visits[t])
Visiting == \A t \in Thread : visits[t] # <<>> => Emission(t)

IInv == TypeOK /\ Known /\ Apart /\ Chained /\ Visiting /\ RefsBalance

----------------------------------------------------------------------------
(* The lists of all threads, and two that differ for one thread at most.   *)
Lists == [Thread -> Seq(Receiver)]
Differ(l, m, t) == \A u \in Thread : u # t => m[u] = l[u]
Pushed(l, m, t, x) == m[t] = Append(l[t], x) /\ Differ(l, m, t)
Popped(l, m, t) == m[t] = Tail(l[t]) /\ Differ(l, m, t)

(* The holders of r in lists that differ for one thread: the same, one     *)
(* more or one less.                                                       *)
LEMMA HoldersFact ==
  ASSUME NEW l \in Lists, NEW m \in Lists,
         NEW t \in Thread, NEW r, Differ(l, m, t)
  PROVE  /\ Cardinality(Holders(l, r)) \in Nat /\ Cardinality(Holders(m, r)) \in Nat
         /\ (r \in ToSet(m[t]) <=> r \in ToSet(l[t])) => Holders(m, r) = Holders(l, r)
         /\ r \in ToSet(m[t]) /\ r \notin ToSet(l[t])
              => Cardinality(Holders(m, r)) = Cardinality(Holders(l, r)) + 1
         /\ r \notin ToSet(m[t]) /\ r \in ToSet(l[t])
              => Cardinality(Holders(m, r)) = Cardinality(Holders(l, r)) - 1
<1>1. IsFiniteSet(Holders(l, r)) /\ IsFiniteSet(Holders(m, r))
  BY EventsAssumption, FS_Subset DEF Holders
<1>2. Cardinality(Holders(l, r)) \in Nat /\ Cardinality(Holders(m, r)) \in Nat
  BY <1>1, FS_CardinalityType
<1>3. ASSUME r \in ToSet(m[t]) <=> r \in ToSet(l[t]) PROVE Holders(m, r) = Holders(l, r)
  BY <1>3 DEF Holders, Differ
<1>4. ASSUME r \in ToSet(m[t]), r \notin ToSet(l[t])
      PROVE  Cardinality(Holders(m, r)) = Cardinality(Holders(l, r)) + 1
  <2>1. Holders(m, r) = Holders(l, r) \cup {t} /\ t \notin Holders(l, r)
    BY <1>4 DEF Holders, Differ
  <2> QED BY <1>1, <2>1, FS_AddElement
<1>5. ASSUME r \notin ToSet(m[t]), r \in ToSet(l[t])
      PROVE  Cardinality(Holders(m, r)) = Cardinality(Holders(l, r)) - 1
  <2>1. Holders(m, r) = Holders(l, r) \ {t} /\ t \in Holders(l, r)
    BY <1>5 DEF Holders, Differ
  <2> QED BY <1>1, <2>1, FS_RemoveElement
<1> QED BY <1>2, <1>3, <1>4, <1>5

(* They are finitely many, and some if a thread holds r.                   *)
LEMMA HoldersCount ==
  ASSUME NEW l \in Lists, NEW r
  PROVE  /\ Cardinality(Holders(l, r)) \in Nat
         /\ \A t \in Thread : r \in ToSet(l[t]) => Cardinality(Holders(l, r)) > 0
<1>1. IsFiniteSet(Holders(l, r)) /\ Cardinality(Holders(l, r)) \in Nat
  BY EventsAssumption, FS_Subset, FS_CardinalityType DEF Holders
<1>2. ASSUME NEW t \in Thread, r \in ToSet(l[t]) PROVE Cardinality(Holders(l, r)) > 0
  <2>1. Holders(l, r) # {}
    BY <1>2 DEF Holders
  <2> QED BY <1>1, <2>1, FS_EmptySet
<1> QED BY <1>1, <1>2

(* What holds a receiver keeps it from being freed.                        *)
LEMMA HeldIsCounted ==
  ASSUME TypeOK, RefsBalance, NEW r \in Receiver
  PROVE  /\ r \in owned \/ r \in ToSet(chain) => refs[r] > 0
         /\ \A t \in Thread : r \in ToSet(recvers[t]) \/ r \in ToSet(cleared[t]) => refs[r] > 0
<1> DEFINE n == Cardinality(Holders(recvers, r))
           m == Cardinality(Holders(cleared, r))
<1>1. refs[r] = (IF r \in owned THEN 1 ELSE 0) + (IF r \in ToSet(chain) THEN 1 ELSE 0) + n + m
  BY DEF RefsBalance, Uses
<1>2. n \in Nat /\ \A t \in Thread : r \in ToSet(recvers[t]) => n > 0
  BY HoldersCount DEF TypeOK, Lists
<1>3. m \in Nat /\ \A t \in Thread : r \in ToSet(cleared[t]) => m > 0
  BY HoldersCount DEF TypeOK, Lists
<1> HIDE DEF n, m
<1> QED BY <1>1, <1>2, <1>3

(* The order of the visits, the linked before the first, leaves none out.  *)
LEMMA VisitedFact ==
  ASSUME NEW s \in Seq(Receiver), s # <<>>
  PROVE  /\ Append(Tail(s), Head(s)) \in Seq(Receiver)
         /\ Append(Tail(s), Head(s)) # <<>>
         /\ ToSet(Append(Tail(s), Head(s))) = ToSet(s)
         /\ IsInjective(s) => IsInjective(Append(Tail(s), Head(s)))
<1>1. /\ Head(s) \in Receiver /\ Tail(s) \in Seq(Receiver)
      /\ ToSet(s) = {Head(s)} \cup ToSet(Tail(s))
      /\ IsInjective(s) => IsInjective(Tail(s)) /\ Head(s) \notin ToSet(Tail(s))
  BY TailFacts
<1> DEFINE a == Tail(s)
           h == Head(s)
<1> HIDE DEF a, h
<1>2. a \in Seq(Receiver) /\ h \in Receiver
  BY <1>1 DEF a, h
<1>3. /\ Append(a, h) \in Seq(Receiver)
      /\ ToSet(Append(a, h)) = ToSet(a) \cup {h}
      /\ IsInjective(a) /\ h \notin ToSet(a) => IsInjective(Append(a, h))
  BY <1>2, AppendFacts
<1>4. Append(a, h) # <<>>
  BY <1>2
<1>5. ToSet(s) = {h} \cup ToSet(a) /\ (IsInjective(s) => IsInjective(a) /\ h \notin ToSet(a))
  BY <1>1 DEF a, h
<1> QED BY <1>3, <1>4, <1>5 DEF a, h

(* Erasing a receiver of the chain leaves the others, and leaves the first *)
(* of them the node.                                                       *)
LEMMA EraseFact ==
  ASSUME TypeOK, Chained, NEW r, r \in ToSet(chain), Erase(r)
  PROVE  /\ chain' \in Seq(Receiver) /\ count' \in Nat
         /\ ToSet(chain') = ToSet(chain) \ {r}
         /\ Chained' /\ nodes \ {r} \subseteq nodes'
         /\ nodes' \subseteq nodes \cup ToSet(chain)
<1>1. PICK s \in Seq(Receiver) : s = chain
  BY DEF TypeOK
<1>2. IsInjective(s) /\ r \in ToSet(s) /\ count = Len(s)
  BY <1>1 DEF Chained
<1>3. PICK i \in DOMAIN s : s[i] = r /\ chain' = RemoveAt(s, i)
  <2>1. \E i \in DOMAIN s : s[i] = r
    BY <1>2 DEF ToSet
  <2>2. (CHOOSE i \in DOMAIN s : s[i] = r) \in DOMAIN s
        /\ s[CHOOSE i \in DOMAIN s : s[i] = r] = r
    BY <2>1
  <2> QED BY <1>1, <2>2 DEF Erase
<1>4. PICK c \in Seq(Receiver) : c = chain'
  BY <1>3, RemoveAtFacts
<1>5. /\ ToSet(c) = ToSet(s) \ {r} /\ IsInjective(c)
  BY <1>2, <1>3, <1>4, RemoveFacts
<1>6. /\ Len(s) \in Nat /\ i \in 1 .. Len(s) /\ Len(c) = Len(s) - 1
      /\ \A j \in 1 .. Len(s) - 1 : c[j] = IF j < i THEN s[j] ELSE s[j + 1]
  BY <1>3, <1>4, RemoveAtFacts
<1>7. Head(s) = s[1] /\ 1 \in DOMAIN s /\ (Len(s) > 1 => Head(c) = c[1] /\ 2 \in DOMAIN s)
  BY <1>6
<1>8. count' = Len(c) /\ count' \in Nat
  BY <1>2, <1>6 DEF Erase
<1>9. /\ nodes' = IF r # Head(s) THEN nodes
                   ELSE IF Len(s) = 1 THEN nodes \ {r} ELSE nodes \cup {s[2]}
      /\ \A x \in ToSet(s) : (x \in nodes) = (x = Head(s))
  BY <1>1 DEF Erase, Chained
<1>10. ASSUME NEW x \in ToSet(c) PROVE (x \in nodes') = (x = Head(c))
  <2>1. x \in ToSet(s) /\ x # r /\ Len(s) > 1
    <3>1. Len(c) # 0
      BY <1>10, EmptyFacts
    <3> QED BY <1>5, <1>6, <1>10, <3>1
  <2>2. CASE i = 1
    <3>1. r = Head(s) /\ Head(c) = s[2]
      BY <1>3, <1>6, <1>7, <2>1, <2>2
    <3> QED BY <1>9, <2>1, <3>1
  <2>3. CASE i # 1
    <3>1. Head(c) = Head(s)
      BY <1>6, <1>7, <2>1, <2>3
    <3>2. r # Head(s)
      BY <1>2, <1>3, <1>7, <2>3 DEF IsInjective
    <3> QED BY <1>9, <2>1, <3>1, <3>2
  <2> QED BY <2>2, <2>3
<1>11. Chained'
  BY <1>4, <1>5, <1>8, <1>10 DEF Chained
<1>12. nodes \ {r} \subseteq nodes' /\ nodes' \subseteq nodes \cup ToSet(s)
  <2>1. Len(s) > 1 => s[2] \in ToSet(s)
    BY <1>7 DEF ToSet
  <2>2. Len(s) # 1 => Len(s) > 1
    BY <1>6
  <2> QED BY <1>9, <2>1, <2>2
<1> QED BY <1>1, <1>4, <1>5, <1>8, <1>11, <1>12

(* A thread's list grows at its end, with a receiver that was not in it.   *)
LEMMA PushFact ==
  ASSUME NEW l \in Lists, NEW m \in Lists,
         NEW t \in Thread, NEW x \in Receiver, x \notin ToSet(l[t]), IsInjective(l[t]),
         Pushed(l, m, t, x)
  PROVE  /\ ToSet(m[t]) = ToSet(l[t]) \cup {x} /\ IsInjective(m[t])
         /\ \A r : Cardinality(Holders(l, r)) \in Nat
         /\ \A r : Cardinality(Holders(m, r))
                     = IF r = x THEN Cardinality(Holders(l, r)) + 1
                                ELSE Cardinality(Holders(l, r))
<1>1. ToSet(m[t]) = ToSet(l[t]) \cup {x} /\ IsInjective(m[t])
  BY AppendFacts DEF Lists, Pushed
<1>2. ASSUME NEW r
      PROVE  /\ Cardinality(Holders(l, r)) \in Nat
             /\ Cardinality(Holders(m, r)) = IF r = x THEN Cardinality(Holders(l, r)) + 1
                                                      ELSE Cardinality(Holders(l, r))
  <2>1. /\ Cardinality(Holders(l, r)) \in Nat
        /\ (r \in ToSet(m[t]) <=> r \in ToSet(l[t])) => Holders(m, r) = Holders(l, r)
        /\ r \in ToSet(m[t]) /\ r \notin ToSet(l[t])
             => Cardinality(Holders(m, r)) = Cardinality(Holders(l, r)) + 1
    BY HoldersFact DEF Pushed
  <2>2. CASE r = x
    <3>1. r \in ToSet(m[t]) /\ r \notin ToSet(l[t])
      BY <1>1, <2>2
    <3> QED BY <2>1, <2>2, <3>1
  <2>3. CASE r # x
    <3>1. r \in ToSet(m[t]) <=> r \in ToSet(l[t])
      BY <1>1, <2>3
    <3> QED BY <2>1, <2>3, <3>1
  <2> QED BY <2>2, <2>3
<1> QED BY <1>1, <1>2

(* A thread's list loses its head.                                         *)
LEMMA PopFact ==
  ASSUME NEW l \in Lists, NEW m \in Lists,
         NEW t \in Thread, l[t] # <<>>, IsInjective(l[t]),
         Popped(l, m, t)
  PROVE  /\ ToSet(m[t]) = ToSet(l[t]) \ {Head(l[t])} /\ IsInjective(m[t])
         /\ Head(l[t]) \in Receiver /\ Head(l[t]) \in ToSet(l[t])
         /\ \A r : Cardinality(Holders(l, r)) \in Nat
         /\ \A r : Cardinality(Holders(m, r))
                     = IF r = Head(l[t]) THEN Cardinality(Holders(l, r)) - 1
                                         ELSE Cardinality(Holders(l, r))
<1> DEFINE x == Head(l[t])
<1>1. /\ ToSet(l[t]) = {x} \cup ToSet(m[t]) /\ IsInjective(m[t]) /\ x \notin ToSet(m[t])
      /\ x \in Receiver
  BY TailFacts DEF Lists, Popped
<1> HIDE DEF x
<1>2. ASSUME NEW r
      PROVE  /\ Cardinality(Holders(l, r)) \in Nat
             /\ Cardinality(Holders(m, r)) = IF r = x THEN Cardinality(Holders(l, r)) - 1
                                                      ELSE Cardinality(Holders(l, r))
  <2>1. /\ Cardinality(Holders(l, r)) \in Nat
        /\ (r \in ToSet(m[t]) <=> r \in ToSet(l[t])) => Holders(m, r) = Holders(l, r)
        /\ r \in ToSet(l[t]) /\ r \notin ToSet(m[t])
             => Cardinality(Holders(m, r)) = Cardinality(Holders(l, r)) - 1
    BY HoldersFact DEF Popped
  <2>2. CASE r = x
    <3>1. r \in ToSet(l[t]) /\ r \notin ToSet(m[t])
      BY <1>1, <2>2
    <3> QED BY <2>1, <2>2, <3>1
  <2>3. CASE r # x
    <3>1. r \in ToSet(m[t]) <=> r \in ToSet(l[t])
      BY <1>1, <2>3
    <3> QED BY <2>1, <2>3, <3>1
  <2> QED BY <2>2, <2>3
<1> QED BY <1>1, <1>2 DEF x

(* A new receiver joins the end of the chain.                              *)
LEMMA SubscribeKeeps ==
  ASSUME IInv, NEW x \in Receiver, Subscribe(x)
  PROVE  IInv'
<1>1. x \notin ToSet(chain) /\ x \notin nodes
  BY DEF IInv, Known, Subscribe
<1>2. PICK s \in Seq(Receiver) : s = chain
  BY DEF IInv, TypeOK
<1>3. PICK c \in Seq(Receiver) : c = chain'
  BY <1>2, AppendFacts DEF Subscribe
<1>4. /\ ToSet(c) = ToSet(s) \cup {x} /\ IsInjective(c) /\ Len(c) = Len(s) + 1
      /\ Head(c) = IF s = <<>> THEN x ELSE Head(s)
  <2>1. c = Append(s, x) /\ IsInjective(s) /\ x \notin ToSet(s)
    BY <1>1, <1>2, <1>3 DEF Subscribe, IInv, Chained
  <2> QED BY <2>1, AppendFacts
<1>5. TypeOK'
  BY <1>2, <1>3, <1>4 DEF IInv, TypeOK, Subscribe, Adjust
<1>6. Known' /\ Apart'
  BY <1>2, <1>3, <1>4 DEF IInv, Known, Apart, Subscribe
<1>7. Chained'
  <2>1. count' = Len(c)
    BY <1>2, <1>4 DEF Subscribe, IInv, Chained, TypeOK
  <2>2. ASSUME NEW r \in ToSet(c) PROVE (r \in nodes') = (r = Head(c))
    <3>1. CASE s = <<>>
      BY <1>2, <1>4, <2>2, <3>1, EmptyFacts DEF Subscribe
    <3>2. CASE s # <<>>
      <4>1. nodes' = nodes /\ Head(c) = Head(s) /\ Head(s) \in ToSet(s)
        BY <1>2, <1>4, <3>2, TailFacts DEF Subscribe
      <4> QED BY <1>1, <1>2, <1>4, <2>2, <4>1 DEF IInv, Chained
    <3> QED BY <3>1, <3>2
  <2> QED BY <1>3, <1>4, <2>1, <2>2 DEF Chained
<1>8. Visiting'
  BY DEF Visiting, Subscribe, MutexFree
<1>9. RefsBalance'
  <2> SUFFICES ASSUME NEW r \in Receiver PROVE refs'[r] = Uses(r)'
    BY DEF RefsBalance
  <2>1. refs[r] = Uses(r) /\ Cardinality(Holders(recvers, r)) \in Nat
        /\ Cardinality(Holders(cleared, r)) \in Nat
    BY HoldersCount DEF IInv, RefsBalance, TypeOK, Lists
  <2>2. refs'[r] = IF r = x THEN refs[r] + 1 ELSE refs[r]
    BY DEF IInv, TypeOK, Subscribe, Adjust
  <2>3. owned' = owned /\ recvers' = recvers /\ cleared' = cleared
        /\ ToSet(chain') = ToSet(chain) \cup {x}
    BY <1>2, <1>3, <1>4 DEF Subscribe
  <2>4. UNCHANGED <<Cardinality(Holders(recvers, r)), Cardinality(Holders(cleared, r))>>
    BY <2>3
  <2> QED BY <1>1, <2>1, <2>2, <2>3, <2>4 DEF Uses
<1> QED BY <1>5, <1>6, <1>7, <1>8, <1>9 DEF IInv

(* A receiver leaves the chain with the manager's reference.               *)
LEMMA UnsubscribeKeeps ==
  ASSUME IInv, NEW x \in Receiver, Unsubscribe(x)
  PROVE  IInv'
<1>1. /\ chain' \in Seq(Receiver) /\ count' \in Nat
      /\ ToSet(chain') = ToSet(chain) \ {x}
      /\ Chained' /\ nodes' \subseteq nodes \cup ToSet(chain)
  BY EraseFact DEF IInv, Unsubscribe
<1>2. UNCHANGED <<managed, owned, visits, recvers, cleared>> /\ x \in ToSet(chain)
  BY DEF Unsubscribe
<1>3. refs' = [refs EXCEPT ![x] = @ - 1] /\ refs \in [Receiver -> Nat] /\ refs[x] > 0
  BY <1>2, HeldIsCounted DEF IInv, TypeOK, Unsubscribe, Adjust
<1>4. refs' \in [Receiver -> Nat]
  BY <1>3
<1>5. nodes' \subseteq Receiver
  BY <1>1 DEF IInv, TypeOK, Known
<1>6. TypeOK'
  BY <1>1, <1>2, <1>4, <1>5 DEF IInv, TypeOK
<1>7. Known' /\ Apart'
  BY <1>1, <1>2 DEF IInv, Known, Apart
<1>8. Visiting'
  BY <1>2 DEF Visiting, Unsubscribe, MutexFree
<1>9. RefsBalance'
  <2> SUFFICES ASSUME NEW r \in Receiver PROVE refs'[r] = Uses(r)'
    BY DEF RefsBalance
  <2>1. refs[r] = Uses(r) /\ Cardinality(Holders(recvers, r)) \in Nat
        /\ Cardinality(Holders(cleared, r)) \in Nat
    BY HoldersCount DEF IInv, RefsBalance, TypeOK, Lists
  <2>2. refs'[r] = IF r = x THEN refs[r] - 1 ELSE refs[r]
    BY <1>3
  <2>3. UNCHANGED <<Cardinality(Holders(recvers, r)), Cardinality(Holders(cleared, r))>>
    BY <1>2
  <2> QED BY <1>1, <1>2, <2>1, <2>2, <2>3 DEF Uses
<1> QED BY <1>1, <1>6, <1>7, <1>8, <1>9 DEF IInv

(* An emission starts with all of the chain to visit.                      *)
LEMMA EmitKeeps ==
  ASSUME IInv, NEW t \in Thread, Emit(t)
  PROVE  IInv'
<1>1. UNCHANGED <<chain, nodes, count, managed, refs, owned, recvers, cleared>>
  BY DEF Emit, map
<1>2. /\ Visited \in Seq(Receiver) /\ Visited # <<>> /\ ToSet(Visited) = ToSet(chain)
      /\ IsInjective(Visited)
  BY VisitedFact DEF Visited, Emit, IInv, TypeOK, Chained
<1>3. visits' \in Lists /\ visits'[t] = Visited
      /\ \A u \in Thread : u # t => visits'[u] = <<>>
  BY <1>2 DEF Emit, MutexFree, IInv, TypeOK, Lists
<1>4. TypeOK' /\ Known' /\ Chained'
  BY <1>1, <1>3 DEF IInv, TypeOK, Known, Chained, Lists
<1>5. Apart'
  BY <1>1, <1>2, <1>3, EmptyFacts DEF IInv, Apart
<1>6. Emission(t)'
  <2>1. recvers'[t] = <<>> /\ ToSet(recvers'[t]) = {}
    BY <1>1, EmptyFacts DEF Emit
  <2> QED BY <1>1, <1>2, <1>3, <2>1 DEF Emission
<1>7. Visiting'
  BY <1>3, <1>6 DEF Visiting
<1>8. RefsBalance'
  BY <1>1 DEF IInv, RefsBalance, Uses
<1> QED BY <1>4, <1>5, <1>7, <1>8 DEF IInv

(* A receiver with a preproc may be passed over.                           *)
LEMMA DeclineKeeps ==
  ASSUME IInv, NEW t \in Thread, Decline(t)
  PROVE  IInv'
<1>1. UNCHANGED <<chain, nodes, count, managed, refs, owned, recvers, cleared>>
  BY DEF Decline, map
<1>2. /\ visits[t] # <<>> /\ visits[t] \in Seq(Receiver) /\ Emission(t)
      /\ IsInjective(visits[t]) /\ Head(visits[t]) \in Preproc
  BY DEF Decline, IInv, TypeOK, Visiting, Apart
<1>3. /\ Tail(visits[t]) \in Seq(Receiver) /\ IsInjective(Tail(visits[t]))
      /\ ToSet(visits[t]) = {Head(visits[t])} \cup ToSet(Tail(visits[t]))
  BY <1>2, TailFacts
<1>4. /\ visits' \in Lists /\ visits'[t] = Tail(visits[t])
      /\ \A u \in Thread : u # t => visits'[u] = visits[u]
  BY <1>3 DEF Decline, IInv, TypeOK, Lists
<1>5. TypeOK' /\ Known' /\ Chained'
  BY <1>1, <1>4 DEF IInv, TypeOK, Known, Chained, Lists
<1>6. Apart'
  BY <1>1, <1>3, <1>4 DEF IInv, Apart
<1>7. Emission(t)'
  BY <1>1, <1>2, <1>3, <1>4 DEF Emission
<1>8. Visiting'
  BY <1>2, <1>4, <1>7 DEF Visiting, Emission
<1>9. RefsBalance'
  BY <1>1 DEF IInv, RefsBalance, Uses
<1> QED BY <1>5, <1>6, <1>8, <1>9 DEF IInv

(* A receiver is picked: with a reference more or, oneshot, erased.        *)
LEMMA TakeKeeps ==
  ASSUME IInv, NEW t \in Thread, Take(t)
  PROVE  IInv'
<1> DEFINE x == Head(visits[t])
<1>1. /\ visits[t] # <<>> /\ visits[t] \in Seq(Receiver) /\ Emission(t)
      /\ IsInjective(visits[t])
  BY DEF Take, IInv, TypeOK, Visiting, Apart
<1>2. /\ Tail(visits[t]) \in Seq(Receiver) /\ IsInjective(Tail(visits[t]))
      /\ ToSet(visits[t]) = {x} \cup ToSet(Tail(visits[t])) /\ x \in Receiver
      /\ x \notin ToSet(Tail(visits[t]))
  BY <1>1, TailFacts
<1>3. /\ UNCHANGED <<managed, owned, cleared>>
      /\ visits' = [visits EXCEPT ![t] = Tail(@)]
      /\ recvers' = [recvers EXCEPT ![t] = Append(@, x)]
  BY DEF Take
<1>4. \/ x \in Oneshot /\ Erase(x) /\ UNCHANGED refs
      \/ x \notin Oneshot /\ Adjust(x, 1) /\ UNCHANGED map
  BY DEF Take
<1> HIDE DEF x
<1>5. x \in ToSet(chain) /\ x \notin ToSet(recvers[t])
  BY <1>1, <1>2 DEF Emission
<1>6. /\ visits' \in Lists /\ visits'[t] = Tail(visits[t])
      /\ \A u \in Thread : u # t => visits'[u] = visits[u]
  BY <1>2, <1>3 DEF IInv, TypeOK, Lists
<1>7. /\ recvers \in Lists /\ cleared \in Lists /\ recvers' \in Lists
      /\ recvers'[t] = Append(recvers[t], x) /\ Differ(recvers, recvers', t)
      /\ IsInjective(recvers[t])
  <2>1. recvers \in Lists /\ cleared \in Lists /\ IsInjective(recvers[t])
    BY DEF IInv, TypeOK, Lists, Apart
  <2>2. Append(recvers[t], x) \in Seq(Receiver)
    BY <1>2, <2>1, AppendFacts DEF Lists
  <2>3. recvers' \in Lists /\ recvers'[t] = Append(recvers[t], x)
    BY <1>3, <2>1, <2>2 DEF Lists
  <2>4. Differ(recvers, recvers', t)
    BY <1>3, <2>1 DEF Differ, Lists
  <2> QED BY <2>1, <2>3, <2>4
<1>8. /\ ToSet(recvers'[t]) = ToSet(recvers[t]) \cup {x} /\ IsInjective(recvers'[t])
      /\ \A r : Cardinality(Holders(recvers, r)) \in Nat
      /\ \A r : Cardinality(Holders(recvers', r))
                  = IF r = x THEN Cardinality(Holders(recvers, r)) + 1
                             ELSE Cardinality(Holders(recvers, r))
  <2>1. PICK l \in Lists : l = recvers
    BY <1>7
  <2>2. PICK m \in Lists : m = recvers'
    BY <1>7
  <2>3. x \notin ToSet(l[t]) /\ IsInjective(l[t]) /\ Pushed(l, m, t, x)
    BY <1>5, <1>7, <2>1, <2>2 DEF Pushed
  <2>4. /\ ToSet(m[t]) = ToSet(l[t]) \cup {x} /\ IsInjective(m[t])
        /\ \A r : Cardinality(Holders(l, r)) \in Nat
        /\ \A r : Cardinality(Holders(m, r)) = IF r = x THEN Cardinality(Holders(l, r)) + 1
                                                         ELSE Cardinality(Holders(l, r))
    BY <1>2, <2>3, PushFact
  <2> QED BY <2>1, <2>2, <2>4
<1>9. /\ chain' \in Seq(Receiver) /\ count' \in Nat
      /\ ToSet(chain') = IF x \in Oneshot THEN ToSet(chain) \ {x} ELSE ToSet(chain)
      /\ Chained' /\ nodes' \subseteq nodes \cup ToSet(chain)
  <2>1. CASE x \in Oneshot
    BY <1>4, <1>5, <2>1, EraseFact DEF IInv
  <2>2. CASE x \notin Oneshot
    BY <1>4, <2>2 DEF map, IInv, TypeOK, Chained
  <2> QED BY <2>1, <2>2
<1>10. /\ refs' \in [Receiver -> Nat]
       /\ \A r \in Receiver :
            refs'[r] = IF r = x /\ x \notin Oneshot THEN refs[r] + 1 ELSE refs[r]
  BY <1>2, <1>4 DEF Adjust, IInv, TypeOK
<1>11. TypeOK'
  <2>1. nodes' \subseteq Receiver
    BY <1>9 DEF IInv, TypeOK, Known
  <2> QED BY <1>3, <1>6, <1>7, <1>9, <1>10, <2>1 DEF IInv, TypeOK, Lists
<1>12. Known' /\ Apart'
  <2>1. \A u \in Thread : u # t => recvers'[u] = recvers[u]
    BY <1>7 DEF Differ
  <2>2. Known'
    BY <1>3, <1>5, <1>8, <1>9, <2>1 DEF IInv, Known
  <2>3. Apart'
    BY <1>2, <1>3, <1>6, <1>8, <2>1 DEF IInv, Apart
  <2> QED BY <2>2, <2>3
<1>13. Emission(t)'
  BY <1>1, <1>2, <1>5, <1>6, <1>8, <1>9 DEF Emission
<1>14. Visiting'
  BY <1>1, <1>6, <1>13 DEF Visiting, Emission
<1>15. RefsBalance'
  <2> SUFFICES ASSUME NEW r \in Receiver PROVE refs'[r] = Uses(r)'
    BY DEF RefsBalance
  <2>1. refs[r] = Uses(r) /\ Cardinality(Holders(cleared, r)) \in Nat
    BY <1>7, HoldersCount DEF IInv, RefsBalance
  <2>2. UNCHANGED <<owned, Cardinality(Holders(cleared, r))>>
    BY <1>3
  <2> QED BY <1>5, <1>8, <1>9, <1>10, <2>1, <2>2 DEF Uses
<1> QED BY <1>9, <1>11, <1>12, <1>14, <1>15 DEF IInv

(* A picked receiver was called and is released.                           *)
LEMMA DeliverKeeps ==
  ASSUME IInv, NEW t \in Thread, Deliver(t)
  PROVE  IInv'
<1>1. PICK l \in Lists : l = recvers
  BY DEF IInv, TypeOK, Lists
<1>2. PICK m \in Lists : m = recvers' /\ Popped(l, m, t)
  <2>1. l[t] # <<>> /\ recvers' = [l EXCEPT ![t] = Tail(@)]
    BY <1>1 DEF Deliver
  <2>2. Tail(l[t]) \in Seq(Receiver)
    BY <2>1, TailFacts DEF Lists
  <2>3. recvers' \in Lists
    BY <2>1, <2>2 DEF Lists
  <2>4. Popped(l, recvers', t)
    BY <2>1 DEF Lists, Popped, Differ
  <2> QED BY <2>3, <2>4
<1> DEFINE x == Head(l[t])
<1>3. /\ visits[t] = <<>> /\ l[t] # <<>> /\ IsInjective(l[t])
      /\ UNCHANGED <<chain, nodes, count, managed, owned, visits, cleared>>
      /\ refs' = [refs EXCEPT ![x] = @ - 1]
  BY <1>1 DEF Deliver, map, Adjust, IInv, Apart
<1> HIDE DEF x
<1>4. /\ ToSet(m[t]) = ToSet(l[t]) \ {x} /\ IsInjective(m[t])
      /\ x \in Receiver /\ x \in ToSet(l[t])
      /\ \A r : Cardinality(Holders(l, r)) \in Nat
      /\ \A r : Cardinality(Holders(m, r)) = IF r = x THEN Cardinality(Holders(l, r)) - 1
                                                       ELSE Cardinality(Holders(l, r))
  BY <1>2, <1>3, PopFact DEF x
<1>5. \A u \in Thread : u # t => m[u] = l[u]
  BY <1>2 DEF Popped, Differ
<1>6. /\ refs' \in [Receiver -> Nat]
      /\ \A r \in Receiver : refs'[r] = IF r = x THEN refs[r] - 1 ELSE refs[r]
  <2>1. refs \in [Receiver -> Nat] /\ refs[x] > 0
    BY <1>1, <1>4, HeldIsCounted DEF IInv, TypeOK
  <2> QED BY <1>3, <1>4, <2>1
<1>7. TypeOK'
  BY <1>2, <1>3, <1>6 DEF IInv, TypeOK, Lists
<1>8. Known' /\ Apart'
  <2>1. Known'
    BY <1>1, <1>2, <1>3, <1>4, <1>5 DEF IInv, Known
  <2>2. Apart'
    BY <1>1, <1>2, <1>3, <1>4, <1>5 DEF IInv, Apart
  <2> QED BY <2>1, <2>2
<1>9. Chained'
  BY <1>3 DEF IInv, Chained
<1>10. Visiting'
  <2> SUFFICES ASSUME NEW u \in Thread, visits[u] # <<>> PROVE Emission(u)'
    BY <1>3 DEF Visiting
  <2>1. u # t /\ m[u] = l[u] /\ Emission(u)
    BY <1>3, <1>5 DEF IInv, Visiting
  <2> QED BY <1>1, <1>2, <1>3, <2>1 DEF Emission
<1>11. RefsBalance'
  <2> SUFFICES ASSUME NEW r \in Receiver PROVE refs'[r] = Uses(r)'
    BY DEF RefsBalance
  <2>1. refs[r] = Uses(r) /\ Cardinality(Holders(cleared, r)) \in Nat
    BY HoldersCount DEF IInv, RefsBalance, TypeOK, Lists
  <2>2. UNCHANGED <<chain, owned, Cardinality(Holders(cleared, r))>>
    BY <1>3
  <2> QED BY <1>1, <1>2, <1>4, <1>6, <2>1, <2>2 DEF Uses
<1> QED BY <1>7, <1>8, <1>9, <1>10, <1>11 DEF IInv

(* All of the chain is to be released.                                     *)
LEMMA ClearKeeps ==
  ASSUME IInv, NEW t \in Thread, Clear(t)
  PROVE  IInv'
<1>1. /\ UNCHANGED <<managed, refs, owned, visits, recvers>>
      /\ chain' = <<>> /\ nodes' \subseteq nodes /\ count' = 0
  BY DEF Clear, IInv, Chained, TypeOK
<1>2. /\ Visited \in Seq(Receiver) /\ ToSet(Visited) = ToSet(chain) /\ IsInjective(Visited)
  BY VisitedFact DEF Visited, Clear, IInv, TypeOK, Chained
<1>3. /\ cleared' \in Lists /\ cleared'[t] = Visited /\ cleared[t] = <<>>
      /\ \A u \in Thread : u # t => cleared'[u] = cleared[u]
  BY <1>2 DEF Clear, IInv, TypeOK, Lists
<1>4. ToSet(chain') = {} /\ IsInjective(chain') /\ Len(chain') = 0
  BY <1>1, EmptyFacts
<1>5. TypeOK'
  BY <1>1, <1>3 DEF IInv, TypeOK, Lists
<1>6. Known' /\ Apart'
  BY <1>1, <1>2, <1>3, <1>4 DEF IInv, Known, Apart
<1>7. Chained'
  BY <1>1, <1>4 DEF Chained
<1>8. Visiting'
  BY <1>1 DEF Visiting, Clear, MutexFree
<1>9. RefsBalance'
  <2> SUFFICES ASSUME NEW r \in Receiver PROVE refs'[r] = Uses(r)'
    BY DEF RefsBalance
  <2>1. PICK l \in Lists, m \in Lists : l = cleared /\ m = cleared'
    BY <1>3 DEF IInv, TypeOK, Lists
  <2>2. /\ ToSet(m[t]) = ToSet(chain) /\ ToSet(l[t]) = {} /\ Differ(l, m, t)
    BY <1>2, <1>3, <2>1, EmptyFacts DEF Differ
  <2>3. /\ Cardinality(Holders(l, r)) \in Nat
        /\ (r \in ToSet(m[t]) <=> r \in ToSet(l[t])) => Holders(m, r) = Holders(l, r)
        /\ r \in ToSet(m[t]) /\ r \notin ToSet(l[t])
             => Cardinality(Holders(m, r)) = Cardinality(Holders(l, r)) + 1
    BY <2>2, HoldersFact
  <2>4. Cardinality(Holders(m, r)) = Cardinality(Holders(l, r))
                                     + (IF r \in ToSet(chain) THEN 1 ELSE 0)
    BY <2>2, <2>3
  <2>5. refs[r] = Uses(r) /\ Cardinality(Holders(recvers, r)) \in Nat
    BY HoldersCount DEF IInv, RefsBalance, TypeOK, Lists
  <2>6. UNCHANGED <<refs, owned, Cardinality(Holders(recvers, r))>>
    BY <1>1
  <2> QED BY <1>4, <2>1, <2>3, <2>4, <2>5, <2>6 DEF Uses
<1> QED BY <1>5, <1>6, <1>7, <1>8, <1>9 DEF IInv

(* A cleared receiver is released.                                         *)
LEMMA ReleaseKeeps ==
  ASSUME IInv, NEW t \in Thread, ReleaseCleared(t)
  PROVE  IInv'
<1>1. PICK l \in Lists : l = cleared
  BY DEF IInv, TypeOK, Lists
<1>2. PICK m \in Lists : m = cleared' /\ Popped(l, m, t)
  <2>1. l[t] # <<>> /\ cleared' = [l EXCEPT ![t] = Tail(@)]
    BY <1>1 DEF ReleaseCleared
  <2>2. Tail(l[t]) \in Seq(Receiver)
    BY <2>1, TailFacts DEF Lists
  <2>3. cleared' \in Lists
    BY <2>1, <2>2 DEF Lists
  <2>4. Popped(l, cleared', t)
    BY <2>1 DEF Lists, Popped, Differ
  <2> QED BY <2>3, <2>4
<1> DEFINE x == Head(l[t])
<1>3. /\ l[t] # <<>> /\ IsInjective(l[t])
      /\ UNCHANGED <<chain, nodes, count, managed, owned, visits, recvers>>
      /\ refs' = [refs EXCEPT ![x] = @ - 1]
  BY <1>1 DEF ReleaseCleared, map, Adjust, IInv, Apart
<1> HIDE DEF x
<1>4. /\ ToSet(m[t]) = ToSet(l[t]) \ {x} /\ IsInjective(m[t])
      /\ x \in Receiver /\ x \in ToSet(l[t])
      /\ \A r : Cardinality(Holders(l, r)) \in Nat
      /\ \A r : Cardinality(Holders(m, r)) = IF r = x THEN Cardinality(Holders(l, r)) - 1
                                                       ELSE Cardinality(Holders(l, r))
  BY <1>2, <1>3, PopFact DEF x
<1>5. \A u \in Thread : u # t => m[u] = l[u]
  BY <1>2 DEF Popped, Differ
<1>6. /\ refs' \in [Receiver -> Nat]
      /\ \A r \in Receiver : refs'[r] = IF r = x THEN refs[r] - 1 ELSE refs[r]
  <2>1. refs \in [Receiver -> Nat] /\ refs[x] > 0
    BY <1>1, <1>4, HeldIsCounted DEF IInv, TypeOK
  <2> QED BY <1>3, <1>4, <2>1
<1>7. TypeOK'
  BY <1>2, <1>3, <1>6 DEF IInv, TypeOK, Lists
<1>8. Known' /\ Apart'
  <2>1. Known'
    BY <1>1, <1>2, <1>3, <1>4, <1>5 DEF IInv, Known
  <2>2. Apart'
    BY <1>1, <1>2, <1>3, <1>4, <1>5 DEF IInv, Apart
  <2> QED BY <2>1, <2>2
<1>9. Chained' /\ Visiting'
  BY <1>3 DEF IInv, Chained, Visiting, Emission
<1>10. RefsBalance'
  <2> SUFFICES ASSUME NEW r \in Receiver PROVE refs'[r] = Uses(r)'
    BY DEF RefsBalance
  <2>1. refs[r] = Uses(r) /\ Cardinality(Holders(recvers, r)) \in Nat
    BY HoldersCount DEF IInv, RefsBalance, TypeOK, Lists
  <2>2. UNCHANGED <<chain, owned, Cardinality(Holders(recvers, r))>>
    BY <1>3
  <2> QED BY <1>1, <1>2, <1>4, <1>6, <2>1, <2>2 DEF Uses
<1> QED BY <1>7, <1>8, <1>9, <1>10 DEF IInv

(* An owner's reference goes.                                              *)
LEMMA DropKeeps ==
  ASSUME IInv, NEW x \in Receiver, Drop(x)
  PROVE  IInv'
<1>1. /\ x \in owned /\ owned' = owned \ {x} /\ refs' = [refs EXCEPT ![x] = @ - 1]
      /\ UNCHANGED <<chain, nodes, count, managed, visits, recvers, cleared>>
  BY DEF Drop, map, Adjust
<1>2. /\ refs' \in [Receiver -> Nat]
      /\ \A r \in Receiver : refs'[r] = IF r = x THEN refs[r] - 1 ELSE refs[r]
  <2>1. refs \in [Receiver -> Nat] /\ refs[x] > 0
    BY <1>1, HeldIsCounted DEF IInv, TypeOK
  <2> QED BY <1>1, <2>1
<1>3. TypeOK' /\ Known' /\ Apart' /\ Chained' /\ Visiting'
  BY <1>1, <1>2 DEF IInv, TypeOK, Known, Apart, Chained, Visiting, Emission
<1>4. RefsBalance'
  <2> SUFFICES ASSUME NEW r \in Receiver PROVE refs'[r] = Uses(r)'
    BY DEF RefsBalance
  <2>1. refs[r] = Uses(r) /\ Cardinality(Holders(recvers, r)) \in Nat
        /\ Cardinality(Holders(cleared, r)) \in Nat
    BY HoldersCount DEF IInv, RefsBalance, TypeOK, Lists
  <2>2. UNCHANGED <<chain, Cardinality(Holders(recvers, r)), Cardinality(Holders(cleared, r))>>
    BY <1>1
  <2> QED BY <1>1, <1>2, <2>1, <2>2 DEF Uses
<1> QED BY <1>3, <1>4 DEF IInv

(* What nobody refers to is in no list, and can be made anew.              *)
LEMMA MakeKeeps ==
  ASSUME IInv, NEW x \in Receiver, Make(x)
  PROVE  IInv'
<1>1. /\ owned' = owned \cup {x} /\ refs' = [refs EXCEPT ![x] = @ + 1] /\ refs[x] = 0
      /\ nodes' = nodes \ {x} /\ managed' = managed \ {x}
      /\ UNCHANGED <<chain, count, visits, recvers, cleared>>
  BY DEF Make, Adjust
<1>2. /\ refs' \in [Receiver -> Nat]
      /\ \A r \in Receiver : refs'[r] = IF r = x THEN refs[r] + 1 ELSE refs[r]
  BY <1>1 DEF IInv, TypeOK
<1>3. /\ x \notin owned /\ x \notin ToSet(chain)
      /\ \A t \in Thread : x \notin ToSet(recvers[t]) /\ x \notin ToSet(cleared[t])
  BY <1>1, HeldIsCounted DEF IInv
<1>4. TypeOK' /\ Known' /\ Apart' /\ Visiting'
  BY <1>1, <1>2, <1>3 DEF IInv, TypeOK, Known, Apart, Visiting, Emission
<1>5. Chained'
  BY <1>1, <1>3 DEF IInv, Chained
<1>6. RefsBalance'
  <2> SUFFICES ASSUME NEW r \in Receiver PROVE refs'[r] = Uses(r)'
    BY DEF RefsBalance
  <2>1. refs[r] = Uses(r) /\ Cardinality(Holders(recvers, r)) \in Nat
        /\ Cardinality(Holders(cleared, r)) \in Nat
    BY HoldersCount DEF IInv, RefsBalance, TypeOK, Lists
  <2>2. UNCHANGED <<chain, Cardinality(Holders(recvers, r)), Cardinality(Holders(cleared, r))>>
    BY <1>1
  <2> QED BY <1>1, <1>2, <1>3, <2>1, <2>2 DEF Uses
<1> QED BY <1>4, <1>5, <1>6 DEF IInv

(* The invariant holds at the start, and every step keeps it.              *)
LEMMA InitIInv == Init => IInv
<1> SUFFICES ASSUME Init PROVE IInv
  OBVIOUS
<1>1. /\ chain = <<>> /\ ToSet(chain) = {} /\ IsInjective(chain) /\ Len(chain) = 0
      /\ \A t \in Thread : /\ visits[t] = <<>> /\ recvers[t] = <<>> /\ cleared[t] = <<>>
                           /\ ToSet(recvers[t]) = {} /\ ToSet(cleared[t]) = {}
                           /\ IsInjective(visits[t]) /\ IsInjective(recvers[t])
                           /\ IsInjective(cleared[t])
  BY EmptyFacts DEF Init
<1>2. TypeOK /\ Known /\ Apart /\ Chained /\ Visiting
  <2>1. TypeOK
    BY DEF Init, TypeOK
  <2>2. Known /\ Chained /\ Apart /\ Visiting
    BY <1>1 DEF Init, Known, Chained, Apart, Visiting
  <2> QED BY <2>1, <2>2
<1>3. ASSUME NEW r \in Receiver PROVE refs[r] = Uses(r)
  <2>1. Holders(recvers, r) = {} /\ Holders(cleared, r) = {}
    BY <1>1 DEF Holders
  <2>2. Cardinality(Holders(recvers, r)) = 0 /\ Cardinality(Holders(cleared, r)) = 0
    BY <2>1, FS_EmptySet
  <2> QED BY <1>1, <2>2 DEF Uses, Init
<1> QED BY <1>2, <1>3 DEF IInv, RefsBalance

LEMMA NextIInv == IInv /\ [Next]_vars => IInv'
<1> SUFFICES ASSUME IInv, [Next]_vars PROVE IInv'
  OBVIOUS
<1>1. ASSUME NEW r \in Receiver, Subscribe(r) PROVE IInv'
  BY <1>1, SubscribeKeeps
<1>2. ASSUME NEW r \in Receiver, Unsubscribe(r) PROVE IInv'
  BY <1>2, UnsubscribeKeeps
<1>3. ASSUME NEW r \in Receiver, Drop(r) PROVE IInv'
  BY <1>3, DropKeeps
<1>4. ASSUME NEW r \in Receiver, Make(r) PROVE IInv'
  BY <1>4, MakeKeeps
<1>5. ASSUME NEW t \in Thread, Emit(t) PROVE IInv'
  BY <1>5, EmitKeeps
<1>6. ASSUME NEW t \in Thread, Decline(t) PROVE IInv'
  BY <1>6, DeclineKeeps
<1>7. ASSUME NEW t \in Thread, Take(t) PROVE IInv'
  BY <1>7, TakeKeeps
<1>8. ASSUME NEW t \in Thread, Deliver(t) PROVE IInv'
  BY <1>8, DeliverKeeps
<1>9. ASSUME NEW t \in Thread, Clear(t) PROVE IInv'
  BY <1>9, ClearKeeps
<1>10. ASSUME NEW t \in Thread, ReleaseCleared(t) PROVE IInv'
  BY <1>10, ReleaseKeeps
<1>11. CASE UNCHANGED vars
  BY <1>11 DEF vars, IInv, TypeOK, Known, Apart, Chained, Visiting, Emission, RefsBalance, Uses
<1> QED BY <1>1, <1>2, <1>3, <1>4, <1>5, <1>6, <1>7, <1>8, <1>9, <1>10, <1>11 DEF Next

LEMMA Inductive == Spec => []IInv
  BY InitIInv, NextIInv, PTL DEF Spec

----------------------------------------------------------------------------
(* The types: the chain, the lists of the threads and the references.      *)
THEOREM TypeCorrect == Spec => []TypeOK
<1>1. IInv => TypeOK
  BY DEF IInv
<1> QED BY <1>1, Inductive, PTL

(* Whatever is subscribed can be erased, and is never freed while it is.   *)
THEOREM ErasureIsSafe == Spec => []ChainIsErasable
<1>1. ASSUME IInv PROVE ChainIsErasable
  <2>1. ASSUME NEW r \in ToSet(chain) PROVE Erasable(r)
    <3>1. r \in managed /\ r \in Receiver /\ refs[r] > 0
      BY <1>1, <2>1, HeldIsCounted DEF IInv, Known, TypeOK
    <3>2. (r \in nodes) = (r = Head(chain))
      BY <1>1, <2>1 DEF IInv, Chained
    <3>3. Len(chain) > 1 \/ r = Head(chain)
      <4>1. PICK s \in Seq(Receiver) : s = chain
        BY <1>1 DEF IInv, TypeOK
      <4>2. PICK i \in 1 .. Len(s) : s[i] = r
        BY <2>1, <4>1 DEF ToSet
      <4>3. Len(s) \in Nat /\ (Len(s) <= 1 => i = 1 /\ Head(s) = s[1])
        OBVIOUS
      <4> QED BY <4>1, <4>2, <4>3
    <3> QED BY <2>1, <3>1, <3>2, <3>3 DEF Erasable, Valid, Linked
  <2> QED BY <1>1, <2>1 DEF ChainIsErasable, IInv, Chained
<1> QED BY <1>1, Inductive, PTL

(* Every reference is the owner's, the manager's or an emission's.         *)
THEOREM ReferencesBalance == Spec => []RefsBalance
<1>1. IInv => RefsBalance
  BY DEF IInv
<1> QED BY <1>1, Inductive, PTL

----------------------------------------------------------------------------
(* The implementation of EventBus.  A visit but the last is a stutter of   *)
(* the bus, the last is its Emit; every other action is the bus's own or a *)
(* stutter.                                                                *)
subscribed == ToSet(chain) \cup Erased
owed == [t \in Thread |-> IF visits[t] = <<>> THEN ToSet(recvers[t]) ELSE {}]

(* What an emission has erased is what it picked of the oneshot receivers. *)
LEMMA ErasedFact ==
  /\ MutexFree => Erased = {}
  /\ MutexFree' => Erased' = {}
  /\ \A t \in Thread : (\A u \in Thread : visits[u] # <<>> => u = t) /\ visits[t] # <<>>
       => Erased = ToSet(recvers[t]) \cap Oneshot
  /\ \A t \in Thread : (\A u \in Thread : visits'[u] # <<>> => u = t) /\ visits'[t] # <<>>
       => Erased' = ToSet(recvers'[t]) \cap Oneshot
<1>1. Oneshot \subseteq Receiver
  BY EventsAssumption
<1> QED BY <1>1 DEF Erased, MutexFree

(* The last visit of an emission is the emission of the bus.               *)
LEMMA LastVisit ==
  ASSUME IInv, NEW t \in Thread, Decline(t) \/ Take(t)
  PROVE  IF visits'[t] = <<>> THEN Bus!Emit(t) ELSE UNCHANGED <<subscribed, owed>>
<1> DEFINE x == Head(visits[t])
           P == ToSet(recvers[t])
           Q == ToSet(recvers'[t])
           C == ToSet(chain)
           D == ToSet(chain')
<1>1. /\ visits[t] # <<>> /\ visits[t] \in Seq(Receiver) /\ Emission(t)
      /\ IsInjective(visits[t]) /\ visits \in Lists /\ recvers \in Lists
  BY DEF Decline, Take, IInv, TypeOK, Visiting, Apart, Lists
<1>2. /\ ToSet(visits[t]) = {x} \cup ToSet(Tail(visits[t])) /\ x \in Receiver
      /\ x \notin ToSet(Tail(visits[t])) /\ Tail(visits[t]) \in Seq(Receiver)
  BY <1>1, TailFacts
<1>3. /\ visits'[t] = Tail(visits[t]) /\ \A u \in Thread : u # t => visits'[u] = visits[u]
      /\ \A u \in Thread : u # t => recvers'[u] = recvers[u]
  BY <1>1 DEF Decline, Take, Lists
<1>4. /\ \A u \in Thread : u # t => visits[u] = <<>> /\ visits'[u] = <<>>
      /\ {x} \cup ToSet(visits'[t]) \subseteq C \ P /\ x \notin ToSet(visits'[t])
      /\ P \ Oneshot \subseteq C /\ P \cap Oneshot \cap C = {}
      /\ C \ Preproc \subseteq P \cup {x} \cup ToSet(visits'[t])
  BY <1>1, <1>2, <1>3 DEF Emission
<1>5. \/ x \in Preproc /\ Q = P /\ D = C
      \/ Q = P \cup {x} /\ D = IF x \in Oneshot THEN C \ {x} ELSE C
  <2>1. CASE Decline(t)
    BY <2>1 DEF Decline, map
  <2>2. CASE Take(t)
    <3>1. Q = P \cup {x}
      <4>1. recvers'[t] = Append(recvers[t], x)
        BY <1>1, <2>2 DEF Take, Lists
      <4>2. recvers[t] \in Seq(Receiver)
        BY <1>1 DEF Lists
      <4> QED BY <1>2, <4>1, <4>2, AppendFacts
    <3>2. D = IF x \in Oneshot THEN C \ {x} ELSE C
      <4>1. CASE x \in Oneshot
        <5>1. Erase(x)
          BY <2>2, <4>1 DEF Take
        <5> QED BY <1>4, <4>1, <5>1, EraseFact DEF IInv
      <4>2. CASE x \notin Oneshot
        BY <2>2, <4>2 DEF Take, map
      <4> QED BY <4>1, <4>2
    <3> QED BY <3>1, <3>2
  <2> QED BY <2>1, <2>2
<1>6. Erased = P \cap Oneshot
  BY <1>1, <1>4, ErasedFact
<1> HIDE DEF x, P, Q, C, D
<1>7. CASE visits'[t] # <<>>
  <2>1. Erased' = Q \cap Oneshot
    BY <1>4, <1>7, ErasedFact DEF Q
  <2>2. subscribed' = subscribed
    BY <1>4, <1>5, <1>6, <2>1 DEF subscribed, C, D
  <2>3. owed' = owed
    BY <1>1, <1>3, <1>4, <1>7 DEF owed
  <2> QED BY <1>7, <2>2, <2>3
<1>8. CASE visits'[t] = <<>>
  <2>1. Erased' = {} /\ ToSet(visits'[t]) = {}
    BY <1>4, <1>8, ErasedFact, EmptyFacts DEF MutexFree
  <2>2. /\ Q \subseteq subscribed /\ subscribed \ Preproc \subseteq Q
        /\ subscribed' = subscribed \ (Q \cap Oneshot)
    BY <1>4, <1>5, <1>6, <2>1 DEF subscribed, C, D
  <2>3. owed[t] = {} /\ owed' = [owed EXCEPT ![t] = Q]
    BY <1>1, <1>3, <1>4, <1>8 DEF owed, Q
  <2>4. Bus!Emit(t)
    BY <2>2, <2>3 DEF Bus!Emit, subscribed, owed
  <2> QED BY <1>8, <2>4
<1> QED BY <1>7, <1>8

(* Every step is one of the bus, or a stutter.                             *)
LEMMA BusStep == IInv /\ [Next]_vars => [Bus!Next]_(Bus!vars)
<1> SUFFICES ASSUME IInv, [Next]_vars PROVE Bus!Next \/ UNCHANGED <<subscribed, owed>>
  BY DEF Bus!vars, subscribed, owed
<1>1. ASSUME NEW r \in Receiver, Subscribe(r) PROVE Bus!Subscribe(r)
  <2>1. r \notin managed /\ MutexFree /\ MutexFree' /\ UNCHANGED <<visits, recvers>>
    BY <1>1 DEF Subscribe, MutexFree
  <2>2. Erased = {} /\ Erased' = {}
    BY <2>1, ErasedFact
  <2>3. r \notin ToSet(chain) /\ \A t \in Thread : r \notin ToSet(recvers[t])
    BY <2>1 DEF IInv, Known
  <2>4. ToSet(chain') = ToSet(chain) \cup {r}
    BY <1>1, AppendFacts DEF Subscribe, IInv, TypeOK
  <2>5. owed' = owed /\ \A t \in Thread : r \notin owed[t]
    BY <2>1, <2>3 DEF owed
  <2> QED BY <2>2, <2>3, <2>4, <2>5 DEF Bus!Subscribe, owed
<1>2. ASSUME NEW r \in Receiver, Unsubscribe(r) PROVE Bus!Unsubscribe(r)
  <2>1. r \in ToSet(chain) /\ MutexFree /\ MutexFree' /\ UNCHANGED <<visits, recvers>>
    BY <1>2 DEF Unsubscribe, MutexFree
  <2>2. Erased = {} /\ Erased' = {}
    BY <2>1, ErasedFact
  <2>3. ToSet(chain') = ToSet(chain) \ {r}
    BY <1>2, <2>1, EraseFact DEF Unsubscribe, IInv
  <2> QED BY <2>1, <2>2, <2>3 DEF Bus!Unsubscribe
<1>3. ASSUME NEW t \in Thread, Emit(t) PROVE UNCHANGED <<subscribed, owed>>
  <2>1. /\ MutexFree /\ recvers[t] = <<>> /\ UNCHANGED <<chain, recvers>>
        /\ \A u \in Thread : u # t => visits'[u] = <<>>
    BY <1>3 DEF Emit, map, MutexFree, IInv, TypeOK
  <2>2. ToSet(recvers[t]) = {}
    BY <2>1, EmptyFacts
  <2>3. Erased = {} /\ Erased' = {}
    BY <2>1, <2>2, ErasedFact DEF Erased
  <2>4. owed' = owed
    BY <2>1, <2>2 DEF owed, MutexFree
  <2> QED BY <2>1, <2>3, <2>4 DEF subscribed
<1>4. ASSUME NEW t \in Thread, Decline(t) \/ Take(t)
      PROVE  Bus!Emit(t) \/ UNCHANGED <<subscribed, owed>>
  BY <1>4, LastVisit
<1>5. ASSUME NEW t \in Thread, Deliver(t) PROVE Bus!Deliver(t)
  <2>1. /\ visits[t] = <<>> /\ recvers[t] # <<>> /\ recvers[t] \in Seq(Receiver)
        /\ UNCHANGED <<chain, visits>> /\ recvers'[t] = Tail(recvers[t])
        /\ \A u \in Thread : u # t => recvers'[u] = recvers[u]
    BY <1>5 DEF Deliver, map, IInv, TypeOK
  <2>2. /\ Head(recvers[t]) \in ToSet(recvers[t])
        /\ ToSet(recvers'[t]) = ToSet(recvers[t]) \ {Head(recvers[t])}
    BY <2>1, TailFacts DEF IInv, Apart
  <2>3. Erased' = Erased
    BY <2>1 DEF Erased
  <2>4. owed' = [owed EXCEPT ![t] = @ \ {Head(recvers[t])}] /\ Head(recvers[t]) \in owed[t]
    BY <2>1, <2>2 DEF owed
  <2> QED BY <2>1, <2>3, <2>4 DEF Bus!Deliver, owed
<1>6. ASSUME NEW t \in Thread, Clear(t) PROVE Bus!Clear
  <2>1. chain' = <<>> /\ MutexFree /\ MutexFree' /\ UNCHANGED <<visits, recvers>>
    BY <1>6 DEF Clear, MutexFree
  <2> QED BY <2>1, ErasedFact, EmptyFacts DEF Bus!Clear
<1>7. ASSUME UNCHANGED <<chain, visits, recvers>> PROVE UNCHANGED <<subscribed, owed>>
  BY <1>7 DEF subscribed, owed, Erased
<1>8. ASSUME NEW t \in Thread, ReleaseCleared(t) PROVE UNCHANGED <<chain, visits, recvers>>
  BY <1>8 DEF ReleaseCleared, map
<1>9. ASSUME NEW r \in Receiver, Drop(r) \/ Make(r) PROVE UNCHANGED <<chain, visits, recvers>>
  BY <1>9 DEF Drop, Make, map
<1>10. CASE UNCHANGED vars
  BY <1>7, <1>10 DEF vars
<1> QED BY <1>1, <1>2, <1>3, <1>4, <1>5, <1>6, <1>7, <1>8, <1>9, <1>10 DEF Next, Bus!Next

(* Events implements the plain set of receivers: an emission reaches each  *)
(* of those subscribed when it has visited them, but those that decline,   *)
(* and each once; a oneshot receiver is picked by one emission.            *)
THEOREM BusKept == Spec => Bus!Safety
<1>1. Init => Bus!Init
  <2> SUFFICES ASSUME Init PROVE Bus!Init
    OBVIOUS
  <2>1. MutexFree /\ ToSet(chain) = {} /\ \A t \in Thread : ToSet(recvers[t]) = {}
    BY EmptyFacts DEF Init, MutexFree
  <2> QED BY <2>1, ErasedFact DEF Bus!Init
<1> QED BY <1>1, BusStep, Inductive, PTL DEF Spec, Bus!Safety
=============================================================================
