------------------------------- MODULE Events -------------------------------
(***************************************************************************)
(* ecs/AEvent for the receivers of one key of a tree: of one name, or of   *)
(* the indexes that ARecvCmpIndex takes for equal (it cuts an int64_t      *)
(* difference to int, so those 2^32 apart are).  Two keys share the mutex. *)
(* The first receiver is a node of the manager's tree, the others are      *)
(* linked to it; emitting picks the receivers under the mutex and calls    *)
(* them without.  Receivers are subscribed and unsubscribed by any thread, *)
(* callbacks included.                                                     *)
(***************************************************************************)
EXTENDS Integers, FiniteSets, SequencesExt

CONSTANTS
  Thread, Receiver,
  Oneshot,  \* the receivers with _oneshot
  Preproc   \* the receivers with _preproc, which may decline an event

ASSUME EventsAssumption ==
  /\ Oneshot \subseteq Receiver /\ Preproc \subseteq Receiver
  /\ IsFiniteSet(Thread)

VARIABLES
  chain,    \* the receivers subscribed, the tree's first
  nodes,    \* those whose _map_node says it is in a tree
  count,    \* _name_count
  managed,  \* those with _manager set: it never is reset
  refs,     \* per receiver: its references
  owned,    \* the receivers whose owner holds a reference
  visits,   \* per thread: what its emission, with the mutex, has yet to visit
  recvers,  \* per thread: what its emission has yet to call
  cleared   \* per thread: what its clear_sub has yet to release

vars == <<chain, nodes, count, managed, refs, owned, visits, recvers, cleared>>
map == <<chain, nodes, count>>

TypeOK ==
  /\ chain \in Seq(Receiver) /\ count \in Nat
  /\ {nodes, managed, owned} \subseteq SUBSET Receiver
  /\ refs \in [Receiver -> Nat]
  /\ visits \in [Thread -> Seq(Receiver)] /\ recvers \in [Thread -> Seq(Receiver)]
  /\ cleared \in [Thread -> Seq(Receiver)]

Init ==
  /\ chain = <<>> /\ nodes = {} /\ count = 0 /\ managed = {}
  /\ refs = [r \in Receiver |-> 1] /\ owned = Receiver
  /\ visits = [t \in Thread |-> <<>>] /\ recvers = [t \in Thread |-> <<>>]
  /\ cleared = [t \in Thread |-> <<>>]

(* _recv_list is not empty.                                                *)
Linked(r) ==
  \/ Len(chain) > 1 /\ r \in ToSet(chain)
  \/ \E t \in Thread : r \in ToSet(cleared[t])

Adjust(r, n) == refs' = [refs EXCEPT ![r] = @ + n]

(* The mutex is held between two steps only by an emission.                *)
MutexFree == \A t \in Thread : visits[t] = <<>>

----------------------------------------------------------------------------
(* _erase: the first of several leaves its node to the second, and goes on *)
(* looking like a node itself (rb_replace_node).                           *)
EraseNode(r) ==   \* mutant: the second does not become a node
  /\ chain' = RemoveAt(chain, CHOOSE i \in DOMAIN chain : chain[i] = r)
  /\ nodes' = IF Len(chain) = 1 THEN nodes \ {r} ELSE nodes
  /\ count' = count - 1

Erase(r) ==
  /\ chain' = RemoveAt(chain, CHOOSE i \in DOMAIN chain : chain[i] = r)
  /\ nodes' = IF r # Head(chain) THEN nodes
               ELSE IF Len(chain) = 1 THEN nodes \ {r}
               ELSE nodes \cup {chain[2]}
  /\ count' = count - 1

(* The linked receivers are visited before the first.                      *)
Visited == Append(Tail(chain), Head(chain))

----------------------------------------------------------------------------
(* EM_subscribe, of a receiver that was initialised for it.                *)
Subscribe(r) ==
  /\ MutexFree
  /\ r \in owned /\ r \notin managed
  /\ chain' = Append(chain, r) /\ count' = count + 1
  /\ nodes' = IF chain = <<>> THEN nodes \cup {r} ELSE nodes
  /\ managed' = managed \cup {r}
  /\ Adjust(r, 1)
  /\ UNCHANGED <<owned, visits, recvers, cleared>>

(* The guard of EM_unsubscribe.                                            *)
Valid(r) == r \in managed /\ (r \in nodes \/ Linked(r))

(* Owners do not unsubscribe what an emission or a clear_sub has removed.  *)
Unsubscribe(r) ==
  /\ MutexFree
  /\ r \in owned /\ Valid(r) /\ r \in ToSet(chain)
  /\ Erase(r)
  /\ Adjust(r, -1)
  /\ UNCHANGED <<managed, owned, visits, recvers, cleared>>

(* EM_emit_event takes the mutex and visits the receivers one by one; the  *)
(* last visit gives it back.                                               *)
Emit(t) ==
  /\ MutexFree /\ recvers[t] = <<>> /\ cleared[t] = <<>> /\ chain # <<>>
  /\ visits' = [visits EXCEPT ![t] = Visited]
  /\ UNCHANGED <<map, managed, refs, owned, recvers, cleared>>

Decline(t) ==
  /\ visits[t] # <<>> /\ Head(visits[t]) \in Preproc
  /\ visits' = [visits EXCEPT ![t] = Tail(@)]
  /\ UNCHANGED <<map, managed, refs, owned, recvers, cleared>>

(* A receiver that takes the event is picked with a reference of its own   *)
(* or, oneshot, with the manager's.                                        *)
TakeAgain(t) ==   \* mutant: a oneshot receiver stays subscribed
  LET r == Head(visits[t]) IN
  /\ visits[t] # <<>>
  /\ visits' = [visits EXCEPT ![t] = Tail(@)]
  /\ recvers' = [recvers EXCEPT ![t] = Append(@, r)]
  /\ Adjust(r, 1)
  /\ UNCHANGED <<map, managed, owned, cleared>>

TakeUnheld(t) ==   \* mutant: the receivers picked are not held
  LET r == Head(visits[t]) IN
  /\ visits[t] # <<>>
  /\ visits' = [visits EXCEPT ![t] = Tail(@)]
  /\ recvers' = [recvers EXCEPT ![t] = Append(@, r)]
  /\ IF r \in Oneshot THEN Erase(r) ELSE UNCHANGED map
  /\ UNCHANGED <<managed, refs, owned, cleared>>

Take(t) ==
  LET r == Head(visits[t]) IN
  /\ visits[t] # <<>>
  /\ visits' = [visits EXCEPT ![t] = Tail(@)]
  /\ recvers' = [recvers EXCEPT ![t] = Append(@, r)]
  /\ IF r \in Oneshot THEN Erase(r) /\ UNCHANGED refs
                       ELSE Adjust(r, 1) /\ UNCHANGED map
  /\ UNCHANGED <<managed, owned, cleared>>

(* Then each is called, without the mutex, and released.                   *)
Deliver(t) ==
  /\ visits[t] = <<>> /\ recvers[t] # <<>>
  /\ recvers' = [recvers EXCEPT ![t] = Tail(@)]
  /\ Adjust(Head(recvers[t]), -1)
  /\ UNCHANGED <<map, managed, owned, visits, cleared>>

(* EM_clear_sub_map: all are erased under the mutex - the first when it is *)
(* alone, so its node is cleared - and released without.                   *)
Clear(t) ==
  /\ MutexFree /\ recvers[t] = <<>> /\ cleared[t] = <<>> /\ chain # <<>>
  /\ chain' = <<>> /\ nodes' = nodes \ {Head(chain)} /\ count' = count - Len(chain)
  /\ cleared' = [cleared EXCEPT ![t] = Visited]
  /\ UNCHANGED <<managed, refs, owned, visits, recvers>>

ReleaseCleared(t) ==
  /\ cleared[t] # <<>>
  /\ cleared' = [cleared EXCEPT ![t] = Tail(@)]
  /\ Adjust(Head(cleared[t]), -1)
  /\ UNCHANGED <<map, managed, owned, visits, recvers>>

(* The owner's reference goes, at once after sub_self, or later; with the  *)
(* last reference the receiver is freed, and another is made.              *)
Drop(r) ==
  /\ r \in owned /\ owned' = owned \ {r}
  /\ Adjust(r, -1)
  /\ UNCHANGED <<map, managed, visits, recvers, cleared>>

Make(r) ==
  /\ refs[r] = 0
  /\ Adjust(r, 1) /\ owned' = owned \cup {r}
  /\ nodes' = nodes \ {r} /\ managed' = managed \ {r}
  /\ UNCHANGED <<chain, count, visits, recvers, cleared>>

Next ==
  \/ \E r \in Receiver : Subscribe(r) \/ Unsubscribe(r) \/ Drop(r) \/ Make(r)
  \/ \E t \in Thread :
       Emit(t) \/ Decline(t) \/ Take(t) \/ Deliver(t) \/ Clear(t) \/ ReleaseCleared(t)

Spec == Init /\ [][Next]_vars /\ \A t \in Thread : WF_vars(Deliver(t))

----------------------------------------------------------------------------
(* Properties.                                                             *)

(* Whatever is subscribed can be erased: the guard of EM_unsubscribe lets  *)
(* it pass and the assertions of _erase hold, for the first and for the    *)
(* linked; a receiver is never freed while it is subscribed.               *)
Erasable(r) ==
  /\ Valid(r) /\ refs[r] > 0
  /\ (r \in nodes) = (r = Head(chain))
ChainIsErasable ==
  /\ count = Len(chain) /\ IsInjective(chain)
  /\ \A r \in ToSet(chain) : Erasable(r)

(* Every reference is the owner's, the manager's or an emission's.         *)
Holders(lists, r) == {t \in Thread : r \in ToSet(lists[t])}
Uses(r) ==
  (IF r \in owned THEN 1 ELSE 0) + (IF r \in ToSet(chain) THEN 1 ELSE 0)
  + Cardinality(Holders(recvers, r)) + Cardinality(Holders(cleared, r))
RefsBalance == \A r \in Receiver : refs[r] = Uses(r)

(* The chain and its nodes implement the plain set of receivers: one       *)
(* emission calls each receiver once, and a oneshot receiver is picked by  *)
(* one emission, however many threads emit.  What an emission that still   *)
(* holds the mutex has erased counts as subscribed until it unlocks.       *)
Erased == {r \in Oneshot : \E t \in Thread : visits[t] # <<>> /\ r \in ToSet(recvers[t])}
Bus == INSTANCE EventBus WITH
  subscribed <- ToSet(chain) \cup Erased,
  owed <- [t \in Thread |-> IF visits[t] = <<>> THEN ToSet(recvers[t]) ELSE {}]
KeepsBus == Bus!Spec
=============================================================================
