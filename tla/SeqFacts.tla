------------------------------ MODULE SeqFacts ------------------------------
(***************************************************************************)
(* Facts about the sequences that stand for the intrusive lists of the     *)
(* code: their elements (ToSet) and that none is in a list twice           *)
(* (IsInjective), after each operation on a list.                          *)
(***************************************************************************)
EXTENDS Integers, Sequences, SequencesExt, TLAPS

(* Two sequences with the same elements at the same places are equal.      *)
LEMMA SeqEqual ==
  ASSUME NEW S, NEW s \in Seq(S), NEW r \in Seq(S), Len(s) = Len(r),
         \A i \in 1 .. Len(s) : s[i] = r[i]
  PROVE  s = r
<1>1. s = [i \in 1 .. Len(s) |-> s[i]] /\ r = [i \in 1 .. Len(s) |-> r[i]]
  OBVIOUS
<1> QED BY <1>1

(* The places of a concatenation.                                          *)
LEMMA ConcatAt ==
  ASSUME NEW S, NEW s \in Seq(S), NEW r \in Seq(S)
  PROVE  /\ s \o r \in Seq(S) /\ Len(s \o r) = Len(s) + Len(r)
         /\ \A i \in 1 .. Len(s) + Len(r) :
              (s \o r)[i] = IF i <= Len(s) THEN s[i] ELSE r[i - Len(s)]
  OBVIOUS

(* Appending (list_add_tail) adds one element, and keeps the others apart. *)
LEMMA AppendFacts ==
  ASSUME NEW S, NEW s \in Seq(S), NEW x \in S
  PROVE  /\ Append(s, x) \in Seq(S)
         /\ ToSet(Append(s, x)) = ToSet(s) \cup {x}
         /\ IsInjective(s) /\ x \notin ToSet(s) => IsInjective(Append(s, x))
<1> DEFINE a == Append(s, x)
<1>1. /\ a \in Seq(S) /\ Len(a) = Len(s) + 1
      /\ \A i \in 1 .. Len(s) : a[i] = s[i]
      /\ a[Len(s) + 1] = x
  OBVIOUS
<1>2. DOMAIN a = 1 .. Len(s) + 1 /\ DOMAIN s = 1 .. Len(s) /\ Len(s) \in Nat
  BY <1>1
<1> HIDE DEF a
<1>3. ToSet(a) = ToSet(s) \cup {x}
  BY <1>1, <1>2 DEF ToSet
<1>4. ASSUME IsInjective(s), x \notin ToSet(s) PROVE IsInjective(a)
  BY <1>1, <1>2, <1>4 DEF ToSet, IsInjective
<1> QED BY <1>1, <1>3, <1>4 DEF a

(* Taking the first off a list leaves the others, and leaves them apart.   *)
LEMMA TailFacts ==
  ASSUME NEW S, NEW s \in Seq(S), s # <<>>
  PROVE  /\ Head(s) \in S /\ Tail(s) \in Seq(S)
         /\ ToSet(s) = {Head(s)} \cup ToSet(Tail(s))
         /\ IsInjective(s) => IsInjective(Tail(s)) /\ Head(s) \notin ToSet(Tail(s))
<1> DEFINE a == Tail(s)
<1>1. /\ a \in Seq(S) /\ Len(a) = Len(s) - 1 /\ Len(s) \in Nat \ {0}
      /\ \A i \in 1 .. Len(a) : a[i] = s[i + 1]
      /\ Head(s) = s[1] /\ Head(s) \in S
  OBVIOUS
<1>2. DOMAIN a = 1 .. Len(s) - 1 /\ DOMAIN s = 1 .. Len(s)
  BY <1>1
<1> HIDE DEF a
<1>3. ToSet(s) = {Head(s)} \cup ToSet(a)
  <2>1. \A i \in 1 .. Len(s) : i = 1 \/ (s[i] = a[i - 1] /\ i - 1 \in 1 .. Len(s) - 1)
    BY <1>1, <1>2
  <2>2. \A i \in 1 .. Len(s) - 1 : a[i] = s[i + 1] /\ i + 1 \in 1 .. Len(s)
    BY <1>1, <1>2
  <2>3. ToSet(a) \subseteq ToSet(s) /\ Head(s) \in ToSet(s)
    <3>1. \A i \in DOMAIN a : i + 1 \in DOMAIN s /\ a[i] = s[i + 1]
      BY <1>2, <2>2
    <3>2. 1 \in DOMAIN s /\ Head(s) = s[1]
      BY <1>1, <1>2
    <3>3. \A i \in DOMAIN s : s[i] \in ToSet(s)
      BY DEF ToSet
    <3>4. \A x \in ToSet(a) : \E i \in DOMAIN a : x = a[i]
      BY DEF ToSet
    <3> QED BY <3>1, <3>2, <3>3, <3>4
  <2>4. ToSet(s) \subseteq {Head(s)} \cup ToSet(a)
    <3> SUFFICES ASSUME NEW i \in 1 .. Len(s) PROVE s[i] \in {Head(s)} \cup ToSet(a)
      BY <1>2 DEF ToSet
    <3>1. CASE i = 1
      BY <1>1, <3>1
    <3>2. CASE i # 1
      <4>1. i - 1 \in DOMAIN a /\ s[i] = a[i - 1]
        BY <1>2, <2>1, <3>2
      <4> QED BY <4>1 DEF ToSet
    <3> QED BY <3>1, <3>2
  <2> QED BY <2>3, <2>4
<1>4. ASSUME IsInjective(s) PROVE IsInjective(a) /\ Head(s) \notin ToSet(a)
  <2>1. \A i, j \in 1 .. Len(s) : s[i] = s[j] => i = j
    BY <1>1, <1>4 DEF IsInjective
  <2>2. ASSUME NEW i \in DOMAIN a, NEW j \in DOMAIN a, a[i] = a[j] PROVE i = j
    <3>1. i + 1 \in 1 .. Len(s) /\ j + 1 \in 1 .. Len(s) /\ s[i + 1] = s[j + 1]
      BY <1>1, <1>2, <2>2
    <3> QED BY <2>1, <3>1, <1>2
  <2>3. ASSUME NEW i \in DOMAIN a, a[i] = Head(s) PROVE FALSE
    <3>1. i + 1 \in 1 .. Len(s) /\ 1 \in 1 .. Len(s) /\ s[i + 1] = s[1] /\ i # 0
      BY <1>1, <1>2, <2>3
    <3> QED BY <2>1, <3>1, <1>2
  <2> QED BY <2>2, <2>3 DEF ToSet, IsInjective
<1> QED BY <1>1, <1>3, <1>4 DEF a

(* Two disjoint lists joined (list_splice) have the elements of both.      *)
LEMMA ConcatFacts ==
  ASSUME NEW S, NEW s \in Seq(S), NEW r \in Seq(S)
  PROVE  /\ s \o r \in Seq(S)
         /\ ToSet(s \o r) = ToSet(s) \cup ToSet(r)
         /\ IsInjective(s) /\ IsInjective(r) /\ ToSet(s) \cap ToSet(r) = {}
              => IsInjective(s \o r)
<1> DEFINE a == s \o r
<1>1. /\ a \in Seq(S) /\ Len(a) = Len(s) + Len(r) /\ Len(s) \in Nat /\ Len(r) \in Nat
      /\ \A i \in 1 .. Len(s) + Len(r) :
           a[i] = IF i <= Len(s) THEN s[i] ELSE r[i - Len(s)]
  OBVIOUS
<1>2. DOMAIN a = 1 .. Len(s) + Len(r) /\ DOMAIN s = 1 .. Len(s) /\ DOMAIN r = 1 .. Len(r)
  BY <1>1
<1> HIDE DEF a
<1>3. \A i \in DOMAIN s : i \in DOMAIN a /\ a[i] = s[i]
  BY <1>1, <1>2
<1>4. \A i \in DOMAIN r : i + Len(s) \in DOMAIN a /\ a[i + Len(s)] = r[i]
  BY <1>1, <1>2
<1>5. \A i \in DOMAIN a : \/ i \in DOMAIN s /\ a[i] = s[i]
                          \/ i - Len(s) \in DOMAIN r /\ a[i] = r[i - Len(s)]
  BY <1>1, <1>2
<1>6. ToSet(a) = ToSet(s) \cup ToSet(r)
  BY <1>3, <1>4, <1>5 DEF ToSet
<1>7. ASSUME IsInjective(s), IsInjective(r), ToSet(s) \cap ToSet(r) = {}
      PROVE  IsInjective(a)
  <2> SUFFICES ASSUME NEW i \in DOMAIN a, NEW j \in DOMAIN a, a[i] = a[j] PROVE i = j
    BY DEF IsInjective
  <2>1. CASE i \in DOMAIN s /\ j \in DOMAIN s
    BY <1>3, <1>7, <2>1 DEF IsInjective
  <2>2. CASE i \notin DOMAIN s /\ j \notin DOMAIN s
    BY <1>1, <1>2, <1>5, <1>7, <2>2 DEF IsInjective
  <2>3. CASE (i \in DOMAIN s) # (j \in DOMAIN s)
    <3>1. \A m \in DOMAIN s, n \in DOMAIN r : s[m] # r[n]
      BY <1>7 DEF ToSet
    <3> QED BY <1>3, <1>5, <2>3, <3>1
  <2> QED BY <2>1, <2>2, <2>3
<1> QED BY <1>1, <1>6, <1>7 DEF a

(* Unlinking an element (list_del_init) removes it and no other.           *)
LEMMA RemoveFacts ==
  ASSUME NEW S, NEW s \in Seq(S), NEW i \in DOMAIN s, IsInjective(s)
  PROVE  /\ RemoveAt(s, i) \in Seq(S)
         /\ ToSet(RemoveAt(s, i)) = ToSet(s) \ {s[i]}
         /\ IsInjective(RemoveAt(s, i))
<1> DEFINE a == SubSeq(s, 1, i - 1)
           b == SubSeq(s, i + 1, Len(s))
<1>1. i \in 1 .. Len(s) /\ Len(s) \in Nat /\ DOMAIN s = 1 .. Len(s)
  OBVIOUS
<1>2. /\ a \in Seq(S) /\ Len(a) = i - 1 /\ DOMAIN a = 1 .. i - 1
      /\ \A k \in 1 .. i - 1 : a[k] = s[k]
  BY <1>1
<1>3. /\ b \in Seq(S) /\ Len(b) = Len(s) - i /\ DOMAIN b = 1 .. Len(s) - i
      /\ \A k \in 1 .. Len(s) - i : b[k] = s[k + i]
  BY <1>1
<1> HIDE DEF a, b
<1>4. IsInjective(a) /\ IsInjective(b)
  <2>1. \A k, m \in 1 .. Len(s) : s[k] = s[m] => k = m
    BY <1>1 DEF IsInjective
  <2>2. ASSUME NEW k \in DOMAIN a, NEW m \in DOMAIN a, a[k] = a[m] PROVE k = m
    BY <1>1, <1>2, <2>1, <2>2
  <2>3. ASSUME NEW k \in DOMAIN b, NEW m \in DOMAIN b, b[k] = b[m] PROVE k = m
    <3>1. k \in Int /\ m \in Int /\ i \in Int
      BY <1>1, <1>3
    <3>2. k + i \in 1 .. Len(s) /\ m + i \in 1 .. Len(s)
      BY <1>1, <1>3
    <3>3. s[k + i] = s[m + i]
      BY <1>3, <2>3
    <3>4. k + i = m + i
      BY <2>1, <3>2, <3>3
    <3> QED BY <3>1, <3>4
  <2> QED BY <2>2, <2>3 DEF IsInjective
<1>5. ASSUME NEW k \in DOMAIN a, NEW m \in DOMAIN b, a[k] = b[m] PROVE FALSE
  <2>1. k \in DOMAIN s /\ m + i \in DOMAIN s /\ k # m + i
    BY <1>1, <1>2, <1>3
  <2>2. s[k] = s[m + i]
    BY <1>2, <1>3, <1>5
  <2> QED BY <2>1, <2>2 DEF IsInjective
<1>6. ToSet(a) \cap ToSet(b) = {}
  BY <1>5 DEF ToSet
<1>7. ToSet(a) \cup ToSet(b) = ToSet(s) \ {s[i]}
  <2>1. \A k \in DOMAIN s : \/ k = i
                            \/ k \in DOMAIN a /\ a[k] = s[k]
                            \/ k - i \in DOMAIN b /\ b[k - i] = s[k]
    <3> SUFFICES ASSUME NEW k \in DOMAIN s, k # i
                 PROVE  \/ k \in DOMAIN a /\ a[k] = s[k]
                        \/ k - i \in DOMAIN b /\ b[k - i] = s[k]
      OBVIOUS
    <3>1. CASE k < i
      BY <1>1, <1>2, <3>1
    <3>2. CASE k > i
      <4>1. k - i \in 1 .. Len(s) - i /\ (k - i) + i = k
        BY <1>1, <3>2
      <4> QED BY <1>3, <4>1
    <3> QED BY <1>1, <3>1, <3>2
  <2>2. \A k \in DOMAIN a : k \in DOMAIN s /\ a[k] = s[k] /\ k # i
    BY <1>1, <1>2
  <2>3. \A k \in DOMAIN b : k + i \in DOMAIN s /\ b[k] = s[k + i] /\ k + i # i
    BY <1>1, <1>3
  <2>4. \A k \in DOMAIN s : s[k] = s[i] => k = i
    BY <1>1 DEF IsInjective
  <2> QED BY <2>1, <2>2, <2>3, <2>4 DEF ToSet
<1>8. RemoveAt(s, i) = a \o b
  BY DEF RemoveAt, a, b
<1> QED BY <1>2, <1>3, <1>4, <1>6, <1>7, <1>8, ConcatFacts

(* What is left when an element is unlinked: the ones behind it move up.   *)
LEMMA RemoveAtFacts ==
  ASSUME NEW S, NEW s \in Seq(S), NEW i \in DOMAIN s
  PROVE  /\ RemoveAt(s, i) \in Seq(S) /\ Len(RemoveAt(s, i)) = Len(s) - 1
         /\ \A j \in 1 .. Len(s) - 1 :
              RemoveAt(s, i)[j] = IF j < i THEN s[j] ELSE s[j + 1]
<1> DEFINE a == SubSeq(s, 1, i - 1)
           b == SubSeq(s, i + 1, Len(s))
<1>1. i \in 1 .. Len(s) /\ Len(s) \in Nat
  OBVIOUS
<1>2. /\ a \in Seq(S) /\ Len(a) = i - 1
      /\ \A k \in 1 .. i - 1 : a[k] = s[k]
  BY <1>1
<1>3. /\ b \in Seq(S) /\ Len(b) = Len(s) - i
      /\ \A k \in 1 .. Len(s) - i : b[k] = s[k + i]
  BY <1>1
<1> HIDE DEF a, b
<1>4. RemoveAt(s, i) = a \o b
  BY DEF RemoveAt, a, b
<1>5. /\ a \o b \in Seq(S) /\ Len(a \o b) = Len(s) - 1
      /\ \A j \in 1 .. Len(s) - 1 : (a \o b)[j] = IF j <= i - 1 THEN a[j] ELSE b[j - (i - 1)]
  <2>1. a \in Seq(S) /\ b \in Seq(S)
    BY <1>2, <1>3
  <2>2. /\ a \o b \in Seq(S) /\ Len(a \o b) = Len(a) + Len(b)
        /\ \A j \in 1 .. Len(a) + Len(b) :
             (a \o b)[j] = IF j <= Len(a) THEN a[j] ELSE b[j - Len(a)]
    BY <2>1, ConcatAt
  <2>3. Len(a) = i - 1 /\ Len(a) + Len(b) = Len(s) - 1
    BY <1>1, <1>2, <1>3
  <2> QED BY <2>2, <2>3
<1>6. ASSUME NEW j \in 1 .. Len(s) - 1
      PROVE  (a \o b)[j] = IF j < i THEN s[j] ELSE s[j + 1]
  <2>1. CASE j < i
    BY <1>1, <1>2, <1>5, <2>1
  <2>2. CASE ~(j < i)
    <3>1. j - (i - 1) \in 1 .. Len(s) - i /\ (j - (i - 1)) + i = j + 1 /\ ~(j <= i - 1)
      BY <1>1, <2>2
    <3> QED BY <1>3, <1>5, <2>2, <3>1
  <2> QED BY <2>1, <2>2
<1> QED BY <1>4, <1>5, <1>6

(* The empty list.                                                         *)
LEMMA EmptyFacts == ToSet(<<>>) = {} /\ IsInjective(<<>>)
  BY DEF ToSet, IsInjective
=============================================================================
