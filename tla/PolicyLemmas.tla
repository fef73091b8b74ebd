---------------------------- MODULE PolicyLemmas ----------------------------
(* What the operations of the lists and of the two policies preserve and    *)
(* return, for every set of keys.                                           *)
EXTENDS LRU, LFU, FoldLemmas, SequenceTheorems, TLAPS

(* Removing the i-th element shifts the elements behind it by one place.    *)
LEMMA RemoveAtProperties ==
  ASSUME NEW S, NEW s \in Seq(S), NEW i \in 1..Len(s)
  PROVE  /\ RemoveAt(s, i) \in Seq(S)
         /\ Len(RemoveAt(s, i)) = Len(s) - 1
         /\ \A j \in 1..(Len(s) - 1) :
              RemoveAt(s, i)[j] = IF j < i THEN s[j] ELSE s[j + 1]
<1> DEFINE a == SubSeq(s, 1, i - 1)
           b == SubSeq(s, i + 1, Len(s))
<1>1. /\ a \in Seq(S) /\ Len(a) = i - 1
      /\ \A j \in 1..(i - 1) : a[j] = s[j]
  OBVIOUS
<1>2. /\ b \in Seq(S) /\ Len(b) = Len(s) - i
      /\ \A j \in 1..(Len(s) - i) : b[j] = s[j + i]
  OBVIOUS
<1>3. RemoveAt(s, i) = a \o b
  BY DEF RemoveAt
<1> HIDE DEF a, b
<1>4. /\ a \o b \in Seq(S)
      /\ Len(a \o b) = Len(s) - 1
  <2>1. a \o b \in Seq(S) /\ Len(a \o b) = Len(a) + Len(b)
    BY <1>1, <1>2, ConcatProperties
  <2>2. (i - 1) + (Len(s) - i) = Len(s) - 1
    OBVIOUS
  <2> QED BY <2>1, <2>2, <1>1, <1>2
<1>5. ASSUME NEW j \in 1..(Len(s) - 1)
      PROVE  (a \o b)[j] = IF j < i THEN s[j] ELSE s[j + 1]
  <2>1. CASE j < i
    BY <2>1, <1>1, <1>2
  <2>2. CASE ~(j < i)
    <3>1. (a \o b)[j] = b[j - (i - 1)]
      BY <2>2, <1>1, <1>2
    <3>2. j - (i - 1) \in 1..(Len(s) - i) /\ (j - (i - 1)) + i = j + 1
      BY <2>2
    <3> QED BY <3>1, <3>2, <1>2, <2>2
  <2> QED BY <2>1, <2>2
<1> QED BY <1>3, <1>4, <1>5

(* What pushing a key to the front does to every position.                  *)
LEMMA PushFrontProperties ==
  ASSUME NEW S, NEW s \in Seq(S), NEW e \in S
  PROVE  /\ PushFront(s, e) \in Seq(S)
         /\ Len(PushFront(s, e)) = Len(s) + 1
         /\ PushFront(s, e)[1] = e
         /\ \A j \in 1..Len(s) : PushFront(s, e)[j + 1] = s[j]
<1>1. <<e>> \in Seq(S) /\ Len(<<e>>) = 1 /\ <<e>>[1] = e
  OBVIOUS
<1>2. \A j \in 1..Len(s) : (<<e>> \o s)[j + 1] = s[j]
  BY <1>1
<1> QED BY <1>1, <1>2 DEF PushFront

(* A sequence over a set is one over every set that holds its elements.     *)
LEMMA SeqOver ==
  ASSUME NEW S, NEW T, NEW s \in Seq(S), \A i \in 1..Len(s) : s[i] \in T
  PROVE  s \in Seq(T)
OBVIOUS

(* The place of a linked key is its only place.                             *)
LEMMA PositionProperties ==
  ASSUME NEW K, NEW s, Links(s, K), NEW key \in K
  PROVE  /\ Position(s, key) \in 1..Len(s)
         /\ s[Position(s, key)] = key
         /\ \A i \in 1..Len(s) : s[i] = key => i = Position(s, key)
<1>1. \E i \in DOMAIN s : s[i] = key
  BY DEF Links
<1>2. Position(s, key) \in DOMAIN s /\ s[Position(s, key)] = key
  BY <1>1 DEF Position
<1>3. DOMAIN s = 1..Len(s)
  BY DEF Links
<1> QED BY <1>2, <1>3 DEF Links

(* What removing a key does to every position.                              *)
LEMMA UnlinkedProperties ==
  ASSUME NEW K, NEW s, Links(s, K), NEW key \in K
  PROVE  /\ Unlinked(s, key) \in Seq(K)
         /\ Len(Unlinked(s, key)) = Len(s) - 1
         /\ \A j \in 1..(Len(s) - 1) :
              Unlinked(s, key)[j] = IF j < Position(s, key) THEN s[j] ELSE s[j + 1]
<1>1. s \in Seq(K) /\ Position(s, key) \in 1..Len(s)
  BY PositionProperties DEF Links
<1> QED BY <1>1, RemoveAtProperties DEF Unlinked

(* Unlinking a key takes it and nothing else out of the list.               *)
LEMMA UnlinkedLinks ==
  ASSUME NEW K, NEW s, Links(s, K), NEW key \in K
  PROVE  Links(Unlinked(s, key), K \ {key})
<1> DEFINE p == Position(s, key)
           u == Unlinked(s, key)
<1>1. /\ s \in Seq(K) /\ Len(s) \in Nat /\ DOMAIN s = 1..Len(s)
      /\ \A k \in K : \E i \in 1..Len(s) : s[i] = k
      /\ \A i \in 1..Len(s) : s[i] \in K
      /\ \A i, j \in 1..Len(s) : s[i] = s[j] => i = j
  BY DEF Links
<1>2. /\ p \in 1..Len(s) /\ s[p] = key
      /\ \A i \in 1..Len(s) : s[i] = key => i = p
  BY PositionProperties
<1>3. /\ u \in Seq(K) /\ Len(u) = Len(s) - 1
      /\ \A j \in 1..(Len(s) - 1) : u[j] = IF j < p THEN s[j] ELSE s[j + 1]
  BY UnlinkedProperties
<1> HIDE DEF p, u
<1>4. ASSUME NEW k \in K \ {key}
      PROVE  \E i \in 1..Len(u) : u[i] = k
  <2>1. PICK i \in 1..Len(s) : s[i] = k
    BY <1>1
  <2>2. i # p
    BY <2>1, <1>2
  <2>3. CASE i < p
    BY <2>1, <2>3, <1>2, <1>3
  <2>4. CASE i > p
    <3>1. i - 1 \in 1..(Len(s) - 1) /\ ~(i - 1 < p) /\ (i - 1) + 1 = i
      BY <2>4, <1>1, <1>2, <1>3
    <3>2. u[i - 1] = k
      BY <3>1, <2>1, <1>3
    <3> QED BY <3>1, <3>2, <1>3
  <2> QED BY <2>2, <2>3, <2>4, <1>2
<1>5. ASSUME NEW i \in 1..Len(u)
      PROVE  u[i] \in K \ {key}
  <2>1. CASE i < p
    <3>1. u[i] = s[i] /\ i \in 1..Len(s) /\ i # p
      BY <2>1, <1>1, <1>2, <1>3
    <3> QED BY <3>1, <1>1, <1>2
  <2>2. CASE ~(i < p)
    <3>1. u[i] = s[i + 1] /\ i + 1 \in 1..Len(s) /\ i + 1 # p
      BY <2>2, <1>1, <1>2, <1>3
    <3> QED BY <3>1, <1>1, <1>2
  <2> QED BY <2>1, <2>2
<1>6. ASSUME NEW i \in 1..Len(u), NEW j \in 1..Len(u), u[i] = u[j]
      PROVE  i = j
  <2> DEFINE at(x) == IF x < p THEN x ELSE x + 1
  <2>0. Len(s) \in Nat /\ p \in 1..Len(s) /\ Len(u) = Len(s) - 1 BY <1>1, <1>2, <1>3
  <2>1. ASSUME NEW x \in 1..Len(u) PROVE at(x) \in 1..Len(s) /\ u[x] = s[at(x)]
    <3>1. x \in 1..(Len(s) - 1) BY <2>0
    <3>2. u[x] = IF x < p THEN s[x] ELSE s[x + 1] BY <1>3, <3>1
    <3> QED BY <2>0, <3>1, <3>2
  <2>2. at(i) = at(j)
    BY <2>1, <1>6, <1>1
  <2> QED BY <2>2, <1>1, <1>2
<1>7. DOMAIN u = 1..Len(u)
  BY <1>3
<1>8. u \in Seq(K \ {key})
  BY <1>3, <1>5, SeqOver
<1> QED BY <1>4, <1>6, <1>7, <1>8 DEF Links, u

(* Linking a key that is not linked adds it and nothing else.               *)
LEMMA PushFrontLinks ==
  ASSUME NEW K, NEW s, Links(s, K), NEW key, key \notin K
  PROVE  Links(PushFront(s, key), K \cup {key})
<1> DEFINE q == PushFront(s, key)
           T == K \cup {key}
<1>1. /\ s \in Seq(K) /\ Len(s) \in Nat /\ DOMAIN s = 1..Len(s)
      /\ \A k \in K : \E i \in 1..Len(s) : s[i] = k
      /\ \A i \in 1..Len(s) : s[i] \in K
      /\ \A i, j \in 1..Len(s) : s[i] = s[j] => i = j
  BY DEF Links
<1>2. s \in Seq(T) /\ key \in T
  BY <1>1, SeqOver
<1>3. /\ q \in Seq(T) /\ Len(q) = Len(s) + 1 /\ q[1] = key
      /\ \A j \in 1..Len(s) : q[j + 1] = s[j]
  <2>1. q = PushFront(s, key)
    OBVIOUS
  <2> HIDE DEF q, T
  <2>2. /\ PushFront(s, key) \in Seq(T) /\ Len(PushFront(s, key)) = Len(s) + 1
        /\ PushFront(s, key)[1] = key
        /\ \A j \in 1..Len(s) : PushFront(s, key)[j + 1] = s[j]
    BY <1>2, PushFrontProperties
  <2> QED BY <2>1, <2>2
<1> HIDE DEF q
<1>4. \A i \in 1..Len(q) : i = 1 \/ (i - 1 \in 1..Len(s) /\ q[i] = s[i - 1])
  <2> SUFFICES ASSUME NEW i \in 1..Len(q), i # 1
               PROVE  i - 1 \in 1..Len(s) /\ q[i] = s[i - 1]
    OBVIOUS
  <2>1. i - 1 \in 1..Len(s) /\ (i - 1) + 1 = i
    BY <1>1, <1>3
  <2> QED BY <2>1, <1>3
<1>5. \A k \in T : \E i \in 1..Len(q) : q[i] = k
  <2>1. \E i \in 1..Len(q) : q[i] = key
    BY <1>1, <1>3
  <2>2. ASSUME NEW k \in K PROVE \E i \in 1..Len(q) : q[i] = k
    <3>1. PICK i \in 1..Len(s) : s[i] = k
      BY <1>1
    <3>2. i + 1 \in 1..Len(q)
      BY <1>1, <1>3
    <3>3. q[i + 1] = k
      BY <3>1, <1>3
    <3> QED BY <3>2, <3>3
  <2> QED BY <2>1, <2>2
<1>6. ASSUME NEW i \in 1..Len(q), NEW j \in 1..Len(q), q[i] = q[j]
      PROVE  i = j
  <2>1. \A x \in 1..Len(q) : x # 1 => q[x] \in K
    BY <1>1, <1>4
  <2>2. i = 1 <=> j = 1
    BY <2>1, <1>3, <1>6
  <2>3. CASE i # 1 /\ j # 1
    <3>1. /\ i - 1 \in 1..Len(s) /\ q[i] = s[i - 1]
          /\ j - 1 \in 1..Len(s) /\ q[j] = s[j - 1]
      BY <1>4, <2>3
    <3>2. i - 1 = j - 1
      BY <3>1, <1>1, <1>6
    <3> QED BY <3>2
  <2> QED BY <2>2, <2>3
<1>7. DOMAIN q = 1..Len(q)
  BY <1>3
<1> QED BY <1>3, <1>5, <1>6, <1>7 DEF Links, q

(* Moving a key to the front links the same keys.                           *)
LEMMA MoveToFrontLinks ==
  ASSUME NEW K, NEW s, Links(s, K), NEW key \in K
  PROVE  Links(MoveToFront(s, key), K)
<1>1. Links(Unlinked(s, key), K \ {key})
  BY UnlinkedLinks
<1>2. Links(PushFront(Unlinked(s, key), key), (K \ {key}) \cup {key})
  BY <1>1, PushFrontLinks
<1>3. (K \ {key}) \cup {key} = K
  OBVIOUS
<1> QED BY <1>2, <1>3 DEF MoveToFront

(* The empty list links no key.                                             *)
LEMMA EmptyLinks == Links(<<>>, {})
BY DEF Links

(* A list that links a set is empty only if the set is; its back element is *)
(* in the set.                                                              *)
LEMMA BackOfLinks ==
  ASSUME NEW K, NEW s, Links(s, K)
  PROVE  /\ s # <<>> <=> K # {}
         /\ s # <<>> => s[Len(s)] \in K
<1>1. /\ s \in Seq(K) /\ DOMAIN s = 1..Len(s)
      /\ \A k \in K : \E i \in 1..Len(s) : s[i] = k
  BY DEF Links
<1>2. CASE s = <<>>
  BY <1>1, <1>2
<1>3. CASE s # <<>>
  <2>1. Len(s) \in 1..Len(s)
    BY <1>1, <1>3
  <2> QED BY <1>1, <1>3, <2>1
<1> QED BY <1>2, <1>3
-----------------------------------------------------------------------------
(* The LRU hooks keep list and map consistent and change the set of keys as *)
(* their names say.                                                         *)
LEMMA LRUHooks ==
  ASSUME NEW l, LRUConsistent(l), NEW key
  PROVE  /\ LRUConsistent(LRUOnGet(l, key)) /\ LRUOnGet(l, key).items = l.items
         /\ LRUConsistent(LRUOnSet(l, key))
         /\ LRUOnSet(l, key).items = l.items \cup {key}
         /\ LRUConsistent(LRUOnDelete(l, key))
         /\ LRUOnDelete(l, key).items = l.items \ {key}
<1>1. CASE key \in l.items
  <2>1. Links(MoveToFront(l.list, key), l.items)
    BY <1>1, MoveToFrontLinks DEF LRUConsistent
  <2>2. Links(Unlinked(l.list, key), l.items \ {key})
    BY <1>1, UnlinkedLinks DEF LRUConsistent
  <2> QED BY <1>1, <2>1, <2>2 DEF LRUOnGet, LRUOnSet, LRUOnDelete, LRUConsistent
<1>2. CASE key \notin l.items
  <2>1. Links(PushFront(l.list, key), l.items \cup {key})
    BY <1>2, PushFrontLinks DEF LRUConsistent
  <2> QED BY <1>2, <2>1 DEF LRUOnGet, LRUOnSet, LRUOnDelete, LRUConsistent
<1> QED BY <1>1, <1>2

(* A new LRU is consistent and holds no key.                                *)
LEMMA NewLRUConsistent == LRUConsistent(NewLRU) /\ NewLRU.items = {}
BY EmptyLinks DEF LRUConsistent, NewLRU

(* A policy that holds a key names one of its keys as the victim.           *)
LEMMA LRUVictimIsItem ==
  ASSUME NEW l, LRUConsistent(l)
  PROVE  /\ LRUHasVictim(l) <=> l.items # {}
         /\ LRUHasVictim(l) => LRUVictim(l) \in l.items
BY BackOfLinks DEF LRUConsistent, LRUHasVictim, LRUVictim
-----------------------------------------------------------------------------
(* Taking a key out of its bucket, and the bucket with it when it was the   *)
(* last of its frequency.                                                   *)
LEMMA WithoutNodeBuckets ==
  ASSUME NEW l, LFUBucketed(l), NEW key \in LFUKeys(l)
  PROVE  Buckets(WithoutNode(l, key), l.freq, LFUKeys(l) \ {key})
<1> DEFINE K == LFUKeys(l)
           f == l.freq[key]
           of(g) == {k \in K : l.freq[k] = g}
           left(g) == {k \in K \ {key} : l.freq[k] = g}
           rest == Unlinked(l.lists[f], key)
           w == WithoutNode(l, key)
<1>1. /\ DOMAIN l.lists = {l.freq[k] : k \in K} /\ f \in DOMAIN l.lists
      /\ \A g \in DOMAIN l.lists : Links(l.lists[g], of(g))
  BY DEF LFUBucketed, Buckets
<1>2. Links(rest, of(f) \ {key})
  BY <1>1, UnlinkedLinks
<1>3. of(f) \ {key} = left(f) /\ \A g : g # f => left(g) = of(g)
  OBVIOUS
<1>4. rest = <<>> <=> left(f) = {}
  BY <1>2, <1>3, BackOfLinks
<1>5. w = IF rest = <<>> THEN Restrict(l.lists, DOMAIN l.lists \ {f})
          ELSE [l.lists EXCEPT ![f] = rest]
  BY DEF WithoutNode
<1> HIDE DEF w, rest
<1>6. CASE rest = <<>>
  <2>1. w = [g \in DOMAIN l.lists \ {f} |-> l.lists[g]]
    BY <1>5, <1>6 DEF Restrict
  <2>2. DOMAIN w = {l.freq[k] : k \in K \ {key}}
    BY <2>1, <1>1, <1>4, <1>6
  <2>3. \A g \in DOMAIN w : Links(w[g], left(g))
    BY <2>1, <1>1, <1>3
  <2> QED BY <2>2, <2>3 DEF Buckets, w
<1>7. CASE rest # <<>>
  <2>1. w = [l.lists EXCEPT ![f] = rest]
    BY <1>5, <1>7
  <2>2. DOMAIN w = DOMAIN l.lists
    BY <2>1
  <2>3. DOMAIN w = {l.freq[k] : k \in K \ {key}}
    <3>1. PICK k \in K \ {key} : l.freq[k] = f
      BY <1>4, <1>7
    <3> QED BY <3>1, <2>2, <1>1
  <2>4. \A g \in DOMAIN w : Links(w[g], left(g))
    <3>1. ASSUME NEW g \in DOMAIN w PROVE Links(w[g], left(g))
      <4>1. CASE g = f
        <5>1. w[g] = rest /\ left(g) = of(f) \ {key}
          BY <4>1, <2>1, <1>1, <1>3
        <5> QED BY <5>1, <1>2
      <4>2. CASE g # f
        <5>1. w[g] = l.lists[g] /\ left(g) = of(g)
          BY <4>2, <2>1, <2>2, <1>3
        <5> QED BY <5>1, <2>2, <1>1
      <4> QED BY <4>1, <4>2
    <3> QED BY <3>1
  <2> QED BY <2>3, <2>4 DEF Buckets, w
<1> QED BY <1>6, <1>7

(* Adding a key to the bucket of its frequency, created when missing.       *)
LEMMA WithNodeBuckets ==
  ASSUME NEW lists, NEW freq, NEW K, Buckets(lists, freq, K),
         NEW key, key \notin K, NEW f,
         NEW to, to[key] = f, \A k \in K : to[k] = freq[k]
  PROVE  Buckets(WithNode(lists, f, key), to, K \cup {key})
<1> DEFINE of(g) == {k \in K : freq[k] = g}
           new(g) == {k \in K \cup {key} : to[k] = g}
           old == IF f \in DOMAIN lists THEN lists[f] ELSE <<>>
           w == WithNode(lists, f, key)
<1>1. /\ DOMAIN lists = {freq[k] : k \in K}
      /\ \A g \in DOMAIN lists : Links(lists[g], of(g))
  BY DEF Buckets
<1>2. Links(old, of(f))
  <2>1. CASE f \in DOMAIN lists
    BY <2>1, <1>1
  <2>2. CASE f \notin DOMAIN lists
    <3>1. of(f) = {}
      BY <2>2, <1>1
    <3> QED BY <2>2, <3>1, EmptyLinks
  <2> QED BY <2>1, <2>2
<1>3. Links(PushFront(old, key), of(f) \cup {key})
  BY <1>2, PushFrontLinks
<1>4. new(f) = of(f) \cup {key} /\ \A g : g # f => new(g) = of(g)
  OBVIOUS
<1>5. w = [g \in DOMAIN lists \cup {f} |->
             IF g # f THEN lists[g] ELSE PushFront(old, key)]
  BY DEF WithNode
<1> HIDE DEF w, old
<1>6. DOMAIN w = {to[k] : k \in K \cup {key}}
  BY <1>5, <1>1
<1>7. ASSUME NEW g \in DOMAIN w PROVE Links(w[g], new(g))
  <2>1. CASE g = f
    <3>1. w[g] = PushFront(old, key) /\ new(g) = of(f) \cup {key}
      BY <2>1, <1>4, <1>5
    <3> QED BY <3>1, <1>3
  <2>2. CASE g # f
    <3>1. w[g] = lists[g] /\ new(g) = of(g) /\ g \in DOMAIN lists
      BY <2>2, <1>4, <1>5
    <3> QED BY <3>1, <1>1
  <2> QED BY <2>1, <2>2
<1> QED BY <1>6, <1>7 DEF Buckets, w

(* Every non-empty set of naturals has a least element, which the scan of   *)
(* OnDelete finds.                                                          *)
LEMMA LeastNat ==
  ASSUME NEW S \in SUBSET Nat, S # {}
  PROVE  /\ LeastFrequency(S) \in S
         /\ \A g \in S : LeastFrequency(S) <= g
<1>1. \E f \in S : \A g \in S : f <= g
  BY SmallestExists
<1>2. LeastFrequency(S) = CHOOSE f \in S : \A g \in S : f <= g
  BY DEF LeastFrequency
<1> QED BY <1>1, <1>2

(* A hit moves the key one bucket up and keeps the minimum exact: if it     *)
(* emptied the minimum bucket, the key itself is at the new minimum.        *)
LEMMA IncrementFreqConsistent ==
  ASSUME NEW l, LFUConsistent(l), NEW key \in LFUKeys(l)
  PROVE  /\ LFUConsistent(IncrementFreq(l, key))
         /\ LFUKeys(IncrementFreq(l, key)) = LFUKeys(l)
<1> DEFINE K == LFUKeys(l)
           old == l.freq[key]
           left == WithoutNode(l, key)
           to == [l.freq EXCEPT ![key] = old + 1]
           m == IncrementFreq(l, key)
<1>1. /\ m.freq = to /\ m.lists = WithNode(left, old + 1, key)
      /\ m.min = IF old \notin DOMAIN left /\ old = l.min THEN l.min + 1 ELSE l.min
  BY DEF IncrementFreq
<1>2. /\ l.freq \in [K -> Nat \ {0}] /\ old \in Nat \ {0}
      /\ \E k \in K : l.freq[k] = l.min
      /\ \A k \in K : l.min <= l.freq[k]
      /\ l.min \in Nat
  BY DEF LFUConsistent, LFUBucketed, LFUMinExact
<1>3. Buckets(left, l.freq, K \ {key})
  BY WithoutNodeBuckets DEF LFUConsistent
<1> HIDE DEF left
<1>4. /\ to \in [K -> Nat \ {0}] /\ to[key] = old + 1
      /\ \A k \in K \ {key} : to[k] = l.freq[k]
  BY <1>2
<1>5. Buckets(WithNode(left, old + 1, key), to, (K \ {key}) \cup {key})
  <2> HIDE DEF to, K, old
  <2> QED BY <1>3, <1>4, WithNodeBuckets
<1>6. LFUKeys(m) = K
  BY <1>1, <1>4 DEF LFUKeys
<1>7. LFUBucketed(m)
  <2>1. (K \ {key}) \cup {key} = K
    OBVIOUS
  <2> QED BY <1>1, <1>4, <1>5, <1>6, <2>1 DEF LFUBucketed
<1>8. DOMAIN left = {l.freq[k] : k \in K \ {key}}
  BY <1>3 DEF Buckets
<1> HIDE DEF m, to
<1>9. LFUMinExact(m)
  <2>1. CASE old \notin DOMAIN left /\ old = l.min
    <3>1. \A k \in K \ {key} : l.freq[k] # l.min
      BY <2>1, <1>8
    <3>2. \A k \in K : l.min + 1 <= to[k]
      BY <3>1, <1>2, <1>4, <2>1
    <3> QED BY <3>2, <2>1, <1>1, <1>4, <1>6 DEF LFUMinExact
  <2>2. CASE ~(old \notin DOMAIN left /\ old = l.min)
    <3>1. \E k \in K \ {key} : l.freq[k] = l.min
      BY <2>2, <1>2, <1>8
    <3>2. \A k \in K : l.min <= to[k]
      BY <1>2, <1>4
    <3> QED BY <3>1, <3>2, <2>2, <1>1, <1>4, <1>6 DEF LFUMinExact
  <2> QED BY <2>1, <2>2
<1> QED BY <1>6, <1>7, <1>9 DEF LFUConsistent, m

(* Adding a key keeps an LFU consistent: the new key has the least          *)
(* frequency there is.                                                      *)
LEMMA LFUOnSetNew ==
  ASSUME NEW l, LFUConsistent(l), NEW key, key \notin LFUKeys(l)
  PROVE  /\ LFUConsistent(LFUOnSet(l, key))
         /\ LFUKeys(LFUOnSet(l, key)) = LFUKeys(l) \cup {key}
<1> DEFINE K == LFUKeys(l)
           to == [k \in K \cup {key} |-> IF k = key THEN 1 ELSE l.freq[k]]
           m == LFUOnSet(l, key)
<1>1. m.freq = to /\ m.lists = WithNode(l.lists, 1, key) /\ m.min = 1
  BY DEF LFUOnSet
<1>2. l.freq \in [K -> Nat \ {0}] /\ Buckets(l.lists, l.freq, K)
  BY DEF LFUConsistent, LFUBucketed
<1>3. /\ to \in [K \cup {key} -> Nat \ {0}] /\ to[key] = 1
      /\ \A k \in K : to[k] = l.freq[k]
  BY <1>2
<1>4. Buckets(WithNode(l.lists, 1, key), to, K \cup {key})
  <2> HIDE DEF to, K
  <2> QED BY <1>2, <1>3, WithNodeBuckets DEF K
<1>5. LFUKeys(m) = K \cup {key}
  BY <1>1, <1>3 DEF LFUKeys
<1> HIDE DEF m, to, K
<1>6. LFUBucketed(m)
  BY <1>1, <1>3, <1>4, <1>5 DEF LFUBucketed
<1>7. LFUMinExact(m)
  BY <1>1, <1>3, <1>5 DEF LFUMinExact
<1> QED BY <1>5, <1>6, <1>7 DEF LFUConsistent, m, K

(* A delete recomputes the minimum exactly when it took the last key of     *)
(* the minimum frequency.                                                   *)
LEMMA LFUOnDeletePresent ==
  ASSUME NEW l, LFUConsistent(l), NEW key \in LFUKeys(l)
  PROVE  /\ LFUConsistent(LFUOnDelete(l, key))
         /\ LFUKeys(LFUOnDelete(l, key)) = LFUKeys(l) \ {key}
<1> DEFINE K == LFUKeys(l)
           f == l.freq[key]
           left == WithoutNode(l, key)
           to == Restrict(l.freq, K \ {key})
           m == LFUOnDelete(l, key)
<1>1. /\ m.freq = to /\ m.lists = left
      /\ m.min = IF f = l.min /\ f \notin DOMAIN left
                 THEN LeastFrequency(DOMAIN left) ELSE l.min
  BY DEF LFUOnDelete
<1>2. /\ l.freq \in [K -> Nat \ {0}] /\ f \in Nat \ {0}
      /\ \E k \in K : l.freq[k] = l.min
      /\ \A k \in K : l.min <= l.freq[k]
  BY DEF LFUConsistent, LFUBucketed, LFUMinExact
<1>3. Buckets(left, l.freq, K \ {key})
  BY WithoutNodeBuckets DEF LFUConsistent
<1>4. to \in [K \ {key} -> Nat \ {0}] /\ \A k \in K \ {key} : to[k] = l.freq[k]
  BY <1>2 DEF Restrict
<1>5. LFUKeys(m) = K \ {key}
  BY <1>1, <1>4 DEF LFUKeys
<1> HIDE DEF left, m, to
<1>6. DOMAIN left = {l.freq[k] : k \in K \ {key}}
  BY <1>3 DEF Buckets
<1>7. LFUBucketed(m)
  <2>1. Buckets(left, to, K \ {key})
    <3>1. \A g : {k \in K \ {key} : to[k] = g} = {k \in K \ {key} : l.freq[k] = g}
      BY <1>4
    <3>2. {to[k] : k \in K \ {key}} = {l.freq[k] : k \in K \ {key}}
      BY <1>4
    <3> QED BY <1>3, <3>1, <3>2 DEF Buckets
  <2> QED BY <2>1, <1>1, <1>4, <1>5 DEF LFUBucketed
<1>8. LFUMinExact(m)
  <2>1. CASE f = l.min /\ f \notin DOMAIN left
    <3>1. CASE DOMAIN left = {}
      BY <3>1, <2>1, <1>1, <1>5, <1>6 DEF LFUMinExact, LeastFrequency
    <3>2. CASE DOMAIN left # {}
      <4>1. DOMAIN left \in SUBSET Nat
        BY <1>2, <1>6
      <4>2. /\ LeastFrequency(DOMAIN left) \in DOMAIN left
            /\ \A g \in DOMAIN left : LeastFrequency(DOMAIN left) <= g
        BY <4>1, <3>2, LeastNat
      <4>3. /\ \E k \in K \ {key} : to[k] = LeastFrequency(DOMAIN left)
            /\ \A k \in K \ {key} : LeastFrequency(DOMAIN left) <= to[k]
        BY <4>2, <1>4, <1>6
      <4> QED BY <4>3, <2>1, <1>1, <1>5 DEF LFUMinExact
    <3> QED BY <3>1, <3>2
  <2>2. CASE ~(f = l.min /\ f \notin DOMAIN left)
    <3>1. \E k \in K \ {key} : l.freq[k] = l.min
      BY <2>2, <1>2, <1>6
    <3>2. /\ \E k \in K \ {key} : to[k] = l.min
          /\ \A k \in K \ {key} : l.min <= to[k]
      BY <3>1, <1>2, <1>4
    <3> QED BY <3>2, <2>2, <1>1, <1>5 DEF LFUMinExact
  <2> QED BY <2>1, <2>2
<1> QED BY <1>5, <1>7, <1>8 DEF LFUConsistent, m

(* Each hook keeps an LFU consistent and changes its keys as its name says. *)
LEMMA LFUHooks ==
  ASSUME NEW l, LFUConsistent(l), NEW key
  PROVE  /\ LFUConsistent(LFUOnGet(l, key)) /\ LFUKeys(LFUOnGet(l, key)) = LFUKeys(l)
         /\ LFUConsistent(LFUOnSet(l, key))
         /\ LFUKeys(LFUOnSet(l, key)) = LFUKeys(l) \cup {key}
         /\ LFUConsistent(LFUOnDelete(l, key))
         /\ LFUKeys(LFUOnDelete(l, key)) = LFUKeys(l) \ {key}
<1>1. CASE key \in LFUKeys(l)
  <2>1. LFUOnGet(l, key) = IncrementFreq(l, key) /\ LFUOnSet(l, key) = IncrementFreq(l, key)
    BY <1>1 DEF LFUOnGet, LFUOnSet
  <2> QED BY <1>1, <2>1, IncrementFreqConsistent, LFUOnDeletePresent
<1>2. CASE key \notin LFUKeys(l)
  <2>1. LFUOnGet(l, key) = l /\ LFUOnDelete(l, key) = l
    BY <1>2 DEF LFUOnGet, LFUOnDelete
  <2> QED BY <1>2, <2>1, LFUOnSetNew
<1> QED BY <1>1, <1>2

(* A new LFU is consistent and holds no key.                                *)
LEMMA NewLFUConsistent == LFUConsistent(NewLFU) /\ LFUKeys(NewLFU) = {}
<1>1. NewLFU.freq = <<>> /\ NewLFU.lists = <<>> /\ NewLFU.min = 0
  BY DEF NewLFU
<1>2. DOMAIN <<>> = {}
  OBVIOUS
<1>3. LFUKeys(NewLFU) = {}
  BY <1>1, <1>2 DEF LFUKeys
<1>4. NewLFU.freq \in [{} -> Nat \ {0}]
  BY <1>1, <1>2
<1> QED BY <1>1, <1>2, <1>3, <1>4
        DEF LFUConsistent, LFUBucketed, LFUMinExact, Buckets

(* The victim is a key of the least frequency.                              *)
LEMMA LFUVictimIsLeast ==
  ASSUME NEW l, LFUConsistent(l)
  PROVE  /\ LFUHasVictim(l) <=> LFUKeys(l) # {}
         /\ LFUHasVictim(l) => /\ LFUVictim(l) \in LFUKeys(l)
                               /\ \A k \in LFUKeys(l) : l.freq[LFUVictim(l)] <= l.freq[k]
<1> DEFINE K == LFUKeys(l)
           of(f) == {k \in K : l.freq[k] = f}
<1>1. /\ DOMAIN l.lists = {l.freq[k] : k \in K}
      /\ \A f \in DOMAIN l.lists : Links(l.lists[f], of(f))
      /\ l.freq \in [K -> Nat \ {0}]
  BY DEF LFUConsistent, LFUBucketed, Buckets
<1>2. CASE K = {}
  BY <1>1, <1>2 DEF LFUHasVictim
<1>3. CASE K # {}
  <2>1. /\ \E k \in K : l.freq[k] = l.min
        /\ \A k \in K : l.min <= l.freq[k]
    BY <1>3 DEF LFUConsistent, LFUMinExact
  <2>2. l.min \in DOMAIN l.lists /\ of(l.min) # {}
    BY <2>1, <1>1
  <2>3. Links(l.lists[l.min], of(l.min))
    BY <1>1, <2>2
  <2>4. l.lists[l.min][Len(l.lists[l.min])] \in of(l.min)
    BY <2>2, <2>3, BackOfLinks
  <2> QED BY <1>3, <2>1, <2>2, <2>4 DEF LFUHasVictim, LFUVictim
<1> QED BY <1>2, <1>3
=============================================================================
