---------------------------- MODULE PolicyProofs ----------------------------
(* The base policies, for every set of keys and every order of calls.       *)
EXTENDS Policies, PolicyLemmas

(* A step of the two is a step of each or leaves it alone.                  *)
LEMMA EachSteps == [Next]_vars => [NextLRU]_lruVars /\ [NextLFU]_lfuVars
BY Zenon DEF Next, vars
-----------------------------------------------------------------------------
LRUInv ==
  /\ LRUConsistent(lru)
  /\ lru.items \subseteq Keys

(* The empty policy is consistent.                                          *)
LEMMA InitLRUInv == InitLRU => LRUInv
BY NewLRUConsistent DEF InitLRU, LRUInv

(* Every call of the cache keeps the policy consistent.                     *)
LEMMA NextLRUInv == LRUInv /\ [NextLRU]_lruVars => LRUInv'
<1> SUFFICES ASSUME LRUInv, [NextLRU]_lruVars PROVE LRUInv'
  OBVIOUS
<1> USE DEF LRUInv
<1>1. ASSUME NEW key \in Keys, GetLRU(key) PROVE LRUInv'
  BY <1>1, LRUHooks DEF GetLRU
<1>2. ASSUME NEW key \in Keys, SetLRU(key) PROVE LRUInv'
  BY <1>2, LRUHooks DEF SetLRU
<1>3. ASSUME NEW key \in Keys, DeleteLRU(key) PROVE LRUInv'
  BY <1>3, LRUHooks DEF DeleteLRU
<1>4. CASE ChooseLRU
  BY <1>4, LRUVictimIsItem DEF ChooseLRU
<1>5. CASE UNCHANGED lruVars
  BY <1>5 DEF lruVars
<1> QED BY <1>1, <1>2, <1>3, <1>4, <1>5 DEF NextLRU

(* The policy is always consistent.                                         *)
LEMMA LRUInvHolds == Spec => []LRUInv
BY InitLRUInv, NextLRUInv, EachSteps, PTL DEF Spec, Init

(* The list and the map of the LRU policy never come apart.                 *)
THEOREM LRUListSafe == Spec => []ListMatchesMap
<1>1. LRUInv => ListMatchesMap
  BY DEF LRUInv, ListMatchesMap
<1> QED BY <1>1, LRUInvHolds, PTL
-----------------------------------------------------------------------------
(* The recency order read off the list, in terms of positions.              *)

(* In a list without repetition the position of an element is the one it    *)
(* stands at.                                                               *)
LEMMA PositionIs ==
  ASSUME NEW K, NEW s, Links(s, K), NEW i \in 1..Len(s)
  PROVE  s[i] \in K /\ Position(s, s[i]) = i
<1>1. s[i] \in K
  BY DEF Links
<1> QED BY <1>1, PositionProperties

(* One key is older than another when it stands further back.               *)
LEMMA OlderByPosition ==
  ASSUME NEW K, NEW s, Links(s, K)
  PROVE  Older(s) = {p \in K \X K : Position(s, p[2]) < Position(s, p[1])}
<1> DEFINE R == {p \in K \X K : Position(s, p[2]) < Position(s, p[1])}
<1>0. DOMAIN s = 1..Len(s)
  BY DEF Links
<1>1. ASSUME NEW r \in Older(s) PROVE r \in R
  <2>1. PICK q \in (1..Len(s)) \X (1..Len(s)) : q[1] < q[2] /\ r = <<s[q[2]], s[q[1]]>>
    BY <1>0 DEF Older
  <2>2. /\ s[q[1]] \in K /\ Position(s, s[q[1]]) = q[1]
        /\ s[q[2]] \in K /\ Position(s, s[q[2]]) = q[2]
    BY PositionIs
  <2> QED BY <2>1, <2>2
<1>2. ASSUME NEW r \in R PROVE r \in Older(s)
  <2> DEFINE i == Position(s, r[2])
             j == Position(s, r[1])
  <2>1. /\ i \in 1..Len(s) /\ j \in 1..Len(s) /\ i < j
        /\ s[i] = r[2] /\ s[j] = r[1] /\ r = <<r[1], r[2]>>
    BY PositionProperties
  <2> HIDE DEF i, j
  <2>2. <<i, j>> \in {q \in (DOMAIN s) \X (DOMAIN s) : q[1] < q[2]}
    BY <2>1, <1>0
  <2>3. r = <<s[<<i, j>>[2]], s[<<i, j>>[1]]>>
    BY <2>1
  <2> QED BY <2>2, <2>3 DEF Older
<1> QED BY <1>1, <1>2

(* Unlinking a key forgets what was said of it and nothing else.            *)
LEMMA OlderUnlinked ==
  ASSUME NEW K, NEW s, Links(s, K), NEW key \in K
  PROVE  Older(Unlinked(s, key)) = {p \in Older(s) : key \notin {p[1], p[2]}}
<1> DEFINE u == Unlinked(s, key)
           at == Position(s, key)
<1>1. Links(u, K \ {key})
  BY UnlinkedLinks
<1>2. /\ Len(s) \in Nat /\ Len(u) = Len(s) - 1 /\ at \in 1..Len(s) /\ s[at] = key
      /\ \A j \in 1..(Len(s) - 1) : u[j] = IF j < at THEN s[j] ELSE s[j + 1]
  <2>1. s \in Seq(K) BY DEF Links
  <2>2. Len(s) \in Nat BY <2>1
  <2>3. at \in 1..Len(s) /\ s[at] = key BY PositionProperties
  <2> HIDE DEF at
  <2>4. /\ Len(u) = Len(s) - 1
        /\ \A j \in 1..(Len(s) - 1) : u[j] = IF j < at THEN s[j] ELSE s[j + 1]
    BY UnlinkedProperties DEF at
  <2> QED BY <2>2, <2>3, <2>4
<1>3. ASSUME NEW k \in K \ {key}
      PROVE  /\ Position(s, k) \in 1..Len(s)
             /\ Position(s, k) # at
             /\ Position(u, k) = IF Position(s, k) < at THEN Position(s, k)
                                 ELSE Position(s, k) - 1
  <2> DEFINE i == Position(s, k)
  <2>1. i \in 1..Len(s) /\ s[i] = k
    BY PositionProperties
  <2>2. i # at
    BY <2>1, <1>2
  <2> HIDE DEF i, u, at
  <2>3. CASE i < at
    <3>1. i \in 1..Len(u) /\ u[i] = k
      BY <2>1, <2>3, <1>2
    <3>2. Position(u, k) = i
      BY <3>1, <1>1, PositionIs
    <3> QED BY <2>1, <2>2, <2>3, <3>2 DEF i
  <2>4. CASE ~(i < at)
    <3>1. i - 1 \in 1..Len(u) /\ ~(i - 1 < at) /\ (i - 1) + 1 = i
      BY <2>1, <2>2, <2>4, <1>2
    <3>2. u[i - 1] = k
      BY <3>1, <2>1, <1>2
    <3>3. Position(u, k) = i - 1
      BY <3>1, <3>2, <1>1, PositionIs
    <3> QED BY <2>1, <2>2, <2>4, <3>3 DEF i
  <2> QED BY <2>3, <2>4
<1>4. ASSUME NEW x \in K \ {key}, NEW y \in K \ {key}
      PROVE  Position(u, y) < Position(u, x) <=> Position(s, y) < Position(s, x)
  <2>1. Position(s, y) = Position(s, x) => x = y
    BY PositionProperties
  <2> HIDE DEF u, at
  <2> QED BY <2>1, <1>2, <1>3
<1>5. Older(u) = {p \in (K \ {key}) \X (K \ {key}) : Position(u, p[2]) < Position(u, p[1])}
  BY <1>1, OlderByPosition
<1>6. Older(s) = {p \in K \X K : Position(s, p[2]) < Position(s, p[1])}
  BY OlderByPosition
<1> HIDE DEF u
<1>7. Older(u) = {p \in Older(s) : key \notin {p[1], p[2]}}
  BY <1>4, <1>5, <1>6
<1> QED BY <1>7 DEF u

(* Every key of the list becomes older than a key pushed to its front.      *)
LEMMA OlderPushFront ==
  ASSUME NEW K, NEW s, Links(s, K), NEW key, key \notin K
  PROVE  Older(PushFront(s, key)) = Older(s) \cup (K \X {key})
<1> DEFINE T == K \cup {key}
           q == PushFront(s, key)
<1>1. Links(q, T)
  BY PushFrontLinks
<1>2. s \in Seq(T) /\ key \in T /\ Len(s) \in Nat
  BY SeqOver DEF Links
<1>3. /\ Len(q) = Len(s) + 1 /\ q[1] = key
      /\ \A j \in 1..Len(s) : q[j + 1] = s[j]
  <2> HIDE DEF T
  <2> QED BY <1>2, PushFrontProperties
<1>4. Position(q, key) = 1
  <2> HIDE DEF q, T
  <2>1. 1 \in 1..Len(q)
    BY <1>2, <1>3
  <2> QED BY <2>1, <1>1, <1>3, PositionIs
<1>5. ASSUME NEW k \in K
      PROVE  Position(s, k) \in 1..Len(s) /\ Position(q, k) = Position(s, k) + 1
  <2> DEFINE i == Position(s, k)
  <2>1. i \in 1..Len(s) /\ s[i] = k
    BY PositionProperties
  <2> HIDE DEF i, q, T
  <2>2. i + 1 \in 1..Len(q) /\ q[i + 1] = k
    BY <2>1, <1>2, <1>3
  <2>3. Position(q, k) = i + 1
    BY <2>2, <1>1, PositionIs
  <2> QED BY <2>1, <2>3 DEF i
<1>6. Older(q) = {p \in T \X T : Position(q, p[2]) < Position(q, p[1])}
  BY <1>1, OlderByPosition
<1>7. Older(s) = {p \in K \X K : Position(s, p[2]) < Position(s, p[1])}
  BY OlderByPosition
<1> HIDE DEF q
<1>8. ASSUME NEW x \in T, NEW y \in T
      PROVE  Position(q, y) < Position(q, x)
               <=> \/ x \in K /\ y \in K /\ Position(s, y) < Position(s, x)
                   \/ x \in K /\ y = key
  BY <1>4, <1>5
<1>9. Older(q) = Older(s) \cup (K \X {key})
  BY <1>6, <1>7, <1>8
<1> QED BY <1>9 DEF q

(* Moving a key to the front makes every other key older and changes        *)
(* nothing among them.                                                      *)
LEMMA OlderMoveToFront ==
  ASSUME NEW K, NEW s, Links(s, K), NEW key \in K
  PROVE  Older(MoveToFront(s, key)) =
           {p \in Older(s) : key \notin {p[1], p[2]}} \cup ((K \ {key}) \X {key})
<1>1. Links(Unlinked(s, key), K \ {key})
  BY UnlinkedLinks
<1>2. Older(PushFront(Unlinked(s, key), key))
        = Older(Unlinked(s, key)) \cup ((K \ {key}) \X {key})
  BY <1>1, OlderPushFront
<1> QED BY <1>2, OlderUnlinked DEF MoveToFront
-----------------------------------------------------------------------------
(* The list implements the recency order: whatever ChooseEviction answers   *)
(* is the key that every other key was used after.                          *)
THEOREM LRURefines == Spec => RefinesRecencyOrder
<1>1. InitLRU => Recency!Init
  <2>1. Older(<<>>) = {}
    BY EmptyLinks, OlderByPosition
  <2> QED BY <2>1 DEF InitLRU, NewLRU, Recency!Init, Call
<1>2. LRUInv /\ [NextLRU]_lruVars => [Recency!Next]_(Recency!vars)
  <2> SUFFICES ASSUME LRUInv, [NextLRU]_lruVars
               PROVE  Recency!Next \/ UNCHANGED Recency!vars
    BY DEF Recency!vars
  <2> DEFINE K == lru.items
             s == lru.list
  <2>0. Links(s, K)
    BY DEF LRUInv, LRUConsistent
  <2>1. ASSUME NEW key \in K, lru'.items = K,
               lru'.list = MoveToFront(s, key)
        PROVE  Recency!Touch(key)
    <3>1. Older(lru'.list) = {p \in Older(s) : key \notin {p[1], p[2]}}
                               \cup ((K \ {key}) \X {key})
      BY <2>0, <2>1, OlderMoveToFront
    <3> QED BY <2>1, <3>1 DEF Recency!Touch
  <2>2. ASSUME NEW key, key \notin K
        PROVE  {p \in Older(s) : key \notin {p[1], p[2]}} = Older(s)
    BY <2>0, <2>2, OlderByPosition
  <2>3. ASSUME NEW key \in Keys, GetLRU(key) PROVE Recency!Use(key)
    <3>1. CASE key \in K
      BY <2>3, <3>1, <2>1 DEF GetLRU, LRUOnGet, Recency!Use, Recency!Called, Call
    <3>2. CASE key \notin K
      BY <2>3, <3>2 DEF GetLRU, LRUOnGet, Recency!Use, Recency!Called, Call
    <3> QED BY <3>1, <3>2
  <2>4. ASSUME NEW key \in Keys, SetLRU(key) PROVE Recency!Add(key)
    <3>1. CASE key \in K
      BY <2>4, <3>1, <2>1 DEF SetLRU, LRUOnSet, Recency!Add, Recency!Called, Call
    <3>2. CASE key \notin K
      <4>1. /\ lru'.items = K \cup {key} /\ lru'.list = PushFront(s, key)
            /\ Recency!Called("set", key)
        BY <2>4, <3>2 DEF SetLRU, LRUOnSet, Recency!Called, Call
      <4>2. Older(lru'.list) = Older(s) \cup (K \X {key})
        BY <4>1, <3>2, <2>0, OlderPushFront
      <4>3. K \ {key} = K
        BY <3>2
      <4> QED BY <4>1, <4>2, <4>3, <3>2, <2>2 DEF Recency!Add, Recency!Touch
    <3> QED BY <3>1, <3>2
  <2>5. ASSUME NEW key \in Keys, DeleteLRU(key) PROVE Recency!Drop(key)
    <3>1. CASE key \in K
      <4>1. /\ lru'.items = K \ {key} /\ lru'.list = Unlinked(s, key)
            /\ Recency!Called("delete", key)
        BY <2>5, <3>1 DEF DeleteLRU, LRUOnDelete, Recency!Called, Call
      <4>2. Older(lru'.list) = {p \in Older(s) : key \notin {p[1], p[2]}}
        BY <4>1, <3>1, <2>0, OlderUnlinked
      <4> QED BY <4>1, <4>2 DEF Recency!Drop
    <3>2. CASE key \notin K
      <4>1. UNCHANGED lru /\ Recency!Called("delete", key) /\ K \ {key} = K
        BY <2>5, <3>2 DEF DeleteLRU, LRUOnDelete, Recency!Called, Call
      <4> QED BY <4>1, <3>2, <2>2 DEF Recency!Drop
    <3> QED BY <3>1, <3>2
  <2>6. CASE ChooseLRU
    <3>1. CASE LRUHasVictim(lru)
      <4> DEFINE v == LRUVictim(lru)
      <4>1. v \in K /\ Recency!Called("choose", v) /\ UNCHANGED lru /\ K # {}
        BY <2>6, <3>1, LRUVictimIsItem DEF ChooseLRU, LRUInv, Recency!Called, Call
      <4>2. Len(s) \in 1..Len(s) /\ s[Len(s)] = v
        BY <2>0, <3>1 DEF LRUHasVictim, LRUVictim, Links
      <4>3. Position(s, v) = Len(s)
        BY <4>2, <2>0, PositionIs
      <4>4. ASSUME NEW j \in K \ {v} PROVE <<v, j>> \in Older(s)
        <5>1. Position(s, j) \in 1..Len(s) /\ s[Position(s, j)] = j
          BY <2>0, PositionProperties
        <5>2. Position(s, j) < Position(s, v)
          BY <5>1, <4>2, <4>3
        <5> QED BY <5>2, <4>1, <2>0, OlderByPosition
      <4> QED BY <4>1, <4>4 DEF Recency!Next, Recency!Choose
    <3>2. CASE ~LRUHasVictim(lru)
      <4>1. K = {} /\ Recency!Called("choose", NoKey) /\ UNCHANGED lru
        BY <2>6, <3>2, LRUVictimIsItem DEF ChooseLRU, LRUInv, Recency!Called, Call
      <4> QED BY <4>1 DEF Recency!Next, Recency!Choose
    <3> QED BY <3>1, <3>2
  <2>7. CASE UNCHANGED lruVars
    BY <2>7 DEF lruVars, Recency!vars
  <2> QED BY <2>3, <2>4, <2>5, <2>6, <2>7 DEF NextLRU, Recency!Next
<1> QED BY <1>1, <1>2, LRUInvHolds, EachSteps, PTL DEF Spec, Init, RefinesRecencyOrder, Recency!Spec
-----------------------------------------------------------------------------
LFUInv ==
  /\ LFUConsistent(lfu)
  /\ LFUKeys(lfu) \subseteq Keys

(* The empty policy is consistent.                                          *)
LEMMA InitLFUInv == InitLFU => LFUInv
BY NewLFUConsistent DEF InitLFU, LFUInv

(* Every call of the cache keeps the policy consistent.                     *)
LEMMA NextLFUInv == LFUInv /\ [NextLFU]_lfuVars => LFUInv'
<1> SUFFICES ASSUME LFUInv, [NextLFU]_lfuVars PROVE LFUInv'
  OBVIOUS
<1> USE DEF LFUInv
<1>1. ASSUME NEW key \in Keys, GetLFU(key) PROVE LFUInv'
  BY <1>1, LFUHooks DEF GetLFU
<1>2. ASSUME NEW key \in Keys, SetLFU(key) PROVE LFUInv'
  BY <1>2, LFUHooks DEF SetLFU
<1>3. ASSUME NEW key \in Keys, DeleteLFU(key) PROVE LFUInv'
  BY <1>3, LFUHooks DEF DeleteLFU
<1>4. CASE ChooseLFU
  BY <1>4, LFUVictimIsLeast DEF ChooseLFU
<1>5. CASE UNCHANGED lfuVars
  BY <1>5 DEF lfuVars
<1> QED BY <1>1, <1>2, <1>3, <1>4, <1>5 DEF NextLFU

(* The policy is always consistent.                                         *)
LEMMA LFUInvHolds == Spec => []LFUInv
BY InitLFUInv, NextLFUInv, EachSteps, PTL DEF Spec, Init

(* The items map and the buckets always agree: every key is linked once, in *)
(* the bucket of its frequency, and no bucket is empty.                     *)
THEOREM LFUBucketsSafe == Spec => []BucketsMatchKeys
<1>1. LFUInv => BucketsMatchKeys
  BY DEF LFUInv, LFUConsistent, BucketsMatchKeys
<1> QED BY <1>1, LFUInvHolds, PTL

(* The cached minimum frequency is never stale.                             *)
THEOREM LFUMinSafe == Spec => []MinIsExact
<1>1. LFUInv => MinIsExact
  BY DEF LFUInv, LFUConsistent, MinIsExact
<1> QED BY <1>1, LFUInvHolds, PTL

(* The buckets implement the abstract policy: whatever ChooseEviction       *)
(* answers is a key that no key was used less often than.                   *)
THEOREM LFURefines == Spec => RefinesLeastFrequent
<1>1. InitLFU => Frequency!Init
  BY DEF InitLFU, NewLFU, Frequency!Init, Call
<1>2. LFUInv /\ [NextLFU]_lfuVars => [Frequency!Next]_(Frequency!vars)
  <2> SUFFICES ASSUME LFUInv, [NextLFU]_lfuVars
               PROVE  Frequency!Next \/ UNCHANGED Frequency!vars
    BY DEF Frequency!vars
  <2>0. lfu.freq \in [LFUKeys(lfu) -> Nat \ {0}]
    BY DEF LFUInv, LFUConsistent, LFUBucketed
  <2>1. ASSUME NEW key \in Keys, GetLFU(key) PROVE Frequency!Use(key)
    BY <2>1, <2>0 DEF GetLFU, LFUOnGet, IncrementFreq, LFUKeys, Frequency!Use, Frequency!Called, Call
  <2>2. ASSUME NEW key \in Keys, SetLFU(key) PROVE Frequency!Add(key)
    <3>1. CASE key \in LFUKeys(lfu)
      <4>1. /\ lfu'.freq = [lfu.freq EXCEPT ![key] = lfu.freq[key] + 1]
            /\ Frequency!Called("set", key)
        BY <2>2, <3>1 DEF SetLFU, LFUOnSet, IncrementFreq, Frequency!Called, Call
      <4>2. lfu'.freq = [k \in LFUKeys(lfu) \cup {key} |->
                           IF k # key THEN lfu.freq[k] ELSE lfu.freq[key] + 1]
        BY <4>1, <3>1, <2>0
      <4> QED BY <4>1, <4>2, <3>1 DEF Frequency!Add, LFUKeys
    <3>2. CASE key \notin LFUKeys(lfu)
      <4>1. /\ lfu'.freq = [k \in LFUKeys(lfu) \cup {key} |->
                              IF k = key THEN 1 ELSE lfu.freq[k]]
            /\ Frequency!Called("set", key)
        BY <2>2, <3>2 DEF SetLFU, LFUOnSet, Frequency!Called, Call
      <4>2. lfu'.freq = [k \in LFUKeys(lfu) \cup {key} |->
                           IF k # key THEN lfu.freq[k] ELSE 1]
        BY <4>1
      <4> QED BY <4>1, <4>2, <3>2 DEF Frequency!Add, LFUKeys
    <3> QED BY <3>1, <3>2
  <2>3. ASSUME NEW key \in Keys, DeleteLFU(key) PROVE Frequency!Drop(key)
    <3>1. CASE key \in LFUKeys(lfu)
      BY <2>3, <3>1 DEF DeleteLFU, LFUOnDelete, Restrict, LFUKeys, Frequency!Drop, Frequency!Called, Call
    <3>2. CASE key \notin LFUKeys(lfu)
      <4>1. lfu.freq = [k \in LFUKeys(lfu) \ {key} |-> lfu.freq[k]]
        BY <3>2, <2>0
      <4> QED BY <2>3, <3>2, <4>1 DEF DeleteLFU, LFUOnDelete, LFUKeys, Frequency!Drop, Frequency!Called, Call
    <3> QED BY <3>1, <3>2
  <2>4. CASE ChooseLFU
    <3>1. CASE LFUHasVictim(lfu)
      <4>1. /\ LFUVictim(lfu) \in LFUKeys(lfu) /\ UNCHANGED lfu
            /\ Frequency!Called("choose", LFUVictim(lfu))
            /\ \A k \in LFUKeys(lfu) : lfu.freq[LFUVictim(lfu)] <= lfu.freq[k]
        BY <2>4, <3>1, LFUVictimIsLeast DEF ChooseLFU, LFUInv, Frequency!Called, Call
      <4> QED BY <4>1 DEF Frequency!Next, Frequency!Choose, LFUKeys
    <3>2. CASE ~LFUHasVictim(lfu)
      <4>1. LFUKeys(lfu) = {} /\ Frequency!Called("choose", NoKey) /\ UNCHANGED lfu
        BY <2>4, <3>2, LFUVictimIsLeast DEF ChooseLFU, LFUInv, Frequency!Called, Call
      <4> QED BY <4>1 DEF Frequency!Next, Frequency!Choose, LFUKeys
    <3> QED BY <3>1, <3>2
  <2>5. CASE UNCHANGED lfuVars
    BY <2>5 DEF lfuVars, Frequency!vars
  <2> QED BY <2>1, <2>2, <2>3, <2>4, <2>5 DEF NextLFU, Frequency!Next
<1> QED BY <1>1, <1>2, LFUInvHolds, EachSteps, PTL DEF Spec, Init, RefinesLeastFrequent, Frequency!Spec
=============================================================================
