---------------------------- MODULE ClusterProofs ----------------------------
(* For every ring, every number of calls and goroutines, with failures and  *)
(* restarts: without migration, replicas stay where the ring puts them and  *)
(* out of the clients' sight; with it, no key is lost to an interleaving.   *)
EXTENDS ClusterProperties, FoldLemmas

(* The first point of a set comes before the others.                        *)
LEMMA FirstComesFirst ==
  ASSUME NEW S \in SUBSET Points, S # {}
  PROVE  First(S) \in S /\ \A q \in S \ {First(S)} : PointHash[First(S)] < PointHash[q]
<1>1. \E p \in S : \A q \in S : PointHash[p] <= PointHash[q]
  <2> DEFINE Hashes == {PointHash[p] : p \in S}
  <2>1. Hashes \in SUBSET Nat /\ Hashes # {} BY RingAssumption
  <2>2. PICK h \in Hashes : \A g \in Hashes : h <= g BY <2>1, SmallestExists
  <2> QED BY <2>2
<1>2. First(S) \in S /\ \A q \in S : PointHash[First(S)] <= PointHash[q]
  BY <1>1 DEF First
<1>3. \A p, q \in Points : PointHash[p] \in Nat /\ (PointHash[p] = PointHash[q] => p = q)
  BY RingAssumption
<1> QED BY <1>2, <1>3

(* There are points, and they can be counted.                               *)
LEMMA PointsFinite == IsFiniteSet(Points) /\ Cardinality(Points) \in Nat \ {0}
<1>1. IsFiniteSet(1..Replicas) BY RingAssumption, FS_Interval
<1>2. IsFiniteSet(Points) BY <1>1, RingAssumption, FS_Product DEF Points
<1>3. Points # {}
  <2>1. PICK n \in Nodes : TRUE BY RingAssumption
  <2>2. <<n, 1>> \in Points BY RingAssumption DEF Points
  <2> QED BY <2>2
<1> QED BY <1>2, <1>3, FS_CardinalityType, FS_EmptySet

(* A point of the ring, or the first one when there is none.                *)
LEMMA FirstOrWrappedIsPoint ==
  ASSUME NEW S \in SUBSET Points
  PROVE  FirstOrWrapped(S) \in Points
<1>1. Points # {} BY PointsFinite, FS_EmptySet
<1>2. CASE S = {} BY <1>1, <1>2, FirstComesFirst DEF FirstOrWrapped
<1>3. CASE S # {} BY <1>3, FirstComesFirst DEF FirstOrWrapped
<1> QED BY <1>2, <1>3

(* Every key has an owner and a neighbor on the ring, whoever asks.         *)
LEMMA RingNodes ==
  ASSUME NEW key
  PROVE  /\ Owner(key) \in Nodes
         /\ \A src : Neighbor(src, key) \in Nodes
<1>1. Search(key) \in Points
  BY FirstOrWrappedIsPoint DEF Search
<1>2. After(Search(key)) \in Points
  BY FirstOrWrappedIsPoint DEF After
<1> QED BY <1>1, <1>2 DEF Owner, Neighbor, NodeOf, Points
-----------------------------------------------------------------------------
(* The slice VirtualNodes.                                                  *)

(* An order of a set of points by hash that leaves none out.                *)
Enumerates(t, T) ==
  /\ t \in [1..Cardinality(T) -> T]
  /\ \A p \in T : \E i \in 1..Cardinality(T) : t[i] = p
  /\ \A i, j \in 1..Cardinality(T) : i < j => PointHash[t[i]] < PointHash[t[j]]

(* Sorting can lay out the points: the first one before the others, laid    *)
(* out alike.                                                               *)
LEMMA Sortable ==
  ASSUME NEW T \in SUBSET Points, T # {}, IsFiniteSet(T),
         NEW t, Enumerates(t, T \ {First(T)})
  PROVE  \E s : Enumerates(s, T)
<1> DEFINE n == Cardinality(T)
           s == [i \in 1..n |-> IF i = 1 THEN First(T) ELSE t[i - 1]]
<1>1. First(T) \in T /\ \A q \in T \ {First(T)} : PointHash[First(T)] < PointHash[q]
  BY FirstComesFirst
<1>2. n \in Nat /\ Cardinality(T \ {First(T)}) = n - 1
  BY <1>1, FS_CardinalityType, FS_RemoveElement
<1>3. /\ t \in [1..n - 1 -> T \ {First(T)}]
      /\ \A p \in T \ {First(T)} : \E i \in 1..n - 1 : t[i] = p
      /\ \A i, j \in 1..n - 1 : i < j => PointHash[t[i]] < PointHash[t[j]]
  BY <1>2 DEF Enumerates
<1>4. n >= 1
  <2>1. n # 0 BY <1>1, FS_EmptySet
  <2> QED BY <1>2, <2>1
<1> HIDE DEF n
<1>5. s \in [1..n -> T]
  <2>1. \A i \in 1..n : i # 1 => i - 1 \in 1..n - 1 BY <1>2
  <2> QED BY <1>1, <1>3, <2>1
<1>6. ASSUME NEW p \in T PROVE \E i \in 1..n : s[i] = p
  <2>1. CASE p = First(T) BY <1>2, <1>4, <2>1
  <2>2. CASE p # First(T)
    <3>1. PICK i \in 1..n - 1 : t[i] = p BY <1>3, <2>2
    <3>2. i + 1 \in 1..n /\ i + 1 # 1 /\ (i + 1) - 1 = i BY <1>2
    <3> QED BY <3>1, <3>2
  <2> QED BY <2>1, <2>2
<1>7. ASSUME NEW i \in 1..n, NEW j \in 1..n, i < j PROVE PointHash[s[i]] < PointHash[s[j]]
  <2>1. j # 1 /\ j - 1 \in 1..n - 1 /\ s[j] = t[j - 1] BY <1>2, <1>7
  <2>2. CASE i = 1
    <3>1. s[i] = First(T) BY <2>2
    <3>2. t[j - 1] \in T \ {First(T)} BY <1>3, <2>1
    <3> QED BY <1>1, <2>1, <3>1, <3>2
  <2>3. CASE i # 1
    <3>1. i - 1 \in 1..n - 1 /\ i - 1 < j - 1 /\ s[i] = t[i - 1] BY <1>2, <1>7, <2>3
    <3> QED BY <1>3, <2>1, <3>1
  <2> QED BY <2>2, <2>3
<1> HIDE DEF s
<1>8. Enumerates(s, T) BY <1>5, <1>6, <1>7 DEF Enumerates, n
<1> QED BY <1>8

(* Hence a sorted slice of all the points exists.                           *)
LEMMA SlicesExist == SortedSlices # {}
<1> DEFINE Family == {T \in SUBSET Points : ~\E t : Enumerates(t, T)}
<1>1. SUFFICES ASSUME SortedSlices = {} PROVE FALSE OBVIOUS
<1>2. ASSUME NEW t PROVE ~Enumerates(t, Points)
  BY <1>1 DEF SortedSlices, Enumerates, Indexes
<1>3. Family # {} /\ Family \in SUBSET (SUBSET Points) BY <1>2
<1>4. PICK T \in Family : \A x \in T : T \ {x} \notin Family
  BY <1>3, PointsFinite, SmallestSubset
<1>5. CASE T = {}
  <2> DEFINE t == [i \in 1..0 |-> 0]
  <2>1. Cardinality(T) = 0 BY <1>5, FS_EmptySet
  <2>2. 1..0 = {} OBVIOUS
  <2>3. t \in [1..0 -> T] BY <2>2
  <2>4. Enumerates(t, T) BY <1>5, <2>1, <2>2, <2>3 DEF Enumerates
  <2> QED BY <1>4, <2>4
<1>6. CASE T # {}
  <2>1. First(T) \in T BY <1>6, FirstComesFirst
  <2>2. PICK t : Enumerates(t, T \ {First(T)}) BY <1>4, <2>1
  <2>3. IsFiniteSet(T) BY PointsFinite, FS_Subset
  <2>4. \E s : Enumerates(s, T) BY <1>6, <2>2, <2>3, Sortable
  <2> QED BY <1>4, <2>4
<1> QED BY <1>5, <1>6

(* The lowest of some indexes of the slice.                                 *)
LEMMA LowestIsLowest ==
  ASSUME NEW I \in SUBSET Indexes, I # {}
  PROVE  Lowest(I) \in I /\ \A j \in I : Lowest(I) <= j
<1>1. I \in SUBSET Nat BY DEF Indexes
<1>2. \E i \in I : \A j \in I : i <= j BY <1>1, SmallestExists
<1> QED BY <1>2 DEF Lowest

(* The first of some points is the one with the lowest index.               *)
LEMMA FirstInSlice ==
  ASSUME NEW s \in SortedSlices, NEW S \in SUBSET Points, NEW i \in Indexes, s[i] \in S,
         \A j \in Indexes : s[j] \in S => i <= j
  PROVE  First(S) = s[i]
<1>1. First(S) \in S /\ \A q \in S \ {First(S)} : PointHash[First(S)] < PointHash[q]
  BY FirstComesFirst
<1>2. PICK j \in Indexes : s[j] = First(S) BY <1>1 DEF SortedSlices
<1>3. i <= j /\ i \in Int /\ j \in Int BY <1>1, <1>2 DEF Indexes
<1>4. CASE i = j BY <1>2, <1>4
<1>5. CASE i < j
  <2>1. PointHash[s[i]] < PointHash[First(S)] BY <1>2, <1>5 DEF SortedSlices
  <2>2. PointHash[s[i]] \in Nat /\ PointHash[First(S)] \in Nat BY <1>1, RingAssumption
  <2> QED BY <1>1, <2>1, <2>2
<1> QED BY <1>3, <1>4, <1>5

(* The wrap of the index after the last one.                                *)
LEMMA NextWraps ==
  ASSUME NEW i \in Indexes
  PROVE  NextIndex(i) = IF i = Cardinality(Points) THEN 1 ELSE i + 1
<1> DEFINE n == Cardinality(Points)
<1>1. n \in Nat \ {0} /\ i \in 1..n BY PointsFinite DEF Indexes
<1> HIDE DEF n
<1>2. i = n => i % n = 0 BY <1>1
<1>3. i # n => i % n = i BY <1>1
<1> QED BY <1>1, <1>2, <1>3 DEF NextIndex, n

(* sort.Search on the slice finds the point at which the key's search of    *)
(* the ring ends, and the next index is that of the point after it.         *)
LEMMA SliceIsRing ==
  ASSUME NEW s \in SortedSlices, NEW key \in Keys
  PROVE  /\ SearchIndex(s, key) \in Indexes
         /\ s[SearchIndex(s, key)] = Search(key)
         /\ s[NextIndex(SearchIndex(s, key))] = After(Search(key))
<1> DEFINE n == Cardinality(Points)
           found == {p \in Points : PointHash[p] >= KeyHash[key]}
           at == SearchIndex(s, key)
<1>1. n \in Nat \ {0} /\ Indexes = 1..n /\ 1 \in Indexes
  BY PointsFinite DEF Indexes
<1>2. \A i \in Indexes : s[i] \in Points BY DEF SortedSlices
<1>3. First(Points) = s[1]
  <2>1. \A j \in Indexes : 1 <= j BY <1>1
  <2> QED BY <1>1, <1>2, <2>1, FirstInSlice
<1>4. \A i \in Indexes : i \in NotBefore(s, key) <=> s[i] \in found
  BY <1>2 DEF NotBefore
<1>5. at \in Indexes /\ s[at] = Search(key)
  <2>1. CASE NotBefore(s, key) = {}
    <3>1. found = {} BY <1>4, <2>1 DEF SortedSlices
    <3> QED BY <1>1, <1>3, <2>1, <3>1 DEF SearchIndex, Search, FirstOrWrapped
  <2>2. CASE NotBefore(s, key) # {}
    <3>1. NotBefore(s, key) \in SUBSET Indexes BY DEF NotBefore
    <3>2. at \in NotBefore(s, key) /\ \A j \in NotBefore(s, key) : at <= j
      BY <2>2, <3>1, LowestIsLowest DEF SearchIndex
    <3>3. at \in Indexes /\ s[at] \in found /\ \A j \in Indexes : s[j] \in found => at <= j
      BY <1>4, <3>1, <3>2
    <3> HIDE DEF at
    <3>4. First(found) = s[at] BY <3>3, FirstInSlice
    <3> QED BY <3>3, <3>4 DEF Search, FirstOrWrapped
  <2> QED BY <2>1, <2>2
<1> HIDE DEF at
<1> DEFINE later == {q \in Points : PointHash[q] > PointHash[s[at]]}
<1>6. \A j \in Indexes : s[j] \in later <=> at < j
  <2>1. \A i, j \in Indexes : i \in Int /\ PointHash[s[i]] \in Nat
    BY <1>1, <1>2, RingAssumption
  <2>2. \A i, j \in Indexes : i < j => PointHash[s[i]] < PointHash[s[j]] BY DEF SortedSlices
  <2>3. ASSUME NEW j \in Indexes PROVE PointHash[s[j]] > PointHash[s[at]] <=> at < j
    <3>1. at < j => PointHash[s[at]] < PointHash[s[j]] BY <1>5, <2>2
    <3>2. j < at => PointHash[s[j]] < PointHash[s[at]] BY <1>5, <2>2
    <3> QED BY <1>5, <2>1, <3>1, <3>2
  <2> QED BY <1>2, <2>3
<1>7. s[NextIndex(at)] = After(s[at])
  <2>1. CASE at = n
    <3>1. \A j \in Indexes : s[j] \notin later BY <1>1, <1>6, <2>1
    <3>2. later = {} BY <3>1 DEF SortedSlices
    <3>3. NextIndex(at) = 1 BY <1>5, <2>1, NextWraps
    <3> QED BY <1>3, <3>2, <3>3 DEF After, FirstOrWrapped
  <2>2. CASE at # n
    <3>1. at + 1 \in Indexes /\ at < at + 1 /\ \A j \in Indexes : at < j => at + 1 <= j
      BY <1>1, <1>5, <2>2
    <3>2. s[at + 1] \in later /\ \A j \in Indexes : s[j] \in later => at + 1 <= j
      BY <1>6, <3>1
    <3>3. First(later) = s[at + 1] BY <3>1, <3>2, FirstInSlice
    <3>4. NextIndex(at) = at + 1 BY <1>5, <2>2, NextWraps
    <3> QED BY <3>2, <3>3, <3>4 DEF After, FirstOrWrapped
  <2> QED BY <2>1, <2>2
<1> QED BY <1>5, <1>7 DEF at
-----------------------------------------------------------------------------
(* The inductive invariant.                                                 *)

(* The two nodes the ring has for a key.                                    *)
Homes(key) == {Owner(key), NodeOf(After(Search(key)))}

Placed == \A n \in Nodes : \A key \in Held(n) : n \in Homes(key)

OwnerLatest ==
  \A key \in Keys :
    key \in Held(Owner(key)) => store[Owner(key)][key].val = latest[key]

(* A call under way is bound for its key's owner.                           *)
CallsRouted ==
  \A c \in Clients :
    client[c].op # "none" =>
      /\ client[c].key \in Keys /\ client[c].node = Owner(client[c].key)
      /\ client[c].op = "set" => client[c].val \in Values

(* A replication under way starts at a home of its key, and one that has    *)
(* read a value copies it from the owner to another node.                   *)
CopiesOutward ==
  \A g \in Copiers :
    copying[g].phase # "idle" =>
      /\ copying[g].key \in Keys /\ copying[g].src \in Homes(copying[g].key)
      /\ copying[g].phase # "read" =>
           /\ Neighbor(copying[g].src, copying[g].key) # copying[g].src
           /\ copying[g].val \in Values

Domains ==
  /\ DOMAIN client = Clients /\ CopiesTyped
  /\ latest \in [Keys -> Values \cup {NoValue}]

(* A Set that was refused was bound for a home of its key, and one that was *)
(* refused by the owner was a client's.                                     *)
RefusedAtHome ==
  /\ RefusedTyped
  /\ \A set \in refused :
       /\ set.node \in Homes(set.key)
       /\ set.node = Owner(set.key) => set.byClient

Hidden ==
  /\ StoreTyped /\ Domains /\ DOMAIN overrides = {}
  /\ Placed /\ OwnerLatest /\ CallsRouted /\ CopiesOutward /\ RefusedAtHome

(* A log forgets what it refused, or refuses once more.                     *)
LEMMA RefusedShrinks ==
  ASSUME RefusedAtHome, refused' \subseteq refused
  PROVE  RefusedAtHome'
BY DEF RefusedAtHome, RefusedTyped, Homes

LEMMA RefusedGrows ==
  ASSUME RefusedAtHome, NEW key \in Keys, NEW val \in Values, NEW byClient \in BOOLEAN,
         NEW n \in Nodes, n \in Homes(key), n = Owner(key) => byClient,
         Refused(n, key, val, byClient)
  PROVE  RefusedAtHome'
<1>1. CASE UNCHANGED refused BY <1>1, RefusedShrinks
<1>2. CASE refused' = refused \cup {[node |-> n, key |-> key, val |-> val, byClient |-> byClient]}
  <2>1. RefusedTyped' BY <1>2 DEF RefusedAtHome, RefusedTyped
  <2>2. ASSUME NEW set \in refused' PROVE set.node \in Homes(set.key) /\ (set.node = Owner(set.key) => set.byClient)
    BY <1>2 DEF RefusedAtHome
  <2> QED BY <2>1, <2>2 DEF RefusedAtHome, Homes
<1> QED BY <1>1, <1>2 DEF Refused

(* A step that leaves the other nodes alone and gives one of them typed     *)
(* items leaves the caches typed.                                           *)
LEMMA OneNode ==
  ASSUME StoreTyped, NEW n \in Nodes,
         DOMAIN store' = Nodes, \A m \in Nodes \ {n} : store'[m] = store[m],
         DOMAIN store'[n] \subseteq Keys,
         \A k \in DOMAIN store'[n] : store'[n][k] \in [val : Values, hot : BOOLEAN]
  PROVE  StoreTyped'
<1> SUFFICES ASSUME NEW m \in Nodes
             PROVE  /\ DOMAIN store'[m] \subseteq Keys
                    /\ \A k \in DOMAIN store'[m] : store'[m][k] \in [val : Values, hot : BOOLEAN]
  BY DEF StoreTyped, Held
<1>1. CASE m = n BY <1>1
<1>2. CASE m # n BY <1>2 DEF StoreTyped, Held
<1> QED BY <1>1, <1>2

(* A Set of a cache adds the key with its value and keeps the other items.  *)
LEMMA StoredStore ==
  ASSUME StoreTyped, NEW n \in Nodes, NEW key \in Keys, NEW val \in Values,
         Stored(n, key, val)
  PROVE  /\ StoreTyped'
         /\ Held(n)' = Held(n) \cup {key} /\ store'[n][key].val = val
         /\ \A k \in Held(n) \ {key} : store'[n][k] = store[n][k]
         /\ \A m \in Nodes \ {n} : store'[m] = store[m]
<1>1. store'[n] = [k \in Held(n) \cup {key} |->
                     IF k = key THEN [val |-> val, hot |-> FALSE] ELSE store[n][k]]
  BY DEF Stored, StoreTyped
<1>2. DOMAIN store' = Nodes /\ \A m \in Nodes \ {n} : store'[m] = store[m]
  BY DEF Stored, StoreTyped
<1>3. Held(n)' = Held(n) \cup {key} /\ store'[n][key].val = val
  BY <1>1 DEF Held
<1>4. \A k \in Held(n) \ {key} : store'[n][k] = store[n][k]
  BY <1>1
<1>5. Held(n) \subseteq Keys /\ \A k \in Held(n) : store[n][k] \in [val : Values, hot : BOOLEAN]
  BY DEF StoreTyped
<1>6. \A k \in DOMAIN store'[n] : store'[n][k] \in [val : Values, hot : BOOLEAN]
  BY <1>1, <1>5
<1>7. StoreTyped' BY <1>2, <1>3, <1>5, <1>6, OneNode DEF Held
<1> QED BY <1>2, <1>3, <1>4, <1>7

(* A Delete or an eviction takes the key out and keeps the other items.     *)
LEMMA RemovedStore ==
  ASSUME StoreTyped, NEW n \in Nodes, NEW key, Removed(n, key)
  PROVE  /\ StoreTyped'
         /\ Held(n)' = Held(n) \ {key}
         /\ \A k \in Held(n) \ {key} : store'[n][k] = store[n][k]
         /\ \A m \in Nodes \ {n} : store'[m] = store[m]
<1>1. store'[n] = [k \in Held(n) \ {key} |-> store[n][k]]
  BY DEF Removed, StoreTyped
<1>2. DOMAIN store' = Nodes /\ \A m \in Nodes \ {n} : store'[m] = store[m]
  BY DEF Removed, StoreTyped
<1>3. Held(n)' = Held(n) \ {key}
  BY <1>1 DEF Held
<1>4. \A k \in Held(n) \ {key} : store'[n][k] = store[n][k]
  BY <1>1
<1>5. Held(n) \subseteq Keys /\ \A k \in Held(n) : store[n][k] \in [val : Values, hot : BOOLEAN]
  BY DEF StoreTyped
<1>6. StoreTyped' BY <1>1, <1>2, <1>5, OneNode
<1> QED BY <1>2, <1>3, <1>4, <1>6

(* A Get keeps every key and every value.                                   *)
LEMMA TouchedStore ==
  ASSUME StoreTyped, NEW n \in Nodes, NEW key, Touched(n, key)
  PROVE  /\ StoreTyped'
         /\ \A m \in Nodes : /\ Held(m)' = Held(m)
                            /\ \A k \in Held(m) : store'[m][k].val = store[m][k].val
<1>1. CASE key \notin Held(n) BY <1>1 DEF Touched, StoreTyped, Held
<1>2. CASE key \in Held(n)
  <2>1. store' = [store EXCEPT ![n][key].hot = TRUE]
    BY <1>2 DEF Touched
  <2>2. /\ DOMAIN store' = Nodes /\ \A m \in Nodes \ {n} : store'[m] = store[m]
        /\ store'[n] = [store[n] EXCEPT ![key].hot = TRUE]
    BY <2>1 DEF StoreTyped
  <2>3. Held(n) \subseteq Keys /\ \A k \in Held(n) : store[n][k] \in [val : Values, hot : BOOLEAN]
    BY DEF StoreTyped
  <2>4. Held(n)' = Held(n) BY <2>2 DEF Held
  <2>5. \A k \in Held(n) : /\ store'[n][k] \in [val : Values, hot : BOOLEAN]
                           /\ store'[n][k].val = store[n][k].val
    <3> SUFFICES ASSUME NEW k \in Held(n)
                 PROVE  /\ store'[n][k] \in [val : Values, hot : BOOLEAN]
                        /\ store'[n][k].val = store[n][k].val
      OBVIOUS
    <3>1. CASE k # key BY <3>1, <2>2, <2>3 DEF Held
    <3>2. CASE k = key
      <4>1. store'[n][k] = [store[n][k] EXCEPT !.hot = TRUE]
        BY <3>2, <2>2 DEF Held
      <4>2. store[n][k] \in [val : Values, hot : BOOLEAN]
        BY <2>3
      <4> QED BY <4>1, <4>2
    <3> QED BY <3>1, <3>2
  <2>6. StoreTyped' BY <2>2, <2>3, <2>4, <2>5, OneNode DEF Held
  <2> QED BY <2>2, <2>4, <2>5, <2>6 DEF Held
<1> QED BY <1>1, <1>2
-----------------------------------------------------------------------------
(* The invariant is inductive when no node migrates.                        *)

(* The empty cluster satisfies the invariant.                               *)
LEMMA HiddenInit == Init => Hidden
<1> SUFFICES ASSUME Init PROVE Hidden OBVIOUS
<1> USE DEF Init
<1>1. \A n \in Nodes : Held(n) = {} BY DEF Held
<1>2. StoreTyped BY <1>1 DEF StoreTyped
<1>3. Domains BY DEF Domains, CopiesTyped, NoCopy
<1>4. DOMAIN overrides = {} OBVIOUS
<1>5. Placed BY <1>1 DEF Placed
<1>6. OwnerLatest BY <1>1, RingNodes DEF OwnerLatest
<1>7. CallsRouted BY DEF CallsRouted, NoCall
<1>8. CopiesOutward BY DEF CopiesOutward, NoCopy
<1>9. RefusedAtHome BY DEF RefusedAtHome, RefusedTyped
<1> QED BY <1>2, <1>3, <1>4, <1>5, <1>6, <1>7, <1>8, <1>9 DEF Hidden

(* A Set at a home of its key keeps replicas in place; at another node than *)
(* the owner it leaves the owner's copy alone, at the owner it makes it the *)
(* latest value.                                                            *)
LEMMA SetKeepsHomes ==
  ASSUME Hidden, NEW key \in Keys, NEW val \in Values, NEW n \in Homes(key),
         Stored(n, key, val),
         \/ n # Owner(key) /\ latest' = latest
         \/ n = Owner(key) /\ latest' = [latest EXCEPT ![key] = val]
  PROVE  StoreTyped' /\ Placed' /\ OwnerLatest'
<1>1. n \in Nodes BY RingNodes DEF Homes, Neighbor
<1>2. /\ StoreTyped'
      /\ Held(n)' = Held(n) \cup {key} /\ store'[n][key].val = val
      /\ \A k \in Held(n) \ {key} : store'[n][k] = store[n][k]
      /\ \A m \in Nodes \ {n} : store'[m] = store[m]
  BY <1>1, StoredStore DEF Hidden
<1>3. \A m \in Nodes \ {n} : Held(m)' = Held(m) BY <1>2 DEF Held
<1>4. Placed'
  BY <1>2, <1>3 DEF Hidden, Placed
<1>5. OwnerLatest'
  <2> SUFFICES ASSUME NEW k \in Keys, k \in Held(Owner(k))'
               PROVE  store'[Owner(k)][k].val = latest'[k]
    BY DEF OwnerLatest
  <2>1. latest \in [Keys -> Values \cup {NoValue}] /\ Owner(k) \in Nodes
    BY RingNodes DEF Hidden, Domains
  <2>2. CASE k = key /\ n = Owner(key)
    BY <2>1, <2>2, <1>2
  <2>3. CASE k = key /\ n # Owner(key)
    <3>1. k \in Held(Owner(k)) /\ store'[Owner(k)] = store[Owner(k)]
      BY <2>1, <2>3, <1>2, <1>3
    <3>2. latest' = latest
      BY <2>3
    <3> QED BY <3>1, <3>2 DEF Hidden, OwnerLatest
  <2>4. CASE k # key
    <3>1. latest'[k] = latest[k]
      BY <2>1, <2>4
    <3>2. k \in Held(Owner(k)) /\ store'[Owner(k)][k] = store[Owner(k)][k]
      BY <2>1, <2>4, <1>2, <1>3
    <3> QED BY <3>1, <3>2 DEF Hidden, OwnerLatest
  <2> QED BY <2>2, <2>3, <2>4
<1> QED BY <1>2, <1>4, <1>5

(* Taking a key out of a cache, by a client's Delete at its owner or by an  *)
(* eviction anywhere, leaves no copy where there was none.                  *)
LEMMA RemovalKeepsHomes ==
  ASSUME Hidden, NEW key \in Keys, NEW n \in Nodes, Removed(n, key),
         \/ latest' = latest
         \/ n = Owner(key) /\ latest' = [latest EXCEPT ![key] = NoValue]
  PROVE  StoreTyped' /\ Placed' /\ OwnerLatest'
<1>1. /\ StoreTyped'
      /\ Held(n)' = Held(n) \ {key}
      /\ \A k \in Held(n) \ {key} : store'[n][k] = store[n][k]
      /\ \A m \in Nodes \ {n} : store'[m] = store[m]
  BY RemovedStore DEF Hidden
<1>2. \A m \in Nodes \ {n} : Held(m)' = Held(m) BY <1>1 DEF Held
<1>3. Placed'
  BY <1>1, <1>2 DEF Hidden, Placed
<1>4. OwnerLatest'
  <2> SUFFICES ASSUME NEW k \in Keys, k \in Held(Owner(k))'
               PROVE  store'[Owner(k)][k].val = latest'[k]
    BY DEF OwnerLatest
  <2>1. latest \in [Keys -> Values \cup {NoValue}] /\ Owner(k) \in Nodes
    BY RingNodes DEF Hidden, Domains
  <2>2. k \in Held(Owner(k)) /\ store'[Owner(k)][k] = store[Owner(k)][k]
    BY <2>1, <1>1, <1>2
  <2>3. latest'[k] = latest[k]
    <3>1. CASE k = key /\ n = Owner(key) BY <3>1, <1>1
    <3>2. CASE k # key BY <3>2, <2>1
    <3>3. CASE n # Owner(key) BY <3>3
    <3> QED BY <3>1, <3>2, <3>3
  <2> QED BY <2>2, <2>3 DEF Hidden, OwnerLatest
<1> QED BY <1>1, <1>3, <1>4

(* A Get changes no placement and no value.                                 *)
LEMMA TouchKeepsHomes ==
  ASSUME Hidden, NEW key, NEW n \in Nodes, Touched(n, key), latest' = latest
  PROVE  StoreTyped' /\ Placed' /\ OwnerLatest'
<1>1. /\ StoreTyped'
      /\ \A m \in Nodes : /\ Held(m)' = Held(m)
                         /\ \A k \in Held(m) : store'[m][k].val = store[m][k].val
  BY TouchedStore DEF Hidden
<1>2. Placed' BY <1>1 DEF Hidden, Placed
<1>3. OwnerLatest'
  BY <1>1, RingNodes DEF Hidden, OwnerLatest
<1> QED BY <1>1, <1>2, <1>3

(* Nothing happens to the caches.                                           *)
LEMMA SameHomes ==
  ASSUME Hidden, store' = store, latest' = latest
  PROVE  StoreTyped' /\ Placed' /\ OwnerLatest'
BY DEF Hidden, StoreTyped, Placed, OwnerLatest, Held
-----------------------------------------------------------------------------
(* One lemma for each actor.                                                *)

(* A client call is routed, and reaches the owner of its key.               *)
LEMMA ClientStep ==
  ASSUME Hidden, NEW c \in Clients, Call(c) \/ Arrive(c)
  PROVE  Hidden'
<1>1. DOMAIN overrides' = {} /\ copying' = copying /\ CopiesOutward'
  BY DEF Hidden, Call, Arrive, CopiesOutward
<1>2. DOMAIN client = Clients /\ latest \in [Keys -> Values \cup {NoValue}]
  BY DEF Hidden, Domains
<1>3. CASE Call(c)
  <2>1. PICK op \in {"set", "get", "delete"}, key \in Keys, val \in Values :
           client' = [client EXCEPT ![c] =
                       [op |-> op, key |-> key, node |-> Route(key),
                        val |-> IF op = "set" THEN val ELSE NoValue]]
    BY <1>3 DEF Call
  <2>2. Route(key) = Owner(key)
    BY DEF Hidden, Route
  <2>3. StoreTyped' /\ Placed' /\ OwnerLatest'
    BY <1>3, SameHomes DEF Call
  <2>4. CallsRouted'
    BY <2>1, <2>2, <1>2 DEF Hidden, CallsRouted
  <2>5. Domains'
    BY <1>1, <1>3, <2>1 DEF Call, Hidden, Domains, CopiesTyped
  <2>6. RefusedAtHome'
    BY <1>3, RefusedShrinks DEF Call, Hidden
  <2> QED BY <1>1, <2>3, <2>4, <2>5, <2>6 DEF Hidden
<1>4. CASE Arrive(c)
  <2> DEFINE call == client[c]
  <2>1. /\ call.op \in {"set", "get", "delete"}
        /\ client' = [client EXCEPT ![c] = NoCall]
    BY <1>4 DEF Arrive
  <2>2. /\ call.key \in Keys /\ call.node = Owner(call.key) /\ call.node \in Nodes
        /\ call.op = "set" => call.val \in Values
    BY <2>1, RingNodes DEF Hidden, CallsRouted
  <2>3. CallsRouted'
    BY <2>1, <1>2 DEF Hidden, CallsRouted, NoCall
  <2>4. StoreTyped' /\ Placed' /\ OwnerLatest' /\ latest' \in [Keys -> Values \cup {NoValue}]
    <3>1. CASE call.op = "set" /\ SetArrives(call.node, call.key, call.val)
      <4>1. CASE Stored(call.node, call.key, call.val)
                 /\ latest' = [latest EXCEPT ![call.key] = call.val]
        <5>1. call.node \in Homes(call.key) BY <2>2 DEF Homes
        <5> QED BY <3>1, <4>1, <5>1, <2>2, <1>2, SetKeepsHomes
      <4>2. CASE UNCHANGED <<store, latest>>
        BY <4>2, <1>2, SameHomes
      <4> QED BY <3>1, <4>1, <4>2 DEF SetArrives, Refused
    <3>2. CASE call.op = "get" /\ Touched(call.node, call.key) /\ UNCHANGED latest
      BY <3>2, <2>2, <1>2, TouchKeepsHomes
    <3>3. CASE call.op = "delete" /\ DeleteArrives(call.node, call.key)
      <4>1. CASE Removed(call.node, call.key) /\ latest' = [latest EXCEPT ![call.key] = NoValue]
        BY <4>1, <2>2, <1>2, RemovalKeepsHomes
      <4>2. CASE UNCHANGED <<store, latest>>
        BY <4>2, <1>2, SameHomes
      <4> QED BY <3>3, <4>1, <4>2 DEF DeleteArrives
    <3> QED BY <1>4, <3>1, <3>2, <3>3 DEF Arrive
  <2>5. Domains'
    BY <2>1, <2>4, <1>1 DEF Hidden, Domains, CopiesTyped
  <2>6. RefusedAtHome'
    <3>1. CASE refused' \subseteq refused
      BY <3>1, RefusedShrinks DEF Hidden
    <3>2. CASE call.op = "set" /\ Refused(call.node, call.key, call.val, TRUE)
      <4>1. call.node \in Homes(call.key) BY <2>2 DEF Homes
      <4> QED BY <3>2, <4>1, <2>2, RefusedGrows DEF Hidden
    <3> QED BY <1>4, <3>1, <3>2 DEF Arrive, SetArrives, DeleteArrives, Stored, Removed, Touched
  <2> QED BY <1>1, <2>3, <2>4, <2>5, <2>6 DEF Hidden
<1> QED BY <1>3, <1>4

(* A goroutine's record after a step of its own keeps the copies typed and  *)
(* outward when it is idle, about to read at a home, or bound from a home   *)
(* for another node with a value.                                           *)
LEMMA NextTask ==
  ASSUME Hidden, NEW g \in Copiers,
         NEW task \in [phase : {"idle", "read", "check", "write"}, src : Nodes \cup {NoNode},
                       key : Keys \cup {NoKey}, val : Values \cup {NoValue}],
         copying' = [copying EXCEPT ![g] = task],
         task.phase # "idle" => task.key \in Keys /\ task.src \in Homes(task.key),
         task.phase \in {"check", "write"} =>
           Neighbor(task.src, task.key) # task.src /\ task.val \in Values
  PROVE  CopiesTyped' /\ CopiesOutward'
<1>1. CopiesTyped BY DEF Hidden, Domains
<1>2. /\ copying'[g] = task
      /\ \A h \in Copiers \ {g} : copying'[h] = copying[h]
  BY <1>1 DEF CopiesTyped
<1>3. CopiesTyped' BY <1>1 DEF CopiesTyped
<1>4. CopiesOutward'
  <2> SUFFICES ASSUME NEW h \in Copiers, copying'[h].phase # "idle"
               PROVE  /\ copying'[h].key \in Keys /\ copying'[h].src \in Homes(copying'[h].key)
                      /\ copying'[h].phase # "read" =>
                           /\ Neighbor(copying'[h].src, copying'[h].key) # copying'[h].src
                           /\ copying'[h].val \in Values
    BY DEF CopiesOutward, Homes, Neighbor
  <2>1. CASE h = g
    BY <1>2, <2>1
  <2>2. CASE h # g
    BY <1>2, <2>2 DEF Hidden, CopiesOutward
  <2> QED BY <2>1, <2>2
<1> QED BY <1>3, <1>4

(* A replication starts at a home of a hot key and reads it there; it goes  *)
(* on only from the owner to the neighbor, where it may write.              *)
LEMMA CopyStep ==
  ASSUME Hidden, NEW g \in Copiers, Copy(g)
  PROVE  Hidden'
<1> DEFINE task == copying[g]
           to   == Neighbor(task.src, task.key)
<1>1. client' = client /\ latest' = latest /\ overrides' = overrides
  BY DEF Copy, StartCopy, CopyRead, CopyCheck, CopyWrite
<1>2. DOMAIN overrides' = {} /\ CallsRouted' /\ (CopiesTyped' => Domains')
  BY <1>1 DEF Hidden, CallsRouted, Domains
<1>3. task \in [phase : {"idle", "read", "check", "write"}, src : Nodes \cup {NoNode},
                key : Keys \cup {NoKey}, val : Values \cup {NoValue}]
  BY DEF Hidden, Domains, CopiesTyped
<1>4. NoCopy \in [phase : {"idle", "read", "check", "write"}, src : Nodes \cup {NoNode},
                  key : Keys \cup {NoKey}, val : Values \cup {NoValue}] /\ NoCopy.phase = "idle"
  BY DEF NoCopy
<1>5. ASSUME task.phase # "idle"
      PROVE  /\ task.key \in Keys /\ task.src \in Homes(task.key) /\ task.src \in Nodes
             /\ to \in Nodes /\ to \in Homes(task.key)
             /\ task.phase # "read" =>
                  to # task.src /\ task.val \in Values /\ to # Owner(task.key)
  <2>1. /\ task.key \in Keys /\ task.src \in Homes(task.key)
        /\ task.phase # "read" => to # task.src /\ task.val \in Values
    BY <1>5 DEF Hidden, CopiesOutward
  <2>2. to = NodeOf(After(Search(task.key))) /\ to \in Nodes /\ Owner(task.key) \in Nodes
    BY RingNodes DEF Neighbor
  <2> QED BY <2>1, <2>2 DEF Homes
<1>0. ASSUME refused' \subseteq refused PROVE RefusedAtHome'
  BY <1>0, RefusedShrinks DEF Hidden
<1>6. ASSUME NEW src \in Nodes, StartCopy(g, src)
      PROVE  Hidden'
  <2>1. PICK key \in Hot(src) :
           copying' = [copying EXCEPT ![g] = [NoCopy EXCEPT !.phase = "read", !.src = src, !.key = key]]
    BY <1>6 DEF StartCopy
  <2>2. key \in Keys /\ src \in Homes(key)
    BY <2>1 DEF Hot, Hidden, StoreTyped, Placed
  <2> DEFINE new == [NoCopy EXCEPT !.phase = "read", !.src = src, !.key = key]
  <2>3. /\ new \in [phase : {"idle", "read", "check", "write"}, src : Nodes \cup {NoNode},
                   key : Keys \cup {NoKey}, val : Values \cup {NoValue}]
        /\ new.phase = "read" /\ new.src = src /\ new.key = key
    BY <2>2 DEF NoCopy
  <2> HIDE DEF new
  <2>4. CopiesTyped' /\ CopiesOutward'
    BY <2>1, <2>2, <2>3, NextTask DEF new
  <2> QED BY <1>0, <1>1, <1>2, <1>6, <2>4, SameHomes DEF StartCopy, Hidden
<1>7. CASE CopyRead(g)
  <2>1. /\ task.phase = "read" /\ Touched(task.src, task.key)
        /\ copying' = [copying EXCEPT ![g] =
                         IF task.key \in Held(task.src) /\ to # task.src
                         THEN [task EXCEPT !.phase = "check", !.val = store[task.src][task.key].val]
                         ELSE NoCopy]
    BY <1>7 DEF CopyRead
  <2>2. ASSUME task.key \in Held(task.src) /\ to # task.src
      PROVE  CopiesTyped' /\ CopiesOutward'
    <3> DEFINE val == store[task.src][task.key].val
               new == [task EXCEPT !.phase = "check", !.val = val]
    <3>1. val \in Values
      BY <1>5, <2>1, <2>2 DEF Hidden, StoreTyped
    <3>2. copying' = [copying EXCEPT ![g] = new]
      BY <2>1, <2>2
    <3> HIDE DEF val
    <3>3. /\ new \in [phase : {"idle", "read", "check", "write"}, src : Nodes \cup {NoNode},
                     key : Keys \cup {NoKey}, val : Values \cup {NoValue}]
          /\ new.phase = "check" /\ new.src = task.src /\ new.key = task.key /\ new.val = val
      BY <1>3, <3>1
    <3>4. /\ new.key \in Keys /\ new.src \in Homes(new.key)
          /\ Neighbor(new.src, new.key) # new.src /\ new.val \in Values
      BY <1>5, <2>1, <2>2, <3>1, <3>3
    <3> HIDE DEF new
    <3> QED BY <3>2, <3>3, <3>4, NextTask
  <2>3. ASSUME ~(task.key \in Held(task.src) /\ to # task.src)
      PROVE  CopiesTyped' /\ CopiesOutward'
    <3>1. copying' = [copying EXCEPT ![g] = NoCopy]
      BY <2>1, <2>3
    <3> QED BY <1>4, <3>1, NextTask
  <2>4. StoreTyped' /\ Placed' /\ OwnerLatest'
    BY <1>1, <1>5, <2>1, TouchKeepsHomes
  <2> QED BY <1>0, <1>2, <2>1, <2>2, <2>3, <2>4 DEF Hidden, Touched
<1>8. CASE CopyCheck(g)
  <2>1. /\ task.phase = "check" /\ Touched(to, task.key)
        /\ copying' = [copying EXCEPT ![g] =
                         IF task.key \in Held(to) THEN NoCopy ELSE [task EXCEPT !.phase = "write"]]
    BY <1>8 DEF CopyCheck
  <2>2. ASSUME task.key \notin Held(to)
      PROVE  CopiesTyped' /\ CopiesOutward'
    <3> DEFINE new == [task EXCEPT !.phase = "write"]
    <3>1. copying' = [copying EXCEPT ![g] = new]
      BY <2>1, <2>2
    <3>2. /\ new \in [phase : {"idle", "read", "check", "write"}, src : Nodes \cup {NoNode},
                     key : Keys \cup {NoKey}, val : Values \cup {NoValue}]
          /\ new.phase = "write" /\ new.src = task.src /\ new.key = task.key /\ new.val = task.val
      BY <1>3
    <3>3. /\ new.key \in Keys /\ new.src \in Homes(new.key)
          /\ Neighbor(new.src, new.key) # new.src /\ new.val \in Values
      BY <1>5, <2>1, <3>2
    <3> HIDE DEF new
    <3> QED BY <3>1, <3>2, <3>3, NextTask
  <2>3. ASSUME task.key \in Held(to)
      PROVE  CopiesTyped' /\ CopiesOutward'
    <3>1. copying' = [copying EXCEPT ![g] = NoCopy]
      BY <2>1, <2>3
    <3> QED BY <1>4, <3>1, NextTask
  <2>4. StoreTyped' /\ Placed' /\ OwnerLatest'
    BY <1>1, <1>5, <2>1, TouchKeepsHomes
  <2> QED BY <1>0, <1>2, <2>1, <2>2, <2>3, <2>4 DEF Hidden, Touched
<1>9. CASE CopyWrite(g)
  <2>1. /\ task.phase = "write"
        /\ Stored(to, task.key, task.val) \/ Refused(to, task.key, task.val, FALSE)
        /\ copying' = [copying EXCEPT ![g] = NoCopy]
    BY <1>9 DEF CopyWrite, SetFails
  <2>2. CopiesTyped' /\ CopiesOutward'
    BY <1>4, <2>1, NextTask
  <2>3. StoreTyped' /\ Placed' /\ OwnerLatest'
    BY <1>1, <1>5, <2>1, SetKeepsHomes, SameHomes DEF Refused
  <2>4. RefusedAtHome'
    BY <1>0, <1>5, <2>1, RefusedGrows DEF Hidden, Stored
  <2> QED BY <1>2, <2>2, <2>3, <2>4 DEF Hidden
<1> QED BY <1>6, <1>7, <1>8, <1>9 DEF Copy

(* A cache may lose a key at any time.                                      *)
LEMMA EvictStep ==
  ASSUME Hidden, NEW n \in Nodes, NEW key \in Keys, Evict(n, key)
  PROVE  Hidden'
<1>1. StoreTyped' /\ Placed' /\ OwnerLatest'
  BY RemovalKeepsHomes DEF Evict
<1>2. RefusedAtHome'
  BY RefusedShrinks DEF Evict, Removed, Hidden
<1> QED BY <1>1, <1>2 DEF Evict, Hidden, Domains, CopiesTyped, CallsRouted, CopiesOutward

(* A restart keeps the items, but where a refused Set succeeds this time,   *)
(* and forgets what is under way.                                           *)
LEMMA RestartStep ==
  ASSUME Hidden, Restart
  PROVE  Hidden'
<1>1. PICK revived \in SUBSET refused :
         /\ store' = [n \in Nodes |->
              [k \in Held(n) \cup {set.key : set \in {s \in revived : s.node = n}} |->
                 Replayed(n, k, revived)]]
         /\ latest' = [k \in Keys |->
              IF \E set \in revived : set.byClient /\ set.key = k /\ set.node = Owner(k)
              THEN Replayed(Owner(k), k, revived).val ELSE latest[k]]
  BY DEF Restart
<1> DEFINE now(n, k) == {set \in revived : set.node = n /\ set.key = k}
<1>2. /\ RefusedTyped /\ RefusedAtHome /\ StoreTyped
      /\ \A set \in revived : /\ set \in [node : Nodes, key : Keys, val : Values, byClient : BOOLEAN]
                              /\ set.node \in Homes(set.key)
                              /\ set.node = Owner(set.key) => set.byClient
  BY DEF Hidden, RefusedAtHome, RefusedTyped
<1>3. ASSUME NEW n \in Nodes
      PROVE  /\ Held(n)' = Held(n) \cup {set.key : set \in {s \in revived : s.node = n}}
             /\ \A k \in Held(n)' : store'[n][k] = Replayed(n, k, revived)
  BY <1>1 DEF Held
<1>4. ASSUME NEW n \in Nodes, NEW k \in Held(n)', now(n, k) = {}
      PROVE  k \in Held(n) /\ store'[n][k] = [val |-> store[n][k].val, hot |-> FALSE]
  BY <1>3, <1>4 DEF Replayed
<1>5. ASSUME NEW n \in Nodes, NEW k \in Held(n)', now(n, k) # {}
      PROVE  \E set \in now(n, k) : store'[n][k] = [val |-> set.val, hot |-> FALSE]
  <2>1. store'[n][k] = [val |-> (CHOOSE set \in now(n, k) : TRUE).val, hot |-> FALSE]
    BY <1>3, <1>5 DEF Replayed
  <2> QED BY <2>1, <1>5
<1>6. ASSUME NEW n \in Nodes, NEW k \in Held(n)'
      PROVE  /\ k \in Keys /\ n \in Homes(k)
             /\ store'[n][k] \in [val : Values, hot : BOOLEAN]
  <2>1. CASE now(n, k) = {}
    <3>1. k \in Held(n) /\ store'[n][k] = [val |-> store[n][k].val, hot |-> FALSE]
      BY <1>4, <2>1
    <3>2. k \in Keys /\ store[n][k].val \in Values
      BY <3>1, <1>2 DEF StoreTyped
    <3> QED BY <3>1, <3>2 DEF Hidden, Placed
  <2>2. CASE now(n, k) # {}
    <3>1. PICK set \in now(n, k) : store'[n][k] = [val |-> set.val, hot |-> FALSE]
      BY <1>5, <2>2
    <3> QED BY <3>1, <1>2
  <2> QED BY <2>1, <2>2
<1>7. DOMAIN store' = Nodes /\ \A n \in Nodes : Held(n)' = DOMAIN store'[n]
  BY <1>1 DEF Held
<1>8. StoreTyped'
  BY <1>6, <1>7 DEF StoreTyped
<1>9. Placed'
  BY <1>6 DEF Placed, Homes
<1>10. latest \in [Keys -> Values \cup {NoValue}]
  BY DEF Hidden, Domains
<1>11. ASSUME NEW k \in Keys
       PROVE  /\ latest'[k] \in Values \cup {NoValue}
              /\ k \in Held(Owner(k))' => store'[Owner(k)][k].val = latest'[k]
  <2> DEFINE own == Owner(k)
  <2>1. own \in Nodes BY RingNodes
  <2>2. CASE now(own, k) = {}
    <3>1. latest'[k] = latest[k]
      BY <1>1, <2>2
    <3>2. ASSUME k \in Held(own)'
          PROVE  k \in Held(own) /\ store'[own][k].val = store[own][k].val
      <4>1. store'[own][k] = [val |-> store[own][k].val, hot |-> FALSE] /\ k \in Held(own)
        BY <1>4, <2>1, <2>2, <3>2
      <4> QED BY <4>1
    <3> QED BY <3>1, <3>2, <1>10 DEF Hidden, OwnerLatest
  <2>3. CASE now(own, k) # {}
    <3>1. PICK set \in revived : set.node = own /\ set.key = k
      BY <2>3
    <3>2. set.byClient
      BY <3>1, <1>2
    <3>3. latest'[k] = Replayed(own, k, revived).val
      BY <1>1, <3>1, <3>2
    <3>4. k \in Held(own)'
      BY <1>3, <2>1, <3>1
    <3>5. store'[own][k] = Replayed(own, k, revived) /\ store'[own][k] \in [val : Values, hot : BOOLEAN]
      BY <1>3, <1>6, <2>1, <3>4
    <3>6. store'[own][k].val \in Values
      BY <3>5
    <3> QED BY <3>3, <3>5, <3>6
  <2> QED BY <2>2, <2>3
<1>12. OwnerLatest' /\ latest' \in [Keys -> Values \cup {NoValue}]
  BY <1>1, <1>11 DEF OwnerLatest
<1>13. CallsRouted' BY DEF Restart, CallsRouted, NoCall
<1>14. CopiesOutward' BY DEF Restart, CopiesOutward, NoCopy
<1>15. Domains'
  BY <1>12 DEF Restart, Hidden, Domains, CopiesTyped, NoCopy
<1>16. RefusedAtHome' BY RefusedShrinks DEF Restart, Hidden
<1>17. DOMAIN overrides' = {} BY DEF Restart
<1> QED BY <1>8, <1>9, <1>12, <1>13, <1>14, <1>15, <1>16, <1>17 DEF Hidden

(* The invariant holds always in a cluster whose workers do not migrate.    *)
LEMMA AlwaysHidden ==
  ASSUME Movers = {}
  PROVE  Spec => []Hidden
<1>1. Hidden /\ [Next]_vars => Hidden'
  <2> SUFFICES ASSUME Hidden, [Next]_vars PROVE Hidden' OBVIOUS
  <2>1. CASE UNCHANGED vars
    BY <2>1, SameHomes, RefusedShrinks
    DEF vars, Hidden, Domains, CopiesTyped, CallsRouted, CopiesOutward
  <2>2. CASE Next
    BY <2>2, EvictStep, ClientStep, CopyStep, RestartStep DEF Next
  <2> QED BY <2>1, <2>2
<1> QED BY <1>1, HiddenInit, PTL DEF Spec
-----------------------------------------------------------------------------
(* Without migration a routed read returns the latest value or misses,      *)
(* whatever copies of the key replication has spread (cluster.go:83-106,    *)
(* 129-135, 188-213).                                                       *)
THEOREM ReplicasHidden ==
  ASSUME Movers = {}
  PROVE  Spec => []RoutedCopyLatest
<1>1. Hidden => RoutedCopyLatest
  BY DEF Hidden, OwnerLatest, RoutedCopyLatest, Route
<1> QED BY <1>1, AlwaysHidden, PTL

(* Without migration every copy and every call is where cluster.go reads it *)
(* off the sorted slice, however the points hash and whatever is evicted,   *)
(* fails or restarts.                                                       *)
THEOREM SlicePlaces ==
  ASSUME Movers = {}
  PROVE  Spec => []CopiesWhereSliceSays
<1>1. Hidden => CopiesWhereSliceSays
  <2> SUFFICES ASSUME Hidden, NEW s \in SortedSlices
               PROVE  /\ \A n \in Nodes : \A key \in Held(n) :
                           n \in {OwnerInSlice(s, key), NeighborInSlice(s, key)}
                      /\ \A c \in Clients :
                           client[c].op # "none" => client[c].node = OwnerInSlice(s, client[c].key)
    BY SlicesExist DEF CopiesWhereSliceSays
  <2>1. \A key \in Keys : /\ OwnerInSlice(s, key) = Owner(key)
                          /\ NeighborInSlice(s, key) = NodeOf(After(Search(key)))
    BY SliceIsRing DEF OwnerInSlice, NeighborInSlice, Owner
  <2>2. ASSUME NEW n \in Nodes, NEW key \in Held(n)
        PROVE  n \in {OwnerInSlice(s, key), NeighborInSlice(s, key)}
    <3>1. key \in Keys BY DEF Hidden, StoreTyped
    <3> QED BY <2>1, <3>1 DEF Hidden, Placed, Homes
  <2>3. ASSUME NEW c \in Clients, client[c].op # "none"
        PROVE  client[c].node = OwnerInSlice(s, client[c].key)
    BY <2>1, <2>3 DEF Hidden, CallsRouted
  <2> QED BY <2>2, <2>3
<1> QED BY <1>1, AlwaysHidden, PTL

(* Without migration a key is cached at two nodes at most, its owner and    *)
(* the neighbor the ring gives it: a hot replica is not replicated further  *)
(* (cluster.go:194-197, 215-227).                                           *)
THEOREM NoCascade ==
  ASSUME Movers = {}
  PROVE  Spec => []TwoCopies
<1>1. Hidden => TwoCopies
  <2> SUFFICES ASSUME Hidden, NEW key \in Keys
               PROVE  Cardinality({n \in Nodes : key \in Held(n)}) <= 2
    BY DEF TwoCopies
  <2> DEFINE holders == {n \in Nodes : key \in Held(n)}
             a == Owner(key)
             b == NodeOf(After(Search(key)))
  <2>1. holders \subseteq {a, b}
    BY DEF Hidden, Placed, Homes
  <2>2. IsFiniteSet({a, b}) /\ Cardinality({a, b}) <= 2
    <3>1. IsFiniteSet({a}) /\ Cardinality({a}) = 1
      BY FS_Singleton
    <3>2. {a, b} = {a} \cup {b}
      OBVIOUS
    <3> HIDE DEF a, b
    <3> QED BY <3>1, <3>2, FS_AddElement
  <2>3. IsFiniteSet(holders) /\ Cardinality(holders) <= Cardinality({a, b})
    BY <2>1, <2>2, FS_Subset
  <2>4. Cardinality(holders) \in Nat /\ Cardinality({a, b}) \in Nat
    BY <2>2, <2>3, FS_CardinalityType
  <2> QED BY <2>2, <2>3, <2>4
<1> QED BY <1>1, AlwaysHidden, PTL
-----------------------------------------------------------------------------
(* With migration.                                                          *)

(* What a call, a replication or a migration under way has in hand.         *)
CallsBound ==
  \A c \in Clients :
    client[c].op # "none" =>
      /\ client[c].key \in Keys /\ client[c].node \in Nodes
      /\ client[c].op = "set" => client[c].val \in Values

TaskBound(task) ==
  /\ task.phase # "idle" => task.src \in Nodes /\ task.key \in Keys
  /\ task.phase \in {"check", "write"} => task.val \in Values

MoveBound(move) ==
  /\ move.phase # "idle" => move.src \in Nodes /\ move.target \in Nodes
  /\ move.phase \notin {"idle", "pick"} => move.key \in Keys
  /\ move.phase \in {"delete", "set", "override"} => move.val \in Values

(* A cache and the refused Sets of the logs are finite.                     *)
Finite == IsFiniteSet(refused) /\ \A n \in Nodes : IsFiniteSet(Held(n))

Sound ==
  /\ TypeOK /\ CallsBound /\ Finite
  /\ \A g \in Copiers : TaskBound(copying[g])
  /\ \A m \in Movers : MoveBound(moving[m])

(* A Set keeps the items of a cache typed and finite, and so it does the    *)
(* Sets a log has refused.                                                  *)
LEMMA WriteTyped ==
  ASSUME StoreTyped, RefusedTyped, Finite,
         NEW n \in Nodes, NEW key \in Keys, NEW val \in Values, NEW byClient \in BOOLEAN,
         Stored(n, key, val) \/ Refused(n, key, val, byClient)
  PROVE  StoreTyped' /\ RefusedTyped' /\ Finite'
<1>1. CASE Stored(n, key, val)
  <2>1. StoreTyped' /\ Held(n)' = Held(n) \cup {key} /\ \A m \in Nodes \ {n} : Held(m)' = Held(m)
    BY <1>1, StoredStore DEF Held
  <2>2. refused' \subseteq refused BY <1>1 DEF Stored
  <2>3. \A m \in Nodes : IsFiniteSet(Held(m)') BY <2>1, FS_AddElement DEF Finite
  <2> QED BY <2>1, <2>2, <2>3, FS_Subset DEF Finite, RefusedTyped
<1>2. CASE Refused(n, key, val, byClient)
  <2>1. store' = store BY <1>2 DEF Refused
  <2> DEFINE set == [node |-> n, key |-> key, val |-> val, byClient |-> byClient]
  <2>2. set \in [node : Nodes, key : Keys, val : Values, byClient : BOOLEAN] OBVIOUS
  <2>3. refused' = refused \/ refused' = refused \cup {set} BY <1>2 DEF Refused
  <2> HIDE DEF set
  <2>4. RefusedTyped' /\ IsFiniteSet(refused')
    BY <2>2, <2>3, FS_AddElement DEF RefusedTyped, Finite
  <2> QED BY <2>1, <2>4 DEF StoreTyped, Finite, Held
<1> QED BY <1>1, <1>2

(* So does a Delete or a Get.                                               *)
LEMMA AccessTyped ==
  ASSUME StoreTyped, RefusedTyped, Finite, NEW n \in Nodes, NEW key,
         Removed(n, key) \/ Touched(n, key) \/ UNCHANGED <<store, refused>>
  PROVE  StoreTyped' /\ RefusedTyped' /\ Finite'
<1>1. CASE Removed(n, key)
  <2>1. StoreTyped' /\ Held(n)' = Held(n) \ {key} /\ \A m \in Nodes \ {n} : Held(m)' = Held(m)
    BY <1>1, RemovedStore DEF Held
  <2>2. refused' \subseteq refused BY <1>1 DEF Removed
  <2>3. \A m \in Nodes : IsFiniteSet(Held(m)') BY <2>1, FS_Subset DEF Finite
  <2> QED BY <2>1, <2>2, <2>3, FS_Subset DEF Finite, RefusedTyped
<1>2. CASE Touched(n, key)
  BY <1>2, TouchedStore DEF Finite, Touched, RefusedTyped
<1>3. CASE UNCHANGED <<store, refused>>
  BY <1>3 DEF StoreTyped, RefusedTyped, Finite, Held
<1> QED BY <1>1, <1>2, <1>3

(* The next record of a call, a replication or a migration.                 *)
LEMMA CallGoesOn ==
  ASSUME client \in [Clients -> Calls], CallsBound, NEW c \in Clients, NEW call \in Calls,
         call.op # "none" => /\ call.key \in Keys /\ call.node \in Nodes
                             /\ call.op = "set" => call.val \in Values,
         client' = [client EXCEPT ![c] = call]
  PROVE  client' \in [Clients -> Calls] /\ CallsBound'
<1>1. client'[c] = call /\ \A d \in Clients \ {c} : client'[d] = client[d] OBVIOUS
<1> QED BY <1>1 DEF CallsBound

LEMMA TaskGoesOn ==
  ASSUME CopiesTyped, \A h \in Copiers : TaskBound(copying[h]), NEW g \in Copiers,
         NEW task \in [phase : {"idle", "read", "check", "write"}, src : Nodes \cup {NoNode},
                       key : Keys \cup {NoKey}, val : Values \cup {NoValue}],
         TaskBound(task), copying' = [copying EXCEPT ![g] = task]
  PROVE  CopiesTyped' /\ \A h \in Copiers : TaskBound(copying'[h])
<1>1. copying'[g] = task /\ \A h \in Copiers \ {g} : copying'[h] = copying[h] BY DEF CopiesTyped
<1> QED BY <1>1 DEF CopiesTyped

LEMMA MoveGoesOn ==
  ASSUME moving \in [Movers -> Moves], \A m \in Movers : MoveBound(moving[m]),
         NEW m \in Movers, NEW move \in Moves, MoveBound(move),
         moving' = [moving EXCEPT ![m] = move]
  PROVE  /\ moving' \in [Movers -> Moves] /\ \A o \in Movers : MoveBound(moving'[o])
         /\ moving'[m] = move /\ \A o \in Movers \ {m} : moving'[o] = moving[o]
<1>1. moving'[m] = move /\ \A o \in Movers \ {m} : moving'[o] = moving[o] OBVIOUS
<1> QED BY <1>1

LEMMA NewMove ==
  ASSUME NEW src \in Nodes, NEW target \in Nodes, NEW more \in 0..4
  PROVE  /\ NoMove \in Moves /\ MoveBound(NoMove) /\ NoMove.phase = "idle"
         /\ Move(src, target, more) \in Moves /\ MoveBound(Move(src, target, more))
         /\ Move(src, target, more).phase = "pick"
<1>1. NoMove \in Moves /\ NoMove.phase = "idle" /\ MoveBound(NoMove)
  BY DEF NoMove, Moves, MoveBound
<1> DEFINE move == Move(src, target, more)
<1>2. move.phase = "pick" /\ move.src = src /\ move.target = target
  BY <1>1 DEF Move, Moves
<1>3. move \in Moves BY <1>1 DEF Move, Moves
<1> HIDE DEF move
<1>4. MoveBound(move) BY <1>2 DEF MoveBound
<1> QED BY <1>1, <1>2, <1>3, <1>4 DEF move

LEMMA MoveEnded ==
  ASSUME moving \in [Movers -> Moves], \A m \in Movers : MoveBound(moving[m]),
         NEW m \in Movers, moving[m].phase # "idle", MoveEnds(m)
  PROVE  /\ moving' \in [Movers -> Moves] /\ \A o \in Movers : MoveBound(moving'[o])
         /\ moving'[m].phase # "set" /\ \A o \in Movers \ {m} : moving'[o] = moving[o]
<1> DEFINE move == moving[m]
           next == IF move.more = 0 THEN NoMove ELSE Move(move.src, move.target, move.more - 1)
<1>1. move.src \in Nodes /\ move.target \in Nodes /\ move.more \in 0..4
  BY DEF Moves, MoveBound
<1>2. move.more # 0 => move.more - 1 \in 0..4 BY <1>1
<1>3. next \in Moves /\ MoveBound(next) /\ next.phase # "set"
  BY <1>1, <1>2, NewMove
<1>4. moving' = [moving EXCEPT ![m] = next] BY DEF MoveEnds
<1> HIDE DEF next
<1> QED BY <1>3, <1>4, MoveGoesOn

(* The migration goes on to its next phase, with the key or the value it    *)
(* has found.                                                               *)
LEMMA MoveAdvances ==
  ASSUME moving \in [Movers -> Moves], \A m \in Movers : MoveBound(moving[m]),
         NEW m \in Movers, moving[m].phase # "idle",
         NEW phase \in {"read", "delete", "set", "override"}, NEW key \in Keys,
         NEW val \in Values \cup {NoValue}, phase # "read" => val \in Values,
         NEW move, move = [moving[m] EXCEPT !.phase = phase, !.key = key, !.val = val],
         moving' = [moving EXCEPT ![m] = move]
  PROVE  /\ moving' \in [Movers -> Moves] /\ \A o \in Movers : MoveBound(moving'[o])
         /\ moving'[m].phase = phase /\ moving'[m].key = key
         /\ \A o \in Movers \ {m} : moving'[o] = moving[o]
<1>1. move \in Moves /\ MoveBound(move) /\ move.phase = phase /\ move.key = key
  BY DEF Moves, MoveBound
<1> QED BY <1>1, MoveGoesOn
-----------------------------------------------------------------------------
(* The usage of the cluster is a fold over its nodes.                       *)

(* The total usage is no less than that of any node, so that a skewed node  *)
(* gives from two to five moves.                                            *)
LEMMA TotalBounds ==
  ASSUME \A n \in Nodes : IsFiniteSet(Held(n)), NEW n \in Nodes
  PROVE  TotalUsage \in Nat /\ Usage(n) \in Nat /\ TotalUsage >= Usage(n)
<1> DEFINE f == [m \in Nodes |-> Usage(m)]
           Total(h) == h = [S \in SUBSET Nodes |->
                              IF S = {} THEN 0 ELSE Usage(Chosen(S)) + h[S \ {Chosen(S)}]]
           H == CHOOSE h : Total(h)
<1>1. \A m \in Nodes : f[m] \in Nat /\ f[m] = Usage(m) BY FS_CardinalityType DEF Usage
<1>2. IsFiniteSet(Nodes) BY RingAssumption
<1>3. PICK g \in [SUBSET Nodes -> Nat] : Sums(g, f, Nodes)
  <2> HIDE DEF f
  <2> QED BY <1>1, <1>2, SumsExist
<1>4. \A h : Adds(h, f) <=> Total(h)
  <2>1. \A S \in SUBSET Nodes : S # {} => Chosen(S) \in Nodes /\ f[Chosen(S)] = Usage(Chosen(S))
    BY <1>1 DEF Chosen
  <2>2. DOMAIN f = Nodes OBVIOUS
  <2> HIDE DEF f
  <2>3. \A h : [S \in SUBSET Nodes |-> IF S = {} THEN 0 ELSE f[Chosen(S)] + h[S \ {Chosen(S)}]]
             = [S \in SUBSET Nodes |-> IF S = {} THEN 0 ELSE Usage(Chosen(S)) + h[S \ {Chosen(S)}]]
    BY <2>1
  <2> QED BY <2>2, <2>3 DEF Adds
<1>5. Adds(H, f)
  <2>1. Total(g) BY <1>3, <1>4, SumsAdd
  <2>2. Total(H) BY <2>1, Zenon
  <2> QED BY <1>4, <2>2
<1>6. TotalUsage = H[Nodes]
  BY DEF TotalUsage, FoldSet, MapThenFoldSet, Chosen
<1> HIDE DEF H
<1>7. TotalUsage = g[Nodes] BY <1>2, <1>3, <1>5, <1>6, AddsSums
<1>8. g[Nodes] \in Nat /\ g[Nodes \ {n}] \in Nat /\ g[Nodes] = f[n] + g[Nodes \ {n}]
  BY <1>3 DEF Sums
<1> QED BY <1>1, <1>7, <1>8

LEMMA SkewBounds ==
  ASSUME Finite, NEW src \in Nodes, Skewed(src)
  PROVE  Min({5, (Usage(src) * Cardinality(Nodes)) \div TotalUsage}) - 1 \in 0..4
<1> DEFINE X == Usage(src) * Cardinality(Nodes)
           skew == X \div TotalUsage
<1>1. TotalUsage \in Nat /\ Usage(src) \in Nat /\ TotalUsage >= Usage(src)
  BY TotalBounds DEF Finite
<1>2. Cardinality(Nodes) \in Nat BY RingAssumption, FS_CardinalityType
<1>3. X \in Nat /\ X > 2 * TotalUsage BY <1>1, <1>2 DEF Skewed
<1>4. Usage(src) # 0
  <2>1. CASE Usage(src) = 0
    <3>1. X = 0 BY <2>1, <1>2
    <3> QED BY <1>1, <1>3, <3>1
  <2> QED BY <2>1
<1>5. TotalUsage > 0 BY <1>1, <1>4
<1> HIDE DEF X
<1>6. skew \in Nat /\ skew >= 2 BY <1>1, <1>3, <1>5
<1> HIDE DEF skew
<1>7. Min({5, skew}) = IF skew <= 5 THEN skew ELSE 5
  BY <1>6 DEF Min
<1> QED BY <1>6, <1>7 DEF X, skew
-----------------------------------------------------------------------------
(* Every step of a cluster keeps what is under way bound, for any number of *)
(* clients, replications and migrations, with evictions or without.         *)

LEMMA SoundInit == Init => Sound
<1> SUFFICES ASSUME Init PROVE Sound OBVIOUS
<1> USE DEF Init
<1>1. \A n \in Nodes : Held(n) = {} BY DEF Held
<1>2. StoreTyped BY <1>1 DEF StoreTyped
<1>3. NoMove \in Moves /\ MoveBound(NoMove) BY DEF NoMove, Moves, MoveBound
<1>4. NoCall \in Calls BY DEF NoCall, Calls
<1>5. CopiesTyped BY DEF CopiesTyped, NoCopy
<1>6. TypeOK BY <1>2, <1>3, <1>4, <1>5 DEF TypeOK, RefusedTyped
<1>7. Finite BY <1>1, FS_EmptySet DEF Finite
<1> QED BY <1>3, <1>6, <1>7 DEF Sound, CallsBound, NoCall, TaskBound, NoCopy

LEMMA ClientSound ==
  ASSUME Sound, NEW c \in Clients, Call(c) \/ Arrive(c)
  PROVE  Sound'
<1>1. UNCHANGED <<overrides, copying, moving, restarts>> BY DEF Call, Arrive
<1>2. /\ client \in [Clients -> Calls] /\ CallsBound /\ StoreTyped /\ RefusedTyped /\ Finite
      /\ latest \in [Keys -> Values \cup {NoValue}] /\ dropped \subseteq Keys
      /\ \A k \in DOMAIN overrides : overrides[k] \in Nodes
  BY DEF Sound, TypeOK
<1>3. SUFFICES /\ client' \in [Clients -> Calls] /\ CallsBound'
               /\ StoreTyped' /\ RefusedTyped' /\ Finite'
               /\ latest' \in [Keys -> Values \cup {NoValue}] /\ dropped' \subseteq Keys
  BY <1>1 DEF Sound, TypeOK, CopiesTyped
<1>4. CASE Call(c)
  <2>1. PICK kind \in {"set", "get", "delete"}, key \in Keys, val \in Values :
           client' = [client EXCEPT ![c] =
                       [op |-> kind, key |-> key, node |-> Route(key),
                        val |-> IF kind = "set" THEN val ELSE NoValue]]
    BY <1>4 DEF Call
  <2> DEFINE call == [op |-> kind, key |-> key, node |-> Route(key),
                      val |-> IF kind = "set" THEN val ELSE NoValue]
  <2>2. Route(key) \in Nodes BY <1>2, RingNodes DEF Route
  <2>3. call \in Calls /\ call.key \in Keys /\ call.node \in Nodes
        /\ (call.op = "set" => call.val \in Values)
    BY <2>2 DEF Calls
  <2> HIDE DEF call
  <2>4. client' \in [Clients -> Calls] /\ CallsBound'
    BY <1>2, <2>1, <2>3, CallGoesOn DEF call
  <2> QED BY <1>2, <1>4, <2>4 DEF Call, StoreTyped, RefusedTyped, Finite, Held
<1>5. CASE Arrive(c)
  <2> DEFINE call == client[c]
  <2>1. call.op \in {"set", "get", "delete"} /\ client' = [client EXCEPT ![c] = NoCall]
    BY <1>5 DEF Arrive
  <2>2. /\ call.key \in Keys /\ call.node \in Nodes
        /\ call.op = "set" => call.val \in Values
    BY <1>2, <2>1 DEF CallsBound
  <2>3. NoCall \in Calls /\ NoCall.op = "none" BY DEF NoCall, Calls
  <2>4. client' \in [Clients -> Calls] /\ CallsBound'
    BY <1>2, <2>1, <2>3, CallGoesOn
  <2>5. CASE call.op = "set" /\ SetArrives(call.node, call.key, call.val)
    <3>1. Stored(call.node, call.key, call.val) \/ Refused(call.node, call.key, call.val, TRUE)
      BY <2>5 DEF SetArrives
    <3>2. latest' = latest \/ latest' = [latest EXCEPT ![call.key] = call.val]
      BY <2>5 DEF SetArrives
    <3>3. dropped' \subseteq dropped BY <2>5 DEF SetArrives
    <3>4. latest' \in [Keys -> Values \cup {NoValue}] BY <1>2, <2>2, <2>5, <3>2
    <3> QED BY <1>2, <2>2, <2>4, <2>5, <3>1, <3>3, <3>4, WriteTyped
  <2>6. CASE call.op = "get" /\ Touched(call.node, call.key) /\ UNCHANGED <<latest, dropped>>
    <3>1. StoreTyped' /\ RefusedTyped' /\ Finite'
      BY <1>2, <2>2, <2>6, AccessTyped
    <3> QED BY <1>2, <2>4, <2>6, <3>1
  <2>7. CASE call.op = "delete" /\ DeleteArrives(call.node, call.key) /\ UNCHANGED dropped
    <3>1. latest' = latest \/ latest' = [latest EXCEPT ![call.key] = NoValue]
      BY <2>7 DEF DeleteArrives
    <3>2. latest' \in [Keys -> Values \cup {NoValue}] BY <1>2, <2>2, <3>1
    <3>3. StoreTyped' /\ RefusedTyped' /\ Finite'
      BY <1>2, <2>2, <2>7, AccessTyped DEF DeleteArrives
    <3> QED BY <1>2, <2>4, <2>7, <3>2, <3>3
  <2> QED BY <1>5, <2>5, <2>6, <2>7 DEF Arrive
<1> QED BY <1>4, <1>5

LEMMA CopySound ==
  ASSUME Sound, NEW g \in Copiers, Copy(g)
  PROVE  Sound'
<1> DEFINE task == copying[g]
           to   == Neighbor(task.src, task.key)
<1>1. UNCHANGED <<overrides, latest, client, moving, dropped, restarts>>
  BY DEF Copy, StartCopy, CopyRead, CopyCheck, CopyWrite
<1>2. /\ StoreTyped /\ RefusedTyped /\ Finite /\ CopiesTyped
      /\ \A h \in Copiers : TaskBound(copying[h])
  BY DEF Sound, TypeOK
<1>3. SUFFICES /\ StoreTyped' /\ RefusedTyped' /\ Finite'
               /\ CopiesTyped' /\ \A h \in Copiers : TaskBound(copying'[h])
  BY <1>1 DEF Sound, TypeOK, CallsBound
<1>4. task \in [phase : {"idle", "read", "check", "write"}, src : Nodes \cup {NoNode},
                key : Keys \cup {NoKey}, val : Values \cup {NoValue}] /\ TaskBound(task)
  BY <1>2 DEF CopiesTyped
<1>5. NoCopy \in [phase : {"idle", "read", "check", "write"}, src : Nodes \cup {NoNode},
                  key : Keys \cup {NoKey}, val : Values \cup {NoValue}] /\ TaskBound(NoCopy)
  BY DEF NoCopy, TaskBound
<1>6. to \in Nodes BY RingNodes
<1>7. ASSUME NEW src \in Nodes, StartCopy(g, src)
      PROVE  /\ StoreTyped' /\ RefusedTyped' /\ Finite'
             /\ CopiesTyped' /\ \A h \in Copiers : TaskBound(copying'[h])
  <2>1. PICK key \in Hot(src) :
           copying' = [copying EXCEPT ![g] = [NoCopy EXCEPT !.phase = "read", !.src = src, !.key = key]]
    BY <1>7 DEF StartCopy
  <2>2. key \in Keys BY <1>2, <2>1 DEF Hot, StoreTyped
  <2> DEFINE new == [NoCopy EXCEPT !.phase = "read", !.src = src, !.key = key]
  <2>3. /\ new \in [phase : {"idle", "read", "check", "write"}, src : Nodes \cup {NoNode},
                    key : Keys \cup {NoKey}, val : Values \cup {NoValue}]
        /\ new.phase = "read" /\ new.src = src /\ new.key = key
    BY <2>2 DEF NoCopy
  <2> HIDE DEF new
  <2>4. TaskBound(new) BY <2>2, <2>3 DEF TaskBound
  <2>5. CopiesTyped' /\ \A h \in Copiers : TaskBound(copying'[h])
    BY <1>2, <2>1, <2>3, <2>4, TaskGoesOn DEF new
  <2> QED BY <1>2, <1>7, <2>5 DEF StartCopy, StoreTyped, RefusedTyped, Finite, Held
<1>8. CASE CopyRead(g)
  <2>1. task.phase = "read" /\ Touched(task.src, task.key) BY <1>8 DEF CopyRead
  <2>2. task.src \in Nodes /\ task.key \in Keys BY <1>4, <2>1 DEF TaskBound
  <2>3. StoreTyped' /\ RefusedTyped' /\ Finite'
    BY <1>2, <2>1, <2>2, AccessTyped
  <2>4. CASE copying' = [copying EXCEPT ![g] = NoCopy]
    BY <1>2, <1>5, <2>3, <2>4, TaskGoesOn
  <2>5. CASE /\ task.key \in Held(task.src)
             /\ copying' = [copying EXCEPT ![g] =
                  [task EXCEPT !.phase = "check", !.val = store[task.src][task.key].val]]
    <3> DEFINE val == store[task.src][task.key].val
               new == [task EXCEPT !.phase = "check", !.val = val]
    <3>1. val \in Values BY <1>2, <2>2, <2>5 DEF StoreTyped
    <3> HIDE DEF val
    <3>2. /\ new \in [phase : {"idle", "read", "check", "write"}, src : Nodes \cup {NoNode},
                      key : Keys \cup {NoKey}, val : Values \cup {NoValue}]
          /\ new.phase = "check" /\ new.src = task.src /\ new.key = task.key /\ new.val = val
      BY <1>4, <3>1
    <3>3. TaskBound(new) BY <2>2, <3>1, <3>2 DEF TaskBound
    <3>4. copying' = [copying EXCEPT ![g] = new] BY <2>5 DEF val
    <3> HIDE DEF new
    <3> QED BY <1>2, <2>3, <3>2, <3>3, <3>4, TaskGoesOn
  <2> QED BY <1>8, <2>4, <2>5 DEF CopyRead
<1>9. CASE CopyCheck(g)
  <2>1. task.phase = "check" /\ Touched(to, task.key) BY <1>9 DEF CopyCheck
  <2>2. StoreTyped' /\ RefusedTyped' /\ Finite'
    BY <1>2, <1>6, <2>1, AccessTyped
  <2>3. CASE copying' = [copying EXCEPT ![g] = NoCopy]
    BY <1>2, <1>5, <2>2, <2>3, TaskGoesOn
  <2>4. CASE copying' = [copying EXCEPT ![g] = [task EXCEPT !.phase = "write"]]
    <3> DEFINE new == [task EXCEPT !.phase = "write"]
    <3>1. /\ new \in [phase : {"idle", "read", "check", "write"}, src : Nodes \cup {NoNode},
                      key : Keys \cup {NoKey}, val : Values \cup {NoValue}]
          /\ new.phase = "write" /\ new.src = task.src /\ new.key = task.key /\ new.val = task.val
      BY <1>4
    <3>2. TaskBound(new) BY <1>4, <2>1, <3>1 DEF TaskBound
    <3> HIDE DEF new
    <3> QED BY <1>2, <2>2, <2>4, <3>1, <3>2, TaskGoesOn DEF new
  <2> QED BY <1>9, <2>3, <2>4 DEF CopyCheck
<1>10. CASE CopyWrite(g)
  <2>1. /\ task.phase = "write"
        /\ Stored(to, task.key, task.val) \/ Refused(to, task.key, task.val, FALSE)
        /\ copying' = [copying EXCEPT ![g] = NoCopy]
    BY <1>10 DEF CopyWrite, SetFails
  <2>2. task.key \in Keys /\ task.val \in Values BY <1>4, <2>1 DEF TaskBound
  <2>3. StoreTyped' /\ RefusedTyped' /\ Finite'
    BY <1>2, <1>6, <2>1, <2>2, WriteTyped
  <2> QED BY <1>2, <1>5, <2>1, <2>3, TaskGoesOn
<1> QED BY <1>7, <1>8, <1>9, <1>10 DEF Copy

(* A step of a migration: the worker starts it, or it goes on.              *)
LEMMA MigrateSound ==
  ASSUME Sound, NEW m \in Movers, Migrate(m)
  PROVE  Sound'
<1> DEFINE move == moving[m]
<1>1. UNCHANGED <<latest, client, copying, restarts>>
  BY DEF Migrate, Survey, AdaptiveRebalance, MovePick, MoveRead, MoveDelete, MoveSet, SetKeyOverride
<1>2. /\ StoreTyped /\ RefusedTyped /\ Finite
      /\ moving \in [Movers -> Moves] /\ \A o \in Movers : MoveBound(moving[o])
      /\ DOMAIN overrides \subseteq Keys /\ \A k \in DOMAIN overrides : overrides[k] \in Nodes
      /\ dropped \subseteq Keys
      /\ move \in Moves /\ MoveBound(move)
  BY DEF Sound, TypeOK
<1>3. SUFFICES /\ StoreTyped' /\ RefusedTyped' /\ Finite'
               /\ moving' \in [Movers -> Moves] /\ \A o \in Movers : MoveBound(moving'[o])
               /\ DOMAIN overrides' \subseteq Keys /\ \A k \in DOMAIN overrides' : overrides'[k] \in Nodes
               /\ dropped' \subseteq Keys
  BY <1>1 DEF Sound, TypeOK, CallsBound, CopiesTyped
<1>4. move.phase # "idle" => move.src \in Nodes /\ move.target \in Nodes
  BY <1>2 DEF MoveBound
<1>5. move.phase \notin {"idle", "pick"} => move.key \in Keys BY <1>2 DEF MoveBound
<1>6. move.phase \in {"delete", "set", "override"} => move.val \in Values BY <1>2 DEF MoveBound
<1>7. ASSUME UNCHANGED <<store, refused>> PROVE StoreTyped' /\ RefusedTyped' /\ Finite'
  BY <1>2, <1>7 DEF StoreTyped, RefusedTyped, Finite, Held
<1>8. ASSUME NEW src \in Nodes, NEW target \in Nodes, NEW more \in 0..4,
             moving' = [moving EXCEPT ![m] = Move(src, target, more)]
      PROVE  moving' \in [Movers -> Moves] /\ \A o \in Movers : MoveBound(moving'[o])
  BY <1>2, <1>8, NewMove, MoveGoesOn
<1>9. ASSUME move.phase # "idle", MoveEnds(m)
      PROVE  moving' \in [Movers -> Moves] /\ \A o \in Movers : MoveBound(moving'[o])
  BY <1>2, <1>9, MoveEnded
<1>10. ASSUME move.phase # "idle", NEW phase \in {"read", "delete", "set", "override"},
              NEW key \in Keys, NEW val \in Values \cup {NoValue}, phase # "read" => val \in Values,
              moving' = [moving EXCEPT ![m] =
                           [move EXCEPT !.phase = phase, !.key = key, !.val = val]]
       PROVE  moving' \in [Movers -> Moves] /\ \A o \in Movers : MoveBound(moving'[o])
  BY <1>2, <1>10, MoveAdvances
<1>11. CASE Survey(m)
  <2>1. PICK target \in Nodes : moving' = [moving EXCEPT ![m] = Move(m, target, 0)]
    BY <1>11 DEF Survey
  <2>2. m \in Nodes /\ UNCHANGED <<store, overrides, refused, dropped>> BY <1>11 DEF Survey
  <2>3. moving' \in [Movers -> Moves] /\ \A o \in Movers : MoveBound(moving'[o])
    <3>1. 0 \in 0..4 OBVIOUS
    <3> QED BY <1>8, <2>1, <2>2, <3>1
  <2> QED BY <1>2, <1>7, <2>2, <2>3
<1>12. CASE AdaptiveRebalance(m)
  <2>1. PICK src \in Nodes, target \in Nodes :
          /\ Skewed(src)
          /\ moving' = [moving EXCEPT ![m] = Move(src, target,
               Min({5, (Usage(src) * Cardinality(Nodes)) \div TotalUsage}) - 1)]
    BY <1>12 DEF AdaptiveRebalance
  <2>2. Min({5, (Usage(src) * Cardinality(Nodes)) \div TotalUsage}) - 1 \in 0..4
    BY <1>2, <2>1, SkewBounds
  <2> QED BY <1>2, <1>7, <1>8, <1>12, <2>1, <2>2 DEF AdaptiveRebalance
<1>13. CASE MovePick(m)
  <2>1. move.phase = "pick" BY <1>13 DEF MovePick
  <2>2. CASE MoveEnds(m) BY <1>2, <1>7, <1>9, <1>13, <2>1, <2>2 DEF MovePick
  <2>3. CASE \E key \in Held(move.src) :
               moving' = [moving EXCEPT ![m].phase = "read", ![m].key = key]
    <3>1. PICK key \in Held(move.src) :
            moving' = [moving EXCEPT ![m].phase = "read", ![m].key = key]
      BY <2>3
    <3>2. key \in Keys BY <1>2, <1>4, <2>1 DEF StoreTyped
    <3>3. move.val \in Values \cup {NoValue} BY <1>2 DEF Moves
    <3>4. [move EXCEPT !.phase = "read", !.key = key, !.val = move.val]
            = [move EXCEPT !.phase = "read", !.key = key]
      BY <1>2 DEF Moves
    <3>5. moving' = [moving EXCEPT ![m] = [move EXCEPT !.phase = "read", !.key = key]]
      BY <1>2, <3>1
    <3>6. moving' = [moving EXCEPT ![m] =
                       [move EXCEPT !.phase = "read", !.key = key, !.val = move.val]]
      BY <3>4, <3>5
    <3> QED BY <1>2, <1>7, <1>10, <1>13, <2>1, <3>2, <3>3, <3>6 DEF MovePick
  <2> QED BY <1>13, <2>2, <2>3 DEF MovePick, Hot
<1>14. CASE MoveRead(m)
  <2>1. move.phase = "read" /\ Touched(move.src, move.key) /\ UNCHANGED <<overrides, dropped>>
    BY <1>14 DEF MoveRead
  <2>2. StoreTyped' /\ RefusedTyped' /\ Finite' BY <1>2, <1>4, <2>1, AccessTyped
  <2>3. CASE MoveEnds(m) BY <1>2, <1>9, <2>1, <2>2, <2>3
  <2>4. CASE /\ move.key \in Held(move.src)
             /\ moving' = [moving EXCEPT ![m].phase = "delete",
                                         ![m].val = store[move.src][move.key].val]
    <3> DEFINE val == store[move.src][move.key].val
    <3>1. val \in Values BY <1>2, <1>4, <1>5, <2>1, <2>4 DEF StoreTyped
    <3>2. moving' = [moving EXCEPT ![m].phase = "delete", ![m].val = val] BY <2>4
    <3> HIDE DEF val
    <3>3. [move EXCEPT !.phase = "delete", !.key = move.key, !.val = val]
            = [move EXCEPT !.phase = "delete", !.val = val]
      BY <1>2 DEF Moves
    <3>4. moving' = [moving EXCEPT ![m] = [move EXCEPT !.phase = "delete", !.val = val]]
      BY <1>2, <3>2
    <3>5. moving' = [moving EXCEPT ![m] =
                       [move EXCEPT !.phase = "delete", !.key = move.key, !.val = val]]
      BY <3>3, <3>4
    <3> QED BY <1>2, <1>5, <1>10, <2>1, <2>2, <3>1, <3>5
  <2> QED BY <1>14, <2>3, <2>4 DEF MoveRead
<1>15. ASSUME NEW phase \in {"set", "override"}, move.phase \in {"delete", "set"},
              moving' = [moving EXCEPT ![m].phase = phase]
       PROVE  moving' \in [Movers -> Moves] /\ \A o \in Movers : MoveBound(moving'[o])
  <2>1. [move EXCEPT !.phase = phase, !.key = move.key, !.val = move.val]
          = [move EXCEPT !.phase = phase]
    BY <1>2 DEF Moves
  <2>2. moving' = [moving EXCEPT ![m] = [move EXCEPT !.phase = phase]] BY <1>2, <1>15
  <2>3. moving' = [moving EXCEPT ![m] =
                     [move EXCEPT !.phase = phase, !.key = move.key, !.val = move.val]]
    BY <2>1, <2>2
  <2> QED BY <1>5, <1>6, <1>10, <1>15, <2>3
<1>16. CASE MoveDelete(m)
  <2>1. move.phase = "delete" /\ UNCHANGED overrides BY <1>16 DEF MoveDelete
  <2>2. StoreTyped' /\ RefusedTyped' /\ Finite'
    BY <1>2, <1>4, <1>16, <2>1, AccessTyped DEF MoveDelete, DeleteFails
  <2>3. dropped' \subseteq Keys BY <1>2, <1>5, <1>16, <2>1 DEF MoveDelete
  <2> QED BY <1>2, <1>9, <1>15, <1>16, <2>1, <2>2, <2>3 DEF MoveDelete
<1>17. CASE MoveSet(m)
  <2>1. move.phase = "set" /\ UNCHANGED overrides BY <1>17 DEF MoveSet
  <2>2. Stored(move.target, move.key, move.val) \/ Refused(move.target, move.key, move.val, FALSE)
    BY <1>17 DEF MoveSet, SetFails
  <2>3. StoreTyped' /\ RefusedTyped' /\ Finite'
    BY <1>2, <1>4, <1>5, <1>6, <2>1, <2>2, WriteTyped
  <2>4. dropped' \subseteq Keys BY <1>2, <1>5, <1>17, <2>1 DEF MoveSet
  <2> QED BY <1>2, <1>9, <1>15, <1>17, <2>1, <2>3, <2>4 DEF MoveSet
<1>18. CASE SetKeyOverride(m)
  <2>1. move.phase = "override" /\ MoveEnds(m) /\ UNCHANGED <<store, refused, dropped>>
    BY <1>18 DEF SetKeyOverride
  <2>2. overrides' = [k \in DOMAIN overrides \cup {move.key} |->
                        IF k = move.key THEN move.target ELSE overrides[k]]
    BY <1>18 DEF SetKeyOverride
  <2>3. DOMAIN overrides' \subseteq Keys /\ \A k \in DOMAIN overrides' : overrides'[k] \in Nodes
    BY <1>2, <1>4, <1>5, <2>1, <2>2
  <2> QED BY <1>2, <1>7, <1>9, <2>1, <2>3
<1> QED BY <1>11, <1>12, <1>13, <1>14, <1>16, <1>17, <1>18 DEF Migrate

LEMMA EvictSound ==
  ASSUME Sound, NEW n \in Nodes, NEW key \in Keys, Evict(n, key)
  PROVE  Sound'
<1>1. StoreTyped' /\ RefusedTyped' /\ Finite'
  BY AccessTyped DEF Evict, Sound, TypeOK
<1> QED BY <1>1 DEF Evict, Sound, TypeOK, CopiesTyped, CallsBound

(* A restart keeps what a cache holds, and adds what its log revives.       *)
LEMMA RestartKeeps ==
  ASSUME StoreTyped, RefusedTyped, Finite, Restart
  PROVE  /\ StoreTyped' /\ RefusedTyped' /\ Finite'
         /\ \A n \in Nodes : Held(n) \subseteq Held(n)'
         /\ \A k \in Keys : latest'[k] = latest[k] \/ k \in Held(Owner(k))'
         /\ latest \in [Keys -> Values \cup {NoValue}]
              => latest' \in [Keys -> Values \cup {NoValue}]
<1>1. PICK revived \in SUBSET refused :
         /\ store' = [n \in Nodes |->
              [k \in Held(n) \cup {set.key : set \in {s \in revived : s.node = n}} |->
                 Replayed(n, k, revived)]]
         /\ latest' = [k \in Keys |->
              IF \E set \in revived : set.byClient /\ set.key = k /\ set.node = Owner(k)
              THEN Replayed(Owner(k), k, revived).val ELSE latest[k]]
  BY DEF Restart
<1> DEFINE now(n, k) == {set \in revived : set.node = n /\ set.key = k}
<1>2. \A set \in revived : set \in [node : Nodes, key : Keys, val : Values, byClient : BOOLEAN]
  BY DEF RefusedTyped
<1>3. ASSUME NEW n \in Nodes
      PROVE  /\ Held(n)' = Held(n) \cup {set.key : set \in {s \in revived : s.node = n}}
             /\ \A k \in Held(n)' : store'[n][k] = Replayed(n, k, revived)
  BY <1>1 DEF Held
<1>4. ASSUME NEW n \in Nodes, NEW k \in Held(n)'
      PROVE  k \in Keys /\ Replayed(n, k, revived) \in [val : Values, hot : BOOLEAN]
  <2>1. CASE now(n, k) = {}
    <3>1. k \in Held(n) BY <1>3, <2>1
    <3>2. k \in Keys /\ store[n][k].val \in Values BY <3>1 DEF StoreTyped
    <3>3. Replayed(n, k, revived) = [val |-> store[n][k].val, hot |-> FALSE]
      BY <2>1 DEF Replayed
    <3> QED BY <3>2, <3>3
  <2>2. CASE now(n, k) # {}
    <3> DEFINE set == CHOOSE s \in now(n, k) : TRUE
    <3>1. set \in now(n, k) BY <2>2
    <3>2. Replayed(n, k, revived) = [val |-> set.val, hot |-> FALSE] BY <2>2 DEF Replayed
    <3> HIDE DEF set
    <3>3. set.val \in Values /\ set.key = k /\ set.key \in Keys BY <1>2, <3>1
    <3> QED BY <3>2, <3>3
  <2> QED BY <2>1, <2>2
<1>5. DOMAIN store' = Nodes /\ \A n \in Nodes : Held(n)' = DOMAIN store'[n] BY <1>1 DEF Held
<1>6. StoreTyped' BY <1>3, <1>4, <1>5 DEF StoreTyped
<1>7. RefusedTyped' /\ IsFiniteSet(refused') BY DEF Restart, RefusedTyped, Finite
<1>8. ASSUME NEW n \in Nodes PROVE IsFiniteSet(Held(n)')
  <2> DEFINE sets == {s \in revived : s.node = n}
  <2>1. IsFiniteSet(sets) BY FS_Subset DEF Finite
  <2>2. IsFiniteSet({set.key : set \in sets})
    <3> DEFINE keys == {set.key : set \in sets}
               of == [set \in sets |-> set.key]
    <3>1. of \in Surjection(sets, keys)
      <4> HIDE DEF sets
      <4> QED BY DEF Surjection
    <3> HIDE DEF sets, keys, of
    <3>2. IsFiniteSet(keys) BY <2>1, <3>1, FS_Surjection
    <3> QED BY <3>2 DEF keys
  <2>3. IsFiniteSet(Held(n)) BY DEF Finite
  <2>4. IsFiniteSet(Held(n) \cup {set.key : set \in sets})
    <3> HIDE DEF sets
    <3> QED BY <2>2, <2>3, FS_Union
  <2>5. Held(n)' = Held(n) \cup {set.key : set \in sets} BY <1>3
  <2> QED BY <2>4, <2>5, Zenon
<1>9. ASSUME NEW k \in Keys
      PROVE  /\ latest'[k] = latest[k] \/ k \in Held(Owner(k))'
             /\ latest[k] \in Values \cup {NoValue} => latest'[k] \in Values \cup {NoValue}
  <2>1. CASE \E set \in revived : set.byClient /\ set.key = k /\ set.node = Owner(k)
    <3>1. k \in Held(Owner(k))' BY <2>1, <1>3, RingNodes
    <3>2. Replayed(Owner(k), k, revived).val \in Values BY <3>1, <1>4, RingNodes
    <3> QED BY <1>1, <2>1, <3>1, <3>2
  <2>2. CASE ~\E set \in revived : set.byClient /\ set.key = k /\ set.node = Owner(k)
    BY <1>1, <2>2
  <2> QED BY <2>1, <2>2
<1>10. latest \in [Keys -> Values \cup {NoValue}] => latest' \in [Keys -> Values \cup {NoValue}]
  BY <1>1, <1>9
<1> QED BY <1>3, <1>6, <1>7, <1>8, <1>9, <1>10 DEF Finite

LEMMA RestartSound ==
  ASSUME Sound, Restart
  PROVE  Sound'
<1>1. /\ StoreTyped' /\ RefusedTyped' /\ Finite'
      /\ latest' \in [Keys -> Values \cup {NoValue}]
  BY RestartKeeps DEF Sound, TypeOK
<1>2. DOMAIN <<>> = {} OBVIOUS
<1>3. DOMAIN overrides' = {} /\ dropped' \subseteq Keys /\ restarts' \in Nat
  BY <1>2 DEF Restart, Sound, TypeOK
<1>4. NoMove \in Moves /\ MoveBound(NoMove) BY DEF NoMove, Moves, MoveBound
<1>5. NoCall \in Calls /\ NoCall.op = "none" BY DEF NoCall, Calls
<1>6. CopiesTyped' /\ TaskBound(NoCopy) BY DEF Restart, CopiesTyped, NoCopy, TaskBound
<1>7. moving' \in [Movers -> Moves] /\ \A m \in Movers : MoveBound(moving'[m])
  BY <1>4 DEF Restart
<1>8. client' \in [Clients -> Calls] /\ CallsBound' BY <1>5 DEF Restart, CallsBound
<1>9. \A g \in Copiers : TaskBound(copying'[g]) BY <1>6 DEF Restart
<1> QED BY <1>1, <1>3, <1>6, <1>7, <1>8, <1>9 DEF Sound, TypeOK

LEMMA AlwaysBound == Spec => []Sound
<1>1. Sound /\ [Next]_vars => Sound'
  <2> SUFFICES ASSUME Sound, [Next]_vars PROVE Sound' OBVIOUS
  <2>1. CASE UNCHANGED vars
    BY <2>1
    DEF vars, Sound, TypeOK, CallsBound, StoreTyped, CopiesTyped, RefusedTyped, Finite, Held
  <2>2. CASE Next
    BY <2>2, EvictSound, ClientSound, CopySound, MigrateSound, RestartSound DEF Next
  <2> QED BY <2>1, <2>2
<1> QED BY <1>1, SoundInit, PTL DEF Spec

(* Clients, replications, migrations, evictions, failures and restarts keep *)
(* the cluster typed: whatever a migration has in hand is a key, a value    *)
(* and two nodes of the cluster, and AdaptiveRebalance never asks for more  *)
(* than five moves.                                                         *)
THEOREM ClusterTyped == Spec => []TypeOK
<1>1. Sound => TypeOK BY DEF Sound
<1> QED BY <1>1, AlwaysBound, PTL
-----------------------------------------------------------------------------
(* In a cluster whose caches drop nothing by themselves, migration loses    *)
(* nothing but what one of its own failed calls cost.                       *)

(* A step without a client's Delete in it that keeps every cached key and   *)
(* what is in hand loses nothing.                                           *)
LEMMA NothingLostBy ==
  ASSUME NothingLost, latest' = latest,
         \A key \in Keys :
           key \in dropped \/ InHand(key) \/ (\E n \in Nodes : key \in Held(n))
             => key \in dropped' \/ InHand(key)' \/ (\E n \in Nodes : key \in Held(n)')
  PROVE  NothingLost'
BY DEF NothingLost

(* Calls of a cache and the keys the caches hold.                           *)
LEMMA WriteKeeps ==
  ASSUME StoreTyped, NEW n \in Nodes, NEW key \in Keys, NEW val \in Values,
         Stored(n, key, val) \/ store' = store
  PROVE  /\ \A m \in Nodes : Held(m) \subseteq Held(m)'
         /\ Stored(n, key, val) => key \in Held(n)'
<1>1. CASE Stored(n, key, val)
  <2>1. Held(n)' = Held(n) \cup {key} /\ \A m \in Nodes \ {n} : Held(m)' = Held(m)
    BY <1>1, StoredStore DEF Held
  <2> QED BY <2>1
<1>2. CASE ~Stored(n, key, val) BY <1>2 DEF Held
<1> QED BY <1>1, <1>2

LEMMA ClientLoses ==
  ASSUME Sound, NothingLost, NEW c \in Clients, Call(c) \/ Arrive(c)
  PROVE  NothingLost'
<1>1. \A key : InHand(key)' = InHand(key) BY DEF Call, Arrive, InHand
<1>2. CASE Call(c) BY <1>1, <1>2 DEF Call, NothingLost, Held
<1>3. CASE Arrive(c)
  <2> DEFINE call == client[c]
  <2>1. call.op \in {"set", "get", "delete"} BY <1>3 DEF Arrive
  <2>2. PICK n \in Nodes, k \in Keys : n = call.node /\ k = call.key
    BY <2>1 DEF Sound, CallsBound
  <2>3. /\ StoreTyped /\ latest \in [Keys -> Values \cup {NoValue}]
        /\ call.op = "set" => call.val \in Values
    BY <2>1 DEF Sound, TypeOK, CallsBound
  <2>4. CASE call.op = "set" /\ SetArrives(n, k, call.val)
    <3>1. PICK val \in Values : val = call.val BY <2>3, <2>4
    <3>2. CASE Stored(n, k, val) /\ latest' = [latest EXCEPT ![k] = val] /\ dropped' = dropped \ {k}
      <4>1. (\A m \in Nodes : Held(m) \subseteq Held(m)') /\ k \in Held(n)'
        BY <2>3, <3>2, WriteKeeps
      <4> SUFFICES ASSUME NEW key \in Keys, latest'[key] # NoValue, key # k
                   PROVE  key \in dropped' \/ InHand(key)' \/ \E m \in Nodes : key \in Held(m)'
        BY <4>1 DEF NothingLost
      <4>2. latest[key] # NoValue BY <2>3, <3>2
      <4> QED BY <1>1, <3>2, <4>1, <4>2 DEF NothingLost
    <3>3. CASE UNCHANGED <<store, latest, dropped>> BY <1>1, <3>3, NothingLostBy DEF Held
    <3> QED BY <2>4, <3>1, <3>2, <3>3 DEF SetArrives, Refused
  <2>5. CASE call.op = "get" /\ Touched(n, k) /\ UNCHANGED <<latest, dropped>>
    <3>1. \A m \in Nodes : Held(m)' = Held(m) BY <2>3, <2>5, TouchedStore
    <3> QED BY <1>1, <2>5, <3>1, NothingLostBy
  <2>6. CASE call.op = "delete" /\ DeleteArrives(n, k) /\ UNCHANGED dropped
    <3>1. CASE Removed(n, k) /\ latest' = [latest EXCEPT ![k] = NoValue]
      <4>1. Held(n)' = Held(n) \ {k} /\ \A m \in Nodes \ {n} : Held(m)' = Held(m)
        BY <2>3, <3>1, RemovedStore DEF Held
      <4> SUFFICES ASSUME NEW key \in Keys, latest'[key] # NoValue
                   PROVE  key \in dropped' \/ InHand(key)' \/ \E m \in Nodes : key \in Held(m)'
        BY DEF NothingLost
      <4>2. key # k /\ latest[key] # NoValue BY <2>3, <3>1
      <4> QED BY <1>1, <2>6, <4>1, <4>2 DEF NothingLost
    <3>2. CASE UNCHANGED <<store, refused, latest>>
      BY <1>1, <2>6, <3>2 DEF NothingLost, Held
    <3> QED BY <2>6, <3>1, <3>2 DEF DeleteArrives
  <2> QED BY <1>3, <2>2, <2>4, <2>5, <2>6 DEF Arrive
<1> QED BY <1>2, <1>3

LEMMA CopyLoses ==
  ASSUME Sound, NothingLost, NEW g \in Copiers, Copy(g)
  PROVE  NothingLost'
<1> DEFINE task == copying[g]
           to   == Neighbor(task.src, task.key)
<1>1. UNCHANGED <<latest, moving, dropped>>
  BY DEF Copy, StartCopy, CopyRead, CopyCheck, CopyWrite
<1>2. StoreTyped /\ TaskBound(task) /\ to \in Nodes BY RingNodes DEF Sound, TypeOK
<1>3. \A n \in Nodes : Held(n) \subseteq Held(n)'
  <2>1. CASE \E n \in Nodes : StartCopy(g, n) BY <2>1 DEF StartCopy, Held
  <2>2. CASE CopyRead(g)
    BY <1>2, <2>2, TouchedStore DEF CopyRead, TaskBound
  <2>3. CASE CopyCheck(g)
    BY <1>2, <2>3, TouchedStore DEF CopyCheck
  <2>4. CASE CopyWrite(g)
    <3>1. task.key \in Keys /\ task.val \in Values BY <1>2, <2>4 DEF CopyWrite, TaskBound
    <3>2. Stored(to, task.key, task.val) \/ store' = store
      BY <2>4 DEF CopyWrite, SetFails, Refused
    <3> QED BY <1>2, <3>1, <3>2, WriteKeeps
  <2> QED BY <2>1, <2>2, <2>3, <2>4 DEF Copy
<1> QED BY <1>1, <1>3, NothingLostBy DEF InHand

(* A migration has its key in hand from its Delete to its Set: the one puts *)
(* it there, the other takes it to a node or leaves it dropped.             *)
LEMMA MigrateLoses ==
  ASSUME Sound, NothingLost, NEW m \in Movers, Migrate(m)
  PROVE  NothingLost'
<1> DEFINE move == moving[m]
<1>1. latest' = latest
  BY DEF Migrate, Survey, AdaptiveRebalance, MovePick, MoveRead, MoveDelete, MoveSet, SetKeyOverride
<1>2. /\ StoreTyped /\ moving \in [Movers -> Moves] /\ \A o \in Movers : MoveBound(moving[o])
      /\ MoveBound(move)
  BY DEF Sound, TypeOK
<1>3. \A o \in Movers \ {m} : moving'[o] = moving[o]
  <2>1. \E record : moving' = [moving EXCEPT ![m] = record]
    <3>1. CASE MoveEnds(m) BY <3>1 DEF MoveEnds
    <3>2. CASE ~MoveEnds(m)
      BY <3>2 DEF Migrate, Survey, AdaptiveRebalance, MovePick, MoveRead, MoveDelete, MoveSet,
                  SetKeyOverride
    <3> QED BY <3>1, <3>2
  <2> QED BY <1>2, <2>1
<1>4. ASSUME move.phase # "set" PROVE \A key : InHand(key) => InHand(key)'
  BY <1>3, <1>4 DEF InHand
<1>5. CASE MoveDelete(m)
  <2>1. move.phase = "delete" /\ dropped \subseteq dropped' BY <1>5 DEF MoveDelete
  <2>2. PICK src \in Nodes, k \in Keys : src = move.src /\ k = move.key
    BY <1>2, <2>1 DEF MoveBound
  <2>3. CASE store' = store
    <3>1. \A n \in Nodes : Held(n)' = Held(n) BY <2>3 DEF Held
    <3> QED BY <1>1, <1>4, <2>1, <3>1, NothingLostBy
  <2>4. CASE Removed(src, k) /\ store' # store
    <3>1. Held(src)' = Held(src) \ {k} /\ \A n \in Nodes \ {src} : Held(n)' = Held(n)
      BY <1>2, <2>4, RemovedStore DEF Held
    <3>2. k \in dropped' \/ InHand(k)'
      <4>1. CASE moving' = [moving EXCEPT ![m].phase = "set"]
        <5>1. moving'[m].phase = "set" /\ moving'[m].key = k
          BY <1>2, <2>2, <4>1 DEF Moves
        <5> QED BY <5>1 DEF InHand
      <4>2. CASE dropped' = IF store' = store THEN dropped ELSE dropped \cup {k} BY <2>4, <4>2
      <4> QED BY <1>5, <2>2, <4>1, <4>2 DEF MoveDelete
    <3> QED BY <1>1, <1>4, <2>1, <3>1, <3>2, NothingLostBy
  <2> QED BY <1>5, <2>2, <2>3, <2>4 DEF MoveDelete, DeleteFails
<1>6. CASE MoveSet(m)
  <2>1. move.phase = "set" /\ dropped \subseteq dropped' BY <1>6 DEF MoveSet
  <2>2. PICK target \in Nodes, k \in Keys, val \in Values :
          target = move.target /\ k = move.key /\ val = move.val
    BY <1>2, <2>1 DEF MoveBound
  <2>3. Stored(target, k, val) \/ (store' = store /\ k \in dropped')
    BY <1>6, <2>2 DEF MoveSet, SetFails, Refused
  <2>4. /\ \A n \in Nodes : Held(n) \subseteq Held(n)'
        /\ Stored(target, k, val) => k \in Held(target)'
    BY <1>2, <2>3, WriteKeeps
  <2>5. \A key : InHand(key) => key = k \/ InHand(key)'
    BY <1>3, <2>2 DEF InHand
  <2> QED BY <1>1, <2>1, <2>3, <2>4, <2>5, NothingLostBy
<1>7. CASE MoveRead(m)
  <2>1. move.phase = "read" /\ Touched(move.src, move.key) /\ dropped' = dropped
    BY <1>7 DEF MoveRead
  <2>2. \A n \in Nodes : Held(n)' = Held(n) BY <1>2, <2>1, TouchedStore DEF MoveBound
  <2> QED BY <1>1, <1>4, <2>1, <2>2, NothingLostBy
<1>8. CASE Survey(m) \/ AdaptiveRebalance(m) \/ MovePick(m) \/ SetKeyOverride(m)
  <2>1. move.phase # "set" /\ UNCHANGED <<store, dropped>>
    BY <1>8 DEF Survey, AdaptiveRebalance, MovePick, SetKeyOverride, NoMove
  <2> QED BY <1>1, <1>4, <2>1, NothingLostBy DEF Held
<1> QED BY <1>5, <1>6, <1>7, <1>8 DEF Migrate

LEMMA RestartLoses ==
  ASSUME Sound, NothingLost, Restart
  PROVE  NothingLost'
<1>1. /\ \A n \in Nodes : Held(n) \subseteq Held(n)'
      /\ \A k \in Keys : latest'[k] = latest[k] \/ k \in Held(Owner(k))'
  BY RestartKeeps DEF Sound, TypeOK
<1>2. \A key \in Keys : key \in dropped \/ InHand(key) => key \in dropped' BY DEF Restart
<1> QED BY <1>1, <1>2, RingNodes DEF NothingLost

(* However many workers, clients and replications compete for a key, with   *)
(* failures and restarts at any point: if caches drop nothing by            *)
(* themselves, a key that was set and not deleted is cached somewhere, in   *)
(* the hands of a migration, or a call of its migration has failed or been  *)
(* cut off by a restart (cluster.go:145-186).                               *)
THEOREM MigrationSafe ==
  ASSUME ~Evictions
  PROVE  Spec => []NothingLost
<1>1. Init => NothingLost BY DEF Init, NothingLost
<1>2. Sound /\ NothingLost /\ [Next]_vars => NothingLost'
  <2> SUFFICES ASSUME Sound, NothingLost, [Next]_vars PROVE NothingLost' OBVIOUS
  <2>1. CASE UNCHANGED vars BY <2>1 DEF vars, NothingLost, InHand, Held
  <2>2. CASE Next
    BY <2>2, ClientLoses, CopyLoses, MigrateLoses, RestartLoses DEF Next, Evict
  <2> QED BY <2>1, <2>2
<1> QED BY <1>1, <1>2, AlwaysBound, PTL DEF Spec
=============================================================================
