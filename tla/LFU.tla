-------------------------------- MODULE LFU --------------------------------
(* The least-frequently-used policy of eviction/lfu.go as operators on its  *)
(* state: the frequency of every key (the items map and its nodes), one     *)
(* list per frequency (front = latest to arrive) and the cached minimum     *)
(* frequency.  As in LRU, each method runs under the policy's mutex.        *)
EXTENDS KeyList, Functions

NewLFU == [freq |-> <<>>, lists |-> <<>>, min |-> 0]

LFUKeys(l) == DOMAIN l.freq

(* Mutant: an emptied bucket is kept.                                       *)
WithoutNodeKept(l, key) ==
  [l.lists EXCEPT ![l.freq[key]] = Unlinked(@, key)]

(* The buckets once key has left its list: an emptied bucket is deleted.    *)
WithoutNode(l, key) ==
  LET f    == l.freq[key]
      rest == Unlinked(l.lists[f], key)
  IN IF rest = <<>> THEN Restrict(l.lists, DOMAIN l.lists \ {f})
     ELSE [l.lists EXCEPT ![f] = rest]

(* The buckets once key has been pushed to the front of the list for f.     *)
WithNode(lists, f, key) ==
  [g \in DOMAIN lists \cup {f} |->
     IF g # f THEN lists[g]
     ELSE PushFront(IF f \in DOMAIN lists THEN lists[f] ELSE <<>>, key)]

IncrementFreq(l, key) ==
  LET old  == l.freq[key]
      left == WithoutNode(l, key)
  IN [freq  |-> [l.freq EXCEPT ![key] = old + 1],
      lists |-> WithNode(left, old + 1, key),
      min   |-> IF old \notin DOMAIN left /\ old = l.min THEN l.min + 1 ELSE l.min]

LFUOnGet(l, key) == IF key \in LFUKeys(l) THEN IncrementFreq(l, key) ELSE l

(* Mutant: a new key does not reset the minimum.                            *)
LFUOnSetStaleMin(l, key) ==
  IF key \in LFUKeys(l) THEN IncrementFreq(l, key)
  ELSE [freq  |-> [k \in LFUKeys(l) \cup {key} |-> IF k = key THEN 1 ELSE l.freq[k]],
        lists |-> WithNode(l.lists, 1, key),
        min   |-> IF l.min = 0 THEN 1 ELSE l.min]

LFUOnSet(l, key) ==
  IF key \in LFUKeys(l) THEN IncrementFreq(l, key)
  ELSE [freq  |-> [k \in LFUKeys(l) \cup {key} |-> IF k = key THEN 1 ELSE l.freq[k]],
        lists |-> WithNode(l.lists, 1, key),
        min   |-> 1]

(* The scan over the remaining buckets: the least, or 0 when there is none. *)
LeastFrequency(freqs) ==
  IF freqs = {} THEN 0 ELSE CHOOSE f \in freqs : \A g \in freqs : f <= g

(* Mutant: the minimum is not recomputed.                                   *)
LFUOnDeleteStaleMin(l, key) ==
  IF key \notin LFUKeys(l) THEN l
  ELSE [freq  |-> Restrict(l.freq, LFUKeys(l) \ {key}),
        lists |-> WithoutNode(l, key),
        min   |-> l.min]

LFUOnDelete(l, key) ==
  IF key \notin LFUKeys(l) THEN l
  ELSE LET f    == l.freq[key]
           left == WithoutNode(l, key)
       IN [freq  |-> Restrict(l.freq, LFUKeys(l) \ {key}),
           lists |-> left,
           min   |-> IF f = l.min /\ f \notin DOMAIN left
                     THEN LeastFrequency(DOMAIN left) ELSE l.min]

LFUHasVictim(l) == l.min \in DOMAIN l.lists
LFUVictim(l) == l.lists[l.min][Len(l.lists[l.min])]

(* Every key is linked once, in the bucket of its own frequency, and no     *)
(* bucket that exists is empty: a node left behind by a moved or deleted    *)
(* key would be named as a victim.                                          *)
Buckets(lists, freq, keys) ==
  /\ DOMAIN lists = {freq[key] : key \in keys}
  /\ \A f \in DOMAIN lists : Links(lists[f], {key \in keys : freq[key] = f})

LFUBucketed(l) ==
  /\ l.freq \in [LFUKeys(l) -> Nat \ {0}]
  /\ Buckets(l.lists, l.freq, LFUKeys(l))

(* The cached minimum, which incrementFreq only bumps by one and OnDelete   *)
(* only recomputes when it emptied the minimum bucket, is never stale: it   *)
(* is the least frequency of a present key, and 0 when there is none.       *)
LFUMinExact(l) ==
  IF LFUKeys(l) = {} THEN l.min = 0
  ELSE /\ \E key \in LFUKeys(l) : l.freq[key] = l.min
       /\ \A key \in LFUKeys(l) : l.min <= l.freq[key]

LFUConsistent(l) == LFUBucketed(l) /\ LFUMinExact(l)
=============================================================================
