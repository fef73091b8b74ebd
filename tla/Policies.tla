------------------------------ MODULE Policies ------------------------------
(* The base policies of eviction/lru.go and eviction/lfu.go, one of each as *)
(* a process has them (main_cluster.go:125), driven by the calls a cache    *)
(* makes of a policy, in any order: the state of each is the policy's and   *)
(* the latest call with its key, of ChooseEviction the victim it named.     *)
EXTENDS LRU, LFU

CONSTANTS Keys,     \* the keys a cache is asked about
          NoKey,    \* stands for the answer ("", false)
          MaxFreq   \* bound on the LFU frequencies explored (none in the code)

ASSUME NoKeyAssumption == NoKey \notin Keys
ASSUME MaxFreqAssumption == MaxFreq \in Nat \ {0}

VARIABLES lru, lruCall, lfu, lfuCall

lruVars == <<lru, lruCall>>
lfuVars == <<lfu, lfuCall>>
vars == <<lruVars, lfuVars>>

Call(op, key) == [op |-> op, key |-> key]
-----------------------------------------------------------------------------
InitLRU == lru = NewLRU /\ lruCall = Call("none", NoKey)

GetLRU(key)    == lru' = LRUOnGet(lru, key) /\ lruCall' = Call("get", key)
SetLRU(key)    == lru' = LRUOnSet(lru, key) /\ lruCall' = Call("set", key)
DeleteLRU(key) == lru' = LRUOnDelete(lru, key) /\ lruCall' = Call("delete", key)

ChooseLRU ==
  /\ lruCall' = Call("choose", IF LRUHasVictim(lru) THEN LRUVictim(lru) ELSE NoKey)
  /\ UNCHANGED lru

NextLRU ==
  \/ \E key \in Keys : GetLRU(key) \/ SetLRU(key) \/ DeleteLRU(key)
  \/ ChooseLRU
-----------------------------------------------------------------------------
InitLFU == lfu = NewLFU /\ lfuCall = Call("none", NoKey)

BelowBound(key) == key \in LFUKeys(lfu) => lfu.freq[key] < MaxFreq

GetLFU(key) ==
  BelowBound(key) /\ lfu' = LFUOnGet(lfu, key) /\ lfuCall' = Call("get", key)
SetLFU(key) ==
  BelowBound(key) /\ lfu' = LFUOnSet(lfu, key) /\ lfuCall' = Call("set", key)
DeleteLFU(key) == lfu' = LFUOnDelete(lfu, key) /\ lfuCall' = Call("delete", key)

ChooseLFU ==
  /\ lfuCall' = Call("choose", IF LFUHasVictim(lfu) THEN LFUVictim(lfu) ELSE NoKey)
  /\ UNCHANGED lfu

NextLFU ==
  \/ \E key \in Keys : GetLFU(key) \/ SetLFU(key) \/ DeleteLFU(key)
  \/ ChooseLFU
-----------------------------------------------------------------------------
Init == InitLRU /\ InitLFU

Next ==
  \/ NextLRU /\ UNCHANGED lfuVars
  \/ NextLFU /\ UNCHANGED lruVars

Spec == Init /\ [][Next]_vars
-----------------------------------------------------------------------------
(* The list and the map of lru.go describe one set of keys, whatever the    *)
(* order of hits, sets and deletes (LRUConsistent in module LRU).           *)
ListMatchesMap == LRUConsistent(lru)

(* Refinement: the list is a representation of the recency order, front to  *)
(* back from the most to the least recently used key, so Back() is the key  *)
(* that every other key was used after.                                     *)
Older(list) ==
  {<<list[p[2]], list[p[1]]>> : p \in {q \in (DOMAIN list) \X (DOMAIN list) : q[1] < q[2]}}

Recency == INSTANCE RecencyOrder
             WITH present <- lru.items, older <- Older(lru.list), call <- lruCall

RefinesRecencyOrder == Recency!Spec

(* Map and buckets of lfu.go agree (LFUBucketed in module LFU).             *)
BucketsMatchKeys == LFUBucketed(lfu)

(* minFreq is never stale (LFUMinExact in module LFU).                      *)
MinIsExact == LFUMinExact(lfu)

(* Refinement: the buckets and the cached minimum implement the choice of a *)
(* true minimum-frequency key.                                              *)
Frequency == INSTANCE LeastFrequent WITH count <- lfu.freq, call <- lfuCall

RefinesLeastFrequent == Frequency!Spec
=============================================================================
