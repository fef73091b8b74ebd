-------------------------------- MODULE LRU --------------------------------
(* The least-recently-used policy of eviction/lru.go as operators on its    *)
(* state: the list (front = most recent) and the keys its map has.  Each    *)
(* method holds the policy's mutex for its whole body, hence one operator,  *)
(* one atomic step.                                                         *)
EXTENDS KeyList

NewLRU == [list |-> <<>>, items |-> {}]

(* Mutant: a hit does not move the key.                                     *)
LRUOnGetIgnored(l, key) == l

LRUOnGet(l, key) ==
  IF key \in l.items
  THEN [list |-> MoveToFront(l.list, key), items |-> l.items]
  ELSE l

(* Mutant: a key that is present is linked a second time.                   *)
LRUOnSetTwice(l, key) ==
  [list |-> PushFront(l.list, key), items |-> l.items \cup {key}]

LRUOnSet(l, key) ==
  IF key \in l.items
  THEN [list |-> MoveToFront(l.list, key), items |-> l.items]
  ELSE [list |-> PushFront(l.list, key), items |-> l.items \cup {key}]

LRUOnDelete(l, key) ==
  IF key \in l.items
  THEN [list |-> Unlinked(l.list, key), items |-> l.items \ {key}]
  ELSE l

(* ChooseEviction: ok is FALSE on an empty list, else the back element.     *)
LRUHasVictim(l) == l.list # <<>>
LRUVictim(l) == l.list[Len(l.list)]

(* List and map agree: OnDelete leaves no element behind that Back() would  *)
(* name for ever, and no key of the map is out of reach of an eviction.     *)
LRUConsistent(l) == Links(l.list, l.items)
=============================================================================
