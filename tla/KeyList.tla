------------------------------ MODULE KeyList ------------------------------
(* Go's container/list as both policies use it: a doubly linked list of     *)
(* keys, front first, in which no key is linked twice, so that an element   *)
(* is known by its key.                                                     *)
EXTENDS Naturals, Sequences, SequencesExt

Position(list, key) == CHOOSE i \in DOMAIN list : list[i] = key

PushFront(list, key) == <<key>> \o list

Unlinked(list, key) == RemoveAt(list, Position(list, key))

MoveToFront(list, key) == PushFront(Unlinked(list, key), key)

(* The list links every key of a set once and nothing else.                 *)
Links(list, keys) ==
  /\ list \in Seq(keys)
  /\ \A key \in keys : \E i \in DOMAIN list : list[i] = key
  /\ \A i, j \in DOMAIN list : list[i] = list[j] => i = j
=============================================================================
