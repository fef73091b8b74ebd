--------------------------- MODULE RecencyOrder ---------------------------
(* What README.md:81 promises of LRU, "access-order tracking", without the  *)
(* list: the keys present, a relation that says which of two keys was used  *)
(* longer ago, and the latest call with the victim it was answered.         *)
EXTENDS Naturals

CONSTANTS Keys,     \* the keys a policy may be told about
          NoKey     \* the answer of a policy that holds no key

VARIABLES present,  \* the keys the policy holds
          older,    \* <<j, k>> \in older: j was last used before k
          call      \* the latest call and its key, of ChooseEviction the answer

vars == <<present, older, call>>

Init == present = {} /\ older = {} /\ call = [op |-> "none", key |-> NoKey]

Called(op, key) == call' = [op |-> op, key |-> key]

(* key becomes the most recently used of the present keys.                  *)
Touch(key) ==
  /\ present' = present \cup {key}
  /\ older' = {p \in older : key \notin {p[1], p[2]}}
              \cup ((present \ {key}) \X {key})

Use(key) ==
  /\ IF key \in present THEN Touch(key) ELSE UNCHANGED <<present, older>>
  /\ Called("get", key)

Add(key) == Touch(key) /\ Called("set", key)

Drop(key) ==
  /\ present' = present \ {key}
  /\ older' = {p \in older : key \notin {p[1], p[2]}}
  /\ Called("delete", key)

(* A victim is a present key that no other present key is older than.       *)
Choose ==
  /\ IF present = {} THEN Called("choose", NoKey)
     ELSE \E k \in present :
            /\ \A j \in present \ {k} : <<k, j>> \in older
            /\ Called("choose", k)
  /\ UNCHANGED <<present, older>>

Next ==
  \/ \E key \in Keys : Use(key) \/ Add(key) \/ Drop(key)
  \/ Choose

Spec == Init /\ [][Next]_vars
=============================================================================
