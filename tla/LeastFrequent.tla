--------------------------- MODULE LeastFrequent ---------------------------
(* What README.md:80 promises of LFU, "eviction of the true                 *)
(* minimum-frequency key", without buckets: how often each present key was  *)
(* used, and the latest call with the victim it was answered.               *)
EXTENDS Naturals

CONSTANTS Keys,     \* the keys a policy may be told about
          NoKey     \* the answer of a policy that holds no key

VARIABLES count,    \* uses of every present key since it was added
          call      \* the latest call and its key, of ChooseEviction the answer

vars == <<count, call>>

Init == count = <<>> /\ call = [op |-> "none", key |-> NoKey]

Called(op, key) == call' = [op |-> op, key |-> key]

Use(key) ==
  /\ count' = IF key \in DOMAIN count
              THEN [count EXCEPT ![key] = @ + 1] ELSE count
  /\ Called("get", key)

Add(key) ==
  /\ count' = [k \in DOMAIN count \cup {key} |->
                 IF k # key THEN count[k]
                 ELSE IF key \in DOMAIN count THEN count[key] + 1 ELSE 1]
  /\ Called("set", key)

Drop(key) ==
  /\ count' = [k \in DOMAIN count \ {key} |-> count[k]]
  /\ Called("delete", key)

(* A victim is any key that no present key was used less often than.        *)
Choose ==
  /\ IF DOMAIN count = {} THEN Called("choose", NoKey)
     ELSE \E k \in DOMAIN count :
            /\ \A j \in DOMAIN count : count[k] <= count[j]
            /\ Called("choose", k)
  /\ UNCHANGED count

Next ==
  \/ \E key \in Keys : Use(key) \/ Add(key) \/ Drop(key)
  \/ Choose

Spec == Init /\ [][Next]_vars
=============================================================================
