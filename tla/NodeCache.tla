------------------------------ MODULE NodeCache ------------------------------
(* What the calls of a cache node (cache/cache.go) promise whoever makes    *)
(* them, cluster.go above all: a map that may forget.  Sets and Deletes run *)
(* one at a time, and each takes effect at one instant, once at most.  A    *)
(* call that returns no error took effect, one that returns an error did or *)
(* did not, and nobody but a caller puts a value in the map.                *)
CONSTANTS Keys, Values, NoKey, NoValue

VARIABLES
  map,   \* key -> value
  call,  \* the call under way; a Delete has no value
  phase  \* free, open: not taken effect, done: taken effect, ok or error

vars == <<map, call, phase>>

NoCall == [key |-> NoKey, val |-> NoValue]
Sets == [key : Keys, val : Values]
Deletes == [key : Keys \cup {NoKey}, val : {NoValue}]

Less(key) == [k \in DOMAIN map \ {key} |-> map[k]]
More(set) ==
  [k \in DOMAIN map \cup {set.key} |-> IF k = set.key THEN set.val ELSE map[k]]

Init == map = <<>> /\ call = NoCall /\ phase = "free"

(* A call is admitted or refused at once.                                   *)
Begin ==
  /\ phase = "free" /\ phase' \in {"open", "error"}
  /\ call' \in Sets \cup Deletes
  /\ UNCHANGED map

TakeEffect ==
  /\ phase = "open" /\ phase' = "done"
  /\ map' = IF call \in Sets THEN More(call) ELSE Less(call.key)
  /\ UNCHANGED call

(* The key of a Delete is not there.                                        *)
NothingToDelete ==
  /\ phase = "open" /\ phase' = "ok"
  /\ call \in Deletes /\ call.key \notin DOMAIN map
  /\ UNCHANGED <<map, call>>

(* A Set makes room before it takes effect, and keeps room free after it.   *)
Forget ==
  /\ phase \in {"open", "done"} /\ call \in Sets
  /\ \E key \in DOMAIN map : map' = Less(key)
  /\ UNCHANGED <<call, phase>>

Succeed == phase = "done" /\ phase' = "ok" /\ UNCHANGED <<map, call>>
Fail == phase \in {"open", "done"} /\ phase' = "error" /\ UNCHANGED <<map, call>>

End == phase \in {"ok", "error"} /\ phase' = "free" /\ call' = NoCall /\ UNCHANGED map

(* A process that starts anew has an empty map and calls of its own.        *)
Restart == map' = <<>> /\ call' = NoCall /\ phase' = "free"

Next ==
  \/ Begin \/ TakeEffect \/ NothingToDelete \/ Forget
  \/ Succeed \/ Fail \/ End \/ Restart

Spec == Init /\ [][Next]_vars
=============================================================================
