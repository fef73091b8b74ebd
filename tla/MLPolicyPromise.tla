--------------------------- MODULE MLPolicyPromise ---------------------------
(* MLPolicy with a count of the requests that failed, for what README.md    *)
(* says of them.                                                            *)
EXTENDS MLPolicy

VARIABLES
  failures,   \* failed requests since a prediction or a trip
  quiet       \* those allow no request before this time

promiseVars == <<vars, failures, quiet>>

PromiseInit == Init /\ failures = 0 /\ quiet = 0

Answered(c) ==
  \/ Predicted(c) /\ failures' = 0 /\ UNCHANGED quiet
  \/ Failed(c) /\ IF failures + 1 < Threshold
                  THEN failures' = failures + 1 /\ UNCHANGED quiet
                  ELSE failures' = 0 /\ quiet' = now + OpenFor

PromiseNext ==
  \/ \E c \in Callers : Answered(c)
  \/ /\ Tick \/ \E c \in Callers : GetMLPrediction(c) /\ ~Predicted(c) /\ ~Failed(c)
     /\ UNCHANGED <<failures, quiet>>

PromiseSpec == PromiseInit /\ [][PromiseNext]_promiseVars
-----------------------------------------------------------------------------
Recording == {"count", "increment", "test", "open", "reset"}

Breaks ==
  (\A c \in Callers : pc[c] \notin Recording) =>
    \A c \in Callers : pc[c] = "idle" /\ pc'[c] = "cooldown" => now >= quiet

(* README.md:118: "after 3 consecutive failures, the circuit opens for 10   *)
(* seconds and all calls fall back to the base policy without attempting    *)
(* the network call": once the third failure is recorded no call passes the *)
(* breaker until that time is over.                                         *)
BreakerHolds == [][Breaks]_promiseVars
=============================================================================
