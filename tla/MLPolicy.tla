------------------------------ MODULE MLPolicy ------------------------------
(* MLPolicy.GetMLPrediction of eviction/ml_policy.go: the cooldown and the  *)
(* circuit breaker in front of the ML service.  Its fields are guarded by   *)
(* no lock, and two goroutines of a node call it: the ML worker             *)
(* (cache.go:431, 437) and the writer that evicts (cache.go:299).           *)
(*                                                                          *)
(* Each access to a field is a step of its own: a race of two words yields  *)
(* one of the interleavings of their reads and writes.  Time is counted in  *)
(* ticks; a call may be overtaken by any number of them between two steps.  *)
EXTENDS Integers

CONSTANTS
  Callers,     \* the goroutines that call GetMLPrediction
  Cooldown,    \* 100 ms
  OpenFor,     \* 10 s
  Threshold,   \* 3 failures
  MaxTime      \* bound on the clock

ASSUME DurationAssumption ==
  /\ {Cooldown, OpenFor, Threshold} \subseteq Nat \ {0}
  /\ MaxTime \in Nat

VARIABLES
  now,             \* the clock
  lastCall, circuitOpenTil, consecutiveErr,
  pc,              \* pc[c]: where c stands in GetMLPrediction
  read             \* read[c]: the last clock value or counter c has read

fields == <<lastCall, circuitOpenTil, consecutiveErr>>
vars == <<now, fields, pc, read>>

(* The zero time is long past.                                              *)
Init ==
  /\ now = 0
  /\ lastCall = -Cooldown /\ circuitOpenTil = 0 /\ consecutiveErr = 0
  /\ pc = [c \in Callers |-> "idle"]
  /\ read = [c \in Callers |-> 0]

Goto(c, label) == pc' = [pc EXCEPT ![c] = label]
Reads(c, value) == read' = [read EXCEPT ![c] = value]

Tick == now < MaxTime /\ now' = now + 1 /\ UNCHANGED <<fields, pc, read>>

(* The breaker.  (ML is enabled and the cache not empty: otherwise the call *)
(* returns at once.)                                                        *)
CheckBreaker(c) ==
  /\ pc[c] = "idle"
  /\ Goto(c, IF now < circuitOpenTil THEN "idle" ELSE "cooldown")
  /\ UNCHANGED <<now, fields, read>>

(* Mutant: any later tick will do.                                          *)
CheckCooldownLoose(c) ==
  /\ pc[c] = "cooldown"
  /\ Reads(c, now)
  /\ Goto(c, IF now - lastCall <= 0 THEN "idle" ELSE "stamp")
  /\ UNCHANGED <<now, fields>>

(* The clock is read once, for the test and for the stamp.                  *)
CheckCooldown(c) ==
  /\ pc[c] = "cooldown"
  /\ Reads(c, now)
  /\ Goto(c, IF now - lastCall < Cooldown THEN "idle" ELSE "stamp")
  /\ UNCHANGED <<now, fields>>

(* The request goes out.                                                    *)
StartRequest(c) ==
  /\ pc[c] = "stamp"
  /\ lastCall' = read[c]
  /\ Goto(c, "request")
  /\ UNCHANGED <<now, circuitOpenTil, consecutiveErr, read>>
-----------------------------------------------------------------------------
(* The answer.                                                              *)

Predicted(c) ==
  /\ pc[c] = "request"
  /\ consecutiveErr' = 0
  /\ Goto(c, "idle")
  /\ UNCHANGED <<now, lastCall, circuitOpenTil, read>>

(* A reply that cannot be decoded, reports an error or names no key counts  *)
(* neither way.                                                             *)
Useless(c) ==
  /\ pc[c] = "request"
  /\ Goto(c, "idle")
  /\ UNCHANGED <<now, fields, read>>

(* No reply in time or a status other than 200: recordFailure ...           *)
Failed(c) ==
  /\ pc[c] = "request"
  /\ Goto(c, "count")
  /\ UNCHANGED <<now, fields, read>>

ReadCount(c) ==
  /\ pc[c] = "count"
  /\ Reads(c, consecutiveErr)
  /\ Goto(c, "increment")
  /\ UNCHANGED <<now, fields>>

WriteCount(c) ==
  /\ pc[c] = "increment"
  /\ consecutiveErr' = read[c] + 1
  /\ Goto(c, "test")
  /\ UNCHANGED <<now, lastCall, circuitOpenTil, read>>

(* Mutant: one failure too many.                                            *)
TestCountLate(c) ==
  /\ pc[c] = "test"
  /\ Goto(c, IF consecutiveErr > Threshold THEN "open" ELSE "idle")
  /\ UNCHANGED <<now, fields, read>>

TestCount(c) ==
  /\ pc[c] = "test"
  /\ Goto(c, IF consecutiveErr >= Threshold THEN "open" ELSE "idle")
  /\ UNCHANGED <<now, fields, read>>

(* Mutant: the circuit stays open for twice as long.                        *)
OpenCircuitLong(c) ==
  /\ pc[c] = "open"
  /\ circuitOpenTil' = now + 2 * OpenFor
  /\ Goto(c, "reset")
  /\ UNCHANGED <<now, lastCall, consecutiveErr, read>>

OpenCircuit(c) ==
  /\ pc[c] = "open"
  /\ circuitOpenTil' = now + OpenFor
  /\ Goto(c, "reset")
  /\ UNCHANGED <<now, lastCall, consecutiveErr, read>>

(* Mutant: the counter is not reset.                                        *)
ResetCountForgotten(c) ==
  /\ pc[c] = "reset"
  /\ Goto(c, "idle")
  /\ UNCHANGED <<now, fields, read>>

ResetCount(c) ==
  /\ pc[c] = "reset"
  /\ consecutiveErr' = 0
  /\ Goto(c, "idle")
  /\ UNCHANGED <<now, lastCall, circuitOpenTil, read>>

GetMLPrediction(c) ==
  \/ CheckBreaker(c) \/ CheckCooldown(c) \/ StartRequest(c)
  \/ Predicted(c) \/ Useless(c) \/ Failed(c)
  \/ ReadCount(c) \/ WriteCount(c) \/ TestCount(c) \/ OpenCircuit(c) \/ ResetCount(c)

Next == Tick \/ \E c \in Callers : GetMLPrediction(c)

Spec == Init /\ [][Next]_vars
-----------------------------------------------------------------------------
(* Every variable has its type; no field of the policy runs ahead of what   *)
(* the clock allows.                                                        *)
TypeOK ==
  /\ now \in 0..MaxTime
  /\ lastCall \in (-Cooldown)..now /\ circuitOpenTil \in 0..(now + OpenFor)
  /\ consecutiveErr \in Nat
  /\ pc \in [Callers -> {"idle", "cooldown", "stamp", "request", "count", "increment",
                         "test", "open", "reset"}]
  /\ read \in [Callers -> Nat]

(* The counter never runs away: whatever the answers and however the        *)
(* records of the callers interleave, a counter that has reached the        *)
(* threshold is about to be reset.                                          *)
CountBelowThreshold ==
  (\A c \in Callers : pc[c] \notin {"test", "open", "reset"}) => consecutiveErr < Threshold
=============================================================================
