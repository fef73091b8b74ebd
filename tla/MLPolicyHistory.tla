--------------------------- MODULE MLPolicyHistory ---------------------------
(* MLPolicy with a record of the requests that went out and of the failures *)
(* that came back, and what holds of them for any number of callers.        *)
EXTENDS MLPolicy

VARIABLES
  sent,    \* sent[c]: when the last request of c went out
  lag,     \* the longest time a caller has taken from its test to its stamp
  serial,  \* failures recorded one after the other since the last trip
  due      \* those allow no request before this time

requests == <<sent, lag>>
series   == <<serial, due>>
historyVars == <<vars, requests, series>>

HistoryInit ==
  /\ Init
  /\ sent = [c \in Callers |-> -Cooldown] /\ lag = 0
  /\ serial = 0 /\ due = 0

Sent(c) ==
  /\ sent' = [sent EXCEPT ![c] = now]
  /\ lag' = IF now - read[c] > lag THEN now - read[c] ELSE lag

Recording == {"count", "increment", "test", "open", "reset"}

(* A failure whose record begins while another is being made starts a new   *)
(* series.                                                                  *)
Continues(c) == \A d \in Callers \ {c} : pc[d] \notin Recording

HistoryNext ==
  \/ Tick /\ UNCHANGED <<requests, series>>
  \/ \E c \in Callers :
       \/ (\/ CheckBreaker(c) \/ CheckCooldown(c) \/ Useless(c)
           \/ ReadCount(c) \/ WriteCount(c) \/ OpenCircuit(c))
            /\ UNCHANGED <<requests, series>>
       \/ StartRequest(c) /\ Sent(c) /\ UNCHANGED series
       \/ Predicted(c) /\ serial' = 0 /\ UNCHANGED <<requests, due>>
       \/ Failed(c) /\ serial' = (IF Continues(c) THEN serial + 1 ELSE 0)
            /\ UNCHANGED <<requests, due>>
       \/ TestCount(c) /\ due' = (IF serial >= Threshold THEN now + OpenFor ELSE due)
            /\ UNCHANGED <<requests, serial>>
       \/ ResetCount(c) /\ serial' = 0 /\ UNCHANGED <<requests, due>>

HistorySpec == HistoryInit /\ [][HistoryNext]_historyVars
-----------------------------------------------------------------------------
Spaced ==
  \A c \in Callers : pc[c] = "stamp" /\ pc'[c] = "request" => now - sent[c] >= Cooldown - lag

(* What is left of "no more than one ML call per 100ms per policy instance" *)
(* (README.md:117) when several goroutines test and stamp lastCall without  *)
(* a lock and stamp it with times gone by: each of them still leaves a      *)
(* cooldown between its own calls, less the longest time that any of them   *)
(* has taken from its test to its stamp.                                    *)
OwnCallsSpaced == [][Spaced]_historyVars

Breaks ==
  (\A c \in Callers : pc[c] # "open") =>
    \A c \in Callers : pc[c] = "idle" /\ pc'[c] = "cooldown" => now >= due

(* What is left of "after 3 consecutive failures, the circuit opens for 10  *)
(* seconds" (README.md:118): whoever met the failures, whatever races came  *)
(* before and whichever requests are under way, three failures that are     *)
(* recorded one after the other, no two at a time and no prediction in      *)
(* between, keep every call from the network for that time.                 *)
SeriesTrips == [][Breaks]_historyVars
=============================================================================
