---------------------------- MODULE MLPolicyProofs ----------------------------
(* Proofs about the cooldown and the circuit breaker of ml_policy.go, for   *)
(* any number of goroutines that race on its fields.                        *)
EXTENDS MLPolicyHistory, TLAPS

(* What a caller is about to stamp is a time it has read from the clock.    *)
Stamps == \A c \in Callers : pc[c] = "stamp" => read[c] <= now

Timed == TypeOK /\ Stamps

LEMMA TimedInit == Init => Timed
BY DurationAssumption DEF Init, Timed, TypeOK, Stamps

(* The labels of a caller and what it reads stay typed.                     *)
LEMMA CallerTyped ==
  ASSUME Timed, NEW c \in Callers, NEW label, Goto(c, label)
  PROVE  /\ pc'[c] = label /\ \A d \in Callers \ {c} : pc'[d] = pc[d]
         /\ label \in {"idle", "cooldown", "stamp", "request", "count", "increment",
                       "test", "open", "reset"}
              => pc' \in [Callers -> {"idle", "cooldown", "stamp", "request", "count",
                                      "increment", "test", "open", "reset"}]
BY DEF Timed, TypeOK, Goto

LEMMA CallerReads ==
  ASSUME Timed, NEW c \in Callers, NEW value, Reads(c, value)
  PROVE  /\ read'[c] = value /\ \A d \in Callers \ {c} : read'[d] = read[d]
         /\ value \in Nat => read' \in [Callers -> Nat]
BY DEF Timed, TypeOK, Reads

(* Every step of every goroutine keeps the fields within the clock.         *)
LEMMA TimedStep == Timed /\ [Next]_vars => Timed'
<1> SUFFICES ASSUME Timed, [Next]_vars PROVE Timed' OBVIOUS
<1> USE DurationAssumption DEF Timed, TypeOK, Stamps, fields
<1>1. CASE Tick BY <1>1 DEF Tick
<1>2. ASSUME NEW c \in Callers, CheckBreaker(c) PROVE Timed'
  BY <1>2, CallerTyped DEF CheckBreaker
<1>3. ASSUME NEW c \in Callers, CheckCooldown(c) PROVE Timed'
  BY <1>3, CallerTyped, CallerReads DEF CheckCooldown
<1>4. ASSUME NEW c \in Callers, StartRequest(c) PROVE Timed'
  BY <1>4, CallerTyped DEF StartRequest
<1>5. ASSUME NEW c \in Callers, Predicted(c) \/ Useless(c) PROVE Timed'
  BY <1>5, CallerTyped DEF Predicted, Useless
<1>6. ASSUME NEW c \in Callers, Failed(c) PROVE Timed'
  BY <1>6, CallerTyped DEF Failed
<1>7. ASSUME NEW c \in Callers, ReadCount(c) PROVE Timed'
  BY <1>7, CallerTyped, CallerReads DEF ReadCount
<1>8. ASSUME NEW c \in Callers, WriteCount(c) PROVE Timed'
  BY <1>8, CallerTyped DEF WriteCount
<1>9. ASSUME NEW c \in Callers, TestCount(c) PROVE Timed'
  BY <1>9, CallerTyped DEF TestCount
<1>10. ASSUME NEW c \in Callers, OpenCircuit(c) \/ ResetCount(c) PROVE Timed'
  BY <1>10, CallerTyped DEF OpenCircuit, ResetCount
<1>11. CASE UNCHANGED vars BY <1>11 DEF vars
<1> QED BY <1>1, <1>2, <1>3, <1>4, <1>5, <1>6, <1>7, <1>8, <1>9, <1>10, <1>11
        DEF Next, GetMLPrediction

LEMMA AlwaysTimed == Spec => []Timed
BY TimedInit, TimedStep, PTL DEF Spec

(* However many goroutines race on the fields of the policy, none of them   *)
(* runs ahead of the clock: no request is stamped in the future, and the    *)
(* circuit is never open for longer than the ten seconds (ml_policy.go:202).*)
THEOREM FieldsTyped == Spec => []TypeOK
BY AlwaysTimed, PTL DEF Timed
-----------------------------------------------------------------------------
(* The error count.                                                         *)

LEMMA CountStep == Timed /\ CountBelowThreshold /\ [Next]_vars => CountBelowThreshold'
<1> SUFFICES ASSUME Timed, CountBelowThreshold, [Next]_vars PROVE CountBelowThreshold' OBVIOUS
<1> USE DurationAssumption DEF CountBelowThreshold, fields
<1>1. CASE Tick BY <1>1 DEF Tick
<1>2. ASSUME NEW c \in Callers, CheckBreaker(c) PROVE CountBelowThreshold'
  BY <1>2, CallerTyped DEF CheckBreaker
<1>3. ASSUME NEW c \in Callers, CheckCooldown(c) PROVE CountBelowThreshold'
  BY <1>3, CallerTyped DEF CheckCooldown
<1>4. ASSUME NEW c \in Callers, StartRequest(c) PROVE CountBelowThreshold'
  BY <1>4, CallerTyped DEF StartRequest
<1>5. ASSUME NEW c \in Callers, Predicted(c) \/ ResetCount(c) PROVE CountBelowThreshold'
  BY <1>5 DEF Predicted, ResetCount
<1>6. ASSUME NEW c \in Callers, Useless(c) \/ Failed(c) PROVE CountBelowThreshold'
  BY <1>6, CallerTyped DEF Useless, Failed
<1>7. ASSUME NEW c \in Callers, ReadCount(c) PROVE CountBelowThreshold'
  BY <1>7, CallerTyped DEF ReadCount
<1>8. ASSUME NEW c \in Callers, WriteCount(c) PROVE CountBelowThreshold'
  BY <1>8, CallerTyped DEF WriteCount
<1>9. ASSUME NEW c \in Callers, TestCount(c) PROVE CountBelowThreshold'
  BY <1>9, CallerTyped DEF TestCount, Timed, TypeOK
<1>10. ASSUME NEW c \in Callers, OpenCircuit(c) PROVE CountBelowThreshold'
  BY <1>10, CallerTyped DEF OpenCircuit
<1>11. CASE UNCHANGED vars BY <1>11 DEF vars
<1> QED BY <1>1, <1>2, <1>3, <1>4, <1>5, <1>6, <1>7, <1>8, <1>9, <1>10, <1>11
        DEF Next, GetMLPrediction

(* However the increments, tests and resets of the goroutines interleave    *)
(* (ml_policy.go:186, 200-203), a count that has reached the threshold is   *)
(* about to be reset by one of them.                                        *)
THEOREM CounterReset == Spec => []CountBelowThreshold
<1>1. Init => CountBelowThreshold BY DurationAssumption DEF Init, CountBelowThreshold
<1> QED BY <1>1, CountStep, AlwaysTimed, PTL DEF Spec
-----------------------------------------------------------------------------
(* The recorded steps are steps of the policy.                              *)

LEMMA Recorded == [HistoryNext]_historyVars => [Next]_vars
BY DEF HistoryNext, historyVars, Next, GetMLPrediction

LEMMA HistoryTimed == HistorySpec => []Timed
<1>1. HistoryInit => Timed BY TimedInit DEF HistoryInit
<1> QED BY <1>1, Recorded, TimedStep, PTL DEF HistorySpec
-----------------------------------------------------------------------------
(* The requests of a goroutine.                                             *)

(* A request went out at most lag after the time that lastCall shows; and a *)
(* caller that passed the test has read a time a cooldown after that.       *)
Spacing ==
  /\ sent \in [Callers -> Int] /\ lag \in Nat
  /\ \A c \in Callers : sent[c] <= now /\ sent[c] <= lastCall + lag
  /\ \A c \in Callers : pc[c] = "stamp" => read[c] >= sent[c] + Cooldown - lag

LEMMA SpacingInit == HistoryInit => Spacing
BY DurationAssumption DEF HistoryInit, Init, Spacing

LEMMA SpacingStep == Timed /\ Spacing /\ [HistoryNext]_historyVars => Spacing'
<1> SUFFICES ASSUME Timed, Spacing, [HistoryNext]_historyVars PROVE Spacing' OBVIOUS
<1> USE DurationAssumption DEF Spacing, Timed, TypeOK, Stamps, fields, requests
<1>1. CASE Tick /\ UNCHANGED requests BY <1>1 DEF Tick
<1>2. ASSUME NEW c \in Callers, CheckBreaker(c), UNCHANGED requests PROVE Spacing'
  BY <1>2, CallerTyped DEF CheckBreaker
<1>3. ASSUME NEW c \in Callers, CheckCooldown(c), UNCHANGED requests PROVE Spacing'
  BY <1>3, CallerTyped, CallerReads DEF CheckCooldown
<1>4. ASSUME NEW c \in Callers, StartRequest(c), Sent(c) PROVE Spacing'
  <2>1. lag' \in Nat /\ lag' >= lag /\ lag' >= now - read[c]
    BY <1>4 DEF StartRequest, Sent
  <2>2. /\ sent' \in [Callers -> Int] /\ sent'[c] = now
        /\ \A d \in Callers \ {c} : sent'[d] = sent[d]
    BY <1>4 DEF Sent
  <2> QED BY <1>4, <2>1, <2>2, CallerTyped DEF StartRequest
<1>5. ASSUME NEW c \in Callers, Predicted(c) \/ Useless(c) \/ Failed(c), UNCHANGED requests
      PROVE  Spacing'
  BY <1>5, CallerTyped DEF Predicted, Useless, Failed
<1>6. ASSUME NEW c \in Callers, ReadCount(c), UNCHANGED requests PROVE Spacing'
  BY <1>6, CallerTyped, CallerReads DEF ReadCount
<1>7. ASSUME NEW c \in Callers, UNCHANGED requests,
             WriteCount(c) \/ TestCount(c) \/ OpenCircuit(c) \/ ResetCount(c)
      PROVE  Spacing'
  BY <1>7, CallerTyped DEF WriteCount, TestCount, OpenCircuit, ResetCount
<1>8. CASE UNCHANGED historyVars BY <1>8 DEF historyVars, vars
<1> QED BY <1>1, <1>2, <1>3, <1>4, <1>5, <1>6, <1>7, <1>8 DEF HistoryNext

(* For any number of goroutines that test and stamp lastCall without a lock *)
(* (ml_policy.go:110, 115), each of them leaves a cooldown between its own  *)
(* requests, less the longest time between a test and its stamp.            *)
THEOREM CooldownSafe == HistorySpec => OwnCallsSpaced
<1>1. Timed /\ Spacing /\ [HistoryNext]_historyVars => [Spaced]_historyVars
  <2> SUFFICES ASSUME Timed, Spacing, NEW c \in Callers, pc[c] = "stamp"
               PROVE  now - sent[c] >= Cooldown - lag
    BY DEF Spaced
  <2> QED BY DurationAssumption DEF Timed, TypeOK, Stamps, Spacing
<1> QED BY <1>1, HistoryTimed, SpacingInit, SpacingStep, PTL DEF HistorySpec, OwnCallsSpaced
-----------------------------------------------------------------------------
(* A series of failures.                                                    *)

(* A series has one caller at a time record its failures, and the counter   *)
(* has each of them or is about to get it.                                  *)
Counted ==
  /\ serial \in Nat
  /\ serial > 0 => \A c, d \in Callers : {pc[c], pc[d]} \subseteq Recording => c = d
  /\ (\A c \in Callers : pc[c] \notin Recording) => consecutiveErr >= serial
  /\ \A c \in Callers : /\ pc[c] = "count" => consecutiveErr + 1 >= serial
                        /\ pc[c] = "increment" => read[c] + 1 >= serial
                        /\ pc[c] = "test" => consecutiveErr >= serial

(* The circuit is open for as long as the series demands, or someone is     *)
(* about to open it for that long.                                          *)
Opened ==
  /\ due \in Int /\ due <= now + OpenFor
  /\ due <= circuitOpenTil \/ \E c \in Callers : pc[c] = "open"

LEMMA SeriesInit == HistoryInit => Counted /\ Opened
BY DurationAssumption DEF HistoryInit, Init, Counted, Opened, Recording

LEMMA CountedStep == Timed /\ Counted /\ [HistoryNext]_historyVars => Counted'
<1> SUFFICES ASSUME Timed, Counted, [HistoryNext]_historyVars PROVE Counted' OBVIOUS
<1> USE DurationAssumption DEF Counted, Recording, Timed, TypeOK, fields, series
<1>1. CASE Tick /\ UNCHANGED series BY <1>1 DEF Tick
<1>2. ASSUME NEW c \in Callers, CheckBreaker(c) \/ Useless(c), UNCHANGED series PROVE Counted'
  BY <1>2, CallerTyped DEF CheckBreaker, Useless
<1>3. ASSUME NEW c \in Callers, CheckCooldown(c), UNCHANGED series PROVE Counted'
  BY <1>3, CallerTyped, CallerReads DEF CheckCooldown
<1>4. ASSUME NEW c \in Callers, StartRequest(c), UNCHANGED series PROVE Counted'
  BY <1>4, CallerTyped DEF StartRequest
<1>5. ASSUME NEW c \in Callers, Predicted(c) \/ ResetCount(c), serial' = 0 PROVE Counted'
  BY <1>5, CallerTyped DEF Predicted, ResetCount
<1>6. ASSUME NEW c \in Callers, Failed(c), serial' = IF Continues(c) THEN serial + 1 ELSE 0
      PROVE  Counted'
  BY <1>6, CallerTyped DEF Failed, Continues
<1>7. ASSUME NEW c \in Callers, ReadCount(c), UNCHANGED series PROVE Counted'
  BY <1>7, CallerTyped, CallerReads DEF ReadCount
<1>8. ASSUME NEW c \in Callers, WriteCount(c), UNCHANGED series PROVE Counted'
  BY <1>8, CallerTyped DEF WriteCount
<1>9. ASSUME NEW c \in Callers, TestCount(c), UNCHANGED serial PROVE Counted'
  BY <1>9, CallerTyped DEF TestCount
<1>10. ASSUME NEW c \in Callers, OpenCircuit(c), UNCHANGED series PROVE Counted'
  BY <1>10, CallerTyped DEF OpenCircuit
<1>11. CASE UNCHANGED historyVars BY <1>11 DEF historyVars, vars
<1> QED BY <1>1, <1>2, <1>3, <1>4, <1>5, <1>6, <1>7, <1>8, <1>9, <1>10, <1>11 DEF HistoryNext

LEMMA OpenedStep == Timed /\ Counted /\ Opened /\ [HistoryNext]_historyVars => Opened'
<1> SUFFICES ASSUME Timed, Counted, Opened, [HistoryNext]_historyVars PROVE Opened' OBVIOUS
<1> USE DurationAssumption DEF Opened, Timed, TypeOK, fields, series
<1>1. CASE Tick /\ UNCHANGED series BY <1>1 DEF Tick
<1>2. ASSUME NEW c \in Callers, UNCHANGED due,
             CheckBreaker(c) \/ CheckCooldown(c) \/ StartRequest(c)
      PROVE  Opened'
  BY <1>2, CallerTyped DEF CheckBreaker, CheckCooldown, StartRequest
<1>3. ASSUME NEW c \in Callers, UNCHANGED due, Predicted(c) \/ Useless(c) \/ Failed(c)
      PROVE  Opened'
  BY <1>3, CallerTyped DEF Predicted, Useless, Failed
<1>4. ASSUME NEW c \in Callers, UNCHANGED due, ReadCount(c) \/ WriteCount(c) \/ ResetCount(c)
      PROVE  Opened'
  BY <1>4, CallerTyped DEF ReadCount, WriteCount, ResetCount
<1>5. ASSUME NEW c \in Callers, TestCount(c),
             due' = IF serial >= Threshold THEN now + OpenFor ELSE due
      PROVE  Opened'
  <2>1. CASE serial >= Threshold
    <3>1. consecutiveErr >= Threshold BY <1>5, <2>1 DEF TestCount, Counted
    <3> QED BY <1>5, <2>1, <3>1, CallerTyped DEF TestCount
  <2>2. CASE ~(serial >= Threshold) BY <1>5, <2>2, CallerTyped DEF TestCount
  <2> QED BY <2>1, <2>2
<1>6. ASSUME NEW c \in Callers, OpenCircuit(c), UNCHANGED series PROVE Opened'
  BY <1>6 DEF OpenCircuit
<1>7. CASE UNCHANGED historyVars BY <1>7 DEF historyVars, vars
<1> QED BY <1>1, <1>2, <1>3, <1>4, <1>5, <1>6, <1>7 DEF HistoryNext

(* For any number of goroutines: failures that are recorded one after the   *)
(* other lose no increment (ml_policy.go:200), so as many as the threshold  *)
(* keep every call from the network for the ten seconds.                    *)
THEOREM BreakerSafe == HistorySpec => SeriesTrips
<1>1. Timed /\ Opened /\ [HistoryNext]_historyVars => [Breaks]_historyVars
  <2> SUFFICES ASSUME Timed, Opened, HistoryNext, \A d \in Callers : pc[d] # "open",
                      NEW c \in Callers, pc[c] = "idle", pc'[c] = "cooldown"
               PROVE  now >= due
    BY DEF Breaks
  <2>1. CheckBreaker(c)
    BY CallerTyped
    DEF HistoryNext, Tick, CheckBreaker, CheckCooldown, StartRequest, Predicted, Useless,
        Failed, ReadCount, WriteCount, TestCount, OpenCircuit, ResetCount
  <2>2. now >= circuitOpenTil BY <2>1, CallerTyped DEF CheckBreaker, Timed, TypeOK
  <2> QED BY <2>2 DEF Opened, Timed, TypeOK
<1>2. HistorySpec => [](Counted /\ Opened)
  BY SeriesInit, HistoryTimed, CountedStep, OpenedStep, PTL DEF HistorySpec
<1> QED BY <1>1, <1>2, HistoryTimed, PTL DEF HistorySpec, SeriesTrips
=============================================================================
