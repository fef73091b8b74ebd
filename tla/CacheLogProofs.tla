--------------------------- MODULE CacheLogProofs ---------------------------
(* The persistence of a cache node: write-ahead logging, recovery from the  *)
(* log, and the copy of the cache in Badger.                                *)
EXTENDS CacheProofs, CacheReplay

-----------------------------------------------------------------------------
SetLogged(key, val) ==
  \E i \in DOMAIN wal : wal[i].op = "set" /\ wal[i].key = key /\ wal[i].val = val

(* The last entry about a key is the one just appended.                     *)
LEMMA AppendedLast ==
  ASSUME wal \in Seq(Entries), NEW entry \in Entries, wal' = Append(wal, entry)
  PROVE  /\ LoggedLast(entry.key, entry.op)'
         /\ entry.op = "set" => SetLogged(entry.key, entry.val)'
         /\ \A key, val : SetLogged(key, val) => SetLogged(key, val)'
<1> DEFINE n == Len(wal) + 1
<1>1. n \in DOMAIN wal' /\ wal'[n] = entry /\ DOMAIN wal' = 1..n OBVIOUS
<1>2. \A i \in DOMAIN wal : i \in DOMAIN wal' /\ wal'[i] = wal[i] OBVIOUS
<1>3. DOMAIN wal = 1..Len(wal) /\ Len(wal) \in Nat OBVIOUS
<1> DEFINE about == {i \in DOMAIN wal' : wal'[i].key = entry.key}
<1>4. n \in about /\ \A j \in about : j <= n BY <1>1, <1>3
<1>5. \A i \in about : (\A j \in about : j <= i) => i = n
  <2> SUFFICES ASSUME NEW i \in about, \A j \in about : j <= i PROVE i = n OBVIOUS
  <2>1. n <= i /\ i <= n BY <1>4
  <2>2. i \in Nat /\ n \in Nat BY <1>1, <1>3
  <2> QED BY <2>1, <2>2
<1>6. (CHOOSE i \in about : \A j \in about : j <= i) = n BY <1>4, <1>5
<1>7. LastEntry(entry.key)' = entry BY <1>1, <1>6 DEF LastEntry
<1>8. LoggedLast(entry.key, entry.op)' BY <1>1, <1>7 DEF LoggedLast
<1>9. entry.op = "set" => SetLogged(entry.key, entry.val)' BY <1>1 DEF SetLogged
<1>10. \A key, val : SetLogged(key, val) => SetLogged(key, val)' BY <1>2 DEF SetLogged
<1> QED BY <1>8, <1>9, <1>10

(* The entry of what the call in flight is about to do is in the log.       *)
Ahead ==
  ~recovering =>
    /\ pc = "reserve" \/ Pending => SetLogged(op.key, op.val)
    /\ pc = "unlink" => LoggedLast(del.key, "delete")

(* Every step keeps the log ahead of the memory.                            *)
LEMMA AheadStep == Sound /\ Ahead /\ [Next]_vars => Ahead'
<1> SUFFICES ASSUME Sound, Ahead, [Next]_vars, ~recovering' PROVE Ahead' BY DEF Ahead
<1> USE DEF Pending, Evicting, LoopPCs, DeletePCs
<1>0. /\ Typed /\ Calls /\ wal \in Seq(Entries) /\ Seeking
      /\ recovering => pc' = "idle"
  BY ReplayFrame
  DEF Sound, Typed, TypeOK, StorageTyped, ReplayEntry, FinishRecovery, Crash, FreshProcess
<1>1. CASE recovering BY <1>0, <1>1 DEF Ahead
<1>2. CASE ~recovering
  <2>1. ASSUME UNCHANGED <<op, log>>, pc' # "unlink", pc' # "reserve",
               Pending' => Pending \/ pc = "reserve"
        PROVE  Ahead'
    BY <1>2, <2>1 DEF Ahead, SetLogged, log
  <2>2. ASSUME NEW by \in Callers, NEW key \in Keys, NEW val \in Values,
               NEW ttl \in {"none", "subsecond", "seconds"}, SetWithTTL(by, key, val, ttl)
        PROVE  Ahead'
    <3>1. op'.key = key /\ op'.val = val BY <2>2 DEF SetWithTTL
    <3>2. CASE pc' = "error" BY <3>2 DEF Ahead
    <3>3. CASE pc' = "reserve" /\ Logged(SetEntry(key, val, ttl))
      <4>1. SetEntry(key, val, ttl) \in Entries BY DEF SetEntry, LoggedTTL, Entries
      <4>2. wal' = Append(wal, SetEntry(key, val, ttl)) BY <1>2, <3>3 DEF Logged
      <4>3. SetLogged(key, val)' BY <1>0, <4>1, <4>2, AppendedLast DEF SetEntry
      <4> QED BY <3>1, <3>3, <4>3 DEF Ahead
    <3> QED BY <2>2, <3>2, <3>3 DEF SetWithTTL
  <2>3. ASSUME NEW by \in Callers, NEW key \in Keys \cup {NoKey}, Delete(by, key) PROVE Ahead'
    BY <2>3 DEF Delete, Ahead
  <2>4. CASE Reserve BY <2>1, <2>4 DEF Reserve
  <2>5. CASE Insert BY <2>1, <2>5 DEF Insert
  <2>6. CASE Store BY <2>1, <2>6 DEF Store
  <2>7. CASE Trigger BY <2>1, <2>7 DEF Trigger, Eviction
  <2>8. CASE ChooseVictim
    <3>1. CASE EvictionEnds BY <2>1, <2>8, <3>1 DEF ChooseVictim, EvictionEnds
    <3>2. CASE pc' = "attempt" /\ UNCHANGED ev BY <2>1, <2>8, <3>2 DEF ChooseVictim
    <3> QED BY <2>8, <3>1, <3>2, ChooseVictimChooses
  <2>9. CASE Attempt
    <3>1. CASE pc' = "verify" /\ ev'.proactive = ev.proactive
      BY <2>1, <2>9, <3>1 DEF Attempt
    <3>2. CASE pc' \in {"ok", "error"} BY <2>1, <2>9, <3>2 DEF Attempt
    <3> QED BY <2>9, <3>1, <3>2, AttemptDoes
  <2>10. CASE Verify
    <3>1. CASE pc' = "log" /\ ev' = ev BY <2>1, <2>10, <3>1 DEF Verify
    <3>2. CASE pc' \in {"ok", "error"} BY <2>1, <2>10, <3>2 DEF Verify
    <3> QED BY <2>10, <3>1, <3>2, VerifyDoes
  <2>11. ASSUME pc \in DeletePCs, NEW success \in BOOLEAN, DeleteReturns(success), op' = op
         PROVE  pc' # "unlink" /\ pc' # "reserve" /\ (Pending' => Pending)
    <3>1. ev'.proactive = ev.proactive
      BY <1>0, <2>11 DEF DeleteReturns, Typed, TypeOK, CallTyped, Evictions
    <3> QED BY <2>11, <3>1 DEF DeleteReturns
  <2>12. CASE LogDelete
    <3>1. op' = op /\ pc \in DeletePCs BY <2>12 DEF LogDelete
    <3>2. CASE Logged(DeleteEntry(del.key)) /\ pc' = "unlink" /\ UNCHANGED <<ev, del>>
      <4>1. DeleteEntry(del.key) \in Entries BY <1>0 DEF Typed, TypeOK, CallTyped, DeleteEntry, Entries
      <4>2. wal' = Append(wal, DeleteEntry(del.key)) BY <1>2, <3>2 DEF Logged
      <4>3. PICK entry \in Entries : entry = DeleteEntry(del.key) BY <4>1
      <4>4. LoggedLast(entry.key, entry.op)' /\ \A key, val : SetLogged(key, val) => SetLogged(key, val)'
        BY <1>0, <4>2, <4>3, AppendedLast
      <4>5. LoggedLast(del.key, "delete")'
        <5>1. entry.key = del.key /\ entry.op = "delete" BY <4>3 DEF DeleteEntry
        <5> QED BY <3>2, <4>4, <5>1 DEF LoggedLast, LastEntry
      <4>6. Pending' => Pending BY <2>12, <3>2 DEF LogDelete
      <4> QED BY <1>2, <3>1, <3>2, <4>4, <4>5, <4>6 DEF Ahead, SetLogged
    <3>3. CASE LogFails /\ DeleteReturns(FALSE)
      <4>1. wal' = wal BY <3>3 DEF LogFails
      <4>2. pc' # "unlink" /\ pc' # "reserve" /\ (Pending' => Pending)
        BY <3>1, <3>3, <2>11
      <4> QED BY <1>2, <3>1, <4>1, <4>2 DEF Ahead, SetLogged
    <3> QED BY <2>12, <3>2, <3>3 DEF LogDelete
  <2>13. CASE Unlink
    <3>1. op' = op /\ UNCHANGED log /\ pc \in DeletePCs BY <2>13 DEF Unlink
    <3>2. CASE DeleteReturns(TRUE) BY <3>1, <3>2, <2>11, <2>1
    <3>3. CASE pc' = "purge" /\ UNCHANGED <<ev, del>> BY <2>1, <2>13, <3>1, <3>3 DEF Unlink
    <3> QED BY <2>13, <3>2, <3>3 DEF Unlink
  <2>14. CASE Purge
    <3>1. op' = op /\ UNCHANGED log /\ pc \in DeletePCs BY <2>14 DEF Purge
    <3>2. DeleteReturns(TRUE) \/ DeleteReturns(FALSE) BY <2>14 DEF Purge
    <3> QED BY <3>1, <3>2, <2>11, <2>1
  <2>15. CASE Return BY <2>15 DEF Return, Ahead
  <2>16. CASE Crash BY <2>16 DEF Crash, FreshProcess, Ahead
  <2>17. CASE Aside
    BY <1>2, <2>17 DEF Aside, Ahead, SetLogged, LoggedLast, LastEntry, log
  <2>18. CASE CloseLog
    BY <1>2, <2>18 DEF CloseLog, Ahead, SetLogged, LoggedLast, LastEntry
  <2> QED BY <1>0, <2>2, <2>3, <2>4, <2>5, <2>6, <2>7, <2>8, <2>9, <2>10, <2>12, <2>13,
             <2>14, <2>15, <2>16, <2>17, <2>18, CallFrame DEF Writer
<1> QED BY <1>1, <1>2

(* Before the first write nothing is cached and nothing logged.             *)
LEMMA AheadInit == Init => Ahead
BY DEF Init, Ahead

(* Write-ahead logging: whatever interleaves, fails or evicts, an item of a *)
(* running cache appears or changes its value only after its set entry, and *)
(* disappears only after a delete entry that nothing about it follows.      *)
THEOREM WriteAheadSafe == Spec => WriteAhead
<1> DEFINE Logs ==
      ~recovering /\ ~recovering' =>
        \A key \in Keys :
          /\ key \in Cached \ Cached' => LoggedLast(key, "delete")
          /\ key \in Cached' /\ (key \in Cached => items[key].val # items'[key].val)
               => \E i \in DOMAIN wal :
                    wal[i].op = "set" /\ wal[i].key = key /\ wal[i].val = items'[key].val
<1>1. ASSUME Sound, Ahead, [Next]_vars PROVE Logs
  <2> SUFFICES ASSUME ~recovering, ~recovering', NEW key \in Keys
               PROVE  /\ key \in Cached \ Cached' => LoggedLast(key, "delete")
                      /\ key \in Cached' /\ (key \in Cached => items[key].val # items'[key].val)
                           => SetLogged(key, items'[key].val)
    BY DEF SetLogged
  <2>1. CASE UNCHANGED items BY <2>1 DEF Cached
  <2>2. CASE Insert
    <3>1. SetLogged(op.key, op.val) BY <1>1, <2>2 DEF Ahead, Insert, Pending
    <3>2. /\ Cached' = Cached \cup {op.key} /\ items'[op.key].val = op.val
          /\ \A k \in Cached \ {op.key} : items'[k] = items[k]
      BY <2>2 DEF Insert, EnterItem, With, Cached
    <3> QED BY <3>1, <3>2
  <2>3. CASE Unlink
    <3>1. LoggedLast(del.key, "delete") BY <1>1, <2>3 DEF Ahead, Unlink
    <3>2. \/ UNCHANGED items
          \/ Cached' = Cached \ {del.key} /\ \A k \in Cached' : items'[k] = items[k]
      BY <2>3 DEF Unlink, DropItem, Without, Cached, memory
    <3> QED BY <2>1, <3>1, <3>2
  <2>4. ASSUME NEW k \in Keys, Get(k) \/ Expire(k)
        PROVE  Cached' = Cached /\ \A j \in Cached : items'[j].val = items[j].val
    BY <1>1, <2>4 DEF Get, Expire, Cached, Sound, Typed, TypeOK, MemoryTyped
  <2>5. Reserve \/ Attempt => UNCHANGED items BY DEF Reserve, Attempt
  <2>6. UNCHANGED memory => UNCHANGED items BY DEF memory
  <2>7. ~Crash BY DEF Crash, FreshProcess
  <2> QED BY <1>1, <2>1, <2>2, <2>3, <2>4, <2>5, <2>6, <2>7, MemoryFrame
<1>2. Sound /\ Ahead /\ [Next]_vars => [Logs]_vars BY <1>1
<1> HIDE DEF Logs
<1> QED BY AlwaysSound, AheadInit, AheadStep, <1>2, PTL DEF Spec, WriteAhead, Logs
-----------------------------------------------------------------------------
(* During recovery the call in flight is the entry replayed last, and no    *)
(* worker has anything to do.                                               *)
Replaying ==
  recovering =>
    /\ sweep = {} /\ ml.phase = "idle"
    /\ next <= Len(wal) + 1
    /\ pc \in {"reserve", "insert", "store", "trigger"} \/ Evicting =>
         next > 1 /\ wal[next - 1].op = "set"
    /\ pc = "reserve" \/ Pending => wal[next - 1].key = op.key /\ wal[next - 1].val = op.val
    /\ pc \in DeletePCs /\ ~del.evicting => next > 1 /\ wal[next - 1] = DeleteEntry(del.key)

(* A process that has replayed nothing has rebuilt nothing.                 *)
LEMMA ReplayingInit == Init => Replaying
<1> SUFFICES ASSUME Init PROVE Replaying OBVIOUS
<1>1. Len(<<>>) = 0 OBVIOUS
<1> QED BY <1>1 DEF Init, Replaying, IdleML, Pending, Evicting, LoopPCs, DeletePCs

(* Only the loader calls during recovery, and it writes no log.             *)
LEMMA RecoveryFrame ==
  ASSUME Typed, [Next]_vars, recovering, recovering', sweep = {}, ml.phase = "idle"
  PROVE  /\ Crash \/ ReplayEntry \/ (UNCHANGED next /\ (Writer \/ Aside))
         /\ wal' = wal /\ sweep' = {} /\ ml'.phase = "idle"
<1> USE DEF workers
<1>1. CASE Crash BY <1>1 DEF Crash, FreshProcess, IdleML
<1>2. CASE ReplayEntry
  BY <1>2 DEF ReplayEntry, SetWithTTL, Delete, Logged, LogFails, log
<1>3. CASE Writer
  <2>1. UNCHANGED next BY <1>3, ReplayFrame, Zenon DEF Writer, process, Reserve, Insert, Store,
    Trigger, ChooseVictim, Attempt, Verify, LogDelete, Unlink, Purge, Return
  <2>2. UNCHANGED <<ml, sweep>> BY <1>3, Zenon DEF Writer, Reserve, Insert, Store,
    Trigger, ChooseVictim, Attempt, Verify, LogDelete, Unlink, Purge, Return
  <2>3. wal' = wal BY <1>3, Zenon DEF Writer, log, Logged, LogFails, Reserve, Insert, Store,
    Trigger, ChooseVictim, Attempt, Verify, LogDelete, Unlink, Purge, Return
  <2> QED BY <1>3, <2>1, <2>2, <2>3
<1>4. ~StopWorkers /\ ~CloseLog /\ ~ClientSet /\ ~ClientDelete /\ ~TriggerMLEviction /\ ~SweepCollect /\ ~SweepDelete
      /\ ~MLWorker /\ ~TakeSnapshot /\ ~FinishRecovery /\ ~\E key \in Keys : Get(key)
  BY DEF Typed, Others, StopWorkers, CloseLog,
         ClientSet, ClientDelete, TriggerMLEviction, SweepCollect, SweepDelete, MLWorker,
         MLTake, MLPredict, MLFallback, MLBaseChoice, MLDelete, TakeSnapshot,
         FinishRecovery, Get
<1>5. ASSUME NEW key \in Keys, Expire(key)
      PROVE  UNCHANGED next /\ Aside /\ wal' = wal /\ UNCHANGED <<ml, sweep>>
  <2>1. Cached' = Cached /\ \A k \in Cached : items'[k].val = items[k].val
    BY <1>5 DEF Expire, Cached, Typed, TypeOK, MemoryTyped
  <2> QED BY <1>5, <2>1 DEF Expire, Aside, log, process
<1>6. CASE UNCHANGED vars BY <1>6 DEF vars, memory, Cached, Aside, log, process
<1> QED BY <1>1, <1>2, <1>3, <1>4, <1>5, <1>6 DEF Next

(* Each step of the loader's calls keeps to the entry they were made for.   *)
LEMMA ReplayingStep == Sound /\ Replaying /\ [Next]_vars => Replaying'
<1> SUFFICES ASSUME Sound, Replaying, [Next]_vars, recovering' PROVE Replaying'
  BY DEF Replaying
<1> USE DEF Pending, Evicting, LoopPCs, DeletePCs
<1>0. /\ Typed /\ Calls /\ Seeking /\ wal \in Seq(Entries) /\ next \in Nat \ {0}
      /\ Len(wal) \in Nat
  BY DEF Sound, Typed, TypeOK, StorageTyped, WorkersTyped
<1>1. CASE Crash BY <1>0, <1>1 DEF Crash, FreshProcess, IdleML, Replaying
<1>2. ~Crash => recovering BY ReplayFrame DEF FinishRecovery, ReplayEntry
<1>3. ~Crash => /\ ReplayEntry \/ (UNCHANGED next /\ (Writer \/ Aside))
                /\ wal' = wal /\ sweep' = {} /\ ml'.phase = "idle"
  BY <1>0, <1>2, RecoveryFrame DEF Replaying
<1>4. CASE ReplayEntry /\ ~Crash
  <2>0. pc = "idle" /\ recovering /\ next <= Len(wal) /\ next' = next + 1
    BY <1>4 DEF ReplayEntry, SetWithTTL, Delete
  <2>1. wal[next] \in Entries BY <1>0, <2>0
  <2>2. next' - 1 = next BY <1>0, <2>0
  <2>3. CASE wal[next].op = "set" /\ SetWithTTL("loader", wal[next].key, wal[next].val, wal[next].ttl)
    <3>1. pc' \in {"error", "reserve"} BY <2>3 DEF SetWithTTL
    <3>2. op'.key = wal[next].key /\ op'.val = wal[next].val BY <2>3 DEF SetWithTTL
    <3>3. next' > 1 /\ next' <= Len(wal) + 1 BY <1>0, <2>0
    <3> QED BY <1>3, <1>4, <2>2, <2>3, <3>1, <3>2, <3>3 DEF Replaying
  <2>4. CASE wal[next].op # "set" /\ Delete("loader", wal[next].key)
    <3>1. pc' = "log" /\ del'.key = wal[next].key /\ ~del'.evicting BY <2>4 DEF Delete
    <3>2. wal[next] = DeleteEntry(wal[next].key) BY <2>1, <2>4 DEF Entries, DeleteEntry
    <3>3. next' > 1 /\ next' <= Len(wal) + 1 BY <1>0, <2>0
    <3>4. wal'[next' - 1] = DeleteEntry(del'.key)
      <4>1. wal'[next' - 1] = wal[next] BY <1>3, <1>4, <2>2
      <4> QED BY <3>1, <3>2, <4>1
    <3>5. DeleteEntry(del.key)' = DeleteEntry(del'.key) BY DEF DeleteEntry
    <3> QED BY <1>3, <1>4, <3>1, <3>3, <3>4, <3>5 DEF Replaying
  <2> QED BY <1>4, <2>3, <2>4 DEF ReplayEntry
<1>5. CASE UNCHANGED next /\ Aside /\ ~Crash
  BY <1>2, <1>3, <1>5 DEF Aside, Replaying, DeleteEntry
<1>6. ASSUME recovering, UNCHANGED <<wal, next, op>>, sweep' = {}, ml'.phase = "idle",
             pc' \in {"store", "trigger"} \/ Evicting' =>
               pc \in {"reserve", "insert", "store", "trigger"} \/ Evicting,
             Pending' => pc = "reserve" \/ Pending,
             pc' = "reserve" => pc = "reserve",
             pc' \in DeletePCs /\ ~del'.evicting => pc \in DeletePCs /\ ~del.evicting /\ del' = del
      PROVE  Replaying'
  BY <1>6 DEF Replaying, DeleteEntry
<1> HIDE DEF Pending
<1>7. ASSUME Writer, UNCHANGED next, ~Crash PROVE Replaying'
  <2>0. recovering /\ wal' = wal /\ next' = next /\ sweep' = {} /\ ml'.phase = "idle"
    BY <1>2, <1>3, <1>7
  <2>1. CASE Reserve BY <2>0, <2>1, <1>6 DEF Reserve, Pending, Eviction
  <2>2. CASE Insert BY <2>0, <2>2, <1>6 DEF Insert, Pending
  <2>3. CASE Store BY <2>0, <2>3, <1>6 DEF Store, Pending
  <2>4. CASE Trigger BY <2>0, <2>4, <1>6 DEF Trigger, Pending, Eviction
  <2>5. CASE ChooseVictim
    <3>1. CASE EvictionEnds BY <2>0, <2>5, <3>1, <1>6 DEF ChooseVictim, EvictionEnds, Pending
    <3>2. CASE pc' = "attempt" /\ UNCHANGED ev
      BY <2>0, <2>5, <3>2, <1>6 DEF ChooseVictim, Pending
    <3> QED BY <2>5, <3>1, <3>2, ChooseVictimChooses
  <2>6. CASE Attempt
    <3>1. CASE pc' = "verify" /\ ev'.proactive = ev.proactive
      BY <2>0, <2>6, <3>1, <1>6 DEF Attempt, Pending
    <3>2. CASE pc' \in {"ok", "error"} BY <2>0, <2>6, <3>2, <1>6 DEF Attempt, Pending
    <3> QED BY <2>6, <3>1, <3>2, AttemptDoes
  <2>7. CASE Verify
    <3>1. CASE pc' = "log" /\ ev' = ev /\ del'.evicting
      BY <2>0, <2>7, <3>1, <1>6 DEF Verify, Pending
    <3>2. CASE pc' \in {"ok", "error"} BY <2>0, <2>7, <3>2, <1>6 DEF Verify, Pending
    <3> QED BY <2>7, <3>1, <3>2, VerifyDoes
  <2>8. ASSUME pc \in DeletePCs, NEW success \in BOOLEAN, DeleteReturns(success), op' = op
        PROVE  Replaying'
    <3>1. ev'.proactive = ev.proactive
      BY <1>0, <2>8 DEF DeleteReturns, Typed, TypeOK, CallTyped, Evictions
    <3> QED BY <2>0, <2>8, <3>1, <1>6 DEF DeleteReturns, Pending
  <2>9. CASE LogDelete
    <3>1. op' = op /\ pc \in DeletePCs BY <2>9 DEF LogDelete
    <3>2. CASE DeleteReturns(FALSE) BY <3>1, <3>2, <2>8
    <3>3. CASE pc' = "unlink" /\ UNCHANGED <<ev, del>>
      BY <2>0, <2>9, <3>1, <3>3, <1>6 DEF LogDelete, Pending
    <3> QED BY <2>9, <3>2, <3>3 DEF LogDelete
  <2>10. CASE Unlink
    <3>1. op' = op /\ pc \in DeletePCs BY <2>10 DEF Unlink
    <3>2. CASE DeleteReturns(TRUE) BY <3>1, <3>2, <2>8
    <3>3. CASE pc' = "purge" /\ UNCHANGED <<ev, del>>
      BY <2>0, <2>10, <3>1, <3>3, <1>6 DEF Unlink, Pending
    <3> QED BY <2>10, <3>2, <3>3 DEF Unlink
  <2>11. CASE Purge
    <3>1. op' = op /\ pc \in DeletePCs BY <2>11 DEF Purge
    <3>2. DeleteReturns(TRUE) \/ DeleteReturns(FALSE) BY <2>11 DEF Purge
    <3> QED BY <3>1, <3>2, <2>8
  <2>12. CASE Return BY <2>0, <2>12 DEF Return, Replaying, Pending
  <2> QED BY <1>7, <2>1, <2>2, <2>3, <2>4, <2>5, <2>6, <2>7, <2>9, <2>10, <2>11, <2>12 DEF Writer
<1> QED BY <1>1, <1>3, <1>4, <1>5, <1>7

(* The entry an item stems from: a set that no replayed entry about the key *)
(* deletes again, but for the one being replayed.                           *)
Stems(key, val, i) ==
  /\ i \in 1..(next - 1) /\ i <= Len(wal)
  /\ wal[i].op = "set" /\ wal[i].key = key /\ wal[i].val = val
  /\ \A j \in (i + 1)..(next - 1) :
       wal[j] = DeleteEntry(key) => j = next - 1 /\ pc \in {"log", "unlink"}

(* Every step of a recovery leaves only items that the replayed prefix      *)
(* accounts for.                                                            *)
LEMMA NoResurrectionStep ==
  Sound /\ Replaying /\ NoResurrection /\ [Next]_vars => NoResurrection'
<1> SUFFICES ASSUME Sound, Replaying, NoResurrection, [Next]_vars, recovering',
                    NEW key \in Cached'
             PROVE  \E i : Stems(key, items[key].val, i)'
  BY DEF NoResurrection, Stems
<1>0. /\ Typed /\ Calls /\ Seeking /\ wal \in Seq(Entries) /\ next \in Nat \ {0}
      /\ Len(wal) \in Nat
  BY DEF Sound, Typed, TypeOK, StorageTyped, WorkersTyped
<1>1. ~Crash
  <2>1. Crash => DOMAIN items' = {}
    <3>1. DOMAIN <<>> = {} OBVIOUS
    <3> QED BY <3>1 DEF Crash, FreshProcess
  <2> QED BY <2>1 DEF Cached
<1>2. recovering BY <1>1, ReplayFrame DEF FinishRecovery, ReplayEntry
<1>3. /\ ReplayEntry \/ (UNCHANGED next /\ (Writer \/ Aside))
      /\ wal' = wal
  BY <1>0, <1>1, <1>2, RecoveryFrame DEF Replaying
<1>4. \A k \in Cached : \E i : Stems(k, items[k].val, i)
  BY <1>2 DEF NoResurrection, Stems
<1>5. ASSUME key \in Cached, items'[key].val = items[key].val, UNCHANGED next,
             pc' \in {"log", "unlink"} \/ (next > 1 => wal[next - 1] # DeleteEntry(key))
                \/ pc \notin {"log", "unlink"}
      PROVE  \E i : Stems(key, items[key].val, i)'
  <2>1. PICK i : Stems(key, items[key].val, i) BY <1>4, <1>5
  <2>2. \A j \in (i + 1)..(next - 1) :
          wal[j] = DeleteEntry(key) => j = next - 1 /\ pc' \in {"log", "unlink"}
    BY <1>0, <1>5, <2>1 DEF Stems
  <2>3. Stems(key, items[key].val, i)' BY <1>3, <1>5, <2>1, <2>2 DEF Stems, DeleteEntry
  <2> QED BY <2>3
<1>6. CASE ReplayEntry
  <2>1. /\ pc = "idle" /\ next <= Len(wal) /\ next' = next + 1 /\ items' = items
        /\ wal[next].op # "set" => pc' = "log"
    BY <1>6 DEF ReplayEntry, SetWithTTL, Delete, memory
  <2>2. PICK i : Stems(key, items[key].val, i) BY <1>4, <2>1 DEF Cached
  <2>3. \A j \in (i + 1)..(next' - 1) :
          wal[j] = DeleteEntry(key) => j = next' - 1 /\ pc' \in {"log", "unlink"}
    <3> SUFFICES ASSUME NEW j \in (i + 1)..(next' - 1), wal[j] = DeleteEntry(key)
                 PROVE  j = next' - 1 /\ pc' \in {"log", "unlink"}
      OBVIOUS
    <3>1. i \in Nat BY <1>0, <2>2 DEF Stems
    <3>2. j \notin (i + 1)..(next - 1) BY <2>1, <2>2 DEF Stems
    <3>3. j = next BY <1>0, <2>1, <3>1, <3>2
    <3> QED BY <1>0, <2>1, <3>3 DEF DeleteEntry
  <2>4. i \in 1..(next' - 1) BY <1>0, <2>1, <2>2 DEF Stems
  <2>5. Stems(key, items[key].val, i)' BY <1>3, <2>1, <2>2, <2>3, <2>4 DEF Stems, DeleteEntry
  <2> QED BY <2>5
<1>7. CASE UNCHANGED next /\ Aside
  BY <1>5, <1>7 DEF Aside
<1>8. CASE UNCHANGED next /\ Writer
  <2>1. CASE Insert
    <3>1. /\ Cached' = Cached \cup {op.key} /\ items'[op.key].val = op.val
          /\ \A k \in Cached \ {op.key} : items'[k] = items[k]
      BY <2>1 DEF Insert, EnterItem, With, Cached
    <3>2. CASE key = op.key
      <4>1. next > 1 /\ wal[next - 1].op = "set" /\ wal[next - 1].key = op.key
            /\ wal[next - 1].val = op.val /\ next <= Len(wal) + 1
        BY <1>2, <2>1 DEF Replaying, Pending, Insert
      <4>2. next - 1 \in 1..(next - 1) /\ next - 1 <= Len(wal)
            /\ ((next - 1) + 1)..(next - 1) = {}
        BY <1>0, <4>1
      <4>3. Stems(key, items[key].val, next - 1)' BY <1>3, <1>8, <3>1, <3>2, <4>1, <4>2 DEF Stems
      <4> QED BY <4>3
    <3>3. CASE key # op.key
      <4>1. key \in Cached /\ items'[key].val = items[key].val BY <3>1, <3>3
      <4> QED BY <1>5, <1>8, <2>1, <4>1 DEF Insert
    <3> QED BY <3>2, <3>3
  <2>2. CASE Unlink
    <3>1. /\ key \in Cached /\ items'[key] = items[key]
          /\ key # del.key
      <4>1. CASE del.key \in Cached
        BY <2>2, <4>1 DEF Unlink, DropItem, Without, Cached
      <4>2. CASE del.key \notin Cached BY <2>2, <4>2 DEF Unlink, memory, Cached
      <4> QED BY <4>1, <4>2
    <3>2. CASE del.evicting
      <4>1. wal[next - 1].op = "set"
        BY <1>2, <2>2, <3>2 DEF Replaying, Evicting, DeletePCs, Unlink
      <4> QED BY <1>5, <1>8, <3>1, <4>1 DEF DeleteEntry
    <3>3. CASE ~del.evicting
      <4>1. wal[next - 1] = DeleteEntry(del.key)
        BY <1>2, <2>2, <3>3 DEF Replaying, DeletePCs, Unlink
      <4> QED BY <1>5, <1>8, <3>1, <4>1 DEF DeleteEntry
    <3> QED BY <3>2, <3>3
  <2>3. CASE LogDelete
    <3>1. items' = items /\ pc' = "unlink"
      BY <1>2, <2>3 DEF LogDelete, LogFails, memory
    <3> QED BY <1>5, <1>8, <3>1 DEF Cached
  <2>4. CASE Reserve \/ Store \/ Trigger \/ ChooseVictim \/ Attempt \/ Verify \/ Purge \/ Return
    <3>1. items' = items
      BY <2>4, Zenon
      DEF Reserve, Store, Trigger, ChooseVictim, Attempt, Verify, Purge, Return, memory
    <3>2. pc \notin {"log", "unlink"}
      BY <2>4 DEF Reserve, Store, Trigger, ChooseVictim, Attempt, Verify, Purge, Return
    <3> QED BY <1>5, <1>8, <3>1, <3>2 DEF Cached
  <2> QED BY <1>8, <2>1, <2>2, <2>3, <2>4 DEF Writer
<1> QED BY <1>3, <1>6, <1>7, <1>8

(* Recovery resurrects nothing: at every point of the replay a cached item  *)
(* stems from a set entry that no later replayed entry deletes.             *)
THEOREM RecoverySafe == Spec => []NoResurrection
<1>1. Init => NoResurrection
  <2>1. DOMAIN <<>> = {} OBVIOUS
  <2> QED BY <2>1 DEF Init, NoResurrection, Cached
<1> QED BY <1>1, AlwaysSound, ReplayingInit, ReplayingStep, NoResurrectionStep, PTL DEF Spec
-----------------------------------------------------------------------------
(* Only a crash counts as one.                                              *)
LEMMA CrashesCounted == [Next]_vars => Crash \/ UNCHANGED crashes
BY Zenon
DEF Next, vars, Writer, MLWorker, Reserve, Insert, Store, Trigger, ChooseVictim, Attempt,
    Verify, LogDelete, Unlink, Purge, Return, ClientSet, ClientDelete, Get, Expire,
    TriggerMLEviction, SweepCollect, SweepDelete, TakeSnapshot, MLTake, MLPredict,
    MLFallback, MLBaseChoice, MLDelete, StopWorkers, CloseLog, ReplayEntry, FinishRecovery,
    process

(* The record keeps what it has until the process dies.                     *)
LEMMA RecordFrame ==
  ASSUME [ReplayNext]_replayVars
  PROVE  /\ [Next]_vars
         /\ ~Crash => exhausted \subseteq exhausted'
         /\ ~Crash /\ ~UNCHANGED vars /\ GivesUp => next - 1 \in exhausted'
<1>1. [Next]_vars BY DEF ReplayNext, replayVars
<1>2. ~Crash => UNCHANGED crashes BY <1>1, CrashesCounted
<1> QED BY <1>1, <1>2 DEF ReplayNext, Remember, replayVars

(* Entry i is the last of the first n to have made the item of key.         *)
Latest(key, i, n) ==
  /\ wal[i].op = "set" /\ wal[i].key = key /\ wal[i].val = items[key].val
  /\ wal[i].ttl = "none" <=> items[key].exp = "never"
  /\ \A j \in (i + 1)..n :
       wal[j].key = key =>
         wal[j].op = "set" /\ (Size[wal[j].val] > Capacity \/ j \in exhausted)

Accounted(key, n) == \E i \in 1..n : Latest(key, i, n)

(* The key whose entry is being replayed and has not taken effect yet.      *)
Settling ==
  IF pc = "reserve" \/ Pending THEN {op.key}
  ELSE IF pc \in {"log", "unlink"} /\ ~del.evicting THEN {del.key} ELSE {}

(* The strengthening: the entry being replayed counts for its key as soon   *)
(* as it is settled.                                                        *)
Rebuilding ==
  recovering =>
    /\ \A key \in Cached : Accounted(key, IF key \in Settling THEN next - 2 ELSE next - 1)
    /\ pc = "reserve" \/ Pending => wal[next - 1].ttl = op.ttl

(* An item that stays is accounted for as before.                           *)
LEMMA AccountedStays ==
  ASSUME NEW key, NEW n, Accounted(key, n), wal' = wal, exhausted \subseteq exhausted',
         items'[key].val = items[key].val,
         items'[key].exp = "never" <=> items[key].exp = "never"
  PROVE  Accounted(key, n)'
<1>1. PICK i \in 1..n : Latest(key, i, n) BY DEF Accounted
<1>2. Latest(key, i, n)' BY <1>1 DEF Latest
<1> QED BY <1>2 DEF Accounted

(* An entry that has no effect on an item is passed over.                   *)
LEMMA AccountedMore ==
  ASSUME NEW key, NEW n \in Nat, Accounted(key, n),
         wal[n + 1].key = key =>
           wal[n + 1].op = "set" /\ (Size[wal[n + 1].val] > Capacity \/ n + 1 \in exhausted)
  PROVE  Accounted(key, n + 1)
<1>1. PICK i \in 1..n : Latest(key, i, n) BY DEF Accounted
<1>2. ASSUME NEW j \in (i + 1)..(n + 1), wal[j].key = key
      PROVE  wal[j].op = "set" /\ (Size[wal[j].val] > Capacity \/ j \in exhausted)
  <2>1. j \in (i + 1)..n \/ j = n + 1 OBVIOUS
  <2> QED BY <1>1, <1>2, <2>1 DEF Latest
<1>3. Latest(key, i, n + 1) BY <1>1, <1>2 DEF Latest
<1>4. i \in 1..(n + 1) OBVIOUS
<1> QED BY <1>3, <1>4 DEF Accounted

(* Each step of a replay keeps what the entries so far have made of every   *)
(* cached key.                                                              *)
LEMMA RebuildingStep ==
  Sound /\ Replaying /\ Rebuilding /\ [ReplayNext]_replayVars => Rebuilding'
<1> SUFFICES ASSUME Sound, Replaying, Rebuilding, [ReplayNext]_replayVars, recovering'
             PROVE  Rebuilding'
  BY DEF Rebuilding
<1> USE DEF Pending, Evicting, LoopPCs, DeletePCs
<1>0. /\ Typed /\ Calls /\ Seeking /\ wal \in Seq(Entries) /\ next \in Nat \ {0}
      /\ Len(wal) \in Nat /\ ev \in Evictions /\ [Next]_vars
  BY RecordFrame DEF Sound, Typed, TypeOK, StorageTyped, CallTyped, WorkersTyped
<1>1. CASE Crash
  <2>1. DOMAIN items' = {} /\ pc' = "idle"
    <3>1. DOMAIN <<>> = {} OBVIOUS
    <3> QED BY <1>1, <3>1 DEF Crash, FreshProcess
  <2> QED BY <2>1 DEF Rebuilding, Cached
<1> SUFFICES ASSUME ~Crash PROVE Rebuilding' BY <1>1
<1>2. recovering BY <1>0, ReplayFrame DEF FinishRecovery, ReplayEntry
<1>3. ReplayEntry \/ (UNCHANGED next /\ (Writer \/ Aside))
  BY <1>0, <1>2, RecoveryFrame DEF Replaying
<1>4. wal' = wal /\ Alone /\ ~walBroken /\ exhausted \subseteq exhausted'
  BY <1>0, <1>2, RecoveryFrame, RecordFrame DEF Replaying, Alone, Typed, Others
<1>5. /\ \A key \in Cached : Accounted(key, IF key \in Settling THEN next - 2 ELSE next - 1)
      /\ pc = "reserve" \/ Pending => wal[next - 1].ttl = op.ttl
  BY <1>2 DEF Rebuilding
<1> HIDE DEF Pending
<1>6. ASSUME UNCHANGED next,
             \A key \in Cached' :
               /\ key \in Cached /\ items'[key].val = items[key].val
               /\ items'[key].exp = "never" <=> items[key].exp = "never"
               /\ key \in Settling' <=> key \in Settling,
             pc' = "reserve" \/ Pending' => op' = op /\ (pc = "reserve" \/ Pending)
      PROVE  Rebuilding'
  <2>1. ASSUME NEW key \in Cached'
        PROVE  Accounted(key, IF key \in Settling THEN next - 2 ELSE next - 1)'
    <3>1. ASSUME NEW n, Accounted(key, n) PROVE Accounted(key, n)'
      BY <1>4, <1>6, <2>1, <3>1, AccountedStays
    <3>2. CASE key \in Settling
      <4>1. Accounted(key, next - 2) BY <1>5, <1>6, <2>1, <3>2
      <4>2. PICK n : n = next - 2 OBVIOUS
      <4>3. Accounted(key, n)' BY <3>1, <4>1, <4>2
      <4>4. key \in Settling' /\ next' - 2 = n BY <1>6, <2>1, <3>2, <4>2
      <4> QED BY <4>3, <4>4 DEF Accounted, Latest
    <3>3. CASE key \notin Settling
      <4>1. Accounted(key, next - 1) BY <1>5, <1>6, <2>1, <3>3
      <4>2. PICK n : n = next - 1 OBVIOUS
      <4>3. Accounted(key, n)' BY <3>1, <4>1, <4>2
      <4>4. key \notin Settling' /\ next' - 1 = n BY <1>6, <2>1, <3>3, <4>2
      <4> QED BY <4>3, <4>4 DEF Accounted, Latest
    <3> QED BY <3>2, <3>3
  <2>2. pc' = "reserve" \/ Pending' => wal'[next' - 1].ttl = op'.ttl BY <1>4, <1>5, <1>6
  <2> QED BY <2>1, <2>2 DEF Rebuilding
<1>7. ASSUME UNCHANGED <<next, items, op>>, Settling' = Settling,
             pc' = "reserve" \/ Pending' => pc = "reserve" \/ Pending
      PROVE  Rebuilding'
  BY <1>6, <1>7 DEF Cached
<1>8. ASSUME Settling' = {}, ~(pc' = "reserve" \/ Pending'),
             \A key \in Cached' : Accounted(key, next - 1)'
      PROVE  Rebuilding'
  BY <1>8 DEF Rebuilding
<1>9. CASE ReplayEntry
  <2>0. /\ pc = "idle" /\ next <= Len(wal) /\ next' = next + 1 /\ items' = items
        /\ next' - 1 = next /\ next' - 2 = next - 1 /\ next - 1 \in Nat /\ (next - 1) + 1 = next
    BY <1>0, <1>9 DEF ReplayEntry, SetWithTTL, Delete, memory
  <2>1. Settling = {} BY <2>0 DEF Settling, Pending
  <2>2. ASSUME NEW key \in Cached PROVE Accounted(key, next - 1) BY <1>5, <2>1, <2>2
  <2>3. ASSUME NEW key \in Cached, NEW n, Accounted(key, n) PROVE Accounted(key, n)'
    BY <1>4, <2>0, <2>3, AccountedStays
  <2>4. ASSUME NEW key \in Cached,
               wal[next].key = key => wal[next].op = "set" /\ Size[wal[next].val] > Capacity
        PROVE  Accounted(key, next)
    BY <2>0, <2>2, <2>4, AccountedMore
  <2>5. ASSUME \A key \in Cached : key \in Settling' \/
                 (wal[next].key = key => wal[next].op = "set" /\ Size[wal[next].val] > Capacity),
               NEW key \in Cached'
        PROVE  Accounted(key, IF key \in Settling THEN next - 2 ELSE next - 1)'
    <3>0. key \in Cached BY <2>0 DEF Cached
    <3>1. CASE key \in Settling'
      <4>1. PICK n : n = next - 1 OBVIOUS
      <4>2. Accounted(key, n)' BY <2>2, <2>3, <3>0, <4>1
      <4>3. next' - 2 = n BY <2>0, <4>1
      <4> QED BY <3>1, <4>2, <4>3 DEF Accounted, Latest
    <3>2. CASE key \notin Settling'
      <4>1. PICK n : n = next OBVIOUS
      <4>2. Accounted(key, n)' BY <2>3, <2>4, <2>5, <3>0, <3>2, <4>1
      <4>3. next' - 1 = n BY <2>0, <4>1
      <4> QED BY <3>2, <4>2, <4>3 DEF Accounted, Latest
    <3> QED BY <3>1, <3>2
  <2>6. CASE wal[next].op = "set" /\ SetWithTTL("loader", wal[next].key, wal[next].val, wal[next].ttl)
    <3>1. /\ op'.key = wal[next].key /\ op'.val = wal[next].val /\ op'.ttl = wal[next].ttl
          /\ pc' = IF Size[wal[next].val] > Capacity THEN "error" ELSE "reserve"
      BY <1>2, <2>6 DEF SetWithTTL, LogFails
    <3>2. \A key \in Cached : key \in Settling' \/
            (wal[next].key = key => wal[next].op = "set" /\ Size[wal[next].val] > Capacity)
      BY <2>6, <3>1 DEF Settling
    <3>3. wal'[next' - 1].ttl = op'.ttl BY <1>4, <2>0, <3>1
    <3> QED BY <2>5, <3>2, <3>3 DEF Rebuilding
  <2>7. CASE wal[next].op # "set" /\ Delete("loader", wal[next].key)
    <3>1. pc' = "log" /\ del'.key = wal[next].key /\ ~del'.evicting BY <2>7 DEF Delete
    <3>2. Settling' = {wal[next].key} BY <3>1 DEF Settling, Pending
    <3>3. \A key \in Cached : key \in Settling' \/
            (wal[next].key = key => wal[next].op = "set" /\ Size[wal[next].val] > Capacity)
      BY <3>2
    <3>4. ~(pc' = "reserve" \/ Pending') BY <3>1 DEF Pending
    <3> QED BY <2>5, <3>3, <3>4 DEF Rebuilding
  <2> QED BY <1>9, <2>6, <2>7 DEF ReplayEntry
<1>10. CASE UNCHANGED next /\ Aside
  <2>1. UNCHANGED <<pc, op, ev, del>> /\ Cached' = Cached BY <1>10 DEF Aside
  <2>2. Settling' = Settling BY <2>1 DEF Settling, Pending
  <2>3. Pending' = Pending BY <2>1 DEF Pending
  <2>4. \A key \in Cached : items'[key].exp = "never" <=> items[key].exp = "never"
    <3>1. ASSUME NEW k \in Keys, Expire(k)
          PROVE  \A key \in Cached : items'[key].exp = "never" <=> items[key].exp = "never"
      BY <1>0, <3>1 DEF Expire, Cached, Typed, TypeOK, MemoryTyped
    <3>2. ~\E k \in Keys : Get(k) BY <1>2 DEF Get
    <3>3. CASE UNCHANGED items BY <3>3
    <3>4. Reserve \/ Attempt => UNCHANGED items BY DEF Reserve, Attempt
    <3>5. ~Insert BY <2>1 DEF Insert
    <3>6. ~Unlink BY <2>1, <1>0 DEF Unlink, DeleteReturns
    <3>7. UNCHANGED memory => UNCHANGED items BY DEF memory
    <3> QED BY <1>0, <3>1, <3>2, <3>3, <3>4, <3>5, <3>6, <3>7, MemoryFrame
  <2>5. \A key \in Cached : items'[key].val = items[key].val BY <1>10 DEF Aside
  <2> QED BY <1>6, <1>10, <2>1, <2>2, <2>3, <2>4, <2>5
<1>11. CASE UNCHANGED next /\ Writer
  <2>1. CASE Reserve
    <3>1. /\ pc = "reserve" /\ UNCHANGED <<items, op>>
          /\ pc' = "insert" \/ (pc' = "evict" /\ ~ev'.proactive)
      BY <2>1 DEF Reserve, Eviction
    <3>2. Settling' = Settling BY <3>1 DEF Settling, Pending
    <3> QED BY <1>7, <1>11, <3>1, <3>2
  <2>2. CASE Insert
    <3>1. /\ Cached' = Cached \cup {op.key} /\ items'[op.key].val = op.val
          /\ items'[op.key].exp = "never" <=> op.ttl = "none"
          /\ \A k \in Cached \ {op.key} : items'[k] = items[k]
          /\ pc = "insert" /\ pc' = "store" /\ op' = op
      BY <2>2 DEF Insert, EnterItem, With, Cached
    <3>2. Settling = {op.key} /\ Settling' = {} BY <3>1 DEF Settling, Pending
    <3>3. /\ next > 1 /\ wal[next - 1].op = "set" /\ wal[next - 1].key = op.key
          /\ wal[next - 1].val = op.val /\ wal[next - 1].ttl = op.ttl
      BY <1>2, <1>5, <3>1 DEF Replaying, Pending
    <3>4. PICK n : n = next - 1 OBVIOUS
    <3>5. n \in 1..n /\ (n + 1)..n = {} /\ next' - 1 = n BY <1>0, <1>11, <3>3, <3>4
    <3>6. Latest(op.key, n, n)' BY <1>4, <3>1, <3>3, <3>4, <3>5 DEF Latest
    <3>7. ASSUME NEW key \in Cached \ {op.key} PROVE Accounted(key, n)'
      <4>1. Accounted(key, n) BY <1>5, <3>2, <3>4, <3>7
      <4> QED BY <1>4, <3>1, <3>7, <4>1, AccountedStays
    <3>8. Accounted(op.key, n)' BY <3>1, <3>5, <3>6 DEF Accounted, Latest
    <3>9. ASSUME NEW key \in Cached' PROVE Accounted(key, next - 1)'
      <4>1. Accounted(key, n)' BY <3>1, <3>7, <3>8, <3>9
      <4> QED BY <3>5, <4>1 DEF Accounted, Latest
    <3>10. ~(pc' = "reserve" \/ Pending') BY <3>1 DEF Pending
    <3> QED BY <1>8, <3>2, <3>9, <3>10
  <2>3. CASE Store
    <3>1. pc = "store" /\ pc' \in {"trigger", "error"} /\ UNCHANGED <<items, op>>
      BY <2>3 DEF Store, memory
    <3>2. Settling' = Settling BY <3>1 DEF Settling, Pending
    <3> QED BY <1>7, <1>11, <3>1, <3>2 DEF Pending
  <2>4. CASE Trigger
    <3>1. /\ pc = "trigger" /\ UNCHANGED <<items, op>>
          /\ pc' = "ok" \/ (pc' = "evict" /\ ev'.proactive)
      BY <2>4 DEF Trigger, Eviction, memory
    <3>2. Settling' = Settling BY <3>1 DEF Settling, Pending
    <3> QED BY <1>7, <1>11, <3>1, <3>2 DEF Pending
  <2>5. CASE ChooseVictim
    <3>1. pc = "evict" /\ UNCHANGED <<items, op, del>> BY <2>5 DEF ChooseVictim, memory
    <3>2. CASE pc' = "attempt" /\ UNCHANGED ev
      <4>1. Settling' = Settling BY <3>1, <3>2 DEF Settling, Pending
      <4> QED BY <1>7, <1>11, <3>1, <3>2, <4>1 DEF Pending
    <3>3. CASE EvictionEnds /\ (Fits \/ ev.proactive)
      <4>1. pc' = IF ev.proactive THEN "ok" ELSE "insert" BY <3>3 DEF EvictionEnds
      <4>2. Settling' = Settling BY <3>1, <4>1 DEF Settling, Pending
      <4> QED BY <1>7, <1>11, <3>1, <4>1, <4>2 DEF Pending
    <3>4. CASE EvictionEnds /\ ~MayEvict /\ ~Fits /\ ~ev.proactive
      <4>1. pc' = "error" BY <3>4 DEF EvictionEnds
      <4>2. Settling = {op.key} /\ Settling' = {} BY <3>1, <3>4, <4>1 DEF Settling, Pending
      <4>3. GivesUp BY <1>2, <3>1, <3>4, <4>1 DEF GivesUp
      <4>4. next - 1 \in exhausted' BY <3>1, <4>1, <4>3, RecordFrame DEF vars
      <4>5. next > 1 /\ wal[next - 1].op = "set" BY <1>2, <3>1 DEF Replaying
      <4>6. PICK n : n = next - 2 OBVIOUS
      <4>7. n \in Nat /\ n + 1 = next - 1 /\ next' - 1 = n + 1 BY <1>0, <1>11, <4>5, <4>6
      <4>8. ASSUME NEW key \in Cached' PROVE Accounted(key, next - 1)'
        <5>0. key \in Cached BY <3>1, <4>8 DEF Cached
        <5>1. CASE key = op.key
          <6>1. Accounted(key, n) BY <1>5, <4>2, <4>6, <5>0, <5>1
          <6>2. PICK i \in 1..n : Latest(key, i, n) BY <6>1 DEF Accounted
          <6>3. ASSUME NEW j \in (i + 1)..(n + 1), wal[j].key = key
                PROVE  wal[j].op = "set" /\ (Size[wal[j].val] > Capacity \/ j \in exhausted')
            <7>1. j \in (i + 1)..n \/ j = n + 1 BY <4>7
            <7>2. CASE j = n + 1 BY <4>4, <4>5, <4>7, <7>2
            <7>3. CASE j \in (i + 1)..n BY <1>4, <6>2, <6>3, <7>3 DEF Latest
            <7> QED BY <7>1, <7>2, <7>3
          <6>4. Latest(key, i, n + 1)' BY <1>4, <3>1, <6>2, <6>3 DEF Latest
          <6>5. i \in 1..(n + 1) BY <4>7
          <6> QED BY <4>7, <6>4, <6>5 DEF Accounted, Latest
        <5>2. CASE key # op.key
          <6>1. Accounted(key, n + 1) BY <1>5, <4>2, <4>7, <5>0, <5>2
          <6>2. PICK m : m = n + 1 OBVIOUS
          <6>3. Accounted(key, m)' BY <1>4, <3>1, <6>1, <6>2, AccountedStays
          <6> QED BY <4>7, <6>2, <6>3 DEF Accounted, Latest
        <5> QED BY <5>1, <5>2
      <4>9. ~(pc' = "reserve" \/ Pending') BY <4>1 DEF Pending
      <4> QED BY <1>8, <4>2, <4>8, <4>9
    <3> QED BY <1>0, <2>5, <3>2, <3>3, <3>4, ChooseVictimChooses
  <2>6. CASE Attempt
    <3>1. pc = "attempt" /\ UNCHANGED <<items, op, del>> BY <2>6 DEF Attempt
    <3>2. pc' = "verify" /\ ev'.proactive = ev.proactive BY <1>0, <1>4, <2>6, AttemptDoes
    <3>3. Settling' = Settling BY <3>1, <3>2 DEF Settling, Pending
    <3> QED BY <1>7, <1>11, <3>1, <3>2, <3>3 DEF Pending
  <2>7. CASE Verify
    <3>1. pc = "verify" /\ UNCHANGED <<items, op>> BY <2>7 DEF Verify, memory
    <3>2. pc' = "log" /\ ev' = ev /\ del'.evicting
      BY <1>0, <1>4, <2>7, <3>1, VerifyDoes DEF Calls
    <3>3. Settling' = Settling BY <3>1, <3>2 DEF Settling, Pending
    <3> QED BY <1>7, <1>11, <3>1, <3>2, <3>3 DEF Pending
  <2>8. CASE LogDelete
    <3>1. pc = "log" /\ pc' = "unlink" /\ UNCHANGED <<items, op, ev, del>>
      BY <1>2, <1>4, <2>8 DEF LogDelete, LogFails, memory
    <3>2. Settling' = Settling BY <3>1 DEF Settling, Pending
    <3> QED BY <1>7, <1>11, <3>1, <3>2 DEF Pending
  <2>9. CASE Unlink
    <3>1. pc = "unlink" /\ op' = op BY <2>9 DEF Unlink
    <3>2. CASE del.key \in Cached
      <4>1. /\ Cached' = Cached \ {del.key} /\ \A k \in Cached' : items'[k] = items[k]
            /\ pc' = "purge" /\ UNCHANGED <<ev, del>>
        BY <2>9, <3>2 DEF Unlink, DropItem, Without, Cached
      <4>2. Settling' = Settling \/ (Settling = {del.key} /\ Settling' = {})
        BY <3>1, <4>1 DEF Settling, Pending
      <4> QED BY <1>6, <1>11, <3>1, <4>1, <4>2 DEF Pending
    <3>3. CASE del.key \notin Cached
      <4>1. items' = items /\ DeleteReturns(TRUE) BY <2>9, <3>3 DEF Unlink, memory
      <4>2. ev'.proactive = ev.proactive BY <1>0, <4>1 DEF DeleteReturns, Evictions
      <4>3. pc' = IF del.evicting THEN "evict" ELSE "ok" BY <4>1 DEF DeleteReturns
      <4>4. Settling' = Settling \/ (Settling = {del.key} /\ Settling' = {})
        BY <3>1, <4>2, <4>3 DEF Settling, Pending
      <4>5. Pending' => Pending BY <3>1, <4>2, <4>3 DEF Pending
      <4> QED BY <1>6, <1>11, <3>1, <3>3, <4>1, <4>3, <4>4, <4>5 DEF Cached
    <3> QED BY <3>2, <3>3
  <2>10. CASE Purge
    <3>1. pc = "purge" /\ UNCHANGED <<items, op>> BY <2>10 DEF Purge, memory
    <3>2. CASE del.evicting
      <4>1. pc' = "evict" /\ ev'.proactive = ev.proactive
        BY <1>0, <2>10, <3>2 DEF Purge, DeleteReturns, Evictions
      <4>2. Settling' = Settling BY <3>1, <3>2, <4>1 DEF Settling, Pending
      <4> QED BY <1>7, <1>11, <3>1, <3>2, <4>1, <4>2 DEF Pending
    <3>3. CASE ~del.evicting
      <4>1. pc' \in {"ok", "error"} BY <2>10, <3>3 DEF Purge, DeleteReturns
      <4>2. Settling' = Settling BY <3>1, <3>3, <4>1 DEF Settling, Pending
      <4> QED BY <1>7, <1>11, <3>1, <4>1, <4>2 DEF Pending
    <3> QED BY <3>2, <3>3
  <2>11. CASE Return
    <3>1. pc \in {"ok", "error"} /\ pc' = "idle" /\ UNCHANGED items BY <2>11 DEF Return, memory
    <3>2. Settling' = Settling BY <3>1 DEF Settling, Pending
    <3> QED BY <1>6, <1>11, <3>1, <3>2 DEF Pending, Cached
  <2> QED BY <1>11, <2>1, <2>2, <2>3, <2>4, <2>5, <2>6, <2>7, <2>8, <2>9, <2>10, <2>11 DEF Writer
<1> QED BY <1>3, <1>9, <1>10, <1>11

(* Recovery keeps what was written last: between two entries of a replay a  *)
(* cached item is what the last entry about its key that could be stored    *)
(* has made of it, for any number of keys, any cap on evictions, and        *)
(* whatever the other nodes and Badger do.                                  *)
THEOREM RebuildSafe == ReplaySpec => []RebuiltFromLatest
<1>1. ReplayInit => Sound /\ Replaying /\ Rebuilding
  <2>1. DOMAIN <<>> = {} OBVIOUS
  <2>2. Init => Rebuilding
    BY <2>1 DEF Init, Rebuilding, Cached, Pending, Evicting, LoopPCs, DeletePCs
  <2> QED BY <2>2, SoundInit, ReplayingInit DEF ReplayInit
<1>2. Sound /\ Replaying /\ [ReplayNext]_replayVars => Sound' /\ Replaying'
  BY RecordFrame, SoundStep, ReplayingStep
<1>3. Rebuilding => RebuiltFromLatest
  <2> SUFFICES ASSUME Rebuilding, recovering, pc = "idle", NEW key \in Cached
               PROVE  \E i \in 1..(next - 1) : Latest(key, i, next - 1)
    BY DEF RebuiltFromLatest, Latest
  <2>1. Settling = {} BY DEF Settling, Pending, Evicting, LoopPCs, DeletePCs
  <2> QED BY <2>1 DEF Rebuilding, Accounted
<1> QED BY <1>1, <1>2, <1>3, RebuildingStep, PTL DEF ReplaySpec
-----------------------------------------------------------------------------
(* Entries stay where they are in the log.                                  *)
LEMMA LogGrows ==
  ASSUME Typed, [Next]_vars
  PROVE  \A i \in DOMAIN wal : i \in DOMAIN wal' /\ wal'[i] = wal[i]
<1>1. wal \in Seq(Entries) BY DEF Typed, TypeOK, StorageTyped
<1>2. ASSUME NEW entry, Logged(entry)
      PROVE  \A i \in DOMAIN wal : i \in DOMAIN wal' /\ wal'[i] = wal[i]
  BY <1>1, <1>2 DEF Logged, log
<1>3. LogFails => wal' = wal BY DEF LogFails
<1>4. CASE LogDelete BY <1>2, <1>3, <1>4 DEF LogDelete
<1>5. CASE UNCHANGED wal BY <1>5
<1>6. ASSUME NEW by, NEW key, NEW val, NEW ttl, SetWithTTL(by, key, val, ttl)
      PROVE  \A i \in DOMAIN wal : i \in DOMAIN wal' /\ wal'[i] = wal[i]
  BY <1>2, <1>3, <1>6 DEF SetWithTTL
<1>7. ASSUME NEW by, NEW key, Delete(by, key) PROVE UNCHANGED wal BY <1>7 DEF Delete, log
<1>8. Aside \/ Crash \/ CloseLog => UNCHANGED wal
  BY DEF Aside, log, Crash, CloseLog
<1>9. Writer => LogDelete \/ UNCHANGED wal
  BY Zenon DEF Writer, log, Reserve, Insert, Store, Trigger, ChooseVictim, Attempt, Verify,
               Unlink, Purge, Return
<1> QED BY <1>4, <1>5, <1>6, <1>7, <1>8, <1>9, CallFrame

(* What a step does to the calls, to the items and to what the sweeper      *)
(* carries.                                                                 *)
LEMMA ExpiryFrame ==
  [Next]_vars => \/ ClientSet \/ ClientDelete \/ ReplayEntry \/ SweepDelete \/ MLDelete
                 \/ SweepCollect \/ FinishRecovery \/ Crash
                 \/ Writer /\ UNCHANGED <<sweep, recovering>>
                 \/ \E key \in Keys : Expire(key)
                 \/ UNCHANGED <<items, pc, op, ev, del, sweep, recovering>>
BY Zenon
DEF Next, vars, memory, workers, process, Writer, MLWorker, Reserve, Insert, Store, Trigger,
    ChooseVictim, Attempt, Verify, LogDelete, Unlink, Purge, Return, Get, TriggerMLEviction,
    TakeSnapshot, MLTake, MLPredict, MLFallback, MLBaseChoice, StopWorkers, CloseLog

(* A set entry about the key with a TTL is in the log; one is, and a set    *)
(* entry of val comes after it.                                             *)
Ticking(key) ==
  \E i \in DOMAIN wal : wal[i].op = "set" /\ wal[i].key = key /\ wal[i].ttl = "seconds"

Succeeded(key, val) ==
  \E i, j \in DOMAIN wal :
    /\ i < j /\ wal[i].key = key /\ wal[i].op = "set" /\ wal[i].ttl = "seconds"
    /\ wal[j].key = key /\ wal[j].op = "set" /\ wal[j].val = val

(* The items with a TTL, and the keys the sweeper has collected.            *)
Mortal == {key \in Cached : items[key].exp # "never"}
Marked == sweep \cup (IF op.by = "sweeper" /\ pc \in {"log", "unlink"} THEN {del.key} ELSE {})

(* The strengthening: an item with a TTL stems from an entry with one; a    *)
(* value on its way in behind such an item, or behind a collected key, was  *)
(* logged after that entry; so was a value that has replaced a collected    *)
(* item.                                                                    *)
Ticks ==
  /\ (pc = "reserve" \/ Pending) /\ op.ttl # "none" => Ticking(op.key)
  /\ \A key \in Mortal \cup Marked : Ticking(key)
  /\ ~recovering /\ (pc = "reserve" \/ Pending) /\ op.key \in Mortal \cup Marked =>
       Succeeded(op.key, op.val)
  /\ \A key \in Marked \cap Cached :
       items[key].exp = "expired" \/ Succeeded(key, items[key].val)
  /\ op.by = "sweeper" =>
       ~recovering /\ pc \in DeletePCs \cup {"ok", "error"} /\ (pc \in DeletePCs => ~del.evicting)

(* A set entry with a TTL that is logged now is one to succeed, and a set   *)
(* entry that is logged now succeeds an earlier one with a TTL.             *)
LEMMA AppendedTicks ==
  ASSUME wal \in Seq(Entries), NEW entry \in Entries, entry.op = "set", wal' = Append(wal, entry)
  PROVE  /\ entry.ttl = "seconds" => Ticking(entry.key)'
         /\ Ticking(entry.key) => Succeeded(entry.key, entry.val)'
<1>1. DOMAIN wal = 1..Len(wal) /\ DOMAIN wal' = 1..(Len(wal) + 1) /\ Len(wal) \in Nat
      /\ wal'[Len(wal) + 1] = entry /\ \A i \in DOMAIN wal : wal'[i] = wal[i]
  OBVIOUS
<1>2. entry.ttl = "seconds" => Ticking(entry.key)' BY <1>1 DEF Ticking
<1>3. ASSUME Ticking(entry.key) PROVE Succeeded(entry.key, entry.val)'
  <2>1. PICK i \in DOMAIN wal : wal[i].op = "set" /\ wal[i].key = entry.key /\ wal[i].ttl = "seconds"
    BY <1>3 DEF Ticking
  <2>2. i < Len(wal) + 1 /\ i \in DOMAIN wal' /\ wal'[i] = wal[i] BY <1>1
  <2> QED BY <1>1, <2>1, <2>2 DEF Succeeded
<1> QED BY <1>2, <1>3

(* What is on record stays on record.                                       *)
LEMMA SucceededStays ==
  ASSUME Typed, [Next]_vars
  PROVE  /\ \A key : Ticking(key) => Ticking(key)'
         /\ \A key, val : Succeeded(key, val) => Succeeded(key, val)'
         /\ UNCHANGED op => /\ Ticking(op.key) => Ticking(op.key)'
                            /\ Succeeded(op.key, op.val) => Succeeded(op.key, op.val)'
         /\ \A key : items'[key].val = items[key].val =>
              (Succeeded(key, items[key].val) => Succeeded(key, items[key].val)')
<1>1. \A i \in DOMAIN wal : i \in DOMAIN wal' /\ wal'[i] = wal[i] BY LogGrows
<1>2. \A key : Ticking(key) => Ticking(key)' BY <1>1 DEF Ticking
<1>3. \A key, val : Succeeded(key, val) => Succeeded(key, val)' BY <1>1 DEF Succeeded
<1>4. UNCHANGED op => /\ Ticking(op.key) => Ticking(op.key)'
                      /\ Succeeded(op.key, op.val) => Succeeded(op.key, op.val)'
  BY <1>1 DEF Ticking, Succeeded
<1>5. \A key : items'[key].val = items[key].val =>
        (Succeeded(key, items[key].val) => Succeeded(key, items[key].val)')
  BY <1>1 DEF Succeeded
<1> QED BY <1>2, <1>3, <1>4, <1>5

(* Every step keeps the TTL of what is swept on record.                     *)
LEMMA TicksStep ==
  ASSUME "subsecond" \notin TTLs, Sound, Replaying, Ticks, [Next]_vars
  PROVE  Ticks'
<1> USE DEF Evicting, LoopPCs, DeletePCs
<1>0. /\ Typed /\ Calls /\ wal \in Seq(Entries) /\ next \in Nat \ {0} /\ Len(wal) \in Nat
      /\ recovering => sweep = {} /\ op.by # "sweeper"
  BY DEF Sound, Typed, TypeOK, StorageTyped, WorkersTyped, Replaying, Ticks
<1>1. CASE Crash
  <2>1. /\ DOMAIN items' = {} /\ pc' = "idle" /\ sweep' = {} /\ op'.by = "nobody"
    <3>1. DOMAIN <<>> = {} OBVIOUS
    <3> QED BY <1>1, <3>1 DEF Crash, FreshProcess, NoOp
  <2> QED BY <2>1 DEF Ticks, Cached, Mortal, Marked, Pending
<1> SUFFICES ASSUME ~Crash PROVE Ticks' BY <1>1
<1>2. /\ \A key : Ticking(key) => Ticking(key)'
      /\ \A key, val : Succeeded(key, val) => Succeeded(key, val)'
  BY <1>0, SucceededStays
<1>3. ASSUME Mortal' \subseteq Mortal, Marked' \subseteq Marked,
             pc' = "reserve" \/ Pending' =>
               op' = op /\ recovering' = recovering /\ (pc = "reserve" \/ Pending),
             \A key \in Marked' \cap Cached' :
               /\ key \in Cached /\ items'[key].val = items[key].val
               /\ items[key].exp = "expired" => items'[key].exp = "expired",
             op'.by = "sweeper" =>
               /\ ~recovering' /\ pc' \in DeletePCs \cup {"ok", "error"}
               /\ pc' \in DeletePCs => ~del'.evicting
      PROVE  Ticks'
  <2>1. ASSUME NEW key \in Marked' \cap Cached'
        PROVE  (items[key].exp = "expired" \/ Succeeded(key, items[key].val))'
    <3>1. items[key].exp = "expired" \/ Succeeded(key, items[key].val) BY <1>3, <2>1 DEF Ticks
    <3> QED BY <1>0, <1>3, <2>1, <3>1, SucceededStays
  <2>2. \A key \in Mortal' \cup Marked' : Ticking(key)' BY <1>2, <1>3 DEF Ticks
  <2>3. ASSUME ~recovering', pc' = "reserve" \/ Pending', op'.key \in Mortal' \cup Marked'
        PROVE  Succeeded(op.key, op.val)'
    <3>1. op' = op /\ Succeeded(op.key, op.val) BY <1>3, <2>3 DEF Ticks
    <3> QED BY <1>0, <3>1, SucceededStays
  <2>4. ASSUME pc' = "reserve" \/ Pending', op'.ttl # "none" PROVE Ticking(op.key)'
    <3>1. op' = op /\ Ticking(op.key) BY <1>3, <2>4 DEF Ticks
    <3> QED BY <1>0, <3>1, SucceededStays
  <2> QED BY <1>3, <2>1, <2>2, <2>3, <2>4 DEF Ticks
<1>4. ASSUME UNCHANGED <<items, sweep, recovering, op>>, op.by = "sweeper" => pc \in DeletePCs,
             pc' = "reserve" \/ Pending' => pc = "reserve" \/ Pending,
             op.by = "sweeper" =>
               /\ pc' \in {"log", "unlink"} => pc \in {"log", "unlink"} /\ del' = del
               /\ pc' \in DeletePCs \cup {"ok", "error"} /\ (pc' \in DeletePCs => ~del'.evicting)
      PROVE  Ticks'
  <2>1. Mortal' = Mortal /\ Marked' \subseteq Marked /\ Cached' = Cached
    BY <1>4 DEF Mortal, Marked, Cached
  <2>2. op'.by = "sweeper" => ~recovering' BY <1>0, <1>4
  <2> QED BY <1>3, <1>4, <2>1, <2>2
<1>5. ASSUME NEW by \in Callers \ {"sweeper"}, NEW key \in Keys, NEW val \in Values,
             NEW ttl \in {"none", "seconds"}, SetWithTTL(by, key, val, ttl),
             UNCHANGED <<sweep, recovering>>,
             recovering /\ ttl # "none" => Ticking(key)
      PROVE  Ticks'
  <2>1. /\ items' = items /\ op'.by = by /\ op'.key = key /\ op'.val = val /\ op'.ttl = ttl
        /\ pc = "idle" /\ pc' \in {"reserve", "error"}
        /\ pc' = "reserve" => Logged(SetEntry(key, val, ttl))
    BY <1>5 DEF SetWithTTL, memory
  <2>2. Mortal' = Mortal /\ Cached' = Cached /\ Marked' = sweep /\ Marked = sweep
    BY <1>5, <2>1 DEF Mortal, Marked, Cached
  <2>3. ASSUME ~recovering, pc' = "reserve"
        PROVE  /\ ttl = "seconds" => Ticking(key)'
               /\ Ticking(key) => Succeeded(key, val)'
    <3>1. SetEntry(key, val, ttl) \in Entries BY DEF SetEntry, LoggedTTL, Entries
    <3>2. wal' = Append(wal, SetEntry(key, val, ttl)) BY <2>1, <2>3 DEF Logged
    <3>3. PICK entry \in Entries : entry = SetEntry(key, val, ttl) BY <3>1
    <3>4. entry.op = "set" /\ entry.key = key /\ entry.val = val /\ entry.ttl = ttl
      BY <3>3 DEF SetEntry, LoggedTTL
    <3> QED BY <1>0, <3>2, <3>3, <3>4, AppendedTicks
  <2>4. ASSUME pc' = "reserve" \/ Pending', op'.ttl # "none" PROVE Ticking(op.key)'
    <3>1. pc' = "reserve" /\ ttl = "seconds" BY <1>5, <2>1, <2>4 DEF Pending
    <3>2. Ticking(key)' BY <1>2, <1>5, <2>3, <3>1
    <3> QED BY <2>1, <3>2 DEF Ticking
  <2>5. ASSUME ~recovering', pc' = "reserve" \/ Pending', op'.key \in Mortal' \cup Marked'
        PROVE  Succeeded(op.key, op.val)'
    <3>1. pc' = "reserve" /\ ~recovering BY <1>5, <2>1, <2>5 DEF Pending
    <3>2. Ticking(key) BY <2>1, <2>2, <2>5 DEF Ticks
    <3>3. Succeeded(key, val)' BY <2>3, <3>1, <3>2
    <3> QED BY <2>1, <3>3 DEF Succeeded
  <2>6. ASSUME NEW k \in Marked' \cap Cached'
        PROVE  (items[k].exp = "expired" \/ Succeeded(k, items[k].val))'
    <3>1. items[k].exp = "expired" \/ Succeeded(k, items[k].val) BY <2>2, <2>6 DEF Ticks
    <3> QED BY <1>0, <2>1, <3>1, SucceededStays
  <2>7. \A k \in Mortal' \cup Marked' : Ticking(k)' BY <1>2, <2>2 DEF Ticks
  <2> QED BY <1>5, <2>1, <2>4, <2>5, <2>6, <2>7 DEF Ticks
<1>6. ASSUME NEW by \in Callers, NEW key, Delete(by, key), recovering' = recovering,
             by = "sweeper" => ~recovering /\ key \in sweep, sweep' \subseteq sweep
      PROVE  Ticks'
  <2>1. /\ items' = items /\ op'.by = by /\ pc' = "log" /\ del'.key = key /\ ~del'.evicting
    BY <1>6 DEF Delete, NoOp, memory
  <2>2. Mortal' = Mortal /\ Cached' = Cached /\ Marked' \subseteq Marked
    BY <1>6, <2>1 DEF Mortal, Marked, Cached
  <2> QED BY <1>3, <1>6, <2>1, <2>2 DEF Pending
<1>7. CASE ClientSet
  <2>1. PICK key \in Keys, val \in Values, ttl \in TTLs : SetWithTTL("client", key, val, ttl)
    BY <1>7 DEF ClientSet
  <2>2. ttl \in {"none", "seconds"} BY ChoiceAssumption
  <2> QED BY <1>5, <1>7, <2>1, <2>2 DEF ClientSet, workers, process, Callers
<1>8. CASE ReplayEntry
  <2>0. recovering /\ recovering' = recovering /\ sweep' = sweep /\ wal[next] \in Entries
    BY <1>0, <1>8 DEF ReplayEntry, workers
  <2>1. CASE wal[next].op = "set" /\ SetWithTTL("loader", wal[next].key, wal[next].val, wal[next].ttl)
    <3>1. wal[next].key \in Keys /\ wal[next].val \in Values /\ wal[next].ttl \in {"none", "seconds"}
      BY <2>0, <2>1 DEF Entries
    <3>2. next \in DOMAIN wal BY <1>0, <1>8 DEF ReplayEntry
    <3>3. wal[next].ttl # "none" => Ticking(wal[next].key) BY <2>1, <3>1, <3>2 DEF Ticking
    <3> QED BY <1>5, <2>0, <2>1, <3>1, <3>3 DEF Callers
  <2>2. CASE wal[next].op # "set" /\ Delete("loader", wal[next].key)
    BY <1>6, <2>0, <2>2 DEF Callers
  <2> QED BY <1>8, <2>1, <2>2 DEF ReplayEntry
<1>9. CASE ClientDelete BY <1>6, <1>9 DEF ClientDelete, workers, process, Callers
<1>10. CASE MLDelete BY <1>6, <1>10 DEF MLDelete, process, Callers
<1>11. CASE SweepDelete BY <1>0, <1>6, <1>11 DEF SweepDelete, process, Callers
<1>12. CASE SweepCollect
  <2>1. /\ UNCHANGED <<items, pc, op, ev, del, recovering>> /\ sweep' = Expired /\ op.by # "sweeper"
        /\ wal' = wal
    BY <1>12 DEF SweepCollect, memory, process, log
  <2>2. Mortal' = Mortal /\ Marked' = Expired /\ Expired \subseteq Mortal /\ Pending' = Pending
    BY <2>1 DEF Mortal, Marked, Cached, Expired, Pending
  <2>3. \A key \in Marked' : items'[key].exp = "expired" BY <2>1, <2>2 DEF Expired
  <2> QED BY <1>2, <2>1, <2>2, <2>3 DEF Ticks, Ticking, Succeeded
<1>13. CASE FinishRecovery
  <2>1. UNCHANGED <<items, pc, op, ev, del, sweep>> /\ pc = "idle" /\ op.by # "sweeper"
    BY <1>0, <1>13 DEF FinishRecovery, memory, workers
  <2> QED BY <1>3, <2>1 DEF Mortal, Marked, Cached, Pending
<1>14. ASSUME NEW k \in Keys, Expire(k) PROVE Ticks'
  <2>1. /\ UNCHANGED <<pc, op, ev, del, sweep, recovering>> /\ Cached' = Cached
        /\ \A key \in Cached :
             /\ items'[key].val = items[key].val
             /\ items'[key].exp = "never" <=> items[key].exp = "never"
             /\ items[key].exp = "expired" => items'[key].exp = "expired"
    BY <1>0, <1>14 DEF Expire, Cached, workers, process, Typed, TypeOK, MemoryTyped
  <2>2. Mortal' = Mortal /\ Marked' = Marked /\ Pending' = Pending
    BY <2>1 DEF Mortal, Marked, Pending
  <2> QED BY <1>3, <2>1, <2>2 DEF Ticks
<1>15. CASE UNCHANGED <<items, pc, op, ev, del, sweep, recovering>>
  <2>1. Mortal' = Mortal /\ Marked' = Marked /\ Pending' = Pending /\ Cached' = Cached
    BY <1>15 DEF Mortal, Marked, Pending, Cached
  <2> QED BY <1>3, <1>15, <2>1 DEF Ticks
<1>16. CASE Writer /\ UNCHANGED <<sweep, recovering>>
  <2>0. op.by = "sweeper" => pc \in DeletePCs \cup {"ok", "error"} BY DEF Ticks
  <2>1. CASE Reserve BY <1>4, <1>16, <2>0, <2>1 DEF Reserve, Pending, Eviction
  <2>2. CASE Insert
    <3>1. /\ Cached' = Cached \cup {op.key} /\ items'[op.key].val = op.val
          /\ items'[op.key].exp = "never" <=> op.ttl = "none"
          /\ \A k \in Cached \ {op.key} : items'[k] = items[k]
          /\ pc = "insert" /\ pc' = "store" /\ op' = op /\ wal' = wal
      BY <2>2 DEF Insert, EnterItem, With, Cached, log
    <3>2. /\ Mortal' \subseteq Mortal \cup (IF op.ttl = "none" THEN {} ELSE {op.key})
          /\ Marked' = sweep /\ Marked = sweep
      BY <1>16, <2>0, <3>1 DEF Mortal, Marked
    <3>3. \A key \in Mortal' \cup Marked' : Ticking(key)'
      BY <1>2, <3>1, <3>2 DEF Ticks, Pending
    <3>4. ASSUME NEW key \in Marked' \cap Cached'
          PROVE  (items[key].exp = "expired" \/ Succeeded(key, items[key].val))'
      <4>1. CASE key = op.key
        <5>1. ~recovering BY <1>0, <3>2, <3>4
        <5>2. Succeeded(key, op.val) BY <3>1, <3>2, <3>4, <4>1, <5>1 DEF Ticks, Pending
        <5>3. items'[key].val = op.val BY <3>1, <4>1
        <5> QED BY <3>1, <5>2, <5>3 DEF Succeeded
      <4>2. CASE key # op.key
        <5>1. key \in Marked \cap Cached /\ items'[key] = items[key] BY <3>1, <3>2, <3>4, <4>2
        <5>2. items[key].exp = "expired" \/ Succeeded(key, items[key].val) BY <5>1 DEF Ticks
        <5> QED BY <1>0, <5>1, <5>2, SucceededStays
      <4> QED BY <4>1, <4>2
    <3> QED BY <2>0, <3>1, <3>3, <3>4 DEF Ticks, Pending
  <2>3. CASE Store BY <1>4, <1>16, <2>0, <2>3 DEF Store, Pending, memory
  <2>4. CASE Trigger BY <1>4, <1>16, <2>0, <2>4 DEF Trigger, Pending, Eviction, memory
  <2>5. CASE ChooseVictim
    <3>1. CASE EvictionEnds
      BY <1>4, <1>16, <2>0, <2>5, <3>1 DEF ChooseVictim, EvictionEnds, Pending, memory
    <3>2. CASE pc' = "attempt" /\ UNCHANGED ev
      BY <1>4, <1>16, <2>0, <2>5, <3>2 DEF ChooseVictim, Pending, memory
    <3> QED BY <2>5, <3>1, <3>2, ChooseVictimChooses
  <2>6. CASE Attempt
    <3>1. CASE pc' = "verify" /\ ev'.proactive = ev.proactive
      BY <1>4, <1>16, <2>0, <2>6, <3>1 DEF Attempt, Pending
    <3>2. CASE pc' \in {"ok", "error"} BY <1>4, <1>16, <2>0, <2>6, <3>2 DEF Attempt, Pending
    <3> QED BY <2>6, <3>1, <3>2, AttemptDoes
  <2>7. CASE Verify
    <3>1. CASE pc' = "log" /\ ev' = ev /\ del'.evicting
      BY <1>4, <1>16, <2>0, <2>7, <3>1 DEF Verify, Pending, memory
    <3>2. CASE pc' \in {"ok", "error"} BY <1>4, <1>16, <2>0, <2>7, <3>2 DEF Verify, Pending, memory
    <3> QED BY <2>7, <3>1, <3>2, VerifyDoes
  <2>8. ASSUME pc \in DeletePCs, NEW success \in BOOLEAN, DeleteReturns(success), op' = op
        PROVE  /\ pc' = "reserve" \/ Pending' => Pending
               /\ op.by = "sweeper" => pc' \in {"ok", "error"}
    <3>1. ev'.proactive = ev.proactive
      BY <1>0, <2>8 DEF DeleteReturns, Typed, TypeOK, CallTyped, Evictions
    <3> QED BY <2>8, <3>1 DEF DeleteReturns, Pending, Ticks
  <2>9. CASE LogDelete
    <3>1. op' = op /\ items' = items /\ pc \in DeletePCs BY <2>9 DEF LogDelete, memory
    <3>2. CASE DeleteReturns(FALSE) BY <1>4, <1>16, <3>1, <3>2, <2>8
    <3>3. CASE pc' = "unlink" /\ UNCHANGED <<ev, del>>
      BY <1>4, <1>16, <2>9, <3>1, <3>3 DEF LogDelete, Pending, Ticks
    <3> QED BY <2>9, <3>2, <3>3 DEF LogDelete
  <2>10. CASE Unlink
    <3>1. op' = op /\ pc = "unlink" BY <2>10 DEF Unlink
    <3>2. CASE del.key \in Cached
      <4>1. /\ Cached' = Cached \ {del.key} /\ \A k \in Cached' : items'[k] = items[k]
            /\ pc' = "purge" /\ UNCHANGED <<ev, del>>
        BY <2>10, <3>2 DEF Unlink, DropItem, Without, Cached
      <4>2. Mortal' \subseteq Mortal /\ Marked' \subseteq Marked
        BY <1>16, <3>1, <4>1 DEF Mortal, Marked
      <4>3. Pending' => Pending BY <3>1, <4>1 DEF Pending
      <4> QED BY <1>3, <1>16, <3>1, <4>1, <4>2, <4>3 DEF Ticks
    <3>3. CASE DeleteReturns(TRUE) /\ UNCHANGED memory
      <4>1. items' = items BY <3>3 DEF memory
      <4>2. pc' \notin {"log", "unlink"} BY <3>3 DEF DeleteReturns
      <4> QED BY <1>4, <1>16, <3>1, <3>3, <4>1, <4>2, <2>8
    <3> QED BY <2>10, <3>2, <3>3 DEF Unlink
  <2>11. CASE Purge
    <3>1. op' = op /\ items' = items /\ pc \in DeletePCs BY <2>11 DEF Purge, memory
    <3>2. DeleteReturns(TRUE) \/ DeleteReturns(FALSE) BY <2>11 DEF Purge
    <3> QED BY <1>4, <1>16, <3>1, <3>2, <2>8
  <2>12. CASE Return
    <3>1. items' = items /\ op'.by = "nobody" /\ pc' = "idle" BY <2>12 DEF Return, NoOp, memory
    <3>2. Mortal' = Mortal /\ Marked' \subseteq Marked /\ Cached' = Cached
      BY <1>16, <3>1 DEF Mortal, Marked, Cached
    <3> QED BY <1>3, <3>1, <3>2 DEF Pending
  <2> QED BY <1>16, <2>1, <2>2, <2>3, <2>4, <2>5, <2>6, <2>7, <2>9, <2>10, <2>11, <2>12 DEF Writer
<1> QED BY <1>7, <1>8, <1>9, <1>10, <1>11, <1>12, <1>13, <1>14, <1>15, <1>16, ExpiryFrame

(* The sweeper takes away nothing that had no TTL when it was collected, in *)
(* whatever order Sets, Gets, evictions and other deletions come between    *)
(* its look at an item and its deletion, as long as every TTL is a whole    *)
(* number of seconds: a shorter one is logged as no TTL.                    *)
THEOREM SweepSafe ==
  ASSUME "subsecond" \notin TTLs
  PROVE  Spec => SweepsExpiredOrReplaced
<1> DEFINE Sweeps ==
      op.by = "sweeper" /\ ~recovering' =>
        \A key \in Cached \ Cached' :
          \/ items[key].exp = "expired"
          \/ \E i, j \in DOMAIN wal :
               /\ i < j /\ wal[i].key = key /\ wal[i].op = "set" /\ wal[i].ttl = "seconds"
               /\ wal[j].key = key /\ wal[j].op = "set" /\ wal[j].val = items[key].val
<1>1. Init => Ticks
  <2>1. DOMAIN <<>> = {} OBVIOUS
  <2> QED BY <2>1
      DEF Init, Ticks, Cached, Mortal, Marked, NoOp, Pending, Evicting, LoopPCs, DeletePCs
<1>2. Sound /\ Replaying /\ Ticks /\ [Next]_vars => Ticks' BY TicksStep
<1>3. ASSUME Sound, Ticks, [Next]_vars PROVE Sweeps
  <2> SUFFICES ASSUME op.by = "sweeper", ~recovering', NEW key \in Cached \ Cached'
               PROVE  items[key].exp = "expired" \/ Succeeded(key, items[key].val)
    BY DEF Succeeded
  <2>1. CASE UNCHANGED items BY <2>1 DEF Cached
  <2>2. CASE Insert
    BY <2>2 DEF Insert, EnterItem, With, Cached
  <2>3. CASE Unlink
    <3>1. key = del.key BY <2>3 DEF Unlink, DropItem, Without, Cached, memory
    <3>2. key \in Marked BY <2>3, <3>1 DEF Unlink, Marked
    <3> QED BY <1>3, <3>2 DEF Ticks
  <2>4. ASSUME NEW k \in Keys, Get(k) \/ Expire(k) PROVE Cached' = Cached
    BY <1>3, <2>4 DEF Get, Expire, Cached
  <2>5. Reserve \/ Attempt => UNCHANGED items BY DEF Reserve, Attempt
  <2>6. UNCHANGED memory => UNCHANGED items BY DEF memory
  <2>7. ~Crash BY DEF Crash, FreshProcess
  <2> QED BY <1>3, <2>1, <2>2, <2>3, <2>4, <2>5, <2>6, <2>7, MemoryFrame
<1>4. Sound /\ Ticks /\ [Next]_vars => [Sweeps]_vars BY <1>3
<1> HIDE DEF Sweeps
<1> QED BY AlwaysSound, ReplayingInit, ReplayingStep, <1>1, <1>2, <1>4, PTL
        DEF Spec, SweepsExpiredOrReplaced, Sweeps
-----------------------------------------------------------------------------
(* What is being stored is what is cached, and what is being purged is not  *)
(* cached any more.                                                         *)
Covered ==
  /\ BadgerCovers
  /\ pc = "store" /\ op.key \in Cached => items[op.key].val = op.val
  /\ pc = "purge" => del.key \notin Cached

(* A closed Badger stays closed as long as the process lives.               *)
LEMMA ClosedStays == [Next]_vars => Crash \/ (dbClosed => dbClosed')
BY Zenon
DEF Next, vars, Writer, MLWorker, Reserve, Insert, Store, Trigger, ChooseVictim, Attempt,
    Verify, LogDelete, Unlink, Purge, Return, ClientSet, ClientDelete, Get, Expire,
    TriggerMLEviction, SweepCollect, SweepDelete, TakeSnapshot, MLTake, MLPredict,
    MLFallback, MLBaseChoice, MLDelete, StopWorkers, CloseLog, ReplayEntry, FinishRecovery,
    process

(* Every step keeps each cached value in Badger, but for the one being      *)
(* stored.                                                                  *)
LEMMA CoveredStep == Sound /\ Covered /\ [Next]_vars => Covered'
<1> SUFFICES ASSUME Sound, Covered, [Next]_vars PROVE Covered' OBVIOUS
<1> USE DEF Covered, BadgerCovers, Cached
<1>0. Typed /\ (~Crash => (dbClosed => dbClosed')) BY ClosedStays DEF Sound
<1>1. CASE Crash
  <2>1. DOMAIN items' = {} /\ pc' = "idle"
    <3>1. DOMAIN <<>> = {} OBVIOUS
    <3> QED BY <1>1, <3>1 DEF Crash, FreshProcess
  <2> QED BY <2>1
<1> SUFFICES ASSUME ~Crash PROVE Covered' BY <1>1
<1>2. CASE Insert
  BY <1>0, <1>2 DEF Insert, EnterItem, With
<1>3. CASE Store BY <1>0, <1>3 DEF Store, BadgerFails, With, memory
<1>4. CASE Unlink
  BY <1>0, <1>4 DEF Unlink, DropItem, Without, DeleteReturns, memory
<1>5. CASE Purge
  BY <1>0, <1>5 DEF Purge, BadgerFails, Without, DeleteReturns, memory
<1>6. CASE Aside
  <2>1. CASE UNCHANGED badger BY <1>0, <1>6, <2>1 DEF Aside
  <2>2. CASE TakeSnapshot BY <1>6, <2>2 DEF Aside, TakeSnapshot, memory
  <2> QED BY <1>6, <2>1, <2>2 DEF Aside
<1>7. CASE UNCHANGED <<items, badger>> /\ pc # "store" /\ pc' \notin {"store", "purge"}
  BY <1>0, <1>7
<1>8. CASE Reserve \/ Attempt BY <1>7, <1>8 DEF Reserve, Attempt, EvictionEnds
<1>9. CASE Trigger \/ Return BY <1>7, <1>9 DEF Trigger, Return, memory
<1>10. CASE ChooseVictim
  BY <1>7, <1>10, ChooseVictimChooses DEF ChooseVictim, EvictionEnds, memory
<1>11. CASE Verify BY <1>7, <1>11 DEF Verify, EvictionEnds, memory
<1>12. CASE LogDelete BY <1>7, <1>12 DEF LogDelete, DeleteReturns, memory
<1>13. ASSUME NEW by \in Callers, NEW key \in Keys, NEW val \in Values,
              NEW ttl \in {"none", "subsecond", "seconds"}, SetWithTTL(by, key, val, ttl)
       PROVE  Covered'
  BY <1>7, <1>13 DEF SetWithTTL, memory
<1>14. ASSUME NEW by \in Callers, NEW key \in Keys \cup {NoKey}, Delete(by, key) PROVE Covered'
  BY <1>7, <1>14 DEF Delete, memory
<1>15. CASE CloseLog BY <1>0, <1>15 DEF CloseLog, memory, process
<1> QED BY <1>0, <1>1, <1>2, <1>3, <1>4, <1>5, <1>6, <1>8, <1>9, <1>10, <1>11, <1>12, <1>13,
           <1>14, <1>15, CallFrame DEF Writer

(* As long as Badger can be written it holds the value of every cached item *)
(* but the one being stored.                                                *)
THEOREM BadgerSafe == Spec => []BadgerCovers
<1>1. Init => Covered
  <2>1. DOMAIN <<>> = {} OBVIOUS
  <2> QED BY <2>1 DEF Init, Covered, BadgerCovers, Cached
<1>2. Covered => BadgerCovers BY DEF Covered
<1> QED BY <1>1, <1>2, AlwaysSound, CoveredStep, PTL DEF Spec
=============================================================================
