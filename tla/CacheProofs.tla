----------------------------- MODULE CacheProofs -----------------------------
(* Proofs about a cache node, for every set of keys and values, capacity,   *)
(* policy and kind of failure.                                              *)
EXTENDS CacheProperties, PolicyLemmas

-----------------------------------------------------------------------------
(* The policy lemmas of whichever policy the node was given.                *)
PolicyConsistent(p) == IF Base = "LRU" THEN LRUConsistent(p) ELSE LFUConsistent(p)

(* Every hook keeps the policy consistent and changes the keys it names.    *)
LEMMA PolicyHooks ==
  ASSUME NEW p, PolicyConsistent(p), NEW key
  PROVE  /\ PolicyConsistent(OnGet(p, key)) /\ PolicyKeys(OnGet(p, key)) = PolicyKeys(p)
         /\ PolicyConsistent(OnSet(p, key))
         /\ PolicyKeys(OnSet(p, key)) = PolicyKeys(p) \cup {key}
         /\ PolicyConsistent(OnDelete(p, key))
         /\ PolicyKeys(OnDelete(p, key)) = PolicyKeys(p) \ {key}
<1>1. CASE Base = "LRU"
  BY <1>1, LRUHooks DEF PolicyConsistent, PolicyKeys, OnGet, OnSet, OnDelete
<1>2. CASE Base # "LRU"
  BY <1>2, LFUHooks DEF PolicyConsistent, PolicyKeys, OnGet, OnSet, OnDelete
<1> QED BY <1>1, <1>2

(* A new policy is consistent and empty.                                    *)
LEMMA NewPolicyConsistent == PolicyConsistent(NewPolicy) /\ PolicyKeys(NewPolicy) = {}
BY NewLRUConsistent, NewLFUConsistent DEF PolicyConsistent, NewPolicy, PolicyKeys

(* A policy has a victim exactly when it has a key, and it is one of them.  *)
LEMMA VictimIsKey ==
  ASSUME NEW p, PolicyConsistent(p)
  PROVE  /\ HasVictim(p) <=> PolicyKeys(p) # {}
         /\ HasVictim(p) => Victim(p) \in PolicyKeys(p)
BY LRUVictimIsItem, LFUVictimIsLeast DEF PolicyConsistent, PolicyKeys, HasVictim, Victim
-----------------------------------------------------------------------------
(* What the call that holds writeMu works on at each of its steps.          *)
Calls ==
  /\ pc \in {"reserve", "insert", "store", "trigger"} => op.key \in Keys /\ op.val \in Values
  /\ Evicting /\ ~ev.proactive =>
       op.key \in Keys /\ op.val \in Values /\ ev.need = Size[op.val]
  /\ Alone /\ pc = "attempt" /\ evictOk => evictKey \in Cached
  /\ Alone /\ pc = "verify" => evictKey \in Cached

(* What the ML worker deletes is a key, and a log is not written, hence not *)
(* broken, and nothing is shut down before it has been replayed.            *)
Others ==
  /\ ml.phase = "deleting" => ml.key \in Keys
  /\ recovering => ~walBroken /\ ~dbClosed

Policed == PolicyConsistent(policy) /\ PolicyKeys(policy) \subseteq Cached

Typed == TypeOK /\ Policed /\ Calls /\ Others

(* The empty cache has every type.                                          *)
LEMMA TypedInit == Init => Typed
<1> SUFFICES ASSUME Init PROVE Typed OBVIOUS
<1> USE DEF Init, Cached, NoOp, NoEvict, NoDel, IdleML, PCs, LoopPCs, DeletePCs
<1>1. items = <<>> /\ badger = <<>> /\ DOMAIN <<>> = {} OBVIOUS
<1>2. MemoryTyped BY <1>1 DEF MemoryTyped
<1>3. StorageTyped
  <2>1. wal \in Seq(Entries) /\ walBroken \in BOOLEAN BY EmptySeq
  <2>2. DOMAIN badger = {} BY <1>1
  <2> QED BY <2>1, <2>2 DEF StorageTyped
<1>4. CallTyped
  <2>1. op \in Ops BY DEF Ops
  <2>2. ev \in Evictions BY DEF Eviction, Evictions
  <2> QED BY <2>1, <2>2 DEF CallTyped
<1>5. WorkersTyped
  <2>1. recovering \in BOOLEAN /\ dbClosed \in BOOLEAN OBVIOUS
  <2>2. ml \in [phase : {"idle", "asking", "retrying", "deleting"},
                keys : SUBSET Keys, key : Keys \cup {NoKey}]
    OBVIOUS
  <2>3. tokens \in 0..ChanCap /\ sweep \subseteq Keys /\ next \in Nat \ {0} /\ crashes \in Nat
    BY ChanCapAssumption
  <2> QED BY <2>1, <2>2, <2>3 DEF WorkersTyped
<1>6. Policed BY NewPolicyConsistent DEF Policed
<1>7. Calls BY SMT DEF Calls, Evicting
<1>8. Others BY DEF Others
<1> QED BY <1>2, <1>3, <1>4, <1>5, <1>6, <1>7, <1>8 DEF Typed, TypeOK

(* Only these actions touch the memory of the cache.                        *)
LEMMA MemoryFrame ==
  [Next]_vars => \/ Reserve \/ Insert \/ Unlink \/ Attempt \/ Crash
                 \/ \E key \in Keys : Get(key) \/ Expire(key)
                 \/ UNCHANGED memory
BY DEF Next, vars, Writer, MLWorker, Store, Trigger, ChooseVictim, Verify, LogDelete,
       Purge, Return, ClientSet, ClientDelete, TriggerMLEviction, SweepCollect,
       SweepDelete, TakeSnapshot, MLTake, MLPredict, MLFallback, MLBaseChoice,
       MLDelete, StopWorkers, CloseLog, ReplayEntry, FinishRecovery, SetWithTTL, Delete, memory

(* An item enters or leaves the map and the policy together.                *)
LEMMA EnterDrop ==
  ASSUME Typed, NEW key \in Keys
  PROVE  /\ \A val \in Values, ttl \in {"none", "subsecond", "seconds"} :
              EnterItem(key, val, ttl) => MemoryTyped' /\ Policed' /\ Cached' = Cached \cup {key}
         /\ key \in Cached /\ DropItem(key) => MemoryTyped' /\ Policed' /\ Cached' = Cached \ {key}
<1> USE DEF Typed, TypeOK, MemoryTyped, Policed, Cached
<1>1. ASSUME NEW val \in Values, NEW ttl \in {"none", "subsecond", "seconds"},
             EnterItem(key, val, ttl)
      PROVE  MemoryTyped' /\ Policed' /\ Cached' = Cached \cup {key}
  <2> DEFINE exp == IF ttl = "none" THEN "never" ELSE "live"
  <2>1. Cached' = Cached \cup {key} BY <1>1 DEF EnterItem, With
  <2>2. \A k \in Cached' : items'[k] = IF k = key THEN [val |-> val, exp |-> exp] ELSE items[k]
    BY <1>1 DEF EnterItem, With
  <2>3. used' \in Int BY <1>1, SizeAssumption DEF EnterItem
  <2>4. MemoryTyped' BY <2>1, <2>2, <2>3
  <2>5. Policed' BY <1>1, <2>1, PolicyHooks DEF EnterItem
  <2> QED BY <2>1, <2>4, <2>5
<1>2. ASSUME key \in Cached, DropItem(key)
      PROVE  MemoryTyped' /\ Policed' /\ Cached' = Cached \ {key}
  <2>1. Cached' = Cached \ {key} BY <1>2 DEF DropItem, Without
  <2>2. \A k \in Cached' : items'[k] = items[k] BY <1>2 DEF DropItem, Without
  <2>3. used' \in Int BY <1>2, SizeAssumption DEF DropItem, SizeOf
  <2>4. MemoryTyped' BY <2>1, <2>2, <2>3
  <2>5. Policed' BY <1>2, <2>1, PolicyHooks DEF DropItem
  <2> QED BY <2>1, <2>4, <2>5
<1> QED BY <1>1, <1>2

(* A step of any actor keeps the items, the counter and the policy typed.   *)
LEMMA MemoryStep == Typed /\ [Next]_vars => MemoryTyped' /\ Policed'
<1> SUFFICES ASSUME Typed, [Next]_vars PROVE MemoryTyped' /\ Policed' OBVIOUS
<1> USE DEF Typed, TypeOK, MemoryTyped, Policed, Cached
<1>1. CASE Reserve
  <2>1. op.key \in Keys /\ op.val \in Values BY <1>1 DEF Reserve, Calls
  <2>2. Released(op.key) \in Int BY SizeAssumption DEF Released, SizeOf
  <2> QED BY <1>1, <2>2 DEF Reserve
<1>2. CASE Insert
  <2>1. op.key \in Keys /\ op.val \in Values BY <1>2 DEF Insert, Calls
  <2>2. op.ttl \in {"none", "subsecond", "seconds"} BY DEF CallTyped, Ops
  <2> QED BY <1>2, <2>1, <2>2, EnterDrop DEF Insert
<1>3. CASE Unlink
  <2>1. CASE del.key \in Cached BY <1>3, <2>1, EnterDrop DEF Unlink
  <2>2. CASE UNCHANGED memory BY <2>2 DEF memory
  <2> QED BY <1>3, <2>1, <2>2 DEF Unlink
<1>4. CASE Attempt BY <1>4, PolicyHooks DEF Attempt
<1>5. CASE Crash
  <2>1. items' = <<>> /\ DOMAIN <<>> = {} BY <1>5 DEF Crash, FreshProcess
  <2> QED BY <1>5, <2>1, NewPolicyConsistent DEF Crash, FreshProcess
<1>6. ASSUME NEW key \in Keys, Get(key) PROVE MemoryTyped' /\ Policed'
  BY <1>6, PolicyHooks DEF Get
<1>7. ASSUME NEW key \in Keys, Expire(key) PROVE MemoryTyped' /\ Policed'
  BY <1>7 DEF Expire
<1>8. CASE UNCHANGED memory BY <1>8 DEF memory
<1> QED BY <1>1, <1>2, <1>3, <1>4, <1>5, <1>6, <1>7, <1>8, MemoryFrame

(* A victim an eviction may be offered is cached.                           *)
LEMMA CandidatesCached ==
  ASSUME Typed
  PROVE  /\ BaseChoices(policy) \subseteq Cached
         /\ Candidates(policy, Cached) \subseteq Cached
         /\ HasVictim(policy) => Victim(policy) \in Cached
BY VictimIsKey DEF Typed, Policed, BaseChoices, Candidates

(* What the loop reads of evictKey and ok is of their types, and what it    *)
(* wrote itself when no other node writes them.                             *)
LEMMA Seen ==
  ASSUME Typed
  PROVE  /\ SeenKeys \subseteq Keys \cup {NoKey} /\ SeenOk \subseteq BOOLEAN
         /\ Alone => SeenKeys = {evictKey} /\ SeenOk = {evictOk}
BY DEF Typed, TypeOK, CallTyped, SeenKeys, SeenOk, Alone

Callers == {"client", "sweeper", "mlworker", "loader"}

(* What runs beside the holder of writeMu leaves alone.                     *)
Aside ==
  /\ UNCHANGED <<log, globals, pc, op, ev, del, used>> /\ (recovering' => recovering)
  /\ Cached' = Cached /\ \A key \in Cached : items'[key].val = items[key].val
  /\ PolicyKeys(policy') = PolicyKeys(policy)
  /\ UNCHANGED badger \/ TakeSnapshot

(* Every step takes writeMu, is one of its holder, kills the process, or    *)
(* leaves the call in flight alone.                                         *)
LEMMA CallFrame ==
  ASSUME Typed, [Next]_vars
  PROVE  \/ \E by \in Callers, key \in Keys, val \in Values,
               ttl \in {"none", "subsecond", "seconds"} : SetWithTTL(by, key, val, ttl)
         \/ \E by \in Callers, key \in Keys \cup {NoKey} : Delete(by, key)
         \/ Writer \/ Crash \/ CloseLog
         \/ Aside
<1>1. CASE ClientSet BY <1>1, ChoiceAssumption DEF ClientSet, Callers
<1>2. CASE ClientDelete BY <1>2 DEF ClientDelete, Callers
<1>3. CASE SweepDelete BY <1>3 DEF SweepDelete, Callers, Typed, TypeOK, WorkersTyped
<1>4. CASE MLDelete BY <1>4 DEF MLDelete, Callers, Typed, Others
<1>5. CASE ReplayEntry
  <2>1. wal[next] \in Entries
    <3>1. wal \in Seq(Entries) /\ next \in Nat \ {0} BY DEF Typed, TypeOK, StorageTyped, WorkersTyped
    <3>2. next <= Len(wal) BY <1>5 DEF ReplayEntry
    <3> QED BY <3>1, <3>2
  <2>2. wal[next].key \in Keys \cup {NoKey} BY <2>1 DEF Entries
  <2>3. wal[next].op = "set" =>
          wal[next].key \in Keys /\ wal[next].val \in Values /\ wal[next].ttl \in {"none", "subsecond", "seconds"}
    BY <2>1 DEF Entries
  <2> QED BY <1>5, <2>2, <2>3 DEF ReplayEntry, Callers
<1>6. CASE TakeSnapshot BY <1>6 DEF TakeSnapshot, memory, process, Cached, Aside
<1>7. CASE FinishRecovery BY <1>7 DEF FinishRecovery, memory, Cached, Aside
<1>8. ASSUME NEW key \in Keys, Get(key) PROVE Aside
  BY <1>8, PolicyHooks DEF Get, process, Cached, Aside, Typed, Policed
<1>9. ASSUME NEW key \in Keys, Expire(key) PROVE Aside
  <2>1. Cached' = Cached /\ \A k \in Cached : items'[k].val = items[k].val
    BY <1>9 DEF Expire, Cached, Typed, TypeOK, MemoryTyped
  <2> QED BY <1>9, <2>1 DEF Expire, process, Aside
<1>10. CASE UNCHANGED vars BY <1>10 DEF vars, memory, process, Cached, Aside
<1>11. CASE \/ TriggerMLEviction \/ SweepCollect \/ StopWorkers
            \/ MLTake \/ MLPredict \/ MLFallback \/ MLBaseChoice
  <2>1. UNCHANGED <<memory, log, badger, globals, pc, op, ev, del, recovering>>
    BY <1>11, Zenon
    DEF process, TriggerMLEviction, SweepCollect, StopWorkers, MLTake, MLPredict, MLFallback, MLBaseChoice
  <2> QED BY <2>1 DEF memory, Cached, Aside
<1> QED BY <1>1, <1>2, <1>3, <1>4, <1>5, <1>6, <1>7, <1>8, <1>9, <1>10, <1>11 DEF Next, MLWorker

(* Only calls and TakeSnapshot write the log or Badger.                     *)
LEMMA StorageStep == Typed /\ [Next]_vars => StorageTyped'
<1> SUFFICES ASSUME Typed, [Next]_vars PROVE StorageTyped' OBVIOUS
<1> USE DEF Typed, TypeOK, StorageTyped
<1>1. ASSUME NEW entry \in Entries, Logged(entry)
      PROVE  wal' \in Seq(Entries) /\ walBroken' \in BOOLEAN
  BY <1>1 DEF Logged, log
<1>2. LogFails => wal' \in Seq(Entries) /\ walBroken' \in BOOLEAN BY DEF LogFails
<1>3. CASE UNCHANGED <<log, badger>> BY <1>3 DEF log
<1>4. ASSUME NEW by \in Callers, NEW key \in Keys, NEW val \in Values,
             NEW ttl \in {"none", "subsecond", "seconds"}, SetWithTTL(by, key, val, ttl)
      PROVE  StorageTyped'
  <2>1. SetEntry(key, val, ttl) \in Entries BY DEF SetEntry, LoggedTTL, Entries
  <2> QED BY <2>1, <1>1, <1>2, <1>4 DEF SetWithTTL
<1>5. ASSUME NEW by \in Callers, NEW key \in Keys \cup {NoKey}, Delete(by, key) PROVE StorageTyped'
  BY <1>5 DEF Delete, log
<1>6. CASE LogDelete
  <2>1. DeleteEntry(del.key) \in Entries
    BY DEF CallTyped, DeleteEntry, Entries
  <2> QED BY <2>1, <1>1, <1>2, <1>6 DEF LogDelete
<1>7. CASE Store
  <2>1. op.key \in Keys /\ op.val \in Values BY <1>7 DEF Store, Calls
  <2> QED BY <1>7, <2>1 DEF Store, With, log
<1>8. CASE Purge BY <1>8 DEF Purge, Without, log
<1>9. CASE TakeSnapshot BY <1>9 DEF TakeSnapshot, MemoryTyped, log
<1>10. CASE Crash BY <1>10 DEF Crash, FreshProcess
<1>11. CASE Reserve \/ Insert \/ Trigger \/ ChooseVictim \/ Attempt \/ Verify \/ Unlink \/ Return
  BY <1>11, <1>3 DEF Reserve, Insert, Trigger, ChooseVictim, Attempt, Verify, Unlink, Return
<1>12. CASE CloseLog BY <1>12 DEF CloseLog
<1> QED BY <1>3, <1>4, <1>5, <1>6, <1>7, <1>8, <1>9, <1>10, <1>11, <1>12, CallFrame DEF Writer, Aside

(* An eviction starts with a request in bytes and nothing attempted.        *)
LEMMA EvictionStarts ==
  ASSUME NEW bytes \in Int, NEW proactive \in BOOLEAN
  PROVE  /\ Eviction(bytes, proactive) \in Evictions
         /\ Eviction(bytes, proactive).need = bytes
         /\ Eviction(bytes, proactive).proactive = proactive
         /\ Eviction(bytes, proactive).evicted = 0
         /\ Eviction(bytes, proactive).attempted = {}
BY DEF Eviction, Evictions

(* What the call in flight works on keeps its type and its meaning.         *)
LEMMA CallStep == Typed /\ [Next]_vars => CallTyped' /\ Calls'
<1> SUFFICES ASSUME Typed, [Next]_vars PROVE CallTyped' /\ Calls' OBVIOUS
<1> USE DEF Typed, TypeOK, CallTyped, Calls, Evicting, PCs, LoopPCs, DeletePCs, globals
<1>0. NoEvict \in Evictions /\ NoOp \in Ops /\ NoDel \in [key : Keys \cup {NoKey}, evicting : BOOLEAN]
  <2>1. NoEvict \in Evictions BY DEF NoEvict, Eviction, Evictions
  <2>2. NoOp \in Ops BY DEF NoOp, Ops
  <2>3. NoDel \in [key : Keys \cup {NoKey}, evicting : BOOLEAN] BY DEF NoDel
  <2> QED BY <2>1, <2>2, <2>3
<1>1. ASSUME NEW by \in Callers, NEW key \in Keys, NEW val \in Values,
             NEW ttl \in {"none", "subsecond", "seconds"}, SetWithTTL(by, key, val, ttl)
      PROVE  CallTyped' /\ Calls'
  <2>1. op' \in Ops /\ op'.key \in Keys /\ op'.val \in Values
    BY <1>1 DEF SetWithTTL, Ops, Callers
  <2> QED BY <1>1, <2>1 DEF SetWithTTL
<1>2. ASSUME NEW by \in Callers, NEW key \in Keys \cup {NoKey}, Delete(by, key)
      PROVE  CallTyped' /\ Calls'
  <2>1. op' \in Ops BY <1>2 DEF Delete, NoOp, Ops, Callers
  <2>2. del' \in [key : Keys \cup {NoKey}, evicting : BOOLEAN] /\ ~del'.evicting
    BY <1>2 DEF Delete
  <2> QED BY <1>2, <2>1, <2>2 DEF Delete
<1>3. CASE Reserve
  <2>1. Size[op.val] \in Int BY <1>3, SizeAssumption DEF Reserve
  <2> QED BY <1>3, <2>1, EvictionStarts DEF Reserve
<1>4. CASE Insert BY <1>4 DEF Insert
<1>5. CASE Store BY <1>5 DEF Store
<1>6. CASE Trigger
  <2>1. OverHalf \in Int BY CapacityAssumption DEF OverHalf, MemoryTyped
  <2> QED BY <1>6, <2>1, EvictionStarts DEF Trigger
<1>7. CASE ChooseVictim
  <2>1. CASE EvictionEnds /\ UNCHANGED globals
    BY <2>1, <1>7, <1>0 DEF ChooseVictim, EvictionEnds
  <2>2. CASE \E key \in Cached \cup {NoKey} :
               /\ evictKey' = key /\ evictOk' = (key # NoKey)
               /\ pc' = "attempt" /\ UNCHANGED ev
    <3>1. Cached' = Cached BY <1>7 DEF ChooseVictim, memory, Cached
    <3> QED BY <2>2, <3>1, <1>7 DEF ChooseVictim, MemoryTyped
  <2> QED BY <2>1, <2>2, <1>7, CandidatesCached DEF ChooseVictim
<1>8. CASE Attempt
  <2>1. PICK ok \in SeenOk, key \in SeenKeys, again \in SeenKeys :
           IF NewCandidate(ok, key)
           THEN ev' = [ev EXCEPT !.attempted = @ \cup {again}] /\ pc' = "verify"
           ELSE EvictionEnds
    BY <1>8 DEF Attempt
  <2>2. UNCHANGED <<globals, op, del, recovering>> /\ Cached' = Cached
    BY <1>8 DEF Attempt, process, Cached
  <2>3. CASE NewCandidate(ok, key)
    <3>1. ev' \in Evictions /\ ev'.need = ev.need /\ ev'.proactive = ev.proactive
      BY <2>1, <2>3, Seen DEF Evictions
    <3>2. Alone => evictKey \in Cached
      BY <1>8, <2>3, Seen DEF Attempt, NewCandidate
    <3> QED BY <1>8, <2>1, <2>2, <2>3, <3>1, <3>2 DEF Attempt, Alone
  <2>4. CASE ~NewCandidate(ok, key)
    <3>1. EvictionEnds /\ UNCHANGED <<globals, op, del>> BY <2>1, <2>2, <2>4
    <3> QED BY <1>8, <3>1, <1>0 DEF Attempt, EvictionEnds
  <2> QED BY <2>3, <2>4
<1>9. CASE Verify
  <2>1. CASE EvictionEnds /\ UNCHANGED del BY <1>9, <2>1, <1>0 DEF Verify, EvictionEnds
  <2>2. ASSUME NEW victim \in SeenKeys, del' = [key |-> victim, evicting |-> TRUE],
               pc' = "log", UNCHANGED ev
        PROVE  CallTyped' /\ Calls'
    <3>1. del' \in [key : Keys \cup {NoKey}, evicting : BOOLEAN]
      BY <2>2, Seen
    <3> QED BY <1>9, <2>2, <3>1 DEF Verify
  <2> QED BY <1>9, <2>1, <2>2 DEF Verify
<1>10. ASSUME pc \in DeletePCs, NEW success \in BOOLEAN, DeleteReturns(success),
              UNCHANGED <<globals, op>>
       PROVE  CallTyped' /\ Calls'
  <2>1. ev' \in Evictions /\ ev'.need = ev.need /\ ev'.proactive = ev.proactive
    BY <1>10 DEF DeleteReturns, Evictions
  <2> QED BY <1>10, <2>1, <1>0 DEF DeleteReturns
<1>11. CASE LogDelete BY <1>11, <1>10 DEF LogDelete
<1>12. CASE Unlink BY <1>12, <1>10 DEF Unlink
<1>13. CASE Purge BY <1>13, <1>10 DEF Purge
<1>14. CASE Return BY <1>14, <1>0 DEF Return
<1>15. CASE Crash BY <1>15, <1>0 DEF Crash, FreshProcess
<1>16. CASE Aside
  <2>1. Alone' /\ pc # "idle" => Alone
    BY <1>16 DEF Aside, Alone
  <2> QED BY <1>16, <2>1 DEF Aside
<1>17. CASE CloseLog BY <1>17 DEF CloseLog, memory, Cached, Alone, process
<1>18. CASE Writer
  BY <1>3, <1>4, <1>5, <1>6, <1>7, <1>8, <1>9, <1>11, <1>12, <1>13, <1>14, <1>18, Zenon
     DEF Writer
<1> QED BY <1>1, <1>2, <1>15, <1>16, <1>17, <1>18, CallFrame

(* The workers, the replay and the other variables keep their types.        *)
LEMMA WorkersStep == Typed /\ [Next]_vars => WorkersTyped' /\ Others'
<1> SUFFICES ASSUME Typed, [Next]_vars PROVE WorkersTyped' /\ Others' OBVIOUS
<1> USE ChanCapAssumption
    DEF Typed, TypeOK, WorkersTyped, Others, workers, process, log
<1>1. Cached \subseteq Keys BY DEF MemoryTyped
<1>2. SendToken => tokens' \in 0..ChanCap BY DEF SendToken
<1>3. ASSUME NEW entry, Logged(entry) PROVE UNCHANGED <<recovering, dbClosed>> => Others' \/ ml' # ml
  BY <1>3 DEF Logged
<1>4. LogFails /\ UNCHANGED <<recovering, dbClosed>> => Others' \/ ml' # ml BY DEF LogFails
<1>5. CASE Reserve \/ Insert \/ Store \/ ChooseVictim \/ Attempt \/ Verify \/ Unlink \/ Purge \/ Return
  <2>1. UNCHANGED <<log, workers, process>>
    BY <1>5, Zenon
    DEF Reserve, Insert, Store, ChooseVictim, Attempt, Verify, Unlink, Purge, Return
  <2> QED BY <2>1
<1>6. CASE LogDelete BY <1>6, <1>3, <1>4 DEF LogDelete
<1>7. CASE Trigger \/ TriggerMLEviction
  <2>1. tokens' \in 0..ChanCap BY <1>7, <1>2 DEF Trigger, TriggerMLEviction
  <2>2. UNCHANGED <<log, ml, sweep, process>> BY <1>7 DEF Trigger, TriggerMLEviction
  <2> QED BY <2>1, <2>2
<1>8. CASE ClientSet BY <1>8, <1>3, <1>4 DEF ClientSet, SetWithTTL
<1>9. CASE ClientDelete \/ SweepDelete
  <2>1. UNCHANGED <<log, tokens, ml, process>> /\ sweep' \subseteq sweep
    BY <1>9 DEF ClientDelete, SweepDelete, Delete
  <2> QED BY <2>1
<1>10. CASE \E key \in Keys : Get(key) \/ Expire(key) BY <1>10 DEF Get, Expire
<1>11. CASE SweepCollect BY <1>11, <1>1 DEF SweepCollect, Expired
<1>12. CASE TakeSnapshot BY <1>12 DEF TakeSnapshot
<1>13. CASE MLTake
  <2>1. tokens' \in 0..ChanCap BY <1>13 DEF MLTake
  <2>2. ml' = ml \/ ml' = [phase |-> "asking", keys |-> Cached, key |-> NoKey]
    BY <1>13 DEF MLTake, IdleML
  <2>3. UNCHANGED <<log, sweep, process>> BY <1>13 DEF MLTake
  <2> QED BY <2>1, <2>2, <2>3, <1>1
<1>14. CASE MLPredict BY <1>14 DEF MLPredict, IdleML
<1>15. CASE MLFallback BY <1>15, <1>1 DEF MLFallback, IdleML
<1>16. CASE MLBaseChoice
  <2>1. HasVictim(policy) => Victim(policy) \in Keys BY <1>1, CandidatesCached
  <2> QED BY <1>16, <2>1 DEF MLBaseChoice, IdleML
<1>17. CASE MLDelete BY <1>17 DEF MLDelete, Delete, IdleML
<1>18. CASE Crash
  <2>1. recovering' \in BOOLEAN /\ dbClosed' \in BOOLEAN BY <1>18 DEF Crash, FreshProcess
  <2>2. ml' \in [phase : {"idle", "asking", "retrying", "deleting"},
                 keys : SUBSET Keys, key : Keys \cup {NoKey}] /\ ml'.phase = "idle"
    BY <1>18 DEF Crash, FreshProcess, IdleML
  <2>3. tokens' \in 0..ChanCap /\ sweep' \subseteq Keys /\ next' \in Nat \ {0} /\ crashes' \in Nat
    BY <1>18 DEF Crash, FreshProcess
  <2>4. ~walBroken' /\ ~dbClosed' BY <1>18 DEF Crash, FreshProcess
  <2> QED BY <2>1, <2>2, <2>3, <2>4
<1>19. CASE ReplayEntry BY <1>19, <1>3, <1>4 DEF ReplayEntry, SetWithTTL, Delete
<1>20. CASE FinishRecovery BY <1>20 DEF FinishRecovery
<1>21. CASE UNCHANGED vars BY <1>21 DEF vars
<1>22. CASE StopWorkers BY <1>22 DEF StopWorkers
<1>23. CASE CloseLog BY <1>23 DEF CloseLog
<1> QED BY <1>5, <1>6, <1>7, <1>8, <1>9, <1>10, <1>11, <1>12, <1>13, <1>14, <1>15, <1>16,
           <1>17, <1>18, <1>19, <1>20, <1>21, <1>22, <1>23 DEF Next, Writer, MLWorker

(* Every step keeps every type.                                             *)
LEMMA TypedStep == Typed /\ [Next]_vars => Typed'
BY MemoryStep, StorageStep, CallStep, WorkersStep DEF Typed, TypeOK

(* The types are an invariant.                                              *)
LEMMA AlwaysTyped == Spec => []Typed
BY TypedInit, TypedStep, PTL DEF Spec

(* Every variable of a cache node keeps its type, the log's entries, the    *)
(* locals of the call in flight and the buffered tokens of mlEvictCh, never *)
(* more than its capacity, included.                                        *)
THEOREM TypeSafe == Spec => []TypeOK
BY AlwaysTyped, PTL DEF Typed
-----------------------------------------------------------------------------
(* Proof that a cache node keeps what cluster.go relies on: cache.go        *)
(* implements NodeCache, whatever fails, for every policy and size.         *)

(* A loop that frees space proactively runs for a Set that has taken        *)
(* effect, and a Delete works on the key of its caller.                     *)
Staged ==
  /\ ev.proactive => Evicting /\ op.key \in Keys /\ op.val \in Values
  /\ pc \in DeletePCs /\ ~del.evicting => op.val = NoValue /\ op.key = del.key

(* Only what enters or leaves the map changes what callers see of it.       *)
LEMMA ContentSame ==
  ASSUME Cached' = Cached, \A key \in Cached : items'[key].val = items[key].val
  PROVE  Content' = Content
BY DEF Content

LEMMA ContentKept == UNCHANGED items => UNCHANGED Content
BY DEF Content, Cached

(* An eviction ends without an effect, with a Set that is still to be done. *)
LEMMA LoopEnds ==
  ASSUME pc \in LoopPCs, Typed, Staged, EvictionEnds, UNCHANGED <<items, op>>
  PROVE  [Interface!Next]_(Interface!vars) /\ Staged'
<1>1. UNCHANGED <<Content, Request>> BY ContentKept DEF Request
<1>2. ~ev'.proactive BY DEF EvictionEnds, NoEvict, Eviction
<1>3. pc' \in {"ok", "insert", "error"} BY DEF EvictionEnds
<1>4. Staged' BY <1>2, <1>3 DEF Staged, DeletePCs
<1>5. CASE ev.proactive
  <2>1. CallPhase = "done" /\ CallPhase' = "ok"
    BY <1>2, <1>5 DEF CallPhase, EvictionEnds, LoopPCs
  <2> QED BY <1>1, <1>4, <2>1 DEF Interface!Next, Interface!Succeed
<1>6. CASE ~ev.proactive
  <2>1. CallPhase = "open" BY <1>6 DEF CallPhase, LoopPCs
  <2>2. CallPhase' = IF pc' = "insert" THEN "open" ELSE "error"
    BY <1>2, <1>3, <1>6 DEF CallPhase, EvictionEnds
  <2> QED BY <1>1, <1>4, <2>1, <2>2 DEF Interface!Next, Interface!Fail, Interface!vars
<1> QED BY <1>5, <1>6

(* The loop goes on: its caller sees nothing.                               *)
LEMMA LoopGoesOn ==
  ASSUME Evicting, Evicting', Typed, Staged, UNCHANGED <<items, op>>, ev'.proactive = ev.proactive
  PROVE  [Interface!Next]_(Interface!vars) /\ Staged'
<1>1. UNCHANGED <<Content, Request>> BY ContentKept DEF Request
<1>2. CallPhase = (IF ev.proactive THEN "done" ELSE "open")
  BY DEF Evicting, CallPhase, LoopPCs, DeletePCs
<1>3. CallPhase' = (IF ev'.proactive THEN "done" ELSE "open")
  BY DEF Evicting, CallPhase, LoopPCs, DeletePCs
<1>4. Staged' BY DEF Staged, Evicting, LoopPCs, DeletePCs
<1> QED BY <1>1, <1>2, <1>3, <1>4 DEF Interface!vars

(* What deleteLocked returns to, with nothing left to change.               *)
LEMMA DeletionReturns ==
  ASSUME pc \in DeletePCs, Typed, Staged, NEW success \in BOOLEAN, DeleteReturns(success),
         UNCHANGED <<items, op>>, success /\ pc # "purge" => del.key \notin Cached
  PROVE  [Interface!Next]_(Interface!vars) /\ Staged'
<1>1. CASE del.evicting
  <2>1. pc' = "evict" /\ ev'.proactive = ev.proactive
    BY <1>1 DEF DeleteReturns, Typed, TypeOK, CallTyped, Evictions
  <2> QED BY <1>1, <2>1, LoopGoesOn DEF Evicting, LoopPCs
<1>2. CASE ~del.evicting
  <2>1. UNCHANGED <<Content, Request, ev>> BY <1>2, ContentKept DEF Request, DeleteReturns
  <2>2. ~ev.proactive BY <1>2 DEF Staged, Evicting, LoopPCs, DeletePCs
  <2>3. CallPhase = (IF pc = "purge" THEN "done" ELSE "open")
    BY <1>2, <2>2 DEF CallPhase, DeletePCs
  <2>4. pc' = (IF success THEN "ok" ELSE "error") /\ CallPhase' = pc'
    BY <1>2, <2>1, <2>2 DEF DeleteReturns, CallPhase
  <2>5. Staged' BY <2>1, <2>2, <2>4 DEF Staged, DeletePCs
  <2>6. CASE success /\ pc # "purge"
    <3>1. Request \in Interface!Deletes /\ Request.key = del.key
      BY <1>2 DEF Staged, Request, Interface!Deletes, Typed, TypeOK, CallTyped
    <3>2. Request.key \notin DOMAIN Content BY <2>6, <3>1 DEF Content
    <3> QED BY <2>1, <2>3, <2>4, <2>5, <2>6, <3>1, <3>2
            DEF Interface!Next, Interface!NothingToDelete
  <2>7. CASE success /\ pc = "purge"
    BY <2>1, <2>3, <2>4, <2>5, <2>7 DEF Interface!Next, Interface!Succeed
  <2>8. CASE ~success
    BY <2>1, <2>3, <2>4, <2>5, <2>8 DEF Interface!Next, Interface!Fail
  <2> QED BY <2>6, <2>7, <2>8
<1> QED BY <1>1, <1>2
-----------------------------------------------------------------------------
(* Calls begin.                                                             *)
LEMMA CallBegins ==
  ASSUME Typed, Staged,
         \/ \E by \in Callers, key \in Keys, val \in Values,
               ttl \in {"none", "subsecond", "seconds"} : SetWithTTL(by, key, val, ttl)
         \/ \E by \in Callers, key \in Keys \cup {NoKey} : Delete(by, key)
  PROVE  [Interface!Next]_(Interface!vars) /\ Staged'
<1>0. pc = "idle" /\ UNCHANGED <<items, ev>> BY DEF SetWithTTL, Delete, memory
<1>1. ~ev.proactive /\ CallPhase = "free" /\ UNCHANGED Content
  BY <1>0, ContentKept DEF Staged, Evicting, LoopPCs, DeletePCs, CallPhase
<1>2. ASSUME NEW by \in Callers, NEW key \in Keys, NEW val \in Values,
             NEW ttl \in {"none", "subsecond", "seconds"}, SetWithTTL(by, key, val, ttl)
      PROVE  [Interface!Next]_(Interface!vars) /\ Staged'
  <2>1. pc' \in {"error", "reserve"} /\ Request' \in Interface!Sets
    BY <1>2 DEF SetWithTTL, Request, Interface!Sets
  <2>2. CallPhase' \in {"open", "error"} BY <1>0, <1>1, <2>1 DEF CallPhase
  <2>3. Staged' BY <1>0, <1>1, <2>1 DEF Staged, DeletePCs
  <2> QED BY <1>1, <2>1, <2>2, <2>3 DEF Interface!Next, Interface!Begin
<1>3. ASSUME NEW by \in Callers, NEW key \in Keys \cup {NoKey}, Delete(by, key)
      PROVE  [Interface!Next]_(Interface!vars) /\ Staged'
  <2>1. pc' = "log" /\ Request' \in Interface!Deletes
    BY <1>3 DEF Delete, NoOp, Request, Interface!Deletes
  <2>2. CallPhase' = "open" BY <1>0, <1>1, <2>1 DEF CallPhase
  <2>3. Staged' BY <1>0, <1>1, <1>3 DEF Staged, Delete, NoOp
  <2> QED BY <1>1, <2>1, <2>2, <2>3 DEF Interface!Next, Interface!Begin
<1> QED BY <1>2, <1>3
-----------------------------------------------------------------------------
(* The steps of a Set up to Insert, and after it.                           *)
LEMMA SetSteps ==
  ASSUME Typed, Staged, Reserve \/ Insert \/ Store \/ Trigger
  PROVE  [Interface!Next]_(Interface!vars) /\ Staged'
<1>0. /\ pc \in {"reserve", "insert", "store", "trigger"} /\ UNCHANGED Request
      /\ op.key \in Keys /\ op.val \in Values
  BY DEF Reserve, Insert, Store, Trigger, Request, Typed, Calls
<1>1. ~ev.proactive BY <1>0 DEF Staged, Evicting, LoopPCs, DeletePCs
<1>2. CallPhase = (IF pc \in {"reserve", "insert"} THEN "open" ELSE "done")
  BY <1>0, <1>1 DEF CallPhase
<1>3. CASE Reserve
  <2>1. UNCHANGED Content BY <1>3, ContentKept DEF Reserve
  <2>2. pc' \in {"evict", "insert"} /\ ~ev'.proactive
    BY <1>1, <1>3 DEF Reserve, Eviction
  <2>3. pc = "reserve" /\ CallPhase' = "open" BY <1>3, <2>2 DEF CallPhase, Reserve
  <2>4. Staged' BY <2>2 DEF Staged, DeletePCs
  <2> QED BY <1>0, <1>2, <2>1, <2>3, <2>4 DEF Interface!vars
<1>4. CASE Insert
  <2>1. Request \in Interface!Sets BY <1>0 DEF Request, Interface!Sets
  <2>2. Cached' = Cached \cup {op.key}
    BY <1>4 DEF Insert, EnterItem, With, Cached
  <2>3. \A k \in Cached' : items'[k].val = IF k = op.key THEN op.val ELSE items[k].val
    BY <1>4 DEF Insert, EnterItem, With, Cached
  <2>4. Content' = Interface!More(Request)
    BY <2>2, <2>3 DEF Content, Interface!More, Request
  <2>5. pc = "insert" /\ pc' = "store" /\ UNCHANGED ev BY <1>4 DEF Insert
  <2>6. CallPhase' = "done" BY <1>1, <2>5 DEF CallPhase
  <2>7. Staged' BY <1>1, <2>5 DEF Staged, DeletePCs
  <2> QED BY <1>0, <1>2, <2>1, <2>4, <2>5, <2>6, <2>7 DEF Interface!Next, Interface!TakeEffect
<1>5. CASE Store
  <2>1. UNCHANGED <<Content, ev>> /\ pc = "store" /\ pc' \in {"trigger", "error"}
    BY <1>5, ContentKept DEF Store, memory
  <2>2. CallPhase' = IF pc' = "trigger" THEN "done" ELSE "error"
    BY <1>1, <2>1 DEF CallPhase
  <2>3. Staged' BY <1>1, <2>1 DEF Staged, DeletePCs
  <2> QED BY <1>0, <1>2, <2>1, <2>2, <2>3 DEF Interface!Next, Interface!Fail, Interface!vars
<1>6. CASE Trigger
  <2>1. UNCHANGED <<Content, op>> /\ pc = "trigger" BY <1>6, ContentKept DEF Trigger, memory
  <2>2. \/ pc' = "ok" /\ UNCHANGED ev
        \/ pc' = "evict" /\ ev'.proactive
    BY <1>6 DEF Trigger, Eviction
  <2>3. CallPhase' = IF pc' = "ok" THEN "ok" ELSE "done"
    BY <1>1, <2>2 DEF CallPhase
  <2>4. Staged' BY <1>0, <1>1, <2>1, <2>2 DEF Staged, Evicting, LoopPCs, DeletePCs
  <2> QED BY <1>0, <1>2, <2>1, <2>2, <2>3, <2>4 DEF Interface!Next, Interface!Succeed, Interface!vars
<1> QED BY <1>3, <1>4, <1>5, <1>6

(* The steps of an eviction loop.                                           *)
LEMMA LoopSteps ==
  ASSUME Typed, Staged, ChooseVictim \/ Attempt \/ Verify
  PROVE  [Interface!Next]_(Interface!vars) /\ Staged'
<1>0. pc \in LoopPCs /\ Evicting /\ UNCHANGED <<items, op>>
  BY DEF ChooseVictim, Attempt, Verify, LoopPCs, Evicting, memory
<1>1. \/ EvictionEnds
      \/ pc' \in {"attempt", "verify"} /\ ev'.proactive = ev.proactive
      \/ pc' = "log" /\ del'.evicting /\ UNCHANGED ev
  <2>1. CASE ChooseVictim BY <2>1 DEF ChooseVictim
  <2>2. CASE Attempt
    <3>1. PICK ok \in SeenOk, key \in SeenKeys, again \in SeenKeys :
             IF NewCandidate(ok, key)
             THEN ev' = [ev EXCEPT !.attempted = @ \cup {again}] /\ pc' = "verify"
             ELSE EvictionEnds
      BY <2>2 DEF Attempt
    <3> QED BY <3>1 DEF Typed, TypeOK, CallTyped, Evictions
  <2>3. CASE Verify BY <2>3 DEF Verify
  <2> QED BY <2>1, <2>2, <2>3
<1>2. CASE EvictionEnds BY <1>0, <1>2, LoopEnds
<1>3. CASE ~EvictionEnds
  <2>1. Evicting' /\ ev'.proactive = ev.proactive
    BY <1>1, <1>3 DEF Evicting, LoopPCs, DeletePCs
  <2> QED BY <1>0, <2>1, LoopGoesOn
<1> QED BY <1>2, <1>3

(* The steps of a deletion, for a Delete or for an eviction.                *)
LEMMA DeleteSteps ==
  ASSUME Typed, Staged, LogDelete \/ Unlink \/ Purge
  PROVE  [Interface!Next]_(Interface!vars) /\ Staged'
<1>0. pc \in DeletePCs /\ UNCHANGED <<op>> BY DEF LogDelete, Unlink, Purge, DeletePCs
<1>1. CASE LogDelete
  <2>0. UNCHANGED items /\ pc = "log" BY <1>1 DEF LogDelete, memory
  <2>1. CASE DeleteReturns(FALSE) BY <1>0, <2>0, <2>1, DeletionReturns
  <2>2. CASE pc' = "unlink" /\ UNCHANGED <<ev, del>>
    <3>1. CASE del.evicting BY <1>0, <2>0, <2>2, <3>1, LoopGoesOn DEF Evicting, DeletePCs
    <3>2. CASE ~del.evicting
      <4>1. CallPhase = "open" /\ CallPhase' = "open"
        BY <2>0, <2>2, <3>2 DEF CallPhase, Staged, Evicting, LoopPCs
      <4>2. UNCHANGED <<Content, Request>> BY <1>0, <2>0, ContentKept DEF Request
      <4>3. Staged' BY <1>0, <2>0, <2>2, <3>2 DEF Staged, Evicting, LoopPCs, DeletePCs
      <4> QED BY <4>1, <4>2, <4>3 DEF Interface!vars
    <3> QED BY <3>1, <3>2
  <2> QED BY <1>1, <2>1, <2>2 DEF LogDelete
<1>2. CASE Unlink
  <2>0. pc = "unlink" BY <1>2 DEF Unlink
  <2>1. CASE del.key \notin Cached
    BY <1>0, <1>2, <2>0, <2>1, DeletionReturns DEF Unlink, memory
  <2>2. CASE del.key \in Cached
    <3>0. pc' = "purge" /\ UNCHANGED <<ev, del, Request>>
      BY <1>0, <1>2, <2>2 DEF Unlink, Request
    <3>1. items' = Without(items, del.key) BY <1>2, <2>2 DEF Unlink, DropItem
    <3>2. Content' = Interface!Less(del.key) /\ del.key \in DOMAIN Content
      BY <2>2, <3>1 DEF Content, Interface!Less, Without, Cached
    <3>3. CASE del.evicting
      <4>1. Request \in Interface!Sets
        BY <1>0, <3>3 DEF Request, Interface!Sets, Typed, Calls, Staged, Evicting
      <4>2. /\ CallPhase = (IF ev.proactive THEN "done" ELSE "open")
            /\ CallPhase' = CallPhase
        BY <2>0, <3>0, <3>3 DEF CallPhase
      <4>3. Staged' BY <1>0, <2>0, <3>0, <3>3 DEF Staged, Evicting, LoopPCs, DeletePCs
      <4> QED BY <3>0, <3>2, <4>1, <4>2, <4>3 DEF Interface!Next, Interface!Forget
    <3>4. CASE ~del.evicting
      <4>1. Request \notin Interface!Sets /\ Request.key = del.key
        BY <1>0, <3>4, SentinelAssumption DEF Request, Interface!Sets, Staged
      <4>2. ~ev.proactive BY <2>0, <3>4 DEF Staged, Evicting, LoopPCs
      <4>3. CallPhase = "open" /\ CallPhase' = "done"
        BY <2>0, <3>0, <3>4, <4>2 DEF CallPhase
      <4>4. Staged' BY <1>0, <2>0, <3>0, <3>4, <4>2 DEF Staged, DeletePCs
      <4> QED BY <3>0, <3>2, <4>1, <4>3, <4>4 DEF Interface!Next, Interface!TakeEffect
    <3> QED BY <3>3, <3>4
  <2> QED BY <2>1, <2>2
<1>3. CASE Purge
  <2>1. UNCHANGED items /\ pc = "purge" BY <1>3 DEF Purge, memory
  <2>2. PICK success \in BOOLEAN : DeleteReturns(success) BY <1>3 DEF Purge
  <2> QED BY <1>0, <2>1, <2>2, DeletionReturns
<1> QED BY <1>1, <1>2, <1>3

(* Every step of a cache node is one of the map or none.                    *)
LEMMA InterfaceStep ==
  Typed /\ Staged /\ [Next]_vars => [Interface!Next]_(Interface!vars) /\ Staged'
<1> SUFFICES ASSUME Typed, Staged, [Next]_vars
             PROVE  [Interface!Next]_(Interface!vars) /\ Staged'
  OBVIOUS
<1>1. CASE Return
  <2>1. /\ UNCHANGED <<Content, ev>> /\ pc \in {"ok", "error"} /\ pc' = "idle"
        /\ Request' = Interface!NoCall
    BY <1>1, ContentKept DEF Return, memory, Request, NoOp, Interface!NoCall
  <2>2. ~ev.proactive BY <2>1 DEF Staged, Evicting, LoopPCs, DeletePCs
  <2>3. CallPhase = pc /\ CallPhase' = "free" BY <2>1, <2>2 DEF CallPhase
  <2>4. Staged' BY <2>1, <2>2 DEF Staged, DeletePCs
  <2> QED BY <2>1, <2>3, <2>4 DEF Interface!Next, Interface!End
<1>2. CASE Crash
  <2>1. items' = <<>> /\ pc' = "idle" /\ op' = NoOp /\ ~ev'.proactive
    BY <1>2 DEF Crash, FreshProcess, NoEvict, Eviction
  <2>2. Content' = <<>> BY <2>1 DEF Content, Cached
  <2>3. Request' = Interface!NoCall BY <2>1 DEF Request, NoOp, Interface!NoCall
  <2>4. CallPhase' = "free" BY <2>1 DEF CallPhase
  <2>5. Staged' BY <2>1 DEF Staged, DeletePCs
  <2> QED BY <2>2, <2>3, <2>4, <2>5 DEF Interface!Next, Interface!Restart
<1>3. CASE CloseLog \/ Aside
  <2>1. UNCHANGED <<pc, op, ev, del>> BY <1>3 DEF CloseLog, Aside
  <2>2. UNCHANGED Content
    BY <1>3, ContentKept, ContentSame DEF CloseLog, memory, Aside
  <2>3. UNCHANGED <<CallPhase, Request>> BY <2>1 DEF CallPhase, Request
  <2>4. Staged' BY <2>1 DEF Staged, Evicting
  <2> QED BY <2>2, <2>3, <2>4 DEF Interface!vars
<1> QED BY <1>1, <1>2, <1>3, CallFrame, CallBegins, SetSteps, LoopSteps, DeleteSteps DEF Writer

(* cache.go keeps the contract that cluster.go uses it by: for all keys,    *)
(* values, sizes and policies, with a log and a store that may fail, other  *)
(* nodes in the process, shutdown and crashes, every call takes effect once *)
(* and at one instant if it returns no error, and at most once if it does.  *)
THEOREM NodeCacheRefined == Spec => ImplementsNodeCache
<1>1. Init => Interface!Init /\ Staged
  <2> SUFFICES ASSUME Init PROVE Interface!Init /\ Staged OBVIOUS
  <2>1. items = <<>> /\ pc = "idle" /\ op = NoOp /\ ~ev.proactive
    BY DEF Init, NoEvict, Eviction
  <2>2. Content = <<>> BY <2>1 DEF Content, Cached
  <2>3. CallPhase = "free" /\ Staged BY <2>1 DEF CallPhase, Staged, DeletePCs
  <2> QED BY <2>1, <2>2, <2>3 DEF Interface!Init, Interface!NoCall, Request, NoOp
<1> QED BY <1>1, InterfaceStep, AlwaysTyped, PTL DEF Spec, ImplementsNodeCache, Interface!Spec
-----------------------------------------------------------------------------
(* The safety of the node: its byte counter, its policy and its evictions,  *)
(* for every set of keys and values, capacity and policy.                   *)

(* An item map has a tally: what each set of its keys weighs, additively.   *)
Weight(its, key) == Size[its[key].val]

Additive(tally, its) ==
  /\ tally \in [SUBSET (DOMAIN its) -> Int]
  /\ tally[{}] = 0
  /\ \A T \in SUBSET (DOMAIN its) : \A key \in T : tally[T] = tally[T \ {key}] + Weight(its, key)

(* The map weighs at least bytes even without the keys of a set.            *)
Covers(its, bytes, without) ==
  \E tally : Additive(tally, its) /\ bytes <= tally[DOMAIN its \ without]

Valued(its) == \A key \in DOMAIN its : its[key].val \in Values

(* An empty map covers no more than no bytes.                               *)
LEMMA CoversEmpty ==
  ASSUME NEW its, NEW bytes \in Int, NEW without, DOMAIN its = {}
  PROVE  Covers(its, bytes, without) <=> bytes <= 0
<1>1. ASSUME Covers(its, bytes, without) PROVE bytes <= 0
  BY <1>1 DEF Covers, Additive
<1>2. ASSUME bytes <= 0 PROVE Covers(its, bytes, without)
  <2> DEFINE tally == [T \in SUBSET (DOMAIN its) |-> 0]
  <2>1. Additive(tally, its) BY DEF Additive
  <2>2. bytes <= tally[DOMAIN its \ without] BY <1>2
  <2> QED BY <2>1, <2>2 DEF Covers
<1> QED BY <1>1, <1>2

(* Maps with the same keys and values weigh the same.                       *)
LEMMA CoversSame ==
  ASSUME NEW its, NEW new, NEW bytes, NEW without, DOMAIN new = DOMAIN its,
         \A key \in DOMAIN its : new[key].val = its[key].val,
         Covers(its, bytes, without)
  PROVE  Covers(new, bytes, without)
<1>1. PICK tally : Additive(tally, its) /\ bytes <= tally[DOMAIN its \ without] BY DEF Covers
<1>2. Additive(tally, new) BY <1>1 DEF Additive, Weight
<1> QED BY <1>1, <1>2 DEF Covers

(* Reserve: the bytes of the key given back, the key need not be counted.   *)
LEMMA CoversReserve ==
  ASSUME NEW its, NEW bytes \in Int, NEW key, Valued(its), Covers(its, bytes, {})
  PROVE  Covers(its, bytes - (IF key \in DOMAIN its THEN Weight(its, key) ELSE 0), {key})
<1>1. PICK tally : Additive(tally, its) /\ bytes <= tally[DOMAIN its \ {}] BY DEF Covers
<1>2. CASE key \in DOMAIN its
  <2>1. tally[DOMAIN its] = tally[DOMAIN its \ {key}] + Weight(its, key) BY <1>1, <1>2 DEF Additive
  <2>2. DOMAIN its \ {} = DOMAIN its OBVIOUS
  <2>3. Weight(its, key) \in Int BY <1>2, SizeAssumption DEF Valued, Weight
  <2>4. tally[DOMAIN its \ {key}] \in Int BY <1>1 DEF Additive
  <2>5. bytes - Weight(its, key) <= tally[DOMAIN its \ {key}] BY <1>1, <2>1, <2>2, <2>3, <2>4
  <2> QED BY <1>1, <1>2, <2>5 DEF Covers
<1>3. CASE key \notin DOMAIN its
  <2>1. DOMAIN its \ {key} = DOMAIN its \ {} BY <1>3
  <2> QED BY <1>1, <1>3, <2>1 DEF Covers
<1> QED BY <1>2, <1>3

(* A call that fails leaves its key counted again.                          *)
LEMMA CoversRelax ==
  ASSUME NEW its, NEW bytes \in Int, NEW key, Valued(its), Covers(its, bytes, {key})
  PROVE  Covers(its, bytes, {})
<1>1. PICK tally : Additive(tally, its) /\ bytes <= tally[DOMAIN its \ {key}] BY DEF Covers
<1>2. DOMAIN its \ {} = DOMAIN its OBVIOUS
<1>3. CASE key \in DOMAIN its
  <2>1. tally[DOMAIN its] = tally[DOMAIN its \ {key}] + Weight(its, key) BY <1>1, <1>3 DEF Additive
  <2>2. Weight(its, key) \in Nat BY <1>3, SizeAssumption DEF Valued, Weight
  <2>3. tally[DOMAIN its \ {key}] \in Int BY <1>1 DEF Additive
  <2> QED BY <1>1, <1>2, <2>1, <2>2, <2>3 DEF Covers
<1>4. CASE key \notin DOMAIN its
  <2>1. DOMAIN its \ {key} = DOMAIN its BY <1>4
  <2> QED BY <1>1, <1>2, <2>1 DEF Covers
<1> QED BY <1>3, <1>4

(* A deletion takes its key and the bytes of it from both sides.            *)
LEMMA CoversDrop ==
  ASSUME NEW its, NEW new, NEW bytes \in Int, NEW without, NEW key \in DOMAIN its,
         Valued(its), DOMAIN new = DOMAIN its \ {key},
         \A k \in DOMAIN new : new[k].val = its[k].val,
         Covers(its, bytes, without)
  PROVE  Covers(new, bytes - Weight(its, key), without)
<1>1. PICK tally : Additive(tally, its) /\ bytes <= tally[DOMAIN its \ without] BY DEF Covers
<1> DEFINE rest == [T \in SUBSET (DOMAIN new) |-> tally[T]]
<1>2. Weight(its, key) \in Nat BY SizeAssumption DEF Valued, Weight
<1>3. \A T \in SUBSET (DOMAIN its) : tally[T] \in Int BY <1>1 DEF Additive
<1>4. Additive(rest, new)
  <2>1. \A T \in SUBSET (DOMAIN new) : T \in SUBSET (DOMAIN its) OBVIOUS
  <2>2. rest \in [SUBSET (DOMAIN new) -> Int] BY <2>1, <1>3
  <2>3. rest[{}] = 0 BY <1>1 DEF Additive
  <2>4. ASSUME NEW T \in SUBSET (DOMAIN new), NEW k \in T
        PROVE  rest[T] = rest[T \ {k}] + Weight(new, k)
    <3>1. tally[T] = tally[T \ {k}] + Weight(its, k) BY <1>1, <2>1 DEF Additive
    <3>2. Weight(new, k) = Weight(its, k) BY DEF Weight
    <3> QED BY <3>1, <3>2
  <2> HIDE DEF rest
  <2> QED BY <2>2, <2>3, <2>4 DEF Additive
<1>5. rest[DOMAIN new \ without] = tally[(DOMAIN its \ {key}) \ without] OBVIOUS
<1>6. bytes - Weight(its, key) <= rest[DOMAIN new \ without]
  <2>1. CASE key \in without
    <3>1. (DOMAIN its \ {key}) \ without = DOMAIN its \ without BY <2>1
    <3>2. tally[DOMAIN its \ without] \in Int BY <1>3
    <3>3. rest[DOMAIN new \ without] = tally[DOMAIN its \ without] BY <1>5, <3>1, Zenon
    <3> HIDE DEF rest
    <3> QED BY <1>1, <1>2, <3>2, <3>3
  <2>2. CASE key \notin without
    <3>1. (DOMAIN its \ {key}) \ without = (DOMAIN its \ without) \ {key} OBVIOUS
    <3>2. tally[DOMAIN its \ without] = tally[(DOMAIN its \ without) \ {key}] + Weight(its, key)
      BY <1>1, <2>2 DEF Additive
    <3>3. tally[(DOMAIN its \ without) \ {key}] \in Int BY <1>3
    <3>4. rest[DOMAIN new \ without] = tally[(DOMAIN its \ without) \ {key}]
      BY <1>5, <3>1, Zenon
    <3> HIDE DEF rest
    <3> QED BY <1>1, <1>2, <3>2, <3>3, <3>4
  <2> QED BY <2>1, <2>2
<1> HIDE DEF rest
<1> QED BY <1>4, <1>6 DEF Covers

(* Insert charges the bytes of its value, which the map did not count yet.  *)
LEMMA CoversInsert ==
  ASSUME NEW its, NEW new, NEW bytes \in Int, NEW key, NEW val \in Values,
         DOMAIN new = DOMAIN its \cup {key}, new[key].val = val,
         \A k \in DOMAIN its \ {key} : new[k].val = its[k].val,
         Valued(its), Covers(its, bytes, {key})
  PROVE  Covers(new, bytes + Size[val], {})
<1>1. PICK tally : Additive(tally, its) /\ bytes <= tally[DOMAIN its \ {key}] BY DEF Covers
<1> DEFINE more == [T \in SUBSET (DOMAIN new) |->
                      IF key \in T THEN tally[T \ {key}] + Size[val] ELSE tally[T]]
<1>2. Size[val] \in Nat BY SizeAssumption
<1>3. \A T \in SUBSET (DOMAIN its) : tally[T] \in Int BY <1>1 DEF Additive
<1>4. \A T \in SUBSET (DOMAIN new) : T \ {key} \in SUBSET (DOMAIN its) OBVIOUS
<1>5. \A T \in SUBSET (DOMAIN new) : key \notin T => T \in SUBSET (DOMAIN its) OBVIOUS
<1>6. Additive(more, new)
  <2>1. more \in [SUBSET (DOMAIN new) -> Int] BY <1>2, <1>3, <1>4, <1>5
  <2>2. more[{}] = 0 BY <1>1 DEF Additive
  <2>3. ASSUME NEW T \in SUBSET (DOMAIN new), NEW k \in T
        PROVE  more[T] = more[T \ {k}] + Weight(new, k)
    <3>0. T \ {k} \in SUBSET (DOMAIN new) OBVIOUS
    <3>1. CASE k = key
      <4>1. Weight(new, k) = Size[val] BY <3>1 DEF Weight
      <4>2. more[T \ {k}] = tally[T \ {key}] BY <3>0, <3>1
      <4> QED BY <3>1, <4>1, <4>2
    <3>2. CASE k # key /\ key \in T
      <4>1. k \in T \ {key} BY <3>2
      <4>2. tally[T \ {key}] = tally[(T \ {key}) \ {k}] + Weight(its, k)
        BY <4>1, <1>1, <1>4 DEF Additive
      <4>3. Weight(new, k) = Weight(its, k) BY <4>1, <1>4 DEF Weight
      <4>4. tally[(T \ {key}) \ {k}] = tally[(T \ {k}) \ {key}]
        <5>1. (T \ {key}) \ {k} = (T \ {k}) \ {key} OBVIOUS
        <5> QED BY <5>1, Zenon
      <4>5. more[T \ {k}] = tally[(T \ {k}) \ {key}] + Size[val] BY <3>0, <3>2
      <4>6. more[T] = tally[T \ {key}] + Size[val] BY <3>2
      <4>7. tally[(T \ {k}) \ {key}] \in Int BY <3>0, <1>3, <1>4
      <4>8. Weight(its, k) \in Int BY <4>1, <1>4, SizeAssumption DEF Valued, Weight
      <4> HIDE DEF more
      <4> QED BY <1>2, <4>2, <4>3, <4>4, <4>5, <4>6, <4>7, <4>8
    <3>3. CASE key \notin T
      <4>1. tally[T] = tally[T \ {k}] + Weight(its, k) BY <3>3, <1>1, <1>5 DEF Additive
      <4>2. Weight(new, k) = Weight(its, k) BY <3>3, <1>5 DEF Weight
      <4>3. more[T] = tally[T] /\ more[T \ {k}] = tally[T \ {k}] BY <3>3, <3>0
      <4> QED BY <4>1, <4>2, <4>3
    <3> QED BY <3>1, <3>2, <3>3
  <2> HIDE DEF more
  <2> QED BY <2>1, <2>2, <2>3 DEF Additive
<1>7. more[DOMAIN new] = tally[DOMAIN its \ {key}] + Size[val]
  <2>1. DOMAIN new \ {key} = DOMAIN its \ {key} OBVIOUS
  <2> QED BY <2>1
<1>8. tally[DOMAIN its \ {key}] \in Int BY <1>3
<1>9. DOMAIN new \ {} = DOMAIN new OBVIOUS
<1> HIDE DEF more
<1>10. bytes + Size[val] <= more[DOMAIN new \ {}] BY <1>1, <1>2, <1>7, <1>8, <1>9
<1> QED BY <1>6, <1>10 DEF Covers
-----------------------------------------------------------------------------
(* The bytes of the value being overwritten have been given back and those  *)
(* of the new value not yet charged.                                        *)
Pending == pc = "insert" \/ (Evicting /\ ~ev.proactive)

(* The counter and the request of an eviction stay within the capacity.     *)
Room ==
  /\ used <= Capacity
  /\ pc = "reserve" \/ Pending => Size[op.val] <= Capacity
  /\ pc = "insert" => used + Size[op.val] <= Capacity
  /\ Evicting /\ ev.proactive => ev.need + Capacity \div 2 <= Capacity

(* The counter counts no byte that is not cached.                           *)
Ledger == Covers(items, used, IF Pending THEN {op.key} ELSE {})

(* A victim is sought and deleted only for want of room, and a node that no *)
(* other interferes with finds one.                                         *)
Seeking ==
  /\ pc \in {"attempt", "verify"} \/ (pc \in {"log", "unlink"} /\ del.evicting) => ~Fits
  /\ Alone /\ pc = "attempt" => evictOk

(* A call that has got past the log.                                        *)
Underway ==
  Evicting \/ pc \in {"reserve", "insert", "store", "trigger", "unlink", "purge"}

(* As long as no other node interferes policy and items agree until a call  *)
(* meets the broken log, and a key that was tried and is still cached is being    *)
(* deleted until the log breaks.                                            *)
Tracked ==
  Alone =>
  /\ ~walBroken \/ Underway => PolicyKeys(policy) = Cached
  /\ Evicting /\ ~walBroken =>
       \A key \in ev.attempted \cap Cached :
         (pc = "verify" /\ key = evictKey) \/ (pc \in {"log", "unlink"} /\ key = del.key)

Sound == Typed /\ Room /\ Ledger /\ Seeking /\ Tracked

(* The strengthened invariant holds of a process that has just started.     *)
LEMMA SoundInit == Init => Sound
<1> SUFFICES ASSUME Init PROVE Sound OBVIOUS
<1> USE DEF Init, Cached
<1>1. Typed BY TypedInit
<1>2. ~Pending /\ ~Evicting BY DEF Pending, Evicting, LoopPCs, DeletePCs
<1>3. Room BY <1>2, CapacityAssumption DEF Room
<1>4. items = <<>> /\ DOMAIN <<>> = {} OBVIOUS
<1>5. Ledger BY <1>2, <1>4, CoversEmpty DEF Ledger
<1>6. Seeking BY DEF Seeking
<1>7. Tracked BY <1>2, <1>4, NewPolicyConsistent DEF Tracked, Underway
<1> QED BY <1>1, <1>3, <1>5, <1>6, <1>7 DEF Sound

(* Only these steps move the replay.                                        *)
LEMMA ReplayFrame ==
  [Next]_vars => \/ UNCHANGED <<recovering, next>>
                 \/ ReplayEntry \/ FinishRecovery \/ Crash
BY Zenon
DEF Next, vars, Writer, MLWorker, Reserve, Insert, Store, Trigger, ChooseVictim, Attempt,
    Verify, LogDelete, Unlink, Purge, Return, ClientSet, ClientDelete, Get, Expire,
    TriggerMLEviction, SweepCollect, SweepDelete, TakeSnapshot, MLTake, MLPredict,
    MLFallback, MLBaseChoice, MLDelete, StopWorkers, CloseLog, process

(* Only a crash begins a time when no other node writes the variables.      *)
LEMMA AloneFrame == [Next]_vars => Crash \/ (Alone' => Alone)
BY ReplayFrame DEF ReplayEntry, FinishRecovery, Alone

(* What every proof about a step below starts from.                         *)
LEMMA Sizes ==
  ASSUME Sound
  PROVE  /\ used \in Int /\ Capacity \in Nat \ {0} /\ Capacity \div 2 \in Nat
         /\ 2 * (Capacity \div 2) <= Capacity /\ Capacity <= 2 * (Capacity \div 2) + 1
         /\ ev.need \in Int /\ ev.proactive \in BOOLEAN
         /\ Valued(items) /\ \A key \in Cached : SizeOf(key) \in Nat
         /\ \A val \in Values : Size[val] \in Nat
         /\ \A key : Released(key) \in Nat
BY CapacityAssumption, SizeAssumption
   DEF Sound, Typed, TypeOK, MemoryTyped, CallTyped, Evictions, Valued, SizeOf, Released, Cached

(* While the loop lacks room an item is cached, and a victim exists on a    *)
(* node that is alone in its process.                                       *)
LEMMA VictimExists ==
  ASSUME Sound, pc = "evict", ~Fits
  PROVE  Cached # {} /\ (Alone => HasVictim(policy))
<1>1. Alone => PolicyKeys(policy) = Cached
  BY DEF Sound, Tracked, Underway, Evicting, LoopPCs
<1>2. ASSUME Cached = {} PROVE FALSE
  <2>1. used <= 0 BY <1>2, CoversEmpty, Sizes DEF Sound, Ledger, Cached
  <2>2. ev.need <= Capacity
    BY Sizes DEF Sound, Room, Pending, Evicting, LoopPCs, Typed, Calls
  <2> QED BY <2>1, <2>2, Sizes DEF Fits
<1> QED BY <1>1, <1>2, VictimIsKey DEF Sound, Typed, Policed

(* A step of Attempt goes on to a key it has not tried, or leaves the loop. *)
(* A node no other interferes with leaves it only with a broken log.        *)
LEMMA AttemptDoes ==
  ASSUME Sound, Attempt
  PROVE  \/ /\ pc' = "verify" /\ ev'.need = ev.need /\ ev'.proactive = ev.proactive
            /\ policy' = policy /\ ev'.evicted = ev.evicted
            /\ Alone => ev'.attempted = ev.attempted \cup {evictKey}
         \/ /\ EvictionEnds /\ pc' \in {"ok", "error"}
            /\ Alone => walBroken
<1>0. Typed /\ ev \in Evictions /\ pc = "attempt" /\ ~Fits
  BY DEF Sound, Typed, TypeOK, CallTyped, Attempt, Seeking
<1>1. PICK ok \in SeenOk, key \in SeenKeys, again \in SeenKeys :
         IF NewCandidate(ok, key)
         THEN /\ ev' = [ev EXCEPT !.attempted = @ \cup {again}]
              /\ pc' = "verify" /\ policy' = policy
         ELSE EvictionEnds
  BY DEF Attempt
<1>2. Alone => ok = evictOk /\ key = evictKey /\ again = evictKey
  BY <1>0, Seen DEF Alone
<1>3. CASE NewCandidate(ok, key)
  <2>1. /\ ev'.need = ev.need /\ ev'.proactive = ev.proactive
        /\ ev'.attempted = ev.attempted \cup {again} /\ ev'.evicted = ev.evicted
    BY <1>0, <1>1, <1>3 DEF Evictions
  <2> QED BY <1>1, <1>2, <1>3, <2>1
<1>4. CASE ~NewCandidate(ok, key)
  <2>1. EvictionEnds /\ pc' \in {"ok", "error"} BY <1>0, <1>1, <1>4 DEF EvictionEnds
  <2>2. ASSUME Alone, ~walBroken PROVE FALSE
    <3>1. evictOk /\ evictKey \in Cached
      BY <1>0, <2>2 DEF Sound, Typed, Seeking, Calls, Alone
    <3>2. evictKey \notin ev.attempted
      BY <1>0, <2>2, <3>1 DEF Sound, Tracked, Evicting, LoopPCs
    <3> QED BY <1>2, <1>4, <2>2, <3>1, <3>2 DEF NewCandidate
  <2> QED BY <2>1, <2>2
<1> QED BY <1>3, <1>4

(* A step of Verify deletes a key, the one it has verified on a node alone  *)
(* in its process, which never leaves the loop here.                        *)
LEMMA VerifyDoes ==
  ASSUME Sound, Verify
  PROVE  \/ /\ pc' = "log" /\ ev' = ev /\ del'.evicting
            /\ Alone => del'.key = evictKey
         \/ EvictionEnds /\ pc' \in {"ok", "error"} /\ ~Alone
<1>0. Typed /\ pc = "verify" /\ ~Fits BY DEF Sound, Verify, Seeking
<1>1. PICK key \in SeenKeys, victim \in SeenKeys :
         IF key \in Cached
         THEN del' = [key |-> victim, evicting |-> TRUE] /\ pc' = "log" /\ ev' = ev
         ELSE EvictionEnds
  BY DEF Verify
<1>2. Alone => key = evictKey /\ victim = evictKey /\ evictKey \in Cached
  BY <1>0, Seen DEF Alone, Typed, Calls
<1>3. CASE key \in Cached BY <1>1, <1>2, <1>3
<1>4. CASE key \notin Cached BY <1>0, <1>1, <1>2, <1>4 DEF EvictionEnds
<1> QED BY <1>3, <1>4

(* No step makes room for a value but the one that charges it.              *)
LEMMA RoomStep == Sound /\ [Next]_vars => Room'
<1> SUFFICES ASSUME Sound, [Next]_vars PROVE Room' OBVIOUS
<1> USE Sizes DEF Room, Pending, Evicting, LoopPCs, DeletePCs
<1>0. Typed /\ Calls BY DEF Sound, Typed
<1>1. ASSUME NEW by \in Callers, NEW key \in Keys, NEW val \in Values,
             NEW ttl \in {"none", "subsecond", "seconds"}, SetWithTTL(by, key, val, ttl)
      PROVE  Room'
  <2>1. op'.val = val /\ used' = used /\ ev' = ev BY <1>1 DEF SetWithTTL, memory
  <2>2. pc' = "error" \/ (pc' = "reserve" /\ Size[val] <= Capacity) BY <1>1 DEF SetWithTTL
  <2> QED BY <2>1, <2>2 DEF Sound
<1>2. ASSUME NEW by \in Callers, NEW key \in Keys \cup {NoKey}, Delete(by, key) PROVE Room'
  <2>1. pc' = "log" /\ ~del'.evicting /\ used' = used BY <1>2 DEF Delete, memory
  <2> QED BY <2>1 DEF Sound
<1>3. CASE Reserve
  <2>1. used' <= used /\ used' \in Int BY <1>3 DEF Reserve
  <2>2. op' = op BY <1>3 DEF Reserve
  <2>3. CASE pc' = "insert"
    <3>1. used' + Size[op.val] <= Capacity BY <1>3, <2>1, <2>3, <1>0 DEF Reserve, Calls
    <3> QED BY <2>1, <2>2, <2>3, <3>1, <1>3 DEF Sound, Reserve
  <2>4. CASE pc' = "evict" /\ ev' = Eviction(Size[op.val], FALSE)
    BY <2>1, <2>2, <2>4, <1>3 DEF Sound, Reserve, Eviction
  <2> QED BY <1>3, <2>3, <2>4 DEF Reserve
<1>4. CASE Insert BY <1>4, <1>0 DEF Insert, EnterItem, Sound, Calls
<1>5. CASE Store BY <1>5 DEF Store, memory, Sound
<1>6. CASE Trigger
  <2>1. used' = used BY <1>6 DEF Trigger, memory
  <2>2. CASE pc' = "ok" BY <2>1, <2>2 DEF Sound
  <2>3. CASE pc' = "evict" /\ ev' = Eviction(OverHalf, TRUE)
    <3>1. ev'.need = used - Capacity \div 2 /\ ev'.proactive
      BY <2>3 DEF OverHalf, Eviction
    <3>2. used <= Capacity BY DEF Sound
    <3>3. Capacity \div 2 >= 0 BY CapacityAssumption
    <3> HIDE DEF Pending
    <3>4. Room' <=> used' <= Capacity /\ ev'.need + Capacity \div 2 <= Capacity
      BY <2>3, <3>1 DEF Pending
    <3> QED BY <2>1, <3>1, <3>2, <3>3, <3>4
  <2> QED BY <1>6, <2>2, <2>3 DEF Trigger
<1>7. ASSUME UNCHANGED <<memory, op>>, pc \in LoopPCs, EvictionEnds PROVE Room'
  <2>1. used' = used /\ op' = op /\ used <= Capacity BY <1>7 DEF memory, Sound
  <2>2. CASE pc' = "insert"
    <3>1. ~ev.proactive /\ Fits BY <1>7, <2>2 DEF EvictionEnds
    <3>2. ev.need = Size[op.val] /\ op.val \in Values BY <3>1, <1>7, <1>0 DEF Calls
    <3> QED BY <2>1, <2>2, <3>1, <3>2, <1>7 DEF Fits, Sound
  <2>3. CASE pc' \in {"ok", "error"} BY <2>1, <2>3
  <2> QED BY <1>7, <2>2, <2>3 DEF EvictionEnds
<1>8. CASE ChooseVictim
  <2>1. CASE EvictionEnds BY <2>1, <1>7, <1>8 DEF ChooseVictim
  <2>2. CASE pc' = "attempt" /\ UNCHANGED ev
    BY <2>2, <1>8 DEF ChooseVictim, memory, Sound
  <2> QED BY <1>8, <2>1, <2>2 DEF ChooseVictim
<1>9. CASE Attempt
  <2>1. CASE pc' = "verify" /\ ev'.need = ev.need /\ ev'.proactive = ev.proactive
    BY <1>9, <2>1 DEF Attempt, Sound
  <2>2. CASE pc' \in {"ok", "error"}
    <3>1. used' = used /\ op' = op /\ used <= Capacity BY <1>9 DEF Attempt, Sound
    <3> QED BY <2>2, <3>1
  <2> QED BY <1>9, <2>1, <2>2, AttemptDoes
<1>10. CASE Verify
  <2>1. CASE pc' = "log" /\ UNCHANGED ev BY <2>1, <1>10 DEF Verify, memory, Sound
  <2>2. CASE EvictionEnds BY <2>2, <1>7, <1>10 DEF Verify
  <2> QED BY <1>10, <2>1, <2>2 DEF Verify
<1>11. ASSUME pc \in DeletePCs, NEW success \in BOOLEAN, DeleteReturns(success),
              op' = op, used' \in Int, used' <= used
       PROVE  Room'
  <2>1. ev'.need = ev.need /\ ev'.proactive = ev.proactive
    BY <1>11, <1>0 DEF DeleteReturns, Typed, TypeOK, CallTyped, Evictions
  <2> QED BY <1>11, <2>1 DEF DeleteReturns, Sound
<1>12. CASE LogDelete
  <2>1. op' = op /\ used' = used BY <1>12 DEF LogDelete, memory
  <2>2. CASE pc' = "unlink" /\ UNCHANGED <<ev, del>> BY <2>1, <2>2, <1>12 DEF LogDelete, Sound
  <2>3. CASE DeleteReturns(FALSE)
    <3>1. pc \in DeletePCs BY <1>12 DEF LogDelete
    <3>2. used' \in Int /\ used' <= used BY <2>1
    <3> QED BY <2>1, <2>3, <3>1, <3>2, <1>11
  <2> QED BY <1>12, <2>2, <2>3 DEF LogDelete
<1>13. CASE Unlink
  <2>1. op' = op BY <1>13 DEF Unlink
  <2>2. CASE DropItem(del.key) /\ del.key \in Cached /\ pc' = "purge" /\ UNCHANGED <<ev, del>>
    <3>1. used' = used - SizeOf(del.key) BY <2>2 DEF DropItem
    <3>2. used' \in Int /\ used' <= used BY <2>2, <3>1
    <3> QED BY <2>1, <2>2, <3>2, <1>13 DEF Unlink, Sound
  <2>3. CASE DeleteReturns(TRUE) /\ UNCHANGED memory
    <3>1. pc \in DeletePCs BY <1>13 DEF Unlink
    <3>2. used' \in Int /\ used' <= used BY <2>3 DEF memory
    <3> QED BY <2>1, <2>3, <3>1, <3>2, <1>11
  <2> QED BY <1>13, <2>2, <2>3 DEF Unlink
<1>14. CASE Purge
  <2>1. pc \in DeletePCs BY <1>14 DEF Purge
  <2>2. op' = op /\ used' \in Int /\ used' <= used BY <1>14 DEF Purge, memory
  <2>3. DeleteReturns(TRUE) \/ DeleteReturns(FALSE) BY <1>14 DEF Purge
  <2> QED BY <2>1, <2>2, <2>3, <1>11
<1>15. CASE Return BY <1>15 DEF Return, memory, Sound
<1>16. CASE Crash BY <1>16, CapacityAssumption DEF Crash, FreshProcess
<1>17. CASE Aside BY <1>17 DEF Aside, globals, log, Sound
<1>18. CASE CloseLog BY <1>18 DEF CloseLog, memory, Sound
<1> QED BY <1>0, <1>1, <1>2, <1>3, <1>4, <1>5, <1>6, <1>8, <1>9, <1>10, <1>12, <1>13,
           <1>14, <1>15, <1>16, <1>17, <1>18, CallFrame DEF Writer

(* What ChooseVictim asks for in a state that needs room: a cached key, on  *)
(* a node alone in its process.                                             *)
LEMMA ChooseVictimChooses ==
  ASSUME Sound, ChooseVictim
  PROVE  \/ EvictionEnds /\ UNCHANGED globals /\ (~MayEvict \/ Fits)
         \/ /\ pc' = "attempt" /\ UNCHANGED ev /\ ~Fits
            /\ Alone => evictKey' \in Cached /\ evictOk'
<1> DEFINE candidates == IF recovering THEN BaseChoices(policy) ELSE Candidates(policy, Cached)
<1>1. CASE ~MayEvict \/ Fits BY <1>1 DEF ChooseVictim
<1>2. CASE MayEvict /\ ~Fits
  <2>1. Cached # {} /\ (Alone => HasVictim(policy))
    BY <1>2, VictimExists DEF ChooseVictim
  <2>2. pc' = "attempt" /\ UNCHANGED ev BY <1>2, <2>1 DEF ChooseVictim
  <2>3. ASSUME Alone PROVE evictKey' \in Cached /\ evictOk'
    <3>1. candidates # {} /\ candidates \subseteq Cached
      BY <2>1, <2>3, CandidatesCached DEF Sound, BaseChoices, Candidates
    <3>2. \E key \in candidates : evictKey' = key /\ evictOk' = (key # NoKey)
      BY <1>2, <2>1, <3>1 DEF ChooseVictim
    <3>3. NoKey \notin Cached
      BY SentinelAssumption DEF Sound, Typed, TypeOK, MemoryTyped
    <3> QED BY <3>1, <3>2, <3>3
  <2> QED BY <1>2, <2>2, <2>3
<1> QED BY <1>1, <1>2

(* Every step seeks victims only for want of room.                          *)
LEMMA SeekingStep == Sound /\ [Next]_vars => Seeking'
<1> SUFFICES ASSUME Sound, [Next]_vars PROVE Seeking' OBVIOUS
<1> USE DEF Seeking
<1>0. Seeking /\ Typed BY DEF Sound
<1>13. Crash \/ (Alone' => Alone) BY AloneFrame
<1>1. ASSUME pc' \notin {"attempt", "verify", "log", "unlink"} PROVE Seeking' BY <1>1
<1>2. ASSUME NEW by \in Callers, NEW key \in Keys, NEW val \in Values,
             NEW ttl \in {"none", "subsecond", "seconds"}, SetWithTTL(by, key, val, ttl)
      PROVE  Seeking'
  BY <1>1, <1>2 DEF SetWithTTL
<1>3. ASSUME NEW by \in Callers, NEW key \in Keys \cup {NoKey}, Delete(by, key) PROVE Seeking'
  BY <1>3 DEF Delete
<1>4. CASE Reserve \/ Insert \/ Store \/ Trigger \/ Return \/ Crash
  BY <1>1, <1>4 DEF Reserve, Insert, Store, Trigger, Return, Crash, FreshProcess
<1>5. CASE ChooseVictim
  <2>1. used' = used BY <1>5 DEF ChooseVictim, memory
  <2>2. CASE EvictionEnds BY <1>1, <2>2 DEF EvictionEnds
  <2>3. CASE ~Fits /\ pc' = "attempt" /\ UNCHANGED ev /\ (Alone => evictOk')
    BY <1>13, <1>5, <2>1, <2>3 DEF Fits, ChooseVictim, Crash, FreshProcess
  <2> QED BY <1>5, <2>2, <2>3, ChooseVictimChooses
<1>6. CASE Attempt
  <2>1. used' = used /\ ~Fits BY <1>0, <1>6 DEF Attempt
  <2>2. CASE pc' = "verify" /\ ev'.need = ev.need BY <2>1, <2>2 DEF Fits
  <2> QED BY <1>1, <1>6, <2>2, AttemptDoes
<1>7. CASE Verify
  <2>1. used' = used /\ ~Fits BY <1>0, <1>7 DEF Verify, memory
  <2>2. CASE pc' = "log" /\ ev' = ev BY <2>1, <2>2 DEF Fits
  <2> QED BY <1>1, <1>7, <2>2, VerifyDoes
<1>8. CASE LogDelete
  <2>1. CASE pc' = "unlink" /\ UNCHANGED <<ev, del>>
    BY <1>0, <1>8, <2>1 DEF LogDelete, memory, Fits
  <2>2. CASE DeleteReturns(FALSE) BY <1>1, <1>8, <2>2 DEF LogDelete, DeleteReturns
  <2> QED BY <1>8, <2>1, <2>2 DEF LogDelete
<1>9. CASE Unlink BY <1>1, <1>9 DEF Unlink, DeleteReturns
<1>10. CASE Purge BY <1>1, <1>10 DEF Purge, DeleteReturns
<1>11. CASE Aside /\ ~Crash BY <1>0, <1>13, <1>11 DEF Aside, globals, Fits
<1>12. CASE CloseLog /\ ~Crash BY <1>0, <1>13, <1>12 DEF CloseLog, globals, memory, Fits
<1> QED BY <1>0, <1>2, <1>3, <1>4, <1>5, <1>6, <1>7, <1>8, <1>9, <1>10, <1>11, <1>12,
           CallFrame DEF Writer

(* Every step keeps the keys of the policy within the cached keys.          *)
LEMMA TrackedStep == Sound /\ [Next]_vars => Tracked'
<1> SUFFICES ASSUME Sound, [Next]_vars PROVE Tracked' OBVIOUS
<1> USE DEF Tracked, Underway, Evicting, LoopPCs, DeletePCs, log
<1>13. CASE Crash
  <2>1. items' = <<>> /\ DOMAIN <<>> = {} BY <1>13 DEF Crash, FreshProcess
  <2> QED BY <1>13, <2>1, NewPolicyConsistent DEF Crash, FreshProcess, Cached
<1> SUFFICES ASSUME Alone, ~Crash PROVE Tracked' BY <1>13, AloneFrame DEF Tracked
<1>0. Tracked /\ Seeking /\ Typed /\ Calls /\ Policed /\ PolicyConsistent(policy)
  BY DEF Sound, Typed, Policed
<1>1. ASSUME NEW by \in Callers, NEW key \in Keys, NEW val \in Values,
             NEW ttl \in {"none", "subsecond", "seconds"}, SetWithTTL(by, key, val, ttl)
      PROVE  Tracked'
  <2>1. policy' = policy /\ items' = items BY <1>1 DEF SetWithTTL, memory
  <2>2. CASE LogFails /\ pc' = "error" BY <2>2 DEF LogFails
  <2>3. CASE Logged(SetEntry(key, val, ttl)) /\ pc' \in {"error", "reserve"}
    <3>1. ~walBroken /\ walBroken' = walBroken BY <1>0, <2>3 DEF Logged, Typed, Others
    <3> QED BY <1>0, <2>1, <2>3, <3>1 DEF Cached
  <2> QED BY <1>1, <2>2, <2>3 DEF SetWithTTL
<1>2. ASSUME NEW by \in Callers, NEW key \in Keys \cup {NoKey}, Delete(by, key) PROVE Tracked'
  <2>1. pc' = "log" /\ ~del'.evicting /\ walBroken' = walBroken BY <1>2 DEF Delete
  <2>2. policy' = policy /\ items' = items BY <1>2 DEF Delete, memory
  <2> QED BY <1>0, <2>1, <2>2 DEF Cached
<1>3. CASE Reserve \/ Trigger
  <2>1. policy' = policy /\ items' = items /\ walBroken' = walBroken
    BY <1>0, <1>3 DEF Reserve, Trigger, memory
  <2>2. pc' \in {"insert", "ok"} \/ (pc' = "evict" /\ ev'.attempted = {})
    BY <1>3 DEF Reserve, Trigger, Eviction
  <2>3. PolicyKeys(policy) = Cached BY <1>0, <1>3 DEF Reserve, Trigger
  <2> QED BY <2>1, <2>2, <2>3 DEF Cached
<1>4. CASE Insert
  <2>1. op.key \in Keys /\ op.val \in Values /\ op.ttl \in {"none", "subsecond", "seconds"}
    BY <1>0, <1>4 DEF Insert, Calls, Typed, TypeOK, CallTyped, Ops
  <2>2. Cached' = Cached \cup {op.key} BY <1>0, <1>4, <2>1, EnterDrop DEF Insert
  <2>3. PolicyKeys(policy') = PolicyKeys(policy) \cup {op.key}
    BY <1>0, <1>4, PolicyHooks DEF Insert, EnterItem
  <2>4. PolicyKeys(policy) = Cached /\ pc' = "store" BY <1>0, <1>4 DEF Insert
  <2> QED BY <1>0, <2>2, <2>3, <2>4
<1>5. CASE Store BY <1>0, <1>5 DEF Store, memory, Cached
<1>6. CASE ChooseVictim
  <2>1. policy' = policy /\ items' = items /\ walBroken' = walBroken
    BY <1>6 DEF ChooseVictim, memory
  <2>2. CASE EvictionEnds
    BY <1>0, <1>6, <2>1, <2>2 DEF EvictionEnds, ChooseVictim, Cached
  <2>3. CASE pc' = "attempt" /\ UNCHANGED ev
    BY <1>0, <1>6, <2>1, <2>3 DEF ChooseVictim, Cached
  <2> QED BY <1>6, <2>2, <2>3, ChooseVictimChooses
<1>7. CASE Attempt
  <2>1. items' = items /\ walBroken' = walBroken /\ evictKey' = evictKey
    BY <1>7 DEF Attempt, globals
  <2>2. CASE /\ pc' = "verify" /\ policy' = policy
             /\ ev'.attempted = ev.attempted \cup {evictKey}
    BY <1>0, <1>7, <2>1, <2>2 DEF Cached, Attempt
  <2>3. CASE pc' \in {"ok", "error"} /\ walBroken BY <2>1, <2>3
  <2> QED BY <1>7, <2>2, <2>3, AttemptDoes
<1>8. CASE Verify
  <2>1. pc' = "log" /\ ev' = ev /\ del'.key = evictKey /\ del'.evicting
    BY <1>8, VerifyDoes
  <2>2. policy' = policy /\ items' = items /\ walBroken' = walBroken
    BY <1>8 DEF Verify, memory
  <2> QED BY <1>0, <1>8, <2>1, <2>2 DEF Cached, Verify
<1>9. CASE LogDelete
  <2>1. policy' = policy /\ items' = items BY <1>9 DEF LogDelete, memory
  <2>2. CASE Logged(DeleteEntry(del.key)) /\ pc' = "unlink" /\ UNCHANGED <<ev, del>>
    <3>1. ~walBroken /\ walBroken' = walBroken
      BY <1>0, <2>2 DEF Logged, Typed, Others
    <3> QED BY <1>0, <1>9, <2>1, <2>2, <3>1 DEF Cached, LogDelete
  <2>3. CASE LogFails /\ DeleteReturns(FALSE)
    <3>1. walBroken' BY <2>3 DEF LogFails
    <3>2. pc' = "evict" => del.evicting BY <2>3 DEF DeleteReturns
    <3>3. pc' \in {"evict", "error"} BY <2>3 DEF DeleteReturns
    <3> QED BY <1>0, <1>9, <2>1, <3>1, <3>2, <3>3 DEF Cached, LogDelete
  <2> QED BY <1>9, <2>2, <2>3 DEF LogDelete
<1>10. CASE Unlink
  <2>0. walBroken' = walBroken /\ pc = "unlink" /\ PolicyKeys(policy) = Cached
    BY <1>0, <1>10 DEF Unlink
  <2>2. CASE del.key \in Cached
    <3>1. DropItem(del.key) /\ pc' = "purge" /\ UNCHANGED <<ev, del>> BY <1>10, <2>2 DEF Unlink
    <3>0. del.key \in Keys BY <1>0, <2>2 DEF Typed, TypeOK, MemoryTyped
    <3>2. Cached' = Cached \ {del.key} BY <1>0, <2>2, <3>0, <3>1, EnterDrop
    <3>3. PolicyKeys(policy') = PolicyKeys(policy) \ {del.key}
      BY <1>0, <3>1, PolicyHooks DEF DropItem
    <3> QED BY <1>0, <2>0, <3>1, <3>2, <3>3
  <2>3. CASE del.key \notin Cached
    <3>1. DeleteReturns(TRUE) /\ UNCHANGED memory BY <1>10, <2>3 DEF Unlink
    <3>2. ev'.attempted = ev.attempted
      BY <1>0, <3>1 DEF DeleteReturns, Typed, TypeOK, CallTyped, Evictions
    <3>3. pc' = "ok" \/ (pc' = "evict" /\ del.evicting) BY <3>1 DEF DeleteReturns
    <3> QED BY <1>0, <2>0, <2>3, <3>1, <3>2, <3>3 DEF memory, Cached
  <2> QED BY <2>2, <2>3
<1>11. CASE Purge
  <2>1. policy' = policy /\ items' = items /\ walBroken' = walBroken /\ pc = "purge"
    BY <1>11 DEF Purge, memory
  <2>2. DeleteReturns(TRUE) \/ DeleteReturns(FALSE) BY <1>11 DEF Purge
  <2>3. ev'.attempted = ev.attempted
    BY <1>0, <2>2 DEF DeleteReturns, Typed, TypeOK, CallTyped, Evictions
  <2>4. pc' \in {"ok", "error"} \/ (pc' = "evict" /\ del.evicting) BY <2>2 DEF DeleteReturns
  <2> QED BY <1>0, <2>1, <2>3, <2>4 DEF Cached
<1>12. CASE Return BY <1>0, <1>12 DEF Return, memory, Cached
<1>14. CASE Aside BY <1>0, <1>14 DEF Aside, globals
<1>15. CASE CloseLog BY <1>0, <1>15 DEF CloseLog, memory, globals, Cached
<1> QED BY <1>0, <1>1, <1>2, <1>3, <1>4, <1>5, <1>6, <1>7, <1>8, <1>9, <1>10, <1>11,
           <1>12, <1>14, <1>15, CallFrame DEF Writer

(* Every step keeps the counter covered by the cached bytes.                *)
LEMMA LedgerStep == Sound /\ [Next]_vars => Ledger'
<1> SUFFICES ASSUME Sound, [Next]_vars PROVE Ledger' OBVIOUS
<1> USE DEF Pending, Evicting, LoopPCs, DeletePCs
<1>0. /\ Typed /\ Calls /\ used \in Int /\ Valued(items)
      /\ Covers(items, used, IF Pending THEN {op.key} ELSE {})
  BY Sizes DEF Sound, Typed, Ledger
<1>1. ASSUME UNCHANGED <<items, used>>, Pending' => Pending /\ op'.key = op.key
      PROVE  Ledger'
  <2>1. CASE Pending'
    <3>1. Covers(items, used, {op.key}) BY <1>0, <1>1, <2>1
    <3>2. Covers(items', used', {op'.key}) BY <1>1, <2>1, <3>1
    <3> QED BY <2>1, <3>2 DEF Ledger
  <2>2. CASE ~Pending'
    <3>1. CASE Pending
      <4>1. Covers(items, used, {op.key}) BY <1>0, <3>1
      <4>2. Covers(items, used, {}) BY <4>1, <1>0, CoversRelax
      <4> QED BY <1>1, <2>2, <4>2 DEF Ledger
    <3>2. CASE ~Pending
      <4>1. Covers(items, used, {}) BY <1>0, <3>2
      <4> QED BY <1>1, <2>2, <4>1 DEF Ledger
    <3> QED BY <3>1, <3>2
  <2> QED BY <2>1, <2>2
<1> HIDE DEF Pending, Evicting
<1>2. ASSUME NEW by \in Callers, NEW key \in Keys, NEW val \in Values,
             NEW ttl \in {"none", "subsecond", "seconds"}, SetWithTTL(by, key, val, ttl)
      PROVE  Ledger'
  BY <1>1, <1>2 DEF SetWithTTL, memory, Pending, Evicting
<1>3. ASSUME NEW by \in Callers, NEW key \in Keys \cup {NoKey}, Delete(by, key) PROVE Ledger'
  BY <1>1, <1>3 DEF Delete, memory, Pending, Evicting
<1>4. CASE Reserve
  <2>1. ~Pending BY <1>4 DEF Reserve, Pending, Evicting
  <2>2. Covers(items, used, {}) BY <1>0, <2>1
  <2>3. Covers(items, used - (IF op.key \in DOMAIN items THEN Weight(items, op.key) ELSE 0), {op.key})
    BY <1>0, <2>2, CoversReserve
  <2>4. used' = used - (IF op.key \in DOMAIN items THEN Weight(items, op.key) ELSE 0)
    BY <1>4 DEF Reserve, Released, SizeOf, Weight, Cached
  <2>5. items' = items /\ op' = op BY <1>4 DEF Reserve
  <2>6. Pending' BY <1>4 DEF Reserve, Pending, Evicting, Eviction
  <2> QED BY <2>3, <2>4, <2>5, <2>6 DEF Ledger
<1>5. CASE Insert
  <2>1. Pending /\ ~Pending' BY <1>5 DEF Insert, Pending, Evicting
  <2>2. Covers(items, used, {op.key}) BY <1>0, <2>1
  <2>3. op.val \in Values BY <1>0, <1>5 DEF Insert, Calls
  <2>4. /\ DOMAIN items' = DOMAIN items \cup {op.key} /\ items'[op.key].val = op.val
        /\ \A k \in DOMAIN items \ {op.key} : items'[k].val = items[k].val
        /\ used' = used + Size[op.val]
    BY <1>5 DEF Insert, EnterItem, With
  <2>5. Covers(items', used + Size[op.val], {}) BY <1>0, <2>2, <2>3, <2>4, CoversInsert
  <2> QED BY <2>1, <2>4, <2>5 DEF Ledger
<1>6. CASE Store BY <1>1, <1>6 DEF Store, memory, Pending, Evicting
<1>7. CASE Trigger BY <1>1, <1>7 DEF Trigger, memory, Pending, Evicting, Eviction
<1>8. CASE ChooseVictim
  <2>1. CASE EvictionEnds
    BY <1>1, <1>8, <2>1 DEF ChooseVictim, EvictionEnds, memory, Pending, Evicting
  <2>2. CASE pc' = "attempt" /\ UNCHANGED ev
    BY <1>1, <1>8, <2>2 DEF ChooseVictim, memory, Pending, Evicting
  <2> QED BY <1>8, <2>1, <2>2, ChooseVictimChooses
<1>9. CASE Attempt
  <2>1. CASE pc' = "verify" /\ ev'.proactive = ev.proactive
    BY <1>1, <1>9, <2>1 DEF Attempt, Pending, Evicting
  <2>2. CASE pc' \in {"ok", "error"} BY <1>1, <1>9, <2>2 DEF Attempt, Pending, Evicting
  <2> QED BY <1>9, <2>1, <2>2, AttemptDoes
<1>10. CASE Verify
  <2>1. CASE pc' = "log" /\ ev' = ev BY <1>1, <1>10, <2>1 DEF Verify, memory, Pending, Evicting
  <2>2. CASE pc' \in {"ok", "error"}
    BY <1>1, <1>10, <2>2 DEF Verify, memory, Pending, Evicting
  <2> QED BY <1>10, <2>1, <2>2, VerifyDoes
<1>11. ASSUME pc \in DeletePCs, NEW success \in BOOLEAN, DeleteReturns(success), op' = op
       PROVE  Pending' => Pending /\ op'.key = op.key
  <2>1. ev'.proactive = ev.proactive
    BY <1>0, <1>11 DEF DeleteReturns, Typed, TypeOK, CallTyped, Evictions
  <2> QED BY <1>11, <2>1 DEF DeleteReturns, Pending, Evicting
<1>12. CASE LogDelete
  <2>1. op' = op /\ items' = items /\ used' = used /\ pc \in DeletePCs
    BY <1>12 DEF LogDelete, memory
  <2>2. CASE DeleteReturns(FALSE) BY <2>1, <2>2, <1>11, <1>1
  <2>3. CASE pc' = "unlink" /\ UNCHANGED <<ev, del>>
    BY <1>12, <2>1, <2>3, <1>1 DEF LogDelete, Pending, Evicting
  <2> QED BY <1>12, <2>2, <2>3 DEF LogDelete
<1>13. CASE Unlink
  <2>1. CASE del.key \notin Cached
    <3>1. DeleteReturns(TRUE) /\ pc \in DeletePCs /\ op' = op /\ UNCHANGED <<items, used>>
      BY <1>13, <2>1 DEF Unlink, memory
    <3> QED BY <3>1, <1>11, <1>1
  <2>2. CASE del.key \in Cached
    <3>1. /\ DOMAIN items' = DOMAIN items \ {del.key} /\ used' = used - Weight(items, del.key)
          /\ \A k \in DOMAIN items' : items'[k].val = items[k].val
      BY <1>13, <2>2 DEF Unlink, DropItem, Without, SizeOf, Weight
    <3>2. (Pending' <=> Pending) /\ op' = op
      BY <1>13, <2>2 DEF Unlink, Pending, Evicting
    <3>3. del.key \in DOMAIN items BY <2>2 DEF Cached
    <3>4. Covers(items', used - Weight(items, del.key), IF Pending THEN {op.key} ELSE {})
      BY <1>0, <3>1, <3>3, CoversDrop
    <3> QED BY <3>1, <3>2, <3>4 DEF Ledger
  <2> QED BY <2>1, <2>2
<1>14. CASE Purge
  <2>1. op' = op /\ UNCHANGED <<items, used>> /\ pc \in DeletePCs BY <1>14 DEF Purge, memory
  <2>2. DeleteReturns(TRUE) \/ DeleteReturns(FALSE) BY <1>14 DEF Purge
  <2> QED BY <2>1, <2>2, <1>11, <1>1
<1>15. CASE Return BY <1>1, <1>15 DEF Return, memory, Pending, Evicting
<1>16. CASE Crash
  <2>1. items' = <<>> /\ DOMAIN <<>> = {} /\ used' = 0 /\ pc' = "idle"
    BY <1>16 DEF Crash, FreshProcess
  <2>2. ~Pending' BY <2>1 DEF Pending, Evicting
  <2>3. Covers(<<>>, 0, {}) BY <2>1, CoversEmpty
  <2> QED BY <2>1, <2>2, <2>3 DEF Ledger
<1>17. CASE Aside
  <2>1. (Pending' <=> Pending) /\ op' = op /\ used' = used BY <1>17 DEF Aside, Pending, Evicting
  <2>2. DOMAIN items' = DOMAIN items /\ \A k \in DOMAIN items : items'[k].val = items[k].val
    BY <1>17 DEF Aside, Cached
  <2>3. Covers(items', used, IF Pending THEN {op.key} ELSE {}) BY <1>0, <2>2, CoversSame
  <2> QED BY <2>1, <2>3 DEF Ledger
<1>18. CASE CloseLog BY <1>1, <1>18 DEF CloseLog, memory, Pending, Evicting
<1> QED BY <1>0, <1>2, <1>3, <1>4, <1>5, <1>6, <1>7, <1>8, <1>9, <1>10, <1>12, <1>13,
           <1>14, <1>15, <1>16, <1>17, <1>18, CallFrame DEF Writer
-----------------------------------------------------------------------------
(* The strengthened invariant holds always.                                 *)
LEMMA SoundStep == Sound /\ [Next]_vars => Sound'
BY TypedStep, RoomStep, LedgerStep, SeekingStep, TrackedStep DEF Sound

LEMMA AlwaysSound == Spec => []Sound
BY SoundInit, SoundStep, PTL DEF Spec

(* The byte counter never passes the capacity, whatever Gets, sweeps,       *)
(* predictions, failures and crashes come between the check of a Set and    *)
(* the moment it charges its value.                                         *)
THEOREM CounterSafe == Spec => []UsedWithinCapacity
<1>1. Sound => UsedWithinCapacity BY DEF Sound, Room, UsedWithinCapacity
<1> QED BY AlwaysSound, <1>1, PTL

(* The policy never knows a key that is not cached, and on a node alone in  *)
(* its process knows every cached key as long as the log can be written.    *)
THEOREM PolicySafe == Spec => []PolicyTracksItems
<1>1. Sound => PolicyTracksItems
  BY DEF Sound, Tracked, Typed, Policed, PolicyTracksItems, Alone
<1> QED BY AlwaysSound, <1>1, PTL

(* An eviction that needs room finds a cached victim, on a node alone in    *)
(* its process, with a broken log too.                                      *)
THEOREM VictimSafe == Spec => []EvictionFindsVictim
<1>1. Sound => EvictionFindsVictim
  BY VictimExists DEF Sound, Typed, Calls, Alone, EvictionFindsVictim
<1> QED BY AlwaysSound, <1>1, PTL

(* An eviction takes an item away only while room is wanted, and a          *)
(* proactive one only while more than half of the capacity is counted,      *)
(* with neighbors, failing deletions and a broken log too.                  *)
THEOREM EvictionWanted == Spec => EvictsOnlyForWant
<1> DEFINE Wanted ==
      Evicting /\ Cached' # Cached /\ crashes' = crashes =>
        /\ used + ev.need > Capacity
        /\ ev.proactive => 2 * used > Capacity
<1>1. ASSUME Sound, [Next]_vars PROVE [Wanted]_vars
  <2> SUFFICES ASSUME Evicting, Cached' # Cached, crashes' = crashes
               PROVE  /\ used + ev.need > Capacity
                      /\ ev.proactive => 2 * used > Capacity
    OBVIOUS
  <2>0. Typed /\ Room /\ Seeking BY <1>1 DEF Sound
  <2>1. pc = "unlink"
    <3>1. ~Crash BY <2>0 DEF Crash, Typed, TypeOK, WorkersTyped
    <3>2. ~Insert BY DEF Insert, Evicting, LoopPCs, DeletePCs
    <3>3. Unlink => pc = "unlink" BY DEF Unlink
    <3>4. UNCHANGED items => Cached' = Cached BY DEF Cached
    <3>5. Reserve \/ Attempt => UNCHANGED items BY DEF Reserve, Attempt
    <3>6. UNCHANGED memory => UNCHANGED items BY DEF memory
    <3>7. ASSUME NEW key \in Keys, Get(key) \/ Expire(key) PROVE Cached' = Cached
      BY <3>7, <2>0 DEF Get, Expire, Cached, Typed, TypeOK, MemoryTyped
    <3> QED BY <1>1, <3>1, <3>2, <3>3, <3>4, <3>5, <3>6, <3>7, MemoryFrame
  <2>2. ~Fits BY <2>0, <2>1 DEF Seeking, Evicting, LoopPCs
  <2>3. used + ev.need > Capacity BY <1>1, <2>2, Sizes DEF Fits
  <2>4. ASSUME ev.proactive PROVE 2 * used > Capacity
    <3>1. ev.need + Capacity \div 2 <= Capacity
      BY <2>0, <2>1, <2>4 DEF Room, Evicting, DeletePCs
    <3> QED BY <1>1, <2>3, <3>1, Sizes
  <2> QED BY <2>3, <2>4
<1>2. Sound /\ [Next]_vars => [Wanted]_vars BY <1>1
<1> QED BY AlwaysSound, <1>2, PTL DEF Spec, EvictsOnlyForWant
-----------------------------------------------------------------------------
(* The bytes cached are a fold over the cached keys.                        *)

(* A step adds no more than one key to the map.                             *)
LEMMA FiniteStep ==
  ASSUME Sound, IsFiniteSet(Cached), [Next]_vars
  PROVE  IsFiniteSet(Cached')
<1>1. Typed BY DEF Sound
<1>2. Cached' \subseteq Cached \cup {op.key}
  <2>1. ASSUME UNCHANGED items PROVE Cached' = Cached BY <2>1 DEF Cached
  <2>2. CASE Insert BY <2>2 DEF Insert, EnterItem, With, Cached
  <2>3. CASE Unlink BY <2>1, <2>3 DEF Unlink, DropItem, Without, memory, Cached
  <2>4. CASE Crash
    <3>1. DOMAIN <<>> = {} OBVIOUS
    <3> QED BY <2>4, <3>1 DEF Crash, FreshProcess, Cached
  <2>5. CASE Reserve \/ Store \/ Trigger \/ ChooseVictim \/ Attempt \/ Verify \/ LogDelete
             \/ Purge \/ Return
    <3>1. UNCHANGED items
      BY <2>5, Zenon
      DEF Reserve, Store, Trigger, ChooseVictim, Attempt, Verify, LogDelete, Purge, Return, memory
    <3> QED BY <2>1, <3>1
  <2>6. ASSUME NEW by \in Callers, NEW key \in Keys, NEW val \in Values,
               NEW ttl \in {"none", "subsecond", "seconds"}, SetWithTTL(by, key, val, ttl)
        PROVE  Cached' = Cached
    BY <2>1, <2>6 DEF SetWithTTL, memory
  <2>7. ASSUME NEW by \in Callers, NEW key \in Keys \cup {NoKey}, Delete(by, key)
        PROVE  Cached' = Cached
    BY <2>1, <2>7 DEF Delete, memory
  <2>8. CASE CloseLog BY <2>1, <2>8 DEF CloseLog, memory
  <2>9. CASE Aside BY <2>9 DEF Aside
  <2> QED BY <1>1, <2>2, <2>3, <2>4, <2>5, <2>6, <2>7, <2>8, <2>9, CallFrame DEF Writer
<1>3. IsFiniteSet(Cached \cup {op.key}) BY FS_AddElement
<1> QED BY <1>2, <1>3, FS_Subset

LEMMA AlwaysFinite == Spec => []IsFiniteSet(Cached)
<1>1. Init => IsFiniteSet(Cached)
  <2>1. DOMAIN <<>> = {} OBVIOUS
  <2> QED BY <2>1, FS_EmptySet DEF Init, Cached
<1>2. Sound /\ IsFiniteSet(Cached) /\ [Next]_vars => IsFiniteSet(Cached)' BY FiniteStep
<1> QED BY <1>1, <1>2, AlwaysSound, PTL DEF Spec

(* Every tally of the map agrees with the fold that adds up its bytes.      *)
LEMMA BytesTally ==
  ASSUME IsFiniteSet(Cached), Valued(items), NEW tally, Additive(tally, items)
  PROVE  Bytes = tally[Cached]
<1> DEFINE f == [key \in Cached |-> SizeOf(key)]
           H == CHOOSE h : Adds(h, f)
<1>1. DOMAIN f = Cached /\ \A key \in Cached : f[key] = Weight(items, key)
  BY DEF SizeOf, Weight
<1>2. Bytes = H[DOMAIN f]
  BY DEF Bytes, FoldFunction, FoldFunctionOnSet, MapThenFoldSet, Chosen, Adds
<1> HIDE DEF f
<1>3. Sums(tally, f, DOMAIN f)
  <2>1. tally = [T \in SUBSET Cached |-> tally[T]] BY DEF Additive, Cached
  <2>2. tally[{}] = 0 BY DEF Additive
  <2>3. ASSUME NEW T \in SUBSET Cached, NEW key \in T
        PROVE  tally[T] = f[key] + tally[T \ {key}]
    <3>1. tally[T] = tally[T \ {key}] + Weight(items, key) BY DEF Additive, Cached
    <3>2. tally[T \ {key}] \in Int BY DEF Additive, Cached
    <3>3. Weight(items, key) \in Int BY SizeAssumption DEF Valued, Weight, Cached
    <3>4. tally[T] = Weight(items, key) + tally[T \ {key}] BY <3>1, <3>2, <3>3
    <3> QED BY <1>1, <3>4
  <2> QED BY <1>1, <2>1, <2>2, <2>3 DEF Sums
<1>4. Adds(H, f)
  <2>1. Adds(tally, f) BY <1>3, SumsAdd
  <2> QED BY <2>1, Zenon
<1> HIDE DEF H
<1> QED BY <1>1, <1>2, <1>3, <1>4, AddsSums

(* The byte counter never counts a byte that is not cached: what a Set has  *)
(* given back, a failed call has left or a deletion has taken is not        *)
(* charged, at any point of any call, whatever fails or crashes.            *)
THEOREM CounterHonest == Spec => []UsedNeverOverstates
<1>1. Sound /\ IsFiniteSet(Cached) => UsedNeverOverstates
  <2> SUFFICES ASSUME Sound, IsFiniteSet(Cached) PROVE used <= Bytes
    BY DEF UsedNeverOverstates
  <2>1. Covers(items, used, {})
    BY CoversRelax, Sizes DEF Sound, Ledger
  <2>2. PICK tally : Additive(tally, items) /\ used <= tally[DOMAIN items \ {}]
    BY <2>1 DEF Covers
  <2>3. DOMAIN items \ {} = Cached BY DEF Cached
  <2>4. Valued(items) BY Sizes DEF Sound, Typed
  <2> QED BY <2>2, <2>3, <2>4, BytesTally
<1> QED BY <1>1, AlwaysSound, AlwaysFinite, PTL
-----------------------------------------------------------------------------
(* The call that holds writeMu comes closer to its return with every step.  *)

(* No call makes more steps than a Set that goes through both loops.        *)
LEMMA StepsBounded ==
  ASSUME NEW at \in PCs, NEW loop \in BOOLEAN, NEW proactive \in BOOLEAN,
         NEW most \in Nat, NEW rounds \in 0..most,
         at \in LoopPCs => loop,
         loop /\ at \in {"verify", "log", "unlink", "purge"} => rounds < most
  PROVE  /\ Steps(at, loop, proactive, rounds, most) \in Nat
         /\ Steps(at, loop, proactive, rounds, most) <= 12 * most + 9
         /\ at # "idle" => Steps(at, loop, proactive, rounds, most) > 0
<1> DEFINE after == IF proactive THEN 1 ELSE 6 * most + 6
           steps == Steps(at, loop, proactive, rounds, most)
<1>1. rounds \in Nat /\ rounds <= most /\ after \in Nat /\ after <= 6 * most + 6 OBVIOUS
<1> HIDE DEF steps, after
<1> SUFFICES /\ steps \in Nat /\ steps <= 12 * most + 9
             /\ at # "idle" => steps > 0
  BY DEF steps
<1>2. CASE at \in {"idle", "ok", "error", "reserve", "insert", "store", "trigger"}
  <2>1. steps \in {0, 1, 12 * most + 9, 6 * most + 6, 6 * most + 5, 6 * most + 4}
    BY <1>2 DEF Steps, LoopPCs, DeletePCs, steps
  <2>2. at # "idle" => steps \in {1, 12 * most + 9, 6 * most + 6, 6 * most + 5, 6 * most + 4}
    BY <1>2 DEF Steps, LoopPCs, DeletePCs, steps
  <2> QED BY <2>1, <2>2
<1>3. CASE at \in {"evict", "attempt"}
  <2>1. loop = TRUE BY <1>3 DEF LoopPCs
  <2>2. steps = 6 * rounds + 1 + after \/ steps = 6 * rounds + 2 + after
    BY <1>1, <1>3, <2>1 DEF Steps, LoopPCs, DeletePCs, steps, after
  <2> QED BY <1>1, <2>2
<1>4. CASE loop = TRUE /\ at \in {"verify", "log", "unlink", "purge"}
  <2>1. \/ steps = 6 * rounds + 3 + after \/ steps = 6 * rounds + 4 + after
        \/ steps = 6 * rounds + 5 + after \/ steps = 6 * rounds + 6 + after
    BY <1>1, <1>4 DEF Steps, LoopPCs, DeletePCs, steps, after
  <2> QED BY <1>1, <1>4, <2>1
<1>5. CASE loop = FALSE /\ at \in {"log", "unlink", "purge"}
  <2>1. steps \in {2, 3, 4} BY <1>5 DEF Steps, LoopPCs, DeletePCs, steps
  <2> QED BY <2>1
<1> QED BY <1>2, <1>3, <1>4, <1>5 DEF PCs, LoopPCs, DeletePCs

(* How the rounds go on in a step: they start anew with a loop, one is used *)
(* up with a key to try, and none comes back within the loop.               *)
RoundsGoOn(rounds, roundsNext, most) ==
  /\ pc \in {"reserve", "trigger"} /\ pc' = "evict" => roundsNext = most
  /\ pc = "attempt" /\ pc' = "verify" => roundsNext < rounds
  /\ Evicting /\ pc # "attempt" /\ Evicting' => roundsNext <= rounds

(* Then every step of the holder of writeMu is one step less: leaving the   *)
(* loop, ...                                                                *)
LEMMA LeavingLoopAdvances ==
  ASSUME pc \in LoopPCs, EvictionEnds, ev.proactive \in BOOLEAN,
         NEW most \in Nat, NEW rounds \in Nat, NEW roundsNext \in Nat
  PROVE  Steps(pc', Evicting', ev'.proactive, roundsNext, most)
           < Steps(pc, Evicting, ev.proactive, rounds, most)
<1> DEFINE after == IF ev.proactive THEN 1 ELSE 6 * most + 6
           steps == Steps(pc, Evicting, ev.proactive, rounds, most)
           stepsNext == Steps(pc', Evicting', ev'.proactive, roundsNext, most)
<1> HIDE DEF after, steps, stepsNext
<1> SUFFICES stepsNext < steps BY DEF steps, stepsNext
<1>1. /\ after \in Nat /\ (ev.proactive => after = 1)
      /\ ~ev.proactive => after = 6 * most + 6
  BY DEF after
<1>2. \/ steps = 6 * rounds + 1 + after \/ steps = 6 * rounds + 2 + after
      \/ steps = 6 * rounds + 6 + after
  <2>1. Evicting = TRUE BY DEF Evicting
  <2> QED BY <2>1 DEF Steps, LoopPCs, DeletePCs, steps, after
<1>3. CASE ev.proactive
  <2>1. pc' = "ok" BY <1>3 DEF EvictionEnds
  <2>2. stepsNext = 1 BY <2>1 DEF Steps, LoopPCs, DeletePCs, stepsNext
  <2> QED BY <1>1, <1>2, <2>2
<1>4. CASE ~ev.proactive
  <2>1. pc' = "insert" \/ pc' = "error" BY <1>4 DEF EvictionEnds
  <2>2. stepsNext = 6 * most + 6 \/ stepsNext = 1
    BY <2>1 DEF Steps, LoopPCs, DeletePCs, stepsNext
  <2> QED BY <1>1, <1>2, <1>4, <2>2
<1> QED BY <1>3, <1>4

(* ... a step of SetWithTTL outside the loop, ...                           *)
LEMMA SettingAdvances ==
  ASSUME Typed, Typed', Reserve \/ Insert \/ Store \/ Trigger \/ Return,
         NEW most \in Nat, NEW rounds \in Nat, NEW roundsNext \in Nat,
         RoundsGoOn(rounds, roundsNext, most)
  PROVE  Steps(pc', Evicting', ev'.proactive, roundsNext, most)
           < Steps(pc, Evicting, ev.proactive, rounds, most)
<1> DEFINE steps == Steps(pc, Evicting, ev.proactive, rounds, most)
           stepsNext == Steps(pc', Evicting', ev'.proactive, roundsNext, most)
<1> HIDE DEF steps, stepsNext
<1> SUFFICES stepsNext < steps BY DEF steps, stepsNext
<1>1. ASSUME NEW need, NEW proactive \in BOOLEAN, ev' = Eviction(need, proactive), pc' = "evict",
             pc \in {"reserve", "trigger"}
      PROVE  stepsNext = 6 * most + 2 + (IF proactive THEN 1 ELSE 6 * most + 6)
  <2>1. ev'.proactive = proactive /\ ev'.proactive \in BOOLEAN BY <1>1 DEF Eviction
  <2>2. roundsNext = most BY <1>1 DEF RoundsGoOn
  <2>3. Evicting' = TRUE BY <1>1 DEF Evicting, LoopPCs
  <2> QED BY <1>1, <2>1, <2>2, <2>3 DEF Steps, LoopPCs, DeletePCs, stepsNext
<1>2. CASE Reserve
  <2>1. pc = "reserve" BY <1>2 DEF Reserve
  <2>2. steps = 12 * most + 9 BY <2>1 DEF Steps, LoopPCs, DeletePCs, steps
  <2>3. CASE pc' = "evict" /\ ev' = Eviction(Size[op.val], FALSE)
    <3>1. stepsNext = 6 * most + 2 + (6 * most + 6) BY <1>1, <2>1, <2>3
    <3> QED BY <2>2, <3>1
  <2>4. CASE pc' = "insert"
    <3>1. stepsNext = 6 * most + 6 BY <2>4 DEF Steps, LoopPCs, DeletePCs, stepsNext
    <3> QED BY <2>2, <3>1
  <2> QED BY <1>2, <2>3, <2>4 DEF Reserve
<1>3. CASE Trigger
  <2>1. pc = "trigger" BY <1>3 DEF Trigger
  <2>2. steps = 6 * most + 4 BY <2>1 DEF Steps, LoopPCs, DeletePCs, steps
  <2>3. CASE pc' = "evict" /\ ev' = Eviction(OverHalf, TRUE)
    <3>1. stepsNext = 6 * most + 2 + 1 BY <1>1, <2>1, <2>3
    <3> QED BY <2>2, <3>1
  <2>4. CASE pc' = "ok"
    <3>1. stepsNext = 1 BY <2>4 DEF Steps, LoopPCs, DeletePCs, stepsNext
    <3> QED BY <2>2, <3>1
  <2> QED BY <1>3, <2>3, <2>4 DEF Trigger
<1>4. CASE Insert
  <2>1. pc = "insert" /\ pc' = "store" BY <1>4 DEF Insert
  <2>2. steps = 6 * most + 6 BY <2>1 DEF Steps, LoopPCs, DeletePCs, steps
  <2>3. stepsNext = 6 * most + 5 BY <2>1 DEF Steps, LoopPCs, DeletePCs, stepsNext
  <2> QED BY <2>2, <2>3
<1>5. CASE Store
  <2>1. pc = "store" /\ (pc' = "trigger" \/ pc' = "error") BY <1>5 DEF Store
  <2>2. steps = 6 * most + 5 BY <2>1 DEF Steps, LoopPCs, DeletePCs, steps
  <2>3. stepsNext = 6 * most + 4 \/ stepsNext = 1
    BY <2>1 DEF Steps, LoopPCs, DeletePCs, stepsNext
  <2> QED BY <2>2, <2>3
<1>6. CASE Return
  <2>1. (pc = "ok" \/ pc = "error") /\ pc' = "idle" BY <1>6 DEF Return
  <2>2. steps = 1 BY <2>1 DEF Steps, LoopPCs, DeletePCs, steps
  <2>3. stepsNext = 0 BY <2>1 DEF Steps, LoopPCs, DeletePCs, stepsNext
  <2> QED BY <2>2, <2>3
<1> QED BY <1>2, <1>3, <1>4, <1>5, <1>6

(* ... a step within the loop ...                                           *)
LEMMA LoopingAdvances ==
  ASSUME Typed, ChooseVictim \/ Attempt \/ Verify,
         NEW most \in Nat, NEW rounds \in Nat, NEW roundsNext \in Nat,
         RoundsGoOn(rounds, roundsNext, most)
  PROVE  Steps(pc', Evicting', ev'.proactive, roundsNext, most)
           < Steps(pc, Evicting, ev.proactive, rounds, most)
<1> DEFINE after == IF ev.proactive THEN 1 ELSE 6 * most + 6
           steps == Steps(pc, Evicting, ev.proactive, rounds, most)
           stepsNext == Steps(pc', Evicting', ev'.proactive, roundsNext, most)
<1> HIDE DEF after, steps, stepsNext
<1> SUFFICES stepsNext < steps BY DEF steps, stepsNext
<1>1. ev \in Evictions /\ ev.proactive \in BOOLEAN BY DEF Typed, TypeOK, CallTyped, Evictions
<1>2. pc \in LoopPCs /\ Evicting = TRUE
  BY DEF ChooseVictim, Attempt, Verify, Evicting, LoopPCs
<1>3. after \in Nat BY DEF after
<1>4. CASE EvictionEnds BY <1>1, <1>2, <1>4, LeavingLoopAdvances DEF steps, stepsNext
<1>5. CASE ChooseVictim /\ ~EvictionEnds
  <2>1. pc = "evict" /\ pc' = "attempt" /\ ev' = ev BY <1>5 DEF ChooseVictim
  <2>2. Evicting' = TRUE /\ roundsNext <= rounds
    BY <1>2, <2>1 DEF RoundsGoOn, Evicting, LoopPCs
  <2>3. steps = 6 * rounds + 2 + after
    BY <1>1, <1>2, <2>1 DEF Steps, LoopPCs, DeletePCs, steps, after
  <2>4. stepsNext = 6 * roundsNext + 1 + after
    BY <1>1, <2>1, <2>2 DEF Steps, LoopPCs, DeletePCs, stepsNext, after
  <2> QED BY <1>3, <2>2, <2>3, <2>4
<1>6. CASE Attempt /\ ~EvictionEnds
  <2>1. pc = "attempt" /\ pc' = "verify" BY <1>6 DEF Attempt
  <2>2. Evicting' = TRUE /\ roundsNext < rounds
    BY <2>1 DEF RoundsGoOn, Evicting, LoopPCs
  <2>3. ev'.proactive = ev.proactive BY <1>1, <1>6 DEF Attempt, Evictions
  <2>4. steps = 6 * rounds + 1 + after
    BY <1>1, <1>2, <2>1 DEF Steps, LoopPCs, DeletePCs, steps, after
  <2>5. stepsNext = 6 * roundsNext + 6 + after
    BY <1>1, <2>1, <2>2, <2>3 DEF Steps, LoopPCs, DeletePCs, stepsNext, after
  <2> QED BY <1>3, <2>2, <2>4, <2>5
<1>7. CASE Verify /\ ~EvictionEnds
  <2>1. pc = "verify" /\ pc' = "log" /\ ev' = ev /\ del'.evicting = TRUE BY <1>7 DEF Verify
  <2>2. Evicting' = TRUE /\ roundsNext <= rounds
    BY <1>2, <2>1 DEF RoundsGoOn, Evicting, DeletePCs
  <2>3. steps = 6 * rounds + 6 + after
    BY <1>1, <1>2, <2>1 DEF Steps, LoopPCs, DeletePCs, steps, after
  <2>4. stepsNext = 6 * roundsNext + 5 + after
    BY <1>1, <2>1, <2>2 DEF Steps, LoopPCs, DeletePCs, stepsNext, after
  <2> QED BY <1>3, <2>2, <2>3, <2>4
<1> QED BY <1>4, <1>5, <1>6, <1>7

(* ... or a step of a deletion.                                             *)
LEMMA DeletingAdvances ==
  ASSUME Typed, LogDelete \/ Unlink \/ Purge,
         NEW most \in Nat, NEW rounds \in Nat, NEW roundsNext \in Nat,
         RoundsGoOn(rounds, roundsNext, most)
  PROVE  Steps(pc', Evicting', ev'.proactive, roundsNext, most)
           < Steps(pc, Evicting, ev.proactive, rounds, most)
<1> DEFINE after == IF ev.proactive THEN 1 ELSE 6 * most + 6
           steps == Steps(pc, Evicting, ev.proactive, rounds, most)
           stepsNext == Steps(pc', Evicting', ev'.proactive, roundsNext, most)
<1> HIDE DEF after, steps, stepsNext
<1> SUFFICES stepsNext < steps BY DEF steps, stepsNext
<1>0. ev \in Evictions /\ ev.proactive \in BOOLEAN /\ del.evicting \in BOOLEAN
  BY DEF Typed, TypeOK, CallTyped, Evictions
<1>1. after \in Nat BY DEF after
<1>2. pc \in DeletePCs /\ pc \notin LoopPCs
  BY DEF LogDelete, Unlink, Purge, DeletePCs, LoopPCs
<1>3. Evicting = del.evicting BY <1>0, <1>2 DEF Evicting
<1>4. \/ \E success \in BOOLEAN : DeleteReturns(success)
      \/ /\ UNCHANGED <<ev, del>>
         /\ <<pc, pc'>> \in {<<"log", "unlink">>, <<"unlink", "purge">>}
  BY DEF LogDelete, Unlink, Purge
<1>5. ev'.proactive = ev.proactive BY <1>0, <1>4 DEF DeleteReturns, Evictions
<1>6. CASE del.evicting
  <2>0. Evicting = TRUE BY <1>0, <1>3, <1>6
  <2>1. \/ steps = 6 * rounds + 3 + after /\ pc = "purge"
        \/ steps = 6 * rounds + 4 + after /\ pc = "unlink"
        \/ steps = 6 * rounds + 5 + after /\ pc = "log"
    BY <1>0, <1>2, <2>0 DEF Steps, LoopPCs, DeletePCs, steps, after
  <2>2. CASE \E success \in BOOLEAN : DeleteReturns(success)
    <3>1. pc' = "evict" /\ Evicting' = TRUE
      BY <1>6, <2>2 DEF DeleteReturns, Evicting, LoopPCs
    <3>2. roundsNext <= rounds BY <1>2, <1>3, <1>6, <3>1 DEF RoundsGoOn, DeletePCs
    <3>3. stepsNext = 6 * roundsNext + 2 + after
      BY <1>0, <1>5, <3>1 DEF Steps, LoopPCs, DeletePCs, stepsNext, after
    <3> QED BY <1>1, <2>1, <3>2, <3>3
  <2>3. CASE /\ UNCHANGED <<ev, del>>
             /\ <<pc, pc'>> \in {<<"log", "unlink">>, <<"unlink", "purge">>}
    <3>1. Evicting' = TRUE BY <1>6, <2>3 DEF Evicting, DeletePCs
    <3>2. roundsNext <= rounds BY <1>2, <1>3, <1>6, <3>1 DEF RoundsGoOn, DeletePCs
    <3>3. CASE pc = "log" /\ pc' = "unlink"
      <4>1. stepsNext = 6 * roundsNext + 4 + after
        BY <1>0, <1>5, <3>1, <3>3 DEF Steps, LoopPCs, DeletePCs, stepsNext, after
      <4> QED BY <1>1, <2>1, <3>2, <3>3, <4>1
    <3>4. CASE pc = "unlink" /\ pc' = "purge"
      <4>1. stepsNext = 6 * roundsNext + 3 + after
        BY <1>0, <1>5, <3>1, <3>4 DEF Steps, LoopPCs, DeletePCs, stepsNext, after
      <4> QED BY <1>1, <2>1, <3>2, <3>4, <4>1
    <3> QED BY <2>3, <3>3, <3>4
  <2> QED BY <1>4, <2>2, <2>3
<1>7. CASE ~del.evicting
  <2>0. Evicting = FALSE BY <1>0, <1>3, <1>7
  <2>1. \/ steps = 4 /\ pc = "log"
        \/ steps = 3 /\ pc = "unlink"
        \/ steps = 2 /\ pc = "purge"
    BY <1>2, <2>0 DEF Steps, LoopPCs, DeletePCs, steps
  <2>2. CASE \E success \in BOOLEAN : DeleteReturns(success)
    <3>1. pc' = "ok" \/ pc' = "error" BY <1>7, <2>2 DEF DeleteReturns
    <3>2. stepsNext = 1 BY <3>1 DEF Steps, LoopPCs, DeletePCs, stepsNext
    <3> QED BY <2>1, <3>2
  <2>3. CASE /\ UNCHANGED <<ev, del>>
             /\ <<pc, pc'>> \in {<<"log", "unlink">>, <<"unlink", "purge">>}
    <3>1. Evicting' = FALSE BY <1>7, <2>3 DEF Evicting, LoopPCs
    <3>2. CASE pc = "log" /\ pc' = "unlink"
      <4>1. stepsNext = 3 BY <3>1, <3>2 DEF Steps, LoopPCs, DeletePCs, stepsNext
      <4> QED BY <2>1, <3>2, <4>1
    <3>3. CASE pc = "unlink" /\ pc' = "purge"
      <4>1. stepsNext = 2 BY <3>1, <3>3 DEF Steps, LoopPCs, DeletePCs, stepsNext
      <4> QED BY <2>1, <3>3, <4>1
    <3> QED BY <2>3, <3>2, <3>3
  <2> QED BY <1>4, <2>2, <2>3
<1> QED BY <1>0, <1>6, <1>7

(* Hence every step of the holder of writeMu, if the rounds go on so.       *)
LEMMA WriterAdvances ==
  ASSUME Typed, Typed', Writer,
         NEW most \in Nat, NEW rounds \in Nat, NEW roundsNext \in Nat,
         RoundsGoOn(rounds, roundsNext, most)
  PROVE  Steps(pc', Evicting', ev'.proactive, roundsNext, most)
           < Steps(pc, Evicting, ev.proactive, rounds, most)
<1>1. CASE Reserve \/ Insert \/ Store \/ Trigger \/ Return BY <1>1, SettingAdvances
<1>2. CASE ChooseVictim \/ Attempt \/ Verify BY <1>2, LoopingAdvances
<1>3. CASE LogDelete \/ Unlink \/ Purge BY <1>3, DeletingAdvances
<1> QED BY <1>1, <1>2, <1>3, Zenon DEF Writer

(* What cannot fail.                                                        *)
Working == Faults = {} /\ ~walBroken /\ ~dbClosed

(* How a step of the holder of writeMu treats the locals of the loop.       *)
Begins == pc \in {"reserve", "trigger"} /\ pc' = "evict" /\ ev'.attempted = {} /\ ev'.evicted = 0
Tries == Attempt /\ pc' = "verify" /\ ev'.evicted = ev.evicted
Continues ==
  /\ Evicting /\ ev' = ev
  /\ \/ pc = "evict" /\ pc' = "attempt" /\ MayEvict
     \/ <<pc, pc'>> \in {<<"verify", "log">>, <<"log", "unlink">>, <<"unlink", "purge">>}
ComesRound ==
  /\ Evicting /\ pc \in DeletePCs /\ pc' = "evict" /\ ev'.attempted = ev.attempted
  /\ ev'.evicted = ev.evicted + 1 \/ (ev' = ev /\ ~Working)
Leaves == ~Evicting' /\ (ev' = ev \/ ev' = NoEvict)

LEMMA RoundSteps ==
  ASSUME Typed, Writer
  PROVE  Begins \/ Tries \/ Continues \/ ComesRound \/ Leaves
<1>1. ev \in Evictions BY DEF Typed, TypeOK, CallTyped
<1>2. EvictionEnds => Leaves BY DEF EvictionEnds, Leaves, Evicting, LoopPCs, DeletePCs
<1>3. ASSUME NEW success \in BOOLEAN, DeleteReturns(success), pc \in DeletePCs,
             success \/ ~Working
      PROVE  ComesRound \/ Leaves
  <2>1. CASE del.evicting
    <3>1. Evicting /\ pc' = "evict" BY <1>3, <2>1 DEF DeleteReturns, Evicting
    <3>2. /\ ev'.attempted = ev.attempted
          /\ ev'.evicted = ev.evicted + 1 \/ (ev' = ev /\ ~Working)
      BY <1>1, <1>3, <2>1 DEF DeleteReturns, Evictions
    <3> QED BY <1>3, <3>1, <3>2 DEF ComesRound
  <2>2. CASE ~del.evicting
    BY <1>3, <2>2 DEF DeleteReturns, Leaves, Evicting, LoopPCs, DeletePCs
  <2> QED BY <2>1, <2>2
<1>4. CASE Reserve \/ Trigger
  <2>1. CASE pc' = "evict"
    BY <1>4, <2>1 DEF Reserve, Trigger, Eviction, Begins
  <2>2. CASE pc' # "evict"
    BY <1>4, <2>2 DEF Reserve, Trigger, Leaves, Evicting, LoopPCs, DeletePCs
  <2> QED BY <2>1, <2>2
<1>5. CASE Insert \/ Store \/ Return
  BY <1>5 DEF Insert, Store, Return, Leaves, Evicting, LoopPCs, DeletePCs
<1>6. CASE ChooseVictim
  <2>1. CASE pc' = "attempt" /\ MayEvict /\ UNCHANGED ev
    BY <1>6, <2>1 DEF ChooseVictim, Continues, Evicting, LoopPCs
  <2> QED BY <1>2, <1>6, <2>1 DEF ChooseVictim
<1>7. CASE Attempt
  <2>1. CASE EvictionEnds BY <1>2, <2>1
  <2>2. CASE ~EvictionEnds BY <1>1, <1>7, <2>2 DEF Attempt, Tries, Evictions
  <2> QED BY <2>1, <2>2
<1>8. CASE Verify
  <2>1. CASE EvictionEnds BY <1>2, <2>1
  <2>2. CASE ~EvictionEnds BY <1>8, <2>2 DEF Verify, Continues, Evicting, LoopPCs
  <2> QED BY <2>1, <2>2
<1>9. CASE LogDelete \/ Unlink \/ Purge
  <2>1. pc \in DeletePCs BY <1>9 DEF LogDelete, Unlink, Purge, DeletePCs
  <2>2. CASE /\ UNCHANGED <<ev, del>>
             /\ <<pc, pc'>> \in {<<"log", "unlink">>, <<"unlink", "purge">>}
    BY <2>1, <2>2 DEF Continues, Leaves, Evicting, LoopPCs, DeletePCs
  <2>3. CASE \E success \in BOOLEAN : DeleteReturns(success) /\ (success \/ ~Working)
    BY <1>3, <2>1, <2>3
  <2> QED BY <1>9, <2>2, <2>3
    DEF LogDelete, LogFails, Unlink, Purge, BadgerFails, Working
<1> QED BY <1>4, <1>5, <1>6, <1>7, <1>8, <1>9, Zenon DEF Writer

(* The bounds of the measure, before and after a step.                      *)
LEMMA StepsOfCall ==
  ASSUME Typed, pc # "idle", NEW most \in Nat, NEW rounds \in 0..most,
         Evicting /\ pc \notin {"evict", "attempt"} => rounds < most
  PROVE  /\ Steps(pc, Evicting, ev.proactive, rounds, most) \in Nat
         /\ Steps(pc, Evicting, ev.proactive, rounds, most) > 0
         /\ Steps(pc, Evicting, ev.proactive, rounds, most) <= 12 * most + 9
<1>1. pc \in PCs /\ Evicting \in BOOLEAN /\ ev.proactive \in BOOLEAN
  BY DEF Typed, TypeOK, CallTyped, Evictions, Evicting
<1>2. pc \in LoopPCs => Evicting BY DEF Evicting
<1> QED BY <1>1, <1>2, StepsBounded

LEMMA StepsNextNatural ==
  ASSUME Typed', NEW most \in Nat, NEW rounds \in 0..most
  PROVE  Steps(pc', Evicting', ev'.proactive, rounds, most) \in Int
<1>1. pc' \in PCs /\ Evicting' \in BOOLEAN /\ ev'.proactive \in BOOLEAN
  BY DEF Typed, TypeOK, CallTyped, Evictions, Evicting
<1>2. pc' \in LoopPCs => Evicting' BY DEF Evicting
<1>3. rounds \in Nat OBVIOUS
<1> DEFINE steps == Steps(pc', Evicting', ev'.proactive, rounds, most)
           after == IF ev'.proactive THEN 1 ELSE 6 * most + 6
<1> HIDE DEF steps, after
<1> SUFFICES steps \in Int BY DEF steps
<1>4. after \in Nat BY DEF after
<1>5. CASE Evicting' = TRUE /\ pc' \in LoopPCs \cup DeletePCs
  <2>1. \/ steps = 6 * rounds + 1 + after \/ steps = 6 * rounds + 2 + after
        \/ steps = 6 * rounds + 3 + after \/ steps = 6 * rounds + 4 + after
        \/ steps = 6 * rounds + 5 + after \/ steps = 6 * rounds + 6 + after
    BY <1>1, <1>3, <1>5 DEF Steps, LoopPCs, DeletePCs, steps, after
  <2> QED BY <1>3, <1>4, <2>1
<1>6. CASE Evicting' = FALSE /\ pc' \in DeletePCs
  <2>1. steps \in {2, 3, 4} BY <1>1, <1>6 DEF Steps, LoopPCs, DeletePCs, steps
  <2> QED BY <2>1
<1>7. CASE pc' \notin LoopPCs \cup DeletePCs
  <2>1. steps \in {0, 1, 12 * most + 9, 6 * most + 6, 6 * most + 5, 6 * most + 4}
    BY <1>1, <1>7 DEF Steps, LoopPCs, DeletePCs, PCs, steps
  <2> QED BY <2>1
<1> QED BY <1>1, <1>2, <1>5, <1>6, <1>7

LEMMA StepsAfterCrash ==
  ASSUME Typed', Crash, NEW most \in Nat, NEW rounds \in 0..most
  PROVE  Steps(pc', Evicting', ev'.proactive, rounds, most) = 0
<1>1. pc' = "idle" BY DEF Crash, FreshProcess
<1> QED BY <1>1 DEF Steps, LoopPCs, DeletePCs
-----------------------------------------------------------------------------
(* Rounds counted by the keys they try.                                     *)

(* A node no other interferes with goes on with a key it has not tried.     *)
LEMMA TriedIsNew ==
  ASSUME Typed, Tries, Alone
  PROVE  /\ evictKey \in Keys /\ evictKey \notin ev.attempted
         /\ ev'.attempted = ev.attempted \cup {evictKey}
<1>1. SeenKeys = {evictKey} /\ SeenOk = {evictOk} BY Seen
<1>2. CASE NewCandidate(evictOk, evictKey)
  <2>1. ev' = [ev EXCEPT !.attempted = @ \cup {evictKey}] BY <1>1, <1>2 DEF Tries, Attempt
  <2>2. evictKey \in Cached BY <1>2 DEF Typed, Calls, Tries, Attempt, NewCandidate
  <2> QED BY <1>2, <2>1, <2>2 DEF NewCandidate, Typed, TypeOK, MemoryTyped, CallTyped, Evictions
<1>3. CASE ~NewCandidate(evictOk, evictKey)
  <2>1. EvictionEnds BY <1>1, <1>3 DEF Tries, Attempt
  <2> QED BY <2>1 DEF EvictionEnds, Tries
<1> QED BY <1>2, <1>3

(* No step of a call ends or starts a recovery.                             *)
LEMMA WriterKeepsReplay == Writer => UNCHANGED recovering
BY Zenon
DEF Writer, Reserve, Insert, Store, Trigger, ChooseVictim, Attempt, Verify, LogDelete, Unlink,
    Purge, Return, process

(* Any other step takes writeMu, kills the process or leaves the call alone.*)
LEMMA OtherSteps ==
  ASSUME Typed, [Next]_vars, ~Writer
  PROVE  \/ Crash
         \/ pc = "idle" /\ ev' = ev /\ ~Evicting'
         \/ UNCHANGED <<pc, ev, del>>
<1>1. ASSUME NEW by \in Callers, NEW key \in Keys, NEW val \in Values,
             NEW ttl \in {"none", "subsecond", "seconds"}, SetWithTTL(by, key, val, ttl)
      PROVE  pc = "idle" /\ ev' = ev /\ ~Evicting'
  BY <1>1 DEF SetWithTTL, Evicting, LoopPCs, DeletePCs
<1>2. ASSUME NEW by \in Callers, NEW key \in Keys \cup {NoKey}, Delete(by, key)
      PROVE  pc = "idle" /\ ev' = ev /\ ~Evicting'
  BY <1>2 DEF Delete, Evicting, LoopPCs, DeletePCs
<1>3. CloseLog \/ Aside => UNCHANGED <<pc, ev, del>> BY DEF CloseLog, Aside
<1> QED BY <1>1, <1>2, <1>3, CallFrame

(* A crash ends the call.                                                   *)
LEMMA CrashEnds == Crash => pc' = "idle" /\ ev' = NoEvict /\ ~Evicting'
BY DEF Crash, FreshProcess, Evicting, LoopPCs, DeletePCs

(* Where no other node writes evictKey, a loop that has got past Attempt    *)
(* has tried a key of its own.                                              *)
Trying == Alone /\ Evicting /\ pc \notin {"evict", "attempt"} => ev.attempted \cap Keys # {}

LEMMA TryingStep == Typed /\ Trying /\ [Next]_vars => Trying'
<1> SUFFICES ASSUME Typed, Trying, [Next]_vars PROVE Trying' OBVIOUS
<1>1. CASE Writer
  <2>1. Alone' = Alone BY <1>1, WriterKeepsReplay DEF Alone
  <2>2. CASE Begins \/ ComesRound \/ Leaves BY <2>2 DEF Begins, ComesRound, Leaves, Trying
  <2>3. CASE Tries BY <2>1, <2>3, TriedIsNew DEF Trying
  <2>4. CASE Continues BY <2>1, <2>4 DEF Continues, Trying
  <2> QED BY <1>1, <2>2, <2>3, <2>4, RoundSteps
<1>2. CASE ~Writer
  <2>1. CASE Crash BY <2>1, CrashEnds DEF Trying
  <2>2. CASE pc = "idle" /\ ev' = ev /\ ~Evicting' BY <2>2 DEF Trying
  <2>3. CASE UNCHANGED <<pc, ev, del>> /\ ~Crash
    <3>1. Alone' => Alone BY <2>3, AloneFrame
    <3>2. Evicting' = Evicting BY <2>3 DEF Evicting
    <3> QED BY <2>3, <3>1, <3>2 DEF Trying
  <2> QED BY <1>2, <2>1, <2>2, <2>3, OtherSteps
<1> QED BY <1>1, <1>2

(* The keys untried are as many as the property says, and fewer within the  *)
(* round that tries one.                                                    *)
LEMMA UntriedCounted ==
  ASSUME IsFiniteSet(Keys)
  PROVE  /\ Cardinality(Keys) \in Nat /\ KeysUntried \in 0..Cardinality(Keys)
         /\ ev.attempted \cap Keys # {} => KeysUntried < Cardinality(Keys)
<1>1. Cardinality(Keys) \in Nat BY FS_CardinalityType
<1>2. IsFiniteSet(Keys \ ev.attempted) /\ Cardinality(Keys \ ev.attempted) <= Cardinality(Keys)
  BY FS_Subset
<1>3. Cardinality(Keys \ ev.attempted) \in Nat BY <1>2, FS_CardinalityType
<1>4. ASSUME ev.attempted \cap Keys # {} PROVE KeysUntried # Cardinality(Keys)
  <2>1. Keys \ ev.attempted # Keys BY <1>4
  <2>2. Keys \ ev.attempted \in SUBSET Keys OBVIOUS
  <2> QED BY <2>1, <2>2, FS_Subset DEF KeysUntried
<1> QED BY <1>1, <1>2, <1>3, <1>4 DEF KeysUntried

(* A round leaves one key fewer untried.                                    *)
LEMMA KeysGoOn ==
  ASSUME Typed, Writer, IsFiniteSet(Keys), Alone
  PROVE  RoundsGoOn(KeysUntried, KeysUntried', Cardinality(Keys))
<1>1. KeysUntried \in Nat BY UntriedCounted
<1>2. CASE Begins
  <2>1. Keys \ ev'.attempted = Keys BY <1>2 DEF Begins
  <2>2. ~Evicting BY <1>2 DEF Begins, Evicting, LoopPCs, DeletePCs
  <2> QED BY <1>2, <2>1, <2>2 DEF Begins, RoundsGoOn, KeysUntried
<1>3. CASE Tries
  <2>1. Keys \ ev'.attempted = (Keys \ ev.attempted) \ {evictKey}
        /\ evictKey \in Keys \ ev.attempted
    BY <1>3, TriedIsNew
  <2>2. IsFiniteSet(Keys \ ev.attempted) BY FS_Difference
  <2>3. Cardinality((Keys \ ev.attempted) \ {evictKey}) = Cardinality(Keys \ ev.attempted) - 1
    BY <2>1, <2>2, FS_RemoveElement, Zenon
  <2>4. KeysUntried' = KeysUntried - 1 BY <2>1, <2>3, Zenon DEF KeysUntried
  <2>5. pc = "attempt" BY <1>3 DEF Tries, Attempt
  <2> QED BY <1>1, <2>4, <2>5 DEF RoundsGoOn
<1>4. CASE Continues \/ ComesRound
  <2>1. ev'.attempted = ev.attempted /\ pc \notin {"reserve", "trigger"}
    BY <1>4 DEF Continues, ComesRound, Evicting, LoopPCs, DeletePCs
  <2>2. KeysUntried' = KeysUntried BY <2>1 DEF KeysUntried
  <2>3. ~(pc = "attempt" /\ pc' = "verify")
    BY <1>4 DEF Continues, ComesRound, DeletePCs
  <2> QED BY <1>1, <2>1, <2>2, <2>3 DEF RoundsGoOn
<1>5. CASE Leaves BY <1>5 DEF Leaves, RoundsGoOn, Evicting, LoopPCs
<1> QED BY <1>2, <1>3, <1>4, <1>5, RoundSteps

(* The call that holds writeMu comes closer to its return with every step   *)
(* of its own, and no step of a Get, a worker, time or a crash takes it     *)
(* further away: twelve steps a key and nine are the most it makes,         *)
(* whatever fails, as long as no other node's loop interferes.              *)
THEOREM FailingWritesBounded == Spec => FailingWritesEnd
<1> DEFINE Bounded == IsFiniteSet(Keys) /\ Alone /\ pc # "idle" =>
             /\ StepsByKeys <= 12 * Cardinality(Keys) + 9
             /\ ComesCloser(StepsByKeys, StepsByKeys')
<1>1. Init => Trying BY DEF Init, Trying, Evicting, LoopPCs, DeletePCs
<1>2. ASSUME Typed, Trying, [Next]_vars PROVE [Bounded]_vars
  <2> SUFFICES ASSUME IsFiniteSet(Keys), Alone, pc # "idle"
               PROVE  /\ StepsByKeys <= 12 * Cardinality(Keys) + 9
                      /\ ComesCloser(StepsByKeys, StepsByKeys')
    OBVIOUS
  <2>1. Typed' BY <1>2, TypedStep
  <2>2. /\ Cardinality(Keys) \in Nat /\ KeysUntried \in 0..Cardinality(Keys)
        /\ Evicting /\ pc \notin {"evict", "attempt"} => KeysUntried < Cardinality(Keys)
    BY <1>2, UntriedCounted DEF Trying
  <2>3. KeysUntried' \in 0..Cardinality(Keys)
    <3>1. (IsFiniteSet(Keys) => KeysUntried \in 0..Cardinality(Keys))' BY UntriedCounted, PTL
    <3> QED BY <3>1
  <2>4. /\ StepsByKeys \in Nat /\ StepsByKeys > 0
        /\ StepsByKeys <= 12 * Cardinality(Keys) + 9
    BY <1>2, <2>2, StepsOfCall DEF StepsByKeys
  <2>5. CASE Writer
    <3>1. RoundsGoOn(KeysUntried, KeysUntried', Cardinality(Keys)) BY <1>2, <2>5, KeysGoOn
    <3>2. StepsByKeys' < StepsByKeys
      BY <1>2, <2>1, <2>2, <2>3, <2>5, <3>1, WriterAdvances DEF StepsByKeys
    <3>3. StepsByKeys' \in Int
      BY <2>1, <2>2, <2>3, StepsNextNatural DEF StepsByKeys
    <3> QED BY <2>4, <3>2, <3>3 DEF ComesCloser
  <2>6. CASE Crash
    <3>1. StepsByKeys' = 0 BY <2>1, <2>2, <2>3, <2>6, StepsAfterCrash DEF StepsByKeys
    <3> QED BY <2>4, <3>1 DEF ComesCloser
  <2>7. CASE UNCHANGED <<pc, ev, del>>
    <3>1. StepsByKeys' = StepsByKeys BY <2>7 DEF StepsByKeys, KeysUntried, Evicting
    <3> QED BY <2>4, <2>7, <3>1 DEF ComesCloser
  <2> QED BY <1>2, <2>4, <2>5, <2>6, <2>7, OtherSteps
<1>3. Typed /\ Trying /\ [Next]_vars => [Bounded]_vars BY <1>2
<1> QED BY <1>1, <1>3, AlwaysTyped, TryingStep, PTL DEF Spec, FailingWritesEnd
-----------------------------------------------------------------------------
(* Rounds counted by the deletions they make.                               *)

(* A loop makes no more evictions than it may.                              *)
Capped ==
  /\ ev.evicted <= MaxEvictions
  /\ Evicting /\ pc # "evict" => ev.evicted < MaxEvictions

LEMMA CappedInit == Init => Capped
BY MaxEvictionsAssumption
   DEF Init, Capped, NoEvict, Eviction, Evicting, LoopPCs, DeletePCs

LEMMA CappedStep == Typed /\ Capped /\ [Next]_vars => Capped'
<1> SUFFICES ASSUME Typed, Capped, [Next]_vars PROVE Capped' OBVIOUS
<1>1. ev.evicted \in Nat /\ MaxEvictions \in Nat /\ NoEvict.evicted = 0
  BY MaxEvictionsAssumption DEF Typed, TypeOK, CallTyped, Evictions, NoEvict, Eviction
<1>2. ASSUME ~Evicting', ev' = ev \/ ev' = NoEvict PROVE Capped' BY <1>1, <1>2 DEF Capped
<1>3. CASE Writer
  <2>1. CASE Begins BY <1>1, <2>1 DEF Begins, Capped
  <2>2. CASE Tries
    <3>1. Evicting /\ pc = "attempt" BY <2>2 DEF Tries, Attempt, Evicting, LoopPCs
    <3> QED BY <1>1, <2>2, <3>1 DEF Tries, Capped
  <2>3. CASE Continues BY <1>1, <2>3 DEF Continues, Capped, MayEvict
  <2>4. CASE ComesRound
    <3>1. ev.evicted < MaxEvictions BY <2>4 DEF ComesRound, Capped, DeletePCs
    <3> QED BY <1>1, <2>4, <3>1 DEF ComesRound, Capped
  <2>5. CASE Leaves BY <1>2, <2>5 DEF Leaves
  <2> QED BY <1>3, <2>1, <2>2, <2>3, <2>4, <2>5, RoundSteps
<1>4. CASE ~Writer
  <2>1. CASE Crash BY <1>2, <2>1, CrashEnds
  <2>2. CASE UNCHANGED <<pc, ev, del>> BY <2>2 DEF Capped, Evicting
  <2> QED BY <1>2, <1>4, <2>1, <2>2, OtherSteps
<1> QED BY <1>3, <1>4

(* What is left of the cap.                                                 *)
LEMMA LeftCounted ==
  Typed /\ Capped =>
    /\ MaxEvictions \in Nat /\ EvictionsLeft \in 0..MaxEvictions
    /\ Evicting /\ pc \notin {"evict", "attempt"} => EvictionsLeft < MaxEvictions
<1> SUFFICES ASSUME Typed, Capped
             PROVE  /\ MaxEvictions \in Nat /\ EvictionsLeft \in 0..MaxEvictions
                    /\ Evicting /\ pc \notin {"evict", "attempt"} => EvictionsLeft < MaxEvictions
  OBVIOUS
<1>1. ev.evicted \in Nat /\ MaxEvictions \in Nat
  BY MaxEvictionsAssumption DEF Typed, TypeOK, CallTyped, Evictions
<1>2. CASE Evicting /\ pc \notin {"evict", "attempt"}
  BY <1>1, <1>2 DEF Capped, EvictionsLeft
<1>3. CASE ~(Evicting /\ pc \notin {"evict", "attempt"})
  BY <1>1, <1>3 DEF Capped, EvictionsLeft
<1> QED BY <1>2, <1>3

(* A round that deletes leaves one eviction fewer.                          *)
LEMMA EvictionsGoOn ==
  ASSUME Typed, Writer, Working
  PROVE  RoundsGoOn(EvictionsLeft, EvictionsLeft', MaxEvictions)
<1>1. ev.evicted \in Nat /\ MaxEvictions \in Nat
  BY MaxEvictionsAssumption DEF Typed, TypeOK, CallTyped, Evictions
<1>2. CASE Begins
  <2>1. ~Evicting BY <1>2 DEF Begins, Evicting, LoopPCs, DeletePCs
  <2>2. EvictionsLeft' = MaxEvictions BY <1>1, <1>2 DEF Begins, EvictionsLeft
  <2> QED BY <1>2, <2>1, <2>2 DEF Begins, RoundsGoOn
<1>3. CASE Tries
  <2>1. pc = "attempt" /\ Evicting /\ Evicting'
    BY <1>3 DEF Tries, Attempt, Evicting, LoopPCs
  <2>2. EvictionsLeft = MaxEvictions - ev.evicted BY <1>1, <2>1 DEF EvictionsLeft
  <2>3. EvictionsLeft' = MaxEvictions - ev.evicted - 1
    BY <1>3, <2>1 DEF EvictionsLeft, Tries
  <2> QED BY <1>1, <2>1, <2>2, <2>3 DEF RoundsGoOn
<1>4. CASE Continues /\ Evicting'
  <2>1. EvictionsLeft' = EvictionsLeft BY <1>4 DEF Continues, EvictionsLeft
  <2>2. EvictionsLeft \in Int BY <1>1 DEF EvictionsLeft
  <2>3. pc \notin {"reserve", "trigger", "attempt"} BY <1>4 DEF Continues
  <2> QED BY <2>1, <2>2, <2>3 DEF RoundsGoOn
<1>5. CASE ComesRound
  <2>1. /\ Evicting /\ pc \in DeletePCs /\ pc' = "evict" /\ ev'.evicted = ev.evicted + 1
        /\ pc \notin {"reserve", "trigger", "attempt", "evict"}
    BY <1>5 DEF ComesRound, DeletePCs
  <2>2. EvictionsLeft = MaxEvictions - ev.evicted - 1 BY <2>1 DEF EvictionsLeft
  <2>3. EvictionsLeft' = MaxEvictions - (ev.evicted + 1) BY <1>1, <2>1 DEF EvictionsLeft
  <2> QED BY <1>1, <2>1, <2>2, <2>3 DEF RoundsGoOn
<1>6. CASE ~Evicting'
  BY <1>6 DEF RoundsGoOn, Evicting, LoopPCs
<1> QED BY <1>2, <1>3, <1>4, <1>5, <1>6, RoundSteps DEF Leaves

(* While nothing fails a call that holds writeMu is through after twelve    *)
(* steps for each eviction it may make and nine, whatever the loops of      *)
(* other nodes do to evictKey and however many keys there are.              *)
THEOREM CapBoundsWrites == Spec => CapEndsWrites
<1> DEFINE Bounded == Faults = {} /\ ~walBroken /\ ~dbClosed /\ pc # "idle" =>
             /\ StepsByEvictions <= 12 * MaxEvictions + 9
             /\ ComesCloser(StepsByEvictions, StepsByEvictions')
<1>1. (Typed /\ Capped => /\ MaxEvictions \in Nat /\ EvictionsLeft \in 0..MaxEvictions
                          /\ Evicting /\ pc \notin {"evict", "attempt"}
                               => EvictionsLeft < MaxEvictions)'
  BY LeftCounted, PTL
<1>2. ASSUME Typed, Capped, [Next]_vars PROVE [Bounded]_vars
  <2> SUFFICES ASSUME Working, pc # "idle"
               PROVE  /\ StepsByEvictions <= 12 * MaxEvictions + 9
                      /\ ComesCloser(StepsByEvictions, StepsByEvictions')
    BY DEF Working
  <2>1. Typed' /\ Capped' BY <1>2, TypedStep, CappedStep
  <2>2. /\ MaxEvictions \in Nat /\ EvictionsLeft \in 0..MaxEvictions
        /\ Evicting /\ pc \notin {"evict", "attempt"} => EvictionsLeft < MaxEvictions
    BY <1>2, LeftCounted
  <2>3. EvictionsLeft' \in 0..MaxEvictions BY <1>1, <2>1
  <2>4. /\ StepsByEvictions \in Nat /\ StepsByEvictions > 0
        /\ StepsByEvictions <= 12 * MaxEvictions + 9
    BY <1>2, <2>2, StepsOfCall DEF StepsByEvictions
  <2>5. CASE Writer
    <3>1. RoundsGoOn(EvictionsLeft, EvictionsLeft', MaxEvictions) BY <1>2, <2>5, EvictionsGoOn
    <3>2. StepsByEvictions' < StepsByEvictions
      BY <1>2, <2>1, <2>2, <2>3, <2>5, <3>1, WriterAdvances DEF StepsByEvictions
    <3>3. StepsByEvictions' \in Int
      BY <2>1, <2>2, <2>3, StepsNextNatural DEF StepsByEvictions
    <3> QED BY <2>4, <3>2, <3>3 DEF ComesCloser
  <2>6. CASE Crash
    <3>1. StepsByEvictions' = 0 BY <2>1, <2>2, <2>3, <2>6, StepsAfterCrash DEF StepsByEvictions
    <3> QED BY <2>4, <3>1 DEF ComesCloser
  <2>7. CASE UNCHANGED <<pc, ev, del>>
    <3>1. StepsByEvictions' = StepsByEvictions
      BY <2>7 DEF StepsByEvictions, EvictionsLeft, Evicting
    <3> QED BY <2>4, <2>7, <3>1 DEF ComesCloser
  <2> QED BY <1>2, <2>4, <2>5, <2>6, <2>7, OtherSteps
<1>3. Typed /\ Capped /\ [Next]_vars => [Bounded]_vars BY <1>2
<1> QED BY <1>3, AlwaysTyped, CappedInit, CappedStep, PTL DEF Spec, CapEndsWrites
=============================================================================
