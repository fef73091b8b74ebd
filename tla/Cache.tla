------------------------------- MODULE Cache -------------------------------
(* One cache node: cache/cache.go with its write-ahead log, its Badger      *)
(* store, its eviction policy and its three background workers.             *)
(*                                                                          *)
(* writeMu serializes SetWithTTL and Delete end to end, so one writer is in *)
(* flight: op is the call that holds writeMu and pc where it stands.  mu is *)
(* taken and released inside that call; what runs between two of its        *)
(* critical sections (Get, the workers, time, a crash) interleaves here.    *)
EXTENDS EvictionPolicy, Integers, FiniteSets

CONSTANTS
  Keys, Values,     \* what clients may store
  Size,             \* Size[v]: len(value)
  Capacity,         \* capacity in bytes
  TTLs,             \* subset of {"none", "subsecond", "seconds"} clients use
  MaxEvictions,     \* evictions per evictToMakeSpace (10 in the code)
  ChanCap,          \* buffer of mlEvictCh (100 in the code)
  ExternalTriggers, \* TRUE: TriggerMLEviction may be called from outside
  Faults,           \* subset of {"wal", "badger"}: what may fail to write
  Neighbors,        \* TRUE: other nodes of the process evict too
  Shutdown,         \* TRUE: the process may be shut down
  NoKey, NoValue,   \* stand for "" and for the value of a delete entry
  MaxLog,           \* bound: log entries after which clients stop writing
  MaxFreq,          \* bound: LFU frequency after which Gets stop
  MaxCrashes        \* bound: crashes explored

ASSUME SizeAssumption == Size \in [Values -> Nat]
ASSUME CapacityAssumption == Capacity \in Nat \ {0}
ASSUME MaxEvictionsAssumption == MaxEvictions \in Nat \ {0}
ASSUME ChanCapAssumption == ChanCap \in Nat
ASSUME SentinelAssumption == NoKey \notin Keys /\ NoValue \notin Values
ASSUME ChoiceAssumption ==
  /\ TTLs \subseteq {"none", "subsecond", "seconds"}
  /\ Faults \subseteq {"wal", "badger"}
  /\ {ExternalTriggers, Neighbors, Shutdown} \subseteq BOOLEAN
ASSUME BoundAssumption == {MaxLog, MaxFreq, MaxCrashes} \subseteq Nat

VARIABLES
  recovering, \* LoadFromWAL is replaying the log
  next,       \* the next log entry to replay
  items,      \* cached key -> [val, exp], exp: never, live or expired
  used,       \* the byte counter
  policy,     \* the state of the eviction policy
  wal,        \* the entries of the log
  walBroken,  \* the log's buffered writer has met an error and keeps it
  badger,     \* key -> value in the Badger store
  dbClosed,   \* StopWorkers has closed Badger
  evictKey,   \* package variables evictKey and ok: what this node wrote last
  evictOk,
  pc,         \* where the holder of writeMu stands; "idle": nobody holds it
  op,         \* the call that holds writeMu
  ev,         \* the locals of evictToMakeSpace
  del,        \* the locals of deleteLocked
  tokens,     \* what mlEvictCh buffers
  ml,         \* the ML eviction worker
  sweep,      \* expired keys the TTL sweeper has yet to delete
  crashes     \* crashes so far (bound only)

memory  == <<items, used, policy>>
log     == <<wal, walBroken>>
globals == <<evictKey, evictOk>>
workers == <<tokens, ml, sweep>>
process == <<recovering, next, dbClosed, crashes>>
vars == <<memory, log, badger, globals, pc, op, ev, del, workers, process>>
-----------------------------------------------------------------------------
(* Calls, entries and the empty state of each part.                         *)

NoOp    == [by |-> "nobody", key |-> NoKey, val |-> NoValue, ttl |-> "none"]
Eviction(need, proactive) ==
  [need |-> need, proactive |-> proactive, evicted |-> 0, attempted |-> {}]
NoEvict == Eviction(0, FALSE)
NoDel   == [key |-> NoKey, evicting |-> FALSE]
IdleML  == [phase |-> "idle", keys |-> {}, key |-> NoKey]

(* int64(ttl.Seconds()): a TTL below one second is logged as no TTL.        *)
LoggedTTL(ttl) == IF ttl = "seconds" THEN "seconds" ELSE "none"

SetEntry(key, val, ttl) ==
  [op |-> "set", key |-> key, val |-> val, ttl |-> LoggedTTL(ttl)]
DeleteEntry(key) ==
  [op |-> "delete", key |-> key, val |-> NoValue, ttl |-> "none"]

Cached == DOMAIN items
SizeOf(key) == Size[items[key].val]
Without(f, key) == [k \in DOMAIN f \ {key} |-> f[k]]
With(f, key, x) == [k \in DOMAIN f \cup {key} |-> IF k = key THEN x ELSE f[k]]

(* A process that has just started, before it replays the log.              *)
FreshProcess ==
  /\ recovering' = TRUE /\ next' = 1
  /\ items' = <<>> /\ used' = 0 /\ policy' = NewPolicy
  /\ walBroken' = FALSE /\ dbClosed' = FALSE
  /\ evictKey' = NoKey /\ evictOk' = FALSE
  /\ pc' = "idle" /\ op' = NoOp /\ ev' = NoEvict /\ del' = NoDel
  /\ tokens' = 0 /\ ml' = IdleML /\ sweep' = {}

Init ==
  /\ recovering = TRUE /\ next = 1 /\ crashes = 0
  /\ items = <<>> /\ used = 0 /\ policy = NewPolicy
  /\ wal = <<>> /\ walBroken = FALSE /\ badger = <<>> /\ dbClosed = FALSE
  /\ evictKey = NoKey /\ evictOk = FALSE
  /\ pc = "idle" /\ op = NoOp /\ ev = NoEvict /\ del = NoDel
  /\ tokens = 0 /\ ml = IdleML /\ sweep = {}
-----------------------------------------------------------------------------
(* WAL.Append as its callers use it: no entry during recovery; an error of  *)
(* the buffered writer is sticky, so every later append fails too.          *)
Logged(entry) ==
  IF recovering THEN UNCHANGED log
  ELSE ~walBroken /\ wal' = Append(wal, entry) /\ UNCHANGED walBroken

LogFails ==
  /\ ~recovering
  /\ walBroken \/ "wal" \in Faults
  /\ walBroken' = TRUE
  /\ UNCHANGED wal

(* Mutant: the error of Append is ignored.                                  *)
SetWithTTLIgnoringLog(by, key, val, ttl) ==
  /\ pc = "idle"
  /\ op' = [by |-> by, key |-> key, val |-> val, ttl |-> ttl]
  /\ Logged(SetEntry(key, val, ttl)) \/ LogFails
  /\ pc' = IF Size[val] > Capacity THEN "error" ELSE "reserve"
  /\ UNCHANGED <<memory, badger, globals, ev, del>>

(* SetWithTTL takes writeMu, logs the entry and only then rejects a value   *)
(* that can never fit.                                                      *)
SetWithTTL(by, key, val, ttl) ==
  /\ pc = "idle"
  /\ op' = [by |-> by, key |-> key, val |-> val, ttl |-> ttl]
  /\ \/ /\ Logged(SetEntry(key, val, ttl))
        /\ pc' = IF Size[val] > Capacity THEN "error" ELSE "reserve"
     \/ LogFails /\ pc' = "error"
  /\ UNCHANGED <<memory, badger, globals, ev, del>>

(* Mutants: a hook or a counter update is forgotten.                        *)
EnterItemUnpoliced(key, val, ttl) ==
  /\ items' = With(items, key,
                [val |-> val, exp |-> IF ttl = "none" THEN "never" ELSE "live"])
  /\ used' = used + Size[val]
  /\ UNCHANGED policy

DropItemUncounted(key) ==
  /\ items' = Without(items, key) /\ policy' = OnDelete(policy, key) /\ UNCHANGED used

(* The map, the counter and the policy change together under mu.            *)
EnterItem(key, val, ttl) ==
  /\ items' = With(items, key,
                [val |-> val, exp |-> IF ttl = "none" THEN "never" ELSE "live"])
  /\ used' = used + Size[val]
  /\ policy' = OnSet(policy, key)

DropItem(key) ==
  /\ items' = Without(items, key)
  /\ used' = used - SizeOf(key)
  /\ policy' = OnDelete(policy, key)

(* What the item about to be overwritten gives back.                        *)
Released(key) == IF key \in Cached THEN SizeOf(key) ELSE 0

(* First critical section: the bytes of a value about to be overwritten are *)
(* given back at once, the item itself stays cached.                        *)
Reserve ==
  /\ pc = "reserve"
  /\ used' = used - Released(op.key)
  /\ IF used' + Size[op.val] > Capacity
     THEN /\ pc' = "evict"
          /\ ev' = Eviction(Size[op.val], FALSE)
     ELSE pc' = "insert" /\ UNCHANGED ev
  /\ UNCHANGED <<items, policy, log, badger, globals, op, del, workers, process>>

(* Second critical section.                                                 *)
Insert ==
  /\ pc = "insert"
  /\ EnterItem(op.key, op.val, op.ttl)
  /\ pc' = "store"
  /\ UNCHANGED <<log, badger, globals, op, ev, del, workers, process>>

(* Badger's Update; it fails for good once Badger is closed.                *)
BadgerFails == dbClosed \/ "badger" \in Faults

(* Mutant: a key that Badger already holds is not written again.            *)
StoreOnce ==
  /\ pc = "store"
  /\ badger' = IF op.key \in DOMAIN badger THEN badger ELSE With(badger, op.key, op.val)
  /\ pc' = "trigger"
  /\ UNCHANGED <<memory, log, globals, op, ev, del, workers, process>>

Store ==
  /\ pc = "store"
  /\ \/ ~dbClosed /\ badger' = With(badger, op.key, op.val) /\ pc' = "trigger"
     \/ BadgerFails /\ pc' = "error" /\ UNCHANGED badger
  /\ UNCHANGED <<memory, log, globals, op, ev, del, workers, process>>

(* Mutants: the buffer is not looked at; the select has no default.         *)
SendTokenAlways == tokens' = tokens + 1
SendTokenBlocking == tokens < ChanCap /\ tokens' = tokens + 1

(* The select with a default: a token is dropped when the buffer is full.   *)
SendToken == tokens' = IF tokens < ChanCap THEN tokens + 1 ELSE tokens

(* triggerMLEvictionIfNeeded: nothing up to half of the capacity, a token   *)
(* for the worker of an ML policy, and for LRU and LFU an eviction of the   *)
(* bytes above half when they exceed a twentieth of the capacity.           *)
OverHalf == used - Capacity \div 2

Trigger ==
  /\ pc = "trigger"
  /\ LET quiet  == 2 * used <= Capacity
         evicts == ~quiet /\ ~ML /\ OverHalf > Capacity \div 20
     IN /\ pc' = IF evicts THEN "evict" ELSE "ok"
        /\ ev' = IF evicts THEN Eviction(OverHalf, TRUE) ELSE ev
        /\ IF ~quiet /\ ML THEN SendToken ELSE UNCHANGED tokens
  /\ UNCHANGED <<memory, log, badger, globals, op, del, ml, sweep, process>>
-----------------------------------------------------------------------------
(* evictToMakeSpace.                                                        *)

(* Mutants: the request is left out; a byte must remain.                    *)
FitsAlready == used <= Capacity
FitsWithRoomToSpare == used + ev.need < Capacity

Fits == used + ev.need <= Capacity

(* Mutant: SetWithTTL returns nil when the loop has made no room.           *)
EvictionEndsQuietly ==
  /\ pc' = IF ev.proactive \/ ~Fits THEN "ok" ELSE "insert"
  /\ ev' = NoEvict

(* The final check.  The proactive caller ignores the error it may return.  *)
EvictionEnds ==
  /\ pc' = IF ev.proactive THEN "ok" ELSE IF Fits THEN "insert" ELSE "error"
  /\ ev' = NoEvict

MayEvict == ev.evicted < MaxEvictions

(* The head of the loop: stop when there is room or the cap is reached or   *)
(* nothing is cached, else ask the policy, past the model in recovery.      *)
ChooseVictim ==
  /\ pc = "evict"
  /\ IF ~MayEvict \/ Fits \/ Cached = {}
     THEN EvictionEnds /\ UNCHANGED globals
     ELSE /\ LET candidates == IF recovering THEN BaseChoices(policy)
                               ELSE Candidates(policy, Cached)
             IN \E key \in (IF candidates = {} THEN {NoKey} ELSE candidates) :
                  evictKey' = key /\ evictOk' = (key # NoKey)
          /\ pc' = "attempt"
          /\ UNCHANGED ev
  /\ UNCHANGED <<memory, log, badger, op, del, workers, process>>

(* evictKey and ok are variables of the package: what a loop reads, at each *)
(* of its reads, may be what the loop of another node has written since, a  *)
(* key of this node or not (NoKey), or half of one and half of the other.   *)
(* The nodes of a process recover one after the other, before any of them   *)
(* is written to.                                                           *)
SeenKeys == IF Neighbors /\ ~recovering THEN Keys \cup {NoKey} ELSE {evictKey}
SeenOk   == IF Neighbors /\ ~recovering THEN BOOLEAN ELSE {evictOk}

(* Mutants: a key is tried again and again; a victim is not logged.         *)
AnyCandidate(ok, key) == ok
VerifyUnlogged ==
  /\ pc = "verify"
  /\ \E key, victim \in SeenKeys :
       IF key \in Cached
       THEN /\ del' = [key |-> victim, evicting |-> TRUE]
            /\ pc' = "unlink"
            /\ UNCHANGED ev
       ELSE EvictionEnds /\ UNCHANGED del
  /\ UNCHANGED <<memory, log, badger, globals, op, workers, process>>

(* Leave when the policy named no key; a key named twice is dropped from    *)
(* the policy and the loop left.                                            *)
NewCandidate(ok, key) == ok /\ key \notin ev.attempted

Attempt ==
  /\ pc = "attempt"
  /\ \E ok \in SeenOk, key, again \in SeenKeys :
       IF NewCandidate(ok, key)
       THEN /\ ev' = [ev EXCEPT !.attempted = @ \cup {again}]
            /\ pc' = "verify"
            /\ UNCHANGED policy
       ELSE /\ policy' = IF ok THEN OnDelete(policy, again) ELSE policy
            /\ EvictionEnds
  /\ UNCHANGED <<items, used, log, badger, globals, op, del, workers, process>>

(* Leave when the key is not cached, else delete it.                        *)
Verify ==
  /\ pc = "verify"
  /\ \E key, victim \in SeenKeys :
       IF key \in Cached
       THEN /\ del' = [key |-> victim, evicting |-> TRUE]
            /\ pc' = "log"
            /\ UNCHANGED ev
       ELSE EvictionEnds /\ UNCHANGED del
  /\ UNCHANGED <<memory, log, badger, globals, op, workers, process>>
-----------------------------------------------------------------------------
(* deleteLocked, for Delete and for an eviction.  Back in the loop only a   *)
(* deletion without an error counts as an eviction.                         *)

(* Mutant: the cap counts the deletions that failed.                        *)
DeleteReturnsUncounted(success) ==
  /\ del' = NoDel
  /\ IF del.evicting
     THEN pc' = "evict" /\ ev' = IF success THEN ev ELSE [ev EXCEPT !.evicted = @ + 1]
     ELSE pc' = (IF success THEN "ok" ELSE "error") /\ UNCHANGED ev

DeleteReturns(success) ==
  /\ del' = NoDel
  /\ IF del.evicting
     THEN /\ pc' = "evict"
          /\ ev' = IF success THEN [ev EXCEPT !.evicted = @ + 1] ELSE ev
     ELSE /\ pc' = IF success THEN "ok" ELSE "error"
          /\ UNCHANGED ev

LogDelete ==
  /\ pc = "log"
  /\ \/ Logged(DeleteEntry(del.key)) /\ pc' = "unlink" /\ UNCHANGED <<ev, del>>
     \/ LogFails /\ DeleteReturns(FALSE)
  /\ UNCHANGED <<memory, badger, globals, op, workers, process>>

Unlink ==
  /\ pc = "unlink"
  /\ IF del.key \in Cached
     THEN DropItem(del.key) /\ pc' = "purge" /\ UNCHANGED <<ev, del>>
     ELSE DeleteReturns(TRUE) /\ UNCHANGED memory
  /\ UNCHANGED <<log, badger, globals, op, workers, process>>

Purge ==
  /\ pc = "purge"
  /\ \/ ~dbClosed /\ badger' = Without(badger, del.key) /\ DeleteReturns(TRUE)
     \/ BadgerFails /\ UNCHANGED badger /\ DeleteReturns(FALSE)
  /\ UNCHANGED <<memory, log, globals, op, workers, process>>

Delete(by, key) ==
  /\ pc = "idle"
  /\ op' = [NoOp EXCEPT !.by = by, !.key = key]
  /\ del' = [key |-> key, evicting |-> FALSE]
  /\ pc' = "log"
  /\ UNCHANGED <<memory, log, badger, globals, ev>>

(* The call returns and its deferred Unlock releases writeMu.               *)
Return ==
  /\ pc \in {"ok", "error"}
  /\ pc' = "idle" /\ op' = NoOp
  /\ UNCHANGED <<memory, log, badger, globals, ev, del, workers, process>>
-----------------------------------------------------------------------------
(* Clients.                                                                 *)

ClientSet ==
  /\ ~recovering /\ Len(wal) < MaxLog
  /\ \E key \in Keys, val \in Values, ttl \in TTLs : SetWithTTL("client", key, val, ttl)
  /\ UNCHANGED <<workers, process>>

ClientDelete ==
  /\ ~recovering /\ Len(wal) < MaxLog
  /\ \E key \in Keys : Delete("client", key)
  /\ UNCHANGED <<workers, process>>

(* A hit moves the key in the policy; a miss changes nothing.  An expired   *)
(* item is still a hit.                                                     *)
Get(key) ==
  /\ ~recovering
  /\ key \in Cached
  /\ Base = "LFU" /\ key \in PolicyKeys(policy) => policy.freq[key] < MaxFreq
  /\ policy' = OnGet(policy, key)
  /\ UNCHANGED <<items, used, log, badger, globals, pc, op, ev, del, workers, process>>

TriggerMLEviction ==
  /\ ExternalTriggers /\ ~recovering
  /\ SendToken
  /\ UNCHANGED <<memory, log, badger, globals, pc, op, ev, del, ml, sweep, process>>
-----------------------------------------------------------------------------
(* Time and the workers, started once the log is replayed.                  *)

Expire(key) ==
  /\ key \in Cached
  /\ items[key].exp = "live"
  /\ items' = [items EXCEPT ![key].exp = "expired"]
  /\ UNCHANGED <<used, policy, log, badger, globals, pc, op, ev, del, workers, process>>

Expired == {key \in Cached : items[key].exp = "expired"}

(* Mutant: the sign of the comparison with now is wrong.                    *)
SweepCollectLive ==
  /\ ~recovering
  /\ sweep = {} /\ op.by # "sweeper"
  /\ sweep' = {key \in Cached : items[key].exp = "live"}
  /\ sweep' # {}
  /\ UNCHANGED <<memory, log, badger, globals, pc, op, ev, del, tokens, ml, process>>

(* CleanupExpiredItems collects the expired keys under mu ...               *)
SweepCollect ==
  /\ ~recovering
  /\ sweep = {} /\ op.by # "sweeper"
  /\ Expired # {}
  /\ sweep' = Expired
  /\ UNCHANGED <<memory, log, badger, globals, pc, op, ev, del, tokens, ml, process>>

(* ... and deletes them one by one, each in a Delete of its own.            *)
SweepDelete ==
  /\ \E key \in sweep : Delete("sweeper", key) /\ sweep' = sweep \ {key}
  /\ UNCHANGED <<tokens, ml, process>>

(* takeSnapshot writes every cached item to Badger and removes none.        *)
TakeSnapshot ==
  /\ ~recovering /\ ~dbClosed
  /\ badger' = [k \in DOMAIN badger \cup Cached |->
                  IF k \in Cached THEN items[k].val ELSE badger[k]]
  /\ UNCHANGED <<memory, log, globals, pc, op, ev, del, workers, process>>

(* The ML worker consumes a token: without an ML policy or an item it is    *)
(* dropped, else the keys are snapshotted and sent to the model.            *)
MLTake ==
  /\ ~recovering
  /\ ml.phase = "idle" /\ op.by # "mlworker" /\ tokens > 0
  /\ tokens' = tokens - 1
  /\ ml' = IF ML /\ Cached # {}
           THEN [IdleML EXCEPT !.phase = "asking", !.keys = Cached]
           ELSE ml
  /\ UNCHANGED <<memory, log, badger, globals, pc, op, ev, del, sweep, process>>

(* The model names one of the keys it was sent.                             *)
MLPredict ==
  /\ ml.phase \in {"asking", "retrying"}
  /\ \E key \in ml.keys : ml' = [IdleML EXCEPT !.phase = "deleting", !.key = key]
  /\ UNCHANGED <<memory, log, badger, globals, pc, op, ev, del, tokens, sweep, process>>

(* No prediction: MLPolicy.ChooseEviction takes a new snapshot and asks the *)
(* model once more, which may answer now that the cooldown is over ...      *)
MLFallback ==
  /\ ml.phase = "asking"
  /\ ml' = [IdleML EXCEPT !.phase = "retrying", !.keys = Cached]
  /\ UNCHANGED <<memory, log, badger, globals, pc, op, ev, del, tokens, sweep, process>>

(* ... or it falls back to the victim of the base policy, if it has one.    *)
MLBaseChoice ==
  /\ ml.phase = "retrying"
  /\ ml' = IF HasVictim(policy)
           THEN [IdleML EXCEPT !.phase = "deleting", !.key = Victim(policy)]
           ELSE IdleML
  /\ UNCHANGED <<memory, log, badger, globals, pc, op, ev, del, tokens, sweep, process>>

MLDelete ==
  /\ ml.phase = "deleting"
  /\ Delete("mlworker", ml.key)
  /\ ml' = IdleML
  /\ UNCHANGED <<tokens, sweep, process>>
-----------------------------------------------------------------------------
(* Shutdown: main stops the workers of every node, which closes Badger, and *)
(* then closes every log, while clients and replication run on.  A worker   *)
(* may see its ticker before it sees that it is stopped; an append to a     *)
(* closed log fails like any other.                                         *)

StopWorkers ==
  /\ Shutdown /\ ~recovering /\ ~dbClosed
  /\ dbClosed' = TRUE
  /\ UNCHANGED <<memory, log, badger, globals, pc, op, ev, del, workers, recovering, next, crashes>>

CloseLog ==
  /\ dbClosed /\ ~walBroken
  /\ walBroken' = TRUE
  /\ UNCHANGED <<memory, wal, badger, globals, pc, op, ev, del, workers, process>>
-----------------------------------------------------------------------------
(* Restart.  The log's file and Badger survive the process.                 *)

Crash ==
  /\ crashes < MaxCrashes
  /\ crashes' = crashes + 1
  /\ FreshProcess
  /\ UNCHANGED <<wal, badger>>

(* Mutants: the replay forgets TTLs; delete entries are skipped.            *)
ReplayWithoutTTL ==
  /\ recovering /\ next <= Len(wal)
  /\ IF wal[next].op = "set"
     THEN SetWithTTL("loader", wal[next].key, wal[next].val, "none")
     ELSE Delete("loader", wal[next].key)
  /\ next' = next + 1
  /\ UNCHANGED <<workers, recovering, dbClosed, crashes>>

ReplaySets ==
  /\ recovering /\ next <= Len(wal)
  /\ IF wal[next].op = "set"
     THEN SetWithTTL("loader", wal[next].key, wal[next].val, wal[next].ttl)
     ELSE UNCHANGED <<memory, log, badger, globals, pc, op, ev, del>>
  /\ next' = next + 1
  /\ UNCHANGED <<workers, recovering, dbClosed, crashes>>

(* LoadFromWAL replays the entries through SetWithTTL and Delete, whatever  *)
(* they return, a TTL counting from the replay.                             *)
ReplayEntry ==
  /\ recovering /\ next <= Len(wal)
  /\ IF wal[next].op = "set"
     THEN SetWithTTL("loader", wal[next].key, wal[next].val, wal[next].ttl)
     ELSE Delete("loader", wal[next].key)
  /\ next' = next + 1
  /\ UNCHANGED <<workers, recovering, dbClosed, crashes>>

FinishRecovery ==
  /\ recovering /\ pc = "idle" /\ next > Len(wal)
  /\ recovering' = FALSE
  /\ UNCHANGED <<memory, log, badger, globals, pc, op, ev, del, workers, next, dbClosed, crashes>>
-----------------------------------------------------------------------------
Writer ==
  \/ Reserve \/ Insert \/ Store \/ Trigger
  \/ ChooseVictim \/ Attempt \/ Verify
  \/ LogDelete \/ Unlink \/ Purge \/ Return

MLWorker == MLTake \/ MLPredict \/ MLFallback \/ MLBaseChoice \/ MLDelete

Next ==
  \/ Writer
  \/ ClientSet \/ ClientDelete
  \/ \E key \in Keys : Get(key) \/ Expire(key)
  \/ TriggerMLEviction
  \/ SweepCollect \/ SweepDelete
  \/ TakeSnapshot
  \/ MLWorker
  \/ StopWorkers \/ CloseLog
  \/ Crash \/ ReplayEntry \/ FinishRecovery

Spec == Init /\ [][Next]_vars

(* The goroutine that holds writeMu runs on, recovery too; the sweeper's    *)
(* ticker fires for ever and its Lock of writeMu is not starved: a waiter   *)
(* of a sync.Mutex is handed the lock after a millisecond.                  *)
Fairness ==
  /\ WF_vars(Writer)
  /\ WF_vars(ReplayEntry) /\ WF_vars(FinishRecovery)
  /\ WF_vars(SweepCollect) /\ SF_vars(SweepDelete)

FairSpec == Spec /\ Fairness
=============================================================================
