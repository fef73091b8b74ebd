--------------------------- MODULE CacheProperties ---------------------------
(* What a cache node must and must not do, stated over the state of Cache.  *)
EXTENDS Cache, Functions

(* The bytes really cached, which the counter used stands for.              *)
Bytes == FoldFunction(+, 0, [key \in Cached |-> SizeOf(key)])

LoopPCs == {"evict", "attempt", "verify"}
DeletePCs == {"log", "unlink", "purge"}
PCs == {"idle", "reserve", "insert", "store", "trigger", "ok", "error"}
         \cup LoopPCs \cup DeletePCs

(* The holder of writeMu is in the loop of evictToMakeSpace.                *)
Evicting == pc \in LoopPCs \/ (pc \in DeletePCs /\ del.evicting)

Entries ==
  [op : {"set"}, key : Keys, val : Values, ttl : {"none", "seconds"}]
    \cup [op : {"delete"}, key : Keys \cup {NoKey}, val : {NoValue}, ttl : {"none"}]

Ops ==
  [by : {"nobody", "client", "sweeper", "mlworker", "loader"},
   key : Keys \cup {NoKey}, val : Values \cup {NoValue},
   ttl : {"none", "subsecond", "seconds"}]

Evictions == [need : Int, proactive : BOOLEAN, evicted : Nat, attempted : SUBSET (Keys \cup {NoKey})]

MemoryTyped ==
  /\ Cached \subseteq Keys
  /\ \A key \in Cached :
       items[key] \in [val : Values, exp : {"never", "live", "expired"}]
  /\ used \in Int

StorageTyped ==
  /\ wal \in Seq(Entries) /\ walBroken \in BOOLEAN
  /\ DOMAIN badger \subseteq Keys /\ \A key \in DOMAIN badger : badger[key] \in Values

CallTyped ==
  /\ pc \in PCs
  /\ op \in Ops
  /\ ev \in Evictions
  /\ del \in [key : Keys \cup {NoKey}, evicting : BOOLEAN]
  /\ evictKey \in Keys \cup {NoKey} /\ evictOk \in BOOLEAN

WorkersTyped ==
  /\ recovering \in BOOLEAN /\ dbClosed \in BOOLEAN /\ next \in Nat \ {0} /\ crashes \in Nat
  /\ tokens \in 0..ChanCap
  /\ ml \in [phase : {"idle", "asking", "retrying", "deleting"},
             keys : SUBSET Keys, key : Keys \cup {NoKey}]
  /\ sweep \subseteq Keys

(* Every variable has its type.                                             *)
TypeOK == MemoryTyped /\ StorageTyped /\ CallTyped /\ WorkersTyped
-----------------------------------------------------------------------------
(* Capacity.  The counter is checked in Reserve or in the loop of           *)
(* evictToMakeSpace and charged in Insert; no interleaving of Gets, sweeps, *)
(* predictions or crashes between the two lets it pass the capacity.        *)
UsedWithinCapacity == used <= Capacity

(* The counter errs on one side only: it never counts bytes that are not    *)
(* cached, so a cache that has emptied itself always has room (the error    *)
(* "no items to evict", cache.go:287, cannot occur).                        *)
UsedNeverOverstates == used <= Bytes

(* Policy and items name the same keys.  Nothing ever puts a key in the     *)
(* policy that is not cached, and only a log that cannot be written, or the *)
(* key of another node's loop, lets an item drop out of it (cache.go:309).  *)
PolicyTracksItems ==
  /\ PolicyKeys(policy) \subseteq Cached
  /\ ~walBroken /\ ~Neighbors => PolicyKeys(policy) = Cached

(* An eviction that still needs room finds a victim, and the victim is a    *)
(* cached key: neither "no eviction candidate" (cache.go:302) nor "policy   *)
(* returned non-existent key" (cache.go:320) ends a loop of a node that is  *)
(* alone in its process.                                                    *)
EvictionFindsVictim ==
  ~Neighbors =>
    /\ pc = "evict" /\ ~Fits => Cached # {} /\ HasVictim(policy)
    /\ pc = "verify" => evictKey \in Cached

(* Nothing is evicted for nothing.  An eviction takes an item away only     *)
(* while the value to be stored still lacks room, and a proactive one only  *)
(* while more than half of the capacity is counted (README.md:88), however  *)
(* many items the loop has taken since it computed what it wants to free,   *)
(* and whatever became of its other deletions (cache.go:276, :482).         *)
EvictsOnlyForWant ==
  [][ Evicting /\ Cached' # Cached /\ crashes' = crashes =>
        /\ used + ev.need > Capacity
        /\ ev.proactive => 2 * used > Capacity ]_vars
-----------------------------------------------------------------------------
(* The interface.                                                           *)

(* Where the call that holds writeMu stands for its caller: a Set takes     *)
(* effect in Insert, a Delete in Unlink.                                    *)
CallPhase ==
  CASE pc = "idle" -> "free"
    [] pc \in {"ok", "error"} -> pc
    [] \/ pc \in {"store", "trigger"}
       \/ ev.proactive
       \/ pc = "purge" /\ ~del.evicting -> "done"
    [] OTHER -> "open"

Content == [key \in Cached |-> items[key].val]
Request == [key |-> op.key, val |-> op.val]

Interface == INSTANCE NodeCache WITH map <- Content, call <- Request, phase <- CallPhase

(* What cluster.go builds on: though a Set is a row of critical sections,   *)
(* with evictions, failures and a store in between, each call takes effect  *)
(* at one instant and once, never after it has failed, never in part; only  *)
(* a caller or the loader puts a value in the cache; and a nil returned by  *)
(* Set or Delete (cache.go:231, :263) says that it took effect.             *)
ImplementsNodeCache == Interface!Spec
-----------------------------------------------------------------------------
(* Persistence.                                                             *)

LastEntry(key) ==
  LET about == {i \in DOMAIN wal : wal[i].key = key}
  IN wal[CHOOSE i \in about : \A j \in about : j <= i]

LoggedLast(key, entry) ==
  /\ \E i \in DOMAIN wal : wal[i].key = key
  /\ LastEntry(key).op = entry

(* Write-ahead (README.md:133): in a running cache no item appears or       *)
(* changes its value before its set entry is in the log, and none           *)
(* disappears before its delete entry is.                                   *)
WriteAhead ==
  [][ ~recovering /\ ~recovering' =>
        \A key \in Keys :
          /\ key \in Cached \ Cached' => LoggedLast(key, "delete")
          /\ key \in Cached' /\ (key \in Cached => items[key].val # items'[key].val)
               => \E i \in DOMAIN wal :
                    wal[i].op = "set" /\ wal[i].key = key /\ wal[i].val = items'[key].val
    ]_vars

(* Recovery resurrects nothing: whatever the loader has rebuilt so far, an  *)
(* item stems from a set entry of the replayed prefix that no later entry   *)
(* of that prefix deletes.                                                  *)
NoResurrection ==
  recovering =>
    \A key \in Cached :
      \E i \in 1..(next - 1) :
        /\ i <= Len(wal)
        /\ wal[i].op = "set" /\ wal[i].key = key /\ wal[i].val = items[key].val
        /\ \A j \in (i + 1)..(next - 1) :
             wal[j] = DeleteEntry(key) => j = next - 1 /\ pc \in {"log", "unlink"}

(* The secondary store (README.md:135): as long as Badger can be written it *)
(* holds the value of every cached item, but for the one being stored.      *)
BadgerCovers ==
  "badger" \notin Faults /\ ~dbClosed =>
    \A key \in Cached :
      \/ pc = "store" /\ op.key = key
      \/ key \in DOMAIN badger /\ badger[key] = items[key].val
-----------------------------------------------------------------------------
(* Expiry.  The sweeper deletes keys it has collected before it waited for  *)
(* writeMu (cache.go:616).  It never takes an item that had no TTL when it  *)
(* was collected: what it takes away has expired, or has replaced an item   *)
(* with a TTL of the same key in the meantime.                              *)
SweepsExpiredOrReplaced ==
  [][ op.by = "sweeper" /\ ~recovering' =>
        \A key \in Cached \ Cached' :
          \/ items[key].exp = "expired"
          \/ \E i, j \in DOMAIN wal :
               /\ i < j /\ wal[i].key = key /\ wal[i].op = "set" /\ wal[i].ttl = "seconds"
               /\ wal[j].key = key /\ wal[j].op = "set" /\ wal[j].val = items[key].val
    ]_vars
-----------------------------------------------------------------------------
(* Progress.                                                                *)

(* The holder of writeMu waits for nobody: at each of its steps, a full     *)
(* token channel (cache.go:469) and a failing log or store included, the    *)
(* call can go on.                                                          *)
NeverBlocks == pc # "idle" => ENABLED Writer

(* Whoever takes writeMu gives it back: the eviction loop ends even when    *)
(* every deletion in it fails, since a key is tried once.                   *)
WritesTerminate == (pc # "idle") ~> (pc = "idle")

(* No other node writes the package variables evictKey and ok.              *)
Alone == ~Neighbors \/ recovering

(* The steps a call at pc at still makes at most, if its loop may go        *)
(* through so many rounds more, and a loop through most.  A round is six    *)
(* steps; a Set may go through two loops, one that makes room for it and,   *)
(* once it is stored, one that keeps room free.                             *)
Steps(at, loop, proactive, rounds, most) ==
  LET whole == 6 * most + 2
      after == IF proactive THEN 1 ELSE whole + 4
      toNextHead == [evict |-> 2, attempt |-> 1,
                     verify |-> 6, log |-> 5, unlink |-> 4, purge |-> 3]
  IN CASE at = "idle" -> 0
       [] at \in {"ok", "error"} -> 1
       [] at = "reserve" -> 2 * whole + 5
       [] at = "insert" -> whole + 4
       [] at = "store" -> whole + 3
       [] at = "trigger" -> whole + 2
       [] at \in LoopPCs \cup DeletePCs /\ loop -> 6 * rounds + toNextHead[at] + after
       [] OTHER -> toNextHead[at] - 1

(* A round tries one key more, or else deletes one key more.                *)
KeysUntried == Cardinality(Keys \ ev.attempted)
EvictionsLeft ==
  MaxEvictions - ev.evicted - (IF Evicting /\ pc \notin {"evict", "attempt"} THEN 1 ELSE 0)

StepsByKeys == Steps(pc, Evicting, ev.proactive, KeysUntried, Cardinality(Keys))
StepsByEvictions == Steps(pc, Evicting, ev.proactive, EvictionsLeft, MaxEvictions)

ComesCloser(steps, stepsNext) ==
  stepsNext <= steps /\ (pc' # pc => stepsNext < steps)

(* A write waits for nothing but time: whatever fails in between and        *)
(* whatever runs beside it, each step of the call that holds writeMu brings *)
(* it closer to its return, and of those steps there are at most twelve a   *)
(* key and nine (cache.go:276-345).  A failed deletion does not count as an *)
(* eviction; what ends the loop then is that no key is tried twice.  Where  *)
(* the loops of other nodes write evictKey too this is not so.              *)
FailingWritesEnd ==
  [][ IsFiniteSet(Keys) /\ Alone /\ pc # "idle" =>
        /\ StepsByKeys <= 12 * Cardinality(Keys) + 9
        /\ ComesCloser(StepsByKeys, StepsByKeys') ]_vars

(* While nothing can fail the cap on evictions ends every write, whichever  *)
(* keys the loops of other nodes put into evictKey: after at most twelve    *)
(* steps for each of the ten evictions and nine, however many keys there    *)
(* are.                                                                     *)
CapEndsWrites ==
  [][ Faults = {} /\ ~walBroken /\ ~dbClosed /\ pc # "idle" =>
        /\ StepsByEvictions <= 12 * MaxEvictions + 9
        /\ ComesCloser(StepsByEvictions, StepsByEvictions') ]_vars

(* An expired item does not stay: it is swept, overwritten, evicted or lost *)
(* with the process, however many writers compete with the sweeper, unless  *)
(* the log can no longer be written: no item leaves the cache then.         *)
ExpiredAreSwept ==
  \A key \in Keys : (key \in Expired) ~> (key \notin Expired \/ walBroken)
-----------------------------------------------------------------------------
(* Statements of the repository's comments and documents that the code does *)
(* not keep; each is refuted by a run of its own.                           *)

(* cache.go:87: writeMu is there "to prevent capacity overshoot": between   *)
(* two writes the cached bytes fit in the capacity.                         *)
NoCapacityOvershoot == pc = "idle" => Bytes <= Capacity

(* README.md:134: replay rebuilds the in-memory state, hence between two    *)
(* writes of a running cache with a healthy log the last entry about a      *)
(* cached key is the set of its value.                                      *)
LogDescribesMemory ==
  ~recovering /\ pc = "idle" /\ ~walBroken =>
    \A key \in Cached :
      LoggedLast(key, "set") /\ LastEntry(key).val = items[key].val
=============================================================================
