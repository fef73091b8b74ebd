----------------------------- MODULE CacheReplay -----------------------------
(* Cache with a record of the entries whose replay gave up, and what a      *)
(* replay makes of the log.                                                 *)
EXTENDS CacheProperties

VARIABLE exhausted   \* the entries of this replay that ran out of evictions

replayVars == <<vars, exhausted>>

(* The loop of a replayed Set has made all its evictions and the value does *)
(* not fit yet.                                                             *)
GivesUp == recovering /\ pc = "evict" /\ ~MayEvict /\ ~Fits /\ pc' = "error"

Remember ==
  exhausted' = IF crashes' # crashes THEN {}
               ELSE IF GivesUp THEN exhausted \cup {next - 1} ELSE exhausted

ReplayInit == Init /\ exhausted = {}
ReplayNext == Next /\ Remember

ReplaySpec == ReplayInit /\ [][ReplayNext]_replayVars
-----------------------------------------------------------------------------
(* Recovery keeps what was written last: between two entries of the replay  *)
(* a cached item has the value of the last set entry about its key that     *)
(* could be stored, has a TTL exactly when that entry has one, and no entry *)
(* after it deletes it.  What is passed over are values larger than the     *)
(* capacity and Sets that still lacked room after the ten evictions a call  *)
(* may make (cache.go:272).  Evictions that the replay decides anew, and    *)
(* those the log records, take items away and bring no other older value    *)
(* back.                                                                    *)
RebuiltFromLatest ==
  recovering /\ pc = "idle" =>
    \A key \in Cached :
      \E i \in 1..(next - 1) :
        /\ wal[i].op = "set" /\ wal[i].key = key /\ wal[i].val = items[key].val
        /\ wal[i].ttl = "none" <=> items[key].exp = "never"
        /\ \A j \in (i + 1)..(next - 1) :
             wal[j].key = key =>
               wal[j].op = "set" /\ (Size[wal[j].val] > Capacity \/ j \in exhausted)
=============================================================================
