------------------------------ MODULE Cluster ------------------------------
(* The cluster of cluster/cluster.go, cluster/node.go and the background    *)
(* workers of main_cluster.go: routed client calls, key overrides, hot-key  *)
(* replication and the migration of hot keys.                               *)
(*                                                                          *)
(* A node's cache is taken at its interface, that of NodeCache: a map whose *)
(* Set, Get and Delete are atomic, which may lose a key at any time         *)
(* (eviction, TTL) and may fail.  What the calls here do to several nodes   *)
(* is not atomic: no lock spans a route and its use, or two nodes.          *)
EXTENDS HashRing, FiniteSetsExt

CONSTANTS
  Values, NoKey, NoValue, NoNode,
  Clients,      \* concurrent client calls explored
  Copiers,      \* concurrent replicateKeyToNeighbor goroutines explored
  Movers,       \* goroutines that migrate: a node stands for its background
                \* worker, anything else for a caller of AdaptiveRebalance
  Evictions,    \* TRUE: a cache may drop a key on its own
  Failures,     \* TRUE: Set and Delete of a cache may return an error
  MaxRefused,   \* bound: refused Sets kept in logs at a time
  MaxRestarts   \* bound: restarts of the process explored

ASSUME SentinelAssumption == NoKey \notin Keys /\ NoValue \notin Values /\ NoNode \notin Nodes
ASSUME FlagAssumption == {Evictions, Failures} \subseteq BOOLEAN
(* Two replays of one log may decide differently on a Set that was refused: *)
(* with failures, what a first restart made of it is not taken further.     *)
ASSUME BoundAssumption ==
  {MaxRefused, MaxRestarts} \subseteq Nat /\ (Failures => MaxRestarts <= 1)

VARIABLES
  store,      \* store[n]: key -> [val, hot] in the cache of n; hot: the
              \* item's Frequency, 1 after a Set, has passed 1
  overrides,  \* keyOverrides: key -> node
  latest,     \* history: what the last client write that took effect left
  client,     \* client[c]: a routed call that has not reached its node
  copying,    \* copying[g]: a replicateKeyToNeighbor goroutine
  moving,     \* moving[m]: the migration the mover m carries out
  refused,    \* history: Sets that a log holds although they were refused,
              \* until a later entry about their key
  dropped,    \* history: keys a migration took out of a cache and did not
              \* store, until a client sets them again
  restarts    \* restarts so far (bound only)

vars == <<store, overrides, latest, client, copying, moving, refused, dropped, restarts>>

NoCall == [op |-> "none", key |-> NoKey, val |-> NoValue, node |-> NoNode]
NoCopy == [phase |-> "idle", src |-> NoNode, key |-> NoKey, val |-> NoValue]
NoMove == [phase |-> "idle", src |-> NoNode, target |-> NoNode, key |-> NoKey,
           val |-> NoValue, more |-> 0]

(* NewNode and NewClusterWithVirtualNodes, over empty logs.                 *)
Init ==
  /\ store = [n \in Nodes |-> <<>>]
  /\ overrides = <<>>
  /\ latest = [k \in Keys |-> NoValue]
  /\ client = [c \in Clients |-> NoCall]
  /\ copying = [g \in Copiers |-> NoCopy]
  /\ moving = [m \in Movers |-> NoMove]
  /\ refused = {} /\ dropped = {}
  /\ restarts = 0
-----------------------------------------------------------------------------
(* The caches of the nodes and what their logs say beyond them: a Set or a  *)
(* Delete that takes effect is the last entry about its key.                *)

Held(n) == DOMAIN store[n]

Superseded(n, key) == {set \in refused : set.node = n /\ set.key = key}

Stored(n, key, val) ==
  /\ store' = [store EXCEPT ![n] =
                 [k \in Held(n) \cup {key} |->
                    IF k = key THEN [val |-> val, hot |-> FALSE] ELSE store[n][k]]]
  /\ refused' = refused \ Superseded(n, key)

Removed(n, key) ==
  /\ store' = [store EXCEPT ![n] = [k \in Held(n) \ {key} |-> store[n][k]]]
  /\ refused' = refused \ Superseded(n, key)

(* A hit adds one to the item's Frequency; a miss changes nothing.          *)
Touched(n, key) ==
  /\ store' = IF key \in Held(n) THEN [store EXCEPT ![n][key].hot = TRUE] ELSE store
  /\ UNCHANGED refused

(* A failing call of a cache: the log could not be written and nothing      *)
(* changed, the Set was refused after it had been logged, or Badger could   *)
(* not be written, after the map had changed.                               *)
Refused(n, key, val, byClient) ==
  /\ Failures
  /\ UNCHANGED store
  /\ \/ UNCHANGED refused
     \/ /\ Cardinality(refused) < MaxRefused
        /\ refused' = refused \cup {[node |-> n, key |-> key, val |-> val, byClient |-> byClient]}

SetFails(n, key, val) == Refused(n, key, val, FALSE) \/ (Failures /\ Stored(n, key, val))
DeleteFails(n, key) == Failures /\ (UNCHANGED <<store, refused>> \/ Removed(n, key))

Evict(n, key) ==
  /\ Evictions
  /\ key \in Held(n)
  /\ Removed(n, key)
  /\ UNCHANGED <<overrides, latest, client, copying, moving, dropped, restarts>>
-----------------------------------------------------------------------------
(* Client calls: Set, SetWithTTL, Get and Delete of Cluster.                *)

(* getNodeForKey, under the cluster's read lock.                            *)
Route(key) == IF key \in DOMAIN overrides THEN overrides[key] ELSE Owner(key)

Call(c) ==
  /\ client[c] = NoCall
  /\ \E op \in {"set", "get", "delete"}, key \in Keys, val \in Values :
       client' = [client EXCEPT ![c] =
                    [op |-> op, key |-> key, node |-> Route(key),
                     val |-> IF op = "set" THEN val ELSE NoValue]]
  /\ UNCHANGED <<store, overrides, latest, copying, moving, refused, dropped, restarts>>

SetArrives(n, key, val) ==
  \/ /\ Stored(n, key, val)
     /\ latest' = [latest EXCEPT ![key] = val] /\ dropped' = dropped \ {key}
  \/ Refused(n, key, val, TRUE) /\ UNCHANGED <<latest, dropped>>

DeleteArrives(n, key) ==
  \/ Removed(n, key) /\ latest' = [latest EXCEPT ![key] = NoValue]
  \/ Failures /\ UNCHANGED <<store, refused, latest>>

(* The call reaches the node it was routed to, which may no longer be the   *)
(* node the key is routed to.                                               *)
Arrive(c) ==
  LET call == client[c]
  IN /\ \/ call.op = "set" /\ SetArrives(call.node, call.key, call.val)
        \/ call.op = "get" /\ Touched(call.node, call.key) /\ UNCHANGED <<latest, dropped>>
        \/ call.op = "delete" /\ DeleteArrives(call.node, call.key) /\ UNCHANGED dropped
     /\ client' = [client EXCEPT ![c] = NoCall]
     /\ UNCHANGED <<overrides, copying, moving, restarts>>
-----------------------------------------------------------------------------
(* Hot-key replication.  The ticker of a node starts a goroutine for each   *)
(* of its hottest keys, those with a Frequency above 1.                     *)

Hot(n) == {key \in Held(n) : store[n][key].hot}

StartCopy(g, n) ==
  /\ copying[g] = NoCopy
  /\ \E key \in Hot(n) :
       copying' = [copying EXCEPT ![g] = [NoCopy EXCEPT !.phase = "read", !.src = n, !.key = key]]
  /\ UNCHANGED <<store, overrides, latest, client, moving, refused, dropped, restarts>>

(* Mutant: the source may be its own neighbor.                              *)
CopyReadToSelf(g) ==
  LET task == copying[g]
  IN /\ task.phase = "read"
     /\ Touched(task.src, task.key)
     /\ copying' = [copying EXCEPT ![g] =
                      IF task.key \in Held(task.src)
                      THEN [task EXCEPT !.phase = "check", !.val = store[task.src][task.key].val]
                      ELSE NoCopy]
     /\ UNCHANGED <<overrides, latest, client, moving, dropped, restarts>>

(* src.Get, then the neighbor, which may be the source itself.              *)
CopyRead(g) ==
  LET task == copying[g]
  IN /\ task.phase = "read"
     /\ Touched(task.src, task.key)
     /\ copying' = [copying EXCEPT ![g] =
                      IF task.key \in Held(task.src) /\ Neighbor(task.src, task.key) # task.src
                      THEN [task EXCEPT !.phase = "check", !.val = store[task.src][task.key].val]
                      ELSE NoCopy]
     /\ UNCHANGED <<overrides, latest, client, moving, dropped, restarts>>

(* A neighbor that has the key keeps what it has.                           *)
CopyCheck(g) ==
  LET task == copying[g]
      to   == Neighbor(task.src, task.key)
  IN /\ task.phase = "check"
     /\ Touched(to, task.key)
     /\ copying' = [copying EXCEPT ![g] =
                      IF task.key \in Held(to) THEN NoCopy ELSE [task EXCEPT !.phase = "write"]]
     /\ UNCHANGED <<overrides, latest, client, moving, dropped, restarts>>

CopyWrite(g) ==
  LET task == copying[g]
      to   == Neighbor(task.src, task.key)
  IN /\ task.phase = "write"
     /\ Stored(to, task.key, task.val) \/ SetFails(to, task.key, task.val)
     /\ copying' = [copying EXCEPT ![g] = NoCopy]
     /\ UNCHANGED <<overrides, latest, client, moving, dropped, restarts>>
-----------------------------------------------------------------------------
(* Migration.  Every value has one size and every node one capacity, so the *)
(* number of keys of a node stands for its usage.                           *)

Usage(n) == Cardinality(Held(n))
TotalUsage == FoldSet(LAMBDA n, total : Usage(n) + total, 0, Nodes)

LeastUsed(n) == \A other \in Nodes : Usage(n) <= Usage(other)

Skewed(n) == Usage(n) * Cardinality(Nodes) > 2 * TotalUsage

(* MigrateHotKey is to run from src to target, and up to more times again.  *)
Move(src, target, more) ==
  [NoMove EXCEPT !.phase = "pick", !.src = src, !.target = target, !.more = more]

(* MigrateHotKey returns, with or without success.                          *)
MoveEnds(m) ==
  LET move == moving[m]
  IN moving' = [moving EXCEPT ![m] = IF move.more = 0 THEN NoMove
                                     ELSE Move(move.src, move.target, move.more - 1)]

(* The worker of n finds its usage above twice the average and the usage of *)
(* the least used node below half of it.                                    *)
Survey(n) ==
  /\ n \in Nodes /\ moving[n] = NoMove
  /\ Skewed(n)
  /\ \E target \in Nodes \ {n} :
       /\ LeastUsed(target)
       /\ 2 * Usage(target) * Cardinality(Nodes) < TotalUsage
       /\ moving' = [moving EXCEPT ![n] = Move(n, target, 0)]
  /\ UNCHANGED <<store, overrides, latest, client, copying, refused, dropped, restarts>>

(* AdaptiveRebalance, for a skewed node that is also full: as many moves to *)
(* the least used node as the skew, up to five.                             *)
AdaptiveRebalance(m) ==
  /\ m \notin Nodes /\ moving[m] = NoMove
  /\ \E src \in Nodes : \E target \in Nodes \ {src} :
       /\ Skewed(src) /\ LeastUsed(target)
       /\ moving' = [moving EXCEPT ![m] =
             Move(src, target, Min({5, (Usage(src) * Cardinality(Nodes)) \div TotalUsage}) - 1)]
  /\ UNCHANGED <<store, overrides, latest, client, copying, refused, dropped, restarts>>

(* MigrateHotKey: the hottest key of those still cached ...                 *)
MovePick(m) ==
  LET held == Held(moving[m].src)
      hot  == Hot(moving[m].src)
  IN /\ moving[m].phase = "pick"
     /\ IF held = {} THEN MoveEnds(m)
        ELSE \E key \in (IF hot = {} THEN held ELSE hot) :
               moving' = [moving EXCEPT ![m].phase = "read", ![m].key = key]
     /\ UNCHANGED <<store, overrides, latest, client, copying, refused, dropped, restarts>>

(* Mutants: a miss is not noticed; the key is deleted before it is read.    *)
MoveReadUnchecked(m) ==
  LET move == moving[m]
  IN /\ move.phase = "read"
     /\ Touched(move.src, move.key)
     /\ moving' = [moving EXCEPT ![m].phase = "delete",
           ![m].val = IF move.key \in Held(move.src) THEN store[move.src][move.key].val ELSE @]
     /\ UNCHANGED <<overrides, latest, client, copying, dropped, restarts>>

MoveReadDeleted(m) ==
  /\ moving[m].phase = "read"
  /\ Removed(moving[m].src, moving[m].key)
  /\ MoveEnds(m)
  /\ UNCHANGED <<overrides, latest, client, copying, dropped, restarts>>

(* ... its value, if it has one by now ...                                  *)
MoveRead(m) ==
  LET move == moving[m]
  IN /\ move.phase = "read"
     /\ Touched(move.src, move.key)
     /\ IF move.key \in Held(move.src)
        THEN moving' = [moving EXCEPT ![m].phase = "delete",
                                      ![m].val = store[move.src][move.key].val]
        ELSE MoveEnds(m)
     /\ UNCHANGED <<overrides, latest, client, copying, dropped, restarts>>

(* ... is deleted there, whether or not it is still there ...               *)
MoveDelete(m) ==
  LET move == moving[m]
  IN /\ move.phase = "delete"
     /\ \/ /\ Removed(move.src, move.key)
           /\ moving' = [moving EXCEPT ![m].phase = "set"]
           /\ UNCHANGED dropped
        \/ /\ DeleteFails(move.src, move.key)
           /\ MoveEnds(m)
           /\ dropped' = IF store' = store THEN dropped ELSE dropped \cup {move.key}
     /\ UNCHANGED <<overrides, latest, client, copying, restarts>>

(* ... and set at the target.                                               *)
MoveSet(m) ==
  LET move == moving[m]
  IN /\ move.phase = "set"
     /\ \/ /\ Stored(move.target, move.key, move.val)
           /\ moving' = [moving EXCEPT ![m].phase = "override"]
           /\ UNCHANGED dropped
        \/ /\ SetFails(move.target, move.key, move.val)
           /\ MoveEnds(m)
           /\ dropped' = IF store' = store THEN dropped \cup {move.key} ELSE dropped
     /\ UNCHANGED <<overrides, latest, client, copying, restarts>>

SetKeyOverride(m) ==
  LET move == moving[m]
  IN /\ move.phase = "override"
     /\ overrides' = [k \in DOMAIN overrides \cup {move.key} |->
                        IF k = move.key THEN move.target ELSE overrides[k]]
     /\ MoveEnds(m)
     /\ UNCHANGED <<store, latest, client, copying, refused, dropped, restarts>>
-----------------------------------------------------------------------------
(* The process is restarted: each node rebuilds its cache from its log,     *)
(* with every Frequency back at 1, and the overrides, kept in memory only,  *)
(* are gone, with what the migrations under way had in hand.                *)

InHand(key) == \E m \in Movers : moving[m].key = key /\ moving[m].phase = "set"

(* What node n holds about a key once it has replayed its log, if the       *)
(* refused Sets in revived succeed this time.                               *)
Replayed(n, key, revived) ==
  LET now == {set \in revived : set.node = n /\ set.key = key}
  IN [val |-> IF now = {} THEN store[n][key].val ELSE (CHOOSE set \in now : TRUE).val,
      hot |-> FALSE]

(* A client's Set that takes effect by the replay is the last write there   *)
(* is, where clients are routed to.                                         *)
Restart ==
  /\ restarts < MaxRestarts
  /\ restarts' = restarts + 1
  /\ \E revived \in SUBSET refused :
       /\ \A set1, set2 \in revived :
            set1.node = set2.node /\ set1.key = set2.key => set1 = set2
       /\ store' = [n \in Nodes |->
                      [k \in Held(n) \cup {set.key : set \in {s \in revived : s.node = n}} |->
                         Replayed(n, k, revived)]]
       /\ latest' = [k \in Keys |->
                       IF \E set \in revived : set.byClient /\ set.key = k /\ set.node = Owner(k)
                       THEN Replayed(Owner(k), k, revived).val ELSE latest[k]]
  /\ dropped' = dropped \cup {key \in Keys : InHand(key)}
  /\ overrides' = <<>>
  /\ client' = [c \in Clients |-> NoCall]
  /\ copying' = [g \in Copiers |-> NoCopy]
  /\ moving' = [m \in Movers |-> NoMove]
  /\ UNCHANGED refused

Copy(g) == (\E n \in Nodes : StartCopy(g, n)) \/ CopyRead(g) \/ CopyCheck(g) \/ CopyWrite(g)

Migrate(m) ==
  \/ Survey(m) \/ AdaptiveRebalance(m)
  \/ MovePick(m) \/ MoveRead(m) \/ MoveDelete(m) \/ MoveSet(m) \/ SetKeyOverride(m)

Next ==
  \/ \E n \in Nodes, key \in Keys : Evict(n, key)
  \/ \E c \in Clients : Call(c) \/ Arrive(c)
  \/ \E g \in Copiers : Copy(g)
  \/ \E m \in Movers : Migrate(m)
  \/ Restart

Spec == Init /\ [][Next]_vars
=============================================================================
