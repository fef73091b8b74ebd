-------------------------- MODULE ClusterProperties --------------------------
(* What the cluster must and must not do, stated over the state of Cluster. *)
EXTENDS Cluster

StoreTyped ==
  /\ DOMAIN store = Nodes
  /\ \A n \in Nodes :
       /\ Held(n) \subseteq Keys
       /\ \A k \in Held(n) : store[n][k] \in [val : Values, hot : BOOLEAN]

CopiesTyped ==
  copying \in [Copiers -> [phase : {"idle", "read", "check", "write"}, src : Nodes \cup {NoNode},
                           key : Keys \cup {NoKey}, val : Values \cup {NoValue}]]

RefusedTyped ==
  refused \subseteq [node : Nodes, key : Keys, val : Values, byClient : BOOLEAN]

Calls == [op : {"none", "set", "get", "delete"}, key : Keys \cup {NoKey},
          val : Values \cup {NoValue}, node : Nodes \cup {NoNode}]

Moves == [phase : {"idle", "pick", "read", "delete", "set", "override"},
          src : Nodes \cup {NoNode}, target : Nodes \cup {NoNode},
          key : Keys \cup {NoKey}, val : Values \cup {NoValue}, more : 0..4]

(* Every variable has its type.                                             *)
TypeOK ==
  /\ StoreTyped
  /\ DOMAIN overrides \subseteq Keys /\ \A k \in DOMAIN overrides : overrides[k] \in Nodes
  /\ latest \in [Keys -> Values \cup {NoValue}]
  /\ client \in [Clients -> Calls]
  /\ CopiesTyped
  /\ moving \in [Movers -> Moves]
  /\ RefusedTyped
  /\ dropped \subseteq Keys /\ restarts \in Nat

(* Routing (README.md:144).  A routed read never returns anything but what  *)
(* the last write to take effect left: if the node a key is routed to holds *)
(* it, it holds the latest value.  Without migration this is what keeps     *)
(* replicas, which are never refreshed, out of the clients' sight.          *)
RoutedCopyLatest ==
  \A key \in Keys :
    key \in Held(Route(key)) => store[Route(key)][key].val = latest[key]

(* Without migration every copy is where the slice VirtualNodes says: at    *)
(* the node of the first point not before its key or at the node of the     *)
(* next point, and every call is bound for the first of them.  However      *)
(* sorting has laid the points out, the search and the two wraps of an      *)
(* index (cluster.go:98-105, 219-226) lead clients and replication to nodes *)
(* that belong together.                                                    *)
CopiesWhereSliceSays ==
  /\ SortedSlices # {}
  /\ \A s \in SortedSlices :
       /\ \A n \in Nodes : \A key \in Held(n) :
            n \in {OwnerInSlice(s, key), NeighborInSlice(s, key)}
       /\ \A c \in Clients :
            client[c].op # "none" => client[c].node = OwnerInSlice(s, client[c].key)

(* Replication does not cascade: a replica that grows hot itself is not     *)
(* replicated further, so without migration a key is at two nodes at most.  *)
TwoCopies == \A key \in Keys : Cardinality({n \in Nodes : key \in Held(n)}) <= 2

(* Migration loses nothing but what one of its own failed calls cost: in a  *)
(* cluster whose caches drop nothing by themselves, a key that was set and  *)
(* not deleted is somewhere, or in the hands of a migration between its     *)
(* Delete and its Set, or a Delete or a Set of its migration has failed,    *)
(* however many workers and clients compete for it.                         *)
NothingLost ==
  \A key \in Keys :
    latest[key] # NoValue =>
      key \in dropped \/ InHand(key) \/ \E n \in Nodes : key \in Held(n)
-----------------------------------------------------------------------------
(* What the repository's documents say of migration and the code does not   *)
(* keep, refuted by a run of its own.  With movers RoutedCopyLatest above   *)
(* does not hold either: an old replica becomes the copy clients read.      *)

BeingMoved(key) == \E n \in Movers : moving[n].key = key

(* Routing after a migration (README.md:144, "future reads/writes route     *)
(* correctly"): once no migration is about it, a key that was set and not   *)
(* deleted is found where it is routed to.  Of two moves of a key the last  *)
(* to record its override need not be the last to move it.                  *)
RoutedReadsHit ==
  \A key \in Keys :
    latest[key] # NoValue => key \in Held(Route(key)) \/ BeingMoved(key)
=============================================================================
