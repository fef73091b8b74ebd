------------------------------ MODULE HashRing ------------------------------
(* The consistent-hash ring of cluster/cluster.go: every node owns Replicas *)
(* points, and the points are walked in the order of their hashes.  The     *)
(* hashes themselves (crc32) are a parameter; main_cluster.go:211 gives     *)
(* four nodes a hundred points each, so there are nodes and points.         *)
EXTENDS Integers, FiniteSets

CONSTANTS Nodes, Keys,
          Replicas,   \* points per node
          PointHash,  \* PointHash[<<n, i>>]: hash of the i-th point of n
          KeyHash     \* KeyHash[k]: hash of the key

Points == Nodes \X (1..Replicas)

ASSUME RingAssumption ==
  /\ Nodes # {} /\ IsFiniteSet(Nodes) /\ Replicas \in Nat \ {0}
  /\ PointHash \in [Points -> Nat] /\ KeyHash \in [Keys -> Nat]
  /\ \A p, q \in Points : PointHash[p] = PointHash[q] => p = q

(* The slice VirtualNodes sorted by hash: its first point, the first of     *)
(* some of its points, and the point after a point, round the ring.         *)
First(points) ==
  CHOOSE p \in points : \A q \in points : PointHash[p] <= PointHash[q]

FirstOrWrapped(points) == First(IF points = {} THEN Points ELSE points)

(* sort.Search for the first point not before the key.                      *)
Search(key) == FirstOrWrapped({p \in Points : PointHash[p] >= KeyHash[key]})

After(p) == FirstOrWrapped({q \in Points : PointHash[q] > PointHash[p]})

NodeOf(p) == p[1]

Owner(key) == NodeOf(Search(key))

(* Mutant: the point after the source's own first point.                    *)
NeighborOfSource(src, key) == NodeOf(After(First({p \in Points : NodeOf(p) = src})))

(* getNeighborNode: the node of the point after the key's, whoever asks.    *)
Neighbor(src, key) == NodeOf(After(Search(key)))
-----------------------------------------------------------------------------
(* The same as cluster.go computes it, on the slice VirtualNodes: every     *)
(* point, sorted by hash.                                                   *)
Indexes == 1..Cardinality(Points)

SortedSlices ==
  {s \in [Indexes -> Points] :
     /\ \A p \in Points : \E i \in Indexes : s[i] = p
     /\ \A i, j \in Indexes : i < j => PointHash[s[i]] < PointHash[s[j]]}

Lowest(indexes) == CHOOSE i \in indexes : \A j \in indexes : i <= j

NotBefore(s, key) == {i \in Indexes : PointHash[s[i]] >= KeyHash[key]}

(* Mutant: past the last point the search stays at the last one.            *)
SearchIndexClamped(s, key) ==
  IF NotBefore(s, key) = {} THEN Cardinality(Points) ELSE Lowest(NotBefore(s, key))

(* sort.Search, and back to the start of the slice past its end.            *)
SearchIndex(s, key) ==
  IF NotBefore(s, key) = {} THEN 1 ELSE Lowest(NotBefore(s, key))

NextIndex(i) == (i % Cardinality(Points)) + 1

OwnerInSlice(s, key) == NodeOf(s[SearchIndex(s, key)])
NeighborInSlice(s, key) == NodeOf(s[NextIndex(SearchIndex(s, key))])
=============================================================================
