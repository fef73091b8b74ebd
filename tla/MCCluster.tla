----------------------------- MODULE MCCluster -----------------------------
(* Instances of Cluster for TLC: three nodes with two points each, so that  *)
(* one key's owner and neighbor differ, another key's coincide, and the     *)
(* search for one key wraps around the end of the ring.                     *)
EXTENDS ClusterProperties

CONSTANTS n1, n2, n3, k1, k2

(* In the order of the ring: n1, n2, n3, n3, n2, n1.                        *)
MCPointHash ==
  [p \in Points |-> CASE p = <<n1, 1>> -> 10 [] p = <<n2, 1>> -> 20
                      [] p = <<n3, 1>> -> 30 [] p = <<n3, 2>> -> 40
                      [] p = <<n2, 2>> -> 50 [] p = <<n1, 2>> -> 60]

(* k1 is past the last point: it wraps to n1, and its neighbor is n2.  k2   *)
(* lies between n2 and n3 and is its owner's, n3's, next point too.         *)
MCKeyHash == [k \in Keys |-> IF k = k1 THEN 65 ELSE 25]
=============================================================================
