------------------------------- MODULE MCCache -------------------------------
(* Instances of Cache for TLC.  Values differ in size where the properties  *)
(* need it: "a" and "b" are small, "c" takes half of a small cache and      *)
(* "huge" never fits.                                                       *)
EXTENDS CacheProperties, TLC

MCSize == [v \in Values |-> CASE v = "a" -> 1 [] v = "b" -> 2
                              [] v = "c" -> 3 [] v = "huge" -> Capacity + 1]

(* Keys are interchangeable; only safety is checked under this symmetry.    *)
MCSymmetry == Permutations(Keys)
=============================================================================
