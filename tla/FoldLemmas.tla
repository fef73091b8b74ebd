----------------------------- MODULE FoldLemmas -----------------------------
(* The folds that add up a function over a finite set, in the order of      *)
(* CHOOSE, yield its sum, whatever the order.                               *)
EXTENDS FiniteSetTheorems, WellFoundedInduction, TLAPS

NatBelow == {p \in Nat \X Nat : p[1] < p[2]}

(* Every set of naturals that is not empty has a least element.             *)
LEMMA SmallestExists ==
  ASSUME NEW S \in SUBSET Nat, S # {}
  PROVE  \E n \in S : \A k \in S : n <= k
<1>1. NatBelow = OpToRel(<, Nat) BY Zenon DEF OpToRel, NatBelow
<1>2. IsWellFoundedOn(NatBelow, Nat) BY <1>1, NatLessThanWellFounded
<1>3. PICK n \in S : \A k \in S : ~ (<<k, n>> \in NatBelow) BY <1>2, WFMin
<1>4. ASSUME NEW k \in S PROVE n <= k
  <2>1. n \in Nat /\ k \in Nat OBVIOUS
  <2>2. ~ (k < n) BY <1>3, <2>1 DEF NatBelow
  <2> QED BY <2>1, <2>2
<1> QED BY <1>4

(* Some set of a family of subsets of a finite set has no more elements     *)
(* than the others: less any of its elements it is not of the family.       *)
LEMMA SmallestSubset ==
  ASSUME NEW S, IsFiniteSet(S), NEW Family \in SUBSET (SUBSET S), Family # {}
  PROVE  \E T \in Family : \A x \in T : T \ {x} \notin Family
<1> DEFINE Sizes == {Cardinality(T) : T \in Family}
<1>1. \A T \in SUBSET S : IsFiniteSet(T) /\ Cardinality(T) \in Nat
  BY FS_Subset, FS_CardinalityType
<1>2. Sizes \in SUBSET Nat /\ Sizes # {} BY <1>1
<1>3. PICK n \in Sizes : \A k \in Sizes : n <= k BY <1>2, SmallestExists
<1>4. PICK T \in Family : n = Cardinality(T) BY <1>3
<1>5. ASSUME NEW x \in T, T \ {x} \in Family PROVE FALSE
  <2>1. Cardinality(T \ {x}) = n - 1 /\ n \in Nat
    BY <1>1, <1>4, FS_RemoveElement
  <2>2. n <= Cardinality(T \ {x}) BY <1>3, <1>5
  <2> QED BY <2>1, <2>2
<1> QED BY <1>5
-----------------------------------------------------------------------------
Chosen(S) == CHOOSE x \in S : TRUE

(* g adds up f over every subset of its domain, in the order of the choice: *)
(* what a fold of the community modules computes.                           *)
Adds(g, f) ==
  g = [S \in SUBSET DOMAIN f |-> IF S = {} THEN 0 ELSE f[Chosen(S)] + g[S \ {Chosen(S)}]]

(* g holds the sums of f over the subsets of S, whatever the order.         *)
Sums(g, f, S) ==
  /\ g = [T \in SUBSET S |-> g[T]] /\ g[{}] = 0
  /\ \A T \in SUBSET S : \A x \in T : g[T] = f[x] + g[T \ {x}]

(* One element more.                                                        *)
LEMMA SumsGrow ==
  ASSUME NEW f, NEW S, NEW y, y \notin S, \A x \in S \cup {y} : f[x] \in Nat,
         NEW g \in [SUBSET S -> Nat], Sums(g, f, S)
  PROVE  \E h \in [SUBSET (S \cup {y}) -> Nat] : Sums(h, f, S \cup {y})
<1> DEFINE h == [T \in SUBSET (S \cup {y}) |-> IF y \in T THEN f[y] + g[T \ {y}] ELSE g[T]]
<1>1. \A T \in SUBSET (S \cup {y}) : T \ {y} \in SUBSET S /\ (y \notin T => T \in SUBSET S)
  OBVIOUS
<1>2. \A T \in SUBSET S : g[T] \in Nat OBVIOUS
<1>3. h \in [SUBSET (S \cup {y}) -> Nat] BY <1>1, <1>2
<1>4. h[{}] = 0 BY DEF Sums
<1>5. ASSUME NEW T \in SUBSET (S \cup {y}), NEW x \in T
      PROVE  h[T] = f[x] + h[T \ {x}]
  <2>1. T \ {x} \in SUBSET (S \cup {y}) OBVIOUS
  <2>2. CASE x = y
    <3>1. h[T] = f[y] + g[T \ {y}] /\ h[T \ {y}] = g[T \ {y}] BY <2>1, <2>2
    <3> QED BY <2>2, <3>1
  <2>3. CASE x # y /\ y \in T
    <3>1. h[T] = f[y] + g[T \ {y}] /\ h[T \ {x}] = f[y] + g[(T \ {x}) \ {y}] BY <2>1, <2>3
    <3>2. g[T \ {y}] = f[x] + g[(T \ {y}) \ {x}]
      <4>1. T \ {y} \in SUBSET S /\ x \in T \ {y} BY <1>1, <2>3
      <4> QED BY <4>1 DEF Sums
    <3>3. (T \ {y}) \ {x} = (T \ {x}) \ {y} OBVIOUS
    <3>4. g[(T \ {x}) \ {y}] \in Nat BY <1>1, <1>2, <2>1
    <3>5. f[x] \in Nat /\ f[y] \in Nat OBVIOUS
    <3>6. g[T \ {y}] = f[x] + g[(T \ {x}) \ {y}] BY <3>2, <3>3, Zenon
    <3> HIDE DEF h
    <3> QED BY <3>1, <3>4, <3>5, <3>6
  <2>4. CASE y \notin T
    <3>1. h[T] = g[T] /\ h[T \ {x}] = g[T \ {x}] BY <2>1, <2>4
    <3>2. T \in SUBSET S BY <1>1, <2>4
    <3> QED BY <3>1, <3>2 DEF Sums
  <2> QED BY <2>2, <2>3, <2>4
<1> HIDE DEF h
<1> QED BY <1>3, <1>4, <1>5 DEF Sums

(* Every finite set has its sums: a smallest subset without any would have  *)
(* them by its elements but one.                                            *)
LEMMA SumsExist ==
  ASSUME NEW f, NEW S, IsFiniteSet(S), \A x \in S : f[x] \in Nat
  PROVE  \E g \in [SUBSET S -> Nat] : Sums(g, f, S)
<1> DEFINE Summed(T) == \E g \in [SUBSET T -> Nat] : Sums(g, f, T)
           Family == {T \in SUBSET S : ~Summed(T)}
<1>1. SUFFICES ASSUME Family # {} PROVE FALSE
  OBVIOUS
<1>2. PICK T \in Family : \A x \in T : T \ {x} \notin Family BY <1>1, SmallestSubset
<1>3. CASE T = {}
  <2> DEFINE g == [U \in SUBSET T |-> 0]
  <2>1. g \in [SUBSET T -> Nat] /\ Sums(g, f, T) BY <1>3 DEF Sums
  <2> QED BY <1>2, <2>1
<1>4. CASE T # {}
  <2>1. PICK y \in T : TRUE BY <1>4
  <2>2. PICK g \in [SUBSET (T \ {y}) -> Nat] : Sums(g, f, T \ {y}) BY <1>2, <2>1
  <2>3. (T \ {y}) \cup {y} = T BY <2>1
  <2>4. Summed((T \ {y}) \cup {y}) BY <2>1, <2>2, SumsGrow
  <2> HIDE DEF Summed
  <2>5. Summed(T) BY <2>3, <2>4
  <2> QED BY <1>2, <2>5
<1> QED BY <1>3, <1>4

(* What adds up f in the order of the choice finds the sums.                *)
LEMMA AddsSums ==
  ASSUME NEW f, IsFiniteSet(DOMAIN f), NEW g, Sums(g, f, DOMAIN f), NEW h, Adds(h, f)
  PROVE  h[DOMAIN f] = g[DOMAIN f]
<1> DEFINE Family == {T \in SUBSET DOMAIN f : h[T] # g[T]}
<1>1. SUFFICES ASSUME Family # {} PROVE FALSE OBVIOUS
<1>2. PICK T \in Family : \A x \in T : T \ {x} \notin Family BY <1>1, SmallestSubset
<1>3. h[T] = IF T = {} THEN 0 ELSE f[Chosen(T)] + h[T \ {Chosen(T)}] BY DEF Adds
<1>4. CASE T = {} BY <1>2, <1>3, <1>4 DEF Sums
<1>5. CASE T # {}
  <2> DEFINE y == Chosen(T)
  <2>1. y \in T BY <1>5 DEF Chosen
  <2> HIDE DEF y
  <2>2. h[T \ {y}] = g[T \ {y}] BY <1>2, <2>1
  <2>3. g[T] = f[y] + g[T \ {y}] BY <2>1 DEF Sums
  <2>4. h[T] = f[y] + h[T \ {y}] BY <1>3, <1>5 DEF y
  <2> QED BY <1>2, <2>2, <2>3, <2>4
<1> QED BY <1>4, <1>5

(* The sums can be added up in the order of the choice.                     *)
LEMMA SumsAdd ==
  ASSUME NEW f, NEW g, Sums(g, f, DOMAIN f)
  PROVE  Adds(g, f)
<1>1. \A T \in SUBSET DOMAIN f : T # {} => Chosen(T) \in T BY DEF Chosen
<1>2. \A T \in SUBSET DOMAIN f :
        g[T] = IF T = {} THEN 0 ELSE f[Chosen(T)] + g[T \ {Chosen(T)}]
  BY <1>1 DEF Sums
<1>3. g = [T \in SUBSET DOMAIN f |-> g[T]] BY DEF Sums
<1> QED BY <1>2, <1>3, Zenon DEF Adds
=============================================================================
