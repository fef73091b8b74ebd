----------------------------- MODULE WalProofs -----------------------------
(* The text of the write-ahead log carries entries: EntryLogKept, the       *)
(* refinement of EntryLog for plain keys and values, and ReadsBackExactly,  *)
(* that plain ones are the only ones.                                       *)
(*                                                                          *)
(* The order: what SplitN returns (SplitNone, SplitConcat, SplitParts),     *)
(* Unescape after Escape (UnescapeEscape), the four fields of a line and    *)
(* the entry they are read as (BodyFields, LineReadsBack), what a write     *)
(* adds to the file (WrittenPart, WrittenLine) and to its entries           *)
(* (ReadLinesAppend), then the calls of Append one by one.  Each recursive  *)
(* function is first shown to exist (SplitsExist, FlattensExists,           *)
(* ReadsExists) from the least argument it would be missing for, and        *)
(* unfolded only once, in the lemma behind it.                              *)
EXTENDS Wal, FoldLemmas, SequenceTheorems

Cuts(text, sep, i) == {j \in i..Len(text) : text[j] = sep}

(* The parts of the text from each place on, at most n, as From has them,   *)
(* at most n - 1, of the places behind.                                     *)
Row(From, n, text, sep) ==
  [i \in 1..(Len(text) + 1) |->
     IF n = 1 \/ Cuts(text, sep, i) = {} THEN <<SubSeq(text, i, Len(text))>>
     ELSE <<SubSeq(text, i, Min(Cuts(text, sep, i)) - 1)>>
            \o From[n - 1][Min(Cuts(text, sep, i)) + 1]]

Splits(From, text, sep, limit) == From = [n \in 1..limit |-> Row(From, n, text, sep)]

(* The first cut is where it should be.                                     *)
LEMMA FirstCut ==
  ASSUME NEW S, NEW text \in Seq(S), NEW sep, NEW i \in 1..(Len(text) + 1),
         Cuts(text, sep, i) # {}
  PROVE  /\ Min(Cuts(text, sep, i)) \in i..Len(text)
         /\ text[Min(Cuts(text, sep, i))] = sep
         /\ \A j \in i..(Min(Cuts(text, sep, i)) - 1) : text[j] # sep
<1> DEFINE C == Cuts(text, sep, i)
<1>1. C \in SUBSET Nat BY DEF Cuts
<1>2. PICK n \in C : \A k \in C : n <= k BY <1>1, SmallestExists
<1>3. Min(C) \in C /\ \A k \in C : Min(C) <= k
  <2> HIDE DEF C
  <2> QED BY <1>2, Zenon DEF Min
<1>4. Len(text) \in Nat OBVIOUS
<1>5. Min(C) \in i..Len(text) /\ text[Min(C)] = sep BY <1>3 DEF Cuts
<1>6. ASSUME NEW j \in i..(Min(C) - 1) PROVE text[j] # sep
  BY <1>3, <1>4, <1>5 DEF Cuts
<1> QED BY <1>5, <1>6

(* There is such a function.                                                *)
LEMMA SplitsExist ==
  ASSUME NEW text, NEW sep, NEW limit \in Nat \ {0}
  PROVE  \E From : Splits(From, text, sep, limit)
<1> DEFINE Bad == {m \in Nat \ {0} : ~ \E From : Splits(From, text, sep, m)}
<1>1. SUFFICES ASSUME Bad # {} PROVE FALSE OBVIOUS
<1>2. PICK m \in Bad : \A k \in Bad : m <= k BY <1>1, SmallestExists
<1>3. ASSUME m = 1 PROVE FALSE
  <2> DEFINE h == [n \in 1..1 |-> Row(<<>>, n, text, sep)]
  <2>1. \A n \in 1..1 : Row(<<>>, n, text, sep) = Row(h, n, text, sep) BY DEF Row
  <2>2. Splits(h, text, sep, 1) BY <2>1 DEF Splits
  <2> QED BY <1>2, <1>3, <2>2
<1>4. ASSUME m # 1 PROVE FALSE
  <2>1. PICK g : Splits(g, text, sep, m - 1) BY <1>2, <1>4
  <2> DEFINE h == [n \in 1..m |-> Row(g, n, text, sep)]
  <2>2. \A n \in 1..(m - 1) : h[n] = g[n] BY <1>2, <2>1 DEF Splits
  <2>3. ASSUME NEW n \in 1..m PROVE Row(g, n, text, sep) = Row(h, n, text, sep)
    <3>1. n = 1 \/ h[n - 1] = g[n - 1] BY <1>2, <2>2
    <3> HIDE DEF h
    <3> QED BY <3>1 DEF Row
  <2>4. h = [n \in 1..m |-> Row(h, n, text, sep)] BY <2>3
  <2> HIDE DEF h
  <2>5. Splits(h, text, sep, m) BY <2>4 DEF Splits
  <2> QED BY <1>2, <2>5
<1> QED BY <1>3, <1>4

(* SplitN, row by row.                                                      *)
LEMMA SplitUnfold ==
  ASSUME NEW text, NEW sep, NEW limit \in Nat \ {0}
  PROVE  \E From : /\ SplitN(text, sep, limit) = From[limit][1]
                   /\ \A n \in 1..limit : From[n] = Row(From, n, text, sep)
<1> DEFINE From == CHOOSE From : Splits(From, text, sep, limit)
<1>1. Splits(From, text, sep, limit) BY SplitsExist
<1>2. SplitN(text, sep, limit) = From[limit][1] BY DEF SplitN, Splits, Row, Cuts
<1> HIDE DEF From
<1> QED BY <1>1, <1>2 DEF Splits

(* A text without a separator is its only part.                             *)
LEMMA SplitNone ==
  ASSUME NEW S, NEW text \in Seq(S), NEW sep, NEW limit \in Nat \ {0},
         \A j \in 1..Len(text) : text[j] # sep
  PROVE  SplitN(text, sep, limit) = <<text>>
<1>1. PICK From : /\ SplitN(text, sep, limit) = From[limit][1]
                  /\ \A n \in 1..limit : From[n] = Row(From, n, text, sep)
  BY SplitUnfold
<1>2. Cuts(text, sep, 1) = {} BY DEF Cuts
<1>3. From[limit] = Row(From, limit, text, sep) BY <1>1
<1>4. From[limit][1] = <<SubSeq(text, 1, Len(text))>> BY <1>2, <1>3 DEF Row
<1>5. SubSeq(text, 1, Len(text)) = text BY SubSeqFull
<1> QED BY <1>1, <1>4, <1>5

(* The cuts of a text behind its p-th character are those of what is left.  *)
LEMMA CutsShift ==
  ASSUME NEW S, NEW text \in Seq(S), NEW sep, NEW p \in 1..Len(text),
         NEW i \in 1..(Len(text) - p + 1)
  PROVE  LET tail == SubSeq(text, p + 1, Len(text))
         IN /\ (Cuts(text, sep, p + i) = {}) <=> (Cuts(tail, sep, i) = {})
            /\ Cuts(tail, sep, i) # {} =>
                 Min(Cuts(text, sep, p + i)) = p + Min(Cuts(tail, sep, i))
<1> DEFINE tail == SubSeq(text, p + 1, Len(text))
<1>1. /\ tail \in Seq(S) /\ Len(tail) = Len(text) - p
      /\ \A j \in 1..(Len(text) - p) : tail[j] = text[p + j]
  OBVIOUS
<1>2. p \in Nat /\ i \in Nat /\ Len(text) \in Nat OBVIOUS
<1> HIDE DEF tail
<1>3. ASSUME NEW j \in Cuts(tail, sep, i) PROVE p + j \in Cuts(text, sep, p + i)
  BY <1>1, <1>2 DEF Cuts
<1>4. ASSUME NEW j \in Cuts(text, sep, p + i) PROVE j - p \in Cuts(tail, sep, i)
  <2>1. j \in (p + i)..Len(text) /\ text[j] = sep BY DEF Cuts
  <2>2. j - p \in i..Len(tail) /\ j - p \in 1..(Len(text) - p) BY <2>1, <1>1, <1>2
  <2>3. tail[j - p] = text[p + (j - p)] BY <1>1, <2>2
  <2>4. p + (j - p) = j BY <2>1, <1>2
  <2> QED BY <2>1, <2>2, <2>3, <2>4 DEF Cuts
<1>5. ASSUME Cuts(tail, sep, i) # {}
      PROVE  Min(Cuts(text, sep, p + i)) = p + Min(Cuts(tail, sep, i))
  <2> DEFINE C == Cuts(text, sep, p + i)
             D == Cuts(tail, sep, i)
  <2>1. C \in SUBSET Nat /\ D \in SUBSET Nat BY <1>1, <1>2 DEF Cuts
  <2>2. C # {} BY <1>3, <1>5
  <2> HIDE DEF C, D
  <2>3. Min(C) \in C /\ \A k \in C : Min(C) <= k
    BY <2>1, <2>2, SmallestExists, Zenon DEF Min
  <2>4. Min(D) \in D /\ \A k \in D : Min(D) <= k
    BY <2>1, <1>5, SmallestExists, Zenon DEF Min, D
  <2>5. p + Min(D) \in C /\ Min(C) - p \in D BY <1>3, <1>4, <2>3, <2>4 DEF C, D
  <2>6. Min(C) <= p + Min(D) /\ Min(D) <= Min(C) - p BY <2>3, <2>4, <2>5
  <2>7. Min(C) \in Nat /\ Min(D) \in Nat BY <2>1, <2>3, <2>4
  <2>8. Min(C) = p + Min(D) BY <1>2, <2>6, <2>7
  <2> QED BY <2>8 DEF C, D
<1>6. (Cuts(text, sep, p + i) = {}) <=> (Cuts(tail, sep, i) = {}) BY <1>3, <1>4
<1> QED BY <1>5, <1>6 DEF tail

(* The first part ends at the first separator; the others are the parts of  *)
(* what follows it.                                                         *)
LEMMA SplitCut ==
  ASSUME NEW S, NEW text \in Seq(S), NEW sep, NEW p \in 1..Len(text),
         text[p] = sep, \A j \in 1..(p - 1) : text[j] # sep,
         NEW limit \in Nat \ {0, 1}
  PROVE  SplitN(text, sep, limit) =
           <<SubSeq(text, 1, p - 1)>>
             \o SplitN(SubSeq(text, p + 1, Len(text)), sep, limit - 1)
<1> DEFINE tail == SubSeq(text, p + 1, Len(text))
<1>1. PICK F : /\ SplitN(text, sep, limit) = F[limit][1]
               /\ \A n \in 1..limit : F[n] = Row(F, n, text, sep)
  BY SplitUnfold
<1>2. limit - 1 \in Nat \ {0} /\ p \in Nat /\ Len(text) \in Nat OBVIOUS
<1>3. PICK G : /\ SplitN(tail, sep, limit - 1) = G[limit - 1][1]
               /\ \A n \in 1..(limit - 1) : G[n] = Row(G, n, tail, sep)
  BY <1>2, SplitUnfold
<1>4. tail \in Seq(S) /\ Len(tail) = Len(text) - p /\ Len(tail) \in Nat OBVIOUS
<1>5. ASSUME NEW i \in 1..(Len(tail) + 1), NEW k \in 0..Len(tail)
      PROVE  SubSeq(tail, i, k) = SubSeq(text, p + i, p + k)
  BY <1>2, <1>4, SubSeqOfSubSeq
<1>6. \A n \in 1..(limit - 1) : \A i \in 1..(Len(tail) + 1) : F[n][p + i] = G[n][i]
  <2> DEFINE Same(n) == \A i \in 1..(Len(tail) + 1) : F[n][p + i] = G[n][i]
             Bad == {n \in 1..(limit - 1) : ~Same(n)}
  <2>1. SUFFICES ASSUME Bad # {} PROVE FALSE OBVIOUS
  <2>2. Bad \in SUBSET Nat OBVIOUS
  <2>3. PICK n \in Bad : \A k \in Bad : n <= k BY <2>1, <2>2, SmallestExists
  <2>4. PICK i \in 1..(Len(tail) + 1) : F[n][p + i] # G[n][i] BY <2>3
  <2>5. n = 1 \/ (n - 1 \in 1..(limit - 1) /\ Same(n - 1)) BY <2>3
  <2> HIDE DEF tail
  <2>6. F[n] = Row(F, n, text, sep) /\ G[n] = Row(G, n, tail, sep)
    BY <1>1, <1>2, <1>3
  <2>7. p + i \in 1..(Len(text) + 1) /\ i \in 1..(Len(text) - p + 1) /\ i \in Nat
    BY <1>2, <1>4
  <2>8. /\ (Cuts(text, sep, p + i) = {}) <=> (Cuts(tail, sep, i) = {})
        /\ Cuts(tail, sep, i) # {} =>
             Min(Cuts(text, sep, p + i)) = p + Min(Cuts(tail, sep, i))
    BY <2>7, CutsShift DEF tail
  <2>9. CASE n = 1 \/ Cuts(tail, sep, i) = {}
    <3>1. F[n][p + i] = <<SubSeq(text, p + i, Len(text))>>
      BY <2>6, <2>7, <2>8, <2>9 DEF Row
    <3>2. G[n][i] = <<SubSeq(tail, i, Len(tail))>> BY <2>6, <2>9 DEF Row
    <3>3. SubSeq(tail, i, Len(tail)) = SubSeq(text, p + i, p + Len(tail))
      <4>1. Len(tail) \in 0..Len(tail) BY <1>4
      <4> QED BY <1>5, <4>1
    <3>4. p + Len(tail) = Len(text) BY <1>2, <1>4
    <3> QED BY <2>4, <3>1, <3>2, <3>3, <3>4
  <2>10. CASE n # 1 /\ Cuts(tail, sep, i) # {}
    <3> DEFINE m == Min(Cuts(tail, sep, i))
    <3>1. m \in i..Len(tail) BY <1>4, <2>10, FirstCut
    <3> HIDE DEF m
    <3>2. F[n][p + i] = <<SubSeq(text, p + i, (p + m) - 1)>> \o F[n - 1][(p + m) + 1]
      <4>1. Cuts(text, sep, p + i) # {} /\ Min(Cuts(text, sep, p + i)) = p + m
        BY <2>8, <2>10 DEF m
      <4>2. F[n][p + i] = Row(F, n, text, sep)[p + i] BY <2>6
      <4> DEFINE cut == Min(Cuts(text, sep, p + i))
      <4>3. F[n][p + i] = <<SubSeq(text, p + i, cut - 1)>> \o F[n - 1][cut + 1]
        BY <2>7, <2>10, <4>1, <4>2, Zenon DEF Row
      <4> QED BY <4>1, <4>3
    <3>3. G[n][i] = <<SubSeq(tail, i, m - 1)>> \o G[n - 1][m + 1]
      BY <2>6, <2>10 DEF Row, m
    <3>4. m - 1 \in 0..Len(tail) /\ m + 1 \in 1..(Len(tail) + 1) BY <1>4, <3>1
    <3>5. SubSeq(tail, i, m - 1) = SubSeq(text, p + i, p + (m - 1)) BY <1>5, <3>4
    <3>6. p + (m - 1) = (p + m) - 1 /\ p + (m + 1) = (p + m) + 1 BY <1>2, <1>4, <3>1
    <3>7. F[n - 1][p + (m + 1)] = G[n - 1][m + 1] BY <2>5, <2>10, <3>4
    <3> QED BY <2>4, <3>2, <3>3, <3>5, <3>6, <3>7
  <2> QED BY <2>9, <2>10
<1>7. /\ Cuts(text, sep, 1) # {} /\ Min(Cuts(text, sep, 1)) = p
  <2>1. p \in Cuts(text, sep, 1) BY <1>2 DEF Cuts
  <2> DEFINE m == Min(Cuts(text, sep, 1))
  <2>2. m \in 1..Len(text) /\ text[m] = sep /\ \A j \in 1..(m - 1) : text[j] # sep
    BY <2>1, FirstCut
  <2> HIDE DEF m
  <2>3. ~(p < m) /\ ~(m < p) BY <1>2, <2>2
  <2> QED BY <1>2, <2>1, <2>2, <2>3 DEF m
<1>8. F[limit][1] = <<SubSeq(text, 1, p - 1)>> \o F[limit - 1][p + 1]
  <2>1. F[limit] = Row(F, limit, text, sep) /\ limit # 1 BY <1>1
  <2>2. 1 \in 1..(Len(text) + 1) BY <1>2
  <2> QED BY <1>7, <2>1, <2>2, Zenon DEF Row
<1>9. F[limit - 1][p + 1] = G[limit - 1][1]
  <2> HIDE DEF tail
  <2> QED BY <1>2, <1>4, <1>6
<1> QED BY <1>1, <1>3, <1>8, <1>9
-----------------------------------------------------------------------------
(* FlattenSeq, from the left.                                               *)
FlatRow(f, i, s) == IF i = 1 THEN s[i] ELSE f[i - 1] \o s[i]

Flattens(f, s) == f = [i \in 1..Len(s) |-> FlatRow(f, i, s)]

FlattensTo(s, m) == \E f : f = [i \in 1..m |-> FlatRow(f, i, s)]

(* The recursive function behind FlattenSeq exists.                         *)
LEMMA FlattensExists ==
  ASSUME NEW S, NEW s \in Seq(S)
  PROVE  \E f : Flattens(f, s)
<1> DEFINE Bad == {m \in Nat : ~FlattensTo(s, m)}
<1>1. SUFFICES ASSUME Bad # {} PROVE FALSE
  BY DEF Flattens, FlattensTo
<1>2. PICK m \in Bad : \A k \in Bad : m <= k BY <1>1, SmallestExists
<1>3. CASE m = 0
  <2> DEFINE h == [i \in 1..0 |-> FlatRow(<<>>, i, s)]
  <2>1. h = [i \in 1..0 |-> FlatRow(h, i, s)] OBVIOUS
  <2> QED BY <1>2, <1>3, <2>1 DEF FlattensTo
<1>4. CASE m # 0
  <2>1. PICK g : g = [i \in 1..(m - 1) |-> FlatRow(g, i, s)]
    BY <1>2, <1>4 DEF FlattensTo
  <2> DEFINE h == [i \in 1..m |-> FlatRow(g, i, s)]
  <2>2. \A i \in 1..(m - 1) : h[i] = g[i] BY <1>2, <2>1
  <2>3. ASSUME NEW i \in 1..m PROVE FlatRow(g, i, s) = FlatRow(h, i, s)
    <3>1. i = 1 \/ i - 1 \in 1..(m - 1) BY <1>2
    <3> HIDE DEF h
    <3> QED BY <2>2, <3>1 DEF FlatRow
  <2>4. h = [i \in 1..m |-> FlatRow(h, i, s)] BY <2>3
  <2> HIDE DEF h
  <2> QED BY <1>2, <2>4 DEF FlattensTo
<1> QED BY <1>3, <1>4

(* FlattenSeq, element by element.                                          *)
LEMMA FlattenUnfold ==
  ASSUME NEW S, NEW s \in Seq(S), Len(s) # 0
  PROVE  \E f : Flattens(f, s) /\ FlattenSeq(s) = f[Len(s)]
<1> DEFINE f == CHOOSE f : Flattens(f, s)
<1>1. Flattens(f, s) BY FlattensExists
<1>2. FlattenSeq(s) = f[Len(s)] BY DEF FlattenSeq, Flattens, FlatRow
<1> HIDE DEF f
<1> QED BY <1>1, <1>2

(* One sequence more.                                                       *)
LEMMA FlattenAppend ==
  ASSUME NEW S, NEW s \in Seq(Seq(S)), NEW x \in Seq(S), FlattenSeq(s) \in Seq(S)
  PROVE  /\ FlattenSeq(Append(s, x)) = FlattenSeq(s) \o x
         /\ FlattenSeq(Append(s, x)) \in Seq(S)
<1> DEFINE t == Append(s, x)
<1>1. /\ t \in Seq(Seq(S)) /\ Len(t) = Len(s) + 1 /\ t[Len(t)] = x
      /\ Len(s) \in Nat /\ \A i \in 1..Len(s) : t[i] = s[i]
  OBVIOUS
<1> HIDE DEF t
<1>2. PICK g : Flattens(g, t) /\ FlattenSeq(t) = g[Len(t)] BY <1>1, FlattenUnfold
<1>3. CASE Len(s) = 0
  <2>1. s = <<>> /\ FlattenSeq(s) = <<>> BY <1>3 DEF FlattenSeq
  <2>2. g[1] = FlatRow(g, 1, t) BY <1>1, <1>2, <1>3 DEF Flattens
  <2>3. FlattenSeq(t) = x BY <1>1, <1>2, <1>3, <2>2 DEF FlatRow
  <2>4. <<>> \o x = x OBVIOUS
  <2> QED BY <2>1, <2>3, <2>4 DEF t
<1>4. CASE Len(s) # 0
  <2>1. PICK f : Flattens(f, s) /\ FlattenSeq(s) = f[Len(s)] BY <1>4, FlattenUnfold
  <2> DEFINE Bad == {i \in 1..Len(s) : f[i] # g[i]}
  <2>2. ASSUME Bad # {} PROVE FALSE
    <3>1. Bad \in SUBSET Nat OBVIOUS
    <3>2. PICK i \in Bad : \A k \in Bad : i <= k BY <2>2, <3>1, SmallestExists
    <3>3. i \in 1..Len(s) /\ i \in 1..Len(t) BY <1>1
    <3>4. f[i] = FlatRow(f, i, s) /\ g[i] = FlatRow(g, i, t)
      BY <1>2, <2>1, <3>3 DEF Flattens
    <3>5. i = 1 \/ f[i - 1] = g[i - 1]
      <4>1. i = 1 \/ i - 1 \in 1..Len(s) BY <1>1, <3>3
      <4>2. i \in Nat BY <1>1, <3>3
      <4> QED BY <3>2, <4>1, <4>2
    <3>6. t[i] = s[i] BY <1>1, <3>3
    <3>7. FlatRow(f, i, s) = FlatRow(g, i, t) BY <3>5, <3>6 DEF FlatRow
    <3> QED BY <3>2, <3>4, <3>7
  <2>3. Len(s) \in 1..Len(s) /\ Len(t) \in 1..Len(t) BY <1>1, <1>4
  <2>4. f[Len(s)] = g[Len(s)] BY <2>2, <2>3
  <2>5. g[Len(t)] = FlatRow(g, Len(t), t) BY <1>2, <2>3 DEF Flattens
  <2>6. Len(t) # 1 /\ Len(t) - 1 = Len(s) BY <1>1, <1>4
  <2>7. FlatRow(g, Len(t), t) = g[Len(s)] \o x BY <1>1, <2>6 DEF FlatRow
  <2>8. FlattenSeq(t) = FlattenSeq(s) \o x BY <1>2, <2>1, <2>4, <2>5, <2>7
  <2> QED BY <2>8 DEF t
<1>5. FlattenSeq(t) = FlattenSeq(s) \o x BY <1>3, <1>4 DEF t
<1> QED BY <1>5 DEF t

(* A sequence of sequences is flattened to a sequence.                      *)
LEMMA FlattenType ==
  ASSUME NEW S, NEW s \in Seq(Seq(S))
  PROVE  FlattenSeq(s) \in Seq(S)
<1> DEFINE Bad == {i \in 0..Len(s) : FlattenSeq(SubSeq(s, 1, i)) \notin Seq(S)}
<1>1. ASSUME Bad # {} PROVE FALSE
  <2>1. Bad \in SUBSET Nat OBVIOUS
  <2>2. PICK i \in Bad : \A k \in Bad : i <= k BY <1>1, <2>1, SmallestExists
  <2>3. CASE i = 0
    <3>1. SubSeq(s, 1, 0) = <<>> /\ <<>> \in Seq(S) OBVIOUS
    <3>2. FlattenSeq(<<>>) = <<>> BY DEF FlattenSeq
    <3> QED BY <2>2, <2>3, <3>1, <3>2
  <2>4. CASE i # 0
    <3>1. i - 1 \in 0..Len(s) /\ i - 1 \notin Bad BY <2>2, <2>4
    <3> DEFINE r == SubSeq(s, 1, i - 1)
    <3>2. FlattenSeq(r) \in Seq(S) /\ r \in Seq(Seq(S)) /\ s[i] \in Seq(S) BY <3>1, <2>4
    <3>3. SubSeq(s, 1, i) = Append(r, s[i]) BY <2>2, <2>4
    <3> HIDE DEF r
    <3> QED BY <2>2, <3>2, <3>3, FlattenAppend
  <2> QED BY <2>3, <2>4
<1>2. SubSeq(s, 1, Len(s)) = s /\ Len(s) \in 0..Len(s) BY SubSeqFull
<1> QED BY <1>1, <1>2
-----------------------------------------------------------------------------
(* Unescape, character by character.                                        *)
ReadRow(f, i, text) ==
  IF i = 0 THEN <<>>
  ELSE IF i > 1 /\ text[i - 1] = BS /\ text[i] = "n" THEN Append(Front(f[i - 1]), NL)
  ELSE Append(f[i - 1], text[i])

Reads(f, text, m) == f = [i \in 0..m |-> ReadRow(f, i, text)]

(* The recursive function behind Unescape exists.                           *)
LEMMA ReadsExists ==
  ASSUME NEW text, NEW limit \in Nat
  PROVE  \E f : Reads(f, text, limit)
<1> DEFINE Bad == {m \in Nat : ~ \E f : Reads(f, text, m)}
<1>1. SUFFICES ASSUME Bad # {} PROVE FALSE OBVIOUS
<1>2. PICK m \in Bad : \A k \in Bad : m <= k BY <1>1, SmallestExists
<1>3. CASE m = 0
  <2> DEFINE h == [i \in 0..0 |-> ReadRow(<<>>, i, text)]
  <2>1. \A i \in 0..0 : ReadRow(<<>>, i, text) = ReadRow(h, i, text) BY DEF ReadRow
  <2>2. Reads(h, text, 0) BY <2>1 DEF Reads
  <2> QED BY <1>2, <1>3, <2>2
<1>4. CASE m # 0
  <2>1. PICK g : Reads(g, text, m - 1) BY <1>2, <1>4
  <2> DEFINE h == [i \in 0..m |-> ReadRow(g, i, text)]
  <2>2. \A i \in 0..(m - 1) : h[i] = g[i] BY <1>2, <2>1 DEF Reads
  <2>3. ASSUME NEW i \in 0..m PROVE ReadRow(g, i, text) = ReadRow(h, i, text)
    <3>1. i = 0 \/ i - 1 \in 0..(m - 1) BY <1>2
    <3> HIDE DEF h
    <3>2. i = 0 \/ h[i - 1] = g[i - 1] BY <2>2, <3>1
    <3> QED BY <3>2, Zenon DEF ReadRow
  <2>4. h = [i \in 0..m |-> ReadRow(h, i, text)] BY <2>3
  <2> HIDE DEF h
  <2>5. Reads(h, text, m) BY <2>4 DEF Reads
  <2> QED BY <1>2, <2>5
<1> QED BY <1>3, <1>4

(* Unescape, character by character.                                        *)
LEMMA UnescapeUnfold ==
  ASSUME NEW S, NEW text \in Seq(S)
  PROVE  \E f : Reads(f, text, Len(text)) /\ Unescape(text) = f[Len(text)]
<1> DEFINE f == CHOOSE f : Reads(f, text, Len(text))
<1>0. Len(text) \in Nat OBVIOUS
<1>1. Reads(f, text, Len(text)) BY <1>0, ReadsExists
<1>2. Unescape(text) = f[Len(text)] BY DEF Unescape, Reads, ReadRow
<1> HIDE DEF f
<1> QED BY <1>1, <1>2

Completes(text, c) == Len(text) > 0 /\ text[Len(text)] = BS /\ c = "n"

(* One character more.                                                      *)
LEMMA UnescapeAppend ==
  ASSUME NEW S, NEW text \in Seq(S), NEW c \in S
  PROVE  Unescape(Append(text, c)) =
           IF Completes(text, c) THEN Append(Front(Unescape(text)), NL)
           ELSE Append(Unescape(text), c)
<1> DEFINE t == Append(text, c)
<1>1. /\ t \in Seq(S) /\ Len(t) = Len(text) + 1 /\ t[Len(t)] = c
      /\ Len(text) \in Nat /\ \A i \in 1..Len(text) : t[i] = text[i]
  OBVIOUS
<1> HIDE DEF t
<1>2. PICK g : Reads(g, t, Len(t)) /\ Unescape(t) = g[Len(t)] BY <1>1, UnescapeUnfold
<1>3. PICK f : Reads(f, text, Len(text)) /\ Unescape(text) = f[Len(text)]
  BY UnescapeUnfold
<1> DEFINE Bad == {i \in 0..Len(text) : f[i] # g[i]}
<1>4. ASSUME Bad # {} PROVE FALSE
  <2>1. Bad \in SUBSET Nat OBVIOUS
  <2>2. PICK i \in Bad : \A k \in Bad : i <= k BY <1>4, <2>1, SmallestExists
  <2>3. i \in 0..Len(text) /\ i \in 0..Len(t) BY <1>1
  <2>4. f[i] = ReadRow(f, i, text) /\ g[i] = ReadRow(g, i, t)
    BY <1>2, <1>3, <2>3 DEF Reads
  <2>5. i = 0 \/ f[i - 1] = g[i - 1]
    <3>1. i = 0 \/ i - 1 \in 0..Len(text) BY <1>1, <2>3
    <3>2. i \in Nat BY <1>1, <2>3
    <3> QED BY <2>2, <3>1, <3>2
  <2>6. i = 0 \/ t[i] = text[i] BY <1>1, <2>3
  <2>7. i > 1 => t[i - 1] = text[i - 1] BY <1>1, <2>3
  <2>8. ReadRow(f, i, text) = ReadRow(g, i, t) BY <2>5, <2>6, <2>7 DEF ReadRow
  <2> QED BY <2>2, <2>4, <2>8
<1>5. Len(text) \in 0..Len(text) /\ Len(t) \in 0..Len(t) BY <1>1
<1>6. g[Len(text)] = Unescape(text) BY <1>3, <1>4, <1>5
<1>7. Unescape(t) = ReadRow(g, Len(t), t) BY <1>2, <1>5 DEF Reads
<1>8. Len(t) # 0 /\ Len(t) - 1 = Len(text) /\ (Len(t) > 1 <=> Len(text) > 0) BY <1>1
<1>9. Len(text) > 0 => t[Len(text)] = text[Len(text)] BY <1>1
<1>10. ReadRow(g, Len(t), t) =
         IF Completes(text, c) THEN Append(Front(g[Len(text)]), NL)
         ELSE Append(g[Len(text)], c)
  BY <1>1, <1>8, <1>9 DEF ReadRow, Completes
<1> QED BY <1>6, <1>7, <1>10 DEF t

(* The empty text is no escape.                                             *)
LEMMA UnescapeEmpty == Unescape(<<>>) = <<>>
<1>1. <<>> \in Seq({}) /\ Len(<<>>) = 0 OBVIOUS
<1>2. PICK f : Reads(f, <<>>, 0) /\ Unescape(<<>>) = f[0] BY <1>1, UnescapeUnfold
<1> QED BY <1>2 DEF Reads, ReadRow

(* A backslash is followed by an "n".                                       *)
Escapes(text) == \E i \in 1..(Len(text) - 1) : text[i] = BS /\ text[i + 1] = "n"

EndsInBackslash(text) == Len(text) > 0 /\ text[Len(text)] = BS

(* Nothing is left to unescape.                                             *)
Unescapes(text, S) ==
  /\ Unescape(text) \in Seq(S)
  /\ Len(text) = 0 => Len(Unescape(text)) = 0
  /\ Len(text) > 0 => Len(Unescape(text)) > 0
  /\ EndsInBackslash(text) <=> EndsInBackslash(Unescape(text))
  /\ ~Escapes(Unescape(text))

(* All but the last element.                                                *)
LEMMA FrontProperties ==
  ASSUME NEW S, NEW u \in Seq(S), Len(u) > 0
  PROVE  /\ Front(u) \in Seq(S) /\ Len(Front(u)) = Len(u) - 1
         /\ \A i \in 1..(Len(u) - 1) : Front(u)[i] = u[i]
<1> DEFINE n == Len(u)
           r == SubSeq(u, 1, n - 1)
<1>1. n \in Nat /\ n > 0 /\ 1 \in Int /\ n - 1 \in Int /\ \A i \in 1..(n - 1) : u[i] \in S
  OBVIOUS
<1>2. Front(u) = r BY Zenon DEF Front
<1>3. /\ r \in Seq(S)
      /\ Len(r) = IF 1 <= n - 1 THEN (n - 1) - 1 + 1 ELSE 0
      /\ \A i \in 1..((n - 1) - 1 + 1) : r[i] = u[1 + i - 1]
  <2> HIDE DEF n
  <2> QED BY <1>1, SubSeqProperties
<1> HIDE DEF n, r
<1>4. Len(r) = n - 1 BY <1>1, <1>3
<1>5. ASSUME NEW i \in 1..(n - 1) PROVE r[i] = u[i]
  <2>1. i \in 1..((n - 1) - 1 + 1) /\ 1 + i - 1 = i BY <1>1
  <2> QED BY <1>3, <2>1
<1> QED BY <1>2, <1>3, <1>4, <1>5 DEF n

(* One character more keeps what Unescapes says.                            *)
LEMMA UnescapesAppend ==
  ASSUME NEW S, NL \in S, NEW text \in Seq(S), NEW c \in S, Unescapes(text, S)
  PROVE  Unescapes(Append(text, c), S)
<1> DEFINE u == Unescape(text)
           t == Append(text, c)
<1>1. /\ u \in Seq(S) /\ Len(u) \in Nat /\ (Len(text) > 0 => Len(u) > 0)
      /\ EndsInBackslash(text) <=> EndsInBackslash(u)
      /\ ~Escapes(u)
  BY DEF Unescapes
<1>2. /\ t \in Seq(S) /\ Len(t) > 0 /\ t[Len(t)] = c OBVIOUS
<1>3. Unescape(t) = IF Completes(text, c) THEN Append(Front(u), NL) ELSE Append(u, c)
  BY UnescapeAppend
<1> HIDE DEF u, t
<1>4. CASE Completes(text, c)
  <2>1. Len(u) > 0 BY <1>1, <1>4 DEF Completes
  <2>2. /\ Front(u) \in Seq(S) /\ Len(Front(u)) = Len(u) - 1
        /\ \A i \in 1..(Len(u) - 1) : Front(u)[i] = u[i]
    BY <1>1, <2>1, FrontProperties
  <2> DEFINE w == Append(Front(u), NL)
  <2>3. /\ w \in Seq(S) /\ Len(w) = Len(u) /\ w[Len(w)] = NL
        /\ \A i \in 1..(Len(u) - 1) : w[i] = u[i]
    BY <1>1, <2>1, <2>2
  <2> HIDE DEF w
  <2>4. NL # BS /\ NL # "n" /\ c # BS BY <1>4 DEF NL, BS, Completes
  <2>5. ~EndsInBackslash(w) /\ ~EndsInBackslash(t)
    BY <1>2, <2>3, <2>4 DEF EndsInBackslash
  <2>6. ASSUME Escapes(w) PROVE FALSE
    <3>1. PICK i \in 1..(Len(w) - 1) : w[i] = BS /\ w[i + 1] = "n"
      BY <2>6 DEF Escapes
    <3>2. i + 1 # Len(w) BY <2>3, <2>4, <3>1
    <3>3. i \in 1..(Len(u) - 1) /\ i + 1 \in 1..(Len(u) - 1) BY <1>1, <2>3, <3>1, <3>2
    <3>4. u[i] = BS /\ u[i + 1] = "n" BY <2>3, <3>1, <3>3
    <3> QED BY <1>1, <3>3, <3>4 DEF Escapes
  <2>7. Unescape(t) = w BY <1>3, <1>4 DEF w
  <2> QED BY <1>1, <1>2, <2>1, <2>3, <2>5, <2>6, <2>7 DEF Unescapes, t
<1>5. CASE ~Completes(text, c)
  <2> DEFINE w == Append(u, c)
  <2>1. /\ w \in Seq(S) /\ Len(w) = Len(u) + 1 /\ w[Len(w)] = c
        /\ \A i \in 1..Len(u) : w[i] = u[i]
    BY <1>1
  <2> HIDE DEF w
  <2>2. EndsInBackslash(t) <=> EndsInBackslash(w)
    BY <1>1, <1>2, <2>1 DEF EndsInBackslash
  <2>3. ASSUME Escapes(w) PROVE FALSE
    <3>1. PICK i \in 1..(Len(w) - 1) : w[i] = BS /\ w[i + 1] = "n"
      BY <2>3 DEF Escapes
    <3>2. i \in 1..Len(u) /\ u[i] = BS BY <1>1, <2>1, <3>1
    <3>3. CASE i = Len(u)
      <4>1. EndsInBackslash(text) BY <1>1, <3>2, <3>3 DEF EndsInBackslash
      <4>2. c = "n" BY <2>1, <3>1, <3>3
      <4> QED BY <1>5, <4>1, <4>2 DEF Completes, EndsInBackslash
    <3>4. CASE i # Len(u)
      <4>1. i \in 1..(Len(u) - 1) /\ u[i + 1] = "n" BY <1>1, <2>1, <3>1, <3>2, <3>4
      <4> QED BY <1>1, <3>2, <4>1 DEF Escapes
    <3> QED BY <3>3, <3>4
  <2>4. Unescape(t) = w BY <1>3, <1>5 DEF w
  <2> QED BY <1>1, <1>2, <2>1, <2>2, <2>3, <2>4 DEF Unescapes, t
<1> QED BY <1>4, <1>5

(* What Unescape returns holds no escape, and ends as its argument does.    *)
LEMMA UnescapesAll ==
  ASSUME NEW S, NL \in S, NEW text \in Seq(S)
  PROVE  Unescapes(text, S)
<1> DEFINE Bad == {i \in 0..Len(text) : ~Unescapes(SubSeq(text, 1, i), S)}
<1>1. ASSUME Bad # {} PROVE FALSE
  <2>1. Bad \in SUBSET Nat OBVIOUS
  <2>2. PICK i \in Bad : \A k \in Bad : i <= k BY <1>1, <2>1, SmallestExists
  <2>3. CASE i = 0
    <3>1. SubSeq(text, 1, 0) = <<>> /\ <<>> \in Seq(S) /\ Len(<<>>) = 0 OBVIOUS
    <3>2. ~EndsInBackslash(<<>>) /\ ~Escapes(<<>>)
      BY <3>1 DEF EndsInBackslash, Escapes
    <3>3. Unescapes(<<>>, S) BY <3>1, <3>2, UnescapeEmpty DEF Unescapes
    <3> QED BY <2>2, <2>3, <3>1, <3>3
  <2>4. CASE i # 0
    <3>1. i - 1 \in 0..Len(text) /\ i - 1 \notin Bad BY <2>2, <2>4
    <3> DEFINE r == SubSeq(text, 1, i - 1)
    <3>2. Unescapes(r, S) /\ r \in Seq(S) /\ text[i] \in S BY <3>1, <2>4
    <3>3. SubSeq(text, 1, i) = Append(r, text[i]) BY <2>2, <2>4
    <3> HIDE DEF r
    <3>4. Unescapes(Append(r, text[i]), S) BY <3>2, UnescapesAppend
    <3> QED BY <2>2, <3>3, <3>4
  <2> QED BY <2>3, <2>4
<1>2. SubSeq(text, 1, Len(text)) = text /\ Len(text) \in 0..Len(text) BY SubSeqFull
<1> QED BY <1>1, <1>2
-----------------------------------------------------------------------------
(* Escape, character by character.                                          *)
Piece(c) == IF c = NL THEN <<BS, "n">> ELSE <<c>>

Pieces(val) == [i \in DOMAIN val |-> Piece(val[i])]

(* A sequence that is longer by its last element.                           *)
LEMMA OneMore ==
  ASSUME NEW S, NEW s \in Seq(S), NEW t \in Seq(S), Len(t) = Len(s) + 1,
         \A i \in 1..Len(s) : t[i] = s[i]
  PROVE  t = Append(s, t[Len(t)])
<1> DEFINE a == Append(s, t[Len(t)])
<1>1. t[Len(t)] \in S OBVIOUS
<1>2. /\ a \in Seq(S) /\ Len(a) = Len(t) /\ a[Len(t)] = t[Len(t)]
      /\ \A i \in 1..Len(s) : a[i] = s[i]
  BY <1>1
<1> HIDE DEF a
<1>3. ASSUME NEW i \in 1..Len(t) PROVE t[i] = a[i] BY <1>2
<1>4. t = a BY <1>2, <1>3, SeqEqual
<1> QED BY <1>4 DEF a

(* An escaped value is over any alphabet that its pieces are over.          *)
LEMMA EscapePieces ==
  ASSUME NEW S, NEW R, BS \in R, "n" \in R, S \subseteq R \cup {NL}, NEW val \in Seq(S)
  PROVE  /\ Escape(val) = FlattenSeq(Pieces(val))
         /\ Pieces(val) \in Seq(Seq(R))
         /\ Escape(val) \in Seq(R)
<1>1. Escape(val) = FlattenSeq(Pieces(val)) BY DEF Escape, Pieces, Piece
<1>2. ASSUME NEW i \in 1..Len(val) PROVE Piece(val[i]) \in Seq(R)
  <2>1. val[i] \in S OBVIOUS
  <2>2. CASE val[i] = NL BY <2>2 DEF Piece
  <2>3. CASE val[i] # NL
    <3>1. val[i] \in R BY <2>1, <2>3
    <3> QED BY <2>3, <3>1 DEF Piece
  <2> QED BY <2>2, <2>3
<1>3. DOMAIN val = 1..Len(val) /\ Len(val) \in Nat OBVIOUS
<1>4. Pieces(val) \in [1..Len(val) -> Seq(R)] BY <1>2, <1>3 DEF Pieces
<1>5. Pieces(val) \in Seq(Seq(R)) BY <1>3, <1>4
<1> QED BY <1>1, <1>5, FlattenType

(* Escape, one character more.                                              *)
LEMMA EscapeAppend ==
  ASSUME NEW S, NEW val \in Seq(S), NEW c \in S
  PROVE  Escape(Append(val, c)) = Escape(val) \o Piece(c)
<1> DEFINE R == S \cup {BS, "n"}
           v == Append(val, c)
<1>1. BS \in R /\ "n" \in R /\ c \in R /\ S \subseteq R \cup {NL} OBVIOUS
<1>2. /\ v \in Seq(S) /\ Len(v) = Len(val) + 1 /\ v[Len(v)] = c /\ Len(val) \in Nat
      /\ \A i \in 1..Len(val) : v[i] = val[i]
      /\ DOMAIN v = 1..Len(v) /\ DOMAIN val = 1..Len(val)
  OBVIOUS
<1> HIDE DEF v, R
<1>3. /\ Escape(val) = FlattenSeq(Pieces(val)) /\ Pieces(val) \in Seq(Seq(R))
      /\ FlattenSeq(Pieces(val)) \in Seq(R)
  BY <1>1, EscapePieces
<1>4. Escape(v) = FlattenSeq(Pieces(v)) /\ Pieces(v) \in Seq(Seq(R))
  BY <1>1, <1>2, EscapePieces
<1>5. /\ Len(Pieces(val)) = Len(val) /\ Len(Pieces(v)) = Len(v)
      /\ \A i \in 1..Len(val) : Pieces(v)[i] = Pieces(val)[i]
      /\ Pieces(v)[Len(v)] = Piece(c)
  BY <1>2, <1>3, <1>4 DEF Pieces
<1>6. Pieces(v) = Append(Pieces(val), Piece(c)) BY <1>2, <1>3, <1>4, <1>5, OneMore
<1>7. Piece(c) \in Seq(R)
  <2>1. <<BS, "n">> \in Seq(R) /\ <<c>> \in Seq(R) BY <1>1
  <2> QED BY <2>1 DEF Piece
<1> QED BY <1>3, <1>4, <1>6, <1>7, FlattenAppend DEF v

(* What is escaped is unescaped, unless the value holds what an escape      *)
(* looks like.                                                              *)
LEMMA EscapeStep ==
  ASSUME NEW S, NEW val \in Seq(S), NEW c \in S, ~Escapes(Append(val, c)),
         Unescape(Escape(val)) = val
  PROVE  Unescape(Escape(Append(val, c))) = Append(val, c)
<1> DEFINE R == S \cup {NL, BS, "n"}
           e == Escape(val)
<1>1. NL \in R /\ BS \in R /\ "n" \in R /\ c \in R /\ S \subseteq R \cup {NL} OBVIOUS
<1> HIDE DEF R
<1>2. e \in Seq(R) BY <1>1, EscapePieces
<1>3. Escape(Append(val, c)) = e \o Piece(c) BY EscapeAppend
<1>4. Unescapes(e, R) BY <1>1, <1>2, UnescapesAll
<1> HIDE DEF e
<1>5. CASE c = NL
  <2>1. e \o Piece(c) = Append(Append(e, BS), "n")
    <3>1. e \o <<BS, "n">> = Append(Append(e, BS), "n") BY <1>1, <1>2
    <3> QED BY <1>5, <3>1 DEF Piece
  <2>2. Append(e, BS) \in Seq(R) /\ Len(Append(e, BS)) > 0
        /\ Append(e, BS)[Len(Append(e, BS))] = BS
    BY <1>1, <1>2
  <2>3. Completes(Append(e, BS), "n") BY <2>2 DEF Completes
  <2>4. ~Completes(e, BS) BY DEF Completes, BS
  <2>5. Unescape(Append(e, BS)) = Append(val, BS)
    BY <1>1, <1>2, <2>4, UnescapeAppend DEF e
  <2>6. Unescape(Append(Append(e, BS), "n")) = Append(Front(Append(val, BS)), NL)
    BY <1>1, <2>2, <2>3, <2>5, UnescapeAppend
  <2>7. Front(Append(val, BS)) = val BY DEF Front
  <2> QED BY <1>3, <1>5, <2>1, <2>6, <2>7
<1>6. CASE c # NL
  <2>1. e \o Piece(c) = Append(e, c)
    <3>1. e \o <<c>> = Append(e, c) BY <1>1, <1>2
    <3> QED BY <1>6, <3>1 DEF Piece
  <2>2. ~Completes(e, c)
    <3>1. ASSUME Completes(e, c) PROVE FALSE
      <4>1. EndsInBackslash(val) /\ c = "n"
        BY <1>4, <3>1 DEF Completes, EndsInBackslash, Unescapes, e
      <4> DEFINE v == Append(val, c)
      <4>2. /\ Len(val) \in 1..(Len(v) - 1) /\ v[Len(val)] = BS
            /\ v[Len(val) + 1] = "n"
        BY <4>1 DEF EndsInBackslash
      <4> QED BY <4>2 DEF Escapes
    <3> QED BY <3>1
  <2> QED BY <1>1, <1>2, <1>3, <2>1, <2>2, UnescapeAppend DEF e
<1> QED BY <1>5, <1>6

(* Unescape undoes Escape where the value itself holds no escape.           *)
LEMMA UnescapeEscape ==
  ASSUME NEW S, NEW val \in Seq(S), ~Escapes(val)
  PROVE  Unescape(Escape(val)) = val
<1> DEFINE Same(i) == Unescape(Escape(SubSeq(val, 1, i))) = SubSeq(val, 1, i)
           Bad == {i \in 0..Len(val) : ~Same(i)}
<1>1. ASSUME Bad # {} PROVE FALSE
  <2>1. Bad \in SUBSET Nat OBVIOUS
  <2>2. PICK i \in Bad : \A k \in Bad : i <= k BY <1>1, <2>1, SmallestExists
  <2>3. CASE i = 0
    <3>1. SubSeq(val, 1, 0) = <<>> OBVIOUS
    <3>2. Pieces(<<>>) = <<>> BY DEF Pieces
    <3>3. Escape(<<>>) = FlattenSeq(<<>>)
      <4>1. <<>> \in Seq({}) OBVIOUS
      <4> DEFINE R == {BS, "n"}
      <4>2. BS \in R /\ "n" \in R /\ {} \subseteq R \cup {NL} OBVIOUS
      <4> HIDE DEF R
      <4> QED BY <3>2, <4>1, <4>2, EscapePieces
    <3>4. FlattenSeq(<<>>) = <<>> BY DEF FlattenSeq
    <3> QED BY <2>2, <2>3, <3>1, <3>3, <3>4, UnescapeEmpty
  <2>4. CASE i # 0
    <3>1. i - 1 \in 0..Len(val) /\ i - 1 \notin Bad BY <2>2, <2>4
    <3> DEFINE r == SubSeq(val, 1, i - 1)
    <3>2. /\ r \in Seq(S) /\ val[i] \in S /\ Len(r) = i - 1
          /\ \A j \in 1..(i - 1) : r[j] = val[j]
      BY <3>1, <2>4
    <3>3. Unescape(Escape(r)) = r BY <3>1
    <3>4. SubSeq(val, 1, i) = Append(r, val[i]) BY <2>2, <2>4
    <3> HIDE DEF r
    <3>5. ~Escapes(Append(r, val[i]))
      <4> DEFINE t == Append(r, val[i])
      <4>1. Len(t) = i /\ \A j \in 1..i : t[j] = val[j] BY <3>1, <3>2
      <4> HIDE DEF t
      <4>2. i \in 1..Len(val) /\ Len(val) \in Nat BY <2>2, <2>4
      <4>3. ~Escapes(t) BY <4>1, <4>2 DEF Escapes
      <4> QED BY <4>3 DEF t
    <3>6. Unescape(Escape(Append(r, val[i]))) = Append(r, val[i])
      BY <3>2, <3>3, <3>5, EscapeStep
    <3> QED BY <2>2, <3>4, <3>6
  <2> QED BY <2>3, <2>4
<1>2. SubSeq(val, 1, Len(val)) = val /\ Len(val) \in 0..Len(val) BY SubSeqFull
<1> QED BY <1>1, <1>2
-----------------------------------------------------------------------------
(* SplitN on what is put together.                                          *)
Before(x, s) == <<x>> \o s

Joined(text, a, sep, b, S) ==
  /\ text = (a \o <<sep>>) \o b
  /\ a \in Seq(S) /\ b \in Seq(S) /\ sep \in S
  /\ \A j \in 1..Len(a) : a[j] # sep

(* SplitN on a part, a separator and the rest.                              *)
LEMMA SplitConcat ==
  ASSUME NEW S, NEW text, NEW a, NEW b, NEW sep, Joined(text, a, sep, b, S),
         NEW limit \in Nat \ {0, 1}
  PROVE  SplitN(text, sep, limit) = Before(a, SplitN(b, sep, limit - 1))
<1> DEFINE p == Len(a) + 1
<1>0. /\ a \in Seq(S) /\ b \in Seq(S) /\ \A j \in 1..Len(a) : a[j] # sep
  BY DEF Joined
<1>1. /\ text \in Seq(S) /\ Len(text) = p + Len(b) /\ p \in 1..Len(text)
      /\ text[p] = sep /\ \A j \in 1..(p - 1) : text[j] = a[j]
      /\ \A j \in 1..Len(b) : text[p + j] = b[j]
      /\ Len(a) \in Nat /\ Len(b) \in Nat
  BY DEF Joined
<1>2. SubSeq(text, 1, p - 1) = a
  <2> DEFINE c == SubSeq(text, 1, p - 1)
  <2>1. c \in Seq(S) /\ Len(c) = Len(a) /\ \A j \in 1..Len(a) : c[j] = text[j]
    BY <1>1
  <2> HIDE DEF c
  <2>2. c = a BY <1>0, <1>1, <2>1, SeqEqual
  <2> QED BY <2>2 DEF c
<1>3. SubSeq(text, p + 1, Len(text)) = b
  <2> DEFINE c == SubSeq(text, p + 1, Len(text))
  <2>1. c \in Seq(S) /\ Len(c) = Len(b) /\ \A j \in 1..Len(b) : c[j] = text[p + j]
    BY <1>1
  <2> HIDE DEF c
  <2>2. c = b BY <1>0, <1>1, <2>1, SeqEqual
  <2> QED BY <2>2 DEF c
<1>4. \A j \in 1..(p - 1) : text[j] # sep BY <1>0, <1>1
<1> HIDE DEF p
<1>5. SplitN(text, sep, limit) =
        <<SubSeq(text, 1, p - 1)>> \o SplitN(SubSeq(text, p + 1, Len(text)), sep, limit - 1)
  BY <1>1, <1>4, SplitCut
<1> QED BY <1>2, <1>3, <1>5, Zenon DEF Before

(* The parts of a text are not empty, and none but the last permitted holds *)
(* a separator.                                                             *)
LEMMA SplitParts ==
  ASSUME NEW S, NEW text \in Seq(S), NEW sep, NEW limit \in Nat \ {0}
  PROVE  /\ SplitN(text, sep, limit) \in Seq(Seq(S))
         /\ Len(SplitN(text, sep, limit)) \in 1..limit
         /\ \A k \in 1..Len(SplitN(text, sep, limit)) :
              k < limit => SplitN(text, sep, limit)[k] \in Seq(S \ {sep})
<1> DEFINE Good(parts, n) ==
             /\ parts \in Seq(Seq(S)) /\ Len(parts) \in 1..n
             /\ \A k \in 1..Len(parts) : k < n => parts[k] \in Seq(S \ {sep})
<1>1. PICK F : /\ SplitN(text, sep, limit) = F[limit][1]
               /\ \A n \in 1..limit : F[n] = Row(F, n, text, sep)
  BY SplitUnfold
<1>2. Len(text) \in Nat OBVIOUS
<1> DEFINE Bad == {n \in 1..limit : ~ \A i \in 1..(Len(text) + 1) : Good(F[n][i], n)}
<1>3. ASSUME Bad # {} PROVE FALSE
  <2>1. Bad \in SUBSET Nat OBVIOUS
  <2>2. PICK n \in Bad : \A k \in Bad : n <= k BY <1>3, <2>1, SmallestExists
  <2>3. PICK i \in 1..(Len(text) + 1) : ~Good(F[n][i], n) BY <2>2
  <2>4. n \in 1..limit /\ F[n] = Row(F, n, text, sep) BY <1>1, <2>2
  <2>5. CASE n = 1 \/ Cuts(text, sep, i) = {}
    <3> DEFINE s == SubSeq(text, i, Len(text))
    <3>1. F[n][i] = <<s>> BY <2>4, <2>5 DEF Row
    <3>2. s \in Seq(S) BY <1>2
    <3>3. n # 1 => s \in Seq(S \ {sep})
      <4>1. ASSUME n # 1, NEW j \in i..Len(text) PROVE text[j] \in S \ {sep}
        BY <2>5, <4>1, <1>2 DEF Cuts
      <4>2. i \in Int /\ Len(text) \in Int BY <1>2
      <4> QED BY <4>1, <4>2, SubSeqProperties
    <3> HIDE DEF s
    <3>4. <<s>> \in Seq(Seq(S)) /\ Len(<<s>>) = 1 /\ <<s>>[1] = s BY <3>2
    <3>5. Good(<<s>>, n) BY <2>4, <3>3, <3>4
    <3> QED BY <2>3, <3>1, <3>5
  <2>6. CASE n # 1 /\ Cuts(text, sep, i) # {}
    <3> DEFINE m == Min(Cuts(text, sep, i))
               s == SubSeq(text, i, m - 1)
               r == F[n - 1][m + 1]
    <3>1. m \in i..Len(text) /\ \A j \in i..(m - 1) : text[j] # sep
      BY <2>6, FirstCut
    <3>2. F[n][i] = <<s>> \o r BY <2>4, <2>6 DEF Row
    <3> HIDE DEF m
    <3>3. s \in Seq(S \ {sep})
      <4>1. ASSUME NEW j \in i..(m - 1) PROVE text[j] \in S \ {sep}
        BY <3>1, <1>2
      <4>2. i \in Int /\ m - 1 \in Int BY <1>2, <3>1
      <4> QED BY <4>1, <4>2, SubSeqProperties
    <3>4. Good(r, n - 1)
      <4>1. n - 1 \in 1..limit /\ n - 1 < n BY <2>4, <2>6
      <4> DEFINE B == Bad
      <4> HIDE DEF B
      <4>2. n - 1 \notin B
        <5>1. \A k \in B : n <= k BY <2>2 DEF B
        <5> QED BY <2>4, <4>1, <5>1
      <4>3. n - 1 \notin Bad BY <4>2 DEF B
      <4>4. m + 1 \in 1..(Len(text) + 1) BY <1>2, <3>1
      <4> QED BY <4>1, <4>3, <4>4
    <3> HIDE DEF r, s
    <3>5. /\ s \in Seq(S) /\ r \in Seq(Seq(S)) /\ Len(r) \in 1..(n - 1)
          /\ \A k \in 1..Len(r) : k < n - 1 => r[k] \in Seq(S \ {sep})
      <4>1. Seq(S \ {sep}) \subseteq Seq(S) BY SeqMonotonic
      <4> QED BY <3>3, <3>4, <4>1
    <3> DEFINE t == <<s>> \o r
    <3>6. /\ t \in Seq(Seq(S)) /\ Len(t) = Len(r) + 1 /\ t[1] = s
          /\ \A k \in 2..Len(t) : t[k] = r[k - 1]
      BY <3>5
    <3> HIDE DEF t
    <3>7. Len(t) \in 1..n BY <2>4, <3>5, <3>6
    <3>8. ASSUME NEW k \in 1..Len(t), k < n PROVE t[k] \in Seq(S \ {sep})
      <4>1. CASE k = 1 BY <3>3, <3>6, <4>1
      <4>2. CASE k # 1
        <5>1. k \in 2..Len(t) /\ k - 1 \in 1..Len(r) /\ k - 1 < n - 1
          BY <2>4, <3>5, <3>6, <3>8, <4>2
        <5> QED BY <3>5, <3>6, <5>1
      <4> QED BY <4>1, <4>2
    <3>9. Good(t, n) BY <3>6, <3>7, <3>8
    <3> QED BY <2>3, <3>2, <3>9 DEF t
  <2> QED BY <2>5, <2>6
<1>4. limit \in 1..limit /\ 1 \in 1..(Len(text) + 1) BY <1>2
<1>5. Good(F[limit][1], limit) BY <1>3, <1>4
<1> QED BY <1>1, <1>5
-----------------------------------------------------------------------------
(* A line, without its end.                                                 *)
Body(entry) ==
  (<<entry.op>> \o <<TAB>>) \o
    ((entry.key \o <<TAB>>) \o ((Escape(entry.val) \o <<TAB>>) \o entry.ttl))

IsText(text, S) == text \in Seq(S)

(* Texts put together, whatever the order.                                  *)
LEMMA Associates ==
  ASSUME NEW S, NEW a, NEW b, NEW c, IsText(a, S), IsText(b, S), IsText(c, S)
  PROVE  (a \o b) \o c = a \o (b \o c) /\ IsText(a \o b, S) /\ IsText(b \o c, S)
BY ConcatAssociative, ConcatProperties DEF IsText

AreTexts(a, b, c, d, e, f, S) ==
  /\ IsText(a, S) /\ IsText(b, S) /\ IsText(c, S)
  /\ IsText(d, S) /\ IsText(e, S) /\ IsText(f, S)

(* Four fields and three separators, from the left or from the right.       *)
LEMMA Regroup ==
  ASSUME NEW S, NEW a, NEW b, NEW c, NEW d, NEW e, NEW f, AreTexts(a, b, c, d, e, f, S)
  PROVE  a \o ((b \o c) \o ((d \o e) \o f)) = ((((a \o b) \o c) \o d) \o e) \o f
<1> DEFINE x == (a \o b) \o c
           y == (d \o e) \o f
<1>0. /\ IsText(a, S) /\ IsText(b, S) /\ IsText(c, S)
      /\ IsText(d, S) /\ IsText(e, S) /\ IsText(f, S)
  BY DEF AreTexts
<1>1. (a \o b) \o c = a \o (b \o c) BY <1>0, Associates
<1>2. IsText(b \o c, S) /\ IsText(a \o b, S) BY <1>0, Associates
<1>3. IsText(d \o e, S) BY <1>0, Associates
<1>4. IsText(x, S) BY <1>0, <1>2, Associates
<1>5. IsText(y, S) BY <1>0, <1>3, Associates
<1> HIDE DEF x
<1>6. (x \o d) \o e = x \o (d \o e) BY <1>0, <1>4, Associates
<1>7. (x \o (d \o e)) \o f = x \o y BY <1>0, <1>3, <1>4, Associates
<1> HIDE DEF y
<1>8. (a \o (b \o c)) \o y = a \o ((b \o c) \o y) BY <1>0, <1>2, <1>5, Associates
<1> QED BY <1>1, <1>6, <1>7, <1>8 DEF x, y

Free(text, c) == \A i \in 1..Len(text) : text[i] # c

(* A text with no character of a kind is one over the others.               *)
LEMMA FreeOver ==
  ASSUME NEW S, NEW text \in Seq(S), NEW c
  PROVE  Free(text, c) <=> text \in Seq(S \ {c})
<1>1. ASSUME Free(text, c) PROVE text \in Seq(S \ {c})
  <2>1. text \in [1..Len(text) -> S \ {c}] /\ Len(text) \in Nat BY <1>1 DEF Free
  <2> QED BY <2>1
<1>2. ASSUME text \in Seq(S \ {c}) PROVE Free(text, c)
  <2>1. \A i \in 1..Len(text) : text[i] \in S \ {c} BY <1>2
  <2> QED BY <2>1 DEF Free
<1> QED BY <1>1, <1>2

(* An escaped value holds a tab only if the value does, and no newline.     *)
LEMMA EscapeFree ==
  ASSUME NEW S, NEW val \in Seq(S)
  PROVE  /\ Escape(val) \in Seq(S \cup {BS, "n"})
         /\ Free(Escape(val), NL)
         /\ Free(val, TAB) => Free(Escape(val), TAB)
<1>1. Escape(val) \in Seq((S \cup {BS, "n"}) \ {NL})
  <2> DEFINE R == (S \cup {BS, "n"}) \ {NL}
  <2>1. BS \in R /\ "n" \in R /\ S \subseteq R \cup {NL} BY DEF BS, NL
  <2> HIDE DEF R
  <2>2. Escape(val) \in Seq(R) BY <2>1, EscapePieces
  <2> QED BY <2>2 DEF R
<1>2. Escape(val) \in Seq(S \cup {BS, "n"})
  <2>1. Seq((S \cup {BS, "n"}) \ {NL}) \subseteq Seq(S \cup {BS, "n"}) BY SeqMonotonic
  <2> QED BY <1>1, <2>1
<1>3. ASSUME Free(val, TAB) PROVE Free(Escape(val), TAB)
  <2>1. val \in Seq(S \ {TAB}) BY <1>3, FreeOver
  <2> DEFINE R == (S \cup {BS, "n"}) \ {TAB}
  <2>2. BS \in R /\ "n" \in R /\ S \ {TAB} \subseteq R \cup {NL} BY DEF BS, TAB
  <2> HIDE DEF R
  <2>3. Escape(val) \in Seq(R) BY <2>1, <2>2, EscapePieces
  <2> QED BY <1>2, <2>3, FreeOver DEF R
<1> QED BY <1>1, <1>2, <1>3, FreeOver

IsEntry(entry, S) ==
  /\ entry.op \in {"set", "delete"}
  /\ entry.key \in Seq(S) /\ entry.val \in Seq(S)
  /\ entry.ttl \in Seq(Digits) /\ Len(entry.ttl) > 0

Chars(S) == S \cup Digits \cup {TAB, NL, BS, "n", "set", "delete"}

(* The characters of a line; it is one line where the key is.               *)
LEMMA BodyType ==
  ASSUME NEW S, NEW entry, IsEntry(entry, S)
  PROVE  /\ Body(entry) \in Seq(Chars(S))
         /\ Line(entry) = Append(Body(entry), NL)
         /\ Free(entry.key, NL) => Free(Body(entry), NL)
<1> DEFINE T == Chars(S)
           esc == Escape(entry.val)
<1>1. /\ <<entry.op>> \in Seq(T) /\ <<TAB>> \in Seq(T) /\ <<NL>> \in Seq(T) /\ NL \in T
      /\ <<entry.op, TAB>> = <<entry.op>> \o <<TAB>>
  BY DEF IsEntry, Chars
<1>2. entry.key \in Seq(T) /\ entry.ttl \in Seq(T) /\ esc \in Seq(T)
  <2>1. S \cup {BS, "n"} \subseteq T /\ Digits \subseteq T /\ S \subseteq T BY DEF Chars
  <2>2. esc \in Seq(S \cup {BS, "n"}) BY EscapeFree DEF IsEntry
  <2> HIDE DEF T, esc
  <2>3. Seq(S \cup {BS, "n"}) \subseteq Seq(T) /\ Seq(Digits) \subseteq Seq(T)
        /\ Seq(S) \subseteq Seq(T)
    BY <2>1, SeqMonotonic
  <2> QED BY <2>2, <2>3 DEF IsEntry
<1> DEFINE key == entry.key
           ttl == entry.ttl
           head == <<entry.op>> \o <<TAB>>
<1>3. Free(esc, NL) BY EscapeFree DEF IsEntry
<1>4. Free(ttl, NL) /\ entry.op # NL /\ TAB # NL BY DEF IsEntry, Free, Digits, NL, TAB
<1>5. Body(entry) = head \o ((key \o <<TAB>>) \o ((esc \o <<TAB>>) \o ttl)) BY DEF Body
<1>6. Line(entry) = (((((head \o key) \o <<TAB>>) \o esc) \o <<TAB>>) \o ttl) \o <<NL>>
  BY <1>1 DEF Line
<1>7. head \in Seq(T) /\ Len(head) = 2 /\ head[1] = entry.op /\ head[2] = TAB BY <1>1
<1> HIDE DEF T, esc, key, ttl, head
<1>8. key \in Seq(T) /\ ttl \in Seq(T) BY <1>2 DEF key, ttl
<1>9. Body(entry) \in Seq(T) BY <1>1, <1>2, <1>5, <1>7, <1>8, ConcatProperties
<1>10. Body(entry) = ((((head \o key) \o <<TAB>>) \o esc) \o <<TAB>>) \o ttl
  <2> DEFINE tab == <<TAB>>
  <2>1. AreTexts(head, key, tab, esc, tab, ttl, T)
    BY <1>1, <1>2, <1>7, <1>8 DEF IsText, AreTexts
  <2> HIDE DEF tab
  <2>2. head \o ((key \o tab) \o ((esc \o tab) \o ttl))
          = ((((head \o key) \o tab) \o esc) \o tab) \o ttl
    BY <2>1, Regroup
  <2> QED BY <1>5, <2>2 DEF tab
<1>11. Line(entry) = Append(Body(entry), NL)
  <2>1. Body(entry) \o <<NL>> = Append(Body(entry), NL) BY <1>1, <1>9, AppendIsConcat
  <2> QED BY <1>6, <1>10, <2>1
<1>12. ASSUME Free(key, NL) PROVE Free(Body(entry), NL)
  <2> DEFINE R == T \ {NL}
  <2>1. key \in Seq(R) /\ ttl \in Seq(R) /\ esc \in Seq(R)
    BY <1>2, <1>3, <1>4, <1>8, <1>12, FreeOver
  <2>2. head \in Seq(R)
    <3>1. Free(head, NL) BY <1>4, <1>7 DEF Free
    <3> QED BY <1>7, <3>1, FreeOver
  <2>3. <<TAB>> \in Seq(R) BY <1>1, <1>4
  <2> HIDE DEF R
  <2>4. Body(entry) \in Seq(R) BY <1>5, <2>1, <2>2, <2>3, ConcatProperties
  <2> QED BY <1>9, <2>4, FreeOver DEF R
<1> QED BY <1>9, <1>11, <1>12 DEF T, key

(* A sequence with one element put before it.                               *)
Follows(t, x, s, S) ==
  /\ t \in Seq(S) /\ Len(t) = Len(s) + 1
  /\ t[1] = x
  /\ \A i \in 1..Len(s) : t[i + 1] = s[i]

(* Before, where its elements are.                                          *)
LEMMA Prepended ==
  ASSUME NEW S, NEW x \in S, NEW s \in Seq(S)
  PROVE  Follows(Before(x, s), x, s, S)
BY DEF Before, Follows

(* The fields of a line whose key and value hold no tab.                    *)
LEMMA BodyFields ==
  ASSUME NEW S, NEW entry, IsEntry(entry, S),
         Free(entry.key, TAB), Free(entry.val, TAB)
  PROVE  /\ Len(Fields(Body(entry))) = 4
         /\ Fields(Body(entry))[1] = <<entry.op>>
         /\ Fields(Body(entry))[2] = entry.key
         /\ Fields(Body(entry))[3] = Escape(entry.val)
         /\ Fields(Body(entry))[4] = entry.ttl
<1> DEFINE T == Chars(S)
           op == <<entry.op>>
           key == entry.key
           esc == Escape(entry.val)
           ttl == entry.ttl
           two == (esc \o <<TAB>>) \o ttl
           one == (key \o <<TAB>>) \o two
<1>1. op \in Seq(T) /\ <<TAB>> \in Seq(T) /\ TAB \in T
  BY DEF IsEntry, Chars
<1>2. key \in Seq(T) /\ ttl \in Seq(T) /\ esc \in Seq(T)
  <2>1. S \cup {BS, "n"} \subseteq T /\ Digits \subseteq T /\ S \subseteq T BY DEF Chars
  <2>2. esc \in Seq(S \cup {BS, "n"}) BY EscapeFree DEF IsEntry
  <2> HIDE DEF T, esc
  <2>3. Seq(S \cup {BS, "n"}) \subseteq Seq(T) /\ Seq(Digits) \subseteq Seq(T)
        /\ Seq(S) \subseteq Seq(T)
    BY <2>1, SeqMonotonic
  <2> QED BY <2>2, <2>3 DEF IsEntry
<1>3. Free(op, TAB) /\ Free(ttl, TAB)
  <2>1. op[1] \in {"set", "delete"} /\ Len(op) = 1 BY DEF IsEntry
  <2>2. ttl \in Seq(Digits) /\ TAB \notin Digits /\ TAB \notin {"set", "delete"}
    BY DEF IsEntry, Digits, TAB
  <2> HIDE DEF op, ttl
  <2>3. \A i \in 1..Len(ttl) : ttl[i] \in Digits BY <2>2
  <2> QED BY <2>1, <2>2, <2>3 DEF Free
<1>4. Free(esc, TAB) /\ Free(key, TAB) BY EscapeFree DEF IsEntry
<1>5. Fields(Body(entry)) = SplitN((op \o <<TAB>>) \o one, TAB, 4) BY DEF Fields, Body
<1> HIDE DEF T, op, key, esc, ttl
<1>6. two \in Seq(T) BY <1>1, <1>2, ConcatProperties
<1> HIDE DEF two
<1>7. one \in Seq(T) BY <1>1, <1>2, <1>6, ConcatProperties
<1> DEFINE zero == (op \o <<TAB>>) \o one
<1> HIDE DEF one, zero
<1>8. /\ 4 \in Nat \ {0, 1} /\ 3 \in Nat \ {0, 1} /\ 2 \in Nat \ {0, 1}
      /\ 4 - 1 = 3 /\ 3 - 1 = 2 /\ 2 - 1 = 1 /\ 1 \in Nat \ {0}
  OBVIOUS
<1>9. /\ \A j \in 1..Len(op) : op[j] # TAB
      /\ \A j \in 1..Len(key) : key[j] # TAB
      /\ \A j \in 1..Len(esc) : esc[j] # TAB
      /\ \A j \in 1..Len(ttl) : ttl[j] # TAB
  BY <1>3, <1>4 DEF Free
<1>10. Joined(zero, op, TAB, one, T) BY <1>1, <1>7, <1>9 DEF Joined, zero
<1>11. Joined(one, key, TAB, two, T) BY <1>1, <1>2, <1>6, <1>9 DEF Joined, one
<1>12. Joined(two, esc, TAB, ttl, T) BY <1>1, <1>2, <1>9 DEF Joined, two
<1>13. SplitN(zero, TAB, 4) = Before(op, SplitN(one, TAB, 4 - 1))
  BY <1>8, <1>10, SplitConcat
<1>14. SplitN(one, TAB, 3) = Before(key, SplitN(two, TAB, 3 - 1))
  BY <1>8, <1>11, SplitConcat
<1>15. SplitN(two, TAB, 2) = Before(esc, SplitN(ttl, TAB, 2 - 1))
  BY <1>8, <1>12, SplitConcat
<1>16. SplitN(ttl, TAB, 1) = <<ttl>> BY <1>2, <1>8, <1>9, SplitNone
<1> DEFINE f1 == <<ttl>>
           f2 == Before(esc, f1)
           f3 == Before(key, f2)
           f4 == Before(op, f3)
<1>17. Fields(Body(entry)) = f4 BY <1>5, <1>8, <1>13, <1>14, <1>15, <1>16 DEF zero
<1>18. f1 \in Seq(Seq(T)) /\ Len(f1) = 1 /\ f1[1] = ttl BY <1>2
<1> HIDE DEF f1
<1>19. Follows(f2, esc, f1, Seq(T)) BY <1>2, <1>18, Prepended
<1> HIDE DEF f2
<1>20. Follows(f3, key, f2, Seq(T))
  <2>1. f2 \in Seq(Seq(T)) BY <1>19 DEF Follows
  <2> QED BY <1>2, <2>1, Prepended
<1> HIDE DEF f3
<1>21. Follows(f4, op, f3, Seq(T))
  <2>1. f3 \in Seq(Seq(T)) BY <1>20 DEF Follows
  <2> QED BY <1>1, <2>1, Prepended
<1> HIDE DEF f4
<1>22. Len(f1) = 1 /\ Len(f2) = 2 /\ Len(f3) = 3 /\ Len(f4) = 4
  BY <1>18, <1>19, <1>20, <1>21 DEF Follows
<1>23. f4[2] = key /\ f4[3] = esc /\ f4[4] = ttl
  <2>1. f2[1 + 1] = ttl BY <1>18, <1>19, <1>22 DEF Follows
  <2>2. f3[1 + 1] = esc /\ f3[2 + 1] = f2[2] BY <1>19, <1>20, <1>22 DEF Follows
  <2>3. f4[1 + 1] = key /\ f4[2 + 1] = f3[2] /\ f4[3 + 1] = f3[3] BY <1>20, <1>21, <1>22 DEF Follows
  <2> QED BY <2>1, <2>2, <2>3
<1> QED BY <1>17, <1>21, <1>22, <1>23 DEF Follows, op, key, esc, ttl

(* An entry whose texts are plain is read back as it was given.             *)
LEMMA LineReadsBack ==
  ASSUME NEW S, NEW entry, IsEntry(entry, S),
         Free(entry.key, TAB), Free(entry.val, TAB), ~Escapes(entry.val),
         \/ entry = SetEntry(entry.key, entry.val, entry.ttl)
         \/ entry = DeleteEntry(entry.key)
  PROVE  ReadLine(Body(entry)) = <<entry>>
<1> DEFINE f == Fields(Body(entry))
<1>1. /\ Len(f) = 4 /\ f[1] = <<entry.op>> /\ f[2] = entry.key
      /\ f[3] = Escape(entry.val) /\ f[4] = entry.ttl
  BY BodyFields
<1> HIDE DEF f
<1>2. Unescape(f[3]) = entry.val BY <1>1, UnescapeEscape DEF IsEntry
<1>3. ParsedTTL(f) = entry.ttl
  <2>1. entry.ttl # <<>> /\ ToSet(entry.ttl) \subseteq Digits BY DEF IsEntry, ToSet
  <2> QED BY <1>1, <2>1 DEF ParsedTTL
<1>4. CASE entry = SetEntry(entry.key, entry.val, entry.ttl)
  <2>1. entry.op = "set" BY <1>4 DEF SetEntry
  <2>2. f[1] = <<"set">> /\ f[1] # <<"delete">> BY <1>1, <2>1
  <2>3. ReadLine(Body(entry)) = <<SetEntry(f[2], Unescape(f[3]), ParsedTTL(f))>>
    BY <1>1, <2>2 DEF ReadLine, f
  <2> QED BY <1>1, <1>2, <1>3, <1>4, <2>3
<1>5. CASE entry = DeleteEntry(entry.key)
  <2>1. entry.op = "delete" BY <1>5 DEF DeleteEntry
  <2>2. f[1] = <<"delete">> BY <1>1, <2>1
  <2>3. ReadLine(Body(entry)) = <<DeleteEntry(f[2])>>
    BY <1>1, <2>2 DEF ReadLine, f
  <2> QED BY <1>1, <1>5, <2>3
<1> QED BY <1>4, <1>5
-----------------------------------------------------------------------------
(* The lines of a text without a newline but at its end.                    *)
LEMMA NoLine ==
  ASSUME NEW S, NEW text \in Seq(S), Free(text, NL)
  PROVE  Front(AllParts(text, NL)) = <<>> /\ Last(AllParts(text, NL)) = text
<1>1. Len(text) + 1 \in Nat \ {0} OBVIOUS
<1>2. AllParts(text, NL) = <<text>> BY <1>1, SplitNone DEF AllParts, Free
<1>3. Front(<<text>>) = <<>> /\ Last(<<text>>) = text BY DEF Front, Last
<1> QED BY <1>2, <1>3

(* A text and a newline are one complete line with nothing behind.          *)
LEMMA OneLine ==
  ASSUME NEW S, NL \in S, NEW text \in Seq(S), Free(text, NL)
  PROVE  /\ Front(AllParts(Append(text, NL), NL)) = <<text>>
         /\ Last(AllParts(Append(text, NL), NL)) = <<>>
<1> DEFINE t == Append(text, NL)
           e == <<>>
           k == Len(t) + 1
<1>1. /\ e \in Seq(S) /\ Len(e) = 0 /\ t = (text \o <<NL>>) \o e
      /\ k \in Nat \ {0, 1} /\ k - 1 \in Nat \ {0}
  OBVIOUS
<1>2. Joined(t, text, NL, e, S) BY <1>1 DEF Joined, Free
<1>3. AllParts(t, NL) = SplitN(t, NL, k) BY DEF AllParts
<1> HIDE DEF t, e, k
<1>4. SplitN(t, NL, k) = Before(text, SplitN(e, NL, k - 1)) BY <1>1, <1>2, SplitConcat
<1>5. SplitN(e, NL, k - 1) = <<e>>
  <2>1. \A j \in 1..Len(e) : e[j] # NL BY <1>1
  <2> QED BY <1>1, <2>1, SplitNone
<1> DEFINE f == <<e>>
           p == Before(text, f)
<1>6. f \in Seq(Seq(S)) /\ Len(f) = 1 /\ f[1] = e BY <1>1
<1>7. AllParts(t, NL) = p BY <1>3, <1>4, <1>5
<1> HIDE DEF f
<1>8. Follows(p, text, f, Seq(S)) BY <1>6, Prepended
<1> HIDE DEF p
<1>9. p \in Seq(Seq(S)) /\ Len(p) = 2 /\ p[1] = text /\ p[2] = e
  <2>1. p \in Seq(Seq(S)) /\ Len(p) = 2 /\ p[1] = text BY <1>6, <1>8 DEF Follows
  <2>2. p[1 + 1] = f[1] BY <1>6, <1>8 DEF Follows
  <2> QED BY <1>6, <2>1, <2>2
<1>10. Last(p) = e BY <1>9, Zenon DEF Last
<1>11. /\ Front(p) \in Seq(Seq(S)) /\ Len(Front(p)) = 1 /\ Front(p)[1] = text
  <2>1. /\ Front(p) \in Seq(Seq(S)) /\ Len(Front(p)) = Len(p) - 1
        /\ \A i \in 1..(Len(p) - 1) : Front(p)[i] = p[i]
    <3>1. p \in Seq(Seq(S)) /\ Len(p) > 0 BY <1>9
    <3> QED BY <3>1, FrontProperties, Zenon
  <2> QED BY <1>9, <2>1
<1>12. Front(p) = <<text>>
  <2> DEFINE q == Front(p)
             r == <<text>>
  <2>1. r \in Seq(Seq(S)) /\ Len(r) = 1 /\ r[1] = text OBVIOUS
  <2> HIDE DEF q, r
  <2>2. \A i \in 1..Len(q) : q[i] = r[i] BY <1>11, <2>1 DEF q
  <2>3. q = r BY <1>11, <2>1, <2>2, SeqEqual DEF q
  <2> QED BY <2>3 DEF q, r
<1> QED BY <1>7, <1>10, <1>12 DEF t, e

(* What Written leaves in the file.                                         *)
LEMMA WrittenPart ==
  ASSUME NEW S, lines \in Seq(Seq(S)), rest \in Seq(S), NEW text \in Seq(S),
         Free(rest, NL), Free(text, NL), Written(text)
  PROVE  lines' = lines /\ rest' = rest \o text /\ Free(rest \o text, NL)
<1> DEFINE t == rest \o text
<1>1. /\ t \in Seq(S) /\ Len(t) = Len(rest) + Len(text)
      /\ \A i \in 1..Len(rest) : t[i] = rest[i]
      /\ \A i \in 1..Len(text) : t[Len(rest) + i] = text[i]
      /\ Len(rest) \in Nat /\ Len(text) \in Nat
  OBVIOUS
<1>2. lines' = lines \o Front(AllParts(t, NL)) /\ rest' = Last(AllParts(t, NL))
  BY DEF Written
<1> HIDE DEF t
<1>3. Free(t, NL)
  <2> SUFFICES ASSUME NEW i \in 1..Len(t) PROVE t[i] # NL BY DEF Free
  <2>1. CASE i \in 1..Len(rest) BY <1>1, <2>1 DEF Free
  <2>2. CASE i \notin 1..Len(rest)
    <3>1. i - Len(rest) \in 1..Len(text) /\ Len(rest) + (i - Len(rest)) = i
      BY <1>1, <2>2
    <3> QED BY <1>1, <3>1 DEF Free
  <2> QED BY <2>1, <2>2
<1>4. lines \o <<>> = lines BY ConcatEmptySeq
<1> QED BY <1>1, <1>2, <1>3, <1>4, NoLine DEF t

(* The same for a text up to its newline: it completes a line.              *)
LEMMA WrittenLine ==
  ASSUME NEW S, NL \in S, lines \in Seq(Seq(S)), rest \in Seq(S), NEW body \in Seq(S),
         Free(rest \o body, NL), Written(Append(body, NL))
  PROVE  lines' = Append(lines, rest \o body) /\ rest' = <<>>
<1> DEFINE t == rest \o body
<1>1. t \in Seq(S) /\ rest \o Append(body, NL) = Append(t, NL) OBVIOUS
<1>2. /\ lines' = lines \o Front(AllParts(Append(t, NL), NL))
      /\ rest' = Last(AllParts(Append(t, NL), NL))
  BY <1>1 DEF Written
<1> HIDE DEF t
<1>3. lines' = lines \o <<t>> /\ rest' = <<>> BY <1>1, <1>2, OneLine DEF t
<1>4. Append(lines, t) = lines \o <<t>> BY <1>1, AppendIsConcat
<1> QED BY <1>3, <1>4 DEF t
-----------------------------------------------------------------------------
(* ReadLines, line by line.                                                 *)
Readings(text) == [i \in DOMAIN text |-> ReadLine(text[i])]

ReadsTo(S, E) == \A line \in Seq(S) : ReadLine(line) \in Seq(E)

(* A line is one entry or none.                                             *)
LEMMA ReadLineOne ==
  ASSUME NEW line
  PROVE  /\ \E E : ReadLine(line) \in Seq(E)
         /\ Len(ReadLine(line)) \in Nat /\ Len(ReadLine(line)) <= 1
<1> DEFINE f == Fields(line)
           d == DeleteEntry(f[2])
           s == SetEntry(f[2], Unescape(f[3]), ParsedTTL(f))
<1>1. /\ <<>> \in Seq({d, s}) /\ Len(<<>>) = 0
      /\ <<d>> \in Seq({d, s}) /\ Len(<<d>>) = 1
      /\ <<s>> \in Seq({d, s}) /\ Len(<<s>>) = 1
  OBVIOUS
<1>2. ReadLine(line) \in {<<>>, <<d>>, <<s>>} BY Zenon DEF ReadLine
<1> HIDE DEF d, s
<1> DEFINE r == ReadLine(line)
<1> HIDE DEF r
<1>3. r \in {<<>>, <<d>>, <<s>>} BY <1>2 DEF r
<1>4. r \in Seq({d, s}) /\ Len(r) \in Nat /\ Len(r) <= 1
  <2>1. CASE r = <<>> BY <1>1, <2>1
  <2>2. CASE r = <<d>> BY <1>1, <2>2
  <2>3. CASE r = <<s>> BY <1>1, <2>3
  <2> QED BY <1>3, <2>1, <2>2, <2>3
<1> QED BY <1>4, Zenon DEF r

(* Lines over an alphabet read as entries of some set.                      *)
LEMMA ReadLineTypes ==
  ASSUME NEW S
  PROVE  \E E : ReadsTo(S, E)
<1> DEFINE E == {ReadLine(line)[1] : line \in Seq(S)}
<1>1. ASSUME NEW line \in Seq(S) PROVE ReadLine(line) \in Seq(E)
  <2> DEFINE r == ReadLine(line)
  <2>1. PICK D : r \in Seq(D) /\ Len(r) \in Nat /\ Len(r) <= 1 BY ReadLineOne
  <2>2. r[1] \in E OBVIOUS
  <2> HIDE DEF E, r
  <2>3. r \in [1..Len(r) -> D] /\ Len(r) \in Nat BY <2>1
  <2>4. \A i \in 1..Len(r) : r[i] \in E BY <2>1, <2>2
  <2>5. r \in [1..Len(r) -> E] BY <2>3, <2>4
  <2> QED BY <2>3, <2>5 DEF r
<1> QED BY <1>1 DEF ReadsTo

(* So do the lines of a file, together.                                     *)
LEMMA ReadingsType ==
  ASSUME NEW S, NEW E, ReadsTo(S, E), NEW text \in Seq(Seq(S))
  PROVE  /\ ReadLines(text) = FlattenSeq(Readings(text))
         /\ Readings(text) \in Seq(Seq(E)) /\ Len(Readings(text)) = Len(text)
         /\ ReadLines(text) \in Seq(E)
<1>1. ReadLines(text) = FlattenSeq(Readings(text)) BY DEF ReadLines, Readings
<1>2. DOMAIN text = 1..Len(text) /\ Len(text) \in Nat OBVIOUS
<1>3. Readings(text) \in [1..Len(text) -> Seq(E)] BY <1>2 DEF Readings, ReadsTo
<1>4. Readings(text) \in Seq(Seq(E))
  <2> DEFINE r == Readings(text)
             V == Seq(E)
             n == Len(text)
  <2>1. n \in Nat /\ r \in [1..n -> V] BY <1>2, <1>3
  <2> HIDE DEF r, V, n
  <2>2. r \in Seq(V) BY <2>1
  <2> QED BY <2>2 DEF r, V
<1>5. Len(Readings(text)) = Len(text) BY <1>2, <1>3, <1>4
<1> QED BY <1>1, <1>4, <1>5, FlattenType

(* One line more.                                                           *)
LEMMA ReadLinesAppend ==
  ASSUME NEW S, NEW E, ReadsTo(S, E), NEW text \in Seq(Seq(S)), NEW line \in Seq(S)
  PROVE  ReadLines(Append(text, line)) = ReadLines(text) \o ReadLine(line)
<1> DEFINE t == Append(text, line)
<1>1. /\ t \in Seq(Seq(S)) /\ Len(t) = Len(text) + 1 /\ t[Len(t)] = line
      /\ \A i \in 1..Len(text) : t[i] = text[i]
      /\ DOMAIN t = 1..Len(t) /\ DOMAIN text = 1..Len(text) /\ Len(text) \in Nat
  OBVIOUS
<1> HIDE DEF t
<1>2. /\ ReadLines(text) = FlattenSeq(Readings(text))
      /\ Readings(text) \in Seq(Seq(E)) /\ Len(Readings(text)) = Len(text)
      /\ ReadLines(text) \in Seq(E)
  BY ReadingsType
<1>3. /\ ReadLines(t) = FlattenSeq(Readings(t))
      /\ Readings(t) \in Seq(Seq(E)) /\ Len(Readings(t)) = Len(t)
  BY <1>1, ReadingsType
<1>4. /\ \A i \in 1..Len(text) : Readings(t)[i] = Readings(text)[i]
      /\ Readings(t)[Len(t)] = ReadLine(line)
  BY <1>1 DEF Readings
<1>5. Readings(t) = Append(Readings(text), ReadLine(line))
  BY <1>1, <1>2, <1>3, <1>4, OneMore
<1>6. ReadLine(line) \in Seq(E) BY DEF ReadsTo
<1>7. FlattenSeq(Append(Readings(text), ReadLine(line)))
        = FlattenSeq(Readings(text)) \o ReadLine(line)
  BY <1>2, <1>6, FlattenAppend
<1> QED BY <1>2, <1>3, <1>5, <1>7 DEF t

(* An empty line reads as no entry.                                         *)
LEMMA ReadNothing == ReadLine(<<>>) = <<>> /\ ReadLines(<<>>) = <<>>
<1>1. Fields(<<>>) = <<<<>>>>
  <2>1. <<>> \in Seq({}) /\ Len(<<>>) = 0 /\ 4 \in Nat \ {0} OBVIOUS
  <2>2. \A j \in 1..Len(<<>>) : <<>>[j] # TAB BY <2>1
  <2> QED BY <2>1, <2>2, SplitNone DEF Fields
<1>2. <<<<>>>>[1] = <<>> /\ <<>> # <<"delete">> /\ <<>> # <<"set">> OBVIOUS
<1>3. ReadLine(<<>>) = <<>> BY <1>1, <1>2 DEF ReadLine
<1>4. Readings(<<>>) = <<>> BY DEF Readings
<1>5. ReadLines(<<>>) = FlattenSeq(<<>>) BY <1>4, Zenon DEF ReadLines, Readings
<1> QED BY <1>3, <1>5 DEF FlattenSeq
-----------------------------------------------------------------------------
(* A character that occurs, by its place.                                   *)
LEMMA OccursOne ==
  ASSUME NEW S, NEW text \in Seq(S), NEW c
  PROVE  Occurs(<<c>>, text) <=> ~Free(text, c)
<1>1. ASSUME Occurs(<<c>>, text) PROVE ~Free(text, c)
  <2>1. PICK i \in 0..(Len(text) - 1) : SubSeq(text, i + 1, i + 1) = <<c>>
    BY <1>1 DEF Occurs
  <2>2. i + 1 \in 1..Len(text) /\ SubSeq(text, i + 1, i + 1)[1] = text[i + 1] OBVIOUS
  <2>3. <<c>>[1] = c OBVIOUS
  <2>4. text[i + 1] = c BY <2>1, <2>2, <2>3, Zenon
  <2> QED BY <2>2, <2>4 DEF Free
<1>2. ASSUME ~Free(text, c) PROVE Occurs(<<c>>, text)
  <2>1. PICK i \in 1..Len(text) : text[i] = c BY <1>2 DEF Free
  <2>2. SubSeq(text, i, i) = <<c>>
    <3> DEFINE a == SubSeq(text, i, i)
               b == <<c>>
    <3>1. a \in Seq(S) /\ Len(a) = 1 /\ a[1] = text[i] OBVIOUS
    <3>2. c \in S BY <2>1
    <3>3. b \in Seq(S) /\ Len(b) = 1 /\ b[1] = c BY <3>2
    <3> HIDE DEF a, b
    <3>4. \A j \in 1..Len(a) : a[j] = b[j] BY <2>1, <3>1, <3>3
    <3>5. a = b BY <3>1, <3>3, <3>4, SeqEqual
    <3> QED BY <3>5 DEF a, b
  <2>3. i - 1 \in 0..(Len(text) - 1) /\ (i - 1) + 1 = i OBVIOUS
  <2> QED BY <2>2, <2>3 DEF Occurs
<1> QED BY <1>1, <1>2

(* A backslash before an n, by its place.                                   *)
LEMMA OccursTwo ==
  ASSUME NEW S, NEW text \in Seq(S)
  PROVE  Occurs(<<BS, "n">>, text) <=> Escapes(text)
<1>1. ASSUME Occurs(<<BS, "n">>, text) PROVE Escapes(text)
  <2>1. PICK i \in 0..(Len(text) - 2) : SubSeq(text, i + 1, i + 2) = <<BS, "n">>
    BY <1>1 DEF Occurs
  <2>2. /\ i + 1 \in 1..(Len(text) - 1)
        /\ SubSeq(text, i + 1, i + 2)[1] = text[i + 1]
        /\ SubSeq(text, i + 1, i + 2)[2] = text[(i + 1) + 1]
    OBVIOUS
  <2>3. <<BS, "n">>[1] = BS /\ <<BS, "n">>[2] = "n" OBVIOUS
  <2>4. text[i + 1] = BS /\ text[(i + 1) + 1] = "n" BY <2>1, <2>2, <2>3, Zenon
  <2> QED BY <2>2, <2>4 DEF Escapes
<1>2. ASSUME Escapes(text) PROVE Occurs(<<BS, "n">>, text)
  <2>1. PICK i \in 1..(Len(text) - 1) : text[i] = BS /\ text[i + 1] = "n"
    BY <1>2 DEF Escapes
  <2>2. SubSeq(text, i, i + 1) = <<BS, "n">>
    <3> DEFINE a == SubSeq(text, i, i + 1)
               b == <<BS, "n">>
    <3>1. a \in Seq(S) /\ Len(a) = 2 /\ a[1] = text[i] /\ a[2] = text[i + 1]
      <4>1. /\ i \in 1..(Len(text) + 1) /\ i + 1 \in (i - 1)..Len(text)
            /\ (i + 1) - i + 1 = 2 /\ i + 1 - 1 = i /\ i + 2 - 1 = i + 1
        OBVIOUS
      <4>2. /\ a \in Seq(S) /\ Len(a) = (i + 1) - i + 1
            /\ \A j \in 1..((i + 1) - i + 1) : a[j] = text[i + j - 1]
        <5> HIDE DEF a
        <5>1. \A k \in i..(i + 1) : text[k] \in S BY <4>1
        <5> QED BY <4>1, <5>1, SubSeqProperties DEF a
      <4> HIDE DEF a
      <4> QED BY <4>1, <4>2
    <3>2. BS \in S /\ "n" \in S BY <2>1
    <3>3. b \in Seq(S) /\ Len(b) = 2 /\ b[1] = BS /\ b[2] = "n" BY <3>2
    <3> HIDE DEF a, b
    <3>4. \A j \in 1..Len(a) : a[j] = b[j] BY <2>1, <3>1, <3>3
    <3>5. a = b BY <3>1, <3>3, <3>4, SeqEqual
    <3> QED BY <3>5 DEF a, b
  <2>3. i - 1 \in 0..(Len(text) - 2) /\ (i - 1) + 1 = i /\ (i - 1) + 2 = i + 1 OBVIOUS
  <2> QED BY <2>2, <2>3 DEF Occurs
<1> QED BY <1>1, <1>2

(* Plain, in terms of characters instead of subsequences.                   *)
LEMMA PlainMeans ==
  ASSUME NEW S, NEW key \in Seq(S), NEW val \in Seq(S)
  PROVE  Plain(key, val) <=>
           Free(key, TAB) /\ Free(key, NL) /\ Free(val, TAB) /\ ~Escapes(val)
BY OccursOne, OccursTwo DEF Plain
-----------------------------------------------------------------------------
(* What the texts of this log are made of.                                  *)
Letters == UNION {ToSet(text) : text \in Keys \cup Values \cup TTLs}

Text == Seq(Chars(Letters))

PlainTexts == \A key \in Keys, val \in Values \cup {<<>>} : Plain(key, val)

(* The file holds lines, and behind them the start of a line at most.       *)
WalTyped ==
  /\ lines \in Seq(Text)
  /\ rest \in Text /\ Free(rest, NL)
  /\ call \in [entry : Entries, ok : BOOLEAN]

(* Every entry is made of such texts.                                       *)
LEMMA EntryTexts ==
  ASSUME NEW entry \in Entries
  PROVE  /\ IsEntry(entry, Letters)
         /\ entry.key \in Keys /\ entry.val \in Values \cup {<<>>}
         /\ \/ entry = SetEntry(entry.key, entry.val, entry.ttl)
            \/ entry = DeleteEntry(entry.key)
<1>1. ASSUME NEW text \in Keys \cup Values \cup TTLs PROVE text \in Seq(Letters)
  <2>1. ToSet(text) \subseteq Letters BY DEF Letters
  <2>2. text \in Seq(ToSet(text)) BY TextAssumption
  <2> QED BY <2>1, <2>2, SeqMonotonic
<1>2. ASSUME NEW ttl \in TTLs PROVE ttl \in Seq(Digits) /\ Len(ttl) > 0
  <2>1. ttl \in Seq(ToSet(ttl)) /\ ToSet(ttl) \subseteq Digits /\ ttl # <<>>
    BY TextAssumption
  <2>2. ttl \in Seq(Digits) BY <2>1, SeqMonotonic
  <2> QED BY <2>1, <2>2
<1>3. Zero \in Seq(Digits) /\ Len(Zero) > 0 /\ <<>> \in Seq(Letters)
  BY DEF Zero, Digits
<1>4. CASE \E key \in Keys, val \in Values, ttl \in TTLs : entry = SetEntry(key, val, ttl)
  <2>1. PICK key \in Keys, val \in Values, ttl \in TTLs : entry = SetEntry(key, val, ttl)
    BY <1>4
  <2>2. entry.op = "set" /\ entry.key = key /\ entry.val = val /\ entry.ttl = ttl
    BY <2>1 DEF SetEntry
  <2> QED BY <1>1, <1>2, <2>1, <2>2 DEF IsEntry
<1>5. CASE \E key \in Keys : entry = DeleteEntry(key)
  <2>1. PICK key \in Keys : entry = DeleteEntry(key) BY <1>5
  <2>2. entry.op = "delete" /\ entry.key = key /\ entry.val = <<>> /\ entry.ttl = Zero
    BY <2>1 DEF DeleteEntry
  <2> QED BY <1>1, <1>3, <2>1, <2>2 DEF IsEntry
<1> QED BY <1>4, <1>5 DEF Entries

(* The line of a plain entry.                                               *)
LEMMA EntryLine ==
  ASSUME PlainTexts, NEW entry \in Entries
  PROVE  /\ Body(entry) \in Text /\ Free(Body(entry), NL)
         /\ Line(entry) = Append(Body(entry), NL)
         /\ ReadLine(Body(entry)) = <<entry>>
<1>1. /\ IsEntry(entry, Letters)
      /\ entry.key \in Keys /\ entry.val \in Values \cup {<<>>}
      /\ \/ entry = SetEntry(entry.key, entry.val, entry.ttl)
         \/ entry = DeleteEntry(entry.key)
  BY EntryTexts
<1>2. entry.key \in Seq(Letters) /\ entry.val \in Seq(Letters) BY <1>1 DEF IsEntry
<1>3. Plain(entry.key, entry.val) BY <1>1 DEF PlainTexts
<1>4. /\ Free(entry.key, TAB) /\ Free(entry.key, NL)
      /\ Free(entry.val, TAB) /\ ~Escapes(entry.val)
  BY <1>2, <1>3, PlainMeans
<1>5. ReadLine(Body(entry)) = <<entry>> BY <1>1, <1>4, LineReadsBack
<1> QED BY <1>1, <1>4, <1>5, BodyType DEF Text

(* An empty file is well formed.                                            *)
LEMMA WalInit == Init => WalTyped
<1> SUFFICES ASSUME Init PROVE WalTyped OBVIOUS
<1>1. PICK key \in Keys : TRUE BY TextAssumption
<1>2. DeleteEntry(key) \in Entries BY DEF Entries
<1>3. (CHOOSE entry \in Entries : TRUE) \in Entries BY <1>2
<1>4. call \in [entry : Entries, ok : BOOLEAN] BY <1>3 DEF Init
<1>5. lines = <<>> /\ rest = <<>> BY DEF Init
<1> QED BY <1>4, <1>5 DEF WalTyped, Text, Free

(* What each call does to the file, where texts are plain.                  *)
LEMMA AppendDoes ==
  ASSUME PlainTexts, WalTyped, NEW entry \in Entries, AppendEntry(entry)
  PROVE  /\ lines' = Append(lines, rest \o Body(entry)) /\ rest' = <<>>
         /\ rest \o Body(entry) \in Text
<1> DEFINE b == Body(entry)
           C == Chars(Letters)
<1>1. b \in Seq(C) /\ Free(b, NL) /\ Written(Append(b, NL))
  BY EntryLine DEF AppendEntry, Text
<1>2. lines \in Seq(Seq(C)) /\ rest \in Seq(C) /\ Free(rest, NL) /\ NL \in C
  BY DEF WalTyped, Text, Chars
<1> HIDE DEF b, C
<1>3. rest \o b \in Seq(C) BY <1>1, <1>2, ConcatProperties
<1>4. Free(rest \o b, NL)
  <2>1. rest \in Seq(C \ {NL}) /\ b \in Seq(C \ {NL}) BY <1>1, <1>2, FreeOver
  <2>2. rest \o b \in Seq(C \ {NL}) BY <2>1, ConcatProperties
  <2> QED BY <1>3, <2>2, FreeOver
<1>5. lines' = Append(lines, rest \o b) /\ rest' = <<>> BY <1>1, <1>2, <1>4, WrittenLine
<1> QED BY <1>3, <1>5 DEF b, C, Text

(* A failed append completes no line and changes nothing after an error.    *)
LEMMA FailDoes ==
  ASSUME PlainTexts, WalTyped, NEW entry \in Entries, AppendFails(entry)
  PROVE  /\ lines' = lines /\ rest' \in Text /\ Free(rest', NL)
         /\ broken => rest' = rest
<1>1. CASE broken BY <1>1 DEF AppendFails, WalTyped
<1>2. CASE ~broken
  <2> DEFINE b == Body(entry)
             C == Chars(Letters)
             t == Append(b, NL)
  <2>1. b \in Seq(C) /\ Free(b, NL) /\ Line(entry) = t
    BY EntryLine DEF Text
  <2>2. lines \in Seq(Seq(C)) /\ rest \in Seq(C) /\ Free(rest, NL) /\ NL \in C
    BY DEF WalTyped, Text, Chars
  <2>3. PICK i \in 0..(Len(t) - 1) : Written(SubSeq(t, 1, i))
    BY <1>2, <2>1 DEF AppendFails
  <2> DEFINE part == SubSeq(t, 1, i)
  <2> HIDE DEF b, C
  <2>4. /\ part \in Seq(C) /\ Len(part) = i
        /\ \A j \in 1..i : part[j] = b[j] /\ j \in 1..Len(b)
    BY <2>1, <2>2
  <2>5. Free(part, NL) BY <2>1, <2>4 DEF Free
  <2> HIDE DEF part
  <2>6. lines' = lines /\ rest' = rest \o part /\ Free(rest \o part, NL)
    BY <2>2, <2>3, <2>4, <2>5, WrittenPart DEF part
  <2>7. rest \o part \in Seq(C) BY <2>2, <2>4, ConcatProperties
  <2> QED BY <1>2, <2>6, <2>7 DEF C, Text
<1> QED BY <1>1, <1>2

(* Every step keeps the file well formed.                                   *)
LEMMA WalStep == PlainTexts /\ WalTyped /\ [Next]_vars => WalTyped'
<1> SUFFICES ASSUME PlainTexts, WalTyped, [Next]_vars PROVE WalTyped' OBVIOUS
<1>1. ASSUME NEW entry \in Entries, AppendEntry(entry) PROVE WalTyped'
  <2>1. /\ lines' = Append(lines, rest \o Body(entry)) /\ rest' = <<>>
        /\ rest \o Body(entry) \in Text
    BY <1>1, AppendDoes
  <2>2. call' \in [entry : Entries, ok : BOOLEAN] BY <1>1 DEF AppendEntry
  <2>3. rest' \in Text /\ Free(rest', NL) BY <2>1 DEF Text, Free
  <2>4. lines' \in Seq(Text) BY <2>1, AppendProperties DEF WalTyped
  <2> QED BY <2>2, <2>3, <2>4 DEF WalTyped
<1>2. ASSUME NEW entry \in Entries, AppendFails(entry) PROVE WalTyped'
  <2>1. call' \in [entry : Entries, ok : BOOLEAN] BY <1>2 DEF AppendFails
  <2> QED BY <1>2, <2>1, FailDoes DEF WalTyped
<1>3. CASE Reopen \/ UNCHANGED vars BY <1>3 DEF Reopen, vars, WalTyped
<1> QED BY <1>1, <1>2, <1>3 DEF Next
-----------------------------------------------------------------------------
(* An empty file is an empty log.                                           *)
LEMMA LogInit == Init => AbstractLog!Init
<1> SUFFICES ASSUME Init PROVE AbstractLog!Init OBVIOUS
<1>1. PICK key \in Keys : TRUE BY TextAssumption
<1>2. DeleteEntry(key) \in Entries BY DEF Entries
<1>3. (CHOOSE entry \in Entries : TRUE) \in Entries BY <1>2
<1>4. call \in [entry : Entries, ok : {TRUE}] BY <1>3 DEF Init
<1>5. lines = <<>> /\ rest = <<>> /\ ~broken BY DEF Init
<1> QED BY <1>4, <1>5, ReadNothing DEF AbstractLog!Init

(* An append that succeeds adds its entry to a clean end, and makes one     *)
(* entry at most of a ragged one.                                           *)
LEMMA AppendLogs ==
  ASSUME PlainTexts, WalTyped, NEW entry \in Entries, AppendEntry(entry)
  PROVE  AbstractLog!LogEntry \/ AbstractLog!LogOntoRagged
<1> DEFINE C == Chars(Letters)
           sure == ReadLines(lines)
           line == rest \o Body(entry)
           read == ReadLine(line)
<1>1. lines' = Append(lines, line) /\ rest' = <<>> /\ line \in Seq(C)
  BY AppendDoes DEF Text
<1>2. lines \in Seq(Seq(C)) BY DEF WalTyped, Text
<1>3. PICK F : ReadsTo(C, F) BY ReadLineTypes
<1>4. call'.ok /\ call'.entry = entry /\ ~broken /\ broken' = broken
  BY DEF AppendEntry
<1>5. ReadLine(<<>>) = <<>> BY ReadNothing
<1> HIDE DEF C
<1>6. ReadLines(lines') = sure \o read BY <1>1, <1>2, <1>3, ReadLinesAppend
<1>7. sure \in Seq(F) /\ read \in Seq(F) BY <1>1, <1>2, <1>3, ReadingsType DEF ReadsTo
<1>8. CASE rest = <<>>
  <2>1. line = Body(entry)
    <3>1. Body(entry) \in Seq(C) BY EntryLine DEF Text, C
    <3> QED BY <1>8, <3>1, ConcatEmptySeq
  <2>2. read = <<entry>> BY <2>1, EntryLine
  <2>3. <<entry>> \in Seq(F) BY <1>7, <2>2
  <2>4. entry \in F BY <2>3
  <2>5. ReadLines(lines') = Append(sure, entry)
    BY <1>6, <1>7, <2>2, <2>4, AppendIsConcat
  <2>6. ReadLine(rest') = ReadLine(rest) /\ (rest' # <<>>) = (rest # <<>>)
    BY <1>1, <1>8
  <2> QED BY <1>4, <1>8, <2>5, <2>6 DEF AbstractLog!LogEntry
<1>9. CASE rest # <<>>
  <2> DEFINE longer == sure \o read
  <2>1. Len(read) \in Nat /\ Len(read) <= 1 BY ReadLineOne
  <2> HIDE DEF sure, read
  <2>2. /\ longer \in Seq(F) /\ Len(longer) = Len(sure) + Len(read) /\ Len(sure) \in Nat
        /\ \A i \in 1..Len(sure) : longer[i] = sure[i]
    BY <1>7
  <2> HIDE DEF longer
  <2>3. Len(sure) <= Len(longer) /\ Len(longer) <= Len(sure) + 1 BY <2>1, <2>2
  <2>4. SubSeq(longer, 1, Len(sure)) = sure
    <3> DEFINE a == SubSeq(longer, 1, Len(sure))
    <3>1. a \in Seq(F) /\ Len(a) = Len(sure) /\ \A i \in 1..Len(sure) : a[i] = longer[i]
      BY <2>2, <2>3
    <3> HIDE DEF a
    <3>2. a = sure BY <1>7, <2>2, <3>1, SeqEqual
    <3> QED BY <3>2 DEF a
  <2>5. SubSeq(sure, 1, Len(sure)) = sure BY <1>7, SubSeqFull
  <2>6. IsPrefix(sure, longer) BY <2>3, <2>4, <2>5 DEF IsPrefix
  <2>7. ReadLines(lines') = longer BY <1>6 DEF longer, sure, read
  <2>8. IsPrefix(sure, ReadLines(lines')) /\ Len(ReadLines(lines')) <= Len(sure) + 1
    BY <2>3, <2>6, <2>7
  <2>9. AbstractLog!IsPrefix(ReadLines(lines), ReadLines(lines'))
        /\ Len(ReadLines(lines')) <= Len(ReadLines(lines)) + 1
    BY <2>8, Zenon DEF sure, IsPrefix, AbstractLog!IsPrefix
  <2>10. ReadLine(rest') = <<>> /\ (rest' # <<>>) = FALSE BY <1>1, <1>5
  <2>11. (rest' # <<>>) = FALSE BY <2>10
  <2> QED BY <1>4, <1>9, <2>9, <2>10, <2>11 DEF AbstractLog!LogOntoRagged
<1> QED BY <1>8, <1>9

(* A failed one leaves a doubtful end behind, unless there is one already.  *)
LEMMA FailLogs ==
  ASSUME PlainTexts, WalTyped, NEW entry \in Entries, AppendFails(entry)
  PROVE  AbstractLog!LogFails
<1>1. lines' = lines /\ (broken => rest' = rest) BY FailDoes
<1>2. ~call'.ok /\ broken' = TRUE BY DEF AppendFails
<1>3. Len(ReadLine(rest')) <= 1 BY ReadLineOne
<1>4. ReadLine(rest') # <<>> => rest' # <<>> BY ReadNothing
<1>5. broken => ReadLine(rest') = ReadLine(rest) /\ (rest' # <<>>) = (rest # <<>>)
  BY <1>1
<1> QED BY <1>1, <1>2, <1>3, <1>4, <1>5 DEF AbstractLog!LogFails

(* Every step of the file is one of the log, or none.                       *)
LEMMA LogStep ==
  PlainTexts /\ WalTyped /\ WalTyped' /\ [Next]_vars =>
    [AbstractLog!Next]_(AbstractLog!vars)
<1> SUFFICES ASSUME PlainTexts, WalTyped, WalTyped', [Next]_vars
             PROVE  [AbstractLog!Next]_(AbstractLog!vars)
  OBVIOUS
<1>0. call' \in [entry : Entries, ok : BOOLEAN] BY DEF WalTyped
<1>1. ASSUME NEW entry \in Entries, AppendEntry(entry) PROVE AbstractLog!Next
  BY <1>0, <1>1, AppendLogs DEF AbstractLog!Next
<1>2. ASSUME NEW entry \in Entries, AppendFails(entry) PROVE AbstractLog!Next
  BY <1>0, <1>2, FailLogs DEF AbstractLog!Next
<1>3. CASE Reopen
  <2>1. AbstractLog!Reopen BY <1>3 DEF Reopen, AbstractLog!Reopen
  <2> QED BY <1>0, <2>1 DEF AbstractLog!Next
<1>4. CASE UNCHANGED vars BY <1>4 DEF vars, AbstractLog!vars
<1> QED BY <1>1, <1>2, <1>3, <1>4 DEF Next

(* pkg/wal/wal.go keeps what the cache takes its log for, as long as keys   *)
(* and values are such that an entry is one line of four fields: whatever   *)
(* appends fail at whatever character, entries are read back as given, in   *)
(* order, and a torn end costs one entry at most.  ImplementsEntryLog.      *)
THEOREM EntryLogKept ==
  ASSUME \A key \in Keys, val \in Values \cup {<<>>} : Plain(key, val)
  PROVE  Spec => ImplementsEntryLog
<1>1. PlainTexts BY DEF PlainTexts
<1>2. Spec => []WalTyped BY <1>1, WalInit, WalStep, PTL DEF Spec
<1> QED BY <1>1, <1>2, LogInit, LogStep, PTL
      DEF Spec, ImplementsEntryLog, AbstractLog!Spec
-----------------------------------------------------------------------------
(* What lines can read as: no key with a tab or a newline, no value with a  *)
(* tab or what Unescape takes for a newline.                                *)
PlainVals(S) == {val \in Seq(S \ {TAB}) : ~Escapes(val)}

PlainKeys(S) == Seq((S \ {NL}) \ {TAB})

PlainTTLs(S) == Seq(S \ {NL}) \cup {Zero}

PlainOnes(S) ==
  {SetEntry(key, val, ttl) : key \in PlainKeys(S), val \in PlainVals(S), ttl \in PlainTTLs(S)}
    \cup {DeleteEntry(key) : key \in PlainKeys(S)}

(* Every line, whatever wrote it, reads as plain entries only.              *)
LEMMA ReadsPlain ==
  ASSUME NEW S, NL \in S
  PROVE  ReadsTo(S \ {NL}, PlainOnes(S))
<1> DEFINE R == S \ {NL}
<1> SUFFICES ASSUME NEW line \in Seq(R) PROVE ReadLine(line) \in Seq(PlainOnes(S))
  BY DEF ReadsTo
<1> DEFINE f == Fields(line)
           d == DeleteEntry(f[2])
           s == SetEntry(f[2], Unescape(f[3]), ParsedTTL(f))
<1> HIDE DEF R
<1>1. /\ f \in Seq(Seq(R)) /\ Len(f) \in 1..4
      /\ \A k \in 1..Len(f) : k < 4 => f[k] \in Seq(R \ {TAB})
  <2>1. 4 \in Nat \ {0} OBVIOUS
  <2> QED BY <2>1, SplitParts DEF Fields
<1> HIDE DEF f
<1>2. ASSUME Len(f) >= 2 PROVE f[2] \in PlainKeys(S) BY <1>1, <1>2 DEF PlainKeys, R
<1>3. ASSUME Len(f) >= 3 PROVE Unescape(f[3]) \in PlainVals(S)
  <2>1. f[3] \in Seq(R \ {TAB}) BY <1>1, <1>3
  <2>2. R \ {TAB} \subseteq S \ {TAB} /\ NL \in S \ {TAB} BY DEF R, TAB, NL
  <2>3. f[3] \in Seq(S \ {TAB}) BY <2>1, <2>2, SeqMonotonic
  <2>4. Unescapes(f[3], S \ {TAB}) BY <2>2, <2>3, UnescapesAll
  <2> QED BY <2>4 DEF Unescapes, PlainVals
<1>4. ParsedTTL(f) \in PlainTTLs(S)
  <2>1. ASSUME Len(f) = 4 PROVE f[4] \in Seq(R)
    <3>1. 4 \in 1..Len(f) BY <2>1
    <3> QED BY <1>1, <3>1, ElementOfSeq
  <2> QED BY <2>1, Zenon DEF ParsedTTL, PlainTTLs, R
<1>5. ASSUME Len(f) >= 2 PROVE <<d>> \in Seq(PlainOnes(S))
  <2>1. d \in PlainOnes(S) BY <1>2, <1>5 DEF PlainOnes
  <2> QED BY <2>1
<1>6. ASSUME Len(f) >= 3 PROVE <<s>> \in Seq(PlainOnes(S))
  <2>1. Len(f) >= 2 BY <1>1, <1>6
  <2>2. s \in PlainOnes(S) BY <1>2, <1>3, <1>4, <1>6, <2>1 DEF PlainOnes
  <2> QED BY <2>2
<1>7. <<>> \in Seq(PlainOnes(S)) OBVIOUS
<1> QED BY <1>5, <1>6, <1>7, Zenon DEF ReadLine, f, d, s

(* The complete lines of a text hold no newline.                            *)
LEMMA LinesFree ==
  ASSUME NEW S, NEW text \in Seq(S)
  PROVE  Front(AllParts(text, NL)) \in Seq(Seq(S \ {NL}))
<1> DEFINE parts == AllParts(text, NL)
           front == Front(parts)
           R == Seq(S \ {NL})
           V == Seq(S)
<1>1. Len(text) + 1 \in Nat \ {0} OBVIOUS
<1>2. /\ parts \in Seq(V) /\ Len(parts) \in 1..(Len(text) + 1)
      /\ \A k \in 1..Len(parts) : k < Len(text) + 1 => parts[k] \in R
  BY <1>1, SplitParts DEF AllParts
<1> HIDE DEF parts, R, V
<1>3. /\ front \in Seq(V) /\ Len(front) = Len(parts) - 1
      /\ \A i \in 1..(Len(parts) - 1) : front[i] = parts[i]
  <2>1. parts \in Seq(V) /\ Len(parts) > 0 BY <1>2
  <2> QED BY <2>1, FrontProperties
<1> HIDE DEF front
<1>4. \A i \in 1..Len(front) : front[i] \in R BY <1>1, <1>2, <1>3
<1>5. front \in [1..Len(front) -> R] /\ Len(front) \in Nat BY <1>3, <1>4
<1>6. front \in Seq(R) BY <1>5
<1> QED BY <1>6 DEF front, parts, R

(* Which calls the promise holds for, over texts of any length and any      *)
(* characters: the line of a Set reads back as that Set and nothing else    *)
(* exactly when its key and value are plain (pkg/wal/wal.go:47).            *)
THEOREM ReadsBackExactly ==
  ASSUME NEW S, NEW key \in Seq(S), NEW val \in Seq(S)
  PROVE  LET set == SetEntry(key, val, Zero)
         IN ReadLines(Front(AllParts(Line(set), NL))) = <<set>> <=> Plain(key, val)
<1> DEFINE set == SetEntry(key, val, Zero)
           T == Chars(S)
           body == Body(set)
<1>1. /\ set.op = "set" /\ set.key = key /\ set.val = val /\ set.ttl = Zero
      /\ set = SetEntry(set.key, set.val, set.ttl)
  BY DEF SetEntry
<1> HIDE DEF set
<1>2. IsEntry(set, S) BY <1>1 DEF IsEntry, Zero, Digits
<1>3. /\ body \in Seq(T) /\ Line(set) = Append(body, NL)
      /\ Free(key, NL) => Free(body, NL)
  BY <1>1, <1>2, BodyType
<1>4. NL \in T /\ S \subseteq T BY DEF Chars
<1> HIDE DEF T, body
<1>5. ASSUME Plain(key, val)
      PROVE  ReadLines(Front(AllParts(Line(set), NL))) = <<set>>
  <2>1. Free(key, TAB) /\ Free(key, NL) /\ Free(val, TAB) /\ ~Escapes(val)
    BY <1>5, PlainMeans
  <2>2. Front(AllParts(Line(set), NL)) = <<body>> BY <1>3, <1>4, <2>1, OneLine
  <2>3. ReadLine(body) = <<set>> BY <1>1, <1>2, <2>1, LineReadsBack DEF body
  <2>4. PICK F : ReadsTo(T, F) BY ReadLineTypes
  <2>5. <<>> \in Seq(Seq(T)) /\ <<body>> = Append(<<>>, body) OBVIOUS
  <2>6. ReadLines(<<body>>) = ReadLines(<<>>) \o ReadLine(body)
    BY <1>3, <2>4, <2>5, ReadLinesAppend
  <2>7. <<>> \o <<set>> = <<set>> OBVIOUS
  <2> QED BY <2>2, <2>3, <2>6, <2>7, ReadNothing
<1>6. ASSUME ReadLines(Front(AllParts(Line(set), NL))) = <<set>>
      PROVE  Plain(key, val)
  <2>1. Line(set) \in Seq(T) BY <1>3, <1>4
  <2>2. <<set>> \in Seq(PlainOnes(T))
    <3>1. Front(AllParts(Line(set), NL)) \in Seq(Seq(T \ {NL})) BY <2>1, LinesFree
    <3>2. ReadsTo(T \ {NL}, PlainOnes(T)) BY <1>4, ReadsPlain
    <3> QED BY <1>6, <3>1, <3>2, ReadingsType
  <2>3. set \in PlainOnes(T) BY <2>2
  <2>4. \A k : set # DeleteEntry(k) BY <1>1 DEF DeleteEntry
  <2>5. PICK k \in PlainKeys(T), v \in PlainVals(T), ttl \in PlainTTLs(T) :
          set = SetEntry(k, v, ttl)
    BY <2>3, <2>4 DEF PlainOnes
  <2>6. key = k /\ val = v BY <1>1, <2>5 DEF SetEntry
  <2>7. \A i \in 1..Len(key) : key[i] \in (T \ {NL}) \ {TAB} BY <2>6 DEF PlainKeys
  <2>8. val \in Seq(T \ {TAB}) /\ ~Escapes(val) BY <2>6 DEF PlainVals
  <2>9. \A i \in 1..Len(val) : val[i] \in T \ {TAB} BY <2>8
  <2>10. Free(key, TAB) /\ Free(key, NL) /\ Free(val, TAB) BY <2>7, <2>9 DEF Free
  <2> QED BY <2>8, <2>10, PlainMeans
<1> QED BY <1>5, <1>6 DEF set

(* So for every file, and for the short keys and values of the critical     *)
(* characters that the run enumerates.  ExactWhenPlain.                     *)
THEOREM ExactForPlainOnly == Spec => []ExactWhenPlain
<1>1. ExactWhenPlain
  <2> DEFINE C == {TAB, NL, BS, "n"}
  <2>1. ASSUME NEW n \in Nat PROVE Texts(n) \subseteq Seq(C)
    <3> SUFFICES ASSUME NEW text \in Texts(n) PROVE text \in Seq(C) OBVIOUS
    <3>1. PICK m \in 0..n : text \in [1..m -> C] BY DEF Texts
    <3> HIDE DEF C
    <3> QED BY <3>1
  <2>2. Texts(2) \subseteq Seq(C) /\ Texts(3) \subseteq Seq(C)
    <3>1. 2 \in Nat /\ 3 \in Nat OBVIOUS
    <3> QED BY <2>1, <3>1
  <2> HIDE DEF C
  <2>3. SUFFICES ASSUME lines = <<>>, rest = <<>>, NEW key \in Texts(2), NEW val \in Texts(3)
                 PROVE  LET set == SetEntry(key, val, Zero)
                        IN ReadLines(Front(AllParts(rest \o Line(set), NL))) = <<set>>
                             <=> Plain(key, val)
    BY Zenon DEF ExactWhenPlain
  <2> DEFINE set == SetEntry(key, val, Zero)
  <2>4. key \in Seq(C) /\ val \in Seq(C) BY <2>2
  <2>5. rest \o Line(set) = Line(set)
    <3>1. IsEntry(set, C) BY <2>4 DEF IsEntry, SetEntry, Zero, Digits
    <3>2. Body(set) \in Seq(Chars(C)) /\ Line(set) = Append(Body(set), NL) /\ NL \in Chars(C)
      BY <3>1, BodyType DEF Chars
    <3> HIDE DEF set
    <3>3. Line(set) \in Seq(Chars(C)) BY <3>2
    <3> QED BY <2>3, <3>3, ConcatEmptySeq
  <2>6. ReadLines(Front(AllParts(Line(set), NL))) = <<set>> <=> Plain(key, val)
    BY <2>4, ReadsBackExactly
  <2> QED BY <2>5, <2>6, Zenon
<1> QED BY <1>1, PTL
=============================================================================
