-------------------------- MODULE DirectoryProofs ---------------------------
(***************************************************************************)
(* Theorems of module Directory, for every value of its constants: the     *)
(* entries of a directory fit, a walk ends where it should, and names keep *)
(* leading to their files.                                                 *)
(*                                                                         *)
(* Offset is a recursive function of a sequence: the lemmas about offsets  *)
(* show first that it exists and is the only one of its kind.              *)
(***************************************************************************)
EXTENDS Directory, Basics, TLAPS

Lengths == [name : Name \cup {Dot, DotDot}, ino : Inode \cup {Self, Parent}, rec_len : Nat]

-----------------------------------------------------------------------------
(* Offsets.                                                                *)

IsOffset(f, c) ==
    f = [i \in 1 .. Len(c) + 1 |-> IF i = 1 THEN 0 ELSE f[i - 1] + c[i - 1].rec_len]

(* The first n offsets of a chain.                                         *)
Begins(f, c, n) ==
    /\ f \in [1 .. n -> Nat]
    /\ \A i \in 1 .. n : f[i] = IF i = 1 THEN 0 ELSE f[i - 1] + c[i - 1].rec_len

LEMMA BeginsOne == \A c : \E f : Begins(f, c, 1)
<1> SUFFICES ASSUME NEW c PROVE \E f : Begins(f, c, 1)
  OBVIOUS
<1> DEFINE f == [i \in 1 .. 1 |-> 0]
<1>1. Begins(f, c, 1)
  BY DEF Begins
<1> QED
  BY <1>1

LEMMA BeginsNext ==
    ASSUME NEW c \in Seq(Lengths), NEW n \in 1 .. Len(c), NEW f, Begins(f, c, n)
    PROVE  \E g : Begins(g, c, n + 1)
<1> DEFINE g == [i \in 1 .. n + 1 |-> IF i = n + 1 THEN f[n] + c[n].rec_len ELSE f[i]]
<1>1. Len(c) \in Nat /\ c[n].rec_len \in Nat /\ f[n] \in Nat
  <2>1. Len(c) \in Nat
    BY LenProperties
  <2>2. c[n] \in Lengths
    BY ElementOfSeq
  <2>3. f[n] \in Nat
    BY DEF Begins
  <2> QED
    BY <2>1, <2>2, <2>3 DEF Lengths
<1>2. f[n] + c[n].rec_len \in Nat /\ \A i \in 1 .. n : f[i] \in Nat
  BY <1>1 DEF Begins
<1>3. g \in [1 .. n + 1 -> Nat]
  BY <1>1, <1>2
<1>4. ASSUME NEW i \in 1 .. n + 1
      PROVE  g[i] = IF i = 1 THEN 0 ELSE g[i - 1] + c[i - 1].rec_len
  <2>1. CASE i = n + 1
    BY <1>1, <2>1
  <2>2. CASE i # n + 1
    <3>1. i \in 1 .. n /\ (i # 1 => i - 1 \in 1 .. n)
      BY <1>1, <2>2
    <3>2. g[i] = f[i] /\ (i # 1 => g[i - 1] = f[i - 1])
      BY <1>1, <2>2, <3>1
    <3>3. f[i] = IF i = 1 THEN 0 ELSE f[i - 1] + c[i - 1].rec_len
      BY <3>1 DEF Begins
    <3> QED
      BY <3>2, <3>3
  <2> QED
    BY <2>1, <2>2
<1>5. Begins(g, c, n + 1)
  BY <1>3, <1>4 DEF Begins
<1> QED
  BY <1>5

LEMMA OffsetExists ==
    ASSUME NEW c \in Seq(Lengths)
    PROVE  \E f : IsOffset(f, c) /\ f \in [1 .. Len(c) + 1 -> Nat]
<1> DEFINE S == {n \in 1 .. Len(c) + 1 : ~ \E f : Begins(f, c, n)}
<1>0. Len(c) \in Nat
  BY LenProperties
<1>1. S = {}
  <2> SUFFICES ASSUME S # {} PROVE FALSE
    OBVIOUS
  <2>1. S \in SUBSET Nat
    OBVIOUS
  <2>2. PICK m \in S : \A y \in S : m <= y
    BY <2>1, LeastElement
  <2>3. m # 1
    BY <2>2, BeginsOne
  <2>4. m - 1 \in 1 .. Len(c) /\ m - 1 \notin S /\ m - 1 \in 1 .. Len(c) + 1 /\ (m - 1) + 1 = m
    BY <1>0, <2>2, <2>3
  <2>5. PICK f : Begins(f, c, m - 1)
    BY <2>4
  <2> QED
    BY <2>2, <2>4, <2>5, BeginsNext
<1>2. PICK f : Begins(f, c, Len(c) + 1)
  <2>1. Len(c) + 1 \in 1 .. Len(c) + 1
    BY <1>0
  <2>2. Len(c) + 1 \notin S
    BY <1>1
  <2> HIDE <1>1
  <2> QED
    BY <2>1, <2>2
<1>3. IsOffset(f, c)
  BY <1>2 DEF Begins, IsOffset
<1> QED
  BY <1>2, <1>3 DEF Begins

LEMMA OffsetUnique ==
    ASSUME NEW c \in Seq(Lengths), NEW f, NEW g, IsOffset(f, c), IsOffset(g, c)
    PROVE  f = g
<1> DEFINE S == {n \in 1 .. Len(c) + 1 : f[n] # g[n]}
<1>0. Len(c) \in Nat
  BY LenProperties
<1>1. /\ DOMAIN f = 1 .. Len(c) + 1 /\ DOMAIN g = 1 .. Len(c) + 1
      /\ f = [i \in 1 .. Len(c) + 1 |-> f[i]] /\ g = [i \in 1 .. Len(c) + 1 |-> g[i]]
  BY DEF IsOffset
<1>2. \A i \in 1 .. Len(c) + 1 :
        /\ f[i] = IF i = 1 THEN 0 ELSE f[i - 1] + c[i - 1].rec_len
        /\ g[i] = IF i = 1 THEN 0 ELSE g[i - 1] + c[i - 1].rec_len
  BY DEF IsOffset
<1>3. S = {}
  <2> SUFFICES ASSUME S # {} PROVE FALSE
    OBVIOUS
  <2>1. S \in SUBSET Nat
    OBVIOUS
  <2>2. PICK m \in S : \A y \in S : m <= y
    BY <2>1, LeastElement
  <2>3. m # 1
    BY <1>2, <2>2
  <2>4. m - 1 \in 1 .. Len(c) + 1 /\ m - 1 \notin S
    BY <1>0, <2>2, <2>3
  <2> QED
    BY <1>2, <2>2, <2>3, <2>4
<1> QED
  BY <1>1, <1>3

OffsetOf(c) == CHOOSE off : IsOffset(off, c)

LEMMA OffsetIs ==
    ASSUME NEW c \in Seq(Lengths)
    PROVE  /\ IsOffset(OffsetOf(c), c)
           /\ OffsetOf(c) \in [1 .. Len(c) + 1 -> Nat]
           /\ \A g : IsOffset(g, c) => OffsetOf(c) = g
<1>1. PICK f : IsOffset(f, c) /\ f \in [1 .. Len(c) + 1 -> Nat]
  BY OffsetExists
<1>2. IsOffset(OffsetOf(c), c)
  BY <1>1 DEF OffsetOf
<1>3. OffsetOf(c) = f
  BY <1>1, <1>2, OffsetUnique
<1> QED
  BY <1>1, <1>2, <1>3, OffsetUnique

(* What a walk of the chain c has behind it when it stops.                 *)
Total(c) == OffsetOf(c)[Len(c) + 1]

LEMMA OffsetStep ==
    ASSUME NEW c \in Seq(Lengths)
    PROVE  /\ OffsetOf(c)[1] = 0
           /\ \A i \in 1 .. Len(c) : OffsetOf(c)[i + 1] = OffsetOf(c)[i] + c[i].rec_len
<1>0. Len(c) \in Nat
  BY LenProperties
<1>1. IsOffset(OffsetOf(c), c)
  BY OffsetIs
<1>2. \A i \in 1 .. Len(c) + 1 :
        OffsetOf(c)[i] = IF i = 1 THEN 0 ELSE OffsetOf(c)[i - 1] + c[i - 1].rec_len
  BY <1>1 DEF IsOffset
<1>3. ASSUME NEW i \in 1 .. Len(c)
      PROVE  OffsetOf(c)[i + 1] = OffsetOf(c)[i] + c[i].rec_len
  <2>1. i + 1 \in 1 .. Len(c) + 1 /\ i + 1 # 1 /\ (i + 1) - 1 = i
    BY <1>0
  <2> QED
    BY <1>2, <2>1
<1> QED
  BY <1>0, <1>2, <1>3

LEMMA EndIsTotal == Offset = OffsetOf(chain) /\ End = Total(chain)
  BY DEF Offset, End, OffsetOf, IsOffset, Total, Last

-----------------------------------------------------------------------------
(* The three changes of a chain: each keeps its total.                     *)

(* The room of the last entry is divided between it and a new one.         *)
LEMMA SplitKeepsTotal ==
    ASSUME NEW c \in Seq(Lengths), c # <<>>,
           NEW d \in Seq(Lengths), Len(d) = Len(c) + 1,
           \A i \in 1 .. Len(c) - 1 : d[i] = c[i],
           d[Len(c)].rec_len + d[Len(c) + 1].rec_len = c[Len(c)].rec_len
    PROVE  /\ Total(d) = Total(c)
           /\ \A i \in 1 .. Len(c) : OffsetOf(d)[i] = OffsetOf(c)[i]
<1> DEFINE L == Len(c)
           o == OffsetOf(c)
           g == [i \in 1 .. L + 2 |-> IF i <= L THEN o[i]
                                      ELSE IF i = L + 1 THEN o[L] + d[L].rec_len
                                      ELSE o[L + 1]]
<1>0. L \in Nat /\ L # 0
  BY LenProperties, EmptySeq
<1>1. o \in [1 .. L + 1 -> Nat]
  BY OffsetIs
<1>2. o[1] = 0 /\ \A i \in 1 .. L : o[i + 1] = o[i] + c[i].rec_len
  BY OffsetStep
<1>3. /\ \A i \in 1 .. L : o[i] \in Nat /\ c[i].rec_len \in Nat
      /\ o[L] \in Nat /\ o[L + 1] \in Nat
  <2>1. \A i \in 1 .. L : c[i] \in Lengths
    BY ElementOfSeq
  <2>2. \A i \in 1 .. L : i \in 1 .. L + 1
    BY <1>0
  <2>3. L \in 1 .. L + 1 /\ L + 1 \in 1 .. L + 1
    BY <1>0
  <2> HIDE DEF L, o
  <2> QED
    BY <1>1, <2>1, <2>2, <2>3 DEF Lengths
<1>4. d[L].rec_len \in Nat /\ d[L + 1].rec_len \in Nat
  <2>1. L \in 1 .. Len(d) /\ L + 1 \in 1 .. Len(d)
    BY <1>0
  <2>2. d[L] \in Lengths /\ d[L + 1] \in Lengths
    BY <2>1, ElementOfSeq
  <2> QED
    BY <2>2 DEF Lengths
<1>5. /\ \A i \in 1 .. L - 1 : d[i] = c[i]
      /\ d[L].rec_len + d[L + 1].rec_len = c[L].rec_len
      /\ Len(d) + 1 = L + 2
  BY <1>0
<1>6. /\ \A i \in 1 .. L : g[i] = o[i]
      /\ g[L + 1] = o[L] + d[L].rec_len
      /\ g[L + 2] = o[L + 1]
  BY <1>0
<1>7. g = [i \in 1 .. L + 2 |-> g[i]]
  OBVIOUS
<1> HIDE DEF L, o, g
<1>8. ASSUME NEW i \in 1 .. L + 2
      PROVE  g[i] = IF i = 1 THEN 0 ELSE g[i - 1] + d[i - 1].rec_len
  <2>1. CASE i = 1
    BY <1>0, <1>2, <1>6, <2>1
  <2>2. CASE i # 1 /\ i <= L
    <3>1. i - 1 \in 1 .. L - 1 /\ i - 1 \in 1 .. L /\ i \in 1 .. L /\ (i - 1) + 1 = i
      BY <1>0, <2>2
    <3>2. o[i] = o[i - 1] + c[i - 1].rec_len
      BY <1>2, <3>1
    <3>3. g[i] = o[i] /\ g[i - 1] = o[i - 1] /\ d[i - 1] = c[i - 1]
      BY <1>5, <1>6, <3>1
    <3> QED
      BY <2>2, <3>2, <3>3
  <2>3. CASE i = L + 1
    <3>1. i # 1 /\ i - 1 = L /\ L \in 1 .. L
      BY <1>0, <2>3
    <3> QED
      BY <1>6, <2>3, <3>1
  <2>4. CASE i = L + 2
    <3>1. i # 1 /\ i - 1 = L + 1 /\ L \in 1 .. L
      BY <1>0, <2>4
    <3>2. o[L + 1] = o[L] + c[L].rec_len
      BY <1>2, <3>1
    <3>3. o[L] + c[L].rec_len = (o[L] + d[L].rec_len) + d[L + 1].rec_len
      BY <1>3, <1>4, <1>5, <3>1, SMTT(30)
    <3> QED
      BY <1>6, <2>4, <3>1, <3>2, <3>3
  <2> QED
    BY <1>0, <2>1, <2>2, <2>3, <2>4
<1>9. IsOffset(g, d)
  BY <1>5, <1>7, <1>8 DEF IsOffset
<1>10. OffsetOf(d) = g
  BY <1>9, OffsetIs
<1>11. Total(d) = Total(c)
  BY <1>5, <1>6, <1>10 DEF Total, L, o
<1>12. \A i \in 1 .. L : OffsetOf(d)[i] = o[i]
  BY <1>6, <1>10
<1> QED
  BY <1>11, <1>12 DEF L, o

(* An entry is taken out, and the one before it takes its room.            *)
LEMMA MergeKeepsTotal ==
    ASSUME NEW c \in Seq(Lengths), NEW k \in 2 .. Len(c),
           NEW d \in Seq(Lengths), Len(d) = Len(c) - 1,
           \A i \in 1 .. k - 2 : d[i] = c[i],
           d[k - 1].rec_len = c[k - 1].rec_len + c[k].rec_len,
           \A i \in k .. Len(c) - 1 : d[i] = c[i + 1]
    PROVE  /\ Total(d) = Total(c)
           /\ \A i \in 1 .. Len(c) - 1 :
                OffsetOf(d)[i] = OffsetOf(c)[IF i < k THEN i ELSE i + 1]
<1> DEFINE L == Len(c)
           o == OffsetOf(c)
           g == [i \in 1 .. L |-> IF i < k THEN o[i] ELSE o[i + 1]]
<1>0. L \in Nat /\ k \in 2 .. L
  BY LenProperties
<1>1. o \in [1 .. L + 1 -> Nat]
  BY OffsetIs
<1>2. o[1] = 0 /\ \A i \in 1 .. L : o[i + 1] = o[i] + c[i].rec_len
  BY OffsetStep
<1>3. /\ \A i \in 1 .. L : c[i].rec_len \in Nat
      /\ \A i \in 1 .. L + 1 : o[i] \in Nat
  <2>1. \A i \in 1 .. L : c[i] \in Lengths
    BY ElementOfSeq
  <2> QED
    BY <1>1, <2>1 DEF Lengths
<1>5. /\ \A i \in 1 .. k - 2 : d[i] = c[i]
      /\ d[k - 1].rec_len = c[k - 1].rec_len + c[k].rec_len
      /\ \A i \in k .. L - 1 : d[i] = c[i + 1]
      /\ Len(d) + 1 = L
  BY <1>0
<1>6. \A i \in 1 .. L : g[i] = IF i < k THEN o[i] ELSE o[i + 1]
  OBVIOUS
<1>7. g = [i \in 1 .. L |-> g[i]]
  OBVIOUS
<1> HIDE DEF L, o, g
<1>8. ASSUME NEW i \in 1 .. L
      PROVE  g[i] = IF i = 1 THEN 0 ELSE g[i - 1] + d[i - 1].rec_len
  <2>1. CASE i = 1
    <3>1. i < k
      BY <1>0, <2>1
    <3>2. g[i] = o[i]
      BY <1>6, <3>1
    <3> QED
      BY <1>2, <2>1, <3>2
  <2>2. CASE i # 1 /\ i < k
    <3>1. i - 1 \in 1 .. k - 2 /\ i - 1 \in 1 .. L /\ i - 1 < k /\ (i - 1) + 1 = i
      BY <1>0, <2>2
    <3>2. o[i] = o[i - 1] + c[i - 1].rec_len
      BY <1>2, <3>1
    <3>3. g[i] = o[i] /\ g[i - 1] = o[i - 1] /\ d[i - 1] = c[i - 1]
      BY <1>5, <1>6, <2>2, <3>1
    <3> QED
      BY <2>2, <3>2, <3>3
  <2>3. CASE i = k
    <3>1. i - 1 \in 1 .. L /\ i - 1 < k /\ ~ (i < k) /\ i # 1 /\ i \in 1 .. L
          /\ (i - 1) + 1 = i /\ k - 1 = i - 1
      BY <1>0, <2>3
    <3>2. o[i] = o[i - 1] + c[i - 1].rec_len /\ o[i + 1] = o[i] + c[i].rec_len
      BY <1>2, <3>1
    <3>3. g[i] = o[i + 1] /\ g[i - 1] = o[i - 1]
      BY <1>6, <3>1
    <3>4. d[i - 1].rec_len = c[i - 1].rec_len + c[i].rec_len
      BY <1>5, <2>3
    <3>5. o[i - 1] \in Nat /\ c[i - 1].rec_len \in Nat /\ c[i].rec_len \in Nat
      <4>1. i - 1 \in 1 .. L + 1
        BY <1>0, <3>1
      <4> QED
        BY <1>3, <3>1, <4>1
    <3>6. (o[i - 1] + c[i - 1].rec_len) + c[i].rec_len
              = o[i - 1] + (c[i - 1].rec_len + c[i].rec_len)
      BY <3>5
    <3> QED
      BY <3>1, <3>2, <3>3, <3>4, <3>6
  <2>4. CASE i > k
    <3>1. i - 1 \in k .. L - 1 /\ i - 1 \in 1 .. L /\ ~ (i - 1 < k) /\ ~ (i < k)
          /\ i # 1 /\ (i - 1) + 1 = i
      BY <1>0, <2>4
    <3>2. o[i + 1] = o[i] + c[i].rec_len
      BY <1>2
    <3>3. g[i] = o[i + 1] /\ g[i - 1] = o[i]
      BY <1>6, <3>1
    <3>4. d[i - 1] = c[i]
      BY <1>5, <3>1
    <3> QED
      BY <3>1, <3>2, <3>3, <3>4
  <2> QED
    BY <1>0, <2>1, <2>2, <2>3, <2>4
<1>9. IsOffset(g, d)
  BY <1>5, <1>7, <1>8 DEF IsOffset
<1>10. g[L] = o[L + 1]
  BY <1>0, <1>6
<1>11. OffsetOf(d) = g
  BY <1>9, OffsetIs
<1>12. Total(d) = Total(c)
  BY <1>5, <1>10, <1>11 DEF Total, L, o
<1>13. ASSUME NEW i \in 1 .. L - 1
       PROVE  OffsetOf(d)[i] = o[IF i < k THEN i ELSE i + 1]
  <2>1. i \in 1 .. L
    BY <1>0
  <2> QED
    BY <1>6, <1>11, <2>1
<1> QED
  BY <1>12, <1>13 DEF L, o

(* The chain of a new directory.                                           *)
LEMMA PairTotal ==
    ASSUME NEW d \in Seq(Lengths), Len(d) = 2
    PROVE  Total(d) = d[1].rec_len + d[2].rec_len
<1> DEFINE o == OffsetOf(d)
<1>1. o[1] = 0 /\ \A i \in 1 .. 2 : o[i + 1] = o[i] + d[i].rec_len
  BY OffsetStep
<1>2. o[1 + 1] = o[1] + d[1].rec_len /\ o[2 + 1] = o[2] + d[2].rec_len
  BY <1>1
<1>3. d[1].rec_len \in Nat
  <2>1. d[1] \in Lengths
    BY ElementOfSeq
  <2> QED
    BY <2>1 DEF Lengths
<1> QED
  BY <1>1, <1>2, <1>3 DEF Total

(* No walk is farther on at an entry than at its end.                      *)
LEMMA OffsetsBelow ==
    ASSUME NEW c \in Seq(Lengths), NEW i \in 1 .. Len(c) + 1
    PROVE  OffsetOf(c)[i] <= Total(c)
<1> DEFINE L == Len(c)
           o == OffsetOf(c)
           S == {j \in 1 .. L + 1 : ~ (o[j] <= o[L + 1])}
<1>0. L \in Nat
  BY LenProperties
<1>1. \A j \in 1 .. L + 1 : o[j] \in Nat
  BY OffsetIs
<1>2. \A j \in 1 .. L : o[j + 1] = o[j] + c[j].rec_len
  BY OffsetStep
<1>3. \A j \in 1 .. L : c[j].rec_len \in Nat
  <2>1. \A j \in 1 .. L : c[j] \in Lengths
    BY ElementOfSeq
  <2> QED
    BY <2>1 DEF Lengths
<1>4. S = {}
  <2> SUFFICES ASSUME S # {} PROVE FALSE
    OBVIOUS
  <2>1. S \in SUBSET (0 .. L + 1) /\ L + 1 \in Nat
    BY <1>0
  <2>2. PICK m \in S : \A y \in S : m >= y
    BY <2>1, GreatestElement
  <2> HIDE DEF L, o
  <2>3. L + 1 \in 1 .. L + 1 /\ o[L + 1] \in Nat
    BY <1>0, <1>1
  <2>4. m \in 1 .. L + 1 /\ ~ (o[m] <= o[L + 1]) /\ m # L + 1
    BY <2>3
  <2>5. m \in 1 .. L /\ m + 1 \in 1 .. L + 1 /\ m + 1 > m
    BY <1>0, <2>4
  <2>6. m + 1 \notin S
    BY <2>2, <2>5
  <2>7. o[m + 1] <= o[L + 1] /\ o[m + 1] = o[m] + c[m].rec_len
    BY <1>2, <2>5, <2>6
  <2>8. o[m] \in Nat /\ c[m].rec_len \in Nat
    BY <1>1, <1>3, <2>4, <2>5
  <2> QED
    BY <2>3, <2>4, <2>7, <2>8
<1> QED
  BY <1>4 DEF Total

(* An entry ends before the next begins.                                   *)
LEMMA OffsetsOrdered ==
    ASSUME NEW c \in Seq(Lengths), NEW i \in 1 .. Len(c), NEW j \in 1 .. Len(c) + 1, i < j
    PROVE  OffsetOf(c)[i] + c[i].rec_len <= OffsetOf(c)[j]
<1> DEFINE L == Len(c)
           o == OffsetOf(c)
           S == {k \in 1 .. L + 1 : i < k /\ ~ (o[i] + c[i].rec_len <= o[k])}
<1>0. L \in Nat
  BY LenProperties
<1>1. \A k \in 1 .. L + 1 : o[k] \in Nat
  BY OffsetIs
<1>2. \A k \in 1 .. L : o[k + 1] = o[k] + c[k].rec_len
  BY OffsetStep
<1>3. \A k \in 1 .. L : c[k].rec_len \in Nat
  <2>1. \A k \in 1 .. L : c[k] \in Lengths
    BY ElementOfSeq
  <2> QED
    BY <2>1 DEF Lengths
<1>4. S = {}
  <2> SUFFICES ASSUME S # {} PROVE FALSE
    OBVIOUS
  <2>1. S \in SUBSET Nat
    OBVIOUS
  <2>2. PICK m \in S : \A y \in S : m <= y
    BY <2>1, LeastElement
  <2> HIDE DEF L, o
  <2>3. m \in 1 .. L + 1 /\ i < m /\ ~ (o[i] + c[i].rec_len <= o[m])
    OBVIOUS
  <2>4. m - 1 \in 1 .. L /\ (m - 1) + 1 = m /\ m - 1 \in 1 .. L + 1 /\ i <= m - 1 /\ m - 1 < m
    BY <1>0, <2>3 DEF L
  <2>5. o[m] = o[m - 1] + c[m - 1].rec_len
    BY <1>2, <2>4
  <2>6. m - 1 # i
    <3>1. i \in 1 .. L + 1
      BY <1>0 DEF L
    <3> QED
      BY <1>1, <1>3, <2>3, <2>4, <2>5, <3>1
  <2>7. o[i] + c[i].rec_len <= o[m - 1]
    <3>1. m - 1 \notin S
      BY <2>2, <2>4
    <3> QED
      BY <2>4, <2>6, <3>1
  <2>8. o[i] \in Nat /\ c[i].rec_len \in Nat /\ o[m - 1] \in Nat /\ c[m - 1].rec_len \in Nat
    <3>1. i \in 1 .. L + 1 /\ i \in 1 .. L
      BY <1>0 DEF L
    <3> QED
      BY <1>1, <1>3, <2>4, <3>1
  <2> HIDE DEF S
  <2>9. \A a, b, d, e \in Nat : a + b <= d => a + b <= d + e
    OBVIOUS
  <2>10. o[i] + c[i].rec_len <= o[m - 1] + c[m - 1].rec_len
    BY <2>7, <2>8, <2>9
  <2> QED
    BY <2>3, <2>5, <2>10
<1> QED
  BY <1>4

-----------------------------------------------------------------------------
(* The invariant.                                                          *)

DirInv ==
    /\ TypeOK
    /\ chain # <<>> => End = FirstBlock
    /\ EntriesFit

Names == Name \cup {Dot, DotDot}

LEMMA NamesAre ==
    /\ \A n \in Names : n \in Seq(Byte \ {0}) /\ Len(n) \in Nat \ {0}
    /\ \A n \in Names : \A k \in 1 .. Len(n) : n[k] \in Byte \ {0}
    /\ Len(Dot) = 1 /\ Len(DotDot) = 2 /\ Dot[1] = 46 /\ DotDot[1] = 46
<1>1. Len(Dot) = 1 /\ Len(DotDot) = 2 /\ Dot[1] = 46 /\ DotDot[1] = 46
  BY DEF Dot, DotDot
<1>2. 46 \in Byte \ {0}
  BY DEF Byte
<1>3. Dot \in Seq(Byte \ {0}) /\ DotDot \in Seq(Byte \ {0})
  BY <1>2 DEF Dot, DotDot
<1>4. ASSUME NEW n \in Name PROVE n \in Seq(Byte \ {0}) /\ Len(n) \in Nat \ {0}
  BY DirectoryAssumption
<1>5. \A n \in Names : n \in Seq(Byte \ {0}) /\ Len(n) \in Nat \ {0}
  <2>1. 1 \in Nat \ {0} /\ 2 \in Nat \ {0}
    OBVIOUS
  <2>2. Len(Dot) \in Nat \ {0} /\ Len(DotDot) \in Nat \ {0}
    BY <1>1, <2>1
  <2>3. \A n \in Names : n \in Name \/ n = Dot \/ n = DotDot
    BY DEF Names
  <2> QED
    BY <1>3, <1>4, <2>2, <2>3, Zenon
<1>6. \A n \in Names : \A k \in 1 .. Len(n) : n[k] \in Byte \ {0}
  BY <1>5, ElementOfSeq
<1> QED
  BY <1>1, <1>5, <1>6

LEMMA DotsAreNoNames == Dot \notin Name /\ DotDot \notin Name
  BY NamesAre, DirectoryAssumption

LEMMA EntryBytesFacts ==
    /\ \A n \in Names : /\ EntryBytes(n) \in Nat /\ name_len(n) \in Nat
                        /\ EntryBytes(n) >= Header + name_len(n) /\ EntryBytes(n) >= 1
                        /\ EntryBytes(n) > Header
    /\ EntryBytes(Dot) = 12 /\ EntryBytes(DotDot) = 12
    /\ name_len(Dot) = 1 /\ name_len(DotDot) = 2
<1>1. \A n \in Names : name_len(n) \in Nat \ {0}
  BY NamesAre DEF name_len
<1>2. name_len(Dot) = 1 /\ name_len(DotDot) = 2
  BY NamesAre DEF name_len
<1>3. \A k \in Nat \ {0} : /\ ((8 + k + 3) \div 4) * 4 \in Nat
                           /\ ((8 + k + 3) \div 4) * 4 >= 8 + k
                           /\ ((8 + k + 3) \div 4) * 4 > 8
  OBVIOUS
<1>4. ((8 + 1 + 3) \div 4) * 4 = 12 /\ ((8 + 2 + 3) \div 4) * 4 = 12
  OBVIOUS
<1> QED
  BY <1>1, <1>2, <1>3, <1>4 DEF EntryBytes, Header

LEMMA TypedLengths == Seq(EntryType) \subseteq Seq(Lengths)
<1>1. BlockBytes \in Nat /\ EntryType \subseteq Lengths
  BY DirectoryAssumption DEF EntryType, Lengths
<1> QED
  BY <1>1

(* What an entry puts into the block.                                      *)
LEMMA EntryAtIs ==
    ASSUME NEW p \in Nat, NEW n \in Names, NEW ino \in InodeNumber
    PROVE  /\ \A q \in DOMAIN EntryAt(p, n, ino) :
                /\ q \in p .. p + Header + Len(n) - 1
                /\ EntryAt(p, n, ino)[q] \in Byte
           /\ \A k \in 1 .. Len(n) : LET q == p + Header + k - 1 IN
                q \in DOMAIN EntryAt(p, n, ino) /\ EntryAt(p, n, ino)[q] = n[k]
<1> DEFINE w == EntryAt(p, n, ino)
           L == Len(n)
           D == p .. p + 3 \cup p + 8 .. p + 8 + L - 1
<1>1. L \in Nat /\ L # 0 /\ \A k \in 1 .. L : n[k] \in Byte
  BY NamesAre
<1>2. w = [q \in D |-> IF q < p + 8 THEN InodeBytes(ino)[q - p + 1] ELSE n[q - p - 8 + 1]]
  BY DEF EntryAt, Header, name_len
<1>3. InodeBytes(ino)[1] \in Byte /\ InodeBytes(ino)[2] \in Byte
      /\ InodeBytes(ino)[3] \in Byte /\ InodeBytes(ino)[4] \in Byte
  <2>1. ino % 256 \in 0 .. 255 /\ (ino \div 256) % 256 \in 0 .. 255
        /\ (ino \div 256) \div 256 \in 0 .. 255
    <3>1. ino \in Nat /\ (ino \div 256) \div 256 \in 0 .. 255
      BY DEF InodeNumber, Byte
    <3>2. ino % 256 \in 0 .. 255 /\ ino \div 256 \in Nat
      BY <3>1
    <3>3. (ino \div 256) % 256 \in 0 .. 255
      BY <3>2
    <3> QED
      BY <3>1, <3>2, <3>3
  <2> QED
    BY <2>1, SMT DEF InodeBytes, Byte
<1> HIDE DEF w, L
<1>4. ASSUME NEW q \in D PROVE q \in p .. p + 8 + L - 1 /\ w[q] \in Byte
  <2>1. q \in p .. p + 8 + L - 1
    BY <1>1
  <2>2. CASE q < p + 8
    <3>1. q \in p .. p + 3
      BY <1>1, <2>2
    <3>2. q - p + 1 = 1 \/ q - p + 1 = 2 \/ q - p + 1 = 3 \/ q - p + 1 = 4
      BY <3>1
    <3>3. w[q] = InodeBytes(ino)[q - p + 1]
      BY <1>2, <2>2
    <3> QED
      BY <1>3, <2>1, <3>2, <3>3
  <2>3. CASE ~ (q < p + 8)
    <3>1. q - p - 8 + 1 \in 1 .. L
      BY <1>1, <2>3
    <3>2. w[q] = n[q - p - 8 + 1]
      BY <1>2, <2>3
    <3> QED
      BY <1>1, <2>1, <3>1, <3>2
  <2> QED
    BY <2>2, <2>3
<1>5. ASSUME NEW k \in 1 .. L
      PROVE  p + 8 + k - 1 \in D /\ w[p + 8 + k - 1] = n[k]
  <2>1. p + 8 + k - 1 \in D /\ ~ (p + 8 + k - 1 < p + 8)
    BY <1>1
  <2>2. p + 8 + k - 1 - p - 8 + 1 = k
    BY <1>1
  <2>3. w[p + 8 + k - 1] = n[p + 8 + k - 1 - p - 8 + 1]
    BY <1>2, <2>1
  <2> QED
    BY <2>1, <2>2, <2>3
<1>6. DOMAIN w = D
  BY <1>2
<1> QED
  BY <1>4, <1>5, <1>6 DEF w, L, Header

LEMMA CopiedIs ==
    ASSUME NEW B \in Nat, NEW t \in [0 .. B - 1 -> Byte], NEW w,
           \A q \in DOMAIN w : q \in 0 .. B - 1 /\ w[q] \in Byte
    PROVE  /\ Copied(t, w) \in [0 .. B - 1 -> Byte]
           /\ \A q \in DOMAIN w : Copied(t, w)[q] = w[q]
           /\ \A q \in 0 .. B - 1 : q \notin DOMAIN w => Copied(t, w)[q] = t[q]
<1>1. Copied(t, w) = [q \in 0 .. B - 1 |-> IF q \in DOMAIN w THEN w[q] ELSE t[q]]
  <2>1. DOMAIN t = 0 .. B - 1
    OBVIOUS
  <2>2. DOMAIN t \cup DOMAIN w = 0 .. B - 1
    BY <2>1
  <2> QED
    BY <2>2 DEF Copied
<1>2. \A q \in 0 .. B - 1 : t[q] \in Byte
  OBVIOUS
<1> HIDE DEF Copied
<1> QED
  BY <1>1, <1>2

LEMMA InitHolds == Init => DirInv
<1> SUFFICES ASSUME Init PROVE DirInv
  OBVIOUS
<1>1. chain = <<>> /\ Last = 0
  BY DEF Init, Last
<1>2. text \in [0 .. BlockBytes - 1 -> Byte] /\ behind \in Memory
  BY DirectoryAssumption DEF Init
<1> QED
  BY <1>1, <1>2 DEF DirInv, TypeOK, EntriesFit

LEMMA InitializeStep == DirInv /\ behind' \in Memory /\ Initialize => DirInv'
<1> SUFFICES ASSUME DirInv, behind' \in Memory, Initialize PROVE DirInv'
  OBVIOUS
<1>0. BlockBytes \in Nat /\ FirstBlock \in 24 .. BlockBytes
  BY DirectoryAssumption
<1> DEFINE a == [name |-> Dot, ino |-> Self, rec_len |-> EntryBytes(Dot)]
           b == [name |-> DotDot, ino |-> Parent, rec_len |-> FirstBlock - EntryBytes(Dot)]
<1>1. chain' = <<a, b>>
  BY DEF Initialize
<1>2. a \in EntryType /\ b \in EntryType
  <2>1. EntryBytes(Dot) \in 1 .. BlockBytes /\ FirstBlock - EntryBytes(Dot) \in 1 .. BlockBytes
    BY <1>0, EntryBytesFacts
  <2> QED
    BY <2>1 DEF EntryType
<1>3. Len(chain') = 2 /\ chain' \in Seq(EntryType) /\ chain' \in Seq(Lengths)
  <2> HIDE DEF a, b
  <2>1. Len(chain') = 2
    BY <1>1
  <2>2. chain' \in Seq(EntryType)
    BY <1>1, <1>2
  <2> QED
    BY <2>1, <2>2, TypedLengths
<1>4. a.rec_len = 12 /\ b.rec_len = FirstBlock - 12 /\ a.name = Dot /\ b.name = DotDot
  BY EntryBytesFacts
<1>5. chain'[1] = a /\ chain'[2] = b
  BY <1>1
<1>6. End' = FirstBlock
  <2>1. Total(chain') = chain'[1].rec_len + chain'[2].rec_len
    BY <1>3, PairTotal
  <2>2. End' = Total(chain')
    BY DEF Offset, End, OffsetOf, IsOffset, Total, Last
  <2> QED
    BY <1>0, <1>4, <1>5, <2>1, <2>2
<1>7. EntriesFit'
  <2>1. ASSUME NEW i \in 1 .. 2 PROVE EntryBytes(chain'[i].name) <= chain'[i].rec_len
    <3>1. i = 1 \/ i = 2
      OBVIOUS
    <3>2. EntryBytes(a.name) <= a.rec_len /\ EntryBytes(b.name) <= b.rec_len
      BY <1>0, <1>4, EntryBytesFacts
    <3> QED
      BY <1>5, <3>1, <3>2
  <2> QED
    BY <1>3, <2>1 DEF EntriesFit, Last
<1>8. text' \in [0 .. BlockBytes - 1 -> Byte]
  <2> DEFINE one == EntryAt(0, Dot, Self)
             two == EntryAt(12, DotDot, Parent)
  <2>1. text' = Copied(Copied(text, one), two)
    BY EntryBytesFacts DEF Initialize
  <2>2. Self \in InodeNumber /\ Parent \in InodeNumber /\ Dot \in Names /\ DotDot \in Names
    BY DirectoryAssumption DEF Names
  <2>3. /\ \A q \in DOMAIN one : q \in 0 .. 0 + Header + Len(Dot) - 1 /\ one[q] \in Byte
        /\ \A q \in DOMAIN two : q \in 12 .. 12 + Header + Len(DotDot) - 1 /\ two[q] \in Byte
    BY <2>2, EntryAtIs
  <2> HIDE DEF one, two
  <2>4. /\ \A q \in DOMAIN one : q \in 0 .. BlockBytes - 1 /\ one[q] \in Byte
        /\ \A q \in DOMAIN two : q \in 0 .. BlockBytes - 1 /\ two[q] \in Byte
    <3>1. Len(Dot) = 1 /\ Len(DotDot) = 2 /\ Header = 8
      BY NamesAre DEF Header
    <3>2. /\ \A q \in DOMAIN one : q \in 0 .. 8 /\ one[q] \in Byte
          /\ \A q \in DOMAIN two : q \in 12 .. 21 /\ two[q] \in Byte
      BY <2>3, <3>1
    <3>3. 0 .. 8 \subseteq 0 .. BlockBytes - 1 /\ 12 .. 21 \subseteq 0 .. BlockBytes - 1
      BY <1>0
    <3> QED
      BY <3>2, <3>3
  <2>5. text \in [0 .. BlockBytes - 1 -> Byte]
    BY DEF DirInv, TypeOK
  <2>6. Copied(text, one) \in [0 .. BlockBytes - 1 -> Byte]
    BY <1>0, <2>4, <2>5, CopiedIs
  <2> QED
    BY <1>0, <2>1, <2>4, <2>6, CopiedIs
<1> QED
  BY <1>3, <1>6, <1>7, <1>8 DEF DirInv, TypeOK

LEMMA CreateStep ==
    ASSUME DirInv, behind' \in Memory, NEW n \in Name, NEW ino \in Inode, Create(n, ino)
    PROVE  DirInv'
<1> DEFINE used == EntryBytes(chain[Last].name)
           e == [name |-> n, ino |-> ino, rec_len |-> chain[Last].rec_len - used]
           c == [chain EXCEPT ![Last].rec_len = used]
<1>0. BlockBytes \in Nat /\ FirstBlock \in 24 .. BlockBytes
  BY DirectoryAssumption
<1>1. /\ chain \in Seq(EntryType) /\ chain \in Seq(Lengths) /\ chain # <<>>
      /\ Last = Len(chain) /\ Last \in Nat /\ Last # 0
  BY TypedLengths, LenProperties, EmptySeq DEF DirInv, TypeOK, Create, Last
<1>2. \A i \in 1 .. Last : chain[i] \in EntryType
  BY <1>1, ElementOfSeq
<1>3. Last \in 1 .. Last /\ chain[Last] \in EntryType
  BY <1>1, <1>2
<1>4. used \in Nat /\ used >= 1 /\ EntryBytes(n) \in Nat /\ EntryBytes(n) >= 1
  <2>1. chain[Last].name \in Names /\ n \in Names
    BY <1>3 DEF EntryType, Names
  <2> QED
    BY <2>1, EntryBytesFacts
<1>5. chain[Last].rec_len \in 1 .. BlockBytes /\ used + EntryBytes(n) <= chain[Last].rec_len
  BY <1>3 DEF EntryType, Create, Room
<1>6. used \in 1 .. BlockBytes /\ chain[Last].rec_len - used \in 1 .. BlockBytes
      /\ used + (chain[Last].rec_len - used) = chain[Last].rec_len
      /\ EntryBytes(n) <= chain[Last].rec_len - used
  BY <1>0, <1>4, <1>5
<1>7. e \in EntryType
  BY <1>6 DEF EntryType
<1>8. /\ c \in Seq(EntryType) /\ Len(c) = Last
      /\ \A i \in 1 .. Last - 1 : c[i] = chain[i]
      /\ c[Last].rec_len = used /\ c[Last].name = chain[Last].name
  <2>1. [chain[Last] EXCEPT !.rec_len = used] \in EntryType
    BY <1>3, <1>6 DEF EntryType
  <2>2. c = [chain EXCEPT ![Last] = [chain[Last] EXCEPT !.rec_len = used]]
    OBVIOUS
  <2>3. c \in Seq(EntryType) /\ Len(c) = Last
    BY <1>1, <1>3, <2>1, <2>2, ExceptSeq
  <2>4. \A i \in 1 .. Last : i \in DOMAIN chain
    BY <1>1
  <2>5. c[Last] = [chain[Last] EXCEPT !.rec_len = used]
    BY <1>3, <2>2, <2>4
  <2>6. \A i \in 1 .. Last - 1 : c[i] = chain[i]
    BY <1>1, <2>2, <2>4
  <2> QED
    BY <1>3, <2>3, <2>5, <2>6 DEF EntryType
<1>9. chain' = Append(c, e)
  BY DEF Create
<1> HIDE DEF used, e, c
<1>10. /\ chain' \in Seq(EntryType) /\ chain' \in Seq(Lengths) /\ Len(chain') = Last + 1
       /\ \A i \in 1 .. Last : chain'[i] = c[i]
       /\ chain'[Last + 1] = e
  <2>1. c \in Seq(EntryType) /\ e \in EntryType /\ Len(c) = Last
    BY <1>7, <1>8
  <2>2. chain' \in Seq(EntryType) /\ Len(chain') = Last + 1
    BY <1>9, <2>1, AppendProperties
  <2>3. \A i \in 1 .. Last : chain'[i] = c[i]
    BY <1>9, <2>1, AppendProperties
  <2>4. chain'[Last + 1] = e
    BY <1>9, <2>1, AppendProperties
  <2> QED
    BY <2>2, <2>3, <2>4, TypedLengths
<1>11. e.name = n /\ e.rec_len = chain[Last].rec_len - used
  BY DEF e
<1>12. Total(chain') = Total(chain)
  <2>1. \A i \in 1 .. Len(chain) - 1 : chain'[i] = chain[i]
    BY <1>1, <1>8, <1>10
  <2>2. chain'[Len(chain)].rec_len + chain'[Len(chain) + 1].rec_len = chain[Len(chain)].rec_len
    BY <1>1, <1>3, <1>6, <1>8, <1>10, <1>11
  <2> QED
    BY <1>1, <1>10, <2>1, <2>2, SplitKeepsTotal
<1>13. End' = FirstBlock
  <2>1. End = FirstBlock
    BY <1>1 DEF DirInv
  <2>2. End' = Total(chain')
    BY DEF Offset, End, OffsetOf, IsOffset, Total, Last
  <2> QED
    BY <1>12, <2>1, <2>2, EndIsTotal
<1>14. EntriesFit'
  <2>1. ASSUME NEW i \in 1 .. Last + 1
        PROVE  EntryBytes(chain'[i].name) <= chain'[i].rec_len
    <3>1. CASE i \in 1 .. Last - 1
      <4>1. i \in 1 .. Last /\ chain'[i] = chain[i]
        BY <1>1, <1>8, <1>10, <3>1
      <4> QED
        BY <4>1 DEF DirInv, EntriesFit
    <3>2. CASE i = Last
      <4>1. chain'[i].name = chain[Last].name /\ chain'[i].rec_len = used
        BY <1>3, <1>8, <1>10, <3>2
      <4>2. used = EntryBytes(chain[Last].name)
        BY DEF used
      <4> QED
        BY <1>4, <4>1, <4>2
    <3>3. CASE i = Last + 1
      BY <1>6, <1>10, <1>11, <3>3
    <3> QED
      BY <1>1, <3>1, <3>2, <3>3
  <2> QED
    BY <1>10, <2>1 DEF EntriesFit, Last
<1>15. text' \in [0 .. BlockBytes - 1 -> Byte]
  <2>1. /\ Offset[Last] \in Nat
        /\ Offset[Last] + chain[Last].rec_len = BlockBytes
    <3>1. Len(chain) \in 1 .. Len(chain) + 1 /\ Len(chain) \in 1 .. Len(chain)
      BY <1>1
    <3>2. OffsetOf(chain)[Len(chain)] \in Nat
      BY <1>1, <3>1, OffsetIs
    <3>3. Total(chain) = OffsetOf(chain)[Len(chain)] + chain[Len(chain)].rec_len
      BY <1>1, <3>1, OffsetStep DEF Total
    <3>4. Total(chain) = BlockBytes
      BY EndIsTotal DEF Create
    <3> QED
      BY <1>1, <3>2, <3>3, <3>4, EndIsTotal
  <2>2. EntryBytes(n) >= Header + name_len(n) /\ name_len(n) \in Nat
    <3>1. n \in Names
      BY DEF Names
    <3> QED
      BY <3>1, EntryBytesFacts
  <2>3. text' = Copied(text, EntryAt(Offset[Last] + used, n, ino))
    BY DEF Create, used
  <2>4. text \in [0 .. BlockBytes - 1 -> Byte]
    BY DEF DirInv, TypeOK
  <2>5. Offset[Last] + used \in Nat /\ n \in Names /\ ino \in InodeNumber
    BY <1>4, <2>1, DirectoryAssumption DEF Names
  <2>6. \A o, r, B, z, h, k, u \in Nat :
          (o + r = B /\ u + z <= r /\ z >= h + k) => o + u + h + k - 1 <= B - 1
    OBVIOUS
  <2>7. Offset[Last] + used + Header + Len(n) - 1 <= BlockBytes - 1
    <3>1. chain[Last].rec_len \in Nat /\ Header \in Nat /\ name_len(n) = Len(n)
      BY <1>5 DEF Header, name_len
    <3> QED
      BY <1>0, <1>4, <1>5, <2>1, <2>2, <2>6, <3>1
  <2> DEFINE w == EntryAt(Offset[Last] + used, n, ino)
  <2>8. \A q \in DOMAIN w : q \in Offset[Last] + used .. Offset[Last] + used + Header + Len(n) - 1
                              /\ w[q] \in Byte
    BY <2>5, EntryAtIs
  <2> HIDE DEF w
  <2>9. \A q \in DOMAIN w : q \in 0 .. BlockBytes - 1 /\ w[q] \in Byte
    <3> DEFINE p == Offset[Last] + used
    <3>1. p \in Nat /\ p + Header + Len(n) - 1 <= BlockBytes - 1
      BY <2>5, <2>7
    <3> HIDE DEF p
    <3>2. Len(n) \in Nat /\ Header \in Nat
      BY <2>5, NamesAre DEF Header
    <3>3. p .. p + Header + Len(n) - 1 \subseteq 0 .. BlockBytes - 1
      BY <1>0, <3>1, <3>2
    <3>4. \A q \in DOMAIN w : q \in p .. p + Header + Len(n) - 1 /\ w[q] \in Byte
      BY <2>8 DEF p
    <3> QED
      BY <3>3, <3>4
  <2> QED
    BY <1>0, <2>3, <2>4, <2>9, CopiedIs DEF w
<1> QED
  BY <1>10, <1>13, <1>14, <1>15 DEF DirInv, TypeOK

LEMMA DeleteStep ==
    ASSUME DirInv, behind' \in Memory, NEW n \in Name, Delete(n)
    PROVE  DirInv'
<1>0. BlockBytes \in Nat /\ FirstBlock \in 24 .. BlockBytes
  BY DirectoryAssumption
<1>1. PICK k \in 2 .. Last :
        /\ chain' = [j \in 1 .. Last - 1 |->
               IF j = k - 1 THEN [chain[j] EXCEPT !.rec_len = Merged(k)]
               ELSE IF j < k THEN chain[j] ELSE chain[j + 1]]
        /\ text' = [q \in DOMAIN text |->
               IF q \in Offset[k] .. Offset[k] + Header THEN 0 ELSE text[q]]
  BY DEF Delete
<1>2. /\ chain \in Seq(EntryType) /\ chain \in Seq(Lengths) /\ chain # <<>>
      /\ Last = Len(chain) /\ Last \in Nat /\ Last >= 2 /\ k \in Nat
  <2>1. chain \in Seq(EntryType) /\ Last = Len(chain)
    BY DEF DirInv, TypeOK, Last
  <2>2. Last \in Nat
    BY <2>1, LenProperties
  <2> QED
    BY <2>1, <2>2, TypedLengths
<1>3. \A i \in 1 .. Last : chain[i] \in EntryType
  BY <1>2, ElementOfSeq
<1>4. k \in 1 .. Last /\ k - 1 \in 1 .. Last /\ k - 1 \in 1 .. Last - 1 /\ k - 1 < k
  BY <1>2
<1>5. /\ chain[k - 1].rec_len \in 1 .. BlockBytes /\ chain[k].rec_len \in 1 .. BlockBytes
      /\ Merged(k) = chain[k - 1].rec_len + chain[k].rec_len
  BY <1>3, <1>4 DEF Merged, EntryType
<1>6. Merged(k) \in 1 .. BlockBytes
  <2> DEFINE o == OffsetOf(chain)
  <2>1. o[k] = o[k - 1] + chain[k - 1].rec_len /\ o[k + 1] = o[k] + chain[k].rec_len
    <3>1. (k - 1) + 1 = k
      BY <1>2
    <3>2. o[(k - 1) + 1] = o[k - 1] + chain[k - 1].rec_len
      BY <1>2, <1>4, OffsetStep
    <3>3. o[k + 1] = o[k] + chain[k].rec_len
      BY <1>2, <1>4, OffsetStep
    <3> QED
      BY <3>1, <3>2, <3>3
  <2>2. k - 1 \in 1 .. Len(chain) + 1 /\ k + 1 \in 1 .. Len(chain) + 1
    BY <1>2, <1>4
  <2>3. o[k - 1] \in Nat
    BY <1>2, <2>2, OffsetIs
  <2>4. o[k + 1] <= Total(chain)
    BY <1>2, <2>2, OffsetsBelow
  <2>5. Total(chain) = FirstBlock
    BY <1>2, EndIsTotal DEF DirInv
  <2> HIDE DEF o
  <2> QED
    BY <1>0, <1>5, <2>1, <2>3, <2>4, <2>5
<1>7. \A j \in 1 .. Last - 1 :
        /\ j = k - 1 => chain'[j] = [chain[j] EXCEPT !.rec_len = Merged(k)]
        /\ (j # k - 1 /\ j < k) => chain'[j] = chain[j]
        /\ ~ (j < k) => chain'[j] = chain[j + 1]
  BY <1>1, <1>2
<1>8. chain'[k - 1].rec_len = Merged(k) /\ chain'[k - 1].name = chain[k - 1].name
      /\ chain'[k - 1] \in EntryType
  <2>1. chain'[k - 1] = [chain[k - 1] EXCEPT !.rec_len = Merged(k)]
    BY <1>4, <1>7
  <2>2. chain[k - 1] \in EntryType
    BY <1>3, <1>4
  <2> QED
    BY <1>6, <2>1, <2>2 DEF EntryType
<1>9. \A j \in 1 .. Last - 1 : j # k - 1 => \E i \in 1 .. Last : chain'[j] = chain[i]
  <2> SUFFICES ASSUME NEW j \in 1 .. Last - 1, j # k - 1
               PROVE  \E i \in 1 .. Last : chain'[j] = chain[i]
    OBVIOUS
  <2>1. j \in 1 .. Last /\ j + 1 \in 1 .. Last
    BY <1>2
  <2> QED
    BY <1>7, <2>1
<1>10. \A j \in 1 .. Last - 1 : chain'[j] \in EntryType
  BY <1>3, <1>8, <1>9
<1>11. chain' \in Seq(EntryType) /\ Len(chain') = Last - 1 /\ chain' \in Seq(Lengths)
  <2>1. Last - 1 \in Nat
    BY <1>2
  <2>2. chain' = [j \in 1 .. Last - 1 |-> chain'[j]]
    BY <1>1
  <2>3. chain' \in [1 .. Last - 1 -> EntryType]
    BY <1>10, <2>2
  <2>4. chain' \in Seq(EntryType)
    BY <2>1, <2>3, SeqDef
  <2>5. DOMAIN chain' = 1 .. Last - 1
    BY <2>3
  <2>6. Len(chain') = Last - 1
    BY <2>1, <2>4, <2>5, LenProperties
  <2> QED
    BY <2>4, <2>6, TypedLengths
<1>12. Total(chain') = Total(chain)
  <2>1. \A i \in 1 .. k - 2 : chain'[i] = chain[i]
    <3> SUFFICES ASSUME NEW i \in 1 .. k - 2 PROVE chain'[i] = chain[i]
      OBVIOUS
    <3>1. i \in 1 .. Last - 1 /\ i # k - 1 /\ i < k
      BY <1>2, <1>4
    <3> QED
      BY <1>7, <3>1
  <2>2. chain'[k - 1].rec_len = chain[k - 1].rec_len + chain[k].rec_len
    BY <1>5, <1>8
  <2>3. \A i \in k .. Len(chain) - 1 : chain'[i] = chain[i + 1]
    <3> SUFFICES ASSUME NEW i \in k .. Last - 1 PROVE chain'[i] = chain[i + 1]
      BY <1>2
    <3>1. i \in 1 .. Last - 1 /\ ~ (i < k)
      BY <1>2, <1>4
    <3> QED
      BY <1>7, <3>1
  <2>4. Len(chain') = Len(chain) - 1 /\ k \in 2 .. Len(chain)
    BY <1>2, <1>11
  <2> QED
    BY <1>2, <1>11, <2>1, <2>2, <2>3, <2>4, MergeKeepsTotal
<1>13. End' = FirstBlock
  <2>1. End = FirstBlock
    BY <1>2 DEF DirInv
  <2>2. End' = Total(chain')
    BY DEF Offset, End, OffsetOf, IsOffset, Total, Last
  <2> QED
    BY <1>12, <2>1, <2>2, EndIsTotal
<1>14. EntriesFit'
  <2>1. \A i \in 1 .. Last : EntryBytes(chain[i].name) <= chain[i].rec_len
    BY DEF DirInv, EntriesFit
  <2>2. EntryBytes(chain'[k - 1].name) <= chain'[k - 1].rec_len
    <3>1. EntryBytes(chain[k - 1].name) <= chain[k - 1].rec_len
      BY <1>4, <2>1
    <3>2. chain[k - 1].name \in Names
      BY <1>3, <1>4 DEF EntryType, Names
    <3>3. EntryBytes(chain[k - 1].name) \in Nat
      BY <3>2, EntryBytesFacts
    <3> QED
      BY <1>0, <1>5, <1>8, <3>1, <3>3
  <2>3. \A j \in 1 .. Last - 1 : EntryBytes(chain'[j].name) <= chain'[j].rec_len
    BY <1>9, <2>1, <2>2
  <2>4. Last' = Last - 1
    BY <1>11 DEF Last
  <2> QED
    BY <2>3, <2>4 DEF EntriesFit
<1>15. text' \in [0 .. BlockBytes - 1 -> Byte]
  <2>1. text \in [0 .. BlockBytes - 1 -> Byte] /\ 0 \in Byte
    BY DEF DirInv, TypeOK, Byte
  <2> QED
    BY <1>1, <2>1
<1> QED
  BY <1>11, <1>13, <1>14, <1>15 DEF DirInv, TypeOK

LEMMA NextStep == DirInv /\ [Next]_vars => DirInv'
<1> SUFFICES ASSUME DirInv, [Next]_vars PROVE DirInv'
  OBVIOUS
<1>1. CASE behind' \in Memory /\ Initialize
  BY <1>1, InitializeStep
<1>2. CASE behind' \in Memory /\ \E n \in Name : Delete(n)
  BY <1>2, DeleteStep
<1>3. CASE behind' \in Memory /\ \E n \in Name, ino \in Inode : Create(n, ino)
  BY <1>3, CreateStep
<1>4. CASE UNCHANGED vars
  BY <1>4 DEF vars, DirInv, TypeOK, EntriesFit, End, Offset, Last
<1> QED
  BY <1>1, <1>2, <1>3, <1>4 DEF Next

LEMMA Invariance == Spec => []DirInv
  BY InitHolds, NextStep, PTL DEF Spec

-----------------------------------------------------------------------------
(* Lookups.                                                                *)

(* An inode that a file may get has one entry at most, and the names files *)
(* have belong to such inodes.                                             *)
OneEntry ==
    /\ \A i \in 1 .. Last : chain[i].name \in Name => chain[i].ino \in Inode
    /\ \A i, j \in 1 .. Last :
         (chain[i].ino \in Inode /\ chain[i].ino = chain[j].ino) => i = j

(* What a creation does to the entries there are.                          *)
LEMMA CreateEntries ==
    ASSUME DirInv, behind' \in Memory, NEW n \in Name, NEW ino \in Inode, Create(n, ino)
    PROVE  /\ Last \in Nat \ {0} /\ Last' = Last + 1 /\ chain' \in Seq(Lengths)
           /\ chain'[Last].rec_len = EntryBytes(chain[Last].name)
           /\ \A i \in 1 .. Last : /\ chain'[i].name = chain[i].name
                                   /\ chain'[i].ino = chain[i].ino
                                   /\ Offset'[i] = Offset[i]
           /\ chain'[Last + 1].name = n /\ chain'[Last + 1].ino = ino
<1> DEFINE used == EntryBytes(chain[Last].name)
           e == [name |-> n, ino |-> ino, rec_len |-> chain[Last].rec_len - used]
           c == [chain EXCEPT ![Last].rec_len = used]
<1>1. /\ chain \in Seq(EntryType) /\ chain \in Seq(Lengths) /\ chain # <<>>
      /\ Last = Len(chain) /\ Last \in Nat \ {0} /\ Last \in 1 .. Last
  BY TypedLengths, LenProperties, EmptySeq DEF DirInv, TypeOK, Create, Last
<1>2. \A i \in 1 .. Last : chain[i] \in EntryType
  BY <1>1, ElementOfSeq
<1>3. /\ used \in Nat \ {0} /\ used <= chain[Last].rec_len
      /\ chain[Last].rec_len \in 1 .. BlockBytes /\ BlockBytes \in Nat
  <2>1. chain[Last] \in EntryType
    BY <1>1, <1>2
  <2>2. used \in Nat /\ used >= 1
    BY <2>1, EntryBytesFacts DEF EntryType, Names
  <2> QED
    BY <1>1, <2>1, <2>2, DirectoryAssumption DEF EntryType, DirInv, EntriesFit
<1>4. used \in 1 .. BlockBytes
  BY <1>3
<1>5. [chain[Last] EXCEPT !.rec_len = used] \in EntryType
  BY <1>1, <1>2, <1>4 DEF EntryType
<1>6. c = [chain EXCEPT ![Last] = [chain[Last] EXCEPT !.rec_len = used]]
  OBVIOUS
<1>7. c \in Seq(EntryType) /\ Len(c) = Last
  BY <1>1, <1>5, <1>6, ExceptSeq
<1>8. /\ c[Last] = [chain[Last] EXCEPT !.rec_len = used]
      /\ \A i \in 1 .. Last : i # Last => c[i] = chain[i]
  <2>1. \A i \in 1 .. Last : i \in DOMAIN chain
    BY <1>1
  <2> QED
    BY <1>1, <1>6, <2>1
<1>9. \A i \in 1 .. Last : c[i].name = chain[i].name /\ c[i].ino = chain[i].ino
  BY <1>1, <1>2, <1>8 DEF EntryType
<1>10. chain' = Append(c, e) /\ e.name = n /\ e.ino = ino
  BY DEF Create
<1>11. e.rec_len = chain[Last].rec_len - used
  OBVIOUS
<1>12. DirInv'
  BY CreateStep
<1>13. chain' \in Seq(Lengths)
  BY <1>12, TypedLengths DEF DirInv, TypeOK
<1>14. c[Last].rec_len = used
  BY <1>1, <1>2, <1>8 DEF EntryType
<1>15. e \in EntryType
  <2>1. chain[Last].rec_len - used \in 1 .. BlockBytes
    <3>1. used + EntryBytes(n) <= chain[Last].rec_len
      BY DEF Create, Room
    <3>2. EntryBytes(n) \in Nat /\ EntryBytes(n) >= 1
      BY EntryBytesFacts DEF Names
    <3> QED
      BY <1>3, <3>1, <3>2
  <2> QED
    BY <2>1 DEF EntryType
<1> HIDE DEF used, e, c
<1>16. /\ Len(chain') = Last + 1
       /\ \A i \in 1 .. Last : chain'[i] = c[i]
       /\ chain'[Last + 1] = e
  BY <1>7, <1>10, <1>15, AppendProperties
<1>17. Last' = Last + 1
  BY <1>16 DEF Last
<1>18. \A i \in 1 .. Last : OffsetOf(chain')[i] = OffsetOf(chain)[i]
  <2>1. \A i \in 1 .. Len(chain) - 1 : chain'[i] = chain[i]
    BY <1>1, <1>8, <1>16
  <2>2. chain'[Len(chain)].rec_len + chain'[Len(chain) + 1].rec_len = chain[Len(chain)].rec_len
    BY <1>1, <1>3, <1>11, <1>14, <1>16
  <2> QED
    BY <1>1, <1>13, <1>16, <2>1, <2>2, SplitKeepsTotal
<1>19. Offset = OffsetOf(chain) /\ Offset' = OffsetOf(chain')
  BY DEF Offset, OffsetOf, IsOffset, Last
<1>20. chain'[Last].rec_len = EntryBytes(chain[Last].name)
  BY <1>1, <1>14, <1>16 DEF used
<1> QED
  BY <1>1, <1>9, <1>10, <1>13, <1>16, <1>17, <1>18, <1>19, <1>20

(* What a deletion does to the entries there are.                          *)
LEMMA DeleteEntries ==
    ASSUME DirInv, NEW n \in Name, NEW k \in 2 .. Last,
           chain' = [j \in 1 .. Last - 1 |->
               IF j = k - 1 THEN [chain[j] EXCEPT !.rec_len = Merged(k)]
               ELSE IF j < k THEN chain[j] ELSE chain[j + 1]],
           DirInv'
    PROVE  /\ Last \in Nat /\ Last >= 2 /\ Last' = Last - 1
           /\ \A j \in 1 .. Last - 1 :
                /\ chain'[j].name = chain[IF j < k THEN j ELSE j + 1].name
                /\ chain'[j].ino = chain[IF j < k THEN j ELSE j + 1].ino
                /\ Offset'[j] = Offset[IF j < k THEN j ELSE j + 1]
<1>1. /\ chain \in Seq(EntryType) /\ chain \in Seq(Lengths) /\ chain' \in Seq(Lengths)
      /\ Last = Len(chain) /\ Last \in Nat
  BY TypedLengths, LenProperties DEF DirInv, TypeOK, Last
<1>2. Last >= 2 /\ k - 1 \in 1 .. Last - 1 /\ k \in 1 .. Last /\ k \in Nat
  BY <1>1
<1>3. \A j \in 1 .. Last - 1 :
        /\ j = k - 1 => chain'[j] = [chain[j] EXCEPT !.rec_len = Merged(k)]
        /\ (j # k - 1 /\ j < k) => chain'[j] = chain[j]
        /\ ~ (j < k) => chain'[j] = chain[j + 1]
  BY <1>1, <1>2
<1>4. \A j \in 1 .. Last : chain[j] \in EntryType
  BY <1>1, ElementOfSeq
<1>5. Len(chain') = Last - 1
  <2>1. DOMAIN chain' = 1 .. Last - 1
    OBVIOUS
  <2> QED
    BY <1>1, <1>2, <2>1, LenProperties
<1>6. Last' = Last - 1
  BY <1>5 DEF Last
<1>7. ASSUME NEW j \in 1 .. Last - 1
      PROVE  /\ chain'[j].name = chain[IF j < k THEN j ELSE j + 1].name
             /\ chain'[j].ino = chain[IF j < k THEN j ELSE j + 1].ino
  <2>1. CASE j = k - 1
    <3>1. j \in 1 .. Last /\ j < k
      BY <1>1, <1>2, <2>1
    <3>2. chain'[j] = [chain[j] EXCEPT !.rec_len = Merged(k)] /\ chain[j] \in EntryType
      BY <1>3, <1>4, <2>1, <3>1
    <3>3. chain'[j].name = chain[j].name /\ chain'[j].ino = chain[j].ino
      BY <3>2 DEF EntryType
    <3> QED
      BY <3>1, <3>3
  <2>2. CASE j # k - 1
    BY <1>3, <2>2
  <2> QED
    BY <2>1, <2>2
<1>8. chain'[k - 1].rec_len = chain[k - 1].rec_len + chain[k].rec_len
  <2>1. chain'[k - 1] = [chain[k - 1] EXCEPT !.rec_len = Merged(k)]
    BY <1>2, <1>3
  <2>2. chain[k - 1] \in EntryType
    BY <1>1, <1>2, <1>4
  <2> QED
    BY <2>1, <2>2 DEF EntryType, Merged
<1>9. \A j \in 1 .. Last - 1 : OffsetOf(chain')[j] = OffsetOf(chain)[IF j < k THEN j ELSE j + 1]
  <2>1. \A i \in 1 .. k - 2 : chain'[i] = chain[i]
    <3> SUFFICES ASSUME NEW i \in 1 .. k - 2 PROVE chain'[i] = chain[i]
      OBVIOUS
    <3>1. i \in 1 .. Last - 1 /\ i # k - 1 /\ i < k
      BY <1>1, <1>2
    <3> QED
      BY <1>3, <3>1
  <2>2. \A i \in k .. Len(chain) - 1 : chain'[i] = chain[i + 1]
    <3> SUFFICES ASSUME NEW i \in k .. Last - 1 PROVE chain'[i] = chain[i + 1]
      BY <1>1
    <3>1. i \in 1 .. Last - 1 /\ ~ (i < k)
      BY <1>1, <1>2
    <3> QED
      BY <1>3, <3>1
  <2>3. Len(chain') = Len(chain) - 1 /\ k \in 2 .. Len(chain)
    BY <1>1, <1>5
  <2> QED
    BY <1>1, <1>8, <2>1, <2>2, <2>3, MergeKeepsTotal
<1>10. Offset = OffsetOf(chain) /\ Offset' = OffsetOf(chain')
  BY DEF Offset, OffsetOf, IsOffset, Last
<1> QED
  BY <1>1, <1>2, <1>6, <1>7, <1>9, <1>10

LEMMA OneEntryStep == DirInv /\ OneEntry /\ [Next]_vars => OneEntry'
<1> SUFFICES ASSUME DirInv, OneEntry, [Next]_vars PROVE OneEntry'
  OBVIOUS
<1>0. DirInv /\ DirInv' /\ OneEntry
  BY NextStep
<1>1. CASE behind' \in Memory /\ Initialize
  <2>1. chain' = <<[name |-> Dot, ino |-> Self, rec_len |-> EntryBytes(Dot)],
             [name |-> DotDot, ino |-> Parent, rec_len |-> FirstBlock - EntryBytes(Dot)]>>
    BY <1>1 DEF Initialize
  <2>2. Last' = 2 /\ chain'[1].name = Dot /\ chain'[2].name = DotDot
        /\ chain'[1].ino = Self /\ chain'[2].ino = Parent
    BY <2>1 DEF Last
  <2>3. \A i \in 1 .. Last' : chain'[i].name \notin Name /\ chain'[i].ino \notin Inode
    <3>1. \A i \in 1 .. 2 : i = 1 \/ i = 2
      OBVIOUS
    <3>2. Self \notin Inode /\ Parent \notin Inode
      BY DirectoryAssumption
    <3> QED
      BY <2>2, <3>1, <3>2, DotsAreNoNames
  <2> QED
    BY <2>3 DEF OneEntry
<1>2. ASSUME behind' \in Memory, NEW n \in Name, Delete(n) PROVE OneEntry'
  <2>1. PICK k \in 2 .. Last :
          chain' = [j \in 1 .. Last - 1 |->
               IF j = k - 1 THEN [chain[j] EXCEPT !.rec_len = Merged(k)]
               ELSE IF j < k THEN chain[j] ELSE chain[j + 1]]
    BY <1>2 DEF Delete
  <2> DEFINE at(j) == IF j < k THEN j ELSE j + 1
  <2>2. /\ Last \in Nat /\ Last' = Last - 1
        /\ \A j \in 1 .. Last - 1 : /\ chain'[j].name = chain[at(j)].name
                                    /\ chain'[j].ino = chain[at(j)].ino
    BY <1>0, <2>1, DeleteEntries
  <2>3. /\ \A j \in 1 .. Last - 1 : at(j) \in 1 .. Last
        /\ \A i, j \in 1 .. Last - 1 : at(i) = at(j) => i = j
    BY <2>2
  <2> HIDE DEF at
  <2> QED
    BY <1>0, <2>2, <2>3 DEF OneEntry
<1>3. ASSUME behind' \in Memory, NEW n \in Name, NEW ino \in Inode, Create(n, ino) PROVE OneEntry'
  <2>1. /\ Last \in Nat \ {0} /\ Last' = Last + 1
        /\ \A i \in 1 .. Last : /\ chain'[i].name = chain[i].name
                                /\ chain'[i].ino = chain[i].ino
        /\ chain'[Last + 1].name = n /\ chain'[Last + 1].ino = ino
    BY <1>0, <1>3, CreateEntries
  <2>2. \A i \in 1 .. Last : chain[i].ino # ino
    BY <1>3 DEF Create
  <2>3. \A i \in 1 .. Last + 1 : i \in 1 .. Last \/ i = Last + 1
    BY <2>1
  <2> QED
    BY <1>0, <2>1, <2>2, <2>3 DEF OneEntry
<1>4. CASE UNCHANGED vars
  BY <1>0, <1>4 DEF vars, OneEntry, Last
<1> QED
  BY <1>1, <1>2, <1>3, <1>4 DEF Next

-----------------------------------------------------------------------------
(* The bytes of names.                                                     *)

(* Every entry has the bytes of its name in the block.                     *)
Written ==
    \A i \in 1 .. Last : \A k \in 1 .. Len(chain[i].name) :
        text[Offset[i] + Header + k - 1] = chain[i].name[k]

LookInv == DirInv /\ OneEntry /\ Written

(* The bytes that belong to the i-th entry.                                *)
Ends(i) == Offset[i] + EntryBytes(chain[i].name)
Spots(i) == Offset[i] .. Ends(i) - 1

(* The entries lie in the block one behind the other.                      *)
InPlace ==
    \A i \in 1 .. Last :
        /\ chain[i].name \in Names
        /\ Offset[i] \in Nat /\ Ends(i) \in Nat
        /\ Offset[i] + Header + Len(chain[i].name) <= Ends(i)
        /\ Offset[i] + Header < Ends(i)
        /\ Ends(i) <= BlockBytes
        /\ \A j \in 1 .. Last : i < j => Ends(i) <= Offset[j]

LEMMA EntriesInPlace == DirInv => InPlace
<1> SUFFICES ASSUME DirInv, NEW i \in 1 .. Last
             PROVE  /\ chain[i].name \in Names
                    /\ Offset[i] \in Nat /\ Ends(i) \in Nat
                    /\ Offset[i] + Header + Len(chain[i].name) <= Ends(i)
                    /\ Offset[i] + Header < Ends(i)
                    /\ Ends(i) <= BlockBytes
                    /\ \A j \in 1 .. Last : i < j => Ends(i) <= Offset[j]
  BY DEF InPlace
<1>1. /\ chain \in Seq(EntryType) /\ chain \in Seq(Lengths)
      /\ Last = Len(chain) /\ Last \in Nat /\ Offset = OffsetOf(chain)
  BY TypedLengths, LenProperties, EndIsTotal DEF DirInv, TypeOK, Last
<1>2. chain[i] \in EntryType /\ chain[i] \in Lengths
  BY <1>1, ElementOfSeq
<1>3. chain[i].name \in Names /\ chain[i].rec_len \in Nat
  BY <1>2 DEF EntryType, Lengths, Names
<1>4. /\ EntryBytes(chain[i].name) \in Nat /\ Len(chain[i].name) \in Nat
      /\ EntryBytes(chain[i].name) >= Header + Len(chain[i].name)
      /\ EntryBytes(chain[i].name) > Header
  BY <1>3, EntryBytesFacts DEF name_len
<1>5. EntryBytes(chain[i].name) <= chain[i].rec_len
  BY DEF DirInv, EntriesFit
<1>6. \A j \in 1 .. Last + 1 : Offset[j] \in Nat
  BY <1>1, OffsetIs
<1>7. \A j \in 1 .. Last + 1 : i < j => Offset[i] + chain[i].rec_len <= Offset[j]
  BY <1>1, OffsetsOrdered
<1>8. i \in 1 .. Last + 1 /\ Last + 1 \in 1 .. Last + 1 /\ i < Last + 1
  BY <1>1
<1>9. Offset[i] \in Nat /\ Offset[Last + 1] \in Nat
  BY <1>6, <1>8
<1>10. Offset[Last + 1] <= BlockBytes /\ BlockBytes \in Nat
  <2>1. chain # <<>>
    BY <1>1
  <2>2. End = FirstBlock
    BY <2>1 DEF DirInv
  <2> QED
    BY <2>2, <1>9, DirectoryAssumption DEF End
<1>11. Ends(i) \in Nat /\ Ends(i) <= Offset[i] + chain[i].rec_len
  BY <1>3, <1>4, <1>5, <1>9 DEF Ends
<1>12. Ends(i) <= BlockBytes
  <2>1. Offset[i] + chain[i].rec_len <= Offset[Last + 1]
    BY <1>7, <1>8
  <2> QED
    BY <1>3, <1>9, <1>10, <1>11, <2>1
<1>13. ASSUME NEW j \in 1 .. Last, i < j PROVE Ends(i) <= Offset[j]
  <2>1. j \in 1 .. Last + 1
    BY <1>1
  <2>2. Offset[j] \in Nat /\ Offset[i] + chain[i].rec_len <= Offset[j]
    BY <1>6, <1>7, <1>13, <2>1
  <2> QED
    BY <1>3, <1>9, <1>11, <2>2
<1>14. /\ Offset[i] + Header + Len(chain[i].name) <= Ends(i)
       /\ Offset[i] + Header < Ends(i)
  BY <1>4, <1>9 DEF Ends, Header
<1> QED
  BY <1>3, <1>9, <1>11, <1>12, <1>13, <1>14

(* A creation leaves the bytes of the entries there are.                   *)
LEMMA CreateText ==
    ASSUME DirInv, behind' \in Memory, NEW n \in Name, NEW ino \in Inode, Create(n, ino)
    PROVE  /\ \A i \in 1 .. Last : \A q \in Spots(i) : text'[q] = text[q]
           /\ Offset'[Last + 1] = Ends(Last)
           /\ \A k \in 1 .. Len(n) : text'[Ends(Last) + Header + k - 1] = n[k]
<1> DEFINE p == Ends(Last)
           w == EntryAt(p, n, ino)
<1>0. BlockBytes \in Nat /\ n \in Names /\ ino \in InodeNumber
  BY DirectoryAssumption DEF Names
<1>1. /\ Last \in Nat \ {0} /\ Last \in 1 .. Last
      /\ chain \in Seq(EntryType) /\ chain \in Seq(Lengths) /\ Last = Len(chain)
  BY TypedLengths, LenProperties, EmptySeq DEF DirInv, TypeOK, Create, Last
<1>2. p \in Nat
  BY <1>1, EntriesInPlace DEF InPlace
<1>3. text' = Copied(text, w)
  BY DEF Create, Ends
<1>4. text \in [0 .. BlockBytes - 1 -> Byte]
  BY DEF DirInv, TypeOK
<1>5. /\ \A q \in DOMAIN w : q \in p .. p + Header + Len(n) - 1 /\ w[q] \in Byte
      /\ \A k \in 1 .. Len(n) : p + Header + k - 1 \in DOMAIN w /\ w[p + Header + k - 1] = n[k]
  BY <1>0, <1>2, EntryAtIs
<1>6. p + Header + Len(n) <= BlockBytes
  <2>1. Offset[Last] \in Nat /\ Offset[Last] + chain[Last].rec_len = BlockBytes
    <3>1. Len(chain) \in 1 .. Len(chain) + 1 /\ Len(chain) \in 1 .. Len(chain)
      BY <1>1
    <3>2. OffsetOf(chain)[Len(chain)] \in Nat
      BY <1>1, <3>1, OffsetIs
    <3>3. Total(chain) = OffsetOf(chain)[Len(chain)] + chain[Len(chain)].rec_len
      BY <1>1, <3>1, OffsetStep DEF Total
    <3>4. Total(chain) = BlockBytes
      BY EndIsTotal DEF Create
    <3> QED
      BY <1>1, <3>2, <3>3, <3>4, EndIsTotal
  <2>2. EntryBytes(n) >= Header + Len(n) /\ EntryBytes(n) \in Nat /\ Len(n) \in Nat
    BY <1>0, EntryBytesFacts DEF name_len
  <2>3. EntryBytes(chain[Last].name) + EntryBytes(n) <= chain[Last].rec_len
    BY DEF Create, Room
  <2>4. EntryBytes(chain[Last].name) \in Nat /\ chain[Last].rec_len \in Nat
    <3>1. chain[Last] \in EntryType /\ chain[Last] \in Lengths
      BY <1>1, ElementOfSeq
    <3> QED
      BY <3>1, EntryBytesFacts DEF EntryType, Lengths, Names
  <2> QED
    BY <1>0, <2>1, <2>2, <2>3, <2>4 DEF Ends, Header
<1>7. Len(n) \in Nat
  BY <1>0, NamesAre
<1> HIDE DEF p, w
<1>8. \A q \in DOMAIN w : q \in 0 .. BlockBytes - 1 /\ w[q] \in Byte
  BY <1>0, <1>2, <1>5, <1>6, <1>7 DEF Header
<1>9. /\ \A q \in DOMAIN w : text'[q] = w[q]
      /\ \A q \in 0 .. BlockBytes - 1 : q \notin DOMAIN w => text'[q] = text[q]
  BY <1>0, <1>3, <1>4, <1>8, CopiedIs
<1>10. ASSUME NEW i \in 1 .. Last, NEW q \in Spots(i) PROVE text'[q] = text[q]
  <2>1. /\ Offset[i] \in Nat /\ Ends(i) \in Nat /\ Ends(i) <= BlockBytes
        /\ i < Last => Ends(i) <= Offset[Last]
        /\ Offset[Last] \in Nat /\ Offset[Last] + Header < Ends(Last)
    BY <1>1, EntriesInPlace DEF InPlace
  <2>2. q \in 0 .. BlockBytes - 1 /\ q < Ends(i)
    BY <1>0, <2>1 DEF Spots
  <2>3. Ends(i) <= p
    <3>1. CASE i = Last
      BY <2>1, <3>1 DEF p
    <3>2. CASE i # Last
      <4>1. i < Last
        BY <1>1, <3>2
      <4> QED
        BY <1>2, <2>1, <4>1 DEF p, Header
    <3> QED
      BY <3>1, <3>2
  <2>4. ~ (q \in p .. p + Header + Len(n) - 1)
    BY <1>2, <2>1, <2>2, <2>3
  <2> QED
    BY <1>5, <1>9, <2>2, <2>4
<1>11. \A k \in 1 .. Len(n) : text'[p + Header + k - 1] = n[k]
  BY <1>5, <1>9
<1>12. Offset'[Last + 1] = p
  <2>2. /\ chain' \in Seq(Lengths) /\ Last' = Last + 1 /\ Offset'[Last] = Offset[Last]
        /\ chain'[Last].rec_len = EntryBytes(chain[Last].name)
    BY <1>1, CreateEntries
  <2>3. Offset' = OffsetOf(chain')
    BY DEF Offset, OffsetOf, IsOffset, Last
  <2>4. Last \in 1 .. Len(chain')
    BY <1>1, <2>2 DEF Last
  <2>5. OffsetOf(chain')[Last + 1] = OffsetOf(chain')[Last] + chain'[Last].rec_len
    BY <2>2, <2>4, OffsetStep
  <2> QED
    BY <2>2, <2>3, <2>5 DEF p, Ends
<1> QED
  BY <1>10, <1>11, <1>12 DEF p

(* A deletion leaves the bytes of the other entries.                       *)
LEMMA DeleteText ==
    ASSUME DirInv, NEW k \in 1 .. Last,
           text' = [q \in DOMAIN text |->
               IF q \in Offset[k] .. Offset[k] + Header THEN 0 ELSE text[q]],
           NEW i \in 1 .. Last, i # k, NEW q \in Spots(i)
    PROVE  text'[q] = text[q]
<1>1. /\ Offset[i] \in Nat /\ Ends(i) \in Nat /\ Ends(i) <= BlockBytes
      /\ Offset[k] \in Nat /\ Ends(k) \in Nat /\ Offset[k] + Header < Ends(k)
      /\ i < k => Ends(i) <= Offset[k]
      /\ k < i => Ends(k) <= Offset[i]
  BY EntriesInPlace DEF InPlace
<1>2. BlockBytes \in Nat /\ text \in [0 .. BlockBytes - 1 -> Byte]
  BY DirectoryAssumption DEF DirInv, TypeOK
<1>3. q \in Int /\ Offset[i] <= q /\ q < Ends(i)
  BY <1>1 DEF Spots
<1>4. q \in 0 .. BlockBytes - 1
  BY <1>1, <1>2, <1>3
<1>5. i < k \/ k < i
  <2>1. Last \in Nat
    BY LenProperties DEF DirInv, TypeOK, Last
  <2> QED
    BY <2>1
<1>6. ~ (q \in Offset[k] .. Offset[k] + Header)
  <2>1. CASE i < k
    BY <1>1, <1>3, <2>1
  <2>2. CASE k < i
    BY <1>1, <1>3, <2>2 DEF Header
  <2> QED
    BY <1>5, <2>1, <2>2
<1> QED
  BY <1>2, <1>4, <1>6

(* The bytes of a name are among those of its entry.                       *)
LEMMA NameSpots ==
    ASSUME DirInv, NEW i \in 1 .. Last, NEW k \in 1 .. Len(chain[i].name)
    PROVE  Offset[i] + Header + k - 1 \in Spots(i)
<1> DEFINE L == Len(chain[i].name)
<1>1. /\ chain[i].name \in Names /\ Offset[i] \in Nat /\ Ends(i) \in Nat
      /\ Offset[i] + Header + L <= Ends(i)
  BY EntriesInPlace DEF InPlace
<1>2. L \in Nat /\ Header \in Nat
  BY <1>1, NamesAre DEF Header
<1>3. k \in 1 .. L
  OBVIOUS
<1> HIDE DEF L
<1>4. Offset[i] + Header + k - 1 \in Offset[i] .. Ends(i) - 1
  BY <1>1, <1>2, <1>3
<1> QED
  BY <1>4 DEF Spots

LEMMA WrittenInitialize ==
    ASSUME DirInv, behind' \in Memory, Initialize
    PROVE  Written'
<1> DEFINE one == EntryAt(0, Dot, Self)
           two == EntryAt(12, DotDot, Parent)
           mid == Copied(text, one)
<1>0. BlockBytes \in Nat /\ FirstBlock \in 24 .. BlockBytes
  BY DirectoryAssumption
<1>1. text' = Copied(mid, two)
  BY EntryBytesFacts DEF Initialize
<1>2. Self \in InodeNumber /\ Parent \in InodeNumber /\ Dot \in Names /\ DotDot \in Names
  BY DirectoryAssumption DEF Names
<1>3. Len(Dot) = 1 /\ Len(DotDot) = 2 /\ Header = 8
  BY NamesAre DEF Header
<1>4. /\ \A q \in DOMAIN one : q \in 0 .. 8 /\ one[q] \in Byte
      /\ \A q \in DOMAIN two : q \in 12 .. 21 /\ two[q] \in Byte
  <2>1. /\ \A q \in DOMAIN one : q \in 0 .. 0 + Header + Len(Dot) - 1 /\ one[q] \in Byte
        /\ \A q \in DOMAIN two : q \in 12 .. 12 + Header + Len(DotDot) - 1 /\ two[q] \in Byte
    BY <1>2, EntryAtIs
  <2> HIDE DEF one, two
  <2> QED
    BY <1>3, <2>1
<1>5. /\ 8 \in DOMAIN one /\ one[8] = Dot[1]
      /\ 20 \in DOMAIN two /\ two[20] = DotDot[1]
      /\ 21 \in DOMAIN two /\ two[21] = DotDot[2]
  <2>1. \A k \in 1 .. Len(Dot) : 0 + Header + k - 1 \in DOMAIN one /\ one[0 + Header + k - 1] = Dot[k]
    BY <1>2, EntryAtIs
  <2>2. \A k \in 1 .. Len(DotDot) :
          12 + Header + k - 1 \in DOMAIN two /\ two[12 + Header + k - 1] = DotDot[k]
    BY <1>2, EntryAtIs
  <2> HIDE DEF one, two
  <2>3. 1 \in 1 .. Len(Dot) /\ 1 \in 1 .. Len(DotDot) /\ 2 \in 1 .. Len(DotDot)
    BY <1>3
  <2>4. /\ 0 + Header + 1 - 1 = 8 /\ 12 + Header + 1 - 1 = 20 /\ 12 + Header + 2 - 1 = 21
    BY <1>3
  <2> QED
    BY <2>1, <2>2, <2>3, <2>4
<1>6. text \in [0 .. BlockBytes - 1 -> Byte]
  BY DEF DirInv, TypeOK
<1> HIDE DEF one, two
<1>7. /\ \A q \in DOMAIN one : q \in 0 .. BlockBytes - 1 /\ one[q] \in Byte
      /\ \A q \in DOMAIN two : q \in 0 .. BlockBytes - 1 /\ two[q] \in Byte
  <2>1. 0 .. 8 \subseteq 0 .. BlockBytes - 1 /\ 12 .. 21 \subseteq 0 .. BlockBytes - 1
    BY <1>0
  <2> QED
    BY <1>4, <2>1
<1>8. mid \in [0 .. BlockBytes - 1 -> Byte] /\ \A q \in DOMAIN one : mid[q] = one[q]
  BY <1>0, <1>6, <1>7, CopiedIs
<1> HIDE DEF mid
<1>9. /\ \A q \in DOMAIN two : text'[q] = two[q]
      /\ \A q \in 0 .. BlockBytes - 1 : q \notin DOMAIN two => text'[q] = mid[q]
  BY <1>0, <1>1, <1>7, <1>8, CopiedIs
<1>10. text'[8] = Dot[1] /\ text'[20] = DotDot[1] /\ text'[21] = DotDot[2]
  <2>1. 8 \in 0 .. BlockBytes - 1 /\ 8 \notin DOMAIN two
    BY <1>0, <1>4
  <2> QED
    BY <1>5, <1>8, <1>9, <2>1
<1>11. /\ Last' = 2 /\ chain'[1].name = Dot /\ chain'[2].name = DotDot
       /\ chain'[1].rec_len = 12
  <2>1. chain' = <<[name |-> Dot, ino |-> Self, rec_len |-> EntryBytes(Dot)],
             [name |-> DotDot, ino |-> Parent, rec_len |-> FirstBlock - EntryBytes(Dot)]>>
    BY DEF Initialize
  <2> QED
    BY <2>1, EntryBytesFacts DEF Last
<1>12. Offset'[1] = 0 /\ Offset'[2] = 12
  <2>1. DirInv'
    BY InitializeStep
  <2>2. chain' \in Seq(Lengths) /\ Len(chain') = 2
    BY <1>11, <2>1, TypedLengths DEF DirInv, TypeOK, Last
  <2>3. Offset' = OffsetOf(chain')
    BY DEF Offset, OffsetOf, IsOffset, Last
  <2>4. 1 \in 1 .. Len(chain') /\ 1 + 1 = 2
    BY <2>2
  <2>5. OffsetOf(chain')[1] = 0 /\ OffsetOf(chain')[1 + 1] = OffsetOf(chain')[1] + chain'[1].rec_len
    BY <2>2, <2>4, OffsetStep
  <2> QED
    BY <1>11, <2>3, <2>4, <2>5
<1>13. ASSUME NEW i \in 1 .. 2, NEW k \in 1 .. Len(chain'[i].name)
       PROVE  text'[Offset'[i] + Header + k - 1] = chain'[i].name[k]
  <2>1. CASE i = 1
    <3>4. Len(chain'[i].name) = 1
      BY <1>3, <1>11, <2>1
    <3>1. k = 1
      BY <3>4
    <3>2. Offset'[i] + Header + k - 1 = 8
      BY <1>3, <1>12, <2>1, <3>1
    <3> QED
      BY <1>10, <1>11, <2>1, <3>1, <3>2
  <2>2. CASE i = 2
    <3>4. Len(chain'[i].name) = 2
      BY <1>3, <1>11, <2>2
    <3>1. k = 1 \/ k = 2
      BY <3>4
    <3>2. k = 1 => Offset'[i] + Header + k - 1 = 20
      BY <1>3, <1>12, <2>2
    <3>3. k = 2 => Offset'[i] + Header + k - 1 = 21
      BY <1>3, <1>12, <2>2
    <3> QED
      BY <1>10, <1>11, <2>2, <3>1, <3>2, <3>3
  <2> QED
    BY <2>1, <2>2
<1> QED
  BY <1>11, <1>13 DEF Written

LEMMA WrittenCreate ==
    ASSUME DirInv, Written, behind' \in Memory, NEW n \in Name, NEW ino \in Inode, Create(n, ino)
    PROVE  Written'
<1>1. /\ Last \in Nat \ {0} /\ Last' = Last + 1
      /\ \A i \in 1 .. Last : chain'[i].name = chain[i].name /\ Offset'[i] = Offset[i]
      /\ chain'[Last + 1].name = n
  BY CreateEntries
<1>2. /\ \A i \in 1 .. Last : \A q \in Spots(i) : text'[q] = text[q]
      /\ Offset'[Last + 1] = Ends(Last)
      /\ \A k \in 1 .. Len(n) : text'[Ends(Last) + Header + k - 1] = n[k]
  BY CreateText
<1>3. ASSUME NEW i \in 1 .. Last + 1, NEW k \in 1 .. Len(chain'[i].name)
      PROVE  text'[Offset'[i] + Header + k - 1] = chain'[i].name[k]
  <2>1. CASE i \in 1 .. Last
    <3>1. k \in 1 .. Len(chain[i].name)
      BY <1>1, <2>1
    <3>2. Offset[i] + Header + k - 1 \in Spots(i)
      BY <2>1, <3>1, NameSpots
    <3>3. text[Offset[i] + Header + k - 1] = chain[i].name[k]
      BY <2>1, <3>1 DEF Written
    <3> QED
      BY <1>1, <1>2, <2>1, <3>2, <3>3
  <2>2. CASE i = Last + 1
    BY <1>1, <1>2, <2>2
  <2> QED
    BY <1>1, <2>1, <2>2
<1> QED
  BY <1>1, <1>3 DEF Written

LEMMA WrittenDelete ==
    ASSUME DirInv, Written, behind' \in Memory, NEW n \in Name, Delete(n)
    PROVE  Written'
<1>1. PICK k \in 2 .. Last :
        /\ chain' = [j \in 1 .. Last - 1 |->
               IF j = k - 1 THEN [chain[j] EXCEPT !.rec_len = Merged(k)]
               ELSE IF j < k THEN chain[j] ELSE chain[j + 1]]
        /\ text' = [q \in DOMAIN text |->
               IF q \in Offset[k] .. Offset[k] + Header THEN 0 ELSE text[q]]
  BY DEF Delete
<1> DEFINE at(j) == IF j < k THEN j ELSE j + 1
<1>2. /\ Last \in Nat /\ Last' = Last - 1
      /\ \A j \in 1 .. Last - 1 : /\ chain'[j].name = chain[at(j)].name
                                  /\ Offset'[j] = Offset[at(j)]
  <2>1. DirInv'
    BY DeleteStep
  <2> QED
    BY <1>1, <2>1, DeleteEntries
<1>3. k \in 1 .. Last /\ \A j \in 1 .. Last - 1 : at(j) \in 1 .. Last /\ at(j) # k
  BY <1>2
<1> HIDE DEF at
<1>4. ASSUME NEW j \in 1 .. Last - 1, NEW m \in 1 .. Len(chain'[j].name)
      PROVE  text'[Offset'[j] + Header + m - 1] = chain'[j].name[m]
  <2>1. at(j) \in 1 .. Last /\ at(j) # k /\ m \in 1 .. Len(chain[at(j)].name)
    BY <1>2, <1>3
  <2>2. Offset[at(j)] + Header + m - 1 \in Spots(at(j))
    BY <2>1, NameSpots
  <2>3. text'[Offset[at(j)] + Header + m - 1] = text[Offset[at(j)] + Header + m - 1]
    BY <1>1, <1>3, <2>1, <2>2, DeleteText
  <2>4. text[Offset[at(j)] + Header + m - 1] = chain[at(j)].name[m]
    BY <2>1 DEF Written
  <2> QED
    BY <1>2, <2>3, <2>4
<1> QED
  BY <1>2, <1>4 DEF Written

LEMMA LookStep == LookInv /\ [Next]_vars => LookInv'
<1> SUFFICES ASSUME LookInv, [Next]_vars PROVE LookInv'
  OBVIOUS
<1>1. DirInv /\ OneEntry /\ Written
  BY DEF LookInv
<1>2. DirInv' /\ OneEntry'
  BY <1>1, NextStep, OneEntryStep
<1>3. Written'
  <2>1. CASE behind' \in Memory /\ Initialize
    BY <1>1, <2>1, WrittenInitialize
  <2>2. CASE behind' \in Memory /\ \E n \in Name : Delete(n)
    BY <1>1, <2>2, WrittenDelete
  <2>3. CASE behind' \in Memory /\ \E n \in Name, ino \in Inode : Create(n, ino)
    BY <1>1, <2>3, WrittenCreate
  <2>4. CASE UNCHANGED vars
    BY <1>1, <2>4 DEF vars, Written, Last, Offset
  <2> QED
    BY <2>1, <2>2, <2>3, <2>4 DEF Next
<1> QED
  BY <1>2, <1>3 DEF LookInv

LEMMA LookInvariance == Spec => []LookInv
<1>1. Init => LookInv
  <2> SUFFICES ASSUME Init PROVE OneEntry /\ Written
    BY InitHolds DEF LookInv
  <2>1. Last = 0
    BY DEF Init, Last
  <2> QED
    BY <2>1 DEF OneEntry, Written
<1> QED
  BY <1>1, LookStep, PTL DEF Spec

-----------------------------------------------------------------------------
(* Lookups.                                                                *)

(* Where strcmp expects the zero byte behind the name n of the i-th entry. *)
Behind(i, n) == Offset[i] + Header + Len(n)

(* The entry of a name that does not fill it has a byte for it.            *)
LEMMA BehindName ==
    ASSUME DirInv, NEW n \in Name, Apart(n), NEW i \in 1 .. Last, chain[i].name = n
    PROVE  Behind(i, n) \in Spots(i) /\ Behind(i, n) < BlockBytes
<1>1. Offset[i] \in Nat /\ Ends(i) \in Nat /\ Ends(i) <= BlockBytes
  BY EntriesInPlace DEF InPlace
<1>2. n \in Names /\ Len(n) \in Nat /\ Len(n) % 4 # 0
  BY NamesAre DEF Names, Apart
<1>3. \A k \in Nat : k % 4 # 0 => 8 + k < ((8 + k + 3) \div 4) * 4
  OBVIOUS
<1>4. Header + Len(n) < EntryBytes(n) /\ EntryBytes(n) \in Nat
  <2>1. EntryBytes(n) \in Nat
    BY <1>2, EntryBytesFacts
  <2> QED
    BY <1>2, <1>3, <2>1 DEF EntryBytes, Header, name_len
<1>5. Ends(i) = Offset[i] + EntryBytes(n)
  BY DEF Ends
<1> QED
  <2>1. Header \in Nat /\ BlockBytes \in Nat
    BY DirectoryAssumption DEF Header
  <2> DEFINE L == Len(n)
             E == EntryBytes(n)
  <2> HIDE DEF L, E
  <2>2. L \in Nat /\ E \in Nat /\ Header + L < E
    BY <1>2, <1>4 DEF L, E
  <2>3. Ends(i) = Offset[i] + E
    BY <1>5 DEF E
  <2>4. Offset[i] + Header + L \in Offset[i] .. Ends(i) - 1 /\ Offset[i] + Header + L < BlockBytes
    BY <1>1, <2>1, <2>2, <2>3
  <2> QED
    BY <2>4 DEF L, Behind, Spots

(* strcmp takes the bytes of an entry for one string.                      *)
LEMMA ReadsOne ==
    ASSUME NEW m \in Names, NEW n \in Names, NEW p \in Nat, Reads(p, m), Reads(p, n)
    PROVE  m = n
<1>1. /\ m \in Seq(Byte \ {0}) /\ n \in Seq(Byte \ {0}) /\ Len(m) \in Nat /\ Len(n) \in Nat
      /\ \A k \in 1 .. Len(m) : m[k] # 0
      /\ \A k \in 1 .. Len(n) : n[k] # 0
  BY NamesAre
<1>2. /\ \A k \in 1 .. Len(m) : At(p + Header + k - 1) = m[k]
      /\ At(p + Header + Len(m)) = 0
      /\ \A k \in 1 .. Len(n) : At(p + Header + k - 1) = n[k]
      /\ At(p + Header + Len(n)) = 0
  BY DEF Reads
<1>3. ~ (Len(m) < Len(n))
  <2> SUFFICES ASSUME Len(m) < Len(n) PROVE FALSE
    OBVIOUS
  <2>1. Len(m) + 1 \in 1 .. Len(n) /\ p + Header + (Len(m) + 1) - 1 = p + Header + Len(m)
    BY <1>1 DEF Header
  <2> QED
    BY <1>1, <1>2, <2>1
<1>4. ~ (Len(n) < Len(m))
  <2> SUFFICES ASSUME Len(n) < Len(m) PROVE FALSE
    OBVIOUS
  <2>1. Len(n) + 1 \in 1 .. Len(m) /\ p + Header + (Len(n) + 1) - 1 = p + Header + Len(n)
    BY <1>1 DEF Header
  <2> QED
    BY <1>1, <1>2, <2>1
<1>5. Len(m) = Len(n)
  BY <1>1, <1>3, <1>4
<1>6. \A k \in 1 .. Len(m) : m[k] = n[k]
  BY <1>2, <1>5
<1> QED
  BY <1>1, <1>5, <1>6, SeqEqual

(* A name that no other begins is found where an entry of it ends with a   *)
(* zero byte, and nowhere else.                                            *)
Found(n) == {i \in 1 .. Last : chain[i].name = n /\ text[Behind(i, n)] = 0}

MatchesFound == \A n \in Name : Apart(n) => Matches(n) = Found(n)

LEMMA MatchesAreFound == LookInv => MatchesFound
<1> SUFFICES ASSUME LookInv, NEW n \in Name, Apart(n) PROVE Matches(n) = Found(n)
  BY DEF MatchesFound
<1>0. DirInv /\ Written /\ n \in Names /\ Len(n) \in Nat \ {0} /\ BlockBytes \in Nat
  BY NamesAre, DirectoryAssumption DEF LookInv, Names
<1>1. ASSUME NEW i \in 1 .. Last, NEW q \in Spots(i) PROVE At(q) = text[q]
  <2>1. Offset[i] \in Nat /\ Ends(i) \in Nat /\ Ends(i) <= BlockBytes
    BY <1>0, EntriesInPlace DEF InPlace
  <2>2. q < BlockBytes
    BY <1>0, <2>1 DEF Spots
  <2> QED
    BY <2>2 DEF At
<1>2. ASSUME NEW i \in 1 .. Last, NEW k \in 1 .. Len(chain[i].name)
      PROVE  At(Offset[i] + Header + k - 1) = chain[i].name[k]
  <2>1. Offset[i] + Header + k - 1 \in Spots(i)
    BY <1>0, NameSpots
  <2> QED
    BY <1>0, <1>1, <2>1 DEF Written
<1>3. ASSUME NEW i \in 1 .. Last, Reads(Offset[i], n) PROVE chain[i].name = n
  <2> DEFINE m == chain[i].name
  <2>1. m \in Names /\ Offset[i] \in Nat
    BY <1>0, EntriesInPlace DEF InPlace
  <2>2. /\ Len(m) \in Nat \ {0}
        /\ \A k \in 1 .. Len(m) : At(Offset[i] + Header + k - 1) = m[k] /\ m[k] # 0
    BY <1>2, <2>1, NamesAre
  <2>3. /\ \A k \in 1 .. Len(n) : At(Offset[i] + Header + k - 1) = n[k]
        /\ At(Offset[i] + Header + Len(n)) = 0
    BY <1>3 DEF Reads
  <2> HIDE DEF m
  <2>4. ~ (Len(n) < Len(m))
    <3> SUFFICES ASSUME Len(n) < Len(m) PROVE FALSE
      OBVIOUS
    <3>1. Len(n) + 1 \in 1 .. Len(m)
          /\ Offset[i] + Header + (Len(n) + 1) - 1 = Offset[i] + Header + Len(n)
      BY <1>0, <2>1, <2>2 DEF Header
    <3> QED
      BY <2>2, <2>3, <3>1
  <2>5. Len(m) <= Len(n)
    BY <1>0, <2>2, <2>4
  <2>6. \A k \in 1 .. Len(m) : n[k] = m[k]
    <3>1. \A k \in 1 .. Len(m) : k \in 1 .. Len(n)
      BY <1>0, <2>2, <2>5
    <3> QED
      BY <2>2, <2>3, <3>1
  <2>7. StartsWith(n, m)
    BY <2>5, <2>6 DEF StartsWith
  <2>8. m # Dot /\ m # DotDot
    <3>1. 1 \in 1 .. Len(m) /\ n[1] # 46
      BY <2>2, DirectoryAssumption
    <3>2. n[1] = m[1]
      BY <2>6, <3>1
    <3> QED
      BY <3>1, <3>2, NamesAre
  <2>9. m \in Name
    BY <2>1, <2>8 DEF Names
  <2> QED
    BY <2>7, <2>9 DEF Apart, m
<1>4. ASSUME NEW i \in 1 .. Last, chain[i].name = n
      PROVE  Reads(Offset[i], n) <=> text[Behind(i, n)] = 0
  <2>1. At(Behind(i, n)) = text[Behind(i, n)]
    BY <1>0, <1>1, <1>4, BehindName
  <2>2. \A k \in 1 .. Len(n) : At(Offset[i] + Header + k - 1) = n[k]
    BY <1>2, <1>4
  <2> QED
    BY <2>1, <2>2 DEF Reads, Behind
<1>5. ASSUME NEW i \in 1 .. Last PROVE i \in Matches(n) <=> i \in Found(n)
  BY <1>3, <1>4 DEF Matches, Found
<1> QED
  BY <1>5 DEF Matches, Found

(* The first element of a set of entries.                                  *)
LEMMA FirstOf ==
    ASSUME NEW S, S \subseteq Nat, S # {}
    PROVE  /\ \E x : IsFirst(x, S)
           /\ \A x, y : IsFirst(x, S) /\ IsFirst(y, S) => x = y
<1>1. \E x : IsFirst(x, S)
  BY LeastElement DEF IsFirst
<1>2. ASSUME NEW x, NEW y, IsFirst(x, S), IsFirst(y, S) PROVE x = y
  <2>1. x \in Nat /\ y \in Nat /\ x <= y /\ y <= x
    BY <1>2 DEF IsFirst
  <2> QED
    BY <2>1
<1> QED
  BY <1>1, <1>2

(* A name is looked up in the first entry that matches it.                 *)
LookupIsFirst ==
    \A n, f : Matches(n) \subseteq Nat /\ IsFirst(f, Matches(n)) => Lookup(n) = chain[f].ino

LEMMA LookupIs == LookupIsFirst
<1> SUFFICES ASSUME NEW n, NEW f, Matches(n) \subseteq Nat, IsFirst(f, Matches(n))
             PROVE  Lookup(n) = chain[f].ino
  BY DEF LookupIsFirst
<1> DEFINE S == Matches(n)
<1>1. S # {} /\ S \subseteq Nat /\ IsFirst(f, S)
  BY DEF IsFirst
<1>2. Lookup(n) = chain[CHOOSE i \in S : IsFirst(i, S)].ino
  BY <1>1 DEF Lookup
<1> HIDE DEF S
<1>3. f \in S
  BY <1>1 DEF IsFirst
<1>4. IsFirst(CHOOSE i \in S : IsFirst(i, S), S)
  BY <1>1, <1>3
<1>5. (CHOOSE i \in S : IsFirst(i, S)) = f
  BY <1>1, <1>4, FirstOf
<1> QED
  BY <1>2, <1>5

LEMMA LookupSome ==
    ASSUME DirInv, NEW n, Lookup(n) # 0
    PROVE  \E f \in 1 .. Last : IsFirst(f, Matches(n)) /\ Lookup(n) = chain[f].ino
<1>1. Last \in Nat /\ Matches(n) \subseteq 1 .. Last
  BY LenProperties DEF DirInv, TypeOK, Last, Matches
<1>2. Matches(n) \subseteq Nat /\ Matches(n) # {}
  BY <1>1 DEF Lookup
<1>3. PICK f : IsFirst(f, Matches(n))
  BY <1>2, FirstOf
<1>4. f \in Matches(n)
  BY <1>3 DEF IsFirst
<1> QED
  BY <1>1, <1>2, <1>3, <1>4, LookupIs DEF LookupIsFirst

LEMMA CreateKeepsLookups ==
    ASSUME LookInv, LookInv', behind' \in Memory,
           NEW m \in Name, NEW ino \in Inode, Create(m, ino),
           NEW n \in Name, Apart(n), Lookup(n) # 0
    PROVE  Lookup(n)' = Lookup(n)
<1>1. DirInv /\ Matches(n) = Found(n)
  BY MatchesAreFound DEF LookInv, MatchesFound
<1>2. Matches(n)' = Found(n)'
  <2>1. MatchesFound'
    BY MatchesAreFound, PTL
  <2> QED
    BY <2>1 DEF MatchesFound
<1>3. PICK f \in 1 .. Last : IsFirst(f, Matches(n)) /\ Lookup(n) = chain[f].ino
  BY <1>1, LookupSome
<1>4. /\ Last \in Nat \ {0} /\ Last' = Last + 1
      /\ \A i \in 1 .. Last : /\ chain'[i].name = chain[i].name
                              /\ chain'[i].ino = chain[i].ino
                              /\ Offset'[i] = Offset[i]
  BY <1>1, CreateEntries
<1>5. ASSUME NEW i \in 1 .. Last PROVE i \in Matches(n)' <=> i \in Matches(n)
  <2>1. i \in 1 .. Last'
    BY <1>4
  <2>2. i \in Matches(n)' <=> (chain[i].name = n /\ text'[Behind(i, n)] = 0)
    BY <1>2, <1>4, <2>1 DEF Found, Behind
  <2>3. i \in Matches(n) <=> (chain[i].name = n /\ text[Behind(i, n)] = 0)
    BY <1>1 DEF Found
  <2>4. chain[i].name = n => text'[Behind(i, n)] = text[Behind(i, n)]
    BY <1>1, BehindName, CreateText
  <2> QED
    BY <2>2, <2>3, <2>4
<1>6. IsFirst(f, Matches(n)') /\ Matches(n)' \subseteq Nat
  <2>1. f \in Matches(n)' /\ \A y \in Matches(n) : f <= y
    BY <1>3, <1>5 DEF IsFirst
  <2>2. Matches(n)' \subseteq 1 .. Last + 1
    BY <1>4 DEF Matches
  <2>3. \A y \in Matches(n)' : f <= y
    BY <1>4, <1>5, <2>1, <2>2
  <2> QED
    BY <1>4, <2>1, <2>2, <2>3 DEF IsFirst
<1>7. LookupIsFirst'
  BY LookupIs, PTL
<1>8. Lookup(n)' = chain'[f].ino
  BY <1>6, <1>7 DEF IsFirst, LookupIsFirst
<1> QED
  BY <1>3, <1>4, <1>8

LEMMA DeleteKeepsLookups ==
    ASSUME LookInv, LookInv', behind' \in Memory, NEW m \in Name, Delete(m),
           NEW n \in Name, n # m, Apart(n), Lookup(n) # 0
    PROVE  Lookup(n)' = Lookup(n)
<1>1. DirInv /\ OneEntry /\ DirInv' /\ Matches(n) = Found(n)
  BY MatchesAreFound DEF LookInv, MatchesFound
<1>2. Matches(n)' = Found(n)'
  <2>1. MatchesFound'
    BY MatchesAreFound, PTL
  <2> QED
    BY <2>1 DEF MatchesFound
<1>3. PICK f \in 1 .. Last : IsFirst(f, Matches(n)) /\ Lookup(n) = chain[f].ino
  BY <1>1, LookupSome
<1>4. PICK k \in 2 .. Last :
        /\ IsFirst(k, Victims(m))
        /\ chain' = [j \in 1 .. Last - 1 |->
               IF j = k - 1 THEN [chain[j] EXCEPT !.rec_len = Merged(k)]
               ELSE IF j < k THEN chain[j] ELSE chain[j + 1]]
        /\ text' = [q \in DOMAIN text |->
               IF q \in Offset[k] .. Offset[k] + Header THEN 0 ELSE text[q]]
  BY DEF Delete
<1> DEFINE at(j) == IF j < k THEN j ELSE j + 1
<1>5. /\ Last \in Nat /\ Last >= 2 /\ Last' = Last - 1
      /\ \A j \in 1 .. Last - 1 : /\ chain'[j].name = chain[at(j)].name
                                  /\ chain'[j].ino = chain[at(j)].ino
                                  /\ Offset'[j] = Offset[at(j)]
  BY <1>1, <1>4, DeleteEntries
<1>6. k \in 1 .. Last /\ k \in Nat
  BY <1>5
<1>7. f \in Matches(n) /\ chain[f].name = n /\ \A y \in Matches(n) : f <= y
  BY <1>1, <1>3 DEF IsFirst, Found
<1>8. f # k
  <2> SUFFICES ASSUME f = k PROVE FALSE
    OBVIOUS
  <2>1. PICK e \in 1 .. Last : IsFirst(e, Matches(m)) /\ Lookup(m) = chain[e].ino
    BY <1>1, LookupSome DEF Delete
  <2>2. chain[f].ino \in Inode
    BY <1>1, <1>7 DEF OneEntry
  <2>3. chain[k].ino = chain[e].ino
    BY <1>4, <2>1 DEF IsFirst, Victims
  <2>4. e = f
    BY <1>1, <1>6, <2>2, <2>3 DEF OneEntry
  <2>5. Reads(Offset[f], m) /\ Reads(Offset[f], n)
    BY <1>7, <2>1, <2>4 DEF IsFirst, Matches
  <2>6. Offset[f] \in Nat /\ m \in Names /\ n \in Names
    BY <1>1, EntriesInPlace DEF InPlace, Names
  <2> QED
    BY <2>5, <2>6, ReadsOne
<1>9. /\ \A j \in 1 .. Last - 1 : at(j) \in 1 .. Last /\ at(j) # k
      /\ \A i, j \in 1 .. Last - 1 : i < j => at(i) < at(j)
      /\ \A i \in 1 .. Last : i # k => \E j \in 1 .. Last - 1 : at(j) = i
  <2>1. \A j \in 1 .. Last - 1 : at(j) \in 1 .. Last /\ at(j) # k
    BY <1>5, <1>6
  <2>2. \A i, j \in 1 .. Last - 1 : i < j => at(i) < at(j)
    BY <1>5, <1>6
  <2>3. ASSUME NEW i \in 1 .. Last, i # k PROVE \E j \in 1 .. Last - 1 : at(j) = i
    <3>1. CASE i < k
      <4>1. i \in 1 .. Last - 1 /\ at(i) = i
        BY <1>5, <1>6, <3>1
      <4> QED
        BY <4>1
    <3>2. CASE i > k
      <4>1. i - 1 \in 1 .. Last - 1 /\ at(i - 1) = i
        BY <1>5, <1>6, <3>2
      <4> QED
        BY <4>1
    <3> QED
      BY <1>5, <1>6, <2>3, <3>1, <3>2
  <2> QED
    BY <2>1, <2>2, <2>3
<1> HIDE DEF at
<1>10. ASSUME NEW j \in 1 .. Last - 1 PROVE j \in Matches(n)' <=> at(j) \in Matches(n)
  <2>1. at(j) \in 1 .. Last /\ at(j) # k /\ j \in 1 .. Last'
    BY <1>5, <1>9
  <2>2. j \in Matches(n)' <=> (chain[at(j)].name = n /\ text'[Behind(at(j), n)] = 0)
    BY <1>2, <1>5, <2>1 DEF Found, Behind
  <2>3. at(j) \in Matches(n) <=> (chain[at(j)].name = n /\ text[Behind(at(j), n)] = 0)
    BY <1>1, <2>1 DEF Found
  <2>4. chain[at(j)].name = n => text'[Behind(at(j), n)] = text[Behind(at(j), n)]
    BY <1>1, <1>4, <1>6, <2>1, BehindName, DeleteText
  <2> QED
    BY <2>2, <2>3, <2>4
<1>11. PICK g \in 1 .. Last - 1 : at(g) = f
  BY <1>8, <1>9
<1>12. IsFirst(g, Matches(n)') /\ Matches(n)' \subseteq Nat
  <2>1. g \in Matches(n)'
    BY <1>7, <1>10, <1>11
  <2>2. Matches(n)' \subseteq 1 .. Last - 1
    BY <1>5 DEF Matches
  <2>3. ASSUME NEW y \in Matches(n)' PROVE g <= y
    <3>1. y \in 1 .. Last - 1 /\ at(y) \in Matches(n)
      BY <1>10, <2>2
    <3>2. f <= at(y) /\ at(y) \in Int /\ f \in Int
      BY <1>5, <1>7, <1>9, <3>1
    <3>3. y < g => at(y) < f
      BY <1>9, <1>11, <3>1
    <3> QED
      BY <1>5, <3>1, <3>2, <3>3
  <2> QED
    BY <1>5, <2>1, <2>2, <2>3 DEF IsFirst
<1>13. LookupIsFirst'
  BY LookupIs, PTL
<1>14. Lookup(n)' = chain'[g].ino
  BY <1>12, <1>13 DEF IsFirst, LookupIsFirst
<1> QED
  BY <1>3, <1>5, <1>11, <1>14

-----------------------------------------------------------------------------
(* A directory is always a chain of entries that are inside its block, and *)
(* no byte behind the block is written.                                    *)
THEOREM TypeCorrect == Spec => []TypeOK
<1>1. DirInv => TypeOK
  BY DEF DirInv
<1> QED
  BY Invariance, <1>1, PTL

(* No entry is longer than the room it has.                                *)
THEOREM Fit == Spec => []EntriesFit
<1>1. DirInv => EntriesFit
  BY DEF DirInv
<1> QED
  BY Invariance, <1>1, PTL

(* Where ext2_initialize_directory divides as many bytes as a block has,   *)
(* every walk of the directory ends at the end of its block.               *)
THEOREM WalksEnd ==
    ASSUME FirstBlock = BlockBytes
    PROVE  Spec => []WalkEnds
<1>1. DirInv => WalkEnds
  BY DEF DirInv, WalkEnds
<1> QED
  BY Invariance, <1>1, PTL

(* A name that leads to a file leads to it until the name is deleted,      *)
(* whatever the block held before and whatever else is created and deleted *)
(* in the directory: if the name does not fill its entry, whose next byte  *)
(* could be that of another, and no other name begins it, which could be   *)
(* written where it has left bytes behind.                                 *)
THEOREM NamesKeepLeading == Spec => LookupStable
<1>1. ASSUME LookInv, [Next]_vars, ~ UNCHANGED vars,
             NEW n \in Name, Apart(n), Lookup(n) # 0, Lookup(n)' # Lookup(n)
      PROVE  Delete(n)
  <2>0. LookInv'
    BY <1>1, LookStep
  <2>1. CASE behind' \in Memory /\ Initialize
    <3>1. Matches(n) = {}
      BY <2>1 DEF Initialize, Matches, Last
    <3> QED
      BY <1>1, <3>1 DEF Lookup
  <2>2. CASE behind' \in Memory /\ \E m \in Name : Delete(m)
    BY <1>1, <2>0, <2>2, DeleteKeepsLookups
  <2>3. CASE behind' \in Memory /\ \E m \in Name, ino \in Inode : Create(m, ino)
    BY <1>1, <2>0, <2>3, CreateKeepsLookups
  <2> QED
    BY <1>1, <2>1, <2>2, <2>3 DEF Next
<1>2. LookInv /\ [Next]_vars =>
        [\A n \in Name :
            (Apart(n) /\ Lookup(n) # 0 /\ Lookup(n)' # Lookup(n)) => Delete(n)]_vars
  BY <1>1
<1> QED
  BY <1>2, LookInvariance, PTL DEF Spec, LookupStable
=============================================================================
