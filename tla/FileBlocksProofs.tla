-------------------------- MODULE FileBlocksProofs --------------------------
(***************************************************************************)
(* Theorems of module FileBlocks, for every block size, any number of      *)
(* direct pointers and of entries in a pointer block, and all sizes.       *)
(***************************************************************************)
EXTENDS FileBlocks, FiniteSetTheorems, Basics, TLAPS

-----------------------------------------------------------------------------
(* The elements of a set of numbers in ascending order.                    *)

Rank(S, x) == Cardinality({y \in S : y < x})

LEMMA RankIs ==
    ASSUME NEW S \in SUBSET Nat, IsFiniteSet(S), NEW x \in S
    PROVE  /\ IsFiniteSet({y \in S : y < x}) /\ Cardinality(S) \in Nat
           /\ Rank(S, x) \in 0 .. Cardinality(S) - 1
<1>1. {y \in S : y < x} \in SUBSET (S \ {x})
  OBVIOUS
<1>2. IsFiniteSet(S \ {x}) /\ Cardinality(S \ {x}) = Cardinality(S) - 1
  BY FS_RemoveElement
<1>3. IsFiniteSet({y \in S : y < x}) /\ Rank(S, x) <= Cardinality(S) - 1
  BY <1>1, <1>2, FS_Subset DEF Rank
<1>4. Rank(S, x) \in Nat /\ Cardinality(S) \in Nat
  BY <1>3, FS_CardinalityType DEF Rank
<1> QED
  BY <1>3, <1>4

LEMMA RankTyped ==
    ASSUME NEW S \in SUBSET Nat, IsFiniteSet(S)
    PROVE  \A x \in S : Rank(S, x) \in Nat /\ Rank(S, x) + 1 \in 1 .. Cardinality(S)
<1> SUFFICES ASSUME NEW x \in S
             PROVE  Rank(S, x) \in Nat /\ Rank(S, x) + 1 \in 1 .. Cardinality(S)
  OBVIOUS
<1>1. Rank(S, x) \in 0 .. Cardinality(S) - 1 /\ Cardinality(S) \in Nat
  BY RankIs
<1> QED
  BY <1>1

LEMMA RankRises ==
    ASSUME NEW S \in SUBSET Nat, IsFiniteSet(S), NEW x \in S, NEW z \in S, x < z
    PROVE  Rank(S, x) < Rank(S, z)
<1> DEFINE A == {y \in S : y < x}
           C == {y \in S : y < z}
<1>1. IsFiniteSet(C) /\ IsFiniteSet(A)
  BY RankIs
<1>2. A \in SUBSET C /\ x \in C /\ x \notin A
  <2>1. \A y \in S : y \in Nat
    OBVIOUS
  <2>2. \A y \in S : y < x => y < z
    BY <2>1
  <2>3. ~(x < x)
    BY <2>1
  <2>4. A \subseteq C
    BY <2>2
  <2>5. x \in C /\ x \notin A
    BY <2>3
  <2> QED
    BY <2>4, <2>5
<1> HIDE DEF A, C
<1>3. Cardinality(A) <= Cardinality(C) /\ (Cardinality(C) = Cardinality(A) => C = A)
  BY <1>1, <1>2, FS_Subset
<1>4. Cardinality(A) \in Nat /\ Cardinality(C) \in Nat
  BY <1>1, FS_CardinalityType
<1>5. Cardinality(A) < Cardinality(C)
  BY <1>2, <1>3, <1>4
<1> QED
  BY <1>5 DEF Rank, A, C

(* There is an element of every rank: the least above the one before.      *)
LEMMA RankTaken ==
    ASSUME NEW S \in SUBSET Nat, IsFiniteSet(S), NEW k \in 1 .. Cardinality(S)
    PROVE  \E x \in S : Rank(S, x) = k - 1
<1> DEFINE n == Cardinality(S)
           Good == {j \in 0 .. n - 1 : \E x \in S : Rank(S, x) = j}
<1>9. \A y \in S : y \in Nat
  OBVIOUS
<1>1. n \in Nat /\ n - 1 \in Nat /\ k - 1 \in 0 .. n - 1
  BY FS_CardinalityType
<1>2. 0 \in Good
  <2>1. S # {}
    BY <1>1, FS_EmptySet
  <2>2. PICK m \in S : \A y \in S : m <= y
    BY <2>1, LeastElement
  <2>3. {y \in S : y < m} = {}
    <3>1. ASSUME NEW y \in S PROVE ~(y < m)
      <4>1. y \in Nat /\ m \in Nat /\ m <= y
        BY <1>9, <2>2
      <4> QED
        BY <4>1
    <3> QED
      BY <3>1
  <2>4. Rank(S, m) = 0
    BY <2>3, FS_EmptySet DEF Rank
  <2> QED
    BY <1>1, <2>4
<1>3. ASSUME NEW i \in 0 .. (n - 1) - 1, i \in Good PROVE i + 1 \in Good
  <2>1. PICK x \in S : Rank(S, x) = i
    BY <1>3
  <2> DEFINE A == {y \in S : y < x}
             T == {y \in S : x < y}
  <2>2. IsFiniteSet(A) /\ Cardinality(A) = i /\ x \notin A
    BY <2>1, RankIs DEF Rank
  <2>3. IsFiniteSet(A \cup {x}) /\ Cardinality(A \cup {x}) = i + 1
    <3> HIDE DEF A
    <3> QED
      BY <2>2, FS_AddElement
  <2>4. T # {}
    <3> SUFFICES ASSUME T = {} PROVE FALSE
      OBVIOUS
    <3>1. S = A \cup {x}
      <4>1. ASSUME NEW y \in S PROVE y \in A \cup {x}
        <5>1. y \in Nat /\ x \in Nat /\ ~(x < y)
          BY <1>9
        <5>2. y < x \/ y = x
          BY <5>1
        <5> QED
          BY <5>2
      <4> QED
        BY <4>1
    <3> HIDE DEF A, T
    <3> QED
      BY <1>1, <2>3, <3>1
  <2>5. PICK z \in T : \A y \in T : z <= y
    <3>1. T \in SUBSET Nat
      OBVIOUS
    <3> HIDE DEF T
    <3> QED
      BY <2>4, <3>1, LeastElement
  <2>6. {y \in S : y < z} = A \cup {x}
    <3>1. ASSUME NEW y \in S PROVE y < z <=> y < x \/ y = x
      <4>1. y \in Nat /\ x \in Nat /\ z \in Nat /\ x < z
        BY <1>9, <2>5
      <4>2. x < y => z <= y
        BY <2>5
      <4> QED
        BY <4>1, <4>2
    <3> QED
      BY <3>1
  <2>7. Rank(S, z) = i + 1 /\ z \in S
    BY <2>3, <2>5, <2>6 DEF Rank
  <2>8. i + 1 \in 0 .. n - 1
    BY <1>1
  <2> QED
    BY <2>7, <2>8
<1> HIDE DEF Good, n
<1>4. 0 .. n - 1 \subseteq Good
  BY <1>1, <1>2, <1>3, Induction
<1> QED
  BY <1>1, <1>4 DEF Good

LEMMA KthIs ==
    ASSUME NEW S \in SUBSET Nat, IsFiniteSet(S), NEW k \in 1 .. Cardinality(S)
    PROVE  Kth(S, k) \in S /\ Rank(S, Kth(S, k)) = k - 1
<1>1. \E x \in S : Cardinality({y \in S : y < x}) = k - 1
  BY RankTaken DEF Rank
<1> QED
  BY <1>1 DEF Kth, Rank

LEMMA KthDiffer ==
    ASSUME NEW S \in SUBSET Nat, IsFiniteSet(S),
           NEW k \in 1 .. Cardinality(S), NEW l \in 1 .. Cardinality(S),
           Kth(S, k) = Kth(S, l)
    PROVE  k = l
<1>1. Rank(S, Kth(S, k)) = k - 1 /\ Rank(S, Kth(S, l)) = l - 1
  BY KthIs
<1>2. Cardinality(S) \in Nat
  BY FS_CardinalityType
<1> QED
  BY <1>1, <1>2

-----------------------------------------------------------------------------
(* How a growth by n blocks is spread over the pointers.                   *)

LEMMA Geometry ==
    /\ BlockSize \in Nat \ {0} /\ Direct \in Nat \ {0} /\ Entries \in Nat \ {0}
    /\ BlockNumber \in Nat /\ Entries + 1 \in Nat \ {0}
    /\ Entries * Entries \in Nat
    /\ IsFiniteSet(Block) /\ Block \subseteq Nat /\ 0 \notin Block
    /\ Slot = 0 .. Direct + 1 /\ Single = Direct /\ Double = Direct + 1
    /\ Entry = 1 .. Entries
<1>1. IsFiniteSet(1 .. BlockNumber)
  BY MapAssumption, FS_Interval
<1> QED
  BY <1>1, MapAssumption DEF Block, Slot, Single, Double, Entry

LEMMA Empties ==
    ASSUME NEW f
    PROVE  /\ EmptySlots(f) \in SUBSET Nat /\ EmptySlots(f) \subseteq 0 .. Direct - 1
           /\ IsFiniteSet(EmptySlots(f)) /\ Cardinality(EmptySlots(f)) \in 0 .. Direct
<1>1. IsFiniteSet(0 .. Direct - 1) /\ Cardinality(0 .. Direct - 1) = Direct
  <2>1. 0 \in Int /\ Direct - 1 \in Int /\ ~(0 > Direct - 1) /\ (Direct - 1) - 0 + 1 = Direct
    BY Geometry
  <2> QED
    BY <2>1, FS_Interval
<1>2. EmptySlots(f) \in SUBSET (0 .. Direct - 1)
  BY DEF EmptySlots
<1>3. IsFiniteSet(EmptySlots(f)) /\ Cardinality(EmptySlots(f)) <= Direct
  BY <1>1, <1>2, FS_Subset
<1>4. Cardinality(EmptySlots(f)) \in Nat
  BY <1>3, FS_CardinalityType
<1> QED
  BY <1>2, <1>3, <1>4, Geometry

LEMMA Shares ==
    ASSUME NEW f, NEW n \in Nat
    PROVE  /\ InDirect(f, n) \in 0 .. Cardinality(EmptySlots(f))
           /\ InSingle(f, n) \in 0 .. Entries /\ InDouble(f, n) \in Nat
           /\ InDirect(f, n) + InSingle(f, n) + InDouble(f, n) = n
           /\ InSingle(f, n) > 0 => InDirect(f, n) = Cardinality(EmptySlots(f))
           /\ InSingle(f, n) = 0 => InDirect(f, n) = n
           /\ InDouble(f, n) > 0 => InSingle(f, n) = Entries
           /\ SingleAt(f, n) = InDirect(f, n) + 1
           /\ DoubleAt(f, n) = InDirect(f, n) + InSingle(f, n) + 2
<1> DEFINE c == Cardinality(EmptySlots(f))
           d == InDirect(f, n)
           s == InSingle(f, n)
<1>1. c \in Nat /\ Entries \in Nat \ {0}
  BY Empties, Geometry
<1>2. d \in 0 .. c /\ d \in 0 .. n /\ (d = n \/ d = c)
  BY <1>1 DEF InDirect, LeastOf
<1>3. s = LeastOf(n - d, Entries)
  BY DEF InSingle
<1> HIDE DEF c, d
<1>4. s \in 0 .. Entries /\ s \in 0 .. n - d /\ (s = n - d \/ s = Entries)
  BY <1>1, <1>2, <1>3 DEF LeastOf
<1>5. /\ InDouble(f, n) = n - d - s
      /\ SingleAt(f, n) = d + 1 /\ DoubleAt(f, n) = SingleAt(f, n) + s + 1
  BY DEF InDouble, SingleAt, DoubleAt, d
<1> HIDE DEF s
<1>6. InDouble(f, n) \in Nat /\ d + s + InDouble(f, n) = n /\ DoubleAt(f, n) = d + s + 2
  BY <1>2, <1>4, <1>5
<1>7. s > 0 => d = c
  BY <1>1, <1>2, <1>4
<1>8. s = 0 => d = n
  BY <1>1, <1>2, <1>4
<1>9. InDouble(f, n) > 0 => s = Entries
  BY <1>2, <1>4, <1>5
<1> QED
  BY <1>2, <1>4, <1>5, <1>6, <1>7, <1>8, <1>9 DEF c, d, s

LEMMA InnerIs ==
    ASSUME NEW f, NEW n \in Nat
    PROVE  \E m \in Nat :
              /\ Inner(f, n) = 1 .. m /\ Cardinality(Inner(f, n)) = m
              /\ InDouble(f, n) <= m * Entries /\ m * Entries < InDouble(f, n) + Entries
              /\ InDouble(f, n) = 0 => m = 0
              /\ BelowTriple(f, n) => m <= Entries
<1> DEFINE x == InDouble(f, n)
<1>1. x \in Nat /\ Entries \in Nat \ {0}
  BY Shares, Geometry
<1>2. PICK m \in Nat : m = (x + Entries - 1) \div Entries /\ x <= m * Entries
                       /\ m * Entries < x + Entries
  <2> HIDE DEF x
  <2> QED
    BY <1>1, RoundingUp
<1>3. Inner(f, n) = 1 .. m
  BY <1>2 DEF Inner
<1>4. Cardinality(1 .. m) = m
  <2>1. 1 \in Int /\ m \in Int /\ (1 > m => m = 0) /\ m - 1 + 1 = m
    OBVIOUS
  <2> QED
    BY <2>1, FS_Interval
<1> HIDE DEF x
<1>5. x = 0 => m = 0
  <2> SUFFICES ASSUME x = 0 PROVE m = 0
    OBVIOUS
  <2>1. m * Entries < 1 * Entries
    BY <1>1, <1>2
  <2>2. m < 1
    BY <1>1, <2>1, Multiples
  <2> QED
    BY <2>2
<1>6. x <= Entries * Entries => m <= Entries
  <2> SUFFICES ASSUME x <= Entries * Entries PROVE m <= Entries
    OBVIOUS
  <2>1. m * Entries < Entries * Entries + Entries
    <3>1. m * Entries \in Int /\ Entries * Entries \in Int
      BY <1>1
    <3> QED
      BY <1>1, <1>2, <3>1
  <2> QED
    BY <1>1, <2>1, Multiples
<1> QED
  BY <1>2, <1>3, <1>4, <1>5, <1>6 DEF BelowTriple, x

(* The places of an inner block and its entries in what was granted.       *)
LEMMA InnerPlace ==
    ASSUME NEW f, NEW n \in Nat, NEW q \in Inner(f, n),
           NEW e \in 0 .. Entries, e <= InDouble(f, n) - (q - 1) * Entries \/ e = 0
    PROVE  /\ InnerAt(f, n, q) + e \in DoubleAt(f, n) + 1 .. Taken(f, n)
           /\ InDouble(f, n) > 0 /\ InDouble(f, n) - (q - 1) * Entries > 0
           /\ InnerAt(f, n, q) \in Nat
<1> DEFINE x == InDouble(f, n)
           a == DoubleAt(f, n)
<1>1. PICK m \in Nat :
        /\ Inner(f, n) = 1 .. m /\ Cardinality(Inner(f, n)) = m
        /\ x <= m * Entries /\ m * Entries < x + Entries
        /\ x = 0 => m = 0
  BY InnerIs
<1>2. x \in Nat /\ a \in Nat /\ Entries \in Nat \ {0} /\ q \in 1 .. m /\ q - 1 \in Nat
  BY <1>1, Shares, Geometry, SMTT(30)
<1>3. x > 0
  BY <1>1, <1>2
<1>4. Taken(f, n) = a + m + x
  BY <1>1, <1>3 DEF Taken
<1>5. InnerAt(f, n, q) = a + (q - 1) * (Entries + 1) + 1
  BY DEF InnerAt
<1> HIDE DEF x, a
<1>6. (q - 1) * (Entries + 1) = (q - 1) * Entries + (q - 1) /\ (q - 1) * Entries \in Nat
  BY <1>2
<1>7. (q - 1) * Entries < x
  <2>1. (q - 1) * Entries <= (m - 1) * Entries
    BY <1>2, Multiples
  <2>2. (m - 1) * Entries = m * Entries - 1 * Entries
    BY <1>2, Multiples
  <2>3. m * Entries \in Int /\ (m - 1) * Entries \in Int
    BY <1>2
  <2> QED
    BY <1>1, <1>2, <1>6, <2>1, <2>2, <2>3
<1>8. InnerAt(f, n, q) = a + (q - 1) * Entries + (q - 1) + 1
  BY <1>2, <1>5, <1>6
<1>9. (q - 1) * Entries + e <= x
  <2>1. e <= x - (q - 1) * Entries \/ e = 0
    BY DEF x
  <2> QED
    BY <1>2, <1>6, <1>7, <2>1
<1>10. InnerAt(f, n, q) + e <= a + m + x
  BY <1>2, <1>6, <1>8, <1>9
<1>11. InnerAt(f, n, q) \in Nat /\ InnerAt(f, n, q) + e >= a + 1
  BY <1>2, <1>6, <1>8
<1>12. x - (q - 1) * Entries > 0
  BY <1>2, <1>6, <1>7
<1> QED
  BY <1>2, <1>3, <1>4, <1>10, <1>11, <1>12 DEF x, a

LEMMA InnerPlaceDiffer ==
    ASSUME NEW f, NEW n \in Nat, NEW q \in Nat \ {0}, NEW p \in Nat \ {0},
           NEW e \in 0 .. Entries, NEW d \in 0 .. Entries,
           InnerAt(f, n, q) + e = InnerAt(f, n, p) + d
    PROVE  q = p /\ e = d
<1> DEFINE a == DoubleAt(f, n)
           P == Entries + 1
<1>1. a \in Nat /\ P \in Nat \ {0} /\ q - 1 \in Nat /\ p - 1 \in Nat
  BY Shares, Geometry
<1>2. e \in 0 .. P - 1 /\ d \in 0 .. P - 1
  BY Geometry
<1>3. /\ InnerAt(f, n, q) = a + (q - 1) * P + 1
      /\ InnerAt(f, n, p) = a + (p - 1) * P + 1
  BY DEF InnerAt
<1> HIDE DEF a, P
<1>4. e + (q - 1) * P = d + (p - 1) * P
  <2>1. (q - 1) * P \in Int /\ (p - 1) * P \in Int
    BY <1>1
  <2> QED
    BY <1>1, <1>2, <1>3, <2>1
<1>5. /\ (e + (q - 1) * P) \div P = q - 1 /\ (e + (q - 1) * P) % P = e
  BY <1>1, <1>2, DivUnique
<1>6. /\ (d + (p - 1) * P) \div P = p - 1 /\ (d + (p - 1) * P) % P = d
  BY <1>1, <1>2, DivUnique
<1>7. q - 1 = p - 1 /\ e = d
  BY <1>4, <1>5, <1>6
<1> QED
  BY <1>7

-----------------------------------------------------------------------------
(* The pointers of a file: its slots, and the entries of the blocks they   *)
(* lead to.                                                                *)

Cell ==
    {<<"slot", s, 0>> : s \in Slot} \cup {<<"single", e, 0>> : e \in Entry}
        \cup {<<"inner", q, 0>> : q \in Entry}
        \cup {<<"double", q, e>> : q \in Entry, e \in Entry}

Below(b, e) == IF b = 0 THEN 0 ELSE ptr[b][e]

Value(f, c) ==
    IF c[1] = "slot" THEN i_block[f][c[2]]
    ELSE IF c[1] = "single" THEN Below(i_block[f][Single], c[2])
    ELSE IF c[1] = "inner" THEN Below(i_block[f][Double], c[2])
    ELSE Below(Below(i_block[f][Double], c[2]), c[3])

(* Which of the blocks granted to a growth by n a pointer gets, 0 if none. *)
Grant(f, n, c) ==
    IF c[1] = "slot"
       THEN IF c[2] \in EmptySlots(f)
               THEN LET k == Rank(EmptySlots(f), c[2]) + 1
                    IN  IF k <= InDirect(f, n) THEN k ELSE 0
            ELSE IF c[2] = Single /\ InSingle(f, n) > 0 THEN SingleAt(f, n)
            ELSE IF c[2] = Double /\ InDouble(f, n) > 0 THEN DoubleAt(f, n)
            ELSE 0
    ELSE IF c[1] = "single"
       THEN IF c[2] <= InSingle(f, n) THEN SingleAt(f, n) + c[2] ELSE 0
    ELSE IF c[1] = "inner"
       THEN IF c[2] \in Inner(f, n) THEN InnerAt(f, n, c[2]) ELSE 0
    ELSE IF c[2] \in Inner(f, n) /\ c[3] <= InDouble(f, n) - (c[2] - 1) * Entries
            THEN InnerAt(f, n, c[2]) + c[3]
    ELSE 0

(* The five kinds of pointers take their blocks one kind after the other.  *)
InSlots(f, n, c, k) ==
    \E s \in EmptySlots(f) : /\ c = <<"slot", s, 0>> /\ k = Rank(EmptySlots(f), s) + 1
                             /\ k \in 1 .. InDirect(f, n)
AtSingle(f, n, c, k) == c = <<"slot", Single, 0>> /\ k = SingleAt(f, n)
UnderSingle(f, n, c, k) ==
    \E e \in 1 .. InSingle(f, n) : c = <<"single", e, 0>> /\ k = SingleAt(f, n) + e
AtDouble(f, n, c, k) == c = <<"slot", Double, 0>> /\ k = DoubleAt(f, n)
UnderDouble(f, n, c, k) ==
    \E q \in Nat \ {0}, e \in 0 .. Entries :
        /\ c = IF e = 0 THEN <<"inner", q, 0>> ELSE <<"double", q, e>>
        /\ k = InnerAt(f, n, q) + e /\ k > DoubleAt(f, n) /\ k \in Nat

LEMMA TakenIs ==
    ASSUME NEW f, NEW n \in Nat
    PROVE  /\ Taken(f, n) \in Nat /\ InDirect(f, n) <= Taken(f, n)
           /\ InSingle(f, n) > 0 => SingleAt(f, n) + InSingle(f, n) <= Taken(f, n)
           /\ InDouble(f, n) > 0 => DoubleAt(f, n) <= Taken(f, n)
<1>1. PICK m \in Nat : Cardinality(Inner(f, n)) = m
  BY InnerIs
<1>2. /\ InDirect(f, n) \in Nat /\ InSingle(f, n) \in Nat /\ InDouble(f, n) \in Nat
      /\ SingleAt(f, n) = InDirect(f, n) + 1
      /\ DoubleAt(f, n) = InDirect(f, n) + InSingle(f, n) + 2
  BY Shares, Empties
<1>3. CASE InDouble(f, n) > 0
  BY <1>1, <1>2, <1>3 DEF Taken
<1>4. CASE ~(InDouble(f, n) > 0) /\ InSingle(f, n) > 0
  BY <1>2, <1>4 DEF Taken
<1>5. CASE ~(InDouble(f, n) > 0) /\ ~(InSingle(f, n) > 0)
  BY <1>2, <1>5 DEF Taken
<1> QED
  BY <1>3, <1>4, <1>5

LEMMA GrantIs ==
    ASSUME NEW f, NEW n \in Nat, NEW c \in Cell
    PROVE  LET k == Grant(f, n, c)
           IN  \/ k = 0
               \/ /\ k \in 1 .. Taken(f, n)
                  /\ \/ InSlots(f, n, c, k) \/ AtSingle(f, n, c, k) \/ UnderSingle(f, n, c, k)
                     \/ AtDouble(f, n, c, k) \/ UnderDouble(f, n, c, k)
<1> DEFINE k == Grant(f, n, c)
           d == InDirect(f, n)
           t == Taken(f, n)
<1>1. /\ d \in Nat /\ t \in Nat /\ d <= t
      /\ InSingle(f, n) \in 0 .. Entries /\ InDouble(f, n) \in Nat
      /\ SingleAt(f, n) = d + 1 /\ DoubleAt(f, n) = d + InSingle(f, n) + 2
      /\ InSingle(f, n) > 0 => SingleAt(f, n) + InSingle(f, n) <= t
      /\ InDouble(f, n) > 0 => DoubleAt(f, n) <= t
  BY Shares, Empties, TakenIs
<1>2. ASSUME NEW s \in Slot, c = <<"slot", s, 0>>, k # 0
      PROVE  k \in 1 .. t /\ (InSlots(f, n, c, k) \/ AtSingle(f, n, c, k) \/ AtDouble(f, n, c, k))
  <2>1. k = IF s \in EmptySlots(f)
               THEN IF Rank(EmptySlots(f), s) + 1 <= d THEN Rank(EmptySlots(f), s) + 1 ELSE 0
            ELSE IF s = Single /\ InSingle(f, n) > 0 THEN SingleAt(f, n)
            ELSE IF s = Double /\ InDouble(f, n) > 0 THEN DoubleAt(f, n)
            ELSE 0
    BY <1>2 DEF Grant
  <2> HIDE DEF k, d, t
  <2>2. CASE s \in EmptySlots(f)
    <3>1. Rank(EmptySlots(f), s) + 1 \in Nat \ {0}
      BY <2>2, Empties, RankTyped
    <3>2. k = Rank(EmptySlots(f), s) + 1 /\ k <= d
      BY <1>2, <2>1, <2>2
    <3>3. k \in 1 .. d /\ k \in 1 .. t
      BY <1>1, <3>1, <3>2
    <3> QED
      BY <1>2, <2>2, <3>2, <3>3 DEF InSlots, d
  <2>3. CASE s \notin EmptySlots(f) /\ s = Single /\ InSingle(f, n) > 0
    BY <1>1, <1>2, <2>1, <2>3 DEF AtSingle
  <2>4. CASE s \notin EmptySlots(f) /\ ~(s = Single /\ InSingle(f, n) > 0)
    BY <1>1, <1>2, <2>1, <2>4 DEF AtDouble
  <2> QED
    BY <2>2, <2>3, <2>4
<1>3. ASSUME NEW e \in Entry, c = <<"single", e, 0>>, k # 0
      PROVE  k \in 1 .. t /\ UnderSingle(f, n, c, k)
  <2>1. k = IF e <= InSingle(f, n) THEN SingleAt(f, n) + e ELSE 0
    BY <1>3 DEF Grant
  <2> HIDE DEF k, d, t
  <2>2. k = SingleAt(f, n) + e /\ e \in 1 .. InSingle(f, n)
    BY <1>1, <1>3, <2>1, Geometry
  <2>3. k \in 1 .. t
    BY <1>1, <2>2
  <2> QED
    BY <1>3, <2>2, <2>3 DEF UnderSingle
<1>4. ASSUME NEW q \in Entry, NEW e \in 0 .. Entries, k # 0,
             c = IF e = 0 THEN <<"inner", q, 0>> ELSE <<"double", q, e>>
      PROVE  k \in 1 .. t /\ UnderDouble(f, n, c, k)
  <2>1. /\ k = InnerAt(f, n, q) + e /\ q \in Inner(f, n)
        /\ e = 0 \/ e <= InDouble(f, n) - (q - 1) * Entries
    <3>1. CASE e = 0
      <4>1. c = <<"inner", q, 0>>
        BY <1>4, <3>1
      <4>2. k = InnerAt(f, n, q) /\ q \in Inner(f, n)
        BY <1>4, <4>1 DEF Grant
      <4>3. InnerAt(f, n, q) \in Nat
        <5>1. 0 \in 0 .. Entries
          BY Geometry
        <5> QED
          BY <4>2, <5>1, InnerPlace
      <4> QED
        BY <3>1, <4>2, <4>3
    <3>2. CASE e # 0
      <4>1. c = <<"double", q, e>>
        BY <1>4, <3>2
      <4> QED
        BY <1>4, <4>1 DEF Grant
    <3> QED
      BY <3>1, <3>2
  <2>2. k \in DoubleAt(f, n) + 1 .. t
    BY <2>1, InnerPlace
  <2>3. q \in Nat \ {0}
    BY Geometry
  <2>4. k > DoubleAt(f, n) /\ k \in Nat /\ k \in 1 .. t
    <3> HIDE DEF k, d, t
    <3> QED
      BY <1>1, <2>2
  <2> QED
    BY <1>4, <2>1, <2>3, <2>4 DEF UnderDouble
<1>5. \/ \E s \in Slot : c = <<"slot", s, 0>>
      \/ \E e \in Entry : c = <<"single", e, 0>>
      \/ \E q \in Entry, e \in 0 .. Entries :
            c = IF e = 0 THEN <<"inner", q, 0>> ELSE <<"double", q, e>>
  <2>1. ASSUME NEW q \in Entry, NEW e \in Entry PROVE e \in 0 .. Entries /\ e # 0
    BY Geometry
  <2>2. 0 \in 0 .. Entries
    BY Geometry
  <2> QED
    BY <2>1, <2>2 DEF Cell
<1> HIDE DEF k, t, d
<1>6. k = 0 \/ (/\ k \in 1 .. t
                /\ \/ InSlots(f, n, c, k) \/ AtSingle(f, n, c, k) \/ UnderSingle(f, n, c, k)
                   \/ AtDouble(f, n, c, k) \/ UnderDouble(f, n, c, k))
  BY <1>2, <1>3, <1>4, <1>5
<1> QED
  BY <1>6 DEF k, t

(* No two pointers get the same block.                                     *)
LEMMA GrantsDiffer ==
    ASSUME NEW f, NEW n \in Nat, NEW c \in Cell, NEW d \in Cell,
           Grant(f, n, c) # 0, Grant(f, n, c) = Grant(f, n, d)
    PROVE  c = d
<1>1. PICK k \in Nat : k = Grant(f, n, c) /\ k = Grant(f, n, d)
  BY GrantIs, TakenIs
<1>2. /\ \/ InSlots(f, n, c, k) \/ AtSingle(f, n, c, k) \/ UnderSingle(f, n, c, k)
         \/ AtDouble(f, n, c, k) \/ UnderDouble(f, n, c, k)
      /\ \/ InSlots(f, n, d, k) \/ AtSingle(f, n, d, k) \/ UnderSingle(f, n, d, k)
         \/ AtDouble(f, n, d, k) \/ UnderDouble(f, n, d, k)
  BY <1>1, GrantIs
<1>3. /\ InDirect(f, n) \in Nat /\ InSingle(f, n) \in Nat
      /\ SingleAt(f, n) = InDirect(f, n) + 1
      /\ DoubleAt(f, n) = InDirect(f, n) + InSingle(f, n) + 2
  BY Shares, Empties
<1>4. ASSUME NEW x, InSlots(f, n, x, k) PROVE k <= InDirect(f, n)
  BY <1>4, <1>3 DEF InSlots
<1>5. ASSUME NEW x, UnderSingle(f, n, x, k)
      PROVE  k > SingleAt(f, n) /\ k < DoubleAt(f, n)
  BY <1>5, <1>3 DEF UnderSingle
<1>6. ASSUME NEW x, UnderDouble(f, n, x, k) PROVE k > DoubleAt(f, n)
  BY <1>6 DEF UnderDouble
<1>7. ASSUME NEW x, AtSingle(f, n, x, k) PROVE k = SingleAt(f, n)
  BY <1>7 DEF AtSingle
<1>8. ASSUME NEW x, AtDouble(f, n, x, k) PROVE k = DoubleAt(f, n)
  BY <1>8 DEF AtDouble
<1>9. CASE InSlots(f, n, c, k)
  <2>1. InSlots(f, n, d, k)
    BY <1>2, <1>3, <1>4, <1>5, <1>6, <1>7, <1>8, <1>9
  <2>2. PICK s \in EmptySlots(f) : c = <<"slot", s, 0>> /\ k = Rank(EmptySlots(f), s) + 1
    BY <1>9 DEF InSlots
  <2>3. PICK r \in EmptySlots(f) : d = <<"slot", r, 0>> /\ k = Rank(EmptySlots(f), r) + 1
    BY <2>1 DEF InSlots
  <2>4. Rank(EmptySlots(f), s) \in Nat /\ Rank(EmptySlots(f), r) \in Nat
    BY Empties, RankTyped
  <2>5. s \in Nat /\ r \in Nat
    BY Empties
  <2>6. ~(s < r) /\ ~(r < s)
    BY <2>2, <2>3, <2>4, Empties, RankRises
  <2>7. s = r
    BY <2>5, <2>6
  <2> QED
    BY <2>2, <2>3, <2>7
<1>10. CASE AtSingle(f, n, c, k)
  <2>1. AtSingle(f, n, d, k)
    BY <1>2, <1>3, <1>4, <1>5, <1>6, <1>7, <1>8, <1>10
  <2> QED
    BY <1>10, <2>1 DEF AtSingle
<1>11. CASE UnderSingle(f, n, c, k)
  <2>1. UnderSingle(f, n, d, k)
    BY <1>2, <1>3, <1>4, <1>5, <1>6, <1>7, <1>8, <1>11
  <2> QED
    BY <1>3, <1>11, <2>1 DEF UnderSingle
<1>12. CASE AtDouble(f, n, c, k)
  <2>1. AtDouble(f, n, d, k)
    BY <1>2, <1>3, <1>4, <1>5, <1>6, <1>7, <1>8, <1>12
  <2> QED
    BY <1>12, <2>1 DEF AtDouble
<1>13. CASE UnderDouble(f, n, c, k)
  <2>1. UnderDouble(f, n, d, k)
    BY <1>2, <1>3, <1>4, <1>5, <1>6, <1>7, <1>8, <1>13
  <2>2. PICK q \in Nat \ {0}, e \in 0 .. Entries :
            /\ c = IF e = 0 THEN <<"inner", q, 0>> ELSE <<"double", q, e>>
            /\ k = InnerAt(f, n, q) + e
    BY <1>13 DEF UnderDouble
  <2>3. PICK p \in Nat \ {0}, x \in 0 .. Entries :
            /\ d = IF x = 0 THEN <<"inner", p, 0>> ELSE <<"double", p, x>>
            /\ k = InnerAt(f, n, p) + x
    BY <2>1 DEF UnderDouble
  <2>4. q = p /\ e = x
    BY <2>2, <2>3, InnerPlaceDiffer
  <2> QED
    BY <2>2, <2>3, <2>4
<1> QED
  BY <1>2, <1>9, <1>10, <1>11, <1>12, <1>13

-----------------------------------------------------------------------------
(* What a growth leaves.                                                   *)

LEMMA NthIs ==
    ASSUME TypeOK, NEW t \in Nat, t <= Cardinality(free)
    PROVE  /\ \A k \in 1 .. t : Nth(k) \in free /\ Nth(k) \in Block /\ Nth(k) # 0
           /\ \A k, l \in 1 .. t : Nth(k) = Nth(l) => k = l
<1>1. free \in SUBSET Nat /\ IsFiniteSet(free) /\ free \subseteq Block /\ 0 \notin Block
  <2>1. free \in SUBSET Block
    BY DEF TypeOK
  <2> QED
    BY <2>1, Geometry, FS_Subset
<1>2. Cardinality(free) \in Nat
  BY <1>1, FS_CardinalityType
<1>3. 1 .. t \subseteq 1 .. Cardinality(free)
  BY <1>2
<1> QED
  BY <1>1, <1>3, KthIs, KthDiffer DEF Nth

(* A file has room for its growth: the growth of n blocks of the source.   *)
Granting(f, n) ==
    /\ TypeOK /\ f \in File /\ n \in Nat
    /\ Taken(f, n) <= Cardinality(free) /\ BelowTriple(f, n)

Got(f, n, c, rest) == IF Grant(f, n, c) # 0 THEN Nth(Grant(f, n, c)) ELSE rest

LEMMA GrantTyped ==
    ASSUME NEW f, NEW n, Granting(f, n), NEW c \in Cell, Grant(f, n, c) # 0
    PROVE  /\ Grant(f, n, c) \in 1 .. Taken(f, n)
           /\ Nth(Grant(f, n, c)) \in free /\ Nth(Grant(f, n, c)) \in Block
           /\ Nth(Grant(f, n, c)) # 0
<1>1. Grant(f, n, c) \in 1 .. Taken(f, n)
  BY GrantIs DEF Granting
<1>2. Taken(f, n) \in Nat
  BY TakenIs DEF Granting
<1> QED
  BY <1>1, <1>2, NthIs DEF Granting

LEMMA NewMapIs ==
    ASSUME NEW f, NEW n, Granting(f, n)
    PROVE  /\ NewMap(f, n) \in [Slot -> Block \cup {0}]
           /\ \A s \in Slot :
                NewMap(f, n)[s] = Got(f, n, <<"slot", s, 0>>, i_block[f][s])
<1>1. n \in Nat /\ i_block[f] \in [Slot -> Block \cup {0}]
  BY DEF Granting, TypeOK
<1>2. ASSUME NEW s \in Slot
      PROVE  /\ NewMap(f, n)[s] = Got(f, n, <<"slot", s, 0>>, i_block[f][s])
             /\ NewMap(f, n)[s] \in Block \cup {0}
  <2> DEFINE g == Grant(f, n, <<"slot", s, 0>>)
  <2>1. g = IF s \in EmptySlots(f)
               THEN IF Rank(EmptySlots(f), s) + 1 <= InDirect(f, n)
                    THEN Rank(EmptySlots(f), s) + 1 ELSE 0
            ELSE IF s = Single /\ InSingle(f, n) > 0 THEN SingleAt(f, n)
            ELSE IF s = Double /\ InDouble(f, n) > 0 THEN DoubleAt(f, n)
            ELSE 0
    BY DEF Grant
  <2>2. NewMap(f, n)[s] =
            IF s \in EmptySlots(f)
               THEN IF Cardinality({t \in EmptySlots(f) : t <= s}) <= InDirect(f, n)
                    THEN Nth(Cardinality({t \in EmptySlots(f) : t <= s})) ELSE 0
            ELSE IF s = Single /\ InSingle(f, n) > 0 THEN Nth(SingleAt(f, n))
            ELSE IF s = Double /\ InDouble(f, n) > 0 THEN Nth(DoubleAt(f, n))
            ELSE i_block[f][s]
    BY DEF NewMap
  <2>3. SingleAt(f, n) # 0 /\ DoubleAt(f, n) # 0
    BY <1>1, Shares, Empties
  <2>4. <<"slot", s, 0>> \in Cell
    BY DEF Cell
  <2> HIDE DEF g
  <2>5. NewMap(f, n)[s] = IF g # 0 THEN Nth(g) ELSE i_block[f][s]
    <3>1. CASE s \in EmptySlots(f)
      <4>1. Cardinality({t \in EmptySlots(f) : t <= s}) = Rank(EmptySlots(f), s) + 1
        <5> DEFINE A == {t \in EmptySlots(f) : t < s}
        <5>1. {t \in EmptySlots(f) : t <= s} = A \cup {s} /\ s \notin A
          <6>1. \A t \in EmptySlots(f) : t \in Nat
            BY Empties
          <6>2. \A t \in EmptySlots(f) : (t <= s <=> t < s \/ t = s) /\ ~(s < s)
            BY <3>1, <6>1
          <6> QED
            BY <3>1, <6>2
        <5>2. IsFiniteSet(A)
          BY <3>1, Empties, RankIs
        <5>3. Cardinality(A \cup {s}) = Cardinality(A) + 1
          <6> HIDE DEF A
          <6> QED
            BY <5>1, <5>2, FS_AddElement
        <5> QED
          BY <5>1, <5>3 DEF Rank
      <4>2. Rank(EmptySlots(f), s) + 1 # 0
        BY <3>1, Empties, RankTyped
      <4>3. i_block[f][s] = 0
        BY <3>1 DEF EmptySlots
      <4> QED
        BY <2>1, <2>2, <3>1, <4>1, <4>2, <4>3
    <3>2. CASE s \notin EmptySlots(f)
      BY <2>1, <2>2, <2>3, <3>2
    <3> QED
      BY <3>1, <3>2
  <2>6. g # 0 => Nth(g) \in Block
    BY <2>4, GrantTyped DEF g
  <2> QED
    BY <1>1, <2>5, <2>6 DEF g, Got
<1>3. NewMap(f, n) = [s \in Slot |-> NewMap(f, n)[s]]
  BY DEF NewMap
<1>4. NewMap(f, n) \in [Slot -> Block \cup {0}]
  BY <1>2, <1>3
<1> QED
  BY <1>2, <1>4

(* A new pointer block: its entries as granted, then what was there.       *)
LEMMA SinglePointersIs ==
    ASSUME NEW f, NEW n, Granting(f, n), NEW e \in Entry
    PROVE  Pointers(SingleAt(f, n), InSingle(f, n))[e] =
                Got(f, n, <<"single", e, 0>>, 0)
<1>1. n \in Nat
  BY DEF Granting
<1>2. SingleAt(f, n) + e # 0
  BY <1>1, Shares, Empties, Geometry
<1>3. Grant(f, n, <<"single", e, 0>>) = IF e <= InSingle(f, n) THEN SingleAt(f, n) + e ELSE 0
  BY DEF Grant
<1> QED
  BY <1>2, <1>3 DEF Pointers, Got

LEMMA PointersIs ==
    ASSUME NEW f, NEW n, Granting(f, n)
    PROVE  /\ \A q \in Inner(f, n), e \in Entry :
                    Pointers(InnerAt(f, n, q),
                             LeastOf(Entries, InDouble(f, n) - (q - 1) * Entries))[e] =
                        Got(f, n, <<"double", q, e>>, 0)
           /\ \A e \in Entry :
                    (IF e \in Inner(f, n) THEN Nth(InnerAt(f, n, e)) ELSE 0) =
                        Got(f, n, <<"inner", e, 0>>, 0)
<1>1. n \in Nat
  BY DEF Granting
<1>3. ASSUME NEW q \in Inner(f, n), NEW e \in Entry
      PROVE  Pointers(InnerAt(f, n, q),
                      LeastOf(Entries, InDouble(f, n) - (q - 1) * Entries))[e] =
                Got(f, n, <<"double", q, e>>, 0)
  <2> DEFINE x == InDouble(f, n) - (q - 1) * Entries
  <2>1. /\ InnerAt(f, n, q) \in Nat /\ x > 0
    <3>1. 0 \in 0 .. Entries
      BY Geometry
    <3> QED
      BY <1>1, <3>1, InnerPlace
  <2>2. x \in Int
    <3>1. q \in Int
      BY <1>1, InnerIs
    <3> QED
      BY <1>1, <3>1, Shares, Geometry
  <2>3. e <= LeastOf(Entries, x) <=> e <= x
    <3> HIDE DEF x
    <3> QED
      BY <2>2, Geometry DEF LeastOf
  <2>4. InnerAt(f, n, q) + e # 0
    BY <2>1, Geometry
  <2>5. Grant(f, n, <<"double", q, e>>) = IF e <= x THEN InnerAt(f, n, q) + e ELSE 0
    BY <1>3 DEF Grant
  <2>6. Pointers(InnerAt(f, n, q), LeastOf(Entries, x))[e] =
            IF e <= LeastOf(Entries, x) THEN Nth(InnerAt(f, n, q) + e) ELSE 0
    BY DEF Pointers
  <2> HIDE DEF x
  <2>7. Pointers(InnerAt(f, n, q), LeastOf(Entries, x))[e] =
            Got(f, n, <<"double", q, e>>, 0)
    BY <2>3, <2>4, <2>5, <2>6 DEF Got
  <2> QED
    BY <2>7 DEF x
<1>4. ASSUME NEW e \in Entry
      PROVE  (IF e \in Inner(f, n) THEN Nth(InnerAt(f, n, e)) ELSE 0) =
                Got(f, n, <<"inner", e, 0>>, 0)
  <2>1. Grant(f, n, <<"inner", e, 0>>) = IF e \in Inner(f, n) THEN InnerAt(f, n, e) ELSE 0
    BY DEF Grant
  <2>2. e \in Inner(f, n) => InnerAt(f, n, e) # 0
    <3> SUFFICES ASSUME e \in Inner(f, n) PROVE InnerAt(f, n, e) # 0
      OBVIOUS
    <3>1. 0 \in 0 .. Entries
      BY Geometry
    <3>2. InnerAt(f, n, e) + 0 \in DoubleAt(f, n) + 1 .. Taken(f, n) /\ InnerAt(f, n, e) \in Nat
      BY <1>1, <3>1, InnerPlace
    <3>3. DoubleAt(f, n) \in Nat /\ Taken(f, n) \in Nat
      BY <1>1, Shares, Empties, TakenIs
    <3> QED
      BY <3>2, <3>3
  <2> QED
    BY <2>1, <2>2 DEF Got
<1> QED
  BY <1>3, <1>4

LEMMA PointerPlaces ==
    ASSUME NEW f, NEW n, Granting(f, n)
    PROVE  /\ InSingle(f, n) > 0 => SingleAt(f, n) \in 1 .. Taken(f, n)
           /\ InDouble(f, n) > 0 => DoubleAt(f, n) \in 1 .. Taken(f, n)
           /\ \A q \in Inner(f, n) :
                /\ InnerAt(f, n, q) \in 1 .. Taken(f, n)
                /\ InnerAt(f, n, q) > DoubleAt(f, n) /\ InDouble(f, n) > 0
           /\ DoubleAt(f, n) > SingleAt(f, n) /\ DoubleAt(f, n) \in Nat /\ SingleAt(f, n) \in Nat
           /\ \A q, p \in Inner(f, n) : InnerAt(f, n, q) = InnerAt(f, n, p) => q = p
<1>1. n \in Nat
  BY DEF Granting
<1>2. /\ InDirect(f, n) \in Nat /\ InSingle(f, n) \in Nat /\ InDouble(f, n) \in Nat
      /\ SingleAt(f, n) = InDirect(f, n) + 1
      /\ DoubleAt(f, n) = InDirect(f, n) + InSingle(f, n) + 2
      /\ Taken(f, n) \in Nat
      /\ InSingle(f, n) > 0 => SingleAt(f, n) + InSingle(f, n) <= Taken(f, n)
      /\ InDouble(f, n) > 0 => DoubleAt(f, n) <= Taken(f, n)
  BY <1>1, Shares, Empties, TakenIs
<1>3. 0 \in 0 .. Entries /\ Inner(f, n) \subseteq Nat \ {0}
  BY <1>1, Geometry, InnerIs
<1>4. ASSUME NEW q \in Inner(f, n)
      PROVE  /\ InnerAt(f, n, q) \in 1 .. Taken(f, n)
             /\ InnerAt(f, n, q) > DoubleAt(f, n) /\ InDouble(f, n) > 0
  <2>1. /\ InnerAt(f, n, q) + 0 \in DoubleAt(f, n) + 1 .. Taken(f, n)
        /\ InnerAt(f, n, q) \in Nat /\ InDouble(f, n) > 0
    BY <1>1, <1>3, InnerPlace
  <2> QED
    BY <1>2, <2>1
<1>5. ASSUME NEW q \in Inner(f, n), NEW p \in Inner(f, n),
             InnerAt(f, n, q) = InnerAt(f, n, p)
      PROVE  q = p
  <2>1. InnerAt(f, n, q) + 0 = InnerAt(f, n, p) + 0
    BY <1>5
  <2> QED
    BY <1>1, <1>3, <2>1, InnerPlaceDiffer
<1>6. InSingle(f, n) > 0 => SingleAt(f, n) \in 1 .. Taken(f, n)
  BY <1>2
<1>7. InDouble(f, n) > 0 => DoubleAt(f, n) \in 1 .. Taken(f, n)
  BY <1>2
<1> QED
  BY <1>2, <1>4, <1>5, <1>6, <1>7

LEMMA NewPointersIs ==
    ASSUME NEW f, NEW n, Granting(f, n)
    PROVE  /\ NewPointers(f, n) \in [Block -> [Entry -> Block \cup {0}]]
           /\ \A b \in Block : b \notin free => NewPointers(f, n)[b] = ptr[b]
           /\ InSingle(f, n) > 0 => \A e \in Entry :
                NewPointers(f, n)[Nth(SingleAt(f, n))][e] =
                    Got(f, n, <<"single", e, 0>>, 0)
           /\ InDouble(f, n) > 0 => \A e \in Entry :
                NewPointers(f, n)[Nth(DoubleAt(f, n))][e] =
                    Got(f, n, <<"inner", e, 0>>, 0)
           /\ \A q \in Inner(f, n), e \in Entry :
                NewPointers(f, n)[Nth(InnerAt(f, n, q))][e] =
                    Got(f, n, <<"double", q, e>>, 0)
<1> DEFINE new == NewPointers(f, n)
           atS == Nth(SingleAt(f, n))
           atD == Nth(DoubleAt(f, n))
           At(q) == Nth(InnerAt(f, n, q))
           under(q) == Pointers(InnerAt(f, n, q),
                                LeastOf(Entries, InDouble(f, n) - (q - 1) * Entries))
           single == Pointers(SingleAt(f, n), InSingle(f, n))
           double == [e \in Entry |-> IF e \in Inner(f, n) THEN Nth(InnerAt(f, n, e)) ELSE 0]
           t == Taken(f, n)
<1>20. /\ \A e \in Entry :
            single[e] = Got(f, n, <<"single", e, 0>>, 0)
       /\ \A e \in Entry :
             double[e] = Got(f, n, <<"inner", e, 0>>, 0)
       /\ \A q \in Inner(f, n), e \in Entry :
            under(q)[e] = Got(f, n, <<"double", q, e>>, 0)
  <2>1. \A e \in Entry :
            single[e] = Got(f, n, <<"single", e, 0>>, 0)
    BY SinglePointersIs
  <2>2. ASSUME NEW e \in Entry
        PROVE  double[e] = Got(f, n, <<"inner", e, 0>>, 0)
    <3>1. double[e] = IF e \in Inner(f, n) THEN Nth(InnerAt(f, n, e)) ELSE 0
      OBVIOUS
    <3>2. (IF e \in Inner(f, n) THEN Nth(InnerAt(f, n, e)) ELSE 0) =
                    Got(f, n, <<"inner", e, 0>>, 0)
      BY PointersIs
    <3> QED
      BY <3>1, <3>2
  <2>3. \A q \in Inner(f, n), e \in Entry :
            under(q)[e] = Got(f, n, <<"double", q, e>>, 0)
    BY PointersIs
  <2> HIDE DEF single, double, under
  <2> QED
    BY <2>1, <2>2, <2>3
<1>1. /\ \A k \in 1 .. t : Nth(k) \in free /\ Nth(k) \in Block
      /\ \A k, l \in 1 .. t : Nth(k) = Nth(l) => k = l
  BY TakenIs, NthIs DEF Granting
<1>2. ptr \in [Block -> [Entry -> Block \cup {0}]]
  BY DEF Granting, TypeOK
<1>3. ASSUME NEW b \in Block
      PROVE  new[b] = IF InSingle(f, n) > 0 /\ b = atS THEN single
                      ELSE IF InDouble(f, n) > 0 /\ b = atD THEN double
                      ELSE IF \E q \in Inner(f, n) : b = At(q)
                           THEN under(CHOOSE q \in Inner(f, n) : b = At(q))
                      ELSE ptr[b]
  BY DEF NewPointers
<1>4. new = [b \in Block |-> new[b]]
  BY DEF NewPointers
<1>5. /\ single \in [Entry -> Block \cup {0}] \/ ~(InSingle(f, n) > 0)
      /\ double \in [Entry -> Block \cup {0}]
      /\ \A q \in Inner(f, n) : under(q) \in [Entry -> Block \cup {0}]
  <2>1. \A c \in Cell : Got(f, n, c, 0) \in Block \cup {0}
    BY GrantTyped DEF Got
  <2>2. \A q, e \in Entry : /\ <<"single", e, 0>> \in Cell /\ <<"inner", e, 0>> \in Cell
                            /\ <<"double", q, e>> \in Cell
    BY DEF Cell
  <2>3. Inner(f, n) \subseteq Entry
    <3>1. PICK m \in Nat : Inner(f, n) = 1 .. m /\ m <= Entries
      BY InnerIs DEF Granting
    <3> QED
      BY <3>1, Geometry
  <2>4. ASSUME InSingle(f, n) > 0 PROVE single \in [Entry -> Block \cup {0}]
    <3>1. \A e \in Entry : single[e] \in Block \cup {0}
      <4> HIDE DEF single
      <4>1. \A e \in Entry : single[e] = Got(f, n, <<"single", e, 0>>, 0)
        BY <1>20, <2>4
      <4> QED
        BY <2>1, <2>2, <4>1
    <3>2. single = [e \in Entry |-> single[e]]
      BY DEF Pointers
    <3> HIDE DEF single
    <3> QED
      BY <3>1, <3>2
  <2>5. ASSUME NEW q \in Inner(f, n) PROVE under(q) \in [Entry -> Block \cup {0}]
    <3>1. \A e \in Entry : under(q)[e] \in Block \cup {0}
      <4> HIDE DEF under
      <4>1. \A e \in Entry : under(q)[e] = Got(f, n, <<"double", q, e>>, 0)
        BY <1>20
      <4> QED
        BY <2>1, <2>2, <2>3, <4>1
    <3>2. under(q) = [e \in Entry |-> under(q)[e]]
      BY DEF Pointers
    <3> HIDE DEF under
    <3> QED
      BY <3>1, <3>2
  <2>6. double \in [Entry -> Block \cup {0}]
    <3>1. \A e \in Entry : double[e] \in Block \cup {0}
      <4> HIDE DEF double
      <4> QED
        BY <1>20, <2>1, <2>2
    <3>2. double = [e \in Entry |-> double[e]]
      OBVIOUS
    <3> HIDE DEF double
    <3> QED
      BY <3>1, <3>2
  <2> HIDE DEF single, double, under
  <2> QED
    BY <2>4, <2>5, <2>6
<1>6. /\ InSingle(f, n) > 0 => SingleAt(f, n) \in 1 .. t
      /\ InDouble(f, n) > 0 => DoubleAt(f, n) \in 1 .. t
      /\ \A q \in Inner(f, n) :
            /\ InnerAt(f, n, q) \in 1 .. t
            /\ InnerAt(f, n, q) > DoubleAt(f, n) /\ InDouble(f, n) > 0
      /\ DoubleAt(f, n) > SingleAt(f, n) /\ DoubleAt(f, n) \in Nat /\ SingleAt(f, n) \in Nat
      /\ \A q, p \in Inner(f, n) : InnerAt(f, n, q) = InnerAt(f, n, p) => q = p
  BY PointerPlaces
<1>7. InDouble(f, n) > 0 => InSingle(f, n) > 0
  BY Shares, Geometry DEF Granting
<1> HIDE DEF new, single, double, under, t
<1>8. /\ InSingle(f, n) > 0 => atS \in free /\ atS \in Block
      /\ InDouble(f, n) > 0 => atD \in free /\ atD \in Block /\ atD # atS
      /\ \A q \in Inner(f, n) : /\ At(q) \in free /\ At(q) \in Block
                                /\ At(q) # atS /\ At(q) # atD
                                /\ \A p \in Inner(f, n) : At(q) = At(p) => q = p
  <2>1. ASSUME InDouble(f, n) > 0 PROVE atD # atS
    <3>1. DoubleAt(f, n) # SingleAt(f, n)
      BY <1>6
    <3> QED
      BY <1>1, <1>6, <1>7, <2>1, <3>1
  <2>2. ASSUME NEW q \in Inner(f, n) PROVE At(q) # atS /\ At(q) # atD
    <3>1. InnerAt(f, n, q) # DoubleAt(f, n) /\ InnerAt(f, n, q) # SingleAt(f, n)
      <4>1. InnerAt(f, n, q) > DoubleAt(f, n) /\ DoubleAt(f, n) > SingleAt(f, n)
            /\ DoubleAt(f, n) \in Nat /\ SingleAt(f, n) \in Nat
        BY <1>6
      <4>2. InnerAt(f, n, q) \in Int
        BY <1>6
      <4> QED
        BY <4>1, <4>2
    <3>2. InDouble(f, n) > 0 /\ InSingle(f, n) > 0
      BY <1>6, <1>7
    <3> QED
      BY <1>1, <1>6, <3>1, <3>2
  <2> QED
    BY <1>1, <1>6, <2>1, <2>2
<1> HIDE DEF atS, atD, At
<1>9. \A b \in Block : b \notin free => new[b] = ptr[b]
  BY <1>3, <1>8
<1>10. InSingle(f, n) > 0 => new[atS] = single
  BY <1>3, <1>8
<1>11. InDouble(f, n) > 0 => new[atD] = double
  BY <1>3, <1>8
<1>12. ASSUME NEW q \in Inner(f, n) PROVE new[At(q)] = under(q)
  <2>1. new[At(q)] = under(CHOOSE p \in Inner(f, n) : At(q) = At(p))
    BY <1>3, <1>8
  <2>2. (CHOOSE p \in Inner(f, n) : At(q) = At(p)) = q
    BY <1>8
  <2> QED
    BY <2>1, <2>2
<1>13. ASSUME NEW b \in Block PROVE new[b] \in [Entry -> Block \cup {0}]
  <2>1. CASE \E q \in Inner(f, n) : b = At(q)
    BY <1>5, <1>12, <2>1
  <2>2. CASE ~(\E q \in Inner(f, n) : b = At(q))
    BY <1>2, <1>3, <1>5, <2>2
  <2> QED
    BY <2>1, <2>2
<1>14. new \in [Block -> [Entry -> Block \cup {0}]]
  BY <1>4, <1>13
<1>15. InSingle(f, n) > 0 => \A e \in Entry :
        new[atS][e] = Got(f, n, <<"single", e, 0>>, 0)
  BY <1>20, <1>10
<1>16. InDouble(f, n) > 0 => \A e \in Entry :
        new[atD][e] = Got(f, n, <<"inner", e, 0>>, 0)
  BY <1>20, <1>11
<1>17. \A q \in Inner(f, n), e \in Entry :
        new[At(q)][e] = Got(f, n, <<"double", q, e>>, 0)
  BY <1>20, <1>12
<1> QED
  BY <1>9, <1>14, <1>15, <1>16, <1>17 DEF new, atS, atD, At

-----------------------------------------------------------------------------
(* The invariant.                                                          *)

(* Every block below the size of a file that a direct pointer can lead to  *)
(* has one, and only these when the file has no pointer block.             *)
Filled ==
    \A f \in File :
        /\ \A i \in Index(f) : i < Direct => i_block[f][i] # 0
        /\ IsDirect(f) => Blocks(size[f]) <= Direct

(* No block has two pointers.                                              *)
Exclusive ==
    \A f, g \in live, c, d \in Cell :
        Value(f, c) # 0 /\ Value(f, c) = Value(g, d) => f = g /\ c = d

Marked == \A f \in live, c \in Cell : Value(f, c) \notin free

(* Every block below the size of a file has its pointer.                   *)
Whole == \A f \in live : \A i \in Index(f) : BlockAt(f, i) # 0

Inv ==
    /\ TypeOK
    /\ Filled
    /\ ~spoiled => Exclusive /\ Marked /\ Whole

LEMMA CellIs ==
    /\ \A c \in Cell :
        \/ \E s \in Slot : c = <<"slot", s, 0>>
        \/ \E e \in Entry : c = <<"single", e, 0>>
        \/ \E q \in Entry : c = <<"inner", q, 0>>
        \/ \E q, e \in Entry : c = <<"double", q, e>>
    /\ \A s \in Slot : <<"slot", s, 0>> \in Cell
    /\ \A e \in Entry : <<"single", e, 0>> \in Cell
    /\ \A q \in Entry : <<"inner", q, 0>> \in Cell
    /\ \A q, e \in Entry : <<"double", q, e>> \in Cell
    /\ Single \in Slot /\ Double \in Slot /\ 0 .. Direct - 1 \subseteq Slot
<1>1. Single \in Slot /\ Double \in Slot /\ 0 .. Direct - 1 \subseteq Slot
  BY Geometry
<1> QED
  BY <1>1 DEF Cell

LEMMA ValueIs ==
    ASSUME NEW f
    PROVE  /\ \A s \in Slot : Value(f, <<"slot", s, 0>>) = i_block[f][s]
           /\ \A e \in Entry : Value(f, <<"single", e, 0>>) = Below(i_block[f][Single], e)
           /\ \A q \in Entry : Value(f, <<"inner", q, 0>>) = Below(i_block[f][Double], q)
           /\ \A q, e \in Entry : Value(f, <<"double", q, e>>) =
                                        Below(Below(i_block[f][Double], q), e)
  BY DEF Value

LEMMA ValueTyped ==
    ASSUME TypeOK, NEW f \in File, NEW c \in Cell
    PROVE  Value(f, c) \in Block \cup {0}
<1>1. /\ i_block[f] \in [Slot -> Block \cup {0}]
      /\ ptr \in [Block -> [Entry -> Block \cup {0}]]
  BY DEF TypeOK
<1>2. \A b \in Block \cup {0}, e \in Entry : Below(b, e) \in Block \cup {0}
  BY <1>1 DEF Below
<1>3. \A s \in Slot : i_block[f][s] \in Block \cup {0}
  BY <1>1
<1> QED
  BY <1>2, <1>3, CellIs, ValueIs

(* What the pointers of a file are after it has grown.                     *)
LEMMA GrownValues ==
    ASSUME NEW f, NEW n, Granting(f, n),
           \A c \in Cell : Value(f, c) \notin free,
           i_block' = [i_block EXCEPT ![f] = NewMap(f, n)],
           ptr' = NewPointers(f, n)
    PROVE  \A c \in Cell : \/ Value(f, c)' = Got(f, n, c, 0)
                           \/ Grant(f, n, c) = 0 /\ Value(f, c)' = Value(f, c)
<1>1. /\ n \in Nat /\ 0 \in Block \cup {0} /\ f \in File /\ TypeOK
      /\ i_block \in [File -> [Slot -> Block \cup {0}]]
      /\ i_block[f] \in [Slot -> Block \cup {0}]
  BY DEF Granting, TypeOK
<1>2. \A s \in Slot : i_block'[f][s] = Got(f, n, <<"slot", s, 0>>, i_block[f][s])
  BY <1>1, NewMapIs
<1>3. /\ \A b \in Block : b \notin free => ptr'[b] = ptr[b]
      /\ InSingle(f, n) > 0 => \A e \in Entry :
            ptr'[Nth(SingleAt(f, n))][e] = Got(f, n, <<"single", e, 0>>, 0)
      /\ InDouble(f, n) > 0 => \A e \in Entry :
            ptr'[Nth(DoubleAt(f, n))][e] = Got(f, n, <<"inner", e, 0>>, 0)
      /\ \A q \in Inner(f, n), e \in Entry :
            ptr'[Nth(InnerAt(f, n, q))][e] = Got(f, n, <<"double", q, e>>, 0)
  BY <1>1, NewPointersIs
<1>4. /\ Single \notin EmptySlots(f) /\ Double \notin EmptySlots(f) /\ Single # Double
      /\ InSingle(f, n) \in Nat /\ InDouble(f, n) \in Nat
  <2>1. EmptySlots(f) \subseteq 0 .. Direct - 1
    BY Empties
  <2> QED
    BY <1>1, <2>1, Geometry, Shares
<1>5. /\ Grant(f, n, <<"slot", Single, 0>>) =
            IF InSingle(f, n) > 0 THEN SingleAt(f, n) ELSE 0
      /\ Grant(f, n, <<"slot", Double, 0>>) =
            IF InDouble(f, n) > 0 THEN DoubleAt(f, n) ELSE 0
  BY <1>4 DEF Grant
<1>6. /\ \A k \in 1 .. Taken(f, n) : Nth(k) \in Block /\ Nth(k) # 0
      /\ InSingle(f, n) > 0 => SingleAt(f, n) \in 1 .. Taken(f, n)
      /\ InDouble(f, n) > 0 => DoubleAt(f, n) \in 1 .. Taken(f, n)
      /\ \A q \in Inner(f, n) : InnerAt(f, n, q) \in 1 .. Taken(f, n)
      /\ SingleAt(f, n) # 0 /\ DoubleAt(f, n) # 0
  <2>1. Taken(f, n) \in Nat /\ SingleAt(f, n) # 0 /\ DoubleAt(f, n) # 0
    BY <1>1, TakenIs, Shares, Empties
  <2> QED
    BY <1>1, <2>1, NthIs, PointerPlaces DEF Granting
<1>7. \A b \in Block \cup {0} : b \notin free => \A e \in Entry : Below(b, e)' = Below(b, e)
  BY <1>3 DEF Below
<1>8. /\ InSingle(f, n) > 0 => i_block'[f][Single] = Nth(SingleAt(f, n))
      /\ ~(InSingle(f, n) > 0) => i_block'[f][Single] = i_block[f][Single]
      /\ InDouble(f, n) > 0 => i_block'[f][Double] = Nth(DoubleAt(f, n))
      /\ ~(InDouble(f, n) > 0) => i_block'[f][Double] = i_block[f][Double]
  BY <1>2, <1>5, <1>6, CellIs DEF Got
<1>9. /\ i_block[f][Single] \in Block \cup {0} /\ i_block[f][Single] \notin free
      /\ i_block[f][Double] \in Block \cup {0} /\ i_block[f][Double] \notin free
      /\ \A q \in Entry : /\ Below(i_block[f][Double], q) \in Block \cup {0}
                          /\ Below(i_block[f][Double], q) \notin free
  BY <1>1, CellIs, ValueIs, ValueTyped
<1>10. ASSUME NEW s \in Slot
       PROVE  LET c == <<"slot", s, 0>> IN
              \/ Value(f, c)' = Got(f, n, c, 0)
              \/ Grant(f, n, c) = 0 /\ Value(f, c)' = Value(f, c)
  <2>1. Value(f, <<"slot", s, 0>>)' = i_block'[f][s]
    BY DEF Value
  <2> QED
    BY <1>2, <2>1, ValueIs DEF Got
<1>11. ASSUME NEW e \in Entry
       PROVE  LET c == <<"single", e, 0>> IN
              \/ Value(f, c)' = Got(f, n, c, 0)
              \/ Grant(f, n, c) = 0 /\ Value(f, c)' = Value(f, c)
  <2>1. Value(f, <<"single", e, 0>>)' = Below(i_block[f][Single], e)'
    BY DEF Value
  <2>2. Below(i_block[f][Single], e)' =
            IF i_block'[f][Single] = 0 THEN 0 ELSE ptr'[i_block'[f][Single]][e]
    BY DEF Below
  <2>3. CASE InSingle(f, n) > 0
    BY <1>3, <1>6, <1>8, <2>1, <2>2, <2>3
  <2>4. CASE ~(InSingle(f, n) > 0)
    <3>1. Grant(f, n, <<"single", e, 0>>) = IF e <= InSingle(f, n) THEN SingleAt(f, n) + e ELSE 0
      BY DEF Grant
    <3>2. ~(e <= InSingle(f, n))
      BY <1>4, <2>4, Geometry
    <3>3. Below(i_block[f][Single], e)' = Below(i_block[f][Single], e)
      <4>1. i_block'[f][Single] = i_block[f][Single]
        BY <1>8, <2>4
      <4>2. i_block[f][Single] # 0 =>
                ptr'[i_block[f][Single]][e] = ptr[i_block[f][Single]][e]
        BY <1>3, <1>9
      <4> QED
        BY <2>2, <4>1, <4>2 DEF Below
    <3> QED
      BY <2>1, <3>1, <3>2, <3>3, ValueIs
  <2> QED
    BY <2>3, <2>4
<1>12. ASSUME NEW q \in Entry
       PROVE  LET c == <<"inner", q, 0>> IN
              /\ \/ Value(f, c)' = Got(f, n, c, 0)
                 \/ Grant(f, n, c) = 0 /\ Value(f, c)' = Value(f, c)
              /\ Value(f, c)' = Below(i_block[f][Double], q)'
              /\ InDouble(f, n) > 0 =>
                    Below(i_block[f][Double], q)' = Got(f, n, <<"inner", q, 0>>, 0)
              /\ ~(InDouble(f, n) > 0) =>
                    Below(i_block[f][Double], q)' = Below(i_block[f][Double], q)
              /\ q \in Inner(f, n) => InDouble(f, n) > 0
  <2>1. Value(f, <<"inner", q, 0>>)' = Below(i_block[f][Double], q)'
    BY DEF Value
  <2>2. Below(i_block[f][Double], q)' =
            IF i_block'[f][Double] = 0 THEN 0 ELSE ptr'[i_block'[f][Double]][q]
    BY DEF Below
  <2>3. ASSUME InDouble(f, n) > 0
        PROVE  Below(i_block[f][Double], q)' = Got(f, n, <<"inner", q, 0>>, 0)
    BY <1>3, <1>6, <1>8, <2>2, <2>3
  <2>4. ASSUME ~(InDouble(f, n) > 0)
        PROVE  Below(i_block[f][Double], q)' = Below(i_block[f][Double], q)
    <3>1. i_block'[f][Double] = i_block[f][Double]
      BY <1>8, <2>4
    <3>2. i_block[f][Double] # 0 => ptr'[i_block[f][Double]][q] = ptr[i_block[f][Double]][q]
      BY <1>3, <1>9
    <3> QED
      BY <2>2, <3>1, <3>2 DEF Below
  <2>5. q \in Inner(f, n) => InDouble(f, n) > 0
    BY PointerPlaces
  <2>6. Grant(f, n, <<"inner", q, 0>>) = IF q \in Inner(f, n) THEN InnerAt(f, n, q) ELSE 0
    BY DEF Grant
  <2> QED
    BY <2>1, <2>3, <2>4, <2>5, <2>6, ValueIs
<1>13. ASSUME NEW q \in Entry, NEW e \in Entry
       PROVE  LET c == <<"double", q, e>> IN
              \/ Value(f, c)' = Got(f, n, c, 0)
              \/ Grant(f, n, c) = 0 /\ Value(f, c)' = Value(f, c)
  <2> DEFINE b == Below(i_block[f][Double], q)'
  <2>1. Value(f, <<"double", q, e>>)' = IF b = 0 THEN 0 ELSE ptr'[b][e]
    BY DEF Value, Below
  <2>2. Value(f, <<"double", q, e>>) = Below(Below(i_block[f][Double], q), e)
    BY ValueIs
  <2>3. /\ InDouble(f, n) > 0 => b = Got(f, n, <<"inner", q, 0>>, 0)
        /\ ~(InDouble(f, n) > 0) => b = Below(i_block[f][Double], q)
        /\ q \in Inner(f, n) => InDouble(f, n) > 0
    BY <1>12
  <2>4. Grant(f, n, <<"inner", q, 0>>) = IF q \in Inner(f, n) THEN InnerAt(f, n, q) ELSE 0
    BY DEF Grant
  <2>5. Grant(f, n, <<"double", q, e>>) =
            IF q \in Inner(f, n) /\ e <= InDouble(f, n) - (q - 1) * Entries
               THEN InnerAt(f, n, q) + e ELSE 0
    BY DEF Grant
  <2> HIDE DEF b
  <2>6. CASE q \in Inner(f, n)
    <3>1. InnerAt(f, n, q) # 0 /\ Nth(InnerAt(f, n, q)) # 0
      <4>1. 0 \notin 1 .. Taken(f, n)
        OBVIOUS
      <4> QED
        BY <1>6, <2>6, <4>1
    <3>2. b = Nth(InnerAt(f, n, q)) /\ b # 0
      BY <2>3, <2>4, <2>6, <3>1 DEF Got
    <3> QED
      BY <1>3, <2>1, <2>6, <3>2
  <2>7. CASE q \notin Inner(f, n) /\ InDouble(f, n) > 0
    <3>1. b = 0
      BY <2>3, <2>4, <2>7 DEF Got
    <3> QED
      BY <2>1, <2>5, <2>7, <3>1 DEF Got
  <2>8. CASE q \notin Inner(f, n) /\ ~(InDouble(f, n) > 0)
    <3>1. b = Below(i_block[f][Double], q) /\ b \in Block \cup {0} /\ b \notin free
      BY <1>9, <2>3, <2>8
    <3>2. b # 0 => ptr'[b][e] = ptr[b][e]
      BY <1>3, <3>1
    <3>3. Below(b, e) = IF b = 0 THEN 0 ELSE ptr[b][e]
      BY DEF Below
    <3> QED
      BY <2>1, <2>2, <2>5, <2>8, <3>1, <3>2, <3>3
  <2> QED
    BY <2>6, <2>7, <2>8
<1> QED
  BY <1>10, <1>11, <1>12, <1>13, CellIs

-----------------------------------------------------------------------------
(* Sizes in blocks, and the pointer that leads to a block of a file.       *)

LEMMA BlocksIs ==
    ASSUME NEW a \in Nat
    PROVE  /\ Blocks(a) \in Nat /\ Blocks(a) * BlockSize \in Int
           /\ a <= Blocks(a) * BlockSize /\ Blocks(a) * BlockSize < a + BlockSize
<1>1. BlockSize \in Nat \ {0}
  BY Geometry
<1>2. /\ Blocks(a) \in Nat
      /\ a <= Blocks(a) * BlockSize /\ Blocks(a) * BlockSize < a + BlockSize
  BY <1>1, RoundingUp DEF Blocks
<1> QED
  BY <1>1, <1>2

LEMMA BlocksGrow ==
    ASSUME NEW a \in Nat, NEW b \in Nat, a <= b
    PROVE  /\ Blocks(a) <= Blocks(b)
           /\ b - a \in Nat /\ Blocks(b) <= Blocks(a) + BlocksToAllocate(a, b)
           /\ BlocksToDeallocate(b, a) \in 0 .. Blocks(b)
           /\ \A m \in Nat : a <= m * BlockSize => Blocks(a) <= m
<1> DEFINE A == Blocks(a)
           B == Blocks(b)
           C == Blocks(b - a)
           D == (b - a) \div BlockSize
           P == BlockSize
<1>1. P \in Nat \ {0} /\ b - a \in Nat
  BY Geometry
<1>2. /\ A \in Nat /\ a <= A * P /\ A * P < a + P /\ A * P \in Int
      /\ B \in Nat /\ b <= B * P /\ B * P < b + P /\ B * P \in Int
      /\ C \in Nat /\ b - a <= C * P /\ C * P < b - a + P /\ C * P \in Int
  BY <1>1, BlocksIs
<1>3. D \in Nat /\ D * P <= b - a /\ D * P \in Int
  <2>1. D \in Nat /\ (b - a) % P \in 0 .. P - 1 /\ D * P = (b - a) - ((b - a) % P)
    BY <1>1, Quotients
  <2> QED
    BY <1>1, <2>1
<1> HIDE DEF A, B, C, D, P
<1>4. A <= B
  <2>1. A * P < B * P + P
    BY <1>1, <1>2
  <2> QED
    BY <1>1, <1>2, <2>1, Multiples
<1>5. B <= A + C
  <2>1. (A + C) * P = A * P + C * P
    BY <1>1, <1>2, Multiples
  <2>2. B * P < (A + C) * P + P
    BY <1>1, <1>2, <2>1
  <2>3. A + C \in Int /\ B \in Int
    BY <1>2
  <2> QED
    BY <1>1, <2>2, <2>3, Multiples
<1>6. D <= B
  <2>1. D * P < B * P + P
    BY <1>1, <1>2, <1>3
  <2> QED
    BY <1>1, <1>2, <1>3, <2>1, Multiples
<1>7. ASSUME NEW m \in Nat, a <= m * P PROVE A <= m
  <2>1. A * P < m * P + P
    <3>1. m * P \in Int
      BY <1>1
    <3> QED
      BY <1>1, <1>2, <1>7, <3>1
  <2> QED
    BY <1>1, <1>2, <2>1, Multiples
<1>8. D \in 0 .. B
  BY <1>2, <1>3, <1>6
<1> QED
  BY <1>1, <1>4, <1>5, <1>7, <1>8 DEF A, B, C, D, P, BlocksToAllocate, BlocksToDeallocate

Limit == Direct + Entries + Entries * Entries

LEMMA SizesAre ==
    ASSUME TypeOK
    PROVE  /\ Sizes \subseteq Nat /\ Limit \in Nat
           /\ \A f \in File : /\ size[f] \in Nat /\ Blocks(size[f]) \in Nat
                              /\ Index(f) = 0 .. Blocks(size[f]) - 1
                              /\ Index(f) \subseteq 0 .. Limit - 1
<1>1. BlockSize \in Nat \ {0} /\ Limit \in Nat /\ BlockSize * Limit \in Nat
  BY Geometry DEF Limit
<1>2. BlockSize * Limit = Limit * BlockSize
  BY <1>1
<1>3. Sizes \subseteq 0 .. BlockSize * Limit
  BY MapAssumption DEF Limit
<1>4. ASSUME NEW f \in File
      PROVE  /\ size[f] \in Nat /\ Blocks(size[f]) \in Nat
             /\ Blocks(size[f]) <= Limit
  <2>1. size[f] \in Nat /\ size[f] <= Limit * BlockSize
    <3>1. size[f] \in Sizes \/ size[f] = 0
      BY DEF TypeOK
    <3>2. \A x \in Sizes : x \in Nat /\ x <= BlockSize * Limit
      BY <1>1, <1>3
    <3>3. 0 <= BlockSize * Limit
      BY <1>1
    <3>4. size[f] \in Nat /\ size[f] <= BlockSize * Limit
      BY <3>1, <3>2, <3>3
    <3> QED
      BY <1>2, <3>4
  <2>2. Blocks(size[f]) <= Limit
    BY <1>1, <2>1, BlocksGrow
  <2> QED
    BY <2>1, <2>2, BlocksIs
<1>5. ASSUME NEW f \in File PROVE Index(f) \subseteq 0 .. Limit - 1
  BY <1>1, <1>4 DEF Index
<1> QED
  BY <1>1, <1>3, <1>4, <1>5 DEF Index

CellOf(i) ==
    IF i < Direct THEN <<"slot", i, 0>>
    ELSE IF i - Direct < Entries THEN <<"single", i - Direct + 1, 0>>
    ELSE <<"double", (i - Direct - Entries) \div Entries + 1,
                     ((i - Direct - Entries) % Entries) + 1>>

LEMMA CellOfIs ==
    ASSUME NEW f, NEW i \in 0 .. Limit - 1
    PROVE  CellOf(i) \in Cell /\ BlockAt(f, i) = Value(f, CellOf(i))
<1>1. /\ Direct \in Nat \ {0} /\ Entries \in Nat \ {0} /\ i \in Nat
      /\ Entries * Entries \in Nat /\ i < Direct + Entries + Entries * Entries
  BY Geometry DEF Limit
<1>2. CASE i < Direct
  <2>1. CellOf(i) = <<"slot", i, 0>> /\ i \in Slot
    BY <1>1, <1>2, Geometry DEF CellOf
  <2> QED
    BY <1>2, <2>1, CellIs, ValueIs DEF BlockAt
<1>3. CASE ~(i < Direct) /\ i - Direct < Entries
  <2>1. CellOf(i) = <<"single", i - Direct + 1, 0>> /\ i - Direct + 1 \in Entry
    BY <1>1, <1>3, Geometry DEF CellOf
  <2>2. BlockAt(f, i) = Below(i_block[f][Single], i - Direct + 1)
    BY <1>3 DEF BlockAt, Below
  <2> QED
    BY <2>1, <2>2, CellIs, ValueIs
<1>4. CASE ~(i < Direct) /\ ~(i - Direct < Entries)
  <2> DEFINE k == i - Direct - Entries
             q == k \div Entries + 1
             e == (k % Entries) + 1
  <2>1. k \in Nat /\ k < Entries * Entries
    BY <1>1, <1>4
  <2>2. q \in Entry /\ e \in Entry
    <3>1. /\ k \div Entries \in Nat /\ k % Entries \in 0 .. Entries - 1
          /\ (k \div Entries) * Entries = k - (k % Entries)
      BY <1>1, <2>1, Quotients
    <3> DEFINE d == k \div Entries
               r == k % Entries
    <3>2. d * Entries < Entries * Entries
      <4> HIDE DEF k, d, r
      <4>1. d * Entries = k - r /\ r \in 0 .. Entries - 1
        BY <3>1 DEF d, r
      <4> QED
        BY <1>1, <2>1, <4>1
    <3>3. d < Entries
      <4> HIDE DEF d
      <4>1. d \in Int /\ Entries \in Int
        BY <1>1, <3>1 DEF d
      <4> QED
        BY <1>1, <3>2, <4>1, Multiples
    <3>4. d \in Nat /\ r \in 0 .. Entries - 1
      BY <3>1
    <3> HIDE DEF d, r, k
    <3>5. d + 1 \in 1 .. Entries /\ r + 1 \in 1 .. Entries
      BY <1>1, <3>3, <3>4
    <3> QED
      BY <3>5, Geometry DEF d, r
  <2>3. CellOf(i) = <<"double", q, e>>
    BY <1>4 DEF CellOf
  <2>4. BlockAt(f, i) = Below(Below(i_block[f][Double], q), e)
    BY <1>4 DEF BlockAt, Below
  <2> HIDE DEF q, e
  <2> QED
    BY <2>2, <2>3, <2>4, CellIs, ValueIs
<1> QED
  BY <1>2, <1>3, <1>4

LEMMA CellOfDiffer ==
    ASSUME NEW i \in 0 .. Limit - 1, NEW j \in 0 .. Limit - 1, CellOf(i) = CellOf(j)
    PROVE  i = j
<1>1. /\ Direct \in Nat \ {0} /\ Entries \in Nat \ {0} /\ i \in Nat /\ j \in Nat
  BY Geometry DEF Limit
<1>2. CASE i < Direct
  BY <1>1, <1>2 DEF CellOf
<1>3. CASE ~(i < Direct) /\ i - Direct < Entries
  <2>1. CellOf(j) = <<"single", i - Direct + 1, 0>>
    BY <1>3 DEF CellOf
  <2>2. CellOf(j) = <<"single", j - Direct + 1, 0>>
    BY <2>1 DEF CellOf
  <2> QED
    BY <1>1, <2>1, <2>2
<1>4. CASE ~(i < Direct) /\ ~(i - Direct < Entries)
  <2> DEFINE Q(x) == (x - Direct - Entries) \div Entries
             R(x) == (x - Direct - Entries) % Entries
  <2>1. CellOf(i) = <<"double", Q(i) + 1, R(i) + 1>>
    BY <1>4 DEF CellOf
  <2>2. /\ CellOf(j) = <<"double", Q(j) + 1, R(j) + 1>>
        /\ ~(j < Direct) /\ ~(j - Direct < Entries)
    <3> HIDE DEF Q, R
    <3>1. CellOf(j)[1] = "double"
      BY <2>1
    <3> QED
      BY <3>1 DEF CellOf, Q, R
  <2>3. ASSUME NEW x \in Nat, ~(x < Direct), ~(x - Direct < Entries)
        PROVE  /\ Q(x) \in Nat /\ R(x) \in Nat
               /\ Q(x) * Entries = (x - Direct - Entries) - R(x)
    <3>1. x - Direct - Entries \in Nat
      BY <1>1, <2>3
    <3>2. PICK k \in Nat : k = x - Direct - Entries
      BY <3>1
    <3>3. /\ k \div Entries \in Nat /\ k % Entries \in 0 .. Entries - 1
          /\ (k \div Entries) * Entries = k - (k % Entries)
      BY <1>1, Quotients
    <3>4. Q(x) = k \div Entries /\ R(x) = k % Entries
      BY <3>2
    <3>5. R(x) \in Nat
      <4>1. k % Entries \in Nat
        BY <1>1, <3>3
      <4> QED
        BY <3>4, <4>1
    <3> HIDE DEF Q, R
    <3> QED
      BY <3>2, <3>3, <3>4, <3>5
  <2>4. /\ Q(i) \in Nat /\ R(i) \in Nat /\ Q(i) * Entries = (i - Direct - Entries) - R(i)
        /\ Q(j) \in Nat /\ R(j) \in Nat /\ Q(j) * Entries = (j - Direct - Entries) - R(j)
    BY <1>1, <1>4, <2>2, <2>3
  <2> HIDE DEF Q, R
  <2>5. Q(i) + 1 = Q(j) + 1 /\ R(i) + 1 = R(j) + 1
    <3>1. CellOf(i)[2] = Q(i) + 1 /\ CellOf(i)[3] = R(i) + 1
      BY <2>1
    <3>2. CellOf(j)[2] = Q(j) + 1 /\ CellOf(j)[3] = R(j) + 1
      BY <2>2
    <3> QED
      BY <3>1, <3>2
  <2>6. Q(i) = Q(j) /\ R(i) = R(j)
    BY <2>4, <2>5
  <2>7. (i - Direct - Entries) - R(i) = (j - Direct - Entries) - R(i)
    BY <2>4, <2>6
  <2> QED
    BY <1>1, <2>4, <2>7
<1> QED
  BY <1>2, <1>3, <1>4

(* An inode leads to what its pointers name.                               *)
LEMMA RefsAre ==
    ASSUME TypeOK, NEW f \in File
    PROVE  \A b \in Refs(f) : b # 0 /\ \E c \in Cell : b = Value(f, c)
<1> SUFFICES ASSUME NEW b \in Refs(f)
             PROVE  b # 0 /\ \E c \in Cell : b = Value(f, c)
  OBVIOUS
<1> DEFINE s == i_block[f][Single]
           d == i_block[f][Double]
           Is(x) == \E c \in Cell : x = Value(f, c)
<1>1. /\ \A t \in Slot : Is(i_block[f][t])
      /\ \A e \in Entry : /\ s # 0 => Is(ptr[s][e])
                          /\ d # 0 => Is(ptr[d][e])
                          /\ \A q \in Entry : d # 0 /\ ptr[d][q] # 0 => Is(ptr[ptr[d][q]][e])
  <2>1. \A t \in Slot : Is(i_block[f][t])
    BY CellIs, ValueIs
  <2>2. ASSUME NEW e \in Entry, s # 0 PROVE Is(ptr[s][e])
    BY <2>2, CellIs, ValueIs DEF Below
  <2>3. ASSUME NEW e \in Entry, d # 0 PROVE Is(ptr[d][e])
    BY <2>3, CellIs, ValueIs DEF Below
  <2>4. ASSUME NEW e \in Entry, NEW q \in Entry, d # 0, ptr[d][q] # 0
        PROVE  Is(ptr[ptr[d][q]][e])
    <3>1. ptr[ptr[d][q]][e] = Value(f, <<"double", q, e>>)
      BY <2>4, ValueIs DEF Below
    <3>2. <<"double", q, e>> \in Cell
      BY CellIs
    <3> QED
      BY <3>1, <3>2
  <2> HIDE DEF Is
  <2> QED
    BY <2>1, <2>2, <2>3, <2>4
<1> DEFINE below(bs) == bs \cup {ptr[x][e] : x \in bs \ {0}, e \in Entry}
<1>2. /\ b # 0
      /\ \/ b \in {i_block[f][t] : t \in 0 .. Direct - 1}
         \/ b \in below({s})
         \/ b \in below(below({d}))
  BY DEF Refs
<1> HIDE DEF Is
<1>3. CASE b \in {i_block[f][t] : t \in 0 .. Direct - 1}
  BY <1>1, <1>2, <1>3, CellIs DEF Is
<1>4. CASE b \in below({s})
  BY <1>1, <1>2, <1>4, CellIs DEF Is
<1>5. ASSUME NEW x \in below({d})
      PROVE  x = d \/ (d # 0 /\ \E q \in Entry : x = ptr[d][q])
  BY <1>5
<1>6. Is(d)
  BY <1>1, CellIs
<1>7. CASE b \in below(below({d}))
  <2>1. CASE b \in below({d})
    BY <1>1, <1>2, <1>5, <1>6, <2>1 DEF Is
  <2>2. CASE \E x \in below({d}) \ {0}, e \in Entry : b = ptr[x][e]
    <3>1. PICK x \in below({d}), e \in Entry : x # 0 /\ b = ptr[x][e]
      BY <2>2
    <3>2. x = d \/ (d # 0 /\ \E q \in Entry : x = ptr[d][q])
      BY <1>5
    <3> HIDE DEF below, d, s
    <3> QED
      BY <1>1, <1>2, <3>1, <3>2 DEF Is
  <2> QED
    BY <1>7, <2>1, <2>2
<1> QED
  BY <1>2, <1>3, <1>4, <1>7 DEF Is

-----------------------------------------------------------------------------
(* The block list of a file.                                               *)

LEMMA IndicesAre ==
    ASSUME NEW f, NEW i \in Indices(f)
    PROVE  i \in 0 .. Limit - 1 /\ BlockAt(f, i) # 0
<1>1. /\ Direct \in Nat \ {0} /\ Entries \in Nat \ {0} /\ Entry = 1 .. Entries
      /\ Limit = Direct + Entries + Entries * Entries /\ Entries * Entries \in Nat
  BY Geometry DEF Limit
<1>2. i \in DirectIndices(f) \/ i \in SingleIndices(f) \/ i \in DoubleIndices(f)
  BY DEF Indices
<1>3. CASE i \in DirectIndices(f)
  <2>1. i \in 0 .. Direct - 1 /\ i_block[f][i] # 0
    BY <1>3 DEF DirectIndices
  <2>2. BlockAt(f, i) = i_block[f][i]
    BY <1>1, <2>1 DEF BlockAt
  <2> QED
    BY <1>1, <2>1, <2>2
<1>4. CASE i \in SingleIndices(f)
  <2>1. PICK e \in ToZero(i_block[f][Single]) : i = Direct + e - 1
    BY <1>4 DEF SingleIndices
  <2>2. e \in 1 .. Entries /\ i_block[f][Single] # 0 /\ ptr[i_block[f][Single]][e] # 0
    BY <1>1 DEF ToZero
  <2>3. ~(i < Direct) /\ i - Direct < Entries /\ i - Direct + 1 = e /\ i \in 0 .. Limit - 1
    BY <1>1, <2>1, <2>2
  <2>4. BlockAt(f, i) = ptr[i_block[f][Single]][e]
    BY <2>2, <2>3 DEF BlockAt
  <2> QED
    BY <2>2, <2>3, <2>4
<1>5. CASE i \in DoubleIndices(f)
  <2> DEFINE b == i_block[f][Double]
  <2>1. PICK q \in ToZero(b) : i \in {Direct + q * Entries + x - 1 : x \in ToZero(ptr[b][q])}
    BY <1>5 DEF DoubleIndices
  <2>2. PICK e \in ToZero(ptr[b][q]) : i = Direct + q * Entries + e - 1
    BY <2>1
  <2>3. /\ q \in 1 .. Entries /\ b # 0 /\ ptr[b][q] # 0
        /\ e \in 1 .. Entries /\ ptr[ptr[b][q]][e] # 0
    BY <1>1 DEF ToZero
  <2>4. PICK k \in Nat : k = (e - 1) + (q - 1) * Entries
    <3>1. q - 1 \in Nat /\ e - 1 \in Nat
      BY <2>3
    <3>2. (q - 1) * Entries \in Nat
      BY <1>1, <3>1
    <3> QED
      BY <3>1, <3>2
  <2>5. k \div Entries = q - 1 /\ k % Entries = e - 1
    <3>1. q - 1 \in Nat /\ e - 1 \in 0 .. Entries - 1
      BY <1>1, <2>3
    <3> QED
      BY <1>1, <2>4, <3>1, DivUnique
  <2>6. (q - 1) * Entries = q * Entries - Entries /\ q * Entries \in Int
    BY <1>1, <2>3
  <2>7. i - Direct - Entries = k /\ i \in Nat
    BY <1>1, <2>2, <2>3, <2>4, <2>6
  <2>8. k < Entries * Entries
    <3>1. (q - 1) * Entries <= (Entries - 1) * Entries
      BY <1>1, <2>3, Multiples
    <3>2. (Entries - 1) * Entries = Entries * Entries - Entries
      BY <1>1
    <3>3. (q - 1) * Entries \in Int
      BY <1>1, <2>3
    <3> QED
      BY <1>1, <2>3, <2>4, <3>1, <3>2, <3>3, SMTT(30)
  <2>9. ~(i < Direct) /\ ~(i - Direct < Entries) /\ i \in 0 .. Limit - 1
    BY <1>1, <2>7, <2>8
  <2>10. (q - 1) + 1 = q /\ (e - 1) + 1 = e
    BY <2>3
  <2>11. BlockAt(f, i) = Below(Below(b, k \div Entries + 1), (k % Entries) + 1)
    BY <2>7, <2>9 DEF BlockAt, Below
  <2>12. BlockAt(f, i) = ptr[ptr[b][q]][e]
    BY <2>3, <2>5, <2>10, <2>11 DEF Below
  <2> QED
    BY <2>3, <2>9, <2>12
<1> QED
  BY <1>2, <1>3, <1>4, <1>5

LEMMA ListIs ==
    ASSUME TypeOK, NEW f \in File
    PROVE  /\ Len(BlockList(f)) = Cardinality(Indices(f))
           /\ Cardinality(Indices(f)) \in Nat
           /\ \A k \in 1 .. Cardinality(Indices(f)) :
                /\ Kth(Indices(f), k) \in 0 .. Limit - 1
                /\ CellOf(Kth(Indices(f), k)) \in Cell
                /\ BlockList(f)[k] = Value(f, CellOf(Kth(Indices(f), k)))
                /\ BlockList(f)[k] \in Block
           /\ \A k, l \in 1 .. Cardinality(Indices(f)) :
                Kth(Indices(f), k) = Kth(Indices(f), l) => k = l
<1>1. Indices(f) \in SUBSET (0 .. Limit - 1) /\ Limit \in Nat
  BY IndicesAre, SizesAre
<1>2. IsFiniteSet(Indices(f))
  <2>1. 0 \in Int /\ Limit - 1 \in Int
    BY <1>1
  <2>2. IsFiniteSet(0 .. Limit - 1)
    BY <2>1, FS_Interval
  <2> QED
    BY <1>1, <2>2, FS_Subset
<1>3. Cardinality(Indices(f)) \in Nat /\ Indices(f) \in SUBSET Nat
  BY <1>1, <1>2, FS_CardinalityType
<1>4. /\ Len(BlockList(f)) = Cardinality(Indices(f))
      /\ \A k \in 1 .. Cardinality(Indices(f)) :
            BlockList(f)[k] = BlockAt(f, Kth(Indices(f), k))
  <2> DEFINE n == Cardinality(Indices(f))
  <2>1. BlockList(f) = [k \in 1 .. n |-> BlockAt(f, Kth(Indices(f), k))]
    BY DEF BlockList
  <2>2. n \in Nat
    BY <1>3
  <2> HIDE DEF n
  <2>3. BlockList(f) \in Seq({BlockAt(f, Kth(Indices(f), k)) : k \in 1 .. n})
        /\ DOMAIN BlockList(f) = 1 .. n
    BY <2>1, <2>2
  <2>4. Len(BlockList(f)) = n
    BY <2>2, <2>3, LenProperties
  <2> QED
    BY <2>1, <2>4 DEF n
<1>5. ASSUME NEW k \in 1 .. Cardinality(Indices(f))
      PROVE  /\ Kth(Indices(f), k) \in 0 .. Limit - 1
             /\ CellOf(Kth(Indices(f), k)) \in Cell
             /\ BlockList(f)[k] = Value(f, CellOf(Kth(Indices(f), k)))
             /\ BlockList(f)[k] \in Block
  <2>1. Kth(Indices(f), k) \in Indices(f)
    BY <1>2, <1>3, KthIs
  <2>2. Kth(Indices(f), k) \in 0 .. Limit - 1 /\ BlockAt(f, Kth(Indices(f), k)) # 0
    BY <2>1, IndicesAre
  <2>3. /\ CellOf(Kth(Indices(f), k)) \in Cell
        /\ BlockAt(f, Kth(Indices(f), k)) = Value(f, CellOf(Kth(Indices(f), k)))
    BY <2>2, CellOfIs
  <2> QED
    BY <1>4, <2>2, <2>3, ValueTyped
<1>6. \A k, l \in 1 .. Cardinality(Indices(f)) :
            Kth(Indices(f), k) = Kth(Indices(f), l) => k = l
  BY <1>2, <1>3, KthDiffer
<1> QED
  BY <1>3, <1>4, <1>5, <1>6

(* What is released are blocks the file leads to.                          *)
LEMMA ReleasedAre ==
    ASSUME TypeOK, NEW f \in File, NEW n \in 0 .. Len(BlockList(f))
    PROVE  \A b \in Released(BlockList(f), n) :
                b \in Block /\ \E c \in Cell : b = Value(f, c)
<1>1. Len(BlockList(f)) = Cardinality(Indices(f)) /\ Cardinality(Indices(f)) \in Nat
  BY ListIs
<1>2. 1 .. n \subseteq 1 .. Cardinality(Indices(f))
  BY <1>1
<1>3. ASSUME NEW b \in Released(BlockList(f), n)
      PROVE  b \in Block /\ \E c \in Cell : b = Value(f, c)
  <2>1. PICK k \in 1 .. n : b = BlockList(f)[k]
    BY DEF Released
  <2> QED
    BY <1>2, <2>1, ListIs
<1> QED
  BY <1>3

(* The release of the blocks of a file goes through.                       *)
LEMMA NothingStops ==
    ASSUME TypeOK, Exclusive, Marked, NEW f \in live, NEW n \in 0 .. Len(BlockList(f))
    PROVE  Stops(BlockList(f), n) = {}
<1>1. f \in File
  BY DEF TypeOK
<1>2. Len(BlockList(f)) = Cardinality(Indices(f)) /\ Cardinality(Indices(f)) \in Nat
  BY <1>1, ListIs
<1>3. 1 .. n \subseteq 1 .. Cardinality(Indices(f))
  BY <1>2
<1>4. ASSUME NEW i \in 1 .. n
      PROVE  BlockList(f)[i] \notin free /\ \A j \in i + 1 .. n : BlockList(f)[j] # BlockList(f)[i]
  <2> DEFINE c == CellOf(Kth(Indices(f), i))
  <2>1. /\ Kth(Indices(f), i) \in 0 .. Limit - 1 /\ c \in Cell
        /\ BlockList(f)[i] = Value(f, c) /\ BlockList(f)[i] \in Block
    BY <1>1, <1>3, ListIs
  <2>2. BlockList(f)[i] \notin free
    BY <2>1 DEF Marked
  <2>3. ASSUME NEW j \in i + 1 .. n PROVE BlockList(f)[j] # BlockList(f)[i]
    <3> SUFFICES ASSUME BlockList(f)[j] = BlockList(f)[i] PROVE FALSE
      OBVIOUS
    <3> DEFINE d == CellOf(Kth(Indices(f), j))
    <3>1. j \in 1 .. n /\ j # i
      BY <1>2
    <3>2. /\ Kth(Indices(f), j) \in 0 .. Limit - 1 /\ d \in Cell
          /\ BlockList(f)[j] = Value(f, d)
      BY <1>1, <1>3, <3>1, ListIs
    <3>3. Value(f, c) # 0 /\ Value(f, c) = Value(f, d)
      BY <2>1, <3>2, Geometry
    <3>4. c = d
      BY <2>1, <3>2, <3>3 DEF Exclusive
    <3>5. Kth(Indices(f), i) = Kth(Indices(f), j)
      BY <2>1, <3>2, <3>4, CellOfDiffer
    <3> QED
      BY <1>1, <1>3, <3>1, <3>5, ListIs
  <2> QED
    BY <2>2, <2>3
<1> QED
  BY <1>4 DEF Stops

(* A file without pointer blocks has as many blocks in its list as its     *)
(* size asks for.                                                          *)
LEMMA DirectLoads ==
    ASSUME TypeOK, Filled, NEW f \in File, IsDirect(f)
    PROVE  /\ Len(BlockList(f)) = Blocks(size[f])
           /\ Cardinality(Indices(f)) = Blocks(size[f])
<1> DEFINE B == Blocks(size[f])
           used == {i \in 0 .. Direct - 1 : i_block[f][i] # 0}
<1>1. B \in Nat /\ B <= Direct /\ Direct \in Nat \ {0}
  BY SizesAre, Geometry DEF Filled
<1>2. \A i \in 0 .. B - 1 : i \in used
  <2>1. ASSUME NEW i \in 0 .. B - 1 PROVE i \in used
    <3>1. i \in Index(f) /\ i < Direct /\ i \in 0 .. Direct - 1
      BY <1>1 DEF Index
    <3> QED
      BY <3>1 DEF Filled
  <2> QED
    BY <2>1
<1>3. used \in SUBSET Nat /\ IsFiniteSet(used)
  <2>1. IsFiniteSet(0 .. Direct - 1)
    <3>1. 0 \in Int /\ Direct - 1 \in Int
      BY <1>1
    <3> QED
      BY <3>1, FS_Interval
  <2>2. used \in SUBSET (0 .. Direct - 1)
    OBVIOUS
  <2>3. used \in SUBSET Nat
    OBVIOUS
  <2> HIDE DEF used
  <2> QED
    BY <2>1, <2>2, <2>3, FS_Subset
<1>4. \A m \in Nat : IsFiniteSet(0 .. m - 1) /\ Cardinality(0 .. m - 1) = m
  <2> TAKE m \in Nat
  <2>1. 0 \in Int /\ m - 1 \in Int /\ (0 > m - 1 => m = 0) /\ (m - 1) - 0 + 1 = m
    OBVIOUS
  <2> QED
    BY <2>1, FS_Interval
<1>5. DirectIndices(f) = {i \in used : Cardinality({j \in used : j < i}) < B}
  BY DEF DirectIndices
<1> HIDE DEF B, used
<1>6. DirectIndices(f) = 0 .. B - 1
  <2>1. ASSUME NEW i \in 0 .. B - 1 PROVE i \in DirectIndices(f)
    <3>1. i \in used /\ i \in Nat /\ i < B
      BY <1>1, <1>2
    <3>2. {j \in used : j < i} \in SUBSET (0 .. i - 1)
      <4>1. \A j \in used : j \in Nat
        BY <1>3
      <4>2. \A j \in used : j < i => j \in 0 .. i - 1
        BY <3>1, <4>1
      <4> QED
        BY <4>2
    <3>3. Cardinality({j \in used : j < i}) <= i
      BY <1>4, <3>1, <3>2, FS_Subset
    <3>4. Cardinality({j \in used : j < i}) \in Nat
      BY <1>4, <3>1, <3>2, FS_Subset, FS_CardinalityType
    <3>5. Cardinality({j \in used : j < i}) < B
      BY <1>1, <3>1, <3>3, <3>4
    <3> QED
      BY <1>5, <3>1, <3>5
  <2>2. ASSUME NEW i \in DirectIndices(f) PROVE i \in 0 .. B - 1
    <3>1. i \in used /\ i \in Nat /\ Cardinality({j \in used : j < i}) < B
      BY <1>3, <1>5
    <3> SUFFICES ASSUME i >= B PROVE FALSE
      BY <1>1, <3>1
    <3> DEFINE A == {j \in used : j < i}
    <3>2. 0 .. B - 1 \in SUBSET A
      BY <1>1, <1>2, <3>1
    <3>3. IsFiniteSet(A) /\ Cardinality(A) \in Nat
      <4>1. A \in SUBSET used
        OBVIOUS
      <4> HIDE DEF A
      <4> QED
        BY <1>3, <4>1, FS_Subset, FS_CardinalityType
    <3>4. Cardinality(A) < B
      BY <3>1
    <3> HIDE DEF A
    <3>5. Cardinality(0 .. B - 1) <= Cardinality(A)
      BY <3>2, <3>3, FS_Subset
    <3>6. B <= Cardinality(A)
      BY <1>1, <1>4, <3>5
    <3> QED
      BY <1>1, <3>3, <3>4, <3>6
  <2> QED
    BY <2>1, <2>2
<1>7. SingleIndices(f) = {} /\ DoubleIndices(f) = {}
  <2>1. ToZero(0) = {}
    BY DEF ToZero
  <2> QED
    BY <2>1 DEF IsDirect, SingleIndices, DoubleIndices
<1>8. Indices(f) = DirectIndices(f)
  BY <1>7 DEF Indices
<1>9. Cardinality(Indices(f)) = B
  BY <1>1, <1>4, <1>6, <1>8
<1> QED
  BY <1>9, ListIs DEF B

(* Where the blocks under the double indirect block lie in a file.         *)
LEMMA Spot ==
    ASSUME NEW f, NEW q \in Nat \ {0}, NEW e \in Entry
    PROVE  \E i \in Nat :
              /\ i = Direct + q * Entries + e - 1
              /\ ~(i < Direct) /\ ~(i - Direct < Entries)
              /\ BlockAt(f, i) = Below(Below(i_block[f][Double], q), e)
<1> DEFINE k == (e - 1) + (q - 1) * Entries
           i == Direct + q * Entries + e - 1
<1>1. /\ Direct \in Nat \ {0} /\ Entries \in Nat \ {0} /\ e \in 1 .. Entries
      /\ q - 1 \in Nat /\ e - 1 \in 0 .. Entries - 1
  BY Geometry
<1>2. (q - 1) * Entries = q * Entries - Entries /\ q * Entries \in Nat
      /\ (q - 1) * Entries \in Nat
  BY <1>1
<1>3. k \in Nat /\ k = i - Direct - Entries /\ i \in Nat /\ i - Direct - Entries \in Nat
  BY <1>1, <1>2
<1>4. k \div Entries = q - 1 /\ k % Entries = e - 1
  BY <1>1, DivUnique
<1>5. ~(i < Direct) /\ ~(i - Direct < Entries)
  <2> HIDE DEF i
  <2> QED
    BY <1>1, <1>3
<1>6. k \div Entries + 1 = q /\ (k % Entries) + 1 = e
  BY <1>1, <1>4
<1> HIDE DEF k, i
<1>7. BlockAt(f, i) = Below(Below(i_block[f][Double], k \div Entries + 1), (k % Entries) + 1)
  BY <1>3, <1>5 DEF BlockAt, Below
<1> QED
  BY <1>3, <1>5, <1>6, <1>7 DEF i

(* When every block of a file has its pointer, a load never goes on past   *)
(* what the code assigned.                                                 *)
LEMMA WholeIndices ==
    ASSUME TypeOK, NEW f \in File, \A i \in Index(f) : BlockAt(f, i) # 0,
           Cardinality(DirectIndices(f)) < Blocks(size[f])
    PROVE  ~(Cardinality(Indices(f)) < Blocks(size[f]))
<1> DEFINE N == Blocks(size[f])
           S == i_block[f][Single]
           D == i_block[f][Double]
           used == {i \in 0 .. Direct - 1 : i_block[f][i] # 0}
           known == DirectIndices(f) \cup SingleIndices(f)
<1>1. /\ N \in Nat /\ Index(f) = 0 .. N - 1 /\ Index(f) \subseteq 0 .. Limit - 1
      /\ Limit \in Nat /\ Direct \in Nat \ {0} /\ Entries \in Nat \ {0}
      /\ Entry = 1 .. Entries
  BY SizesAre, Geometry
<1>2. Indices(f) = IF Cardinality(known) < N THEN known \cup DoubleIndices(f) ELSE known
  BY DEF Indices
<1>3. CASE ~(Cardinality(known) < N)
  BY <1>2, <1>3
<1>4. CASE Cardinality(known) < N
  <2> HIDE DEF N, known
  <2>1. Indices(f) = DirectIndices(f) \cup SingleIndices(f) \cup DoubleIndices(f)
    BY <1>2, <1>4 DEF known
  <2>2. ASSUME NEW i \in 0 .. N - 1 PROVE i \in Indices(f)
    <3>1. i \in Nat /\ i < N /\ i \in Index(f) /\ BlockAt(f, i) # 0 /\ i \in 0 .. Limit - 1
      BY <1>1
    <3>2. \A j \in Nat : j <= i => BlockAt(f, j) # 0
      <4>1. \A j \in Nat : j <= i => j \in 0 .. N - 1
        BY <1>1, <3>1
      <4> QED
        BY <1>1, <4>1
    <3>3. CASE i < Direct
      <4>1. BlockAt(f, i) = i_block[f][i]
        BY <3>3 DEF BlockAt
      <4>2. i \in used
        BY <1>1, <3>1, <3>3, <4>1
      <4>3. {j \in used : j < i} \in SUBSET (0 .. i - 1)
        BY <1>1, <3>1
      <4>4. IsFiniteSet(0 .. i - 1) /\ Cardinality(0 .. i - 1) = i
        <5>1. /\ 0 \in Int /\ i - 1 \in Int /\ (0 > i - 1 => i = 0)
              /\ (i - 1) - 0 + 1 = i
          BY <3>1
        <5> QED
          BY <5>1, FS_Interval
      <4> DEFINE A == {j \in used : j < i}
      <4>5. DirectIndices(f) = {x \in used : Cardinality({j \in used : j < x}) < N}
        BY DEF DirectIndices, N
      <4>6. Cardinality(A) <= i /\ Cardinality(A) \in Nat
        <5> HIDE DEF A
        <5>1. A \in SUBSET (0 .. i - 1)
          BY <4>3 DEF A
        <5> QED
          BY <4>4, <5>1, FS_Subset, FS_CardinalityType
      <4>7. Cardinality(A) < N
        <5> HIDE DEF A
        <5> QED
          BY <1>1, <3>1, <4>6
      <4> HIDE DEF used
      <4> QED
        BY <2>1, <4>2, <4>5, <4>7
    <3>4. CASE ~(i < Direct) /\ i - Direct < Entries
      <4> DEFINE e == i - Direct + 1
      <4>1. e \in Entry /\ i = Direct + e - 1
        BY <1>1, <3>1, <3>4
      <4>2. ASSUME NEW d \in 1 .. e PROVE S # 0 /\ ptr[S][d] # 0
        <5> DEFINE j == Direct + d - 1
        <5>1. /\ j \in Nat /\ j <= i /\ ~(j < Direct) /\ j - Direct < Entries
              /\ j - Direct + 1 = d
          BY <1>1, <3>1, <3>4
        <5> HIDE DEF j
        <5>2. BlockAt(f, j) = Below(S, j - Direct + 1)
          BY <5>1 DEF BlockAt, Below
        <5>3. Below(S, d) # 0
          BY <3>2, <5>1, <5>2
        <5> QED
          BY <5>3 DEF Below
      <4>3. e \in 1 .. e
        BY <1>1, <3>1, <3>4
      <4> HIDE DEF e, S
      <4>4. e \in ToZero(S)
        BY <4>1, <4>2, <4>3 DEF ToZero
      <4> QED
        BY <2>1, <4>1, <4>4 DEF SingleIndices, S
    <3>5. CASE ~(i < Direct) /\ ~(i - Direct < Entries)
      <4>1. PICK k \in Nat : k = i - Direct - Entries
        BY <1>1, <3>1, <3>5
      <4>2. /\ k \div Entries \in Nat /\ k % Entries \in 0 .. Entries - 1
            /\ (k \div Entries) * Entries = k - (k % Entries)
        BY <1>1, <4>1, Quotients
      <4>3. PICK q \in Nat \ {0}, e \in Entry :
                q - 1 = k \div Entries /\ e - 1 = k % Entries
        <5>1. /\ k \div Entries + 1 \in Nat \ {0} /\ (k % Entries) + 1 \in Entry
              /\ (k \div Entries + 1) - 1 = k \div Entries
              /\ ((k % Entries) + 1) - 1 = k % Entries
          BY <1>1, <4>2
        <5> QED
          BY <5>1
      <4>4. /\ (q - 1) * Entries = k - (e - 1) /\ e \in 1 .. Entries
            /\ q * Entries = (q - 1) * Entries + Entries
            /\ (q - 1) * Entries \in Nat /\ q * Entries \in Nat
        BY <1>1, <4>2, <4>3
      <4>5. i = Direct + q * Entries + e - 1
        BY <1>1, <3>1, <4>1, <4>4
      <4>6. ASSUME NEW d \in 1 .. q, NEW x \in Entry, d < q \/ x <= e
            PROVE  Below(Below(D, d), x) # 0
        <5>4. d \in Nat \ {0}
          BY <4>3
        <5>1. PICK j \in Nat : /\ j = Direct + d * Entries + x - 1
                               /\ BlockAt(f, j) = Below(Below(D, d), x)
          BY <5>4, Spot
        <5>2. d * Entries \in Nat /\ x \in 1 .. Entries
          BY <1>1
        <5>3. j <= i
          <6>1. CASE d < q
            <7>1. d <= q - 1
              BY <6>1
            <7>2. d * Entries <= (q - 1) * Entries
              BY <1>1, <7>1, Multiples
            <7> QED
              BY <1>1, <4>4, <4>5, <5>1, <5>2, <7>2
          <6>2. CASE ~(d < q)
            <7>1. d = q /\ x <= e
              BY <4>6, <6>2
            <7> QED
              BY <1>1, <4>4, <4>5, <5>1, <5>2, <7>1
          <6> QED
            BY <6>1, <6>2
        <5> QED
          BY <3>2, <5>1, <5>3
      <4>7. 1 \in Entry /\ 1 <= e /\ q \in 1 .. q /\ e \in 1 .. e /\ 1 .. e \subseteq Entry
        BY <1>1, <4>4
      <4> HIDE DEF D
      <4>8. ASSUME NEW d \in 1 .. q PROVE D # 0 /\ ptr[D][d] # 0
        <5>1. Below(Below(D, d), 1) # 0
          BY <4>6, <4>7
        <5> QED
          BY <5>1 DEF Below
      <4>9. ASSUME NEW x \in 1 .. e PROVE ptr[D][q] # 0 /\ ptr[ptr[D][q]][x] # 0
        <5>1. x \in Entry /\ x <= e
          BY <1>1, <4>4, <4>7
        <5>2. Below(Below(D, q), x) # 0
          BY <4>6, <4>7, <5>1
        <5> QED
          BY <4>7, <4>8, <5>2 DEF Below
      <4>10. q \in Entry
        <5>1. k < Entries * Entries
          <6>1. i < Limit
            BY <3>1, <1>1
          <6>2. Limit = Direct + Entries + Entries * Entries /\ Entries * Entries \in Nat
            BY Geometry DEF Limit
          <6> QED
            BY <1>1, <3>1, <4>1, <6>1, <6>2
        <5>2. (q - 1) * Entries < Entries * Entries
          <6>1. Entries * Entries \in Nat
            BY <1>1
          <6> QED
            BY <4>1, <4>4, <5>1, <6>1
        <5>3. q - 1 < Entries
          <6>1. q - 1 \in Int /\ Entries \in Int
            BY <1>1
          <6> QED
            BY <1>1, <5>2, <6>1, Multiples
        <5> QED
          BY <1>1, <5>3
      <4>11. q \in ToZero(D)
        BY <4>7, <4>8, <4>10 DEF ToZero
      <4>12. e \in ToZero(ptr[D][q])
        BY <4>7, <4>9 DEF ToZero
      <4>13. i \in DoubleIndices(f)
        <5>1. i \in {Direct + q * Entries + x - 1 : x \in ToZero(ptr[D][q])}
          BY <4>5, <4>12
        <5> QED
          BY <4>11, <5>1 DEF DoubleIndices, D
      <4> QED
        BY <2>1, <4>13
    <3> QED
      BY <3>3, <3>4, <3>5
  <2>3. IsFiniteSet(Indices(f)) /\ Cardinality(Indices(f)) \in Nat
    <3>1. IsFiniteSet(0 .. Limit - 1)
      <4>1. 0 \in Int /\ Limit - 1 \in Int
        BY <1>1
      <4> QED
        BY <4>1, FS_Interval
    <3>2. Indices(f) \in SUBSET (0 .. Limit - 1)
      BY IndicesAre
    <3> QED
      BY <3>1, <3>2, FS_Subset, FS_CardinalityType
  <2>4. Cardinality(0 .. N - 1) = N
    <3>1. 0 \in Int /\ N - 1 \in Int /\ (0 > N - 1 => N = 0) /\ (N - 1) - 0 + 1 = N
      BY <1>1
    <3> QED
      BY <3>1, FS_Interval
  <2>5. 0 .. N - 1 \in SUBSET Indices(f)
    BY <2>2
  <2>6. Cardinality(0 .. N - 1) <= Cardinality(Indices(f))
    BY <2>3, <2>5, FS_Subset
  <2>7. ~(Cardinality(Indices(f)) < N)
    BY <1>1, <2>3, <2>4, <2>6
  <2> QED
    BY <2>7 DEF N
<1> QED
  BY <1>3, <1>4

(* What a load returns.                                                    *)
LEMMA ListsAre ==
    ASSUME TypeOK, NEW f \in File, NEW m \in 0 .. Blocks(size[f]), NEW list \in Lists(f, m)
    PROVE  /\ \A k \in 1 .. m : list[k] \in Block
           /\ ~spoiled /\ (\A i \in Index(f) : BlockAt(f, i) # 0) =>
                list = BlockList(f) /\ Len(BlockList(f)) = Blocks(size[f])
<1> DEFINE N == Blocks(size[f])
           d == Cardinality(DirectIndices(f))
<1>1. N \in Nat /\ m \in 0 .. N
  BY SizesAre
<1>2. /\ Len(BlockList(f)) = Cardinality(Indices(f)) /\ Cardinality(Indices(f)) \in Nat
      /\ \A k \in 1 .. Cardinality(Indices(f)) : BlockList(f)[k] \in Block
  BY ListIs
<1>3. d \in Nat /\ d <= Cardinality(Indices(f))
  <2>1. IsFiniteSet(Indices(f))
    <3>1. Limit \in Nat /\ Indices(f) \in SUBSET (0 .. Limit - 1)
      BY SizesAre, IndicesAre
    <3>2. IsFiniteSet(0 .. Limit - 1)
      <4>1. 0 \in Int /\ Limit - 1 \in Int
        BY <3>1
      <4> QED
        BY <4>1, FS_Interval
    <3> QED
      BY <3>1, <3>2, FS_Subset
  <2>2. DirectIndices(f) \in SUBSET Indices(f)
    BY DEF Indices
  <2> QED
    BY <2>1, <2>2, FS_Subset, FS_CardinalityType
<1> DEFINE More == d < N /\ (spoiled \/ Cardinality(Indices(f)) < N)
<1>4. \/ More /\ \E rest \in [d + 1 .. m -> Block] :
            list = [k \in 1 .. m |-> IF k <= d THEN BlockList(f)[k] ELSE rest[k]]
      \/ ~More /\ list = BlockList(f) /\ Len(BlockList(f)) = N
  BY DEF Lists
<1> HIDE DEF N, d, More
<1>5. CASE ~More /\ list = BlockList(f) /\ Len(BlockList(f)) = N
  <2>1. 1 .. m \subseteq 1 .. Cardinality(Indices(f))
    BY <1>1, <1>2, <1>5
  <2> QED
    BY <1>2, <1>5, <2>1 DEF N
<1>6. CASE More /\ \E rest \in [d + 1 .. m -> Block] :
            list = [k \in 1 .. m |-> IF k <= d THEN BlockList(f)[k] ELSE rest[k]]
  <2>1. PICK rest \in [d + 1 .. m -> Block] :
            list = [k \in 1 .. m |-> IF k <= d THEN BlockList(f)[k] ELSE rest[k]]
    BY <1>6
  <2>2. ASSUME NEW k \in 1 .. m PROVE list[k] \in Block
    <3>1. CASE k <= d
      <4>1. k \in 1 .. Cardinality(Indices(f))
        BY <1>1, <1>2, <1>3, <3>1
      <4> QED
        BY <1>2, <2>1, <3>1, <4>1
    <3>2. CASE ~(k <= d)
      <4>1. k \in d + 1 .. m
        BY <1>1, <1>3, <3>2
      <4> QED
        BY <2>1, <3>2, <4>1
    <3> QED
      BY <3>1, <3>2
  <2>3. ASSUME ~spoiled, \A i \in Index(f) : BlockAt(f, i) # 0 PROVE FALSE
    <3>1. d < N /\ Cardinality(Indices(f)) < N
      BY <1>6, <2>3 DEF More
    <3> QED
      BY <2>3, <3>1, WholeIndices DEF d, N
  <2> QED
    BY <2>2, <2>3
<1> QED
  BY <1>4, <1>5, <1>6

-----------------------------------------------------------------------------
(* The steps.                                                              *)

LEMMA NoBytes == Blocks(0) = 0 /\ Blocks(0) \in Nat
<1>1. 0 <= 0 * BlockSize
  BY Geometry
<1> QED
  BY <1>1, BlocksGrow, BlocksIs

LEMMA InitInv == Init => Inv
<1> SUFFICES ASSUME Init PROVE Inv
  OBVIOUS
<1>1. TypeOK
  <2>1. NoBlocks \in [Slot -> Block \cup {0}]
    BY DEF NoBlocks
  <2> QED
    BY <2>1 DEF Init, TypeOK
<1>2. Filled
  <2>1. ASSUME NEW f \in File PROVE size[f] = 0 /\ Index(f) = {} /\ Blocks(size[f]) <= Direct
    <3>1. size[f] = 0
      BY DEF Init
    <3> QED
      BY <3>1, NoBytes, Geometry DEF Index
  <2> QED
    BY <2>1 DEF Filled
<1>3. live = {}
  BY DEF Init
<1> QED
  BY <1>1, <1>2, <1>3 DEF Inv, Exclusive, Marked, Whole

(* The pointers of a file that a step does not concern.                    *)
LEMMA Unmoved ==
    ASSUME TypeOK, NEW g \in File, i_block'[g] = i_block[g],
           \/ ptr' = ptr
           \/ /\ \A c \in Cell : Value(g, c) \notin free
              /\ \A b \in Block : b \notin free => ptr'[b] = ptr[b]
    PROVE  \A c \in Cell : Value(g, c)' = Value(g, c)
<1> DEFINE s == i_block[g][Single]
           d == i_block[g][Double]
           Same(b) == \A e \in Entry : Below(b, e)' = Below(b, e)
<1>1. /\ s \in Block \cup {0} /\ d \in Block \cup {0}
      /\ \A q \in Entry : Below(d, q) \in Block \cup {0}
  BY CellIs, ValueIs, ValueTyped
<1>2. ptr' # ptr => /\ s \notin free /\ d \notin free
                    /\ \A q \in Entry : Below(d, q) \notin free
  BY CellIs, ValueIs
<1>3. ASSUME NEW e \in Entry, NEW b \in Block \cup {0}, ptr' # ptr => b \notin free
      PROVE  (IF b = 0 THEN 0 ELSE ptr'[b][e]) = Below(b, e)
  BY <1>3 DEF Below
<1>4. \A t \in Slot : Value(g, <<"slot", t, 0>>)' = i_block'[g][t]
  BY DEF Value
<1>5. ASSUME NEW e \in Entry PROVE Value(g, <<"single", e, 0>>)' = Below(s, e)
  <2>1. Value(g, <<"single", e, 0>>)' = IF s = 0 THEN 0 ELSE ptr'[s][e]
    BY DEF Value, Below
  <2> HIDE DEF s
  <2> QED
    BY <1>1, <1>2, <1>3, <2>1
<1>6. ASSUME NEW q \in Entry
      PROVE  /\ Value(g, <<"inner", q, 0>>)' = Below(d, q)
             /\ Below(i_block[g][Double], q)' = Below(d, q)
  <2>1. /\ Value(g, <<"inner", q, 0>>)' = IF d = 0 THEN 0 ELSE ptr'[d][q]
        /\ Below(i_block[g][Double], q)' = IF d = 0 THEN 0 ELSE ptr'[d][q]
    BY DEF Value, Below
  <2>2. Below(i_block[g][Double], q)' = Value(g, <<"inner", q, 0>>)'
    BY <2>1
  <2>3. (IF d = 0 THEN 0 ELSE ptr'[d][q]) = Below(d, q)
    <3> HIDE DEF d
    <3> QED
      BY <1>1, <1>2, <1>3
  <2> QED
    BY <2>1, <2>3
<1>7. ASSUME NEW q \in Entry, NEW e \in Entry
      PROVE  Value(g, <<"double", q, e>>)' = Below(Below(d, q), e)
  <2> DEFINE b == Below(d, q)
  <2>1. Value(g, <<"double", q, e>>)' =
            LET x == Below(i_block[g][Double], q)' IN IF x = 0 THEN 0 ELSE ptr'[x][e]
    BY DEF Value, Below
  <2>2. Value(g, <<"double", q, e>>)' = IF b = 0 THEN 0 ELSE ptr'[b][e]
    BY <1>6, <2>1
  <2>3. b \in Block \cup {0} /\ (ptr' # ptr => b \notin free)
    BY <1>1, <1>2
  <2> HIDE DEF b, d
  <2>4. (IF b = 0 THEN 0 ELSE ptr'[b][e]) = Below(b, e)
    BY <1>3, <2>3
  <2> QED
    BY <2>2, <2>4 DEF b
<1>8. \A t \in Slot : Value(g, <<"slot", t, 0>>)' = Value(g, <<"slot", t, 0>>)
  BY <1>4, ValueIs
<1>9. \A e \in Entry : Value(g, <<"single", e, 0>>)' = Value(g, <<"single", e, 0>>)
  BY <1>5, ValueIs
<1>10. \A q \in Entry : Value(g, <<"inner", q, 0>>)' = Value(g, <<"inner", q, 0>>)
  BY <1>6, ValueIs
<1>11. \A q, e \in Entry : Value(g, <<"double", q, e>>)' = Value(g, <<"double", q, e>>)
  BY <1>7, ValueIs
<1> QED
  BY <1>8, <1>9, <1>10, <1>11, CellIs

(* A file that does not grow stays filled.                                 *)
LEMMA FilledKept ==
    ASSUME TypeOK, Filled, NEW g \in File, i_block'[g] = i_block[g],
           size'[g] \in Nat, size'[g] <= size[g]
    PROVE  /\ \A i \in Index(g)' : i < Direct => i_block'[g][i] # 0
           /\ IsDirect(g)' => Blocks(size'[g]) <= Direct
<1>1. /\ size[g] \in Nat /\ Blocks(size[g]) \in Nat /\ Direct \in Nat
      /\ Index(g) = 0 .. Blocks(size[g]) - 1
  BY SizesAre, Geometry
<1>2. Blocks(size'[g]) \in Nat /\ Blocks(size'[g]) <= Blocks(size[g])
  BY <1>1, BlocksGrow, BlocksIs
<1>3. Index(g)' = 0 .. Blocks(size'[g]) - 1
  BY DEF Index
<1>4. Index(g)' \subseteq Index(g)
  BY <1>1, <1>2, <1>3
<1>5. IsDirect(g)' <=> IsDirect(g)
  BY DEF IsDirect
<1>6. Blocks(size[g]) <= Direct => Blocks(size'[g]) <= Direct
  BY <1>1, <1>2
<1> QED
  BY <1>4, <1>5, <1>6 DEF Filled

LEMMA CreateStep ==
    ASSUME Inv, NEW f \in File, Create(f)
    PROVE  Inv'
<1>1. TypeOK /\ Filled
  BY DEF Inv
<1>2. TypeOK'
  <2>1. NoBlocks \in [Slot -> Block \cup {0}]
    BY DEF NoBlocks
  <2> QED
    BY <1>1, <2>1 DEF TypeOK, Create
<1>3. /\ f \notin live /\ live' = live \cup {f} /\ free' = free /\ ptr' = ptr
      /\ spoiled' = spoiled /\ size'[f] = 0 /\ i_block'[f] = NoBlocks
      /\ \A g \in File : g # f => i_block'[g] = i_block[g] /\ size'[g] = size[g]
  BY <1>1 DEF TypeOK, Create
<1>4. Filled'
  <2>1. ASSUME NEW g \in File
        PROVE  /\ \A i \in Index(g)' : i < Direct => i_block'[g][i] # 0
               /\ IsDirect(g)' => Blocks(size'[g]) <= Direct
    <3>1. CASE g # f
      <4>1. size'[g] \in Nat /\ size'[g] <= size[g]
        BY <1>1, <1>3, <3>1, SizesAre
      <4> QED
        BY <1>1, <1>3, <3>1, <4>1, FilledKept
    <3>2. CASE g = f
      <4>1. Index(g)' = 0 .. Blocks(size'[g]) - 1
        BY DEF Index
      <4>2. Blocks(size'[g]) = 0
        BY <1>3, <3>2, NoBytes
      <4>3. Index(g)' = {} /\ Blocks(size'[g]) <= Direct
        BY <4>1, <4>2, Geometry
      <4> QED
        BY <4>3
    <3> QED
      BY <3>1, <3>2
  <2> QED
    BY <2>1 DEF Filled
<1>5. ASSUME ~spoiled PROVE Exclusive' /\ Marked' /\ Whole'
  <2>1. Exclusive /\ Marked /\ Whole
    BY <1>5 DEF Inv
  <2>2. \A c \in Cell : Value(f, c)' = 0
    <3>1. \A s \in Slot : i_block'[f][s] = 0
      BY <1>3 DEF NoBlocks
    <3>2. \A s \in Slot : Value(f, <<"slot", s, 0>>)' = 0
      BY <3>1 DEF Value
    <3>3. \A e \in Entry : Value(f, <<"single", e, 0>>)' = 0
      BY <3>1, CellIs DEF Value, Below
    <3>4. \A q \in Entry : Value(f, <<"inner", q, 0>>)' = 0
      BY <3>1, CellIs DEF Value, Below
    <3>5. \A q, e \in Entry : Value(f, <<"double", q, e>>)' = 0
      BY <3>1, CellIs DEF Value, Below
    <3> QED
      BY <3>2, <3>3, <3>4, <3>5, CellIs
  <2>3. \A g \in live : g \in File /\ \A c \in Cell : Value(g, c)' = Value(g, c)
    <3>1. \A g \in live : g \in File /\ g # f
      BY <1>1, <1>3 DEF TypeOK
    <3> QED
      BY <1>1, <1>3, <3>1, Unmoved
  <2>4. 0 \notin free
    BY <1>1, Geometry DEF TypeOK
  <2>5. \A x, y \in live', c, d \in Cell :
            Value(x, c)' # 0 /\ Value(x, c)' = Value(y, d)' => x = y /\ c = d
    BY <1>3, <2>1, <2>2, <2>3 DEF Exclusive
  <2>6. \A x \in live', c \in Cell : Value(x, c)' \notin free'
    BY <1>3, <2>1, <2>2, <2>3, <2>4 DEF Marked
  <2>7. ASSUME NEW g \in live', NEW i \in Index(g)' PROVE BlockAt(g, i)' # 0
    <3>1. g \in live /\ g \in File /\ size'[g] = size[g] /\ i_block'[g] = i_block[g]
      <4>1. CASE g = f
        <5>1. Index(g)' = 0 .. Blocks(size'[g]) - 1 /\ Blocks(size'[g]) = 0
          BY <1>3, <4>1, NoBytes DEF Index
        <5> QED
          BY <5>1
      <4>2. CASE g # f
        BY <1>1, <1>3, <4>2 DEF TypeOK
      <4> QED
        BY <4>1, <4>2
    <3>2. i \in Index(g)
      BY <3>1 DEF Index
    <3>3. BlockAt(g, i)' = BlockAt(g, i)
      BY <1>3, <3>1 DEF BlockAt
    <3> QED
      BY <2>1, <3>1, <3>2, <3>3 DEF Whole
  <2> QED
    BY <2>5, <2>6, <2>7 DEF Exclusive, Marked, Whole
<1> QED
  BY <1>2, <1>3, <1>4, <1>5 DEF Inv

(* The empty slots lie behind the blocks the size asks for.                *)
LEMMA EmptiesBehind ==
    ASSUME TypeOK, Filled, NEW f \in File
    PROVE  \A i \in EmptySlots(f) : /\ Blocks(size[f]) <= i
                                    /\ Rank(EmptySlots(f), i) <= i - Blocks(size[f])
<1> DEFINE B == Blocks(size[f])
<1>1. B \in Nat /\ Index(f) = 0 .. B - 1 /\ Direct \in Nat
  BY SizesAre, Geometry
<1>2. \A i \in Index(f) : i < Direct => i_block[f][i] # 0
  BY DEF Filled
<1>3. ASSUME NEW i \in EmptySlots(f) PROVE i \in Nat /\ i < Direct /\ B <= i
  <2>1. i \in 0 .. Direct - 1 /\ i_block[f][i] = 0
    BY DEF EmptySlots
  <2> QED
    BY <1>1, <1>2, <2>1
<1> HIDE DEF B
<1>4. ASSUME NEW i \in EmptySlots(f) PROVE Rank(EmptySlots(f), i) <= i - B
  <2> DEFINE A == {y \in EmptySlots(f) : y < i}
  <2>1. A \in SUBSET (B .. i - 1)
    <3>1. \A y \in EmptySlots(f) : y < i => y \in B .. i - 1
      BY <1>1, <1>3
    <3> QED
      BY <3>1
  <2>2. IsFiniteSet(B .. i - 1) /\ Cardinality(B .. i - 1) = i - B
    <3>1. /\ B \in Int /\ i - 1 \in Int /\ (B > i - 1 => i - B = 0)
          /\ (i - 1) - B + 1 = i - B
      BY <1>1, <1>3
    <3> QED
      BY <3>1, FS_Interval
  <2> HIDE DEF A
  <2>3. Cardinality(A) <= i - B
    BY <2>1, <2>2, FS_Subset
  <2> QED
    BY <2>3 DEF A, Rank
<1> QED
  BY <1>3, <1>4 DEF B

(* A file that grows: what the source asks the allocator for.              *)
LEMMA Asked ==
    ASSUME TypeOK, NEW f \in File, NEW new \in Sizes, Grow(f, new)
    PROVE  LET n == BlocksToAllocate(size[f], new) IN
           /\ Granting(f, n) /\ n \in Nat
           /\ new \in Nat /\ size[f] \in Nat
           /\ Blocks(new) \in Nat /\ Blocks(new) <= Blocks(size[f]) + n
<1> DEFINE n == BlocksToAllocate(size[f], new)
<1>1. new \in Nat /\ size[f] \in Nat /\ size[f] < new
  BY SizesAre DEF Grow
<1>2. n \in Nat
  <2>1. new - size[f] \in Nat
    BY <1>1
  <2> QED
    BY <2>1, BlocksIs DEF BlocksToAllocate
<1>3. Blocks(new) \in Nat /\ Blocks(new) <= Blocks(size[f]) + n
  <2>1. size[f] <= new
    BY <1>1
  <2>2. Blocks(new) \in Nat
    BY <1>1, BlocksIs
  <2>3. Blocks(new) <= Blocks(size[f]) + n
    BY <1>1, <2>1, BlocksGrow
  <2> QED
    BY <2>2, <2>3
<1>4. Granting(f, n)
  BY <1>2 DEF Granting, Grow
<1> QED
  BY <1>1, <1>2, <1>3, <1>4

LEMMA GrownFilled ==
    ASSUME TypeOK, Filled, NEW f \in File, NEW new \in Sizes, Grow(f, new)
    PROVE  /\ \A i \in Index(f)' : i < Direct => i_block'[f][i] # 0
           /\ IsDirect(f)' => Blocks(size'[f]) <= Direct
           /\ \A i \in Index(f) : i < Direct => i_block'[f][i] = i_block[f][i]
<1> DEFINE n == BlocksToAllocate(size[f], new)
           B == Blocks(size[f])
           E == EmptySlots(f)
<1>1. /\ Granting(f, n) /\ n \in Nat /\ B \in Nat /\ Direct \in Nat
      /\ Blocks(new) \in Nat /\ Blocks(new) <= B + n
  BY Asked, SizesAre, Geometry
<1>2. size'[f] = new /\ i_block'[f] = NewMap(f, n)
  BY DEF Grow, TypeOK
<1>3. \A s \in Slot : i_block'[f][s] = Got(f, n, <<"slot", s, 0>>, i_block[f][s])
  BY <1>1, <1>2, NewMapIs
<1>4. \A c \in Cell : Grant(f, n, c) # 0 => Nth(Grant(f, n, c)) # 0
  BY <1>1, GrantTyped
<1>5. /\ InDirect(f, n) \in Nat /\ Cardinality(E) \in Nat
      /\ InSingle(f, n) \in Nat /\ InDouble(f, n) \in Nat
      /\ InDirect(f, n) = n \/ InDirect(f, n) = Cardinality(E)
      /\ InSingle(f, n) = 0 => InDirect(f, n) = n
      /\ InDirect(f, n) <= Cardinality(E)
  <2>1. Cardinality(E) \in Nat
    BY Empties
  <2> QED
    BY <1>1, <2>1, Shares, Geometry
<1>6. 0 .. Direct - 1 \subseteq Slot /\ Single \in Slot /\ Double \in Slot
  BY CellIs
<1> HIDE DEF n, B, E
<1>7. ASSUME NEW i \in 0 .. Direct - 1, i \notin E
      PROVE  i_block'[f][i] = i_block[f][i] /\ i_block[f][i] # 0
  <2>1. i_block[f][i] # 0
    BY <1>7 DEF E, EmptySlots
  <2>2. Grant(f, n, <<"slot", i, 0>>) = 0
    <3>1. i # Single /\ i # Double
      BY <1>1, Geometry
    <3> QED
      BY <1>7, <3>1 DEF Grant, E
  <2> QED
    BY <1>3, <1>6, <2>1, <2>2 DEF Got
<1>8. ASSUME NEW i \in E, i < Blocks(new) PROVE i_block'[f][i] # 0
  <2> DEFINE r == Rank(E, i)
  <2>1. r \in Nat /\ r + 1 <= Cardinality(E) /\ i \in Nat
    BY <1>5, Empties, RankTyped DEF E
  <2>2. r <= i - B /\ B <= i
    BY EmptiesBehind DEF E, B
  <2>3. Grant(f, n, <<"slot", i, 0>>) = IF r + 1 <= InDirect(f, n) THEN r + 1 ELSE 0
    BY DEF Grant, E
  <2> HIDE DEF r
  <2>4. r + 1 <= n
    BY <1>1, <1>8, <2>1, <2>2
  <2>5. r + 1 <= InDirect(f, n) /\ r + 1 # 0
    BY <1>5, <2>1, <2>4
  <2>6. i \in Slot
    BY <1>6, Empties DEF E
  <2> QED
    BY <1>3, <1>4, <2>3, <2>5, <2>6, CellIs DEF Got
<1>9. Index(f)' = 0 .. Blocks(new) - 1 /\ Index(f) = 0 .. B - 1
  BY <1>2 DEF Index, B
<1>10. ASSUME NEW i \in Index(f)', i < Direct PROVE i_block'[f][i] # 0
  <2>1. i \in 0 .. Direct - 1 /\ i < Blocks(new)
    BY <1>1, <1>9, <1>10
  <2> QED
    BY <1>7, <1>8, <2>1
<1>11. ASSUME NEW i \in Index(f), i < Direct PROVE i_block'[f][i] = i_block[f][i]
  <2>1. i \in 0 .. Direct - 1
    BY <1>1, <1>9, <1>11
  <2>2. i \notin E
    BY <1>11 DEF Filled, E, EmptySlots
  <2> QED
    BY <1>7, <2>1, <2>2
<1>12. ASSUME IsDirect(f)' PROVE Blocks(size'[f]) <= Direct
  <2>1. i_block'[f][Single] = 0 /\ i_block'[f][Double] = 0
    BY <1>12 DEF IsDirect
  <2>2. /\ Single \notin E /\ Double \notin E /\ Single # Double
    <3>1. E \subseteq 0 .. Direct - 1
      BY Empties DEF E
    <3> QED
      BY <1>1, <3>1, Geometry
  <2>3. /\ Grant(f, n, <<"slot", Single, 0>>) =
                IF InSingle(f, n) > 0 THEN SingleAt(f, n) ELSE 0
        /\ Grant(f, n, <<"slot", Double, 0>>) =
                IF InDouble(f, n) > 0 THEN DoubleAt(f, n) ELSE 0
    BY <2>2 DEF Grant, E
  <2>4. SingleAt(f, n) # 0 /\ DoubleAt(f, n) # 0
    <3>1. /\ SingleAt(f, n) = InDirect(f, n) + 1
          /\ DoubleAt(f, n) = InDirect(f, n) + InSingle(f, n) + 2
      BY <1>1, Shares
    <3> QED
      BY <1>5, <3>1
  <2>5. Grant(f, n, <<"slot", Single, 0>>) = 0 /\ Grant(f, n, <<"slot", Double, 0>>) = 0
    BY <1>3, <1>4, <1>6, <2>1, CellIs DEF Got
  <2>6. ~(InSingle(f, n) > 0)
    BY <2>3, <2>4, <2>5
  <2>7. i_block[f][Single] = 0 /\ i_block[f][Double] = 0
    BY <1>3, <1>6, <2>1, <2>5 DEF Got
  <2>8. B <= Direct
    BY <2>7 DEF Filled, IsDirect, B
  <2>9. n <= Cardinality(E)
    BY <1>1, <1>5, <2>6
  <2>10. Cardinality(E) <= Direct - B
    <3>1. E \in SUBSET (B .. Direct - 1)
      <4>1. ASSUME NEW i \in E PROVE i \in B .. Direct - 1
        <5>1. i \in 0 .. Direct - 1 /\ B <= i
          BY Empties, EmptiesBehind DEF E, B
        <5> QED
          BY <1>1, <5>1
      <4> QED
        BY <4>1
    <3>2. IsFiniteSet(B .. Direct - 1) /\ Cardinality(B .. Direct - 1) = Direct - B
      <4>1. /\ B \in Int /\ Direct - 1 \in Int /\ (B > Direct - 1 => Direct - B = 0)
            /\ (Direct - 1) - B + 1 = Direct - B
        BY <1>1, <2>8
      <4> QED
        BY <4>1, FS_Interval
    <3> QED
      BY <3>1, <3>2, FS_Subset
  <2> QED
    BY <1>1, <1>2, <1>5, <2>8, <2>9, <2>10
<1> QED
  BY <1>10, <1>11, <1>12

(* The pointer that leads to a block, in the next state.                   *)
CellsLead == \A f \in File, i \in 0 .. Limit - 1 : BlockAt(f, i) = Value(f, CellOf(i))

LEMMA CellOfIsNow == CellsLead
  BY CellOfIs DEF CellsLead

LEMMA CellOfIsNext ==
    ASSUME NEW f \in File, NEW i \in 0 .. Limit - 1
    PROVE  BlockAt(f, i)' = Value(f, CellOf(i))'
<1>1. CellsLead'
  BY CellOfIsNow, PTL
<1> QED
  BY <1>1 DEF CellsLead

IndexBound == TypeOK => \A f \in File : Index(f) \subseteq 0 .. Limit - 1

LEMMA IndexBoundNow == IndexBound
  BY SizesAre DEF IndexBound

LEMMA IndexBoundNext ==
    ASSUME TypeOK', NEW f \in File
    PROVE  Index(f)' \subseteq 0 .. Limit - 1
<1>1. IndexBound'
  BY IndexBoundNow, PTL
<1> QED
  BY <1>1 DEF IndexBound

(* The pointers behind the direct ones that a growth assigns.              *)
LEMMA TailGrants ==
    ASSUME NEW f, NEW n, Granting(f, n), NEW i \in 0 .. Limit - 1, ~(i < Direct),
           i < Direct + InSingle(f, n) + InDouble(f, n)
    PROVE  Grant(f, n, CellOf(i)) # 0
<1>1. /\ Direct \in Nat \ {0} /\ Entries \in Nat \ {0} /\ n \in Nat /\ i \in Nat
      /\ InDirect(f, n) \in Nat /\ InSingle(f, n) \in 0 .. Entries /\ InDouble(f, n) \in Nat
      /\ InDouble(f, n) > 0 => InSingle(f, n) = Entries
      /\ SingleAt(f, n) = InDirect(f, n) + 1
      /\ DoubleAt(f, n) = InDirect(f, n) + InSingle(f, n) + 2
  <2>1. n \in Nat /\ i \in Nat
    BY Geometry DEF Granting, Limit
  <2> QED
    BY <2>1, Shares, Empties, Geometry
<1>2. CASE i - Direct < Entries
  <2>1. CellOf(i) = <<"single", i - Direct + 1, 0>>
    BY <1>2 DEF CellOf
  <2>2. i - Direct + 1 <= InSingle(f, n)
    BY <1>1, <1>2
  <2>3. Grant(f, n, CellOf(i)) = SingleAt(f, n) + (i - Direct + 1)
    BY <2>1, <2>2 DEF Grant
  <2> QED
    BY <1>1, <2>3
<1>3. CASE ~(i - Direct < Entries)
  <2>1. InDouble(f, n) > 0 /\ InSingle(f, n) = Entries
    BY <1>1, <1>3
  <2>2. PICK k \in Nat : k = i - Direct - Entries /\ k < InDouble(f, n)
    BY <1>1, <1>3, <2>1
  <2>3. /\ k \div Entries \in Nat /\ k % Entries \in 0 .. Entries - 1
        /\ (k \div Entries) * Entries = k - (k % Entries)
    BY <1>1, Quotients
  <2>4. PICK q \in Nat \ {0}, e \in 1 .. Entries :
            q = k \div Entries + 1 /\ e = (k % Entries) + 1
    BY <1>1, <2>3
  <2>5. CellOf(i) = <<"double", q, e>>
    BY <1>3, <2>2, <2>4 DEF CellOf
  <2>6. (q - 1) * Entries = k - (e - 1) /\ (q - 1) * Entries \in Nat /\ q - 1 \in Nat
    BY <1>1, <2>3, <2>4
  <2>7. PICK m \in Nat : /\ Inner(f, n) = 1 .. m
                         /\ InDouble(f, n) <= m * Entries /\ m * Entries \in Nat
    BY <1>1, InnerIs
  <2>8. q \in Inner(f, n)
    <3>1. (q - 1) * Entries < m * Entries
      BY <2>2, <2>4, <2>6, <2>7, <1>1
    <3>2. q - 1 < m
      <4>1. q - 1 \in Int /\ m \in Int
        BY <2>6, <2>7
      <4> QED
        BY <1>1, <3>1, <4>1, Multiples
    <3> QED
      BY <2>4, <2>7, <3>2
  <2>9. e <= InDouble(f, n) - (q - 1) * Entries
    BY <1>1, <2>2, <2>4, <2>6
  <2>10. Grant(f, n, CellOf(i)) = InnerAt(f, n, q) + e
    BY <2>5, <2>8, <2>9 DEF Grant
  <2>11. InnerAt(f, n, q) \in Nat
    <3>1. e \in 0 .. Entries
      BY <1>1, <2>4
    <3> QED
      BY <1>1, <2>8, <2>9, <3>1, InnerPlace
  <2> QED
    BY <2>4, <2>10, <2>11
<1> QED
  BY <1>2, <1>3

(* The empty slots are at most the direct ones behind the size.            *)
LEMMA EmptiesLeft ==
    ASSUME TypeOK, Filled, NEW f \in File, Blocks(size[f]) <= Direct
    PROVE  Cardinality(EmptySlots(f)) <= Direct - Blocks(size[f])
<1> DEFINE B == Blocks(size[f])
           E == EmptySlots(f)
<1>1. B \in Nat /\ Direct \in Nat /\ B <= Direct
  BY SizesAre, Geometry
<1>2. E \in SUBSET (B .. Direct - 1)
  <2>1. ASSUME NEW i \in E PROVE i \in B .. Direct - 1
    <3>1. i \in 0 .. Direct - 1 /\ B <= i
      BY Empties, EmptiesBehind
    <3> HIDE DEF B, E
    <3> QED
      BY <1>1, <3>1
  <2> QED
    BY <2>1
<1> HIDE DEF B, E
<1>3. IsFiniteSet(B .. Direct - 1) /\ Cardinality(B .. Direct - 1) = Direct - B
  <2>1. /\ B \in Int /\ Direct - 1 \in Int /\ (B > Direct - 1 => Direct - B = 0)
        /\ (Direct - 1) - B + 1 = Direct - B
    BY <1>1
  <2> QED
    BY <2>1, FS_Interval
<1>4. Cardinality(E) <= Direct - B
  BY <1>2, <1>3, FS_Subset
<1> QED
  BY <1>4 DEF B, E

(* A growth that replaces no pointer block gives every block its pointer.  *)
LEMMA GrownWhole ==
    ASSUME TypeOK, Filled, TypeOK', NEW f \in File, NEW new \in Sizes, Grow(f, new),
           ~Replaces(f, BlocksToAllocate(size[f], new)),
           \A c \in Cell : Value(f, c) \notin free,
           \A i \in Index(f) : BlockAt(f, i) # 0
    PROVE  \A i \in Index(f)' : BlockAt(f, i)' # 0
<1> DEFINE n == BlocksToAllocate(size[f], new)
           B == Blocks(size[f])
           c == Cardinality(EmptySlots(f))
<1>1. /\ Granting(f, n) /\ n \in Nat /\ B \in Nat /\ Direct \in Nat \ {0}
      /\ Blocks(new) \in Nat /\ Blocks(new) <= B + n
      /\ Index(f) = 0 .. B - 1
  BY Asked, SizesAre, Geometry
<1>2. /\ size'[f] = new /\ i_block' = [i_block EXCEPT ![f] = NewMap(f, n)]
      /\ i_block'[f] = NewMap(f, n) /\ ptr' = NewPointers(f, n)
  BY DEF Grow, TypeOK
<1>3. Index(f)' = 0 .. Blocks(new) - 1 /\ Index(f)' \subseteq 0 .. Limit - 1
  BY <1>2, IndexBoundNext DEF Index
<1>4. /\ c \in Nat /\ InDirect(f, n) \in 0 .. c
      /\ InSingle(f, n) \in Nat /\ InDouble(f, n) \in Nat
      /\ InDirect(f, n) + InSingle(f, n) + InDouble(f, n) = n
      /\ InSingle(f, n) > 0 => InDirect(f, n) = c
      /\ InSingle(f, n) = 0 => InDirect(f, n) = n
  <2>1. c \in Nat
    BY Empties
  <2> QED
    BY <1>1, <2>1, Shares, Geometry
<1>5. ~(InSingle(f, n) > 0 /\ i_block[f][Single] # 0)
  BY DEF Replaces
<1>6. B <= Direct => c <= Direct - B
  BY EmptiesLeft
<1> HIDE DEF n, B, c
<1>7. ASSUME NEW i \in Index(f)' PROVE BlockAt(f, i)' # 0
  <2>1. i \in 0 .. Limit - 1 /\ i \in Nat /\ i < Blocks(new)
    BY <1>1, <1>3
  <2>2. CASE i < Direct
    <3>1. BlockAt(f, i)' = i_block'[f][i]
      BY <2>2 DEF BlockAt
    <3> QED
      BY <2>2, <3>1, GrownFilled
  <2>3. CASE ~(i < Direct) /\ InSingle(f, n) > 0
    <3>1. B <= Direct
      <4> SUFFICES ASSUME ~(B <= Direct) PROVE FALSE
        OBVIOUS
      <4>1. Direct \in Index(f)
        BY <1>1
      <4>2. ~(Direct < Direct) /\ Direct - Direct < Entries /\ Direct - Direct + 1 = 1
        BY Geometry
      <4>3. BlockAt(f, Direct) = Below(i_block[f][Single], Direct - Direct + 1)
        BY <4>2 DEF BlockAt, Below
      <4>4. BlockAt(f, Direct) = 0
        BY <1>5, <2>3, <4>3 DEF Below
      <4> QED
        BY <4>1, <4>4
    <3>2. i < Direct + InSingle(f, n) + InDouble(f, n)
      BY <1>1, <1>4, <1>6, <2>1, <2>3, <3>1
    <3>3. Grant(f, n, CellOf(i)) # 0 /\ CellOf(i) \in Cell
      BY <1>1, <2>1, <2>3, <3>2, TailGrants, CellOfIs
    <3>4. Value(f, CellOf(i))' = Got(f, n, CellOf(i), 0)
      BY <1>1, <1>2, <3>3, GrownValues
    <3>5. Value(f, CellOf(i))' # 0
      BY <1>1, <3>3, <3>4, GrantTyped DEF Got
    <3> QED
      BY <2>1, <3>5, CellOfIsNext
  <2>4. CASE ~(i < Direct) /\ ~(InSingle(f, n) > 0)
    <3>1. InSingle(f, n) = 0 /\ InDirect(f, n) = n /\ InDouble(f, n) = 0 /\ n <= c
      BY <1>1, <1>4, <2>4
    <3>2. ~(B <= Direct)
      BY <1>1, <1>4, <1>6, <2>1, <2>4, <3>1
    <3>3. EmptySlots(f) = {}
      <4>1. ASSUME NEW s \in EmptySlots(f) PROVE FALSE
        <5>1. s \in 0 .. Direct - 1 /\ B <= s
          BY Empties, EmptiesBehind DEF B
        <5> QED
          BY <1>1, <3>2, <5>1
      <4> QED
        BY <4>1
    <3>4. c = 0 /\ n = 0
      <4>1. c = 0
        BY <3>3, FS_EmptySet DEF c
      <4> QED
        BY <1>1, <3>1, <4>1
    <3>5. i_block'[f] = i_block[f]
      <4>1. ASSUME NEW s \in Slot PROVE i_block'[f][s] = i_block[f][s]
        <5>1. Grant(f, n, <<"slot", s, 0>>) = 0
          BY <3>1, <3>3 DEF Grant
        <5> QED
          BY <1>1, <1>2, <5>1, NewMapIs DEF Got
      <4>2. i_block'[f] \in [Slot -> Block \cup {0}] /\ i_block[f] \in [Slot -> Block \cup {0}]
        BY <1>1, <1>2, NewMapIs DEF TypeOK
      <4> QED
        BY <4>1, <4>2
    <3>6. \A b \in Block : b \notin free => ptr'[b] = ptr[b]
      BY <1>1, <1>2, NewPointersIs
    <3>7. \A x \in Cell : Value(f, x)' = Value(f, x)
      BY <3>5, <3>6, Unmoved
    <3>8. i \in Index(f)
      BY <1>1, <2>1, <3>4
    <3>9. /\ CellOf(i) \in Cell /\ BlockAt(f, i) = Value(f, CellOf(i))
          /\ BlockAt(f, i)' = Value(f, CellOf(i))'
      BY <2>1, CellOfIs, CellOfIsNext
    <3> QED
      BY <3>7, <3>8, <3>9
  <2> QED
    BY <2>2, <2>3, <2>4
<1> QED
  BY <1>7

LEMMA GrowStep ==
    ASSUME Inv, NEW f \in File, NEW new \in Sizes, Grow(f, new)
    PROVE  Inv'
<1> DEFINE n == BlocksToAllocate(size[f], new)
           taken == {Nth(k) : k \in 1 .. Taken(f, n)}
<1>1. TypeOK /\ Filled /\ Granting(f, n) /\ n \in Nat /\ new \in Nat
  BY Asked DEF Inv
<1>2. /\ f \in live /\ live' = live /\ spoiled' = (spoiled \/ Replaces(f, n))
      /\ i_block' = [i_block EXCEPT ![f] = NewMap(f, n)]
      /\ size' = [size EXCEPT ![f] = new]
      /\ free' = free \ taken
  BY DEF Grow
<1>3. ptr' = NewPointers(f, n)
  BY DEF Grow
<1> HIDE DEF n, taken
<1>5. TypeOK'
  <2>1. NewMap(f, n) \in [Slot -> Block \cup {0}]
    BY <1>1, NewMapIs
  <2>2. NewPointers(f, n) \in [Block -> [Entry -> Block \cup {0}]]
    BY <1>1, NewPointersIs
  <2> QED
    BY <1>1, <1>2, <1>3, <2>1, <2>2 DEF TypeOK
<1>6. \A g \in File : g # f => i_block'[g] = i_block[g] /\ size'[g] = size[g]
  BY <1>1, <1>2 DEF TypeOK
<1>7. Filled'
  <2>1. ASSUME NEW g \in File
        PROVE  /\ \A i \in Index(g)' : i < Direct => i_block'[g][i] # 0
               /\ IsDirect(g)' => Blocks(size'[g]) <= Direct
    <3>1. CASE g # f
      <4>1. size'[g] \in Nat /\ size'[g] <= size[g]
        BY <1>1, <1>6, <3>1, SizesAre
      <4> QED
        BY <1>1, <1>6, <3>1, <4>1, FilledKept
    <3>2. CASE g = f
      BY <1>1, <3>2, GrownFilled
    <3> QED
      BY <3>1, <3>2
  <2> QED
    BY <2>1 DEF Filled
<1>8. ASSUME ~spoiled' PROVE Exclusive' /\ Marked' /\ Whole'
  <2>1. Exclusive /\ Marked /\ Whole /\ ~Replaces(f, n)
    BY <1>2, <1>8 DEF Inv
  <2>2. \A c \in Cell : \/ Value(f, c)' = Got(f, n, c, 0)
                        \/ Grant(f, n, c) = 0 /\ Value(f, c)' = Value(f, c)
    <3>1. \A c \in Cell : Value(f, c) \notin free
      BY <1>2, <2>1 DEF Marked
    <3> QED
      BY <1>1, <1>2, <1>3, <1>8, <3>1, GrownValues
  <2>3. \A b \in Block : b \notin free => ptr'[b] = ptr[b]
    BY <1>1, <1>3, NewPointersIs
  <2>4. \A g \in live : g # f => \A c \in Cell : Value(g, c)' = Value(g, c)
    <3>1. ASSUME NEW g \in live, g # f PROVE \A c \in Cell : Value(g, c)' = Value(g, c)
      <4>1. g \in File /\ i_block'[g] = i_block[g]
        BY <1>1, <1>6, <3>1 DEF TypeOK
      <4>2. \A c \in Cell : Value(g, c) \notin free
        BY <2>1 DEF Marked
      <4> QED
        BY <1>1, <2>3, <4>1, <4>2, Unmoved
    <3> QED
      BY <3>1
  <2>5. \A c \in Cell : Grant(f, n, c) # 0 =>
            /\ Nth(Grant(f, n, c)) \in free /\ Nth(Grant(f, n, c)) \in taken
            /\ Grant(f, n, c) \in 1 .. Taken(f, n)
    BY <1>1, GrantTyped DEF taken
  <2>6. ASSUME NEW x \in live, NEW c \in Cell, Value(x, c)' # 0
        PROVE  \/ x = f /\ Grant(f, n, c) # 0 /\ Value(x, c)' = Nth(Grant(f, n, c))
               \/ Value(x, c)' = Value(x, c)
    BY <2>2, <2>4, <2>6 DEF Got
  <2>7. \A x \in live, c \in Cell : Value(x, c) \notin free
    BY <2>1 DEF Marked
  <2>8. ASSUME NEW x \in live, NEW y \in live, NEW c \in Cell, NEW d \in Cell,
               Value(x, c)' # 0, Value(x, c)' = Value(y, d)'
        PROVE  x = y /\ c = d
    <3>1. CASE x = f /\ Grant(f, n, c) # 0 /\ Value(x, c)' = Nth(Grant(f, n, c))
      <4>1. Value(y, d)' \in free
        BY <2>5, <2>8, <3>1
      <4>2. y = f /\ Grant(f, n, d) # 0 /\ Value(y, d)' = Nth(Grant(f, n, d))
        BY <2>6, <2>7, <2>8, <4>1
      <4>3. Grant(f, n, c) = Grant(f, n, d)
        <5>1. Taken(f, n) \in Nat /\ Taken(f, n) <= Cardinality(free)
          BY <1>1, TakenIs DEF Granting
        <5>2. \A k, l \in 1 .. Taken(f, n) : Nth(k) = Nth(l) => k = l
          BY <1>1, <5>1, NthIs
        <5> QED
          BY <2>5, <2>8, <3>1, <4>2, <5>2
      <4> QED
        BY <1>1, <3>1, <4>2, <4>3, GrantsDiffer
    <3>2. CASE Value(x, c)' = Value(x, c)
      <4>1. Value(y, d)' = Value(y, d)
        <5>1. Value(y, d)' \notin free
          BY <2>7, <2>8, <3>2
        <5> QED
          BY <2>5, <2>6, <2>8, <5>1
      <4> QED
        <5>1. Value(x, c) # 0 /\ Value(x, c) = Value(y, d)
          BY <2>8, <3>2, <4>1
        <5>2. \A g, h \in live, a, b \in Cell :
                Value(g, a) # 0 /\ Value(g, a) = Value(h, b) => g = h /\ a = b
          BY <2>1 DEF Exclusive
        <5> QED
          BY <5>1, <5>2
    <3> QED
      BY <2>6, <2>8, <3>1, <3>2
  <2>9. ASSUME NEW x \in live, NEW c \in Cell PROVE Value(x, c)' \notin free'
    <3>1. 0 \notin free
      BY <1>1, Geometry DEF TypeOK
    <3> QED
      BY <1>2, <2>5, <2>6, <2>7, <3>1
  <2>10. ASSUME NEW g \in live, NEW i \in Index(g)' PROVE BlockAt(g, i)' # 0
    <3>1. CASE g = f
      <4>1. \A c \in Cell : Value(f, c) \notin free
        BY <1>2, <2>1 DEF Marked
      <4>2. \A x \in Index(f) : BlockAt(f, x) # 0
        BY <1>2, <2>1 DEF Whole
      <4> QED
        BY <1>1, <1>5, <2>1, <3>1, <4>1, <4>2, GrownWhole DEF n
    <3>2. CASE g # f
      <4>1. g \in File /\ size'[g] = size[g]
        BY <1>1, <1>6, <3>2 DEF TypeOK
      <4>2. i \in Index(g)
        BY <4>1 DEF Index
      <4>3. i \in 0 .. Limit - 1
        BY <1>1, <4>1, <4>2, SizesAre
      <4>4. BlockAt(g, i)' = Value(g, CellOf(i))' /\ BlockAt(g, i) = Value(g, CellOf(i))
        BY <4>1, <4>3, CellOfIs, CellOfIsNext
      <4>5. CellOf(i) \in Cell
        BY <4>3, CellOfIs
      <4> QED
        BY <2>1, <2>4, <3>2, <4>2, <4>4, <4>5 DEF Whole
    <3> QED
      BY <3>1, <3>2
  <2> QED
    BY <1>2, <2>8, <2>9, <2>10 DEF Exclusive, Marked, Whole
<1> QED
  BY <1>2, <1>5, <1>7, <1>8 DEF Inv

LEMMA GrowFailsStep ==
    ASSUME Inv, NEW f \in File, NEW new \in Sizes, GrowFails(f, new)
    PROVE  Inv'
<1>1. TypeOK /\ Filled
  BY DEF Inv
<1>2. /\ free' = {} /\ live' = live /\ size' = size /\ i_block' = i_block
      /\ ptr' = ptr /\ spoiled' = spoiled
  BY DEF GrowFails
<1>3. TypeOK'
  BY <1>1, <1>2 DEF TypeOK
<1>4. Filled'
  BY <1>1, <1>2 DEF Filled, Index, IsDirect
<1>5. \A g \in live : \A c \in Cell : Value(g, c)' = Value(g, c)
  <2>1. \A g \in live : g \in File
    BY <1>1 DEF TypeOK
  <2> QED
    BY <1>1, <1>2, <2>1, Unmoved
<1>6. Exclusive => Exclusive'
  BY <1>2, <1>5 DEF Exclusive
<1>7. Marked'
  BY <1>2 DEF Marked
<1>8. Whole => Whole'
  BY <1>2 DEF Whole, Index, BlockAt
<1> QED
  BY <1>2, <1>3, <1>4, <1>6, <1>7, <1>8 DEF Inv

(* Giving blocks of a file back: what deletion and shrinking share.        *)
LEMMA ReleaseStep ==
    ASSUME Inv, NEW f \in live, NEW n \in 0 .. Blocks(size[f]),
           NEW list \in Lists(f, n), free' = free \cup Released(list, n),
           i_block' = i_block, ptr' = ptr,
           live' \subseteq live, spoiled' \in BOOLEAN,
           size' \in [File -> Sizes \cup {0}], \A g \in File : size'[g] <= size[g],
           ~spoiled' => ~spoiled /\ (Stops(list, n) = {} => f \notin live')
    PROVE  Inv'
<1>1. TypeOK /\ Filled /\ f \in File
  BY DEF Inv, TypeOK
<1>2. TypeOK'
  <2>1. Released(list, n) \subseteq Block
    BY <1>1, ListsAre DEF Released
  <2> QED
    BY <1>1, <2>1 DEF TypeOK
<1>5. \A g \in File : size'[g] \in Nat
  <2>1. \A x \in Sizes \cup {0} : x \in Nat
    BY <1>1, SizesAre
  <2> QED
    BY <2>1
<1>3. Filled'
  <2>1. ASSUME NEW g \in File
        PROVE  /\ \A i \in Index(g)' : i < Direct => i_block'[g][i] # 0
               /\ IsDirect(g)' => Blocks(size'[g]) <= Direct
    BY <1>1, <1>5, FilledKept
  <2> QED
    BY <2>1 DEF Filled
<1>4. ASSUME ~spoiled' PROVE Exclusive' /\ Marked' /\ Whole'
  <2>1. Exclusive /\ Marked /\ Whole
    BY <1>4 DEF Inv
  <2>10. list = BlockList(f) /\ n \in 0 .. Len(BlockList(f))
    <3>1. \A i \in Index(f) : BlockAt(f, i) # 0
      BY <2>1 DEF Whole
    <3>2. list = BlockList(f) /\ Len(BlockList(f)) = Blocks(size[f])
      BY <1>1, <1>4, <3>1, ListsAre
    <3> QED
      BY <3>2
  <2>2. f \notin live'
    BY <1>1, <1>4, <2>1, <2>10, NothingStops
  <2>3. \A g \in live : \A c \in Cell : Value(g, c)' = Value(g, c)
    <3>1. \A g \in live : g \in File
      BY <1>1 DEF TypeOK
    <3> QED
      BY <1>1, <3>1, Unmoved
  <2>4. ASSUME NEW g \in live', NEW c \in Cell PROVE Value(g, c)' \notin free'
    <3>1. g \in live /\ g # f
      BY <2>2
    <3>2. Value(g, c)' \notin free
      BY <2>1, <2>3, <3>1 DEF Marked
    <3>3. \A b \in Released(list, n) : b # Value(g, c)
      <4>1. \A b \in Released(BlockList(f), n) : b # 0 /\ \E d \in Cell : b = Value(f, d)
        BY <1>1, <2>10, ReleasedAre, Geometry
      <4> QED
        BY <2>1, <2>10, <3>1, <4>1 DEF Exclusive
    <3> QED
      BY <2>3, <3>1, <3>2, <3>3
  <2>5. Exclusive'
    BY <2>1, <2>3 DEF Exclusive
  <2>6. ASSUME NEW g \in live', NEW i \in Index(g)' PROVE BlockAt(g, i)' # 0
    <3>1. g \in live /\ g \in File /\ size'[g] \in Nat /\ size[g] \in Nat
      BY <1>1, <1>5, SizesAre DEF TypeOK
    <3>2. Blocks(size'[g]) <= Blocks(size[g]) /\ Blocks(size'[g]) \in Nat
      BY <3>1, BlocksGrow, BlocksIs
    <3>3. i \in Index(g)
      <4>1. /\ Index(g)' = 0 .. Blocks(size'[g]) - 1 /\ Blocks(size[g]) \in Nat
            /\ Index(g) = 0 .. Blocks(size[g]) - 1
        BY <3>1, BlocksIs DEF Index
      <4> QED
        BY <3>2, <4>1
    <3>4. BlockAt(g, i)' = BlockAt(g, i)
      BY DEF BlockAt
    <3> QED
      BY <2>1, <3>1, <3>3, <3>4 DEF Whole
  <2> QED
    BY <2>4, <2>5, <2>6 DEF Marked, Whole
<1> QED
  BY <1>2, <1>3, <1>4 DEF Inv

LEMMA DeleteStep ==
    ASSUME Inv, NEW f \in File, Delete(f)
    PROVE  Inv'
<1> DEFINE B == Blocks(size[f])
<1>1. /\ TypeOK /\ B \in Nat /\ \A g \in File : size[g] \in Nat
  BY SizesAre DEF Inv
<1>2. /\ f \in live /\ i_block' = i_block /\ ptr' = ptr /\ spoiled' = spoiled
      /\ \E list \in Lists(f, B) :
            /\ free' = free \cup Released(list, B)
            /\ \/ /\ Stops(list, B) = {}
                  /\ live' = live \ {f} /\ size' = [size EXCEPT ![f] = 0]
               \/ Stops(list, B) # {} /\ live' = live /\ size' = size
  BY DEF Delete
<1> HIDE DEF B
<1>3. PICK list \in Lists(f, B) :
            /\ free' = free \cup Released(list, B)
            /\ \/ /\ Stops(list, B) = {}
                  /\ live' = live \ {f} /\ size' = [size EXCEPT ![f] = 0]
               \/ Stops(list, B) # {} /\ live' = live /\ size' = size
  BY <1>2
<1>4. size' \in [File -> Sizes \cup {0}]
  BY <1>1, <1>3 DEF TypeOK
<1>5. \A g \in File : size'[g] <= size[g]
  <2>1. \A g \in File : size'[g] = size[g] \/ size'[g] = 0
    BY <1>1, <1>3 DEF TypeOK
  <2> QED
    BY <1>1, <2>1
<1>6. live' \subseteq live /\ spoiled' \in BOOLEAN
  BY <1>1, <1>2, <1>3 DEF TypeOK
<1>7. ~spoiled' => ~spoiled /\ (Stops(list, B) = {} => f \notin live')
  BY <1>2, <1>3
<1>8. B \in 0 .. Blocks(size[f])
  BY <1>1 DEF B
<1> QED
  BY <1>2, <1>3, <1>4, <1>5, <1>6, <1>7, <1>8, ReleaseStep

LEMMA ShrinkStep ==
    ASSUME Inv, NEW f \in File, NEW new \in Sizes, Shrink(f, new)
    PROVE  Inv'
<1> DEFINE n == BlocksToDeallocate(size[f], new)
<1>1. /\ TypeOK /\ new \in Nat /\ \A g \in File : size[g] \in Nat
  BY SizesAre DEF Inv
<1>2. /\ f \in live /\ i_block' = i_block /\ ptr' = ptr /\ live' = live /\ spoiled' = TRUE
      /\ new < size[f]
      /\ \E list \in Lists(f, n) :
            /\ free' = free \cup Released(list, n)
            /\ size' = [size EXCEPT ![f] = IF Stops(list, n) = {} THEN new ELSE @]
  BY DEF Shrink
<1>3. n \in 0 .. Blocks(size[f])
  <2>1. new <= size[f]
    BY <1>1, <1>2
  <2> QED
    BY <1>1, <2>1, BlocksGrow
<1> HIDE DEF n
<1>6. PICK list \in Lists(f, n) :
            /\ free' = free \cup Released(list, n)
            /\ size' = [size EXCEPT ![f] = IF Stops(list, n) = {} THEN new ELSE @]
  BY <1>2
<1>4. size' \in [File -> Sizes \cup {0}]
  BY <1>1, <1>2, <1>6 DEF TypeOK
<1>5. \A g \in File : size'[g] <= size[g]
  <2>1. \A g \in File : size'[g] = size[g] \/ (g = f /\ size'[g] = new)
    BY <1>1, <1>2, <1>6 DEF TypeOK
  <2> QED
    BY <1>1, <1>2, <2>1
<1> QED
  BY <1>2, <1>3, <1>4, <1>5, <1>6, ReleaseStep

LEMMA InvKept == Inv /\ [Next]_vars => Inv'
<1> SUFFICES ASSUME Inv, [Next]_vars PROVE Inv'
  OBVIOUS
<1>1. CASE UNCHANGED vars
  <2>1. /\ free' = free /\ i_block' = i_block /\ ptr' = ptr /\ live' = live
        /\ size' = size /\ spoiled' = spoiled
    BY <1>1 DEF vars
  <2>2. TypeOK'
    BY <2>1 DEF Inv, TypeOK
  <2>3. Filled'
    BY <2>1 DEF Inv, Filled, Index, IsDirect
  <2>4. \A g \in File, c \in Cell : Value(g, c)' = Value(g, c)
    BY <2>1 DEF Value, Below
  <2>5. live \subseteq File
    BY DEF Inv, TypeOK
  <2>6. Exclusive => Exclusive'
    BY <2>1, <2>4, <2>5 DEF Exclusive
  <2>7. Marked => Marked'
    BY <2>1, <2>4, <2>5 DEF Marked
  <2>8. Whole => Whole'
    BY <2>1 DEF Whole, Index, BlockAt
  <2> QED
    BY <2>1, <2>2, <2>3, <2>6, <2>7, <2>8 DEF Inv
<1>2. ASSUME NEW f \in File, Create(f) PROVE Inv'
  BY <1>2, CreateStep
<1>3. ASSUME NEW f \in File, Delete(f) PROVE Inv'
  BY <1>3, DeleteStep
<1>4. ASSUME NEW f \in File, NEW new \in Sizes, Grow(f, new) PROVE Inv'
  BY <1>4, GrowStep
<1>5. ASSUME NEW f \in File, NEW new \in Sizes, GrowFails(f, new) PROVE Inv'
  BY <1>5, GrowFailsStep
<1>6. ASSUME NEW f \in File, NEW new \in Sizes, Shrink(f, new) PROVE Inv'
  BY <1>6, ShrinkStep
<1> QED
  BY <1>1, <1>2, <1>3, <1>4, <1>5, <1>6 DEF Next

LEMMA Always == Spec => []Inv
  BY InitInv, InvKept, PTL DEF Spec

-----------------------------------------------------------------------------
(* The theorems.                                                           *)

(* The block map of every file has its form: pointers are blocks of the    *)
(* volume or zero, whatever was granted, released and left behind.         *)
THEOREM TypeCorrect == Spec => []TypeOK
<1>1. Inv => TypeOK
  BY DEF Inv
<1> QED
  BY <1>1, Always, PTL

(* Every byte below the size of a file has a block, in whatever steps it   *)
(* was grown: ext2_allocate_blocks fills the empty direct slots and then   *)
(* pointer blocks, and as many blocks as the difference of the sizes asks  *)
(* for are enough.  Of files without pointer blocks always, of the others  *)
(* until a file is shrunk or grows past its direct blocks a second time.   *)
THEOREM BytesAreCovered == Spec => []Covered
<1>1. Inv => Covered
  <2> SUFFICES ASSUME Inv, NEW f \in live, IsDirect(f) \/ ~spoiled, NEW i \in Index(f)
               PROVE  BlockAt(f, i) # 0
    BY DEF Covered
  <2>1. TypeOK /\ Filled /\ f \in File
    BY DEF Inv, TypeOK
  <2>2. CASE IsDirect(f)
    <3>1. /\ Index(f) = 0 .. Blocks(size[f]) - 1 /\ Blocks(size[f]) \in Nat
          /\ Blocks(size[f]) <= Direct /\ Direct \in Nat
      BY <2>1, <2>2, SizesAre, Geometry DEF Filled
    <3>2. i < Direct
      BY <3>1
    <3> QED
      BY <2>1, <3>2 DEF Filled, BlockAt
  <2>3. CASE ~spoiled
    BY <2>3 DEF Inv, Whole
  <2> QED
    BY <2>2, <2>3
<1> QED
  BY <1>1, Always, PTL

(* Growing keeps the direct blocks of a file, and with them what was       *)
(* written there, whatever happened to the file before.                    *)
THEOREM DirectBlocksAreKept == Spec => GrowKeepsDirect
<1> DEFINE Keeps ==
        \A f \in live \cap live' : size[f] < size'[f] =>
            \A i \in Index(f) \cap 0 .. Direct - 1 : BlockAt(f, i)' = BlockAt(f, i)
<1>1. Inv /\ [Next]_vars => [Keeps]_vars
  <2> SUFFICES ASSUME Inv, Next, NEW f \in live \cap live', size[f] < size'[f],
                      NEW i \in Index(f) \cap 0 .. Direct - 1
               PROVE  BlockAt(f, i)' = BlockAt(f, i)
    OBVIOUS
  <2>1. TypeOK /\ Filled /\ f \in File /\ f \in live /\ Direct \in Nat /\ size[f] \in Nat
    BY SizesAre, Geometry DEF Inv, TypeOK
  <2>2. i < Direct
    BY <2>1
  <2>3. BlockAt(f, i) = i_block[f][i] /\ BlockAt(f, i)' = i_block'[f][i]
    BY <2>2 DEF BlockAt
  <2>4. ~(size[f] < size[f]) /\ ~(size[f] < 0)
    BY <2>1
  <2>5. ASSUME NEW g \in File, Create(g) PROVE FALSE
    <3>1. g # f /\ size'[f] = size[f]
      BY <2>1, <2>5 DEF Create, TypeOK
    <3> QED
      BY <2>4, <3>1
  <2>6. ASSUME NEW g \in File, Delete(g) PROVE FALSE
    <3>1. size'[f] = size[f] \/ size'[f] = 0
      BY <2>1, <2>6 DEF Delete, TypeOK
    <3> QED
      BY <2>4, <3>1
  <2>7. ASSUME NEW g \in File, NEW new \in Sizes, GrowFails(g, new) PROVE FALSE
    BY <2>4, <2>7 DEF GrowFails
  <2>8. ASSUME NEW g \in File, NEW new \in Sizes, Shrink(g, new) PROVE FALSE
    <3>1. new \in Nat /\ size[g] \in Nat /\ new < size[g]
      BY <2>1, <2>8, SizesAre DEF Shrink
    <3>2. size'[f] = size[f] \/ (g = f /\ size'[f] = new)
      BY <2>1, <2>8 DEF Shrink, TypeOK
    <3> QED
      BY <2>1, <2>4, <3>1, <3>2
  <2>9. ASSUME NEW g \in File, NEW new \in Sizes, Grow(g, new)
        PROVE  i_block'[f][i] = i_block[f][i]
    <3>1. CASE g = f
      BY <2>1, <2>2, <2>9, <3>1, GrownFilled
    <3>2. CASE g # f
      BY <2>1, <2>9, <3>2 DEF Grow, TypeOK
    <3> QED
      BY <3>1, <3>2
  <2> QED
    BY <2>3, <2>5, <2>6, <2>7, <2>8, <2>9 DEF Next
<1> QED
  BY <1>1, Always, PTL DEF Spec, GrowKeepsDirect

(* Until a file is shrunk or grows past its direct blocks a second time,   *)
(* no two files have been given the same block and no file has one twice,  *)
(* whatever malloc leaves in the pointer blocks behind their entries.      *)
THEOREM BlocksHaveOneOwner == Spec => []NoSharing
<1>1. Inv => NoSharing
  <2> SUFFICES ASSUME Inv, ~spoiled PROVE NoSharing
    BY DEF NoSharing
  <2>1. TypeOK /\ Exclusive /\ live \subseteq File
    BY DEF Inv, TypeOK
  <2>2. ASSUME NEW f \in live, NEW g \in live, f # g PROVE Refs(f) \cap Refs(g) = {}
    BY <2>1, <2>2, RefsAre DEF Exclusive
  <2>3. ASSUME NEW f \in live, NEW i \in Index(f), NEW j \in Index(f),
               i # j, BlockAt(f, i) # 0
        PROVE  BlockAt(f, i) # BlockAt(f, j)
    <3>1. i \in 0 .. Limit - 1 /\ j \in 0 .. Limit - 1
      BY <2>1, SizesAre
    <3>2. /\ CellOf(i) \in Cell /\ BlockAt(f, i) = Value(f, CellOf(i))
          /\ CellOf(j) \in Cell /\ BlockAt(f, j) = Value(f, CellOf(j))
      BY <3>1, CellOfIs
    <3>3. CellOf(i) # CellOf(j)
      BY <2>3, <3>1, CellOfDiffer
    <3> QED
      BY <2>1, <2>3, <3>2, <3>3 DEF Exclusive
  <2> QED
    BY <2>2, <2>3 DEF NoSharing
<1> QED
  BY <1>1, Always, PTL

(* Until then, a block a file was given is not one the allocator may grant *)
(* to another: no deletion of any file releases it.                        *)
THEOREM ReferencesAreMarked == Spec => []ReferencedAreMarked
<1>1. Inv => ReferencedAreMarked
  <2> SUFFICES ASSUME Inv, ~spoiled, NEW f \in live PROVE Refs(f) \cap free = {}
    BY DEF ReferencedAreMarked
  <2>1. TypeOK /\ Marked /\ f \in File
    BY DEF Inv, TypeOK
  <2> QED
    BY <2>1, RefsAre DEF Marked
<1> QED
  BY <1>1, Always, PTL

(* Until then, the block list of a file without pointer blocks loads, as   *)
(* the one list it can be, and every block in it is one the deletion       *)
(* releases.                                                               *)
THEOREM FilesAreDeletable == Spec => []Deletable
<1>1. Inv => Deletable
  <2> SUFFICES ASSUME Inv, NEW f \in live, IsDirect(f), ~spoiled
               PROVE  /\ Lists(f, Blocks(size[f])) = {BlockList(f)}
                      /\ Stops(BlockList(f), Blocks(size[f])) = {}
    BY DEF Deletable
  <2>1. TypeOK /\ Filled /\ Exclusive /\ Marked /\ f \in File
    BY DEF Inv, TypeOK
  <2>2. /\ Len(BlockList(f)) = Blocks(size[f]) /\ Blocks(size[f]) \in Nat
        /\ Cardinality(Indices(f)) = Blocks(size[f])
    BY <2>1, DirectLoads, SizesAre
  <2>3. Blocks(size[f]) \in 0 .. Len(BlockList(f))
    BY <2>2
  <2>4. ~(Cardinality(Indices(f)) < Blocks(size[f]))
    BY <2>2
  <2>5. Lists(f, Blocks(size[f])) = {list \in {BlockList(f)} : Len(list) = Blocks(size[f])}
    BY <2>4 DEF Lists
  <2>6. Lists(f, Blocks(size[f])) = {BlockList(f)}
    BY <2>2, <2>5
  <2> QED
    BY <2>1, <2>3, <2>6, NothingStops
<1> QED
  BY <1>1, Always, PTL
=============================================================================
