------------------------------- MODULE Basics --------------------------------
(***************************************************************************)
(* Lemmas about numbers and sequences that the proofs of several modules   *)
(* use.  Induction comes in the form that every nonempty set of natural    *)
(* numbers has a least element.                                            *)
(***************************************************************************)
EXTENDS Integers, SequenceTheorems, WellFoundedInduction, TLAPS

Less == {ss \in Nat \X Nat : ss[1] < ss[2]}

LEMMA LessWellFounded == IsWellFoundedOn(Less, Nat)
  BY NatLessThanWellFounded DEF OpToRel, Less

LEMMA LeastElement ==
    ASSUME NEW S \in SUBSET Nat, S # {}
    PROVE  \E m \in S : \A y \in S : m <= y
<1>1. PICK x \in S : \A y \in S : ~ (<<y, x>> \in Less)
  BY LessWellFounded, WFMin
<1>2. \A y \in S : ~ (y < x)
  BY <1>1 DEF Less
<1> QED
  BY <1>2

(* A nonempty set of natural numbers with a bound has a greatest element.  *)
LEMMA GreatestElement ==
    ASSUME NEW n \in Nat, NEW S \in SUBSET (0 .. n), S # {}
    PROVE  \E m \in S : \A y \in S : m >= y
<1> DEFINE T == {y \in 0 .. n : n - y \in S}
<1>1. T \in SUBSET Nat /\ T # {}
  <2>1. PICK x \in S : TRUE
    OBVIOUS
  <2>2. n - x \in 0 .. n /\ n - (n - x) = x
    OBVIOUS
  <2>3. n - x \in T
    BY <2>1, <2>2
  <2>4. T \subseteq Nat
    OBVIOUS
  <2> QED
    BY <2>3, <2>4
<1>2. PICK m \in T : \A y \in T : m <= y
  BY <1>1, LeastElement
<1>3. ASSUME NEW y \in S PROVE n - m >= y
  <2>1. n - y \in 0 .. n /\ n - (n - y) = y
    OBVIOUS
  <2>2. m <= n - y
    BY <1>2, <2>1
  <2> QED
    BY <2>1, <2>2
<1> QED
  BY <1>2, <1>3

(* What holds of 0 and is handed on holds up to any bound.                 *)
LEMMA Induction ==
    ASSUME NEW n \in Nat, NEW S, 0 \in S,
           \A i \in 0 .. n - 1 : i \in S => i + 1 \in S
    PROVE  0 .. n \subseteq S
<1> DEFINE T == {i \in 0 .. n : i \notin S}
<1>1. T = {}
  <2> SUFFICES ASSUME T # {} PROVE FALSE
    OBVIOUS
  <2>1. T \in SUBSET Nat
    OBVIOUS
  <2>2. PICK m \in T : \A y \in T : m <= y
    BY <2>1, LeastElement
  <2>3. m \in 0 .. n /\ m \notin S /\ m # 0
    OBVIOUS
  <2>4. m - 1 \in 0 .. n - 1 /\ m - 1 \in 0 .. n /\ (m - 1) + 1 = m /\ ~(m <= m - 1)
    BY <2>3
  <2>5. m - 1 \in S
    BY <2>2, <2>4
  <2> QED
    BY <2>3, <2>4, <2>5
<1> QED
  BY <1>1

(* Division with remainder is unique.                                      *)
LEMMA DivUnique ==
    ASSUME NEW P \in Nat \ {0}, NEW g \in Nat, NEW k \in 0 .. P - 1
    PROVE  /\ (k + g * P) \div P = g
           /\ (k + g * P) % P = k
<1> DEFINE n == k + g * P
<1> DEFINE q == n \div P
<1> DEFINE r == n % P
<1>1. n \in Nat
  OBVIOUS
<1>2. q \in Int /\ r \in 0 .. P - 1 /\ n = P * q + r
  BY <1>1
<1>3. P * (g - q) = r - k
  BY <1>2
<1>4. g - q < 1
  <2>1. SUFFICES ASSUME g - q >= 1 PROVE FALSE
    BY <1>2
  <2>2. P * (g - q) >= P
    BY <2>1, <1>2
  <2> QED
    BY <2>2, <1>3, <1>2
<1>5. q - g < 1
  <2>1. SUFFICES ASSUME q - g >= 1 PROVE FALSE
    BY <1>2
  <2>2. P * (q - g) >= P
    BY <2>1, <1>2
  <2>3. P * (q - g) = k - r
    BY <1>2
  <2> QED
    BY <2>2, <2>3, <1>2
<1>6. g = q
  BY <1>4, <1>5, <1>2
<1>7. r = k
  BY <1>6, <1>2
<1> QED
  BY <1>6, <1>7

(* Multiples grow with their factor.                                       *)
LEMMA Multiples ==
    ASSUME NEW P \in Nat \ {0}
    PROVE
    /\ \A a \in Int : a * P \in Int /\ (a >= 0 => a * P >= 0)
    /\ \A a, b \in Int :
        /\ (a + b) * P = a * P + b * P
        /\ (a - b) * P = a * P - b * P
        /\ a <= b => a * P <= b * P
        /\ a < b => a * P + P <= b * P
        /\ a * P < b * P => a < b
        /\ a * P < b * P + P => a <= b
<1>1. P \in Nat \ {0}
  OBVIOUS
<1>2. \A a \in Int : a * P \in Int /\ (a >= 0 => a * P >= 0)
  BY <1>1
<1>3. \A a, b \in Int : a <= b => a * P <= b * P
  <2> SUFFICES ASSUME NEW a \in Int, NEW b \in Int, a <= b
               PROVE  a * P <= b * P
    OBVIOUS
  <2>1. (b - a) * P >= 0
    BY <1>2
  <2>2. (b - a) * P = b * P - a * P
    BY <1>1
  <2> QED
    BY <1>2, <2>1, <2>2
<1>4. \A a, b \in Int : /\ (a + b) * P = a * P + b * P
                        /\ (a - b) * P = a * P - b * P
  BY <1>1
<1>5. \A a, b \in Int : a < b => a * P + P <= b * P
  <2> SUFFICES ASSUME NEW a \in Int, NEW b \in Int, a < b
               PROVE  a * P + P <= b * P
    OBVIOUS
  <2>1. (a + 1) * P <= b * P
    BY <1>3
  <2>2. (a + 1) * P = a * P + P
    BY <1>1
  <2> QED
    BY <2>1, <2>2
<1>6. \A a, b \in Int : a * P < b * P => a < b
  <2> SUFFICES ASSUME NEW a \in Int, NEW b \in Int, a * P < b * P, ~(a < b)
               PROVE  FALSE
    OBVIOUS
  <2>1. b * P <= a * P
    BY <1>3
  <2> QED
    BY <1>2, <2>1
<1>7. \A a, b \in Int : a * P < b * P + P => a <= b
  <2> SUFFICES ASSUME NEW a \in Int, NEW b \in Int,
                      a * P < b * P + P, ~(a <= b)
               PROVE  FALSE
    OBVIOUS
  <2>1. b * P + P <= a * P
    BY <1>5
  <2> QED
    BY <1>2, <1>1, <2>1
<1> QED
  BY <1>1, <1>2, <1>3, <1>4, <1>5, <1>6, <1>7

LEMMA Quotients ==
    ASSUME NEW P \in Nat \ {0}, NEW n \in Nat
    PROVE  /\ n \div P \in Nat /\ n % P \in 0 .. P - 1
           /\ (n \div P) * P = n - (n % P)
<1> DEFINE q == n \div P
           r == n % P
<1>1. q \in Int /\ r \in 0 .. P - 1 /\ n = P * q + r
  OBVIOUS
<1>2. P * q = q * P
  BY <1>1
<1> HIDE DEF q, r
<1>3. q * P = n - r
  BY <1>1, <1>2
<1>4. q >= 0
  <2> SUFFICES ASSUME q < 0 PROVE FALSE
    BY <1>1
  <2>1. q * P + P <= 0 * P
    BY Multiples, <1>1
  <2> QED
    BY <1>1, <1>3, <2>1
<1> QED
  BY <1>1, <1>3, <1>4 DEF q, r

(* A quotient rounded up: so many times P is enough, and no more.          *)
LEMMA RoundingUp ==
    ASSUME NEW P \in Nat \ {0}, NEW n \in Nat
    PROVE  LET up == (n + P - 1) \div P
           IN  up \in Nat /\ n <= up * P /\ up * P < n + P
<1> DEFINE up == (n + P - 1) \div P
<1>1. n + P - 1 \in Nat
  OBVIOUS
<1>2. PICK r \in 0 .. P - 1 : up * P = (n + P - 1) - r
  BY <1>1, Quotients
<1>3. up \in Nat
  BY <1>1, Quotients
<1> HIDE DEF up
<1>4. n <= up * P /\ up * P < n + P
  BY <1>2, <1>3
<1> QED
  BY <1>3, <1>4 DEF up

(* A sequence without its k-th element.                                    *)
LEMMA Excision ==
    ASSUME NEW S, NEW s \in Seq(S), NEW k \in 1 .. Len(s)
    PROVE  LET without == SubSeq(s, 1, k - 1) \o SubSeq(s, k + 1, Len(s))
           IN  /\ without \in Seq(S)
               /\ Len(without) = Len(s) - 1
               /\ \A i \in 1 .. Len(s) - 1 :
                     without[i] = IF i < k THEN s[i] ELSE s[i + 1]
<1> DEFINE head == SubSeq(s, 1, k - 1)
           tail == SubSeq(s, k + 1, Len(s))
           without == head \o tail
<1>1. Len(s) \in Nat /\ \A i \in 1 .. Len(s) : s[i] \in S
  BY ElementOfSeq, LenProperties
<1>2. /\ head \in Seq(S) /\ Len(head) = k - 1
      /\ \A i \in 1 .. k - 1 : head[i] = s[i]
  <2>1. \A i \in 1 .. k - 1 : s[i] \in S
    BY <1>1
  <2>2. /\ head \in Seq(S) /\ Len(head) = IF 1 <= k - 1 THEN (k - 1) - 1 + 1 ELSE 0
        /\ \A i \in 1 .. (k - 1) - 1 + 1 : head[i] = s[1 + i - 1]
    BY <1>1, <2>1, SubSeqProperties
  <2> QED
    BY <1>1, <2>2
<1>3. /\ tail \in Seq(S) /\ Len(tail) = Len(s) - k
      /\ \A i \in 1 .. Len(s) - k : tail[i] = s[k + i]
  <2>1. \A i \in k + 1 .. Len(s) : s[i] \in S
    BY <1>1
  <2>2. /\ tail \in Seq(S)
        /\ Len(tail) = IF k + 1 <= Len(s) THEN Len(s) - (k + 1) + 1 ELSE 0
        /\ \A i \in 1 .. Len(s) - (k + 1) + 1 : tail[i] = s[(k + 1) + i - 1]
    BY <1>1, <2>1, SubSeqProperties
  <2> QED
    BY <1>1, <2>2
<1>4. /\ head \o tail \in Seq(S)
      /\ Len(head \o tail) = Len(head) + Len(tail)
      /\ \A i \in 1 .. Len(head) + Len(tail) :
            (head \o tail)[i] = IF i <= Len(head) THEN head[i] ELSE tail[i - Len(head)]
  BY <1>2, <1>3, ConcatProperties
<1>5. without = head \o tail
  OBVIOUS
<1> HIDE DEF head, tail, without
<1>6. ASSUME NEW i \in 1 .. Len(s) - 1
      PROVE  without[i] = IF i < k THEN s[i] ELSE s[i + 1]
  <2>1. CASE i < k
    BY <1>1, <1>2, <1>3, <1>4, <1>5, <2>1
  <2>2. CASE ~(i < k)
    <3>1. i - Len(head) \in 1 .. Len(s) - k /\ k + (i - Len(head)) = i + 1
      BY <1>1, <1>2, <2>2
    <3>2. without[i] = tail[i - Len(head)]
      BY <1>1, <1>2, <1>3, <1>4, <1>5, <2>2
    <3> QED
      BY <1>3, <2>2, <3>1, <3>2
  <2> QED
    BY <2>1, <2>2
<1>7. Len(without) = Len(s) - 1
  <2>1. Len(without) = Len(head) + Len(tail)
    BY <1>4, <1>5
  <2>2. Len(head) = k - 1 /\ Len(tail) = Len(s) - k
    BY <1>2, <1>3
  <2>3. Len(s) \in Nat /\ k \in Nat
    BY <1>1
  <2> QED
    BY <2>1, <2>2, <2>3
<1> QED
  BY <1>4, <1>5, <1>6, <1>7 DEF head, tail, without
=============================================================================
