-------------------------- MODULE InodeTableProofs --------------------------
(***************************************************************************)
(* What holds of every inode table, whatever its size: the theorems of     *)
(* InodeTable.  All but type correctness assume a volume of one group: the *)
(* numbers granted out of a second one lack its offset.                    *)
(***************************************************************************)
EXTENDS InodeTable, FiniteSetTheorems, TLAPS

-----------------------------------------------------------------------------
(* Numbers and bits.                                                       *)

LEMMA Numbers ==
    /\ Bit \subseteq Nat
    /\ Number \subseteq Nat \ {0}
    /\ \A k \in Bit : NumberOf(k) \in Number
    /\ \A n \in Number : GroupOf(n) \in Descriptor
    /\ Group \subseteq Descriptor
<1>1. Bit \subseteq Nat
  BY InodeAssumption DEF Bit
<1>2. \A k \in Bit : NumberOf(k) \in Nat \ {0}
  BY <1>1 DEF NumberOf
<1> QED
  BY <1>1, <1>2 DEF Number, Descriptor

LEMMA DivRemainder ==
    ASSUME NEW a \in Nat, NEW d \in Nat \ {0}, a \div d = 0
    PROVE  a % d = a
<1>1. /\ a \div d \in Int /\ a % d \in 0 .. d - 1
      /\ a = d * (a \div d) + (a % d)
  OBVIOUS
<1> QED
  BY <1>1

(* The index of an inode of the first group is one less than its number.   *)
LEMMA IndexInFirstGroup ==
    ASSUME NEW n \in Number, GroupOf(n) = 0
    PROVE  IndexOf(n) = n - 1
<1>1. n - 1 \in Nat /\ InodesPerGroup \in Nat \ {0}
  BY Numbers, InodeAssumption
<1>2. (n - 1) \div InodesPerGroup = 0
  BY DEF GroupOf
<1> QED
  BY <1>1, <1>2, DivRemainder DEF IndexOf

(* A deletion clears no bit below the index of the inode, because a byte   *)
(* has at least one bit: the bits of the reserved inodes are safe.         *)
LEMMA ClearedAbove ==
    ASSUME NEW i \in Nat, NEW k \in ClearedBits(i)
    PROVE  i <= k
<1>1. BitsPerByte \in Nat \ {0} /\ k \in Nat /\ BitsPerByte * i <= k
  BY Numbers, InodeAssumption DEF ClearedBits
<1>2. i <= BitsPerByte * i
  <2>1. (BitsPerByte - 1) * i >= 0
    BY <1>1
  <2>2. BitsPerByte * i = (BitsPerByte - 1) * i + i
    BY <1>1
  <2> QED
    BY <1>1, <2>1, <2>2
<1> QED
  BY <1>1, <1>2

LEMMA CounterType ==
    ASSUME NEW modulus \in Nat \ {0}, NEW n \in 0 .. modulus - 1
    PROVE  Inc(n, modulus) \in 0 .. modulus - 1 /\ Dec(n, modulus) \in 0 .. modulus - 1
  BY DEF Inc, Dec

LEMMA Moduli == M16 \in Nat \ {0} /\ M32 \in Nat \ {0}
<1>1. M16 > 0
  BY InodeAssumption
<1>2. GroupCount * InodesPerGroup \in Nat
  BY InodeAssumption
<1> QED
  BY <1>1, <1>2, InodeAssumption

-----------------------------------------------------------------------------
(* Type correctness.                                                       *)

(* The inodes that mkfs leaves free are no more than there are.            *)
LEMMA FreeAtFirst == InodesCount - ReservedInodes \in 0 .. M32 - 1
<1>1. (GroupCount - 1) * InodesPerGroup >= 0
  BY InodeAssumption
<1>2. GroupCount * InodesPerGroup = (GroupCount - 1) * InodesPerGroup + InodesPerGroup
  BY InodeAssumption
<1>3. /\ GroupCount * InodesPerGroup \in Nat
      /\ InodesPerGroup <= GroupCount * InodesPerGroup
  BY <1>1, <1>2, InodeAssumption
<1> QED
  BY <1>3, InodeAssumption DEF InodesCount

LEMMA TypeInit == Init => TypeOK
<1> SUFFICES ASSUME Init PROVE TypeOK
  OBVIOUS
<1>1. imap \in [Group -> SUBSET Bit]
  <2>1. 0 .. ReservedInodes - 1 \subseteq Bit
    BY InodeAssumption DEF Bit
  <2> QED
    BY <2>1 DEF Init, MkfsSet
<1>2. inode \in [Number -> Type \cup {"none"}]
  BY DEF Init, Type
<1>3. gdFreeInodes \in [Descriptor -> 0 .. M16 - 1]
  <2>1. /\ InodesPerGroup - ReservedInodes \in 0 .. M16 - 1
        /\ InodesPerGroup \in 0 .. M16 - 1 /\ 0 \in 0 .. M16 - 1
    BY InodeAssumption
  <2> QED
    BY <2>1 DEF Init
<1>4. usedDirs \in [Descriptor -> 0 .. M16 - 1]
  <2>1. 0 \in 0 .. M16 - 1 /\ 1 \in 0 .. M16 - 1
    BY InodeAssumption
  <2> QED
    BY <2>1 DEF Init
<1>5. sbFreeInodes \in 0 .. M32 - 1
  BY FreeAtFirst DEF Init
<1> QED
  BY <1>1, <1>2, <1>3, <1>4, <1>5 DEF Init, TypeOK

(* What a creation does: the file gets the number of a clear bit, and the  *)
(* group whose count was not 0 is charged.                                 *)
LEMMA CreateEffect ==
    ASSUME TypeOK, NEW f \in File, NEW t \in Type, Create(f, t)
    PROVE  \E g \in Group, k \in Bit :
            /\ f \notin Live
            /\ k \notin imap[g]
            /\ gdFreeInodes[g] # 0
            /\ imap' = [imap EXCEPT ![g] = @ \cup {k}]
            /\ inode' = [inode EXCEPT ![NumberOf(k)] = t]
            /\ gdFreeInodes' = [gdFreeInodes EXCEPT ![g] = Dec(@, M16)]
            /\ ino' = [ino EXCEPT ![f] = NumberOf(k)]
  BY DEF Create, IsFirst, Marked

LEMMA TypeStep == TypeOK /\ [Next]_vars => TypeOK'
<1> SUFFICES ASSUME TypeOK, [Next]_vars PROVE TypeOK'
  OBVIOUS
<1>1. ASSUME NEW f \in File, NEW t \in Type, Create(f, t) PROVE TypeOK'
  <2>1. PICK g \in Group, k \in Bit :
            /\ imap' = [imap EXCEPT ![g] = @ \cup {k}]
            /\ inode' = [inode EXCEPT ![NumberOf(k)] = t]
            /\ gdFreeInodes' = [gdFreeInodes EXCEPT ![g] = Dec(@, M16)]
            /\ ino' = [ino EXCEPT ![f] = NumberOf(k)]
    BY <1>1, CreateEffect
  <2>2. imap' \in [Group -> SUBSET Bit]
    BY <2>1 DEF TypeOK
  <2>3. inode' \in [Number -> Type \cup {"none"}]
    BY <2>1 DEF TypeOK
  <2>4. gdFreeInodes' \in [Descriptor -> 0 .. M16 - 1]
    <3>1. g \in Descriptor /\ gdFreeInodes[g] \in 0 .. M16 - 1
      BY Numbers DEF TypeOK
    <3>2. Dec(gdFreeInodes[g], M16) \in 0 .. M16 - 1
      BY <3>1, CounterType, Moduli
    <3> QED
      BY <2>1, <3>1, <3>2 DEF TypeOK
  <2>5. sbFreeInodes' \in 0 .. M32 - 1
    BY <1>1, CounterType, Moduli DEF Create, TypeOK
  <2>6. ino' \in [File -> Number \cup {0}]
    BY <2>1, Numbers DEF TypeOK
  <2>7. kind' \in [File -> Type \cup {"none"}]
    BY <1>1 DEF Create, TypeOK
  <2> QED
    BY <1>1, <2>2, <2>3, <2>4, <2>5, <2>6, <2>7 DEF Create, TypeOK
<1>2. ASSUME NEW f \in File, Delete(f) PROVE TypeOK'
  <2>1. ino[f] \in Number /\ GroupOf(ino[f]) \in Descriptor
    BY <1>2, Numbers DEF Delete, Live, TypeOK
  <2>2. imap' \in [Group -> SUBSET Bit]
    <3>1. imap' = [h \in Group |-> IF h = GroupOf(ino[f])
                                   THEN imap[h] \ ClearedBits(IndexOf(ino[f]))
                                   ELSE imap[h]]
      BY <1>2 DEF Delete
    <3> QED
      BY <3>1 DEF TypeOK
  <2>3. inode' \in [Number -> Type \cup {"none"}]
    BY <1>2 DEF Delete, TypeOK
  <2>4. gdFreeInodes' \in [Descriptor -> 0 .. M16 - 1]
    <3>1. Inc(gdFreeInodes[GroupOf(ino[f])], M16) \in 0 .. M16 - 1
      BY <2>1, CounterType, Moduli DEF TypeOK
    <3> QED
      BY <1>2, <3>1 DEF Delete, TypeOK
  <2>5. usedDirs' \in [Descriptor -> 0 .. M16 - 1]
    <3>1. /\ usedDirs[GroupOf(ino[f])] \in 0 .. M16 - 1
          /\ Dec(usedDirs[GroupOf(ino[f])], M16) \in 0 .. M16 - 1
      BY <2>1, CounterType, Moduli DEF TypeOK
    <3> QED
      BY <1>2, <3>1 DEF Delete, TypeOK
  <2>6. sbFreeInodes' \in 0 .. M32 - 1
    BY <1>2, CounterType, Moduli DEF Delete, TypeOK
  <2>7. /\ ino' \in [File -> Number \cup {0}]
        /\ kind' \in [File -> Type \cup {"none"}]
    BY <1>2 DEF Delete, TypeOK
  <2> QED
    BY <1>2, <2>2, <2>3, <2>4, <2>5, <2>6, <2>7 DEF Delete, TypeOK
<1>3. ASSUME UNCHANGED vars PROVE TypeOK'
  BY <1>3 DEF vars, counts, TypeOK
<1> QED
  BY <1>1, <1>2, <1>3 DEF Next

(* Every variable keeps its type; no count leaves its unsigned integer.    *)
THEOREM TypeCorrect == Spec => []TypeOK
  BY TypeInit, TypeStep, PTL DEF Spec

-----------------------------------------------------------------------------
(* Reserved inodes, with one group: no creation finds their bits clear,    *)
(* because no deletion of a file clears a bit below the file's own.        *)

OneGroup == GroupCount = 1

ReservedInv ==
    /\ TypeOK
    /\ 0 .. ReservedInodes - 1 \subseteq imap[0]
    /\ ReservedNeverGranted

LEMMA FirstGroup == ASSUME OneGroup PROVE Group = {0}
  BY DEF OneGroup, Group

LEMMA ReservedInit == ASSUME OneGroup PROVE Init => ReservedInv
<1> SUFFICES ASSUME Init PROVE ReservedInv
  OBVIOUS
<1>1. TypeOK
  BY TypeInit
<1>2. 0 .. ReservedInodes - 1 \subseteq imap[0]
  BY FirstGroup DEF Init, MkfsSet
<1>3. ReservedNeverGranted
  BY DEF Init, ReservedNeverGranted, Reserved
<1> QED
  BY <1>1, <1>2, <1>3 DEF ReservedInv

LEMMA ReservedStep == ASSUME OneGroup PROVE ReservedInv /\ [Next]_vars => ReservedInv'
<1> SUFFICES ASSUME ReservedInv, [Next]_vars PROVE ReservedInv'
  OBVIOUS
<1>0. TypeOK /\ TypeOK' /\ 0 .. ReservedInodes - 1 \subseteq imap[0]
  BY TypeStep DEF ReservedInv
<1>1. ASSUME NEW f \in File, NEW t \in Type, Create(f, t) PROVE ReservedInv'
  <2>1. PICK g \in Group, k \in Bit :
            /\ k \notin imap[g]
            /\ imap' = [imap EXCEPT ![g] = @ \cup {k}]
            /\ ino' = [ino EXCEPT ![f] = NumberOf(k)]
    BY <1>0, <1>1, CreateEffect
  <2>2. 0 .. ReservedInodes - 1 \subseteq imap'[0]
    BY <1>0, <2>1, FirstGroup DEF TypeOK
  <2>3. NumberOf(k) \notin Reserved
    <3>1. k \in Nat /\ k \notin 0 .. ReservedInodes - 1
      BY <1>0, <2>1, FirstGroup, Numbers
    <3> QED
      BY <3>1, InodeAssumption DEF NumberOf, Reserved
  <2>4. ReservedNeverGranted'
    BY <1>0, <2>1, <2>3 DEF ReservedInv, ReservedNeverGranted, TypeOK, Reserved
  <2> QED
    BY <1>0, <2>2, <2>4 DEF ReservedInv
<1>2. ASSUME NEW f \in File, Delete(f) PROVE ReservedInv'
  <2>1. ino[f] \in Number /\ ino[f] \notin Reserved /\ ino' = [ino EXCEPT ![f] = 0]
    BY <1>0, <1>2 DEF Delete, Live, TypeOK, ReservedInv, ReservedNeverGranted
  <2>2. imap' = [h \in Group |-> IF h = GroupOf(ino[f])
                                 THEN imap[h] \ ClearedBits(IndexOf(ino[f]))
                                 ELSE imap[h]]
    BY <1>2 DEF Delete
  <2>3. ASSUME GroupOf(ino[f]) = 0
        PROVE  0 .. ReservedInodes - 1 \subseteq imap'[0]
    <3>1. IndexOf(ino[f]) = ino[f] - 1
      BY <2>1, <2>3, IndexInFirstGroup
    <3>2. ino[f] \in Nat \ {0} /\ ino[f] > ReservedInodes
      <4>1. ino[f] \in Nat \ {0}
        BY <2>1, Numbers
      <4>2. ReservedInodes \in Nat
        BY InodeAssumption
      <4> QED
        BY <2>1, <4>1, <4>2 DEF Reserved
    <3>3. IndexOf(ino[f]) \in Nat /\ IndexOf(ino[f]) >= ReservedInodes
      BY <3>1, <3>2, InodeAssumption
    <3>4. \A k \in ClearedBits(IndexOf(ino[f])) : k \notin 0 .. ReservedInodes - 1
      <4> TAKE k \in ClearedBits(IndexOf(ino[f]))
      <4>1. IndexOf(ino[f]) <= k /\ k \in Nat
        BY <3>3, ClearedAbove, Numbers DEF ClearedBits
      <4> QED
        BY <3>3, <4>1, InodeAssumption
    <3>5. imap'[0] = imap[0] \ ClearedBits(IndexOf(ino[f]))
      BY <2>2, <2>3, FirstGroup
    <3> QED
      BY <1>0, <3>4, <3>5
  <2>4. ASSUME GroupOf(ino[f]) # 0
        PROVE  0 .. ReservedInodes - 1 \subseteq imap'[0]
    BY <1>0, <2>2, <2>4, FirstGroup
  <2>5. 0 .. ReservedInodes - 1 \subseteq imap'[0]
    BY <2>3, <2>4
  <2>6. ReservedNeverGranted'
    BY <1>0, <2>1 DEF ReservedInv, ReservedNeverGranted, TypeOK, Reserved
  <2> QED
    BY <1>0, <2>5, <2>6 DEF ReservedInv
<1>3. ASSUME UNCHANGED vars PROVE ReservedInv'
  BY <1>0, <1>3 DEF vars, ReservedInv, ReservedNeverGranted
<1> QED
  BY <1>1, <1>2, <1>3 DEF Next

(* In a volume of one group no file is ever created over an inode that     *)
(* mkfs allocated, however many files were deleted before.                 *)
THEOREM ReservedSafe == ASSUME OneGroup PROVE Spec => []ReservedNeverGranted
<1>1. ReservedInv => ReservedNeverGranted
  BY DEF ReservedInv
<1> QED
  BY ReservedInit, ReservedStep, <1>1, PTL DEF Spec

-----------------------------------------------------------------------------
(* Files before the first deletion, with one group: the bit of every file  *)
(* is set, so that a creation takes another.                               *)

IntactInv ==
    /\ TypeOK
    /\ ~deleted => /\ \A f \in Live : \E k \in imap[0] : ino[f] = NumberOf(k)
                   /\ IntactUntilDelete

LEMMA IntactInit == Init => IntactInv
  BY TypeInit DEF Init, IntactInv, IntactUntilDelete, InodesDistinct, Live

LEMMA IntactStep == ASSUME OneGroup PROVE IntactInv /\ [Next]_vars => IntactInv'
<1> SUFFICES ASSUME IntactInv, [Next]_vars PROVE IntactInv'
  OBVIOUS
<1>0. TypeOK /\ TypeOK'
  BY TypeStep DEF IntactInv
<1>1. ASSUME NEW f \in File, NEW t \in Type, Create(f, t), ~deleted PROVE IntactInv'
  <2>1. PICK g \in Group, k \in Bit :
            /\ f \notin Live
            /\ k \notin imap[g]
            /\ imap' = [imap EXCEPT ![g] = @ \cup {k}]
            /\ inode' = [inode EXCEPT ![NumberOf(k)] = t]
            /\ ino' = [ino EXCEPT ![f] = NumberOf(k)]
    BY <1>0, <1>1, CreateEffect
  <2>2. kind' = [kind EXCEPT ![f] = t]
    BY <1>1 DEF Create
  <2>3. imap'[0] = imap[0] \cup {k} /\ k \notin imap[0] /\ imap[0] \subseteq Nat
    BY <1>0, <2>1, FirstGroup, Numbers DEF TypeOK
  <2>4. /\ ino'[f] = NumberOf(k) /\ NumberOf(k) # 0
        /\ inode'[NumberOf(k)] = t /\ kind'[f] = t
    BY <1>0, <2>1, <2>2, Numbers DEF TypeOK
  <2>5. ASSUME NEW h \in Live
        PROVE  /\ h # f /\ ino'[h] = ino[h] /\ kind'[h] = kind[h]
               /\ ino[h] # NumberOf(k)
               /\ inode'[ino[h]] = kind[h]
               /\ \E j \in imap'[0] : ino'[h] = NumberOf(j)
    <3>1. h # f /\ ino'[h] = ino[h] /\ kind'[h] = kind[h]
      BY <1>0, <2>1, <2>2 DEF Live, TypeOK
    <3>2. PICK j \in imap[0] : ino[h] = NumberOf(j)
      BY <1>1 DEF IntactInv
    <3>3. ino[h] # NumberOf(k)
      BY <2>1, <2>3, <3>2, Numbers DEF NumberOf
    <3>4. inode'[ino[h]] = kind[h]
      BY <1>0, <1>1, <2>1, <3>3 DEF IntactInv, IntactUntilDelete, Live, TypeOK
    <3> QED
      BY <2>3, <3>1, <3>2, <3>3, <3>4
  <2>6. Live' = Live \cup {f}
    BY <1>0, <2>1, <2>4 DEF Live, TypeOK
  <2>7. \A h \in Live' : \E j \in imap'[0] : ino'[h] = NumberOf(j)
    BY <2>3, <2>4, <2>5, <2>6
  <2>8. InodesDistinct'
    <3>1. SUFFICES ASSUME NEW a \in Live', NEW b \in Live', a # b
                   PROVE  ino'[a] # ino'[b]
      BY DEF InodesDistinct
    <3>2. CASE a = f \/ b = f
      BY <2>4, <2>5, <2>6, <3>1, <3>2
    <3>3. CASE a # f /\ b # f
      BY <1>1, <2>5, <2>6, <3>1, <3>3 DEF IntactInv, IntactUntilDelete, InodesDistinct
    <3> QED
      BY <3>2, <3>3
  <2>9. \A h \in Live' : inode'[ino'[h]] = kind'[h]
    BY <2>4, <2>5, <2>6
  <2> QED
    BY <1>0, <2>7, <2>8, <2>9 DEF IntactInv, IntactUntilDelete
<1>2. ASSUME NEW f \in File, NEW t \in Type, Create(f, t), deleted PROVE IntactInv'
  BY <1>0, <1>2 DEF Create, IntactInv
<1>3. ASSUME NEW f \in File, Delete(f) PROVE IntactInv'
  BY <1>0, <1>3 DEF Delete, IntactInv
<1>4. ASSUME UNCHANGED vars PROVE IntactInv'
  BY <1>0, <1>4 DEF vars, IntactInv, IntactUntilDelete, InodesDistinct, Live
<1> QED
  BY <1>1, <1>2, <1>3, <1>4 DEF Next

(* In a volume of one group, until a file is deleted, files have inodes of *)
(* their own with the types they were created with.                        *)
THEOREM Intact == ASSUME OneGroup PROVE Spec => []IntactUntilDelete
<1>1. IntactInv => IntactUntilDelete
  BY DEF IntactInv, IntactUntilDelete
<1> QED
  BY IntactInit, IntactStep, <1>1, PTL DEF Spec

-----------------------------------------------------------------------------
(* The free count, with one group: the count of the group is the guard of  *)
(* a creation, and never above the count of the volume, so that neither    *)
(* wraps.                                                                  *)

BalanceInv ==
    /\ TypeOK
    /\ CountsBalance
    /\ gdFreeInodes[0] <= sbFreeInodes

LEMMA LiveFinite == IsFiniteSet(Live) /\ Cardinality(Live) \in Nat
<1>1. Live \subseteq File
  BY DEF Live
<1>2. IsFiniteSet(Live)
  BY <1>1, FS_Subset, InodeAssumption
<1> QED
  BY <1>2, FS_CardinalityType

LEMMA BalanceInit == ASSUME OneGroup PROVE Init => BalanceInv
<1> SUFFICES ASSUME Init PROVE BalanceInv
  OBVIOUS
<1>1. TypeOK
  BY TypeInit
<1>2. CountsBalance
  <2>1. Cardinality(Live) = 0
    <3>1. Live = {}
      BY DEF Init, Live
    <3> QED
      BY <3>1, FS_EmptySet
  <2> QED
    BY <2>1, FreeAtFirst DEF Init, CountsBalance
<1>3. gdFreeInodes[0] <= sbFreeInodes
  <2>1. 0 \in Descriptor /\ InodesCount = InodesPerGroup
    BY FirstGroup, Numbers, InodeAssumption DEF OneGroup, InodesCount
  <2>2. /\ gdFreeInodes[0] = InodesPerGroup - ReservedInodes
        /\ sbFreeInodes = InodesPerGroup - ReservedInodes
    BY <2>1, FirstGroup DEF Init
  <2> QED
    BY <2>2, InodeAssumption
<1> QED
  BY <1>1, <1>2, <1>3 DEF BalanceInv

LEMMA BalanceStep == ASSUME OneGroup PROVE BalanceInv /\ [Next]_vars => BalanceInv'
<1> SUFFICES ASSUME BalanceInv, [Next]_vars PROVE BalanceInv'
  OBVIOUS
<1>0. /\ TypeOK /\ TypeOK'
      /\ gdFreeInodes[0] \in 0 .. M16 - 1 /\ 0 \in Descriptor
      /\ sbFreeInodes \in 0 .. M32 - 1
      /\ gdFreeInodes[0] <= sbFreeInodes
      /\ sbFreeInodes + Cardinality(Live) = InodesCount - ReservedInodes
  BY TypeStep, FirstGroup, Numbers DEF BalanceInv, CountsBalance, TypeOK
<1>m. M16 \in Nat \ {0} /\ M32 \in Nat \ {0}
  BY Moduli
<1>i. InodesCount - ReservedInodes \in 0 .. M16 - 2 /\ InodesCount - ReservedInodes \in 0 .. M32 - 2
  BY InodeAssumption DEF OneGroup, InodesCount
<1>1. ASSUME NEW f \in File, NEW t \in Type, Create(f, t) PROVE BalanceInv'
  <2>1. PICK g \in Group, k \in Bit :
            /\ f \notin Live
            /\ gdFreeInodes[g] # 0
            /\ gdFreeInodes' = [gdFreeInodes EXCEPT ![g] = Dec(@, M16)]
            /\ ino' = [ino EXCEPT ![f] = NumberOf(k)]
    BY <1>0, <1>1, CreateEffect
  <2>2. g = 0
    BY FirstGroup
  <2>3. gdFreeInodes'[0] = gdFreeInodes[0] - 1
    BY <1>0, <2>1, <2>2 DEF Dec, TypeOK
  <2>4. sbFreeInodes' = sbFreeInodes - 1
    BY <1>0, <1>1, <2>1, <2>2 DEF Create, Dec
  <2>5. Cardinality(Live') = Cardinality(Live) + 1
    <3>1. Live' = Live \cup {f} /\ f \notin Live
      BY <1>0, <2>1, Numbers DEF Live, TypeOK
    <3> QED
      BY <3>1, LiveFinite, FS_AddElement
  <2> QED
    BY <1>0, <1>i, <2>3, <2>4, <2>5, LiveFinite DEF BalanceInv, CountsBalance
<1>2. ASSUME NEW f \in File, Delete(f) PROVE BalanceInv'
  <2>1. Cardinality(Live') = Cardinality(Live) - 1 /\ Cardinality(Live) > 0
    <3>1. Live' = Live \ {f} /\ f \in Live
      BY <1>0, <1>2 DEF Delete, Live, TypeOK
    <3>2. Cardinality(Live') = Cardinality(Live) - 1
      BY <3>1, LiveFinite, FS_RemoveElement
    <3>3. Cardinality(Live) # 0
      BY <3>1, LiveFinite, FS_EmptySet
    <3> QED
      BY <3>2, <3>3, LiveFinite
  <2>2. sbFreeInodes + 1 < M32 - 1 \/ sbFreeInodes + 1 <= InodesCount - ReservedInodes
    BY <1>0, <1>i, <2>1, LiveFinite
  <2>3. sbFreeInodes' = sbFreeInodes + 1
    BY <1>0, <1>i, <1>m, <1>2, <2>2 DEF Delete, Inc
  <2>4. gdFreeInodes'[0] \in {gdFreeInodes[0], gdFreeInodes[0] + 1}
    <3>1. gdFreeInodes[0] # M16 - 1
      BY <1>0, <1>i, <1>m, <2>1, LiveFinite
    <3>2. gdFreeInodes'[0] \in {gdFreeInodes[0], Inc(gdFreeInodes[0], M16)}
      BY <1>0, <1>2 DEF Delete, TypeOK
    <3> QED
      BY <3>1, <3>2 DEF Inc
  <2> QED
    BY <1>0, <1>i, <1>m, <2>1, <2>3, <2>4, LiveFinite DEF BalanceInv, CountsBalance
<1>3. ASSUME UNCHANGED vars PROVE BalanceInv'
  <2>1. Live' = Live
    BY <1>3 DEF vars, Live
  <2> QED
    BY <1>0, <1>3, <2>1 DEF vars, counts, BalanceInv, CountsBalance
<1> QED
  BY <1>1, <1>2, <1>3 DEF Next

(* In a volume of one group the cached free count and the number of files  *)
(* always make up what mkfs left free.                                     *)
THEOREM Balanced == ASSUME OneGroup PROVE Spec => []CountsBalance
<1>1. BalanceInv => CountsBalance
  BY DEF BalanceInv
<1> QED
  BY BalanceInit, BalanceStep, <1>1, PTL DEF Spec

-----------------------------------------------------------------------------
(* Creations before the first deletion, with one group: the count is the   *)
(* number of clear bits, and the bits of the padding are set.              *)

Padding == {k \in Bit : k >= InodesPerGroup}

GrantsInv ==
    /\ TypeOK
    /\ ~deleted => /\ gdFreeInodes[0] = Cardinality(Bit \ imap[0])
                   /\ Padding \subseteq imap[0]
                   /\ GrantedInTable

LEMMA ClearFinite ==
    ASSUME NEW S \in SUBSET Bit
    PROVE  IsFiniteSet(S) /\ Cardinality(S) \in Nat
<1>1. BlockBytes * BitsPerByte \in Nat
  BY InodeAssumption
<1>2. IsFiniteSet(Bit)
  BY <1>1, FS_Interval DEF Bit
<1> QED
  BY <1>2, FS_Subset, FS_CardinalityType

LEMMA GrantsInit == ASSUME OneGroup PROVE Init => GrantsInv
<1> SUFFICES ASSUME Init PROVE GrantsInv
  OBVIOUS
<1>1. 0 \in Group /\ 0 \in Descriptor
  BY FirstGroup, Numbers
<1>2. /\ imap[0] = (0 .. ReservedInodes - 1) \cup Padding
      /\ gdFreeInodes[0] = InodesPerGroup - ReservedInodes
  BY <1>1 DEF Init, MkfsSet, Padding
<1>3. Bit \ imap[0] = ReservedInodes .. InodesPerGroup - 1
  <2>1. BlockBytes * BitsPerByte \in Nat
    BY InodeAssumption
  <2> QED
    BY <1>2, <2>1, InodeAssumption DEF Bit, Padding
<1>4. Cardinality(Bit \ imap[0]) = InodesPerGroup - ReservedInodes
  <2>1. /\ ReservedInodes \in Int /\ InodesPerGroup - 1 \in Int
        /\ ReservedInodes <= InodesPerGroup /\ InodesPerGroup \in Int
    BY InodeAssumption
  <2>2. Cardinality(ReservedInodes .. InodesPerGroup - 1) =
            IF ReservedInodes > InodesPerGroup - 1 THEN 0
            ELSE (InodesPerGroup - 1) - ReservedInodes + 1
    BY <2>1, FS_Interval
  <2>3. Cardinality(ReservedInodes .. InodesPerGroup - 1) = InodesPerGroup - ReservedInodes
    BY <2>1, <2>2
  <2> QED
    BY <1>3, <2>3
<1>5. GrantedInTable
  BY InodeAssumption DEF Init, GrantedInTable, OneGroup, InodesCount
<1> QED
  BY <1>2, <1>4, <1>5, TypeInit DEF GrantsInv

LEMMA GrantsStep == ASSUME OneGroup PROVE GrantsInv /\ [Next]_vars => GrantsInv'
<1> SUFFICES ASSUME GrantsInv, [Next]_vars PROVE GrantsInv'
  OBVIOUS
<1>0. TypeOK /\ TypeOK' /\ 0 \in Group /\ 0 \in Descriptor
  BY TypeStep, FirstGroup, Numbers DEF GrantsInv
<1>1. ASSUME NEW f \in File, NEW t \in Type, Create(f, t), ~deleted PROVE GrantsInv'
  <2>1. PICK g \in Group, k \in Bit :
            /\ k \notin imap[g]
            /\ gdFreeInodes[g] # 0
            /\ imap' = [imap EXCEPT ![g] = @ \cup {k}]
            /\ gdFreeInodes' = [gdFreeInodes EXCEPT ![g] = Dec(@, M16)]
            /\ ino' = [ino EXCEPT ![f] = NumberOf(k)]
    BY <1>0, <1>1, CreateEffect
  <2>2. g = 0 /\ imap'[0] = imap[0] \cup {k} /\ k \in Bit \ imap[0] /\ imap[0] \subseteq Bit
    BY <1>0, <2>1, FirstGroup DEF TypeOK
  <2>3. gdFreeInodes'[0] = gdFreeInodes[0] - 1
    BY <1>0, <2>1, <2>2 DEF Dec, TypeOK
  <2>4. Cardinality(Bit \ imap'[0]) = Cardinality(Bit \ imap[0]) - 1
    <3>1. Bit \ imap'[0] = (Bit \ imap[0]) \ {k}
      BY <2>2
    <3> QED
      BY <2>2, <3>1, ClearFinite, FS_RemoveElement, SMTT(30)
  <2>5. NumberOf(k) <= InodesCount
    <3>1. k \notin Padding /\ k \in Nat
      BY <1>1, <2>2, Numbers DEF GrantsInv
    <3> QED
      BY <2>2, <3>1, InodeAssumption DEF Padding, NumberOf, InodesCount, OneGroup
  <2>6. GrantedInTable'
    BY <1>0, <1>1, <2>1, <2>5 DEF GrantsInv, GrantedInTable, TypeOK
  <2> QED
    BY <1>0, <1>1, <2>2, <2>3, <2>4, <2>6 DEF GrantsInv
<1>2. ASSUME NEW f \in File, Delete(f) PROVE GrantsInv'
  BY <1>0, <1>2 DEF Delete, GrantsInv
<1>3. CASE deleted
  BY <1>0, <1>2, <1>3 DEF Next, Create, vars, GrantsInv
<1>4. CASE UNCHANGED vars
  BY <1>0, <1>4 DEF vars, counts, GrantsInv, GrantedInTable
<1> QED
  BY <1>1, <1>2, <1>3, <1>4 DEF Next

(* With one group, until the first deletion no creation fails while the    *)
(* count says that there is an inode, and every number granted is one of   *)
(* the volume's.                                                           *)
THEOREM Grants == ASSUME OneGroup PROVE Spec => []GrantsUntilDelete
<1>1. GrantsInv => GrantsUntilDelete
  <2> SUFFICES ASSUME GrantsInv, ~deleted, NEW g \in Group, gdFreeInodes[g] # 0
               PROVE  imap[g] # Bit
    BY DEF GrantsInv, GrantsUntilDelete, CreateSucceeds, IsFirst
  <2>1. g = 0 /\ Cardinality(Bit \ imap[0]) # 0
    BY FirstGroup DEF GrantsInv
  <2> QED
    BY <2>1, FS_EmptySet
<1>2. GrantsInv /\ [Next]_vars => GrantsInv'
  BY GrantsStep
<1> QED
  BY GrantsInit, <1>1, <1>2, PTL DEF Spec
=============================================================================
