---------------------------- MODULE VolumeProofs ----------------------------
(***************************************************************************)
(* What holds of every volume, whatever its size: the theorems of Volume.  *)
(***************************************************************************)
EXTENDS Volume, FiniteSetTheorems, Basics, TLAPS

-----------------------------------------------------------------------------
(* Block numbers.                                                          *)

(* The group and the bit a block number stands for are those it was made   *)
(* from: a release clears the bit that the grant set.                      *)
THEOREM Numbering ==
    ASSUME NEW g \in Group, NEW k \in Bit
    PROVE  /\ BlockOf(g, k) \in Nat \ {0}
           /\ GroupOf(BlockOf(g, k)) = g
           /\ BitOf(BlockOf(g, k)) = k
<1>1. BlocksPerGroup \in Nat \ {0} /\ g \in Nat /\ k \in 0 .. BlocksPerGroup - 1
  BY GeometryAssumption DEF Group, Bit
<1>2. g * BlocksPerGroup \in Nat
  BY <1>1
<1>3. BlockOf(g, k) - 1 = k + g * BlocksPerGroup
  BY <1>1, <1>2 DEF BlockOf
<1>4. BlockOf(g, k) \in Nat \ {0}
  BY <1>1, <1>2 DEF BlockOf
<1>5. /\ (k + g * BlocksPerGroup) \div BlocksPerGroup = g
      /\ (k + g * BlocksPerGroup) % BlocksPerGroup = k
  BY <1>1, DivUnique
<1> QED
  BY <1>3, <1>4, <1>5 DEF GroupOf, BitOf

LEMMA BlockParts ==
    ASSUME NEW b \in Block
    PROVE  /\ GroupOf(b) \in Group
           /\ BitOf(b) \in Bit
           /\ b = BlockOf(GroupOf(b), BitOf(b))
<1>1. PICK g \in Group, k \in Bit : b = BlockOf(g, k)
  BY DEF Block
<1> QED
  BY <1>1, Numbering

LEMMA BlocksDiffer ==
    ASSUME NEW b \in Block, NEW g \in Group, NEW k \in Bit, b # BlockOf(g, k)
    PROVE  GroupOf(b) # g \/ BitOf(b) # k
  BY BlockParts

(* The counts stay unsigned.                                               *)
LEMMA CounterType ==
    ASSUME NEW modulus \in Nat \ {0}, NEW n \in 0 .. modulus - 1
    PROVE  Inc(n, modulus) \in 0 .. modulus - 1 /\ Dec(n, modulus) \in 0 .. modulus - 1
  BY DEF Inc, Dec

LEMMA BitFinite ==
    /\ IsFiniteSet(Bit) /\ Cardinality(Bit) = BlocksPerGroup
    /\ IsFiniteSet(Group) /\ Cardinality(Group) = GroupCount
<1>1. 0 \in Int /\ BlocksPerGroup - 1 \in Int /\ GroupCount - 1 \in Int
  BY GeometryAssumption
<1> QED
  BY <1>1, FS_Interval, GeometryAssumption DEF Bit, Group

(* The clear bits can be counted, and there are fewer than M32 of them.    *)
LEMMA FreeBitsCount ==
    ASSUME NEW bm
    PROVE  /\ IsFiniteSet(FreeBits(bm))
           /\ Cardinality(FreeBits(bm)) \in 0 .. M32 - 1
<1>1. /\ IsFiniteSet(Group \X Bit)
      /\ Cardinality(Group \X Bit) = GroupCount * BlocksPerGroup
  BY BitFinite, FS_Product
<1>2. FreeBits(bm) \subseteq Group \X Bit
  BY DEF FreeBits
<1>3. /\ IsFiniteSet(FreeBits(bm))
      /\ Cardinality(FreeBits(bm)) <= GroupCount * BlocksPerGroup
  BY <1>1, <1>2, FS_Subset
<1>4. Cardinality(FreeBits(bm)) \in Nat
  BY <1>3, FS_CardinalityType
<1> QED
  BY <1>3, <1>4, CounterAssumption, GeometryAssumption

LEMMA ClearCount ==
    ASSUME NEW S \in SUBSET Bit
    PROVE  /\ IsFiniteSet(Bit \ S)
           /\ Cardinality(Bit \ S) \in 0 .. BlocksPerGroup
           /\ S # {} => Cardinality(Bit \ S) < BlocksPerGroup
           /\ Bit \ S # {} => Cardinality(Bit \ S) > 0
<1>1. Bit \ S \subseteq Bit
  OBVIOUS
<1>2. /\ IsFiniteSet(Bit \ S)
      /\ Cardinality(Bit \ S) <= BlocksPerGroup
      /\ Cardinality(Bit \ S) = BlocksPerGroup => Bit \ S = Bit
  BY <1>1, FS_Subset, BitFinite
<1>3. Cardinality(Bit \ S) \in Nat
  BY <1>2, FS_CardinalityType
<1>4. Bit \ S # {} => Cardinality(Bit \ S) # 0
  BY <1>2, FS_EmptySet
<1>5. S # {} => Bit \ S # Bit
  OBVIOUS
<1> QED
  BY <1>2, <1>3, <1>4, <1>5, GeometryAssumption

-----------------------------------------------------------------------------
(* Type correctness.                                                       *)

LEMMA TypeInit == Init => TypeOK
<1> SUFFICES ASSUME Init PROVE TypeOK
  OBVIOUS
<1>1. 0 \in Group
  BY GeometryAssumption DEF Group
<1>2. \A g \in Group : Cardinality(Bit \ MkfsUsed[g]) \in 0 .. M16 - 1
  <2> TAKE g \in Group
  <2>1. MkfsUsed[g] \in SUBSET Bit
    BY GeometryAssumption
  <2>2. Cardinality(Bit \ MkfsUsed[g]) \in 0 .. BlocksPerGroup
    BY <2>1, ClearCount
  <2> QED
    BY <2>2, CounterAssumption, GeometryAssumption
<1>3. Cardinality(FreeBits(MkfsUsed)) \in 0 .. M32 - 1
  BY FreeBitsCount
<1>4. 0 \in 0 .. M16 - 1 /\ 0 \in 0 .. M32 - 1
  BY CounterAssumption, GeometryAssumption
<1>5. bgdt \in [Group -> 0 .. M16 - 1] /\ gdFree \in [Group -> 0 .. M16 - 1]
  BY <1>2, <1>4 DEF Init
<1>6. super \in [Group -> (0 .. M32 - 1) \cup {Clobbered}] /\ sbFree \in 0 .. M32 - 1
  BY <1>3, <1>4 DEF Init
<1>7. bitmap \in [Group -> SUBSET Bit] /\ own \in [Owner -> SUBSET Block]
  BY GeometryAssumption DEF Init
<1>8. session \in 0 .. MaxSessions
  BY FailureAssumption DEF Init
<1> QED
  BY <1>1, <1>5, <1>6, <1>7, <1>8 DEF Init, TypeOK

LEMMA TypeStep == TypeOK /\ [Next]_vars => TypeOK'
<1> SUFFICES ASSUME TypeOK, [Next]_vars PROVE TypeOK'
  OBVIOUS
<1> USE DEF TypeOK, disk, memory
<1>0. /\ 0 \in Group
      /\ M16 \in Nat \ {0} /\ M32 \in Nat \ {0}
      /\ 0 \in 0 .. M16 - 1 /\ 0 \in 0 .. M32 - 1
  BY GeometryAssumption, CounterAssumption DEF Group
<1>1. CASE Register
  <2>1. sbFree' \in 0 .. M32 - 1
    BY <1>0, <1>1 DEF Register
  <2>2. session' \in 0 .. MaxSessions
    BY <1>1, FailureAssumption DEF Register
  <2> QED
    BY <1>1, <2>1, <2>2 DEF Register
<1>2. ASSUME NEW o \in Owner, Allocate(o) PROVE TypeOK'
  <2>1. PICK buf \in Buffers, result \in WriteResult, g \in Group, k \in Bit :
          /\ bitmap' = BitmapWritten(g, buf[g] \cup {k}, result)
          /\ gdFree' = [gdFree EXCEPT ![g] = Dec(@, M16)]
          /\ sbFree' = Dec(sbFree, M32)
          /\ own' = [own EXCEPT ![o] = @ \cup {BlockOf(g, k)}]
    BY <1>2 DEF Allocate
  <2>2. buf[g] \cup {k} \in SUBSET Bit
    BY <2>1 DEF Buffers
  <2>3. bitmap' \in [Group -> SUBSET Bit]
    BY <2>1, <2>2 DEF BitmapWritten
  <2>4. gdFree' \in [Group -> 0 .. M16 - 1] /\ sbFree' \in 0 .. M32 - 1
    BY <2>1, <1>0, CounterType
  <2>5. BlockOf(g, k) \in Block
    BY DEF Block
  <2>6. own' \in [Owner -> SUBSET Block]
    BY <2>1, <2>5
  <2> QED
    BY <1>2, <2>3, <2>4, <2>6 DEF Allocate
<1>3. ASSUME NEW o \in Owner, NEW b \in own[o], Deallocate(o, b) PROVE TypeOK'
  <2>1. b \in Block /\ GroupOf(b) \in Group
    BY BlockParts
  <2>2. PICK buf \in BufferRead(GroupOf(b)), result \in WriteResult :
          /\ bitmap' = BitmapWritten(GroupOf(b), buf \ {BitOf(b)}, result)
          /\ gdFree' = [gdFree EXCEPT ![GroupOf(b)] = Inc(@, M16)]
    BY <1>3 DEF Deallocate
  <2>3. buf \in SUBSET Bit
    BY <2>1, <2>2 DEF BufferRead
  <2>4. bitmap' \in [Group -> SUBSET Bit]
    BY <2>2, <2>3 DEF BitmapWritten
  <2>5. gdFree' \in [Group -> 0 .. M16 - 1]
    BY <2>1, <2>2, <1>0, CounterType
  <2>6. sbFree' \in 0 .. M32 - 1
    BY <1>3, <1>0, CounterType DEF Deallocate
  <2> QED
    BY <1>3, <2>4, <2>5, <2>6 DEF Deallocate
<1>4. CASE BeginFlush
  BY <1>0, <1>4 DEF BeginFlush
<1>5. CASE FlushBg
  <2>1. \A written \in BOOLEAN : More(written) => cursor + 1 \in Group
    BY GeometryAssumption DEF More, Group
  <2>2. Flushed \subseteq BOOLEAN
    BY DEF Flushed
  <2>3. cursor' \in Group /\ mode' \in {"flush_bg", "flush_sb"}
    BY <1>0, <1>5, <2>1, <2>2 DEF FlushBg
  <2>4. super' \in [Group -> (0 .. M32 - 1) \cup {Clobbered}]
    BY <1>5 DEF FlushBg
  <2>5. bgdt' \in [Group -> 0 .. M16 - 1]
    BY <1>5 DEF FlushBg
  <2> QED
    BY <1>5, <2>3, <2>4, <2>5 DEF FlushBg
<1>6. CASE FlushSb
  <2>1. \A written \in BOOLEAN : More(written) => cursor + 1 \in Group
    BY GeometryAssumption DEF More, Group
  <2>2. Flushed \subseteq BOOLEAN
    BY DEF Flushed
  <2>3. cursor' \in Group /\ mode' \in {"idle", "flush_sb"} /\ flushRequired' \in BOOLEAN
    BY <1>0, <1>6, <2>1, <2>2 DEF FlushSb
  <2>4. super' \in [Group -> (0 .. M32 - 1) \cup {Clobbered}]
    BY <1>6 DEF FlushSb
  <2> QED
    BY <1>6, <2>3, <2>4 DEF FlushSb
<1>7. CASE Crash
  BY <1>0, <1>7 DEF Crash
<1>8. CASE UNCHANGED vars
  BY <1>8 DEF vars
<1> QED
  BY <1>1, <1>2, <1>3, <1>4, <1>5, <1>6, <1>7, <1>8 DEF Next

(* Every variable keeps its type: in particular the counts wrap where the  *)
(* unsigned integers of the code do, and the flush loop stays in the table.*)
THEOREM TypeCorrect == Spec => []TypeOK
  BY TypeInit, TypeStep, PTL DEF Spec

-----------------------------------------------------------------------------
(* A drive that does not fail: the calls read the bitmap that is there and *)
(* write the one they mean to.                                             *)

NoFailure == ~WriteMayFail /\ ~ReadMayFail

LEMMA AllocateEffect ==
    ASSUME NoFailure, TypeOK, NEW o \in Owner, Allocate(o)
    PROVE  \E g \in Group, k \in Bit :
              /\ k \notin bitmap[g]
              /\ gdFree[g] # 0
              /\ bitmap' = [bitmap EXCEPT ![g] = @ \cup {k}]
              /\ gdFree' = [gdFree EXCEPT ![g] = Dec(@, M16)]
              /\ sbFree' = Dec(sbFree, M32)
              /\ own' = [own EXCEPT ![o] = @ \cup {BlockOf(g, k)}]
<1>1. PICK buf \in Buffers, result \in WriteResult, g \in Group, k \in Bit :
        /\ IsFirst(g, Candidates(buf))
        /\ IsFirst(k, Bit \ buf[g])
        /\ bitmap' = BitmapWritten(g, buf[g] \cup {k}, result)
        /\ gdFree' = [gdFree EXCEPT ![g] = Dec(@, M16)]
        /\ sbFree' = Dec(sbFree, M32)
        /\ own' = [own EXCEPT ![o] = @ \cup {BlockOf(g, k)}]
  BY DEF Allocate
<1>2. buf[g] = bitmap[g]
  BY <1>1 DEF Buffers, BufferRead, NoFailure
<1>3. result = 1
  BY <1>1 DEF WriteResult, NoFailure
<1>4. k \notin bitmap[g] /\ gdFree[g] # 0
  BY <1>1, <1>2 DEF IsFirst, Candidates
<1>5. bitmap' = [bitmap EXCEPT ![g] = @ \cup {k}]
  BY <1>1, <1>2, <1>3 DEF BitmapWritten, TypeOK
<1> QED
  BY <1>1, <1>4, <1>5

LEMMA DeallocateEffect ==
    ASSUME NoFailure, TypeOK, NEW o \in Owner, NEW b \in own[o], Deallocate(o, b)
    PROVE  /\ BitOf(b) \in bitmap[GroupOf(b)]
           /\ bitmap' = [bitmap EXCEPT ![GroupOf(b)] = @ \ {BitOf(b)}]
           /\ gdFree' = [gdFree EXCEPT ![GroupOf(b)] = Inc(@, M16)]
           /\ sbFree' = Inc(sbFree, M32)
           /\ own' = [own EXCEPT ![o] = @ \ {b}]
<1>1. PICK buf \in BufferRead(GroupOf(b)), result \in WriteResult :
        /\ BitOf(b) \in buf
        /\ bitmap' = BitmapWritten(GroupOf(b), buf \ {BitOf(b)}, result)
        /\ gdFree' = [gdFree EXCEPT ![GroupOf(b)] = Inc(@, M16)]
  BY DEF Deallocate
<1>2. buf = bitmap[GroupOf(b)]
  BY <1>1 DEF BufferRead, NoFailure
<1>3. result = 1
  BY <1>1 DEF WriteResult, NoFailure
<1>4. bitmap' = [bitmap EXCEPT ![GroupOf(b)] = @ \ {BitOf(b)}]
  BY <1>1, <1>2, <1>3 DEF BitmapWritten, TypeOK
<1> QED
  BY <1>1, <1>2, <1>4 DEF Deallocate

(* The other actions change neither a bitmap nor an owner, but Crash, which*)
(* takes blocks away from their owners.                                    *)
LEMMA OtherEffect ==
    ASSUME TypeOK,
           Register \/ BeginFlush \/ FlushBg \/ FlushSb \/ Crash \/ UNCHANGED vars
    PROVE  bitmap' = bitmap /\ \A o \in Owner : own'[o] \subseteq own[o]
<1> USE DEF disk, memory
<1>1. CASE Crash
  BY <1>1 DEF Crash, TypeOK
<1>2. CASE ~Crash
  BY <1>2 DEF Register, BeginFlush, FlushBg, FlushSb, vars, TypeOK
<1> QED
  BY <1>1, <1>2

-----------------------------------------------------------------------------
(* No block is granted twice.                                              *)

HeldInv == TypeOK /\ HeldAreMarked /\ OwnersDisjoint

LEMMA HeldInit == Init => HeldInv
<1> SUFFICES ASSUME Init PROVE HeldInv
  OBVIOUS
<1>1. TypeOK
  BY TypeInit
<1> QED
  BY <1>1 DEF Init, HeldInv, HeldAreMarked, OwnersDisjoint

LEMMA HeldStep == ASSUME NoFailure PROVE HeldInv /\ [Next]_vars => HeldInv'
<1> SUFFICES ASSUME HeldInv, [Next]_vars PROVE HeldInv'
  OBVIOUS
<1> USE DEF HeldInv
<1>0. TypeOK'
  BY TypeStep
<1>1. ASSUME NEW o \in Owner, Allocate(o) PROVE HeldAreMarked' /\ OwnersDisjoint'
  <2>1. PICK g \in Group, k \in Bit :
          /\ k \notin bitmap[g]
          /\ bitmap' = [bitmap EXCEPT ![g] = @ \cup {k}]
          /\ own' = [own EXCEPT ![o] = @ \cup {BlockOf(g, k)}]
    BY <1>1, AllocateEffect
  <2>2. GroupOf(BlockOf(g, k)) = g /\ BitOf(BlockOf(g, k)) = k
    BY Numbering
  <2>3. \A p \in Owner : BlockOf(g, k) \notin own[p]
    BY <2>1, <2>2 DEF HeldAreMarked
  <2>4. HeldAreMarked'
    <3> SUFFICES ASSUME NEW p \in Owner, NEW c \in own'[p]
                 PROVE  BitOf(c) \in bitmap'[GroupOf(c)]
      BY DEF HeldAreMarked
    <3>1. CASE c = BlockOf(g, k)
      BY <2>1, <2>2, <3>1 DEF TypeOK
    <3>2. CASE c \in own[p]
      <4>1. BitOf(c) \in bitmap[GroupOf(c)] /\ GroupOf(c) \in Group
        BY <3>2, BlockParts DEF HeldAreMarked, TypeOK
      <4> QED
        BY <2>1, <4>1 DEF TypeOK
    <3> QED
      BY <2>1, <3>1, <3>2 DEF TypeOK
  <2>5. OwnersDisjoint'
    BY <2>1, <2>3 DEF OwnersDisjoint, TypeOK
  <2> QED
    BY <2>4, <2>5
<1>2. ASSUME NEW o \in Owner, NEW b \in own[o], Deallocate(o, b)
      PROVE  HeldAreMarked' /\ OwnersDisjoint'
  <2>1. /\ bitmap' = [bitmap EXCEPT ![GroupOf(b)] = @ \ {BitOf(b)}]
        /\ own' = [own EXCEPT ![o] = @ \ {b}]
    BY <1>2, DeallocateEffect
  <2>2. b \in Block /\ GroupOf(b) \in Group /\ BitOf(b) \in Bit
    BY BlockParts DEF TypeOK
  <2>3. HeldAreMarked'
    <3> SUFFICES ASSUME NEW p \in Owner, NEW c \in own'[p]
                 PROVE  BitOf(c) \in bitmap'[GroupOf(c)]
      BY DEF HeldAreMarked
    <3>1. c \in own[p] /\ c # b
      BY <2>1, <2>2 DEF TypeOK, OwnersDisjoint
    <3>2. c \in Block /\ GroupOf(c) \in Group /\ BitOf(c) \in bitmap[GroupOf(c)]
      BY <3>1, BlockParts DEF TypeOK, HeldAreMarked
    <3>3. GroupOf(c) # GroupOf(b) \/ BitOf(c) # BitOf(b)
      BY <2>2, <3>1, <3>2, BlockParts
    <3> QED
      BY <2>1, <2>2, <3>2, <3>3 DEF TypeOK
  <2>4. OwnersDisjoint'
    BY <2>1 DEF OwnersDisjoint, TypeOK
  <2> QED
    BY <2>3, <2>4
<1>3. ASSUME Register \/ BeginFlush \/ FlushBg \/ FlushSb \/ Crash \/ UNCHANGED vars
      PROVE  HeldAreMarked' /\ OwnersDisjoint'
  <2>1. bitmap' = bitmap /\ \A o \in Owner : own'[o] \subseteq own[o]
    BY <1>3, OtherEffect
  <2> QED
    BY <2>1 DEF HeldAreMarked, OwnersDisjoint
<1> QED
  BY <1>0, <1>1, <1>2, <1>3 DEF Next

(* Unless the drive fails, a held block is marked on the disk, in every    *)
(* session of a volume of any size.                                        *)
THEOREM HeldMarked == ASSUME NoFailure PROVE Spec => []HeldAreMarked
<1>1. HeldInv /\ [Next]_vars => HeldInv'
  BY HeldStep
<1>2. HeldInv => HeldAreMarked
  BY DEF HeldInv
<1> QED
  BY HeldInit, <1>1, <1>2, PTL DEF Spec

(* Neither is it held by two owners.                                       *)
THEOREM HeldByOne == ASSUME NoFailure PROVE Spec => []OwnersDisjoint
<1>1. HeldInv /\ [Next]_vars => HeldInv'
  BY HeldStep
<1>2. HeldInv => OwnersDisjoint
  BY DEF HeldInv
<1> QED
  BY HeldInit, <1>1, <1>2, PTL DEF Spec

-----------------------------------------------------------------------------
(* Grants stay on the volume.                                              *)

LEMMA BlockRange ==
    ASSUME BlockSize = 1024, NEW b \in Block
    PROVE  0 < b /\ b < BlocksCount
<1>1. PICK g \in Group, k \in Bit : b = BlockOf(g, k)
  BY DEF Block
<1>2. /\ g \in Nat /\ g <= GroupCount - 1 /\ GroupCount \in Nat
      /\ k \in Nat /\ k + 1 <= BlocksPerGroup /\ BlocksPerGroup \in Nat
  BY GeometryAssumption DEF Group, Bit
<1>3. g * BlocksPerGroup <= (GroupCount - 1) * BlocksPerGroup
  BY <1>2
<1>4. (GroupCount - 1) * BlocksPerGroup = GroupCount * BlocksPerGroup - BlocksPerGroup
  BY <1>2
<1>5. g * BlocksPerGroup \in Nat /\ GroupCount * BlocksPerGroup \in Nat
  BY <1>2
<1> QED
  BY <1>1, <1>2, <1>3, <1>4, <1>5 DEF BlockOf, BlocksCount, FirstDataBlock

(* With 1024-byte blocks, which mkfs numbers from 1, every granted block   *)
(* is on the volume, even when drive accesses fail.                        *)
THEOREM Granted == ASSUME BlockSize = 1024 PROVE Spec => []GrantedOnVolume
<1>1. TypeOK => GrantedOnVolume
  BY BlockRange DEF TypeOK, GrantedOnVolume
<1> QED
  BY TypeCorrect, <1>1, PTL

-----------------------------------------------------------------------------
(* The cached counts, until the process first ends.                        *)

Exact ==
    /\ \A g \in Group : gdFree[g] = Cardinality(Bit \ bitmap[g])
    /\ sbFree = Cardinality(FreeBits(bitmap))

(* Before the first registration the disk is as mkfs left it.              *)
Pristine ==
    /\ mode = "down"
    /\ bitmap = MkfsUsed
    /\ bgdt = [g \in Group |-> Cardinality(Bit \ MkfsUsed[g])]
    /\ super = [g \in Group |-> Cardinality(FreeBits(MkfsUsed))]

CountsInv ==
    /\ HeldInv
    /\ session = 0 => Pristine
    /\ (mode # "down" /\ session = 1) => Exact

LEMMA FreeBitsAdd ==
    ASSUME NEW bm \in [Group -> SUBSET Bit], NEW g \in Group, NEW k \in Bit, k \notin bm[g]
    PROVE  LET added == [bm EXCEPT ![g] = @ \cup {k}] IN
           /\ Cardinality(Bit \ added[g]) = Cardinality(Bit \ bm[g]) - 1
           /\ \A h \in Group : h # g => added[h] = bm[h]
           /\ Cardinality(FreeBits(added)) = Cardinality(FreeBits(bm)) - 1
<1> DEFINE added == [bm EXCEPT ![g] = @ \cup {k}]
<1>1. Bit \ added[g] = (Bit \ bm[g]) \ {k} /\ k \in Bit \ bm[g]
  OBVIOUS
<1>2. IsFiniteSet(Bit \ bm[g])
  BY ClearCount
<1>3. Cardinality(Bit \ added[g]) = Cardinality(Bit \ bm[g]) - 1
  BY <1>1, <1>2, FS_RemoveElement
<1>4. FreeBits(added) = FreeBits(bm) \ {<<g, k>>}
  BY DEF FreeBits
<1>5. <<g, k>> \in FreeBits(bm)
  BY DEF FreeBits
<1>6. Cardinality(FreeBits(added)) = Cardinality(FreeBits(bm)) - 1
  BY <1>4, <1>5, FreeBitsCount, FS_RemoveElement
<1> QED
  BY <1>3, <1>6

LEMMA FreeBitsRemove ==
    ASSUME NEW bm \in [Group -> SUBSET Bit], NEW g \in Group, NEW k \in Bit, k \in bm[g]
    PROVE  LET removed == [bm EXCEPT ![g] = @ \ {k}] IN
           /\ Cardinality(Bit \ removed[g]) = Cardinality(Bit \ bm[g]) + 1
           /\ \A h \in Group : h # g => removed[h] = bm[h]
           /\ Cardinality(FreeBits(removed)) = Cardinality(FreeBits(bm)) + 1
<1> DEFINE removed == [bm EXCEPT ![g] = @ \ {k}]
<1>1. Bit \ removed[g] = (Bit \ bm[g]) \cup {k} /\ k \notin Bit \ bm[g]
  OBVIOUS
<1>2. IsFiniteSet(Bit \ bm[g])
  BY ClearCount
<1>3. Cardinality(Bit \ removed[g]) = Cardinality(Bit \ bm[g]) + 1
  BY <1>1, <1>2, FS_AddElement
<1>4. FreeBits(removed) = FreeBits(bm) \cup {<<g, k>>}
  BY DEF FreeBits
<1>5. <<g, k>> \notin FreeBits(bm)
  BY DEF FreeBits
<1>6. Cardinality(FreeBits(removed)) = Cardinality(FreeBits(bm)) + 1
  BY <1>4, <1>5, FreeBitsCount, FS_AddElement
<1> QED
  BY <1>3, <1>6

LEMMA CountsInit == Init => CountsInv
<1> SUFFICES ASSUME Init PROVE CountsInv
  OBVIOUS
<1>1. HeldInv
  BY HeldInit
<1> QED
  BY <1>1 DEF Init, CountsInv, Pristine

LEMMA CountsStep == ASSUME NoFailure PROVE CountsInv /\ [Next]_vars => CountsInv'
<1> SUFFICES ASSUME CountsInv, [Next]_vars PROVE CountsInv'
  OBVIOUS
<1> USE DEF CountsInv, disk, memory
<1>0. HeldInv' /\ TypeOK
  BY HeldStep DEF HeldInv
<1>1. ASSUME NEW o \in Owner, Allocate(o) PROVE CountsInv'
  <2>1. mode = "idle" /\ mode' = mode /\ session' = session /\ session # 0
    BY <1>1 DEF Allocate, Pristine
  <2>2. PICK g \in Group, k \in Bit :
          /\ k \notin bitmap[g]
          /\ gdFree[g] # 0
          /\ bitmap' = [bitmap EXCEPT ![g] = @ \cup {k}]
          /\ gdFree' = [gdFree EXCEPT ![g] = Dec(@, M16)]
          /\ sbFree' = Dec(sbFree, M32)
    BY <1>0, <1>1, AllocateEffect
  <2>3. ASSUME session = 1 PROVE Exact'
    <3>1. Exact
      BY <2>1, <2>3
    <3>2. /\ Cardinality(Bit \ bitmap'[g]) = Cardinality(Bit \ bitmap[g]) - 1
          /\ \A h \in Group : h # g => bitmap'[h] = bitmap[h]
          /\ Cardinality(FreeBits(bitmap')) = Cardinality(FreeBits(bitmap)) - 1
      BY <1>0, <2>2, FreeBitsAdd DEF TypeOK
    <3>3. <<g, k>> \in FreeBits(bitmap)
      BY <2>2 DEF FreeBits
    <3>4. sbFree # 0
      BY <3>1, <3>3, FreeBitsCount, FS_EmptySet DEF Exact
    <3>5. sbFree' = sbFree - 1 /\ gdFree'[g] = gdFree[g] - 1
      BY <1>0, <2>2, <3>4 DEF Dec, TypeOK
    <3>6. \A h \in Group : h # g => gdFree'[h] = gdFree[h]
      BY <1>0, <2>2 DEF TypeOK
    <3> QED
      BY <3>1, <3>2, <3>5, <3>6 DEF Exact
  <2> QED
    BY <1>0, <2>1, <2>3
<1>2. ASSUME NEW o \in Owner, NEW b \in own[o], Deallocate(o, b) PROVE CountsInv'
  <2> DEFINE g == GroupOf(b)
  <2> DEFINE k == BitOf(b)
  <2>1. mode = "idle" /\ mode' = mode /\ session' = session /\ session # 0
    BY <1>2 DEF Deallocate, Pristine
  <2>2. /\ k \in bitmap[g]
        /\ bitmap' = [bitmap EXCEPT ![g] = @ \ {k}]
        /\ gdFree' = [gdFree EXCEPT ![g] = Inc(@, M16)]
        /\ sbFree' = Inc(sbFree, M32)
    BY <1>0, <1>2, DeallocateEffect
  <2>3. g \in Group /\ k \in Bit
    BY <1>0, BlockParts DEF TypeOK
  <2> HIDE DEF g, k
  <2>4. ASSUME session = 1 PROVE Exact'
    <3>1. Exact
      BY <2>1, <2>4
    <3>2. /\ Cardinality(Bit \ bitmap'[g]) = Cardinality(Bit \ bitmap[g]) + 1
          /\ \A h \in Group : h # g => bitmap'[h] = bitmap[h]
          /\ Cardinality(FreeBits(bitmap')) = Cardinality(FreeBits(bitmap)) + 1
      BY <1>0, <2>2, <2>3, FreeBitsRemove DEF TypeOK
    <3>3. sbFree + 1 <= M32 - 1
      BY <3>1, <3>2, FreeBitsCount, <1>0, CounterAssumption DEF Exact, TypeOK
    <3>4. gdFree[g] <= BlocksPerGroup /\ gdFree[g] + 1 <= BlocksPerGroup
      <4>1. bitmap[g] \in SUBSET Bit /\ bitmap'[g] \in SUBSET Bit
        BY <1>0, <2>3 DEF TypeOK, HeldInv
      <4>2. Cardinality(Bit \ bitmap'[g]) \in 0 .. BlocksPerGroup
        BY <4>1, ClearCount
      <4> QED
        BY <3>1, <3>2, <4>2, <2>3, <1>0, GeometryAssumption DEF Exact, TypeOK
    <3>5. sbFree' = sbFree + 1 /\ gdFree'[g] = gdFree[g] + 1
      BY <1>0, <2>2, <2>3, <3>3, <3>4, CounterAssumption, GeometryAssumption DEF Inc, TypeOK
    <3>6. \A h \in Group : h # g => gdFree'[h] = gdFree[h]
      BY <1>0, <2>2 DEF TypeOK
    <3> QED
      BY <3>1, <3>2, <3>5, <3>6 DEF Exact
  <2> QED
    BY <1>0, <2>1, <2>4
<1>3. CASE Register
  <2>1. 0 \in Group
    BY GeometryAssumption DEF Group
  <2>2. session = 0 => Exact'
    BY <1>3, <2>1 DEF Register, Pristine, Exact
  <2> QED
    BY <1>0, <1>3, <2>2 DEF Register, TypeOK
<1>4. CASE BeginFlush
  BY <1>0, <1>4 DEF BeginFlush, Pristine, Exact
<1>5. CASE FlushBg
  BY <1>0, <1>5 DEF FlushBg, Pristine, Exact
<1>6. CASE FlushSb
  BY <1>0, <1>6 DEF FlushSb, Pristine, Exact
<1>7. CASE Crash
  BY <1>0, <1>7 DEF Crash, Pristine, Exact
<1>8. CASE UNCHANGED vars
  BY <1>0, <1>8 DEF vars, Pristine, Exact
<1> QED
  BY <1>1, <1>2, <1>3, <1>4, <1>5, <1>6, <1>7, <1>8 DEF Next

(* Until the process first ends, and unless the drive fails, no sequence   *)
(* of calls makes a free count differ from the bitmaps, or wrap.           *)
THEOREM Counts == ASSUME NoFailure PROVE Spec => []CountsExact
<1>1. CountsInv /\ [Next]_vars => CountsInv'
  BY CountsStep
<1>2. CountsInv => CountsExact
  BY DEF CountsInv, Exact, CountsExact
<1> QED
  BY CountsInit, <1>1, <1>2, PTL DEF Spec

-----------------------------------------------------------------------------
(* No free block is out of reach.  The descriptor table on the disk keeps  *)
(* mkfs's counts for ever (no flush writes it), so a registration caches   *)
(* counts that are too high by the blocks in use, and never too low; the   *)
(* excess is constant in a session and leaves room in 16 bits.             *)

MkfsTable == [g \in Group |-> Cardinality(Bit \ MkfsUsed[g])]

ReachInv ==
    /\ HeldInv
    /\ bgdt = MkfsTable
    /\ \A g \in Group : MkfsUsed[g] \subseteq bitmap[g]
    /\ \A o \in Owner : \A b \in own[o] : BitOf(b) \notin MkfsUsed[GroupOf(b)]
    /\ mode # "down" => \A g \in Group :
          /\ Cardinality(Bit \ bitmap[g]) <= gdFree[g]
          /\ gdFree[g] < BlocksPerGroup + Cardinality(Bit \ bitmap[g])

LEMMA TableNotFlushed == TableLba \notin FlushedSectors(0)
<1>1. BgdtSectors \in Int /\ BgdtSectors <= 2
  BY TableAssumption, GeometryAssumption DEF BgdtSectors
<1>2. SectorsPerGroup \in Int
  BY GeometryAssumption DEF SectorsPerGroup, SectorsPerBlock
<1>3. FlushedSectors(0) = bgdt_block .. (bgdt_block + BgdtSectors - 1)
  BY <1>1, <1>2 DEF FlushedSectors, bgdt_block
<1>4. CASE BlockSize = 1024
  BY <1>1, <1>3, <1>4 DEF TableLba, bgdt_block, SectorsPerBlock
<1>5. CASE BlockSize = 4096
  BY <1>1, <1>3, <1>5 DEF TableLba, bgdt_block, SectorsPerBlock
<1> QED
  BY <1>4, <1>5, GeometryAssumption

LEMMA TableBound ==
    ASSUME NEW g \in Group
    PROVE  MkfsTable[g] \in 0 .. BlocksPerGroup - 1
<1>1. MkfsUsed[g] \in SUBSET Bit /\ MkfsUsed[g] # {}
  BY GeometryAssumption
<1>2. /\ Cardinality(Bit \ MkfsUsed[g]) \in 0 .. BlocksPerGroup
      /\ Cardinality(Bit \ MkfsUsed[g]) < BlocksPerGroup
  BY <1>1, ClearCount
<1> QED
  BY <1>2, GeometryAssumption DEF MkfsTable

LEMMA ReachInit == Init => ReachInv
<1> SUFFICES ASSUME Init PROVE ReachInv
  OBVIOUS
<1>1. HeldInv
  BY HeldInit
<1> QED
  BY <1>1 DEF Init, ReachInv, MkfsTable

LEMMA ReachStep == ASSUME NoFailure PROVE ReachInv /\ [Next]_vars => ReachInv'
<1> SUFFICES ASSUME ReachInv, [Next]_vars PROVE ReachInv'
  OBVIOUS
<1> USE DEF ReachInv, disk, memory
<1>0. HeldInv' /\ TypeOK /\ TypeOK'
  BY HeldStep DEF HeldInv
<1>1. ASSUME NEW o \in Owner, Allocate(o) PROVE ReachInv'
  <2>1. mode = "idle" /\ bgdt' = bgdt
    BY <1>1 DEF Allocate
  <2>2. PICK g \in Group, k \in Bit :
          /\ k \notin bitmap[g]
          /\ gdFree[g] # 0
          /\ bitmap' = [bitmap EXCEPT ![g] = @ \cup {k}]
          /\ gdFree' = [gdFree EXCEPT ![g] = Dec(@, M16)]
          /\ own' = [own EXCEPT ![o] = @ \cup {BlockOf(g, k)}]
    BY <1>0, <1>1, AllocateEffect
  <2>3. GroupOf(BlockOf(g, k)) = g /\ BitOf(BlockOf(g, k)) = k
    BY Numbering
  <2>4. \A h \in Group : MkfsUsed[h] \subseteq bitmap'[h]
    BY <1>0, <2>2 DEF TypeOK
  <2>5. \A p \in Owner : \A b \in own'[p] : BitOf(b) \notin MkfsUsed[GroupOf(b)]
    BY <1>0, <2>2, <2>3 DEF TypeOK
  <2>6. \A h \in Group : /\ Cardinality(Bit \ bitmap'[h]) <= gdFree'[h]
                         /\ gdFree'[h] < BlocksPerGroup + Cardinality(Bit \ bitmap'[h])
    <3> TAKE h \in Group
    <3>1. CASE h = g
      <4>1. Cardinality(Bit \ bitmap'[g]) = Cardinality(Bit \ bitmap[g]) - 1
        BY <1>0, <2>2, FreeBitsAdd DEF TypeOK
      <4>2. gdFree'[g] = gdFree[g] - 1
        BY <1>0, <2>2 DEF Dec, TypeOK
      <4>3. bitmap[g] \in SUBSET Bit
        BY <1>0 DEF TypeOK
      <4>4. Cardinality(Bit \ bitmap[g]) \in 0 .. BlocksPerGroup
        BY <4>3, ClearCount
      <4> QED
        BY <1>0, <2>1, <3>1, <4>1, <4>2, <4>4, GeometryAssumption DEF TypeOK
    <3>2. CASE h # g
      BY <1>0, <2>1, <2>2, <3>2 DEF TypeOK
    <3> QED
      BY <3>1, <3>2
  <2> QED
    BY <1>0, <2>1, <2>4, <2>5, <2>6
<1>2. ASSUME NEW o \in Owner, NEW b \in own[o], Deallocate(o, b) PROVE ReachInv'
  <2> DEFINE g == GroupOf(b)
  <2> DEFINE k == BitOf(b)
  <2>1. mode = "idle" /\ bgdt' = bgdt
    BY <1>2 DEF Deallocate
  <2>2. /\ k \in bitmap[g]
        /\ bitmap' = [bitmap EXCEPT ![g] = @ \ {k}]
        /\ gdFree' = [gdFree EXCEPT ![g] = Inc(@, M16)]
        /\ own' = [own EXCEPT ![o] = @ \ {b}]
    BY <1>0, <1>2, DeallocateEffect
  <2>3. g \in Group /\ k \in Bit /\ k \notin MkfsUsed[g]
    BY <1>0, BlockParts DEF TypeOK
  <2>4. \A p \in Owner : \A c \in own'[p] : BitOf(c) \notin MkfsUsed[GroupOf(c)]
    BY <1>0, <2>2 DEF TypeOK
  <2> HIDE DEF g, k
  <2>5. \A h \in Group : MkfsUsed[h] \subseteq bitmap'[h]
    BY <1>0, <2>2, <2>3 DEF TypeOK
  <2>6. \A h \in Group : /\ Cardinality(Bit \ bitmap'[h]) <= gdFree'[h]
                         /\ gdFree'[h] < BlocksPerGroup + Cardinality(Bit \ bitmap'[h])
    <3> TAKE h \in Group
    <3>1. CASE h = g
      <4>1. Cardinality(Bit \ bitmap'[g]) = Cardinality(Bit \ bitmap[g]) + 1
        BY <1>0, <2>2, <2>3, FreeBitsRemove DEF TypeOK
      <4>2. bitmap[g] \in SUBSET Bit /\ bitmap'[g] \in SUBSET Bit
        BY <1>0, <2>3 DEF TypeOK
      <4>3. /\ Cardinality(Bit \ bitmap[g]) \in 0 .. BlocksPerGroup
            /\ Cardinality(Bit \ bitmap'[g]) \in 0 .. BlocksPerGroup
        BY <4>2, ClearCount
      <4>4. gdFree[g] \in Nat /\ gdFree[g] + 1 < M16
        BY <1>0, <2>1, <2>3, <4>1, <4>3, GeometryAssumption, CounterAssumption DEF TypeOK
      <4>5. gdFree'[g] = gdFree[g] + 1
        BY <1>0, <2>2, <2>3, <4>4, CounterAssumption DEF Inc, TypeOK
      <4> QED
        BY <1>0, <2>1, <2>3, <3>1, <4>1, <4>3, <4>5, GeometryAssumption DEF TypeOK
    <3>2. CASE h # g
      BY <1>0, <2>1, <2>2, <3>2 DEF TypeOK
    <3> QED
      BY <3>1, <3>2
  <2> QED
    BY <1>0, <2>1, <2>4, <2>5, <2>6
<1>3. CASE Register
  <2>1. gdFree' = MkfsTable /\ bitmap' = bitmap /\ bgdt' = bgdt /\ own' = own
    BY <1>3 DEF Register
  <2>2. \A g \in Group : /\ Cardinality(Bit \ bitmap'[g]) <= gdFree'[g]
                         /\ gdFree'[g] < BlocksPerGroup + Cardinality(Bit \ bitmap'[g])
    <3> TAKE g \in Group
    <3>1. Bit \ bitmap[g] \subseteq Bit \ MkfsUsed[g]
      OBVIOUS
    <3>2. bitmap[g] \in SUBSET Bit /\ MkfsUsed[g] \in SUBSET Bit
      BY <1>0, GeometryAssumption DEF TypeOK
    <3>3. IsFiniteSet(Bit \ MkfsUsed[g]) /\ Cardinality(Bit \ bitmap[g]) \in 0 .. BlocksPerGroup
      BY <3>2, ClearCount
    <3>4. Cardinality(Bit \ bitmap[g]) <= Cardinality(Bit \ MkfsUsed[g])
      BY <3>1, <3>3, FS_Subset
    <3>5. MkfsTable[g] \in 0 .. BlocksPerGroup - 1
      BY TableBound
    <3> QED
      BY <2>1, <3>3, <3>4, <3>5, GeometryAssumption DEF MkfsTable
  <2> QED
    BY <1>0, <2>1, <2>2
<1>4. CASE BeginFlush
  BY <1>0, <1>4 DEF BeginFlush
<1>5. CASE FlushBg
  <2>1. bgdt' = bgdt
    BY <1>5, TableNotFlushed DEF FlushBg
  <2> QED
    BY <1>0, <1>5, <2>1 DEF FlushBg
<1>6. CASE FlushSb
  BY <1>0, <1>6 DEF FlushSb
<1>7. CASE Crash
  <2>1. /\ mode' = "down" /\ bitmap' = bitmap /\ bgdt' = bgdt
        /\ \A o \in Owner : own'[o] \subseteq own[o]
    BY <1>0, <1>7, OtherEffect DEF Crash
  <2> QED
    BY <1>0, <2>1
<1>8. CASE UNCHANGED vars
  BY <1>0, <1>8 DEF vars
<1> QED
  BY <1>1, <1>2, <1>3, <1>4, <1>5, <1>6, <1>7, <1>8 DEF Next

(* Unless the drive fails, an allocation never passes over a group that    *)
(* has a clear bit, in any session.                                        *)
THEOREM Reachable == ASSUME NoFailure PROVE Spec => []NoFreeBlockUnreachable
<1>1. ReachInv /\ [Next]_vars => ReachInv'
  BY ReachStep
<1>2. ASSUME ReachInv PROVE NoFreeBlockUnreachable
  <2> SUFFICES ASSUME mode = "idle", NEW g \in Group, bitmap[g] # Bit
               PROVE  gdFree[g] # 0
    BY DEF NoFreeBlockUnreachable
  <2>1. bitmap[g] \in SUBSET Bit
    BY <1>2 DEF ReachInv, HeldInv, TypeOK
  <2>2. Cardinality(Bit \ bitmap[g]) \in Nat /\ Cardinality(Bit \ bitmap[g]) > 0
    BY <2>1, ClearCount
  <2> QED
    BY <1>2, <2>2 DEF ReachInv, HeldInv, TypeOK
<1> QED
  BY ReachInit, <1>1, <1>2, PTL DEF Spec

-----------------------------------------------------------------------------
(* The allocator implements the pool.                                      *)

LEMMA PoolStep ==
    ASSUME NoFailure, HeldInv, [Next]_vars
    PROVE  [Pool!PoolNext]_Pool!poolVars
<1> USE DEF HeldInv
<1>1. ASSUME NEW o \in Owner, Allocate(o) PROVE Pool!Grant(o)
  <2>1. PICK g \in Group, k \in Bit :
          /\ k \notin bitmap[g]
          /\ bitmap' = [bitmap EXCEPT ![g] = @ \cup {k}]
          /\ own' = [own EXCEPT ![o] = @ \cup {BlockOf(g, k)}]
    BY <1>1, AllocateEffect
  <2>2. /\ BlockOf(g, k) \in Block
        /\ GroupOf(BlockOf(g, k)) = g /\ BitOf(BlockOf(g, k)) = k
    BY Numbering DEF Block
  <2>3. BlockOf(g, k) \in Unmarked
    BY <2>1, <2>2 DEF Unmarked
  <2>4. ASSUME NEW b \in Block, b # BlockOf(g, k)
        PROVE  BitOf(b) \in bitmap'[GroupOf(b)] <=> BitOf(b) \in bitmap[GroupOf(b)]
    BY <2>1, <2>4, BlocksDiffer, BlockParts DEF TypeOK
  <2>5. k \in bitmap'[g]
    BY <2>1 DEF TypeOK
  <2>6. Unmarked' = Unmarked \ {BlockOf(g, k)}
    BY <2>2, <2>4, <2>5 DEF Unmarked
  <2> QED
    BY <2>1, <2>3, <2>6 DEF Pool!Grant
<1>2. ASSUME NEW o \in Owner, NEW b \in own[o], Deallocate(o, b) PROVE Pool!Release(o, b)
  <2>1. /\ bitmap' = [bitmap EXCEPT ![GroupOf(b)] = @ \ {BitOf(b)}]
        /\ own' = [own EXCEPT ![o] = @ \ {b}]
    BY <1>2, DeallocateEffect
  <2>2. b \in Block /\ GroupOf(b) \in Group /\ BitOf(b) \in Bit
    BY BlockParts DEF TypeOK
  <2>3. ASSUME NEW c \in Block, c # b
        PROVE  BitOf(c) \in bitmap'[GroupOf(c)] <=> BitOf(c) \in bitmap[GroupOf(c)]
    <3>1. GroupOf(c) # GroupOf(b) \/ BitOf(c) # BitOf(b)
      BY <2>2, <2>3, BlockParts
    <3>2. GroupOf(c) \in Group
      BY BlockParts
    <3>3. CASE GroupOf(c) # GroupOf(b)
      BY <2>1, <2>2, <3>2, <3>3 DEF TypeOK
    <3>4. CASE GroupOf(c) = GroupOf(b)
      BY <2>1, <2>2, <3>1, <3>2, <3>4 DEF TypeOK
    <3> QED
      BY <3>3, <3>4
  <2>4. BitOf(b) \notin bitmap'[GroupOf(b)]
    BY <2>1, <2>2 DEF TypeOK
  <2>5. Unmarked' = Unmarked \cup {b}
    BY <2>2, <2>3, <2>4 DEF Unmarked
  <2> QED
    BY <2>1, <2>5 DEF Pool!Release
<1>3. ASSUME Crash PROVE Pool!Forget
  <2>1. bitmap' = bitmap /\ \A o \in Owner : own'[o] \subseteq own[o]
    BY <1>3, OtherEffect
  <2>2. own' \in [Owner -> SUBSET Block]
    BY TypeStep DEF TypeOK
  <2> QED
    BY <2>1, <2>2 DEF Pool!Forget, Unmarked
<1>4. ASSUME Register \/ BeginFlush \/ FlushBg \/ FlushSb \/ UNCHANGED vars
      PROVE  UNCHANGED Pool!poolVars
  BY <1>4 DEF Register, BeginFlush, FlushBg, FlushSb, vars, disk, memory,
              Pool!poolVars, Unmarked
<1> QED
  BY <1>1, <1>2, <1>3, <1>4 DEF Next, Pool!PoolNext

(* Unless the drive fails, the allocator with its bitmaps, cached counts,  *)
(* flushes and crashes is a pool that never grants a block it has not.     *)
THEOREM PoolImplemented == ASSUME NoFailure PROVE Spec => PoolRefined
<1>1. Init => Pool!PoolInit
  BY DEF Init, Pool!PoolInit, Unmarked
<1>2. HeldInv /\ [Next]_vars => HeldInv'
  BY HeldStep
<1>3. HeldInv /\ [Next]_vars => [Pool!PoolNext]_Pool!poolVars
  BY PoolStep
<1> QED
  BY HeldInit, <1>1, <1>2, <1>3, PTL DEF Spec, PoolRefined, Pool!PoolSpec

-----------------------------------------------------------------------------
(* The superblock copies.                                                  *)

(* A flush overwrites every copy before it writes any, when there is more  *)
(* than one: copies that all have their magic number are the same, and a   *)
(* registration, which checks all of them, caches what is in each.         *)
Overwritten(g) == GroupCount = 1 \/ super[g] = Clobbered

SyncInv ==
    /\ TypeOK
    /\ (\A g \in Group : super[g] # Clobbered) => \A g \in Group : super[g] = super[0]
    /\ mode = "flush_bg" => \A g \in Group : g < cursor => Overwritten(g)
    /\ mode = "flush_sb" => \A g \in Group :
            IF g < cursor THEN super[g] = sbFree ELSE Overwritten(g)
    /\ SyncedSuperblock

(* With 1024-byte blocks the descriptors land on the superblock.           *)
LEMMA FlushHitsSuperblock ==
    ASSUME NEW g \in Group, GroupCount # 1
    PROVE  SuperLba(g) \in FlushedSectors(g)
<1>1. BlockSize = 1024
  BY GeometryAssumption
<1>2. g * SectorsPerGroup \in Nat
  <2>1. BlocksPerGroup \in Nat /\ SectorsPerBlock \in Nat /\ g \in Nat
    BY <1>1, GeometryAssumption DEF SectorsPerBlock, Group
  <2>2. BlocksPerGroup * SectorsPerBlock \in Nat
    BY <2>1
  <2> QED
    BY <2>1, <2>2 DEF SectorsPerGroup
<1>3. BgdtSectors \in Nat /\ BgdtSectors >= 1
  <2> DEFINE a == GroupCount + DescriptorsPerSector - 1
             d == DescriptorsPerSector
  <2>1. a \in Nat /\ d \in Nat \ {0} /\ a >= d
    BY GeometryAssumption, TableAssumption
  <2> HIDE DEF a, d
  <2>2. a \div d \in Nat /\ a % d \in 0 .. d - 1 /\ a = d * (a \div d) + (a % d)
    BY <2>1
  <2>3. a \div d # 0
    <3> SUFFICES ASSUME a \div d = 0 PROVE FALSE
      OBVIOUS
    <3>1. d * (a \div d) = 0
      BY <2>1
    <3> QED
      BY <2>1, <2>2, <3>1
  <2> QED
    BY <2>2, <2>3 DEF BgdtSectors, a, d
<1> QED
  BY <1>1, <1>2, <1>3 DEF SuperLba, FlushedSectors, SB_OFFSET_LBA, bgdt_block

LEMMA SyncInit == Init => SyncInv
<1> SUFFICES ASSUME Init PROVE SyncInv
  OBVIOUS
<1>1. \A g \in Group : super[g] = super[0]
  BY GeometryAssumption DEF Init, Group
<1> QED
  BY <1>1, TypeInit DEF Init, SyncInv, SyncedSuperblock

LEMMA SyncStep == ASSUME ~WriteMayFail PROVE SyncInv /\ [Next]_vars => SyncInv'
<1> SUFFICES ASSUME SyncInv, [Next]_vars PROVE SyncInv'
  OBVIOUS
<1>0. /\ TypeOK /\ TypeOK' /\ 0 \in Group /\ Group \subseteq Nat /\ GroupCount \in Nat
      /\ cursor \in Group
  <2>1. TypeOK /\ TypeOK' /\ cursor \in Group
    BY TypeStep DEF SyncInv, TypeOK
  <2>2. 0 \in Group /\ Group \subseteq Nat /\ GroupCount \in Nat
    BY GeometryAssumption DEF Group
  <2> QED
    BY <2>1, <2>2
<1>1. CASE Register
  BY <1>0, <1>1 DEF Register, disk, SyncInv, SyncedSuperblock
<1>2. ASSUME NEW o \in Owner, Allocate(o) \/ \E b \in own[o] : Deallocate(o, b)
      PROVE  SyncInv'
  <2>1. mode = "idle" /\ mode' = "idle" /\ super' = super /\ flushRequired' = TRUE
    BY <1>2 DEF Allocate, Deallocate
  <2> QED
    BY <1>0, <2>1 DEF SyncInv, SyncedSuperblock
<1>3. CASE BeginFlush
  BY <1>0, <1>3 DEF BeginFlush, disk, memory, SyncInv, SyncedSuperblock
<1>4. CASE FlushBg
  <2>1. /\ super' = [g \in Group |-> IF SuperLba(g) \in FlushedSectors(cursor)
                                     THEN Clobbered ELSE super[g]]
        /\ cursor' = IF More(TRUE) THEN cursor + 1 ELSE 0
        /\ mode' = IF More(TRUE) THEN "flush_bg" ELSE "flush_sb"
        /\ mode = "flush_bg"
    BY <1>4 DEF FlushBg, Flushed
  <2>2. \A g \in Group : super'[g] = Clobbered \/ super'[g] = super[g]
    BY <2>1
  <2>3. GroupCount = 1 \/ super'[cursor] = Clobbered
    BY <1>0, <2>1, FlushHitsSuperblock DEF Overwritten
  <2>4. \A g \in Group : g <= cursor => Overwritten(g)'
    BY <1>0, <2>1, <2>2, <2>3 DEF SyncInv, Overwritten
  <2>5. (\A g \in Group : super'[g] # Clobbered) => \A g \in Group : super'[g] = super'[0]
    BY <1>0, <2>2 DEF SyncInv
  <2>6. CASE More(TRUE)
    BY <1>0, <2>1, <2>4, <2>5, <2>6 DEF SyncInv, SyncedSuperblock
  <2>7. CASE ~More(TRUE)
    <3>1. \A g \in Group : g <= cursor /\ ~(g < 0)
      BY <1>0, <2>7 DEF More, Group
    <3> QED
      BY <1>0, <2>1, <2>4, <2>5, <2>7, <3>1 DEF SyncInv, SyncedSuperblock
  <2> QED
    BY <2>6, <2>7
<1>5. CASE FlushSb
  <2>1. /\ super' = [super EXCEPT ![cursor] = sbFree] /\ sbFree' = sbFree
        /\ cursor' = IF More(TRUE) THEN cursor + 1 ELSE 0
        /\ mode' = IF More(TRUE) THEN "flush_sb" ELSE "idle"
        /\ mode = "flush_sb"
    BY <1>5 DEF FlushSb, Flushed
  <2>2. \A g \in Group : /\ g <= cursor => super'[g] = sbFree
                         /\ g > cursor => super'[g] = super[g] /\ Overwritten(g)
    BY <1>0, <2>1 DEF SyncInv, TypeOK
  <2>3. CASE More(TRUE)
    <3>1. cursor + 1 \in Group /\ GroupCount # 1 /\ super'[cursor + 1] = Clobbered
      BY <1>0, <2>2, <2>3 DEF More, Group, Overwritten
    <3> QED
      BY <1>0, <2>1, <2>2, <2>3, <3>1 DEF SyncInv, SyncedSuperblock, Overwritten
  <2>4. CASE ~More(TRUE)
    <3>1. \A g \in Group : g <= cursor
      BY <1>0, <2>4 DEF More, Group
    <3> QED
      BY <1>0, <2>1, <2>2, <2>4, <3>1 DEF SyncInv, SyncedSuperblock
  <2> QED
    BY <2>3, <2>4
<1>6. CASE Crash
  BY <1>0, <1>6 DEF Crash, disk, SyncInv, SyncedSuperblock
<1>7. CASE UNCHANGED vars
  BY <1>0, <1>7 DEF vars, disk, memory, SyncInv, SyncedSuperblock, Overwritten
<1> QED
  BY <1>1, <1>2, <1>3, <1>4, <1>5, <1>6, <1>7 DEF Next

(* Unless the drive refuses a write, between calls, when no flush is       *)
(* required, every superblock copy has the cached count, in every session. *)
THEOREM Synced == ASSUME ~WriteMayFail PROVE Spec => []SyncedSuperblock
<1>1. SyncInv /\ [Next]_vars => SyncInv'
  BY SyncStep
<1>2. SyncInv => SyncedSuperblock
  BY DEF SyncInv
<1> QED
  BY SyncInit, <1>1, <1>2, PTL DEF Spec
=============================================================================
