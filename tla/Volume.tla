------------------------------- MODULE Volume -------------------------------
(***************************************************************************)
(* The block allocator of one registered ext2 partition and the metadata   *)
(* it keeps: the block bitmaps, written through to the disk by every call; *)
(* the free counts of the group descriptors and of the superblock, cached  *)
(* in struct ext2_partition and written back by ext2_flush_partition one   *)
(* disk write at a time; and registration, which reads both back.          *)
(*                                                                         *)
(* The process may stop between any two disk writes (Crash), after which   *)
(* the cached counts are gone and the partition may be registered again.   *)
(* Sectors are 512 bytes.  Volumes are the ones mkfs makes for the driver: *)
(* 1024-byte blocks in any number of groups, or larger blocks in one.      *)
(***************************************************************************)
EXTENDS Integers, FiniteSets

CONSTANTS
    GroupCount,         \* partition->group_number
    BlocksPerGroup,     \* s_blocks_per_group
    BlockSize,          \* 1024 << s_log_block_size
    DescriptorsPerSector, \* descriptors in a sector: 512 \div 32 on a real disk
    MkfsUsed,           \* MkfsUsed[g]: the bits of group g that mkfs sets
    Owner,              \* the files and directories that hold blocks
    Clobbered,          \* a superblock copy without its magic number
    M16, M32,           \* 2^16 and 2^32: the moduli of the two free counts
    EXT2_WRITE_FAILED,  \* 0xFFFFFFFD: a positive int64_t
    WriteMayFail,       \* may write_disk return OP_FAILURE?
    ReadMayFail,        \* may read_disk return OP_FAILURE?
    MaxSessions         \* bound: registrations of the volume

Group == 0 .. GroupCount - 1
Bit   == 0 .. BlocksPerGroup - 1

ASSUME GeometryAssumption ==
    /\ GroupCount \in Nat \ {0}
    /\ BlocksPerGroup \in Nat \ {0}
    /\ BlockSize \in {1024, 4096}
    /\ BlockSize = 4096 => GroupCount = 1
    /\ MkfsUsed \in [Group -> SUBSET Bit]
    /\ \A g \in Group : MkfsUsed[g] # {}    \* its own bitmaps, at least

(* A block bitmap fills at most one block, so a count of twice the blocks  *)
(* of a group fits 16 bits; the magic number of a copy is never a count.   *)
ASSUME CounterAssumption ==
    /\ M16 \in Nat /\ 2 * BlocksPerGroup <= M16
    /\ M32 \in Nat /\ GroupCount * BlocksPerGroup < M32
    /\ Clobbered \notin 0 .. M32 - 1

ASSUME FailureAssumption ==
    /\ EXT2_WRITE_FAILED \in Nat /\ EXT2_WRITE_FAILED > 1
    /\ WriteMayFail \in BOOLEAN
    /\ ReadMayFail \in BOOLEAN
    /\ MaxSessions \in Nat

(* DIVIDE_ROUNDED_UP of the descriptor table's size; the table a flush     *)
(* writes is at most two sectors, so that it ends before sector 4.         *)
BgdtSectors == (GroupCount + DescriptorsPerSector - 1) \div DescriptorsPerSector

ASSUME TableAssumption ==
    /\ DescriptorsPerSector \in Nat \ {0}
    /\ BgdtSectors <= 2

-----------------------------------------------------------------------------
(* Where things are.  Sector numbers are relative to the partition's lba.  *)

SB_OFFSET_LBA == 2
SectorsPerBlock == BlockSize \div 512
SectorsPerGroup == BlocksPerGroup * SectorsPerBlock
bgdt_block == IF BlockSize = 1024 THEN 2 ELSE 1

SuperLba(g) == g * SectorsPerGroup + SB_OFFSET_LBA      \* read and written
TableLba == SectorsPerBlock * bgdt_block                \* where it is read
FlushedSectors(g) ==                                    \* where it is written
    (g * SectorsPerGroup + bgdt_block) ..
        (g * SectorsPerGroup + bgdt_block + BgdtSectors - 1)

(* Defects seeded to see that a property notices: the group is dropped, or *)
(* the number is one too high.                                             *)
BlockOf_NoGroup(g, k) == k + 1
BlockOf_OffByOne(g, k) == k + 2 + g * BlocksPerGroup

(* The number a granted bit goes by, and back.                             *)
BlockOf(g, k) == k + 1 + g * BlocksPerGroup
GroupOf(b) == (b - 1) \div BlocksPerGroup
BitOf(b) == (b - 1) % BlocksPerGroup

Block == {BlockOf(g, k) : g \in Group, k \in Bit}

(* s_blocks_count of a volume whose groups are all full: mkfs numbers its  *)
(* blocks from 1 when they have 1024 bytes, else from 0.                   *)
FirstDataBlock == IF BlockSize = 1024 THEN 1 ELSE 0
BlocksCount == FirstDataBlock + GroupCount * BlocksPerGroup

(* The clear bits of all bitmaps, each with its group.                     *)
FreeBits(bm) == {p \in Group \X Bit : p[2] \notin bm[p[1]]}

(* The counts are unsigned integers of 16 and 32 bits.                     *)
Inc_Lost(n, modulus) == n    \* seeded defect: the release is not counted
Dec_Lost(n, modulus) == n    \* seeded defect: the grant is not counted
Inc(n, modulus) == IF n = modulus - 1 THEN 0 ELSE n + 1
Dec(n, modulus) == IF n = 0 THEN modulus - 1 ELSE n - 1

-----------------------------------------------------------------------------
VARIABLES
    \* the disk
    bitmap,         \* bitmap[g]: the bits set in the block bitmap of group g
    super,          \* super[g]: s_free_blocks_count in group g's superblock
    bgdt,           \* bgdt[g]: bg_free_blocks_count in the table on the disk
    \* the registered struct ext2_partition
    gdFree,         \* gd[g].bg_free_blocks_count
    sbFree,         \* sb->s_free_blocks_count
    flushRequired,  \* flush_required
    \* control
    mode,           \* not registered, between calls, or inside a flush
    cursor,         \* the group whose metadata the flush writes next
    \* observation
    own,            \* own[o]: the blocks o was granted and did not release
    session         \* the number of registrations so far

disk == <<bitmap, super, bgdt>>
memory == <<gdFree, sbFree, flushRequired>>
vars == <<disk, memory, mode, cursor, own, session>>

Init ==
    /\ bitmap = MkfsUsed
    /\ bgdt = [g \in Group |-> Cardinality(Bit \ MkfsUsed[g])]
    /\ super = [g \in Group |-> Cardinality(FreeBits(MkfsUsed))]
    /\ gdFree = [g \in Group |-> 0]
    /\ sbFree = 0
    /\ flushRequired = FALSE
    /\ mode = "down"
    /\ cursor = 0
    /\ own = [o \in Owner |-> {}]
    /\ session = 0

(* Registration checks the magic number of every superblock copy, then     *)
(* caches the first copy and the descriptor table.  A volume it refuses    *)
(* stays as it is.                                                         *)
Register ==
    /\ mode = "down"
    /\ session < MaxSessions
    /\ \A g \in Group : super[g] # Clobbered
    /\ gdFree' = bgdt
    /\ sbFree' = super[0]
    /\ flushRequired' = FALSE
    /\ mode' = "idle"
    /\ session' = session + 1
    /\ UNCHANGED <<disk, cursor, own>>

-----------------------------------------------------------------------------
(* ext2_read_block and ext2_write_block as their callers see them.  A read *)
(* that fails is not noticed (its result is not 0): the bitmap buffer then *)
(* holds whatever malloc left in it.  Callers take a write for failed when *)
(* its result is <= 0.                                                     *)

BufferRead(g) == {bitmap[g]} \cup IF ReadMayFail THEN SUBSET Bit ELSE {}
Buffers == {buf \in [Group -> SUBSET Bit] : \A g \in Group : buf[g] \in BufferRead(g)}

WriteResult == {1} \cup IF WriteMayFail THEN {EXT2_WRITE_FAILED} ELSE {}
Accepted(result) == result > 0

(* Seeded defect: the bitmap is changed in memory only.                    *)
BitmapWritten_Not(g, buf, result) == bitmap

BitmapWritten(g, buf, result) ==
    [bitmap EXCEPT ![g] = IF result = 1 THEN buf ELSE @]

(* The groups whose descriptor and bitmap both say there is a free block.  *)
Candidates(buf) == {g \in Group : gdFree[g] # 0 /\ Bit \ buf[g] # {}}
IsFirst(x, S) == x \in S /\ \A y \in S : x <= y

(* ext2_allocate_block takes the first free bit of the first candidate; it *)
(* returns 0 and changes nothing when there is none.                       *)
Allocate(o) ==
    /\ mode = "idle"
    /\ \E buf \in Buffers, result \in WriteResult, g \in Group, k \in Bit :
        /\ IsFirst(g, Candidates(buf))
        /\ IsFirst(k, Bit \ buf[g])
        /\ Accepted(result)
        /\ bitmap' = BitmapWritten(g, buf[g] \cup {k}, result)
        /\ gdFree' = [gdFree EXCEPT ![g] = Dec(@, M16)]
        /\ sbFree' = Dec(sbFree, M32)
        /\ own' = [own EXCEPT ![o] = @ \cup {BlockOf(g, k)}]
    /\ flushRequired' = TRUE
    /\ UNCHANGED <<super, bgdt, mode, cursor, session>>

(* ext2_deallocate_block; it returns 0 and changes nothing when the bit is *)
(* clear already.                                                          *)
Deallocate(o, b) ==
    /\ mode = "idle"
    /\ b \in own[o]
    /\ LET g == GroupOf(b) IN
       \E buf \in BufferRead(g), result \in WriteResult :
        /\ BitOf(b) \in buf
        /\ Accepted(result)
        /\ bitmap' = BitmapWritten(g, buf \ {BitOf(b)}, result)
        /\ gdFree' = [gdFree EXCEPT ![g] = Inc(@, M16)]
    /\ sbFree' = Inc(sbFree, M32)
    /\ own' = [own EXCEPT ![o] = @ \ {b}]
    /\ flushRequired' = TRUE
    /\ UNCHANGED <<super, bgdt, mode, cursor, session>>

-----------------------------------------------------------------------------
(* ext2_flush_partition: ext2_flush_bg for every group, ext2_flush_sb for  *)
(* every group, then flush_required is cleared.                            *)

BeginFlush ==
    /\ mode = "idle"
    /\ mode' = "flush_bg"
    /\ cursor' = 0
    /\ UNCHANGED <<disk, memory, own, session>>

(* ext2_operate_on_bg goes on to the next group until a callback reports   *)
(* an error.                                                               *)
More_TooFar(written) == written /\ cursor < GroupCount       \* seeded defect
More_TooShort(written) == written /\ cursor + 2 < GroupCount \* seeded defect
More(written) == written /\ cursor + 1 < GroupCount
Flushed == {TRUE} \cup IF WriteMayFail THEN {FALSE} ELSE {}

FlushBg ==
    /\ mode = "flush_bg"
    /\ \E written \in Flushed :
        /\ super' = [g \in Group |->
               IF written /\ SuperLba(g) \in FlushedSectors(cursor)
               THEN Clobbered ELSE super[g]]
        /\ bgdt' = IF written /\ cursor = 0 /\ TableLba \in FlushedSectors(cursor)
                   THEN gdFree ELSE bgdt
        /\ cursor' = IF More(written) THEN cursor + 1 ELSE 0
        /\ mode' = IF More(written) THEN "flush_bg" ELSE "flush_sb"
    /\ UNCHANGED <<bitmap, memory, own, session>>

FlushSb ==
    /\ mode = "flush_sb"
    /\ \E written \in Flushed :
        /\ super' = [super EXCEPT ![cursor] = IF written THEN sbFree ELSE @]
        /\ cursor' = IF More(written) THEN cursor + 1 ELSE 0
        /\ mode' = IF More(written) THEN "flush_sb" ELSE "idle"
        /\ flushRequired' = IF More(written) THEN flushRequired ELSE FALSE
    /\ UNCHANGED <<bitmap, bgdt, gdFree, sbFree, own, session>>

(* The process ends, at a fault or because main returns.  A block may have *)
(* been granted to a caller that has not written its number to the disk    *)
(* yet: the owner forgets it.                                              *)
Crash ==
    /\ mode # "down"
    /\ mode' = "down"
    /\ cursor' = 0
    /\ gdFree' = [g \in Group |-> 0]
    /\ sbFree' = 0
    /\ flushRequired' = FALSE
    /\ \E kept \in SUBSET Block : own' = [o \in Owner |-> own[o] \cap kept]
    /\ UNCHANGED <<disk, session>>

Next ==
    \/ Register
    \/ \E o \in Owner : Allocate(o)
    \/ \E o \in Owner : \E b \in own[o] : Deallocate(o, b)
    \/ BeginFlush
    \/ FlushBg
    \/ FlushSb
    \/ Crash

Spec == Init /\ [][Next]_vars

-----------------------------------------------------------------------------
TypeOK ==
    /\ bitmap \in [Group -> SUBSET Bit]
    /\ super \in [Group -> (0 .. M32 - 1) \cup {Clobbered}]
    /\ bgdt \in [Group -> 0 .. M16 - 1]
    /\ gdFree \in [Group -> 0 .. M16 - 1]
    /\ sbFree \in 0 .. M32 - 1
    /\ flushRequired \in BOOLEAN
    /\ mode \in {"down", "idle", "flush_bg", "flush_sb"}
    /\ cursor \in Group
    /\ own \in [Owner -> SUBSET Block]
    /\ session \in 0 .. MaxSessions

(* A block somebody holds is marked in its group's bitmap on the disk,     *)
(* whatever was granted and released before, and across crashes: the call  *)
(* that grants it writes the bitmap before it returns.                     *)
HeldAreMarked ==
    \A o \in Owner : \A b \in own[o] : BitOf(b) \in bitmap[GroupOf(b)]

(* No block is held by two files, in one session or in two.                *)
OwnersDisjoint ==
    \A o1, o2 \in Owner : o1 # o2 => own[o1] \cap own[o2] = {}

(* A granted block is a block of the volume: its number is neither the     *)
(* boot block's nor past s_blocks_count.                                   *)
GrantedOnVolume ==
    \A o \in Owner : \A b \in own[o] : 0 < b /\ b < BlocksCount

(* Until the process first ends, the cached counts say exactly how many    *)
(* bits of the bitmaps on the disk are clear, in each group and in all.    *)
CountsExact ==
    (mode # "down" /\ session = 1) =>
        /\ \A g \in Group : gdFree[g] = Cardinality(Bit \ bitmap[g])
        /\ sbFree = Cardinality(FreeBits(bitmap))

(* An allocation fails only when the volume is full: whatever crashes did  *)
(* to the counts, a group with a clear bit is never skipped as full.       *)
NoFreeBlockUnreachable ==
    mode = "idle" =>
        \A g \in Group : bitmap[g] # Bit => gdFree[g] # 0

(* Between calls, when no flush is required, every superblock copy on the  *)
(* disk has the cached count.                                              *)
SyncedSuperblock ==
    (mode = "idle" /\ ~flushRequired) => \A g \in Group : super[g] = sbFree

(* Between calls, when no flush is required, the descriptor table that the *)
(* next registration reads has the cached counts.                          *)
DescriptorsFlushed ==
    (mode = "idle" /\ ~flushRequired) => bgdt = gdFree

(* Whenever the process ends, the volume can be registered again.          *)
Mountable ==
    mode = "down" => \A g \in Group : super[g] # Clobbered

(* The cached count of free blocks is at most the blocks there are.        *)
FreeCountPossible ==
    sbFree <= GroupCount * BlocksPerGroup

-----------------------------------------------------------------------------
(* The allocator is a pool of blocks: a block is available when its bit is *)
(* clear on the disk.                                                      *)
Unmarked == {b \in Block : BitOf(b) \notin bitmap[GroupOf(b)]}
Pool == INSTANCE BlockPool WITH avail <- Unmarked
PoolRefined == Pool!PoolSpec
=============================================================================
