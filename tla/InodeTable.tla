----------------------------- MODULE InodeTable -----------------------------
(***************************************************************************)
(* The inode allocator of one registered ext2 partition: the inode bitmaps *)
(* and the inode table on the disk, and the counts of free inodes and of   *)
(* directories that struct ext2_partition caches.  Creating a file         *)
(* allocates a number, initialises the inode and writes it; deleting one   *)
(* clears the inode, then the bitmap.                                      *)
(*                                                                         *)
(* A bitmap is one block, and mkfs sets the bits of the block that stand   *)
(* for no inode.  The drive does not fail here and the process does not    *)
(* end: Volume has both for the block bitmaps, written in the same way.    *)
(***************************************************************************)
EXTENDS Integers, FiniteSets

CONSTANTS
    GroupCount,       \* partition->group_number
    InodesPerGroup,   \* s_inodes_per_group
    BitsPerByte,      \* 8 in the code
    BlockBytes,       \* the bytes of a bitmap block
    ReservedInodes,   \* inodes that mkfs allocates: the root and others
    File,             \* the names callers create files under
    M16, M32          \* 2^16 and 2^32: the moduli of the counts

Group == 0 .. GroupCount - 1
Bit   == 0 .. BlockBytes * BitsPerByte - 1

ASSUME InodeAssumption ==
    /\ GroupCount \in Nat \ {0}
    /\ InodesPerGroup \in Nat \ {0}
    /\ BitsPerByte \in Nat \ {0}
    /\ BlockBytes \in Nat \ {0}
    /\ InodesPerGroup <= BlockBytes * BitsPerByte
    /\ ReservedInodes \in 2 .. InodesPerGroup
    /\ IsFiniteSet(File)
    /\ M16 \in Nat /\ InodesPerGroup < M16
    /\ M32 \in Nat /\ GroupCount * InodesPerGroup < M32

-----------------------------------------------------------------------------
EXT2_ROOT_INO_INDEX == 2

(* The number of a bit, which leaves the group out, and the place of an    *)
(* inode as ext2_read_inode and its like compute it.                       *)
NumberOf(k) == k + 1
GroupOf(n) == (n - 1) \div InodesPerGroup
IndexOf(n) == (n - 1) % InodesPerGroup

(* Numbers past s_inodes_count can be granted once a bit of the padding is *)
(* cleared.  Their descriptors are in the sector that was read, all zero,  *)
(* and their inodes in blocks that belong to something else: here each has *)
(* a descriptor and a place of its own.                                    *)
Number == {NumberOf(k) : k \in Bit}
Descriptor == Group \cup {GroupOf(n) : n \in Number}
InodesCount == GroupCount * InodesPerGroup

(* ext2_delete_inode zeroes a whole byte, the one whose index is the index *)
(* of the inode; past the buffer it zeroes memory that is not written.     *)
ClearedBits_ByteOf(i) ==        \* seeded defect: the byte of the inode's bit
    {k \in Bit : k \div BitsPerByte = i \div BitsPerByte}
ClearedBits(i) ==
    {k \in Bit : BitsPerByte * i <= k /\ k < BitsPerByte * i + BitsPerByte}

Type == {"regular", "directory", "socket"}
HasDirBit(t) == t \in {"directory", "socket"}    \* i_mode & INODE_TYPE_DIR

Inc(n, modulus) == IF n = modulus - 1 THEN 0 ELSE n + 1
Dec_Lost(n, modulus) == n    \* seeded defect: the grant is not counted
Dec_Signed(n, modulus) == n - 1    \* seeded defect: a count goes below zero
Dec(n, modulus) == IF n = 0 THEN modulus - 1 ELSE n - 1

-----------------------------------------------------------------------------
VARIABLES
    imap,          \* imap[g]: the bits set in the inode bitmap of group g
    inode,         \* inode[n]: the type in the i_mode of inode n, or "none"
    gdFreeInodes,  \* gd[g].bg_free_inodes_count
    usedDirs,      \* gd[g].bg_used_dirs_count
    sbFreeInodes,  \* sb->s_free_inodes_count
    ino,           \* ino[f]: the number in the directory entry of f, 0 if none
    kind,          \* kind[f]: the type f was created with
    deleted        \* has any file been deleted?

counts == <<gdFreeInodes, usedDirs, sbFreeInodes>>
vars == <<imap, inode, counts, ino, kind, deleted>>

Live == {f \in File : ino[f] # 0}

Reserved == 1 .. ReservedInodes
MkfsSet(g) == (IF g = 0 THEN 0 .. ReservedInodes - 1 ELSE {})
                \cup {k \in Bit : k >= InodesPerGroup}

Init ==
    /\ imap = [g \in Group |-> MkfsSet(g)]
    /\ inode = [n \in Number |-> IF n = EXT2_ROOT_INO_INDEX THEN "directory" ELSE "none"]
    /\ gdFreeInodes = [g \in Descriptor |->
            IF g \notin Group THEN 0
            ELSE IF g = 0 THEN InodesPerGroup - ReservedInodes ELSE InodesPerGroup]
    /\ usedDirs = [g \in Descriptor |-> IF g = 0 THEN 1 ELSE 0]
    /\ sbFreeInodes = InodesCount - ReservedInodes
    /\ ino = [f \in File |-> 0]
    /\ kind = [f \in File |-> "none"]
    /\ deleted = FALSE

IsFirst(x, S) == x \in S /\ \A y \in S : x <= y

(* Only the first group with a count that is not 0 is looked at: when its  *)
(* bitmap is full the creation fails and changes nothing.                  *)
Marked_Not(g, k) == imap    \* seeded defect: the bitmap is not written
Marked(g, k) == [imap EXCEPT ![g] = @ \cup {k}]

Create(f, t) ==
    /\ f \notin Live
    /\ \E g \in Group, k \in Bit :
        /\ IsFirst(g, {h \in Group : gdFreeInodes[h] # 0})
        /\ IsFirst(k, Bit \ imap[g])
        /\ imap' = Marked(g, k)
        /\ inode' = [inode EXCEPT ![NumberOf(k)] = t]
        /\ gdFreeInodes' = [gdFreeInodes EXCEPT ![g] = Dec(@, M16)]
        /\ ino' = [ino EXCEPT ![f] = NumberOf(k)]
    /\ sbFreeInodes' = Dec(sbFreeInodes, M32)
    /\ kind' = [kind EXCEPT ![f] = t]
    /\ UNCHANGED <<usedDirs, deleted>>

Delete(f) ==
    /\ f \in Live
    /\ LET n == ino[f]
           g == GroupOf(n) IN
        /\ inode' = [inode EXCEPT ![n] = "none"]
        /\ imap' = [h \in Group |->
                IF h = g THEN imap[h] \ ClearedBits(IndexOf(n)) ELSE imap[h]]
        /\ gdFreeInodes' = [gdFreeInodes EXCEPT ![g] = Inc(@, M16)]
        /\ usedDirs' = [usedDirs EXCEPT ![g] =
                IF HasDirBit(inode[n]) THEN Dec(@, M16) ELSE @]
    /\ sbFreeInodes' = Inc(sbFreeInodes, M32)
    /\ ino' = [ino EXCEPT ![f] = 0]
    /\ kind' = [kind EXCEPT ![f] = "none"]
    /\ deleted' = TRUE

Next == \E f \in File : Delete(f) \/ \E t \in Type : Create(f, t)

Spec == Init /\ [][Next]_vars

-----------------------------------------------------------------------------
TypeOK ==
    /\ imap \in [Group -> SUBSET Bit]
    /\ inode \in [Number -> Type \cup {"none"}]
    /\ gdFreeInodes \in [Descriptor -> 0 .. M16 - 1]
    /\ usedDirs \in [Descriptor -> 0 .. M16 - 1]
    /\ sbFreeInodes \in 0 .. M32 - 1
    /\ ino \in [File -> Number \cup {0}]
    /\ kind \in [File -> Type \cup {"none"}]
    /\ deleted \in BOOLEAN

(* No file is created over an inode that mkfs allocated, the root's above  *)
(* all, whatever the deletions before it cleared.                          *)
ReservedNeverGranted == \A f \in File : ino[f] \notin Reserved

(* Two files never share an inode.                                         *)
InodesDistinct == \A f1, f2 \in Live : f1 # f2 => ino[f1] # ino[f2]

(* As long as nothing has been deleted, files do not share inodes, and the *)
(* inode of every file has the type the file was created with.             *)
IntactUntilDelete ==
    ~deleted => InodesDistinct /\ \A f \in Live : inode[ino[f]] = kind[f]

(* The cached count of free inodes and the files there are make up what    *)
(* mkfs left free, so that no sequence of calls makes the count wrap, even *)
(* after the bitmap has come apart from it.                                *)
CountsBalance == sbFreeInodes + Cardinality(Live) = InodesCount - ReservedInodes

(* A creation fails only when the counts say there is no inode left.       *)
CreateSucceeds ==
    \A g \in Group : IsFirst(g, {h \in Group : gdFreeInodes[h] # 0}) => imap[g] # Bit

(* A granted number is one of the inodes of the volume.                    *)
GrantedInTable == \A f \in File : ino[f] <= InodesCount

(* Until a deletion both hold: the counts lead every creation to a clear   *)
(* bit, and the bit to an inode of the volume.                             *)
GrantsUntilDelete == ~deleted => CreateSucceeds /\ GrantedInTable

(* No more directories are counted than there are, the root included.      *)
DirsCounted ==
    usedDirs[0] <= 1 + Cardinality({f \in Live : kind[f] = "directory"})
=============================================================================
