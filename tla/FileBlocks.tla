----------------------------- MODULE FileBlocks -----------------------------
(***************************************************************************)
(* The block maps of files: the direct, indirect and double indirect       *)
(* pointers of an inode as ext2_resize_file extends them, as               *)
(* ext2_load_block_list reads them back, and as deletion and shrinking     *)
(* give blocks back.  Blocks come from an allocator that grants the first  *)
(* free one (module Volume); an inode is read from the disk by every call  *)
(* and written back only when the call succeeds.                           *)
(*                                                                         *)
(* A pointer block is written from a buffer that malloc returned, with as  *)
(* many entries assigned as blocks were granted; a pointer block with      *)
(* number 0 is "read" without an error and leaves such a buffer as it is.  *)
(* What stands in entries not assigned is anything: Lists says what comes  *)
(* of it.                                                                  *)
(*                                                                         *)
(* Triple indirect blocks are left out: Sizes keeps files below them.      *)
(***************************************************************************)
EXTENDS Integers, FiniteSets, Sequences

CONSTANTS
    BlockSize,   \* bytes of a block
    Direct,      \* direct pointers of an inode: 12 in the code
    Entries,     \* pointers in a block: block_size / 4
    BlockNumber, \* blocks the allocator has
    File,        \* files and directories
    Sizes        \* bound: the sizes asked for, in bytes

Block == 1 .. BlockNumber

ASSUME MapAssumption ==
    /\ BlockSize \in Nat \ {0}
    /\ Direct \in Nat \ {0}
    /\ Entries \in Nat \ {0}
    /\ BlockNumber \in Nat
    /\ Sizes \subseteq 0 .. BlockSize * (Direct + Entries + Entries * Entries)

-----------------------------------------------------------------------------
(* DIVIDE_ROUNDED_UP by the block size.  The number of blocks a growth     *)
(* asks for depends on the difference of the sizes alone, so it may ask    *)
(* for one although the last block has room.                               *)
Blocks(bytes) == (bytes + BlockSize - 1) \div BlockSize
BlocksToAllocate_Floor(old, new) == (new - old) \div BlockSize  \* seeded defect
BlocksToAllocate(old, new) == Blocks(new - old)
BlocksToDeallocate(old, new) == (old - new) \div BlockSize

LeastOf(a, b) == IF a < b THEN a ELSE b

VARIABLES
    free,     \* the blocks whose bit is clear
    live,     \* the files that exist
    size,     \* i_size
    i_block,  \* i_block[f][s]: direct slots 0 .. Direct - 1, then the
              \* single and the double indirect one; 0 when unset
    ptr,      \* ptr[b]: the entries of b, for b written as a pointer block;
              \* 0 when the code has not assigned the entry
    spoiled   \* history: has an inode kept blocks that were released, or
              \* lost a pointer block that was replaced?

vars == <<free, live, size, i_block, ptr, spoiled>>

Slot == 0 .. Direct + 1
Single == Direct
Double == Direct + 1
Entry == 1 .. Entries
NoBlocks == [s \in Slot |-> 0]

Init ==
    /\ free = Block
    /\ live = {}
    /\ size = [f \in File |-> 0]
    /\ i_block = [f \in File |-> NoBlocks]
    /\ ptr = [b \in Block |-> [e \in Entry |-> 0]]
    /\ spoiled = FALSE

Create(f) ==
    /\ f \notin live
    /\ live' = live \cup {f}
    /\ size' = [size EXCEPT ![f] = 0]
    /\ i_block' = [i_block EXCEPT ![f] = NoBlocks]
    /\ UNCHANGED <<free, ptr, spoiled>>

-----------------------------------------------------------------------------
(* What ext2_allocate_blocks does with the k-th block it is granted, when  *)
(* it is asked for n: the empty direct slots first; then a new indirect    *)
(* block and its entries; then a new double indirect block and, under it,  *)
(* indirect blocks, each followed by its entries.                          *)

Kth(S, k) == CHOOSE x \in S : Cardinality({y \in S : y < x}) = k - 1
Nth_Next(k) == 1 + Kth(free, k)    \* seeded defect: the number is one too high
Nth(k) == Kth(free, k)

EmptySlots_All(f) == 0 .. Direct - 1    \* seeded defect: used slots too
EmptySlots(f) == {s \in 0 .. Direct - 1 : i_block[f][s] = 0}

InDirect(f, n) == LeastOf(n, Cardinality(EmptySlots(f)))
InSingle(f, n) == LeastOf(n - InDirect(f, n), Entries)
InDouble(f, n) == n - InDirect(f, n) - InSingle(f, n)

SingleAt(f, n) == InDirect(f, n) + 1
DoubleAt(f, n) == SingleAt(f, n) + InSingle(f, n) + 1
Inner(f, n) == 1 .. (InDouble(f, n) + Entries - 1) \div Entries
InnerAt(f, n, q) == DoubleAt(f, n) + (q - 1) * (Entries + 1) + 1

Taken_Fewer(f, n) == LeastOf(InDirect(f, n), n - 1)    \* seeded defect
Taken(f, n) ==
    IF InDouble(f, n) > 0 THEN DoubleAt(f, n) + Cardinality(Inner(f, n)) + InDouble(f, n)
    ELSE IF InSingle(f, n) > 0 THEN SingleAt(f, n) + InSingle(f, n)
    ELSE InDirect(f, n)

(* Bound: a growth that would need a triple indirect block is not asked    *)
(* for.                                                                    *)
BelowTriple(f, n) == InDouble(f, n) <= Entries * Entries

NewMap(f, n) ==
    [s \in Slot |->
        IF s \in EmptySlots(f)
           THEN LET k == Cardinality({t \in EmptySlots(f) : t <= s}) IN
                IF k <= InDirect(f, n) THEN Nth(k) ELSE 0
        ELSE IF s = Single /\ InSingle(f, n) > 0 THEN Nth(SingleAt(f, n))
        ELSE IF s = Double /\ InDouble(f, n) > 0 THEN Nth(DoubleAt(f, n))
        ELSE i_block[f][s]]

(* A new pointer block has its first entries assigned.                     *)
Pointers(first, count) ==
    [e \in Entry |-> IF e <= count THEN Nth(first + e) ELSE 0]

NewPointers(f, n) ==
    [b \in Block |->
        IF InSingle(f, n) > 0 /\ b = Nth(SingleAt(f, n))
           THEN Pointers(SingleAt(f, n), InSingle(f, n))
        ELSE IF InDouble(f, n) > 0 /\ b = Nth(DoubleAt(f, n))
           THEN [e \in Entry |-> IF e \in Inner(f, n) THEN Nth(InnerAt(f, n, e)) ELSE 0]
        ELSE IF \E q \in Inner(f, n) : b = Nth(InnerAt(f, n, q))
           THEN LET q == CHOOSE q \in Inner(f, n) : b = Nth(InnerAt(f, n, q)) IN
                Pointers(InnerAt(f, n, q),
                         LeastOf(Entries, InDouble(f, n) - (q - 1) * Entries))
        ELSE ptr[b]]

(* A file that grows past its direct blocks once more gets a new indirect  *)
(* block in the place of the old one.                                      *)
Replaces(f, n) == InSingle(f, n) > 0 /\ i_block[f][Single] # 0

Grow(f, new) ==
    LET n == BlocksToAllocate(size[f], new) IN
    /\ f \in live
    /\ size[f] < new
    /\ BelowTriple(f, n)
    /\ Taken(f, n) <= Cardinality(free)
    /\ i_block' = [i_block EXCEPT ![f] = NewMap(f, n)]
    /\ ptr' = NewPointers(f, n)
    /\ free' = free \ {Nth(k) : k \in 1 .. Taken(f, n)}
    /\ size' = [size EXCEPT ![f] = new]
    /\ spoiled' = (spoiled \/ Replaces(f, n))
    /\ UNCHANGED live

(* When the blocks run out the call fails after taking all there were: it  *)
(* goes on from the indirect block to the next kinds, and the inode that   *)
(* holds the ones already taken is not written.                            *)
GrowFails(f, new) ==
    LET n == BlocksToAllocate(size[f], new) IN
    /\ f \in live
    /\ size[f] < new
    /\ BelowTriple(f, n)
    /\ Taken(f, n) > Cardinality(free)
    /\ free' = {}
    /\ UNCHANGED <<live, size, i_block, ptr, spoiled>>

-----------------------------------------------------------------------------
(* The block that holds the i-th block of a file, counted from 0.          *)
BlockAt(f, i) ==
    LET sub(b, e) == IF b = 0 THEN 0 ELSE ptr[b][e]
        j == i - Direct
        k == j - Entries
    IN  IF i < Direct THEN i_block[f][i]
        ELSE IF j < Entries THEN sub(i_block[f][Single], j + 1)
        ELSE sub(sub(i_block[f][Double], k \div Entries + 1), (k % Entries) + 1)

(* ext2_load_block_list: the direct slots that are set, as many as the     *)
(* size asks for; then, while there are too few, the assigned entries of   *)
(* the indirect block and of those under the double indirect one.  A list  *)
(* is in the order of the blocks in the file.                              *)
DirectIndices(f) ==
    LET used == {i \in 0 .. Direct - 1 : i_block[f][i] # 0}
    IN  {i \in used : Cardinality({j \in used : j < i}) < Blocks(size[f])}
ToZero(b) == {e \in Entry : b # 0 /\ \A d \in 1 .. e : ptr[b][d] # 0}
SingleIndices(f) == {Direct + e - 1 : e \in ToZero(i_block[f][Single])}
DoubleIndices(f) ==
    LET b == i_block[f][Double] IN
    UNION {{Direct + q * Entries + e - 1 : e \in ToZero(ptr[b][q])} : q \in ToZero(b)}

Indices(f) ==
    LET d == DirectIndices(f)
        s == IF Cardinality(d) < Blocks(size[f]) THEN d \cup SingleIndices(f) ELSE d
    IN  IF Cardinality(s) < Blocks(size[f]) THEN s \cup DoubleIndices(f) ELSE s
BlockList(f) ==
    [k \in 1 .. Cardinality(Indices(f)) |-> BlockAt(f, Kth(Indices(f), k))]

(* The lists a load can return, up to the m blocks that are worked on.  A  *)
(* load fails when it meets more blocks than the size asks for, because a  *)
(* growth got more or because entries not assigned are not zero.  When the *)
(* assigned ones are too few it goes on through pointer blocks with number *)
(* 0, so the rest of the list comes from memory nobody assigned; once      *)
(* spoiled, that may also be so of what its pointer blocks hold.  Of       *)
(* numbers outside the volume nothing is said.                             *)
Lists(f, m) ==
    LET n == Blocks(size[f])
        d == Cardinality(DirectIndices(f))
    IN  IF d < n /\ (spoiled \/ Cardinality(Indices(f)) < n)
           THEN {[k \in 1 .. m |-> IF k <= d THEN BlockList(f)[k] ELSE rest[k]] :
                    rest \in [d + 1 .. m -> Block]}
        ELSE {list \in {BlockList(f)} : Len(list) = n}

(* ext2_deallocate_blocks works on the first n blocks of a list, the last  *)
(* of them first, and stops at one whose bit is clear already.             *)
Stops(list, n) ==
    {i \in 1 .. n : list[i] \in free \/ \E j \in i + 1 .. n : list[j] = list[i]}
Released(list, n) ==
    {list[i] : i \in {i \in 1 .. n : \A j \in Stops(list, n) : j < i}}

(* ext2_delete_file.  When not all blocks can be released the file stays,  *)
(* with the ones released.                                                 *)
Delete(f) ==
    LET n == Blocks(size[f]) IN
    /\ f \in live
    /\ \E list \in Lists(f, n) :
        /\ free' = free \cup Released(list, n)
        /\ IF Stops(list, n) = {}
           THEN live' = live \ {f} /\ size' = [size EXCEPT ![f] = 0]
           ELSE UNCHANGED <<live, size>>
    /\ UNCHANGED <<i_block, ptr, spoiled>>

(* ext2_resize_file to a smaller size: the blocks stay in the inode.       *)
Shrink(f, new) ==
    LET n == BlocksToDeallocate(size[f], new) IN
    /\ f \in live
    /\ new < size[f]
    /\ \E list \in Lists(f, n) :
        /\ free' = free \cup Released(list, n)
        /\ size' = [size EXCEPT ![f] = IF Stops(list, n) = {} THEN new ELSE @]
    /\ spoiled' = TRUE
    /\ UNCHANGED <<live, i_block, ptr>>

Next ==
    \E f \in File :
        \/ Create(f)
        \/ Delete(f)
        \/ \E new \in Sizes :
            \/ Grow(f, new)
            \/ GrowFails(f, new)
            \/ Shrink(f, new)

Spec == Init /\ [][Next]_vars

-----------------------------------------------------------------------------
TypeOK ==
    /\ free \subseteq Block
    /\ live \subseteq File
    /\ size \in [File -> Sizes \cup {0}]
    /\ i_block \in [File -> [Slot -> Block \cup {0}]]
    /\ ptr \in [Block -> [Entry -> Block \cup {0}]]
    /\ spoiled \in BOOLEAN

Index(f) == 0 .. Blocks(size[f]) - 1

(* Every block an inode leads to by what the code assigned, pointer blocks *)
(* included.                                                               *)
Refs(f) ==
    LET below(bs) == bs \cup {ptr[b][e] : b \in bs \ {0}, e \in Entry}
    IN  ({i_block[f][s] : s \in 0 .. Direct - 1}
            \cup below({i_block[f][Single]})
            \cup below(below({i_block[f][Double]}))) \ {0}

(* As long as a file has no pointer block.                                 *)
IsDirect(f) == i_block[f][Single] = 0 /\ i_block[f][Double] = 0

(* Until a file is shrunk or grows past its direct blocks a second time,   *)
(* no two files have been given the same block and no file has one twice,  *)
(* whatever stands in the entries of pointer blocks that the code has not  *)
(* assigned: no load goes that far (ext2_allocate_blocks,                  *)
(* ext2_load_block_list, ext2_delete_file).                                *)
NoSharing ==
    ~spoiled =>
        /\ \A f, g \in live : f # g => Refs(f) \cap Refs(g) = {}
        /\ \A f \in live : \A i, j \in Index(f) :
            i # j /\ BlockAt(f, i) # 0 => BlockAt(f, i) # BlockAt(f, j)

(* Until then, a block that a file was given, as pointer block or for its  *)
(* content, is not one the allocator may grant: no deletion of any file    *)
(* releases it (ext2_deallocate_blocks).                                   *)
ReferencedAreMarked == ~spoiled => \A f \in live : Refs(f) \cap free = {}

(* Every byte below the size of a file has a block, in whatever steps it   *)
(* was grown and whichever of them failed (ext2_resize_file rounds the     *)
(* difference of the sizes): of a file without pointer blocks always, of   *)
(* every file until one is shrunk or grows past its direct blocks twice.   *)
Covered ==
    \A f \in live : IsDirect(f) \/ ~spoiled => \A i \in Index(f) : BlockAt(f, i) # 0

(* Until then, the block list of every file without pointer blocks loads   *)
(* and every block in it is one the deletion releases, whatever the other  *)
(* files are: ext2_delete_file never stops half way.                       *)
Deletable ==
    \A f \in live : IsDirect(f) /\ ~spoiled =>
        /\ Lists(f, Blocks(size[f])) = {BlockList(f)}
        /\ Stops(BlockList(f), Blocks(size[f])) = {}

(* The same of every file.                                                 *)
AllDeletable ==
    \A f \in live :
        /\ Lists(f, Blocks(size[f])) = {BlockList(f)}
        /\ Stops(BlockList(f), Blocks(size[f])) = {}

(* A file that grows keeps the blocks it has: what was written stays.      *)
GrowKeepsBlocks ==
    [][\A f \in live \cap live' : size[f] < size'[f] =>
        \A i \in Index(f) : BlockAt(f, i)' = BlockAt(f, i)]_vars

(* The same of the direct blocks, whatever the history of the file.        *)
GrowKeepsDirect ==
    [][\A f \in live \cap live' : size[f] < size'[f] =>
        \A i \in Index(f) \cap 0 .. Direct - 1 : BlockAt(f, i)' = BlockAt(f, i)]_vars

(* The blocks of a file that shrinks still lead to its first bytes.        *)
ShrinkKeepsHead ==
    [][\A f \in live \cap live' : size'[f] < size[f] =>
        \A i \in Index(f)' : BlockAt(f, i) \notin free']_vars

(* A file that is deleted gives every block it led to back.                *)
DeleteFrees == [][\A f \in live \ live' : Refs(f) \subseteq free']_vars

(* Deleting a file leaves the blocks of the others alone.                  *)
DeleteKeepsOthers ==
    [][\A f \in live \ live', g \in live \cap live' : \A s \in 0 .. Direct - 1 :
        i_block[g][s] \notin free' \ free]_vars

(* A block that no file leads to is free.                                  *)
NoLeak == Block \ free \subseteq UNION {Refs(f) : f \in live}
=============================================================================
