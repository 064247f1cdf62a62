------------------------------- MODULE ByteIO -------------------------------
(***************************************************************************)
(* One call of ext2_read_file or ext2_write_file on a file whose blocks    *)
(* are all allocated: ext2_read_inode_bytes and ext2_write_inode_bytes cut *)
(* the range into a head (the rest of the first block when the range does  *)
(* not start on a block), a body of whole blocks, and a tail.  The drive   *)
(* may refuse an access.  When it refuses a block of the file, the call    *)
(* ends with what was moved so far.  When it refuses a pointer block, no   *)
(* one notices: EXT2_READ_FAILED is positive and the test is <= 0, so the  *)
(* transfer goes on with whatever the memory for the block held.           *)
(*                                                                         *)
(* Bytes stand for where they came from: i is the i-th byte of the file    *)
(* before the call, Source(j) the j-th byte of the caller's buffer, Beyond *)
(* a byte past the end of that buffer, Untouched one not written to, and   *)
(* Foreign one that a transfer gone astray, or a copy past a temporary     *)
(* block, may have left.                                                   *)
(***************************************************************************)
EXTENDS Integers, FiniteSets

CONSTANTS
    BlockSize,   \* bytes of a block
    Direct,      \* direct pointers of an inode: 12 in the code
    Entries,     \* pointers in a block: block_size / 4
    FileSize,    \* i_size, at least what a write asks for
    Untouched, Beyond, Foreign

ASSUME RangeAssumption ==
    /\ BlockSize \in Nat \ {0}
    /\ Direct \in Nat \ {0}
    /\ Entries \in Nat \ {0}
    /\ FileSize \in Nat
    /\ {Untouched, Beyond, Foreign} \cap Int = {}
    /\ Foreign # Untouched

Blocks(bytes) == (bytes + BlockSize - 1) \div BlockSize    \* DIVIDE_ROUNDED_UP
FileBlocks == Blocks(FileSize)
FileByte == 0 .. FileBlocks * BlockSize - 1
BufferByte == 0 .. FileSize + BlockSize - 1   \* the caller's buffer and beyond

VARIABLES
    call,    \* the arguments: op, count and skip
    phase,   \* which part of the range is next
    data,    \* the bytes of the file's blocks on the disk
    buffer,  \* the caller's buffer in a read
    at,      \* how far destination_buffer or source_buffer has been moved
    block,   \* skip_blocks
    moved,   \* read_bytes or written_bytes
    result,  \* what the call returns
    refused, \* has the drive refused an access?
    astray   \* has it refused a pointer block, so that unassigned memory
             \* was taken for the numbers of the blocks to transfer?

vars == <<call, phase, data, buffer, at, block, moved, result, refused, astray>>

EXT2_RESULT_ERROR == 0
EXT2_RESULT_OK == 1

skip_bytes == call.skip % BlockSize
Remaining_All == call.count    \* seeded defect: as if nothing was moved
Remaining == call.count - moved
LeastOf(a, b) == IF a < b THEN a ELSE b

(* A range inside the file: ext2_read_file refuses others, ext2_write_file *)
(* makes the file larger first.                                            *)
Init ==
    /\ call \in {c \in [op : {"read", "write"}, count : 1 .. FileSize, skip : 0 .. FileSize] :
                    c.skip + c.count <= FileSize}
    /\ phase = IF skip_bytes # 0 THEN "head" ELSE "body"
    /\ data = [i \in FileByte |-> i]
    /\ buffer = [i \in BufferByte |-> Untouched]
    /\ at = 0
    /\ block = call.skip \div BlockSize
    /\ moved = 0
    /\ result = EXT2_RESULT_ERROR
    /\ refused = FALSE
    /\ astray = FALSE

-----------------------------------------------------------------------------
(* ext2_read_inode_blocks and ext2_write_inode_blocks, for count blocks    *)
(* from block skip on.  The call returns at once when the direct part      *)
(* moved nothing, which is so whenever the range starts past it.           *)
Failed == -1
BlocksMoved_Indirect(count, skip) ==      \* seeded defect: one short
    IF count = 0 \/ skip + 1 >= Direct THEN 0
    ELSE IF skip + count <= FileBlocks THEN count ELSE Failed
BlocksMoved(count, skip) ==
    IF count = 0 \/ skip >= Direct THEN 0
    ELSE IF skip + count <= FileBlocks THEN count ELSE Failed

(* The outcomes of a transfer whose pointer blocks are read: what it       *)
(* returns, the blocks it has really moved, and whether the drive has      *)
(* refused one of them.                                                    *)
Outcomes(count, skip) ==
    LET n == BlocksMoved(count, skip)
        reach == LeastOf(count, FileBlocks - skip)
    IN  {[ret |-> n, n |-> IF n = Failed THEN reach ELSE n, refused |-> FALSE]}
        \cup IF n = 0 THEN {}
             ELSE {[ret |-> Failed, n |-> k, refused |-> TRUE] : k \in 0 .. reach - 1}

Source(j) == IF j < call.count THEN FileSize + BlockSize + j ELSE Beyond

(* The first block a pointer block leads to is where a transfer reads it.  *)
PointerAt(i) == i >= Direct /\ (i - Direct) % Entries = 0

(* Bytes from .. from + n - 1 of the file to the buffer at position at,    *)
(* followed by unknown ones up to the length asked for.                    *)
ToBuffer(from, n, length) ==
    [i \in BufferByte |->
        IF at <= i /\ i < at + n THEN data[from + i - at]
        ELSE IF at + n <= i /\ i < at + length THEN Foreign
        ELSE buffer[i]]

(* Bytes from .. from + n - 1 of the source to the file at position to.    *)
ToFile(to, from, n) ==
    [i \in FileByte |->
        IF to <= i /\ i < to + n THEN Source(from + i - to) ELSE data[i]]

Return(r) ==
    /\ phase' = "done"
    /\ result' = r

Unmoved == UNCHANGED <<data, buffer, at, block, moved, refused>>

(* A write's head copies skip_bytes bytes into the block, where the block  *)
(* has BlockSize - skip_bytes left (what does not fit falls outside the    *)
(* temporary buffer).                                                      *)
HeadBytes == LeastOf(skip_bytes, BlockSize - skip_bytes)

HeadAt_Start == block * BlockSize   \* seeded defect: the offset is ignored
HeadAt == block * BlockSize + skip_bytes

Head ==
    /\ phase = "head"
    /\ \E out \in Outcomes(1, block) :
        /\ refused' = out.refused
        /\ IF out.ret # 1
           THEN Return(EXT2_RESULT_ERROR) /\ UNCHANGED <<data, buffer, at, block, moved>>
           ELSE /\ buffer' = IF call.op = "read"
                             THEN ToBuffer(HeadAt, BlockSize - skip_bytes, 0) ELSE buffer
                /\ data' = IF call.op = "write" THEN ToFile(HeadAt, at, HeadBytes) ELSE data
                /\ at' = at + BlockSize - skip_bytes
                /\ block' = block + 1
                /\ moved' = moved + BlockSize - skip_bytes
                /\ phase' = "body"
                /\ UNCHANGED result
    /\ UNCHANGED <<call, astray>>

(* One block fewer than the range's length takes, counted as if it started *)
(* on a block.  Only a read moves its pointer.                             *)
BodyBlocks_All == Blocks(call.count)    \* seeded defect: the tail's too
BodyBlocks == Blocks(call.count) - 1

(* What the code counts as moved is what the transfer has returned.        *)
Account(ret) ==
    IF ret = Failed
    THEN Return(EXT2_RESULT_ERROR) /\ UNCHANGED <<at, block, moved>>
    ELSE /\ at' = IF call.op = "read" THEN at + ret * BlockSize ELSE at
         /\ block' = block + ret
         /\ moved' = moved + ret * BlockSize
         /\ phase' = "tail"
         /\ UNCHANGED result

BodyMoves ==
    \E out \in Outcomes(BodyBlocks, block) :
        /\ refused' = out.refused
        /\ buffer' = IF call.op = "read"
                     THEN ToBuffer(block * BlockSize, out.n * BlockSize, 0) ELSE buffer
        /\ data' = IF call.op = "write"
                   THEN ToFile(block * BlockSize, at, out.n * BlockSize) ELSE data
        /\ Account(out.ret)
        /\ UNCHANGED astray

(* The drive refuses the pointer block that leads to block i.  The blocks  *)
(* before are moved; the entries are then what the memory held: zeros end  *)
(* the transfer with 0 or a failure, numbers of blocks the drive refuses   *)
(* with a failure, and others are read into the buffer, or written: any    *)
(* blocks of the volume, those of this file (hit) among them.              *)
Misled(i) ==
    /\ refused' = TRUE
    /\ astray' = TRUE
    /\ \E ret \in {Failed, 0, BodyBlocks}, n \in i - block .. BodyBlocks,
          hit \in SUBSET (0 .. FileBlocks - 1) :
        /\ ret = BodyBlocks => n = BodyBlocks
        /\ Cardinality(hit) <= n - (i - block)
        /\ buffer' = IF call.op = "read"
                     THEN ToBuffer(block * BlockSize, (i - block) * BlockSize, n * BlockSize)
                     ELSE buffer
        /\ data' = IF call.op = "write"
                   THEN [x \in FileByte |->
                            IF x \div BlockSize \in hit THEN Foreign
                            ELSE ToFile(block * BlockSize, at, (i - block) * BlockSize)[x]]
                   ELSE data
        /\ Account(ret)

BodyAstray ==
    \E i \in block .. block + BodyBlocks - 1 :
        block < Direct /\ i < FileBlocks /\ PointerAt(i) /\ Misled(i)

Body ==
    /\ phase = "body"
    /\ IF Remaining <= 0 THEN Return(EXT2_RESULT_OK) /\ Unmoved /\ UNCHANGED astray
       ELSE BodyMoves \/ BodyAstray
    /\ UNCHANGED call

(* The source of a write's tail is counted from source_buffer, which the   *)
(* head has moved, plus all bytes written, the head's included.            *)
TailFrom == at + moved

(* The tail is copied through one temporary block.  After a transfer that  *)
(* returned 0 more than a block may remain: a read copies past the         *)
(* temporary block, a write writes the one block.                          *)
TailBytes == LeastOf(Remaining, BlockSize)

Tail ==
    /\ phase = "tail"
    /\ UNCHANGED <<call, at, block, astray>>
    /\ IF Remaining <= 0 THEN Return(EXT2_RESULT_OK) /\ UNCHANGED <<data, buffer, moved, refused>>
       ELSE \E out \in Outcomes(1, block) :
        /\ refused' = (refused \/ out.refused)
        /\ IF out.ret # 1 THEN Return(EXT2_RESULT_ERROR) /\ UNCHANGED <<data, buffer, moved>>
           ELSE /\ buffer' = IF call.op = "read"
                             THEN ToBuffer(block * BlockSize, TailBytes, Remaining) ELSE buffer
                /\ data' = IF call.op = "write"
                           THEN ToFile(block * BlockSize, TailFrom, TailBytes) ELSE data
                /\ moved' = moved + Remaining
                /\ Return(EXT2_RESULT_OK)

Next == Head \/ Body \/ Tail

Spec == Init /\ [][Next]_vars

-----------------------------------------------------------------------------
TypeOK ==
    /\ call \in [op : {"read", "write"}, count : 1 .. FileSize, skip : 0 .. FileSize]
    /\ phase \in {"head", "body", "tail", "done"}
    /\ data \in [FileByte -> Int \cup {Beyond, Foreign}]
    /\ buffer \in [BufferByte -> Int \cup {Untouched, Foreign}]
    /\ at \in Nat
    /\ moved \in 0 .. call.count + BlockSize - 1   \* a head may be longer than the range
    /\ block \in Nat /\ block * BlockSize < FileSize + BlockSize
    /\ result \in {EXT2_RESULT_ERROR, EXT2_RESULT_OK}
    /\ refused \in BOOLEAN /\ astray \in BOOLEAN

Succeeded(op) == call.op = op /\ phase = "done" /\ result = EXT2_RESULT_OK
InRange(i) == call.skip <= i /\ i < call.skip + call.count
Aligned == skip_bytes = 0

(* Of a transfer that went astray nothing is promised, if its range ends   *)
(* past the direct blocks.  The others need no pointer block.              *)
PastDirect == call.skip + call.count > Direct * BlockSize
Lost == astray /\ PastDirect

(* A read that reports success has put the bytes asked for in the buffer,  *)
(* each at its place, wherever the range starts and ends.                  *)
EveryRead ==
    Succeeded("read") => \A i \in 0 .. call.count - 1 : buffer[i] = call.skip + i

(* The same, but for ranges past the direct blocks of which the drive has  *)
(* refused a pointer block.                                                *)
ReadContent == ~Lost => EveryRead

(* A read never writes past the bytes the caller asked for.                *)
ReadWithin == \A i \in BufferByte : i >= call.count => buffer[i] = Untouched

(* What reads promise: the bytes asked for, on a drive that may refuse any *)
(* block but a pointer block the range needs; and, on any drive, no byte   *)
(* more for reads that start on a block, which those of directories do.    *)
ReadsCorrect == ReadContent /\ (Aligned => ReadWithin)

(* After a write that reports success the file has the caller's bytes in   *)
(* the range, in order, and its old ones elsewhere; but for ranges past    *)
(* the direct blocks of which the drive has refused a pointer block.       *)
WriteContent ==
    ~Lost /\ Succeeded("write") =>
        \A i \in FileByte : data[i] = IF InRange(i) THEN Source(i - call.skip) ELSE i

(* The bytes outside the range are left alone in every intermediate state, *)
(* whatever the drive refuses, with the same exception.                    *)
WriteConfined == ~Lost => \A i \in FileByte : InRange(i) \/ data[i] = i

(* Both, for writes that start on a block: the case of directories.        *)
AlignedWritesCorrect == Aligned => WriteContent /\ WriteConfined

(* A call fails only when the drive has refused an access, or when part of *)
(* the range lies past the direct blocks: a transfer that starts there     *)
(* moves nothing.                                                          *)
Succeeds ==
    phase = "done" /\ ~refused /\ call.skip + call.count <= Direct * BlockSize
        => result = EXT2_RESULT_OK
=============================================================================
