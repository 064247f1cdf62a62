----------------------------- MODULE Directory -----------------------------
(***************************************************************************)
(* One directory: the chain of variable-length entries in its only block,  *)
(* as ext2_initialize_directory lays it out, ext2_create_directory_entry   *)
(* extends it and ext2_delete_dentry shortens it, and the lookup of names  *)
(* by ext2_inode_from_path_and_parent.                                     *)
(*                                                                         *)
(* A lookup compares strings, and nothing writes the zero byte behind a    *)
(* name: what it finds there is what the block held before, what an older  *)
(* entry left, the next entry, or memory behind the block.  So the model   *)
(* keeps the bytes that a string can consist of.                           *)
(***************************************************************************)
EXTENDS Integers, Sequences

CONSTANTS
    BlockBytes,     \* the block size, and the size of every directory
    FirstBlock,     \* the 1024 that ext2_initialize_directory divides
    EXT2_NAME_LEN,  \* the longest name
    Name,           \* the names callers use: sequences of bytes, none zero
    Inode,          \* inode numbers that files may get
    Self, Parent,   \* the directory's own number and its parent's
    Leftovers,      \* what the block may hold when the directory gets it
    Memory          \* what may follow the buffer that a block is read into

Header == 8         \* sizeof(struct ext2_directory_entry) - EXT2_NAME_LEN
Dot == <<46>>       \* the names of the first two entries
DotDot == <<46, 46>>
Byte == 0 .. 255

(* Inode numbers of three bytes: the fourth is zero, so that a string that *)
(* runs into an entry ends there.                                          *)
InodeNumber == {ino \in Nat \ {0} : (ino \div 256) \div 256 \in Byte}

ASSUME DirectoryAssumption ==
    /\ BlockBytes \in Nat /\ FirstBlock \in 24 .. BlockBytes
    /\ FirstBlock % 4 = 0
    /\ EXT2_NAME_LEN \in Nat
    /\ Name \subseteq Seq(Byte \ {0})
    /\ \A n \in Name : Len(n) \in 1 .. EXT2_NAME_LEN /\ n[1] # 46
    /\ Inode \cup {Self, Parent} \subseteq InodeNumber
    /\ {Self, Parent} \cap Inode = {}
    /\ Leftovers \subseteq [0 .. BlockBytes - 1 -> Byte]
    /\ Memory \subseteq [0 .. EXT2_NAME_LEN -> Byte]

VARIABLES
    chain,     \* the entries that a walk of the directory meets, in order
    text,      \* the bytes of the block, without lengths and types
    behind     \* the memory behind the buffer of a lookup

vars == <<chain, text, behind>>

name_len(n) == Len(n)

(* The size of an entry, rounded up to a multiple of four.                 *)
EntryBytes(n) == ((Header + name_len(n) + 3) \div 4) * 4

Last == Len(chain)

(* Where the i-th entry starts, and where a walk is after the last.        *)
Offset ==
    LET off[i \in 1 .. Last + 1] ==
            IF i = 1 THEN 0 ELSE off[i - 1] + chain[i - 1].rec_len
    IN  off
End == Offset[Last + 1]

(* What an entry at p puts into the block: the bytes of its inode number,  *)
(* and its name, which nothing terminates.                                 *)
InodeBytes(ino) == <<ino % 256, (ino \div 256) % 256, (ino \div 256) \div 256, 0>>
EntryAt_Longer(p, n, ino) ==      \* seeded defect: a whole name field
    [q \in p .. p + 3 \cup p + Header .. p + Header + EXT2_NAME_LEN - 1 |->
        IF q < p + Header THEN InodeBytes(ino)[q - p + 1]
        ELSE IF q - p - Header < Len(n) THEN n[q - p - Header + 1] ELSE 0]
EntryAt(p, n, ino) ==
    [q \in p .. p + 3 \cup p + Header .. p + Header + name_len(n) - 1 |->
        IF q < p + Header THEN InodeBytes(ino)[q - p + 1] ELSE n[q - p - Header + 1]]

(* memcpy into the block                                                   *)
Copied(t, w) ==
    [q \in DOMAIN t \cup DOMAIN w |-> IF q \in DOMAIN w THEN w[q] ELSE t[q]]

Init == chain = <<>> /\ text \in Leftovers /\ behind \in Memory

(* The buffer is cleared, but then the block is read into it as it is.     *)
Initialize ==
    /\ chain = <<>>
    /\ chain' = <<[name |-> Dot, ino |-> Self, rec_len |-> EntryBytes(Dot)],
                  [name |-> DotDot, ino |-> Parent, rec_len |-> FirstBlock - EntryBytes(Dot)]>>
    /\ text' = Copied(Copied(text, EntryAt(0, Dot, Self)),
                      EntryAt(EntryBytes(Dot), DotDot, Parent))

-----------------------------------------------------------------------------
(* The byte at q, which may be behind the block.                           *)
At(q) == IF q < BlockBytes THEN text[q] ELSE behind[q - BlockBytes]

(* strcmp(entry->name, n) = 0                                              *)
Reads(p, n) ==
    /\ \A k \in 1 .. Len(n) : At(p + Header + k - 1) = n[k]
    /\ At(p + Header + Len(n)) = 0
Matches(n) == {i \in 1 .. Last : Reads(Offset[i], n)}
IsFirst(x, S) == x \in S /\ \A y \in S : x <= y

(* The inode of the first entry that reads as the name; 0 when none does.  *)
Lookup(n) ==
    IF Matches(n) = {} THEN 0
    ELSE chain[CHOOSE i \in Matches(n) : IsFirst(i, Matches(n))].ino

(* Only the space behind the last entry is used.  A name that exists may   *)
(* be created again.                                                       *)
Room_NewOnly(n) == EntryBytes(n) <= chain[Last].rec_len    \* seeded defect
Room(n) == EntryBytes(chain[Last].name) + EntryBytes(n) <= chain[Last].rec_len

Create(n, ino) ==
    LET used == EntryBytes(chain[Last].name) IN
    /\ chain # <<>>
    /\ End = BlockBytes                   \* else the walk goes astray
    /\ Room(n)
    /\ \A i \in 1 .. Last : chain[i].ino # ino
    /\ chain' = Append([chain EXCEPT ![Last].rec_len = used],
                       [name |-> n, ino |-> ino, rec_len |-> chain[Last].rec_len - used])
    /\ text' = Copied(text, EntryAt(Offset[Last] + used, n, ino))

(* ext2_delete_file finds the name, and ext2_delete_dentry removes the     *)
(* first entry with its inode number: the header and the first byte of the *)
(* name are zeroed, the rest of the name stays, and the entry before takes *)
(* the space.                                                              *)
Merged_Lost(i) == chain[i - 1].rec_len    \* seeded defect: space is lost
Merged(i) == chain[i - 1].rec_len + chain[i].rec_len

Victims_Next(n) ==                        \* seeded defect: the wrong entry
    {i \in 2 .. Last : chain[i - 1].ino = Lookup(n)}
Victims(n) == {i \in 1 .. Last : chain[i].ino = Lookup(n)}

Delete(n) ==
    /\ Lookup(n) # 0
    /\ \E i \in 2 .. Last :
        /\ IsFirst(i, Victims(n))
        /\ chain' = [j \in 1 .. Last - 1 |->
               IF j = i - 1 THEN [chain[j] EXCEPT !.rec_len = Merged(i)]
               ELSE IF j < i THEN chain[j] ELSE chain[j + 1]]
        /\ text' = [q \in DOMAIN text |->
               IF q \in Offset[i] .. Offset[i] + Header THEN 0 ELSE text[q]]

(* Every lookup reads into a buffer of its own.                            *)
Next ==
    /\ behind' \in Memory
    /\ \/ Initialize
       \/ \E n \in Name : Delete(n) \/ \E ino \in Inode : Create(n, ino)

Spec == Init /\ [][Next]_vars

-----------------------------------------------------------------------------
EntryType == [name : Name \cup {Dot, DotDot}, ino : Inode \cup {Self, Parent},
              rec_len : 1 .. BlockBytes]

TypeOK ==
    /\ chain \in Seq(EntryType)
    /\ text \in [0 .. BlockBytes - 1 -> Byte]
    /\ behind \in Memory

(* A walk of the directory ends exactly at the end of its block: the       *)
(* lengths of the entries neither stop short nor leave anything over, for  *)
(* any sequence of creations and deletions.                                *)
WalkEnds == chain # <<>> => End = BlockBytes

(* No entry is longer than the space it has, so that none overlaps the     *)
(* next.                                                                   *)
EntriesFit == \A i \in 1 .. Last : EntryBytes(chain[i].name) <= chain[i].rec_len

(* A byte of its entry follows the name, and no other name begins it.      *)
StartsWith(n, m) == Len(m) <= Len(n) /\ \A k \in 1 .. Len(m) : n[k] = m[k]
Apart(n) == Len(n) % 4 # 0 /\ \A m \in Name \ {n} : ~ StartsWith(n, m)

(* A name that leads to a file goes on leading to it until it is deleted,  *)
(* whatever bytes the block held and whatever names, of any length and any *)
(* beginning, are created and deleted beside it: if a byte of its entry    *)
(* follows the name, and no other name begins it.                          *)
LookupStable ==
    [][\A n \in Name :
        (Apart(n) /\ Lookup(n) # 0 /\ Lookup(n)' # Lookup(n)) => Delete(n)]_vars

(* Every entry is found under the name it was created with.                *)
AllFound == \A i \in 1 .. Last : i \in Matches(chain[i].name)

(* A name leads to a file that was created with it.                        *)
Truthful ==
    \A n \in Name : Lookup(n) # 0 =>
        \E i \in 1 .. Last : chain[i].name = n /\ chain[i].ino = Lookup(n)

(* Every name goes on leading to its file until it is deleted.             *)
AllStable ==
    [][\A n \in Name : (Lookup(n) # 0 /\ Lookup(n)' # Lookup(n)) => Delete(n)]_vars
=============================================================================
