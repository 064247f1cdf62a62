# A TLA+ model of FUSED

FUSED is a library that maps a disk image into a process and offers it as a
block device (`src/src/fused`), with a demonstration ext2 file system on top of
it (`src/src/demofs`). This directory holds TLA+ modules of the file system, of
its partitions and of the drives under them, the configurations that TLC checks
them with, and theorems about them with proofs that TLAPS checks. Every
definition is translated from the C source; the map from definitions to lines is
in `PROJECT.json`, with the list of hazards the properties are for.

Everything in the code is sequential: one thread, no callbacks from outside, no
signals. What makes it hard is not concurrency but (a) the end of the process
between two disk writes, (b) accesses the drive refuses, (c) long sequences of
legal calls, where an early one leaves a state that a late one trips over, (d)
names kept where the thing itself was meant: a partition keeps the name of its
drive, a lookup the bytes of an entry, (e) memory that nobody assigned: buffers of
malloc that are written to the disk as pointer blocks, read as if a refused access
had filled them, or read past their end, and (f) arithmetic at boundaries: groups,
blocks, bytes of bitmaps, names.

## 1. Inventory

The layers, from the top; each calls only those below it.

| component | state | operations | hard behaviour | what makes it correct |
|---|---|---|---|---|
| test program (`test.c`) | none | one fixed sequence of calls | ends without a flush | none of its own |
| file interface (`ext2.c`) | none of its own; each call reads the inode afresh | `ext2_create_file`, `ext2_resize_file`, `ext2_read_file`, `ext2_write_file`, `ext2_delete_file`, `ext2_list_directory` | several disk writes per call, early returns that undo nothing | a name leads to an inode in use; what a failed call took is given back; what was written is read back |
| partition registry (`ext2.c`, `ext2_partition.c`) | list of `struct ext2_partition`: name, disk, `lba`, cached superblock `sb` and descriptors `gd`, `flush_required` | `ext2_search`, `ext2_register_partition`, `ext2_get_partition_by_index`, `ext2_sync`; unregistering is not implemented | caches that outlive their drive; names built from the length of the list | one name, one partition; registration reads what a flush wrote |
| block allocator and volume metadata (`ext2_block.c`, `ext2_bg.c`, `ext2_sb.c`, `ext2_integrity.c`) | on disk: block bitmaps, superblock copies, descriptor table; in memory: free counts, `flush_required` | `ext2_allocate_block`, `ext2_deallocate_block`, `ext2_flush_partition` | bitmaps are written through, counts are not; a flush is many writes; refused accesses | no block has two owners, a held block is marked, counts agree with bitmaps, a volume can be registered again |
| inode allocator (`ext2_inode.c`) | on disk: inode bitmaps, inode table; in memory: free inode and directory counts | `ext2_allocate_inode`, `ext2_initialize_inode`, `ext2_write_inode`, `ext2_delete_inode` | bits, bytes, indices and numbers; several groups | no inode has two names, the reserved inodes are nobody's, counts agree |
| file block map (`ext2_block.c`, `ext2_inode.c`) | on disk: `i_size`, `i_block`, indirect blocks | `ext2_allocate_blocks`, `ext2_load_block_list`, `ext2_deallocate_blocks`, `ext2_delete_file_blocks` | growth in steps, growth past the direct blocks, shrinking, running out of blocks | every byte has a block, no block is in two files, growth keeps contents, deletion returns all |
| byte input and output (`ext2_block.c`) | positions inside one call | `ext2_read_inode_bytes`, `ext2_write_inode_bytes` | ranges that start or end inside a block; a refused block in the middle | reads return the bytes of the range, writes change them and no others |
| directories (`ext2_dentry.c`, `ext2_inode.c`) | on disk: a chain of entries in a block | `ext2_initialize_directory`, `ext2_create_directory_entry`, `ext2_delete_dentry`, lookup | names without a terminator, reuse of space, the end of the block | the chain covers its block, entries do not overlap, a name leads to its file |
| error log (`ext2_integrity.c`) | list of messages, counters | `ext2_add_error`, `ext2_make_space`, `ext2_stacktrace`, `ext2_clear_errors` | the limit | the list is bounded |
| drive primitives (`primitives.c`) | per drive: `configured`, `can_eject`, `power_state` | `read_disk`, `write_disk`, `ioctl_disk`, `get_disk_status`, `init_disk` | offsets past 4 GiB; state nobody consults | an access reaches the sector asked for |
| drive registry (`bfuse.c`) | list of mounts, newest first | `register_drive`, `register_drive_subsection`, `unregister_drive` | a mount point registered twice | a mount point leads to the drive last registered there |
| C library stubs (`dependencies.c`), utilities (`ext2_util.c`), dumps | none that matters | | | |

The components interact by calls and through the disk. Four couplings matter
most. The file block map takes blocks from the allocator and records them in an
inode, but the inode is written only when a whole growth succeeds. And the
allocator's bitmaps reach the disk at once while its counts wait for a flush, so
that a process that ends in between leaves the two apart. A creation writes its
directory entry last and a deletion removes it last, with inode and blocks in
between. And a partition reaches its drive through a name, looked up at each
access.

## 2. Modules

```
BlockPool         abstract: a pool of blocks with owners
Volume            block allocator, flush, registration, crashes     implements BlockPool
VolumeProofs      theorems of Volume
InodeTable        inode allocator
InodeTableProofs  theorems of InodeTable
FileBlocks        block maps of files
FileBlocksProofs  theorems of FileBlocks
ByteIO            one read or write of a range of bytes
ByteIOProofs      theorems of ByteIO
Directory         the chain of entries of one directory
DirectoryProofs   theorems of Directory
Namespace         abstract: a tree of paths
FileSystem        creations, writes, deletions, crashes             implements Namespace
FileSystemProofs  theorems of FileSystem
DriveMap          abstract: a stack of drives per mount point
Drive             mounts, handles, ioctl                            implements DriveMap
Partitions        the list of partitions; EXTENDS Drive
PartitionsProofs  theorems of Partitions
ErrorLog          the list of messages and its limit
Basics            lemmas on numbers and sequences, for the proofs
MC*               the definitions that the configurations use
```

Definitions whose comment says "seeded defect" are not used by any other: each
is a plausible bug of the definition that follows it, and `PROJECT.json` says
which property notices it when it takes that definition's place.

### Volume

State: `bitmap` (the block bitmaps on the disk), `super` (the free count in each
superblock copy, or `Clobbered` when the copy has lost its magic number), `bgdt`
(the free counts in the descriptor table on the disk); `gdFree`, `sbFree`,
`flushRequired` (the cached copies in `struct ext2_partition`); `mode` and
`cursor` (how far a flush is); `own` (which blocks a file or directory was
granted) and `session` are observations.

Actions: `Register` is `ext2_register_partition`; `Allocate` and `Deallocate`
are `ext2_allocate_block` and `ext2_deallocate_block`, each with its one bitmap
write; `BeginFlush`, `FlushBg`, `FlushSb` are `ext2_flush_partition`, one disk
write per step, so that `Crash` can come between any two. `Crash` is every end
of the process, including the ordinary one: `main` of the test program returns
without a flush. After a crash, owners may have forgotten blocks: a caller
writes the number of a granted block to an inode after the allocator returned.

Two facts of the code carry much of the model. First, a flush writes descriptors
at sector `lba + bgdt_block` while registration reads them at
`lba + sectors_per_block * bgdt_block`; with 1024-byte blocks the former is the
superblock's own sector, which the second half of the flush repairs. Second, the
error values of reads and writes are large positive numbers, so that the tests
`<= 0` and `!` of their callers pass (`Accepted`, `BufferRead`).

Geometry: 1024-byte blocks in any number of groups, or 4096-byte blocks in one;
a flush writes at most two sectors of descriptors per group. Other layouts would
put more than the named structures under the flushed sectors and are excluded by
assumptions.

`BlockPool` is what callers may rely on: a block granted is nobody's until it is
released, and the end of the process loses blocks but never gives one away. A
block is available in the pool when its bit is clear (`Unmarked`).

### InodeTable

State: `imap`, `inode` (the type in each inode), `gdFreeInodes`, `usedDirs`,
`sbFreeInodes`, and per file the number in its directory entry (`ino`) and the
type it was created with (`kind`). `Create` is allocation, initialisation and
the write of the inode; `Delete` is `ext2_delete_inode`. The number of an inode
leaves its group out (`NumberOf`), and deletion zeroes the byte of the bitmap
whose index is the inode's (`ClearedBits`); both are the code's. `deleted` is an
observation. Here the drive does not fail and the process does not end.

### FileBlocks

State: `free`, and per file `live`, `size`, `i_block` (the direct slots and the
single and double indirect one), and `ptr`, the entries of pointer blocks. The
allocator grants the lowest free block, as Volume does on a volume of one group;
`Nth(k)` is the k-th of them, and `NewMap`, `NewPointers` say what becomes of
each in `ext2_allocate_blocks`. `Grow`, `GrowFails`, `Shrink`, `Delete` are the
outcomes of `ext2_resize_file` and of the block part of `ext2_delete_file`;
`BlockList` is `ext2_load_block_list` as far as the code has assigned what it
reads: `Indices` says which blocks of the file it finds, kind by kind while there
are too few, and the list has them in order.

Two things can make a load read what nobody assigned. A pointer block is written
from a buffer of malloc of which only the entries in use were set; and a pointer
block with number 0 is read without an error, which leaves the buffer as malloc
returned it, often the memory of a pointer block just freed. `Lists` is the set of
lists that a load may then return: when the assigned blocks are fewer than the
size asks for, the rest of the list is any blocks of the volume. So a deletion or
a shrink of such a file releases any blocks, of any file. When the assigned blocks
are enough the load goes no further, or fails because it met more than were asked
for.

`spoiled` is an observation: a file was shrunk, which releases blocks that its
file keeps leading to, or grew past its direct blocks a second time (`Replaces`),
which puts a new indirect block in the place of the old one. After that the
assigned blocks of some file are too few, or not its own, so most properties are
stated up to the first such event, and `Lists` no longer tells its pointer blocks'
contents apart. Triple indirect blocks are left out: `Sizes` keeps files below
them, and a growth that would need one because of how growth counts is not asked
for (`BelowTriple`).

### ByteIO

One call on one range of one file: `Head`, `Body`, `Tail` are the three parts of
`ext2_read_inode_bytes` and `ext2_write_inode_bytes`, and `Outcomes` gives the
blocks that each transfer moves and what it returns, including a drive that
refuses one of them. A refused pointer block is another matter: the error value
passes the test `<= 0`, and a buffer nobody assigned is taken for block numbers.
`Misled` is what may follow: the transfer returns 0, a failure, or as much as it
was asked for, and has read any bytes into the buffer or written over any blocks,
those of this file among them; `astray` observes it. After a transfer that
returned 0 the tail moves what remains through one block (`TailBytes`), and the
call reports success. Bytes are abstract: byte i of the file is i, byte j of the
caller's buffer a number past all of them, `Beyond` is what lies past the buffer,
and `Foreign` a byte that nobody asked for. Pointers that the code moves are the
variables `at` and `block`; `refused` observes whether the drive refused an
access.

### Directory

`chain` is the sequence of entries a walk meets, with their `rec_len`; `text` the
bytes of the block, but for lengths and types, which no comparison of a name
reaches before a zero byte; `behind` the memory behind the buffer of a lookup.
`Create` and `Delete` are `ext2_create_directory_entry` and `ext2_delete_dentry`:
the one copies a header and a name into the block (`Copied`, `EntryAt`), and
nothing behind the name; the other zeroes a header and the first byte of a name.
Names are sequences of bytes, and `Reads` is strcmp on the bytes that are there:
so a name that runs into letters left behind it is not found, and a short name
written over a deleted longer one reads as the longer one. The block is not
cleared when a directory gets it: `Leftovers` is what it may hold. Names that
begin with a dot are left out, and inode numbers of four bytes: the fourth byte of
a number ends every string that runs into an entry.

### FileSystem and Namespace

The composition: `ext2_create_file`, `ext2_write_file` and `ext2_delete_file`
over one set of inodes, blocks and directories. State on the disk: `imap` and
`bmap` (the bits), `inode` (type, size in blocks, `i_block`), `dents` (the
entries of each block that is a directory's), `data` (whose data a block holds),
`soiled` (the blocks where names written later run into old bytes). `call` is
the process: which call it is in, how far, and the numbers it holds in its local
variables between two writes. `Create`, `Write` and `Delete` are a call up to
its first write; every other action of `Step` is one disk write of a call, or the
early return in its place (`NoFreeBlock`, `NoRoomForEntry`), which undoes
nothing. `WalksOn` is a call whose lookup meets an entry of length zero. `Crash`
is the end of the process between any two writes.

The model reduces what other modules treat in full, so that their defects do not
hide those of the composition: a file has at most one block; names are equally
long and end inside their entries, so that only old bytes of a block hide them;
the byte that `ext2_delete_inode` clears belongs to no inode, so that bits of
inodes are only set; counts and flushes are left to Volume. Users do not name
"." and "..", nor delete the root. `damaged` observes the two events after which
nothing is promised: the process ends between the release of a file's block and
the clearing of its inode, or a write goes to an inode that was cleared and has
kept its `i_block`.

`Namespace` is the promise: a tree of paths in which a creation and a deletion
happen at once or not at all, whatever happens to the process. The refinement
computes the tree from the disk (`Tree`): the paths whose lookup comes to an
inode that is not cleared. So a creation takes effect at the write of its entry,
and a deletion at the write of the cleared inode, two writes before its entry
goes; an older entry with the same name comes to light in the end (`Link` of a
deletion).

### Drive and DriveMap

`mounts` is the list in `bfuse.c`, newest first; `freed` the memory of removed
mounts, which the next registration gets; `opened` the handles. Names are
sequences of characters here, because `strncpy` is called with the length of its
source and copies no terminator: a name reads on into what the memory held
(`Overlaid`). `spoiled` observes the first name that reads as another.
Subsections have handle 0 (`RegisterSubsection`), which is no image file.
Handles are read and written through, not mapped: that is the build
`src/GNUmakefile` makes. `DriveMap` is the promise: a stack of drives for each
mount point, and no mount point affected by another.

### Partitions

`partitions` is the list in `ext2.c`, oldest first: name, name of the drive,
first sector, the cached volume, `flush_required`; `drive` and `file` observe
what the partition was registered on. `image` says which volume's superblock is
at which sector of which file. `RegisterPartition` is
`ext2_register_partition` with `ext2_check_status`; `ext2_sync` and
`ext2_flush_all_partitions` write each cached superblock to whatever drive the
name leads to then (`Reaches`, `Writers`). Offsets are taken modulo
`SectorLimit`, the sectors that 32 bits of bytes reach. `moved` observes the
partitions whose drive's name was registered again or removed.

### ErrorLog

`error_messages` with `error_count` and `error_deletion_counter`. `Counts` shows
why the limit is never enforced: no branch increments `error_count`.

## 3. Runs

A run marked V expects a violation: its one property says what the repository
says of the program, and the trace shows how the code departs from it
(`PROJECT.json`, "findings", quotes the line).

| run | what it asks | instance |
|---|---|---|
| volume_blocks | held blocks are marked; one owner each; numbers on the volume; counts exact until the first end of the process; no clear bit out of reach; a flush brings the superblocks up to date; Volume implements BlockPool | 1024-byte blocks, 2 groups of 3 bits, 2 owners, 2 sessions |
| volume_crash_in_flush V | `Mountable`: a volume can always be registered again | the same, 1 session |
| inode_grants | reserved inodes are never granted; files intact, and creations succeed inside the table, until the first deletion; free count and files balance | 1 group of 7 inodes, 3 reserved, 5 files, bytes of 2 bits |
| inode_shared V | `InodesDistinct`: two files never share an inode | 8 inodes, 2 reserved |
| file_blocks | whatever memory nobody assigned holds, until a file is shrunk or grows past its direct blocks twice: no sharing, no free block in use, every byte has its block, files without pointer blocks can be deleted; always: those have all their blocks, and growth never moves a direct block | 2 files, 8 blocks of 2 bytes, 2 direct slots, 2 entries per pointer block, sizes 0, 1, 3, 6, 10 |
| file_grow_twice V | `GrowKeepsBlocks`: growth keeps contents | 1 file, 9 blocks, 2 direct slots |
| io_ranges | reads are right for every range, writes for ranges that start on a block, nothing outside an aligned range is touched, but for ranges past the direct blocks of which a pointer block was refused; and a call fails only for a refusal or past the direct blocks | all ranges of 16 bytes in blocks of 3, 3 of them direct and 2 entries per pointer block; the drive may refuse any block, and refused pointer blocks go unnoticed |
| io_unaligned V | `WriteContent`: writes are right for every range | all ranges of 13 bytes in blocks of 3 |
| dir_chain | the chain covers the block, entries fit; names that do not fill their entry, and that no other name begins, keep leading to their files | names "x", "xyzuvw", "abcd", "pqrst"; a block of 64 bytes that held zeros, letters, or an old name; 3 inodes |
| fs_calls | what is listed has an inode and a block of its own, that are marked; deletions that find their path succeed; data stays with its file; every call ends; FileSystem implements Namespace | 4 inodes, 3 blocks, 2 names, paths of 1 and 2 names, directories with room for 2 entries, 1 crash |
| drives | partitions stay on their drives until a name is used again, flushes keep superblocks in place, names lead back; Drive implements DriveMap | mount points "h" and "hp", 2 files, 2 mounts, 2 handles, 3 partitions at sectors 0 and 1, names of 3 characters |
| log_limit V | `LimitKept`: the log never holds more than its limit | limit 3, 2 deleted at a time, 5 messages |

Why the bounds are enough. The defects these properties look for are crossings
of a boundary: from one group to the next, from direct to indirect to double
indirect, from one byte of a bitmap to another, from one block to the next. Each
instance has at least two of everything that is crossed, and enough calls to
come back after a crossing. The number of calls has no bound in most runs; the
bounds there are:
`MaxSessions` limits registrations of a volume: two, so that blocks, counts and
superblocks of one session meet the next. `MaxCrashes` limits the ends of the
process inside a call of FileSystem: one, at every place, with any calls before
and after. `Depth` is 2, so that a directory with files can be deleted and paths
go through a directory that is new or gone; `DirRoom` is 2, so that a directory
has room for one entry more, and none, and space is given back in front of and
behind an entry. `MaxMounts` is 2, so that one name can hide another drive or
its own older one; `MaxHandles` 2, so that handles run out; `MaxPartitions` 3,
the least with an id that counts (the first two partitions are both number 0);
`NameRoom` 3, so that "hp" is kept whole and its partition's name is cut;
`SectorLimit` is past the sectors used, but for one property below.
`MaxMessages` is past the log's limit. `Sizes` limits what `ext2_resize_file`
is asked for: in `file_blocks` an empty file, one inside its first direct block,
one inside its second (so that a file without pointer blocks grows in several
steps, and the rounding of each is seen), one inside the indirect block, and one
inside the double indirect block; two files of the larger sizes exhaust eight
blocks, and a growth in steps, which asks for more blocks than one at once, goes
past each boundary. `dir_chain` has names of each kind that its property tells
apart: "x" begins "xyzuvw", "abcd" fills its entry, "pqrst" does neither; the
block has room for three of them at most, so that space given back is used by another;
it may hold an old name where the first entry goes, and letters may follow the
buffer. In `io_ranges` two entries per pointer block bring ranges that need one
pointer block, and two. Moduli `M16` and
`M32` are small but as far from the counts as the assumptions demand of the real
ones.

Symmetry is used over the files of `file_blocks` and `drives` only, which no
action orders; no run with a liveness property uses it. The view `Seen` of
`file_blocks` leaves out what no action and no property reads: the inode of a
file that does not exist, which `Create` sets anew, and the entries of blocks
that no file leads to as pointer blocks, which a grant writes anew. Once spoiled
it goes further: the properties that still say something then are about the direct
slots, loads may return any blocks, and so the blocks are told apart only by
whether they are free or not. States that agree on the rest have the same steps to
states that agree on the rest, but for the names of blocks. The theorems need none
of this.

Deadlock. Checking is off where the modelled system may stop: Volume when the
process has ended and `MaxSessions` are used up; `inode_grants` when every
creation fails and no file is left to delete, which the bits lost by deletions
bring about; `file_blocks` with files that can neither be deleted nor grown;
ByteIO when the call has returned; Directory when the directory is full of names
that are not found; FileSystem when a call walks a directory for ever and no
crash is left; Partitions when mounts, handles and partitions are at their
bounds. In the other runs it is on.

Fairness. FileSystem assumes `WF_vars(Step)`: the process, once in a call, takes
its next step. The program is sequential and waits for nobody; between two disk
writes it only computes, so this is what it means for it to run. Nothing is
assumed about calls or about the end of the process: whether a call is made is
the caller's choice. `CallEnds` says that every call then ends, which is not
obvious: a lookup walks each directory of its path by the lengths in the
entries, and would go on for ever at a length of zero. The property says that no
directory a path can lead to has one, also after a crash and after its block
was used for other things. No other module has steps that wait for something:
the loops inside their calls are bounded by quantities the models show (groups in
a flush, parts of a range), and their properties are about safety.

### Properties the code does not have

The modules define some properties that no run checks, because no document of
the repository promises them and the code does not have them. They explain the
conditions in the properties that are checked. TLC refutes each one in seconds
in the instance named:

| property | where it fails | why |
|---|---|---|
| `DescriptorsFlushed` | volume_blocks | the flush writes descriptors at another sector than registration reads |
| `FreeCountPossible` | volume_blocks | registration caches mkfs's counts and releases add to them |
| `HeldAreMarked` | volume_blocks, `WriteMayFail = TRUE` | a refused write of the bitmap is taken for done |
| `SyncedSuperblock` | volume_blocks, `WriteMayFail = TRUE` | `flush_required` is cleared after a refused write |
| `OwnersDisjoint` | volume_blocks, `ReadMayFail = TRUE` | a refused read leaves the bitmap buffer unassigned |
| `GrantedOnVolume` | volume_blocks, `BlockSize = 4096`, `GroupCount = 1` | the last bit of a bitmap has no block with 4096-byte blocks: the theorem `Granted` has the condition |
| `ReservedNeverGranted` | inode_grants, `GroupCount = 2` | the number of an inode leaves its group out |
| `CreateSucceeds`, `GrantedInTable`, `DirsCounted` | inode_grants | after a deletion, which clears bits of other inodes or none, and takes other types for directories |
| `AllDeletable` | file_blocks | a file that has lost its first indirect block has too few assigned blocks: the rest of its list is what memory holds, and may name free blocks |
| `ShrinkKeepsHead` | file_blocks | shrinking releases the blocks at the head of the list |
| `DeleteFrees` | file_blocks | pointer blocks are not released |
| `NoLeak` | file_blocks | so are not the blocks of a growth that failed |
| `DeleteKeepsOthers` | file_blocks | a list that goes on in memory nobody assigned releases other files' blocks |
| `EveryRead` | io_ranges | the drive refuses the pointer block, the buffer begins with a zero, the transfer returns 0, and the tail copies the rest of the range from one block: the call reports success |
| `ReadWithin` | io_ranges | a read that starts inside a block and ends in it copies to the end of the block |
| `Succeeds` without its second condition | io_ranges | a transfer that starts past the direct blocks moves nothing |
| `AllFound` | dir_chain | a name runs into the letters that the block held, or into those of a longer name that was there before |
| `Truthful` | dir_chain | "x" over a deleted "xyzuvw" reads as "xyzuvw": the long name leads to the file of the short one |
| `AllStable`, and `LookupStable` without either half of `Apart` | dir_chain | the next creation writes behind such an "x", and the long name leads nowhere; "abcd" ends where the next entry begins, and is lost when that is created |
| `WalkEnds` | dir_chain, `BlockBytes = 96` | the first entries of a directory cover 1024 bytes whatever the block size |
| `NoLeak` | fs_calls | a creation without room for its entry, a deletion of a directory with files in it and a crash all lose inodes and blocks; a deletion clears another byte than the one of its inode |
| `NoForeignData` | fs_calls | the process ends between the write of a grown inode and that of its data |
| `CreatedIsFound` | fs_calls | the block of a new directory held data, which its entries' names run into |
| `HandlesOfMounts` | drives | `unregister_drive` closes nothing |
| `RegisteredIsFound` | drives | a short name in the memory of a removed longer one |
| `SubsectionsReadable` | drives | subsections get handle 0 |
| `FlushesAtHome` | drives | the name of the drive was registered again, or its newest drive removed |
| `NamesDistinct` | drives | the first two partitions are both number 0 |
| `PoweredOn` | drives | nothing consults the state that `ioctl_disk` sets |
| `VolumesDistinct` | drives, `SectorLimit = 1` | an offset past 32 bits starts over at the drive's beginning |
| `AtHome` without the condition on the name | drives, `NameRoom = 1` | a name cut to the room there is names another drive |

## 4. Theorems

`tlapm` proves these for every value of the constants that the named assumptions
of the modules allow.

VolumeProofs. `NoFailure` is a drive that refuses nothing; where a theorem assumes
it, TLC finds the property violated as soon as writes may be refused, and as soon
as reads may (the code takes the refusal for success, or what its buffer held for
the bitmap).

- `TypeCorrect`: `Spec => []TypeOK`, drive failures included. Counts stay in
  their width because `Inc` and `Dec` wrap.
- `Numbering`: `GroupOf` and `BitOf` undo `BlockOf` (uniqueness of division with
  remainder).
- `HeldMarked` and `HeldByOne`, under `NoFailure`: held blocks are marked, and
  owners disjoint. Neither is inductive alone. `HeldInv` joins them with the type: a grant picks a clear
  bit, so by the first part nobody holds it, which keeps the second; a release
  clears a bit, so by the second part nobody else loses it, which keeps the first.
- `Granted`: with 1024-byte blocks granted numbers are blocks of the volume.
- `Counts`, under `NoFailure`: until the first end of the process the cached counts are the numbers
  of clear bits. `CountsInv` adds that in the first session the table on the disk
  still holds mkfs's counts, and that a grant is only made where a count is
  positive.
- `Reachable`, under `NoFailure`: a group with a clear bit always has a positive count, in any
  session. `ReachInv` says why: registration always caches mkfs's counts (the
  table it reads is never written, `TableNotFlushed`), the bits mkfs set stay
  set, and between registrations a count is at least the clear bits and by less
  than a group more, so it does not wrap. A flush that did write the table it is
  read from would need a different argument, and the property would be in
  question: the theorem leans on the defect that `DescriptorsFlushed` shows.
- `Synced`, when reads may be refused but no write is: between calls, when no flush
  is required, every superblock copy holds the cached free count. `SyncInv` adds that a flush, when
  there is more than one copy, overwrites them all with descriptors before it
  repairs the first (`Overwritten`, `FlushHitsSuperblock`): so copies that all
  have their magic number agree, and a registration, which demands that of each,
  caches what all of them hold.
- `PoolImplemented`, under `NoFailure`: initial states map to initial states, and
  every step to `Grant`, `Release`, `Forget` or a stutter.

InodeTableProofs (all but the first for `GroupCount = 1`, because the number of an
inode in another group lacks its offset):

- `TypeCorrect`.
- `ReservedSafe`: with `ReservedInv`, the bits of the reserved inodes stay set.
  A deletion clears bits from `BitsPerByte * index` on, never below `index`, and
  the index of a file is past the reserved ones (`ClearedAbove`,
  `IndexInFirstGroup`).
- `Intact`: with `IntactInv`, until the first deletion the bit of every file is
  set, so a creation takes a number no file has.
- `Grants`: until the first deletion a creation finds a clear bit whenever the
  count says so, and its inode is in the table. `GrantsInv` counts: the clear
  bits of inodes are as many as the cached count, and the padding behind the last
  inode stays set.
- `Balanced`: with `BalanceInv`, the count of the group, on which a creation is
  conditional, is never above that of the volume, so neither wraps.

DirectoryProofs:

- `TypeCorrect`, `Fit`, and `WalksEnd` (for `FirstBlock = BlockBytes`: a new
  directory divides 1024 bytes). One invariant, `DirInv`, carries all three: the
  chain is typed, its entries fit, and a walk ends after `FirstBlock` bytes. The
  last part is about the recursive function `Offset`. Its existence and
  uniqueness are proved first (`OffsetExists`, `OffsetUnique`: of the places
  where either fails there would be a least one); then, for each change of the
  chain, a function is written down that satisfies the recursion for the new
  chain (`SplitKeepsTotal` for a creation, `MergeKeepsTotal` for a deletion), and
  by uniqueness it is the new `Offset`. That no entry exceeds the block after a
  deletion needs offsets to rise (`OffsetsBelow`).
- `NamesKeepLeading`: `LookupStable`, for any names, leftovers and memory. Two
  conditions are in the property (`Apart`), and it is false without either
  (`AllStable` in section 3). A name whose length is a multiple of four fills its
  entry, and the zero byte that strcmp expects behind it belongs to the next entry.
  A name that begins another one can be written over it, and then reads as the
  longer. An entry that reads as a name that does neither was created with
  it (`MatchesFound`): every entry has the bytes of its own name (`Written`), so
  that this name begins the one looked up, and is it. And the byte behind it
  belongs to its entry, which no other creation writes and no other deletion clears
  (`BehindName`). A deletion removes the entry of the name it was given, because an
  inode number has one entry at most (`OneEntry`).

PartitionsProofs:

- `TypeCorrect`, with bounds: mounts and freed memory together never exceed
  `MaxMounts`, and there are at least as many handles open as mounts that need one.
- `StaysHome`: a partition whose drive's name was neither cut nor used again
  stays on its drive, ready. `HomeInv` holds the same of every partition that is not in
  `moved`, in terms of the first mount of the list with the name (`OnFile`): a
  registration or removal elsewhere in the list moves positions, but never puts
  another mount of that name first.
- `SuperblocksStayHome`, for mount points that fit the room there is
  (`NamesFit`): until a name is used again, every flush writes a superblock where
  it already is. `SuperblocksInv` adds that what a partition has cached is what
  its file has at the sector it was read from.
- `DrivesImplemented`: the list of mounts implements DriveMap, for any mount points,
  names overlaid by old memory included, until such a name reads as another one. The
  stack of a name is a recursive function over the list (`Stacked`), with one
  solution (`StackedExists`, `StackedUnique`). One lemma, `Insertion`, serves both
  calls: a mount put before all others of its name goes on top of that name's stack
  and leaves the other stacks alone; a registration puts one in, and a removal,
  read backwards, does too.
- `NamesLeadBack`: `NameLeadsBack`, where no mount point that fills the room for a
  name has a digit in its last place (`CutNamesDiffer`); otherwise a name that was
  cut there can be the name of another partition. `NamesInv` says which number each
  position of the list was given (`Number`); `NameTellsNumber`: a name that fits
  ends in its number, and a name that was cut does not end in any. It uses of
  `Decimal` that different numbers print differently and none prints a "p".

FileSystemProofs:

- `TypeCorrect`. `WellFormed` adds to the type what keeps a step from leaving
  it. The lengths in a directory's block add up to no more than the block
  (`Divided`), so that an entry whose space is given to the one before never
  makes it too long. An inode that an entry leads to is in use, also when no path
  leads to that entry (`EntryOK`); and the inode of a call in progress is one
  that no entry leads to yet, but for the first entry of a directory being made
  (`Fresh`).
- `LinkedAreInUse`, `LinksAreDistinct`, `BlocksAreOwned`, `DeletionSucceeds`. One
  invariant, `Inv`, carries them: `WellFormed`, and `Core` until damage is done.
  `Core` has the structure of the disk: no two inodes share a block (`Apart`),
  the root's directory stands, an entry behind the first two leads to a file, or
  to a directory that leads back (`Listed`), and no two such entries lead to one
  inode (`Distinct`). The rest says what calls in progress add: an inode without
  a block has an empty list (`Unsized`), so that a growth appends the first
  block; blocks are marked but for that of a deletion half done (`BlocksMarked`);
  and the block a growth took is nobody's (`Growing`). The properties speak of
  what paths lead to; the invariant speaks of all directories, also those that
  a deleted parent has left behind, because a step on one that is still reached
  must not meet the other.
- Damage is excused because `Core` then fails: a block released under an inode
  that keeps it goes to the next growth, and `Apart` is lost. `DamageStays`: nothing
  undoes it.
- `DeletionSucceeds` rests on `Deleting`: `ext2_delete_dentry` looks the path up
  anew after the inode has been cleared, and still comes to it, because a walk
  never returns to an inode (`NoReturn`) and so does not pass through the cleared
  one. `VictimIs`: the entry it removes is the path's own, never one of the first
  two.
- `DataIsKept`: no step writes to the block of another file that a path leads to.
- `NamespaceImplemented`: the steps implement Namespace, whose `Link` and `Unlink`
  take effect at once. A file appears when its entry is written and is gone when its
  inode is cleared; the removal of the entry after that changes nothing, or brings
  to light an older file of the same name, which is a `Link`. All other steps
  stutter. `Core` has two parts for this. `Leading`: the directory that a creation
  looked up is still that of its path when it writes the entry. `Shadowed`: an
  entry behind another one of its name leads to no directory with files, because
  only a directory to which a path leads is given any; so that the removal of the
  entry before it uncovers one file and not a subtree. A directory has one path
  (`OnePath`), so that a change of one name changes the lookups of the paths
  through that name only (`OneNameChanges`).

Walks are a recursive function over the names of a path; `WalkExists` and
`WalksAgree` treat it as DirectoryProofs treats `Offset`. TLC checks `Inv` on the
instance of fs_calls.

FileBlocksProofs:

- `TypeCorrect`. What a growth gives to each pointer is computed from the number
  of blocks it asks for and the empty direct slots. A pointer of a file is a
  `Cell`: a slot, an entry of the indirect block, an entry of the double indirect
  block, or an entry below it. `Grant` says which of the granted blocks, counted
  in the order the allocator grants them, a cell gets; `GrantsDiffer`: no two
  cells get the same one, because the kinds of pointers take theirs one after the
  other and, under the double indirect block, each inner block takes one more
  than it has entries (uniqueness of division).
- `BytesAreCovered` and `DirectBlocksAreKept`, by `Filled`: every slot below the
  size has its block, and a file without pointer blocks is no larger than its
  slots; until something is spoiled, every block has its pointer (`Whole`).
  `EmptiesBehind`
  counts: the blocks a growth asks for, rounded up from the difference, reach every
  empty slot below the new size.
- `BlocksHaveOneOwner`, `ReferencesAreMarked` and `FilesAreDeletable`, with no
  assumption on memory: until a file is shrunk or grows past its direct blocks
  twice. `Exclusive` and `Marked` say that no two cells of any files hold the same
  block, and none a free one. A growth grants free blocks, which nobody has by the
  second part. A deletion releases the blocks of a list; that these are blocks of
  its file, which nobody else has by the first part, is the point: by
  `Whole` the assigned blocks are at least as many as the size asks for,
  so the load never goes on to memory nobody assigned, and `Lists` has one element
  or, when it meets more, none (`WholeIndices`, `ListsAre`). No block of a list stops the deletion
  (`NothingStops`). The theorems need no bound on the number of files, blocks or
  entries.

ByteIOProofs, for blocks of any size, files of any length, and a drive that may
refuse any access:

- `TypeCorrect`, `ReadsAreCorrect`, `AlignedWritesAreCorrect`, `CallsSucceed`.
  `IOInv` says where a call is in its range: whole blocks begin where the bytes
  moved so far end, a read's pointer has gone as far, and that of a write only
  past a head (`Placed`), which is why unaligned writes are wrong and not here;
  and the bytes up to there are in place (`Content`). The theorems make one
  exception, which the code makes necessary (`EveryRead` in section 3): nothing is
  said of the content when the drive has refused a pointer block and the range ends
  past the direct blocks (`Lost`). A range that ends before them never needs a
  pointer block, although its body may read one; and even a call gone astray moves
  no byte of an aligned read past the buffer.

Basics has the form of induction these proofs use: a nonempty set of natural
numbers has a least element, and a greatest if it is bounded.

Every property of the passing runs is stated by a theorem but one. `CallEnds` is
only model-checked: it is liveness under fairness, which is beyond the prover. The
library's induction theorems take an operator as parameter, which the provers
cannot instantiate; the argument by least elements replaces them where, as for
`Offset`, walks and `Stacked`, the recursion is over numbers.

## 5. Not modelled

- Failing accesses in InodeTable, FileBlocks, Directory and FileSystem; Volume has
  them, for bitmaps that are written in the same way, and ByteIO, for data. Crashes
  are in Volume and FileSystem; a crash leaves the disk as the steps before it
  did, so one inside the calls of the other modules would only add owners that
  have forgotten what they have.
- Damage to the process's own memory: a bitmap byte cleared past the buffer
  (`ext2_inode.c:666`), a block list longer than its array (`ext2_inode.c:569`).
  The model keeps the effect on the disk and the result of the call.
- What memory nobody assigned does beyond the disk: a block list may grow past its
  array, and a number outside the volume may be looked up in a group that does not
  exist. In FileBlocks such memory names blocks of the volume.
- Names that begin with a dot, and inode numbers of four bytes, in Directory.
- Triple indirect blocks; more than two sectors of descriptors.
- The order of the heap: the `next` pointer of a new partition is read before
  it is assigned, and its end is taken to be there.
- Subsections read from a standard input that is redirected to a file; the build
  with `__EAGER`, which maps files into memory; the commands of `ioctl_disk` that
  only copy a value to the caller.
- Deletion of the root and of "." and "..".
- Printed numbers of several digits: a partition's number is one character of its
  name. It matters to the room in a name only.
- The text of messages, dumps and listings, dates and identifiers, which
  influence nothing that is modelled; splitting of paths, which is taken as done.
  `ext2_unregister_partition` is declared and not implemented.

## 6. Plan

Done, in this order because each is what the next stands on: Volume with its
abstract pool and proofs; InodeTable with its proofs; FileBlocks; ByteIO;
Directory with its proofs; FileSystem with its abstract tree; Drive with its
abstract stacks, Partitions over it with its proofs; ErrorLog; then the proofs of
FileSystem, ByteIO and FileBlocks; then the refinements of Namespace and DriveMap,
stable lookups, and the names of partitions.

Next: the agreement of modules that model one part at different depth, such as
the chain of Directory and the list of entries in FileSystem.
