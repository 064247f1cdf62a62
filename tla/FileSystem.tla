----------------------------- MODULE FileSystem -----------------------------
(***************************************************************************)
(* ext2_create_file, ext2_write_file and ext2_delete_file run against each *)
(* other on one volume: inodes, blocks and directories together.  A call   *)
(* is a sequence of steps, each with at most one disk write, and the       *)
(* process may end between any two of them; what the disk holds stays.     *)
(*                                                                         *)
(* A file has at most one block: module FileBlocks has the larger ones.    *)
(* Names are equally long and end inside their entries, so that only what  *)
(* a block held before can hide them: module Directory has the others.     *)
(* The volume has so few inodes that the byte ext2_delete_inode clears     *)
(* belongs to none of them: module InodeTable has the others.  The counts  *)
(* and their flush, and the end of the process inside a flush, are those   *)
(* of module Volume.                                                       *)
(***************************************************************************)
EXTENDS Naturals, Sequences, FiniteSetsExt, SequencesExt

CONSTANTS
    Inode, Root,     \* the inode numbers, and EXT2_ROOT_INO_INDEX
    Block,           \* the blocks of files and directories
    Name,            \* the names callers use
    Dot, DotDot,     \* the names of the first two entries of a directory
    Depth,           \* a bound: the longest path a caller uses
    DirRoom,         \* the entries a directory has room for besides those two
    MaxCrashes       \* a bound on the ends of the process inside a call

ASSUME FileSystemAssumption ==
    /\ Inode \subseteq Nat \ {0} /\ IsFiniteSet(Inode) /\ Root \in Inode
    /\ Block \subseteq Nat \ {0} /\ IsFiniteSet(Block) /\ Block # {}
    /\ Dot # DotDot /\ {Dot, DotDot} \cap Name = {}
    /\ Depth \in Nat \ {0}
    /\ DirRoom \in Nat
    /\ MaxCrashes \in Nat

Path == BoundedSeq(Name, Depth) \ {<<>>}
Type == {"regular", "directory"}

VARIABLES
    imap,      \* the inode numbers whose bits are set
    bmap,      \* the blocks whose bits are set
    inode,     \* inode[n]: i_mode's type, i_size in blocks, i_block without zeros
    dents,     \* dents[b]: the entries a walk of block b meets, <<>> if it never ends
    data,      \* data[b]: the file whose data the block holds, 0 if none
    soiled,    \* the blocks with bytes that run into names written over them
    call,      \* the call the process is in
    failed,    \* the last call, if it failed after it had begun to write
    crashes,   \* how often the process has ended inside a call
    damaged    \* has a file been left, or written, with blocks that are not its own?

disk == <<imap, bmap, inode, dents, data, soiled>>
observed == <<failed, crashes, damaged>>
vars == <<disk, call, observed>>

-----------------------------------------------------------------------------
Entry(name, n, room) == [name |-> name, ino |-> n, room |-> room]
EmptyDirectory(self, parent) ==
    <<Entry(Dot, self, 1), Entry(DotDot, parent, DirRoom + 1)>>

(* The first block of a file, which is all that reads and writes of one    *)
(* block and the list of its blocks consider.                              *)
BlockOf(n) == Head(inode[n].blocks)

HoldsEntries(n) == n # 0 /\ inode[n].type = "directory" /\ inode[n].size = 1

(* ext2_inode_from_path_and_parent: the first entry with the name, or 0.   *)
Find(n, name) ==
    IF ~HoldsEntries(n) \/ BlockOf(n) \in soiled THEN 0
    ELSE LET s == dents[BlockOf(n)]
             matches == {i \in DOMAIN s : s[i].name = name}
         IN  IF matches = {} THEN 0 ELSE s[Min(matches)].ino

(* ext2_path_to_inode: the inodes that the walk of a path comes to.        *)
Reached(p) ==
    LET at[i \in 0 .. Len(p)] == IF i = 0 THEN Root ELSE Find(at[i - 1], p[i])
    IN  at
Lookup(p) == Reached(p)[Len(p)]

(* Lengths of zero keep the walk of a directory from ending.               *)
WalkEnds(n) == HoldsEntries(n) => dents[BlockOf(n)] # <<>>
LookupEnds(p) == \A i \in 0 .. Len(p) - 1 : WalkEnds(Reached(p)[i])

(* A creation takes the space behind the last entry, and a deletion gives  *)
(* the space of an entry to the one before.  The first entry has none      *)
(* before it: its length becomes zero.                                     *)
HasRoom_One(s) == s[Len(s)].room >= 1    \* seeded defect: off by one
HasRoom(s) == s[Len(s)].room >= 2

WithEntry(s, name, n) ==
    Append([s EXCEPT ![Len(s)].room = 1], Entry(name, n, s[Len(s)].room - 1))

WithoutEntry_Next(s, i) ==    \* seeded defect: the entry behind goes instead
    IF i = Len(s) THEN s ELSE RemoveAt([s EXCEPT ![i].room = @ + s[i + 1].room], i + 1)
WithoutEntry(s, i) ==
    IF i = 1 THEN <<>> ELSE RemoveAt([s EXCEPT ![i - 1].room = @ + s[i].room], i)

-----------------------------------------------------------------------------
Idle == [op |-> "none", pc |-> "idle", path |-> <<>>, type |-> "none",
         dir |-> 0, ino |-> 0, blk |-> 0]

Init ==
    /\ imap = {Root}
    /\ bmap = {Min(Block)}
    /\ inode = [n \in Inode |->
            IF n = Root THEN [type |-> "directory", size |-> 1, blocks |-> <<Min(Block)>>]
            ELSE [type |-> "none", size |-> 0, blocks |-> <<>>]]
    /\ dents = [b \in Block |-> IF b = Min(Block) THEN EmptyDirectory(Root, Root) ELSE <<>>]
    /\ data = [b \in Block |-> 0]
    /\ soiled = {}
    /\ call = Idle
    /\ failed = "none"
    /\ crashes = 0
    /\ damaged = FALSE

At(pc) == call.pc = pc
Goto(pc) == call' = [call EXCEPT !.pc = pc]
Return == call' = Idle /\ UNCHANGED observed
Fail == call' = Idle /\ failed' = call.op /\ UNCHANGED <<crashes, damaged>>

(* A call begins by looking up a path: its parent's for a creation.  The   *)
(* early returns before the first write change nothing and are no steps.   *)
Begin(op, p, n, pc) ==
    /\ call' = [Idle EXCEPT !.op = op, !.path = p, !.ino = n, !.pc = pc]
    /\ failed' = "none"

WalksOn(op, p) ==
    /\ At("idle") /\ ~LookupEnds(p)
    /\ Begin(op, p, 0, "walking")
    /\ UNCHANGED <<disk, crashes, damaged>>

(* The first disk write of a creation is that of ext2_allocate_inode.      *)
Marked_Not(n) == imap    \* seeded defect: the bitmap is not written
Marked(n) == imap \cup {n}

Create(p, t) ==
    LET d == Lookup(Front(p))
        n == Min(Inode \ imap) IN
    /\ At("idle") /\ LookupEnds(Front(p))
    /\ d # 0 /\ inode[d].type = "directory"
    /\ imap # Inode
    /\ imap' = Marked(n)
    /\ call' = [op |-> "create", pc |-> "inode", path |-> p, type |-> t,
                dir |-> d, ino |-> n, blk |-> 0]
    /\ failed' = "none"
    /\ UNCHANGED <<bmap, inode, dents, data, soiled, crashes, damaged>>

(* A write only grows a file that is too short for it.  The inode of a     *)
(* file whose deletion was cut short is taken for a file: it has kept its  *)
(* i_block, and a growth adds a block behind it.                           *)
Write(p) ==
    LET n == Lookup(p) IN
    /\ At("idle") /\ LookupEnds(p)
    /\ n # 0 /\ inode[n].type # "directory"
    /\ Begin("write", p, n, IF inode[n].size = 0 THEN "grow" ELSE "data")
    /\ damaged' = (damaged \/ (inode[n].type = "none" /\ inode[n].blocks # <<>>))
    /\ UNCHANGED <<disk, crashes>>

(* ext2_delete_file begins with the bits of the blocks, and fails when one *)
(* is not set.                                                             *)
Owned(n) == IF inode[n].size = 0 THEN {} ELSE {BlockOf(n)}

Delete(p) ==
    LET n == Lookup(p) IN
    /\ At("idle") /\ LookupEnds(p)
    /\ n # 0 /\ Owned(n) \subseteq bmap
    /\ bmap' = bmap \ Owned(n)
    /\ Begin("delete", p, n, "erase")
    /\ UNCHANGED <<imap, inode, dents, data, soiled, crashes, damaged>>

DeleteFails(p) ==
    LET n == Lookup(p) IN
    /\ At("idle") /\ LookupEnds(p)
    /\ n # 0 /\ ~(Owned(n) \subseteq bmap)
    /\ failed' = "delete"
    /\ UNCHANGED <<disk, call, crashes, damaged>>

-----------------------------------------------------------------------------
(* ext2_create_file and ext2_resize_file, write by write.                  *)
InitializeInode ==
    /\ At("inode")
    /\ inode' = [inode EXCEPT ![call.ino] =
                    [type |-> call.type, size |-> 0, blocks |-> <<>>]]
    /\ Goto(IF call.type = "directory" THEN "grow" ELSE "link")
    /\ UNCHANGED <<imap, bmap, dents, data, soiled, observed>>

Taken_Not(b) == bmap    \* seeded defect: the bitmap is not written
Taken(b) == bmap \cup {b}

AllocateBlock ==
    /\ At("grow") /\ bmap # Block
    /\ LET b == Min(Block \ bmap) IN
        /\ bmap' = Taken(b)
        /\ call' = [call EXCEPT !.pc = "map", !.blk = b]
    /\ UNCHANGED <<imap, inode, dents, data, soiled, observed>>

NoFreeBlock == At("grow") /\ bmap = Block /\ Fail /\ UNCHANGED disk

AfterGrowth_Link == IF call.op = "create" THEN "link" ELSE "data"    \* seeded defect: no "." and ".."
AfterGrowth == IF call.op = "create" THEN "init" ELSE "data"

WriteGrownInode ==
    /\ At("map")
    /\ inode' = [inode EXCEPT ![call.ino].size = 1,
                              ![call.ino].blocks = Append(@, call.blk)]
    /\ Goto(AfterGrowth)
    /\ UNCHANGED <<imap, bmap, dents, data, soiled, observed>>

(* Only the headers and the names of the first two entries are new; the    *)
(* other bytes of the block are what it held before.                       *)
InitializeDirectory ==
    /\ At("init")
    /\ dents' = [dents EXCEPT ![BlockOf(call.ino)] = EmptyDirectory(call.ino, call.dir)]
    /\ data' = [data EXCEPT ![BlockOf(call.ino)] = 0]
    /\ Goto("link")
    /\ UNCHANGED <<imap, bmap, inode, soiled, observed>>

Entries(n) == dents[BlockOf(n)]

CreateDirectoryEntry ==
    /\ At("link") /\ WalkEnds(call.dir) /\ HasRoom(Entries(call.dir))
    /\ dents' = [dents EXCEPT ![BlockOf(call.dir)] =
                    WithEntry(@, Last(call.path), call.ino)]
    /\ Return
    /\ UNCHANGED <<imap, bmap, inode, data, soiled>>

(* Neither the inode nor the block of a directory is given back.           *)
NoRoomForEntry ==
    /\ At("link") /\ WalkEnds(call.dir) /\ ~HasRoom(Entries(call.dir))
    /\ Fail
    /\ UNCHANGED disk

(* The caller's bytes fill the block, and leave zeros where names written  *)
(* over them later would end, or not.                                      *)
WriteData ==
    /\ At("data")
    /\ LET b == BlockOf(call.ino) IN
        /\ data' = [data EXCEPT ![b] = call.ino]
        /\ dents' = [dents EXCEPT ![b] = <<>>]
        /\ soiled' \in {soiled \cup {b}, soiled \ {b}}
    /\ Return
    /\ UNCHANGED <<imap, bmap, inode>>

-----------------------------------------------------------------------------
(* The rest of ext2_delete_file: the inode and its bit, then the entry.    *)
(* i_block is kept.  The bit of the inode stays set: the byte cleared is   *)
(* another one.                                                            *)
Erased_Sized(n) == [inode[n] EXCEPT !.type = "none"]    \* seeded defect: i_size is kept
Erased(n) == [inode[n] EXCEPT !.type = "none", !.size = 0]

DeleteInode ==
    /\ At("erase")
    /\ inode' = [inode EXCEPT ![call.ino] = Erased(call.ino)]
    /\ Goto("unlink")
    /\ UNCHANGED <<imap, bmap, dents, data, soiled, observed>>

(* ext2_delete_dentry looks both paths up anew, and removes the first      *)
(* entry with the inode's number.                                          *)
DeleteDentry ==
    LET d == Lookup(Front(call.path))
        n == Lookup(call.path)
        victims == IF HoldsEntries(d) THEN {i \in DOMAIN Entries(d) : Entries(d)[i].ino = n}
                   ELSE {} IN
    /\ At("unlink") /\ LookupEnds(call.path)
    /\ IF n = 0 \/ victims = {} THEN Fail /\ UNCHANGED dents
       ELSE /\ dents' = [dents EXCEPT ![BlockOf(d)] = WithoutEntry(@, Min(victims))]
            /\ Return
    /\ UNCHANGED <<imap, bmap, inode, data, soiled>>

-----------------------------------------------------------------------------
(* The process ends inside a call.  The first of a deletion's writes has   *)
(* given the block away while the inode still leads to it.                 *)
Crash ==
    /\ ~At("idle") /\ crashes < MaxCrashes
    /\ call' = Idle
    /\ crashes' = crashes + 1
    /\ damaged' = (damaged \/ (At("erase") /\ inode[call.ino].size = 1))
    /\ failed' = "none"
    /\ UNCHANGED disk

Step ==
    \/ InitializeInode \/ AllocateBlock \/ NoFreeBlock \/ WriteGrownInode
    \/ InitializeDirectory \/ CreateDirectoryEntry \/ NoRoomForEntry \/ WriteData
    \/ DeleteInode \/ DeleteDentry

Call(p) ==
    \/ Write(p) \/ Delete(p) \/ DeleteFails(p)
    \/ \E t \in Type : Create(p, t)
    \/ WalksOn("create", Front(p)) \/ WalksOn("write", p) \/ WalksOn("delete", p)

Next == Step \/ Crash \/ \E p \in Path : Call(p)

(* A call goes on as long as it can: the process is never held up between  *)
(* two steps.  Whether it is called, and whether it ends, is not up to it. *)
Fairness == WF_vars(Step)

Spec == Init /\ [][Next]_vars /\ Fairness

-----------------------------------------------------------------------------
(* The paths that lead to a file: a cleared inode is none.                 *)
Tree ==
    LET found == [p \in Path |-> Lookup(p)]
        IsFile(n) == n # 0 /\ inode[n].type # "none"
    IN  [p \in {q \in Path : IsFile(found[q])} |->
            [ino |-> found[p], dir |-> inode[found[p]].type = "directory"]]

LiveDirs ==
    {n \in {Root} \cup {e.ino : e \in {f \in Range(Tree) : f.dir}} : HoldsEntries(n)}

(* The entries of the directories a path leads to, without "." and "..".   *)
Links == UNION {{<<d, i>> : i \in 3 .. Len(Entries(d))} : d \in LiveDirs}
NumberAt(l) == Entries(l[1])[l[2]].ino
Linked == {NumberAt(l) : l \in Links}

CallType ==
    [op : {"none", "create", "write", "delete"},
     pc : {"idle", "walking", "inode", "grow", "map", "init", "link", "data",
           "erase", "unlink"},
     path : Path \cup {<<>>}, type : Type \cup {"none"},
     dir : Inode \cup {0}, ino : Inode \cup {0}, blk : Block \cup {0}]

TypeOK ==
    /\ imap \subseteq Inode /\ bmap \subseteq Block /\ soiled \subseteq Block
    /\ inode \in [Inode -> [type : Type \cup {"none"}, size : 0 .. 1, blocks : Seq(Block)]]
    /\ dents \in [Block -> Seq([name : Name \cup {Dot, DotDot}, ino : Inode,
                                room : 1 .. DirRoom + 2])]
    /\ data \in [Block -> Inode \cup {0}]
    /\ call \in CallType
    /\ failed \in {"none", "create", "write", "delete"}
    /\ crashes \in 0 .. MaxCrashes
    /\ damaged \in BOOLEAN

(* Every entry a path can lead to has an inode that is marked in use, and  *)
(* a directory among them has its block and leads back to where it is      *)
(* listed: an entry is written last, so that no end of the process and no  *)
(* failure leaves an entry for something half made.                        *)
LinkedInUse ==
    ~damaged => \A l \in Links :
        LET n == NumberAt(l) IN
        /\ n \in imap
        /\ inode[n].type = "directory" =>
                HoldsEntries(n) /\ Len(Entries(n)) >= 2 /\ Entries(n)[2].ino = l[1]

(* No two entries lead to the same inode, and none to the root: the        *)
(* directories form a tree.                                                *)
LinksDistinct ==
    ~damaged => /\ Root \notin Linked
                /\ \A l1, l2 \in Links : NumberAt(l1) = NumberAt(l2) => l1 = l2

(* The block of every file and directory that is listed is marked, except  *)
(* while that file is being deleted, and is nobody else's.                 *)
BlocksOwned ==
    ~damaged => \A n \in Linked \cup {Root} :
        /\ Owned(n) \subseteq bmap \/ (At("erase") /\ call.ino = n)
        /\ \A m \in Linked \cup {Root} : m # n => Owned(m) \cap Owned(n) = {}

(* A deletion whose path was found goes through, also that of a file whose *)
(* first deletion was cut short.                                           *)
DeleteSucceeds == ~damaged => failed # "delete"

(* What a file was last given to hold stays in it as long as a path leads  *)
(* to the file, whatever happens to other files, blocks and directories,   *)
(* and wherever the process ends.                                          *)
HoldsItsData(n) == inode[n].size = 1 /\ data[BlockOf(n)] = n
RegularFiles == {e.ino : e \in {f \in Range(Tree) : ~f.dir}}
DataKept ==
    [][~damaged' => \A n \in RegularFiles \cap RegularFiles' :
            HoldsItsData(n) => HoldsItsData(n)']_vars

(* The file system implements a tree in which a creation and a deletion    *)
(* each happen at once: at the write of the entry, and at the write of the *)
(* cleared inode.                                                          *)
NS == INSTANCE Namespace WITH tree <- Tree, asked <- [op |-> call.op, path |-> call.path]
NamespaceRefined == NS!Spec

(* Every call comes to its end, or is ended with the process: no directory *)
(* that a path leads to makes a walk go on forever.                        *)
CallEnds == ~At("idle") ~> (At("idle") \/ damaged)

-----------------------------------------------------------------------------
(* A creation that returns without an error has made its path lead to      *)
(* something.                                                              *)
CreatedIsFound ==
    [][CreateDirectoryEntry => \A p \in {call.path} : Lookup(p)' # 0]_vars

(* Everything marked belongs to something listed, between calls.           *)
NoLeak ==
    At("idle") /\ ~damaged =>
        /\ imap = Linked \cup {Root}
        /\ bmap = UNION {Owned(n) : n \in imap}

(* A file shows its own data, or none.                                     *)
NoForeignData ==
    ~damaged => \A n \in RegularFiles :
        inode[n].size = 1 /\ ~At("data") => data[BlockOf(n)] \in {0, n}
=============================================================================
