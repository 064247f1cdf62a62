----------------------------- MODULE Namespace -----------------------------
(***************************************************************************)
(* What callers of ext2_create_file and ext2_delete_file may rely on: a    *)
(* tree of paths, each with an inode of its own.  A call adds the path it  *)
(* is given below a directory, or removes it with everything below it, at  *)
(* once or not at all, also when the process ends in the middle.  Nothing  *)
(* is promised after damage, which module FileSystem defines.              *)
(***************************************************************************)
EXTENDS Naturals, Sequences, SequencesExt

CONSTANTS Path, Inode, Root

VARIABLES
    tree,      \* tree[p]: the inode p leads to, and whether it is a directory
    asked,     \* the call the caller is in and its path: not the tree's to choose
    damaged

IsDirectory(p) == p = <<>> \/ (p \in DOMAIN tree /\ tree[p].dir)
InUse == {Root} \cup {tree[p].ino : p \in DOMAIN tree}

Init == tree = <<>> /\ damaged = FALSE

(* A deletion may bring to light an older file of the same name.           *)
Link(p) ==
    /\ asked.op \in {"create", "delete"}
    /\ p \notin DOMAIN tree
    /\ IsDirectory(Front(p))
    /\ \E n \in Inode \ InUse, isDir \in BOOLEAN :
          tree' = [q \in DOMAIN tree \cup {p} |->
                      IF q = p THEN [ino |-> n, dir |-> isDir] ELSE tree[q]]

Unlink(p) ==
    /\ asked.op = "delete"
    /\ p \in DOMAIN tree
    /\ tree' = [q \in {r \in DOMAIN tree : ~IsPrefix(p, r)} |-> tree[q]]

Next ==
    \/ damaged'
    \/ UNCHANGED damaged /\ tree' # tree /\ (Link(asked.path) \/ Unlink(asked.path))

Spec == Init /\ [][Next]_<<tree, damaged>>
=============================================================================
