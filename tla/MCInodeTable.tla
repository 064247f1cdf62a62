---------------------------- MODULE MCInodeTable ----------------------------
(* Small inode tables for TLC: bytes of two or three bits. *)
EXTENDS InodeTable, TLC
FileSymmetry == Permutations(File)
=============================================================================
