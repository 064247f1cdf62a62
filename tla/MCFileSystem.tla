---------------------------- MODULE MCFileSystem ----------------------------
(* A volume of a few inodes and blocks for TLC. *)
EXTENDS FileSystem
CONSTANTS n1, n2
=============================================================================
