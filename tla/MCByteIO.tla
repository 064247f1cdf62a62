------------------------------ MODULE MCByteIO ------------------------------
(* Files of a few blocks of a few bytes for TLC. *)
EXTENDS ByteIO
=============================================================================
