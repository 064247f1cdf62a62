----------------------------- MODULE MCDirectory -----------------------------
(* A directory of 64 bytes and a few names for TLC: "x" begins "xyzuvw", "abcd" *)
(* fills its entry, and "pqrst" does neither.                               *)
EXTENDS Directory

X == <<120>>
Xyzuvw == <<120, 121, 122, 117, 118, 119>>
Abcd == <<97, 98, 99, 100>>
Pqrst == <<112, 113, 114, 115, 116>>
MCName == {X, Xyzuvw, Abcd, Pqrst}

(* Zeros; letters; and where the first entry goes, an old long name.        *)
Zeros == [q \in 0 .. BlockBytes - 1 |-> 0]
MCLeftovers ==
    {Zeros, [q \in 0 .. BlockBytes - 1 |-> 101], Copied(Zeros, EntryAt(24, Xyzuvw, 11))}

(* Zeros; and a letter before them.                                         *)
MCMemory ==
    {[q \in 0 .. EXT2_NAME_LEN |-> 0], [q \in 0 .. EXT2_NAME_LEN |-> IF q = 0 THEN 101 ELSE 0]}
=============================================================================
