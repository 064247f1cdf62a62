---------------------------- MODULE MCFileBlocks ----------------------------
(* Small block maps for TLC. *)
EXTENDS FileBlocks, TLC
FileSymmetry == Permutations(File)

(* The state without what nothing reads any more: the inodes of deleted    *)
(* files, which a creation initialises, and what blocks hold that no file  *)
(* leads to as pointer blocks, which are written anew when granted.  Once  *)
(* spoiled, a load may return anything from pointer blocks, and of the     *)
(* blocks only their number and which slots name free ones are told apart. *)
Pointing ==
    LET below(bs) == bs \cup {ptr[b][e] : b \in bs \ {0}, e \in Entry}
    IN  {i_block[f][Single] : f \in live} \cup below({i_block[f][Double] : f \in live})
Names(b) == IF b = 0 THEN "none" ELSE IF b \in free THEN "free" ELSE "marked"
Seen ==
    <<live, size, spoiled,
      IF spoiled
         THEN <<Cardinality(free), [f \in live |-> [s \in Slot |-> Names(i_block[f][s])]]>>
         ELSE <<free, [f \in live |-> i_block[f]], [b \in Pointing \ {0} |-> ptr[b]]>> >>
=============================================================================
