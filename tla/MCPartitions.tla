---------------------------- MODULE MCPartitions ----------------------------
(* Two mount points, one the beginning of the other, for TLC. *)
EXTENDS Partitions
CONSTANTS f1, f2

MCPoint == {<<"h">>, <<"h", "p">>}
MCLba == {0, 1}
MCPlaces == {0}
MCDecimal == [n \in 0 .. 3 |-> ToString(n)]
Files == Permutations({f1, f2})
=============================================================================
