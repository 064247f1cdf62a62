------------------------------ MODULE MCVolume ------------------------------
(* Small volumes for TLC: mkfs has set bit 0 of every group (its metadata). *)
EXTENDS Volume
CONSTANTS o1, o2
MCMkfsUsed == [g \in Group |-> {0}]
MCOwner == {o1, o2}
Owners == {o1, o2}
OwnerSymmetry == {[o \in Owners |-> o], [o \in Owners |-> IF o = o1 THEN o2 ELSE o1]}
=============================================================================
