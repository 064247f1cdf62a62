------------------------------ MODULE DriveMap ------------------------------
(***************************************************************************)
(* What callers of register_drive and unregister_drive may rely on: every  *)
(* mount point has a stack of drives.  A registration puts a drive on top, *)
(* which hides the others, and an unregistration takes the top one off;    *)
(* no mount point is affected by what happens to another.                  *)
(***************************************************************************)
EXTENDS Sequences

CONSTANTS Point, Drive

VARIABLES
    stack,     \* stack[p]: the drives registered at p, the newest first
    spoiled    \* has a name been registered that reads as another one?

Init == stack = [p \in Point |-> <<>>] /\ spoiled = FALSE

Push(p) == \E d \in Drive : stack' = [stack EXCEPT ![p] = <<d>> \o @]
Pop(p) == stack[p] # <<>> /\ stack' = [stack EXCEPT ![p] = Tail(@)]

Next ==
    \/ spoiled'
    \/ UNCHANGED spoiled /\ \E p \in Point : Push(p) \/ Pop(p)

Spec == Init /\ [][Next]_<<stack, spoiled>>
=============================================================================
