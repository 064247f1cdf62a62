----------------------------- MODULE BlockPool -----------------------------
(***************************************************************************)
(* What the block allocator of the demo file system promises its callers,  *)
(* without bitmaps, counters, caches or a disk: a pool of data blocks.     *)
(* A block is available, held by one owner (a file or a directory), or     *)
(* leaked: a crash may make an owner forget blocks, but it never puts a    *)
(* block back in the pool.  Volume implements this specification.          *)
(***************************************************************************)
CONSTANTS Block,    \* the blocks the pool was formatted with
          Owner     \* the callers that hold blocks

VARIABLES avail,    \* the blocks that may be granted
          own       \* own[o]: the blocks o holds

poolVars == <<avail, own>>

PoolInit ==
    /\ avail \in SUBSET Block
    /\ own = [o \in Owner |-> {}]

(* A granted block was available: no owner holds it and none will be given *)
(* it again before it is released.                                         *)
Grant(o) ==
    \E b \in avail :
        /\ avail' = avail \ {b}
        /\ own' = [own EXCEPT ![o] = @ \cup {b}]

Release(o, b) ==
    /\ b \in own[o]
    /\ avail' = avail \cup {b}
    /\ own' = [own EXCEPT ![o] = @ \ {b}]

Forget ==
    /\ own' \in [Owner -> SUBSET Block]
    /\ \A o \in Owner : own'[o] \subseteq own[o]
    /\ UNCHANGED avail

PoolNext ==
    \/ \E o \in Owner : Grant(o)
    \/ \E o \in Owner : \E b \in own[o] : Release(o, b)
    \/ Forget

PoolSpec == PoolInit /\ [][PoolNext]_poolVars
=============================================================================
