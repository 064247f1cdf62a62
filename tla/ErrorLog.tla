------------------------------ MODULE ErrorLog ------------------------------
(***************************************************************************)
(* The list of messages that EXT2_ERROR, EXT2_WARN, EXT2_INFO and          *)
(* EXT2_DEBUG keep in memory, with the limit that ext2_make_space is to    *)
(* enforce.  Of a message only its level is modelled.                      *)
(***************************************************************************)
EXTENDS Naturals, Sequences

CONSTANTS
    EXT2_MAX_ERRORS, EXT2_DELETE_CYCLE,
    MaxMessages      \* a bound on the calls between two deletions of the list

EXT2_ERROR_DEBUG == 0
EXT2_ERROR_INFO == 1
EXT2_ERROR_WARN == 2
EXT2_ERROR_ERROR == 3
Level == EXT2_ERROR_DEBUG .. EXT2_ERROR_ERROR

VARIABLES
    error_messages,            \* the levels of the messages, the newest first
    error_count,
    error_deletion_counter

vars == <<error_messages, error_count, error_deletion_counter>>

Init == error_messages = <<>> /\ error_count = 0 /\ error_deletion_counter = 0

(* ext2_make_space: the oldest messages go, and a warning comes.           *)
WithoutOldest ==
    LET kept == IF Len(error_messages) < EXT2_DELETE_CYCLE THEN 0
                ELSE Len(error_messages) - EXT2_DELETE_CYCLE
    IN  SubSeq(error_messages, 1, kept)
MadeSpace == <<EXT2_ERROR_WARN>> \o WithoutOldest

(* Neither branch increments error_count.                                  *)
Full == error_count >= EXT2_MAX_ERRORS
Counts ==
    IF Full THEN /\ error_count' = error_count - EXT2_DELETE_CYCLE
                 /\ error_deletion_counter' = error_deletion_counter + 1
    ELSE UNCHANGED <<error_count, error_deletion_counter>>

ext2_add_error(level) ==
    /\ Len(error_messages) < MaxMessages
    /\ error_messages' = <<level>> \o (IF Full THEN MadeSpace ELSE error_messages)
    /\ Counts

(* ext2_stacktrace logs a message of its own, so that there is one to      *)
(* print, and deletes them all.                                            *)
ext2_stacktrace == error_messages' = <<>> /\ Counts

Next == ext2_stacktrace \/ \E level \in Level : ext2_add_error(level)

Spec == Init /\ [][Next]_vars

(* The list never holds more messages than the limit after which the       *)
(* oldest are said to be deleted.                                          *)
LimitKept == Len(error_messages) <= EXT2_MAX_ERRORS
=============================================================================
