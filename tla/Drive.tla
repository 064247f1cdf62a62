------------------------------- MODULE Drive --------------------------------
(***************************************************************************)
(* Image files registered as drives under mount points, and the commands   *)
(* to a drive.  The build is the one src/GNUmakefile makes: files are read *)
(* through handles, not mapped.                                            *)
(*                                                                         *)
(* Names are sequences of characters, because strncpy with the length of   *)
(* its source terminates nothing: what the memory held before goes on      *)
(* behind a name.  Memory that never held a mount is taken to be zero.     *)
(***************************************************************************)
EXTENDS Naturals, Sequences, FiniteSetsExt, SequencesExt

CONSTANTS
    Point,         \* the mount points callers use
    File,          \* the image files
    Stdin,         \* the file of handle 0
    Request,       \* the commands of ioctl_disk that callers use
    MaxMounts,     \* a bound on the mounts at one time
    MaxHandles     \* the files the process may open

ASSUME DriveAssumption ==
    /\ \A p \in Point : p \in Seq(STRING) /\ p # <<>>
    /\ Stdin \notin File
    /\ Request \subseteq {"idle", "poweroff", "lock", "unlock", "eject"}
    /\ MaxMounts \in Nat /\ MaxHandles \in Nat

Power == {"idle", "on", "off", "ejected"}

VARIABLES
    mounts,     \* the list of mounts, the newest first
    freed,      \* the memory of removed mounts, the last removed first
    opened,     \* the handles open
    spoiled     \* has a name been registered that reads as another one?

driveVars == <<mounts, freed, opened, spoiled>>

DriveInit == mounts = <<>> /\ freed = <<>> /\ opened = 0 /\ spoiled = FALSE

-----------------------------------------------------------------------------
At(p) == {i \in DOMAIN mounts : mounts[i].point = p}

(* get_mount: the newest of the mounts with the name.                      *)
IsRegistered(p) == At(p) # {}
First_Oldest(p) == Max(At(p))    \* seeded defect: the oldest
First(p) == Min(At(p))
get_drive(p) == mounts[First(p)]

(* The memory of a new mount is that of the mount removed last, if its     *)
(* memory is still free, and zero otherwise.                               *)
Zero == [point |-> <<>>, canEject |-> FALSE, power |-> "idle"]
Malloc == IF freed = <<>> THEN Zero ELSE Head(freed)

(* The characters of a name over what its memory held.                     *)
Overlaid(p, old) == p \o SubSeq(old, Len(p) + 1, Len(old))

(* can_eject and power_state are not assigned.                             *)
AddMount(p, f) ==
    LET name == Overlaid(p, Malloc.point) IN
    /\ Len(mounts) < MaxMounts
    /\ mounts' = <<[point |-> name, file |-> f, configured |-> FALSE,
                    canEject |-> Malloc.canEject, power |-> Malloc.power]>> \o mounts
    /\ freed' = IF freed = <<>> THEN <<>> ELSE Tail(freed)
    /\ spoiled' = (spoiled \/ name # p)

RegisterDrive_Closed(p, f) ==    \* seeded defect: the handle is not kept
    opened < MaxHandles /\ UNCHANGED opened /\ AddMount(p, f)

(* A file that is missing or cannot be opened changes nothing.             *)
RegisterDrive(p, f) ==
    /\ opened < MaxHandles
    /\ opened' = opened + 1
    /\ AddMount(p, f)

(* The handle is 0 whatever the file's name, and the first sector of the   *)
(* part is never used.                                                     *)
RegisterSubsection(p) == AddMount(p, Stdin) /\ UNCHANGED opened

Without_Header(p) ==    \* seeded defect: the list begins behind the mount
    SubSeq(mounts, First(p) + 1, Len(mounts))
Without(p) == RemoveAt(mounts, First(p))

(* remove_mount takes the newest off.  The handle stays open.              *)
UnregisterDrive(p) ==
    /\ IsRegistered(p)
    /\ mounts' = Without(p)
    /\ LET m == get_drive(p) IN
          freed' = <<[point |-> m.point, canEject |-> m.canEject, power |-> m.power]>> \o freed
    /\ UNCHANGED <<opened, spoiled>>

Configured(p) == [mounts EXCEPT ![First(p)].configured = TRUE]

InitDisk(p) ==
    /\ IsRegistered(p)
    /\ mounts' = Configured(p)
    /\ UNCHANGED <<freed, opened, spoiled>>

STATUS_READY(p) == IsRegistered(p) /\ get_drive(p).configured

(* The commands that change a drive; the others read, or fail.  Nothing    *)
(* looks at the state that they leave behind but the command to eject.     *)
Obeyed(d, request) ==
    CASE request = "idle" -> [d EXCEPT !.power = "idle"]
      [] request = "poweroff" -> [d EXCEPT !.power = "off"]
      [] request = "lock" -> [d EXCEPT !.canEject = FALSE]
      [] request = "unlock" -> [d EXCEPT !.canEject = TRUE]
      [] request = "eject" -> IF d.canEject THEN [d EXCEPT !.power = "ejected"] ELSE d

IoctlDisk(p, request) ==
    /\ IsRegistered(p)
    /\ mounts' = [mounts EXCEPT ![First(p)] = Obeyed(@, request)]
    /\ UNCHANGED <<freed, opened, spoiled>>

DriveNext ==
    \/ \E p \in Point :
        \/ \E f \in File : RegisterDrive(p, f)
        \/ RegisterSubsection(p) \/ UnregisterDrive(p) \/ InitDisk(p)
        \/ \E r \in Request : IoctlDisk(p, r)

DriveSpec == DriveInit /\ [][DriveNext]_driveVars

-----------------------------------------------------------------------------
Handles == Cardinality({i \in DOMAIN mounts : mounts[i].file # Stdin})

DriveTypeOK ==
    /\ mounts \in Seq([point : Seq(STRING), file : File \cup {Stdin}, configured : BOOLEAN,
                       canEject : BOOLEAN, power : Power])
    /\ freed \in Seq([point : Seq(STRING), canEject : BOOLEAN, power : Power])
    /\ Len(mounts) + Len(freed) <= MaxMounts
    /\ opened \in Handles .. MaxHandles
    /\ spoiled \in BOOLEAN

(* The drives at p among the first n mounts, for every n.                  *)
Stacked(ms, p) ==
    LET of[n \in 0 .. Len(ms)] ==
            IF n = 0 THEN <<>>
            ELSE IF ms[n].point = p THEN Append(of[n - 1], ms[n].file) ELSE of[n - 1]
    IN  of
StackOf(p) == Stacked(mounts, p)[Len(mounts)]

(* The list of mounts implements a stack of drives per mount point, as     *)
(* long as every name reads as the one registered.                         *)
DM == INSTANCE DriveMap WITH stack <- [p \in Point |-> StackOf(p)], Drive <- File \cup {Stdin}
DrivesRefined == DM!Spec

(* A handle is open for each drive and for nothing else.                   *)
HandlesOfMounts == opened = Handles

(* A part of a file that is registered as a drive is read from that file.  *)
SubsectionsReadable == \A i \in DOMAIN mounts : mounts[i].file # Stdin

(* What is registered under a name is found under it.                      *)
RegisteredIsFound == ~spoiled
=============================================================================
