----------------------------- MODULE Partitions -----------------------------
(***************************************************************************)
(* The list of registered partitions over the drives of module Drive: a    *)
(* partition keeps the name of its drive, not the drive, and a cached      *)
(* superblock, which a flush writes to whatever drive has the name then.   *)
(*                                                                         *)
(* Of a volume only its superblock is modelled, and of that only which     *)
(* volume it belongs to: module Volume has the rest.  Memory that never    *)
(* held a partition is taken to be zero, so that the list has an end.      *)
(***************************************************************************)
EXTENDS Drive

CONSTANTS
    Lba,              \* the sectors that callers name as the start of a partition
    SectorLimit,      \* 2^32 divided by the size of a sector
    Places,           \* the sectors with a superblock in every image file
    NameRoom,         \* the characters there is room for in a name: 31
    Decimal,          \* Decimal[n]: the number n as it is printed, as one character
    MaxPartitions     \* a bound on the list

ASSUME PartitionsAssumption ==
    /\ Lba \subseteq Nat
    /\ SectorLimit \in Nat \ {0}
    /\ Places \subseteq 0 .. SectorLimit - 1
    /\ NameRoom \in Nat \ {0} /\ MaxPartitions \in Nat
    /\ \A m, n \in 0 .. MaxPartitions :
          Decimal[n] \in STRING \ {"p"} /\ (Decimal[m] = Decimal[n] => m = n)

Volume == File \X Places

VARIABLES
    image,         \* image[f][s]: the volume whose superblock is at sector s of f
    partitions,    \* the list of partitions, the oldest first
    moved          \* the partitions whose drive's name was used again since

vars == <<driveVars, image, partitions, moved>>

Home == [f \in File |-> [s \in Places |-> <<f, s>>]]

Init ==
    /\ DriveInit
    /\ image = Home
    /\ partitions = <<>>
    /\ moved = {}

-----------------------------------------------------------------------------
(* read_disk and write_disk: sector * sector_size is 32 bits wide, and a   *)
(* transfer from a handle that is no image fails.                          *)
Sector(lba) == lba % SectorLimit
Reaches(d, lba) ==
    /\ IsRegistered(d) /\ get_drive(d).file \in File
    /\ Sector(lba) \in Places
Superblock(d, lba) == image[get_drive(d).file][Sector(lba)]

(* snprintf keeps what there is room for.                                  *)
Cut(s) == SubSeq(s, 1, Min({Len(s), NameRoom}))
PartitionName(d, id) == Cut(d \o <<"p", Decimal[id]>>)

(* The first two partitions both are number 0: the walk that counts the    *)
(* list stops at its last element.                                         *)
NextId_Zero == 0    \* seeded defect: the walk does not count
NextId == IF partitions = <<>> THEN 0 ELSE Len(partitions) - 1

(* ext2_check_status: the disk is initialised if it is not ready.          *)
RegisterPartition(d, lba) ==
    /\ Len(partitions) < MaxPartitions
    /\ Reaches(d, lba)
    /\ mounts' = Configured(d)
    /\ partitions' = Append(partitions,
            [name |-> PartitionName(d, NextId), disk |-> Cut(d), lba |-> lba,
             volume |-> Superblock(d, lba), flush |-> FALSE,
             drive |-> d, file |-> get_drive(d).file])
    /\ UNCHANGED <<freed, opened, spoiled, image, moved>>

(* No superblock can be read: the disk stays initialised.                  *)
RegisterPartitionFails(d, lba) ==
    /\ IsRegistered(d) /\ ~Reaches(d, lba)
    /\ mounts' = Configured(d)
    /\ UNCHANGED <<freed, opened, spoiled, image, partitions, moved>>

(* An allocation or a release changes the cached counts.                   *)
FlushRequired(i) ==
    /\ partitions' = [partitions EXCEPT ![i].flush = TRUE]
    /\ UNCHANGED <<driveVars, image, moved>>

(* The superblocks that the partitions of a set write, in the order of the *)
(* list; refused writes are not noticed.                                   *)
Writers_Newest(is, f, s) ==    \* seeded defect: the newest drive instead of the named one
    {i \in is : mounts # <<>> /\ Head(mounts).file = f /\ Sector(partitions[i].lba) = s}
Writers(is, f, s) ==
    {i \in is : LET q == partitions[i] IN
        Reaches(q.disk, q.lba) /\ get_drive(q.disk).file = f /\ Sector(q.lba) = s}

Flush(is) ==
    /\ image' = [f \in File |-> [s \in Places |->
            IF Writers(is, f, s) = {} THEN image[f][s]
            ELSE partitions[Max(Writers(is, f, s))].volume]]
    /\ partitions' = [i \in DOMAIN partitions |->
            IF i \in is THEN [partitions[i] EXCEPT !.flush = FALSE] ELSE partitions[i]]
    /\ UNCHANGED <<driveVars, moved>>

ext2_sync(i) == Flush({i})

ext2_flush_all_partitions == Flush({i \in DOMAIN partitions : partitions[i].flush})

(* The calls of module Drive.  A name that is registered again or removed  *)
(* no longer stands for the drive that partitions were registered on.      *)
OnDrive(p) == {i \in DOMAIN partitions : partitions[i].disk = p}

DriveCall ==
    /\ \E p \in Point :
        \/ /\ moved' = moved \cup OnDrive(p)
           /\ \/ \E f \in File : RegisterDrive(p, f)
              \/ RegisterSubsection(p)
              \/ UnregisterDrive(p)
        \/ /\ moved' = moved
           /\ InitDisk(p) \/ \E r \in Request : IoctlDisk(p, r)
    /\ UNCHANGED <<image, partitions>>

Next ==
    \/ DriveCall
    \/ \E p \in Point, l \in Lba : RegisterPartition(p, l) \/ RegisterPartitionFails(p, l)
    \/ \E i \in DOMAIN partitions : FlushRequired(i) \/ ext2_sync(i)
    \/ ext2_flush_all_partitions

Spec == Init /\ [][Next]_vars

-----------------------------------------------------------------------------
(* get_partition: the first partition of the list with the name, or 0.     *)
get_partition(name) ==
    LET found == {i \in DOMAIN partitions : partitions[i].name = name}
    IN  IF found = {} THEN 0 ELSE Min(found)

(* ext2_disk_from_partition: what is before the last p.                    *)
DiskFromPartition(name) ==
    SubSeq(name, 1, Max({i \in DOMAIN name : name[i] = "p"}) - 1)

NameFits(i) == Len(partitions[i].drive) + 2 <= NameRoom

Named == {PartitionName(d, id) : d \in Point, id \in 0 .. MaxPartitions}

TypeOK ==
    /\ DriveTypeOK
    /\ image \in [File -> [Places -> Volume]]
    /\ partitions \in Seq([name : Named, disk : Seq(STRING), lba : Lba, volume : Volume,
                           flush : BOOLEAN, drive : Point, file : File])
    /\ Len(partitions) <= MaxPartitions
    /\ moved \subseteq DOMAIN partitions

(* A partition whose drive's name was not used again is on the drive it    *)
(* was registered on, and that is ready, whatever happened to other names, *)
(* and however many drives the name has hidden.                            *)
AtHome ==
    ~spoiled => \A i \in DOMAIN partitions \ moved :
        LET q == partitions[i] IN
        q.disk = q.drive => /\ STATUS_READY(q.disk)
                            /\ get_drive(q.disk).file = q.file

(* Flushes leave every superblock where its volume is, as long as no name  *)
(* of a drive with partitions was used again.                              *)
SuperblocksAtHome == ~spoiled /\ moved = {} => image = Home

(* Every name but the second partition's leads back to its partition, and  *)
(* to its drive.                                                           *)
NameLeadsBack ==
    \A i \in DOMAIN partitions : NameFits(i) =>
        LET q == partitions[i] IN
        /\ DiskFromPartition(q.name) = q.drive
        /\ i # 2 => get_partition(q.name) = i

-----------------------------------------------------------------------------
(* A flush writes to the drive the partition was registered on, or not.    *)
FlushesAtHome ==
    \A i \in DOMAIN partitions :
        partitions[i].flush /\ Reaches(partitions[i].disk, partitions[i].lba)
            => get_drive(partitions[i].disk).file = partitions[i].file

(* Partitions of one drive that start at different sectors are different   *)
(* volumes.                                                                *)
VolumesDistinct ==
    \A i, j \in DOMAIN partitions :
        /\ partitions[i].file = partitions[j].file
        /\ partitions[i].lba # partitions[j].lba
        => partitions[i].volume # partitions[j].volume

(* Every partition is found under its name.                                *)
NamesDistinct ==
    \A i \in DOMAIN partitions : get_partition(partitions[i].name) = i

(* A drive with partitions has not been switched off.                      *)
PoweredOn ==
    \A i \in DOMAIN partitions : IsRegistered(partitions[i].disk) =>
        get_drive(partitions[i].disk).power \notin {"off", "ejected"}
=============================================================================
