-------------------------- MODULE PartitionsProofs --------------------------
(***************************************************************************)
(* Theorems of module Partitions, for every value of its constants: what   *)
(* the list of partitions and the list of mounts under it are, that a      *)
(* partition stays on its drive whatever happens to other names, that      *)
(* flushes then write every superblock where it belongs, that the mounts   *)
(* implement a stack of drives per name, and where names lead.             *)
(***************************************************************************)
EXTENDS Partitions, FiniteSetTheorems, Basics, TLAPS

-----------------------------------------------------------------------------
(* Numbers and sequences.                                                  *)

LEMMA MinIsLeast ==
    ASSUME NEW S \in SUBSET Nat, S # {}
    PROVE  Min(S) \in S /\ \A y \in S : Min(S) <= y
  BY LeastElement DEF Min

LEMMA MaxIsElement ==
    ASSUME NEW n \in Nat, NEW S \in SUBSET (1 .. n), S # {}
    PROVE  Max(S) \in S
<1>1. S \in SUBSET (0 .. n)
  OBVIOUS
<1> QED
  BY <1>1, GreatestElement DEF Max

LEMMA RemoveAtProperties ==
    ASSUME NEW S, NEW s \in Seq(S), NEW k \in 1 .. Len(s)
    PROVE  /\ RemoveAt(s, k) \in Seq(S)
           /\ Len(RemoveAt(s, k)) = Len(s) - 1
           /\ \A i \in 1 .. Len(s) - 1 :
                 RemoveAt(s, k)[i] = IF i < k THEN s[i] ELSE s[i + 1]
  BY Excision DEF RemoveAt

(* A list with a new element before it.                                    *)
LEMMA PushProperties ==
    ASSUME NEW S, NEW s \in Seq(S), NEW x \in S
    PROVE  /\ <<x>> \o s \in Seq(S)
           /\ Len(<<x>> \o s) = Len(s) + 1
           /\ (<<x>> \o s)[1] = x
           /\ \A i \in 1 .. Len(s) : (<<x>> \o s)[i + 1] = s[i]
<1>1. <<x>> \in Seq(S) /\ Len(<<x>>) = 1 /\ <<x>>[1] = x /\ Len(s) \in Nat
  BY LenProperties
<1>2. /\ <<x>> \o s \in Seq(S)
      /\ Len(<<x>> \o s) = Len(<<x>>) + Len(s)
      /\ \A i \in 1 .. Len(<<x>>) + Len(s) : (<<x>> \o s)[i] =
            IF i <= Len(<<x>>) THEN <<x>>[i] ELSE s[i - Len(<<x>>)]
  BY <1>1, ConcatProperties
<1> QED
  BY <1>1, <1>2

-----------------------------------------------------------------------------
(* The types of the lists of module Drive.                                 *)

Mount == [point : Seq(STRING), file : File \cup {Stdin}, configured : BOOLEAN,
          canEject : BOOLEAN, power : Power]
Memory == [point : Seq(STRING), canEject : BOOLEAN, power : Power]

(* The mounts with a handle of their own.                                  *)
Opened(ms) == {i \in DOMAIN ms : ms[i].file # Stdin}

LEMMA OpenedFinite ==
    ASSUME NEW ms \in Seq(Mount)
    PROVE  IsFiniteSet(Opened(ms)) /\ Cardinality(Opened(ms)) \in Nat
<1>1. Len(ms) \in Nat /\ Opened(ms) \subseteq 1 .. Len(ms)
  BY LenProperties DEF Opened
<1>2. IsFiniteSet(1 .. Len(ms))
  BY <1>1, FS_Interval
<1> QED
  BY <1>1, <1>2, FS_Subset, FS_CardinalityType

(* A new mount adds at most its own handle, and none if it has none.       *)
LEMMA PushHandles ==
    ASSUME NEW ms \in Seq(Mount), NEW x \in Mount
    PROVE  /\ Cardinality(Opened(<<x>> \o ms)) <= Cardinality(Opened(ms)) + 1
           /\ x.file = Stdin =>
                Cardinality(Opened(<<x>> \o ms)) <= Cardinality(Opened(ms))
<1> DEFINE new == Opened(<<x>> \o ms)
           f == [i \in new \ {1} |-> i - 1]
<1>1. /\ <<x>> \o ms \in Seq(Mount) /\ Len(<<x>> \o ms) = Len(ms) + 1 /\ Len(ms) \in Nat
      /\ (<<x>> \o ms)[1] = x
      /\ \A i \in 1 .. Len(ms) : (<<x>> \o ms)[i + 1] = ms[i]
  BY PushProperties, LenProperties
<1>2. /\ DOMAIN (<<x>> \o ms) = 1 .. Len(ms) + 1 /\ DOMAIN ms = 1 .. Len(ms)
  BY <1>1, LenProperties
<1>3. \A i \in new \ {1} : i \in Int /\ i - 1 \in Opened(ms)
  <2>1. SUFFICES ASSUME NEW i \in new \ {1} PROVE i \in Int /\ i - 1 \in Opened(ms)
    OBVIOUS
  <2>2. i - 1 \in 1 .. Len(ms) /\ i = (i - 1) + 1 /\ (<<x>> \o ms)[i].file # Stdin
    BY <1>1, <1>2 DEF Opened
  <2>3. (<<x>> \o ms)[i] = ms[i - 1]
    BY <1>1, <2>2
  <2> QED
    BY <1>2, <2>2, <2>3 DEF Opened
<1>4. f \in Injection(new \ {1}, Opened(ms))
  BY <1>3 DEF Injection, IsInjective
<1>5. Cardinality(new \ {1}) <= Cardinality(Opened(ms))
  BY <1>4, OpenedFinite, FS_Injection
<1>6. /\ IsFiniteSet(new) /\ Cardinality(new) \in Nat /\ Cardinality(Opened(ms)) \in Nat
  BY <1>1, OpenedFinite
<1>7. Cardinality(new \ {1}) = IF 1 \in new THEN Cardinality(new) - 1 ELSE Cardinality(new)
  BY <1>6, FS_RemoveElement
<1>8. x.file = Stdin => 1 \notin new
  BY <1>1 DEF Opened
<1> QED
  BY <1>5, <1>6, <1>7, <1>8

LEMMA RemoveHandles ==
    ASSUME NEW ms \in Seq(Mount), NEW k \in 1 .. Len(ms)
    PROVE  Cardinality(Opened(RemoveAt(ms, k))) <= Cardinality(Opened(ms))
<1> DEFINE new == Opened(RemoveAt(ms, k))
           f == [i \in new |-> IF i < k THEN i ELSE i + 1]
<1>1. /\ RemoveAt(ms, k) \in Seq(Mount) /\ Len(ms) \in Nat
      /\ Len(RemoveAt(ms, k)) = Len(ms) - 1
      /\ \A i \in 1 .. Len(ms) - 1 :
            RemoveAt(ms, k)[i] = IF i < k THEN ms[i] ELSE ms[i + 1]
  BY RemoveAtProperties, LenProperties
<1>2. DOMAIN RemoveAt(ms, k) = 1 .. Len(ms) - 1 /\ DOMAIN ms = 1 .. Len(ms)
  BY <1>1, LenProperties
<1>3. \A i \in new : i \in Int /\ (IF i < k THEN i ELSE i + 1) \in Opened(ms)
  BY <1>1, <1>2 DEF Opened
<1>4. f \in Injection(new, Opened(ms))
  BY <1>3 DEF Injection, IsInjective
<1> QED
  BY <1>4, OpenedFinite, FS_Injection

-----------------------------------------------------------------------------
(* The newest mount under a name.                                          *)

LEMMA FirstIsNewest ==
    ASSUME mounts \in Seq(Mount), NEW p, IsRegistered(p)
    PROVE  /\ First(p) \in 1 .. Len(mounts)
           /\ mounts[First(p)].point = p
           /\ mounts[First(p)] \in Mount
           /\ \A i \in DOMAIN mounts : i < First(p) => mounts[i].point # p
<1>1. Len(mounts) \in Nat /\ DOMAIN mounts = 1 .. Len(mounts)
  BY LenProperties
<1>2. At(p) \in SUBSET Nat /\ At(p) # {}
  BY <1>1 DEF At, IsRegistered
<1>3. First(p) \in At(p) /\ \A i \in At(p) : First(p) <= i
  BY <1>2, MinIsLeast DEF First
<1>4. First(p) \in 1 .. Len(mounts) /\ mounts[First(p)].point = p
  BY <1>1, <1>3 DEF At
<1>5. ASSUME NEW i \in DOMAIN mounts, i < First(p), mounts[i].point = p PROVE FALSE
  <2>1. i \in At(p)
    BY <1>5 DEF At
  <2> QED
    BY <1>1, <1>3, <1>4, <1>5, <2>1
<1> QED
  BY <1>4, <1>5, ElementOfSeq

(* Names and memory of a new mount.                                        *)
LEMMA MallocType ==
    ASSUME freed \in Seq(Memory)
    PROVE  /\ Malloc \in Memory
           /\ freed # <<>> => /\ Tail(freed) \in Seq(Memory)
                              /\ Len(Tail(freed)) = Len(freed) - 1
                              /\ Len(freed) \in Nat
<1>1. Zero \in Memory
  BY EmptySeq DEF Zero, Memory, Power
<1> QED
  BY <1>1, HeadTailProperties, LenProperties DEF Malloc

LEMMA OverlaidType ==
    ASSUME NEW p \in Seq(STRING), NEW old \in Seq(STRING)
    PROVE  Overlaid(p, old) \in Seq(STRING)
<1>1. Len(p) \in Nat /\ Len(old) \in Nat
  BY LenProperties
<1>2. \A i \in Len(p) + 1 .. Len(old) : old[i] \in STRING
  BY <1>1, ElementOfSeq
<1>3. SubSeq(old, Len(p) + 1, Len(old)) \in Seq(STRING)
  BY <1>1, <1>2, SubSeqProperties
<1> QED
  BY <1>3, ConcatProperties DEF Overlaid

(* What a registration puts before the list.                               *)
LEMMA AddMountEffect ==
    ASSUME DriveTypeOK, NEW p \in Point, NEW f \in File \cup {Stdin}, AddMount(p, f)
    PROVE  /\ \E x \in Mount : /\ mounts' = <<x>> \o mounts
                               /\ x.file = f
                               /\ ~spoiled' => x.point = p
           /\ freed' \in Seq(Memory)
           /\ Len(mounts') + Len(freed') <= MaxMounts
           /\ spoiled' \in BOOLEAN /\ (spoiled => spoiled')
<1> DEFINE name == Overlaid(p, Malloc.point)
           x == [point |-> name, file |-> f, configured |-> FALSE,
                 canEject |-> Malloc.canEject, power |-> Malloc.power]
<1>1. /\ mounts \in Seq(Mount) /\ freed \in Seq(Memory) /\ spoiled \in BOOLEAN
      /\ Len(mounts) + Len(freed) <= MaxMounts
  BY DEF DriveTypeOK, Mount, Memory
<1>2. Malloc \in Memory /\ p \in Seq(STRING)
  BY <1>1, MallocType, DriveAssumption
<1>3. name \in Seq(STRING)
  BY <1>2, OverlaidType DEF Memory
<1>4. x \in Mount
  BY <1>2, <1>3 DEF Mount, Memory
<1>5. mounts' = <<x>> \o mounts /\ spoiled' = (spoiled \/ name # p)
  BY DEF AddMount
<1>6. x.file = f /\ x.point = name
  OBVIOUS
<1> HIDE DEF x
<1>7. Len(mounts') = Len(mounts) + 1 /\ Len(mounts) \in Nat /\ Len(mounts) < MaxMounts
  BY <1>1, <1>4, <1>5, PushProperties, LenProperties DEF AddMount
<1>8. freed' \in Seq(Memory) /\ Len(mounts') + Len(freed') <= MaxMounts
  <2>1. CASE freed = <<>>
    <3>1. freed' = <<>> /\ Len(freed') = 0
      BY <2>1 DEF AddMount
    <3> QED
      BY <1>7, <3>1, DriveAssumption
  <2>2. CASE freed # <<>>
    <3>1. freed' = Tail(freed)
      BY <2>2 DEF AddMount
    <3> QED
      BY <1>1, <1>7, <2>2, <3>1, MallocType, DriveAssumption
  <2> QED
    BY <2>1, <2>2
<1> QED
  BY <1>1, <1>4, <1>5, <1>6, <1>8

(* What an unregistration takes out of the list.                           *)
LEMMA UnregisterEffect ==
    ASSUME DriveTypeOK, NEW p \in Point, UnregisterDrive(p)
    PROVE  /\ First(p) \in 1 .. Len(mounts)
           /\ mounts' = RemoveAt(mounts, First(p))
           /\ freed' \in Seq(Memory)
           /\ Len(mounts') + Len(freed') <= MaxMounts
<1> DEFINE m == get_drive(p)
           x == [point |-> m.point, canEject |-> m.canEject, power |-> m.power]
<1>1. /\ mounts \in Seq(Mount) /\ freed \in Seq(Memory)
      /\ Len(mounts) + Len(freed) <= MaxMounts
  BY DEF DriveTypeOK, Mount, Memory
<1>2. First(p) \in 1 .. Len(mounts) /\ m \in Mount
  BY <1>1, FirstIsNewest DEF UnregisterDrive, get_drive
<1>3. x \in Memory
  BY <1>2 DEF Mount, Memory
<1>4. mounts' = RemoveAt(mounts, First(p)) /\ freed' = <<x>> \o freed
  BY DEF UnregisterDrive, Without
<1> HIDE DEF x
<1>5. Len(mounts') = Len(mounts) - 1 /\ Len(mounts) \in Nat
  BY <1>1, <1>2, <1>4, RemoveAtProperties, LenProperties
<1>6. freed' \in Seq(Memory) /\ Len(freed') = Len(freed) + 1 /\ Len(freed) \in Nat
  BY <1>1, <1>3, <1>4, PushProperties, LenProperties
<1> QED
  BY <1>1, <1>2, <1>4, <1>5, <1>6, DriveAssumption

-----------------------------------------------------------------------------
(* Types.                                                                  *)

LEMMA DriveTypeParts ==
    DriveTypeOK <=> /\ mounts \in Seq(Mount)
                    /\ freed \in Seq(Memory)
                    /\ Len(mounts) + Len(freed) <= MaxMounts
                    /\ opened \in Cardinality(Opened(mounts)) .. MaxHandles
                    /\ spoiled \in BOOLEAN
  BY DEF DriveTypeOK, Mount, Memory, Opened, Handles

LEMMA RegisterType ==
    ASSUME DriveTypeOK, NEW p \in Point,
           (\E f \in File : RegisterDrive(p, f)) \/ RegisterSubsection(p)
    PROVE  DriveTypeOK'
<1>0. mounts \in Seq(Mount) /\ opened \in Cardinality(Opened(mounts)) .. MaxHandles
  BY DriveTypeParts
<1>1. PICK f \in File \cup {Stdin} :
        /\ AddMount(p, f)
        /\ \/ opened < MaxHandles /\ opened' = opened + 1
           \/ f = Stdin /\ opened' = opened
  BY DEF RegisterDrive, RegisterSubsection
<1>2. PICK x \in Mount : mounts' = <<x>> \o mounts /\ x.file = f
  BY <1>1, AddMountEffect
<1>3. mounts' \in Seq(Mount)
  BY <1>0, <1>2, PushProperties
<1>4. /\ Cardinality(Opened(mounts')) <= Cardinality(Opened(mounts)) + 1
      /\ f = Stdin => Cardinality(Opened(mounts')) <= Cardinality(Opened(mounts))
  BY <1>0, <1>2, PushHandles
<1>5. Cardinality(Opened(mounts)) \in Nat /\ Cardinality(Opened(mounts')) \in Nat
  BY <1>0, <1>3, OpenedFinite
<1>6. opened' \in Cardinality(Opened(mounts')) .. MaxHandles
  BY <1>0, <1>1, <1>4, <1>5, DriveAssumption
<1> QED
  BY <1>1, <1>3, <1>6, AddMountEffect DEF DriveTypeOK, Mount, Memory, Opened, Handles

LEMMA UnregisterType ==
    ASSUME DriveTypeOK, NEW p \in Point, UnregisterDrive(p)
    PROVE  DriveTypeOK'
<1>0. /\ mounts \in Seq(Mount) /\ spoiled \in BOOLEAN
      /\ opened \in Cardinality(Opened(mounts)) .. MaxHandles
  BY DriveTypeParts
<1>1. First(p) \in 1 .. Len(mounts) /\ mounts' = RemoveAt(mounts, First(p))
  BY UnregisterEffect
<1>2. mounts' \in Seq(Mount)
  BY <1>0, <1>1, RemoveAtProperties
<1>3. Cardinality(Opened(mounts')) <= Cardinality(Opened(mounts))
  BY <1>0, <1>1, RemoveHandles
<1>4. Cardinality(Opened(mounts)) \in Nat /\ Cardinality(Opened(mounts')) \in Nat
  BY <1>0, <1>2, OpenedFinite
<1>5. opened' = opened /\ spoiled' = spoiled
  BY DEF UnregisterDrive
<1>6. opened' \in Cardinality(Opened(mounts')) .. MaxHandles
  BY <1>0, <1>3, <1>4, <1>5, DriveAssumption
<1> QED
  BY <1>0, <1>2, <1>5, <1>6, UnregisterEffect DEF DriveTypeOK, Mount, Memory, Opened, Handles

(* The calls that change the newest mount under a name and no other.       *)
LEMMA ChangeEffect ==
    ASSUME DriveTypeOK, NEW p \in Point, IsRegistered(p),
           \/ mounts' = Configured(p)
           \/ \E r \in Request : mounts' = [mounts EXCEPT ![First(p)] = Obeyed(@, r)]
    PROVE  \E x \in Mount :
              /\ mounts' = [mounts EXCEPT ![First(p)] = x]
              /\ x.point = p /\ x.file = get_drive(p).file
              /\ mounts' = Configured(p) \/ get_drive(p).configured => x.configured
<1> DEFINE m == get_drive(p)
<1>0. First(p) \in 1 .. Len(mounts) /\ m \in Mount /\ m.point = p
  BY FirstIsNewest, DriveTypeParts DEF get_drive
<1>1. CASE mounts' = Configured(p)
  <2> DEFINE x == [m EXCEPT !.configured = TRUE]
  <2>1. x \in Mount /\ x.point = p /\ x.file = m.file /\ x.configured
    BY <1>0 DEF Mount
  <2>2. mounts' = [mounts EXCEPT ![First(p)] = x]
    BY <1>1 DEF Configured, get_drive
  <2> QED
    BY <2>1, <2>2
<1>2. CASE ~(mounts' = Configured(p))
  <2>1. PICK r \in Request : mounts' = [mounts EXCEPT ![First(p)] = Obeyed(@, r)]
    BY <1>2
  <2> DEFINE x == Obeyed(m, r)
  <2>2. r \in {"idle", "poweroff", "lock", "unlock", "eject"}
    BY DriveAssumption
  <2>3. x \in Mount /\ x.point = p /\ x.file = m.file /\ x.configured = m.configured
    BY <1>0, <2>2 DEF Obeyed, Mount, Power
  <2>4. mounts' = [mounts EXCEPT ![First(p)] = x]
    BY <2>1 DEF get_drive
  <2> QED
    BY <1>2, <2>3, <2>4
<1> QED
  BY <1>1, <1>2

LEMMA ChangeType ==
    ASSUME DriveTypeOK, NEW p \in Point, IsRegistered(p),
           \/ mounts' = Configured(p)
           \/ \E r \in Request : mounts' = [mounts EXCEPT ![First(p)] = Obeyed(@, r)],
           UNCHANGED <<freed, opened, spoiled>>
    PROVE  DriveTypeOK'
<1>0. /\ mounts \in Seq(Mount) /\ freed \in Seq(Memory) /\ spoiled \in BOOLEAN
      /\ Len(mounts) + Len(freed) <= MaxMounts
      /\ opened \in Cardinality(Opened(mounts)) .. MaxHandles
  BY DriveTypeParts
<1>1. PICK x \in Mount : mounts' = [mounts EXCEPT ![First(p)] = x] /\ x.file = get_drive(p).file
  BY ChangeEffect
<1>2. First(p) \in 1 .. Len(mounts)
  BY <1>0, FirstIsNewest
<1>3. /\ mounts' \in Seq(Mount) /\ Len(mounts') = Len(mounts)
      /\ \A j \in 1 .. Len(mounts) : mounts'[j] = IF j = First(p) THEN x ELSE mounts[j]
  BY <1>0, <1>1, <1>2, ExceptSeq
<1>4. DOMAIN mounts' = DOMAIN mounts /\ DOMAIN mounts = 1 .. Len(mounts)
  BY <1>0, <1>1, LenProperties
<1>5. Opened(mounts') = Opened(mounts)
  BY <1>1, <1>3, <1>4 DEF Opened, get_drive
<1> QED
  BY <1>0, <1>3, <1>5 DEF DriveTypeOK, Mount, Memory, Opened, Handles

-----------------------------------------------------------------------------
(* Types of the partitions.                                                *)

Partition == [name : Named, disk : Seq(STRING), lba : Lba, volume : Volume,
              flush : BOOLEAN, drive : Point, file : File]

LEMMA PartitionsType ==
    TypeOK => partitions \in Seq(Partition) /\ Len(partitions) \in Nat
  BY LenProperties DEF TypeOK, Partition

LEMMA CutType ==
    ASSUME NEW S, NEW p \in Seq(S)
    PROVE  Cut(p) \in Seq(S) /\ (Len(p) <= NameRoom => Cut(p) = p)
<1> DEFINE k == Min({Len(p), NameRoom})
<1>1. Len(p) \in Nat /\ NameRoom \in Nat
  BY LenProperties, PartitionsAssumption
<1>2. k \in {Len(p), NameRoom} /\ k <= Len(p) /\ k <= NameRoom
  <2>1. {Len(p), NameRoom} \in SUBSET Nat /\ {Len(p), NameRoom} # {}
    BY <1>1
  <2> QED
    BY <2>1, MinIsLeast
<1> HIDE DEF k
<1>3. k \in Int /\ \A i \in 1 .. k : p[i] \in S
  BY <1>1, <1>2, ElementOfSeq
<1>4. Cut(p) \in Seq(S)
  <2>1. SubSeq(p, 1, k) \in Seq(S)
    BY <1>3, SubSeqProperties
  <2> QED
    BY <2>1 DEF Cut, k
<1>5. ASSUME Len(p) <= NameRoom PROVE Cut(p) = p
  <2>1. k = Len(p)
    BY <1>1, <1>2, <1>5
  <2> QED
    BY <2>1, SubSeqFull DEF Cut, k
<1> QED
  BY <1>4, <1>5

(* What a registration puts behind the list.                               *)
LEMMA RegisterEffect ==
    ASSUME TypeOK, NEW d \in Point, NEW lba \in Lba, RegisterPartition(d, lba)
    PROVE  \E q \in Partition :
              /\ partitions' = Append(partitions, q)
              /\ q.name = PartitionName(d, NextId)
              /\ q.drive = d /\ q.disk = Cut(d) /\ q.lba = lba
              /\ q.file = get_drive(d).file
              /\ q.volume = image[q.file][Sector(lba)] /\ Sector(lba) \in Places
<1> DEFINE q == [name |-> PartitionName(d, NextId), disk |-> Cut(d), lba |-> lba,
                 volume |-> Superblock(d, lba), flush |-> FALSE,
                 drive |-> d, file |-> get_drive(d).file]
<1>1. get_drive(d).file \in File /\ Sector(lba) \in Places
  BY DEF RegisterPartition, Reaches
<1>2. Superblock(d, lba) = image[get_drive(d).file][Sector(lba)]
  BY DEF Superblock
<1>3. Superblock(d, lba) \in Volume
  BY <1>1, <1>2 DEF TypeOK
<1>4. NextId \in 0 .. MaxPartitions
  <2>1. /\ Len(partitions) \in Nat /\ Len(partitions) < MaxPartitions
        /\ partitions # <<>> => Len(partitions) # 0
    BY PartitionsType, EmptySeq DEF RegisterPartition
  <2> QED
    BY <2>1, PartitionsAssumption DEF NextId
<1>5. PartitionName(d, NextId) \in Named
  BY <1>4 DEF Named
<1>6. Cut(d) \in Seq(STRING)
  BY CutType, DriveAssumption
<1>7. q \in Partition
  BY <1>1, <1>3, <1>5, <1>6 DEF Partition
<1>8. partitions' = Append(partitions, q)
  BY DEF RegisterPartition
<1> QED
  BY <1>1, <1>2, <1>7, <1>8

(* What a flush leaves of the list.                                        *)
LEMMA FlushEffect ==
    ASSUME TypeOK, NEW is \in SUBSET DOMAIN partitions, Flush(is)
    PROVE  /\ partitions' \in Seq(Partition)
           /\ Len(partitions') = Len(partitions) /\ DOMAIN partitions' = DOMAIN partitions
           /\ \A i \in DOMAIN partitions :
                 /\ partitions'[i].name = partitions[i].name
                 /\ partitions'[i].disk = partitions[i].disk
                 /\ partitions'[i].drive = partitions[i].drive
                 /\ partitions'[i].file = partitions[i].file
                 /\ partitions'[i].lba = partitions[i].lba
                 /\ partitions'[i].volume = partitions[i].volume
<1> DEFINE n == Len(partitions)
<1>1. n \in Nat /\ DOMAIN partitions = 1 .. n /\ \A i \in 1 .. n : partitions[i] \in Partition
  BY PartitionsType, LenProperties, ElementOfSeq
<1>2. partitions' = [i \in 1 .. n |->
            IF i \in is THEN [partitions[i] EXCEPT !.flush = FALSE] ELSE partitions[i]]
  BY <1>1 DEF Flush
<1>3. \A i \in 1 .. n :
        (IF i \in is THEN [partitions[i] EXCEPT !.flush = FALSE] ELSE partitions[i]) \in Partition
  BY <1>1 DEF Partition
<1>4. partitions' \in [1 .. n -> Partition]
  BY <1>2, <1>3
<1>5. partitions' \in Seq(Partition)
  BY <1>1, <1>4, SeqDef
<1>6. Len(partitions') = n
  BY <1>1, <1>4, <1>5, LenProperties
<1>7. ASSUME NEW i \in DOMAIN partitions
      PROVE  /\ partitions'[i].name = partitions[i].name
             /\ partitions'[i].disk = partitions[i].disk
             /\ partitions'[i].drive = partitions[i].drive
             /\ partitions'[i].file = partitions[i].file
             /\ partitions'[i].lba = partitions[i].lba
             /\ partitions'[i].volume = partitions[i].volume
  BY <1>1, <1>2 DEF Partition
<1> QED
  BY <1>1, <1>4, <1>5, <1>6, <1>7

(* The partition whose superblock a flush leaves at a place.               *)
LEMMA LastWriter ==
    ASSUME TypeOK, NEW is \in SUBSET DOMAIN partitions, NEW f \in File, NEW s \in Places,
           Writers(is, f, s) # {}
    PROVE  LET i == Max(Writers(is, f, s)) IN
           /\ i \in is /\ i \in DOMAIN partitions
           /\ IsRegistered(partitions[i].disk)
           /\ get_drive(partitions[i].disk).file = f
           /\ Sector(partitions[i].lba) = s
<1>1. DOMAIN partitions = 1 .. Len(partitions) /\ Len(partitions) \in Nat
  BY PartitionsType, LenProperties
<1>2. Writers(is, f, s) \in SUBSET (1 .. Len(partitions))
  BY <1>1 DEF Writers
<1>3. Max(Writers(is, f, s)) \in Writers(is, f, s)
  BY <1>1, <1>2, MaxIsElement
<1> QED
  BY <1>3 DEF Writers, Reaches

LEMMA FlushType ==
    ASSUME TypeOK, NEW is \in SUBSET DOMAIN partitions, Flush(is)
    PROVE  TypeOK'
<1>1. image' \in [File -> [Places -> Volume]]
  <2>1. ASSUME NEW f \in File, NEW s \in Places
        PROVE  (IF Writers(is, f, s) = {} THEN image[f][s]
                ELSE partitions[Max(Writers(is, f, s))].volume) \in Volume
    <3>1. image[f][s] \in Volume
      BY DEF TypeOK
    <3>2. ASSUME Writers(is, f, s) # {}
          PROVE  partitions[Max(Writers(is, f, s))].volume \in Volume
      <4>1. Max(Writers(is, f, s)) \in 1 .. Len(partitions)
        BY <3>2, LastWriter, PartitionsType, LenProperties
      <4>2. partitions[Max(Writers(is, f, s))] \in Partition
        BY <4>1, PartitionsType, ElementOfSeq
      <4> QED
        BY <4>2 DEF Partition
    <3> QED
      BY <3>1, <3>2
  <2> QED
    BY <2>1 DEF Flush
<1>2. UNCHANGED <<mounts, freed, opened, spoiled, moved>>
  BY DEF Flush, driveVars
<1>3. DriveTypeOK'
  BY <1>2 DEF TypeOK, DriveTypeOK, Handles
<1> QED
  BY <1>1, <1>2, <1>3, FlushEffect DEF TypeOK, Partition

-----------------------------------------------------------------------------
LEMMA InitType == Init => TypeOK
<1> SUFFICES ASSUME Init PROVE TypeOK
  OBVIOUS
<1>1. mounts = <<>> /\ freed = <<>> /\ opened = 0 /\ spoiled = FALSE
  BY DEF Init, DriveInit
<1>2. mounts \in Seq(Mount) /\ freed \in Seq(Memory) /\ Len(mounts) = 0 /\ Len(freed) = 0
  BY <1>1
<1>3. Opened(mounts) = {}
  BY <1>1 DEF Opened
<1>4. opened \in Cardinality(Opened(mounts)) .. MaxHandles
  <2>1. Cardinality(Opened(mounts)) = 0
    BY <1>3, FS_EmptySet
  <2> QED
    BY <1>1, <2>1, DriveAssumption
<1>5. Len(mounts) + Len(freed) <= MaxMounts
  BY <1>2, DriveAssumption
<1>6. DriveTypeOK
  BY <1>1, <1>2, <1>4, <1>5, DriveTypeParts
<1>7. image \in [File -> [Places -> Volume]]
  BY DEF Init, Home, Volume
<1> QED
  BY <1>6, <1>7, PartitionsAssumption DEF Init, TypeOK

LEMMA NextType == TypeOK /\ [Next]_vars => TypeOK'
<1> SUFFICES ASSUME TypeOK, [Next]_vars PROVE TypeOK'
  OBVIOUS
<1> USE DEF TypeOK
<1>1. CASE DriveCall
  <2>1. PICK p \in Point :
          \/ /\ moved' = moved \cup OnDrive(p)
             /\ \/ \E f \in File : RegisterDrive(p, f)
                \/ RegisterSubsection(p)
                \/ UnregisterDrive(p)
          \/ /\ moved' = moved
             /\ InitDisk(p) \/ \E r \in Request : IoctlDisk(p, r)
    BY <1>1 DEF DriveCall
  <2>2. DriveTypeOK'
    BY <2>1, RegisterType, UnregisterType, ChangeType DEF InitDisk, IoctlDisk
  <2> QED
    BY <1>1, <2>1, <2>2 DEF DriveCall, OnDrive
<1>2. ASSUME NEW d \in Point, NEW lba \in Lba, RegisterPartition(d, lba) PROVE TypeOK'
  <2>1. DriveTypeOK'
    BY <1>2, ChangeType DEF RegisterPartition, Reaches
  <2>2. PICK q \in Partition : partitions' = Append(partitions, q)
    BY <1>2, RegisterEffect
  <2>3. Len(partitions) < MaxPartitions /\ UNCHANGED <<image, moved>>
    BY <1>2 DEF RegisterPartition
  <2>4. /\ partitions' \in Seq(Partition) /\ Len(partitions') = Len(partitions) + 1
        /\ DOMAIN partitions \subseteq DOMAIN partitions'
    BY <2>2, PartitionsType, LenProperties
  <2> QED
    BY <2>1, <2>3, <2>4, PartitionsType, PartitionsAssumption DEF Partition
<1>3. ASSUME NEW d \in Point, NEW lba \in Lba, RegisterPartitionFails(d, lba) PROVE TypeOK'
  <2>1. DriveTypeOK'
    BY <1>3, ChangeType DEF RegisterPartitionFails
  <2> QED
    BY <1>3, <2>1 DEF RegisterPartitionFails
<1>4. ASSUME NEW i \in DOMAIN partitions, FlushRequired(i) PROVE TypeOK'
  <2>1. i \in 1 .. Len(partitions) /\ partitions[i] \in Partition
    BY PartitionsType, LenProperties, ElementOfSeq
  <2>2. /\ [partitions[i] EXCEPT !.flush = TRUE] \in Partition
        /\ partitions' = [partitions EXCEPT ![i] = [partitions[i] EXCEPT !.flush = TRUE]]
    BY <1>4, <2>1 DEF FlushRequired, Partition
  <2>3. /\ partitions' \in Seq(Partition) /\ Len(partitions') = Len(partitions)
        /\ DOMAIN partitions' = DOMAIN partitions
    BY <2>1, <2>2, PartitionsType, ExceptSeq
  <2>4. UNCHANGED <<mounts, freed, opened, spoiled, image, moved>>
    BY <1>4 DEF FlushRequired, driveVars
  <2>5. DriveTypeOK'
    BY <2>4 DEF DriveTypeOK, Handles
  <2> QED
    BY <2>3, <2>4, <2>5 DEF Partition
<1>5. ASSUME NEW i \in DOMAIN partitions, ext2_sync(i) PROVE TypeOK'
  BY <1>5, FlushType DEF ext2_sync
<1>6. CASE ext2_flush_all_partitions
  BY <1>6, FlushType DEF ext2_flush_all_partitions
<1>7. CASE UNCHANGED vars
  BY <1>7 DEF vars, driveVars, DriveTypeOK, Handles
<1> QED
  BY <1>1, <1>2, <1>3, <1>4, <1>5, <1>6, <1>7 DEF Next

(* The lists of mounts, of freed memory and of partitions keep their types *)
(* and bounds, and there are never more mounts with a handle than handles. *)
THEOREM TypeCorrect == Spec => []TypeOK
  BY InitType, NextType, PTL DEF Spec

-----------------------------------------------------------------------------
(* Partitions stay on their drives.                                        *)

(* The newest of the mounts under p is an initialised one of f.            *)
OnFile(ms, p, f) ==
    \E i \in DOMAIN ms :
        /\ ms[i].point = p /\ ms[i].configured /\ ms[i].file = f
        /\ \A j \in DOMAIN ms : j < i => ms[j].point # p

LEMMA OnFileIsNewest ==
    ASSUME mounts \in Seq(Mount), NEW p, NEW f
    PROVE  OnFile(mounts, p, f) <=> STATUS_READY(p) /\ get_drive(p).file = f
<1>0. Len(mounts) \in Nat /\ DOMAIN mounts = 1 .. Len(mounts)
  BY LenProperties
<1>1. ASSUME OnFile(mounts, p, f) PROVE STATUS_READY(p) /\ get_drive(p).file = f
  <2>1. PICK i \in DOMAIN mounts :
            /\ mounts[i].point = p /\ mounts[i].configured /\ mounts[i].file = f
            /\ \A j \in DOMAIN mounts : j < i => mounts[j].point # p
    BY <1>1 DEF OnFile
  <2>2. IsRegistered(p)
    BY <2>1 DEF IsRegistered, At
  <2>3. /\ First(p) \in 1 .. Len(mounts) /\ mounts[First(p)].point = p
        /\ \A j \in DOMAIN mounts : j < First(p) => mounts[j].point # p
    BY <2>2, FirstIsNewest
  <2>4. First(p) = i
    <3>1. ~(First(p) < i) /\ ~(i < First(p))
      BY <1>0, <2>1, <2>3
    <3> QED
      BY <1>0, <2>3, <3>1
  <2> QED
    BY <2>1, <2>2, <2>4 DEF STATUS_READY, get_drive
<1>2. ASSUME STATUS_READY(p), get_drive(p).file = f PROVE OnFile(mounts, p, f)
  <2>1. /\ First(p) \in 1 .. Len(mounts) /\ mounts[First(p)].point = p
        /\ \A j \in DOMAIN mounts : j < First(p) => mounts[j].point # p
    BY <1>2, FirstIsNewest DEF STATUS_READY
  <2> QED
    BY <1>0, <1>2, <2>1 DEF OnFile, STATUS_READY, get_drive
<1> QED
  BY <1>1, <1>2

(* A registration under one name hides no other.                           *)
LEMMA OnFilePush ==
    ASSUME NEW ms \in Seq(Mount), NEW x \in Mount, NEW p, NEW f,
           OnFile(ms, p, f), x.point # p
    PROVE  OnFile(<<x>> \o ms, p, f)
<1> DEFINE new == <<x>> \o ms
<1>1. /\ new \in Seq(Mount) /\ Len(new) = Len(ms) + 1 /\ Len(ms) \in Nat
      /\ new[1] = x /\ \A i \in 1 .. Len(ms) : new[i + 1] = ms[i]
  BY PushProperties, LenProperties
<1> HIDE DEF new
<1>2. DOMAIN new = 1 .. Len(ms) + 1 /\ DOMAIN ms = 1 .. Len(ms)
  BY <1>1, LenProperties
<1>3. PICK i \in 1 .. Len(ms) :
        /\ ms[i].point = p /\ ms[i].configured /\ ms[i].file = f
        /\ \A j \in 1 .. Len(ms) : j < i => ms[j].point # p
  BY <1>2 DEF OnFile
<1>4. i + 1 \in DOMAIN new /\ new[i + 1] = ms[i]
  BY <1>1, <1>2
<1>5. ASSUME NEW j \in DOMAIN new, j < i + 1 PROVE new[j].point # p
  <2>1. CASE j = 1
    BY <1>1, <2>1
  <2>2. CASE j # 1
    <3>1. j - 1 \in 1 .. Len(ms) /\ (j - 1) + 1 = j /\ j - 1 < i
      BY <1>1, <1>2, <1>5, <2>2
    <3>2. new[j] = ms[j - 1]
      BY <1>1, <3>1
    <3> QED
      BY <1>3, <3>1, <3>2
  <2> QED
    BY <2>1, <2>2
<1>6. OnFile(new, p, f)
  BY <1>3, <1>4, <1>5 DEF OnFile
<1> QED
  BY <1>6 DEF new

(* Neither does the removal of a mount under one name matter to another.   *)
LEMMA OnFileRemove ==
    ASSUME NEW ms \in Seq(Mount), NEW k \in 1 .. Len(ms), NEW p, NEW f,
           OnFile(ms, p, f), ms[k].point # p
    PROVE  OnFile(RemoveAt(ms, k), p, f)
<1> DEFINE new == RemoveAt(ms, k)
<1>1. /\ new \in Seq(Mount) /\ Len(new) = Len(ms) - 1 /\ Len(ms) \in Nat
      /\ \A i \in 1 .. Len(ms) - 1 : new[i] = IF i < k THEN ms[i] ELSE ms[i + 1]
  BY RemoveAtProperties, LenProperties
<1> HIDE DEF new
<1>2. DOMAIN new = 1 .. Len(ms) - 1 /\ DOMAIN ms = 1 .. Len(ms)
  BY <1>1, LenProperties
<1>3. PICK i \in 1 .. Len(ms) :
        /\ ms[i].point = p /\ ms[i].configured /\ ms[i].file = f
        /\ \A j \in 1 .. Len(ms) : j < i => ms[j].point # p
  BY <1>2 DEF OnFile
<1>4. i # k
  BY <1>3
<1> DEFINE h == IF i < k THEN i ELSE i - 1
<1>5. h \in 1 .. Len(ms) - 1 /\ new[h] = ms[i]
  <2>1. CASE i < k
    <3>1. h = i /\ i \in 1 .. Len(ms) - 1
      BY <1>1, <2>1
    <3> QED
      BY <1>1, <2>1, <3>1
  <2>2. CASE ~(i < k)
    <3>1. h = i - 1 /\ i - 1 \in 1 .. Len(ms) - 1 /\ ~(i - 1 < k) /\ (i - 1) + 1 = i
      BY <1>1, <1>4, <2>2
    <3> QED
      BY <1>1, <3>1
  <2> QED
    BY <2>1, <2>2
<1>6. ASSUME NEW j \in DOMAIN new, j < h PROVE new[j].point # p
  <2>1. CASE j < k
    <3>1. j \in 1 .. Len(ms) /\ j < i /\ new[j] = ms[j]
      BY <1>1, <1>2, <1>6, <2>1
    <3> QED
      BY <1>3, <3>1
  <2>2. CASE ~(j < k)
    <3>1. j + 1 \in 1 .. Len(ms) /\ j + 1 < i /\ new[j] = ms[j + 1]
      BY <1>1, <1>2, <1>6, <2>2
    <3> QED
      BY <1>3, <3>1
  <2> QED
    BY <2>1, <2>2
<1> HIDE DEF h
<1>7. OnFile(new, p, f)
  BY <1>2, <1>3, <1>5, <1>6 DEF OnFile
<1> QED
  BY <1>7 DEF new

(* A call that changes a mount leaves every name on its file.              *)
LEMMA OnFileChange ==
    ASSUME DriveTypeOK, NEW r \in Point, IsRegistered(r),
           \/ mounts' = Configured(r)
           \/ \E c \in Request : mounts' = [mounts EXCEPT ![First(r)] = Obeyed(@, c)],
           NEW p, NEW f, OnFile(mounts, p, f)
    PROVE  OnFile(mounts', p, f)
<1>0. mounts \in Seq(Mount)
  BY DriveTypeParts
<1>1. PICK x \in Mount :
        /\ mounts' = [mounts EXCEPT ![First(r)] = x]
        /\ x.point = r /\ x.file = get_drive(r).file
        /\ mounts' = Configured(r) \/ get_drive(r).configured => x.configured
  BY ChangeEffect
<1>2. First(r) \in 1 .. Len(mounts) /\ mounts[First(r)].point = r
  BY <1>0, FirstIsNewest
<1>3. /\ DOMAIN mounts' = DOMAIN mounts /\ DOMAIN mounts = 1 .. Len(mounts)
      /\ \A j \in DOMAIN mounts : mounts'[j] = IF j = First(r) THEN x ELSE mounts[j]
  BY <1>0, <1>1, LenProperties
<1>4. \A j \in DOMAIN mounts :
        /\ mounts'[j].point = mounts[j].point
        /\ mounts'[j].file = mounts[j].file
        /\ mounts[j].configured => mounts'[j].configured
  BY <1>1, <1>2, <1>3 DEF get_drive
<1> QED
  BY <1>3, <1>4 DEF OnFile

-----------------------------------------------------------------------------
(* Every partition whose drive's name was neither cut nor used again.      *)
Unmoved(ps, mv) == {i \in DOMAIN ps \ mv : ps[i].disk = ps[i].drive}

HomeInv ==
    /\ TypeOK
    /\ ~spoiled => \A i \in Unmoved(partitions, moved) :
                      OnFile(mounts, partitions[i].drive, partitions[i].file)

LEMMA HomeInit == Init => HomeInv
  BY InitType DEF Init, HomeInv, Unmoved

LEMMA HomeDriveCall ==
    ASSUME HomeInv, DriveCall, ~spoiled'
    PROVE  \A i \in Unmoved(partitions, moved') :
              OnFile(mounts', partitions[i].drive, partitions[i].file)
<1> SUFFICES ASSUME NEW i \in Unmoved(partitions, moved')
             PROVE  OnFile(mounts', partitions[i].drive, partitions[i].file)
  OBVIOUS
<1> DEFINE q == partitions[i]
<1>0. DriveTypeOK /\ mounts \in Seq(Mount) /\ spoiled \in BOOLEAN
  BY DriveTypeParts DEF HomeInv, TypeOK
<1>1. PICK p \in Point :
        \/ /\ moved' = moved \cup OnDrive(p)
           /\ \/ \E f \in File : RegisterDrive(p, f)
              \/ RegisterSubsection(p)
              \/ UnregisterDrive(p)
        \/ /\ moved' = moved
           /\ InitDisk(p) \/ \E r \in Request : IoctlDisk(p, r)
  BY DEF DriveCall
<1>2. i \in DOMAIN partitions /\ i \notin moved' /\ q.disk = q.drive
  BY DEF Unmoved
<1>3. moved \subseteq moved'
  BY <1>1
<1>4. ASSUME ~spoiled PROVE OnFile(mounts, q.drive, q.file)
  BY <1>2, <1>3, <1>4 DEF HomeInv, Unmoved
<1>5. ASSUME moved' = moved \cup OnDrive(p) PROVE p # q.drive
  BY <1>2, <1>5 DEF OnDrive
<1>6. ASSUME moved' = moved \cup OnDrive(p), NEW f \in File \cup {Stdin}, AddMount(p, f)
      PROVE  OnFile(mounts', q.drive, q.file)
  <2>1. PICK x \in Mount : mounts' = <<x>> \o mounts /\ (~spoiled' => x.point = p)
    BY <1>0, <1>6, AddMountEffect
  <2>2. ~spoiled
    BY <1>0, <1>6, AddMountEffect
  <2>3. x.point # q.drive
    BY <1>5, <1>6, <2>1
  <2> QED
    BY <1>0, <1>4, <2>1, <2>2, <2>3, OnFilePush
<1>7. ASSUME moved' = moved \cup OnDrive(p), UnregisterDrive(p)
      PROVE  OnFile(mounts', q.drive, q.file)
  <2>1. /\ First(p) \in 1 .. Len(mounts) /\ mounts[First(p)].point = p
        /\ mounts' = RemoveAt(mounts, First(p)) /\ ~spoiled
    BY <1>0, <1>7, UnregisterEffect, FirstIsNewest DEF UnregisterDrive
  <2> QED
    BY <1>0, <1>4, <1>5, <1>7, <2>1, OnFileRemove
<1>8. ASSUME InitDisk(p) \/ \E r \in Request : IoctlDisk(p, r)
      PROVE  OnFile(mounts', q.drive, q.file)
  <2>1. /\ IsRegistered(p) /\ ~spoiled
        /\ \/ mounts' = Configured(p)
           \/ \E r \in Request : mounts' = [mounts EXCEPT ![First(p)] = Obeyed(@, r)]
    BY <1>8 DEF InitDisk, IoctlDisk
  <2> QED
    BY <1>0, <1>4, <2>1, OnFileChange
<1> QED
  BY <1>1, <1>6, <1>7, <1>8 DEF RegisterDrive, RegisterSubsection

LEMMA HomeStep == HomeInv /\ [Next]_vars => HomeInv'
<1> SUFFICES ASSUME HomeInv, [Next]_vars, ~spoiled',
                    NEW i \in Unmoved(partitions', moved')
             PROVE  OnFile(mounts', partitions'[i].drive, partitions'[i].file)
  BY NextType DEF HomeInv
<1>0. TypeOK /\ DriveTypeOK /\ mounts \in Seq(Mount)
  BY DriveTypeParts DEF HomeInv, TypeOK
<1>1. CASE DriveCall
  BY <1>1, HomeDriveCall DEF DriveCall
<1>2. ASSUME NEW d \in Point, NEW lba \in Lba, RegisterPartition(d, lba)
      PROVE  OnFile(mounts', partitions'[i].drive, partitions'[i].file)
  <2>1. PICK q \in Partition :
            /\ partitions' = Append(partitions, q) /\ q.drive = d /\ q.file = get_drive(d).file
    BY <1>0, <1>2, RegisterEffect
  <2>2. /\ IsRegistered(d) /\ mounts' = Configured(d) /\ ~spoiled /\ moved' = moved
        /\ UNCHANGED <<freed, opened, spoiled>>
    BY <1>2 DEF RegisterPartition, Reaches
  <2>3. /\ DOMAIN partitions = 1 .. Len(partitions) /\ Len(partitions) \in Nat
        /\ DOMAIN partitions' = 1 .. Len(partitions) + 1
        /\ partitions'[Len(partitions) + 1] = q
        /\ \A j \in 1 .. Len(partitions) : partitions'[j] = partitions[j]
    BY <1>0, <2>1, PartitionsType, LenProperties
  <2>4. CASE i = Len(partitions) + 1
    <3>1. mounts' \in Seq(Mount)
      BY <1>0, <2>2, ChangeType, DriveTypeParts DEF DriveTypeOK, Mount
    <3>2. /\ First(d) \in 1 .. Len(mounts) /\ mounts[First(d)].point = d
          /\ mounts[First(d)] \in Mount
          /\ \A j \in DOMAIN mounts : j < First(d) => mounts[j].point # d
      BY <1>0, <2>2, FirstIsNewest
    <3>3. /\ DOMAIN mounts' = DOMAIN mounts /\ DOMAIN mounts = 1 .. Len(mounts)
          /\ mounts'[First(d)] = [mounts[First(d)] EXCEPT !.configured = TRUE]
          /\ \A j \in DOMAIN mounts : j # First(d) => mounts'[j] = mounts[j]
      BY <1>0, <2>2, <3>2, LenProperties DEF Configured
    <3>4. /\ mounts'[First(d)].configured /\ mounts'[First(d)].point = d
          /\ mounts'[First(d)].file = get_drive(d).file
      BY <3>2, <3>3 DEF Mount, get_drive
    <3>5. \A j \in DOMAIN mounts' : j < First(d) => mounts'[j].point # d
      BY <3>2, <3>3
    <3>6. OnFile(mounts', d, get_drive(d).file)
      BY <3>2, <3>3, <3>4, <3>5 DEF OnFile
    <3> QED
      BY <2>1, <2>3, <2>4, <3>6
  <2>5. CASE i # Len(partitions) + 1
    <3>1. i \in Unmoved(partitions, moved) /\ partitions'[i] = partitions[i]
      BY <2>2, <2>3, <2>5 DEF Unmoved
    <3>2. OnFile(mounts, partitions[i].drive, partitions[i].file)
      BY <2>2, <3>1 DEF HomeInv
    <3> QED
      BY <1>0, <2>2, <3>1, <3>2, OnFileChange
  <2> QED
    BY <2>4, <2>5
<1>3. ASSUME NEW d \in Point, NEW lba \in Lba, RegisterPartitionFails(d, lba)
      PROVE  OnFile(mounts', partitions'[i].drive, partitions'[i].file)
  <2>1. /\ IsRegistered(d) /\ mounts' = Configured(d) /\ ~spoiled
        /\ moved' = moved /\ partitions' = partitions
    BY <1>3 DEF RegisterPartitionFails
  <2>2. OnFile(mounts, partitions[i].drive, partitions[i].file)
    BY <2>1 DEF HomeInv
  <2> QED
    BY <1>0, <2>1, <2>2, OnFileChange
<1>4. ASSUME NEW n \in DOMAIN partitions, FlushRequired(n)
      PROVE  OnFile(mounts', partitions'[i].drive, partitions'[i].file)
  <2>1. /\ mounts' = mounts /\ spoiled' = spoiled /\ moved' = moved
        /\ partitions' = [partitions EXCEPT ![n].flush = TRUE]
    BY <1>4 DEF FlushRequired, driveVars
  <2>2. /\ DOMAIN partitions' = DOMAIN partitions
        /\ \A j \in DOMAIN partitions : partitions[j] \in Partition
    BY <1>0, <2>1, PartitionsType, ElementOfSeq, LenProperties
  <2>3. /\ i \in DOMAIN partitions
        /\ partitions'[i].drive = partitions[i].drive
        /\ partitions'[i].disk = partitions[i].disk
        /\ partitions'[i].file = partitions[i].file
    BY <2>1, <2>2 DEF Unmoved, Partition
  <2> QED
    BY <2>1, <2>3 DEF HomeInv, Unmoved
<1>5. ASSUME NEW is \in SUBSET DOMAIN partitions, Flush(is)
      PROVE  OnFile(mounts', partitions'[i].drive, partitions'[i].file)
  <2>1. mounts' = mounts /\ spoiled' = spoiled /\ moved' = moved
    BY <1>5 DEF Flush, driveVars
  <2>2. /\ i \in DOMAIN partitions
        /\ partitions'[i].drive = partitions[i].drive
        /\ partitions'[i].disk = partitions[i].disk
        /\ partitions'[i].file = partitions[i].file
    BY <1>0, <1>5, FlushEffect DEF Unmoved
  <2> QED
    BY <2>1, <2>2 DEF HomeInv, Unmoved
<1>6. CASE UNCHANGED vars
  BY <1>6 DEF vars, driveVars, HomeInv
<1> QED
  BY <1>1, <1>2, <1>3, <1>4, <1>5, <1>6 DEF Next, ext2_sync, ext2_flush_all_partitions

(* A partition whose drive's name was not used again is on the drive it    *)
(* was registered on, and that is ready.                                   *)
THEOREM StaysHome == Spec => []AtHome
<1>1. HomeInv => AtHome
  <2> SUFFICES ASSUME HomeInv, ~spoiled, NEW i \in DOMAIN partitions \ moved,
                      partitions[i].disk = partitions[i].drive
               PROVE  /\ STATUS_READY(partitions[i].disk)
                      /\ get_drive(partitions[i].disk).file = partitions[i].file
    BY DEF AtHome
  <2>1. OnFile(mounts, partitions[i].drive, partitions[i].file)
    BY DEF HomeInv, Unmoved
  <2>2. mounts \in Seq(Mount)
    BY DriveTypeParts DEF HomeInv, TypeOK
  <2> QED
    BY <2>1, <2>2, OnFileIsNewest
<1> QED
  BY <1>1, HomeInit, HomeStep, PTL DEF Spec

-----------------------------------------------------------------------------
(* Superblocks stay at home.                                               *)

(* Every mount point fits in the name of a disk.                           *)
NamesFit == \A p \in Point : Len(p) <= NameRoom

LEMMA UncutName ==
    ASSUME NamesFit, NEW p \in Point
    PROVE  Cut(p) = p
  BY CutType, DriveAssumption DEF NamesFit

(* What a partition cached was its own superblock.                         *)
SuperblocksInv ==
    /\ HomeInv
    /\ \A i \in DOMAIN partitions : partitions[i].disk = partitions[i].drive
    /\ ~spoiled /\ moved = {} =>
         /\ image = Home
         /\ \A i \in DOMAIN partitions :
               partitions[i].volume = <<partitions[i].file, Sector(partitions[i].lba)>>

LEMMA SuperblocksInit == Init => SuperblocksInv
  BY HomeInit DEF Init, SuperblocksInv

(* A flush writes every superblock over itself.                            *)
LEMMA FlushHome ==
    ASSUME SuperblocksInv, ~spoiled, moved = {},
           NEW is \in SUBSET DOMAIN partitions, Flush(is)
    PROVE  image' = Home
<1>0. TypeOK /\ mounts \in Seq(Mount) /\ image = Home
  BY DriveTypeParts DEF SuperblocksInv, HomeInv, TypeOK
<1>1. ASSUME NEW f \in File, NEW s \in Places, Writers(is, f, s) # {}
      PROVE  partitions[Max(Writers(is, f, s))].volume = <<f, s>>
  <2> DEFINE i == Max(Writers(is, f, s))
  <2>1. /\ i \in DOMAIN partitions
        /\ get_drive(partitions[i].disk).file = f
        /\ Sector(partitions[i].lba) = s
    BY <1>0, <1>1, LastWriter
  <2> HIDE DEF i
  <2>2. partitions[i].disk = partitions[i].drive /\ i \in Unmoved(partitions, moved)
    BY <2>1 DEF SuperblocksInv, Unmoved
  <2>3. OnFile(mounts, partitions[i].drive, partitions[i].file)
    BY <2>2 DEF SuperblocksInv, HomeInv
  <2>4. get_drive(partitions[i].drive).file = partitions[i].file
    BY <1>0, <2>3, OnFileIsNewest
  <2>5. partitions[i].volume = <<partitions[i].file, Sector(partitions[i].lba)>>
    BY <2>1 DEF SuperblocksInv
  <2>6. partitions[i].volume = <<f, s>>
    BY <2>1, <2>2, <2>4, <2>5
  <2> QED
    BY <2>6 DEF i
<1>2. image' = [f \in File |-> [s \in Places |->
            IF Writers(is, f, s) = {} THEN image[f][s]
            ELSE partitions[Max(Writers(is, f, s))].volume]]
  BY DEF Flush
<1>3. \A f \in File, s \in Places : image[f][s] = <<f, s>>
  BY <1>0 DEF Home
<1> QED
  BY <1>1, <1>2, <1>3 DEF Home

LEMMA SuperblocksStep ==
    ASSUME NamesFit PROVE SuperblocksInv /\ [Next]_vars => SuperblocksInv'
<1> SUFFICES ASSUME SuperblocksInv, [Next]_vars PROVE SuperblocksInv'
  OBVIOUS
<1>0. HomeInv' /\ TypeOK /\ spoiled \in BOOLEAN
  BY HomeStep DEF SuperblocksInv, HomeInv, TypeOK, DriveTypeOK
<1>1. CASE DriveCall
  <2>1. UNCHANGED <<image, partitions>> /\ moved \subseteq moved'
    BY <1>1 DEF DriveCall
  <2>2. spoiled => spoiled'
    <3>1. DriveTypeOK
      BY <1>0 DEF TypeOK
    <3> QED
      BY <1>1, <3>1, AddMountEffect
         DEF DriveCall, RegisterDrive, RegisterSubsection, UnregisterDrive, InitDisk, IoctlDisk
  <2> QED
    BY <1>0, <2>1, <2>2 DEF SuperblocksInv
<1>2. ASSUME NEW d \in Point, NEW lba \in Lba, RegisterPartition(d, lba)
      PROVE  SuperblocksInv'
  <2>1. PICK q \in Partition :
            /\ partitions' = Append(partitions, q)
            /\ q.drive = d /\ q.disk = Cut(d) /\ q.lba = lba
            /\ q.volume = image[q.file][Sector(lba)] /\ Sector(lba) \in Places
    BY <1>0, <1>2, RegisterEffect
  <2>2. /\ DOMAIN partitions = 1 .. Len(partitions) /\ Len(partitions) \in Nat
        /\ DOMAIN partitions' = 1 .. Len(partitions) + 1
        /\ partitions'[Len(partitions) + 1] = q
        /\ \A j \in 1 .. Len(partitions) : partitions'[j] = partitions[j]
    BY <1>0, <2>1, PartitionsType, LenProperties
  <2>3. UNCHANGED <<image, moved, spoiled>>
    BY <1>2 DEF RegisterPartition
  <2>4. q.disk = q.drive
    BY <2>1, UncutName
  <2>5. q.file \in File
    BY DEF Partition
  <2>6. image = Home => q.volume = <<q.file, Sector(q.lba)>>
    BY <2>1, <2>5 DEF Home
  <2>7. ASSUME NEW i \in DOMAIN partitions'
        PROVE  /\ partitions'[i].disk = partitions'[i].drive
               /\ ~spoiled /\ moved = {} => partitions'[i].volume =
                        <<partitions'[i].file, Sector(partitions'[i].lba)>>
    <3>1. CASE i = Len(partitions) + 1
      BY <2>2, <2>4, <2>6, <3>1 DEF SuperblocksInv
    <3>2. CASE i # Len(partitions) + 1
      BY <2>2, <3>2 DEF SuperblocksInv
    <3> QED
      BY <3>1, <3>2
  <2> QED
    BY <1>0, <2>3, <2>7 DEF SuperblocksInv
<1>3. ASSUME NEW d \in Point, NEW lba \in Lba, RegisterPartitionFails(d, lba)
      PROVE  SuperblocksInv'
  BY <1>0, <1>3 DEF RegisterPartitionFails, SuperblocksInv
<1>4. ASSUME NEW n \in DOMAIN partitions, FlushRequired(n) PROVE SuperblocksInv'
  <2>1. /\ UNCHANGED <<spoiled, image, moved>>
        /\ partitions' = [partitions EXCEPT ![n].flush = TRUE]
    BY <1>4 DEF FlushRequired, driveVars
  <2>2. /\ DOMAIN partitions' = DOMAIN partitions
        /\ \A j \in DOMAIN partitions : partitions[j] \in Partition
    BY <1>0, <2>1, PartitionsType, ElementOfSeq, LenProperties
  <2>3. \A i \in DOMAIN partitions :
        /\ partitions'[i].drive = partitions[i].drive
        /\ partitions'[i].disk = partitions[i].disk
        /\ partitions'[i].file = partitions[i].file
        /\ partitions'[i].lba = partitions[i].lba
        /\ partitions'[i].volume = partitions[i].volume
    BY <2>1, <2>2 DEF Partition
  <2> QED
    BY <1>0, <2>1, <2>2, <2>3 DEF SuperblocksInv
<1>5. ASSUME NEW is \in SUBSET DOMAIN partitions, Flush(is) PROVE SuperblocksInv'
  <2>1. UNCHANGED <<spoiled, moved>>
    BY <1>5 DEF Flush, driveVars
  <2>2. ~spoiled /\ moved = {} => image' = Home
    BY <1>5, FlushHome
  <2> QED
    BY <1>0, <1>5, <2>1, <2>2, FlushEffect DEF SuperblocksInv
<1>6. CASE UNCHANGED vars
  BY <1>0, <1>6 DEF vars, driveVars, SuperblocksInv
<1> QED
  BY <1>1, <1>2, <1>3, <1>4, <1>5, <1>6 DEF Next, ext2_sync, ext2_flush_all_partitions

(* When mount points fit in the names of disks, flushes leave every        *)
(* superblock where its volume is, as long as no name of a drive with      *)
(* partitions was used again.                                              *)
THEOREM SuperblocksStayHome == ASSUME NamesFit PROVE Spec => []SuperblocksAtHome
<1>1. SuperblocksInv => SuperblocksAtHome
  BY DEF SuperblocksInv, SuperblocksAtHome
<1>2. SuperblocksInv /\ [Next]_vars => SuperblocksInv'
  BY SuperblocksStep
<1> QED
  BY <1>1, <1>2, SuperblocksInit, PTL DEF Spec

-----------------------------------------------------------------------------
(* The list of mounts as stacks of drives.                                 *)

AnyDrive == File \cup {Stdin}

(* One step of the recursion of Stacked.                                   *)
Onto(s, m, p) == IF m.point = p THEN Append(s, m.file) ELSE s

IsStacked(of, ms, p) ==
    of = [n \in 0 .. Len(ms) |-> IF n = 0 THEN <<>> ELSE Onto(of[n - 1], ms[n], p)]

(* The stacks up to the n-th mount.                                        *)
Stacks(of, ms, p, n) ==
    /\ of \in [0 .. n -> Seq(AnyDrive)]
    /\ \A i \in 0 .. n : of[i] = IF i = 0 THEN <<>> ELSE Onto(of[i - 1], ms[i], p)

LEMMA StackedExists ==
    ASSUME NEW ms \in Seq(Mount), NEW p
    PROVE  \E of : Stacks(of, ms, p, Len(ms))
<1> DEFINE S == {n \in 0 .. Len(ms) : \E of : Stacks(of, ms, p, n)}
<1>0. Len(ms) \in Nat
  BY LenProperties
<1>1. 0 \in S
  <2> DEFINE of == [i \in 0 .. 0 |-> <<>>]
  <2>1. of \in [0 .. 0 -> Seq(AnyDrive)] /\ of[0] = <<>> /\ \A i \in 0 .. 0 : i = 0
    BY EmptySeq
  <2>2. Stacks(of, ms, p, 0)
    BY <2>1 DEF Stacks
  <2> QED
    BY <1>0, <2>2
<1>2. \A n \in 0 .. Len(ms) - 1 : n \in S => n + 1 \in S
  <2> SUFFICES ASSUME NEW n \in 0 .. Len(ms) - 1, n \in S PROVE n + 1 \in S
    OBVIOUS
  <2>1. PICK of : Stacks(of, ms, p, n)
    OBVIOUS
  <2>2. /\ n \in Nat /\ n + 1 \in 0 .. Len(ms) /\ n + 1 \in 1 .. Len(ms) /\ n \in 0 .. n
        /\ n + 1 # 0 /\ (n + 1) - 1 = n
    BY <1>0
  <2>3. of[n] \in Seq(AnyDrive)
    BY <2>1, <2>2 DEF Stacks
  <2> DEFINE top == Onto(of[n], ms[n + 1], p)
             up == [i \in 0 .. n + 1 |-> IF i = n + 1 THEN top ELSE of[i]]
  <2>4. top \in Seq(AnyDrive)
    <3>1. ms[n + 1] \in Mount
      BY <2>2, ElementOfSeq
    <3>2. ms[n + 1].file \in AnyDrive
      BY <3>1 DEF Mount, AnyDrive
    <3> QED
      BY <2>3, <3>2, AppendProperties DEF Onto
  <2> HIDE DEF top
  <2>5. \A i \in 0 .. n + 1 : i # n + 1 => i \in 0 .. n /\ (i # 0 => i - 1 \in 0 .. n)
    BY <2>2
  <2>6. up \in [0 .. n + 1 -> Seq(AnyDrive)]
    <3>1. \A i \in 0 .. n + 1 : i # n + 1 => of[i] \in Seq(AnyDrive)
      BY <2>1, <2>5 DEF Stacks
    <3> QED
      BY <2>4, <3>1
  <2>7. \A i \in 0 .. n : up[i] = of[i]
    BY <2>2
  <2>8. up[n + 1] = top
    BY <2>2
  <2> HIDE DEF up
  <2>9. ASSUME NEW i \in 0 .. n + 1
        PROVE  up[i] = IF i = 0 THEN <<>> ELSE Onto(up[i - 1], ms[i], p)
    <3>1. CASE i = n + 1
      BY <2>2, <2>7, <2>8, <3>1 DEF top
    <3>2. CASE i # n + 1
      <4>1. i \in 0 .. n /\ (i # 0 => i - 1 \in 0 .. n)
        BY <2>5, <3>2
      <4>2. of[i] = IF i = 0 THEN <<>> ELSE Onto(of[i - 1], ms[i], p)
        BY <2>1, <4>1 DEF Stacks
      <4> QED
        BY <2>7, <4>1, <4>2
    <3> QED
      BY <3>1, <3>2
  <2>10. Stacks(up, ms, p, n + 1)
    BY <2>6, <2>9 DEF Stacks
  <2> QED
    BY <2>2, <2>10
<1> HIDE DEF S
<1>3. Len(ms) \in S
  <2>1. 0 .. Len(ms) \subseteq S
    BY <1>0, <1>1, <1>2, Induction
  <2> QED
    BY <1>0, <2>1
<1> QED
  BY <1>3 DEF S

LEMMA StackedIs ==
    ASSUME NEW ms \in Seq(Mount), NEW p
    PROVE  /\ Stacked(ms, p)[0] = <<>>
           /\ \A n \in 1 .. Len(ms) :
                 Stacked(ms, p)[n] = Onto(Stacked(ms, p)[n - 1], ms[n], p)
<1>0. Len(ms) \in Nat
  BY LenProperties
<1>1. Stacked(ms, p) = CHOOSE of : IsStacked(of, ms, p)
  BY DEF Stacked, IsStacked, Onto
<1>2. PICK of : Stacks(of, ms, p, Len(ms))
  BY StackedExists
<1>3. IsStacked(of, ms, p)
  BY <1>2 DEF Stacks, IsStacked
<1>4. IsStacked(Stacked(ms, p), ms, p)
  BY <1>1, <1>3
<1>5. \A n \in 0 .. Len(ms) : Stacked(ms, p)[n] =
        IF n = 0 THEN <<>> ELSE Onto(Stacked(ms, p)[n - 1], ms[n], p)
  BY <1>4 DEF IsStacked
<1>6. 0 \in 0 .. Len(ms) /\ \A n \in 1 .. Len(ms) : n \in 0 .. Len(ms) /\ n # 0
  BY <1>0
<1> QED
  BY <1>5, <1>6

(* What satisfies the recursion is Stacked.                                *)
Solves(g, ms, p) ==
    g[0] = <<>> /\ \A n \in 1 .. Len(ms) : g[n] = Onto(g[n - 1], ms[n], p)

LEMMA StackedUnique ==
    ASSUME NEW ms \in Seq(Mount), NEW p, NEW g, Solves(g, ms, p)
    PROVE  \A n \in 0 .. Len(ms) : Stacked(ms, p)[n] = g[n]
<1> DEFINE S == {n \in 0 .. Len(ms) : Stacked(ms, p)[n] = g[n]}
<1>0. Len(ms) \in Nat
  BY LenProperties
<1>1. 0 \in S
  BY <1>0, StackedIs DEF Solves
<1>2. \A n \in 0 .. Len(ms) - 1 : n \in S => n + 1 \in S
  <2> SUFFICES ASSUME NEW n \in 0 .. Len(ms) - 1, n \in S PROVE n + 1 \in S
    OBVIOUS
  <2>1. n + 1 \in 1 .. Len(ms) /\ n + 1 \in 0 .. Len(ms) /\ (n + 1) - 1 = n
    BY <1>0
  <2>2. Stacked(ms, p)[n + 1] = Onto(Stacked(ms, p)[n], ms[n + 1], p)
    BY <2>1, StackedIs
  <2>3. g[n + 1] = Onto(g[n], ms[n + 1], p)
    BY <2>1 DEF Solves
  <2> QED
    BY <2>1, <2>2, <2>3
<1> HIDE DEF S
<1>3. 0 .. Len(ms) \subseteq S
  BY <1>0, <1>1, <1>2, Induction
<1> QED
  BY <1>3 DEF S

LEMMA StackedType ==
    ASSUME NEW ms \in Seq(Mount), NEW p
    PROVE  \A n \in 0 .. Len(ms) : Stacked(ms, p)[n] \in Seq(AnyDrive)
<1>0. Len(ms) \in Nat
  BY LenProperties
<1>1. PICK of : Stacks(of, ms, p, Len(ms))
  BY StackedExists
<1>2. \A n \in 1 .. Len(ms) : n \in 0 .. Len(ms) /\ n # 0
  BY <1>0
<1>3. of[0] = <<>> /\ \A n \in 1 .. Len(ms) : of[n] = Onto(of[n - 1], ms[n], p)
  BY <1>0, <1>1, <1>2 DEF Stacks
<1>4. \A n \in 0 .. Len(ms) : Stacked(ms, p)[n] = of[n]
  <2>1. Solves(of, ms, p)
    BY <1>3 DEF Solves
  <2> QED
    BY <2>1, StackedUnique
<1> QED
  BY <1>1, <1>4 DEF Stacks

LEMMA PushAppend ==
    ASSUME NEW S, NEW x \in S, NEW s \in Seq(S), NEW y \in S
    PROVE  <<x>> \o Append(s, y) = Append(<<x>> \o s, y)
<1>1. <<x>> \in Seq(S) /\ <<y>> \in Seq(S) /\ <<x>> \o s \in Seq(S)
  BY PushProperties
<1>2. Append(s, y) = s \o <<y>> /\ Append(<<x>> \o s, y) = (<<x>> \o s) \o <<y>>
  BY <1>1, AppendIsConcat
<1> QED
  BY <1>1, <1>2, ConcatAssociative

(* A mount that is put among others, before all those of its name, goes on *)
(* top of its name's stack and leaves the other stacks alone.              *)
Inserted(ms, r, k) ==
    /\ Len(ms) = Len(r) + 1
    /\ \A i \in 1 .. Len(r) : r[i] = IF i < k THEN ms[i] ELSE ms[i + 1]
    /\ \A i \in 1 .. Len(ms) : i < k => ms[i].point # ms[k].point

LEMMA Insertion ==
    ASSUME NEW ms \in Seq(Mount), NEW r \in Seq(Mount), NEW k \in 1 .. Len(ms),
           Inserted(ms, r, k), NEW p
    PROVE  Stacked(ms, p)[Len(ms)] =
               IF p = ms[k].point THEN <<ms[k].file>> \o Stacked(r, p)[Len(r)]
               ELSE Stacked(r, p)[Len(r)]
<1> DEFINE low == Stacked(r, p)
           x == ms[k].file
           g == [n \in 0 .. Len(ms) |->
                   IF n < k THEN low[n]
                   ELSE IF p = ms[k].point THEN <<x>> \o low[n - 1] ELSE low[n - 1]]
<1> USE DEF Inserted
<1>0. Len(ms) \in Nat /\ Len(r) \in Nat /\ k \in Nat /\ k >= 1 /\ k <= Len(r) + 1
  BY LenProperties
<1>1. x \in AnyDrive
  <2>1. ms[k] \in Mount
    BY ElementOfSeq
  <2> QED
    BY <2>1 DEF Mount, AnyDrive
<1>2. /\ \A n \in 0 .. Len(r) : low[n] \in Seq(AnyDrive)
      /\ low[0] = <<>> /\ \A n \in 1 .. Len(r) : low[n] = Onto(low[n - 1], r[n], p)
  BY StackedType, StackedIs
<1>3. p = ms[k].point => low[k - 1] = <<>>
  <2> SUFFICES ASSUME p = ms[k].point PROVE low[k - 1] = <<>>
    OBVIOUS
  <2> DEFINE S == {n \in 0 .. k - 1 : low[n] = <<>>}
  <2>1. 0 \in S
    BY <1>0, <1>2
  <2>2. \A n \in 0 .. (k - 1) - 1 : n \in S => n + 1 \in S
    <3> SUFFICES ASSUME NEW n \in 0 .. (k - 1) - 1, n \in S PROVE n + 1 \in S
      OBVIOUS
    <3>1. /\ n + 1 \in 1 .. Len(r) /\ n + 1 < k /\ n + 1 \in 0 .. k - 1
          /\ n + 1 \in 1 .. Len(ms) /\ (n + 1) - 1 = n
      BY <1>0
    <3>2. r[n + 1] = ms[n + 1] /\ ms[n + 1].point # p
      BY <3>1
    <3>3. low[n + 1] = Onto(low[n], r[n + 1], p)
      BY <1>2, <3>1
    <3> QED
      BY <3>1, <3>2, <3>3 DEF Onto
  <2>3. k - 1 \in Nat
    BY <1>0
  <2> HIDE DEF S
  <2>4. 0 .. k - 1 \subseteq S
    BY <2>1, <2>2, <2>3, Induction
  <2>5. k - 1 \in S
    BY <2>3, <2>4
  <2> QED
    BY <2>5 DEF S
<1> HIDE DEF low, x
<1>4. g[0] = <<>>
  BY <1>0, <1>2
<1>5. ASSUME NEW n \in 1 .. Len(ms) PROVE g[n] = Onto(g[n - 1], ms[n], p)
  <2>0. n \in Nat /\ n \in 0 .. Len(ms) /\ n - 1 \in 0 .. Len(ms) /\ n - 1 \in Nat
    BY <1>0
  <2>1. CASE n < k
    <3>1. n \in 1 .. Len(r) /\ n - 1 < k
      BY <1>0, <2>0, <2>1
    <3>2. g[n] = low[n] /\ g[n - 1] = low[n - 1] /\ r[n] = ms[n]
      BY <2>0, <2>1, <3>1
    <3> QED
      BY <1>2, <3>1, <3>2
  <2>2. CASE n = k
    <3>1. n - 1 < k /\ ~(n < k) /\ n - 1 \in 0 .. Len(r)
      BY <1>0, <2>0, <2>2
    <3>2. g[n - 1] = low[n - 1]
      BY <2>0, <3>1
    <3>3. g[n] = IF p = ms[k].point THEN <<x>> \o low[n - 1] ELSE low[n - 1]
      BY <2>0, <3>1
    <3>4. <<x>> \o <<>> = <<x>> /\ Append(<<>>, x) = <<x>>
      BY <1>1
    <3> QED
      BY <1>3, <2>2, <3>2, <3>3, <3>4 DEF Onto, x
  <2>3. CASE n > k
    <3>1. /\ ~(n < k) /\ ~(n - 1 < k) /\ n - 1 \in 1 .. Len(r) /\ (n - 1) + 1 = n
          /\ n - 2 \in 0 .. Len(r) /\ (n - 1) - 1 = n - 2
      BY <1>0, <2>0, <2>3
    <3>2. r[n - 1] = ms[n]
      BY <3>1
    <3>3. low[n - 1] = Onto(low[n - 2], ms[n], p) /\ low[n - 2] \in Seq(AnyDrive)
      BY <1>2, <3>1, <3>2
    <3>4. /\ g[n] = IF p = ms[k].point THEN <<x>> \o low[n - 1] ELSE low[n - 1]
          /\ g[n - 1] = IF p = ms[k].point THEN <<x>> \o low[n - 2] ELSE low[n - 2]
      BY <2>0, <3>1
    <3>5. ms[n].file \in AnyDrive
      <4>1. ms[n] \in Mount
        BY ElementOfSeq
      <4> QED
        BY <4>1 DEF Mount, AnyDrive
    <3>6. \A s \in Seq(AnyDrive), y \in AnyDrive :
            <<x>> \o Append(s, y) = Append(<<x>> \o s, y)
      BY <1>1, PushAppend
    <3> HIDE DEF g
    <3>7. CASE ms[n].point = p
      <4>1. low[n - 1] = Append(low[n - 2], ms[n].file)
        BY <3>3, <3>7 DEF Onto
      <4>2. <<x>> \o low[n - 1] = Append(<<x>> \o low[n - 2], ms[n].file)
        BY <3>3, <3>5, <3>6, <4>1
      <4>3. Onto(g[n - 1], ms[n], p) = Append(g[n - 1], ms[n].file)
        BY <3>7 DEF Onto
      <4> QED
        BY <3>4, <4>1, <4>2, <4>3
    <3>8. CASE ms[n].point # p
      BY <3>3, <3>4, <3>8 DEF Onto
    <3> QED
      BY <3>7, <3>8
  <2> QED
    BY <1>0, <2>0, <2>1, <2>2, <2>3
<1>6. Stacked(ms, p)[Len(ms)] = g[Len(ms)]
  <2> HIDE DEF g
  <2>1. Solves(g, ms, p)
    BY <1>4, <1>5 DEF Solves
  <2>2. \A n \in 0 .. Len(ms) : Stacked(ms, p)[n] = g[n]
    BY <2>1, StackedUnique
  <2> QED
    BY <1>0, <2>2
<1>7. ~(Len(ms) < k) /\ Len(ms) - 1 = Len(r) /\ Len(ms) \in 0 .. Len(ms)
  BY <1>0
<1> QED
  BY <1>6, <1>7 DEF low, x

(* Mounts with the same names and files make the same stacks.              *)
LEMMA SameStacks ==
    ASSUME NEW ms \in Seq(Mount), NEW r \in Seq(Mount), Len(ms) = Len(r),
           \A i \in 1 .. Len(r) : r[i].point = ms[i].point /\ r[i].file = ms[i].file,
           NEW p
    PROVE  Stacked(ms, p)[Len(ms)] = Stacked(r, p)[Len(r)]
<1>0. Len(r) \in Nat
  BY LenProperties
<1> DEFINE g == Stacked(r, p)
<1>1. Solves(g, ms, p)
  BY StackedIs DEF Onto, Solves
<1> HIDE DEF g
<1>2. \A n \in 0 .. Len(ms) : Stacked(ms, p)[n] = g[n]
  BY <1>1, StackedUnique
<1> QED
  BY <1>0, <1>2 DEF g

LEMMA PushTail ==
    ASSUME NEW S, NEW x \in S, NEW s \in Seq(S)
    PROVE  <<x>> \o s # <<>> /\ Tail(<<x>> \o s) = s
<1>1. /\ <<x>> \o s \in Seq(S) /\ Len(<<x>> \o s) = Len(s) + 1 /\ Len(s) \in Nat
      /\ \A i \in 1 .. Len(s) : (<<x>> \o s)[i + 1] = s[i]
  BY PushProperties, LenProperties
<1>2. <<x>> \o s # <<>>
  BY <1>1, EmptySeq
<1>3. /\ Tail(<<x>> \o s) \in Seq(S) /\ Len(Tail(<<x>> \o s)) = Len(s)
      /\ \A i \in 1 .. Len(s) : Tail(<<x>> \o s)[i] = (<<x>> \o s)[i + 1]
  BY <1>1, <1>2, HeadTailProperties
<1> QED
  BY <1>1, <1>2, <1>3, SeqEqual

(* A registration puts its drive on the stack of its name.                 *)
LEMMA RegisterPushes ==
    ASSUME DriveTypeOK, DriveTypeOK', NEW p \in Point, NEW f \in File \cup {Stdin},
           AddMount(p, f), ~spoiled'
    PROVE  DM!Push(p) /\ UNCHANGED spoiled
<1>1. PICK x \in Mount : mounts' = <<x>> \o mounts /\ x.file = f /\ x.point = p
  BY AddMountEffect
<1>2. mounts \in Seq(Mount) /\ mounts' \in Seq(Mount) /\ Len(mounts) \in Nat
  BY DriveTypeParts, LenProperties DEF DriveTypeOK, Mount
<1>3. /\ Len(mounts') = Len(mounts) + 1 /\ mounts'[1] = x
      /\ \A i \in 1 .. Len(mounts) : mounts'[i + 1] = mounts[i]
  BY <1>1, <1>2, PushProperties
<1>4. 1 \in 1 .. Len(mounts') /\ Inserted(mounts', mounts, 1)
  BY <1>2, <1>3 DEF Inserted
<1>5. \A q : Stacked(mounts', q)[Len(mounts')] =
               IF q = p THEN <<f>> \o Stacked(mounts, q)[Len(mounts)]
               ELSE Stacked(mounts, q)[Len(mounts)]
  <2> TAKE q
  <2>1. Stacked(mounts', q)[Len(mounts')] =
               IF q = mounts'[1].point THEN <<mounts'[1].file>> \o Stacked(mounts, q)[Len(mounts)]
               ELSE Stacked(mounts, q)[Len(mounts)]
    BY <1>2, <1>4, Insertion
  <2> QED
    BY <1>1, <1>3, <2>1
<1>6. \A q : StackOf(q)' = IF q = p THEN <<f>> \o StackOf(q) ELSE StackOf(q)
  BY <1>5 DEF StackOf
<1>7. DM!Push(p)
  BY <1>6 DEF DM!Push
<1>8. spoiled' = spoiled
  BY DEF DriveTypeOK, AddMount
<1> QED
  BY <1>7, <1>8

(* An unregistration takes the drive on top of the stack of its name off.  *)
LEMMA UnregisterPops ==
    ASSUME DriveTypeOK, DriveTypeOK', NEW p \in Point, UnregisterDrive(p)
    PROVE  DM!Pop(p) /\ UNCHANGED spoiled
<1>1. mounts \in Seq(Mount) /\ mounts' \in Seq(Mount) /\ Len(mounts) \in Nat
  BY DriveTypeParts, LenProperties DEF DriveTypeOK, Mount
<1>2. PICK k \in 1 .. Len(mounts) :
        /\ mounts' = RemoveAt(mounts, k) /\ mounts[k].point = p
        /\ \A i \in 1 .. Len(mounts) : i < k => mounts[i].point # mounts[k].point
  <2>1. /\ First(p) \in 1 .. Len(mounts) /\ mounts[First(p)].point = p
        /\ \A i \in DOMAIN mounts : i < First(p) => mounts[i].point # p
    BY <1>1, FirstIsNewest DEF UnregisterDrive
  <2>2. DOMAIN mounts = 1 .. Len(mounts)
    BY <1>1, LenProperties
  <2> QED
    BY <2>1, <2>2, UnregisterEffect
<1>3. Inserted(mounts, mounts', k)
  <2>1. /\ Len(mounts') = Len(mounts) - 1
        /\ \A i \in 1 .. Len(mounts) - 1 :
              mounts'[i] = IF i < k THEN mounts[i] ELSE mounts[i + 1]
    BY <1>1, <1>2, RemoveAtProperties
  <2>2. Len(mounts) = Len(mounts') + 1
    BY <1>1, <2>1
  <2> QED
    BY <1>2, <2>1, <2>2 DEF Inserted
<1>4. \A q : Stacked(mounts, q)[Len(mounts)] =
               IF q = p THEN <<mounts[k].file>> \o Stacked(mounts', q)[Len(mounts')]
               ELSE Stacked(mounts', q)[Len(mounts')]
  <2> TAKE q
  <2>1. Stacked(mounts, q)[Len(mounts)] =
               IF q = mounts[k].point THEN <<mounts[k].file>> \o Stacked(mounts', q)[Len(mounts')]
               ELSE Stacked(mounts', q)[Len(mounts')]
    BY <1>1, <1>3, Insertion
  <2> QED
    BY <1>2, <2>1
<1>5. \A q : StackOf(q) = IF q = p THEN <<mounts[k].file>> \o StackOf(q)' ELSE StackOf(q)'
  BY <1>4 DEF StackOf
<1>6. mounts[k].file \in AnyDrive /\ StackOf(p)' \in Seq(AnyDrive)
  <2>1. mounts[k] \in Mount
    BY <1>1, ElementOfSeq
  <2>2. Len(mounts') \in 0 .. Len(mounts')
    BY <1>1, LenProperties
  <2>3. Stacked(mounts', p)[Len(mounts')] \in Seq(AnyDrive)
    BY <1>1, <2>2, StackedType
  <2> QED
    BY <2>1, <2>3 DEF Mount, AnyDrive, StackOf
<1>7. StackOf(p) # <<>> /\ Tail(StackOf(p)) = StackOf(p)'
  <2>1. \A s \in Seq(AnyDrive), y \in AnyDrive :
          <<y>> \o s # <<>> /\ Tail(<<y>> \o s) = s
    BY PushTail
  <2> QED
    BY <1>5, <1>6, <2>1
<1>8. DM!Pop(p)
  BY <1>5, <1>7 DEF DM!Pop
<1> QED
  BY <1>8 DEF UnregisterDrive

(* What changes one mount but neither its name nor its file changes no     *)
(* stack.                                                                  *)
LEMMA ChangeKeepsStacks ==
    ASSUME DriveTypeOK, DriveTypeOK', NEW p \in Point, IsRegistered(p),
           \/ mounts' = Configured(p)
           \/ \E r \in Request : mounts' = [mounts EXCEPT ![First(p)] = Obeyed(@, r)]
    PROVE  \A q : StackOf(q)' = StackOf(q)
<1>1. mounts \in Seq(Mount) /\ mounts' \in Seq(Mount)
  BY DriveTypeParts DEF DriveTypeOK, Mount
<1>2. PICK x \in Mount : /\ mounts' = [mounts EXCEPT ![First(p)] = x]
                         /\ x.point = p /\ x.file = get_drive(p).file
  BY ChangeEffect
<1>3. First(p) \in 1 .. Len(mounts) /\ mounts[First(p)].point = p
  BY <1>1, FirstIsNewest
<1>4. /\ Len(mounts') = Len(mounts)
      /\ \A j \in 1 .. Len(mounts) : mounts'[j] = IF j = First(p) THEN x ELSE mounts[j]
  BY <1>1, <1>2, <1>3, ExceptSeq
<1>5. \A j \in 1 .. Len(mounts) :
        mounts'[j].point = mounts[j].point /\ mounts'[j].file = mounts[j].file
  BY <1>2, <1>3, <1>4 DEF get_drive
<1>6. \A q : Stacked(mounts', q)[Len(mounts')] = Stacked(mounts, q)[Len(mounts)]
  BY <1>1, <1>4, <1>5, SameStacks
<1> QED
  BY <1>6 DEF StackOf

LEMMA StacksInit == DriveInit => DM!Init
<1> SUFFICES ASSUME DriveInit PROVE DM!Init
  OBVIOUS
<1>1. mounts = <<>> /\ mounts \in Seq(Mount) /\ Len(mounts) = 0
  BY EmptySeq DEF DriveInit
<1>2. \A p : Stacked(mounts, p)[0] = <<>>
  BY <1>1, StackedIs
<1>3. \A p : StackOf(p) = <<>>
  BY <1>1, <1>2 DEF StackOf
<1> QED
  BY <1>3 DEF DriveInit, DM!Init

LEMMA StacksStep ==
    ASSUME TypeOK, TypeOK', [Next]_vars
    PROVE  [DM!Next]_<<[p \in Point |-> StackOf(p)], spoiled>>
<1>0. DriveTypeOK /\ DriveTypeOK'
  BY DEF TypeOK
<1>1. ASSUME NEW p \in Point, NEW f \in File \cup {Stdin}, AddMount(p, f)
      PROVE  DM!Next
  <2>1. CASE spoiled'
    BY <2>1 DEF DM!Next
  <2>2. CASE ~spoiled'
    BY <1>0, <1>1, <2>2, RegisterPushes DEF DM!Next
  <2> QED
    BY <2>1, <2>2
<1>2. ASSUME NEW p \in Point, UnregisterDrive(p) PROVE DM!Next
  BY <1>0, <1>2, UnregisterPops DEF DM!Next
<1>3. ASSUME NEW p \in Point, IsRegistered(p), UNCHANGED spoiled,
             \/ mounts' = Configured(p)
             \/ \E r \in Request : mounts' = [mounts EXCEPT ![First(p)] = Obeyed(@, r)]
      PROVE  UNCHANGED <<[q \in Point |-> StackOf(q)], spoiled>>
  BY <1>0, <1>3, ChangeKeepsStacks
<1>4. CASE DriveCall
  <2>1. PICK p \in Point :
          \/ \E f \in File : RegisterDrive(p, f)
          \/ RegisterSubsection(p) \/ UnregisterDrive(p)
          \/ InitDisk(p) \/ \E r \in Request : IoctlDisk(p, r)
    BY <1>4 DEF DriveCall
  <2>2. CASE (\E f \in File : RegisterDrive(p, f)) \/ RegisterSubsection(p)
    BY <1>1, <2>2 DEF RegisterDrive, RegisterSubsection
  <2>3. CASE UnregisterDrive(p)
    BY <1>2, <2>3
  <2>4. CASE InitDisk(p) \/ \E r \in Request : IoctlDisk(p, r)
    BY <1>3, <2>4 DEF InitDisk, IoctlDisk
  <2> QED
    BY <2>1, <2>2, <2>3, <2>4
<1>5. ASSUME NEW p \in Point, NEW l \in Lba,
             RegisterPartition(p, l) \/ RegisterPartitionFails(p, l)
      PROVE  UNCHANGED <<[q \in Point |-> StackOf(q)], spoiled>>
  BY <1>3, <1>5 DEF RegisterPartition, RegisterPartitionFails, Reaches
<1>6. ASSUME UNCHANGED driveVars
      PROVE  UNCHANGED <<[q \in Point |-> StackOf(q)], spoiled>>
  BY <1>6 DEF driveVars, StackOf
<1>7. CASE \/ \E i \in DOMAIN partitions : FlushRequired(i) \/ ext2_sync(i)
           \/ ext2_flush_all_partitions
           \/ UNCHANGED vars
  BY <1>6, <1>7 DEF FlushRequired, ext2_sync, ext2_flush_all_partitions, Flush, vars
<1> QED
  BY <1>4, <1>5, <1>7 DEF Next

(* The list of mounts implements a stack of drives per mount point, until  *)
(* a name is registered that reads as another one: a registration hides    *)
(* the drives its name had, and a removal brings the last of them back.    *)
THEOREM DrivesImplemented == Spec => DrivesRefined
<1>1. Init => DM!Init
  BY StacksInit DEF Init
<1>2. TypeOK /\ TypeOK' /\ [Next]_vars => [DM!Next]_<<[p \in Point |-> StackOf(p)], spoiled>>
  BY StacksStep
<1> QED
  BY <1>1, <1>2, TypeCorrect, PTL DEF Spec, DrivesRefined, DM!Spec

-----------------------------------------------------------------------------
(* Names of partitions.                                                    *)

Digits == {Decimal[n] : n \in 0 .. MaxPartitions}

(* A name that is cut does not end in a digit of its drive.                *)
CutNamesDiffer == \A p \in Point : Len(p) < NameRoom \/ p[NameRoom] \notin Digits

(* The provers do not know that a literal is a string.                     *)
Character == STRING \cup {"p"}

Fitting(p) == Len(p) + 2 <= NameRoom
Uncut(p, n) == p \o <<"p", Decimal[n]>>

LEMMA UncutIs ==
    ASSUME NEW p \in Point, NEW n \in 0 .. MaxPartitions
    PROVE  /\ Len(p) \in Nat /\ p \in Seq(Character)
           /\ Uncut(p, n) \in Seq(Character) /\ Len(Uncut(p, n)) = Len(p) + 2
           /\ \A i \in 1 .. Len(p) : Uncut(p, n)[i] = p[i]
           /\ Uncut(p, n)[Len(p) + 1] = "p" /\ Uncut(p, n)[Len(p) + 2] = Decimal[n]
<1>1. p \in Seq(Character) /\ Len(p) \in Nat
  <2>1. p \in Seq(STRING) /\ Len(p) \in Nat
    BY DriveAssumption, LenProperties
  <2>2. p \in [1 .. Len(p) -> Character]
    <3>1. p \in [1 .. Len(p) -> STRING]
      BY <2>1, LenProperties
    <3> QED
      BY <3>1 DEF Character
  <2> QED
    BY <2>1, <2>2, SeqDef
<1>2. Decimal[n] \in Character /\ "p" \in Character
  BY PartitionsAssumption DEF Character
<1> DEFINE two == <<"p", Decimal[n]>>
<1>3. two \in Seq(Character) /\ Len(two) = 2 /\ two[1] = "p" /\ two[2] = Decimal[n]
  BY <1>2
<1> HIDE DEF two
<1>4. /\ p \o two \in Seq(Character) /\ Len(p \o two) = Len(p) + Len(two)
      /\ \A i \in 1 .. Len(p) + Len(two) :
            (p \o two)[i] = IF i <= Len(p) THEN p[i] ELSE two[i - Len(p)]
  BY <1>1, <1>3, ConcatProperties
<1>5. /\ Len(p) + 1 \in 1 .. Len(p) + 2 /\ Len(p) + 2 \in 1 .. Len(p) + 2
      /\ ~(Len(p) + 1 <= Len(p)) /\ ~(Len(p) + 2 <= Len(p))
      /\ (Len(p) + 1) - Len(p) = 1 /\ (Len(p) + 2) - Len(p) = 2
      /\ \A i \in 1 .. Len(p) : i \in 1 .. Len(p) + 2 /\ i <= Len(p)
  BY <1>1
<1>6. Uncut(p, n) = p \o two
  BY DEF Uncut, two
<1> QED
  BY <1>1, <1>3, <1>4, <1>5, <1>6

(* How a name ends, whole or cut.                                          *)
LEMMA NameEnds ==
    ASSUME NEW p \in Point, NEW n \in 0 .. MaxPartitions
    PROVE  /\ Fitting(p) => PartitionName(p, n) = Uncut(p, n)
           /\ CutNamesDiffer /\ ~Fitting(p) =>
                 /\ Len(PartitionName(p, n)) = NameRoom
                 /\ PartitionName(p, n)[NameRoom] \notin Digits
<1> DEFINE s == Uncut(p, n)
<1>1. /\ Len(p) \in Nat /\ s \in Seq(Character) /\ Len(s) = Len(p) + 2
      /\ \A i \in 1 .. Len(p) : s[i] = p[i]
      /\ s[Len(p) + 1] = "p"
  BY UncutIs
<1>2. PartitionName(p, n) = Cut(s) /\ NameRoom \in Nat /\ NameRoom >= 1
  BY PartitionsAssumption DEF PartitionName, Uncut
<1> HIDE DEF s
<1>3. ASSUME Fitting(p) PROVE PartitionName(p, n) = Uncut(p, n)
  <2>1. Len(s) <= NameRoom
    BY <1>1, <1>3 DEF Fitting
  <2> QED
    BY <1>1, <1>2, <2>1, CutType DEF s
<1>4. ASSUME CutNamesDiffer, ~Fitting(p)
      PROVE  Len(Cut(s)) = NameRoom /\ Cut(s)[NameRoom] \notin Digits
  <2>1. NameRoom < Len(s) /\ NameRoom <= Len(p) + 1
    BY <1>1, <1>2, <1>4 DEF Fitting
  <2>2. Min({Len(s), NameRoom}) = NameRoom
    <3>1. {Len(s), NameRoom} \in SUBSET Nat /\ {Len(s), NameRoom} # {}
      BY <1>1, <1>2
    <3>2. /\ Min({Len(s), NameRoom}) \in {Len(s), NameRoom}
          /\ Min({Len(s), NameRoom}) <= NameRoom
      BY <3>1, MinIsLeast
    <3> QED
      BY <1>1, <1>2, <2>1, <3>2
  <2>3. Cut(s) = SubSeq(s, 1, NameRoom)
    BY <2>2 DEF Cut
  <2>4. \A i \in 1 .. NameRoom : s[i] \in Character
    <3>1. \A i \in 1 .. NameRoom : i \in 1 .. Len(s)
      BY <1>1, <1>2, <2>1
    <3> QED
      BY <1>1, <3>1, ElementOfSeq
  <2>5. /\ Len(SubSeq(s, 1, NameRoom)) = IF 1 <= NameRoom THEN NameRoom - 1 + 1 ELSE 0
        /\ \A i \in 1 .. NameRoom - 1 + 1 : SubSeq(s, 1, NameRoom)[i] = s[1 + i - 1]
    BY <1>2, <2>4, SubSeqProperties
  <2>6. Len(Cut(s)) = NameRoom /\ Cut(s)[NameRoom] = s[NameRoom]
    BY <1>2, <2>3, <2>5
  <2>7. s[NameRoom] \notin Digits
    <3>1. CASE NameRoom <= Len(p)
      <4>1. NameRoom \in 1 .. Len(p)
        BY <1>1, <1>2, <3>1
      <4>2. p[NameRoom] \notin Digits
        BY <1>1, <1>2, <1>4, <3>1 DEF CutNamesDiffer
      <4> QED
        BY <1>1, <4>1, <4>2
    <3>2. CASE ~(NameRoom <= Len(p))
      <4>1. NameRoom = Len(p) + 1
        BY <1>1, <1>2, <2>1, <3>2
      <4>2. "p" \notin Digits
        BY PartitionsAssumption DEF Digits
      <4> QED
        BY <1>1, <4>1, <4>2
    <3> QED
      BY <3>1, <3>2
  <2> QED
    BY <2>6, <2>7
<1> QED
  BY <1>2, <1>3, <1>4

(* A name that fits tells the number of its partition.                     *)
LEMMA NameTellsNumber ==
    ASSUME CutNamesDiffer, NEW p \in Point, NEW n \in 0 .. MaxPartitions, Fitting(p),
           NEW r \in Point, NEW m \in 0 .. MaxPartitions,
           PartitionName(p, n) = PartitionName(r, m)
    PROVE  n = m
<1> DEFINE s == PartitionName(p, n)
<1>1. s = Uncut(p, n) /\ Len(s) \in Nat /\ s[Len(s)] = Decimal[n]
  BY NameEnds, UncutIs
<1>2. Decimal[n] \in Digits
  BY DEF Digits
<1>3. CASE Fitting(r)
  <2>1. s = Uncut(r, m) /\ s[Len(s)] = Decimal[m]
    BY <1>3, NameEnds, UncutIs
  <2> QED
    BY <1>1, <2>1, PartitionsAssumption
<1>4. CASE ~Fitting(r)
  <2>1. Len(s) = NameRoom /\ s[NameRoom] \notin Digits
    BY <1>4, NameEnds
  <2> QED
    BY <1>1, <1>2, <2>1
<1> QED
  BY <1>3, <1>4

(* What is before the last p of a name that fits is the drive.             *)
LEMMA DriveOfName ==
    ASSUME NEW p \in Point, NEW n \in 0 .. MaxPartitions, Fitting(p)
    PROVE  DiskFromPartition(PartitionName(p, n)) = p
<1> DEFINE s == Uncut(p, n)
           ps == {i \in DOMAIN s : s[i] = "p"}
<1>1. /\ Len(p) \in Nat /\ p \in Seq(Character)
      /\ s \in Seq(Character) /\ Len(s) = Len(p) + 2
      /\ \A i \in 1 .. Len(p) : s[i] = p[i]
      /\ s[Len(p) + 1] = "p" /\ s[Len(p) + 2] = Decimal[n]
  BY UncutIs
<1>2. PartitionName(p, n) = s /\ DOMAIN s = 1 .. Len(p) + 2
  BY <1>1, NameEnds, LenProperties
<1> HIDE DEF s
<1>3. Decimal[n] # "p"
  BY PartitionsAssumption
<1>4. Len(p) + 1 \in ps /\ Len(p) + 2 \notin ps
  BY <1>1, <1>2, <1>3
<1>5. ps \subseteq 0 .. Len(p) + 2
  BY <1>1, <1>2
<1>6. Max(ps) \in ps /\ \A y \in ps : Max(ps) >= y
  <2> HIDE DEF ps
  <2>1. Len(p) + 2 \in Nat /\ ps \in SUBSET (0 .. Len(p) + 2) /\ ps # {}
    BY <1>1, <1>4, <1>5
  <2> QED
    BY <2>1, GreatestElement DEF Max
<1>7. Max(ps) = Len(p) + 1
  <2> HIDE DEF ps
  <2>1. PICK k : k = Max(ps)
    OBVIOUS
  <2>2. k \in 0 .. Len(p) + 2 /\ k # Len(p) + 2 /\ k >= Len(p) + 1
    BY <1>4, <1>5, <1>6, <2>1
  <2> QED
    BY <1>1, <2>1, <2>2
<1>8. SubSeq(s, 1, Len(p)) = p
  <2>1. \A i \in 1 .. Len(p) : s[i] \in Character
    BY <1>1, ElementOfSeq
  <2>2. /\ SubSeq(s, 1, Len(p)) \in Seq(Character)
        /\ Len(SubSeq(s, 1, Len(p))) = IF 1 <= Len(p) THEN Len(p) - 1 + 1 ELSE 0
        /\ \A i \in 1 .. Len(p) - 1 + 1 : SubSeq(s, 1, Len(p))[i] = s[1 + i - 1]
    BY <1>1, <2>1, SubSeqProperties
  <2>3. Len(SubSeq(s, 1, Len(p))) = Len(p)
    BY <1>1, <2>2
  <2>4. \A i \in 1 .. Len(p) : SubSeq(s, 1, Len(p))[i] = p[i]
    BY <1>1, <2>2
  <2> QED
    BY <1>1, <2>2, <2>3, <2>4, SeqEqual
<1>9. DiskFromPartition(s) = SubSeq(s, 1, Max(ps) - 1)
  BY DEF DiskFromPartition
<1> HIDE DEF ps
<1>10. Max(ps) - 1 = Len(p)
  BY <1>1, <1>7
<1> QED
  BY <1>2, <1>8, <1>9, <1>10

(* The number that the i-th partition of the list was given.               *)
Number(i) == IF i = 1 THEN 0 ELSE i - 2

NamesInv ==
    /\ TypeOK
    /\ \A i \in DOMAIN partitions :
          partitions[i].name = PartitionName(partitions[i].drive, Number(i))

LEMMA NamesInit == Init => NamesInv
<1> SUFFICES ASSUME Init PROVE NamesInv
  OBVIOUS
<1>1. DOMAIN partitions = {}
  BY DEF Init
<1> QED
  BY <1>1, InitType DEF NamesInv

LEMMA NamesStep == NamesInv /\ [Next]_vars => NamesInv'
<1> SUFFICES ASSUME NamesInv, [Next]_vars PROVE NamesInv'
  OBVIOUS
<1>0. TypeOK /\ TypeOK'
  BY NextType DEF NamesInv
<1>1. CASE UNCHANGED partitions
  BY <1>0, <1>1 DEF NamesInv
<1>2. ASSUME NEW d \in Point, NEW lba \in Lba, RegisterPartition(d, lba) PROVE NamesInv'
  <2>1. PICK q \in Partition :
          partitions' = Append(partitions, q) /\ q.name = PartitionName(d, NextId) /\ q.drive = d
    BY <1>0, <1>2, RegisterEffect
  <2>2. /\ DOMAIN partitions = 1 .. Len(partitions) /\ Len(partitions) \in Nat
        /\ DOMAIN partitions' = 1 .. Len(partitions) + 1
        /\ partitions'[Len(partitions) + 1] = q
        /\ \A j \in 1 .. Len(partitions) : partitions'[j] = partitions[j]
    BY <1>0, <2>1, PartitionsType, LenProperties
  <2>3. NextId = Number(Len(partitions) + 1)
    <3>1. partitions = <<>> <=> Len(partitions) = 0
      BY <1>0, PartitionsType, EmptySeq
    <3> QED
      BY <2>2, <3>1 DEF NextId, Number
  <2>4. ASSUME NEW i \in DOMAIN partitions'
        PROVE  partitions'[i].name = PartitionName(partitions'[i].drive, Number(i))
    <3>1. CASE i = Len(partitions) + 1
      BY <2>1, <2>2, <2>3, <3>1
    <3>2. CASE i # Len(partitions) + 1
      <4>1. i \in DOMAIN partitions /\ partitions'[i] = partitions[i]
        BY <2>2, <3>2
      <4> QED
        BY <4>1 DEF NamesInv
    <3> QED
      BY <3>1, <3>2
  <2> QED
    BY <1>0, <2>4 DEF NamesInv
<1>3. ASSUME NEW n \in DOMAIN partitions, FlushRequired(n) PROVE NamesInv'
  <2>1. partitions' = [partitions EXCEPT ![n].flush = TRUE]
    BY <1>3 DEF FlushRequired
  <2>2. /\ DOMAIN partitions' = DOMAIN partitions
        /\ \A j \in DOMAIN partitions : partitions[j] \in Partition
    BY <1>0, <2>1, PartitionsType, ElementOfSeq, LenProperties
  <2>3. \A i \in DOMAIN partitions :
          /\ partitions'[i].name = partitions[i].name
          /\ partitions'[i].drive = partitions[i].drive
    BY <2>1, <2>2 DEF Partition
  <2> QED
    BY <1>0, <2>2, <2>3 DEF NamesInv
<1>4. ASSUME NEW is \in SUBSET DOMAIN partitions, Flush(is) PROVE NamesInv'
  BY <1>0, <1>4, FlushEffect DEF NamesInv
<1> QED
  BY <1>1, <1>2, <1>3, <1>4
     DEF Next, DriveCall, RegisterPartitionFails, ext2_sync, ext2_flush_all_partitions, vars

(* Where no mount point fills the room for a name with a digit in the last *)
(* place, every name that fits leads back to its drive, and to its         *)
(* partition, unless that is the second, which has the number of the       *)
(* first.                                                                  *)
THEOREM NamesLeadBack == ASSUME CutNamesDiffer PROVE Spec => []NameLeadsBack
<1>1. ASSUME NamesInv PROVE NameLeadsBack
  <2> SUFFICES ASSUME NEW i \in DOMAIN partitions, NameFits(i)
               PROVE  /\ DiskFromPartition(partitions[i].name) = partitions[i].drive
                      /\ i # 2 => get_partition(partitions[i].name) = i
    BY DEF NameLeadsBack
  <2>0. /\ Len(partitions) \in Nat /\ Len(partitions) <= MaxPartitions /\ MaxPartitions \in Nat
        /\ DOMAIN partitions = 1 .. Len(partitions)
    BY <1>1, PartitionsType, LenProperties, PartitionsAssumption DEF NamesInv, TypeOK
  <2>1. \A j \in DOMAIN partitions :
          /\ partitions[j].drive \in Point /\ Number(j) \in 0 .. MaxPartitions
          /\ partitions[j].name = PartitionName(partitions[j].drive, Number(j))
    <3>1. \A j \in 1 .. Len(partitions) : partitions[j] \in Partition
      BY <1>1, PartitionsType, ElementOfSeq DEF NamesInv
    <3>2. \A j \in 1 .. Len(partitions) : Number(j) \in 0 .. MaxPartitions
      BY <2>0 DEF Number
    <3> QED
      BY <1>1, <2>0, <3>1, <3>2 DEF NamesInv, Partition
  <2>2. Fitting(partitions[i].drive)
    BY DEF NameFits, Fitting
  <2>3. DiskFromPartition(partitions[i].name) = partitions[i].drive
    BY <2>1, <2>2, DriveOfName
  <2>4. ASSUME i # 2 PROVE get_partition(partitions[i].name) = i
    <3> DEFINE found == {j \in DOMAIN partitions : partitions[j].name = partitions[i].name}
    <3>1. i \in found /\ found \in SUBSET Nat
      BY <2>0
    <3>2. ASSUME NEW j \in found PROVE i <= j
      <4>1. Number(i) = Number(j)
        BY <2>1, <2>2, NameTellsNumber
      <4>2. i \in Nat /\ j \in Nat /\ i >= 1 /\ j >= 1
        BY <2>0
      <4> QED
        BY <2>4, <4>1, <4>2 DEF Number
    <3>3. get_partition(partitions[i].name) = IF found = {} THEN 0 ELSE Min(found)
      BY DEF get_partition
    <3> HIDE DEF found
    <3>4. Min(found) \in found /\ Min(found) <= i
      BY <3>1, MinIsLeast
    <3>5. i <= Min(found) /\ Min(found) \in Nat /\ i \in Nat
      BY <3>1, <3>2, <3>4
    <3> QED
      BY <3>1, <3>3, <3>4, <3>5
  <2> QED
    BY <2>3, <2>4
<1> QED
  BY <1>1, NamesInit, NamesStep, PTL DEF Spec
=============================================================================
