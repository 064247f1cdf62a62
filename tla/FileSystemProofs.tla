-------------------------- MODULE FileSystemProofs --------------------------
(***************************************************************************)
(* Theorems of module FileSystem, for every value of its constants.        *)
(***************************************************************************)
EXTENDS FileSystem, FiniteSetTheorems, Basics, TLAPS

-----------------------------------------------------------------------------
(* Paths and walks.                                                        *)

LEMMA PathIs ==
    \A p \in Path : /\ p \in Seq(Name) /\ Len(p) \in 1 .. Depth
                    /\ Front(p) \in Path \cup {<<>>} /\ Front(p) \in Seq(Name)
                    /\ Len(Front(p)) = Len(p) - 1
                    /\ \A i \in 1 .. Len(p) - 1 : Front(p)[i] = p[i]
                    /\ Last(p) = p[Len(p)] /\ Last(p) \in Name
<1> SUFFICES ASSUME NEW p \in Path
             PROVE  /\ p \in Seq(Name) /\ Len(p) \in 1 .. Depth
                    /\ Front(p) \in Path \cup {<<>>} /\ Front(p) \in Seq(Name)
                    /\ Len(Front(p)) = Len(p) - 1
                    /\ \A i \in 1 .. Len(p) - 1 : Front(p)[i] = p[i]
                    /\ Last(p) = p[Len(p)] /\ Last(p) \in Name
  OBVIOUS
<1>0. Depth \in Nat
  BY FileSystemAssumption
<1>1. PICK m \in 0 .. Depth : p \in [1 .. m -> Name]
  BY DEF Path, BoundedSeq, SeqOf
<1>2. p \in Seq(Name) /\ Len(p) = m /\ p # <<>>
  <2>1. p \in Seq(Name)
    BY <1>0, <1>1, SeqDef
  <2>2. DOMAIN p = 1 .. m /\ DOMAIN p = 1 .. Len(p) /\ Len(p) \in Nat
    BY <1>1, <2>1, LenProperties
  <2> QED
    BY <1>1, <2>1, <2>2 DEF Path
<1>3. m # 0
  BY <1>2, EmptySeq
<1>4. \A i \in 1 .. m : p[i] \in Name
  BY <1>1
<1>5. /\ Front(p) \in Seq(Name)
      /\ Len(Front(p)) = m - 1
      /\ \A i \in 1 .. m - 1 : Front(p)[i] = p[i]
  <2>1. \A i \in 1 .. m - 1 : p[i] \in Name
    BY <1>4
  <2>2. Front(p) = SubSeq(p, 1, m - 1)
    BY <1>2 DEF Front
  <2>3. /\ SubSeq(p, 1, m - 1) \in Seq(Name)
        /\ Len(SubSeq(p, 1, m - 1)) = IF 1 <= m - 1 THEN (m - 1) - 1 + 1 ELSE 0
        /\ \A i \in 1 .. (m - 1) - 1 + 1 : SubSeq(p, 1, m - 1)[i] = p[1 + i - 1]
    BY <1>2, <2>1, SubSeqProperties
  <2> QED
    BY <1>3, <2>2, <2>3
<1>6. Front(p) \in Path \cup {<<>>}
  <2>1. Front(p) \in [1 .. m - 1 -> Name]
    <3>1. DOMAIN Front(p) = 1 .. m - 1
      BY <1>5, LenProperties
    <3>2. Front(p) \in [1 .. Len(Front(p)) -> Name]
      BY <1>5, LenProperties
    <3> QED
      BY <1>5, <3>2
  <2>2. m - 1 \in 0 .. Depth
    BY <1>0, <1>3
  <2> QED
    BY <2>1, <2>2 DEF Path, BoundedSeq, SeqOf
<1>7. Last(p) = p[Len(p)] /\ Last(p) \in Name
  BY <1>2, <1>3, <1>4 DEF Last
<1> QED
  BY <1>0, <1>2, <1>3, <1>5, <1>6, <1>7

(* A walk exists: its recursion has a solution.                            *)
IsWalk(at, p) == at = [i \in 0 .. Len(p) |-> IF i = 0 THEN Root ELSE Find(at[i - 1], p[i])]

(* The first steps of a walk, up to the n-th name.                         *)
Walks(at, p, n) ==
    /\ at = [i \in 0 .. n |-> at[i]]
    /\ \A i \in 0 .. n : at[i] = IF i = 0 THEN Root ELSE Find(at[i - 1], p[i])

LEMMA WalkExists == \A p \in Seq(Name) : \E at : IsWalk(at, p)
<1> SUFFICES ASSUME NEW p \in Seq(Name) PROVE \E at : IsWalk(at, p)
  OBVIOUS
<1> DEFINE S == {n \in 0 .. Len(p) : \E at : Walks(at, p, n)}
<1>0. Len(p) \in Nat
  BY LenProperties
<1>1. 0 \in S
  <2> DEFINE at == [i \in 0 .. 0 |-> Root]
  <2>1. Walks(at, p, 0)
    BY DEF Walks
  <2>2. 0 \in 0 .. Len(p)
    BY <1>0
  <2> QED
    BY <2>1, <2>2
<1>2. \A n \in 0 .. Len(p) - 1 : n \in S => n + 1 \in S
  <2> SUFFICES ASSUME NEW n \in 0 .. Len(p) - 1, n \in S PROVE n + 1 \in S
    OBVIOUS
  <2>1. PICK at : Walks(at, p, n)
    OBVIOUS
  <2> DEFINE up == [i \in 0 .. n + 1 |-> IF i = n + 1 THEN Find(at[n], p[n + 1]) ELSE at[i]]
  <2>2. n + 1 \in 0 .. Len(p) /\ n \in 0 .. n + 1 /\ n + 1 # 0 /\ (n + 1) - 1 = n
    BY <1>0
  <2>3. ASSUME NEW i \in 0 .. n + 1
        PROVE  up[i] = IF i = 0 THEN Root ELSE Find(up[i - 1], p[i])
    <3>1. CASE i = n + 1
      <4>1. up[i] = Find(at[n], p[n + 1]) /\ up[n] = at[n]
        BY <1>0, <2>2, <3>1
      <4> QED
        BY <2>2, <3>1, <4>1
    <3>2. CASE i # n + 1
      <4>1. i \in 0 .. n /\ (i # 0 => i - 1 \in 0 .. n)
        BY <1>0, <3>2
      <4>2. up[i] = at[i] /\ (i # 0 => up[i - 1] = at[i - 1])
        BY <1>0, <3>2, <4>1
      <4>3. at[i] = IF i = 0 THEN Root ELSE Find(at[i - 1], p[i])
        BY <2>1, <4>1 DEF Walks
      <4> QED
        BY <4>2, <4>3
    <3> QED
      BY <3>1, <3>2
  <2>4. Walks(up, p, n + 1)
    BY <2>3 DEF Walks
  <2> QED
    BY <2>2, <2>4
<1>3. Len(p) \in S
  <2> HIDE DEF S
  <2>1. 0 .. Len(p) \subseteq S
    BY <1>0, <1>1, <1>2, Induction
  <2> QED
    BY <1>0, <2>1
<1>4. PICK at : Walks(at, p, Len(p))
  BY <1>3
<1> QED
  BY <1>4 DEF Walks, IsWalk

LEMMA ReachedIs ==
    \A p \in Seq(Name) :
        /\ Reached(p)[0] = Root
        /\ \A i \in 1 .. Len(p) : Reached(p)[i] = Find(Reached(p)[i - 1], p[i])
<1> SUFFICES ASSUME NEW p \in Seq(Name)
             PROVE  /\ Reached(p)[0] = Root
                    /\ \A i \in 1 .. Len(p) : Reached(p)[i] = Find(Reached(p)[i - 1], p[i])
  OBVIOUS
<1>0. Len(p) \in Nat
  BY LenProperties
<1>1. Reached(p) = CHOOSE at : IsWalk(at, p)
  BY DEF Reached, IsWalk
<1>2. IsWalk(Reached(p), p)
  BY <1>1, WalkExists
<1>3. \A i \in 0 .. Len(p) :
        Reached(p)[i] = IF i = 0 THEN Root ELSE Find(Reached(p)[i - 1], p[i])
  BY <1>2 DEF IsWalk
<1>4. 0 \in 0 .. Len(p) /\ \A i \in 1 .. Len(p) : i \in 0 .. Len(p) /\ i # 0
  BY <1>0
<1> QED
  BY <1>3, <1>4

(* Two walks agree as far as their paths do.                               *)
LEMMA WalksAgree ==
    \A p, q \in Seq(Name) : \A k \in 0 .. Len(p) :
        (k <= Len(q) /\ \A i \in 1 .. k : p[i] = q[i])
            => \A i \in 0 .. k : Reached(p)[i] = Reached(q)[i]
<1> SUFFICES ASSUME NEW p \in Seq(Name), NEW q \in Seq(Name), NEW k \in 0 .. Len(p),
                    k <= Len(q), \A i \in 1 .. k : p[i] = q[i]
             PROVE  \A i \in 0 .. k : Reached(p)[i] = Reached(q)[i]
  OBVIOUS
<1> DEFINE S == {i \in 0 .. k : Reached(p)[i] = Reached(q)[i]}
<1>0. Len(p) \in Nat /\ Len(q) \in Nat /\ k \in Nat
  BY LenProperties
<1>1. 0 \in S
  BY <1>0, ReachedIs
<1>2. \A i \in 0 .. k - 1 : i \in S => i + 1 \in S
  <2> SUFFICES ASSUME NEW i \in 0 .. k - 1, i \in S PROVE i + 1 \in S
    OBVIOUS
  <2>1. i + 1 \in 1 .. k /\ i + 1 \in 1 .. Len(p) /\ i + 1 \in 1 .. Len(q)
        /\ i + 1 \in 0 .. k /\ (i + 1) - 1 = i
    BY <1>0
  <2>2. Reached(p)[i + 1] = Find(Reached(p)[i], p[i + 1])
    BY <2>1, ReachedIs
  <2>3. Reached(q)[i + 1] = Find(Reached(q)[i], q[i + 1])
    BY <2>1, ReachedIs
  <2> QED
    BY <2>1, <2>2, <2>3
<1> HIDE DEF S
<1>3. 0 .. k \subseteq S
  BY <1>0, <1>1, <1>2, Induction
<1> QED
  BY <1>3 DEF S

(* A path and the path of its directory.                                   *)
LEMMA LookupIs ==
    \A p \in Path :
        /\ Lookup(p) = Find(Lookup(Front(p)), Last(p))
        /\ \A i \in 0 .. Len(p) - 1 : Reached(Front(p))[i] = Reached(p)[i]
        /\ Lookup(Front(p)) = Reached(p)[Len(p) - 1]
<1> SUFFICES ASSUME NEW p \in Path
             PROVE  /\ Lookup(p) = Find(Lookup(Front(p)), Last(p))
                    /\ \A i \in 0 .. Len(p) - 1 : Reached(Front(p))[i] = Reached(p)[i]
                    /\ Lookup(Front(p)) = Reached(p)[Len(p) - 1]
  OBVIOUS
<1>1. /\ p \in Seq(Name) /\ Len(p) \in 1 .. Depth
      /\ Front(p) \in Seq(Name) /\ Len(Front(p)) = Len(p) - 1
      /\ \A i \in 1 .. Len(p) - 1 : Front(p)[i] = p[i]
      /\ Last(p) = p[Len(p)]
  BY PathIs
<1>2. Len(p) - 1 \in 0 .. Len(Front(p)) /\ Len(p) - 1 <= Len(p) /\ Len(p) \in 1 .. Len(p)
      /\ Len(p) - 1 \in 0 .. Len(p) - 1
  BY <1>1
<1>3. \A i \in 0 .. Len(p) - 1 : Reached(Front(p))[i] = Reached(p)[i]
  BY <1>1, <1>2, WalksAgree
<1>4. Lookup(Front(p)) = Reached(p)[Len(p) - 1]
  BY <1>1, <1>2, <1>3 DEF Lookup
<1>5. Lookup(p) = Find(Reached(p)[Len(p) - 1], p[Len(p)])
  BY <1>1, <1>2, ReachedIs DEF Lookup
<1> QED
  BY <1>1, <1>3, <1>4, <1>5

LEMMA RootLookup == Lookup(<<>>) = Root
<1>1. <<>> \in Seq(Name) /\ Len(<<>>) = 0
  BY EmptySeq
<1> QED
  BY <1>1, ReachedIs DEF Lookup
-----------------------------------------------------------------------------
(* What an entry is found by, and where.                                   *)

EntryType == [name : Name \cup {Dot, DotDot}, ino : Inode, room : 1 .. DirRoom + 2]

LEMMA MinIs ==
    ASSUME NEW S \in SUBSET Nat, S # {}
    PROVE  Min(S) \in S /\ \A y \in S : Min(S) <= y
BY LeastElement DEF Min

LEMMA RemoveAtIs ==
    ASSUME NEW S, NEW s \in Seq(S), NEW k \in 1 .. Len(s)
    PROVE  /\ RemoveAt(s, k) \in Seq(S)
           /\ Len(RemoveAt(s, k)) = Len(s) - 1
           /\ \A i \in 1 .. Len(s) - 1 :
                 RemoveAt(s, k)[i] = IF i < k THEN s[i] ELSE s[i + 1]
BY Excision DEF RemoveAt

LEMMA Typed ==
    TypeOK =>
        /\ \A n \in Inode : /\ n # 0 /\ n \in Nat
                            /\ inode[n].type \in Type \cup {"none"}
                            /\ inode[n].size \in {0, 1}
                            /\ inode[n].blocks \in Seq(Block)
                            /\ inode[n].blocks # <<>> => BlockOf(n) \in Block
        /\ \A b \in Block : /\ dents[b] \in Seq(EntryType) /\ Len(dents[b]) \in Nat
                            /\ \A i \in 1 .. Len(dents[b]) : dents[b][i] \in EntryType
        /\ 0 \notin Inode /\ 0 \notin Block
        /\ call.path \in Path \cup {<<>>} /\ call.dir \in Inode \cup {0}
        /\ call.ino \in Inode \cup {0} /\ call.blk \in Block \cup {0}
        /\ call.type \in Type \cup {"none"}
<1> SUFFICES ASSUME TypeOK
             PROVE  /\ \A n \in Inode : /\ n # 0 /\ n \in Nat
                                        /\ inode[n].type \in Type \cup {"none"}
                                        /\ inode[n].size \in {0, 1}
                                        /\ inode[n].blocks \in Seq(Block)
                                        /\ inode[n].blocks # <<>> => BlockOf(n) \in Block
                    /\ \A b \in Block :
                          /\ dents[b] \in Seq(EntryType) /\ Len(dents[b]) \in Nat
                          /\ \A i \in 1 .. Len(dents[b]) : dents[b][i] \in EntryType
                    /\ 0 \notin Inode /\ 0 \notin Block
                    /\ call.path \in Path \cup {<<>>} /\ call.dir \in Inode \cup {0}
                    /\ call.ino \in Inode \cup {0} /\ call.blk \in Block \cup {0}
                    /\ call.type \in Type \cup {"none"}
  OBVIOUS
<1>1. Inode \subseteq Nat \ {0} /\ Block \subseteq Nat \ {0}
  BY FileSystemAssumption
<1>2. ASSUME NEW n \in Inode
      PROVE  /\ inode[n].type \in Type \cup {"none"} /\ inode[n].size \in {0, 1}
             /\ inode[n].blocks \in Seq(Block)
             /\ inode[n].blocks # <<>> => BlockOf(n) \in Block
  <2>1. inode[n] \in [type : Type \cup {"none"}, size : 0 .. 1, blocks : Seq(Block)]
    BY DEF TypeOK
  <2>2. inode[n].size \in 0 .. 1 /\ inode[n].blocks \in Seq(Block)
        /\ inode[n].type \in Type \cup {"none"}
    BY <2>1
  <2>3. inode[n].blocks # <<>> => Head(inode[n].blocks) \in Block
    BY <2>2, HeadTailProperties
  <2> QED
    BY <2>2, <2>3 DEF BlockOf
<1>3. ASSUME NEW b \in Block
      PROVE  /\ dents[b] \in Seq(EntryType) /\ Len(dents[b]) \in Nat
             /\ \A i \in 1 .. Len(dents[b]) : dents[b][i] \in EntryType
  <2>1. dents[b] \in Seq(EntryType)
    BY DEF TypeOK, EntryType
  <2> QED
    BY <2>1, ElementOfSeq, LenProperties
<1>4. /\ call.path \in Path \cup {<<>>} /\ call.dir \in Inode \cup {0}
      /\ call.ino \in Inode \cup {0} /\ call.blk \in Block \cup {0}
      /\ call.type \in Type \cup {"none"}
  BY DEF TypeOK, CallType
<1> QED
  BY <1>1, <1>2, <1>3, <1>4

(* The lengths in a block add up to no more than the block.                *)
Divided(s) ==
    \E f \in [1 .. Len(s) + 1 -> 0 .. DirRoom + 2] :
        \A i \in 1 .. Len(s) : f[i + 1] = f[i] + s[i].room

(* What an entry in any block leads to, also in one no path leads to.      *)
EntryOK(e) ==
    /\ e.ino \in imap
    /\ inode[e.ino].type = "directory" => inode[e.ino].size = 1
    /\ e.name \in Name => e.ino # Root

Sized == \A n \in Inode : inode[n].size = 1 => inode[n].blocks # <<>>
Stored ==
    /\ Sized
    /\ \A b \in Block : Divided(dents[b])
    /\ \A b \in Block : \A i \in 1 .. Len(dents[b]) : EntryOK(dents[b][i])
    /\ Root \in imap /\ HoldsEntries(Root)

LEMMA HoldsTyped ==
    TypeOK /\ Sized => \A n \in Inode \cup {0} : HoldsEntries(n) =>
        /\ n \in Inode /\ inode[n].blocks # <<>> /\ BlockOf(n) \in Block
        /\ inode[n].type = "directory" /\ inode[n].size = 1
        /\ Entries(n) = dents[BlockOf(n)]
BY Typed DEF Sized, HoldsEntries, Entries

(* The first entry with a name.                                            *)
FirstWith(s, x, i) ==
    /\ i \in 1 .. Len(s) /\ s[i].name = x
    /\ \A j \in 1 .. Len(s) : s[j].name = x => i <= j

LEMMA FindIs ==
    TypeOK /\ Sized => \A n \in Inode \cup {0}, x \in Name : Find(n, x) # 0 =>
        /\ HoldsEntries(n) /\ BlockOf(n) \notin soiled
        /\ \E i : FirstWith(Entries(n), x, i) /\ Find(n, x) = Entries(n)[i].ino
<1> SUFFICES ASSUME TypeOK, Sized, NEW n \in Inode \cup {0}, NEW x \in Name, Find(n, x) # 0
             PROVE  /\ HoldsEntries(n) /\ BlockOf(n) \notin soiled
                    /\ \E i : FirstWith(Entries(n), x, i) /\ Find(n, x) = Entries(n)[i].ino
  OBVIOUS
<1> DEFINE s == dents[BlockOf(n)]
           matches == {i \in DOMAIN s : s[i].name = x}
<1>1. HoldsEntries(n) /\ BlockOf(n) \notin soiled /\ matches # {}
      /\ Find(n, x) = s[Min(matches)].ino
  BY DEF Find
<1>2. BlockOf(n) \in Block /\ Entries(n) = s
  BY <1>1, HoldsTyped
<1>3. DOMAIN s = 1 .. Len(s) /\ Len(s) \in Nat
  BY <1>2, Typed, LenProperties
<1>4. matches \in SUBSET Nat
  BY <1>3
<1>5. Min(matches) \in matches /\ \A y \in matches : Min(matches) <= y
  <2> HIDE DEF matches
  <2> QED
    BY <1>1, <1>4, MinIs
<1>6. FirstWith(s, x, Min(matches))
  BY <1>3, <1>5 DEF FirstWith
<1> QED
  BY <1>1, <1>2, <1>6

LEMMA FindFirst ==
    TypeOK /\ Sized => \A n \in Inode \cup {0}, x \in Name : \A i :
        HoldsEntries(n) /\ BlockOf(n) \notin soiled /\ FirstWith(Entries(n), x, i)
            => Find(n, x) = Entries(n)[i].ino /\ Find(n, x) # 0
<1> SUFFICES ASSUME TypeOK, Sized, NEW n \in Inode \cup {0}, NEW x \in Name, NEW i,
                    HoldsEntries(n), BlockOf(n) \notin soiled, FirstWith(Entries(n), x, i)
             PROVE  Find(n, x) = Entries(n)[i].ino /\ Find(n, x) # 0
  OBVIOUS
<1> DEFINE s == dents[BlockOf(n)]
           matches == {j \in DOMAIN s : s[j].name = x}
<1>1. BlockOf(n) \in Block /\ Entries(n) = s
  BY HoldsTyped
<1>2. DOMAIN s = 1 .. Len(s) /\ Len(s) \in Nat
  BY <1>1, Typed, LenProperties
<1>3. i \in matches /\ \A y \in matches : i <= y
  BY <1>1, <1>2 DEF FirstWith
<1>4. Find(n, x) = s[Min(matches)].ino
  BY <1>3 DEF Find
<1>5. matches \in SUBSET Nat
  BY <1>2
<1>6. Min(matches) = i
  <2> HIDE DEF matches
  <2>1. Min(matches) \in matches /\ \A y \in matches : Min(matches) <= y
    BY <1>3, <1>5, MinIs
  <2>2. Min(matches) \in Nat /\ i \in Nat /\ Min(matches) <= i /\ i <= Min(matches)
    BY <1>3, <1>5, <2>1
  <2> QED
    BY <2>2
<1>7. s[i].ino \in Inode
  BY <1>1, <1>2, <1>3, Typed DEF EntryType
<1>8. s[i].ino # 0
  BY <1>7, Typed
<1> QED
  BY <1>1, <1>4, <1>6, <1>8

(* A name that is in a directory is found first somewhere.                 *)
LEMMA FirstExists ==
    ASSUME NEW S, NEW s \in Seq(S), NEW x, NEW k \in 1 .. Len(s), s[k].name = x
    PROVE  \E i : FirstWith(s, x, i) /\ i <= k
<1> DEFINE M == {i \in 1 .. Len(s) : s[i].name = x}
<1>1. M \in SUBSET Nat /\ M # {} /\ k \in M
  OBVIOUS
<1> HIDE DEF M
<1>2. PICK i \in M : \A j \in M : i <= j
  BY <1>1, LeastElement
<1>3. FirstWith(s, x, i) /\ i <= k
  BY <1>1, <1>2 DEF M, FirstWith
<1> QED
  BY <1>3

(* What a walk comes to is in use, and the root is not come to again.      *)
LEMMA FindTyped ==
    TypeOK /\ Stored => \A n \in Inode \cup {0}, x \in Name :
        LET m == Find(n, x) IN
        m = 0 \/ (/\ m \in imap \ {Root} /\ m \in Inode
                  /\ inode[m].type = "directory" => HoldsEntries(m))
<1> SUFFICES ASSUME TypeOK, Stored, NEW n \in Inode \cup {0}, NEW x \in Name, Find(n, x) # 0
             PROVE  /\ Find(n, x) \in imap \ {Root} /\ Find(n, x) \in Inode
                    /\ inode[Find(n, x)].type = "directory" => HoldsEntries(Find(n, x))
  OBVIOUS
<1>1. Sized
  BY DEF Stored
<1>2. PICK i : FirstWith(Entries(n), x, i) /\ Find(n, x) = Entries(n)[i].ino /\ HoldsEntries(n)
  BY <1>1, FindIs
<1>3. BlockOf(n) \in Block /\ Entries(n) = dents[BlockOf(n)]
  BY <1>1, <1>2, HoldsTyped
<1>4. i \in 1 .. Len(dents[BlockOf(n)]) /\ dents[BlockOf(n)][i].name = x
  BY <1>2, <1>3 DEF FirstWith
<1>5. EntryOK(dents[BlockOf(n)][i])
  BY <1>3, <1>4 DEF Stored
<1>6. Find(n, x) \in imap /\ Find(n, x) # Root
      /\ (inode[Find(n, x)].type = "directory" => inode[Find(n, x)].size = 1)
  BY <1>2, <1>3, <1>4, <1>5 DEF EntryOK
<1> QED
  BY <1>6 DEF TypeOK, HoldsEntries

LEMMA ReachedTyped ==
    TypeOK /\ Stored => \A p \in Seq(Name) : \A i \in 0 .. Len(p) :
        LET m == Reached(p)[i] IN
        /\ m \in Inode \cup {0} /\ (m # 0 => m \in imap)
        /\ i # 0 => m # Root
        /\ m # 0 /\ inode[m].type = "directory" => HoldsEntries(m)
<1> SUFFICES ASSUME TypeOK, Stored, NEW p \in Seq(Name)
             PROVE  \A i \in 0 .. Len(p) :
                        LET m == Reached(p)[i] IN
                        /\ m \in Inode \cup {0} /\ (m # 0 => m \in imap)
                        /\ i # 0 => m # Root
                        /\ m # 0 /\ inode[m].type = "directory" => HoldsEntries(m)
  OBVIOUS
<1> DEFINE Good(i) == LET m == Reached(p)[i] IN
                      /\ m \in Inode \cup {0} /\ (m # 0 => m \in imap)
                      /\ i # 0 => m # Root
                      /\ m # 0 /\ inode[m].type = "directory" => HoldsEntries(m)
           S == {i \in 0 .. Len(p) : Good(i)}
<1>0. Len(p) \in Nat
  BY LenProperties
<1>1. 0 \in S
  <2>1. Reached(p)[0] = Root
    BY ReachedIs
  <2>2. Root \in Inode /\ Root \in imap /\ HoldsEntries(Root)
    BY FileSystemAssumption DEF Stored
  <2>3. Good(0)
    BY <2>1, <2>2
  <2> QED
    BY <1>0, <2>3
<1>2. \A i \in 0 .. Len(p) - 1 : i \in S => i + 1 \in S
  <2> SUFFICES ASSUME NEW i \in 0 .. Len(p) - 1, i \in S PROVE i + 1 \in S
    OBVIOUS
  <2>1. i + 1 \in 1 .. Len(p) /\ i + 1 \in 0 .. Len(p) /\ (i + 1) - 1 = i
    BY <1>0
  <2>2. Reached(p)[i + 1] = Find(Reached(p)[i], p[i + 1])
    BY <2>1, ReachedIs
  <2>3. p[i + 1] \in Name /\ Reached(p)[i] \in Inode \cup {0}
    BY <2>1, ElementOfSeq
  <2>4. Find(Reached(p)[i], p[i + 1]) # Root
    BY <2>3, FindTyped, FileSystemAssumption
  <2>5. Good(i + 1)
    BY <2>2, <2>3, <2>4, FindTyped
  <2> QED
    BY <2>1, <2>5
<1> HIDE DEF S
<1>3. 0 .. Len(p) \subseteq S
  BY <1>0, <1>1, <1>2, Induction
<1> QED
  BY <1>3 DEF S

LEMMA LookupTyped ==
    TypeOK /\ Stored => \A p \in Path \cup {<<>>} :
        /\ Lookup(p) \in Inode \cup {0} /\ (Lookup(p) # 0 => Lookup(p) \in imap)
        /\ p # <<>> => Lookup(p) # Root
        /\ Lookup(p) # 0 /\ inode[Lookup(p)].type = "directory" => HoldsEntries(Lookup(p))
<1> SUFFICES ASSUME TypeOK, Stored, NEW p \in Path \cup {<<>>}
             PROVE  /\ Lookup(p) \in Inode \cup {0} /\ (Lookup(p) # 0 => Lookup(p) \in imap)
                    /\ p # <<>> => Lookup(p) # Root
                    /\ Lookup(p) # 0 /\ inode[Lookup(p)].type = "directory"
                            => HoldsEntries(Lookup(p))
  OBVIOUS
<1>1. p \in Seq(Name) /\ Len(p) \in Nat /\ (p # <<>> => Len(p) # 0)
  BY PathIs, EmptySeq
<1>2. Len(p) \in 0 .. Len(p)
  BY <1>1
<1> QED
  BY <1>1, <1>2, ReachedTyped DEF Lookup

-----------------------------------------------------------------------------
(* The contents of a directory's block, and what its writes make of them.  *)

LEMMA NoEntries == <<>> \in Seq(EntryType) /\ Len(<<>>) = 0 /\ Divided(<<>>)
<1>1. <<>> \in Seq(EntryType) /\ Len(<<>>) = 0
  BY EmptySeq
<1>2. DirRoom \in Nat
  BY FileSystemAssumption
<1> DEFINE f == [i \in 1 .. Len(<<>>) + 1 |-> 0]
<1>3. f \in [1 .. Len(<<>>) + 1 -> 0 .. DirRoom + 2]
  BY <1>2
<1>4. \A i \in 1 .. Len(<<>>) : f[i + 1] = f[i] + <<>>[i].room
  BY <1>1
<1> QED
  BY <1>1, <1>3, <1>4 DEF Divided

LEMMA EmptyDirectoryIs ==
    ASSUME NEW n \in Inode, NEW d \in Inode
    PROVE  /\ EmptyDirectory(n, d) \in Seq(EntryType) /\ Divided(EmptyDirectory(n, d))
           /\ Len(EmptyDirectory(n, d)) = 2
           /\ EmptyDirectory(n, d)[1] = Entry(Dot, n, 1)
           /\ EmptyDirectory(n, d)[2] = Entry(DotDot, d, DirRoom + 1)
<1> DEFINE s == EmptyDirectory(n, d)
<1>1. DirRoom \in Nat
  BY FileSystemAssumption
<1>2. 1 \in 1 .. DirRoom + 2 /\ DirRoom + 1 \in 1 .. DirRoom + 2
  BY <1>1
<1>3. Entry(Dot, n, 1) \in EntryType /\ Entry(DotDot, d, DirRoom + 1) \in EntryType
  BY <1>2 DEF Entry, EntryType
<1>4. /\ s \in Seq(EntryType) /\ Len(s) = 2
      /\ s[1] = Entry(Dot, n, 1) /\ s[2] = Entry(DotDot, d, DirRoom + 1)
  BY <1>3 DEF EmptyDirectory
<1>5. Divided(s)
  <2> DEFINE f == [i \in 1 .. 3 |-> IF i = 1 THEN 0 ELSE IF i = 2 THEN 1 ELSE DirRoom + 2]
  <2>1. f \in [1 .. Len(s) + 1 -> 0 .. DirRoom + 2]
    BY <1>1, <1>4
  <2>2. s[1].room = 1 /\ s[2].room = DirRoom + 1
    BY <1>4 DEF Entry
  <2>3. f[1] = 0 /\ f[2] = 1 /\ f[3] = DirRoom + 2
    OBVIOUS
  <2>4. f[1 + 1] = f[1] + s[1].room /\ f[2 + 1] = f[2] + s[2].room
    BY <1>1, <2>2, <2>3
  <2>5. \A i \in 1 .. Len(s) : i = 1 \/ i = 2
    BY <1>4
  <2> QED
    BY <2>1, <2>4, <2>5 DEF Divided
<1> QED
  BY <1>4, <1>5

LEMMA WithEntryIs ==
    ASSUME NEW s \in Seq(EntryType), s # <<>>, HasRoom(s), Divided(s),
           NEW x \in Name, NEW n \in Inode
    PROVE  LET t == WithEntry(s, x, n) IN
           /\ t \in Seq(EntryType) /\ Divided(t) /\ Len(t) = Len(s) + 1
           /\ \A i \in 1 .. Len(s) : t[i].name = s[i].name /\ t[i].ino = s[i].ino
           /\ t[Len(s) + 1].name = x /\ t[Len(s) + 1].ino = n
<1> DEFINE k == Len(s)
           r == s[k].room
           u == [s EXCEPT ![k].room = 1]
           e == Entry(x, n, r - 1)
           t == Append(u, e)
<1>1. k \in Nat /\ k # 0 /\ k \in 1 .. k /\ DirRoom \in Nat
  BY LenProperties, EmptySeq, FileSystemAssumption
<1>2. \A i \in 1 .. k : s[i] \in EntryType
  BY <1>1, ElementOfSeq
<1>3. r \in 1 .. DirRoom + 2 /\ r >= 2
  BY <1>1, <1>2 DEF EntryType, HasRoom
<1>4. r - 1 \in 1 .. DirRoom + 2 /\ 1 \in 1 .. DirRoom + 2
  BY <1>1, <1>3
<1>5. e \in EntryType /\ e.name = x /\ e.ino = n /\ e.room = r - 1
  BY <1>4 DEF Entry, EntryType
<1>6. DOMAIN s = 1 .. k
  BY LenProperties
<1>7. [s[k] EXCEPT !.room = 1] \in EntryType
  BY <1>1, <1>2, <1>4 DEF EntryType
<1>8. u = [i \in 1 .. k |-> IF i = k THEN [s[k] EXCEPT !.room = 1] ELSE s[i]]
  BY <1>6
<1>9. /\ u \in Seq(EntryType) /\ Len(u) = k
      /\ \A i \in 1 .. k : /\ u[i].name = s[i].name /\ u[i].ino = s[i].ino
                           /\ u[i].room = IF i = k THEN 1 ELSE s[i].room
  <2>1. u \in [1 .. k -> EntryType]
    BY <1>2, <1>7, <1>8
  <2>2. u \in Seq(EntryType)
    BY <1>1, <2>1, SeqDef
  <2>3. Len(u) = k
    BY <1>1, <2>1, <2>2, LenProperties
  <2>4. ASSUME NEW i \in 1 .. k
        PROVE  /\ u[i].name = s[i].name /\ u[i].ino = s[i].ino
               /\ u[i].room = IF i = k THEN 1 ELSE s[i].room
    BY <1>2, <1>8 DEF EntryType
  <2> QED
    BY <2>2, <2>3, <2>4
<1> HIDE DEF u, e
<1>10. /\ t \in Seq(EntryType) /\ Len(t) = k + 1
       /\ \A i \in 1 .. k : t[i] = u[i]
       /\ t[k + 1] = e
  BY <1>5, <1>9, AppendProperties
<1>11. Divided(t)
  <2> HIDE DEF t
  <2>1. PICK f \in [1 .. k + 1 -> 0 .. DirRoom + 2] : \A i \in 1 .. k : f[i + 1] = f[i] + s[i].room
    BY DEF Divided
  <2> DEFINE g == [i \in 1 .. k + 2 |-> IF i <= k THEN f[i] ELSE IF i = k + 1 THEN f[k] + 1
                                        ELSE f[k + 1]]
  <2>2. f[k + 1] = f[k] + r /\ f[k] \in 0 .. DirRoom + 2 /\ f[k + 1] \in 0 .. DirRoom + 2
    BY <1>1, <2>1
  <2>3. f[k] + 1 \in 0 .. DirRoom + 2
    BY <1>1, <1>3, <2>2
  <2>4. ASSUME NEW i \in 1 .. k + 2 PROVE g[i] \in 0 .. DirRoom + 2
    <3> HIDE DEF g
    <3>1. \A j \in 1 .. k + 1 : f[j] \in 0 .. DirRoom + 2
      BY <2>1
    <3>2. i <= k => i \in 1 .. k + 1
      BY <1>1
    <3>3. i <= k => f[i] \in 0 .. DirRoom + 2
      BY <3>1, <3>2
    <3>4. g[i] = IF i <= k THEN f[i] ELSE IF i = k + 1 THEN f[k] + 1 ELSE f[k + 1]
      BY DEF g
    <3> QED
      BY <2>2, <2>3, <3>3, <3>4
  <2>5. (k + 1) + 1 = k + 2
    BY <1>1
  <2>6. g \in [1 .. (k + 1) + 1 -> 0 .. DirRoom + 2]
    BY <2>4, <2>5
  <2>7. ASSUME NEW i \in 1 .. k + 1 PROVE g[i + 1] = g[i] + t[i].room
    <3>1. i + 1 \in 1 .. k + 2 /\ i \in 1 .. k + 2
      BY <1>1
    <3>2. CASE i < k
      <4>1. i \in 1 .. k /\ i + 1 <= k /\ i # k /\ i <= k
        BY <1>1, <3>2
      <4>2. g[i + 1] = f[i + 1] /\ g[i] = f[i]
        BY <3>1, <4>1
      <4>3. t[i].room = s[i].room
        BY <1>9, <1>10, <4>1
      <4> QED
        BY <2>1, <4>1, <4>2, <4>3
    <3>3. CASE i = k
      <4>1. g[i + 1] = f[k] + 1 /\ g[i] = f[k]
        BY <1>1, <3>1, <3>3
      <4>2. t[i].room = 1
        BY <1>1, <1>9, <1>10, <3>3
      <4> QED
        BY <4>1, <4>2
    <3>4. CASE i = k + 1
      <4>1. g[i + 1] = f[k + 1] /\ g[i] = f[k] + 1
        BY <1>1, <3>1, <3>4
      <4>2. t[i].room = r - 1
        BY <1>5, <1>10, <3>4
      <4> QED
        BY <1>3, <2>2, <4>1, <4>2, SMTT(30)
    <3> QED
      BY <1>1, <3>2, <3>3, <3>4
  <2> QED
    BY <1>10, <2>6, <2>7 DEF Divided
<1>12. WithEntry(s, x, n) = t
  BY DEF WithEntry, u, e
<1> QED
  BY <1>5, <1>9, <1>10, <1>11, <1>12

LEMMA WithoutEntryIs ==
    ASSUME NEW s \in Seq(EntryType), Divided(s), NEW k \in 2 .. Len(s)
    PROVE  LET t == WithoutEntry(s, k) IN
           /\ t \in Seq(EntryType) /\ Divided(t) /\ Len(t) = Len(s) - 1
           /\ \A i \in 1 .. Len(s) - 1 :
                 LET j == IF i < k THEN i ELSE i + 1 IN
                 j \in 1 .. Len(s) /\ t[i].name = s[j].name /\ t[i].ino = s[j].ino
<1> DEFINE len == Len(s)
           u == [s EXCEPT ![k - 1].room = @ + s[k].room]
           t == RemoveAt(u, k)
<1>1. len \in Nat /\ k \in Nat /\ k - 1 \in 1 .. len /\ k \in 1 .. len /\ k # 1
      /\ DirRoom \in Nat /\ (k - 1) + 1 = k
  BY LenProperties, FileSystemAssumption
<1>2. \A i \in 1 .. len : s[i] \in EntryType
  BY <1>1, ElementOfSeq
<1>3. PICK f \in [1 .. len + 1 -> 0 .. DirRoom + 2] : \A i \in 1 .. len : f[i + 1] = f[i] + s[i].room
  BY DEF Divided
<1> DEFINE r == s[k - 1].room + s[k].room
<1>4. s[k - 1].room \in 1 .. DirRoom + 2 /\ s[k].room \in 1 .. DirRoom + 2
  BY <1>1, <1>2 DEF EntryType
<1>5. f[k] = f[k - 1] + s[k - 1].room /\ f[k + 1] = f[k] + s[k].room
      /\ f[k - 1] \in 0 .. DirRoom + 2 /\ f[k] \in 0 .. DirRoom + 2 /\ f[k + 1] \in 0 .. DirRoom + 2
  <2>1. f[(k - 1) + 1] = f[k - 1] + s[k - 1].room /\ f[k + 1] = f[k] + s[k].room
    BY <1>1, <1>3
  <2>2. k - 1 \in 1 .. len + 1 /\ k \in 1 .. len + 1 /\ k + 1 \in 1 .. len + 1
    BY <1>1
  <2> QED
    BY <1>1, <1>3, <2>1, <2>2
<1>6. r \in 1 .. DirRoom + 2 /\ f[k + 1] = f[k - 1] + r
  <2> DEFINE a == f[k - 1]
             b == f[k]
             c == f[k + 1]
             x == s[k - 1].room
             y == s[k].room
  <2>1. /\ a \in Nat /\ b \in Nat /\ c \in Nat /\ x \in Nat /\ y \in Nat
        /\ c <= DirRoom + 2 /\ 1 <= x /\ 1 <= y /\ b = a + x /\ c = b + y
    BY <1>1, <1>4, <1>5, SMTT(30)
  <2> HIDE DEF a, b, c, x, y
  <2>2. x + y \in 1 .. DirRoom + 2 /\ c = a + (x + y)
    BY <1>1, <2>1
  <2> QED
    BY <2>2 DEF a, c, x, y
<1>7. DOMAIN s = 1 .. len
  BY LenProperties
<1>8. [s[k - 1] EXCEPT !.room = r] \in EntryType
  BY <1>1, <1>2, <1>6 DEF EntryType
<1>9. u = [i \in 1 .. len |-> IF i = k - 1 THEN [s[k - 1] EXCEPT !.room = r] ELSE s[i]]
  BY <1>7
<1>10. /\ u \in Seq(EntryType) /\ Len(u) = len
       /\ \A i \in 1 .. len : /\ u[i].name = s[i].name /\ u[i].ino = s[i].ino
                              /\ u[i].room = IF i = k - 1 THEN r ELSE s[i].room
  <2> HIDE DEF r
  <2>1. u \in [1 .. len -> EntryType]
    BY <1>2, <1>8, <1>9
  <2>2. u \in Seq(EntryType)
    BY <1>1, <2>1, SeqDef
  <2>3. Len(u) = len
    BY <1>1, <2>1, <2>2, LenProperties
  <2>4. ASSUME NEW i \in 1 .. len
        PROVE  /\ u[i].name = s[i].name /\ u[i].ino = s[i].ino
               /\ u[i].room = IF i = k - 1 THEN r ELSE s[i].room
    BY <1>2, <1>9 DEF EntryType
  <2> QED
    BY <2>2, <2>3, <2>4
<1> HIDE DEF u, r
<1>11. /\ t \in Seq(EntryType) /\ Len(t) = len - 1
       /\ \A i \in 1 .. len - 1 : t[i] = IF i < k THEN u[i] ELSE u[i + 1]
  <2>1. u \in Seq(EntryType) /\ k \in 1 .. Len(u)
    BY <1>1, <1>10
  <2>2. /\ t \in Seq(EntryType) /\ Len(t) = Len(u) - 1
        /\ \A i \in 1 .. Len(u) - 1 : t[i] = IF i < k THEN u[i] ELSE u[i + 1]
    BY <2>1, RemoveAtIs
  <2> QED
    BY <1>10, <2>2
<1> HIDE DEF t
<1>12. ASSUME NEW i \in 1 .. len - 1
       PROVE  LET j == IF i < k THEN i ELSE i + 1 IN
              /\ j \in 1 .. len /\ t[i].name = s[j].name /\ t[i].ino = s[j].ino
              /\ t[i].room = IF i = k - 1 THEN r ELSE s[j].room
  <2>1. i \in 1 .. len /\ i + 1 \in 1 .. len /\ i \in Nat
    BY <1>1
  <2>2. CASE i < k
    <3>1. t[i] = u[i]
      BY <1>11, <2>2
    <3> QED
      BY <1>10, <2>1, <2>2, <3>1
  <2>3. CASE ~(i < k)
    <3>1. i + 1 # k - 1 /\ i # k - 1
      BY <1>1, <2>3
    <3>2. t[i] = u[i + 1]
      BY <1>11, <2>3
    <3> QED
      BY <1>10, <2>1, <2>3, <3>1, <3>2
  <2> QED
    BY <2>2, <2>3
<1>13. Divided(t)
  <2> DEFINE g == [i \in 1 .. len |-> IF i < k THEN f[i] ELSE f[i + 1]]
  <2>1. Len(t) + 1 = len
    BY <1>1, <1>11
  <2>2. ASSUME NEW i \in 1 .. len PROVE g[i] \in 0 .. DirRoom + 2
    <3>1. i \in 1 .. len + 1 /\ i + 1 \in 1 .. len + 1
      BY <1>1
    <3>2. f[i] \in 0 .. DirRoom + 2 /\ f[i + 1] \in 0 .. DirRoom + 2
      BY <1>3, <3>1
    <3> QED
      BY <3>2
  <2>3. g \in [1 .. Len(t) + 1 -> 0 .. DirRoom + 2]
    BY <2>1, <2>2
  <2>4. ASSUME NEW i \in 1 .. len - 1 PROVE g[i + 1] = g[i] + t[i].room
    <3>1. i \in 1 .. len /\ i + 1 \in 1 .. len /\ i \in Nat
      BY <1>1
    <3>2. CASE i < k - 1
      <4>1. i < k /\ i + 1 < k /\ i # k - 1
        BY <1>1, <3>1, <3>2
      <4>2. g[i] = f[i] /\ g[i + 1] = f[i + 1] /\ t[i].room = s[i].room
        BY <1>12, <3>1, <4>1
      <4> QED
        BY <1>3, <3>1, <4>2
    <3>3. CASE i = k - 1
      <4>1. i < k /\ ~(i + 1 < k) /\ i + 1 = k
        BY <1>1, <3>1, <3>3
      <4>2. g[i] = f[k - 1] /\ g[i + 1] = f[k + 1] /\ t[i].room = r
        BY <1>12, <3>1, <3>3, <4>1
      <4> QED
        BY <1>6, <4>2 DEF r
    <3>4. CASE i > k - 1
      <4>1. ~(i < k) /\ ~(i + 1 < k) /\ i # k - 1
        BY <1>1, <3>1, <3>4
      <4>2. g[i] = f[i + 1] /\ g[i + 1] = f[(i + 1) + 1] /\ t[i].room = s[i + 1].room
        BY <1>12, <3>1, <4>1
      <4> QED
        BY <1>3, <3>1, <4>2
    <3> QED
      BY <1>1, <3>1, <3>2, <3>3, <3>4
  <2>5. \A i \in 1 .. Len(t) : g[i + 1] = g[i] + t[i].room
    BY <1>11, <2>4
  <2> QED
    BY <2>3, <2>5 DEF Divided
<1>14. WithoutEntry(s, k) = t
  BY <1>1 DEF WithoutEntry, t, u
<1> QED
  BY <1>11, <1>12, <1>13, <1>14

-----------------------------------------------------------------------------
(* Type correctness.  A call holds what its next steps rely on: an inode   *)
(* in use, its block once it has one, and, while it makes a directory, an  *)
(* inode that no entry leads to yet but its own first one.                 *)

Creating == call.op = "create" /\ ~At("walking")

Fresh ==
    \A b \in Block : \A i \in 1 .. Len(dents[b]) :
        dents[b][i].ino = call.ino => At("link") /\ i = 1 /\ HoldsEntries(call.ino)
                                      /\ b = BlockOf(call.ino)

CallOK ==
    /\ At("idle") => call = Idle
    /\ At("inode") => call.op = "create" /\ call.type \in Type
    /\ At("grow") \/ At("map") =>
            /\ call.op \in {"create", "write"} /\ inode[call.ino].size = 0
            /\ call.op = "create" <=> inode[call.ino].type = "directory"
    /\ At("map") => call.blk # 0
    /\ At("init") => call.op = "create" /\ HoldsEntries(call.ino)
    /\ At("link") => call.op = "create"
                     /\ (inode[call.ino].type = "directory" => HoldsEntries(call.ino))
    /\ At("data") => call.op = "write" /\ inode[call.ino].size = 1
                     /\ inode[call.ino].type # "directory"
    /\ At("erase") \/ At("unlink") => call.op = "delete"
    /\ ~At("idle") /\ ~At("walking") => call.path \in Path /\ call.ino \in imap \ {Root}
    /\ Creating => /\ HoldsEntries(call.dir) /\ call.dir \in imap /\ call.dir # call.ino
                   /\ Fresh

WellFormed == TypeOK /\ Stored /\ CallOK

LEMMA IdleIs == Idle \in CallType /\ (call = Idle => CallOK /\ At("idle"))
<1>1. Idle \in CallType
  BY DEF Idle, CallType
<1>2. call = Idle => CallOK /\ At("idle")
  BY DEF Idle, CallOK, At, Creating
<1> QED
  BY <1>1, <1>2

Steps == {"idle", "walking", "inode", "grow", "map", "init", "link", "data", "erase", "unlink"}

LEMMA GotoIs ==
    ASSUME NEW c \in CallType,
           NEW pc \in Steps
    PROVE  LET d == [c EXCEPT !.pc = pc] IN
           /\ d \in CallType /\ d.pc = pc /\ d.op = c.op /\ d.path = c.path
           /\ d.type = c.type /\ d.dir = c.dir /\ d.ino = c.ino /\ d.blk = c.blk
BY DEF CallType, Steps

InodeType == [type : Type \cup {"none"}, size : 0 .. 1, blocks : Seq(Block)]

LEMMA InodeIs ==
    ASSUME NEW r \in InodeType, NEW q \in Seq(Block)
    PROVE  /\ LET g == [r EXCEPT !.size = 1, !.blocks = q]
              IN  g \in InodeType /\ g.size = 1 /\ g.type = r.type /\ g.blocks = q
           /\ LET e == [r EXCEPT !.type = "none", !.size = 0]
              IN  e \in InodeType /\ e.size = 0 /\ e.type = "none" /\ e.blocks = r.blocks
<1> DEFINE g == [r EXCEPT !.size = 1]
           e == [r EXCEPT !.type = "none"]
<1>1. g \in InodeType /\ g.size = 1 /\ g.type = r.type
  BY DEF InodeType
<1>2. e \in InodeType /\ e.type = "none" /\ e.blocks = r.blocks
  BY DEF InodeType
<1> HIDE DEF g, e
<1>3. /\ [g EXCEPT !.blocks = q] \in InodeType /\ [g EXCEPT !.blocks = q].size = 1
      /\ [g EXCEPT !.blocks = q].type = r.type /\ [g EXCEPT !.blocks = q].blocks = q
  BY <1>1 DEF InodeType
<1>4. /\ [e EXCEPT !.size = 0] \in InodeType /\ [e EXCEPT !.size = 0].size = 0
      /\ [e EXCEPT !.size = 0].type = "none" /\ [e EXCEPT !.size = 0].blocks = r.blocks
  BY <1>2 DEF InodeType
<1> QED
  BY <1>3, <1>4 DEF g, e

LEMMA StoredKept == Stored /\ UNCHANGED <<imap, inode, dents>> => Stored'
  BY DEF Stored, Sized, EntryOK, HoldsEntries

(* Steps that only end a call.                                             *)
LEMMA IdleStep ==
    ASSUME WellFormed, call' = Idle, UNCHANGED disk,
           failed' \in {"none", "create", "write", "delete"},
           crashes' \in 0 .. MaxCrashes, damaged' \in BOOLEAN
    PROVE  WellFormed'
<1>1. Stored'
  BY StoredKept DEF WellFormed, disk
<1>2. (call = Idle => CallOK /\ At("idle"))'
  BY IdleIs, PTL
<1>3. TypeOK'
  BY IdleIs DEF WellFormed, TypeOK, disk
<1> QED
  BY <1>1, <1>2, <1>3 DEF WellFormed

LEMMA WellFormedInit == Init => WellFormed
<1> SUFFICES ASSUME Init PROVE WellFormed
  OBVIOUS
<1>0. /\ Root \in Inode /\ Inode \subseteq Nat \ {0} /\ Block \in SUBSET Nat
      /\ Block # {} /\ 0 \notin Block /\ MaxCrashes \in Nat
  BY FileSystemAssumption
<1>1. Min(Block) \in Block
  BY <1>0, MinIs
<1>2. /\ <<Min(Block)>> \in Seq(Block) /\ <<>> \in Seq(Block) /\ <<Min(Block)>> # <<>>
      /\ Head(<<Min(Block)>>) = Min(Block)
  BY <1>1
<1>3. /\ EmptyDirectory(Root, Root) \in Seq(EntryType) /\ Divided(EmptyDirectory(Root, Root))
      /\ Len(EmptyDirectory(Root, Root)) = 2
      /\ EmptyDirectory(Root, Root)[1] = Entry(Dot, Root, 1)
      /\ EmptyDirectory(Root, Root)[2] = Entry(DotDot, Root, DirRoom + 1)
  BY <1>0, EmptyDirectoryIs
<1>4. /\ \A n \in Inode : inode[n] = IF n = Root
                THEN [type |-> "directory", size |-> 1, blocks |-> <<Min(Block)>>]
                ELSE [type |-> "none", size |-> 0, blocks |-> <<>>]
      /\ \A b \in Block : dents[b] = IF b = Min(Block) THEN EmptyDirectory(Root, Root) ELSE <<>>
  BY DEF Init
<1>5. TypeOK
  <2>1. inode \in [Inode -> [type : Type \cup {"none"}, size : 0 .. 1, blocks : Seq(Block)]]
    <3>1. [type |-> "directory", size |-> 1, blocks |-> <<Min(Block)>>]
            \in [type : Type \cup {"none"}, size : 0 .. 1, blocks : Seq(Block)]
      BY <1>2 DEF Type
    <3>2. [type |-> "none", size |-> 0, blocks |-> <<>>]
            \in [type : Type \cup {"none"}, size : 0 .. 1, blocks : Seq(Block)]
      BY <1>2 DEF Type
    <3> QED
      BY <3>1, <3>2 DEF Init
  <2>2. dents \in [Block -> Seq(EntryType)]
    BY <1>3, NoEntries DEF Init
  <2>3. imap \subseteq Inode /\ bmap \subseteq Block /\ soiled \subseteq Block
    BY <1>0, <1>1 DEF Init
  <2>4. data \in [Block -> Inode \cup {0}] /\ call \in CallType
        /\ failed \in {"none", "create", "write", "delete"}
        /\ crashes \in 0 .. MaxCrashes /\ damaged \in BOOLEAN
    <3>1. data = [b \in Block |-> 0] /\ call = Idle /\ failed = "none" /\ crashes = 0
          /\ damaged = FALSE
      BY DEF Init
    <3>2. 0 \in 0 .. MaxCrashes
      BY <1>0
    <3>3. call \in CallType
      BY <3>1, IdleIs
    <3> QED
      BY <3>1, <3>2, <3>3
  <2> QED
    BY <2>1, <2>2, <2>3, <2>4 DEF TypeOK, EntryType
<1>6. Stored
  <2>1. Sized
    BY <1>2, <1>4 DEF Sized
  <2>2. \A b \in Block : Divided(dents[b])
    BY <1>3, <1>4, NoEntries
  <2>3. Root \in imap /\ HoldsEntries(Root)
    BY <1>0, <1>4 DEF Init, HoldsEntries
  <2>4. ASSUME NEW b \in Block, NEW i \in 1 .. Len(dents[b])
        PROVE  EntryOK(dents[b][i])
    <3>1. dents[b] = EmptyDirectory(Root, Root) /\ (i = 1 \/ i = 2)
      <4>1. dents[b] # <<>>
        BY NoEntries
      <4>2. dents[b] = EmptyDirectory(Root, Root)
        BY <1>4, <4>1
      <4>3. Len(dents[b]) = 2
        BY <1>3, <4>2
      <4>4. i \in 1 .. 2
        BY <4>3
      <4> QED
        BY <4>2, <4>4
    <3>2. dents[b][i].ino = Root /\ dents[b][i].name \in {Dot, DotDot}
      BY <1>3, <3>1 DEF Entry
    <3> QED
      BY <2>3, <3>2, FileSystemAssumption DEF EntryOK, HoldsEntries
  <2> QED
    BY <2>1, <2>2, <2>3, <2>4 DEF Stored
<1>7. CallOK
  BY IdleIs DEF Init
<1> QED
  BY <1>5, <1>6, <1>7 DEF WellFormed

LEMMA WellFormedWalksOn ==
    ASSUME WellFormed, NEW op \in {"create", "write", "delete"}, NEW p \in Path \cup {<<>>},
           WalksOn(op, p)
    PROVE  WellFormed'
<1>1. Stored'
  BY StoredKept DEF WellFormed, WalksOn, disk
<1>2. call' = [op |-> op, pc |-> "walking", path |-> p, type |-> "none",
               dir |-> 0, ino |-> 0, blk |-> 0]
  BY DEF WalksOn, Begin, Idle
<1>3. call' \in CallType
  BY <1>2 DEF CallType
<1>4. TypeOK'
  BY <1>3 DEF WellFormed, TypeOK, WalksOn, Begin, disk
<1>5. CallOK'
  BY <1>2 DEF CallOK, At, Creating
<1> QED
  BY <1>1, <1>4, <1>5 DEF WellFormed

LEMMA WellFormedCreate ==
    ASSUME WellFormed, NEW p \in Path, NEW t \in Type, Create(p, t)
    PROVE  WellFormed'
<1> DEFINE d == Lookup(Front(p))
           n == Min(Inode \ imap)
<1>0. TypeOK /\ Stored
  BY DEF WellFormed
<1>1. n \in Inode /\ n \notin imap
  <2>1. Inode \ imap # {} /\ Inode \ imap \in SUBSET Nat
    BY <1>0, FileSystemAssumption DEF TypeOK, Create
  <2> QED
    BY <2>1, MinIs
<1>2. d \in Inode /\ d \in imap /\ HoldsEntries(d)
  <2>1. Front(p) \in Path \cup {<<>>}
    BY PathIs
  <2>2. d # 0 /\ inode[d].type = "directory"
    BY DEF Create
  <2> QED
    BY <1>0, <2>1, <2>2, LookupTyped
<1> HIDE DEF d, n
<1>3. /\ call' = [op |-> "create", pc |-> "inode", path |-> p, type |-> t,
                  dir |-> d, ino |-> n, blk |-> 0]
      /\ imap' = imap \cup {n} /\ failed' = "none"
      /\ UNCHANGED <<bmap, inode, dents, data, soiled, crashes, damaged>>
  BY DEF Create, Marked, d, n
<1>4. call' \in CallType
  BY <1>1, <1>2, <1>3 DEF CallType
<1>5. TypeOK'
  BY <1>0, <1>1, <1>3, <1>4 DEF TypeOK
<1>6. Stored'
  BY <1>0, <1>3 DEF Stored, Sized, EntryOK, HoldsEntries
<1>7. Fresh'
  <2>1. \A b \in Block : \A i \in 1 .. Len(dents[b]) : dents[b][i].ino # n
    BY <1>0, <1>1 DEF Stored, EntryOK
  <2> QED
    BY <1>3, <2>1 DEF Fresh
<1>8. /\ (call.op = "create" /\ call.pc = "inode" /\ call.type \in Type /\ call.path \in Path
          /\ call.ino \in imap /\ call.ino # Root /\ HoldsEntries(call.dir)
          /\ call.dir \in imap /\ call.dir # call.ino)'
  BY <1>0, <1>1, <1>2, <1>3 DEF Stored, HoldsEntries
<1>9. CallOK'
  BY <1>7, <1>8 DEF CallOK, At
<1> QED
  BY <1>5, <1>6, <1>9 DEF WellFormed

LEMMA WellFormedWrite ==
    ASSUME WellFormed, NEW p \in Path, Write(p)
    PROVE  WellFormed'
<1> DEFINE n == Lookup(p)
           pc == IF inode[n].size = 0 THEN "grow" ELSE "data"
<1>0. TypeOK /\ Stored
  BY DEF WellFormed
<1>1. n \in Inode /\ n \in imap /\ n # Root /\ inode[n].type # "directory"
  <2>1. p \in Path \cup {<<>>} /\ p # <<>>
    BY DEF Path
  <2>2. n # 0 /\ inode[n].type # "directory"
    BY DEF Write
  <2> QED
    BY <1>0, <2>1, <2>2, LookupTyped
<1>2. inode[n].size \in {0, 1}
  BY <1>0, <1>1, Typed
<1> HIDE DEF n
<1>3. call' = [op |-> "write", pc |-> pc, path |-> p, type |-> "none",
               dir |-> 0, ino |-> n, blk |-> 0]
  BY DEF Write, Begin, Idle, n
<1>4. failed' = "none" /\ damaged' \in BOOLEAN /\ UNCHANGED <<disk, crashes>>
  BY <1>0 DEF Write, Begin, TypeOK
<1>5. call' \in CallType
  BY <1>1, <1>3 DEF CallType
<1>6. TypeOK'
  BY <1>0, <1>4, <1>5 DEF TypeOK, disk
<1>7. Stored'
  BY <1>0, <1>4, StoredKept DEF disk
<1>8. (/\ call.op = "write" /\ call.path \in Path /\ call.ino \in imap \ {Root}
       /\ inode[call.ino].type # "directory"
       /\ \/ call.pc = "grow" /\ inode[call.ino].size = 0
          \/ call.pc = "data" /\ inode[call.ino].size = 1)'
  <2>1. inode' = inode /\ imap' = imap
    BY <1>4 DEF disk
  <2>2. call'.op = "write" /\ call'.path = p /\ call'.ino = n /\ call'.pc = pc
    BY <1>3
  <2>3. (pc = "grow" /\ inode[n].size = 0) \/ (pc = "data" /\ inode[n].size = 1)
    <3>1. inode[n].size = 0 \/ inode[n].size = 1
      BY <1>2
    <3>2. CASE inode[n].size = 0
      BY <3>2
    <3>3. CASE inode[n].size = 1
      BY <3>3
    <3> QED
      BY <3>1, <3>2, <3>3
  <2> HIDE DEF pc
  <2> QED
    BY <1>1, <2>1, <2>2, <2>3
<1>9. CallOK'
  BY <1>8 DEF CallOK, At, Creating
<1> QED
  BY <1>6, <1>7, <1>9 DEF WellFormed

LEMMA WellFormedDelete ==
    ASSUME WellFormed, NEW p \in Path, Delete(p)
    PROVE  WellFormed'
<1> DEFINE n == Lookup(p)
<1>0. TypeOK /\ Stored
  BY DEF WellFormed
<1>1. n \in Inode /\ n \in imap /\ n # Root
  <2>1. p \in Path \cup {<<>>} /\ p # <<>>
    BY DEF Path
  <2>2. n # 0
    BY DEF Delete
  <2> QED
    BY <1>0, <2>1, <2>2, LookupTyped
<1> HIDE DEF n
<1>3. call' = [op |-> "delete", pc |-> "erase", path |-> p, type |-> "none",
               dir |-> 0, ino |-> n, blk |-> 0]
  BY DEF Delete, Begin, Idle, n
<1>4. /\ failed' = "none" /\ bmap' = bmap \ Owned(n)
      /\ UNCHANGED <<imap, inode, dents, data, soiled, crashes, damaged>>
  BY DEF Delete, Begin, n
<1>5. call' \in CallType
  BY <1>1, <1>3 DEF CallType
<1>6. TypeOK'
  BY <1>0, <1>4, <1>5 DEF TypeOK
<1>7. Stored'
  BY <1>0, <1>4, StoredKept
<1>8. (call.op = "delete" /\ call.pc = "erase" /\ call.path \in Path
       /\ call.ino \in imap \ {Root})'
  BY <1>1, <1>3, <1>4
<1>9. CallOK'
  BY <1>8 DEF CallOK, At, Creating
<1> QED
  BY <1>6, <1>7, <1>9 DEF WellFormed

LEMMA WellFormedDeleteFails ==
    ASSUME WellFormed, NEW p \in Path, DeleteFails(p)
    PROVE  WellFormed'
<1>1. failed' = "delete" /\ UNCHANGED <<disk, call, crashes, damaged>>
  BY DEF DeleteFails
<1>2. TypeOK' /\ Stored'
  BY <1>1, StoredKept DEF WellFormed, TypeOK, disk
<1>3. CallOK'
  BY <1>1 DEF WellFormed, CallOK, At, Creating, Fresh, HoldsEntries, BlockOf, disk
<1> QED
  BY <1>2, <1>3 DEF WellFormed

LEMMA WellFormedInitializeInode == WellFormed /\ InitializeInode => WellFormed'
<1> SUFFICES ASSUME WellFormed, InitializeInode PROVE WellFormed'
  OBVIOUS
<1> DEFINE n == call.ino
           pc == IF call.type = "directory" THEN "grow" ELSE "link"
           new == [type |-> call.type, size |-> 0, blocks |-> <<>>]
<1>0. TypeOK /\ Stored /\ CallOK /\ call \in CallType /\ call.pc = "inode"
  BY DEF WellFormed, TypeOK, InitializeInode, At
<1>1. /\ n \in Inode /\ n # Root /\ n \in imap /\ call.op = "create" /\ call.type \in Type
      /\ HoldsEntries(call.dir) /\ call.dir \in imap /\ call.dir # n /\ call.path \in Path /\ Fresh
  BY <1>0, Typed DEF CallOK, At, Creating, TypeOK
<1>2. \A b \in Block : \A i \in 1 .. Len(dents[b]) : dents[b][i].ino # n
  BY <1>0, <1>1 DEF Fresh, At
<1>3. /\ inode' = [inode EXCEPT ![n] = new] /\ call' = [call EXCEPT !.pc = pc]
      /\ UNCHANGED <<imap, bmap, dents, data, soiled, observed>>
  BY DEF InitializeInode, Goto
<1>4. call' \in CallType /\ call'.pc = pc
      /\ call'.op = call.op /\ call'.path = call.path /\ call'.dir = call.dir
      /\ call'.ino = n /\ call'.type = call.type
  <2>1. pc \in Steps
    BY DEF Steps
  <2>2. call' = [call EXCEPT !.pc = pc] /\ call \in CallType
    BY <1>0, <1>3
  <2> HIDE DEF pc
  <2> QED
    BY <2>1, <2>2, GotoIs
<1>5. /\ inode' \in [Inode -> [type : Type \cup {"none"}, size : 0 .. 1, blocks : Seq(Block)]]
      /\ inode'[n] = new /\ inode'[n].size = 0 /\ inode'[n].type = call.type
      /\ \A m \in Inode \ {n} : inode'[m] = inode[m]
  <2>1. inode \in [Inode -> [type : Type \cup {"none"}, size : 0 .. 1, blocks : Seq(Block)]]
    BY <1>0 DEF TypeOK
  <2>2. new \in [type : Type \cup {"none"}, size : 0 .. 1, blocks : Seq(Block)]
    BY <1>1
  <2> QED
    BY <1>1, <1>3, <2>1, <2>2
<1>6. TypeOK'
  BY <1>0, <1>3, <1>4, <1>5 DEF TypeOK, observed
<1>7. Root \in Inode /\ call.dir \in Inode
  BY <1>0, <1>1, FileSystemAssumption DEF TypeOK
<1>8. HoldsEntries(Root)' /\ HoldsEntries(call.dir)'
  <2>1. HoldsEntries(Root) /\ HoldsEntries(call.dir)
    BY <1>0, <1>1 DEF Stored
  <2> QED
    BY <1>1, <1>4, <1>5, <1>7, <2>1 DEF HoldsEntries
<1>9. Stored'
  <2>1. Sized'
    <3> HIDE DEF new
    <3> QED
      BY <1>0, <1>5 DEF Stored, Sized
  <2>2. \A b \in Block : \A i \in 1 .. Len(dents[b]) : EntryOK(dents[b][i])'
    <3> SUFFICES ASSUME NEW b \in Block, NEW i \in 1 .. Len(dents[b])
                 PROVE  EntryOK(dents[b][i])'
      OBVIOUS
    <3>1. EntryOK(dents[b][i]) /\ dents[b][i].ino # n /\ dents[b][i] \in EntryType
      BY <1>0, <1>2, Typed DEF Stored
    <3>2. dents[b][i].ino \in Inode \ {n}
      BY <3>1 DEF EntryType
    <3> QED
      BY <1>3, <1>5, <3>1, <3>2 DEF EntryOK
  <2> QED
    BY <1>0, <1>3, <1>8, <2>1, <2>2 DEF Stored
<1>10. Fresh'
  BY <1>2, <1>3, <1>4 DEF Fresh
<1>11. CallOK'
  <2>1. n \in imap' /\ call.dir \in imap'
    BY <1>1, <1>3
  <2>2. inode'[n].size = 0 /\ inode'[n].type = call.type
    BY <1>5
  <2>3. \/ pc = "grow" /\ call.type = "directory"
        \/ pc = "link" /\ call.type # "directory"
    OBVIOUS
  <2> HIDE DEF pc, n
  <2> QED
    BY <1>1, <1>4, <1>8, <1>10, <2>1, <2>2, <2>3 DEF CallOK, At
<1> QED
  BY <1>6, <1>9, <1>11 DEF WellFormed

LEMMA WellFormedAllocateBlock == WellFormed /\ AllocateBlock => WellFormed'
<1> SUFFICES ASSUME WellFormed, AllocateBlock PROVE WellFormed'
  OBVIOUS
<1> DEFINE b == Min(Block \ bmap)
<1>0. TypeOK /\ Stored /\ CallOK /\ call \in CallType /\ call.pc = "grow"
  BY DEF WellFormed, TypeOK, AllocateBlock, At
<1>1. b \in Block /\ b # 0
  <2>1. Block \ bmap # {} /\ Block \ bmap \in SUBSET Nat /\ 0 \notin Block
    BY <1>0, FileSystemAssumption DEF TypeOK, AllocateBlock
  <2> QED
    BY <2>1, MinIs
<1> HIDE DEF b
<1>2. /\ bmap' = bmap \cup {b} /\ call' = [call EXCEPT !.pc = "map", !.blk = b]
      /\ UNCHANGED <<imap, inode, dents, data, soiled, observed>>
  BY DEF AllocateBlock, Taken, b
<1>3. /\ call' \in CallType /\ call'.pc = "map" /\ call'.op = call.op /\ call'.path = call.path
      /\ call'.type = call.type /\ call'.dir = call.dir /\ call'.ino = call.ino /\ call'.blk = b
  BY <1>0, <1>1, <1>2 DEF CallType
<1>4. TypeOK'
  BY <1>0, <1>1, <1>2, <1>3 DEF TypeOK, observed
<1>5. Stored'
  BY <1>0, <1>2, StoredKept
<1>6. Fresh => Fresh'
  BY <1>0, <1>2, <1>3 DEF Fresh, At
<1>7. CallOK'
  BY <1>0, <1>1, <1>2, <1>3, <1>6 DEF CallOK, At, Creating, HoldsEntries
<1> QED
  BY <1>4, <1>5, <1>7 DEF WellFormed

LEMMA WellFormedWriteGrownInode == WellFormed /\ WriteGrownInode => WellFormed'
<1> SUFFICES ASSUME WellFormed, WriteGrownInode PROVE WellFormed'
  OBVIOUS
<1> DEFINE n == call.ino
           new == [inode[n] EXCEPT !.size = 1, !.blocks = Append(@, call.blk)]
           pc == IF call.op = "create" THEN "init" ELSE "data"
<1>0. TypeOK /\ Stored /\ CallOK /\ call \in CallType /\ call.pc = "map"
  BY DEF WellFormed, TypeOK, WriteGrownInode, At
<1>1. /\ n \in Inode /\ n # Root /\ n \in imap /\ call.op \in {"create", "write"}
      /\ (call.op = "create" <=> inode[n].type = "directory")
      /\ call.blk \in Block /\ call.path \in Path /\ n # 0
  BY <1>0, Typed DEF CallOK, At, TypeOK
<1>2. call.op = "create" => /\ HoldsEntries(call.dir) /\ call.dir \in imap /\ call.dir # n
                            /\ Fresh
  BY <1>0 DEF CallOK, At, Creating
<1>3. /\ inode' = [inode EXCEPT ![n] = new] /\ call' = [call EXCEPT !.pc = pc]
      /\ UNCHANGED <<imap, bmap, dents, data, soiled, observed>>
  BY DEF WriteGrownInode, Goto, AfterGrowth
<1>4. call' \in CallType /\ call'.pc = pc
      /\ call'.op = call.op /\ call'.path = call.path /\ call'.dir = call.dir
      /\ call'.ino = n /\ call'.type = call.type
  <2>1. pc \in Steps
    BY DEF Steps
  <2>2. call' = [call EXCEPT !.pc = pc] /\ call \in CallType
    BY <1>0, <1>3
  <2> HIDE DEF pc
  <2> QED
    BY <2>1, <2>2, GotoIs
<1>5. /\ inode' \in [Inode -> [type : Type \cup {"none"}, size : 0 .. 1, blocks : Seq(Block)]]
      /\ inode'[n].size = 1 /\ inode'[n].type = inode[n].type /\ inode'[n].blocks # <<>>
      /\ \A m \in Inode \ {n} : inode'[m] = inode[m]
  <2>1. inode \in [Inode -> [type : Type \cup {"none"}, size : 0 .. 1, blocks : Seq(Block)]]
    BY <1>0 DEF TypeOK
  <2>2. inode[n].blocks \in Seq(Block)
    BY <1>0, <1>1, Typed
  <2>3. Append(inode[n].blocks, call.blk) \in Seq(Block)
        /\ Append(inode[n].blocks, call.blk) # <<>>
    BY <1>1, <2>2, AppendProperties
  <2>4. inode[n] \in [type : Type \cup {"none"}, size : 0 .. 1, blocks : Seq(Block)]
    BY <1>1, <2>1
  <2>5. /\ new \in [type : Type \cup {"none"}, size : 0 .. 1, blocks : Seq(Block)]
        /\ new.size = 1 /\ new.type = inode[n].type
        /\ new.blocks = Append(inode[n].blocks, call.blk)
    BY <2>3, <2>4, InodeIs DEF InodeType
  <2> HIDE DEF new
  <2>6. inode'[n] = new
    BY <1>1, <1>3, <2>1
  <2> QED
    BY <1>1, <1>3, <2>1, <2>3, <2>5, <2>6
<1>6. TypeOK'
  BY <1>0, <1>3, <1>4, <1>5 DEF TypeOK, observed
<1>7. Root \in Inode /\ (call.op = "create" => call.dir \in Inode)
  BY <1>0, <1>2, FileSystemAssumption DEF TypeOK
<1>8. HoldsEntries(Root)' /\ (call.op = "create" => HoldsEntries(call.dir)' /\ HoldsEntries(n)')
  <2>1. HoldsEntries(Root)
    BY <1>0 DEF Stored
  <2> QED
    BY <1>1, <1>2, <1>4, <1>5, <1>7, <2>1 DEF HoldsEntries
<1>9. Stored'
  <2>1. Sized'
    BY <1>0, <1>5 DEF Stored, Sized
  <2>2. \A b \in Block : \A i \in 1 .. Len(dents[b]) : EntryOK(dents[b][i])'
    <3> SUFFICES ASSUME NEW b \in Block, NEW i \in 1 .. Len(dents[b])
                 PROVE  EntryOK(dents[b][i])'
      OBVIOUS
    <3>1. EntryOK(dents[b][i]) /\ dents[b][i] \in EntryType
      BY <1>0, Typed DEF Stored
    <3>2. dents[b][i].ino \in Inode
      BY <3>1 DEF EntryType
    <3> QED
      BY <1>3, <1>5, <3>1, <3>2 DEF EntryOK
  <2> QED
    BY <1>0, <1>3, <1>8, <2>1, <2>2 DEF Stored
<1>10. call.op = "create" => Fresh'
  BY <1>0, <1>2, <1>3, <1>4 DEF Fresh, At
<1>11. CallOK'
  <2>1. n \in imap' /\ (call.op = "create" => call.dir \in imap')
    BY <1>1, <1>2, <1>3
  <2>2. inode'[n].size = 1 /\ inode'[n].type = inode[n].type
    BY <1>5
  <2>3. CASE call.op = "create"
    <3>1. pc = "init"
      BY <2>3
    <3>2. (/\ call.pc = "init" /\ call.op = "create" /\ HoldsEntries(call.ino)
           /\ call.path \in Path /\ call.ino \in imap \ {Root}
           /\ HoldsEntries(call.dir) /\ call.dir \in imap /\ call.dir # call.ino /\ Fresh)'
      BY <1>1, <1>2, <1>4, <1>8, <1>10, <2>1, <2>3, <3>1
    <3> QED
      BY <3>2 DEF CallOK, At
  <2>4. CASE call.op = "write"
    <3>1. pc = "data"
      BY <2>4
    <3> HIDE DEF pc, n
    <3> QED
      BY <1>1, <1>4, <2>1, <2>2, <2>4, <3>1 DEF CallOK, At, Creating
  <2> QED
    BY <1>1, <2>3, <2>4
<1> QED
  BY <1>6, <1>9, <1>11 DEF WellFormed

LEMMA WellFormedInitializeDirectory == WellFormed /\ InitializeDirectory => WellFormed'
<1> SUFFICES ASSUME WellFormed, InitializeDirectory PROVE WellFormed'
  OBVIOUS
<1> DEFINE n == call.ino
           d == call.dir
           b == BlockOf(n)
           s == EmptyDirectory(n, d)
<1>0. TypeOK /\ Stored /\ CallOK /\ call \in CallType /\ call.pc = "init"
  BY DEF WellFormed, TypeOK, InitializeDirectory, At
<1>1. /\ n \in Inode /\ n # Root /\ n \in imap /\ call.op = "create" /\ HoldsEntries(n)
      /\ HoldsEntries(d) /\ d \in imap /\ d \in Inode /\ d # n /\ call.path \in Path /\ Fresh
  BY <1>0, Typed DEF CallOK, At, Creating, TypeOK
<1>2. b \in Block
  BY <1>0, <1>1, HoldsTyped DEF Stored
<1>3. /\ s \in Seq(EntryType) /\ Divided(s) /\ Len(s) = 2
      /\ s[1] = Entry(Dot, n, 1) /\ s[2] = Entry(DotDot, d, DirRoom + 1)
  BY <1>1, EmptyDirectoryIs
<1> HIDE DEF s, b
<1>4. /\ dents' = [dents EXCEPT ![b] = s] /\ data' = [data EXCEPT ![b] = 0]
      /\ call' = [call EXCEPT !.pc = "link"]
      /\ UNCHANGED <<imap, bmap, inode, soiled, observed>>
  BY DEF InitializeDirectory, Goto, s, b
<1>5. call' \in CallType /\ call'.pc = "link"
      /\ call'.op = call.op /\ call'.path = call.path /\ call'.dir = d
      /\ call'.ino = n /\ call'.type = call.type
  BY <1>0, <1>4, GotoIs DEF Steps
<1>6. /\ dents' \in [Block -> Seq(EntryType)] /\ dents'[b] = s
      /\ \A c \in Block \ {b} : dents'[c] = dents[c]
  BY <1>0, <1>2, <1>3, <1>4 DEF TypeOK, EntryType
<1>7. TypeOK'
  BY <1>0, <1>4, <1>5, <1>6 DEF TypeOK, observed, EntryType
<1>8. \A m : HoldsEntries(m)' = HoldsEntries(m)
  BY <1>4 DEF HoldsEntries
<1>9. Stored'
  <2>1. ASSUME NEW c \in Block, NEW i \in 1 .. Len(dents'[c])
        PROVE  EntryOK(dents[c][i])'
    <3>1. CASE c = b
      <4>1. i \in 1 .. 2
        BY <1>3, <1>6, <3>1
      <4>2. \/ dents'[c][i].ino = n /\ dents'[c][i].name = Dot
            \/ dents'[c][i].ino = d /\ dents'[c][i].name = DotDot
        BY <1>3, <1>6, <3>1, <4>1 DEF Entry
      <4> QED
        BY <1>1, <1>4, <4>2, FileSystemAssumption, SMTT(30) DEF EntryOK, HoldsEntries
    <3>2. CASE c # b
      BY <1>0, <1>4, <1>6, <3>2 DEF Stored, EntryOK
    <3> QED
      BY <3>1, <3>2
  <2>2. \A c \in Block : Divided(dents'[c])
    BY <1>0, <1>3, <1>6 DEF Stored
  <2> QED
    BY <1>0, <1>4, <1>8, <2>1, <2>2 DEF Stored, Sized
<1>10. Fresh'
  <2> SUFFICES ASSUME NEW c \in Block, NEW i \in 1 .. Len(dents'[c]), dents'[c][i].ino = n
               PROVE  i = 1 /\ c = b
    BY <1>1, <1>4, <1>5, <1>8 DEF Fresh, At, BlockOf, b
  <2>1. c = b
    <3>1. dents[c] # dents'[c]
      BY <1>0, <1>1 DEF Fresh, At
    <3> QED
      BY <1>6, <3>1
  <2>2. i \in 1 .. 2
    BY <1>3, <1>6, <2>1
  <2>3. i # 2
    BY <1>1, <1>3, <1>6, <2>1 DEF Entry
  <2> QED
    BY <2>1, <2>2, <2>3
<1>11. CallOK'
  BY <1>1, <1>4, <1>5, <1>8, <1>10 DEF CallOK, At
<1> QED
  BY <1>7, <1>9, <1>11 DEF WellFormed

(* A write that replaces the entries of one block.                         *)
LEMMA EntriesWritten ==
    ASSUME WellFormed, NEW b \in Block, NEW s \in Seq(EntryType), Divided(s),
           \A i \in 1 .. Len(s) : EntryOK(s[i]),
           dents' = [dents EXCEPT ![b] = s], UNCHANGED <<imap, inode, bmap>>,
           data' \in [Block -> Inode \cup {0}], soiled' \subseteq Block, Return
    PROVE  WellFormed'
<1>1. /\ dents' \in [Block -> Seq(EntryType)] /\ dents'[b] = s
      /\ \A c \in Block \ {b} : dents'[c] = dents[c]
  BY DEF WellFormed, TypeOK, EntryType
<1>2. TypeOK'
  BY <1>1, IdleIs DEF WellFormed, TypeOK, EntryType, Return, observed
<1>3. Stored'
  BY <1>1 DEF WellFormed, Stored, Sized, EntryOK, HoldsEntries
<1>4. (call = Idle => CallOK /\ At("idle"))'
  BY IdleIs, PTL
<1> QED
  BY <1>2, <1>3, <1>4 DEF WellFormed, Return

LEMMA WellFormedCreateDirectoryEntry == WellFormed /\ CreateDirectoryEntry => WellFormed'
<1> SUFFICES ASSUME WellFormed, CreateDirectoryEntry PROVE WellFormed'
  OBVIOUS
<1> DEFINE n == call.ino
           b == BlockOf(call.dir)
           s == dents[b]
           x == Last(call.path)
           t == WithEntry(s, x, n)
<1>0. TypeOK /\ Stored /\ CallOK /\ call.pc = "link"
  BY DEF WellFormed, CreateDirectoryEntry, At
<1>1. /\ n \in Inode /\ n # Root /\ n \in imap /\ HoldsEntries(call.dir) /\ call.dir \in Inode
      /\ call.path \in Path /\ (inode[n].type = "directory" => HoldsEntries(n))
  BY <1>0, Typed DEF CallOK, At, Creating, TypeOK
<1>2. b \in Block /\ s \in Seq(EntryType) /\ Divided(s) /\ s # <<>> /\ HasRoom(s)
  <2>1. b \in Block
    BY <1>0, <1>1, HoldsTyped DEF Stored
  <2> QED
    BY <1>0, <1>1, <2>1, Typed DEF Stored, CreateDirectoryEntry, WalkEnds, Entries
<1>3. x \in Name
  BY <1>1, PathIs
<1> HIDE DEF b, x
<1>4. dents' = [dents EXCEPT ![b] = t] /\ UNCHANGED <<imap, bmap, inode, data, soiled>> /\ Return
  BY DEF CreateDirectoryEntry, b, x
<1>5. /\ t \in Seq(EntryType) /\ Divided(t) /\ Len(t) = Len(s) + 1
      /\ \A i \in 1 .. Len(s) : t[i].name = s[i].name /\ t[i].ino = s[i].ino
      /\ t[Len(s) + 1].name = x /\ t[Len(s) + 1].ino = n
  <2> HIDE DEF s
  <2> QED
    BY <1>1, <1>2, <1>3, WithEntryIs
<1> HIDE DEF t
<1>6. ASSUME NEW i \in 1 .. Len(t) PROVE EntryOK(t[i])
  <2>1. Len(s) \in Nat
    BY <1>0, <1>2, Typed
  <2>2. i \in 1 .. Len(s) \/ i = Len(s) + 1
    BY <1>5, <2>1
  <2>3. CASE i \in 1 .. Len(s)
    BY <1>0, <1>2, <1>5, <2>3 DEF Stored, EntryOK
  <2>4. CASE i = Len(s) + 1
    BY <1>1, <1>5, <2>4 DEF EntryOK, HoldsEntries
  <2> QED
    BY <2>2, <2>3, <2>4
<1>7. data' \in [Block -> Inode \cup {0}] /\ soiled' \subseteq Block
  BY <1>0, <1>4 DEF TypeOK
<1> QED
  BY <1>2, <1>4, <1>5, <1>6, <1>7, EntriesWritten

LEMMA WellFormedWriteData == WellFormed /\ WriteData => WellFormed'
<1> SUFFICES ASSUME WellFormed, WriteData PROVE WellFormed'
  OBVIOUS
<1> DEFINE n == call.ino
           b == BlockOf(n)
<1>0. TypeOK /\ Stored /\ CallOK /\ call.pc = "data"
  BY DEF WellFormed, WriteData, At
<1>1. n \in Inode /\ inode[n].size = 1
  BY <1>0, Typed DEF CallOK, At, TypeOK
<1>2. b \in Block
  BY <1>0, <1>1, Typed DEF Stored, Sized
<1> HIDE DEF b
<1>3. /\ data' = [data EXCEPT ![b] = n] /\ dents' = [dents EXCEPT ![b] = <<>>]
      /\ soiled' \in {soiled \cup {b}, soiled \ {b}}
      /\ Return /\ UNCHANGED <<imap, bmap, inode>>
  BY DEF WriteData, b
<1>4. data' \in [Block -> Inode \cup {0}] /\ soiled' \subseteq Block
  BY <1>0, <1>1, <1>2, <1>3 DEF TypeOK
<1>5. \A i \in 1 .. Len(<<>>) : EntryOK(<<>>[i])
  BY NoEntries
<1> QED
  BY <1>2, <1>3, <1>4, <1>5, NoEntries, EntriesWritten

LEMMA WellFormedDeleteInode == WellFormed /\ DeleteInode => WellFormed'
<1> SUFFICES ASSUME WellFormed, DeleteInode PROVE WellFormed'
  OBVIOUS
<1> DEFINE n == call.ino
           new == [inode[n] EXCEPT !.type = "none", !.size = 0]
<1>0. TypeOK /\ Stored /\ CallOK /\ call \in CallType /\ call.pc = "erase"
  BY DEF WellFormed, TypeOK, DeleteInode, At
<1>1. n \in Inode /\ n # Root /\ n \in imap /\ call.path \in Path /\ call.op = "delete"
  BY <1>0, Typed DEF CallOK, At, TypeOK
<1>3. /\ inode' = [inode EXCEPT ![n] = new] /\ call' = [call EXCEPT !.pc = "unlink"]
      /\ UNCHANGED <<imap, bmap, dents, data, soiled, observed>>
  BY DEF DeleteInode, Goto, Erased
<1>4. call' \in CallType /\ call'.pc = "unlink"
      /\ call'.op = call.op /\ call'.path = call.path /\ call'.ino = n
  BY <1>0, <1>3, GotoIs DEF Steps
<1>5. /\ inode' \in [Inode -> [type : Type \cup {"none"}, size : 0 .. 1, blocks : Seq(Block)]]
      /\ inode'[n].size = 0 /\ inode'[n].type = "none" /\ inode'[n].blocks = inode[n].blocks
      /\ \A m \in Inode \ {n} : inode'[m] = inode[m]
  <2>1. inode \in [Inode -> [type : Type \cup {"none"}, size : 0 .. 1, blocks : Seq(Block)]]
    BY <1>0 DEF TypeOK
  <2>2. inode[n] \in [type : Type \cup {"none"}, size : 0 .. 1, blocks : Seq(Block)]
    BY <1>1, <2>1
  <2>3. /\ new \in [type : Type \cup {"none"}, size : 0 .. 1, blocks : Seq(Block)]
        /\ new.size = 0 /\ new.type = "none" /\ new.blocks = inode[n].blocks
    BY <2>2, InodeIs DEF InodeType
  <2> HIDE DEF new
  <2>4. inode'[n] = new
    BY <1>1, <1>3, <2>1
  <2> QED
    BY <1>1, <1>3, <2>1, <2>3, <2>4
<1>6. TypeOK'
  BY <1>0, <1>3, <1>4, <1>5 DEF TypeOK, observed
<1>9. Stored'
  <2>1. Sized'
    BY <1>0, <1>5 DEF Stored, Sized
  <2>2. \A b \in Block : \A i \in 1 .. Len(dents[b]) : EntryOK(dents[b][i])'
    <3> SUFFICES ASSUME NEW b \in Block, NEW i \in 1 .. Len(dents[b])
                 PROVE  EntryOK(dents[b][i])'
      OBVIOUS
    <3>1. EntryOK(dents[b][i]) /\ dents[b][i] \in EntryType
      BY <1>0, Typed DEF Stored
    <3>2. dents[b][i].ino \in Inode
      BY <3>1 DEF EntryType
    <3> QED
      BY <1>3, <1>5, <3>1, <3>2 DEF EntryOK
  <2>3. HoldsEntries(Root)'
    <3>1. HoldsEntries(Root) /\ Root \in Inode
      BY <1>0, FileSystemAssumption DEF Stored
    <3> QED
      BY <1>1, <1>5, <3>1 DEF HoldsEntries
  <2> QED
    BY <1>0, <1>3, <2>1, <2>2, <2>3 DEF Stored
<1>11. CallOK'
  BY <1>1, <1>3, <1>4 DEF CallOK, At, Creating
<1> QED
  BY <1>6, <1>9, <1>11 DEF WellFormed

LEMMA WellFormedDeleteDentry == WellFormed /\ DeleteDentry => WellFormed'
<1> SUFFICES ASSUME WellFormed, DeleteDentry PROVE WellFormed'
  OBVIOUS
<1> DEFINE d == Lookup(Front(call.path))
           n == Lookup(call.path)
           V == {i \in DOMAIN Entries(d) : Entries(d)[i].ino = n}
           victims == IF HoldsEntries(d) THEN V ELSE {}
           b == BlockOf(d)
           s == dents[b]
           k == Min(victims)
<1>0. TypeOK /\ Stored /\ CallOK /\ call.pc = "unlink" /\ call.path \in Path
  BY DEF WellFormed, DeleteDentry, At, CallOK
<1>1. d \in Inode \cup {0}
  BY <1>0, PathIs, LookupTyped
<1>2. CASE n = 0 \/ victims = {}
  <2>1. Fail /\ UNCHANGED disk
    BY <1>2 DEF DeleteDentry, disk
  <2>2. call.op \in {"none", "create", "write", "delete"}
    BY <1>0 DEF TypeOK, CallType
  <2> QED
    BY <1>0, <2>1, <2>2, IdleStep DEF Fail, TypeOK
<1>3. CASE ~(n = 0 \/ victims = {})
  <2>1. HoldsEntries(d) /\ victims = V /\ V # {}
    BY <1>3
  <2>2. b \in Block /\ Entries(d) = s
    BY <1>0, <1>1, <2>1, HoldsTyped DEF Stored
  <2>3. s \in Seq(EntryType) /\ DOMAIN s = 1 .. Len(s) /\ Len(s) \in Nat /\ Divided(s)
        /\ \A i \in 1 .. Len(s) : EntryOK(s[i])
    BY <1>0, <2>2, Typed, LenProperties DEF Stored
  <2>4. k \in 1 .. Len(s)
    <3>1. V \in SUBSET Nat
      BY <2>2, <2>3
    <3>2. Min(V) \in V
      <4> HIDE DEF V
      <4> QED
        BY <2>1, <3>1, MinIs
    <3> QED
      BY <2>1, <2>2, <2>3, <3>2
  <2>5. dents' = [dents EXCEPT ![b] = WithoutEntry(s, k)] /\ Return
        /\ UNCHANGED <<imap, bmap, inode, data, soiled>>
    BY <1>3 DEF DeleteDentry
  <2> HIDE DEF k, b, s
  <2>6. WithoutEntry(s, k) \in Seq(EntryType) /\ Divided(WithoutEntry(s, k))
        /\ \A i \in 1 .. Len(WithoutEntry(s, k)) : EntryOK(WithoutEntry(s, k)[i])
    <3>1. CASE k = 1
      <4>1. WithoutEntry(s, k) = <<>>
        BY <3>1 DEF WithoutEntry
      <4> QED
        BY <4>1, NoEntries
    <3>2. CASE k # 1
      <4>1. k \in 2 .. Len(s)
        BY <2>4, <3>2
      <4> DEFINE t == WithoutEntry(s, k)
      <4>2. /\ t \in Seq(EntryType) /\ Divided(t) /\ Len(t) = Len(s) - 1
            /\ \A i \in 1 .. Len(s) - 1 :
                  LET j == IF i < k THEN i ELSE i + 1 IN
                  j \in 1 .. Len(s) /\ t[i].name = s[j].name /\ t[i].ino = s[j].ino
        BY <2>3, <4>1, WithoutEntryIs
      <4> HIDE DEF t
      <4>3. \A i \in 1 .. Len(t) : EntryOK(t[i])
        BY <2>3, <4>2 DEF EntryOK
      <4> QED
        BY <4>2, <4>3 DEF t
    <3> QED
      BY <3>1, <3>2
  <2>7. data' \in [Block -> Inode \cup {0}] /\ soiled' \subseteq Block
    BY <1>0, <2>5 DEF TypeOK
  <2> QED
    BY <2>2, <2>5, <2>6, <2>7, EntriesWritten
<1> QED
  BY <1>2, <1>3

LEMMA WellFormedFails == WellFormed /\ (NoFreeBlock \/ NoRoomForEntry) => WellFormed'
<1> SUFFICES ASSUME WellFormed, NoFreeBlock \/ NoRoomForEntry PROVE WellFormed'
  OBVIOUS
<1>1. Fail /\ UNCHANGED disk
  BY DEF NoFreeBlock, NoRoomForEntry
<1>2. call.op \in {"none", "create", "write", "delete"} /\ TypeOK
  BY DEF WellFormed, TypeOK, CallType
<1> QED
  BY <1>1, <1>2, IdleStep DEF Fail, TypeOK

LEMMA WellFormedCrash == WellFormed /\ Crash => WellFormed'
<1> SUFFICES ASSUME WellFormed, Crash PROVE WellFormed'
  OBVIOUS
<1>1. /\ call' = Idle /\ crashes' = crashes + 1 /\ crashes < MaxCrashes /\ failed' = "none"
      /\ damaged' = (damaged \/ (At("erase") /\ inode[call.ino].size = 1)) /\ UNCHANGED disk
  BY DEF Crash
<1>2. crashes' \in 0 .. MaxCrashes
  BY <1>1, FileSystemAssumption DEF WellFormed, TypeOK
<1>3. damaged' \in BOOLEAN
  BY <1>1 DEF WellFormed, TypeOK
<1> QED
  BY <1>1, <1>2, <1>3, IdleStep

LEMMA WellFormedStutter == WellFormed /\ UNCHANGED vars => WellFormed'
<1> SUFFICES ASSUME WellFormed, UNCHANGED vars PROVE WellFormed'
  OBVIOUS
<1>1. UNCHANGED <<imap, bmap, inode, dents, data, soiled, call, failed, crashes, damaged>>
  BY DEF vars, disk, observed
<1>2. TypeOK' /\ Stored'
  BY <1>1, StoredKept DEF WellFormed, TypeOK
<1>3. CallOK'
  BY <1>1 DEF WellFormed, CallOK, At, Creating, Fresh, HoldsEntries, BlockOf
<1> QED
  BY <1>2, <1>3 DEF WellFormed

LEMMA WellFormedStep == WellFormed /\ [Next]_vars => WellFormed'
<1> SUFFICES ASSUME WellFormed, [Next]_vars PROVE WellFormed'
  OBVIOUS
<1>1. CASE Step
  BY <1>1, WellFormedInitializeInode, WellFormedAllocateBlock, WellFormedWriteGrownInode,
     WellFormedInitializeDirectory, WellFormedCreateDirectoryEntry, WellFormedWriteData,
     WellFormedDeleteInode, WellFormedDeleteDentry, WellFormedFails DEF Step
<1>2. CASE Crash
  BY <1>2, WellFormedCrash
<1>3. ASSUME NEW p \in Path, Call(p) PROVE WellFormed'
  <2>1. CASE Write(p)
    BY <2>1, WellFormedWrite
  <2>2. CASE Delete(p)
    BY <2>2, WellFormedDelete
  <2>3. CASE DeleteFails(p)
    BY <2>3, WellFormedDeleteFails
  <2>4. ASSUME NEW t \in Type, Create(p, t) PROVE WellFormed'
    BY <2>4, WellFormedCreate
  <2>5. ASSUME NEW op \in {"create", "write", "delete"}, NEW q \in {p, Front(p)},
               WalksOn(op, q)
        PROVE  WellFormed'
    <3>1. q \in Path \cup {<<>>}
      BY PathIs
    <3> QED
      BY <2>5, <3>1, WellFormedWalksOn
  <2> QED
    BY <1>3, <2>1, <2>2, <2>3, <2>4, <2>5 DEF Call
<1>4. CASE UNCHANGED vars
  BY <1>4, WellFormedStutter
<1> QED
  BY <1>1, <1>2, <1>3, <1>4 DEF Next

(* Inodes, entries and calls stay within their types: no length of an      *)
(* entry grows beyond its block, and every call has an inode of its own.   *)
THEOREM TypeCorrect == Spec => []TypeOK
<1>1. Spec => []WellFormed
  BY WellFormedInit, WellFormedStep, PTL DEF Spec
<1>2. WellFormed => TypeOK
  BY DEF WellFormed
<1> QED
  BY <1>1, <1>2, PTL

-----------------------------------------------------------------------------
(* The structure of the disk.  A directory holds its entries, its own and  *)
(* its parent's first.                                                     *)

Dirs ==
    {d \in Inode : /\ HoldsEntries(d) /\ Len(Entries(d)) >= 2
                   /\ Entries(d)[1].ino = d /\ Entries(d)[1].name = Dot
                   /\ Entries(d)[2].name = DotDot}

(* No two files or directories have the same block.                        *)
Apart ==
    \A m, n \in Inode :
        m # n /\ inode[m].size = 1 /\ inode[n].size = 1 => BlockOf(m) # BlockOf(n)

RootStands == Root \in Dirs /\ Entries(Root)[2].ino = Root

(* A directory that is listed is one, and leads back to where it is.       *)
Listed ==
    \A d \in Dirs : \A i \in 3 .. Len(Entries(d)) :
        LET n == Entries(d)[i].ino IN
        /\ Entries(d)[i].name \in Name
        /\ inode[n].type = "directory" => n \in Dirs /\ Entries(n)[2].ino = d

Distinct ==
    \A d, e \in Dirs : \A i \in 3 .. Len(Entries(d)), j \in 3 .. Len(Entries(e)) :
        Entries(d)[i].ino = Entries(e)[j].ino => d = e /\ i = j

(* A directory may hold a name twice, but the entries behind the first     *)
(* lead to nothing that holds more: only a directory that a path leads to  *)
(* is given entries.                                                       *)
Shadowed ==
    \A d \in Dirs : \A i, j \in 3 .. Len(Entries(d)) :
        i < j /\ Entries(d)[i].name = Entries(d)[j].name
            /\ inode[Entries(d)[j].ino].type = "directory"
                => Len(Entries(Entries(d)[j].ino)) = 2

Structure == Apart /\ RootStands /\ Listed /\ Distinct /\ Shadowed

(* A file or directory that has no block has the number of none.           *)
Unsized ==
    \A n \in Inode : inode[n].type # "none" /\ inode[n].size = 0 => inode[n].blocks = <<>>

(* The block of an inode that has one is marked, but for the inode whose   *)
(* deletion has begun.                                                     *)
BlocksMarked ==
    \A n \in Inode : inode[n].size = 1 =>
        BlockOf(n) \in bmap \/ (At("erase") /\ n = call.ino)

(* A block that is being taken belongs to no other inode.                  *)
Growing ==
    /\ At("grow") \/ At("map") => inode[call.ino].blocks = <<>>
    /\ At("map") => /\ call.blk \in bmap
                    /\ \A n \in Inode : inode[n].size = 1 => BlockOf(n) # call.blk

Listing ==
    /\ Creating => call.dir \in Dirs
    /\ At("link") /\ inode[call.ino].type = "directory" =>
            /\ call.ino \in Dirs /\ Len(Entries(call.ino)) = 2
            /\ Entries(call.ino)[2].ino = call.dir

(* The directory that a creation has looked up is still that of its path.  *)
Leading == Creating => Lookup(Front(call.path)) = call.dir

(* The path that is being deleted still leads to the inode.                *)
Deleting ==
    /\ At("erase") \/ At("unlink") => Lookup(call.path) = call.ino
    /\ At("unlink") => inode[call.ino].type = "none"
    /\ failed # "delete"

Core == Structure /\ Unsized /\ BlocksMarked /\ Growing /\ Listing /\ Leading /\ Deleting
Inv == WellFormed /\ (damaged \/ Core)

LEMMA DirsAre ==
    WellFormed => \A d \in Dirs :
        /\ d \in Inode /\ d # 0 /\ HoldsEntries(d)
        /\ inode[d].type = "directory" /\ inode[d].size = 1
        /\ BlockOf(d) \in Block /\ Entries(d) = dents[BlockOf(d)]
        /\ Entries(d) \in Seq(EntryType) /\ Len(Entries(d)) \in Nat /\ Len(Entries(d)) >= 2
        /\ Divided(Entries(d))
        /\ Entries(d)[1].ino = d /\ Entries(d)[1].name = Dot /\ Entries(d)[2].name = DotDot
        /\ \A i \in 1 .. Len(Entries(d)) :
              /\ Entries(d)[i] \in EntryType /\ EntryOK(Entries(d)[i])
              /\ Entries(d)[i].ino \in Inode
<1> SUFFICES ASSUME WellFormed, NEW d \in Dirs
             PROVE  /\ d \in Inode /\ d # 0 /\ HoldsEntries(d)
                    /\ inode[d].type = "directory" /\ inode[d].size = 1
                    /\ BlockOf(d) \in Block /\ Entries(d) = dents[BlockOf(d)]
                    /\ Entries(d) \in Seq(EntryType) /\ Len(Entries(d)) \in Nat
                    /\ Len(Entries(d)) >= 2 /\ Divided(Entries(d))
                    /\ Entries(d)[1].ino = d /\ Entries(d)[1].name = Dot
                    /\ Entries(d)[2].name = DotDot
                    /\ \A i \in 1 .. Len(Entries(d)) :
                          /\ Entries(d)[i] \in EntryType /\ EntryOK(Entries(d)[i])
                          /\ Entries(d)[i].ino \in Inode
  OBVIOUS
<1>0. TypeOK /\ Stored /\ Sized
  BY DEF WellFormed, Stored
<1>1. /\ d \in Inode /\ HoldsEntries(d) /\ Len(Entries(d)) >= 2
      /\ Entries(d)[1].ino = d /\ Entries(d)[1].name = Dot /\ Entries(d)[2].name = DotDot
  BY DEF Dirs
<1>2. BlockOf(d) \in Block /\ Entries(d) = dents[BlockOf(d)] /\ inode[d].type = "directory"
      /\ inode[d].size = 1 /\ d # 0
  BY <1>0, <1>1, HoldsTyped, Typed
<1>3. /\ Entries(d) \in Seq(EntryType) /\ Len(Entries(d)) \in Nat /\ Divided(Entries(d))
      /\ \A i \in 1 .. Len(Entries(d)) : Entries(d)[i] \in EntryType /\ EntryOK(Entries(d)[i])
  BY <1>0, <1>2, Typed DEF Stored
<1>4. \A i \in 1 .. Len(Entries(d)) : Entries(d)[i].ino \in Inode
  BY <1>3 DEF EntryType
<1> QED
  BY <1>1, <1>2, <1>3, <1>4

(* A name that is found in a directory is behind the first two entries.    *)
LEMMA FindInDir ==
    WellFormed => \A d \in Dirs, x \in Name : Find(d, x) # 0 =>
        \E i \in 3 .. Len(Entries(d)) :
            FirstWith(Entries(d), x, i) /\ Find(d, x) = Entries(d)[i].ino
<1> SUFFICES ASSUME WellFormed, NEW d \in Dirs, NEW x \in Name, Find(d, x) # 0
             PROVE  \E i \in 3 .. Len(Entries(d)) :
                        FirstWith(Entries(d), x, i) /\ Find(d, x) = Entries(d)[i].ino
  OBVIOUS
<1>1. PICK i : FirstWith(Entries(d), x, i) /\ Find(d, x) = Entries(d)[i].ino
  BY DirsAre, FindIs DEF WellFormed, Stored
<1>2. i \in 1 .. Len(Entries(d)) /\ Entries(d)[i].name = x
  BY <1>1 DEF FirstWith
<1>3. i # 1 /\ i # 2
  BY <1>2, DirsAre, FileSystemAssumption
<1>4. i \in 3 .. Len(Entries(d))
  BY <1>2, <1>3, DirsAre
<1> QED
  BY <1>1, <1>4

(* A walk goes from directory to directory, along their entries.           *)
LEMMA StepIs ==
    WellFormed /\ Structure => \A n \in Inode \cup {0}, x \in Name :
        (HoldsEntries(n) => n \in Dirs) /\ Find(n, x) # 0 =>
            /\ n \in Dirs
            /\ \E k \in 3 .. Len(Entries(n)) :
                  FirstWith(Entries(n), x, k) /\ Find(n, x) = Entries(n)[k].ino
            /\ inode[Find(n, x)].type = "directory" =>
                    Find(n, x) \in Dirs /\ Entries(Find(n, x))[2].ino = n
<1> SUFFICES ASSUME WellFormed, Structure, NEW n \in Inode \cup {0}, NEW x \in Name,
                    HoldsEntries(n) => n \in Dirs, Find(n, x) # 0
             PROVE  /\ n \in Dirs
                    /\ \E k \in 3 .. Len(Entries(n)) :
                          FirstWith(Entries(n), x, k) /\ Find(n, x) = Entries(n)[k].ino
                    /\ inode[Find(n, x)].type = "directory" =>
                            Find(n, x) \in Dirs /\ Entries(Find(n, x))[2].ino = n
  OBVIOUS
<1>1. n \in Dirs
  BY FindIs DEF WellFormed, Stored
<1>2. PICK k \in 3 .. Len(Entries(n)) :
        FirstWith(Entries(n), x, k) /\ Find(n, x) = Entries(n)[k].ino
  BY <1>1, FindInDir
<1>3. inode[Find(n, x)].type = "directory" =>
        Find(n, x) \in Dirs /\ Entries(Find(n, x))[2].ino = n
  BY <1>1, <1>2 DEF Structure, Listed
<1> QED
  BY <1>1, <1>2, <1>3

LEMMA ReachedGood ==
    WellFormed /\ Structure => \A p \in Seq(Name) : \A i \in 0 .. Len(p) :
        LET m == Reached(p)[i] IN
        m # 0 /\ (HoldsEntries(m) \/ inode[m].type = "directory") => m \in Dirs
<1> SUFFICES ASSUME WellFormed, Structure, NEW p \in Seq(Name)
             PROVE  \A i \in 0 .. Len(p) :
                        Reached(p)[i] # 0 /\ (HoldsEntries(Reached(p)[i])
                                              \/ inode[Reached(p)[i]].type = "directory")
                            => Reached(p)[i] \in Dirs
  OBVIOUS
<1> DEFINE Good(m) == m # 0 /\ (HoldsEntries(m) \/ inode[m].type = "directory") => m \in Dirs
           S == {i \in 0 .. Len(p) : Good(Reached(p)[i])}
<1>0. Len(p) \in Nat /\ TypeOK /\ Stored
  BY LenProperties DEF WellFormed
<1>1. 0 \in S
  <2>1. Good(Reached(p)[0])
    BY ReachedIs DEF Structure, RootStands
  <2> QED
    BY <1>0, <2>1
<1>2. \A i \in 0 .. Len(p) - 1 : i \in S => i + 1 \in S
  <2> SUFFICES ASSUME NEW i \in 0 .. Len(p) - 1, i \in S PROVE i + 1 \in S
    OBVIOUS
  <2> DEFINE n == Reached(p)[i]
             x == p[i + 1]
  <2>1. i + 1 \in 1 .. Len(p) /\ i + 1 \in 0 .. Len(p) /\ (i + 1) - 1 = i /\ i \in 0 .. Len(p)
    BY <1>0
  <2>2. Reached(p)[i + 1] = Find(n, x)
    BY <2>1, ReachedIs
  <2>3. x \in Name /\ n \in Inode \cup {0}
    BY <1>0, <2>1, ElementOfSeq, ReachedTyped
  <2>4. HoldsEntries(n) => n \in Dirs
    BY DEF HoldsEntries
  <2> HIDE DEF n, x
  <2>5. Good(Find(n, x))
    <3> SUFFICES ASSUME Find(n, x) # 0, HoldsEntries(Find(n, x))
                                        \/ inode[Find(n, x)].type = "directory"
                 PROVE  Find(n, x) \in Dirs
      OBVIOUS
    <3>1. inode[Find(n, x)].type = "directory"
      BY DEF HoldsEntries
    <3> QED
      BY <2>3, <2>4, <3>1, StepIs
  <2> QED
    BY <2>1, <2>2, <2>5
<1> HIDE DEF S
<1>3. 0 .. Len(p) \subseteq S
  BY <1>0, <1>1, <1>2, Induction
<1> QED
  BY <1>3 DEF S

(* The entry that a walk takes at each name.                               *)
LEMMA ReachedBy ==
    WellFormed /\ Structure => \A p \in Seq(Name) : \A i \in 1 .. Len(p) :
        LET n == Reached(p)[i - 1]
            m == Reached(p)[i] IN
        m # 0 => /\ n \in Dirs
                 /\ \E k \in 3 .. Len(Entries(n)) :
                       FirstWith(Entries(n), p[i], k) /\ m = Entries(n)[k].ino
                 /\ inode[m].type = "directory" => m \in Dirs /\ Entries(m)[2].ino = n
<1> SUFFICES ASSUME WellFormed, Structure, NEW p \in Seq(Name), NEW i \in 1 .. Len(p),
                    Reached(p)[i] # 0
             PROVE  LET n == Reached(p)[i - 1]
                        m == Reached(p)[i] IN
                    /\ n \in Dirs
                    /\ \E k \in 3 .. Len(Entries(n)) :
                          FirstWith(Entries(n), p[i], k) /\ m = Entries(n)[k].ino
                    /\ inode[m].type = "directory" => m \in Dirs /\ Entries(m)[2].ino = n
  OBVIOUS
<1> DEFINE n == Reached(p)[i - 1]
<1>1. Len(p) \in Nat /\ i - 1 \in 0 .. Len(p) /\ TypeOK /\ Stored
  BY LenProperties DEF WellFormed
<1>2. Reached(p)[i] = Find(n, p[i])
  BY ReachedIs
<1>3. p[i] \in Name /\ n \in Inode \cup {0}
  BY <1>1, ElementOfSeq, ReachedTyped
<1>4. HoldsEntries(n) => n \in Dirs
  BY <1>1, ReachedGood DEF HoldsEntries
<1> HIDE DEF n
<1>5. /\ n \in Dirs
      /\ \E k \in 3 .. Len(Entries(n)) :
            FirstWith(Entries(n), p[i], k) /\ Find(n, p[i]) = Entries(n)[k].ino
      /\ inode[Find(n, p[i])].type = "directory" =>
            Find(n, p[i]) \in Dirs /\ Entries(Find(n, p[i]))[2].ino = n
  BY <1>2, <1>3, <1>4, StepIs
<1> QED
  BY <1>2, <1>5 DEF n

(* A walk never comes to an inode twice.                                   *)
LEMMA NoReturn ==
    WellFormed /\ Structure => \A p \in Seq(Name) : \A i, j \in 0 .. Len(p) :
        Reached(p)[i] # 0 /\ Reached(p)[i] = Reached(p)[j] => i = j
<1> SUFFICES ASSUME WellFormed, Structure, NEW p \in Seq(Name)
             PROVE  \A i, j \in 0 .. Len(p) :
                        Reached(p)[i] # 0 /\ Reached(p)[i] = Reached(p)[j] => i = j
  OBVIOUS
<1> DEFINE at == Reached(p)
           S == {i \in 0 .. Len(p) : \A j \in 0 .. Len(p) : at[i] # 0 /\ at[i] = at[j] => i = j}
<1>0. Len(p) \in Nat /\ TypeOK /\ Stored
  BY LenProperties DEF WellFormed
<1>1. 0 \in S
  <2>1. at[0] = Root
    BY ReachedIs
  <2>2. \A j \in 0 .. Len(p) : j # 0 => at[j] # Root
    BY <1>0, ReachedTyped
  <2> QED
    BY <1>0, <2>1, <2>2
<1>2. \A i \in 0 .. Len(p) - 1 : i \in S => i + 1 \in S
  <2> SUFFICES ASSUME NEW i \in 0 .. Len(p) - 1, i \in S,
                      NEW j \in 0 .. Len(p), at[i + 1] # 0, at[i + 1] = at[j]
               PROVE  i + 1 = j
    BY <1>0
  <2>1. i + 1 \in 1 .. Len(p) /\ i + 1 \in 0 .. Len(p) /\ (i + 1) - 1 = i
    BY <1>0
  <2>2. j # 0
    <3>1. at[i + 1] # Root
      BY <1>0, <2>1, ReachedTyped
    <3> QED
      BY <3>1, ReachedIs
  <2>3. j \in 1 .. Len(p) /\ j - 1 \in 0 .. Len(p)
    BY <1>0, <2>2
  <2>4. PICK k \in 3 .. Len(Entries(at[i])) : at[i + 1] = Entries(at[i])[k].ino
    BY <2>1, ReachedBy
  <2>5. PICK l \in 3 .. Len(Entries(at[j - 1])) : at[j] = Entries(at[j - 1])[l].ino
    BY <2>3, ReachedBy
  <2>6. at[i] \in Dirs /\ at[j - 1] \in Dirs
    BY <2>1, <2>3, ReachedBy
  <2>7. at[i] = at[j - 1]
    <3>1. PICK d \in Dirs : d = at[i]
      BY <2>6
    <3>2. PICK e \in Dirs : e = at[j - 1]
      BY <2>6
    <3>3. /\ k \in 3 .. Len(Entries(d)) /\ l \in 3 .. Len(Entries(e))
          /\ Entries(d)[k].ino = Entries(e)[l].ino
      BY <2>4, <2>5, <3>1, <3>2
    <3>4. d = e
      BY <3>3 DEF Structure, Distinct
    <3> QED
      BY <3>1, <3>2, <3>4
  <2>8. i = j - 1
    BY <2>3, <2>6, <2>7, DirsAre
  <2> QED
    BY <1>0, <2>3, <2>8
<1> HIDE DEF S
<1>3. 0 .. Len(p) \subseteq S
  BY <1>0, <1>1, <1>2, Induction
<1> QED
  BY <1>3 DEF S

LEMMA ReachedIsNext ==
    (\A p \in Seq(Name) :
        /\ Reached(p)[0] = Root
        /\ \A i \in 1 .. Len(p) : Reached(p)[i] = Find(Reached(p)[i - 1], p[i]))'
BY ReachedIs, PTL

(* A walk is what it was when the lookups on its way are.                  *)
LEMMA WalkKept ==
    ASSUME NEW p \in Seq(Name), NEW k \in 0 .. Len(p),
           \A i \in 0 .. k - 1 : \A n : n = Reached(p)[i] => Find(n, p[i + 1])' = Find(n, p[i + 1])
    PROVE  \A i \in 0 .. k : Reached(p)[i]' = Reached(p)[i]
<1> DEFINE S == {i \in 0 .. k : Reached(p)[i]' = Reached(p)[i]}
<1>0. Len(p) \in Nat /\ k \in Nat /\ k <= Len(p)
  BY LenProperties
<1>1. /\ Reached(p)[0]' = Root
      /\ \A i \in 1 .. Len(p) : \A n : n = Reached(p)[i - 1]' => Reached(p)[i]' = Find(n, p[i])'
  BY ReachedIsNext
<1>2. 0 \in S
  BY <1>0, <1>1, ReachedIs
<1>3. \A i \in 0 .. k - 1 : i \in S => i + 1 \in S
  <2> SUFFICES ASSUME NEW i \in 0 .. k - 1, i \in S PROVE i + 1 \in S
    OBVIOUS
  <2>1. i + 1 \in 1 .. Len(p) /\ i + 1 \in 0 .. k /\ (i + 1) - 1 = i
    BY <1>0
  <2>2. PICK n : n = Reached(p)[i]
    OBVIOUS
  <2>3. Reached(p)[i + 1] = Find(n, p[i + 1])
    BY <2>1, <2>2, ReachedIs
  <2>4. Reached(p)[i + 1]' = Find(n, p[i + 1])'
    BY <1>1, <2>1, <2>2
  <2> QED
    BY <2>1, <2>2, <2>3, <2>4
<1> HIDE DEF S
<1>4. 0 .. k \subseteq S
  BY <1>0, <1>2, <1>3, Induction
<1> QED
  BY <1>4 DEF S

-----------------------------------------------------------------------------
(* Steps that leave inodes and entries as they are.                        *)

LEMMA FindSame ==
    UNCHANGED <<inode, dents, soiled>> => \A n, x : Find(n, x)' = Find(n, x)
BY DEF Find, HoldsEntries, BlockOf

LEMMA LookupSame ==
    ASSUME \A n, x : Find(n, x)' = Find(n, x)
    PROVE  \A p \in Seq(Name) : \A i \in 0 .. Len(p) :
              Reached(p)[i]' = Reached(p)[i] /\ Lookup(p)' = Lookup(p)
<1> SUFFICES ASSUME NEW p \in Seq(Name), NEW i \in 0 .. Len(p)
             PROVE  Reached(p)[i]' = Reached(p)[i] /\ Lookup(p)' = Lookup(p)
  OBVIOUS
<1>1. Len(p) \in Nat /\ Len(p) \in 0 .. Len(p)
  BY LenProperties
<1>2. \A j \in 0 .. Len(p) : Reached(p)[j]' = Reached(p)[j]
  BY <1>1, WalkKept
<1> QED
  BY <1>1, <1>2 DEF Lookup

LEMMA StructureSame ==
    UNCHANGED <<inode, dents>> =>
        /\ Dirs' = Dirs
        /\ \A n : Entries(n)' = Entries(n) /\ BlockOf(n)' = BlockOf(n)
        /\ Structure => Structure'
        /\ Unsized => Unsized'
<1> SUFFICES ASSUME UNCHANGED <<inode, dents>>
             PROVE  /\ Dirs' = Dirs
                    /\ \A n : Entries(n)' = Entries(n) /\ BlockOf(n)' = BlockOf(n)
                    /\ Structure => Structure'
                    /\ Unsized => Unsized'
  OBVIOUS
<1>1. \A n : /\ Entries(n)' = Entries(n) /\ BlockOf(n)' = BlockOf(n)
             /\ HoldsEntries(n)' = HoldsEntries(n)
  BY DEF Entries, BlockOf, HoldsEntries
<1>2. Dirs' = Dirs
  BY <1>1 DEF Dirs
<1>3. Apart => Apart'
  BY <1>1 DEF Apart
<1>4. RootStands => RootStands'
  BY <1>1, <1>2 DEF RootStands
<1>5. Listed => Listed'
  BY <1>1, <1>2 DEF Listed
<1>6. Distinct => Distinct'
  BY <1>1, <1>2 DEF Distinct
<1>7. Shadowed => Shadowed'
  BY <1>1, <1>2 DEF Shadowed
<1>8. Unsized => Unsized'
  BY DEF Unsized
<1> QED
  BY <1>1, <1>2, <1>3, <1>4, <1>5, <1>6, <1>7, <1>8 DEF Structure

(* What a walk comes to is the first of its name, and no other entry leads *)
(* there.                                                                  *)
LEMMA FoundIsFirst ==
    WellFormed /\ Structure => \A p \in Seq(Name) : \A d \in Dirs :
        \A i, j \in 3 .. Len(Entries(d)) :
            i < j /\ Entries(d)[i].name = Entries(d)[j].name => Entries(d)[j].ino # Lookup(p)
<1> SUFFICES ASSUME WellFormed, Structure, NEW p \in Seq(Name), NEW d \in Dirs,
                    NEW i \in 3 .. Len(Entries(d)), NEW j \in 3 .. Len(Entries(d)),
                    i < j, Entries(d)[i].name = Entries(d)[j].name,
                    Entries(d)[j].ino = Lookup(p)
             PROVE  FALSE
  OBVIOUS
<1>1. Len(p) \in Nat /\ Len(Entries(d)) \in Nat
  BY LenProperties, DirsAre
<1>2. j \in 1 .. Len(Entries(d)) /\ i \in 1 .. Len(Entries(d))
  BY <1>1
<1>3. Lookup(p) \in Inode /\ Lookup(p) # 0
  BY <1>2, DirsAre, Typed DEF WellFormed
<1>4. Entries(d)[j].name \in Name
  BY DEF Structure, Listed
<1>5. Lookup(p) # Root
  BY <1>2, <1>4, DirsAre DEF EntryOK
<1>6. Len(p) \in 1 .. Len(p) /\ Lookup(p) = Reached(p)[Len(p)]
  <2>1. Len(p) # 0
    BY <1>5, ReachedIs DEF Lookup
  <2> QED
    BY <1>1, <2>1 DEF Lookup
<1>7. PICK e \in Dirs : \E k \in 3 .. Len(Entries(e)) :
        FirstWith(Entries(e), p[Len(p)], k) /\ Lookup(p) = Entries(e)[k].ino
  BY <1>3, <1>6, ReachedBy
<1>8. PICK k \in 3 .. Len(Entries(e)) :
        FirstWith(Entries(e), p[Len(p)], k) /\ Lookup(p) = Entries(e)[k].ino
  BY <1>7
<1>9. d = e /\ j = k
  BY <1>8 DEF Structure, Distinct
<1>10. j <= i
  BY <1>2, <1>8, <1>9 DEF FirstWith
<1> QED
  BY <1>2, <1>10

(* A write to one block changes the entries of its directory only.         *)
LEMMA OtherBlocks ==
    ASSUME WellFormed, NEW b \in Block, NEW s, inode' = inode, dents' = [dents EXCEPT ![b] = s]
    PROVE  /\ \A n : HoldsEntries(n)' = HoldsEntries(n) /\ BlockOf(n)' = BlockOf(n)
           /\ \A n : BlockOf(n) \in Block \ {b} => Entries(n)' = Entries(n)
           /\ \A n : BlockOf(n) = b => Entries(n)' = s
           /\ Apart => Apart'
           /\ Unsized => Unsized'
           /\ \A n, m : n \in Inode /\ m \in Inode /\ HoldsEntries(n) /\ inode[m].size = 1
                           /\ n # m /\ BlockOf(m) = b /\ Apart => Entries(n)' = Entries(n)
<1>1. \A n : HoldsEntries(n)' = HoldsEntries(n) /\ BlockOf(n)' = BlockOf(n)
  BY DEF HoldsEntries, BlockOf
<1>2. /\ \A n : BlockOf(n) \in Block \ {b} => Entries(n)' = Entries(n)
      /\ \A n : BlockOf(n) = b => Entries(n)' = s
  BY <1>1 DEF WellFormed, TypeOK, Entries
<1>3. Apart => Apart'
  BY <1>1 DEF Apart
<1>4. Unsized => Unsized'
  BY DEF Unsized
<1>5. ASSUME NEW n \in Inode, NEW m \in Inode, HoldsEntries(n), inode[m].size = 1,
             n # m, BlockOf(m) = b, Apart
      PROVE  Entries(n)' = Entries(n)
  <2>1. BlockOf(n) \in Block /\ inode[n].size = 1
    BY <1>5, HoldsTyped DEF WellFormed, Stored
  <2>2. BlockOf(n) # b
    BY <1>5, <2>1 DEF Apart
  <2> QED
    BY <1>2, <2>1, <2>2
<1> QED
  BY <1>1, <1>2, <1>3, <1>4, <1>5

(* Where each path leads stays the same when every lookup on its way does. *)
LookupsKept == \A p \in Seq(Name) : Lookup(p)' = Lookup(p)

LEMMA LookupsKeptUnless ==
    ASSUME WellFormed, NEW E,
           \A m \in (Inode \cup {0}) \ E : \A x \in Name : Find(m, x)' = Find(m, x),
           NEW p \in Seq(Name), \A i \in 0 .. Len(p) - 1 : Reached(p)[i] \notin E
    PROVE  Lookup(p)' = Lookup(p)
<1>1. Len(p) \in Nat /\ Len(p) \in 0 .. Len(p)
  BY LenProperties
<1>2. ASSUME NEW i \in 0 .. Len(p) - 1, NEW m, m = Reached(p)[i]
      PROVE  Find(m, p[i + 1])' = Find(m, p[i + 1])
  <2>1. i \in 0 .. Len(p) /\ i + 1 \in 1 .. Len(p)
    BY <1>1
  <2>2. m \in Inode \cup {0} /\ p[i + 1] \in Name
    BY <1>2, <2>1, ReachedTyped, ElementOfSeq DEF WellFormed
  <2> QED
    BY <1>2, <2>2
<1>3. \A i \in 0 .. Len(p) : Reached(p)[i]' = Reached(p)[i]
  BY <1>1, <1>2, WalkKept
<1> QED
  BY <1>1, <1>3 DEF Lookup

LEMMA FindsKept ==
    ASSUME WellFormed, \A m \in Inode \cup {0} : \A x \in Name : Find(m, x)' = Find(m, x)
    PROVE  LookupsKept
<1>1. PICK E : E = {}
  OBVIOUS
<1>2. \A m \in (Inode \cup {0}) \ E : \A x \in Name : Find(m, x)' = Find(m, x)
  BY <1>1
<1>3. \A m : m \notin E
  BY <1>1
<1>4. ASSUME NEW p \in Seq(Name) PROVE Lookup(p)' = Lookup(p)
  <2>1. \A i \in 0 .. Len(p) - 1 : Reached(p)[i] \notin E
    BY <1>3
  <2> QED
    BY <1>2, <2>1, LookupsKeptUnless
<1> QED
  BY <1>4 DEF LookupsKept

(* No walk comes to the inode of a file that is being made.                *)
LEMMA FreshIsNotReached ==
    WellFormed /\ Structure /\ Creating =>
        \A p \in Seq(Name) : \A i \in 0 .. Len(p) : Reached(p)[i] # call.ino
<1> SUFFICES ASSUME WellFormed, Structure, Creating,
                    NEW p \in Seq(Name), NEW i \in 0 .. Len(p), Reached(p)[i] = call.ino
             PROVE  FALSE
  OBVIOUS
<1>1. Len(p) \in Nat /\ call.ino \in Inode /\ call.ino # 0 /\ call.ino # Root /\ Fresh
  <2>1. ~At("walking") /\ ~At("idle")
    BY DEF Creating, WellFormed, CallOK, Idle
  <2>2. call.ino \in imap \ {Root} /\ Fresh
    BY <2>1 DEF WellFormed, CallOK
  <2>3. call.ino \in Inode
    BY <2>2 DEF WellFormed, TypeOK
  <2> QED
    BY <2>2, <2>3, LenProperties, Typed DEF WellFormed
<1>2. i \in 1 .. Len(p)
  <2>1. i # 0
    BY <1>1, ReachedIs
  <2> QED
    BY <1>1, <2>1
<1>3. PICK n \in Dirs : \E k \in 3 .. Len(Entries(n)) : call.ino = Entries(n)[k].ino
  BY <1>1, <1>2, ReachedBy
<1>4. PICK k \in 3 .. Len(Entries(n)) : call.ino = Entries(n)[k].ino
  BY <1>3
<1>5. BlockOf(n) \in Block /\ Entries(n) = dents[BlockOf(n)] /\ k \in 1 .. Len(Entries(n)) /\ k # 1
  BY DirsAre
<1> QED
  BY <1>1, <1>4, <1>5 DEF Fresh

LEMMA FindKept ==
    ASSUME NEW n, HoldsEntries(n)' = HoldsEntries(n), BlockOf(n)' = BlockOf(n),
           HoldsEntries(n) => Entries(n)' = Entries(n),
           HoldsEntries(n) => (BlockOf(n) \in soiled' <=> BlockOf(n) \in soiled)
    PROVE  \A x : Find(n, x)' = Find(n, x)
BY DEF Find, Entries

LEMMA NoneFound == \A x : Find(0, x) = 0 /\ Find(0, x)' = 0
BY DEF Find, HoldsEntries

(* The steps of a call that make or write a file and not its entry leave   *)
(* every path where it is.                                                 *)
LEMMA InitializeInodeKeeps ==
    ASSUME WellFormed, Core, InitializeInode
    PROVE  LookupsKept
<1>0. PICK n : n = call.ino
  OBVIOUS
<1>1. Creating /\ n \in Inode
  BY <1>0, Typed DEF InitializeInode, WellFormed, CallOK, TypeOK, Creating, At
<1>2. \A m \in Inode \ {n} : inode'[m] = inode[m]
  BY <1>0, <1>1 DEF InitializeInode, WellFormed, TypeOK
<1>3. dents' = dents /\ soiled' = soiled
  BY DEF InitializeInode
<1>4. ASSUME NEW m \in (Inode \cup {0}) \ {n}, NEW x \in Name
      PROVE  Find(m, x)' = Find(m, x)
  <2>1. CASE m = 0
    BY <2>1, NoneFound
  <2>2. CASE m \in Inode
    <3>1. HoldsEntries(m)' = HoldsEntries(m) /\ BlockOf(m)' = BlockOf(m)
      BY <1>2, <2>2 DEF HoldsEntries, BlockOf
    <3> QED
      BY <1>3, <3>1 DEF Find
  <2> QED
    BY <2>1, <2>2
<1>5. ASSUME NEW p \in Seq(Name) PROVE Lookup(p)' = Lookup(p)
  <2>1. \A i \in 0 .. Len(p) - 1 : Reached(p)[i] \notin {n}
    <3>1. Len(p) \in Nat
      BY LenProperties
    <3> QED
      BY <1>0, <1>1, <3>1, FreshIsNotReached DEF Core
  <2> QED
    BY <1>4, <2>1, LookupsKeptUnless
<1> QED
  BY <1>5 DEF LookupsKept

LEMMA WriteGrownInodeKeeps ==
    ASSUME WellFormed, Core, WriteGrownInode
    PROVE  LookupsKept
<1>0. PICK n : n = call.ino
  OBVIOUS
<1>1. /\ n \in Inode /\ call.op \in {"create", "write"} /\ inode[n].size = 0
      /\ (call.op = "create" <=> inode[n].type = "directory")
      /\ (call.op = "create" => Creating)
  BY <1>0, Typed DEF WriteGrownInode, WellFormed, CallOK, At, Creating, TypeOK
<1>2. \A m \in Inode \ {n} : inode'[m] = inode[m]
  BY <1>0, <1>1 DEF WriteGrownInode, WellFormed, TypeOK
<1>3. dents' = dents /\ soiled' = soiled
  BY DEF WriteGrownInode
<1>4. ASSUME NEW m \in (Inode \cup {0}) \ {n}, NEW x \in Name
      PROVE  Find(m, x)' = Find(m, x)
  <2>1. CASE m = 0
    BY <2>1, NoneFound
  <2>2. CASE m \in Inode
    <3>1. HoldsEntries(m)' = HoldsEntries(m) /\ BlockOf(m)' = BlockOf(m)
      BY <1>2, <2>2 DEF HoldsEntries, BlockOf
    <3> QED
      BY <1>3, <3>1 DEF Find
  <2> QED
    BY <2>1, <2>2
<1>5. CASE call.op = "create"
  <2>1. ASSUME NEW p \in Seq(Name) PROVE Lookup(p)' = Lookup(p)
    <3>1. \A i \in 0 .. Len(p) - 1 : Reached(p)[i] \notin {n}
      <4>1. Len(p) \in Nat
        BY LenProperties
      <4> QED
        BY <1>0, <1>1, <1>5, <4>1, FreshIsNotReached DEF Core
    <3> QED
      BY <1>4, <3>1, LookupsKeptUnless
  <2> QED
    BY <2>1 DEF LookupsKept
<1>6. CASE call.op = "write"
  <2>1. inode'[n].type = inode[n].type
    <3>1. inode \in [Inode -> InodeType]
      BY DEF WellFormed, TypeOK, InodeType
    <3>2. inode[n] \in InodeType /\ call.blk \in Block
      BY <1>1, <3>1, Typed DEF WellFormed, CallOK, WriteGrownInode, At
    <3>3. Append(inode[n].blocks, call.blk) \in Seq(Block)
      BY <3>2 DEF InodeType
    <3> DEFINE new == [inode[n] EXCEPT !.size = 1, !.blocks = Append(inode[n].blocks, call.blk)]
    <3>4. new.type = inode[n].type
      BY <3>2, <3>3, InodeIs
    <3>5. inode' = [inode EXCEPT ![n] = new]
      BY <1>0 DEF WriteGrownInode
    <3> HIDE DEF new
    <3> QED
      BY <1>1, <3>1, <3>4, <3>5
  <2>2. \A x \in Name : Find(n, x) = 0 /\ Find(n, x)' = 0
    BY <1>1, <1>6, <2>1 DEF Find, HoldsEntries
  <2>3. \A m \in Inode \cup {0} : \A x \in Name : Find(m, x)' = Find(m, x)
    BY <1>4, <2>2
  <2> QED
    BY <2>3, FindsKept
<1> QED
  BY <1>1, <1>5, <1>6

LEMMA InitializeDirectoryKeeps ==
    ASSUME WellFormed, Core, InitializeDirectory
    PROVE  LookupsKept
<1>0. PICK n : n = call.ino
  OBVIOUS
<1> DEFINE b == BlockOf(n)
           s == EmptyDirectory(n, call.dir)
<1>1. Creating /\ n \in Inode /\ HoldsEntries(n)
  BY <1>0, Typed DEF InitializeDirectory, WellFormed, CallOK, TypeOK, Creating, At
<1>2. b \in Block /\ inode[n].size = 1
  BY <1>1, HoldsTyped DEF WellFormed, Stored
<1>3. inode' = inode /\ soiled' = soiled /\ dents' = [dents EXCEPT ![b] = s]
  BY <1>0 DEF InitializeDirectory
<1> HIDE DEF b, s
<1>4. /\ \A m : HoldsEntries(m)' = HoldsEntries(m) /\ BlockOf(m)' = BlockOf(m)
      /\ \A m \in Inode : HoldsEntries(m) /\ m # n => Entries(m)' = Entries(m)
  BY <1>1, <1>2, <1>3, OtherBlocks DEF b, Core, Structure
<1>5. ASSUME NEW m \in (Inode \cup {0}) \ {n}, NEW x \in Name
      PROVE  Find(m, x)' = Find(m, x)
  <2>1. CASE m = 0
    BY <2>1, NoneFound
  <2>2. CASE m \in Inode
    BY <1>3, <1>4, <2>2, FindKept
  <2> QED
    BY <2>1, <2>2
<1>6. ASSUME NEW p \in Seq(Name) PROVE Lookup(p)' = Lookup(p)
  <2>1. \A i \in 0 .. Len(p) - 1 : Reached(p)[i] \notin {n}
    <3>1. Len(p) \in Nat
      BY LenProperties
    <3> QED
      BY <1>0, <1>1, <3>1, FreshIsNotReached DEF Core
  <2> QED
    BY <1>5, <2>1, LookupsKeptUnless
<1> QED
  BY <1>6 DEF LookupsKept

LEMMA WriteDataKeeps ==
    ASSUME WellFormed, Core, WriteData
    PROVE  LookupsKept
<1>0. PICK n : n = call.ino
  OBVIOUS
<1> DEFINE b == BlockOf(n)
<1>1. n \in Inode /\ inode[n].size = 1 /\ inode[n].type # "directory"
  BY <1>0, Typed DEF WriteData, WellFormed, CallOK, TypeOK, At
<1>2. b \in Block
  BY <1>1, Typed DEF WellFormed, Stored, Sized
<1>3. inode' = inode /\ soiled' \in {soiled \cup {b}, soiled \ {b}}
      /\ dents' = [dents EXCEPT ![b] = <<>>]
  BY <1>0 DEF WriteData
<1> HIDE DEF b
<1>4. /\ \A m : HoldsEntries(m)' = HoldsEntries(m) /\ BlockOf(m)' = BlockOf(m)
      /\ \A m \in Inode : HoldsEntries(m) /\ m # n => Entries(m)' = Entries(m)
  BY <1>1, <1>2, <1>3, OtherBlocks DEF b, Core, Structure
<1>5. ASSUME NEW m \in Inode \cup {0}, NEW x \in Name
      PROVE  Find(m, x)' = Find(m, x)
  <2>1. CASE ~HoldsEntries(m)
    BY <1>4, <2>1 DEF Find
  <2>2. CASE HoldsEntries(m)
    <3>1. m \in Inode /\ m # n /\ inode[m].size = 1
      BY <1>1, <2>2 DEF HoldsEntries
    <3>2. BlockOf(m) # b
      BY <1>1, <3>1 DEF b, Core, Structure, Apart
    <3>3. BlockOf(m) \in soiled' <=> BlockOf(m) \in soiled
      BY <1>3, <3>2
    <3> QED
      BY <1>4, <2>2, <3>1, <3>3, FindKept
  <2> QED
    BY <2>1, <2>2
<1> QED
  BY <1>5, FindsKept

LEMMA SameDiskKeeps ==
    UNCHANGED <<inode, dents, soiled>> => LookupsKept
<1> SUFFICES ASSUME UNCHANGED <<inode, dents, soiled>>, NEW p \in Seq(Name)
             PROVE  Lookup(p)' = Lookup(p)
  BY DEF LookupsKept
<1>1. Len(p) \in Nat /\ 0 \in 0 .. Len(p)
  BY LenProperties
<1> QED
  BY <1>1, FindSame, LookupSame

LEMMA LeadingKept ==
    ASSUME WellFormed, Leading, LookupsKept, Creating' => Creating,
           call'.path = call.path, call'.dir = call.dir
    PROVE  Leading'
<1> SUFFICES ASSUME Creating' PROVE Lookup(Front(call.path))' = call'.dir
  BY DEF Leading
<1>1. Creating /\ ~At("idle") /\ ~At("walking")
  BY DEF WellFormed, CallOK, Creating, Idle
<1>2. PICK p \in Path : p = call.path
  BY <1>1 DEF WellFormed, CallOK
<1>3. PICK q \in Seq(Name) : q = Front(p)
  BY PathIs
<1>4. Lookup(q)' = Lookup(q)
  BY DEF LookupsKept
<1> QED
  BY <1>1, <1>2, <1>3, <1>4 DEF Leading

LEMMA IdleCore ==
    ASSUME Structure', Unsized', BlocksMarked', call' = Idle, failed' # "delete"
    PROVE  Core'
BY DEF Core, Growing, Listing, Leading, Deleting, Creating, At, Idle

LEMMA CoreInit == Init => Core
<1> SUFFICES ASSUME Init PROVE Core
  OBVIOUS
<1>0. WellFormed
  BY WellFormedInit
<1>1. /\ Root \in Inode /\ Root # 0 /\ Block \in SUBSET Nat /\ Block # {}
  BY <1>0, Typed, FileSystemAssumption DEF WellFormed
<1>2. Min(Block) \in Block
  BY <1>1, MinIs
<1>3. /\ \A n \in Inode : inode[n] = IF n = Root
                THEN [type |-> "directory", size |-> 1, blocks |-> <<Min(Block)>>]
                ELSE [type |-> "none", size |-> 0, blocks |-> <<>>]
      /\ \A b \in Block : dents[b] = IF b = Min(Block) THEN EmptyDirectory(Root, Root) ELSE <<>>
      /\ bmap = {Min(Block)} /\ call = Idle /\ failed = "none"
  BY DEF Init
<1>4. \A n \in Inode : inode[n].size = 1 => n = Root
  BY <1>3
<1>5. BlockOf(Root) = Min(Block) /\ Entries(Root) = EmptyDirectory(Root, Root)
  <2>1. inode[Root].blocks = <<Min(Block)>>
    BY <1>1, <1>3
  <2>2. Head(<<Min(Block)>>) = Min(Block)
    OBVIOUS
  <2>3. BlockOf(Root) = Min(Block)
    BY <2>1, <2>2 DEF BlockOf
  <2> QED
    BY <1>2, <1>3, <2>3 DEF Entries
<1>6. /\ Len(Entries(Root)) = 2
      /\ Entries(Root)[1].ino = Root /\ Entries(Root)[1].name = Dot
      /\ Entries(Root)[2].ino = Root /\ Entries(Root)[2].name = DotDot
  <2> DEFINE s == EmptyDirectory(Root, Root)
  <2>1. Len(s) = 2 /\ s[1] = Entry(Dot, Root, 1) /\ s[2] = Entry(DotDot, Root, DirRoom + 1)
    BY <1>1, EmptyDirectoryIs
  <2> HIDE DEF s
  <2>2. Entries(Root) = s
    BY <1>5 DEF s
  <2> QED
    BY <2>1, <2>2 DEF Entry
<1>7. Dirs = {Root}
  <2>1. HoldsEntries(Root)
    BY <1>0 DEF WellFormed, Stored
  <2> QED
    BY <1>1, <1>4, <1>6, <2>1 DEF Dirs, HoldsEntries
<1>8. Structure
  <2>1. Apart /\ RootStands
    BY <1>4, <1>6, <1>7 DEF Apart, RootStands
  <2>2. \A d \in Dirs : 3 .. Len(Entries(d)) = {}
    <3>1. 3 .. 2 = {}
      OBVIOUS
    <3>2. \A d \in Dirs : Len(Entries(d)) = 2
      BY <1>6, <1>7
    <3> QED
      BY <3>1, <3>2
  <2> QED
    BY <2>1, <2>2 DEF Structure, Listed, Distinct, Shadowed
<1>9. Unsized
  BY <1>3 DEF Unsized
<1>10. BlocksMarked
  BY <1>3, <1>4, <1>5 DEF BlocksMarked
<1> QED
  BY <1>3, <1>8, <1>9, <1>10 DEF Core, Growing, Listing, Leading, Deleting, Creating, At, Idle

LEMMA CoreWalksOn ==
    ASSUME Core, NEW op, NEW p, WalksOn(op, p)
    PROVE  Core'
<1>1. /\ call' = [op |-> op, pc |-> "walking", path |-> p, type |-> "none",
                  dir |-> 0, ino |-> 0, blk |-> 0]
      /\ failed' = "none" /\ UNCHANGED <<imap, bmap, inode, dents, data, soiled>> /\ At("idle")
  BY DEF WalksOn, Begin, Idle, disk
<1>2. Structure' /\ Unsized' /\ \A n : BlockOf(n)' = BlockOf(n)
  BY <1>1, StructureSame DEF Core
<1>3. BlocksMarked'
  BY <1>1, <1>2 DEF Core, BlocksMarked, At
<1> QED
  BY <1>1, <1>2, <1>3 DEF Core, Growing, Listing, Leading, Deleting, Creating, At

LEMMA CoreCreate ==
    ASSUME WellFormed, Core, NEW p \in Path, NEW t, Create(p, t)
    PROVE  Core'
<1> DEFINE d == Lookup(Front(p))
<1>1. /\ call'.op = "create" /\ call'.pc = "inode" /\ call'.dir = d /\ call'.path = p
      /\ failed' = "none" /\ UNCHANGED <<bmap, inode, dents, data, soiled>> /\ At("idle")
      /\ d # 0 /\ inode[d].type = "directory"
  BY DEF Create
<1>2. d \in Dirs
  <2>1. Front(p) \in Seq(Name) /\ Len(Front(p)) \in 0 .. Len(Front(p))
    BY PathIs, LenProperties
  <2> QED
    BY <1>1, <2>1, ReachedGood DEF Core, Lookup
<1>3. Leading'
  <2>1. PICK q \in Seq(Name) : q = Front(p)
    BY PathIs
  <2>2. Lookup(q)' = d
    BY <1>1, <2>1, SameDiskKeeps DEF LookupsKept
  <2> QED
    BY <1>1, <2>1, <2>2 DEF Leading
<1> HIDE DEF d
<1>4. Structure' /\ Unsized' /\ Dirs' = Dirs /\ \A n : BlockOf(n)' = BlockOf(n)
  BY <1>1, StructureSame DEF Core
<1>5. BlocksMarked'
  BY <1>1, <1>4 DEF Core, BlocksMarked, At
<1> QED
  BY <1>1, <1>2, <1>3, <1>4, <1>5 DEF Core, Growing, Listing, Deleting, At

LEMMA CoreWrite ==
    ASSUME WellFormed, Core, NEW p \in Path, Write(p), ~damaged'
    PROVE  Core'
<1> DEFINE n == Lookup(p)
<1>1. /\ call'.op = "write" /\ call'.ino = n
      /\ call'.pc = IF inode[n].size = 0 THEN "grow" ELSE "data"
      /\ failed' = "none" /\ UNCHANGED <<bmap, inode, dents>> /\ At("idle")
      /\ n # 0 /\ inode[n].type # "directory"
  BY DEF Write, Begin, Idle, disk
<1>2. inode[n].type # "none" \/ inode[n].blocks = <<>>
  BY DEF Write
<1>3. n \in Inode /\ inode[n].size \in {0, 1}
  BY <1>1, LookupTyped, Typed DEF WellFormed
<1> HIDE DEF n
<1>4. Structure' /\ Unsized' /\ \A m : BlockOf(m)' = BlockOf(m)
  BY <1>1, StructureSame DEF Core
<1>5. BlocksMarked'
  BY <1>1, <1>4 DEF Core, BlocksMarked, At
<1>6. Growing'
  <2>1. inode[n].size = 0 => inode[n].blocks = <<>>
    BY <1>2, <1>3 DEF Core, Unsized
  <2> QED
    BY <1>1, <1>3, <2>1 DEF Growing, At
<1>7. Listing' /\ Leading' /\ Deleting'
  BY <1>1, <1>3 DEF Listing, Leading, Deleting, Creating, At
<1> QED
  BY <1>4, <1>5, <1>6, <1>7 DEF Core

(* No block of an inode is found unmarked by the next deletion.            *)
LEMMA DeletionStarts ==
    ASSUME WellFormed, Core, At("idle"), NEW n \in Inode
    PROVE  Owned(n) \subseteq bmap
BY Typed DEF WellFormed, Core, BlocksMarked, At, Owned

LEMMA CoreDelete ==
    ASSUME WellFormed, Core, NEW p \in Path, Delete(p)
    PROVE  Core'
<1> DEFINE n == Lookup(p)
<1>1. /\ call'.op = "delete" /\ call'.ino = n /\ call'.pc = "erase" /\ call'.path = p
      /\ failed' = "none" /\ UNCHANGED <<inode, dents, soiled>> /\ At("idle")
      /\ n # 0 /\ bmap' = bmap \ Owned(n)
  BY DEF Delete, Begin, Idle
<1>2. n \in Inode /\ p \in Seq(Name) /\ Len(p) \in 0 .. Len(p)
  BY <1>1, LookupTyped, PathIs DEF WellFormed
<1>3. Lookup(p)' = n
  <2>1. \A m, x : Find(m, x)' = Find(m, x)
    BY <1>1, FindSame
  <2>2. \A q \in Seq(Name) : \A i \in 0 .. Len(q) :
              Reached(q)[i]' = Reached(q)[i] /\ Lookup(q)' = Lookup(q)
    BY <2>1, LookupSame
  <2> QED
    BY <1>2, <2>2
<1> HIDE DEF n
<1>4. Structure' /\ Unsized' /\ \A m : BlockOf(m)' = BlockOf(m)
  BY <1>1, StructureSame DEF Core
<1>5. BlocksMarked'
  <2> SUFFICES ASSUME NEW m \in Inode, inode[m].size = 1, m # n
               PROVE  BlockOf(m) \in bmap'
    BY <1>1, <1>4 DEF BlocksMarked, At
  <2>1. BlockOf(m) \in bmap
    BY <1>1 DEF Core, BlocksMarked, At
  <2>2. BlockOf(m) \notin Owned(n)
    <3>1. inode[n].size \in {0, 1}
      BY <1>2, Typed DEF WellFormed
    <3> QED
      BY <1>2, <3>1 DEF Core, Structure, Apart, Owned
  <2> QED
    BY <1>1, <2>1, <2>2
<1>6. Deleting'
  <2>1. Lookup(call.path)' = call'.ino
    BY <1>1, <1>3
  <2> QED
    BY <1>1, <2>1 DEF Deleting, At
<1> QED
  BY <1>1, <1>4, <1>5, <1>6 DEF Core, Growing, Listing, Leading, Creating, At

LEMMA CoreDeleteFails ==
    ASSUME WellFormed, Core, NEW p \in Path, DeleteFails(p)
    PROVE  FALSE
<1>1. At("idle") /\ Lookup(p) # 0 /\ ~(Owned(Lookup(p)) \subseteq bmap)
  BY DEF DeleteFails
<1>2. Lookup(p) \in Inode
  BY <1>1, LookupTyped DEF WellFormed
<1> QED
  BY <1>1, <1>2, DeletionStarts

LEMMA CoreAllocateBlock ==
    ASSUME WellFormed, Core, AllocateBlock
    PROVE  Core'
<1> DEFINE b == Min(Block \ bmap)
<1>1. /\ bmap' = bmap \cup {b} /\ call' = [call EXCEPT !.pc = "map", !.blk = b]
      /\ UNCHANGED <<inode, dents, soiled>> /\ failed' = failed /\ call.pc = "grow"
  BY DEF AllocateBlock, Taken, observed, At
<1>2. b \notin bmap
  <2>1. Block \ bmap # {} /\ Block \ bmap \in SUBSET Nat
    BY FileSystemAssumption DEF WellFormed, TypeOK, AllocateBlock
  <2> QED
    BY <2>1, MinIs
<1> HIDE DEF b
<1>3. /\ call'.pc = "map" /\ call'.op = call.op /\ call'.dir = call.dir
      /\ call'.path = call.path
      /\ call'.ino = call.ino /\ call'.blk = b
  BY <1>1 DEF WellFormed, TypeOK, CallType
<1>4. Structure' /\ Unsized' /\ Dirs' = Dirs /\ \A m : BlockOf(m)' = BlockOf(m)
  BY <1>1, StructureSame DEF Core
<1>5. \A n \in Inode : inode[n].size = 1 => BlockOf(n) \in bmap
  BY <1>1 DEF Core, BlocksMarked, At
<1>6. BlocksMarked'
  BY <1>1, <1>4, <1>5 DEF BlocksMarked
<1>7. Growing'
  BY <1>1, <1>2, <1>3, <1>4, <1>5 DEF Core, Growing, At
<1>8. Leading'
  BY <1>1, <1>3, SameDiskKeeps, LeadingKept DEF Core, Creating, At
<1> QED
  BY <1>1, <1>3, <1>4, <1>6, <1>7, <1>8 DEF Core, Listing, Deleting, Creating, At

LEMMA CoreFails ==
    ASSUME WellFormed, Core, NoFreeBlock \/ NoRoomForEntry
    PROVE  Core'
<1>1. call' = Idle /\ failed' = call.op /\ UNCHANGED disk /\ (call.pc = "grow" \/ call.pc = "link")
  BY DEF NoFreeBlock, NoRoomForEntry, Fail, At
<1>2. call.op # "delete"
  BY <1>1 DEF WellFormed, CallOK, At
<1>3. Structure' /\ Unsized' /\ \A n : BlockOf(n)' = BlockOf(n)
  BY <1>1, StructureSame DEF Core, disk
<1>4. BlocksMarked'
  BY <1>1, <1>3 DEF Core, BlocksMarked, At, disk
<1> QED
  BY <1>1, <1>2, <1>3, <1>4, IdleCore

LEMMA CoreCrash ==
    ASSUME WellFormed, Core, Crash, ~damaged'
    PROVE  Core'
<1>1. call' = Idle /\ failed' = "none" /\ UNCHANGED disk
      /\ ~(At("erase") /\ inode[call.ino].size = 1)
  BY DEF Crash
<1>2. Structure' /\ Unsized' /\ \A n : BlockOf(n)' = BlockOf(n)
  BY <1>1, StructureSame DEF Core, disk
<1>3. BlocksMarked'
  BY <1>1, <1>2 DEF Core, BlocksMarked, disk
<1> QED
  BY <1>1, <1>2, <1>3, IdleCore

LEMMA CoreStutter ==
    ASSUME Core, UNCHANGED vars
    PROVE  Core'
<1>1. UNCHANGED <<imap, bmap, inode, dents, data, soiled, call, failed, crashes, damaged>>
  BY DEF vars, disk, observed
<1>2. Structure' /\ Unsized' /\ Dirs' = Dirs
      /\ \A n : BlockOf(n)' = BlockOf(n) /\ Entries(n)' = Entries(n)
  BY <1>1, StructureSame DEF Core
<1>3. Lookup(call.path)' = Lookup(call.path)
  BY <1>1 DEF Lookup, Reached, Find, HoldsEntries, BlockOf
<1>4. Lookup(Front(call.path))' = Lookup(Front(call.path))
  BY <1>1 DEF Lookup, Reached, Find, HoldsEntries, BlockOf
<1> QED
  BY <1>1, <1>2, <1>3, <1>4 DEF Core, Leading, BlocksMarked, Growing, Listing, Deleting, Creating, At

-----------------------------------------------------------------------------
(* Steps that write an inode or the entries of a block.                    *)

(* No directory comes into being, and those that remain keep their entries. *)
LEMMA DirsAreNext ==
    WellFormed' => \A d \in Dirs' :
        /\ d \in Inode /\ inode'[d].type = "directory" /\ inode'[d].size = 1
        /\ BlockOf(d)' \in Block /\ Entries(d)' = dents'[BlockOf(d)']
        /\ Entries(d)'[1].ino = d /\ Len(Entries(d)') \in Nat /\ Len(Entries(d)') >= 2
        /\ \A i \in 1 .. Len(Entries(d)') : Entries(d)'[i].ino \in Inode
<1>1. (WellFormed => \A d \in Dirs :
        /\ d \in Inode /\ d # 0 /\ HoldsEntries(d)
        /\ inode[d].type = "directory" /\ inode[d].size = 1
        /\ BlockOf(d) \in Block /\ Entries(d) = dents[BlockOf(d)]
        /\ Entries(d) \in Seq(EntryType) /\ Len(Entries(d)) \in Nat /\ Len(Entries(d)) >= 2
        /\ Divided(Entries(d))
        /\ Entries(d)[1].ino = d /\ Entries(d)[1].name = Dot /\ Entries(d)[2].name = DotDot
        /\ \A i \in 1 .. Len(Entries(d)) :
              /\ Entries(d)[i] \in EntryType /\ EntryOK(Entries(d)[i])
              /\ Entries(d)[i].ino \in Inode)'
  BY DirsAre, PTL
<1> QED
  BY <1>1

LEMMA DirsRemain ==
    ASSUME WellFormed, WellFormed', Structure, Apart', Dirs' \subseteq Dirs, Root \in Dirs',
           \A d \in Dirs' : Entries(d)' = Entries(d),
           \A d \in Dirs' : \A i \in 3 .. Len(Entries(d)) : \A n \in Inode :
              n = Entries(d)[i].ino /\ inode'[n].type = "directory" => n \in Dirs'
    PROVE  Structure'
<1>1. RootStands'
  BY DEF Structure, RootStands
<1>2. Listed'
  <2> SUFFICES ASSUME NEW d \in Dirs', NEW i \in 3 .. Len(Entries(d))
               PROVE  /\ Entries(d)[i].name \in Name
                      /\ \A n \in Inode : n = Entries(d)[i].ino /\ inode'[n].type = "directory"
                            => n \in Dirs' /\ Entries(n)'[2].ino = d
    <3>1. \A d \in Dirs' : \A i \in 3 .. Len(Entries(d)) : Entries(d)[i].ino \in Inode
      BY DirsAre
    <3> QED
      BY <3>1 DEF Listed
  <2>1. d \in Dirs
    OBVIOUS
  <2>2. Entries(d)[i].name \in Name
    BY <2>1 DEF Structure, Listed
  <2>3. ASSUME NEW n \in Inode, n = Entries(d)[i].ino, inode'[n].type = "directory"
        PROVE  n \in Dirs' /\ Entries(n)'[2].ino = d
    <3>1. n \in Dirs'
      BY <2>3
    <3>2. n \in Dirs /\ inode[n].type = "directory"
      BY <3>1, DirsAre
    <3>3. Entries(n)[2].ino = d
      BY <2>1, <2>3, <3>2 DEF Structure, Listed
    <3> QED
      BY <3>1, <3>3
  <2> QED
    BY <2>2, <2>3
<1>3. Distinct'
  BY DEF Structure, Distinct
<1>4. Shadowed'
  <2> SUFFICES ASSUME NEW d \in Dirs', NEW i \in 3 .. Len(Entries(d)),
                      NEW j \in 3 .. Len(Entries(d)), i < j,
                      Entries(d)[i].name = Entries(d)[j].name,
                      NEW m, m = Entries(d)[j].ino, inode'[m].type = "directory"
               PROVE  Len(Entries(m)') = 2
    BY DEF Shadowed
  <2>1. m \in Inode
    BY DirsAre
  <2>2. m \in Dirs'
    BY <2>1
  <2>3. inode[m].type = "directory"
    BY <2>2, DirsAre
  <2> QED
    BY <2>2, <2>3 DEF Structure, Shadowed
<1> QED
  BY <1>1, <1>2, <1>3, <1>4 DEF Structure

LEMMA CoreInitializeInode ==
    ASSUME WellFormed, WellFormed', Core, InitializeInode
    PROVE  Core'
<1> DEFINE n == call.ino
<1>1. /\ inode' = [inode EXCEPT ![n] = [type |-> call.type, size |-> 0, blocks |-> <<>>]]
      /\ call' = [call EXCEPT !.pc = IF call.type = "directory" THEN "grow" ELSE "link"]
      /\ UNCHANGED <<imap, bmap, dents, data, soiled, failed>> /\ call.pc = "inode"
  BY DEF InitializeInode, Goto, observed, At
<1>2. /\ n \in Inode /\ n # Root /\ call.op = "create" /\ call.type \in Type /\ Fresh
  BY <1>1, Typed DEF WellFormed, CallOK, At, Creating, TypeOK
<1>3. /\ call'.pc \in {"grow", "link"} /\ call'.op = "create" /\ call'.dir = call.dir
      /\ call'.path = call.path /\ call'.ino = n /\ (call'.pc = "link" => call.type # "directory")
  BY <1>1, <1>2 DEF WellFormed, TypeOK, CallType
<1>4. /\ inode'[n].type = call.type /\ inode'[n].size = 0 /\ inode'[n].blocks = <<>>
      /\ \A m \in Inode \ {n} : inode'[m] = inode[m]
  BY <1>1, <1>2 DEF WellFormed, TypeOK
<1>5. \A b \in Block : \A i \in 1 .. Len(dents[b]) : dents[b][i].ino # n
  BY <1>1 , <1>2 DEF Fresh, At
<1>6. n \notin Dirs
  <2>1. \A d \in Dirs : 1 \in 1 .. Len(Entries(d))
    BY DirsAre
  <2> QED
    BY <1>5, <2>1, DirsAre
<1> HIDE DEF n
<1>7. \A m \in Inode \ {n} : /\ HoldsEntries(m)' = HoldsEntries(m)
                             /\ BlockOf(m)' = BlockOf(m) /\ Entries(m)' = Entries(m)
  BY <1>1, <1>4 DEF HoldsEntries, BlockOf, Entries
<1>8. Dirs' = Dirs
  <2>1. n \notin Dirs'
    BY <1>4 DEF Dirs, HoldsEntries
  <2> QED
    BY <1>6, <1>7, <2>1 DEF Dirs
<1>9. Structure'
  <2>1. Apart'
    BY <1>4, <1>7 DEF Core, Structure, Apart
  <2>2. \A d \in Dirs : d \in Inode \ {n}
    BY <1>6, DirsAre
  <2>3. ASSUME NEW d \in Dirs', NEW i \in 3 .. Len(Entries(d)), NEW m \in Inode,
               m = Entries(d)[i].ino, inode'[m].type = "directory"
        PROVE  m \in Dirs'
    <3>1. d \in Dirs /\ i \in 1 .. Len(Entries(d))
      BY <1>8, DirsAre
    <3>2. m # n
      BY <1>5, <2>3, <3>1, DirsAre
    <3>3. inode[m].type = "directory"
      BY <1>4, <2>3, <3>2
    <3> QED
      BY <1>8, <2>3, <3>1, <3>3 DEF Core, Structure, Listed
  <2> QED
    BY <1>7, <1>8, <2>1, <2>2, <2>3, DirsRemain DEF Core, Structure, RootStands
<1>10. Unsized'
  BY <1>4 DEF Core, Unsized
<1>11. BlocksMarked'
  BY <1>1, <1>4, <1>7 DEF Core, BlocksMarked, At
<1>12. Growing'
  BY <1>3, <1>4 DEF Growing, At
<1>13. Listing'
  BY <1>1, <1>2, <1>3, <1>4, <1>8 DEF Core, Listing, Creating, At
<1>14. Leading'
  <2>1. Creating
    BY <1>1, <1>2 DEF Creating, At
  <2> QED
    BY <1>3, <2>1, InitializeInodeKeeps, LeadingKept DEF Core
<1> QED
  BY <1>1, <1>3, <1>9, <1>10, <1>11, <1>12, <1>13, <1>14 DEF Core, Deleting, At

LEMMA CoreWriteGrownInode ==
    ASSUME WellFormed, WellFormed', Core, WriteGrownInode
    PROVE  Core'
<1> DEFINE pc == IF call.op = "create" THEN "init" ELSE "data"
<1>0. PICK n : n = call.ino
  OBVIOUS
<1>1. /\ inode' = [inode EXCEPT ![n].size = 1, ![n].blocks = Append(@, call.blk)]
      /\ call' = [call EXCEPT !.pc = pc]
      /\ UNCHANGED <<imap, bmap, dents, data, soiled, failed>> /\ call.pc = "map"
  BY <1>0 DEF WriteGrownInode, Goto, AfterGrowth, observed, At
<1>2. /\ n \in Inode /\ n # Root /\ call.op \in {"create", "write"} /\ inode[n].size = 0
      /\ (call.op = "create" <=> inode[n].type = "directory") /\ call.blk \in Block
      /\ (call.op = "create" => Fresh) /\ inode[n].blocks = <<>>
  BY <1>0, <1>1, Typed DEF WellFormed, CallOK, At, Creating, TypeOK, Core, Growing
<1>3. /\ call'.pc = pc /\ call'.op = call.op /\ call'.dir = call.dir /\ call'.ino = n
      /\ call'.path = call.path
  BY <1>0, <1>1 DEF WellFormed, TypeOK, CallType
<1>4. /\ inode'[n].type = inode[n].type /\ inode'[n].size = 1
      /\ inode'[n].blocks = <<call.blk>>
      /\ \A m \in Inode \ {n} : inode'[m] = inode[m]
  <2>1. inode \in [Inode -> InodeType]
    BY DEF WellFormed, TypeOK, InodeType
  <2>2. inode[n] \in InodeType /\ Append(inode[n].blocks, call.blk) \in Seq(Block)
        /\ Append(inode[n].blocks, call.blk) = <<call.blk>>
    BY <1>2, <2>1 DEF InodeType
  <2> DEFINE new == [inode[n] EXCEPT !.size = 1, !.blocks = Append(inode[n].blocks, call.blk)]
  <2>3. /\ new.size = 1 /\ new.type = inode[n].type /\ new.blocks = <<call.blk>>
    BY <2>2, InodeIs
  <2>4. inode' = [inode EXCEPT ![n] = new]
    BY <1>1
  <2> HIDE DEF new
  <2> QED
    BY <1>2, <2>1, <2>3, <2>4
<1>5. call.op = "create" => \A b \in Block : \A i \in 1 .. Len(dents[b]) : dents[b][i].ino # n
  BY <1>0, <1>1, <1>2 DEF Fresh, At
<1>6. n \notin Dirs
  BY <1>2, DirsAre
<1>7. \A m \in Inode \ {n} : /\ HoldsEntries(m)' = HoldsEntries(m)
                             /\ BlockOf(m)' = BlockOf(m) /\ Entries(m)' = Entries(m)
  BY <1>1, <1>4 DEF HoldsEntries, BlockOf, Entries
<1>8. BlockOf(n)' = call.blk
  BY <1>4 DEF BlockOf
<1> HIDE DEF pc
<1>9. Dirs' = Dirs
  <2>1. n \notin Dirs'
    <3>1. CASE call.op = "create"
      <4> SUFFICES ASSUME n \in Dirs' PROVE FALSE
        OBVIOUS
      <4>1. /\ BlockOf(n)' \in Block /\ Entries(n)' = dents'[BlockOf(n)']
            /\ Entries(n)'[1].ino = n /\ 1 \in 1 .. Len(Entries(n)')
        BY DirsAreNext
      <4>2. dents'[BlockOf(n)'][1].ino = n /\ 1 \in 1 .. Len(dents'[BlockOf(n)'])
            /\ BlockOf(n)' \in Block
        BY <4>1
      <4> QED
        BY <1>1, <1>5, <3>1, <4>2
    <3>2. CASE call.op = "write"
      BY <1>2, <1>4, <3>2 DEF Dirs, HoldsEntries
    <3> QED
      BY <1>2, <3>1, <3>2
  <2> QED
    BY <1>6, <1>7, <2>1 DEF Dirs
<1>10. Structure'
  <2>1. Apart'
    <3> SUFFICES ASSUME NEW l \in Inode, NEW m \in Inode, l # m,
                        inode'[l].size = 1, inode'[m].size = 1
                 PROVE  BlockOf(l)' # BlockOf(m)'
      BY DEF Apart
    <3>1. \A k \in Inode \ {n} : inode'[k].size = 1 => BlockOf(k)' # call.blk
      BY <1>0, <1>1, <1>4, <1>7 DEF Core, Growing, At
    <3>2. CASE l = n
      BY <1>8, <3>1, <3>2
    <3>3. CASE m = n
      BY <1>8, <3>1, <3>3
    <3>4. CASE l # n /\ m # n
      BY <1>4, <1>7, <3>4 DEF Core, Structure, Apart
    <3> QED
      BY <3>2, <3>3, <3>4
  <2>2. \A d \in Dirs : d \in Inode \ {n}
    BY <1>6, DirsAre
  <2>3. ASSUME NEW d \in Dirs', NEW i \in 3 .. Len(Entries(d)), NEW m \in Inode,
               m = Entries(d)[i].ino, inode'[m].type = "directory"
        PROVE  m \in Dirs'
    <3>1. d \in Dirs /\ i \in 1 .. Len(Entries(d))
      BY <1>9, DirsAre
    <3>2. m # n
      <4>1. CASE call.op = "create"
        BY <1>5, <2>3, <3>1, <4>1, DirsAre
      <4>2. CASE call.op # "create"
        BY <1>2, <1>4, <2>3, <4>2
      <4> QED
        BY <4>1, <4>2
    <3>3. inode[m].type = "directory"
      BY <1>4, <2>3, <3>2
    <3> QED
      BY <1>9, <2>3, <3>1, <3>3 DEF Core, Structure, Listed
  <2> QED
    BY <1>7, <1>9, <2>1, <2>2, <2>3, DirsRemain DEF Core, Structure, RootStands
<1>11. Unsized'
  BY <1>4 DEF Core, Unsized
<1>12. BlocksMarked'
  <2>1. call.blk \in bmap
    BY <1>1 DEF Core, Growing, At
  <2> QED
    BY <1>1, <1>4, <1>7, <1>8, <2>1 DEF Core, BlocksMarked, At
<1>13. (pc = "init" /\ call.op = "create") \/ (pc = "data" /\ call.op = "write")
  BY <1>2 DEF pc
<1>14. Listing'
  BY <1>0, <1>1, <1>3, <1>9, <1>13 DEF Core, Listing, Creating, At
<1>15. Leading'
  <2>1. Creating' => Creating
    BY <1>1, <1>3 DEF Creating, At
  <2> QED
    BY <1>3, <2>1, WriteGrownInodeKeeps, LeadingKept DEF Core
<1> QED
  BY <1>1, <1>3, <1>10, <1>11, <1>12, <1>13, <1>14, <1>15 DEF Core, Growing, Deleting, At

LEMMA CoreInitializeDirectory ==
    ASSUME WellFormed, WellFormed', Core, InitializeDirectory
    PROVE  Core'
<1>0. PICK n : n = call.ino
  OBVIOUS
<1>1. PICK d : d = call.dir
  OBVIOUS
<1> DEFINE b == BlockOf(n)
           s == EmptyDirectory(n, d)
<1>2. /\ dents' = [dents EXCEPT ![b] = s] /\ call' = [call EXCEPT !.pc = "link"]
      /\ UNCHANGED <<imap, bmap, inode, soiled, failed>> /\ call.pc = "init"
  BY <1>0, <1>1 DEF InitializeDirectory, Goto, observed, At
<1>3. /\ n \in Inode /\ n # Root /\ call.op = "create" /\ HoldsEntries(n)
      /\ d \in Dirs /\ d # n /\ d \in Inode /\ Fresh
  BY <1>0, <1>1, <1>2, Typed, DirsAre DEF WellFormed, CallOK, At, Creating, TypeOK, Core, Listing
<1>4. b \in Block /\ inode[n].size = 1 /\ inode[n].type = "directory"
  BY <1>3, HoldsTyped DEF WellFormed, Stored
<1>5. Len(s) = 2 /\ s[1] = Entry(Dot, n, 1) /\ s[2] = Entry(DotDot, d, DirRoom + 1)
  BY <1>3, EmptyDirectoryIs
<1>6. /\ call'.pc = "link" /\ call'.op = "create" /\ call'.dir = d /\ call'.ino = n
      /\ call'.path = call.path
  BY <1>0, <1>1, <1>2, <1>3 DEF WellFormed, TypeOK, CallType
<1> HIDE DEF s, b
<1>7. /\ \A m : HoldsEntries(m)' = HoldsEntries(m) /\ BlockOf(m)' = BlockOf(m)
      /\ Apart' /\ Unsized' /\ Entries(n)' = s
      /\ \A m \in Inode : HoldsEntries(m) /\ m # n => Entries(m)' = Entries(m)
  BY <1>2, <1>3, <1>4, OtherBlocks DEF b, Core, Structure
<1>8. n \notin Dirs
  <2>1. \A m \in Dirs : 1 \in 1 .. Len(Entries(m))
    BY DirsAre
  <2>2. \A m \in Dirs : dents[BlockOf(m)][1].ino = m /\ BlockOf(m) \in Block
                        /\ 1 \in 1 .. Len(dents[BlockOf(m)])
    BY <2>1, DirsAre
  <2> QED
    BY <1>0, <1>2, <1>3, <2>2 DEF Fresh, At
<1>9. /\ Len(Entries(n)') = 2 /\ Entries(n)'[1].ino = n /\ Entries(n)'[1].name = Dot
      /\ Entries(n)'[2].name = DotDot /\ Entries(n)'[2].ino = d
  BY <1>5, <1>7 DEF Entry
<1>10. Dirs' = Dirs \cup {n}
  <2>1. n \in Dirs'
    <3>1. HoldsEntries(n)' /\ Len(Entries(n)') >= 2
      BY <1>3, <1>7, <1>9
    <3> QED
      BY <1>3, <1>9, <3>1 DEF Dirs
  <2>2. \A m \in Inode : m # n => (m \in Dirs' <=> m \in Dirs)
    BY <1>7 DEF Dirs
  <2> QED
    BY <1>3, <2>1, <2>2 DEF Dirs
<1>11. \A m \in Dirs : Entries(m)' = Entries(m)
  BY <1>7, <1>8, DirsAre
<1>12. Structure'
  <2>1. RootStands'
    BY <1>10, <1>11 DEF Core, Structure, RootStands
  <2>2. ASSUME NEW e \in Dirs', NEW i \in 3 .. Len(Entries(e)') PROVE e \in Dirs
    <3>1. CASE e = n
      <4>1. 3 .. Len(Entries(e)') = 3 .. 2
        BY <1>9, <3>1
      <4> QED
        BY <4>1
    <3>2. CASE e # n
      BY <1>10, <3>2
    <3> QED
      BY <3>1, <3>2
  <2>3. Listed'
    <3> SUFFICES ASSUME NEW e \in Dirs', NEW i \in 3 .. Len(Entries(e)')
                 PROVE  /\ Entries(e)'[i].name \in Name
                        /\ \A m : m = Entries(e)'[i].ino /\ inode[m].type = "directory"
                                    => m \in Dirs' /\ Entries(m)'[2].ino = e
      BY <1>2 DEF Listed
    <3>1. e \in Dirs /\ Entries(e)' = Entries(e)
      BY <1>11, <2>2
    <3> QED
      BY <1>10, <1>11, <3>1 DEF Core, Structure, Listed
  <2>4. Distinct'
    BY <1>11, <2>2 DEF Core, Structure, Distinct
  <2>5. Shadowed'
    <3> SUFFICES ASSUME NEW e \in Dirs', NEW i \in 3 .. Len(Entries(e)'),
                        NEW j \in 3 .. Len(Entries(e)'), i < j,
                        Entries(e)'[i].name = Entries(e)'[j].name,
                        NEW m, m = Entries(e)'[j].ino, inode[m].type = "directory"
                 PROVE  Len(Entries(m)') = 2
      BY <1>2 DEF Shadowed
    <3>1. e \in Dirs /\ Entries(e)' = Entries(e)
      BY <1>11, <2>2
    <3>2. m \in Dirs /\ Entries(m)' = Entries(m)
      BY <1>11, <3>1 DEF Core, Structure, Listed
    <3> QED
      BY <3>1, <3>2 DEF Core, Structure, Shadowed
  <2> QED
    BY <1>7, <2>1, <2>3, <2>4, <2>5 DEF Structure
<1>13. BlocksMarked'
  BY <1>2, <1>7 DEF Core, BlocksMarked, At
<1>14. Listing'
  BY <1>1, <1>3, <1>6, <1>9, <1>10 DEF Listing
<1>15. Leading'
  <2>1. Creating
    BY <1>2, <1>3 DEF Creating, At
  <2> QED
    BY <1>1, <1>6, <2>1, InitializeDirectoryKeeps, LeadingKept DEF Core
<1> QED
  BY <1>2, <1>6, <1>7, <1>12, <1>13, <1>14, <1>15 DEF Core, Growing, Deleting, At

(* What the entry of a creation makes of its directory.                    *)
LEMMA EntryIsWritten ==
    ASSUME WellFormed, Core, CreateDirectoryEntry,
           NEW n, n = call.ino, NEW d, d = call.dir, NEW x, x = Last(call.path)
    PROVE  /\ UNCHANGED <<imap, bmap, inode, data, soiled, failed>>
           /\ call' = Idle /\ call.pc = "link"
           /\ n \in Inode /\ n # Root /\ call.op = "create" /\ d \in Dirs /\ d # n /\ Fresh
           /\ call.path \in Path /\ x \in Name
           /\ inode[n].type = "directory" => n \in Dirs /\ Entries(n)[2].ino = d
           /\ \A i \in 1 .. Len(Entries(d)) : Entries(d)[i].ino # n \/ i = 1
           /\ Len(Entries(d)') = Len(Entries(d)) + 1
           /\ \A i \in 1 .. Len(Entries(d)) : /\ Entries(d)'[i].name = Entries(d)[i].name
                                              /\ Entries(d)'[i].ino = Entries(d)[i].ino
           /\ Entries(d)'[Len(Entries(d)) + 1].name = x
           /\ Entries(d)'[Len(Entries(d)) + 1].ino = n
           /\ \A m : HoldsEntries(m)' = HoldsEntries(m) /\ BlockOf(m)' = BlockOf(m)
           /\ Apart' /\ Unsized'
           /\ \A m \in Inode : HoldsEntries(m) /\ m # d => Entries(m)' = Entries(m)
<1> DEFINE b == BlockOf(d)
           s == Entries(d)
           t == WithEntry(s, x, n)
<1>1. /\ dents' = [dents EXCEPT ![b] = t]
      /\ UNCHANGED <<imap, bmap, inode, data, soiled, failed>> /\ call' = Idle /\ call.pc = "link"
      /\ WalkEnds(d) /\ HasRoom(s)
  BY DEF CreateDirectoryEntry, Return, observed, At, Entries
<1>2. /\ n \in Inode /\ n # Root /\ call.op = "create" /\ d \in Dirs /\ d # n /\ Fresh
      /\ call.path \in Path
      /\ inode[n].type = "directory" => n \in Dirs /\ Entries(n)[2].ino = d
  BY <1>1, Typed DEF WellFormed, CallOK, At, Creating, TypeOK, Core, Listing
<1>3. /\ b \in Block /\ d \in Inode /\ HoldsEntries(d) /\ inode[d].size = 1 /\ s = dents[b]
      /\ s \in Seq(EntryType) /\ Divided(s) /\ Len(s) \in Nat /\ Len(s) >= 2
  BY <1>2, DirsAre
<1>4. \A i \in 1 .. Len(s) : s[i].ino # n \/ i = 1
  BY <1>2, <1>3 DEF Fresh
<1>5. x \in Name /\ s # <<>>
  BY <1>1, <1>2, <1>3, PathIs DEF WalkEnds, Entries
<1> HIDE DEF s, b
<1>6. /\ Len(t) = Len(s) + 1
      /\ \A i \in 1 .. Len(s) : t[i].name = s[i].name /\ t[i].ino = s[i].ino
      /\ t[Len(s) + 1].name = x /\ t[Len(s) + 1].ino = n
  BY <1>1, <1>2, <1>3, <1>5, WithEntryIs
<1> HIDE DEF t
<1>7. /\ \A m : HoldsEntries(m)' = HoldsEntries(m) /\ BlockOf(m)' = BlockOf(m)
      /\ Apart' /\ Unsized' /\ Entries(d)' = t
      /\ \A m \in Inode : HoldsEntries(m) /\ m # d => Entries(m)' = Entries(m)
  BY <1>1, <1>3, OtherBlocks DEF b, Core, Structure
<1> QED
  BY <1>1, <1>2, <1>4, <1>5, <1>6, <1>7 DEF s

LEMMA CoreCreateDirectoryEntry ==
    ASSUME WellFormed, WellFormed', Core, CreateDirectoryEntry
    PROVE  Core'
<1>0. PICK n : n = call.ino
  OBVIOUS
<1>1. PICK d : d = call.dir
  OBVIOUS
<1>2. PICK x : x = Last(call.path)
  OBVIOUS
<1> DEFINE s == Entries(d)
           t == Entries(d)'
<1>3. /\ UNCHANGED <<imap, bmap, inode, data, soiled, failed>> /\ call' = Idle /\ call.pc = "link"
      /\ n \in Inode /\ n # Root /\ call.op = "create" /\ d \in Dirs /\ d # n /\ Fresh
      /\ call.path \in Path /\ x \in Name
      /\ inode[n].type = "directory" => n \in Dirs /\ Entries(n)[2].ino = d
  BY <1>0, <1>1, <1>2, EntryIsWritten
<1>4. /\ d \in Inode /\ HoldsEntries(d)
      /\ s \in Seq(EntryType) /\ Len(s) \in Nat /\ Len(s) >= 2
      /\ s[1].ino = d /\ s[1].name = Dot /\ s[2].name = DotDot
  BY <1>3, DirsAre
<1>5. \A i \in 1 .. Len(s) : s[i].ino # n \/ i = 1
  BY <1>0, <1>1, <1>2, EntryIsWritten
<1>6. /\ Len(t) = Len(s) + 1
      /\ \A i \in 1 .. Len(s) : t[i].name = s[i].name /\ t[i].ino = s[i].ino
      /\ t[Len(s) + 1].name = x /\ t[Len(s) + 1].ino = n
  BY <1>0, <1>1, <1>2, EntryIsWritten
<1>7. /\ \A m : HoldsEntries(m)' = HoldsEntries(m) /\ BlockOf(m)' = BlockOf(m)
      /\ Apart' /\ Unsized' /\ Entries(d)' = t
      /\ \A m \in Inode : HoldsEntries(m) /\ m # d => Entries(m)' = Entries(m)
  BY <1>0, <1>1, <1>2, EntryIsWritten
<1> HIDE DEF s, t
<1>8. 1 \in 1 .. Len(s) /\ 2 \in 1 .. Len(s) /\ Len(t) >= 2
  BY <1>4, <1>6
<1>9. Dirs' = Dirs
  <2>1. d \in Dirs'
    BY <1>4, <1>6, <1>7, <1>8 DEF Dirs
  <2>2. \A m \in Inode : m # d => (m \in Dirs' <=> m \in Dirs)
    BY <1>7 DEF Dirs
  <2> QED
    BY <1>3, <2>1, <2>2 DEF Dirs
<1>10. \A m \in Dirs : m # d => Entries(m)' = Entries(m)
  BY <1>7, DirsAre
<1>11. \A m \in Dirs : Entries(m)'[2].ino = Entries(m)[2].ino
  BY <1>6, <1>7, <1>8, <1>10 DEF s
<1>12. \A m \in Dirs : \A i \in 3 .. Len(Entries(m)') :
         \/ /\ i \in 3 .. Len(Entries(m)) /\ Entries(m)'[i].name = Entries(m)[i].name
            /\ Entries(m)'[i].ino = Entries(m)[i].ino /\ Entries(m)[i].ino # n
         \/ m = d /\ i = Len(s) + 1 /\ Entries(m)'[i].name = x /\ Entries(m)'[i].ino = n
  <2> SUFFICES ASSUME NEW m \in Dirs, NEW i \in 3 .. Len(Entries(m)')
               PROVE
         \/ /\ i \in 3 .. Len(Entries(m)) /\ Entries(m)'[i].name = Entries(m)[i].name
            /\ Entries(m)'[i].ino = Entries(m)[i].ino /\ Entries(m)[i].ino # n
         \/ m = d /\ i = Len(s) + 1 /\ Entries(m)'[i].name = x /\ Entries(m)'[i].ino = n
    OBVIOUS
  <2>1. CASE m = d
    <3>1. i \in 3 .. Len(s) \/ i = Len(s) + 1
      BY <1>4, <1>6, <1>7, <2>1
    <3>2. CASE i \in 3 .. Len(s)
      <4>1. i \in 1 .. Len(s) /\ i # 1
        BY <1>4, <3>2
      <4> QED
        BY <1>4, <1>5, <1>6, <1>7, <2>1, <3>2, <4>1 DEF s
    <3>3. CASE i = Len(s) + 1
      BY <1>6, <1>7, <2>1, <3>3
    <3> QED
      BY <3>1, <3>2, <3>3
  <2>2. CASE m # d
    <3>1. Entries(m)' = Entries(m) /\ i \in 3 .. Len(Entries(m))
      BY <1>10, <2>2
    <3>2. i \in 1 .. Len(Entries(m)) /\ i # 1 /\ BlockOf(m) \in Block
          /\ Entries(m) = dents[BlockOf(m)]
      BY <3>1, DirsAre
    <3>3. Entries(m)[i].ino # n
      BY <1>0, <1>3, <3>2 DEF Fresh
    <3> QED
      BY <3>1, <3>3
  <2> QED
    BY <2>1, <2>2
<1>13. Structure'
  <2>1. RootStands'
    BY <1>9, <1>11 DEF Core, Structure, RootStands
  <2>2. Listed'
    <3> SUFFICES ASSUME NEW e \in Dirs', NEW i \in 3 .. Len(Entries(e)')
                 PROVE  /\ Entries(e)'[i].name \in Name
                        /\ \A m : m = Entries(e)'[i].ino /\ inode[m].type = "directory"
                                    => m \in Dirs' /\ Entries(m)'[2].ino = e
      BY <1>3 DEF Listed
    <3>1. CASE /\ i \in 3 .. Len(Entries(e)) /\ Entries(e)'[i].name = Entries(e)[i].name
               /\ Entries(e)'[i].ino = Entries(e)[i].ino
      BY <1>9, <1>11, <3>1 DEF Core, Structure, Listed
    <3>2. CASE e = d /\ Entries(e)'[i].name = x /\ Entries(e)'[i].ino = n
      BY <1>3, <1>9, <1>11, <3>2
    <3> QED
      BY <1>9, <1>12, <3>1, <3>2
  <2>3. Distinct'
    <3> SUFFICES ASSUME NEW e \in Dirs, NEW f \in Dirs, NEW i \in 3 .. Len(Entries(e)'),
                        NEW j \in 3 .. Len(Entries(f)'), Entries(e)'[i].ino = Entries(f)'[j].ino
                 PROVE  e = f /\ i = j
      BY <1>9 DEF Distinct
    <3> QED
      BY <1>12 DEF Core, Structure, Distinct
  <2>4. Shadowed'
    <3> SUFFICES ASSUME NEW e \in Dirs, NEW i \in 3 .. Len(Entries(e)'),
                        NEW j \in 3 .. Len(Entries(e)'), i < j,
                        Entries(e)'[i].name = Entries(e)'[j].name,
                        NEW m, m = Entries(e)'[j].ino, inode[m].type = "directory"
                 PROVE  Len(Entries(m)') = 2
      BY <1>3, <1>9 DEF Shadowed
    <3>1. CASE m = n
      <4>1. n # d /\ n \in Dirs /\ Len(Entries(n)) = 2
        BY <1>0, <1>3, <3>1 DEF Core, Listing, At
      <4> QED
        BY <1>10, <3>1, <4>1
    <3>2. CASE m # n
      <4>1. /\ j \in 3 .. Len(Entries(e)) /\ Entries(e)'[j].name = Entries(e)[j].name
            /\ m = Entries(e)[j].ino
        BY <1>12, <3>2
      <4>2. i \in 3 .. Len(Entries(e)) /\ Entries(e)'[i].name = Entries(e)[i].name
        <5>1. Len(Entries(e)) \in Nat /\ Len(Entries(d)) \in Nat
          BY <1>3, DirsAre
        <5>2. i # Len(Entries(d)) + 1 \/ e # d
          BY <4>1, <5>1
        <5> QED
          BY <1>12, <5>2 DEF s
      <4>3. m # d
        <5>1. PICK q \in Seq(Name) : q = Front(call.path)
          BY <1>3, PathIs
        <5>2. Lookup(q) = d
          BY <1>1, <1>3, <5>1 DEF Core, Leading, Creating, At
        <5> QED
          BY <4>1, <4>2, <5>2, FoundIsFirst DEF Core
      <4>4. m \in Dirs /\ Len(Entries(m)) = 2
        BY <4>1, <4>2 DEF Core, Structure, Listed, Shadowed
      <4> QED
        BY <1>10, <4>3, <4>4
    <3> QED
      BY <3>1, <3>2
  <2> QED
    BY <1>7, <2>1, <2>2, <2>3, <2>4 DEF Structure
<1>14. BlocksMarked'
  BY <1>3, <1>7 DEF Core, BlocksMarked, At
<1>15. failed' # "delete"
  BY <1>3 DEF Core, Deleting
<1> QED
  BY <1>3, <1>7, <1>13, <1>14, <1>15, IdleCore

LEMMA CoreWriteData ==
    ASSUME WellFormed, WellFormed', Core, WriteData
    PROVE  Core'
<1>0. PICK n : n = call.ino
  OBVIOUS
<1> DEFINE b == BlockOf(n)
<1>1. /\ dents' = [dents EXCEPT ![b] = <<>>] /\ call' = Idle /\ call.pc = "data"
      /\ UNCHANGED <<imap, bmap, inode, failed>>
  BY <1>0 DEF WriteData, Return, observed, At
<1>2. n \in Inode /\ inode[n].size = 1 /\ inode[n].type # "directory"
  BY <1>0, <1>1, Typed DEF WellFormed, CallOK, At, TypeOK
<1>3. b \in Block
  BY <1>2, Typed DEF WellFormed, Stored, Sized
<1> HIDE DEF b
<1>4. /\ \A m : HoldsEntries(m)' = HoldsEntries(m) /\ BlockOf(m)' = BlockOf(m)
      /\ Apart' /\ Unsized'
      /\ \A m \in Inode : HoldsEntries(m) /\ m # n => Entries(m)' = Entries(m)
  BY <1>1, <1>2, <1>3, OtherBlocks DEF b, Core, Structure
<1>5. \A m \in Inode : HoldsEntries(m) => m # n
  BY <1>2 DEF HoldsEntries
<1>6. Dirs' = Dirs /\ \A m \in Dirs : Entries(m)' = Entries(m)
  BY <1>4, <1>5 DEF Dirs
<1>7. Structure'
  <2>1. ASSUME NEW d \in Dirs', NEW i \in 3 .. Len(Entries(d)), NEW m \in Inode,
               m = Entries(d)[i].ino, inode'[m].type = "directory"
        PROVE  m \in Dirs'
    BY <1>1, <1>6, <2>1 DEF Core, Structure, Listed
  <2> QED
    BY <1>4, <1>6, <2>1, DirsRemain DEF Core, Structure, RootStands
<1>8. BlocksMarked'
  BY <1>1, <1>4 DEF Core, BlocksMarked, At
<1>9. failed' # "delete"
  BY <1>1 DEF Core, Deleting
<1> QED
  BY <1>1, <1>4, <1>7, <1>8, <1>9, IdleCore

LEMMA CoreDeleteInode ==
    ASSUME WellFormed, WellFormed', Core, DeleteInode
    PROVE  Core'
<1>0. PICK n : n = call.ino
  OBVIOUS
<1>1. PICK p : p = call.path
  OBVIOUS
<1>2. /\ inode' = [inode EXCEPT ![n] = [inode[n] EXCEPT !.type = "none", !.size = 0]]
      /\ call' = [call EXCEPT !.pc = "unlink"] /\ call.pc = "erase"
      /\ UNCHANGED <<imap, bmap, dents, data, soiled, failed>>
  BY <1>0 DEF DeleteInode, Goto, Erased, observed, At
<1>3. n \in Inode /\ n # Root /\ n # 0 /\ p \in Path /\ call.op = "delete" /\ Lookup(p) = n
  BY <1>0, <1>1, <1>2, Typed DEF WellFormed, CallOK, At, TypeOK, Core, Deleting
<1>4. /\ inode'[n].type = "none" /\ inode'[n].size = 0
      /\ \A m \in Inode \ {n} : inode'[m] = inode[m]
  <2>1. inode \in [Inode -> InodeType]
    BY DEF WellFormed, TypeOK, InodeType
  <2>2. inode[n] \in InodeType /\ inode[n].blocks \in Seq(Block)
    BY <1>3, <2>1 DEF InodeType
  <2> DEFINE new == [inode[n] EXCEPT !.type = "none", !.size = 0]
  <2>3. new.size = 0 /\ new.type = "none"
    BY <2>2, InodeIs
  <2>4. inode' = [inode EXCEPT ![n] = new]
    BY <1>2
  <2> HIDE DEF new
  <2> QED
    BY <1>3, <2>1, <2>3, <2>4
<1>5. call'.pc = "unlink" /\ call'.op = "delete" /\ call'.ino = n /\ call'.path = p
  BY <1>0, <1>1, <1>2, <1>3 DEF WellFormed, TypeOK, CallType
<1>6. \A m \in Inode \ {n} : /\ HoldsEntries(m)' = HoldsEntries(m)
                             /\ BlockOf(m)' = BlockOf(m) /\ Entries(m)' = Entries(m)
  BY <1>2, <1>4 DEF HoldsEntries, BlockOf, Entries
<1>7. Dirs' = Dirs \ {n}
  <2>1. n \notin Dirs'
    BY <1>4 DEF Dirs, HoldsEntries
  <2> QED
    BY <1>6, <2>1 DEF Dirs
<1>8. Structure'
  <2>1. Apart'
    BY <1>4, <1>6 DEF Core, Structure, Apart
  <2>2. \A d \in Dirs' : d \in Inode \ {n}
    BY <1>7, DirsAre
  <2>3. ASSUME NEW d \in Dirs', NEW i \in 3 .. Len(Entries(d)), NEW m \in Inode,
               m = Entries(d)[i].ino, inode'[m].type = "directory"
        PROVE  m \in Dirs'
    <3>1. m # n /\ inode[m].type = "directory"
      BY <1>4, <2>3
    <3> QED
      BY <1>7, <2>3, <3>1 DEF Core, Structure, Listed
  <2> QED
    BY <1>3, <1>6, <1>7, <2>1, <2>2, <2>3, DirsRemain DEF Core, Structure, RootStands
<1>9. Unsized'
  BY <1>4 DEF Core, Unsized
<1>10. BlocksMarked'
  BY <1>0, <1>2, <1>4, <1>6 DEF Core, BlocksMarked
<1>11. Lookup(p)' = n
  <2>1. p \in Seq(Name) /\ Len(p) \in 0 .. Len(p) /\ Len(p) \in Nat
    BY <1>3, PathIs
  <2>2. ASSUME NEW i \in 0 .. Len(p) - 1, NEW m, m = Reached(p)[i]
        PROVE  Find(m, p[i + 1])' = Find(m, p[i + 1])
    <3>1. i \in 0 .. Len(p) /\ i # Len(p)
      BY <2>1
    <3>2. m # n
      BY <1>3, <2>1, <2>2, <3>1, NoReturn DEF Core, Lookup
    <3>3. m \in Inode \cup {0}
      BY <2>1, <2>2, <3>1, ReachedTyped DEF WellFormed
    <3>4. m \in Inode \/ m = 0
      BY <3>3
    <3>5. CASE m = 0
      BY <3>5 DEF Find, HoldsEntries
    <3>6. CASE m \in Inode
      <4>1. HoldsEntries(m)' = HoldsEntries(m) /\ BlockOf(m)' = BlockOf(m)
        BY <1>6, <3>2, <3>6
      <4>2. dents' = dents /\ soiled' = soiled
        BY <1>2
      <4> QED
        BY <4>1, <4>2 DEF Find
    <3> QED
      BY <3>4, <3>5, <3>6
  <2>3. \A i \in 0 .. Len(p) : Reached(p)[i]' = Reached(p)[i]
    BY <2>1, <2>2, WalkKept
  <2> QED
    BY <1>3, <2>1, <2>3 DEF Lookup
<1>12. Deleting'
  <2>1. Lookup(call.path)' = call'.ino /\ inode'[call'.ino].type = "none"
    BY <1>4, <1>5, <1>11
  <2> QED
    BY <1>2, <2>1 DEF Core, Deleting
<1> QED
  BY <1>5, <1>8, <1>9, <1>10, <1>12 DEF Core, Growing, Listing, Leading, Creating, At

(* The entry that the second half of a deletion removes: never one of the  *)
(* first two of its directory.                                             *)
LEMMA VictimIs ==
    ASSUME WellFormed, Core, call.pc = "unlink"
    PROVE  LET d == Lookup(Front(call.path))
               n == Lookup(call.path)
               victims == {i \in DOMAIN Entries(d) : Entries(d)[i].ino = n}
           IN  /\ d \in Dirs /\ n = call.ino /\ n # 0 /\ inode[n].type = "none"
               /\ victims # {}
               /\ Min(victims) \in 3 .. Len(Entries(d))
               /\ Entries(d)[Min(victims)].ino = n
<1> DEFINE p == call.path
           d == Lookup(Front(p))
           n == Lookup(p)
           s == Entries(d)
           victims == {i \in DOMAIN s : s[i].ino = n}
<1>1. p \in Path /\ n = call.ino /\ n \in Inode /\ n # 0 /\ inode[n].type = "none"
  BY Typed DEF WellFormed, CallOK, At, TypeOK, Core, Deleting
<1>2. /\ p \in Seq(Name) /\ Len(p) \in 1 .. Len(p) /\ Len(p) \in Nat
      /\ d = Reached(p)[Len(p) - 1] /\ n = Reached(p)[Len(p)]
  BY <1>1, PathIs, LookupIs DEF Lookup
<1>3. PICK k \in 3 .. Len(s) : n = s[k].ino
  <2>1. Structure
    BY DEF Core
  <2>2. \E k \in 3 .. Len(Entries(Reached(p)[Len(p) - 1])) :
            Reached(p)[Len(p)] = Entries(Reached(p)[Len(p) - 1])[k].ino
    BY <1>1, <1>2, <2>1, ReachedBy
  <2> QED
    BY <1>2, <2>2
<1>4. d \in Dirs
  <2>1. Structure
    BY DEF Core
  <2>2. Reached(p)[Len(p) - 1] \in Dirs
    BY <1>1, <1>2, <2>1, ReachedBy
  <2> QED
    BY <1>2, <2>2
<1>5. inode[s[2].ino].type = "directory"
  <2>1. CASE d = Root
    <3>1. s[2].ino = Root
      BY <2>1 DEF Core, Structure, RootStands
    <3> QED
      BY <3>1, DirsAre DEF Core, Structure, RootStands
  <2>2. CASE d # Root
    <3>1. Len(p) - 1 # 0
      BY <1>2, <2>2, ReachedIs
    <3>2. Len(p) - 1 \in 1 .. Len(p)
      <4>1. \A l \in Nat : l \in 1 .. l /\ l - 1 # 0 => l - 1 \in 1 .. l
        OBVIOUS
      <4> QED
        BY <1>2, <3>1, <4>1
    <3>3. d # 0 /\ inode[d].type = "directory"
      BY <1>4, DirsAre
    <3>4. Structure
      BY DEF Core
    <3>5. /\ Reached(p)[(Len(p) - 1) - 1] \in Dirs
          /\ Entries(Reached(p)[Len(p) - 1])[2].ino = Reached(p)[(Len(p) - 1) - 1]
      BY <1>2, <3>2, <3>3, <3>4, ReachedBy
    <3> QED
      BY <1>2, <3>5, DirsAre
  <2> QED
    BY <2>1, <2>2
<1> HIDE DEF p, d, n
<1>6. /\ s \in Seq(EntryType) /\ Len(s) \in Nat /\ s[1].ino = d /\ inode[d].type = "directory"
      /\ DOMAIN s = 1 .. Len(s)
  BY <1>4, DirsAre, LenProperties
<1>7. victims # {} /\ victims \in SUBSET Nat
  BY <1>3, <1>6
<1>8. Min(victims) \in victims
  <2> HIDE DEF victims
  <2> QED
    BY <1>7, MinIs
<1>9. Min(victims) \in 1 .. Len(s) /\ s[Min(victims)].ino = n
  BY <1>6, <1>8
<1>10. Min(victims) # 1 /\ Min(victims) # 2
  <2>1. s[1].ino # n /\ s[2].ino # n
    BY <1>1, <1>5, <1>6
  <2> HIDE DEF victims
  <2> QED
    BY <1>9, <2>1
<1>11. Min(victims) \in 3 .. Len(s)
  <2> HIDE DEF victims
  <2> QED
    BY <1>6, <1>9, <1>10
<1> QED
  BY <1>1, <1>4, <1>7, <1>9, <1>11 DEF p, d, n

(* Where the i-th entry was before the k-th was removed.                   *)
Before(k, i) == IF i < k THEN i ELSE i + 1

(* What the second half of a deletion makes of the directory.              *)
LEMMA EntryIsRemoved ==
    ASSUME WellFormed, Core, DeleteDentry,
           NEW d, d = Lookup(Front(call.path)), NEW n, n = Lookup(call.path)
    PROVE  /\ UNCHANGED <<imap, bmap, inode, data, soiled, failed>>
           /\ call' = Idle /\ call.pc = "unlink"
           /\ d \in Dirs /\ n = call.ino /\ n # 0 /\ inode[n].type = "none"
           /\ Len(Entries(d)') = Len(Entries(d)) - 1
           /\ \E k \in 3 .. Len(Entries(d)) :
                 /\ Entries(d)[k].ino = n
                 /\ \A i \in 1 .. Len(Entries(d)) - 1 :
                       /\ Before(k, i) \in 1 .. Len(Entries(d))
                       /\ Entries(d)'[i].name = Entries(d)[Before(k, i)].name
                       /\ Entries(d)'[i].ino = Entries(d)[Before(k, i)].ino
           /\ \A m : HoldsEntries(m)' = HoldsEntries(m) /\ BlockOf(m)' = BlockOf(m)
           /\ Apart' /\ Unsized'
           /\ \A m \in Inode : HoldsEntries(m) /\ m # d => Entries(m)' = Entries(m)
<1> DEFINE s == Entries(d)
           b == BlockOf(d)
           victims == {i \in DOMAIN s : s[i].ino = n}
           k == Min(victims)
           t == WithoutEntry(s, k)
<1>1. call.pc = "unlink"
  BY DEF DeleteDentry, At
<1>2. /\ d \in Dirs /\ n = call.ino /\ n # 0 /\ inode[n].type = "none"
      /\ victims # {} /\ k \in 3 .. Len(s) /\ s[k].ino = n
  BY <1>1, VictimIs
<1>3. /\ b \in Block /\ d \in Inode /\ HoldsEntries(d) /\ inode[d].size = 1 /\ s = dents[b]
      /\ s \in Seq(EntryType) /\ Divided(s) /\ Len(s) \in Nat /\ Len(s) >= 2
  BY <1>2, DirsAre
<1>4. /\ dents' = [dents EXCEPT ![b] = t]
      /\ UNCHANGED <<imap, bmap, inode, data, soiled, failed>> /\ call' = Idle
  <2>1. ~(n = 0 \/ victims = {})
    BY <1>2
  <2>2. dents' = [dents EXCEPT ![b] = WithoutEntry(@, k)] /\ Return
        /\ UNCHANGED <<imap, bmap, inode, data, soiled>>
    BY <1>3, <2>1 DEF DeleteDentry
  <2> QED
    BY <1>3, <2>2 DEF Return, observed
<1> HIDE DEF k, s, b
<1>5. /\ Len(t) = Len(s) - 1
      /\ \A i \in 1 .. Len(s) - 1 :
            /\ Before(k, i) \in 1 .. Len(s) /\ t[i].name = s[Before(k, i)].name
            /\ t[i].ino = s[Before(k, i)].ino
  <2>1. k \in 2 .. Len(s)
    BY <1>2, <1>3
  <2> QED
    BY <1>3, <2>1, WithoutEntryIs DEF Before
<1> HIDE DEF t
<1>6. /\ \A m : HoldsEntries(m)' = HoldsEntries(m) /\ BlockOf(m)' = BlockOf(m)
      /\ Apart' /\ Unsized' /\ Entries(d)' = t
      /\ \A m \in Inode : HoldsEntries(m) /\ m # d => Entries(m)' = Entries(m)
  BY <1>3, <1>4, OtherBlocks DEF b, Core, Structure
<1> QED
  BY <1>1, <1>2, <1>4, <1>5, <1>6 DEF s

LEMMA CoreDeleteDentry ==
    ASSUME WellFormed, WellFormed', Core, DeleteDentry
    PROVE  Core'
<1>0. PICK d : d = Lookup(Front(call.path))
  OBVIOUS
<1>1. PICK n : n = Lookup(call.path)
  OBVIOUS
<1> DEFINE s == Entries(d)
           t == Entries(d)'
<1>2. /\ UNCHANGED <<imap, bmap, inode, data, soiled, failed>>
      /\ call' = Idle /\ call.pc = "unlink"
      /\ d \in Dirs /\ n = call.ino /\ n # 0 /\ inode[n].type = "none"
  BY <1>0, <1>1, EntryIsRemoved
<1>3. /\ d \in Inode /\ HoldsEntries(d)
      /\ s \in Seq(EntryType) /\ Len(s) \in Nat /\ Len(s) >= 2
      /\ s[1].ino = d /\ s[1].name = Dot /\ s[2].name = DotDot
  BY <1>2, DirsAre
<1>4. PICK k \in 3 .. Len(s) :
        /\ s[k].ino = n
        /\ \A i \in 1 .. Len(s) - 1 :
              /\ Before(k, i) \in 1 .. Len(s) /\ t[i].name = s[Before(k, i)].name
              /\ t[i].ino = s[Before(k, i)].ino
  BY <1>0, <1>1, EntryIsRemoved
<1>5. Len(t) = Len(s) - 1
  BY <1>0, <1>1, EntryIsRemoved
<1>6. \A i \in 1 .. Len(s) - 1 :
        LET j == IF i < k THEN i ELSE i + 1 IN
        j \in 1 .. Len(s) /\ t[i].name = s[j].name /\ t[i].ino = s[j].ino
  BY <1>4 DEF Before
<1>7. /\ \A m : HoldsEntries(m)' = HoldsEntries(m) /\ BlockOf(m)' = BlockOf(m)
      /\ Apart' /\ Unsized' /\ Entries(d)' = t
      /\ \A m \in Inode : HoldsEntries(m) /\ m # d => Entries(m)' = Entries(m)
  BY <1>0, <1>1, EntryIsRemoved
<1> HIDE DEF s, t
<1>8. /\ 1 \in 1 .. Len(s) - 1 /\ 2 \in 1 .. Len(s) - 1 /\ 1 < k /\ 2 < k /\ Len(t) >= 2
      /\ Len(s) # 2
  <2>1. k \in 3 .. Len(s)
    BY <1>4
  <2> QED
    BY <1>3, <1>5, <2>1
<1>9. t[1].ino = d /\ t[1].name = Dot /\ t[2].name = DotDot /\ t[2].ino = s[2].ino
  BY <1>3, <1>6, <1>8
<1>10. Dirs' = Dirs
  <2>1. d \in Dirs'
    BY <1>3, <1>7, <1>8, <1>9 DEF Dirs
  <2>2. \A m \in Inode : m # d => (m \in Dirs' <=> m \in Dirs)
    BY <1>7 DEF Dirs
  <2> QED
    BY <1>2, <2>1, <2>2 DEF Dirs
<1>11. \A m \in Dirs : m # d => Entries(m)' = Entries(m)
  BY <1>7, DirsAre
<1>12. \A m \in Dirs : Entries(m)'[2].ino = Entries(m)[2].ino
  BY <1>7, <1>9, <1>11 DEF s
<1> DEFINE Was(m, i) == IF m = d /\ ~(i < k) THEN i + 1 ELSE i
<1>13. \A m \in Dirs : \A i \in 3 .. Len(Entries(m)') :
         /\ Was(m, i) \in 3 .. Len(Entries(m))
         /\ Entries(m)'[i].name = Entries(m)[Was(m, i)].name
         /\ Entries(m)'[i].ino = Entries(m)[Was(m, i)].ino
  <2> SUFFICES ASSUME NEW m \in Dirs, NEW i \in 3 .. Len(Entries(m)')
               PROVE  /\ Was(m, i) \in 3 .. Len(Entries(m))
                      /\ Entries(m)'[i].name = Entries(m)[Was(m, i)].name
                      /\ Entries(m)'[i].ino = Entries(m)[Was(m, i)].ino
    OBVIOUS
  <2>1. CASE m = d
    <3>1. i \in 1 .. Len(s) - 1 /\ i \in Nat /\ i >= 3
      BY <1>3, <1>5, <1>7, <2>1
    <3>2. /\ Was(m, i) \in 1 .. Len(s) /\ t[i].name = s[Was(m, i)].name
          /\ t[i].ino = s[Was(m, i)].ino
      BY <1>6, <2>1, <3>1
    <3>3. Was(m, i) >= 3
      BY <3>1
    <3> HIDE DEF Was
    <3> QED
      BY <1>3, <1>7, <2>1, <3>2, <3>3 DEF s
  <2>2. CASE m # d
    BY <1>11, <2>2
  <2> QED
    BY <2>1, <2>2
<1>14. \A m, i, j : i \in Int /\ j \in Int /\ Was(m, i) = Was(m, j) => i = j
  BY <1>3
<1>15. \A m, i, j : i \in Int /\ j \in Int /\ i < j => Was(m, i) < Was(m, j)
  BY <1>3
<1> HIDE DEF Was
<1>16. Structure'
  <2>1. RootStands'
    BY <1>10, <1>12 DEF Core, Structure, RootStands
  <2>2. Listed'
    <3> SUFFICES ASSUME NEW e \in Dirs', NEW i \in 3 .. Len(Entries(e)')
                 PROVE  /\ Entries(e)'[i].name \in Name
                        /\ \A m : m = Entries(e)'[i].ino /\ inode[m].type = "directory"
                                    => m \in Dirs' /\ Entries(m)'[2].ino = e
      BY <1>2 DEF Listed
    <3> QED
      BY <1>10, <1>12, <1>13 DEF Core, Structure, Listed
  <2>3. Distinct'
    <3> SUFFICES ASSUME NEW e \in Dirs, NEW f \in Dirs, NEW i \in 3 .. Len(Entries(e)'),
                        NEW j \in 3 .. Len(Entries(f)'), Entries(e)'[i].ino = Entries(f)'[j].ino
                 PROVE  e = f /\ i = j
      BY <1>10 DEF Distinct
    <3>1. PICK a \in 3 .. Len(Entries(e)) :
            a = Was(e, i) /\ Entries(e)'[i].ino = Entries(e)[a].ino
      BY <1>13
    <3>2. PICK c \in 3 .. Len(Entries(f)) :
            c = Was(f, j) /\ Entries(f)'[j].ino = Entries(f)[c].ino
      BY <1>13
    <3>3. Entries(e)[a].ino = Entries(f)[c].ino
      BY <3>1, <3>2
    <3>4. e = f /\ a = c
      BY <3>3 DEF Core, Structure, Distinct
    <3> QED
      <4>1. Was(e, i) = Was(e, j)
        BY <3>1, <3>2, <3>4
      <4>2. i \in Int /\ j \in Int
        OBVIOUS
      <4> QED
        BY <1>14, <3>4, <4>1, <4>2
  <2>4. Shadowed'
    <3> SUFFICES ASSUME NEW e \in Dirs, NEW i \in 3 .. Len(Entries(e)'),
                        NEW j \in 3 .. Len(Entries(e)'), i < j,
                        Entries(e)'[i].name = Entries(e)'[j].name,
                        NEW m, m = Entries(e)'[j].ino, inode[m].type = "directory"
                 PROVE  Len(Entries(m)') = 2
      BY <1>2, <1>10 DEF Shadowed
    <3>1. /\ Was(e, i) \in 3 .. Len(Entries(e)) /\ Was(e, j) \in 3 .. Len(Entries(e))
          /\ Was(e, i) < Was(e, j) /\ m = Entries(e)[Was(e, j)].ino
          /\ Entries(e)[Was(e, i)].name = Entries(e)[Was(e, j)].name
      <4>1. \A x \in 3 .. Len(Entries(e)') :
              /\ Was(e, x) \in 3 .. Len(Entries(e))
              /\ Entries(e)'[x].name = Entries(e)[Was(e, x)].name
              /\ Entries(e)'[x].ino = Entries(e)[Was(e, x)].ino
        BY <1>13
      <4>2. Was(e, i) < Was(e, j)
        BY <1>15
      <4> QED
        BY <4>1, <4>2
    <3>2. m \in Dirs /\ Len(Entries(m)) = 2
      <4>1. PICK a, c \in 3 .. Len(Entries(e)) :
              a < c /\ m = Entries(e)[c].ino /\ Entries(e)[a].name = Entries(e)[c].name
        BY <3>1
      <4>2. m \in Dirs
        BY <4>1 DEF Core, Structure, Listed
      <4> QED
        BY <4>1, <4>2 DEF Core, Structure, Shadowed
    <3>3. m # d
      BY <1>8, <3>2 DEF s
    <3> QED
      BY <1>11, <3>2, <3>3
  <2> QED
    BY <1>7, <2>1, <2>2, <2>3, <2>4 DEF Structure
<1>17. BlocksMarked'
  BY <1>2, <1>7 DEF Core, BlocksMarked, At
<1>18. failed' # "delete"
  BY <1>2 DEF Core, Deleting
<1> QED
  BY <1>2, <1>7, <1>16, <1>17, <1>18, IdleCore

(* Damage is never undone.                                                 *)
LEMMA DamageStays == [Next]_vars /\ damaged => damaged'
<1> SUFFICES ASSUME [Next]_vars, damaged PROVE damaged'
  OBVIOUS
<1>1. CASE Step
  BY <1>1 DEF Step, InitializeInode, AllocateBlock, NoFreeBlock, WriteGrownInode,
     InitializeDirectory, CreateDirectoryEntry, NoRoomForEntry, WriteData, DeleteInode,
     DeleteDentry, Return, Fail, observed
<1>2. CASE Crash
  BY <1>2 DEF Crash
<1>3. ASSUME NEW p \in Path, Call(p) PROVE damaged'
  BY <1>3 DEF Call, Write, Delete, DeleteFails, Create, WalksOn
<1>4. CASE UNCHANGED vars
  BY <1>4 DEF vars, observed
<1> QED
  BY <1>1, <1>2, <1>3, <1>4 DEF Next

LEMMA CoreStep ==
    ASSUME WellFormed, WellFormed', Core, [Next]_vars, ~damaged'
    PROVE  Core'
<1>1. CASE Step
  <2>1. CASE InitializeInode
    BY <2>1, CoreInitializeInode
  <2>2. CASE AllocateBlock
    BY <2>2, CoreAllocateBlock
  <2>3. CASE WriteGrownInode
    BY <2>3, CoreWriteGrownInode
  <2>4. CASE InitializeDirectory
    BY <2>4, CoreInitializeDirectory
  <2>5. CASE CreateDirectoryEntry
    BY <2>5, CoreCreateDirectoryEntry
  <2>6. CASE WriteData
    BY <2>6, CoreWriteData
  <2>7. CASE DeleteInode
    BY <2>7, CoreDeleteInode
  <2>8. CASE DeleteDentry
    BY <2>8, CoreDeleteDentry
  <2>9. CASE NoFreeBlock \/ NoRoomForEntry
    BY <2>9, CoreFails
  <2> QED
    BY <1>1, <2>1, <2>2, <2>3, <2>4, <2>5, <2>6, <2>7, <2>8, <2>9 DEF Step
<1>2. CASE Crash
  BY <1>2, CoreCrash
<1>3. ASSUME NEW p \in Path, Call(p) PROVE Core'
  <2>1. CASE Write(p)
    BY <2>1, CoreWrite
  <2>2. CASE Delete(p)
    BY <2>2, CoreDelete
  <2>3. CASE DeleteFails(p)
    BY <2>3, CoreDeleteFails
  <2>4. ASSUME NEW t \in Type, Create(p, t) PROVE Core'
    BY <2>4, CoreCreate
  <2>5. ASSUME NEW op, NEW q, WalksOn(op, q) PROVE Core'
    BY <2>5, CoreWalksOn
  <2> QED
    BY <1>3, <2>1, <2>2, <2>3, <2>4, <2>5 DEF Call
<1>4. CASE UNCHANGED vars
  BY <1>4, CoreStutter
<1> QED
  BY <1>1, <1>2, <1>3, <1>4 DEF Next

LEMMA InvInit == Init => Inv
  BY WellFormedInit, CoreInit DEF Inv

LEMMA InvStep == Inv /\ [Next]_vars => Inv'
<1> SUFFICES ASSUME Inv, [Next]_vars PROVE Inv'
  OBVIOUS
<1>1. WellFormed /\ WellFormed'
  BY WellFormedStep DEF Inv
<1>2. damaged' \/ Core'
  <2> SUFFICES ASSUME ~damaged' PROVE Core'
    OBVIOUS
  <2>1. Core
    BY DamageStays DEF Inv
  <2> QED
    BY <1>1, <2>1, CoreStep
<1> QED
  BY <1>1, <1>2 DEF Inv

LEMMA InvHolds == Spec => []Inv
  BY InvInit, InvStep, PTL DEF Spec

-----------------------------------------------------------------------------
(* What follows for the files and directories that paths lead to.          *)

LEMMA TreeIs ==
    /\ DOMAIN Tree = {p \in Path : Lookup(p) # 0 /\ inode[Lookup(p)].type # "none"}
    /\ \A p \in DOMAIN Tree :
          Tree[p] = [ino |-> Lookup(p), dir |-> inode[Lookup(p)].type = "directory"]
<1> DEFINE found == [p \in Path |-> Lookup(p)]
           T == {q \in Path : found[q] # 0 /\ inode[found[q]].type # "none"}
<1>1. \A q \in Path : found[q] = Lookup(q)
  OBVIOUS
<1>2. T = {p \in Path : Lookup(p) # 0 /\ inode[Lookup(p)].type # "none"}
  BY <1>1
<1>3. Tree = [p \in T |-> [ino |-> found[p], dir |-> inode[found[p]].type = "directory"]]
  BY DEF Tree
<1> QED
  BY <1>1, <1>2, <1>3

LEMMA LiveDirsAre == WellFormed /\ Structure => LiveDirs \subseteq Dirs
<1> SUFFICES ASSUME WellFormed, Structure, NEW n \in LiveDirs PROVE n \in Dirs
  OBVIOUS
<1>1. CASE n = Root
  BY <1>1 DEF Structure, RootStands
<1>2. CASE n # Root
  <2>1. HoldsEntries(n) /\ \E e \in Range(Tree) : n = e.ino
    BY <1>2 DEF LiveDirs
  <2>2. PICK p \in DOMAIN Tree : n = Tree[p].ino
    BY <2>1 DEF Range
  <2>3. p \in Path /\ n = Lookup(p) /\ n # 0
    <3>1. p \in Path /\ Lookup(p) # 0
      BY TreeIs
    <3>2. Tree[p] = [ino |-> Lookup(p), dir |-> inode[Lookup(p)].type = "directory"]
      BY TreeIs
    <3>3. Tree[p].ino = Lookup(p)
      BY <3>2
    <3> QED
      BY <2>2, <3>1, <3>3
  <2>4. p \in Seq(Name) /\ Len(p) \in 0 .. Len(p) /\ n = Reached(p)[Len(p)]
    BY <2>3, PathIs DEF Lookup
  <2> QED
    BY <2>1, <2>3, <2>4, ReachedGood
<1> QED
  BY <1>1, <1>2

(* The entries that paths can lead to.                                     *)
LEMMA LinksAre ==
    WellFormed /\ Structure => \A l \in Links :
        /\ l[1] \in Dirs /\ l[2] \in 3 .. Len(Entries(l[1]))
        /\ l = <<l[1], l[2]>> /\ NumberAt(l) = Entries(l[1])[l[2]].ino
        /\ NumberAt(l) \in Inode /\ NumberAt(l) \in imap /\ NumberAt(l) # Root
        /\ inode[NumberAt(l)].type = "directory" =>
                NumberAt(l) \in Dirs /\ Entries(NumberAt(l))[2].ino = l[1]
<1> SUFFICES ASSUME WellFormed, Structure, NEW l \in Links
             PROVE  /\ l[1] \in Dirs /\ l[2] \in 3 .. Len(Entries(l[1]))
                    /\ l = <<l[1], l[2]>> /\ NumberAt(l) = Entries(l[1])[l[2]].ino
                    /\ NumberAt(l) \in Inode /\ NumberAt(l) \in imap /\ NumberAt(l) # Root
                    /\ inode[NumberAt(l)].type = "directory" =>
                            NumberAt(l) \in Dirs /\ Entries(NumberAt(l))[2].ino = l[1]
  OBVIOUS
<1>0. PICK d \in LiveDirs : \E i \in 3 .. Len(Entries(d)) : l = <<d, i>>
  BY DEF Links
<1>1. PICK i \in 3 .. Len(Entries(d)) : l = <<d, i>>
  BY <1>0
<1>2. d \in Dirs /\ l[1] = d /\ l[2] = i
  BY <1>1, LiveDirsAre
<1>3. i \in 1 .. Len(Entries(d))
  BY <1>2, DirsAre
<1>4. NumberAt(l) = Entries(d)[i].ino
  BY <1>2 DEF NumberAt
<1>5. Entries(d)[i].name \in Name
  BY <1>1, <1>2 DEF Structure, Listed
<1>6. Entries(d)[i].ino \in Inode /\ Entries(d)[i].ino \in imap /\ Entries(d)[i].ino # Root
  BY <1>2, <1>3, <1>5, DirsAre DEF EntryOK
<1>7. inode[Entries(d)[i].ino].type = "directory" =>
        Entries(d)[i].ino \in Dirs /\ Entries(Entries(d)[i].ino)[2].ino = d
  BY <1>2, <1>1 DEF Structure, Listed
<1> QED
  BY <1>1, <1>2, <1>4, <1>6, <1>7

(* Every entry a path can lead to has an inode in use, and a directory     *)
(* among them leads back to where it is listed: CreateDirectoryEntry comes *)
(* last, whatever fails or ends before it.                                 *)
THEOREM LinkedAreInUse == Spec => []LinkedInUse
<1>1. Inv => LinkedInUse
  <2> SUFFICES ASSUME Inv, ~damaged, NEW l \in Links
               PROVE  /\ NumberAt(l) \in imap
                      /\ inode[NumberAt(l)].type = "directory" =>
                            /\ HoldsEntries(NumberAt(l)) /\ Len(Entries(NumberAt(l))) >= 2
                            /\ Entries(NumberAt(l))[2].ino = l[1]
    BY DEF LinkedInUse
  <2>1. WellFormed /\ Structure
    BY DEF Inv, Core
  <2> QED
    BY <2>1, LinksAre, DirsAre
<1> QED
  BY <1>1, InvHolds, PTL

(* The directories form a tree: no inode has two entries, and the root has *)
(* none.                                                                   *)
THEOREM LinksAreDistinct == Spec => []LinksDistinct
<1>1. Inv => LinksDistinct
  <2> SUFFICES ASSUME Inv, ~damaged
               PROVE  /\ Root \notin Linked
                      /\ \A l1, l2 \in Links : NumberAt(l1) = NumberAt(l2) => l1 = l2
    BY DEF LinksDistinct
  <2>1. WellFormed /\ Structure
    BY DEF Inv, Core
  <2>2. Root \notin Linked
    BY <2>1, LinksAre DEF Linked
  <2>3. ASSUME NEW l \in Links, NEW m \in Links, NumberAt(l) = NumberAt(m) PROVE l = m
    <3>1. l[1] = m[1] /\ l[2] = m[2]
      BY <2>1, <2>3, LinksAre DEF Structure, Distinct
    <3>2. l = <<l[1], l[2]>> /\ m = <<m[1], m[2]>>
      BY <2>1, LinksAre
    <3> QED
      BY <3>1, <3>2
  <2> QED
    BY <2>2, <2>3
<1> QED
  BY <1>1, InvHolds, PTL

(* The blocks of listed files are marked and are nobody else's, except     *)
(* between the two halves of the file's own deletion.                      *)
THEOREM BlocksAreOwned == Spec => []BlocksOwned
<1>1. Inv => BlocksOwned
  <2> SUFFICES ASSUME Inv, ~damaged, NEW n \in Linked \cup {Root}
               PROVE  /\ Owned(n) \subseteq bmap \/ (At("erase") /\ call.ino = n)
                      /\ \A m \in Linked \cup {Root} : m # n => Owned(m) \cap Owned(n) = {}
    BY DEF BlocksOwned
  <2>1. WellFormed /\ Structure /\ BlocksMarked
    BY DEF Inv, Core
  <2>2. \A m \in Linked \cup {Root} : m \in Inode /\ inode[m].size \in {0, 1}
    BY <2>1, LinksAre, Typed DEF Linked, WellFormed, RootStands, Structure, Dirs
  <2>3. \A m \in Inode : inode[m].size \in {0, 1} =>
            Owned(m) = {} \/ (inode[m].size = 1 /\ Owned(m) = {BlockOf(m)})
    BY DEF Owned
  <2> QED
    BY <2>1, <2>2, <2>3 DEF BlocksMarked, Structure, Apart
<1> QED
  BY <1>1, InvHolds, PTL

(* ext2_delete_file never fails on a path that it has found.               *)
THEOREM DeletionSucceeds == Spec => []DeleteSucceeds
<1>1. Inv => DeleteSucceeds
  BY DEF Inv, Core, Deleting, DeleteSucceeds
<1> QED
  BY <1>1, InvHolds, PTL

LEMMA RegularAre == \A n \in RegularFiles : n # 0 /\ inode[n].type \notin {"none", "directory"}
                                            /\ \E p \in Path : n = Lookup(p)
<1> SUFFICES ASSUME NEW n \in RegularFiles
             PROVE  n # 0 /\ inode[n].type \notin {"none", "directory"}
                    /\ \E p \in Path : n = Lookup(p)
  OBVIOUS
<1>1. \E e \in Range(Tree) : ~e.dir /\ n = e.ino
  BY DEF RegularFiles
<1>2. PICK p \in DOMAIN Tree : ~Tree[p].dir /\ n = Tree[p].ino
  BY <1>1 DEF Range
<1>3. p \in Path /\ Lookup(p) # 0 /\ inode[Lookup(p)].type # "none"
  BY TreeIs
<1>4. Tree[p] = [ino |-> Lookup(p), dir |-> inode[Lookup(p)].type = "directory"]
  BY TreeIs
<1>5. Tree[p].ino = Lookup(p) /\ Tree[p].dir = (inode[Lookup(p)].type = "directory")
  BY <1>4
<1> QED
  BY <1>2, <1>3, <1>5

LEMMA RegularAreNext ==
    (\A n \in RegularFiles : n # 0 /\ inode[n].type \notin {"none", "directory"}
                             /\ \E p \in Path : n = Lookup(p))'
BY RegularAre, PTL

(* What a path leads to is listed behind the first two entries.            *)
LEMMA FoundIsListed ==
    WellFormed /\ Structure => \A p \in Path : Lookup(p) # 0 =>
        \E b \in Block : \E i \in 1 .. Len(dents[b]) : i # 1 /\ dents[b][i].ino = Lookup(p)
<1> SUFFICES ASSUME WellFormed, Structure, NEW p \in Path, Lookup(p) # 0
             PROVE  \E b \in Block : \E i \in 1 .. Len(dents[b]) :
                        i # 1 /\ dents[b][i].ino = Lookup(p)
  OBVIOUS
<1>1. p \in Seq(Name) /\ Len(p) \in 1 .. Len(p) /\ Lookup(p) = Reached(p)[Len(p)]
  BY PathIs DEF Lookup
<1>2. PICK d \in Dirs : \E k \in 3 .. Len(Entries(d)) : Lookup(p) = Entries(d)[k].ino
  BY <1>1, ReachedBy
<1>3. PICK k \in 3 .. Len(Entries(d)) : Lookup(p) = Entries(d)[k].ino
  BY <1>2
<1>4. BlockOf(d) \in Block /\ Entries(d) = dents[BlockOf(d)] /\ k \in 1 .. Len(Entries(d)) /\ k # 1
  BY DirsAre
<1> QED
  BY <1>3, <1>4

(* While its inode is being made, nothing else leads to it.                *)
LEMMA FreshIsNotFound ==
    WellFormed /\ Structure /\ Creating => \A p \in Path : Lookup(p) # 0 => Lookup(p) # call.ino
BY FoundIsListed DEF WellFormed, CallOK, Fresh

LEMMA DataStep ==
    ASSUME WellFormed, Core, [Next]_vars,
           NEW n \in RegularFiles, n \in RegularFiles', HoldsItsData(n)
    PROVE  HoldsItsData(n)'
<1>1. n \in Inode /\ n # 0 /\ inode[n].type \notin {"none", "directory"}
      /\ inode[n].size = 1 /\ data[BlockOf(n)] = n /\ BlockOf(n) \in Block
  <2>1. n \in Inode
    <3>1. PICK p \in Path : n = Lookup(p)
      BY RegularAre
    <3> QED
      BY <3>1, LookupTyped, RegularAre DEF WellFormed
  <2> QED
    BY <2>1, RegularAre, Typed DEF HoldsItsData, WellFormed, Stored, Sized
<1>2. inode'[n].type # "none"
  BY RegularAreNext
<1>3. Creating => n # call.ino
  BY RegularAre, FreshIsNotFound DEF Core
<1>4. CASE UNCHANGED <<inode, data>>
  BY <1>1, <1>4 DEF HoldsItsData, BlockOf
<1>5. ASSUME data' = data, inode'[n] = inode[n] PROVE HoldsItsData(n)'
  BY <1>1, <1>5 DEF HoldsItsData, BlockOf
<1>6. CASE InitializeInode
  <2>1. call.ino # n
    BY <1>3, <1>6 DEF WellFormed, CallOK, InitializeInode, At, Creating
  <2> QED
    BY <1>1, <1>5, <1>6, <2>1 DEF InitializeInode, WellFormed, TypeOK
<1>7. CASE WriteGrownInode
  <2>1. call.ino # n
    BY <1>1, <1>7 DEF WellFormed, CallOK, WriteGrownInode, At
  <2> QED
    BY <1>1, <1>5, <1>7, <2>1 DEF WriteGrownInode, WellFormed, TypeOK
<1>8. CASE DeleteInode
  <2>1. call.ino \in Inode
    BY <1>8, Typed DEF WellFormed, CallOK, DeleteInode, At, TypeOK
  <2>2. inode'[call.ino].type = "none"
    <3>1. inode \in [Inode -> InodeType]
      BY DEF WellFormed, TypeOK, InodeType
    <3>2. inode[call.ino] \in InodeType /\ inode[call.ino].blocks \in Seq(Block)
      BY <2>1, <3>1 DEF InodeType
    <3> DEFINE new == [inode[call.ino] EXCEPT !.type = "none", !.size = 0]
    <3>3. new.type = "none"
      BY <3>2, InodeIs
    <3>4. inode' = [inode EXCEPT ![call.ino] = new]
      BY <1>8 DEF DeleteInode, Erased
    <3> HIDE DEF new
    <3> QED
      BY <2>1, <3>1, <3>3, <3>4
  <2>3. call.ino # n
    BY <1>2, <2>2
  <2> QED
    BY <1>1, <1>5, <1>8, <2>3 DEF DeleteInode, WellFormed, TypeOK
<1>9. CASE InitializeDirectory
  <2>1. call.ino \in Inode /\ inode[call.ino].size = 1 /\ inode[call.ino].type = "directory"
    BY <1>9, Typed DEF WellFormed, CallOK, InitializeDirectory, At, TypeOK, HoldsEntries
  <2>2. BlockOf(call.ino) # BlockOf(n)
    BY <1>1, <2>1 DEF Core, Structure, Apart
  <2>3. data' = [data EXCEPT ![BlockOf(call.ino)] = 0] /\ inode' = inode
    BY <1>9 DEF InitializeDirectory
  <2>4. data'[BlockOf(n)] = n
    BY <1>1, <2>2, <2>3 DEF WellFormed, TypeOK
  <2> QED
    BY <1>1, <2>3, <2>4 DEF HoldsItsData, BlockOf
<1>10. CASE WriteData
  <2>1. call.ino \in Inode /\ inode[call.ino].size = 1
    BY <1>10, Typed DEF WellFormed, CallOK, WriteData, At, TypeOK
  <2>2. call.ino = n \/ BlockOf(call.ino) # BlockOf(n)
    BY <1>1, <2>1 DEF Core, Structure, Apart
  <2>3. data' = [data EXCEPT ![BlockOf(call.ino)] = call.ino] /\ inode' = inode
    BY <1>10 DEF WriteData
  <2>4. data'[BlockOf(n)] = n
    BY <1>1, <2>2, <2>3 DEF WellFormed, TypeOK
  <2> QED
    BY <1>1, <2>3, <2>4 DEF HoldsItsData, BlockOf
<1>11. CASE Step
  BY <1>4, <1>6, <1>7, <1>8, <1>9, <1>10, <1>11 DEF Step, AllocateBlock, NoFreeBlock,
     CreateDirectoryEntry, NoRoomForEntry, DeleteDentry, disk
<1>12. CASE Crash \/ UNCHANGED vars
  BY <1>4, <1>12 DEF Crash, vars, disk
<1>13. ASSUME NEW p \in Path, Call(p) PROVE HoldsItsData(n)'
  BY <1>4, <1>13 DEF Call, Write, Delete, DeleteFails, Create, WalksOn, disk
<1> QED
  BY <1>11, <1>12, <1>13 DEF Next

(* A file keeps what it was last given to hold for as long as a path leads *)
(* to it: no other call writes to its block, and no growth, deletion or    *)
(* end of the process in between takes the block from it.                  *)
THEOREM DataIsKept == Spec => DataKept
<1>1. Inv /\ [Next]_vars => [~damaged' => \A n \in RegularFiles \cap RegularFiles' :
                                HoldsItsData(n) => HoldsItsData(n)']_vars
  <2> SUFFICES ASSUME Inv, [Next]_vars, ~damaged',
                      NEW n \in RegularFiles \cap RegularFiles', HoldsItsData(n)
               PROVE  HoldsItsData(n)'
    OBVIOUS
  <2>1. WellFormed /\ Core
    BY DamageStays DEF Inv
  <2> QED
    BY <2>1, DataStep
<1> QED
  BY <1>1, InvHolds, PTL DEF Spec, DataKept

-----------------------------------------------------------------------------
(* The refinement of Namespace.  Two walks that meet have come the same    *)
(* way.                                                                    *)
LEMMA OnePath ==
    WellFormed /\ Structure => \A p, q \in Seq(Name) :
        \A i \in 0 .. Len(p), j \in 0 .. Len(q) :
            Reached(p)[i] # 0 /\ Reached(p)[i] = Reached(q)[j] =>
                i = j /\ \A k \in 1 .. i : p[k] = q[k]
<1> SUFFICES ASSUME WellFormed, Structure, NEW p \in Seq(Name), NEW q \in Seq(Name)
             PROVE  \A i \in 0 .. Len(p), j \in 0 .. Len(q) :
                        Reached(p)[i] # 0 /\ Reached(p)[i] = Reached(q)[j] =>
                            i = j /\ \A k \in 1 .. i : p[k] = q[k]
  OBVIOUS
<1> DEFINE at == Reached(p)
           to == Reached(q)
           S == {i \in 0 .. Len(p) : \A j \in 0 .. Len(q) :
                    at[i] # 0 /\ at[i] = to[j] => i = j /\ \A k \in 1 .. i : p[k] = q[k]}
<1>0. Len(p) \in Nat /\ Len(q) \in Nat /\ TypeOK /\ Stored
  BY LenProperties DEF WellFormed
<1>1. 0 \in S
  <2>1. at[0] = Root
    BY ReachedIs
  <2>2. \A j \in 0 .. Len(q) : j # 0 => to[j] # Root
    BY <1>0, ReachedTyped
  <2> QED
    BY <1>0, <2>1, <2>2
<1>2. \A i \in 0 .. Len(p) - 1 : i \in S => i + 1 \in S
  <2> SUFFICES ASSUME NEW i \in 0 .. Len(p) - 1, i \in S,
                      NEW j \in 0 .. Len(q), at[i + 1] # 0, at[i + 1] = to[j]
               PROVE  i + 1 = j /\ \A k \in 1 .. i + 1 : p[k] = q[k]
    BY <1>0
  <2>1. i + 1 \in 1 .. Len(p) /\ i + 1 \in 0 .. Len(p) /\ (i + 1) - 1 = i
    BY <1>0
  <2>2. j # 0
    <3>1. at[i + 1] # Root
      BY <1>0, <2>1, ReachedTyped
    <3> QED
      BY <3>1, ReachedIs
  <2>3. j \in 1 .. Len(q) /\ j - 1 \in 0 .. Len(q)
    BY <1>0, <2>2
  <2>4. PICK k \in 3 .. Len(Entries(at[i])) :
          FirstWith(Entries(at[i]), p[i + 1], k) /\ at[i + 1] = Entries(at[i])[k].ino
    BY <2>1, ReachedBy
  <2>5. PICK l \in 3 .. Len(Entries(to[j - 1])) :
          FirstWith(Entries(to[j - 1]), q[j], l) /\ to[j] = Entries(to[j - 1])[l].ino
    BY <2>3, ReachedBy
  <2>6. at[i] \in Dirs /\ to[j - 1] \in Dirs
    BY <2>1, <2>3, ReachedBy
  <2>7. at[i] = to[j - 1] /\ k = l
    <3>1. PICK d \in Dirs : d = at[i]
      BY <2>6
    <3>2. PICK e \in Dirs : e = to[j - 1]
      BY <2>6
    <3>3. /\ k \in 3 .. Len(Entries(d)) /\ l \in 3 .. Len(Entries(e))
          /\ Entries(d)[k].ino = Entries(e)[l].ino
      BY <2>4, <2>5, <3>1, <3>2
    <3>4. d = e /\ k = l
      BY <3>3 DEF Structure, Distinct
    <3> QED
      BY <3>1, <3>2, <3>4
  <2>8. i = j - 1 /\ \A m \in 1 .. i : p[m] = q[m]
    BY <2>3, <2>6, <2>7, DirsAre
  <2>9. p[i + 1] = q[j]
    BY <2>4, <2>5, <2>7 DEF FirstWith
  <2>10. i + 1 = j
    BY <1>0, <2>3, <2>8
  <2>11. \A m \in 1 .. i + 1 : m \in 1 .. i \/ m = i + 1
    OBVIOUS
  <2> QED
    BY <2>8, <2>9, <2>10, <2>11
<1> HIDE DEF S
<1>3. 0 .. Len(p) \subseteq S
  BY <1>0, <1>1, <1>2, Induction
<1> QED
  BY <1>3 DEF S


-----------------------------------------------------------------------------
(* The tree of Namespace, path by path.                                    *)
Shown(p) == Lookup(p) # 0 /\ inode[Lookup(p)].type # "none"
Node(p) == [ino |-> Lookup(p), dir |-> inode[Lookup(p)].type = "directory"]
TreeIsShown == Tree = [p \in {q \in Path : Shown(q)} |-> Node(p)]

LEMMA TreeForm == TreeIsShown
<1> DEFINE found == [p \in Path |-> Lookup(p)]
           T == {q \in Path : found[q] # 0 /\ inode[found[q]].type # "none"}
<1>1. \A q \in Path : found[q] = Lookup(q)
  OBVIOUS
<1>2. T = {q \in Path : Shown(q)}
  BY <1>1 DEF Shown
<1>3. Tree = [p \in T |-> [ino |-> found[p], dir |-> inode[found[p]].type = "directory"]]
  BY DEF Tree
<1>4. \A p \in T : Node(p) = [ino |-> found[p], dir |-> inode[found[p]].type = "directory"]
  BY <1>1 DEF Node
<1> HIDE DEF found, T
<1> QED
  BY <1>2, <1>3, <1>4 DEF TreeIsShown

LEMMA TreeFormNext == TreeIsShown'
BY TreeForm, PTL

(* A path is shown as before when it leads to the same file.               *)
LEMMA PathSame ==
    ASSUME NEW p, NEW m, Lookup(p) = m, Lookup(p)' = m,
           m # 0 => (/\ inode'[m].type = "none" <=> inode[m].type = "none"
                     /\ inode'[m].type = "directory" <=> inode[m].type = "directory")
    PROVE  Shown(p)' = Shown(p) /\ (Shown(p) => Node(p)' = Node(p))
BY DEF Shown, Node

LEMMA TreeSame ==
    ASSUME LookupsKept,
           \A p \in Path : \A m : m # 0 /\ m = Lookup(p) =>
                 /\ inode'[m].type = "none" <=> inode[m].type = "none"
                 /\ inode'[m].type = "directory" <=> inode[m].type = "directory"
    PROVE  Tree' = Tree
<1>1. ASSUME NEW p \in Path PROVE Shown(p)' = Shown(p) /\ (Shown(p) => Node(p)' = Node(p))
  <2>1. PICK m : m = Lookup(p)
    OBVIOUS
  <2>2. Lookup(p)' = m
    BY <2>1, PathIs DEF LookupsKept
  <2> QED
    BY <2>1, <2>2, PathSame
<1>2. {q \in Path : Shown(q)}' = {q \in Path : Shown(q)}
  BY <1>1
<1> QED
  BY <1>1, <1>2, TreeForm, TreeFormNext DEF TreeIsShown

LEMMA SameTypes ==
    LookupsKept /\ inode' = inode => Tree' = Tree
BY TreeSame

LEMMA InitializeInodeShows ==
    ASSUME WellFormed, Core, InitializeInode
    PROVE  Tree' = Tree
<1>1. Creating /\ call.ino \in Inode
  BY Typed DEF InitializeInode, WellFormed, CallOK, TypeOK, Creating, At
<1>2. \A m \in Inode : m # call.ino => inode'[m] = inode[m]
  BY <1>1 DEF InitializeInode, WellFormed, TypeOK
<1>3. ASSUME NEW p \in Path, NEW m, m # 0, m = Lookup(p) PROVE inode'[m] = inode[m]
  <2>1. m # call.ino /\ m \in Inode
    BY <1>1, <1>3, FreshIsNotFound, LookupTyped DEF Core, WellFormed
  <2> QED
    BY <1>2, <2>1
<1> QED
  BY <1>3, InitializeInodeKeeps, TreeSame

LEMMA WriteGrownInodeShows ==
    ASSUME WellFormed, Core, WriteGrownInode
    PROVE  Tree' = Tree
<1>0. PICK n : n = call.ino
  OBVIOUS
<1>1. n \in Inode /\ call.blk \in Block
  BY <1>0, Typed DEF WriteGrownInode, WellFormed, CallOK, TypeOK, At
<1>2. \A m \in Inode : m # n => inode'[m] = inode[m]
  BY <1>0, <1>1 DEF WriteGrownInode, WellFormed, TypeOK
<1>3. inode'[n].type = inode[n].type
  <2>1. inode \in [Inode -> InodeType]
    BY DEF WellFormed, TypeOK, InodeType
  <2>2. inode[n] \in InodeType
    BY <1>1, <2>1
  <2>3. Append(inode[n].blocks, call.blk) \in Seq(Block)
    BY <1>1, <2>2 DEF InodeType
  <2> DEFINE new == [inode[n] EXCEPT !.size = 1, !.blocks = Append(inode[n].blocks, call.blk)]
  <2>4. new.type = inode[n].type
    BY <2>2, <2>3, InodeIs
  <2>5. inode' = [inode EXCEPT ![n] = new]
    BY <1>0 DEF WriteGrownInode
  <2> HIDE DEF new
  <2> QED
    BY <1>1, <2>1, <2>4, <2>5
<1>4. ASSUME NEW p \in Path, NEW m, m # 0, m = Lookup(p)
      PROVE  inode'[m].type = inode[m].type
  <2>1. m \in Inode
    BY <1>4, LookupTyped DEF WellFormed
  <2> QED
    BY <1>2, <1>3, <2>1
<1> QED
  BY <1>4, WriteGrownInodeKeeps, TreeSame

LEMMA InitializeDirectoryShows ==
    ASSUME WellFormed, Core, InitializeDirectory PROVE Tree' = Tree
BY InitializeDirectoryKeeps, SameTypes DEF InitializeDirectory

LEMMA WriteDataShows ==
    ASSUME WellFormed, Core, WriteData PROVE Tree' = Tree
BY WriteDataKeeps, SameTypes DEF WriteData

LEMMA SameDiskShows ==
    UNCHANGED <<inode, dents, soiled>> => Tree' = Tree
BY SameDiskKeeps, SameTypes

(* What FindIs and FindFirst say, for the states after a step.             *)
FoundIs ==
    \A n \in Inode \cup {0}, x \in Name : Find(n, x) # 0 =>
        /\ HoldsEntries(n) /\ BlockOf(n) \notin soiled
        /\ \E i : FirstWith(Entries(n), x, i) /\ Find(n, x) = Entries(n)[i].ino
FoundFirst ==
    \A n \in Inode \cup {0}, x \in Name : \A i :
        HoldsEntries(n) /\ BlockOf(n) \notin soiled /\ FirstWith(Entries(n), x, i)
            => Find(n, x) = Entries(n)[i].ino /\ Find(n, x) # 0

LEMMA FoundHolds == WellFormed => FoundIs /\ FoundFirst
BY FindIs, FindFirst DEF FoundIs, FoundFirst, WellFormed, Stored

LEMMA FoundHoldsNext == WellFormed' => FoundIs' /\ FoundFirst'
BY FoundHolds, PTL

(* The entry of a creation is found when its name was not, and hides no    *)
(* other.                                                                  *)
LEMMA EntryIsFound ==
    ASSUME WellFormed, WellFormed', Core, CreateDirectoryEntry,
           NEW n, n = call.ino, NEW d, d = call.dir, NEW x, x = Last(call.path)
    PROVE  /\ \A m \in Inode \cup {0}, y \in Name :
                 m # d \/ y # x \/ Find(m, y) # 0 => Find(m, y)' = Find(m, y)
           /\ Find(d, x)' \in {Find(d, x), n}
<1>1. /\ d \in Dirs /\ soiled' = soiled
      /\ Len(Entries(d)') = Len(Entries(d)) + 1
      /\ \A i \in 1 .. Len(Entries(d)) : /\ Entries(d)'[i].name = Entries(d)[i].name
                                         /\ Entries(d)'[i].ino = Entries(d)[i].ino
      /\ Entries(d)'[Len(Entries(d)) + 1].name = x
      /\ Entries(d)'[Len(Entries(d)) + 1].ino = n
      /\ \A m : HoldsEntries(m)' = HoldsEntries(m) /\ BlockOf(m)' = BlockOf(m)
      /\ \A m \in Inode : HoldsEntries(m) /\ m # d => Entries(m)' = Entries(m)
  BY EntryIsWritten
<1>2. d \in Inode /\ Entries(d) \in Seq(EntryType) /\ Len(Entries(d)) \in Nat /\ HoldsEntries(d)
  BY <1>1, DirsAre
<1> DEFINE s == Entries(d)
           t == Entries(d)'
<1>3. ASSUME NEW m \in Inode \cup {0}, NEW y \in Name, m # d
      PROVE  Find(m, y)' = Find(m, y)
  <2>1. CASE m = 0
    BY <2>1, NoneFound
  <2>2. CASE m \in Inode
    BY <1>1, <1>3, <2>2, FindKept
  <2> QED
    BY <2>1, <2>2
<1>4. ASSUME NEW y \in Name, Find(d, y) # 0 PROVE Find(d, y)' = Find(d, y)
  <2>1. BlockOf(d) \notin soiled
    BY <1>2, <1>4, FoundHolds DEF FoundIs
  <2>2. PICK i : FirstWith(s, y, i) /\ Find(d, y) = s[i].ino
    BY <1>2, <1>4, FoundHolds DEF FoundIs
  <2>3. i \in 1 .. Len(s)
    BY <2>2 DEF FirstWith
  <2>4. FirstWith(t, y, i)
    <3>1. i \in 1 .. Len(t) /\ t[i].name = y
      BY <1>1, <1>2, <2>2, <2>3 DEF FirstWith
    <3>2. ASSUME NEW j \in 1 .. Len(t), t[j].name = y PROVE i <= j
      <4>1. CASE j \in 1 .. Len(s)
        BY <1>1, <2>2, <3>2, <4>1 DEF FirstWith
      <4>2. CASE j \notin 1 .. Len(s)
        BY <1>1, <1>2, <2>3, <4>2
      <4> QED
        BY <4>1, <4>2
    <3> QED
      BY <3>1, <3>2 DEF FirstWith
  <2>5. Find(d, y)' = t[i].ino
    BY <1>1, <1>2, <2>1, <2>4, FoundHoldsNext DEF FoundFirst
  <2> QED
    BY <1>1, <2>2, <2>3, <2>5
<1>5. ASSUME NEW y \in Name, Find(d, y) = 0, Find(d, y)' # 0
      PROVE  y = x /\ Find(d, y)' = n
  <2>1. BlockOf(d) \notin soiled
    BY <1>1, <1>2, <1>5, FoundHoldsNext DEF FoundIs
  <2>2. PICK i : FirstWith(t, y, i) /\ Find(d, y)' = t[i].ino
    BY <1>2, <1>5, FoundHoldsNext DEF FoundIs
  <2>3. i \notin 1 .. Len(s)
    <3> SUFFICES ASSUME i \in 1 .. Len(s) PROVE FALSE
      OBVIOUS
    <3>1. s[i].name = y
      BY <1>1, <2>2 DEF FirstWith
    <3>2. PICK j : FirstWith(s, y, j)
      BY <1>2, <3>1, FirstExists
    <3> QED
      BY <1>2, <1>5, <2>1, <3>2, FoundHolds DEF FoundFirst
  <2>4. i = Len(s) + 1
    BY <1>1, <1>2, <2>2, <2>3 DEF FirstWith
  <2> QED
    BY <1>1, <2>2, <2>4 DEF FirstWith
<1>6. x \in Name
  BY EntryIsWritten
<1> QED
  BY <1>3, <1>4, <1>5, <1>6

(* A walk that has come to nothing stays there.                            *)
ReachedDies ==
    \A p \in Seq(Name) : \A i \in 0 .. Len(p) : Reached(p)[i] = 0 => Lookup(p) = 0

LEMMA NothingBelow == ReachedDies
<1> SUFFICES ASSUME NEW p \in Seq(Name), NEW i \in 0 .. Len(p), Reached(p)[i] = 0
             PROVE  Lookup(p) = 0
  BY DEF ReachedDies
<1> DEFINE S == {j \in 0 .. Len(p) - i : Reached(p)[i + j] = 0}
<1>0. Len(p) \in Nat /\ i \in Nat /\ Len(p) - i \in Nat /\ i + (Len(p) - i) = Len(p)
  BY LenProperties
<1>1. 0 \in S
  BY <1>0
<1>2. \A j \in 0 .. (Len(p) - i) - 1 : j \in S => j + 1 \in S
  <2> SUFFICES ASSUME NEW j \in 0 .. (Len(p) - i) - 1, j \in S PROVE j + 1 \in S
    OBVIOUS
  <2>1. PICK k : k = i + j
    OBVIOUS
  <2>2. k + 1 \in 1 .. Len(p) /\ (k + 1) - 1 = k /\ k + 1 = i + (j + 1)
        /\ j + 1 \in 0 .. Len(p) - i
    BY <1>0, <2>1
  <2>3. Reached(p)[k + 1] = Find(0, p[k + 1])
    BY <2>1, <2>2, ReachedIs
  <2>4. Reached(p)[k + 1] = 0
    BY <2>3, NoneFound
  <2> QED
    BY <2>2, <2>4
<1> HIDE DEF S
<1>3. 0 .. Len(p) - i \subseteq S
  BY <1>0, <1>1, <1>2, Induction
<1>4. Len(p) - i \in S
  BY <1>0, <1>3
<1> QED
  BY <1>0, <1>4 DEF S, Lookup

LEMMA NothingBelowNext == ReachedDies'
BY NothingBelow, PTL

(* A step that changes one lookup, of the last name of a path, moves       *)
(* nothing but that path and what is below it.                             *)
Extends(p, q) == Len(p) <= Len(q) /\ \A i \in 1 .. Len(p) : q[i] = p[i]

LEMMA OneNameChanges ==
    ASSUME WellFormed, Structure, NEW p \in Path, NEW d, d = Lookup(Front(p)), d # 0,
           NEW x, x = Last(p),
           \A m \in Inode \cup {0}, y \in Name : m # d \/ y # x => Find(m, y)' = Find(m, y)
    PROVE  /\ \A q \in Seq(Name) : ~Extends(p, q) => Lookup(q)' = Lookup(q)
           /\ \A q \in Seq(Name) : Extends(p, q) =>
                 /\ Reached(q)[Len(p)] = Find(d, x)
                 /\ Reached(q)[Len(p)]' = Find(d, x)'
<1> DEFINE l == Len(p) - 1
           f == Front(p)
<1>1. /\ p \in Seq(Name) /\ Len(p) \in Nat /\ l \in Nat /\ l + 1 = Len(p)
      /\ f \in Seq(Name) /\ Len(f) = l /\ \A i \in 1 .. l : f[i] = p[i]
      /\ x = p[l + 1] /\ x \in Name
  BY PathIs
<1>2. d = Reached(f)[l] /\ l \in 0 .. Len(f)
  BY <1>1 DEF Lookup
<1> HIDE DEF l, f
<1>3. ASSUME NEW q \in Seq(Name), NEW i \in 0 .. Len(q), Reached(q)[i] = d
      PROVE  i = l /\ \A j \in 1 .. l : q[j] = p[j]
  BY <1>1, <1>2, <1>3, OnePath
<1>4. ASSUME NEW q \in Seq(Name), NEW k \in 0 .. Len(q),
             \A i \in 0 .. k - 1 : Reached(q)[i] # d \/ q[i + 1] # x
      PROVE  \A i \in 0 .. k : Reached(q)[i]' = Reached(q)[i]
  <2>1. Len(q) \in Nat
    BY LenProperties
  <2>2. ASSUME NEW i \in 0 .. k - 1, NEW n, n = Reached(q)[i]
        PROVE  Find(n, q[i + 1])' = Find(n, q[i + 1])
    <3>1. i \in 0 .. Len(q) /\ i + 1 \in 1 .. Len(q)
      BY <2>1
    <3>2. n \in Inode \cup {0} /\ q[i + 1] \in Name
      BY <2>2, <3>1, ReachedTyped, ElementOfSeq DEF WellFormed
    <3> QED
      BY <1>4, <2>2, <3>2
  <2> QED
    BY <2>2, WalkKept
<1>5. ASSUME NEW q \in Seq(Name), ~Extends(p, q) PROVE Lookup(q)' = Lookup(q)
  <2>1. Len(q) \in Nat /\ Len(q) \in 0 .. Len(q)
    BY LenProperties
  <2>2. ASSUME NEW i \in 0 .. Len(q) - 1 PROVE Reached(q)[i] # d \/ q[i + 1] # x
    <3> SUFFICES ASSUME Reached(q)[i] = d, q[i + 1] = x PROVE FALSE
      OBVIOUS
    <3>1. i \in 0 .. Len(q)
      BY <2>1
    <3>2. i = l /\ \A j \in 1 .. l : q[j] = p[j]
      BY <1>3, <3>1
    <3>3. l + 1 <= Len(q) /\ q[l + 1] = p[l + 1]
      BY <1>1, <2>1, <3>2
    <3>4. \A j \in 1 .. l + 1 : j \in 1 .. l \/ j = l + 1
      BY <1>1
    <3> QED
      BY <1>1, <1>5, <3>2, <3>3, <3>4 DEF Extends
  <2>3. \A i \in 0 .. Len(q) : Reached(q)[i]' = Reached(q)[i]
    BY <1>4, <2>1, <2>2
  <2> QED
    BY <2>1, <2>3 DEF Lookup
<1>6. ASSUME NEW q \in Seq(Name), Extends(p, q)
      PROVE  Reached(q)[Len(p)] = Find(d, x) /\ Reached(q)[Len(p)]' = Find(d, x)'
  <2>1. /\ Len(q) \in Nat /\ l \in 0 .. Len(q) /\ l + 1 \in 1 .. Len(q) /\ (l + 1) - 1 = l
        /\ q[l + 1] = x /\ \A i \in 1 .. l : q[i] = f[i]
    <3>1. Len(q) \in Nat
      BY LenProperties
    <3> QED
      BY <1>1, <1>6, <3>1 DEF Extends
  <2>2. Reached(q)[l] = d
    <3>1. l <= Len(f) /\ l \in 0 .. l
      BY <1>1
    <3> QED
      BY <1>1, <1>2, <2>1, <3>1, WalksAgree
  <2>3. \A i \in 0 .. l - 1 : Reached(q)[i] # d \/ q[i + 1] # x
    <3> SUFFICES ASSUME NEW i \in 0 .. l - 1, Reached(q)[i] = d PROVE FALSE
      OBVIOUS
    <3>1. i \in 0 .. Len(q) /\ i # l
      BY <1>1, <2>1
    <3> QED
      BY <1>3, <3>1
  <2>4. Reached(q)[l]' = d
    <3>1. l \in 0 .. l
      BY <1>1
    <3> QED
      BY <1>4, <2>1, <2>2, <2>3, <3>1
  <2>5. Reached(q)[l + 1] = Find(d, x)
    BY <2>1, <2>2, ReachedIs
  <2>6. Reached(q)[l + 1]' = Find(d, x)'
    <3>1. Reached(q)[l + 1]' = Find(Reached(q)[(l + 1) - 1], q[l + 1])'
      BY <2>1, ReachedIsNext
    <3> QED
      BY <2>1, <2>4, <3>1
  <2> QED
    BY <1>1, <2>5, <2>6
<1> QED
  BY <1>5, <1>6

(* Such a step makes the path one of a file when it was none before and    *)
(* nothing is below it.                                                    *)
LEMMA LinkStep ==
    ASSUME WellFormed, Structure, NEW p \in Path, NEW d \in Dirs, d = Lookup(Front(p)),
           NEW x, x = Last(p),
           \A m \in Inode \cup {0}, y \in Name : m # d \/ y # x => Find(m, y)' = Find(m, y),
           NEW n, n = Find(d, x)', inode' = inode,
           p = call.path, call.op \in {"create", "delete"},
           ~Shown(p), \A m : m = Find(d, x) => \A y \in Name : Find(m, y) = 0,
           \A y \in Name : Find(n, y)' = 0,
           n # 0 /\ inode[n].type # "none" =>
                n \in Inode \ {Root} /\ \A q \in Path : Lookup(q) # n
    PROVE  Tree' = Tree \/ NS!Link(p)
<1>0. /\ p \in Seq(Name) /\ Len(p) \in 1 .. Len(p) /\ Len(p) \in Nat
      /\ Front(p) \in Path \cup {<<>>}
  BY PathIs
<1>1. d # 0 /\ d \in Inode /\ inode[d].type = "directory"
  BY DirsAre
<1>2. /\ \A q \in Seq(Name) : ~Extends(p, q) => Lookup(q)' = Lookup(q)
      /\ \A q \in Seq(Name) : Extends(p, q) =>
            Reached(q)[Len(p)] = Find(d, x) /\ Reached(q)[Len(p)]' = n
  BY <1>1, OneNameChanges
<1>3. ASSUME NEW q \in Path, ~Extends(p, q)
      PROVE  Shown(q)' = Shown(q) /\ (Shown(q) => Node(q)' = Node(q))
  <2>1. PICK m : m = Lookup(q)
    OBVIOUS
  <2>2. Lookup(q)' = m
    BY <1>2, <1>3, <2>1, PathIs
  <2> QED
    BY <2>1, <2>2, PathSame
<1>4. Extends(p, p)
  BY <1>0 DEF Extends
<1>5. Lookup(p)' = n
  BY <1>0, <1>2, <1>4 DEF Lookup
<1>6. ASSUME NEW q \in Path, Extends(p, q), q # p
      PROVE  ~Shown(q) /\ ~Shown(q)'
  <2>1. q \in Seq(Name) /\ Len(q) \in Nat
    BY PathIs
  <2>2. Len(q) # Len(p)
    <3> SUFFICES ASSUME Len(q) = Len(p) PROVE q = p
      BY <1>6
    <3> QED
      BY <1>0, <1>6, <2>1, SeqEqual DEF Extends
  <2>3. Len(p) + 1 \in 1 .. Len(q) /\ (Len(p) + 1) - 1 = Len(p) /\ Len(p) + 1 \in 0 .. Len(q)
    BY <1>0, <1>6, <2>1, <2>2 DEF Extends
  <2>4. PICK y \in Name : y = q[Len(p) + 1]
    BY <2>1, <2>3, ElementOfSeq
  <2>5. Reached(q)[Len(p) + 1] = 0
    <3>1. Reached(q)[Len(p) + 1] = Find(Reached(q)[(Len(p) + 1) - 1], y)
      BY <2>1, <2>3, <2>4, ReachedIs
    <3> QED
      BY <1>2, <1>6, <2>1, <2>3, <3>1
  <2>6. Reached(q)[Len(p) + 1]' = 0
    <3>1. Reached(q)[Len(p) + 1]' = Find(Reached(q)[(Len(p) + 1) - 1], y)'
      BY <2>1, <2>3, <2>4, ReachedIsNext
    <3> QED
      BY <1>2, <1>6, <2>1, <2>3, <3>1
  <2>7. Lookup(q) = 0
    BY <2>1, <2>3, <2>5, NothingBelow DEF ReachedDies
  <2>8. Lookup(q)' = 0
    BY <2>1, <2>3, <2>6, NothingBelowNext DEF ReachedDies
  <2> QED
    BY <2>7, <2>8 DEF Shown
<1> DEFINE T == {q \in Path : Shown(q)}
           U == {q \in Path : Shown(q)'}
<1>7. Tree = [q \in T |-> Node(q)] /\ Tree' = [q \in U |-> Node(q)']
  BY TreeForm, TreeFormNext DEF TreeIsShown
<1>8. \A q \in T : q \in U /\ Node(q)' = Node(q)
  BY <1>3, <1>6
<1>9. \A q \in U : q \in T \/ q = p
  BY <1>3, <1>6
<1>10. CASE ~Shown(p)'
  <2>1. T = U
    BY <1>8, <1>9, <1>10
  <2> HIDE DEF T, U
  <2> QED
    BY <1>7, <1>8, <2>1
<1>11. CASE Shown(p)'
  <2> DEFINE isDir == inode[n].type = "directory"
  <2>1. n # 0 /\ inode[n].type # "none" /\ Node(p)' = [ino |-> n, dir |-> isDir]
    BY <1>5, <1>11 DEF Shown, Node
  <2>2. U = T \cup {p} /\ p \notin T
    BY <1>8, <1>9, <1>11
  <2>3. DOMAIN Tree = T /\ \A q \in T : Tree[q] = Node(q)
    BY <1>7
  <2>4. Tree' = [q \in DOMAIN Tree \cup {p} |->
                    IF q = p THEN [ino |-> n, dir |-> isDir] ELSE Tree[q]]
    <3> HIDE DEF T, U, isDir
    <3>1. Tree' = [q \in T \cup {p} |-> Node(q)']
      BY <1>7, <2>2
    <3>2. \A q \in T \cup {p} : Node(q)' = IF q = p THEN [ino |-> n, dir |-> isDir] ELSE Tree[q]
      BY <1>8, <2>1, <2>2, <2>3
    <3> QED
      BY <2>3, <3>1, <3>2
  <2>5. n \in Inode \ NS!InUse
    <3>1. \A q \in DOMAIN Tree : Tree[q].ino = Lookup(q) /\ q \in Path
      BY <2>3 DEF Node
    <3>2. n \in Inode \ {Root} /\ \A q \in DOMAIN Tree : Tree[q].ino # n
      BY <2>1, <3>1
    <3> QED
      BY <3>2 DEF NS!InUse
  <2>6. NS!IsDirectory(Front(p))
    <3>1. CASE Front(p) = <<>>
      BY <3>1 DEF NS!IsDirectory
    <3>2. CASE Front(p) # <<>>
      <4>1. Front(p) \in Path /\ Shown(Front(p)) /\ Node(Front(p)).dir
        BY <1>0, <1>1, <3>2 DEF Shown, Node
      <4>2. Front(p) \in DOMAIN Tree /\ Tree[Front(p)].dir
        BY <2>3, <4>1
      <4> QED
        BY <4>2 DEF NS!IsDirectory
    <3> QED
      BY <3>1, <3>2
  <2>7. NS!Front(p) = Front(p)
    BY DEF NS!Front, Front
  <2>8. isDir \in BOOLEAN /\ p \notin DOMAIN Tree
    BY <2>2, <2>3
  <2> HIDE DEF isDir, T, U
  <2> QED
    BY <2>4, <2>5, <2>6, <2>7, <2>8 DEF NS!Link
<1> QED
  BY <1>10, <1>11

(* The entry of a creation is a link, or hidden by an older entry.         *)
LEMMA CreateDirectoryEntryShows ==
    ASSUME WellFormed, WellFormed', Core, CreateDirectoryEntry
    PROVE  Tree' = Tree \/ NS!Link(call.path)
<1>0. PICK n : n = call.ino
  OBVIOUS
<1>1. PICK d : d = call.dir
  OBVIOUS
<1>2. PICK x : x = Last(call.path)
  OBVIOUS
<1>3. PICK p : p = call.path
  OBVIOUS
<1>4. /\ inode' = inode /\ call.pc = "link" /\ call.op = "create"
      /\ n \in Inode /\ n # Root /\ d \in Dirs /\ d # n /\ p \in Path /\ x \in Name
      /\ inode[n].type = "directory" => n \in Dirs
  BY <1>0, <1>1, <1>2, <1>3, EntryIsWritten
<1>5. /\ \A m \in Inode \cup {0}, y \in Name :
            m # d \/ y # x \/ Find(m, y) # 0 => Find(m, y)' = Find(m, y)
      /\ Find(d, x)' \in {Find(d, x), n}
  BY <1>0, <1>1, <1>2, EntryIsFound
<1>6. Creating
  BY <1>4 DEF Creating, At
<1>7. d = Lookup(Front(p)) /\ d \in Inode
  BY <1>1, <1>3, <1>4, <1>6, DirsAre DEF Core, Leading
<1>8. Lookup(p) = Find(d, x)
  BY <1>2, <1>3, <1>4, <1>7, LookupIs
<1>9. CASE Find(d, x)' = Find(d, x)
  <2>1. \A m \in Inode \cup {0} : \A y \in Name : Find(m, y)' = Find(m, y)
    BY <1>5, <1>9
  <2> QED
    BY <1>4, <2>1, FindsKept, SameTypes
<1>10. CASE Find(d, x)' # Find(d, x)
  <2>1. Find(d, x) = 0 /\ Find(d, x)' = n
    BY <1>4, <1>5, <1>7, <1>10
  <2>2. ~Shown(p)
    BY <1>8, <2>1 DEF Shown
  <2>3. \A m : m = Find(d, x) => \A y \in Name : Find(m, y) = 0
    BY <2>1, NoneFound
  <2>4. ASSUME NEW y \in Name PROVE Find(n, y)' = 0
    <3>1. Find(n, y)' = Find(n, y)
      BY <1>4, <1>5
    <3>2. CASE n \in Dirs
      <4>1. inode[n].type = "directory"
        BY <3>2, DirsAre
      <4>2. Len(Entries(n)) = 2
        BY <1>0, <1>4, <4>1 DEF Core, Listing, At
      <4>3. \A i : i \notin 3 .. Len(Entries(n))
        BY <4>2
      <4>4. Find(n, y) = 0
        BY <3>2, <4>3, FindInDir
      <4> QED
        BY <3>1, <4>4
    <3>3. CASE n \notin Dirs
      <4>1. ~HoldsEntries(n)
        BY <1>4, <3>3 DEF HoldsEntries
      <4> QED
        BY <3>1, <4>1 DEF Find
    <3> QED
      BY <3>2, <3>3
  <2>5. \A q \in Path : Lookup(q) # n
    <3>1. n # 0
      BY <1>4, Typed DEF WellFormed
    <3> QED
      BY <1>0, <1>6, <3>1, FreshIsNotFound DEF Core
  <2>6. \A m \in Inode \cup {0}, y \in Name : m # d \/ y # x => Find(m, y)' = Find(m, y)
    BY <1>5
  <2>7. Tree' = Tree \/ NS!Link(p)
    BY <1>2, <1>3, <1>4, <1>7, <2>1, <2>2, <2>3, <2>4, <2>5, <2>6, LinkStep DEF Core
  <2> QED
    BY <1>3, <2>7
<1> QED
  BY <1>9, <1>10

(* The second half of a deletion takes the name away, or leaves it to an   *)
(* older entry.                                                            *)
LEMMA EntryIsLost ==
    ASSUME WellFormed, WellFormed', Core, DeleteDentry,
           NEW d, d = Lookup(Front(call.path)), NEW n, n = Lookup(call.path),
           NEW x, x = Last(call.path)
    PROVE  /\ Find(d, x) = n
           /\ \A m \in Inode \cup {0}, y \in Name :
                 m # d \/ y # x => Find(m, y)' = Find(m, y)
           /\ Find(d, x)' # 0 => \E i, j \in 3 .. Len(Entries(d)) :
                 /\ i < j /\ Entries(d)[i].name = Entries(d)[j].name
                 /\ Entries(d)[j].ino = Find(d, x)'
<1> DEFINE s == Entries(d)
           t == Entries(d)'
<1>1. /\ soiled' = soiled /\ call.pc = "unlink" /\ d \in Dirs /\ n # 0
      /\ Len(t) = Len(s) - 1
      /\ \A m : HoldsEntries(m)' = HoldsEntries(m) /\ BlockOf(m)' = BlockOf(m)
      /\ \A m \in Inode : HoldsEntries(m) /\ m # d => Entries(m)' = Entries(m)
  BY EntryIsRemoved
<1>2. PICK k \in 3 .. Len(s) :
        /\ s[k].ino = n
        /\ \A i \in 1 .. Len(s) - 1 :
              /\ Before(k, i) \in 1 .. Len(s)
              /\ t[i].name = s[Before(k, i)].name /\ t[i].ino = s[Before(k, i)].ino
  BY EntryIsRemoved
<1>3. d \in Inode /\ s \in Seq(EntryType) /\ Len(s) \in Nat /\ HoldsEntries(d)
  BY <1>1, DirsAre
<1>4. call.path \in Path
  BY <1>1 DEF WellFormed, CallOK, At
<1>5. Find(d, x) = n /\ x \in Name
  BY <1>4, LookupIs, PathIs
<1> HIDE DEF s, t
<1>6. FirstWith(s, x, k)
  <2>1. PICK i \in 3 .. Len(s) : FirstWith(s, x, i) /\ n = s[i].ino
    BY <1>1, <1>5, FindInDir DEF s
  <2>2. i = k
    BY <1>1, <1>2, <2>1 DEF s, Core, Structure, Distinct
  <2> QED
    BY <2>1, <2>2
<1>7. BlockOf(d) \notin soiled
  BY <1>1, <1>3, <1>5, FoundHolds DEF FoundIs
<1>8. \A i \in 1 .. Len(s) : i # k => \E j \in 1 .. Len(t) :
        /\ Before(k, j) = i /\ \A l \in 1 .. Len(t) : i <= Before(k, l) => j <= l
  <2> SUFFICES ASSUME NEW i \in 1 .. Len(s), i # k
               PROVE  \E j \in 1 .. Len(t) :
                         /\ Before(k, j) = i /\ \A l \in 1 .. Len(t) : i <= Before(k, l) => j <= l
    OBVIOUS
  <2>1. CASE i < k
    <3>1. i \in 1 .. Len(t)
      BY <1>1, <1>2, <1>3, <2>1
    <3> QED
      BY <1>2, <2>1, <3>1 DEF Before
  <2>2. CASE ~(i < k)
    <3>1. i - 1 \in 1 .. Len(t)
      BY <1>1, <1>2, <1>3, <2>2
    <3>2. Before(k, i - 1) = i
      BY <1>2, <2>2 DEF Before
    <3>3. \A l \in 1 .. Len(t) : i <= Before(k, l) => i - 1 <= l
      BY <1>2, <2>2 DEF Before
    <3> QED
      BY <3>1, <3>2, <3>3
  <2> QED
    BY <2>1, <2>2
<1>9. \A i \in 1 .. Len(t) : Before(k, i) # k /\ Before(k, i) \in 1 .. Len(s)
         /\ t[i].name = s[Before(k, i)].name /\ t[i].ino = s[Before(k, i)].ino
  BY <1>1, <1>2 DEF Before
<1>10. ASSUME NEW m \in Inode \cup {0}, NEW y \in Name, m # d
       PROVE  Find(m, y)' = Find(m, y)
  <2>1. CASE m = 0
    BY <2>1, NoneFound
  <2>2. CASE m \in Inode
    BY <1>1, <1>10, <2>2, FindKept
  <2> QED
    BY <2>1, <2>2
<1>11. ASSUME NEW y \in Name, y # x, Find(d, y) # 0 PROVE Find(d, y)' = Find(d, y)
  <2>1. PICK i : FirstWith(s, y, i) /\ Find(d, y) = s[i].ino
    BY <1>3, <1>11, FoundHolds DEF FoundIs, s
  <2>2. i \in 1 .. Len(s) /\ i # k
    BY <1>6, <1>11, <2>1 DEF FirstWith
  <2>3. PICK j \in 1 .. Len(t) :
          /\ Before(k, j) = i /\ \A l \in 1 .. Len(t) : i <= Before(k, l) => j <= l
    BY <1>8, <2>2
  <2>4. FirstWith(t, y, j)
    <3>1. t[j].name = y
      BY <1>9, <2>1, <2>3 DEF FirstWith
    <3>2. \A l \in 1 .. Len(t) : t[l].name = y => j <= l
      BY <1>9, <2>1, <2>3 DEF FirstWith
    <3> QED
      BY <3>1, <3>2 DEF FirstWith
  <2>5. Find(d, y)' = t[j].ino
    BY <1>1, <1>3, <1>7, <2>4, FoundHoldsNext DEF FoundFirst, t
  <2> QED
    BY <1>9, <2>1, <2>3, <2>5
<1>12. ASSUME NEW y \in Name, Find(d, y)' # 0
       PROVE  \E i \in 1 .. Len(s) : i # k /\ s[i].name = y /\ s[i].ino = Find(d, y)'
  <2>1. PICK i : FirstWith(t, y, i) /\ Find(d, y)' = t[i].ino
    BY <1>3, <1>12, FoundHoldsNext DEF FoundIs, t
  <2> QED
    BY <1>9, <2>1 DEF FirstWith
<1>13. ASSUME NEW y \in Name, Find(d, y) = 0 PROVE Find(d, y)' = 0
  <2> SUFFICES ASSUME Find(d, y)' # 0 PROVE FALSE
    OBVIOUS
  <2>1. PICK i \in 1 .. Len(s) : s[i].name = y
    BY <1>12
  <2>2. PICK j : FirstWith(s, y, j)
    BY <1>3, <2>1, FirstExists
  <2> QED
    BY <1>3, <1>7, <1>13, <2>2, FoundHolds DEF FoundFirst, s
<1>14. ASSUME Find(d, x)' # 0
       PROVE  \E i, j \in 3 .. Len(s) :
                 i < j /\ s[i].name = s[j].name /\ s[j].ino = Find(d, x)'
  <2>1. PICK j \in 1 .. Len(s) : j # k /\ s[j].name = x /\ s[j].ino = Find(d, x)'
    BY <1>5, <1>12, <1>14
  <2>2. k <= j /\ s[k].name = x
    BY <1>6, <2>1 DEF FirstWith
  <2>3. k < j /\ j \in 3 .. Len(s)
    BY <1>2, <1>3, <2>1, <2>2
  <2> QED
    BY <2>1, <2>2, <2>3
<1>15. \A m \in Inode \cup {0}, y \in Name : m # d \/ y # x => Find(m, y)' = Find(m, y)
  BY <1>10, <1>11, <1>13
<1> QED
  BY <1>5, <1>14, <1>15 DEF s

LEMMA DeleteDentryShows ==
    ASSUME WellFormed, WellFormed', Core, DeleteDentry
    PROVE  Tree' = Tree \/ NS!Link(call.path)
<1>0. PICK n : n = Lookup(call.path)
  OBVIOUS
<1>1. PICK d : d = Lookup(Front(call.path))
  OBVIOUS
<1>2. PICK x : x = Last(call.path)
  OBVIOUS
<1>3. PICK p : p = call.path
  OBVIOUS
<1>4. /\ inode' = inode /\ call.pc = "unlink" /\ d \in Dirs /\ n # 0 /\ inode[n].type = "none"
      /\ \A m : HoldsEntries(m)' = HoldsEntries(m)
  BY <1>0, <1>1, EntryIsRemoved
<1>5. /\ Find(d, x) = n
      /\ \A m \in Inode \cup {0}, y \in Name : m # d \/ y # x => Find(m, y)' = Find(m, y)
      /\ Find(d, x)' # 0 => \E i, j \in 3 .. Len(Entries(d)) :
            /\ i < j /\ Entries(d)[i].name = Entries(d)[j].name
            /\ Entries(d)[j].ino = Find(d, x)'
  BY <1>0, <1>1, <1>2, EntryIsLost
<1>6. p \in Path /\ call.op = "delete"
  BY <1>3, <1>4 DEF WellFormed, CallOK, At
<1>7. ~Shown(p)
  BY <1>0, <1>3, <1>4 DEF Shown
<1>8. \A y \in Name : Find(n, y) = 0
  BY <1>4 DEF Find, HoldsEntries
<1>9. PICK r : r = Find(d, x)'
  OBVIOUS
<1>10. ASSUME r # 0
       PROVE  /\ r \in Inode \ {Root} /\ \A q \in Path : Lookup(q) # r
              /\ \A y \in Name : Find(r, y)' = 0
  <2>1. PICK i \in 3 .. Len(Entries(d)), j \in 3 .. Len(Entries(d)) :
          /\ i < j /\ Entries(d)[i].name = Entries(d)[j].name
          /\ Entries(d)[j].ino = r
    BY <1>5, <1>9, <1>10
  <2>2. Len(Entries(d)) \in Nat /\ j \in 1 .. Len(Entries(d)) /\ Len(Entries(d)) # 2
    BY <1>4, DirsAre
  <2>3. r \in Inode /\ r # Root
    <3>1. Entries(d)[j].name \in Name
      BY <1>4 DEF Core, Structure, Listed
    <3> QED
      BY <1>4, <2>1, <2>2, <3>1, DirsAre DEF EntryOK
  <2>4. \A q \in Path : Lookup(q) # r
    BY <1>4, <2>1, FoundIsFirst, PathIs DEF Core
  <2>5. ASSUME NEW y \in Name PROVE Find(r, y)' = 0
    <3>1. CASE inode[r].type = "directory"
      <4>1. r \in Dirs /\ Len(Entries(r)) = 2
        BY <1>4, <2>1, <3>1 DEF Core, Structure, Listed, Shadowed
      <4>2. \A k : k \notin 3 .. Len(Entries(r))
        BY <4>1
      <4>3. Find(r, y) = 0
        BY <4>1, <4>2, FindInDir
      <4>4. r # d
        BY <2>2, <4>1
      <4> QED
        BY <1>5, <2>3, <4>3, <4>4
    <3>2. CASE inode[r].type # "directory"
      <4>1. ~HoldsEntries(r)
        BY <3>2 DEF HoldsEntries
      <4> QED
        BY <1>4, <4>1 DEF Find
    <3> QED
      BY <3>1, <3>2
  <2> QED
    BY <2>3, <2>4, <2>5
<1>11. \A y \in Name : Find(r, y)' = 0
  <2>1. CASE r = 0
    BY <2>1, NoneFound
  <2> QED
    BY <1>10, <2>1
<1>12. Tree' = Tree \/ NS!Link(p)
  <2>1. \A m : m = Find(d, x) => \A y \in Name : Find(m, y) = 0
    BY <1>5, <1>8
  <2>2. d = Lookup(Front(p)) /\ x = Last(p) /\ p = call.path /\ call.op \in {"create", "delete"}
    BY <1>1, <1>2, <1>3, <1>6
  <2>3. \A m \in Inode \cup {0}, y \in Name : m # d \/ y # x => Find(m, y)' = Find(m, y)
    BY <1>5
  <2> QED
    BY <1>4, <1>6, <1>7, <1>9, <1>10, <1>11, <2>1, <2>2, <2>3, LinkStep DEF Core
<1> QED
  BY <1>3, <1>12

LEMMA PrefixExtends ==
    \A p, q \in Path : NS!IsPrefix(p, q) <=> Extends(p, q)
<1> SUFFICES ASSUME NEW p \in Path, NEW q \in Path
             PROVE  NS!IsPrefix(p, q) <=> Extends(p, q)
  OBVIOUS
<1>1. /\ p \in Seq(Name) /\ Len(p) \in Nat /\ q \in Seq(Name) /\ Len(q) \in Nat
  BY PathIs
<1> DEFINE a == SubSeq(p, 1, Len(p))
           b == SubSeq(q, 1, Len(p))
<1>2. NS!IsPrefix(p, q) <=> Len(p) <= Len(q) /\ a = b
  BY DEF NS!IsPrefix
<1>3. ASSUME Len(p) <= Len(q)
      PROVE  /\ a \in Seq(Name) /\ b \in Seq(Name) /\ Len(a) = Len(p) /\ Len(b) = Len(p)
             /\ \A i \in 1 .. Len(p) : a[i] = p[i] /\ b[i] = q[i]
  <2>1. \A i \in 1 .. Len(p) : p[i] \in Name /\ q[i] \in Name
    <3>1. \A i \in 1 .. Len(p) : i \in 1 .. Len(q)
      BY <1>1, <1>3
    <3> QED
      BY <1>1, <3>1, ElementOfSeq
  <2>2. /\ a \in Seq(Name)
        /\ Len(a) = IF 1 <= Len(p) THEN Len(p) - 1 + 1 ELSE 0
        /\ \A i \in 1 .. Len(p) - 1 + 1 : a[i] = p[1 + i - 1]
    BY <1>1, <2>1, SubSeqProperties
  <2>3. /\ b \in Seq(Name)
        /\ Len(b) = IF 1 <= Len(p) THEN Len(p) - 1 + 1 ELSE 0
        /\ \A i \in 1 .. Len(p) - 1 + 1 : b[i] = q[1 + i - 1]
    BY <1>1, <2>1, SubSeqProperties
  <2> HIDE DEF a, b
  <2> QED
    BY <1>1, <2>2, <2>3
<1> HIDE DEF a, b
<1>4. ASSUME Len(p) <= Len(q) PROVE a = b <=> \A i \in 1 .. Len(p) : q[i] = p[i]
  <2>1. ASSUME \A i \in 1 .. Len(p) : q[i] = p[i] PROVE a = b
    <3>1. \A i \in 1 .. Len(a) : a[i] = b[i]
      BY <1>3, <1>4, <2>1
    <3> QED
      BY <1>3, <1>4, <3>1, SeqEqual
  <2> QED
    BY <1>3, <1>4, <2>1
<1> QED
  BY <1>2, <1>4 DEF Extends

(* The first half of a deletion takes away the path and all that is below  *)
(* it, or nothing when an earlier deletion of the file was cut short.      *)
LEMMA DeleteInodeShows ==
    ASSUME WellFormed, Core, DeleteInode
    PROVE  Tree' = Tree \/ NS!Unlink(call.path)
<1>0. PICK n : n = call.ino
  OBVIOUS
<1>1. PICK p : p = call.path
  OBVIOUS
<1>2. /\ call.pc = "erase" /\ n \in Inode /\ n # 0 /\ p \in Path /\ call.op = "delete"
      /\ Lookup(p) = n
  BY <1>0, <1>1, Typed DEF WellFormed, CallOK, At, TypeOK, Core, Deleting, DeleteInode
<1>3. /\ inode'[n].type = "none"
      /\ \A m \in Inode \ {n} : inode'[m] = inode[m]
      /\ dents' = dents /\ soiled' = soiled
  <2>1. inode \in [Inode -> InodeType]
    BY DEF WellFormed, TypeOK, InodeType
  <2>2. inode[n] \in InodeType /\ inode[n].blocks \in Seq(Block)
    BY <1>2, <2>1 DEF InodeType
  <2> DEFINE new == [inode[n] EXCEPT !.type = "none", !.size = 0]
  <2>3. new.type = "none"
    BY <2>2, InodeIs
  <2>4. inode' = [inode EXCEPT ![n] = new] /\ dents' = dents /\ soiled' = soiled
    BY <1>0 DEF DeleteInode, Erased
  <2> HIDE DEF new
  <2> QED
    BY <1>2, <2>1, <2>3, <2>4
<1>4. ASSUME NEW m \in (Inode \cup {0}) \ {n}, NEW y \in Name
      PROVE  Find(m, y)' = Find(m, y)
  <2>1. CASE m = 0
    BY <2>1, NoneFound
  <2>2. CASE m \in Inode
    <3>1. HoldsEntries(m)' = HoldsEntries(m) /\ BlockOf(m)' = BlockOf(m)
      BY <1>3, <2>2 DEF HoldsEntries, BlockOf
    <3> QED
      BY <1>3, <3>1 DEF Find
  <2> QED
    BY <2>1, <2>2
<1>5. \A y \in Name : Find(n, y)' = 0
  BY <1>3 DEF Find, HoldsEntries
<1>6. CASE ~Shown(p)
  <2>1. inode[n].type = "none"
    BY <1>2, <1>6 DEF Shown
  <2>2. \A y \in Name : Find(n, y) = 0
    BY <2>1 DEF Find, HoldsEntries
  <2>3. LookupsKept
    BY <1>4, <1>5, <2>2, FindsKept
  <2>4. ASSUME NEW q \in Path, NEW m, m # 0, m = Lookup(q)
        PROVE  inode'[m].type = inode[m].type
    <3>1. m \in Inode
      BY <2>4, LookupTyped DEF WellFormed
    <3> QED
      BY <1>3, <2>1, <3>1
  <2> QED
    BY <2>3, <2>4, TreeSame
<1>7. CASE Shown(p)
  <2>0. /\ p \in Seq(Name) /\ Len(p) \in Nat /\ Len(p) \in 0 .. Len(p)
        /\ Reached(p)[Len(p)] = n
    BY <1>2, PathIs DEF Lookup
  <2>1. ASSUME NEW q \in Path, ~Extends(p, q)
        PROVE  Shown(q)' = Shown(q) /\ (Shown(q) => Node(q)' = Node(q))
    <3>1. q \in Seq(Name) /\ Len(q) \in Nat /\ Len(q) \in 0 .. Len(q)
      BY PathIs
    <3>2. ASSUME NEW i \in 0 .. Len(q), Reached(q)[i] = n PROVE FALSE
      <4>1. i = Len(p) /\ \A k \in 1 .. Len(p) : q[k] = p[k]
        BY <1>2, <2>0, <3>1, <3>2, OnePath DEF Core
      <4> QED
        BY <2>1, <3>1, <4>1 DEF Extends
    <3>3. \A i \in 0 .. Len(q) - 1 : Reached(q)[i] \notin {n}
      BY <3>1, <3>2
    <3>4. Lookup(q)' = Lookup(q)
      BY <1>4, <3>1, <3>3, LookupsKeptUnless
    <3>5. PICK m : m = Lookup(q)
      OBVIOUS
    <3>6. m # n
      BY <3>1, <3>2, <3>5 DEF Lookup
    <3>7. m # 0 => inode'[m] = inode[m]
      BY <1>3, <3>5, <3>6, LookupTyped DEF WellFormed
    <3> QED
      BY <3>4, <3>5, <3>7, PathSame
  <2>2. ASSUME NEW q \in Path, Extends(p, q) PROVE ~Shown(q)'
    <3>1. q \in Seq(Name) /\ Len(q) \in Nat /\ Len(p) \in 0 .. Len(q)
      BY <2>0, <2>2, PathIs DEF Extends
    <3>2. Reached(q)[Len(p)] = n
      <4>1. Len(p) \in 0 .. Len(p) /\ Len(p) <= Len(q) /\ \A i \in 1 .. Len(p) : p[i] = q[i]
        BY <2>0, <2>2 DEF Extends
      <4> QED
        BY <2>0, <3>1, <4>1, WalksAgree
    <3>3. ASSUME NEW i \in 0 .. Len(p) - 1, NEW m, m = Reached(q)[i]
          PROVE  Find(m, q[i + 1])' = Find(m, q[i + 1])
      <4>1. i \in 0 .. Len(q) /\ i + 1 \in 1 .. Len(q) /\ i # Len(p)
        BY <2>0, <3>1
      <4>2. m # n
        BY <1>2, <3>1, <3>2, <3>3, <4>1, NoReturn DEF Core
      <4>3. m \in Inode \cup {0} /\ q[i + 1] \in Name
        BY <3>1, <3>3, <4>1, ReachedTyped, ElementOfSeq DEF WellFormed
      <4> QED
        BY <1>4, <4>2, <4>3
    <3>4. Reached(q)[Len(p)]' = n
      <4>1. \A i \in 0 .. Len(p) : Reached(q)[i]' = Reached(q)[i]
        BY <3>1, <3>3, WalkKept
      <4> QED
        BY <2>0, <3>2, <4>1
    <3>5. CASE Len(q) = Len(p)
      <4>1. Lookup(q)' = n
        BY <3>4, <3>5 DEF Lookup
      <4> QED
        BY <1>3, <4>1 DEF Shown
    <3>6. CASE Len(q) # Len(p)
      <4>1. Len(p) + 1 \in 1 .. Len(q) /\ (Len(p) + 1) - 1 = Len(p) /\ Len(p) + 1 \in 0 .. Len(q)
        BY <2>0, <3>1, <3>6
      <4>2. PICK y \in Name : y = q[Len(p) + 1]
        BY <3>1, <4>1, ElementOfSeq
      <4>3. Reached(q)[Len(p) + 1]' = Find(Reached(q)[(Len(p) + 1) - 1], y)'
        BY <3>1, <4>1, <4>2, ReachedIsNext
      <4>4. Reached(q)[Len(p) + 1]' = 0
        BY <1>5, <3>4, <4>1, <4>3
      <4>5. Lookup(q)' = 0
        BY <3>1, <4>1, <4>4, NothingBelowNext DEF ReachedDies
      <4> QED
        BY <4>5 DEF Shown
    <3> QED
      BY <3>5, <3>6
  <2> DEFINE T == {q \in Path : Shown(q)}
             U == {q \in Path : Shown(q)'}
  <2>3. Tree = [q \in T |-> Node(q)] /\ Tree' = [q \in U |-> Node(q)']
    BY TreeForm, TreeFormNext DEF TreeIsShown
  <2>4. U = {q \in T : ~NS!IsPrefix(p, q)}
    BY <1>2, <2>1, <2>2, PrefixExtends
  <2>5. \A q \in U : q \in T /\ Node(q)' = Node(q)
    BY <2>1, <2>2
  <2>6. p \in T
    BY <1>2, <1>7
  <2> HIDE DEF T, U
  <2>7. DOMAIN Tree = T /\ \A q \in T : Tree[q] = Node(q)
    BY <2>3
  <2>8. Tree' = [q \in {r \in DOMAIN Tree : ~NS!IsPrefix(p, r)} |-> Tree[q]]
    BY <2>3, <2>4, <2>5, <2>7
  <2>9. NS!Unlink(p)
    BY <1>2, <2>6, <2>7, <2>8 DEF NS!Unlink
  <2> QED
    BY <1>1, <2>9
<1> QED
  BY <1>6, <1>7

(* Every other step leaves the tree as it is.                              *)
LEMMA NamespaceStep ==
    ASSUME WellFormed, WellFormed', Core, [Next]_vars
    PROVE  Tree' = Tree \/ NS!Link(call.path) \/ NS!Unlink(call.path)
<1>1. CASE UNCHANGED <<inode, dents, soiled>>
  BY <1>1, SameDiskShows
<1>2. CASE Step
  <2>1. CASE CreateDirectoryEntry
    BY <2>1, CreateDirectoryEntryShows
  <2>2. CASE DeleteDentry
    BY <2>2, DeleteDentryShows
  <2>3. CASE DeleteInode
    BY <2>3, DeleteInodeShows
  <2>4. CASE InitializeInode \/ WriteGrownInode \/ InitializeDirectory \/ WriteData
    BY <2>4, InitializeInodeShows, WriteGrownInodeShows, InitializeDirectoryShows,
       WriteDataShows
  <2>5. CASE AllocateBlock \/ NoFreeBlock \/ NoRoomForEntry
    BY <1>1, <2>5 DEF AllocateBlock, NoFreeBlock, NoRoomForEntry, disk
  <2> QED
    BY <1>2, <2>1, <2>2, <2>3, <2>4, <2>5 DEF Step
<1>3. CASE Crash \/ UNCHANGED vars
  BY <1>1, <1>3 DEF Crash, vars, disk
<1>4. ASSUME NEW p \in Path, Call(p)
      PROVE  Tree' = Tree \/ NS!Link(call.path) \/ NS!Unlink(call.path)
  BY <1>1, <1>4 DEF Call, Write, Delete, DeleteFails, Create, WalksOn, disk
<1> QED
  BY <1>2, <1>3, <1>4 DEF Next

LEMMA NamespaceInit == Init => NS!Init
<1> SUFFICES ASSUME Init PROVE Tree = <<>> /\ damaged = FALSE
  BY DEF NS!Init
<1>1. WellFormed /\ Structure
  BY WellFormedInit, CoreInit DEF Core
<1>2. ASSUME NEW p \in Path PROVE ~Shown(p)
  <2>1. p \in Seq(Name) /\ Len(p) \in 1 .. Len(p)
    BY PathIs
  <2>2. \A m \in Inode : m # Root => inode[m].type = "none"
    BY DEF Init
  <2>3. p # <<>>
    BY <2>1, EmptySeq
  <2>4. Lookup(p) \in Inode \cup {0} /\ Lookup(p) # Root
    BY <1>1, <2>3, LookupTyped DEF WellFormed
  <2> QED
    BY <2>2, <2>4 DEF Shown
<1> DEFINE T == {q \in Path : Shown(q)}
<1>3. Tree = [q \in T |-> Node(q)]
  BY TreeForm DEF TreeIsShown
<1>4. T = 1 .. 0
  BY <1>2
<1> HIDE DEF T
<1>5. Tree \in [1 .. 0 -> Name]
  BY <1>3, <1>4
<1>6. Tree \in Seq(Name) /\ Len(Tree) = 0
  <2>1. Tree \in Seq(Name)
    BY <1>5, SeqDef
  <2>2. DOMAIN Tree = 1 .. 0 /\ DOMAIN Tree = 1 .. Len(Tree) /\ Len(Tree) \in Nat
    BY <1>5, <2>1, LenProperties
  <2> QED
    BY <2>1, <2>2
<1> QED
  BY <1>6, EmptySeq DEF Init

(* A creation and a deletion each happen at once or not at all for whoever *)
(* looks paths up, wherever the process ends: the steps implement the tree *)
(* of Namespace.                                                           *)
THEOREM NamespaceImplemented == Spec => NamespaceRefined
<1>1. Inv /\ Inv' /\ [Next]_vars => [NS!Next]_<<Tree, damaged>>
  <2> SUFFICES ASSUME Inv, Inv', [Next]_vars, ~(Tree' = Tree /\ damaged' = damaged)
               PROVE  NS!Next
    OBVIOUS
  <2>1. CASE damaged'
    BY <2>1 DEF NS!Next
  <2>2. CASE ~damaged'
    <3>1. WellFormed /\ WellFormed' /\ Core
      BY <2>2, DamageStays DEF Inv
    <3>2. damaged' = damaged
      BY <2>2, <3>1, DamageStays DEF WellFormed, TypeOK
    <3>3. Tree' # Tree
      BY <3>2
    <3>4. NS!Link(call.path) \/ NS!Unlink(call.path)
      BY <3>1, <3>3, NamespaceStep
    <3> QED
      BY <3>2, <3>3, <3>4 DEF NS!Next
  <2> QED
    BY <2>1, <2>2
<1> QED
  BY NamespaceInit, <1>1, InvHolds, PTL DEF Spec, NamespaceRefined, NS!Spec
=============================================================================
