---------------------------- MODULE ByteIOProofs ----------------------------
(***************************************************************************)
(* Theorems of module ByteIO, for every block size, file and range.        *)
(***************************************************************************)
EXTENDS ByteIO, TLAPS

Numbers == INSTANCE Basics

-----------------------------------------------------------------------------
(* Numbers of blocks and numbers of bytes.                                 *)

LEMMA Scale ==
    /\ BlockSize \in Nat \ {0}
    /\ \A a \in Int : a * BlockSize \in Int /\ (a >= 0 => a * BlockSize >= 0)
    /\ \A a, b \in Int :
        /\ (a + b) * BlockSize = a * BlockSize + b * BlockSize
        /\ (a - b) * BlockSize = a * BlockSize - b * BlockSize
        /\ a <= b => a * BlockSize <= b * BlockSize
        /\ a < b => a * BlockSize + BlockSize <= b * BlockSize
        /\ a * BlockSize < b * BlockSize => a < b
        /\ a * BlockSize < b * BlockSize + BlockSize => a <= b
<1>1. BlockSize \in Nat \ {0}
  BY RangeAssumption
<1> QED
  BY <1>1, Numbers!Multiples

LEMMA Division ==
    \A n \in Nat : /\ n \div BlockSize \in Nat /\ n % BlockSize \in 0 .. BlockSize - 1
                   /\ (n \div BlockSize) * BlockSize = n - (n % BlockSize)
  BY RangeAssumption, Numbers!Quotients

(* DIVIDE_ROUNDED_UP: the blocks that hold so many bytes, and no more.     *)
LEMMA RoundedUp ==
    \A n \in Nat : /\ Blocks(n) \in Nat
                   /\ n <= Blocks(n) * BlockSize
                   /\ Blocks(n) * BlockSize < n + BlockSize
  BY RangeAssumption, Numbers!RoundingUp DEF Blocks

LEMMA FileIs ==
    /\ FileSize \in Nat /\ FileBlocks \in Nat
    /\ FileSize <= FileBlocks * BlockSize
    /\ FileBlocks * BlockSize \in Nat
    /\ \A b \in Int : b * BlockSize < FileSize + BlockSize => b <= FileBlocks
    /\ \A b \in Int : b * BlockSize < FileSize => b < FileBlocks
<1>1. /\ FileSize \in Nat /\ FileBlocks \in Nat
      /\ FileSize <= FileBlocks * BlockSize
  BY RoundedUp, RangeAssumption DEF FileBlocks
<1>2. FileBlocks * BlockSize \in Nat
  BY <1>1, Scale
<1>3. ASSUME NEW b \in Int, b * BlockSize < FileSize + BlockSize PROVE b <= FileBlocks
  <2>1. b * BlockSize \in Int /\ BlockSize \in Nat
    BY Scale
  <2>2. b * BlockSize < FileBlocks * BlockSize + BlockSize
    BY <1>1, <1>2, <1>3, <2>1
  <2> QED
    BY <1>1, <2>2, Scale
<1>4. ASSUME NEW b \in Int, b * BlockSize < FileSize PROVE b < FileBlocks
  <2>1. b * BlockSize \in Int
    BY Scale
  <2>2. b * BlockSize < FileBlocks * BlockSize
    BY <1>1, <1>2, <1>4, <2>1
  <2> QED
    BY <1>1, <2>2, Scale
<1> QED
  BY <1>1, <1>2, <1>3, <1>4

(* What a transfer may do: it never goes past the blocks of the file, and  *)
(* moves what it is asked to when the drive agrees and the range starts    *)
(* below the indirect blocks.                                              *)
LEMMA OutcomeIs ==
    ASSUME NEW count \in Nat, NEW skip \in Nat, skip <= FileBlocks,
           NEW out \in Outcomes(count, skip)
    PROVE  /\ out.n \in 0 .. count /\ skip + out.n <= FileBlocks
           /\ out.refused \in BOOLEAN
           /\ out.ret # Failed => out.ret = out.n /\ out.n \in {0, count}
           /\ skip < Direct /\ skip + count <= FileBlocks /\ ~out.refused => out.ret = count
           /\ out.ret # Failed => out.ret = count \/ skip >= Direct
           /\ skip >= Direct => out.ret \in {0, Failed}
<1> DEFINE n == BlocksMoved(count, skip)
           reach == LeastOf(count, FileBlocks - skip)
<1>1. FileBlocks \in Nat /\ Direct \in Nat
  BY FileIs, RangeAssumption
<1>2. /\ n \in {0, count, Failed}
      /\ n = count => skip + count <= FileBlocks \/ count = 0
      /\ skip < Direct /\ skip + count <= FileBlocks => n = count
      /\ n = 0 => count = 0 \/ skip >= Direct
      /\ skip >= Direct => n = 0
      /\ n # count => n \in {0, Failed}
  BY <1>1 DEF BlocksMoved, Failed
<1>3. reach \in 0 .. count /\ skip + reach <= FileBlocks
  BY <1>1 DEF LeastOf
<1>4. Failed \in Int /\ Failed < 0
  BY DEF Failed
<1>5. CASE out = [ret |-> n, n |-> IF n = Failed THEN reach ELSE n, refused |-> FALSE]
  <2>1. /\ out.ret = n /\ out.n = (IF n = Failed THEN reach ELSE n) /\ out.refused = FALSE
    BY <1>5
  <2> HIDE DEF n, reach
  <2>2. CASE n = Failed
    <3>1. out.n = reach /\ out.ret = Failed /\ n # count
      BY <1>4, <2>1, <2>2
    <3> QED
      BY <1>2, <1>3, <2>1, <3>1
  <2>3. CASE n = 0
    <3>1. out.n = 0 /\ out.ret = 0 /\ skip + 0 <= FileBlocks /\ 0 \in 0 .. count
      BY <1>1, <1>4, <2>1, <2>3
    <3>2. out.refused \in BOOLEAN
      BY <2>1
    <3>3. skip < Direct /\ skip + count <= FileBlocks => out.ret = count
      BY <1>2, <2>3, <3>1
    <3>4. out.ret = count \/ skip >= Direct
      BY <1>2, <2>3, <3>1
    <3> QED
      BY <3>1, <3>2, <3>3, <3>4
  <2>4. CASE n = count
    <3>1. skip + count <= FileBlocks
      BY <1>1, <1>2, <2>4
    <3>2. n # Failed
      BY <1>4, <2>4
    <3>3. out.n = count /\ out.ret = count
      BY <2>1, <2>4, <3>2
    <3>4. out.refused \in BOOLEAN
      BY <2>1
    <3>5. skip >= Direct => out.ret \in {0, Failed}
      BY <1>2, <2>4, <3>3
    <3> QED
      BY <3>1, <3>3, <3>4, <3>5
  <2> QED
    BY <1>2, <2>2, <2>3, <2>4
<1>6. CASE \E k \in 0 .. reach - 1 : out = [ret |-> Failed, n |-> k, refused |-> TRUE]
  <2>1. PICK k \in 0 .. reach - 1 : out.ret = Failed /\ out.n = k /\ out.refused = TRUE
    BY <1>6
  <2> HIDE DEF n, reach
  <2>2. k \in 0 .. count /\ skip + k <= FileBlocks
    BY <1>1, <1>3
  <2> QED
    BY <2>1, <2>2
<1> QED
  BY <1>5, <1>6 DEF Outcomes

-----------------------------------------------------------------------------
(* The invariant: where the call is in the range, and what it has moved.   *)

Valid == call.skip + call.count <= FileSize

(* Whole blocks begin where the bytes moved so far end.  A read's pointer  *)
(* has gone as far, and that of a write only past a head.                  *)
Placed ==
    /\ phase = "head" => /\ ~Aligned /\ at = 0 /\ moved = 0
                         /\ block * BlockSize = call.skip - skip_bytes
    /\ phase \in {"head", "body"} => ~astray
    /\ phase = "tail" /\ ~astray => block >= Direct \/ Remaining <= BlockSize
    /\ astray => refused /\ PastDirect
    /\ phase = "body" => moved = IF Aligned THEN 0 ELSE BlockSize - skip_bytes
    /\ phase \in {"body", "tail"} =>
        /\ block * BlockSize = call.skip + moved
        /\ call.op = "read" => at = moved
        /\ call.op = "write" /\ Aligned => at = 0

HasRead(n) == \A i \in 0 .. n - 1 : buffer[i] = call.skip + i
HasWritten(n) ==
    \A i \in FileByte : call.skip <= i /\ i < call.skip + n => data[i] = Source(i - call.skip)

Content ==
    /\ call.op = "read" => \A i \in FileByte : data[i] = i
    /\ phase \in {"body", "tail"} /\ ~astray =>
        /\ call.op = "read" => HasRead(moved)
        /\ call.op = "write" /\ Aligned => HasWritten(moved)

IOInv ==
    /\ TypeOK /\ Valid /\ Placed /\ Content
    /\ ReadsCorrect /\ AlignedWritesCorrect /\ Succeeds

LEMMA Typed ==
    ASSUME TypeOK
    PROVE  /\ call.op \in {"read", "write"} /\ call.count \in Nat /\ call.count > 0
           /\ call.skip \in Nat /\ moved \in Nat /\ at \in Nat /\ block \in Nat
           /\ BlockSize \in Nat /\ BlockSize > 0 /\ block * BlockSize \in Nat
           /\ skip_bytes \in 0 .. BlockSize - 1 /\ block <= FileBlocks
           /\ Remaining \in Int /\ Direct \in Nat /\ FileSize \in Nat
<1>1. /\ call.op \in {"read", "write"} /\ call.count \in 1 .. FileSize
      /\ call.skip \in 0 .. FileSize
  BY DEF TypeOK
<1>2. FileSize \in Nat /\ Direct \in Nat /\ BlockSize \in Nat /\ BlockSize > 0
  BY RangeAssumption
<1>3. call.count \in Nat /\ call.skip \in Nat /\ call.count > 0
  BY <1>1, <1>2
<1>4. moved \in Nat
  BY <1>2, <1>3 DEF TypeOK
<1>5. at \in Nat /\ block \in Nat /\ block * BlockSize < FileSize + BlockSize
  BY DEF TypeOK
<1>6. skip_bytes \in 0 .. BlockSize - 1
  BY <1>3, Division DEF skip_bytes
<1>7. block <= FileBlocks /\ block * BlockSize \in Nat
  BY <1>5, FileIs, Scale
<1>8. Remaining \in Int
  BY <1>3, <1>4 DEF Remaining
<1> QED
  BY <1>1, <1>2, <1>3, <1>4, <1>5, <1>6, <1>7, <1>8

LEMMA BufferIs ==
    ASSUME TypeOK, NEW from \in Nat, NEW n \in Nat, from + n <= FileBlocks * BlockSize,
           NEW length \in Nat, length <= n, call.op = "read", \A i \in FileByte : data[i] = i
    PROVE  /\ ToBuffer(from, n, length) \in [BufferByte -> Int \cup {Untouched, Foreign}]
           /\ \A i \in BufferByte :
                /\ at <= i /\ i < at + n => ToBuffer(from, n, length)[i] = from + i - at
                /\ ~(at <= i /\ i < at + n) => ToBuffer(from, n, length)[i] = buffer[i]
<1>1. at \in Nat /\ FileBlocks * BlockSize \in Nat
  BY Typed, FileIs
<1>2. FileSize + BlockSize - 1 \in Nat
  BY Typed
<1>3. buffer \in [BufferByte -> Int \cup {Untouched, Foreign}]
  BY DEF TypeOK
<1>4. ASSUME NEW i \in BufferByte
      PROVE  /\ at <= i /\ i < at + n => ToBuffer(from, n, length)[i] = from + i - at
             /\ ~(at <= i /\ i < at + n) => ToBuffer(from, n, length)[i] = buffer[i]
             /\ ToBuffer(from, n, length)[i] \in Int \cup {Untouched, Foreign}
  <2>1. i \in Nat
    BY <1>2 DEF BufferByte
  <2>2. ToBuffer(from, n, length)[i] =
            IF at <= i /\ i < at + n THEN data[from + i - at]
            ELSE IF at + n <= i /\ i < at + length THEN Foreign
            ELSE buffer[i]
    BY DEF ToBuffer
  <2>3. CASE at <= i /\ i < at + n
    <3>1. from + i - at \in FileByte /\ from + i - at \in Int
      BY <1>1, <2>1, <2>3 DEF FileByte
    <3> QED
      BY <2>2, <2>3, <3>1
  <2>4. CASE ~(at <= i /\ i < at + n)
    <3>1. ~(at + n <= i /\ i < at + length)
      BY <1>1, <2>1
    <3> QED
      BY <1>3, <2>2, <2>4, <3>1
  <2> QED
    BY <2>3, <2>4
<1>5. ToBuffer(from, n, length) \in [BufferByte -> Int \cup {Untouched, Foreign}]
  <2>1. ToBuffer(from, n, length) = [i \in BufferByte |-> ToBuffer(from, n, length)[i]]
    BY DEF ToBuffer
  <2> QED
    BY <1>4, <2>1
<1> QED
  BY <1>4, <1>5

(* A transfer that goes on where a read has come to.                       *)
LEMMA ReadOn ==
    ASSUME TypeOK, NEW from \in Nat, NEW n \in Nat, from + n <= FileBlocks * BlockSize,
           NEW length \in Nat, length <= n, call.op = "read", \A i \in FileByte : data[i] = i,
           from = call.skip + moved, at = moved, HasRead(moved),
           moved + n <= FileSize + BlockSize
    PROVE  /\ ToBuffer(from, n, length) \in [BufferByte -> Int \cup {Untouched, Foreign}]
           /\ \A i \in 0 .. (moved + n) - 1 : ToBuffer(from, n, length)[i] = call.skip + i
           /\ \A i \in BufferByte : i >= moved + n => ToBuffer(from, n, length)[i] = buffer[i]
<1>1. /\ call.skip \in Nat /\ moved \in Nat /\ FileSize \in Nat /\ BlockSize \in Nat
  BY Typed
<1>2. ASSUME NEW i \in 0 .. (moved + n) - 1
      PROVE  ToBuffer(from, n, length)[i] = call.skip + i
  <2>1. i \in BufferByte /\ i \in Nat
    BY <1>1 DEF BufferByte
  <2>2. CASE moved <= i
    <3>1. at <= i /\ i < at + n /\ from + i - at = call.skip + i
      BY <1>1, <2>1, <2>2
    <3> QED
      BY <2>1, <3>1, BufferIs
  <2>3. CASE i < moved
    <3>1. i \in 0 .. moved - 1 /\ ~(at <= i /\ i < at + n)
      BY <1>1, <2>1, <2>3
    <3>2. ToBuffer(from, n, length)[i] = buffer[i]
      BY <2>1, <3>1, BufferIs
    <3> QED
      BY <3>1, <3>2 DEF HasRead
  <2> QED
    BY <1>1, <2>1, <2>2, <2>3
<1>3. ASSUME NEW i \in BufferByte, i >= moved + n
      PROVE  ToBuffer(from, n, length)[i] = buffer[i]
  <2>1. i \in Nat
    BY <1>1 DEF BufferByte
  <2>2. ~(at <= i /\ i < at + n)
    BY <1>1, <1>3, <2>1
  <2> QED
    BY <2>2, BufferIs
<1> QED
  BY <1>2, <1>3, BufferIs

LEMMA FileTyped ==
    ASSUME TypeOK, NEW to \in Int, NEW from \in Int, NEW n \in Int
    PROVE  /\ ToFile(to, from, n) \in [FileByte -> Int \cup {Beyond, Foreign}]
           /\ \A i \in FileByte :
                /\ to <= i /\ i < to + n => ToFile(to, from, n)[i] = Source(from + i - to)
                /\ ~(to <= i /\ i < to + n) => ToFile(to, from, n)[i] = data[i]
<1>1. data \in [FileByte -> Int \cup {Beyond, Foreign}]
  BY DEF TypeOK
<1>2. \A j \in Int : Source(j) \in Int \cup {Beyond, Foreign}
  BY Typed DEF Source
<1>3. FileByte \subseteq Int
  BY FileIs DEF FileByte
<1> QED
  BY <1>1, <1>2, <1>3 DEF ToFile

(* The same for a write, of a range that starts on a block.                *)
LEMMA WriteOn ==
    ASSUME TypeOK, NEW to \in Nat, NEW n \in Nat, WriteConfined, ~astray, HasWritten(moved),
           to = call.skip + moved, moved + n <= call.count
    PROVE  LET new == ToFile(to, moved, n)
           IN  /\ \A i \in FileByte : InRange(i) \/ new[i] = i
               /\ \A i \in FileByte : call.skip <= i /\ i < call.skip + (moved + n) =>
                        new[i] = Source(i - call.skip)
<1>1. /\ call.skip \in Nat /\ moved \in Nat /\ call.count \in Nat
  BY Typed
<1>2. ASSUME NEW i \in FileByte
      PROVE  /\ InRange(i) \/ ToFile(to, moved, n)[i] = i
             /\ call.skip <= i /\ i < call.skip + (moved + n) =>
                    ToFile(to, moved, n)[i] = Source(i - call.skip)
  <2>1. i \in Int
    BY FileIs DEF FileByte
  <2>2. /\ to <= i /\ i < to + n => ToFile(to, moved, n)[i] = Source(moved + i - to)
        /\ ~(to <= i /\ i < to + n) => ToFile(to, moved, n)[i] = data[i]
    <3>1. to \in Int /\ moved \in Int /\ n \in Int
      BY <1>1
    <3> HIDE DEF TypeOK
    <3> QED
      BY <3>1, FileTyped, SMTT(30)
  <2>3. CASE to <= i /\ i < to + n
    <3>1. moved + i - to = i - call.skip /\ call.skip <= i /\ i < call.skip + call.count
      BY <1>1, <2>1, <2>3
    <3> QED
      BY <2>2, <2>3, <3>1 DEF InRange
  <2>4. CASE ~(to <= i /\ i < to + n)
    <3>1. call.skip <= i /\ i < call.skip + (moved + n) => i < call.skip + moved
      BY <1>1, <2>1, <2>4
    <3> QED
      BY <2>2, <2>4, <3>1 DEF WriteConfined, HasWritten, Lost
  <2> QED
    BY <2>3, <2>4
<1> QED
  BY <1>2

-----------------------------------------------------------------------------
LEMMA Start ==
    ASSUME Init PROVE IOInv
<1> DEFINE s == call.skip
<1>1. /\ call \in [op : {"read", "write"}, count : 1 .. FileSize, skip : 0 .. FileSize]
      /\ s + call.count <= FileSize
      /\ phase = IF skip_bytes # 0 THEN "head" ELSE "body"
      /\ data = [i \in FileByte |-> i]
      /\ buffer = [i \in BufferByte |-> Untouched]
      /\ at = 0 /\ block = s \div BlockSize /\ moved = 0
      /\ result = EXT2_RESULT_ERROR /\ refused = FALSE /\ astray = FALSE
  BY DEF Init
<1>2. /\ s \in Nat /\ call.count \in 1 .. FileSize /\ FileSize \in Nat /\ s <= FileSize
      /\ BlockSize \in Nat /\ BlockSize > 0
  BY <1>1, RangeAssumption
<1>3. /\ block \in Nat /\ skip_bytes \in 0 .. BlockSize - 1
      /\ block * BlockSize = s - skip_bytes
  BY <1>1, <1>2, Division DEF skip_bytes
<1>4. TypeOK
  <2>1. FileByte \subseteq Int
    BY FileIs DEF FileByte
  <2>2. data \in [FileByte -> Int \cup {Beyond, Foreign}]
    BY <1>1, <2>1
  <2>3. buffer \in [BufferByte -> Int \cup {Untouched, Foreign}]
    BY <1>1
  <2>4. block * BlockSize < FileSize + BlockSize
    BY <1>2, <1>3
  <2>5. moved \in 0 .. call.count + BlockSize - 1
    BY <1>1, <1>2
  <2> QED
    BY <1>1, <1>3, <2>2, <2>3, <2>4, <2>5 DEF TypeOK, EXT2_RESULT_ERROR
<1>5. Valid
  BY <1>1 DEF Valid
<1>6. Placed
  <2>1. skip_bytes \in Int
    BY <1>3
  <2>2. Aligned => skip_bytes = 0
    BY DEF Aligned
  <2> QED
    BY <1>1, <1>2, <1>3, <2>1, <2>2 DEF Placed, Aligned
<1>7. Content
  <2>1. \A i \in FileByte : data[i] = i
    BY <1>1
  <2>2. HasRead(moved)
    BY <1>1 DEF HasRead
  <2>3. HasWritten(moved)
    <3>1. \A i \in FileByte : ~(s <= i /\ i < s + 0)
      BY <1>2, FileIs DEF FileByte
    <3> QED
      BY <1>1, <3>1 DEF HasWritten
  <2> QED
    BY <2>1, <2>2, <2>3 DEF Content
<1>8. ReadsCorrect /\ AlignedWritesCorrect /\ Succeeds
  <2>1. phase # "done"
    BY <1>1
  <2> QED
    BY <1>1, <2>1 DEF ReadsCorrect, ReadContent, EveryRead, ReadWithin, AlignedWritesCorrect,
                       WriteContent, WriteConfined, Succeeds, Succeeded
<1> QED
  BY <1>4, <1>5, <1>6, <1>7, <1>8 DEF IOInv

(* A call that ends without success keeps the bytes where they are.        *)
LEMMA Ended ==
    ASSUME IOInv, UNCHANGED <<call, at, block, moved>>, Return(EXT2_RESULT_ERROR),
           refused' \in BOOLEAN,
           refused' \/ ~(call.skip + call.count <= Direct * BlockSize),
           astray' \in BOOLEAN, astray' => refused' /\ PastDirect,
           data' \in [FileByte -> Int \cup {Beyond, Foreign}],
           buffer' \in [BufferByte -> Int \cup {Untouched, Foreign}],
           call.op = "read" => data' = data,
           Aligned => \A i \in BufferByte : i >= call.count => buffer'[i] = Untouched,
           Aligned /\ ~astray' => \A i \in FileByte : InRange(i) \/ data'[i] = i
    PROVE  IOInv'
<1>1. /\ phase' = "done" /\ result' = EXT2_RESULT_ERROR
      /\ call' = call /\ at' = at /\ block' = block /\ moved' = moved
  BY DEF Return
<1>2. TypeOK'
  BY <1>1 DEF IOInv, TypeOK
<1>3. Valid' /\ Placed' /\ (PastDirect' <=> PastDirect)
  BY <1>1 DEF IOInv, Valid, Placed, PastDirect
<1>4. Content'
  BY <1>1 DEF IOInv, Content
<1>5. result' # EXT2_RESULT_OK
  BY <1>1 DEF EXT2_RESULT_OK, EXT2_RESULT_ERROR
<1>6. (Aligned' <=> Aligned) /\ \A i \in FileByte : InRange(i)' <=> InRange(i)
  BY <1>1 DEF Aligned, skip_bytes, InRange
<1>7. ReadsCorrect' /\ AlignedWritesCorrect'
  BY <1>1, <1>3, <1>5, <1>6 DEF ReadsCorrect, ReadContent, EveryRead, ReadWithin,
        AlignedWritesCorrect, WriteContent, WriteConfined, Succeeded, Lost
<1>8. Succeeds'
  BY <1>1 DEF Succeeds
<1> QED
  BY <1>2, <1>3, <1>4, <1>7, <1>8 DEF IOInv

(* Where the drive agrees, whole blocks of a range below the indirect      *)
(* blocks are there to be moved.                                           *)
LEMMA BlockThere ==
    ASSUME IOInv, phase \in {"head", "body", "tail"}, Remaining > 0
    PROVE  /\ block < FileBlocks
           /\ call.skip + call.count <= Direct * BlockSize => block < Direct
<1>1. TypeOK
  BY DEF IOInv
<1>2. call.skip + call.count <= FileSize
  BY DEF IOInv, Valid
<1>3. block * BlockSize < call.skip + call.count
  <2>1. CASE phase = "head"
    <3>1. block * BlockSize = call.skip - skip_bytes
      BY <2>1 DEF IOInv, Placed
    <3> QED
      BY <1>1, <3>1, Typed
  <2>2. CASE phase \in {"body", "tail"}
    <3>1. block * BlockSize = call.skip + moved
      BY <2>2 DEF IOInv, Placed
    <3>2. call.count - moved > 0
      BY DEF Remaining
    <3> QED
      BY <1>1, <3>1, <3>2, Typed
  <2> QED
    BY <2>1, <2>2
<1>4. block * BlockSize < FileSize
  BY <1>1, <1>2, <1>3, Typed
<1>5. block < FileBlocks
  BY <1>1, <1>4, Typed, FileIs
<1>6. ASSUME call.skip + call.count <= Direct * BlockSize PROVE block < Direct
  <2>1. Direct \in Int /\ block \in Int /\ Direct * BlockSize \in Int
    BY <1>1, Typed, Scale
  <2>2. block * BlockSize < Direct * BlockSize
    BY <1>1, <1>3, <1>6, <2>1, Typed
  <2> QED
    BY <2>1, <2>2, Scale
<1> QED
  BY <1>5, <1>6

(* A call that ends with success has moved the whole range, and may have   *)
(* moved the end of it just now.                                           *)
LEMMA Finished ==
    ASSUME IOInv, UNCHANGED <<call, at, block>>, phase' = "done", result' = EXT2_RESULT_OK,
           refused' \in BOOLEAN, moved' \in 0 .. call.count + BlockSize - 1,
           astray' = astray, astray => refused',
           data' \in [FileByte -> Int \cup {Beyond, Foreign}],
           buffer' \in [BufferByte -> Int \cup {Untouched, Foreign}],
           call.op = "read" =>
                /\ data' = data
                /\ ~astray => \A i \in 0 .. call.count - 1 : buffer'[i] = call.skip + i,
           Aligned => \A i \in BufferByte : i >= call.count => buffer'[i] = Untouched,
           Aligned /\ ~astray => \A i \in FileByte : InRange(i) \/ data'[i] = i,
           call.op = "write" /\ Aligned /\ ~astray =>
                \A i \in FileByte : InRange(i) => data'[i] = Source(i - call.skip)
    PROVE  IOInv'
<1>1. call' = call /\ at' = at /\ block' = block
  OBVIOUS
<1>2. TypeOK'
  <2>2. astray' \in BOOLEAN
    BY DEF IOInv, TypeOK
  <2>1. result' \in {EXT2_RESULT_ERROR, EXT2_RESULT_OK}
    OBVIOUS
  <2> QED
    BY <1>1, <2>1, <2>2 DEF IOInv, TypeOK
<1>3. Valid' /\ Placed' /\ (PastDirect' <=> PastDirect) /\ (astray => PastDirect)
  BY <1>1 DEF IOInv, Valid, Placed, PastDirect
<1>4. Content'
  BY <1>1 DEF IOInv, Content
<1>5. (Aligned' <=> Aligned) /\ \A i \in FileByte : InRange(i)' <=> InRange(i)
  BY <1>1 DEF Aligned, skip_bytes, InRange
<1>6. ReadsCorrect'
  BY <1>1, <1>3, <1>5 DEF ReadsCorrect, ReadContent, EveryRead, ReadWithin, Succeeded, Lost
<1>7. AlignedWritesCorrect'
  BY <1>1, <1>3, <1>5
     DEF AlignedWritesCorrect, WriteContent, WriteConfined, Succeeded, Source, Lost
<1>8. Succeeds'
  BY <1>1 DEF Succeeds
<1> QED
  BY <1>2, <1>3, <1>4, <1>6, <1>7, <1>8 DEF IOInv

LEMMA HeadKeeps ==
    ASSUME IOInv, Head PROVE IOInv'
<1> DEFINE rest == BlockSize - skip_bytes
<1>1. TypeOK /\ Valid /\ phase = "head"
  BY DEF IOInv, Head
<1>2. ~Aligned /\ ~astray /\ at = 0 /\ moved = 0 /\ block * BlockSize = call.skip - skip_bytes
  BY <1>1 DEF IOInv, Placed
<1>3. call.skip + call.count <= FileSize
  BY <1>1 DEF Valid
<1>4. Remaining > 0
  BY <1>1, <1>2, Typed DEF Remaining
<1>5. HeadAt = call.skip /\ rest \in 1 .. BlockSize - 1 /\ HeadAt \in Nat
  BY <1>1, <1>2, Typed DEF HeadAt, Aligned
<1>6. PICK out \in Outcomes(1, block) :
        /\ refused' = out.refused
        /\ IF out.ret # 1
           THEN Return(EXT2_RESULT_ERROR) /\ UNCHANGED <<data, buffer, at, block, moved>>
           ELSE /\ buffer' = IF call.op = "read" THEN ToBuffer(HeadAt, rest, 0) ELSE buffer
                /\ data' = IF call.op = "write" THEN ToFile(HeadAt, at, HeadBytes) ELSE data
                /\ at' = at + BlockSize - skip_bytes
                /\ block' = block + 1
                /\ moved' = moved + BlockSize - skip_bytes
                /\ phase' = "body"
                /\ UNCHANGED result
  BY DEF Head
<1>7. call' = call /\ astray' = astray
  BY DEF Head
<1>8. /\ out.n \in 0 .. 1 /\ block + out.n <= FileBlocks /\ out.refused \in BOOLEAN
      /\ out.ret # Failed => out.ret = out.n
      /\ block < Direct /\ block + 1 <= FileBlocks /\ ~out.refused => out.ret = 1
  BY <1>1, Typed, OutcomeIs
<1>9. block + 1 <= FileBlocks
  BY <1>1, <1>4, BlockThere, Typed, FileIs
<1>10. CASE out.ret # 1
  <2>1. refused' \/ ~(call.skip + call.count <= Direct * BlockSize)
    BY <1>1, <1>4, <1>6, <1>8, <1>9, <1>10, BlockThere
  <2>2. Return(EXT2_RESULT_ERROR) /\ UNCHANGED <<data, buffer, at, block, moved>>
    BY <1>6, <1>10
  <2>3. /\ data \in [FileByte -> Int \cup {Beyond, Foreign}]
        /\ buffer \in [BufferByte -> Int \cup {Untouched, Foreign}]
    BY <1>1 DEF TypeOK
  <2>4. astray' \in BOOLEAN /\ ~astray'
    BY <1>1, <1>2, <1>7 DEF TypeOK
  <2> QED
    BY <1>2, <1>6, <1>7, <1>8, <2>1, <2>2, <2>3, <2>4, Ended
<1>11. CASE out.ret = 1
  <2>1. /\ phase' = "body" /\ at' = rest /\ moved' = rest /\ block' = block + 1
        /\ result' = result /\ refused' = out.refused
    BY <1>1, <1>2, <1>5, <1>6, <1>11, Typed
  <2>2. block' * BlockSize = call.skip + rest /\ block' \in Nat
    <3>1. block \in Int /\ 1 \in Int
      BY <1>1, Typed
    <3>2. (block + 1) * BlockSize = block * BlockSize + 1 * BlockSize
      BY <3>1, Scale
    <3> QED
      BY <1>1, <1>2, <2>1, <3>1, <3>2, Typed
  <2>3. call.op = "read" =>
            /\ buffer' \in [BufferByte -> Int \cup {Untouched, Foreign}]
            /\ \A i \in 0 .. rest - 1 : buffer'[i] = call.skip + i
    <3> SUFFICES ASSUME call.op = "read"
                 PROVE  /\ buffer' \in [BufferByte -> Int \cup {Untouched, Foreign}]
                        /\ \A i \in 0 .. rest - 1 : buffer'[i] = call.skip + i
      OBVIOUS
    <3>1. \A i \in FileByte : data[i] = i
      BY DEF IOInv, Content
    <3>2. HasRead(moved)
      BY <1>2 DEF HasRead
    <3>3. HeadAt + rest <= FileBlocks * BlockSize
      <4>1. block + 1 \in Int /\ FileBlocks \in Int
        BY <1>1, Typed, FileIs
      <4>2. (block + 1) * BlockSize <= FileBlocks * BlockSize
        BY <1>9, <4>1, Scale
      <4> QED
        BY <1>5, <2>1, <2>2, <4>2
    <3>4. moved + rest <= FileSize + BlockSize
      BY <1>1, <1>2, <1>5, Typed
    <3>5. buffer' = ToBuffer(HeadAt, rest, 0)
      BY <1>6, <1>11
    <3>6. HeadAt = call.skip + moved /\ at = moved /\ rest \in Nat /\ moved + rest = rest
      BY <1>1, <1>2, <1>5, Typed
    <3> HIDE DEF rest
    <3>7. /\ ToBuffer(HeadAt, rest, 0) \in [BufferByte -> Int \cup {Untouched, Foreign}]
          /\ \A i \in 0 .. (moved + rest) - 1 : ToBuffer(HeadAt, rest, 0)[i] = call.skip + i
      BY <1>1, <1>5, <3>1, <3>2, <3>3, <3>4, <3>6, ReadOn
    <3> QED
      BY <3>5, <3>6, <3>7
  <2>4. call.op # "read" => buffer' = buffer
    BY <1>6, <1>11
  <2>5. call.op # "write" => data' = data
    BY <1>6, <1>11
  <2>6. data' \in [FileByte -> Int \cup {Beyond, Foreign}]
    <3>1. HeadBytes \in Int /\ HeadAt \in Int /\ at \in Int
      BY <1>1, <1>5, Typed DEF HeadBytes, LeastOf
    <3>2. ToFile(HeadAt, at, HeadBytes) \in [FileByte -> Int \cup {Beyond, Foreign}]
      BY <1>1, <3>1, FileTyped
    <3>3. data \in [FileByte -> Int \cup {Beyond, Foreign}]
      BY <1>1 DEF TypeOK
    <3> QED
      BY <1>6, <1>11, <3>2, <3>3
  <2>7. TypeOK'
    <3>1. buffer' \in [BufferByte -> Int \cup {Untouched, Foreign}]
      BY <1>1, <2>3, <2>4 DEF TypeOK
    <3>2. moved' \in 0 .. call.count + BlockSize - 1 /\ at' \in Nat
      BY <1>1, <1>5, <2>1, Typed
    <3>3. block' * BlockSize < FileSize + BlockSize
      BY <1>1, <1>3, <1>5, <2>2, Typed
    <3> QED
      BY <1>1, <1>7, <1>8, <2>1, <2>2, <2>6, <3>1, <3>2, <3>3 DEF TypeOK
  <2>8. Valid'
    BY <1>1, <1>7 DEF Valid
  <2>9. Aligned' = Aligned /\ skip_bytes' = skip_bytes
    BY <1>7 DEF Aligned, skip_bytes
  <2>10. Placed'
    BY <1>2, <1>7, <2>1, <2>2, <2>9 DEF Placed
  <2>11. Content'
    <3>1. call.op = "read" => \A i \in FileByte : data'[i] = i
      BY <2>5 DEF IOInv, Content
    <3> QED
      BY <1>2, <1>7, <2>1, <2>3, <2>9, <3>1 DEF Content, HasRead
  <2>12. ReadsCorrect' /\ AlignedWritesCorrect' /\ Succeeds'
    BY <1>2, <2>1, <2>9
       DEF ReadsCorrect, ReadContent, EveryRead, AlignedWritesCorrect, Succeeds, Succeeded
  <2> QED
    BY <2>7, <2>8, <2>10, <2>11, <2>12 DEF IOInv
<1> QED
  BY <1>10, <1>11

(* The body is all of the range but at most a block's worth.               *)
LEMMA BodyIs ==
    ASSUME TypeOK
    PROVE  /\ BodyBlocks \in Nat /\ BodyBlocks * BlockSize \in Nat
           /\ BodyBlocks * BlockSize < call.count
           /\ call.count <= BodyBlocks * BlockSize + BlockSize
<1>1. /\ Blocks(call.count) \in Nat /\ call.count <= Blocks(call.count) * BlockSize
      /\ Blocks(call.count) * BlockSize < call.count + BlockSize
  BY Typed, RoundedUp
<1>2. Blocks(call.count) # 0
  <2>1. 0 * BlockSize = 0
    BY Scale
  <2> QED
    BY <1>1, <2>1, Typed
<1>3. (Blocks(call.count) - 1) * BlockSize = Blocks(call.count) * BlockSize - 1 * BlockSize
  BY <1>1, Scale
<1>4. 1 * BlockSize = BlockSize /\ Blocks(call.count) * BlockSize \in Int
  BY <1>1, Scale
<1>5. Blocks(call.count) - 1 \in Nat
  BY <1>1, <1>2
<1>6. (Blocks(call.count) - 1) * BlockSize \in Nat
  BY <1>5, Scale
<1> QED
  BY <1>1, <1>3, <1>4, <1>5, <1>6, Typed DEF BodyBlocks

LEMMA MovesKeep ==
    ASSUME IOInv, phase = "body", Remaining > 0, UNCHANGED call, BodyMoves PROVE IOInv'
<1>1. TypeOK /\ Valid /\ phase = "body" /\ Remaining > 0
  BY DEF IOInv
<1>2. /\ moved = IF Aligned THEN 0 ELSE BlockSize - skip_bytes
      /\ block * BlockSize = call.skip + moved
      /\ call.op = "read" => at = moved
      /\ call.op = "write" /\ Aligned => at = 0
  BY <1>1 DEF IOInv, Placed
<1>3. /\ call.op = "read" => (\A i \in FileByte : data[i] = i) /\ HasRead(moved)
      /\ call.op = "write" /\ Aligned => HasWritten(moved)
  BY <1>1 DEF IOInv, Content, Placed
<1>4. call.skip + call.count <= FileSize /\ call' = call
  BY <1>1 DEF Valid
<1>5. ~Lost
  BY <1>1 DEF IOInv, Placed, Lost
<1>6. ~astray /\ astray' = astray
  BY <1>1 DEF IOInv, Placed, BodyMoves
<1> DEFINE n == BodyBlocks
<1>7. PICK out \in Outcomes(n, block) :
      /\ refused' = out.refused
      /\ buffer' = IF call.op = "read"
                   THEN ToBuffer(block * BlockSize, out.n * BlockSize, 0) ELSE buffer
      /\ data' = IF call.op = "write"
                 THEN ToFile(block * BlockSize, at, out.n * BlockSize) ELSE data
      /\ IF out.ret = Failed
         THEN Return(EXT2_RESULT_ERROR) /\ UNCHANGED <<at, block, moved>>
         ELSE /\ at' = IF call.op = "read" THEN at + out.ret * BlockSize ELSE at
              /\ block' = block + out.ret
              /\ moved' = moved + out.ret * BlockSize
              /\ phase' = "tail"
              /\ UNCHANGED result
  BY DEF BodyMoves, Account
<1>8. n \in Nat /\ n * BlockSize < call.count /\ call.count <= n * BlockSize + BlockSize
  BY <1>1, BodyIs
<1> HIDE DEF n
<1>9. /\ out.n \in 0 .. n /\ block + out.n <= FileBlocks /\ out.refused \in BOOLEAN
      /\ out.ret # Failed => out.ret = out.n
      /\ block < Direct /\ block + n <= FileBlocks /\ ~out.refused => out.ret = n
      /\ out.ret # Failed => out.ret = n \/ block >= Direct
  BY <1>1, <1>8, Typed, OutcomeIs
<1> DEFINE more == out.n * BlockSize
<1>10. /\ more \in Nat /\ more < call.count
      /\ block * BlockSize + more = (block + out.n) * BlockSize
      /\ block * BlockSize + more <= FileBlocks * BlockSize
  <2>1. out.n \in Int /\ n \in Int /\ block \in Int /\ FileBlocks \in Int /\ out.n >= 0
    BY <1>1, <1>8, <1>9, Typed, FileIs
  <2>2. more \in Int /\ more >= 0 /\ more <= n * BlockSize
    BY <1>9, <2>1, Scale
  <2>3. (block + out.n) * BlockSize = block * BlockSize + more
    BY <2>1, Scale
  <2>4. (block + out.n) * BlockSize <= FileBlocks * BlockSize
    BY <1>9, <2>1, Scale
  <2>5. n * BlockSize \in Int
    BY <2>1, Scale
  <2> QED
    BY <1>1, <1>8, <2>2, <2>3, <2>4, <2>5, Typed
<1> HIDE DEF more
<1>11. moved <= BlockSize - 1 /\ moved + more <= call.count + BlockSize - 1
  BY <1>1, <1>2, <1>10, Typed DEF Aligned
<1>12. Aligned => moved = 0 /\ moved + more <= call.count
  BY <1>1, <1>2, <1>10, Typed
<1>13. call.op = "read" =>
          /\ buffer' \in [BufferByte -> Int \cup {Untouched, Foreign}]
          /\ \A i \in 0 .. (moved + more) - 1 : buffer'[i] = call.skip + i
          /\ \A i \in BufferByte : i >= moved + more => buffer'[i] = buffer[i]
  <2>1. block * BlockSize \in Nat /\ moved + more <= FileSize + BlockSize
    BY <1>1, <1>4, <1>10, <1>11, Typed
  <2>2. call.op = "read" => buffer' = ToBuffer(block * BlockSize, more, 0)
    BY <1>7 DEF more
  <2> QED
    BY <1>1, <1>2, <1>3, <1>10, <2>1, <2>2, ReadOn
<1>14. call.op # "read" => buffer' = buffer
  BY <1>7
<1>15. call.op # "write" => data' = data
  BY <1>7
<1>16. call.op = "write" => data' = ToFile(block * BlockSize, at, more)
  BY <1>7 DEF more
<1>17. data' \in [FileByte -> Int \cup {Beyond, Foreign}]
  <2>1. block * BlockSize \in Int /\ at \in Int /\ more \in Int
    BY <1>1, <1>10, Typed
  <2>2. ToFile(block * BlockSize, at, more) \in [FileByte -> Int \cup {Beyond, Foreign}]
    BY <1>1, <2>1, FileTyped
  <2>3. data \in [FileByte -> Int \cup {Beyond, Foreign}]
    BY <1>1 DEF TypeOK
  <2> QED
    BY <1>15, <1>16, <2>2, <2>3
<1>18. call.op = "write" /\ Aligned =>
          /\ \A i \in FileByte : InRange(i) \/ data'[i] = i
          /\ \A i \in FileByte : call.skip <= i /\ i < call.skip + (moved + more) =>
                  data'[i] = Source(i - call.skip)
  <2>1. Aligned => WriteConfined
    BY DEF IOInv, AlignedWritesCorrect
  <2>2. call.op = "write" /\ Aligned => at = moved
    BY <1>2, <1>12
  <2>3. block * BlockSize \in Nat
    BY <1>1, Typed
  <2> QED
    BY <1>1, <1>2, <1>3, <1>6, <1>10, <1>12, <1>16, <2>1, <2>2, <2>3, WriteOn
<1>19. Aligned => \A i \in FileByte : InRange(i) \/ data'[i] = i
  <2>1. Aligned => WriteConfined
    BY DEF IOInv, AlignedWritesCorrect
  <2>2. call.op \in {"read", "write"}
    BY <1>1, Typed
  <2> QED
    BY <1>5, <1>15, <1>18, <2>1, <2>2 DEF WriteConfined
<1>20. Aligned => \A i \in BufferByte : i >= call.count => buffer'[i] = Untouched
  <2>1. Aligned => ReadWithin
    BY DEF IOInv, ReadsCorrect
  <2>2. ASSUME Aligned, NEW i \in BufferByte, i >= call.count PROVE buffer'[i] = Untouched
    <3>1. i >= moved + more
      <4>1. i \in Int
        BY <1>1, Typed DEF BufferByte
      <4> QED
        BY <1>1, <1>10, <1>12, <2>2, <4>1, Typed
    <3>2. buffer'[i] = buffer[i]
      BY <1>13, <1>14, <3>1
    <3> QED
      BY <2>1, <2>2, <3>2 DEF ReadWithin
  <2> QED
    BY <2>2
<1>21. buffer' \in [BufferByte -> Int \cup {Untouched, Foreign}]
  BY <1>1, <1>13, <1>14 DEF TypeOK
<1>22. CASE out.ret = Failed
  <2>1. Return(EXT2_RESULT_ERROR) /\ UNCHANGED <<at, block, moved>> /\ refused' \in BOOLEAN
    BY <1>7, <1>9, <1>22
  <2>2. refused' \/ ~(call.skip + call.count <= Direct * BlockSize)
    <3> SUFFICES ASSUME call.skip + call.count <= Direct * BlockSize, ~out.refused
                 PROVE  FALSE
      BY <1>7
    <3>1. block < Direct
      BY <1>1, BlockThere, Typed
    <3>2. block + n <= FileBlocks
      <4>1. block + n \in Int /\ block \in Int /\ n \in Int
        BY <1>1, <1>8, Typed
      <4>2. (block + n) * BlockSize = block * BlockSize + n * BlockSize
        BY <4>1, Scale
      <4>3. n * BlockSize \in Int
        BY <4>1, Scale
      <4>4. (block + n) * BlockSize < FileSize + BlockSize
        BY <1>1, <1>2, <1>4, <1>8, <1>11, <4>2, <4>3, Typed
      <4> QED
        BY <4>1, <4>4, FileIs
    <3>3. out.ret = n
      BY <1>9, <3>1, <3>2
    <3> QED
      BY <1>8, <1>22, <3>3 DEF Failed
  <2>3. call.op = "read" => data' = data
    BY <1>15
  <2> QED
    <3>1. astray' \in BOOLEAN /\ (astray' => refused' /\ PastDirect)
      BY <1>1, <1>6 DEF TypeOK
    <3> QED
      BY <1>4, <1>17, <1>19, <1>20, <1>21, <2>1, <2>2, <2>3, <3>1, Ended
<1>23. CASE out.ret # Failed
  <2>1. /\ phase' = "tail" /\ block' = block + out.n /\ moved' = moved + more
        /\ at' = (IF call.op = "read" THEN at + more ELSE at)
        /\ result' = result /\ refused' = out.refused
    BY <1>7, <1>9, <1>23 DEF more
  <2>2. block' \in Nat /\ block' * BlockSize = call.skip + moved'
    BY <1>1, <1>2, <1>9, <1>10, <2>1, Typed
  <2>3. Aligned' = Aligned /\ skip_bytes' = skip_bytes
    BY <1>4 DEF Aligned, skip_bytes
  <2>4. TypeOK'
    <3>1. moved' \in 0 .. call.count + BlockSize - 1 /\ at' \in Nat
      BY <1>1, <1>10, <1>11, <2>1, Typed
    <3>2. block' * BlockSize < FileSize + BlockSize
      BY <1>1, <1>4, <1>10, <1>11, <2>1, <2>2, Typed
    <3> QED
      BY <1>1, <1>4, <1>6, <1>9, <1>17, <1>21, <2>1, <2>2, <3>1, <3>2 DEF TypeOK
  <2>5. Valid'
    BY <1>1, <1>4 DEF Valid
  <2>6. Placed'
    <3>1. block' >= Direct \/ Remaining' <= BlockSize
      <4>1. CASE block >= Direct
        BY <1>1, <1>9, <2>1, <4>1, Typed
      <4>2. CASE out.n = n
        <5>1. n * BlockSize = more /\ moved' >= more
          BY <1>1, <1>10, <2>1, <4>2, Typed DEF more
        <5>2. Remaining' = call.count - moved' /\ moved' \in Int
          BY <1>1, <1>4, <1>10, <2>1, Typed DEF Remaining
        <5> QED
          BY <1>1, <1>8, <1>10, <5>1, <5>2, Typed
      <4> QED
        BY <1>9, <1>23, <4>1, <4>2
    <3> QED
      BY <1>2, <1>4, <1>6, <2>1, <2>2, <2>3, <3>1 DEF Placed
  <2>7. Content'
    <3>1. call.op = "read" => \A i \in FileByte : data'[i] = i
      BY <1>3, <1>15
    <3> QED
      BY <1>4, <1>13, <1>18, <2>1, <2>3, <3>1 DEF Content, HasRead, HasWritten, Source
  <2>8. ReadsCorrect' /\ AlignedWritesCorrect' /\ Succeeds'
    <3>1. phase' # "done" /\ \A i \in FileByte : InRange(i)' <=> InRange(i)
      BY <1>4, <2>1 DEF InRange
    <3> QED
      BY <1>4, <1>19, <1>20, <2>3, <3>1
         DEF ReadsCorrect, ReadContent, EveryRead, ReadWithin, AlignedWritesCorrect, WriteContent,
             WriteConfined, Succeeds, Succeeded
  <2> QED
    BY <2>4, <2>5, <2>6, <2>7, <2>8 DEF IOInv
<1> QED
  BY <1>22, <1>23

(* What a transfer may put in the buffer, foreign bytes included.          *)
LEMMA BufferTyped ==
    ASSUME TypeOK, NEW from \in Nat, NEW n \in Nat, from + n <= FileBlocks * BlockSize,
           NEW length \in Nat, n <= length,
           call.op = "read", \A i \in FileByte : data[i] = i
    PROVE  /\ ToBuffer(from, n, length) \in [BufferByte -> Int \cup {Untouched, Foreign}]
           /\ \A i \in BufferByte :
                i >= at + length => ToBuffer(from, n, length)[i] = buffer[i]
<1>1. at \in Nat /\ FileBlocks * BlockSize \in Nat
  BY Typed, FileIs
<1>2. BufferByte \subseteq Int
  BY Typed DEF BufferByte
<1>3. buffer \in [BufferByte -> Int \cup {Untouched, Foreign}]
  BY DEF TypeOK
<1>4. ASSUME NEW i \in BufferByte
      PROVE  /\ i >= at + length => ToBuffer(from, n, length)[i] = buffer[i]
             /\ ToBuffer(from, n, length)[i] \in Int \cup {Untouched, Foreign}
  <2>1. i \in Int
    BY <1>2
  <2>2. ToBuffer(from, n, length)[i] =
            IF at <= i /\ i < at + n THEN data[from + i - at]
            ELSE IF at + n <= i /\ i < at + length THEN Foreign
            ELSE buffer[i]
    BY DEF ToBuffer
  <2>3. CASE at <= i /\ i < at + n
    <3>1. from + i - at \in FileByte /\ from + i - at \in Int
      BY <1>1, <2>1, <2>3 DEF FileByte
    <3>2. ~(i >= at + length)
      BY <1>1, <2>1, <2>3
    <3> QED
      BY <2>2, <2>3, <3>1, <3>2
  <2>4. CASE ~(at <= i /\ i < at + n) /\ at + n <= i /\ i < at + length
    <3>1. ~(i >= at + length)
      BY <1>1, <2>1, <2>4
    <3> QED
      BY <2>2, <2>4, <3>1
  <2>5. CASE ~(at <= i /\ i < at + n) /\ ~(at + n <= i /\ i < at + length)
    BY <1>3, <2>2, <2>5
  <2> QED
    BY <2>3, <2>4, <2>5
<1>5. ToBuffer(from, n, length) = [i \in BufferByte |-> ToBuffer(from, n, length)[i]]
  BY DEF ToBuffer
<1> QED
  BY <1>4, <1>5

(* A transfer misled by unassigned memory is one of a range past the       *)
(* direct blocks.                                                          *)
LEMMA MisledPastDirect ==
    ASSUME IOInv, phase = "body",
           NEW i \in block .. block + BodyBlocks - 1, PointerAt(i)
    PROVE  PastDirect
<1>1. TypeOK
  BY DEF IOInv
<1>2. /\ moved = IF Aligned THEN 0 ELSE BlockSize - skip_bytes
      /\ block * BlockSize = call.skip + moved
  BY DEF IOInv, Placed
<1>3. moved <= BlockSize - 1
  BY <1>1, <1>2, Typed DEF Aligned
<1>4. block + BodyBlocks > Direct /\ block \in Int /\ BodyBlocks \in Int
  BY <1>1, Typed, BodyIs DEF PointerAt
<1>5. (block + BodyBlocks) * BlockSize = block * BlockSize + BodyBlocks * BlockSize
  BY <1>4, Scale
<1> SUFFICES ASSUME ~PastDirect PROVE FALSE
  OBVIOUS
<1>6. Direct * BlockSize \in Int /\ call.skip + call.count <= Direct * BlockSize
  BY <1>1, Typed, Scale DEF PastDirect
<1>7. (block + BodyBlocks) * BlockSize < Direct * BlockSize + BlockSize
  BY <1>1, <1>2, <1>3, <1>5, <1>6, Typed, BodyIs
<1>8. block + BodyBlocks \in Int /\ Direct \in Int
  BY <1>1, <1>4, Typed
<1>9. block + BodyBlocks <= Direct
  BY <1>7, <1>8, Scale
<1> QED
  BY <1>4, <1>8, <1>9

LEMMA AstrayKeeps ==
    ASSUME IOInv, phase = "body", Remaining > 0, UNCHANGED call, BodyAstray PROVE IOInv'
<1>1. TypeOK /\ Valid
  BY DEF IOInv
<1>2. /\ moved = IF Aligned THEN 0 ELSE BlockSize - skip_bytes
      /\ block * BlockSize = call.skip + moved
      /\ call.op = "read" => at = moved
      /\ call.op = "write" /\ Aligned => at = 0
  BY DEF IOInv, Placed
<1>3. call.op = "read" => \A x \in FileByte : data[x] = x
  BY DEF IOInv, Content
<1>4. call.skip + call.count <= FileSize /\ call' = call
  BY <1>1 DEF Valid
<1>5. PICK i \in block .. block + BodyBlocks - 1 :
        block < Direct /\ i < FileBlocks /\ PointerAt(i) /\ Misled(i)
  BY DEF BodyAstray
<1>6. PastDirect
  BY <1>5, MisledPastDirect
<1>7. /\ refused' = TRUE /\ astray' = TRUE
      /\ \E ret \in {Failed, 0, BodyBlocks}, n \in i - block .. BodyBlocks,
            hit \in SUBSET (0 .. FileBlocks - 1) :
            /\ buffer' = IF call.op = "read"
                         THEN ToBuffer(block * BlockSize, (i - block) * BlockSize, n * BlockSize)
                         ELSE buffer
            /\ data' = IF call.op = "write"
                   THEN [x \in FileByte |->
                            IF x \div BlockSize \in hit THEN Foreign
                            ELSE ToFile(block * BlockSize, at, (i - block) * BlockSize)[x]]
                   ELSE data
            /\ Account(ret)
  BY <1>5 DEF Misled
<1>8. PICK ret \in {Failed, 0, BodyBlocks}, n \in i - block .. BodyBlocks,
           hit \in SUBSET (0 .. FileBlocks - 1) :
            /\ buffer' = IF call.op = "read"
                         THEN ToBuffer(block * BlockSize, (i - block) * BlockSize, n * BlockSize)
                         ELSE buffer
            /\ data' = IF call.op = "write"
                   THEN [x \in FileByte |->
                            IF x \div BlockSize \in hit THEN Foreign
                            ELSE ToFile(block * BlockSize, at, (i - block) * BlockSize)[x]]
                   ELSE data
            /\ Account(ret)
  BY <1>7
<1> DEFINE right == (i - block) * BlockSize
           more == n * BlockSize
<1>9. /\ right \in Nat /\ more \in Nat /\ right <= more /\ more < call.count
      /\ block * BlockSize + right <= FileBlocks * BlockSize
  <2>1. /\ i \in Int /\ block \in Int /\ n \in Int /\ i - block \in Int /\ BodyBlocks \in Int
        /\ FileBlocks \in Int /\ i - block >= 0 /\ n >= i - block /\ n <= BodyBlocks
        /\ i <= FileBlocks
    BY <1>1, <1>5, Typed, BodyIs, FileIs
  <2>2. /\ right \in Int /\ right >= 0 /\ more \in Int /\ right <= more
        /\ more <= BodyBlocks * BlockSize
    BY <2>1, Scale
  <2>3. right = i * BlockSize - block * BlockSize
    BY <2>1, Scale
  <2>4. i * BlockSize <= FileBlocks * BlockSize /\ i * BlockSize \in Int
    BY <2>1, Scale
  <2>5. FileBlocks * BlockSize \in Int
    BY <2>1, Scale
  <2> HIDE DEF right, more
  <2> QED
    BY <1>1, <2>2, <2>3, <2>4, <2>5, BodyIs, Typed
<1>10. /\ call.op = "read" => buffer' = ToBuffer(block * BlockSize, right, more)
       /\ call.op # "read" => buffer' = buffer
       /\ call.op # "write" => data' = data
       /\ call.op = "write" =>
            data' = [x \in FileByte |-> IF x \div BlockSize \in hit THEN Foreign
                                        ELSE ToFile(block * BlockSize, at, right)[x]]
  BY <1>8
<1> HIDE DEF right, more
<1>11. call.op = "read" =>
            /\ buffer' \in [BufferByte -> Int \cup {Untouched, Foreign}]
            /\ \A x \in BufferByte : x >= at + more => buffer'[x] = buffer[x]
  <2>1. block * BlockSize \in Nat
    BY <1>1, Typed
  <2> QED
    BY <1>1, <1>3, <1>9, <1>10, <2>1, BufferTyped
<1>12. buffer' \in [BufferByte -> Int \cup {Untouched, Foreign}]
  BY <1>1, <1>10, <1>11 DEF TypeOK
<1>13. data' \in [FileByte -> Int \cup {Beyond, Foreign}]
  <2>1. block * BlockSize \in Int /\ at \in Int /\ right \in Int
    BY <1>1, <1>9, Typed
  <2>2. ToFile(block * BlockSize, at, right) \in [FileByte -> Int \cup {Beyond, Foreign}]
    BY <1>1, <2>1, FileTyped
  <2>3. data \in [FileByte -> Int \cup {Beyond, Foreign}]
    BY <1>1 DEF TypeOK
  <2> QED
    BY <1>10, <2>2, <2>3
<1>14. Aligned => \A x \in BufferByte : x >= call.count => buffer'[x] = Untouched
  <2>1. Aligned => ReadWithin
    BY DEF IOInv, ReadsCorrect
  <2>2. ASSUME Aligned, NEW x \in BufferByte, x >= call.count PROVE buffer'[x] = Untouched
    <3>1. x \in Int
      BY <1>1, Typed DEF BufferByte
    <3>2. call.op = "read" => x >= at + more
      BY <1>1, <1>2, <1>9, <2>2, <3>1, Typed
    <3>3. buffer'[x] = buffer[x]
      BY <1>10, <1>11, <3>2
    <3> QED
      BY <2>1, <2>2, <3>3 DEF ReadWithin
  <2> QED
    BY <2>2
<1>15. call.op = "read" => data' = data
  BY <1>10
<1>16. CASE ret = Failed
  <2>1. Return(EXT2_RESULT_ERROR) /\ UNCHANGED <<at, block, moved>>
    BY <1>8, <1>16 DEF Account
  <2>2. refused' \in BOOLEAN /\ astray' \in BOOLEAN /\ (astray' => refused' /\ PastDirect)
    BY <1>6, <1>7
  <2> QED
    BY <1>4, <1>7, <1>12, <1>13, <1>14, <1>15, <2>1, <2>2, Ended
<1>17. CASE ret # Failed
  <2> DEFINE new == ret * BlockSize
  <2>1. ret \in Nat /\ ret <= BodyBlocks /\ BodyBlocks \in Int
    BY <1>1, <1>8, <1>17, BodyIs
  <2>2. new \in Nat /\ new < call.count /\ (block + ret) * BlockSize = block * BlockSize + new
    <3>1. new \in Int /\ new >= 0 /\ new <= BodyBlocks * BlockSize
      BY <2>1, Scale
    <3>2. (block + ret) * BlockSize = block * BlockSize + new
      BY <1>1, <2>1, Typed, Scale
    <3> HIDE DEF new
    <3> QED
      BY <1>1, <3>1, <3>2, BodyIs, Typed
  <2>3. /\ phase' = "tail" /\ block' = block + ret /\ moved' = moved + new
        /\ at' = (IF call.op = "read" THEN at + new ELSE at) /\ result' = result
    BY <1>8, <1>17 DEF Account
  <2> HIDE DEF new
  <2>4. block' \in Nat /\ block' * BlockSize = call.skip + moved'
    BY <1>1, <1>2, <2>1, <2>2, <2>3, Typed
  <2>5. Aligned' = Aligned /\ skip_bytes' = skip_bytes /\ (PastDirect' <=> PastDirect)
    BY <1>4 DEF Aligned, skip_bytes, PastDirect
  <2>6. moved <= BlockSize - 1
    BY <1>1, <1>2, Typed DEF Aligned
  <2>7. TypeOK'
    <3>1. moved' \in 0 .. call.count + BlockSize - 1 /\ at' \in Nat
      BY <1>1, <2>2, <2>3, <2>6, Typed
    <3>2. block' * BlockSize < FileSize + BlockSize
      BY <1>1, <1>4, <2>2, <2>3, <2>4, <2>6, Typed
    <3> QED
      BY <1>1, <1>4, <1>7, <1>12, <1>13, <2>3, <2>4, <3>1, <3>2 DEF TypeOK
  <2>8. Valid'
    BY <1>1, <1>4 DEF Valid
  <2>9. Placed'
    BY <1>2, <1>4, <1>6, <1>7, <2>3, <2>4, <2>5 DEF Placed
  <2>10. Content'
    BY <1>3, <1>4, <1>7, <1>15 DEF Content
  <2>11. ReadsCorrect' /\ AlignedWritesCorrect' /\ Succeeds'
    BY <1>4, <1>6, <1>7, <1>14, <2>3, <2>5
       DEF ReadsCorrect, ReadContent, EveryRead, ReadWithin, AlignedWritesCorrect,
           WriteContent, WriteConfined, Succeeds, Succeeded, Lost
  <2> QED
    BY <2>7, <2>8, <2>9, <2>10, <2>11 DEF IOInv
<1> QED
  BY <1>16, <1>17

LEMMA BodyKeeps ==
    ASSUME IOInv, Body PROVE IOInv'
<1>1. TypeOK /\ Valid /\ phase = "body"
  BY DEF IOInv, Body
<1>2. /\ moved = IF Aligned THEN 0 ELSE BlockSize - skip_bytes
      /\ block * BlockSize = call.skip + moved
      /\ call.op = "read" => at = moved
      /\ call.op = "write" /\ Aligned => at = 0
  BY <1>1 DEF IOInv, Placed
<1>3. /\ call.op = "read" => (\A i \in FileByte : data[i] = i) /\ HasRead(moved)
      /\ call.op = "write" /\ Aligned => HasWritten(moved)
  BY <1>1 DEF IOInv, Content, Placed
<1>4. call.skip + call.count <= FileSize /\ call' = call
  BY <1>1 DEF Valid, Body
<1>5. CASE Remaining <= 0
  <2>1. /\ phase' = "done" /\ result' = EXT2_RESULT_OK
        /\ UNCHANGED <<call, data, buffer, at, block, moved, refused, astray>>
    BY <1>5, <1>1 DEF Body, Return, Unmoved
  <2>2. moved >= call.count
    BY <1>1, <1>5, Typed DEF Remaining
  <2>3. ~Aligned
    BY <1>1, <1>2, <2>2, Typed
  <2>4. call.op = "read" => \A i \in 0 .. call.count - 1 : buffer'[i] = call.skip + i
    <3>1. 0 .. call.count - 1 \subseteq 0 .. moved - 1
      BY <1>1, <2>2, Typed
    <3> QED
      BY <1>3, <2>1, <3>1 DEF HasRead
  <2>5. /\ data' \in [FileByte -> Int \cup {Beyond, Foreign}]
        /\ buffer' \in [BufferByte -> Int \cup {Untouched, Foreign}]
        /\ moved' \in 0 .. call.count + BlockSize - 1 /\ refused' \in BOOLEAN
    BY <1>1, <2>1 DEF TypeOK
  <2>6. ~astray
    BY <1>1 DEF IOInv, Placed
  <2> QED
    BY <2>1, <2>3, <2>4, <2>5, <2>6, Finished
<1>6. CASE ~(Remaining <= 0)
  <2>1. Remaining > 0 /\ (BodyMoves \/ BodyAstray)
    BY <1>1, <1>6, Typed DEF Body
  <2> QED
    BY <1>1, <1>4, <2>1, MovesKeep, AstrayKeeps
<1> QED
  BY <1>5, <1>6

LEMMA TailKeeps ==
    ASSUME IOInv, Tail PROVE IOInv'
<1>1. TypeOK /\ Valid /\ phase = "tail"
  BY DEF IOInv, Tail
<1>2. /\ block * BlockSize = call.skip + moved
      /\ call.op = "read" => at = moved
      /\ call.op = "write" /\ Aligned => at = 0
  BY <1>1 DEF IOInv, Placed
<1>3. /\ call.op = "read" => \A i \in FileByte : data[i] = i
      /\ ~astray /\ call.op = "read" => HasRead(moved)
      /\ ~astray /\ call.op = "write" /\ Aligned => HasWritten(moved)
      /\ Aligned => ReadWithin /\ WriteConfined
      /\ ~astray => ~Lost
      /\ astray => refused /\ PastDirect
      /\ ~astray => block >= Direct \/ Remaining <= BlockSize
  BY <1>1 DEF IOInv, Content, Placed, ReadsCorrect, AlignedWritesCorrect, Lost
<1>4. call.skip + call.count <= FileSize /\ UNCHANGED <<call, at, block, astray>>
  BY <1>1 DEF Valid, Tail
<1>5. /\ data \in [FileByte -> Int \cup {Beyond, Foreign}]
      /\ buffer \in [BufferByte -> Int \cup {Untouched, Foreign}]
      /\ moved \in 0 .. call.count + BlockSize - 1 /\ refused \in BOOLEAN
      /\ astray \in BOOLEAN
  BY <1>1 DEF TypeOK
<1>6. CASE Remaining <= 0
  <2>1. /\ phase' = "done" /\ result' = EXT2_RESULT_OK
        /\ UNCHANGED <<data, buffer, moved, refused>>
    BY <1>6, <1>1 DEF Tail, Return
  <2>2. moved >= call.count
    BY <1>1, <1>6, Typed DEF Remaining
  <2>3. call.op = "read" /\ ~astray =>
            \A i \in 0 .. call.count - 1 : buffer'[i] = call.skip + i
    <3>1. 0 .. call.count - 1 \subseteq 0 .. moved - 1
      BY <1>1, <2>2, Typed
    <3> QED
      BY <1>3, <2>1, <3>1 DEF HasRead
  <2>4. call.op = "write" /\ Aligned /\ ~astray =>
            \A i \in FileByte : InRange(i) => data'[i] = Source(i - call.skip)
    <3>1. ASSUME NEW i \in FileByte, InRange(i)
          PROVE  call.skip <= i /\ i < call.skip + moved
      <4>1. i \in Int
        BY FileIs DEF FileByte
      <4> QED
        BY <1>1, <2>2, <3>1, <4>1, Typed DEF InRange
    <3> QED
      BY <1>3, <2>1, <3>1 DEF HasWritten
  <2> QED
    BY <1>3, <1>4, <1>5, <2>1, <2>3, <2>4, Finished DEF ReadWithin, WriteConfined
<1>7. CASE ~(Remaining <= 0)
  <2>1. PICK out \in Outcomes(1, block) :
        /\ refused' = (refused \/ out.refused)
        /\ IF out.ret # 1 THEN Return(EXT2_RESULT_ERROR) /\ UNCHANGED <<data, buffer, moved>>
           ELSE /\ buffer' = IF call.op = "read"
                             THEN ToBuffer(block * BlockSize, TailBytes, Remaining) ELSE buffer
                /\ data' = IF call.op = "write"
                           THEN ToFile(block * BlockSize, TailFrom, TailBytes) ELSE data
                /\ moved' = moved + Remaining
                /\ Return(EXT2_RESULT_OK)
    BY <1>7 DEF Tail
  <2>2. /\ out.refused \in BOOLEAN
        /\ block < Direct /\ block + 1 <= FileBlocks /\ ~out.refused => out.ret = 1
        /\ block >= Direct => out.ret \in {0, Failed}
    BY <1>1, Typed, OutcomeIs
  <2>3. Remaining > 0 /\ Remaining \in Nat /\ moved + Remaining = call.count
    BY <1>1, <1>7, Typed DEF Remaining
  <2>4. block + 1 <= FileBlocks
    BY <1>1, <2>3, BlockThere, Typed, FileIs
  <2>5. CASE out.ret # 1
    <3>1. refused' \/ ~(call.skip + call.count <= Direct * BlockSize)
      BY <1>1, <2>1, <2>2, <2>3, <2>4, <2>5, BlockThere
    <3>2. Return(EXT2_RESULT_ERROR) /\ UNCHANGED <<data, buffer, moved>> /\ refused' \in BOOLEAN
      BY <1>5, <2>1, <2>2, <2>5
    <3>3. astray' \in BOOLEAN /\ (astray' => refused' /\ PastDirect)
      BY <1>3, <1>4, <1>5, <2>1
    <3> QED
      BY <1>3, <1>4, <1>5, <3>1, <3>2, <3>3, Ended DEF ReadWithin, WriteConfined
  <2>6. CASE out.ret = 1 /\ ~astray
    <3>1. /\ phase' = "done" /\ result' = EXT2_RESULT_OK /\ refused' \in BOOLEAN
          /\ moved' = call.count
      BY <1>5, <2>1, <2>2, <2>3, <2>6 DEF Return
    <3>0. TailBytes = Remaining
      <4>1. ~(block >= Direct)
        BY <2>2, <2>6 DEF Failed
      <4>2. Remaining <= BlockSize
        BY <1>3, <2>6, <4>1
      <4> QED
        BY <1>1, <2>3, <4>2, Typed DEF TailBytes, LeastOf
    <3>2. call.op = "read" =>
            /\ buffer' \in [BufferByte -> Int \cup {Untouched, Foreign}]
            /\ \A i \in 0 .. call.count - 1 : buffer'[i] = call.skip + i
            /\ \A i \in BufferByte : i >= call.count => buffer'[i] = buffer[i]
      <4>1. /\ block * BlockSize \in Nat /\ moved + Remaining <= FileSize + BlockSize
            /\ block * BlockSize + Remaining <= FileBlocks * BlockSize
        BY <1>1, <1>2, <1>4, <2>3, Typed, FileIs
      <4>2. call.op = "read" => buffer' = ToBuffer(block * BlockSize, Remaining, Remaining)
        BY <2>1, <2>6, <3>0
      <4> QED
        BY <1>1, <1>2, <1>3, <2>3, <2>6, <4>1, <4>2, ReadOn
    <3>3. call.op # "read" => buffer' = buffer
      BY <2>1, <2>6
    <3>4. call.op # "write" => data' = data
      BY <2>1, <2>6
    <3>5. call.op = "write" => data' = ToFile(block * BlockSize, TailFrom, Remaining)
      BY <2>1, <2>6, <3>0
    <3>6. data' \in [FileByte -> Int \cup {Beyond, Foreign}]
      <4>1. block * BlockSize \in Int /\ TailFrom \in Int /\ Remaining \in Int
        BY <1>1, <2>3, Typed DEF TailFrom
      <4>2. ToFile(block * BlockSize, TailFrom, Remaining) \in [FileByte -> Int \cup {Beyond, Foreign}]
        BY <1>1, <4>1, FileTyped
      <4> QED
        BY <1>5, <3>4, <3>5, <4>2
    <3>7. call.op = "write" /\ Aligned =>
            /\ \A i \in FileByte : InRange(i) \/ data'[i] = i
            /\ \A i \in FileByte : InRange(i) => data'[i] = Source(i - call.skip)
      <4>1. call.op = "write" /\ Aligned => TailFrom = moved
        BY <1>1, <1>2, Typed DEF TailFrom
      <4>2. block * BlockSize \in Nat /\ moved + Remaining <= call.count
        BY <1>1, <2>3, Typed
      <4> QED
        BY <1>1, <1>2, <1>3, <2>3, <2>6, <3>5, <4>1, <4>2, WriteOn DEF InRange
    <3>8. Aligned => \A i \in FileByte : InRange(i) \/ data'[i] = i
      <4>1. call.op \in {"read", "write"}
        BY <1>1, Typed
      <4> QED
        BY <1>3, <2>6, <3>4, <3>7, <4>1 DEF WriteConfined
    <3>9. Aligned => \A i \in BufferByte : i >= call.count => buffer'[i] = Untouched
      BY <1>3, <3>2, <3>3 DEF ReadWithin
    <3>10. buffer' \in [BufferByte -> Int \cup {Untouched, Foreign}]
      BY <1>5, <3>2, <3>3
    <3>11. moved' \in 0 .. call.count + BlockSize - 1
      BY <1>1, <3>1, Typed
    <3>12. call.op = "read" => data' = data
      BY <3>4
    <3> QED
      BY <1>4, <2>6, <3>1, <3>2, <3>6, <3>7, <3>8, <3>9, <3>10, <3>11, <3>12, Finished
  <2>7. CASE out.ret = 1 /\ astray
    <3>0. refused' = TRUE
      BY <1>3, <2>1, <2>7, Zenon
    <3>1. /\ phase' = "done" /\ result' = EXT2_RESULT_OK
          /\ moved' = call.count /\ moved' \in 0 .. call.count + BlockSize - 1
      BY <1>1, <2>1, <2>3, <2>7, Typed DEF Return
    <3>2. TailBytes \in Nat /\ TailBytes <= Remaining /\ TailBytes <= BlockSize
      BY <1>1, <2>3, Typed DEF TailBytes, LeastOf
    <3>3. /\ call.op = "read" => buffer' = ToBuffer(block * BlockSize, TailBytes, Remaining)
          /\ call.op # "read" => buffer' = buffer
          /\ call.op = "write" => data' = ToFile(block * BlockSize, TailFrom, TailBytes)
          /\ call.op # "write" => data' = data
      BY <2>1, <2>7
    <3>4. call.op = "read" =>
            /\ buffer' \in [BufferByte -> Int \cup {Untouched, Foreign}]
            /\ \A i \in BufferByte : i >= at + Remaining => buffer'[i] = buffer[i]
      <4>1. block * BlockSize \in Nat /\ Remaining \in Nat
        BY <1>1, <2>3, Typed
      <4>2. block * BlockSize + TailBytes <= FileBlocks * BlockSize
        <5>1. block + 1 \in Int /\ FileBlocks \in Int /\ 1 \in Int /\ block \in Int
          BY <1>1, Typed, FileIs
        <5>2. (block + 1) * BlockSize <= FileBlocks * BlockSize
          BY <2>4, <5>1, Scale
        <5>3. (block + 1) * BlockSize = block * BlockSize + 1 * BlockSize
          BY <5>1, Scale
        <5>4. FileBlocks * BlockSize \in Int
          BY <5>1, Scale
        <5> QED
          BY <1>1, <3>2, <4>1, <5>2, <5>3, <5>4, Typed
      <4> QED
        BY <1>1, <1>3, <3>2, <3>3, <4>1, <4>2, BufferTyped
    <3>5. buffer' \in [BufferByte -> Int \cup {Untouched, Foreign}]
      BY <1>5, <3>3, <3>4
    <3>6. data' \in [FileByte -> Int \cup {Beyond, Foreign}]
      <4>1. block * BlockSize \in Int /\ TailFrom \in Int /\ TailBytes \in Int
        BY <1>1, <3>2, Typed DEF TailFrom
      <4>2. ToFile(block * BlockSize, TailFrom, TailBytes)
                \in [FileByte -> Int \cup {Beyond, Foreign}]
        BY <1>1, <4>1, FileTyped
      <4> QED
        BY <1>5, <3>3, <4>2
    <3>7. Aligned => \A i \in BufferByte : i >= call.count => buffer'[i] = Untouched
      <4>1. ASSUME Aligned, NEW i \in BufferByte, i >= call.count PROVE buffer'[i] = Untouched
        <5>1. i \in Int
          BY <1>1, Typed DEF BufferByte
        <5>2. call.op = "read" => i >= at + Remaining
          BY <1>1, <1>2, <2>3, <4>1, <5>1, Typed
        <5>3. buffer'[i] = buffer[i]
          BY <3>3, <3>4, <5>2
        <5> QED
          BY <1>3, <4>1, <5>3 DEF ReadWithin
      <4> QED
        BY <4>1
    <3>8. call.op = "read" => data' = data
      BY <3>3
    <3> QED
      BY <1>4, <2>7, <3>0, <3>1, <3>5, <3>6, <3>7, <3>8, Finished
  <2> QED
    BY <1>5, <2>5, <2>6, <2>7
<1> QED
  BY <1>6, <1>7

LEMMA Keeps ==
    ASSUME IOInv, [Next]_vars PROVE IOInv'
<1>1. CASE Next
  BY <1>1, HeadKeeps, BodyKeeps, TailKeeps DEF Next
<1>2. CASE UNCHANGED vars
  <2>1. /\ call' = call /\ phase' = phase /\ data' = data /\ buffer' = buffer /\ at' = at
        /\ block' = block /\ moved' = moved /\ result' = result /\ refused' = refused
        /\ astray' = astray
    BY <1>2 DEF vars
  <2>2. TypeOK' /\ Valid' /\ Placed'
    BY <2>1 DEF IOInv, TypeOK, Valid, Placed, PastDirect, Remaining, Aligned, skip_bytes
  <2>3. Content'
    BY <2>1 DEF IOInv, Content, HasRead, HasWritten, Source, Aligned, skip_bytes
  <2>4. ReadsCorrect'
    BY <2>1 DEF IOInv, ReadsCorrect, ReadContent, EveryRead, ReadWithin, Succeeded, Lost,
                PastDirect, Aligned, skip_bytes
  <2>5. AlignedWritesCorrect'
    BY <2>1 DEF IOInv, AlignedWritesCorrect, WriteContent, WriteConfined, Succeeded, InRange,
                Source, Lost, PastDirect, Aligned, skip_bytes
  <2>6. Succeeds'
    BY <2>1 DEF IOInv, Succeeds
  <2> QED
    BY <2>2, <2>3, <2>4, <2>5, <2>6 DEF IOInv
<1> QED
  BY <1>1, <1>2

LEMMA IOHolds == Spec => []IOInv
<1>1. Init => IOInv
  BY Start
<1>2. IOInv /\ [Next]_vars => IOInv'
  BY Keeps
<1> QED
  BY <1>1, <1>2, PTL DEF Spec

(* Positions stay within the file and the buffer, and a count within a     *)
(* block of what was asked for.                                            *)
THEOREM TypeCorrect == Spec => []TypeOK
<1>1. IOInv => TypeOK
  BY DEF IOInv
<1> QED
  BY <1>1, IOHolds, PTL

(* A read that succeeds has put each byte asked for at its place, whatever *)
(* the drive refuses inside the direct blocks, and past them unless it     *)
(* refuses a pointer block; one that starts on a block writes no byte      *)
(* behind those asked for, whatever the drive refuses.                     *)
THEOREM ReadsAreCorrect == Spec => []ReadsCorrect
<1>1. IOInv => ReadsCorrect
  BY DEF IOInv
<1> QED
  BY <1>1, IOHolds, PTL

(* A write that starts on a block puts the caller's bytes in the range if  *)
(* it succeeds, and changes no other byte of the file in any case; past    *)
(* the direct blocks, unless the drive refuses a pointer block.            *)
THEOREM AlignedWritesAreCorrect == Spec => []AlignedWritesCorrect
<1>1. IOInv => AlignedWritesCorrect
  BY DEF IOInv
<1> QED
  BY <1>1, IOHolds, PTL

(* Below the indirect blocks, a call fails only with the drive.            *)
THEOREM CallsSucceed == Spec => []Succeeds
<1>1. IOInv => Succeeds
  BY DEF IOInv
<1> QED
  BY <1>1, IOHolds, PTL
=============================================================================
