-------------------------- MODULE OpenFilesProofs --------------------------
(***************************************************************************)
(* Proofs about BlockStorage and OpenFiles: the blocks of a file agree     *)
(* with a plain sequence of bytes, whatever the block size, the number of  *)
(* threads and the calls they make; reads, appends and late stores of a    *)
(* position are harmless.                                                  *)
(***************************************************************************)
EXTENDS OpenFiles, SequenceTheorems, TLAPS

(***************************************************************************)
(* Blocks and bytes                                                        *)
(***************************************************************************)

Block == [0 .. BlockSize - 1 -> Nat]
StorageType == [blocks : Seq({NoBlock} \union Block), size : Nat]

\* The storage s and the bytes b have the same content, and nothing is left
\* behind the end of the file that could come back when it grows.
Agree(s, b) ==
    /\ s \in StorageType
    /\ b \in Seq(Nat) /\ Len(b) = s.size
    /\ \A k \in 1 .. s.size : b[k] = ByteAt(s, k - 1)
    /\ \A k \in Nat : k >= s.size => ByteAt(s, k) = 0

\* Offsets and blocks.
LEMMA Offsets ==
    ASSUME NEW k \in Nat
    PROVE  /\ k \div BlockSize \in Nat
           /\ k % BlockSize \in 0 .. BlockSize - 1
           /\ k = (k \div BlockSize) * BlockSize + (k % BlockSize)
  BY BlockAssumption, Z3

LEMMA OffsetsMonotonic ==
    ASSUME NEW j \in Nat, NEW k \in Nat, j <= k
    PROVE  j \div BlockSize <= k \div BlockSize
  BY BlockAssumption, Z3

LEMMA OffsetsBound ==
    ASSUME NEW k \in Nat, NEW n \in Nat
    PROVE  k \div BlockSize >= n <=> k >= BlockSize * n
  BY BlockAssumption, Z3

LEMMA OffsetUnique ==
    ASSUME NEW k \in Nat, NEW q \in Nat, NEW m \in 0 .. BlockSize - 1, k = q * BlockSize + m
    PROVE  k \div BlockSize = q
  BY BlockAssumption, Z3

\* A sequence defined by its elements.
LEMMA Tabulated ==
    ASSUME NEW S, NEW n \in Nat, NEW f \in [1 .. n -> S]
    PROVE  f \in Seq(S) /\ Len(f) = n
  OBVIOUS

\* ByteAt returns a byte.
LEMMA ByteAtType ==
    ASSUME NEW s \in StorageType, NEW k \in Nat
    PROVE  ByteAt(s, k) \in Nat
  <1> DEFINE i == k \div BlockSize + 1
  <1>1. i \in Nat \ {0} /\ k % BlockSize \in 0 .. BlockSize - 1
    BY Offsets
  <1> HIDE DEF i
  <1>2. Len(s.blocks) \in Nat /\ (i <= Len(s.blocks) => s.blocks[i] \in {NoBlock} \union Block)
    BY <1>1 DEF StorageType
  <1>3. i <= Len(s.blocks) /\ s.blocks[i] # NoBlock => s.blocks[i][k % BlockSize] \in Nat
    BY <1>1, <1>2 DEF Block
  <1> QED BY <1>1, <1>2, <1>3 DEF ByteAt, i

\* The storage after a write of some data.
LEMMA WriteStorage ==
    ASSUME NEW s \in StorageType, NEW offset \in Nat, NEW data \in Seq(Nat), data # <<>>
    PROVE  LET w == StorageWrite(s, offset, data)
               end == offset + Len(data)
               last == (end - 1) \div BlockSize + 1 IN
           /\ w \in StorageType
           /\ w.size = Larger(s.size, end)
           /\ Len(w.blocks) = Larger(last, Len(s.blocks))
           /\ \A k \in Nat : ByteAt(w, k) =
                IF k >= offset /\ k < end THEN data[k - offset + 1] ELSE ByteAt(s, k)
  <1> DEFINE w == StorageWrite(s, offset, data)
             end == offset + Len(data)
             first == offset \div BlockSize + 1
             last == (end - 1) \div BlockSize + 1
             count == Larger(last, Len(s.blocks))
             Byte(k) == IF k >= offset /\ k < end THEN data[k - offset + 1] ELSE ByteAt(s, k)
             Full(i) == [b \in 0 .. BlockSize - 1 |-> Byte((i - 1) * BlockSize + b)]
             B(i) == IF i \in first .. last THEN Full(i)
                     ELSE IF i <= Len(s.blocks) THEN s.blocks[i] ELSE NoBlock
  <1>1. Len(data) \in Nat \ {0} /\ s.size \in Nat /\ Len(s.blocks) \in Nat
    BY EmptySeq DEF StorageType
  <1>2. /\ first \in Nat \ {0} /\ last \in Nat \ {0} /\ count \in Nat
        /\ count >= last /\ count >= Len(s.blocks) /\ (count = last \/ count = Len(s.blocks))
        /\ end \in Nat \ {0}
    <2>1. end - 1 \in Nat BY <1>1
    <2>2. offset \div BlockSize \in Nat /\ (end - 1) \div BlockSize \in Nat
      BY <2>1, Offsets
    <2> QED BY <1>1, <2>1, <2>2, SMTT(30) DEF Larger
  <1>3. w.blocks = [i \in 1 .. count |-> B(i)] /\ w.size = Larger(s.size, end)
        /\ w = [blocks |-> w.blocks, size |-> w.size]
    BY DEF StorageWrite
  <1>4. \A k \in Nat : Byte(k) \in Nat
    <2> SUFFICES ASSUME NEW k \in Nat PROVE Byte(k) \in Nat
      OBVIOUS
    <2>1. ByteAt(s, k) \in Nat BY ByteAtType
    <2>2. k >= offset /\ k < end => k - offset + 1 \in 1 .. Len(data) BY <1>1
    <2> QED BY <2>1, <2>2
  <1>5. \A i \in 1 .. count : Full(i) \in Block
    <2> SUFFICES ASSUME NEW i \in 1 .. count, NEW b \in 0 .. BlockSize - 1
                 PROVE  Byte((i - 1) * BlockSize + b) \in Nat
      BY DEF Block
    <2>1. (i - 1) * BlockSize + b \in Nat BY <1>2, BlockAssumption
    <2> QED BY <1>4, <2>1
  <1>6. \A i \in 1 .. count : B(i) \in {NoBlock} \union Block
    <2> SUFFICES ASSUME NEW i \in 1 .. count PROVE B(i) \in {NoBlock} \union Block
      OBVIOUS
    <2>1. i <= Len(s.blocks) => s.blocks[i] \in {NoBlock} \union Block
      BY <1>1, <1>2 DEF StorageType
    <2> HIDE DEF Full, first, last
    <2> QED BY <1>5, <2>1
  <1> HIDE DEF B
  <1>7. w.blocks \in Seq({NoBlock} \union Block) /\ Len(w.blocks) = count
    <2>1. w.blocks \in [1 .. count -> {NoBlock} \union Block]
      BY <1>3, <1>6
    <2> QED BY <1>2, <2>1, Tabulated
  <1>8. w \in StorageType
    <2>1. w.size \in Nat BY <1>1, <1>2, <1>3 DEF Larger
    <2> QED BY <1>3, <1>7, <2>1 DEF StorageType
  <1>9. ASSUME NEW k \in Nat PROVE ByteAt(w, k) = Byte(k)
    <2> DEFINE q == k \div BlockSize
               i == q + 1
               m == k % BlockSize
    <2>1. /\ i \in Nat \ {0} /\ m \in 0 .. BlockSize - 1
          /\ k = (i - 1) * BlockSize + m
      <3>1. q \in Nat /\ m \in 0 .. BlockSize - 1 /\ k = q * BlockSize + m BY Offsets
      <3> HIDE DEF q, m
      <3>2. i \in Nat \ {0} /\ i - 1 = q BY <3>1
      <3> HIDE DEF i
      <3> QED BY <3>1, <3>2
    <2>2. i > last => k >= end
      <3> SUFFICES ASSUME k < end PROVE i <= last
        BY <1>1, <1>2, <2>1, SMTT(30)
      <3>1. k <= end - 1 /\ end - 1 \in Nat BY <1>1
      <3> QED BY <3>1, OffsetsMonotonic, Offsets, SMTT(30)
    <2>3. i < first => k < offset
      <3> SUFFICES ASSUME k >= offset PROVE i >= first
        BY <1>1, <1>2, <2>1
      <3> QED BY OffsetsMonotonic, Offsets
    <2>4. ByteAt(w, k) = IF i > count THEN 0 ELSE IF w.blocks[i] = NoBlock THEN 0 ELSE w.blocks[i][m]
      BY <1>7 DEF ByteAt
    <2>5. ByteAt(s, k) = IF i > Len(s.blocks) THEN 0
                         ELSE IF s.blocks[i] = NoBlock THEN 0 ELSE s.blocks[i][m]
      BY DEF ByteAt
    <2> HIDE DEF i, m
    <2>6. CASE i \in first .. last
      <3>1. i \in 1 .. count BY <1>2, <2>1, <2>6
      <3>2. w.blocks[i] = Full(i) BY <1>3, <2>6, <3>1 DEF B
      <3>3. Full(i) # NoBlock
        BY <1>5, <3>1, BlockAssumption DEF Block
      <3>4. Full(i)[m] = Byte((i - 1) * BlockSize + m) BY <2>1
      <3>5. Full(i)[m] = Byte(k) BY <2>1, <3>4
      <3> HIDE DEF Full
      <3> QED BY <1>2, <2>1, <2>4, <3>1, <3>2, <3>3, <3>5
    <2>7. CASE i \notin first .. last
      <3>1. i < first \/ i > last BY <1>2, <2>1, <2>7
      <3>2. Byte(k) = ByteAt(s, k)
        BY <1>1, <2>2, <2>3, <3>1
      <3>3. i <= count => w.blocks[i] = IF i <= Len(s.blocks) THEN s.blocks[i] ELSE NoBlock
        BY <1>2, <1>3, <2>1, <2>7 DEF B
      <3> HIDE DEF Byte, count, first, last, end, w
      <3>4. CASE i > count
        <4>1. i > Len(s.blocks) BY <1>1, <1>2, <2>1, <3>4
        <4> QED BY <2>4, <2>5, <3>2, <3>4, <4>1
      <3>5. CASE i <= count
        <4>1. ~(i > count) BY <1>2, <2>1, <3>5
        <4>2. CASE i > Len(s.blocks)
          <5>1. w.blocks[i] = NoBlock BY <1>1, <2>1, <3>3, <3>5, <4>2
          <5> QED BY <2>4, <2>5, <3>2, <4>1, <4>2, <5>1
        <4>3. CASE i <= Len(s.blocks)
          <5>1. w.blocks[i] = s.blocks[i] /\ ~(i > Len(s.blocks)) BY <1>1, <2>1, <3>3, <3>5, <4>3
          <5> QED BY <2>4, <2>5, <3>2, <4>1, <5>1
        <4> QED BY <1>1, <2>1, <4>2, <4>3
      <3> QED BY <1>2, <2>1, <3>4, <3>5
    <2> QED BY <2>6, <2>7
  <1> HIDE DEF w
  <1>10. Len(w.blocks) = count /\ w.size = Larger(s.size, end)
    BY <1>3, <1>7
  <1> QED BY <1>8, <1>9, <1>10 DEF w

\* A write to the blocks and the write to the bytes.
LEMMA WriteAgrees ==
    ASSUME NEW s, NEW b, Agree(s, b), NEW offset \in Nat, NEW data \in Seq(Nat)
    PROVE  Agree(StorageWrite(s, offset, data), BytesWrite(b, offset, data))
  <1> DEFINE w == StorageWrite(s, offset, data)
             c == BytesWrite(b, offset, data)
             end == offset + Len(data)
  <1>1. s \in StorageType /\ b \in Seq(Nat) /\ Len(b) = s.size /\ s.size \in Nat /\ Len(data) \in Nat
    BY DEF Agree, StorageType
  <1>2. CASE data = <<>>
    <2>1. w = s BY <1>2 DEF StorageWrite
    <2>2. c = [k \in 1 .. Len(b) |-> b[k]]
      BY <1>1, <1>2 DEF BytesWrite, Larger
    <2>3. c = b BY <1>1, <2>2
    <2> QED BY <2>1, <2>3
  <1>3. CASE data # <<>>
    <2>1. /\ w \in StorageType
          /\ w.size = Larger(s.size, end)
          /\ \A k \in Nat : ByteAt(w, k) =
                IF k >= offset /\ k < end THEN data[k - offset + 1] ELSE ByteAt(s, k)
      BY <1>1, <1>3, WriteStorage
    <2> HIDE DEF w
    <2>2. c = [k \in 1 .. w.size |-> IF k > offset /\ k <= end THEN data[k - offset]
                                     ELSE IF k <= Len(b) THEN b[k] ELSE 0]
      BY <1>1, <1>3, <2>1 DEF BytesWrite
    <2>3. w.size \in Nat /\ w.size >= s.size /\ w.size >= end
      BY <1>1, <2>1 DEF Larger
    <2> HIDE DEF c
    <2>4. ASSUME NEW k \in 1 .. w.size PROVE c[k] = ByteAt(w, k - 1)
      <3>1. c[k] = IF k > offset /\ k <= end THEN data[k - offset]
                   ELSE IF k <= Len(b) THEN b[k] ELSE 0
        BY <2>2
      <3>2. k - 1 \in Nat BY <2>3
      <3>3. ByteAt(w, k - 1) = IF k - 1 >= offset /\ k - 1 < end THEN data[k - 1 - offset + 1]
                               ELSE ByteAt(s, k - 1)
        BY <2>1, <3>2
      <3>4. CASE k > offset /\ k <= end
        <4>1. k - 1 - offset + 1 = k - offset BY <2>3
        <4> QED BY <1>1, <2>3, <3>1, <3>3, <3>4, <4>1
      <3>5. CASE ~(k > offset /\ k <= end)
        <4>1. ByteAt(w, k - 1) = ByteAt(s, k - 1) BY <1>1, <2>3, <3>3, <3>5
        <4>2. k <= s.size => b[k] = ByteAt(s, k - 1) BY <1>1, <2>3 DEF Agree
        <4>3. k > s.size => ByteAt(s, k - 1) = 0 BY <1>1, <2>3, <3>2 DEF Agree
        <4> QED BY <1>1, <2>3, <3>1, <3>5, <4>1, <4>2, <4>3
      <3> QED BY <3>4, <3>5
    <2>5. c \in Seq(Nat) /\ Len(c) = w.size
      <3>1. ASSUME NEW k \in 1 .. w.size PROVE ByteAt(w, k - 1) \in Nat
        <4>1. k - 1 \in Nat BY <2>3
        <4> QED BY <2>1, <4>1, ByteAtType
      <3>2. c \in [1 .. w.size -> Nat] BY <2>2, <2>4, <3>1
      <3> QED BY <2>3, <3>2, Tabulated
    <2>6. ASSUME NEW k \in Nat, k >= w.size PROVE ByteAt(w, k) = 0
      <3>1. ByteAt(s, k) = 0 BY <1>1, <2>3, <2>6 DEF Agree
      <3> QED BY <1>1, <2>1, <2>3, <2>6, <3>1
    <2>7. Agree(w, c) BY <2>1, <2>4, <2>5, <2>6 DEF Agree
    <2> QED BY <2>7 DEF w, c
  <1> QED BY <1>2, <1>3

\* The storage after a truncate.
LEMMA TruncateStorage ==
    ASSUME NEW s \in StorageType, NEW n \in Nat, n < s.size
    PROVE  LET w == StorageTruncate(s, n) IN
           /\ w \in StorageType
           /\ w.size = n
           /\ \A k \in Nat : ByteAt(w, k) = IF k < n THEN ByteAt(s, k) ELSE 0
  <1> DEFINE w == StorageTruncate(s, n)
             count == (n + BlockSize - 1) \div BlockSize
             rest == n % BlockSize
             len == Smaller(count, Len(s.blocks))
             Cut(i) == [b \in 0 .. BlockSize - 1 |-> IF b < rest THEN s.blocks[i][b] ELSE 0]
             B(i) == IF i = count /\ rest > 0 /\ s.blocks[i] # NoBlock
                     THEN Cut(i) ELSE s.blocks[i]
  <1>1. s.size \in Nat /\ Len(s.blocks) \in Nat BY DEF StorageType
  <1>2. /\ count \in Nat /\ rest \in 0 .. BlockSize - 1
        /\ rest > 0 => n = (count - 1) * BlockSize + rest
        /\ rest = 0 => n = count * BlockSize
    <2> DEFINE q == n \div BlockSize
    <2>1. q \in Nat /\ rest \in 0 .. BlockSize - 1 /\ n = q * BlockSize + rest
      BY Offsets
    <2> HIDE DEF q, rest
    <2>2. CASE rest = 0
      <3>1. n + BlockSize - 1 = q * BlockSize + (BlockSize - 1)
        BY <2>1, <2>2, BlockAssumption
      <3>2. n + BlockSize - 1 \in Nat /\ BlockSize - 1 \in 0 .. BlockSize - 1
        BY BlockAssumption
      <3>3. count = q BY <2>1, <3>1, <3>2, OffsetUnique
      <3> HIDE DEF count
      <3> QED BY <2>1, <2>2, <3>3, BlockAssumption
    <2>3. CASE rest > 0
      <3>1. n + BlockSize - 1 = (q + 1) * BlockSize + (rest - 1)
        BY <2>1, BlockAssumption
      <3>2. n + BlockSize - 1 \in Nat /\ rest - 1 \in 0 .. BlockSize - 1 /\ q + 1 \in Nat
        BY <2>1, <2>3, BlockAssumption
      <3>3. count = q + 1 BY <3>1, <3>2, OffsetUnique
      <3>4. count - 1 = q BY <2>1, <3>3
      <3> HIDE DEF count
      <3> QED BY <2>1, <2>3, <3>2, <3>3, <3>4
    <2> QED BY <2>1, <2>2, <2>3
  <1>3. len \in Nat /\ len <= count /\ len <= Len(s.blocks) /\ (len = count \/ len = Len(s.blocks))
    BY <1>1, <1>2 DEF Smaller
  <1>4. w.blocks = [i \in 1 .. len |-> B(i)] /\ w.size = n /\ w = [blocks |-> w.blocks, size |-> n]
    <2>1. ~(n >= s.size) BY <1>1
    <2>2. w = [blocks |-> [i \in 1 .. len |-> B(i)], size |-> n]
      BY <2>1 DEF StorageTruncate
    <2> QED BY <2>2
  <1>5. \A i \in 1 .. len : s.blocks[i] \in {NoBlock} \union Block
    BY <1>1, <1>3 DEF StorageType
  <1>6. \A i \in 1 .. len : s.blocks[i] # NoBlock => Cut(i) \in Block
    BY <1>5 DEF Block
  <1> HIDE DEF Cut, count, rest, len, w
  <1>7. w.blocks \in Seq({NoBlock} \union Block) /\ Len(w.blocks) = len
    <2>1. w.blocks \in [1 .. len -> {NoBlock} \union Block]
      BY <1>4, <1>5, <1>6
    <2> QED BY <1>3, <2>1, Tabulated
  <1>8. w \in StorageType
    BY <1>4, <1>7 DEF StorageType
  <1>9. ASSUME NEW k \in Nat PROVE ByteAt(w, k) = IF k < n THEN ByteAt(s, k) ELSE 0
    <2> DEFINE q == k \div BlockSize
               i == q + 1
               m == k % BlockSize
    <2>1. /\ q \in Nat /\ m \in 0 .. BlockSize - 1
          /\ k = q * BlockSize + m
      BY Offsets
    <2>2. ByteAt(w, k) = IF i > len THEN 0 ELSE IF w.blocks[i] = NoBlock THEN 0 ELSE w.blocks[i][m]
      BY <1>7 DEF ByteAt
    <2>3. ByteAt(s, k) = IF i > Len(s.blocks) THEN 0
                         ELSE IF s.blocks[i] = NoBlock THEN 0 ELSE s.blocks[i][m]
      BY DEF ByteAt
    <2> HIDE DEF q, m
    <2>4. /\ i > count => k >= n
          /\ i < count => k < n
          /\ i = count /\ rest = 0 => k < n
          /\ i = count /\ rest > 0 => (k < n <=> m < rest)
      BY <1>2, <2>1, BlockAssumption, Z3
    <2>5. CASE i > len
      BY <1>1, <1>2, <1>3, <2>1, <2>2, <2>3, <2>4, <2>5
    <2>6. CASE i <= len /\ s.blocks[i] = NoBlock
      <3>1. w.blocks[i] = NoBlock BY <1>3, <1>4, <2>1, <2>6
      <3> QED BY <1>1, <1>2, <1>3, <2>1, <2>2, <2>3, <2>6, <3>1
    <2>7. CASE i <= len /\ s.blocks[i] # NoBlock /\ i = count /\ rest > 0
      <3>1. w.blocks[i] = Cut(i) BY <1>3, <1>4, <2>1, <2>7
      <3>2. Cut(i) # NoBlock BY <1>3, <1>6, <2>1, <2>7, BlockAssumption DEF Block
      <3>3. Cut(i)[m] = IF m < rest THEN s.blocks[i][m] ELSE 0 BY <2>1 DEF Cut
      <3> QED BY <1>1, <1>2, <1>3, <2>1, <2>2, <2>3, <2>4, <2>7, <3>1, <3>2, <3>3
    <2>8. CASE i <= len /\ s.blocks[i] # NoBlock /\ ~(i = count /\ rest > 0)
      <3>1. w.blocks[i] = s.blocks[i] BY <1>3, <1>4, <2>1, <2>8
      <3>2. k < n BY <1>2, <1>3, <2>1, <2>4, <2>8
      <3> QED BY <1>1, <1>2, <1>3, <2>1, <2>2, <2>3, <2>8, <3>1, <3>2
    <2> QED BY <1>3, <2>1, <2>5, <2>6, <2>7, <2>8
  <1> QED BY <1>4, <1>8, <1>9 DEF w

LEMMA TruncateAgrees ==
    ASSUME NEW s, NEW b, Agree(s, b), NEW n \in Nat
    PROVE  Agree(StorageTruncate(s, n), BytesTruncate(b, n))
  <1> DEFINE w == StorageTruncate(s, n)
             c == BytesTruncate(b, n)
  <1>1. s \in StorageType /\ b \in Seq(Nat) /\ Len(b) = s.size /\ s.size \in Nat
    BY DEF Agree, StorageType
  <1>2. /\ w \in StorageType /\ w.size = n
        /\ \A k \in Nat : ByteAt(w, k) = IF k < n THEN ByteAt(s, k) ELSE 0
    <2>1. CASE n < s.size BY <1>1, <2>1, TruncateStorage
    <2>2. CASE n >= s.size
      <3>1. w = [s EXCEPT !.size = n] BY <2>2 DEF StorageTruncate
      <3>2. w \in StorageType /\ w.size = n /\ w.blocks = s.blocks
        BY <1>1, <3>1 DEF StorageType
      <3>3. \A k \in Nat : ByteAt(w, k) = ByteAt(s, k) BY <3>2 DEF ByteAt
      <3>4. \A k \in Nat : k >= n => ByteAt(s, k) = 0 BY <1>1, <2>2 DEF Agree
      <3> QED BY <3>2, <3>3, <3>4
    <2> QED BY <1>1, <2>1, <2>2
  <1>3. c = [k \in 1 .. n |-> IF k <= Len(b) THEN b[k] ELSE 0]
    BY DEF BytesTruncate
  <1> HIDE DEF w, c
  <1>4. ASSUME NEW k \in 1 .. n PROVE c[k] = ByteAt(w, k - 1) /\ ByteAt(w, k - 1) \in Nat
    <2>1. k - 1 \in Nat /\ k - 1 < n OBVIOUS
    <2>2. ByteAt(w, k - 1) = ByteAt(s, k - 1) BY <1>2, <2>1
    <2>3. ByteAt(w, k - 1) \in Nat BY <1>2, <2>1, ByteAtType
    <2>4. k <= s.size => b[k] = ByteAt(s, k - 1) BY <1>1, <2>1 DEF Agree
    <2>5. k > s.size => ByteAt(s, k - 1) = 0 BY <1>1, <2>1 DEF Agree
    <2> QED BY <1>1, <1>3, <2>2, <2>3, <2>4, <2>5
  <1>5. c \in Seq(Nat) /\ Len(c) = n
    <2>1. c \in [1 .. n -> Nat] BY <1>3, <1>4
    <2> QED BY <2>1, Tabulated
  <1>6. Agree(w, c) BY <1>2, <1>4, <1>5 DEF Agree
  <1> QED BY <1>6 DEF w, c

\* A read returns the bytes of the file; where it ends early, it leaves out
\* only zeros.
LEMMA ReadAgrees ==
    ASSUME NEW s, NEW b, Agree(s, b), NEW at \in Nat, NEW n \in Nat
    PROVE  LET got == StorageRead(s, at, n)
               want == BytesRead(b, at, n) IN
           /\ got \in Seq(Nat) /\ want \in Seq(Nat)
           /\ Len(got) <= Len(want)
           /\ \A k \in 1 .. Len(want) : want[k] = IF k <= Len(got) THEN got[k] ELSE 0
  <1> DEFINE got == StorageRead(s, at, n)
             want == BytesRead(b, at, n)
             stop == Smaller(at + n, s.size)
             end == Smaller(at + n, Smaller(s.size, BlockSize * Len(s.blocks)))
             wlen == IF at >= stop THEN 0 ELSE stop - at
             glen == IF at >= end THEN 0 ELSE end - at
  <1>1. s \in StorageType /\ b \in Seq(Nat) /\ Len(b) = s.size /\ s.size \in Nat
        /\ Len(s.blocks) \in Nat
    BY DEF Agree, StorageType
  <1> DEFINE cap == BlockSize * Len(s.blocks)
  <1>2. cap \in Nat /\ stop \in Nat /\ end \in Nat /\ stop <= s.size /\ end <= stop
        /\ (end = stop \/ end = cap)
    <2>1. cap \in Nat BY <1>1, BlockAssumption
    <2> HIDE DEF cap
    <2> QED BY <1>1, <2>1 DEF Smaller, cap
  <1>3. want \in Seq(Nat) /\ Len(want) = wlen /\ \A k \in 1 .. wlen : want[k] = b[at + k]
    <2>1. want = SubSeq(b, at + 1, stop) BY <1>1 DEF BytesRead
    <2>2. stop <= Len(b) BY <1>1, <1>2
    <2> HIDE DEF stop, want
    <2>3. CASE at >= stop
      <3>1. want = <<>> BY <1>1, <1>2, <2>1, <2>3, SubSeqEmpty
      <3> QED BY <2>3, <3>1
    <2>4. CASE ~(at >= stop)
      <3>1. \A i \in at + 1 .. stop : b[i] \in Nat BY <1>1, <1>2, <2>2
      <3>2. /\ want \in Seq(Nat)
            /\ Len(want) = IF at + 1 <= stop THEN stop - (at + 1) + 1 ELSE 0
            /\ \A i \in 1 .. stop - (at + 1) + 1 : want[i] = b[at + 1 + i - 1]
        BY <1>2, <2>1, <3>1, SubSeqProperties
      <3>3. stop - (at + 1) + 1 = wlen /\ at + 1 <= stop BY <1>2, <2>4
      <3>4. \A k \in 1 .. wlen : at + 1 + k - 1 = at + k BY <1>2
      <3> HIDE DEF wlen
      <3> QED BY <3>2, <3>3, <3>4
    <2> QED BY <2>3, <2>4
  <1>4. got \in Seq(Nat) /\ Len(got) = glen /\ \A k \in 1 .. glen : got[k] = ByteAt(s, at + k - 1)
    <2>1. got = IF at >= end THEN <<>> ELSE [k \in 1 .. end - at |-> ByteAt(s, at + k - 1)]
      BY DEF StorageRead
    <2> HIDE DEF end, got, stop
    <2>2. CASE at >= end
      BY <2>1, <2>2
    <2>3. CASE ~(at >= end)
      <3>1. got = [k \in 1 .. glen |-> ByteAt(s, at + k - 1)] /\ glen \in Nat
        BY <1>2, <2>1, <2>3
      <3> HIDE DEF glen
      <3>2. ASSUME NEW k \in 1 .. glen PROVE ByteAt(s, at + k - 1) \in Nat
        <4>1. at + k - 1 \in Nat BY <3>1
        <4> QED BY <1>1, <4>1, ByteAtType
      <3>3. got \in [1 .. glen -> Nat] BY <3>1, <3>2
      <3>4. got \in Seq(Nat) /\ Len(got) = glen BY <3>1, <3>3, Tabulated
      <3> QED BY <3>1, <3>4
    <2> QED BY <2>2, <2>3
  <1> HIDE DEF got, want, stop, end, cap
  <1>5. glen <= wlen /\ glen \in Nat /\ wlen \in Nat BY <1>2
  <1>6. ASSUME NEW k \in 1 .. wlen PROVE want[k] = IF k <= glen THEN got[k] ELSE 0
    <2>1. /\ at + k \in 1 .. s.size /\ at + k - 1 \in Nat
          /\ k > glen => at + k - 1 >= cap
      BY <1>1, <1>2
    <2>2. b[at + k] = ByteAt(s, at + k - 1) BY <2>1 DEF Agree
    <2>3. CASE k <= glen BY <1>3, <1>4, <1>5, <2>2, <2>3
    <2>4. CASE k > glen
      <3>1. (at + k - 1) \div BlockSize >= Len(s.blocks)
        BY <1>1, <2>1, <2>4, OffsetsBound DEF cap
      <3>2. (at + k - 1) \div BlockSize \in Nat BY <2>1, Offsets
      <3>3. (at + k - 1) \div BlockSize + 1 > Len(s.blocks) BY <1>1, <3>1, <3>2
      <3>4. ByteAt(s, at + k - 1) = 0 BY <3>3 DEF ByteAt
      <3> QED BY <1>3, <1>5, <2>2, <2>4, <3>4
    <2> QED BY <1>5, <2>3, <2>4
  <1> HIDE DEF glen, wlen
  <1>7. /\ got \in Seq(Nat) /\ want \in Seq(Nat)
        /\ Len(got) <= Len(want)
        /\ \A k \in 1 .. Len(want) : want[k] = IF k <= Len(got) THEN got[k] ELSE 0
    BY <1>3, <1>4, <1>5, <1>6
  <1> QED BY <1>7 DEF got, want

\* A new storage is empty.
LEMMA NewAgrees == Agree(NewStorage, <<>>)
  <1>1. NewStorage \in StorageType BY DEF NewStorage, StorageType
  <1>2. \A k \in Nat : ByteAt(NewStorage, k) = 0
    <2> SUFFICES ASSUME NEW k \in Nat PROVE ByteAt(NewStorage, k) = 0
      OBVIOUS
    <2>1. k \div BlockSize \in Nat BY Offsets
    <2>2. k \div BlockSize + 1 > Len(NewStorage.blocks) BY <2>1 DEF NewStorage
    <2> QED BY <2>2 DEF ByteAt
  <1> QED BY <1>1, <1>2 DEF Agree, NewStorage

\* A snapshot holds the bytes of the file, and restores them.
LEMMA RestoreAgrees ==
    ASSUME NEW s, NEW b, Agree(s, b)
    PROVE  Agree(RestoreFile(SaveFile(s)), b) /\ RestoreFile(SaveFile(s)).size = s.size
  <1> DEFINE f == SaveFile(s)
             got == StorageRead(s, 0, s.size)
             want == BytesRead(b, 0, s.size)
             w == StorageWrite(NewStorage, 0, b)
  <1>1. b \in Seq(Nat) /\ Len(b) = s.size /\ s.size \in Nat
    BY DEF Agree, StorageType
  <1>2. /\ got \in Seq(Nat) /\ want \in Seq(Nat) /\ Len(got) <= Len(want)
        /\ \A k \in 1 .. Len(want) : want[k] = IF k <= Len(got) THEN got[k] ELSE 0
    BY <1>1, ReadAgrees
  <1>3. want = b
    <2>1. want = SubSeq(b, 1, Len(b)) BY <1>1 DEF BytesRead, Smaller
    <2> QED BY <1>1, <2>1
  <1>4. f.data = b /\ f.size = s.size
    <2>1. f.size = s.size /\ f.data = [k \in 1 .. s.size |-> IF k <= Len(got) THEN got[k] ELSE 0]
      BY DEF SaveFile
    <2> HIDE DEF f, got, want
    <2>2. f.data = [k \in 1 .. Len(b) |-> b[k]] BY <1>1, <1>2, <1>3, <2>1
    <2> QED BY <1>1, <2>1, <2>2
  <1>5. Agree(w, b)
    <2>1. Agree(w, BytesWrite(<<>>, 0, b)) BY <1>1, NewAgrees, WriteAgrees
    <2>2. BytesWrite(<<>>, 0, b) = [k \in 1 .. Len(b) |-> b[k]]
      BY <1>1 DEF BytesWrite, Larger
    <2>3. BytesWrite(<<>>, 0, b) = b BY <1>1, <2>2
    <2> QED BY <2>1, <2>3
  <1>6. w.size = f.size BY <1>1, <1>4, <1>5 DEF Agree
  <1>7. RestoreFile(f) = w BY <1>4, <1>6 DEF RestoreFile
  <1> QED BY <1>4, <1>5, <1>6, <1>7

-----------------------------------------------------------------------------
(***************************************************************************)
(* The inductive invariant                                                 *)
(***************************************************************************)

AnyFlags == Flags \union {[access |-> "r"]}

TaskType ==
    [pc : {"idle", "insert", "inode", "store"}, call : Calls \union {NoCall}, fd : Nat,
     flags : AnyFlags, pos : Nat, birth : Nat, got : Seq(Nat), want : Seq(Nat)]

\* A call has a descriptor and knows its birth; what a read got is right.
TaskOK(r) ==
    /\ r \in TaskType
    /\ r.pc = "inode" => r.call \in Calls
    /\ r.pc \in {"inode", "store"} => r.fd = r.birth
    /\ Len(r.got) <= Len(r.want)
    /\ \A k \in 1 .. Len(r.want) : r.want[k] = IF k <= Len(r.got) THEN r.got[k] ELSE 0

TasksInv == task \in [Threads -> TaskType] /\ \A t \in Threads : TaskOK(task[t])

HandleType == [flags : AnyFlags, pos : Nat, owner : Threads, birth : Nat]

\* A descriptor is the number of the open that made it.
HandlesInv ==
    /\ nextFd \in Nat /\ nextFd >= 3
    /\ handles \in [DOMAIN handles -> HandleType]
    /\ \A f \in DOMAIN handles : f \in 3 .. nextFd - 1 /\ handles[f].birth = f

FileInv == Agree(file, bytes) /\ size = file.size

Inv == TasksInv /\ HandlesInv /\ FileInv

LEMMA IdleOK == TaskOK(Idle)
  BY DEF TaskOK, TaskType, Idle, AnyFlags

\* A step of one thread.
LEMMA OneTask ==
    ASSUME TasksInv, NEW t \in Threads, NEW r, TaskOK(r), task' = [task EXCEPT ![t] = r]
    PROVE  TasksInv'
  BY DEF TasksInv, TaskOK

LEMMA InitInv == Init => Inv
  <1> SUFFICES ASSUME Init PROVE Inv
    OBVIOUS
  <1>1. TasksInv
    <2>1. Idle \in TaskType BY IdleOK DEF TaskOK
    <2> QED BY <2>1, IdleOK DEF Init, TasksInv
  <1>2. HandlesInv BY DEF Init, HandlesInv
  <1>3. FileInv BY NewAgrees DEF Init, FileInv, NewStorage
  <1> QED BY <1>1, <1>2, <1>3 DEF Inv

LEMMA OpenFileInv == ASSUME Inv, NEW t \in Threads, OpenFile(t) PROVE Inv'
  <1>1. PICK flags \in OpenFlags :
          /\ IF flags.trunc
             THEN file' = StorageTruncate(file, 0) /\ size' = 0 /\ bytes' = <<>>
             ELSE UNCHANGED <<file, size, bytes>>
          /\ task' = [task EXCEPT ![t] = [Idle EXCEPT !.pc = "insert", !.flags = flags]]
    BY DEF OpenFile
  <1>2. TasksInv'
    <2> DEFINE r == [Idle EXCEPT !.pc = "insert", !.flags = flags]
    <2>1. flags \in AnyFlags BY OpenFilesAssumption DEF AnyFlags
    <2>2. TaskOK(r) BY <2>1, IdleOK DEF TaskOK, TaskType, Idle
    <2> QED BY <1>1, <2>2, OneTask DEF Inv
  <1>3. HandlesInv' BY DEF Inv, HandlesInv, OpenFile
  <1>4. FileInv'
    <2>1. CASE flags.trunc
      <3>1. Agree(file', BytesTruncate(bytes, 0)) BY <1>1, <2>1, TruncateAgrees DEF Inv, FileInv
      <3>2. BytesTruncate(bytes, 0) = <<>> BY DEF BytesTruncate
      <3>3. Agree(file', bytes') /\ bytes' = <<>> BY <1>1, <2>1, <3>1, <3>2
      <3>4. file'.size = 0 BY <3>3 DEF Agree
      <3> QED BY <1>1, <2>1, <3>3, <3>4 DEF FileInv
    <2>2. CASE ~flags.trunc BY <1>1, <2>2 DEF Inv, FileInv
    <2> QED BY <2>1, <2>2
  <1> QED BY <1>2, <1>3, <1>4 DEF Inv

LEMMA InsertHandleInv == ASSUME Inv, NEW t \in Threads, InsertHandle(t) PROVE Inv'
  <1>1. TasksInv' BY IdleOK, OneTask DEF Inv, InsertHandle
  <1>2. HandlesInv'
    <2> DEFINE h == [flags |-> task[t].flags, pos |-> 0, owner |-> t, birth |-> nextFd]
    <2>1. task[t].flags \in AnyFlags BY DEF Inv, TasksInv, TaskType
    <2>2. h \in HandleType /\ h.birth = nextFd BY <2>1 DEF HandleType, Inv, HandlesInv
    <2>3. handles' = [f \in DOMAIN handles \union {nextFd} |-> IF f = nextFd THEN h ELSE handles[f]]
      BY DEF InsertHandle
    <2>4. nextFd' = nextFd + 1 BY DEF InsertHandle
    <2> HIDE DEF h
    <2> QED BY <2>2, <2>3, <2>4 DEF Inv, HandlesInv
  <1>3. FileInv' BY DEF Inv, FileInv, InsertHandle
  <1> QED BY <1>1, <1>2, <1>3 DEF Inv

LEMMA CloseFdInv == ASSUME Inv, NEW t \in Threads, CloseFd(t) PROVE Inv'
  <1>1. TasksInv' BY DEF Inv, TasksInv, CloseFd
  <1>2. HandlesInv'
    <2>1. PICK fd \in DOMAIN handles : handles' = [f \in DOMAIN handles \ {fd} |-> handles[f]]
      BY DEF CloseFd
    <2>2. nextFd' = nextFd BY DEF CloseFd
    <2> QED BY <2>1, <2>2 DEF Inv, HandlesInv
  <1>3. FileInv' BY DEF Inv, FileInv, CloseFd
  <1> QED BY <1>1, <1>2, <1>3 DEF Inv

LEMMA BeginInv == ASSUME Inv, NEW t \in Threads, Begin(t) PROVE Inv'
  <1>1. PICK fd \in DOMAIN handles, c \in Calls :
          task' = [task EXCEPT ![t] =
                [Idle EXCEPT !.pc = "inode", !.call = c, !.fd = fd, !.flags = handles[fd].flags,
                             !.pos = handles[fd].pos, !.birth = handles[fd].birth]]
    BY DEF Begin
  <1>2. TasksInv'
    <2> DEFINE r == [Idle EXCEPT !.pc = "inode", !.call = c, !.fd = fd, !.flags = handles[fd].flags,
                                 !.pos = handles[fd].pos, !.birth = handles[fd].birth]
    <2>1. handles[fd] \in HandleType /\ fd \in Nat /\ handles[fd].birth = fd
      BY DEF Inv, HandlesInv
    <2>2. TaskOK(r) BY <2>1, IdleOK DEF TaskOK, TaskType, Idle, HandleType
    <2> QED BY <1>1, <2>2, OneTask DEF Inv
  <1>3. HandlesInv' BY DEF Inv, HandlesInv, Begin
  <1>4. FileInv' BY DEF Inv, FileInv, Begin
  <1> QED BY <1>2, <1>3, <1>4 DEF Inv

\* What a call that has the inode's lock knows.
LEMMA CallType ==
    ASSUME Inv, NEW t \in Threads, task[t].pc = "inode"
    PROVE  /\ task[t].call \in Calls /\ task[t].call \in Call
           /\ task[t].call.kind # "seek" => task[t].call.at \in Nat
           /\ task[t].pos \in Nat /\ task[t] \in TaskType /\ TaskOK(task[t])
  BY OpenFilesAssumption DEF Inv, TasksInv, TaskOK, TaskType

LEMMA FileType ==
    ASSUME Inv
    PROVE  file.size \in Nat /\ bytes \in Seq(Nat) /\ Len(bytes) = file.size
  BY DEF Inv, FileInv, Agree, StorageType

\* The call of t goes on to store its position.
LEMMA ToStore ==
    ASSUME Inv, NEW t \in Threads, task[t].pc = "inode", NEW pos \in Nat,
           task' = [task EXCEPT ![t].pc = "store", ![t].pos = pos]
    PROVE  TasksInv'
  <1> DEFINE r == [task[t] EXCEPT !.pc = "store", !.pos = pos]
  <1>1. TaskOK(r)
    <2>1. TaskOK(task[t]) BY CallType
    <2> QED BY <2>1 DEF TaskOK, TaskType
  <1>2. task' = [task EXCEPT ![t] = r] BY DEF Inv, TasksInv
  <1> QED BY <1>1, <1>2, OneTask DEF Inv

LEMMA WriteOffsetType ==
    ASSUME Inv, NEW t \in Threads, WriteLocked(t)
    PROVE  WriteOffset(t) \in Nat
  <1>1. task[t].call.at \in Nat \/ task[t].call.kind # "write_at" BY CallType DEF WriteLocked
  <1>2. task[t].pos \in Nat /\ file.size \in Nat BY CallType, FileType DEF WriteLocked
  <1> QED BY <1>1, <1>2 DEF WriteOffset

LEMMA WriteLockedInv == ASSUME Inv, NEW t \in Threads, WriteLocked(t) PROVE Inv'
  <1> DEFINE data == task[t].call.data
             at == WriteOffset(t)
  <1>1. at \in Nat BY WriteOffsetType
  <1>2. data \in Seq(Nat) /\ Len(data) \in Nat BY CallType DEF WriteLocked, Call
  <1>3. /\ task[t].pc = "inode"
        /\ file' = StorageWrite(file, at, data) /\ size' = file'.size
        /\ bytes' = BytesWrite(bytes, at, data)
        /\ task' = [task EXCEPT ![t].pc = "store", ![t].pos = at + Len(data)]
        /\ UNCHANGED <<handles, nextFd, calls>>
    BY DEF WriteLocked, Locked
  <1> HIDE DEF data, at
  <1>4. TasksInv'
    <2>1. at + Len(data) \in Nat BY <1>1, <1>2
    <2> QED BY <1>3, <2>1, ToStore
  <1>5. HandlesInv' BY <1>3 DEF Inv, HandlesInv
  <1>6. FileInv' BY <1>1, <1>2, <1>3, WriteAgrees DEF Inv, FileInv
  <1> QED BY <1>4, <1>5, <1>6 DEF Inv

LEMMA ReadLockedInv == ASSUME Inv, NEW t \in Threads, ReadLocked(t) PROVE Inv'
  <1> DEFINE c == task[t].call
             at == IF c.kind = "read" THEN task[t].pos ELSE c.at
             got == StorageRead(file, at, c.len)
             want == BytesRead(bytes, at, c.len)
             r == [task[t] EXCEPT !.pc = "store", !.pos = at + Len(got), !.got = got, !.want = want]
  <1>1. task[t].pc = "inode" /\ c.kind \in {"read", "read_at"} BY DEF ReadLocked, Reads
  <1>2. at \in Nat /\ c.len \in Nat BY <1>1, CallType DEF Call
  <1>3. /\ got \in Seq(Nat) /\ want \in Seq(Nat) /\ Len(got) <= Len(want)
        /\ \A k \in 1 .. Len(want) : want[k] = IF k <= Len(got) THEN got[k] ELSE 0
    <2>1. Agree(file, bytes) BY DEF Inv, FileInv
    <2> HIDE DEF at, c
    <2> QED BY <1>2, <2>1, ReadAgrees, SMTT(30)
  <1>4. task' = [task EXCEPT ![t] = r] BY DEF ReadLocked, Inv, TasksInv
  <1>5. TaskOK(r)
    <2> HIDE DEF got, want, at
    <2>1. at + Len(got) \in Nat BY <1>2, <1>3
    <2>2. TaskOK(task[t]) BY <1>1, CallType
    <2> QED BY <1>1, <1>3, <2>1, <2>2 DEF TaskOK, TaskType
  <1>6. TasksInv' BY <1>4, <1>5, OneTask DEF Inv
  <1>7. HandlesInv' BY DEF Inv, HandlesInv, ReadLocked
  <1>8. FileInv' BY DEF Inv, FileInv, ReadLocked
  <1> QED BY <1>6, <1>7, <1>8 DEF Inv

LEMMA FtruncateLockedInv == ASSUME Inv, NEW t \in Threads, FtruncateLocked(t) PROVE Inv'
  <1> DEFINE n == task[t].call.at
  <1>1. n \in Nat BY CallType DEF FtruncateLocked
  <1>2. /\ file' = StorageTruncate(file, n) /\ size' = n /\ bytes' = BytesTruncate(bytes, n)
        /\ task' = [task EXCEPT ![t] = Idle]
        /\ UNCHANGED <<handles, nextFd, calls>>
    BY DEF FtruncateLocked
  <1> HIDE DEF n
  <1>3. TasksInv' BY <1>2, IdleOK, OneTask DEF Inv
  <1>4. HandlesInv' BY <1>2 DEF Inv, HandlesInv
  <1>5. FileInv'
    <2>1. Agree(file', bytes') BY <1>1, <1>2, TruncateAgrees DEF Inv, FileInv
    <2>2. Len(BytesTruncate(bytes, n)) = n BY <1>1 DEF BytesTruncate
    <2>3. file'.size = n BY <1>2, <2>1, <2>2 DEF Agree
    <2> QED BY <1>2, <2>1, <2>3 DEF FileInv
  <1> QED BY <1>3, <1>4, <1>5 DEF Inv

LEMMA SeekLockedInv == ASSUME Inv, NEW t \in Threads, SeekLocked(t) PROVE Inv'
  <1> DEFINE c == task[t].call
             pos == CASE c.whence = "set" -> c.at
                      [] c.whence = "cur" -> task[t].pos + c.at
                      [] c.whence = "end" -> file.size + c.at
  <1>1. task[t].pc = "inode" /\ c \in Call /\ task[t].pos \in Nat /\ file.size \in Nat
    BY CallType, FileType DEF SeekLocked
  <1>2. pos \in Int BY <1>1, SMTT(30) DEF Call
  <1>3. \/ task' = [task EXCEPT ![t] = Idle]
        \/ pos >= 0 /\ task' = [task EXCEPT ![t].pc = "store", ![t].pos = pos]
    BY DEF SeekLocked
  <1> HIDE DEF pos
  <1>4. TasksInv' BY <1>1, <1>2, <1>3, ToStore, IdleOK, OneTask DEF Inv
  <1>5. HandlesInv' BY DEF Inv, HandlesInv, SeekLocked
  <1>6. FileInv' BY DEF Inv, FileInv, SeekLocked
  <1> QED BY <1>4, <1>5, <1>6 DEF Inv

LEMMA StorePositionInv == ASSUME Inv, NEW t \in Threads, StorePosition(t) PROVE Inv'
  <1>1. TasksInv' BY IdleOK, OneTask DEF Inv, StorePosition
  <1>2. HandlesInv'
    <2>1. task[t].pos \in Nat BY DEF Inv, TasksInv, TaskType
    <2>2. handles' = [f \in DOMAIN handles |->
              IF f = task[t].fd THEN [handles[f] EXCEPT !.pos = task[t].pos] ELSE handles[f]]
      BY DEF StorePosition
    <2>3. nextFd' = nextFd BY DEF StorePosition
    <2>4. \A f \in DOMAIN handles : /\ [handles[f] EXCEPT !.pos = task[t].pos] \in HandleType
                                    /\ [handles[f] EXCEPT !.pos = task[t].pos].birth = handles[f].birth
      BY <2>1 DEF Inv, HandlesInv, HandleType
    <2> QED BY <2>2, <2>3, <2>4 DEF Inv, HandlesInv
  <1>3. FileInv' BY DEF Inv, FileInv, StorePosition
  <1> QED BY <1>1, <1>2, <1>3 DEF Inv

LEMMA RestoreInv == ASSUME Inv, Restore PROVE Inv'
  <1>1. TasksInv' BY DEF Inv, TasksInv, Restore
  <1>2. HandlesInv' BY DEF HandlesInv, Restore
  <1>3. FileInv' BY RestoreAgrees DEF Inv, FileInv, Restore
  <1> QED BY <1>1, <1>2, <1>3 DEF Inv

LEMMA NextInv == Inv /\ [Next]_vars => Inv'
  <1> SUFFICES ASSUME Inv, [Next]_vars PROVE Inv'
    OBVIOUS
  <1>1. CASE UNCHANGED vars
    BY <1>1 DEF vars, Inv, TasksInv, HandlesInv, FileInv
  <1>2. CASE Restore BY <1>2, RestoreInv
  <1>3. ASSUME NEW t \in Threads,
               \/ OpenFile(t) \/ InsertHandle(t) \/ CloseFd(t)
               \/ Begin(t) \/ WriteLocked(t) \/ ReadLocked(t) \/ FtruncateLocked(t)
               \/ SeekLocked(t) \/ StorePosition(t)
        PROVE  Inv'
    BY <1>3, OpenFileInv, InsertHandleInv, CloseFdInv, BeginInv, WriteLockedInv, ReadLockedInv,
       FtruncateLockedInv, SeekLockedInv, StorePositionInv
  <1> QED BY <1>1, <1>2, <1>3 DEF Next

LEMMA Invariance == Spec => []Inv
  BY InitInv, NextInv, PTL DEF Spec

-----------------------------------------------------------------------------
(***************************************************************************)
(* Theorems                                                                *)
(***************************************************************************)

\* The blocks hold the bytes, for every size of block, all calls and any
\* number of threads.
THEOREM ContentIsBytesHolds == Spec => []ContentIsBytes
  <1>1. Inv => ContentIsBytes
    <2> SUFFICES ASSUME Inv PROVE Contents(file) = bytes /\ size = Len(bytes)
      BY DEF ContentIsBytes
    <2>1. /\ file.size \in Nat /\ bytes \in Seq(Nat) /\ Len(bytes) = file.size
          /\ \A k \in 1 .. file.size : bytes[k] = ByteAt(file, k - 1)
          /\ size = file.size
      BY FileType DEF Inv, FileInv, Agree
    <2>2. Contents(file) = [k \in 1 .. Len(bytes) |-> bytes[k]] BY <2>1 DEF Contents
    <2> QED BY <2>1, <2>2
  <1> QED BY <1>1, Invariance, PTL

\* A read returns the bytes of the file or ends early, before zeros.
THEOREM ReadsHoldNoSurpriseHolds == Spec => []ReadsHoldNoSurprise
  <1>1. Inv => ReadsHoldNoSurprise
    BY DEF Inv, TasksInv, TaskOK, ReadsHoldNoSurprise
  <1> QED BY <1>1, Invariance, PTL

\* A position that is stored late goes to the open it belongs to.
THEOREM LateStoreIsHarmlessHolds == Spec => []LateStoreIsHarmless
  <1>1. Inv => LateStoreIsHarmless
    BY DEF Inv, TasksInv, TaskOK, HandlesInv, LateStoreIsHarmless
  <1> QED BY <1>1, Invariance, PTL

\* Only a thread's own step takes its call to the store of the position, and
\* a call that appends gets there by its write.
LEMMA AppendIsWrite ==
    ASSUME Inv, [Next]_vars, NEW t \in Threads,
           task[t].pc = "inode", task'[t].pc = "store",
           task[t].call.kind \in {"write", "append_write"}
    PROVE  WriteLocked(t)
  <1>1. task' # task OBVIOUS
  <1>2. ~Restore BY <1>1 DEF Restore
  <1>3. PICK u \in Threads :
          \/ OpenFile(u) \/ InsertHandle(u) \/ CloseFd(u)
          \/ Begin(u) \/ WriteLocked(u) \/ ReadLocked(u) \/ FtruncateLocked(u)
          \/ SeekLocked(u) \/ StorePosition(u)
    BY <1>1, <1>2, SMTT(30) DEF Next, vars
  <1>4. task \in [Threads -> TaskType] BY DEF Inv, TasksInv
  <1>5. u = t
    <2> SUFFICES ASSUME u # t PROVE task'[t] = task[t]
      OBVIOUS
    <2> QED BY <1>3, <1>4 DEF OpenFile, InsertHandle, CloseFd, Begin, WriteLocked, Locked,
                              ReadLocked, FtruncateLocked, SeekLocked, StorePosition
  <1>6. ~OpenFile(t) /\ ~InsertHandle(t) /\ ~CloseFd(t) /\ ~Begin(t) /\ ~StorePosition(t)
    BY DEF OpenFile, InsertHandle, CloseFd, Begin, StorePosition
  <1>7. ~ReadLocked(t) /\ ~FtruncateLocked(t) /\ ~SeekLocked(t)
    BY DEF ReadLocked, Reads, FtruncateLocked, SeekLocked
  <1> QED BY <1>3, <1>5, <1>6, <1>7

\* An append keeps what is in the file, whoever else appends.
THEOREM AppendsKeepTheFileHolds == Spec => AppendsKeepTheFile
  <1> DEFINE Keeps == \A t \in Threads :
          /\ task[t].pc = "inode" /\ task'[t].pc = "store"
          /\ \/ task[t].call.kind = "append_write"
             \/ task[t].call.kind = "write" /\ task[t].flags.append
          => SubSeq(Contents(file'), 1, file.size) = Contents(file)
  <1>1. Inv /\ Inv' /\ [Next]_vars => [Keeps]_vars
    <2> SUFFICES ASSUME Inv, Inv', [Next]_vars, NEW t \in Threads,
                        task[t].pc = "inode", task'[t].pc = "store",
                        \/ task[t].call.kind = "append_write"
                        \/ task[t].call.kind = "write" /\ task[t].flags.append
                 PROVE  SubSeq(Contents(file'), 1, file.size) = Contents(file)
      OBVIOUS
    <2> DEFINE data == task[t].call.data
               n == file.size
    <2>1. WriteLocked(t) BY AppendIsWrite
    <2>2. data \in Seq(Nat) /\ Len(data) \in Nat BY CallType DEF Call
    <2>3. WriteOffset(t) = n BY DEF WriteOffset
    <2>4. bytes' = BytesWrite(bytes, n, data) BY <2>1, <2>3 DEF WriteLocked, Locked
    <2>5. n \in Nat /\ bytes \in Seq(Nat) /\ Len(bytes) = n
          /\ file'.size \in Nat /\ bytes' \in Seq(Nat) /\ Len(bytes') = file'.size
      BY FileType DEF Inv, FileInv, Agree, StorageType
    <2>6. Contents(file) = [k \in 1 .. n |-> bytes[k]]
      BY <2>5 DEF Inv, FileInv, Agree, Contents
    <2>7. Contents(file') = bytes'
      <3>1. Contents(file') = [k \in 1 .. Len(bytes') |-> bytes'[k]]
        BY <2>5 DEF Inv, FileInv, Agree, Contents
      <3> QED BY <2>5, <3>1
    <2>8. Len(bytes') >= n /\ \A k \in 1 .. n : bytes'[k] = bytes[k]
      <3> HIDE DEF data, n
      <3> DEFINE len == Larger(Len(bytes), IF data = <<>> THEN 0 ELSE n + Len(data))
      <3>1. len \in Nat /\ len >= n BY <2>2, <2>5 DEF Larger
      <3>2. bytes' = [k \in 1 .. len |-> IF k > n /\ k <= n + Len(data) THEN data[k - n]
                                         ELSE IF k <= Len(bytes) THEN bytes[k] ELSE 0]
        BY <2>4 DEF BytesWrite
      <3> HIDE DEF len
      <3> QED BY <2>5, <3>1, <3>2
    <2>9. SubSeq(bytes', 1, n) = [k \in 1 .. n |-> bytes[k]]
      BY <2>5, <2>8
    <2> QED BY <2>6, <2>7, <2>9
  <1> QED BY <1>1, Invariance, PTL DEF Spec, AppendsKeepTheFile
=============================================================================
