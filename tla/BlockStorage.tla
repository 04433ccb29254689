---------------------------- MODULE BlockStorage ----------------------------
(***************************************************************************)
(* The content of a file (fs-core/src/storage.rs): a vector of blocks that *)
(* are allocated when they are first written, and a size.  The loops over  *)
(* blocks of the code are closed forms here.  At the end, the same         *)
(* operations on a plain sequence of bytes, as the reference.              *)
(***************************************************************************)
EXTENDS Naturals, Sequences

CONSTANTS
    BlockSize,  \* BLOCK_SIZE
    NoBlock     \* a block that is not allocated (None)

ASSUME BlockAssumption ==
    /\ BlockSize \in Nat \ {0}
    /\ NoBlock \notin [0 .. BlockSize - 1 -> Nat]

Smaller(a, b) == IF a <= b THEN a ELSE b
Larger(a, b) == IF a >= b THEN a ELSE b

\* BlockStorage::new
NewStorage == [blocks |-> <<>>, size |-> 0]

\* The byte at offset k of an allocated or sparse block; nothing is stored
\* beyond the last block.
ByteAt(s, k) ==
    LET i == k \div BlockSize + 1 IN
    IF i > Len(s.blocks) THEN 0
    ELSE IF s.blocks[i] = NoBlock THEN 0
    ELSE s.blocks[i][k % BlockSize]

\* Mutant: a sparse block ends the read, as a missing one does.
ReadToHole(s, offset, n) ==
    LET limit == Smaller(offset + n, Smaller(s.size, BlockSize * Len(s.blocks)))
        holes == {k \in offset .. limit : /\ k < limit
                                          /\ s.blocks[k \div BlockSize + 1] = NoBlock}
        end == IF holes = {} THEN limit ELSE CHOOSE k \in holes : \A j \in holes : k <= j IN
    IF offset >= limit THEN <<>>
    ELSE [k \in 1 .. end - offset |-> ByteAt(s, offset + k - 1)]

\* read: up to n bytes from offset.  It stops at the end of the file and, as
\* the loop does, at the end of the block vector.
StorageRead(s, offset, n) ==
    LET end == Smaller(offset + n, Smaller(s.size, BlockSize * Len(s.blocks))) IN
    IF offset >= end THEN <<>>
    ELSE [k \in 1 .. end - offset |-> ByteAt(s, offset + k - 1)]

\* write: blocks are allocated (zeroed) as far as the data reaches.
StorageWrite(s, offset, data) ==
    LET end == offset + Len(data)
        first == offset \div BlockSize + 1
        last == (end - 1) \div BlockSize + 1
        Block(i) ==
            IF i \in first .. last
            THEN [b \in 0 .. BlockSize - 1 |->
                    LET k == (i - 1) * BlockSize + b IN
                    IF k >= offset /\ k < end THEN data[k - offset + 1] ELSE ByteAt(s, k)]
            ELSE IF i <= Len(s.blocks) THEN s.blocks[i] ELSE NoBlock IN
    IF data = <<>> THEN s
    ELSE [blocks |-> [i \in 1 .. Larger(last, Len(s.blocks)) |-> Block(i)],
          size |-> Larger(s.size, end)]

\* Mutant: shrinking leaves the rest of the last block as it was.
TruncateKeepsTail(s, n) ==
    LET count == (n + BlockSize - 1) \div BlockSize IN
    [blocks |-> SubSeq(s.blocks, 1, Smaller(count, Len(s.blocks))), size |-> n]

\* truncate: shrinking drops blocks and clears the rest of the last one;
\* expanding only sets the size.
StorageTruncate(s, n) ==
    LET count == (n + BlockSize - 1) \div BlockSize
        Block(i) ==
            IF i = count /\ n % BlockSize > 0 /\ s.blocks[i] # NoBlock
            THEN [b \in 0 .. BlockSize - 1 |-> IF b < n % BlockSize THEN s.blocks[i][b] ELSE 0]
            ELSE s.blocks[i] IN
    IF n >= s.size THEN [s EXCEPT !.size = n]
    ELSE [blocks |-> [i \in 1 .. Smaller(count, Len(s.blocks)) |-> Block(i)], size |-> n]

\* What the file contains.
Contents(s) == [k \in 1 .. s.size |-> ByteAt(s, k - 1)]

-----------------------------------------------------------------------------
(***************************************************************************)
(* Snapshots of a file (snapshot.rs).                                      *)
(***************************************************************************)

\* FileDataSnapshot::from: size zero bytes, over which the file is read.
SaveFile(s) ==
    LET data == StorageRead(s, 0, s.size) IN
    [size |-> s.size,
     data |-> [k \in 1 .. s.size |-> IF k <= Len(data) THEN data[k] ELSE 0]]

\* from_snapshot
RestoreFile(f) ==
    LET s == StorageWrite(NewStorage, 0, f.data) IN
    IF s.size # f.size THEN StorageTruncate(s, f.size) ELSE s

-----------------------------------------------------------------------------
(***************************************************************************)
(* The reference: what the operations do to a plain sequence of bytes.     *)
(***************************************************************************)

BytesWrite(bytes, offset, data) ==
    [k \in 1 .. Larger(Len(bytes), IF data = <<>> THEN 0 ELSE offset + Len(data)) |->
        IF k > offset /\ k <= offset + Len(data) THEN data[k - offset]
        ELSE IF k <= Len(bytes) THEN bytes[k] ELSE 0]

BytesTruncate(bytes, n) ==
    [k \in 1 .. n |-> IF k <= Len(bytes) THEN bytes[k] ELSE 0]

BytesRead(bytes, offset, n) ==
    SubSeq(bytes, offset + 1, Smaller(offset + n, Len(bytes)))
=============================================================================
