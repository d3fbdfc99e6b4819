------------------------ MODULE AdfFileCursor_proofs ------------------------
(* Proofs about AdfFileUtil and AdfFileCursor, for every size of a data     *)
(* block and of a list of data blocks.                                      *)
EXTENDS AdfFileCursor, Numbers_proofs

-----------------------------------------------------------------------------
(* Geometry of a file *)

(* Where adfFilePos2DataBlock finds a byte, in terms of the number d of its *)
(* data block: the lists are filled one after the other.                    *)
LEMMA Pos2DataBlock ==
  ASSUME NEW pos \in Nat
  PROVE  LET at == adfFilePos2DataBlock(pos)
             d  == pos \div BlockSize
         IN  /\ d \in Nat /\ pos % BlockSize \in 0..(BlockSize - 1)
             /\ pos = BlockSize * d + (pos % BlockSize)
             /\ at.curDataN = d
             /\ at.posInDataBlk = pos % BlockSize
             /\ d < MaxDatablk => at.extBlock = -1
             /\ d >= MaxDatablk => /\ at.extBlock = (d \div MaxDatablk) - 1
                                   /\ at.posInExtBlk = d % MaxDatablk
                                   /\ d \div MaxDatablk >= 1
<1> DEFINE at == adfFilePos2DataBlock(pos)
           d  == pos \div BlockSize
           r  == pos % BlockSize
           listed == BlockSize * MaxDatablk
<1> USE BlockAssumption
<1>1. d \in Nat /\ r \in 0..(BlockSize - 1) /\ pos = BlockSize * d + r
  BY DivMod
<1>2. at.curDataN = d /\ at.posInDataBlk = r
  BY DEF adfFilePos2DataBlock
<1>3. d < MaxDatablk => at.extBlock = -1
  BY DEF adfFilePos2DataBlock
<1>4. ASSUME d >= MaxDatablk
      PROVE  /\ at.extBlock = (d \div MaxDatablk) - 1
             /\ at.posInExtBlk = d % MaxDatablk
             /\ d \div MaxDatablk >= 1
  <2>1. at.extBlock = (pos - listed) \div listed
        /\ at.posInExtBlk = ((pos - listed) \div BlockSize) % MaxDatablk
    BY <1>4, <1>1 DEF adfFilePos2DataBlock
  <2>2. pos >= listed
    <3>1. BlockSize * d >= BlockSize * MaxDatablk
      BY <1>1, <1>4, TimesMonotone
    <3>2. BlockSize * d \in Int /\ BlockSize * MaxDatablk \in Int
      BY <1>1
    <3> HIDE DEF d, r
    <3> QED
      BY <1>1, <3>1, <3>2
  <2>3. listed \in Nat \ {0}
    <3>1. BlockSize * MaxDatablk >= BlockSize * 1
      BY TimesMonotone
    <3> QED
      BY <3>1
  <2>4. (pos - listed) \div BlockSize = d - MaxDatablk
    BY <2>2, DivShift
  <2>5. d - MaxDatablk = d - MaxDatablk * 1 /\ d >= MaxDatablk * 1
    BY <1>1, <1>4
  <2>6. /\ (d - MaxDatablk) \div MaxDatablk = (d \div MaxDatablk) - 1
        /\ (d - MaxDatablk) % MaxDatablk = d % MaxDatablk
    <3> HIDE DEF d
    <3>1. 1 \in Nat
      OBVIOUS
    <3>2. /\ (d - MaxDatablk * 1) \div MaxDatablk = (d \div MaxDatablk) - 1
          /\ (d - MaxDatablk * 1) % MaxDatablk = d % MaxDatablk
      BY <1>1, <2>5, <3>1, DivShift
    <3> QED
      BY <3>2, <2>5
  <2>7. (pos - listed) \div listed = ((pos - listed) \div BlockSize) \div MaxDatablk
    <3>1. pos - listed \in Nat
      BY <2>2, <2>3
    <3> QED
      BY <3>1, DivTwice
  <2>8. d \div MaxDatablk >= 1
    <3> HIDE DEF d
    <3>1. d - MaxDatablk \in Nat
      BY <1>1, <1>4
    <3>2. (d - MaxDatablk) \div MaxDatablk \in Nat /\ d \div MaxDatablk \in Nat
      BY <1>1, <3>1, DivMod
    <3> QED
      BY <3>2, <2>6
  <2> QED
    BY <2>1, <2>4, <2>6, <2>7, <2>8
<1> QED
  BY <1>1, <1>2, <1>3, <1>4

(* A file of size bytes has k data blocks when it ends in the k-th.         *)
LEMMA SizeUnique ==
  ASSUME NEW size \in Nat, NEW k \in Nat \ {0}, NEW r \in 1..BlockSize,
         size = BlockSize * (k - 1) + r
  PROVE  adfFileSize2Datablocks(size) = k
<1> USE BlockAssumption
<1>1. CASE r = BlockSize
  <2>1. BlockSize * k = BlockSize * (k - 1) + BlockSize
    OBVIOUS
  <2>2. size = BlockSize * k + 0
    BY <1>1, <2>1
  <2>3. size \div BlockSize = k /\ size % BlockSize = 0
    BY <2>2, DivUnique
  <2> QED
    BY <2>3 DEF adfFileSize2Datablocks
<1>2. CASE r # BlockSize
  <2>1. size \div BlockSize = k - 1 /\ size % BlockSize = r
    BY <1>2, DivUnique
  <2> QED
    BY <2>1 DEF adfFileSize2Datablocks
<1> QED
  BY <1>1, <1>2

(* The last byte of a file is in its last data block.                       *)
LEMMA SizeBounds ==
  ASSUME NEW size \in Nat
  PROVE  LET k == adfFileSize2Datablocks(size) IN
         /\ k \in Nat
         /\ size = 0 => k = 0
         /\ size > 0 => k > 0 /\ \E r \in 1..BlockSize : size = BlockSize * (k - 1) + r
<1> DEFINE k == adfFileSize2Datablocks(size)
           q == size \div BlockSize
           r == size % BlockSize
<1> USE BlockAssumption
<1>1. q \in Nat /\ r \in 0..(BlockSize - 1) /\ size = BlockSize * q + r
  BY DivMod
<1>2. k = q + (IF r > 0 THEN 1 ELSE 0)
  BY DEF adfFileSize2Datablocks
<1> HIDE DEF k, q, r
<1>3. k \in Nat
  BY <1>1, <1>2
<1>4. CASE r > 0
  <2>1. k - 1 = q /\ k > 0
    BY <1>1, <1>2, <1>4
  <2>2. BlockSize * q >= 0 /\ BlockSize * q \in Int
    BY <1>1
  <2>3. size > 0
    BY <1>1, <1>4, <2>2
  <2>4. r \in 1..BlockSize /\ size = BlockSize * (k - 1) + r
    BY <1>1, <1>4, <2>1
  <2> QED
    BY <1>3, <2>1, <2>3, <2>4 DEF k
<1>5. CASE r = 0
  <2>1. k = q /\ size = BlockSize * k
    BY <1>1, <1>2, <1>5
  <2>2. size > 0 => k > 0
    BY <1>3, <2>1
  <2>3. size = 0 => k = 0
    <3> SUFFICES ASSUME size = 0, k >= 1 PROVE FALSE
      BY <1>3
    <3>1. BlockSize * k >= BlockSize * 1
      BY <1>3, TimesMonotone
    <3> QED
      BY <2>1, <3>1
  <2>4. BlockSize * k = BlockSize * (k - 1) + BlockSize
    BY <1>3
  <2>5. BlockSize \in 1..BlockSize
    OBVIOUS
  <2> QED
    BY <1>3, <2>1, <2>2, <2>3, <2>4, <2>5 DEF k
<1> QED
  BY <1>1, <1>4, <1>5

(* adfFileRealSize, which decides which files adfGetFileBlocks accepts, and *)
(* the functions that adfFileTruncate counts with agree.                    *)
THEOREM RealSizeAgrees ==
  \A size \in Nat :
    adfFileRealSize(size) = [dataN  |-> adfFileSize2Datablocks(size),
                             extN   |-> adfFileSize2Extblocks(size),
                             blocks |-> adfFileSize2Blocks(size)]
<1> USE BlockAssumption
<1> SUFFICES ASSUME NEW size \in Nat
             PROVE adfFileRealSize(size) = [dataN  |-> adfFileSize2Datablocks(size),
                                            extN   |-> adfFileSize2Extblocks(size),
                                            blocks |-> adfFileSize2Blocks(size)]
  OBVIOUS
<1> DEFINE data == adfFileSize2Datablocks(size)
           more == data - MaxDatablk
           q == more \div MaxDatablk
           r == more % MaxDatablk
           ext == IF more <= 0 THEN 0 ELSE q + (IF r # 0 THEN 1 ELSE 0)
<1>1. data \in Nat
  BY SizeBounds
<1>2. size % BlockSize > 0 <=> size % BlockSize # 0
  BY DivMod
<1>3. data = size \div BlockSize + (IF size % BlockSize # 0 THEN 1 ELSE 0)
  BY <1>2 DEF adfFileSize2Datablocks
<1>4. adfFileRealSize(size) = [dataN |-> data, extN |-> ext, blocks |-> ext + data + 1]
  <2> HIDE DEF data
  <2> QED
    BY <1>3 DEF adfFileRealSize
<1>5. ext = adfFileDatablocks2Extblocks(data)
  <2>1. CASE data = 0
    BY <2>1 DEF adfFileDatablocks2Extblocks
  <2>2. CASE data >= 1 /\ more <= 0
    <3> HIDE DEF data
    <3>1. data - 1 \in 0..(MaxDatablk - 1) /\ data - 1 = MaxDatablk * 0 + (data - 1)
      BY <1>1, <2>2
    <3>2. (data - 1) \div MaxDatablk = 0
      BY <1>1, <2>2, <3>1, DivUnique
    <3> QED
      BY <1>1, <2>2, <3>2 DEF adfFileDatablocks2Extblocks
  <2>3. CASE more > 0
    <3> HIDE DEF data
    <3>1. q \in Nat /\ r \in 0..(MaxDatablk - 1) /\ more = MaxDatablk * q + r
      <4>1. more \in Nat
        BY <1>1, <2>3
      <4> HIDE DEF more
      <4> QED
        BY <4>1, DivMod
    <3>2. adfFileDatablocks2Extblocks(data) = (data - 1) \div MaxDatablk
      BY <1>1, <2>3 DEF adfFileDatablocks2Extblocks
    <3> HIDE DEF q, r
    <3>3. CASE r = 0
      <4>1. data - 1 = MaxDatablk * q + (MaxDatablk - 1)
        BY <1>1, <3>1, <3>3
      <4>2. data - 1 \in Nat /\ MaxDatablk - 1 \in 0..(MaxDatablk - 1)
        BY <1>1, <2>3
      <4>3. (data - 1) \div MaxDatablk = q
        BY <3>1, <4>1, <4>2, DivUnique
      <4> QED
        BY <2>3, <3>1, <3>2, <3>3, <4>3
    <3>4. CASE r # 0
      <4>1. MaxDatablk * (q + 1) = MaxDatablk * q + MaxDatablk
        BY <3>1
      <4>2. data - 1 = MaxDatablk * (q + 1) + (r - 1)
        BY <1>1, <3>1, <4>1
      <4>3. data - 1 \in Nat /\ r - 1 \in 0..(MaxDatablk - 1)
        BY <1>1, <2>3, <3>1, <3>4
      <4>4. q + 1 \in Int
        BY <3>1
      <4>5. (data - 1) \div MaxDatablk = q + 1
        BY <4>2, <4>3, <4>4, DivUnique
      <4> QED
        BY <2>3, <3>1, <3>2, <3>4, <4>5
    <3> QED
      BY <3>3, <3>4
  <2> QED
    BY <1>1, <2>1, <2>2, <2>3
<1>6. ext = adfFileSize2Extblocks(size) /\ ext \in Int
  <2>1. ext = adfFileSize2Extblocks(size)
    BY <1>5 DEF adfFileSize2Extblocks
  <2>2. ext \in Int
    <3> HIDE DEF data
    <3> QED
      BY <1>1
  <2> QED
    BY <2>1, <2>2
<1>7. ext + data + 1 = adfFileSize2Blocks(size)
  <2> HIDE DEF ext, data
  <2>1. adfFileSize2Blocks(size) = data + ext + 1
    BY <1>6 DEF adfFileSize2Blocks, data
  <2> QED
    BY <1>1, <1>6, <2>1
<1> QED
  BY <1>4, <1>6, <1>7

(* A data block that starts before the end of the file is one of its data   *)
(* blocks.                                                                  *)
LEMMA BlockInFile ==
  ASSUME NEW size \in Nat, NEW n \in Nat, BlockSize * n < size
  PROVE  n + 1 <= adfFileSize2Datablocks(size)
<1> DEFINE k == adfFileSize2Datablocks(size)
<1> USE BlockAssumption
<1>1. BlockSize * n >= 0 /\ BlockSize * n \in Int
  OBVIOUS
<1>2. k \in Nat \ {0} /\ \E r \in 1..BlockSize : size = BlockSize * (k - 1) + r
  BY <1>1, SizeBounds
<1> HIDE DEF k
<1>3. BlockSize * k = BlockSize * (k - 1) + BlockSize
      /\ BlockSize * k \in Int /\ BlockSize * (k - 1) \in Int
  BY <1>2
<1>4. BlockSize * n < BlockSize * k
  BY <1>1, <1>2, <1>3
<1>5. ~(n >= k)
  <2> SUFFICES ASSUME n >= k PROVE FALSE
    OBVIOUS
  <2>1. BlockSize * n >= BlockSize * k
    BY <1>2, TimesMonotone
  <2> QED
    BY <2>1, <1>1, <1>3, <1>4
<1> QED
  BY <1>2, <1>5 DEF k

(* A smaller file has no more data blocks than a larger one.                *)
LEMMA SizeMonotone ==
  ASSUME NEW s \in Nat, NEW t \in Nat, s <= t
  PROVE  adfFileSize2Datablocks(s) <= adfFileSize2Datablocks(t)
<1> DEFINE k == adfFileSize2Datablocks(s)
<1> USE BlockAssumption
<1>1. k \in Nat
  BY SizeBounds
<1>2. adfFileSize2Datablocks(t) \in Nat
  BY SizeBounds
<1>3. CASE s = 0
  BY <1>2, <1>3, SizeBounds
<1>4. CASE s > 0
  <2>1. k > 0 /\ \E r \in 1..BlockSize : s = BlockSize * (k - 1) + r
    BY <1>4, SizeBounds
  <2> HIDE DEF k
  <2>2. k - 1 \in Nat /\ BlockSize * (k - 1) \in Int
    BY <1>1, <2>1
  <2>3. BlockSize * (k - 1) < t
    BY <2>1, <2>2
  <2>4. (k - 1) + 1 <= adfFileSize2Datablocks(t)
    BY <2>2, <2>3, BlockInFile
  <2> QED
    BY <1>1, <1>2, <2>4 DEF k
<1> QED
  BY <1>3, <1>4

-----------------------------------------------------------------------------
(* The counters *)

(* The inductive invariant, for counters f and a file of the given size:    *)
(* PositionConsistent, in a form that does not depend on dataN, ...         *)
PosOK(f, size) ==
  /\ f \in Counters
  /\ size = 0 => f.pos = 0 /\ f.posInDataBlk = 0 /\ f.nDataBlock = 0
  /\ size > 0 => /\ f.nDataBlock >= 1
                 /\ f.nDataBlock <= adfFileSize2Datablocks(size)
                 /\ f.pos = BlockSize * (f.nDataBlock - 1) + f.posInDataBlk
                 /\ f.posInDataBlk <= BlockSize
                 /\ f.pos <= size

(* ... ExtBlockConsistent, on volumes that are not OFS, ...                 *)
ExtOK(f, half) ==
  ~OFS /\ ~half /\ f.nDataBlock > MaxDatablk =>
    /\ f.extBlock = ((f.nDataBlock - 1) \div MaxDatablk) - 1
    /\ f.posInExtBlk = ((f.nDataBlock - 1) % MaxDatablk) + 1

(* ... and the numbers of blocks; an extension block without a data block is *)
(* one too many.                                                            *)
CountOK(size, seq, data, ext, half) ==
  /\ data = adfFileSize2Datablocks(size)
  /\ IF half THEN ext \in Nat /\ ext >= adfFileDatablocks2Extblocks(data)
             ELSE ext = adfFileDatablocks2Extblocks(data)
  /\ seq = IF data < MaxDatablk THEN data ELSE MaxDatablk

\* A number of extension blocks is a number.
LEMMA ExtblocksNat ==
  ASSUME NEW n \in Nat
  PROVE  adfFileDatablocks2Extblocks(n) \in Nat
<1> USE BlockAssumption
<1>1. CASE n < 1
  BY <1>1 DEF adfFileDatablocks2Extblocks
<1>2. CASE n >= 1
  <2>1. adfFileDatablocks2Extblocks(n) = (n - 1) \div MaxDatablk /\ n - 1 \in Nat
    BY <1>2 DEF adfFileDatablocks2Extblocks
  <2> QED
    BY <2>1, DivMod
<1> QED
  BY <1>1, <1>2

(* The next entry of the lists.                                             *)
LEMMA NextEntry ==
  ASSUME NEW n \in Nat, n >= MaxDatablk
  PROVE  /\ n = MaxDatablk => n \div MaxDatablk = 1 /\ n % MaxDatablk = 0
         /\ n > MaxDatablk =>
              IF n % MaxDatablk = 0
                THEN /\ n \div MaxDatablk = ((n - 1) \div MaxDatablk) + 1
                     /\ (n - 1) % MaxDatablk = MaxDatablk - 1
                ELSE /\ n \div MaxDatablk = (n - 1) \div MaxDatablk
                     /\ n % MaxDatablk = ((n - 1) % MaxDatablk) + 1
                     /\ (n - 1) % MaxDatablk # MaxDatablk - 1
<1> USE BlockAssumption
<1>1. ASSUME n = MaxDatablk
      PROVE  n \div MaxDatablk = 1 /\ n % MaxDatablk = 0
  <2>1. n = MaxDatablk * 1 + 0 /\ 1 \in Int /\ 0 \in 0..(MaxDatablk - 1)
    BY <1>1
  <2> QED
    BY <2>1, DivUnique
<1>2. n - 1 \in Nat /\ (n - 1) + 1 = n
  OBVIOUS
<1>3. IF (n - 1) % MaxDatablk = MaxDatablk - 1
        THEN n \div MaxDatablk = ((n - 1) \div MaxDatablk) + 1 /\ n % MaxDatablk = 0
        ELSE n \div MaxDatablk = (n - 1) \div MaxDatablk
             /\ n % MaxDatablk = ((n - 1) % MaxDatablk) + 1
  BY <1>2, DivNext
<1>4. (n - 1) % MaxDatablk \in 0..(MaxDatablk - 1)
  BY <1>2, DivMod
<1> QED
  BY <1>1, <1>3, <1>4

(* Counters stay counters when one block, or one extension block, is passed. *)
LEMMA CountersUpdate ==
  ASSUME NEW f \in Counters, NEW n \in Nat, NEW i \in Nat, NEW e \in Nat \cup {-1}
  PROVE  /\ [f EXCEPT !.nDataBlock = n] \in Counters
         /\ [f EXCEPT !.posInExtBlk = i, !.extBlock = e] \in Counters
         /\ [f EXCEPT !.posInExtBlk = i] \in Counters
         /\ [f EXCEPT !.nDataBlock = n, !.posInExtBlk = i] \in Counters
BY DEF Counters

\* The invariant after the next block was read.
LEMMA ReadNextOK ==
  ASSUME NEW f \in Counters, NEW half \in BOOLEAN, ExtOK(f, half)
  PROVE  LET g == adfFileReadNextBlock(f) IN
         /\ g \in Counters /\ ExtOK(g, half)
         /\ g.pos = f.pos /\ g.posInDataBlk = f.posInDataBlk
         /\ g.nDataBlock = f.nDataBlock + 1
<1> USE BlockAssumption
<1> DEFINE g == adfFileReadNextBlock(f)
           n == f.nDataBlock
<1>1. n \in Nat
  BY DEF Counters
<1>2. /\ g \in Counters /\ g.pos = f.pos /\ g.posInDataBlk = f.posInDataBlk
      /\ g.nDataBlock = n + 1
  <2>1. f.extBlock + 1 \in Nat \cup {-1} /\ f.posInExtBlk + 1 \in Nat /\ n + 1 \in Nat
    BY DEF Counters
  <2> DEFINE next == [f EXCEPT !.nDataBlock = n + 1]
  <2>2. next \in Counters
    BY <2>1, CountersUpdate
  <2>3. next.pos = f.pos /\ next.posInDataBlk = f.posInDataBlk /\ next.nDataBlock = n + 1
    BY DEF Counters
  <2>4. /\ [next EXCEPT !.posInExtBlk = 1, !.extBlock = 0] \in Counters
        /\ [next EXCEPT !.posInExtBlk = 1, !.extBlock = f.extBlock + 1] \in Counters
        /\ [next EXCEPT !.posInExtBlk = f.posInExtBlk + 1] \in Counters
    <3> HIDE DEF next, n
    <3> QED
      BY <2>1, <2>2, CountersUpdate
  <2>5. \/ g = next
        \/ g = [next EXCEPT !.posInExtBlk = 1, !.extBlock = 0]
        \/ g = [next EXCEPT !.posInExtBlk = 1, !.extBlock = f.extBlock + 1]
        \/ g = [next EXCEPT !.posInExtBlk = f.posInExtBlk + 1]
    BY Zenon DEF adfFileReadNextBlock
  <2> HIDE DEF next, g
  <2>6. /\ g \in Counters
        /\ g.pos = next.pos /\ g.posInDataBlk = next.posInDataBlk
        /\ g.nDataBlock = next.nDataBlock
    <3>1. next \in [pos : Nat, posInDataBlk : Nat, posInExtBlk : Nat,
                    nDataBlock : Nat, extBlock : Nat \cup {-1}]
      BY <2>2 DEF Counters
    <3> QED
      BY <2>2, <2>4, <2>5, <3>1
  <2> QED
    BY <2>3, <2>6
<1>3. ASSUME ~OFS, ~half, n + 1 > MaxDatablk
      PROVE  /\ g.extBlock = (n \div MaxDatablk) - 1
             /\ g.posInExtBlk = (n % MaxDatablk) + 1
  <2>1. n >= MaxDatablk
    BY <1>1, <1>3
  <2>2. CASE n = MaxDatablk
    <3>1. g.extBlock = 0 /\ g.posInExtBlk = 1
      BY <1>3, <2>2 DEF adfFileReadNextBlock, Counters
    <3>2. n \div MaxDatablk = 1 /\ n % MaxDatablk = 0
      BY <1>1, <2>1, <2>2, NextEntry
    <3> QED
      BY <3>1, <3>2
  <2>3. CASE n > MaxDatablk
    <3>1. /\ f.extBlock = ((n - 1) \div MaxDatablk) - 1
          /\ f.posInExtBlk = ((n - 1) % MaxDatablk) + 1
      BY <1>3, <2>3 DEF ExtOK
    <3>2. n - 1 \in Nat
      BY <1>1, <2>3
    <3>3. (n - 1) \div MaxDatablk \in Nat /\ (n - 1) % MaxDatablk \in 0..(MaxDatablk - 1)
      BY <3>2, DivMod
    <3>4. CASE f.posInExtBlk = MaxDatablk
      <4>1. g.extBlock = f.extBlock + 1 /\ g.posInExtBlk = 1
        BY <1>1, <1>3, <2>3, <3>4 DEF adfFileReadNextBlock, Counters
      <4>2. (n - 1) % MaxDatablk = MaxDatablk - 1
        BY <3>1, <3>3, <3>4
      <4>3. n \div MaxDatablk = ((n - 1) \div MaxDatablk) + 1 /\ n % MaxDatablk = 0
        BY <1>1, <2>1, <2>3, <4>2, NextEntry
      <4> QED
        BY <3>1, <3>3, <4>1, <4>3
    <3>5. CASE f.posInExtBlk # MaxDatablk
      <4>1. g.extBlock = f.extBlock /\ g.posInExtBlk = f.posInExtBlk + 1
        BY <1>1, <1>3, <2>3, <3>5 DEF adfFileReadNextBlock, Counters
      <4>2. (n - 1) % MaxDatablk # MaxDatablk - 1
        BY <3>1, <3>3, <3>5
      <4>3. /\ n \div MaxDatablk = (n - 1) \div MaxDatablk
            /\ n % MaxDatablk = ((n - 1) % MaxDatablk) + 1
        BY <1>1, <2>1, <2>3, <4>2, NextEntry
      <4> QED
        BY <3>1, <3>3, <4>1, <4>3
    <3> QED
      BY <3>4, <3>5
  <2> QED
    BY <1>1, <2>1, <2>2, <2>3
<1>4. ExtOK(g, half)
  <2>1. g.nDataBlock - 1 = n
    BY <1>1, <1>2
  <2> HIDE DEF g
  <2> QED
    BY <1>2, <1>3, <2>1 DEF ExtOK
<1> QED
  BY <1>2, <1>4

\* The invariant after a block was added.
LEMMA CreateNextOK ==
  ASSUME NEW f \in Counters, NEW half \in BOOLEAN, ExtOK(f, half)
  PROVE  LET g == adfFileCreateNextBlock(f) IN
         /\ g \in Counters /\ ExtOK(g, half)
         /\ g.pos = f.pos /\ g.posInDataBlk = f.posInDataBlk
         /\ g.nDataBlock = f.nDataBlock + 1
<1> USE BlockAssumption
<1> DEFINE g == adfFileCreateNextBlock(f)
           n == f.nDataBlock
<1>1. n \in Nat
  BY DEF Counters
<1>2. /\ g \in Counters /\ g.pos = f.pos /\ g.posInDataBlk = f.posInDataBlk
      /\ g.nDataBlock = n + 1
  <2> DEFINE e == IF NeedsExt(n) THEN CreateExt(f) ELSE f
  <2>1. CreateExt(f) \in Counters
        /\ CreateExt(f).pos = f.pos /\ CreateExt(f).posInDataBlk = f.posInDataBlk
    <3>1. 0 \in Nat /\ (IF n = MaxDatablk THEN 0 ELSE f.extBlock + 1) \in Nat \cup {-1}
      BY DEF Counters
    <3>2. CreateExt(f) \in Counters
      BY <3>1, CountersUpdate DEF CreateExt
    <3> QED
      BY <3>2 DEF CreateExt, Counters
  <2>2. e \in Counters /\ e.pos = f.pos /\ e.posInDataBlk = f.posInDataBlk
    BY <2>1
  <2>3. g = [e EXCEPT !.nDataBlock = n + 1,
                      !.posInExtBlk = IF n < MaxDatablk THEN f.posInExtBlk
                                                        ELSE e.posInExtBlk + 1]
    BY DEF adfFileCreateNextBlock
  <2> HIDE DEF e, g
  <2>4. n + 1 \in Nat /\ f.posInExtBlk \in Nat /\ e.posInExtBlk + 1 \in Nat
    BY <2>2 DEF Counters
  <2>5. g \in Counters
    BY <2>2, <2>3, <2>4, CountersUpdate
  <2> QED
    BY <2>2, <2>3, <2>5 DEF Counters
<1>3. ASSUME ~OFS, ~half, n + 1 > MaxDatablk
      PROVE  /\ g.extBlock = (n \div MaxDatablk) - 1
             /\ g.posInExtBlk = (n % MaxDatablk) + 1
  <2>1. n >= MaxDatablk
    BY <1>1, <1>3
  <2>2. CASE n = MaxDatablk
    <3>1. n \div MaxDatablk = 1 /\ n % MaxDatablk = 0
      BY <1>1, <2>1, <2>2, NextEntry
    <3>2. NeedsExt(n)
      BY <2>1, <3>1 DEF NeedsExt
    <3>3. g.extBlock = 0 /\ g.posInExtBlk = 1
      BY <2>2, <3>2 DEF adfFileCreateNextBlock, CreateExt, Counters
    <3> QED
      BY <3>1, <3>3
  <2>3. CASE n > MaxDatablk
    <3>1. /\ f.extBlock = ((n - 1) \div MaxDatablk) - 1
          /\ f.posInExtBlk = ((n - 1) % MaxDatablk) + 1
      BY <1>3, <2>3 DEF ExtOK
    <3>2. n - 1 \in Nat
      BY <1>1, <2>3
    <3>3. (n - 1) \div MaxDatablk \in Nat /\ (n - 1) % MaxDatablk \in 0..(MaxDatablk - 1)
      BY <3>2, DivMod
    <3>4. CASE NeedsExt(n)
      <4>1. g.extBlock = f.extBlock + 1 /\ g.posInExtBlk = 1
        BY <1>1, <2>3, <3>4 DEF adfFileCreateNextBlock, CreateExt, Counters
      <4>2. n % MaxDatablk = 0
        BY <3>4 DEF NeedsExt
      <4>3. n \div MaxDatablk = ((n - 1) \div MaxDatablk) + 1
        BY <1>1, <2>1, <2>3, <4>2, NextEntry
      <4> QED
        BY <3>1, <3>3, <4>1, <4>2, <4>3
    <3>5. CASE ~NeedsExt(n)
      <4>1. g.extBlock = f.extBlock /\ g.posInExtBlk = f.posInExtBlk + 1
        BY <1>1, <2>3, <3>5 DEF adfFileCreateNextBlock, Counters
      <4>2. n % MaxDatablk # 0
        BY <2>1, <3>5 DEF NeedsExt
      <4>3. /\ n \div MaxDatablk = (n - 1) \div MaxDatablk
            /\ n % MaxDatablk = ((n - 1) % MaxDatablk) + 1
        BY <1>1, <2>1, <2>3, <4>2, NextEntry
      <4> QED
        BY <3>1, <3>3, <4>1, <4>3
    <3> QED
      BY <3>4, <3>5
  <2> QED
    BY <1>1, <2>1, <2>2, <2>3
<1>4. ExtOK(g, half)
  <2>1. g.nDataBlock - 1 = n
    BY <1>1, <1>2
  <2> HIDE DEF g
  <2> QED
    BY <1>2, <1>3, <2>1 DEF ExtOK
<1> QED
  BY <1>2, <1>4

\* The invariant at the start of the file.
LEMMA SeekStartOK ==
  ASSUME NEW f \in Counters, NEW half \in BOOLEAN, NEW size \in Nat
  PROVE  LET g == adfFileSeekStart(f, size) IN
         PosOK(g, size) /\ ExtOK(g, half) /\ g.pos = 0 /\ g.posInDataBlk = 0
<1> USE BlockAssumption
<1> DEFINE start == [f EXCEPT !.pos = 0, !.posInExtBlk = 0, !.posInDataBlk = 0,
                              !.nDataBlock = 0]
           g == adfFileSeekStart(f, size)
<1>1. /\ start \in Counters /\ start.pos = 0 /\ start.posInDataBlk = 0
      /\ start.nDataBlock = 0
  BY DEF Counters
<1>2. g = IF size = 0 THEN start ELSE adfFileReadNextBlock(start)
  BY DEF adfFileSeekStart
<1> HIDE DEF start, g
<1>3. ExtOK(start, half)
  BY <1>1 DEF ExtOK
<1>4. CASE size = 0
  BY <1>1, <1>2, <1>3, <1>4 DEF PosOK, g
<1>5. CASE size > 0
  <2>1. /\ g \in Counters /\ ExtOK(g, half) /\ g.pos = 0 /\ g.posInDataBlk = 0
        /\ g.nDataBlock = 1
    BY <1>1, <1>2, <1>3, <1>5, ReadNextOK
  <2>2. 0 + 1 <= adfFileSize2Datablocks(size)
    BY <1>5, BlockInFile
  <2>3. 0 = BlockSize * (1 - 1) + 0
    OBVIOUS
  <2> QED
    BY <1>5, <2>1, <2>2, <2>3 DEF PosOK, g
<1> QED
  BY <1>4, <1>5

\* The invariant after seeking through extension blocks.
LEMMA SeekExtOK ==
  ASSUME NEW f \in Counters, NEW half \in BOOLEAN, NEW size \in Nat, NEW pos \in Nat, pos < size
  PROVE  LET g == adfFileSeekExt(f, pos) IN
         PosOK(g, size) /\ ExtOK(g, half) /\ g.pos = pos
         /\ g.posInDataBlk = pos % BlockSize
<1> USE BlockAssumption
<1> DEFINE g  == adfFileSeekExt(f, pos)
           at == adfFilePos2DataBlock(pos)
           d  == pos \div BlockSize
           r  == pos % BlockSize
<1>1. /\ d \in Nat /\ r \in 0..(BlockSize - 1) /\ pos = BlockSize * d + r
      /\ at.curDataN = d /\ at.posInDataBlk = r
      /\ d < MaxDatablk => at.extBlock = -1
      /\ d >= MaxDatablk => /\ at.extBlock = (d \div MaxDatablk) - 1
                            /\ at.posInExtBlk = d % MaxDatablk
                            /\ d \div MaxDatablk >= 1
  BY Pos2DataBlock
<1>2. /\ g.pos = pos /\ g.posInDataBlk = at.posInDataBlk
      /\ g.nDataBlock = at.curDataN + 1
      /\ g.posInExtBlk = IF at.extBlock = -1 THEN 0 ELSE at.posInExtBlk + 1
      /\ g.extBlock = IF at.extBlock = -1 THEN f.extBlock ELSE at.extBlock
      /\ g = [pos |-> g.pos, posInDataBlk |-> g.posInDataBlk,
              nDataBlock |-> g.nDataBlock, posInExtBlk |-> g.posInExtBlk,
              extBlock |-> g.extBlock]
  BY DEF adfFileSeekExt
<1>3. d \div MaxDatablk \in Nat /\ d % MaxDatablk \in 0..(MaxDatablk - 1)
  BY <1>1, DivMod
<1> HIDE DEF g, at, d, r
<1>4. /\ d >= MaxDatablk => /\ g.extBlock = (d \div MaxDatablk) - 1
                            /\ g.posInExtBlk = (d % MaxDatablk) + 1
      /\ g.extBlock \in Nat \cup {-1} /\ g.posInExtBlk \in Nat
  BY <1>1, <1>2, <1>3 DEF Counters
<1>5. g \in Counters
  BY <1>1, <1>2, <1>4 DEF Counters
<1>6. d + 1 <= adfFileSize2Datablocks(size)
  <2>1. BlockSize * d \in Int /\ BlockSize * d < size
    BY <1>1
  <2> QED
    BY <1>1, <2>1, BlockInFile
<1>7. g.nDataBlock = d + 1 /\ g.nDataBlock - 1 = d
  BY <1>1, <1>2
<1>8. PosOK(g, size)
  BY <1>1, <1>2, <1>5, <1>6, <1>7 DEF PosOK
<1>9. ExtOK(g, half)
  BY <1>1, <1>4, <1>7 DEF ExtOK
<1> QED
  BY <1>1, <1>2, <1>8, <1>9 DEF g, r

(* A position inside the file: unless the counters are there already, they  *)
(* go to the data block that holds the byte at pos.                         *)
LEMMA SeekInsideOK ==
  ASSUME NEW f \in Counters, NEW half \in BOOLEAN, NEW size \in Nat, NEW pos \in Nat, pos < size,
         ExtOK(f, half), f.pos = pos /\ Loaded(f) => PosOK(f, size)
  PROVE  LET g == SeekInside(f, pos, size) IN
         PosOK(g, size) /\ ExtOK(g, half) /\ g.pos = pos
         /\ (f.pos # pos => g.posInDataBlk = pos % BlockSize)
<1> USE BlockAssumption
<1> DEFINE g == SeekInside(f, pos, size)
<1>1. CASE StaysInBlock(f, pos)
  <2>1. Loaded(f) /\ g = MoveInBlock(f, pos, size)
    BY <1>1 DEF StaysInBlock, SeekInside
  <2>2. CASE f.pos = pos
    <3>1. g = f
      BY <2>1, <2>2 DEF MoveInBlock
    <3> QED
      BY <2>1, <2>2, <3>1
  <2>3. CASE f.pos # pos
    <3>1. f.nDataBlock - 1 = pos \div BlockSize
      BY <1>1, <2>3 DEF StaysInBlock
    <3>2. g = [f EXCEPT !.pos = pos, !.posInDataBlk = pos % BlockSize]
      BY <2>1, <2>3 DEF MoveInBlock
    <3>3. /\ pos \div BlockSize \in Nat /\ pos % BlockSize \in 0..(BlockSize - 1)
          /\ pos = BlockSize * (pos \div BlockSize) + (pos % BlockSize)
      BY DivMod
    <3>4. pos % BlockSize \in Nat /\ pos % BlockSize <= BlockSize
      BY <3>3
    <3>5. /\ g \in Counters /\ g.pos = pos /\ g.posInDataBlk = pos % BlockSize
          /\ g.nDataBlock = f.nDataBlock /\ g.extBlock = f.extBlock
          /\ g.posInExtBlk = f.posInExtBlk
      <4> HIDE DEF g
      <4> QED
        BY <3>2, <3>4 DEF Counters
    <3> HIDE DEF g
    <3>6. ExtOK(g, half)
      BY <3>5 DEF ExtOK
    <3>7. g.nDataBlock >= 1 /\ g.nDataBlock <= adfFileSize2Datablocks(size)
      <4> DEFINE d == pos \div BlockSize
      <4>1. BlockSize * d < size
        <5> HIDE DEF d
        <5>1. d \in Nat /\ pos = BlockSize * d + (pos % BlockSize)
          BY <3>3 DEF d
        <5>2. BlockSize * d \in Int
          BY <5>1
        <5> QED
          BY <3>3, <5>1, <5>2
      <4>2. d + 1 <= adfFileSize2Datablocks(size)
        BY <3>3, <4>1, BlockInFile
      <4>3. g.nDataBlock = d + 1 /\ d \in Nat
        BY <3>1, <3>3, <3>5 DEF Counters
      <4> HIDE DEF d
      <4> QED
        BY <4>2, <4>3
    <3>8. PosOK(g, size)
      <4>1. g.pos = BlockSize * (g.nDataBlock - 1) + g.posInDataBlk
        BY <3>1, <3>3, <3>5, Zenon
      <4>2. g.posInDataBlk <= BlockSize /\ g.pos <= size
        BY <3>4, <3>5
      <4> QED
        BY <3>5, <3>7, <4>1, <4>2 DEF PosOK
    <3> QED
      BY <3>5, <3>6, <3>8 DEF g
  <2> QED
    BY <2>2, <2>3
<1>2. CASE ~StaysInBlock(f, pos) /\ pos = 0
  <2>1. g = adfFileSeekStart(f, size)
    BY <1>2 DEF SeekInside
  <2>2. pos % BlockSize = 0
    <3>1. 0 = BlockSize * 0 + 0 /\ 0 \in 0..(BlockSize - 1)
      OBVIOUS
    <3> QED
      BY <1>2, <3>1, DivUnique
  <2> QED
    BY <1>2, <2>1, <2>2, SeekStartOK
<1>3. CASE ~StaysInBlock(f, pos) /\ pos # 0
  <2>1. g = adfFileSeekExt(f, pos)
    BY <1>3 DEF SeekInside
  <2> QED
    BY <2>1, SeekExtOK
<1> QED
  BY <1>1, <1>2, <1>3

(* The end of the file.                                                     *)
LEMMA SeekEOFOK ==
  ASSUME NEW f \in Counters, NEW half \in BOOLEAN, NEW size \in Nat, ExtOK(f, half)
  PROVE  LET g == adfFileSeekEOF(f, size) IN
         PosOK(g, size) /\ ExtOK(g, half) /\ g.pos = size
<1> USE BlockAssumption
<1> DEFINE g == adfFileSeekEOF(f, size)
<1>1. CASE size = 0
  <2>1. g = adfFileSeekStart(f, size)
    BY <1>1 DEF adfFileSeekEOF
  <2> QED
    BY <1>1, <2>1, SeekStartOK
<1>2. CASE size > 0
  <2> DEFINE e == [f EXCEPT !.pos = size]
             h == SeekInside(e, size - 1, size)
             r == (size - 1) % BlockSize
             d == (size - 1) \div BlockSize
             end == IF size % BlockSize = 0 THEN BlockSize ELSE size % BlockSize
  <2>1. /\ e \in Counters /\ e.pos = size /\ e.nDataBlock = f.nDataBlock
        /\ e.extBlock = f.extBlock /\ e.posInExtBlk = f.posInExtBlk
    BY DEF Counters
  <2>2. g = [h EXCEPT !.pos = size, !.posInDataBlk = end]
    BY <1>2 DEF adfFileSeekEOF
  <2> HIDE DEF e, h, g, end
  <2>3. ExtOK(e, half)
    BY <2>1 DEF ExtOK
  <2>4. size - 1 \in Nat /\ size - 1 < size /\ e.pos # size - 1
    BY <1>2, <2>1
  <2>5. PosOK(h, size) /\ ExtOK(h, half) /\ h.pos = size - 1 /\ h.posInDataBlk = r
    BY <2>1, <2>3, <2>4, SeekInsideOK DEF h
  <2>6. r \in 0..(BlockSize - 1)
    BY <2>4, DivMod
  <2> HIDE DEF r
  <2>7. /\ h \in Counters /\ h.nDataBlock >= 1
        /\ h.nDataBlock <= adfFileSize2Datablocks(size)
        /\ size - 1 = BlockSize * (h.nDataBlock - 1) + r
    BY <1>2, <2>5 DEF PosOK
  <2>8. end = r + 1
    <3> DEFINE n == h.nDataBlock
    <3>1. n \in Nat /\ n - 1 \in Int
      BY <2>7 DEF Counters
    <3> HIDE DEF n
    <3>2. size - 1 = BlockSize * (n - 1) + r /\ BlockSize * (n - 1) \in Int
      BY <2>7, <3>1 DEF n
    <3>3. CASE r = BlockSize - 1
      <4>1. BlockSize * n = BlockSize * (n - 1) + BlockSize
        BY <3>1
      <4>2. size = BlockSize * n + 0
        BY <3>1, <3>2, <3>3, <4>1
      <4>3. size % BlockSize = 0
        BY <3>1, <4>2, DivUnique
      <4> QED
        BY <3>3, <4>3 DEF end
    <3>4. CASE r # BlockSize - 1
      <4>1. size = BlockSize * (n - 1) + (r + 1) /\ r + 1 \in 0..(BlockSize - 1)
        BY <2>6, <3>2, <3>4
      <4>2. size % BlockSize = r + 1
        BY <3>1, <4>1, DivUnique
      <4> QED
        BY <2>6, <4>2 DEF end
    <3> QED
      BY <3>3, <3>4
  <2>9. end \in Nat /\ end <= BlockSize
    BY <2>6, <2>8
  <2>10. /\ g \in Counters /\ g.pos = size /\ g.posInDataBlk = end
         /\ g.nDataBlock = h.nDataBlock /\ g.extBlock = h.extBlock
         /\ g.posInExtBlk = h.posInExtBlk
    BY <2>2, <2>7, <2>9 DEF Counters
  <2>11. size = BlockSize * (h.nDataBlock - 1) + end
    <3> DEFINE p == BlockSize * (h.nDataBlock - 1)
    <3>1. p \in Int
      BY <2>7 DEF Counters
    <3>2. size - 1 = p + r
      BY <2>7
    <3> HIDE DEF p
    <3>3. size = p + end
      BY <2>6, <2>8, <3>1, <3>2
    <3> QED
      BY <3>3 DEF p
  <2>12. PosOK(g, size)
    BY <1>2, <2>7, <2>9, <2>10, <2>11 DEF PosOK
  <2>13. ExtOK(g, half)
    BY <2>5, <2>10 DEF ExtOK
  <2> QED
    BY <2>10, <2>12, <2>13 DEF g
<1> QED
  BY <1>1, <1>2

(* Any position: one past the end of the file means its end.                *)
LEMMA SeekToOK ==
  ASSUME NEW f, NEW half \in BOOLEAN, NEW size \in Nat, NEW pos \in Nat,
         PosOK(f, size), ExtOK(f, half)
  PROVE  LET g == SeekTo(f, pos, size) IN
         PosOK(g, size) /\ ExtOK(g, half) /\ (pos <= size => g.pos = pos)
<1> USE BlockAssumption
<1> DEFINE g == SeekTo(f, pos, size)
<1>1. f \in Counters
  BY DEF PosOK
<1>2. CASE pos < size
  <2>1. g = SeekInside(f, pos, size)
    BY <1>2 DEF SeekTo
  <2> QED
    BY <1>1, <1>2, <2>1, SeekInsideOK
<1>3. CASE pos >= size /\ StaysInBlock(f, pos)
  <2>1. g = MoveInBlock(f, pos, size)
    BY <1>3 DEF SeekTo, SeekInside
  <2>2. CASE f.pos = pos
    <3>1. g = f
      BY <2>1, <2>2 DEF MoveInBlock
    <3> QED
      BY <2>2, <3>1
  <2>3. CASE f.pos # pos
    <3> DEFINE n == f.nDataBlock
               p == BlockSize * (n - 1)
    <3>1. n \in Nat \ {0} /\ n - 1 = pos \div BlockSize
      BY <1>1, <1>3, <2>3 DEF StaysInBlock, Loaded, Counters
    <3>2. g = [f EXCEPT !.pos = size, !.posInDataBlk = size % BlockSize]
      <4> DEFINE to == IF pos < size THEN pos ELSE size
      <4>1. to = size
        BY <1>3
      <4>2. g = [f EXCEPT !.pos = to, !.posInDataBlk = to % BlockSize]
        BY <2>1, <2>3 DEF MoveInBlock
      <4> HIDE DEF to, g
      <4> QED
        BY <4>1, <4>2
    <3>3. size > 0
      BY <3>1 DEF PosOK
    <3>4. /\ n <= adfFileSize2Datablocks(size)
          /\ f.pos = p + f.posInDataBlk /\ f.pos <= size
          /\ f.posInDataBlk \in Nat /\ f.pos \in Nat
      BY <1>1, <3>3 DEF PosOK, Counters
    <3>5. p \in Int
      BY <3>1
    <3>6. pos < p + BlockSize
      <4> DEFINE d == pos \div BlockSize
      <4>1. d \in Nat /\ pos % BlockSize \in 0..(BlockSize - 1)
            /\ pos = BlockSize * d + (pos % BlockSize)
        BY DivMod
      <4>2. BlockSize * d = p
        BY <3>1
      <4> HIDE DEF d, p
      <4> QED
        BY <4>1, <4>2, <3>5
    <3> HIDE DEF p
    <3>7. size - p \in 0..(BlockSize - 1) /\ size = p + (size - p)
      BY <1>3, <3>4, <3>5, <3>6
    <3>8. size % BlockSize = size - p
      <4>1. n - 1 \in Int /\ size = BlockSize * (n - 1) + (size - p)
        BY <3>1, <3>7 DEF p
      <4> HIDE DEF n
      <4> QED
        BY <4>1, <3>7, DivUnique
    <3>9. /\ g \in Counters /\ g.pos = size /\ g.posInDataBlk = size - p
          /\ g.nDataBlock = n /\ g.extBlock = f.extBlock
          /\ g.posInExtBlk = f.posInExtBlk
      <4> HIDE DEF g
      <4> DEFINE newIn == size - p
      <4>1. g = [f EXCEPT !.pos = size, !.posInDataBlk = newIn]
        BY <3>2, <3>8
      <4>2. newIn \in Nat
        BY <3>7
      <4> HIDE DEF newIn
      <4>3. /\ g \in Counters /\ g.pos = size /\ g.posInDataBlk = newIn
            /\ g.nDataBlock = f.nDataBlock /\ g.extBlock = f.extBlock
            /\ g.posInExtBlk = f.posInExtBlk
        BY <1>1, <4>1, <4>2 DEF Counters
      <4> QED
        BY <4>3 DEF newIn
    <3> HIDE DEF g
    <3>10. PosOK(g, size)
      <4>1. g.pos = BlockSize * (g.nDataBlock - 1) + g.posInDataBlk
        BY <3>7, <3>9, Zenon DEF p
      <4>2. g.posInDataBlk <= BlockSize /\ g.pos <= size
        BY <3>7, <3>9
      <4> QED
        BY <3>1, <3>3, <3>4, <3>9, <4>1, <4>2 DEF PosOK
    <3>11. ExtOK(g, half)
      BY <3>9 DEF ExtOK
    <3>12. pos <= size => g.pos = pos
      BY <1>3, <3>9
    <3> QED
      BY <3>10, <3>11, <3>12 DEF g
  <2> QED
    BY <2>2, <2>3
<1>4. CASE pos >= size /\ ~StaysInBlock(f, pos)
  <2>1. g = adfFileSeekEOF(f, size)
    BY <1>4 DEF SeekTo
  <2>2. PosOK(g, size) /\ ExtOK(g, half) /\ g.pos = size
    BY <1>1, <2>1, SeekEOFOK
  <2>3. pos <= size => pos = size
    BY <1>4
  <2> HIDE DEF g
  <2> QED
    BY <2>2, <2>3 DEF g
<1> QED
  BY <1>2, <1>3, <1>4

(* Moving n bytes forward in the current data block, perhaps past the end   *)
(* of the file, which grows to newSize then.                                *)
LEMMA ForwardOK ==
  ASSUME NEW f \in Counters, NEW half \in BOOLEAN, NEW size \in Nat, NEW n \in Nat \ {0},
         f.nDataBlock >= 1, f.nDataBlock <= adfFileSize2Datablocks(size),
         f.pos = BlockSize * (f.nDataBlock - 1) + f.posInDataBlk,
         n <= BlockSize - f.posInDataBlk,
         ExtOK(f, half)
  PROVE  LET g == [f EXCEPT !.pos = @ + n, !.posInDataBlk = @ + n]
             newSize == IF size < f.pos + n THEN f.pos + n ELSE size
         IN
         /\ PosOK(g, newSize) /\ ExtOK(g, half)
         /\ adfFileSize2Datablocks(newSize) = adfFileSize2Datablocks(size)
<1> USE BlockAssumption
<1> DEFINE g == [f EXCEPT !.pos = @ + n, !.posInDataBlk = @ + n]
           newSize == IF size < f.pos + n THEN f.pos + n ELSE size
           b == f.nDataBlock
           p == BlockSize * (b - 1)
<1>1. b \in Nat /\ f.pos \in Nat /\ f.posInDataBlk \in Nat
  BY DEF Counters
<1>0. newSize \in Nat /\ newSize = (IF size < f.pos + n THEN f.pos + n ELSE size)
  BY <1>1
<1> HIDE DEF newSize
<1> USE <1>0
<1>2. p \in Int
  BY <1>1
<1>3. /\ g \in Counters /\ g.pos = f.pos + n /\ g.posInDataBlk = f.posInDataBlk + n
      /\ g.nDataBlock = b /\ g.extBlock = f.extBlock /\ g.posInExtBlk = f.posInExtBlk
  <2> DEFINE newPos == f.pos + n
             newIn  == f.posInDataBlk + n
  <2>1. g = [f EXCEPT !.pos = newPos, !.posInDataBlk = newIn]
    OBVIOUS
  <2>2. newPos \in Nat /\ newIn \in Nat
    BY <1>1
  <2> HIDE DEF g, newPos, newIn
  <2>3. /\ g \in Counters /\ g.pos = newPos /\ g.posInDataBlk = newIn
        /\ g.nDataBlock = f.nDataBlock /\ g.extBlock = f.extBlock
        /\ g.posInExtBlk = f.posInExtBlk
    BY <2>1, <2>2 DEF Counters
  <2> QED
    BY <2>3 DEF newPos, newIn
<1>4. f.pos = p + f.posInDataBlk
  OBVIOUS
<1> HIDE DEF g, p
<1>5. adfFileSize2Datablocks(newSize) = adfFileSize2Datablocks(size)
  <2>1. CASE size < f.pos + n
    <3>1. newSize = p + (f.posInDataBlk + n) /\ f.posInDataBlk + n \in 1..BlockSize
      BY <1>1, <1>2, <1>4, <2>1
    <3>2. b \in Nat \ {0} /\ newSize = BlockSize * (b - 1) + (f.posInDataBlk + n)
      BY <1>1, <3>1 DEF p
    <3>3. adfFileSize2Datablocks(newSize) = b
      <4> HIDE DEF b
      <4> QED
        BY <3>1, <3>2, SizeUnique
    <3>4. adfFileSize2Datablocks(size) <= adfFileSize2Datablocks(newSize)
      BY <1>1, <2>1, SizeMonotone
    <3>5. adfFileSize2Datablocks(size) \in Nat /\ b <= adfFileSize2Datablocks(size)
      BY SizeBounds
    <3> HIDE DEF b
    <3> QED
      BY <1>1, <3>3, <3>4, <3>5
  <2>2. CASE ~(size < f.pos + n)
    BY <2>2
  <2> QED
    BY <2>1, <2>2
<1>6. newSize > 0 /\ g.pos <= newSize
  BY <1>1, <1>3
<1>7. g.pos = BlockSize * (g.nDataBlock - 1) + g.posInDataBlk
  <2>1. g.pos = p + g.posInDataBlk
    BY <1>1, <1>2, <1>3, <1>4
  <2> QED
    BY <1>3, <2>1 DEF p
<1>8. g.posInDataBlk <= BlockSize
  BY <1>1, <1>3
<1>9. PosOK(g, newSize)
  BY <1>3, <1>5, <1>6, <1>7, <1>8 DEF PosOK
<1>10. ExtOK(g, half)
  BY <1>3 DEF ExtOK
<1> QED
  BY <1>5, <1>9, <1>10 DEF g

-----------------------------------------------------------------------------
(* The invariant *)

(* What adfFileTruncate does wrong is kept out: files are cut inside a data  *)
(* block.                                                                    *)
Orderly == \A n \in TruncateTo : n % BlockSize # 0

IInv ==
  /\ byteSize \in Nat /\ refused \in BOOLEAN
  /\ PosOK(file, byteSize)
  /\ ExtOK(file, refused)
  /\ CountOK(byteSize, highSeq, dataN, extN, refused)

(* At the end of a file that ends with a full data block, that block is the *)
(* current one.                                                             *)
LEMMA AtLastBlock ==
  ASSUME NEW f, NEW size \in Nat, PosOK(f, size), f.pos = size, size % BlockSize = 0
  PROVE  /\ f.nDataBlock = adfFileSize2Datablocks(size)
         /\ size = BlockSize * f.nDataBlock
<1> USE BlockAssumption
<1> DEFINE n == f.nDataBlock
           k == adfFileSize2Datablocks(size)
<1>1. CASE size = 0
  <2>1. n = 0 /\ k = 0
    BY <1>1, SizeBounds DEF PosOK
  <2> QED
    BY <1>1, <2>1
<1>2. CASE size > 0
  <2>1. /\ n \in Nat /\ n >= 1 /\ n <= k
        /\ f.posInDataBlk \in Nat /\ f.posInDataBlk <= BlockSize
        /\ size = BlockSize * (n - 1) + f.posInDataBlk
    BY <1>2 DEF PosOK, Counters
  <2>2. k \in Nat /\ k > 0
    BY <1>2, SizeBounds
  <2>3. PICK r \in 1..BlockSize : size = BlockSize * (k - 1) + r
    BY <1>2, SizeBounds
  <2> HIDE DEF n, k
  <2>4. r = BlockSize
    <3> SUFFICES ASSUME r # BlockSize PROVE FALSE
      OBVIOUS
    <3>1. r \in 0..(BlockSize - 1) /\ k - 1 \in Int
      BY <2>2
    <3>2. size % BlockSize = r
      BY <2>3, <3>1, DivUnique
    <3> QED
      BY <2>3, <3>2
  <2>5. BlockSize * k = BlockSize * (k - 1) + BlockSize /\ BlockSize * k \in Int
    BY <2>2
  <2>6. BlockSize * n = BlockSize * (n - 1) + BlockSize /\ BlockSize * (n - 1) \in Int
    BY <2>1
  <2>7. size = BlockSize * k
    BY <2>3, <2>4, <2>5
  <2>8. BlockSize * n >= BlockSize * k
    BY <2>1, <2>6, <2>7
  <2>9. n = k
    <3> SUFFICES ASSUME k >= n + 1 PROVE FALSE
      BY <2>1, <2>2
    <3>1. BlockSize * k >= BlockSize * (n + 1)
      BY <2>1, <2>2, TimesMonotone
    <3>2. BlockSize * (n + 1) = BlockSize * n + BlockSize
      BY <2>1
    <3> QED
      BY <2>5, <2>6, <2>8, <3>1, <3>2
  <2> QED
    BY <2>7, <2>9 DEF n, k
<1> QED
  BY <1>1, <1>2

(* Inside the file, at the end of a data block: the counters are after the   *)
(* last byte of block nDataBlock - 1, or before the first of a block.        *)
LEMMA AtEnd ==
  ASSUME NEW f, NEW size \in Nat, size > 0, PosOK(f, size)
  PROVE  /\ f.pos % BlockSize = 0 => f.posInDataBlk = 0 \/ f.posInDataBlk = BlockSize
         /\ f.pos % BlockSize # 0 => f.posInDataBlk \in 1..(BlockSize - 1)
         /\ f.posInDataBlk = BlockSize /\ f.pos < size =>
              f.nDataBlock + 1 <= adfFileSize2Datablocks(size)
         /\ f.posInDataBlk = BlockSize => f.pos = BlockSize * f.nDataBlock
<1> USE BlockAssumption
<1> DEFINE n == f.nDataBlock
<1>1. /\ n \in Nat /\ n >= 1 /\ f.pos \in Nat
      /\ f.posInDataBlk \in Nat /\ f.posInDataBlk <= BlockSize
      /\ f.pos = BlockSize * (n - 1) + f.posInDataBlk
  BY DEF PosOK, Counters
<1> HIDE DEF n
<1>2. BlockSize * n = BlockSize * (n - 1) + BlockSize /\ BlockSize * (n - 1) \in Int
  BY <1>1
<1>3. CASE f.posInDataBlk = BlockSize
  <2>1. f.pos = BlockSize * n + 0 /\ n \in Int /\ 0 \in 0..(BlockSize - 1)
    BY <1>1, <1>2, <1>3
  <2>2. f.pos % BlockSize = 0
    <3> DEFINE pos == f.pos
    <3>1. pos \in Nat /\ pos = BlockSize * n + 0
      BY <1>1, <2>1
    <3> HIDE DEF pos
    <3>2. pos % BlockSize = 0
      BY <2>1, <3>1, DivUnique
    <3> QED
      BY <3>2 DEF pos
  <2>3. f.pos < size => n + 1 <= adfFileSize2Datablocks(size)
    <3>1. BlockSize * n = f.pos
      BY <1>1, <1>2, <1>3
    <3> QED
      BY <1>1, <3>1, BlockInFile
  <2>4. f.pos = BlockSize * n
    BY <1>1, <1>2, <1>3
  <2> QED
    BY <1>3, <2>2, <2>3, <2>4 DEF n
<1>4. CASE f.posInDataBlk # BlockSize
  <2>1. f.posInDataBlk \in 0..(BlockSize - 1) /\ n - 1 \in Int
    BY <1>1, <1>4
  <2>2. f.pos % BlockSize = f.posInDataBlk
    BY <1>1, <2>1, DivUnique
  <2> QED
    BY <1>4, <2>1, <2>2
<1> QED
  BY <1>3, <1>4

(* From the end of a data block inside the file to the start of the next.    *)
LEMMA NextBlockOK ==
  ASSUME NEW f, NEW half \in BOOLEAN, NEW size \in Nat, size > 0, PosOK(f, size), ExtOK(f, half),
         f.posInDataBlk = BlockSize, f.pos < size
  PROVE  LET g == [adfFileReadNextBlock(f) EXCEPT !.posInDataBlk = 0] IN
         /\ g \in Counters /\ ExtOK(g, half) /\ g.pos = f.pos /\ g.posInDataBlk = 0
         /\ g.nDataBlock >= 1 /\ g.nDataBlock <= adfFileSize2Datablocks(size)
         /\ g.pos = BlockSize * (g.nDataBlock - 1) + g.posInDataBlk
<1> USE BlockAssumption
<1> DEFINE c == adfFileReadNextBlock(f)
           g == [c EXCEPT !.posInDataBlk = 0]
<1>1. f \in Counters /\ f.nDataBlock \in Nat /\ f.pos \in Nat
  BY DEF PosOK, Counters
<1>2. /\ c \in Counters /\ ExtOK(c, half) /\ c.pos = f.pos
      /\ c.nDataBlock = f.nDataBlock + 1
  BY <1>1, ReadNextOK
<1> HIDE DEF c
<1>3. /\ g \in Counters /\ g.pos = c.pos /\ g.posInDataBlk = 0
      /\ g.nDataBlock = c.nDataBlock /\ g.extBlock = c.extBlock
      /\ g.posInExtBlk = c.posInExtBlk
  BY <1>2 DEF Counters
<1> HIDE DEF g
<1>4. ExtOK(g, half)
  BY <1>2, <1>3 DEF ExtOK
<1>5. f.pos = BlockSize * f.nDataBlock
      /\ f.nDataBlock + 1 <= adfFileSize2Datablocks(size)
  BY AtEnd
<1>6. g.nDataBlock - 1 = f.nDataBlock
  BY <1>1, <1>2, <1>3
<1>7. g.pos = BlockSize * (g.nDataBlock - 1) + g.posInDataBlk
  BY <1>1, <1>2, <1>3, <1>5, <1>6
<1>8. g.nDataBlock >= 1 /\ g.nDataBlock <= adfFileSize2Datablocks(size)
  BY <1>1, <1>2, <1>3, <1>5
<1> QED
  BY <1>2, <1>3, <1>4, <1>7, <1>8 DEF g, c

(* The extension blocks of a file with one data block more.                 *)
LEMMA NextExtblock ==
  ASSUME NEW k \in Nat
  PROVE  adfFileDatablocks2Extblocks(k + 1) =
           adfFileDatablocks2Extblocks(k) + (IF NeedsExt(k) THEN 1 ELSE 0)
<1> USE BlockAssumption
<1>1. adfFileDatablocks2Extblocks(k + 1) = k \div MaxDatablk
  BY DEF adfFileDatablocks2Extblocks
<1>2. CASE k < MaxDatablk
  <2>1. ASSUME NEW j \in Nat, j < MaxDatablk
        PROVE  j \div MaxDatablk = 0
    <3>1. j = MaxDatablk * 0 + j /\ j \in 0..(MaxDatablk - 1)
      BY <2>1
    <3> QED
      BY <3>1, DivUnique
  <2>2. adfFileDatablocks2Extblocks(k) = 0
    BY <1>2, <2>1 DEF adfFileDatablocks2Extblocks
  <2>3. ~NeedsExt(k)
    BY <1>2 DEF NeedsExt
  <2> QED
    BY <1>1, <1>2, <2>1, <2>2, <2>3
<1>3. CASE k >= MaxDatablk
  <2>1. adfFileDatablocks2Extblocks(k) = (k - 1) \div MaxDatablk
        /\ (k - 1) \div MaxDatablk \in Int
    BY <1>3 DEF adfFileDatablocks2Extblocks
  <2>2. CASE k = MaxDatablk
    <3>1. k \div MaxDatablk = 1 /\ k % MaxDatablk = 0
      BY <2>2, NextEntry
    <3>2. k - 1 = MaxDatablk * 0 + (k - 1) /\ k - 1 \in 0..(MaxDatablk - 1)
      BY <2>2
    <3>3. (k - 1) \div MaxDatablk = 0
      BY <3>2, DivUnique
    <3> QED
      BY <1>1, <1>3, <2>1, <3>1, <3>3 DEF NeedsExt
  <2>3. CASE k > MaxDatablk
    <3>1. IF k % MaxDatablk = 0
            THEN k \div MaxDatablk = ((k - 1) \div MaxDatablk) + 1
            ELSE k \div MaxDatablk = (k - 1) \div MaxDatablk
      BY <1>3, <2>3, NextEntry
    <3> QED
      BY <1>1, <1>3, <2>1, <3>1 DEF NeedsExt
  <2> QED
    BY <1>3, <2>2, <2>3
<1> QED
  BY <1>2, <1>3

\* The invariant holds at first.
LEMMA IInvInit == Init => IInv
<1> SUFFICES ASSUME Init PROVE IInv
  OBVIOUS
<1> USE BlockAssumption
<1>1. /\ file \in Counters /\ file.pos = 0 /\ file.posInDataBlk = 0
      /\ file.nDataBlock = 0 /\ byteSize = 0 /\ highSeq = 0 /\ dataN = 0 /\ extN = 0
      /\ refused = FALSE
  BY DEF Init, Counters
<1>2. PosOK(file, byteSize)
  BY <1>1 DEF PosOK
<1>3. ExtOK(file, refused)
  BY <1>1 DEF ExtOK
<1>4. adfFileSize2Datablocks(0) = 0
  BY SizeBounds
<1>5. CountOK(byteSize, highSeq, dataN, extN, refused)
  BY <1>1, <1>4 DEF CountOK, adfFileDatablocks2Extblocks
<1> QED
  BY <1>1, <1>2, <1>3, <1>5 DEF IInv

\* Every step keeps it.
LEMMA IInvNext ==
  ASSUME Orderly, IInv, [Next]_vars
  PROVE  IInv'
<1> USE BlockAssumption
<1> DEFINE size == byteSize
           N(s) == adfFileSize2Datablocks(s)
<1>1. /\ byteSize \in Nat /\ refused \in BOOLEAN
      /\ PosOK(file, byteSize) /\ ExtOK(file, refused)
      /\ file \in Counters
      /\ CountOK(byteSize, highSeq, dataN, extN, refused)
  BY DEF IInv, PosOK
<1>2. CASE adfFileOpen
  <2> DEFINE f == [file EXCEPT !.extBlock = -1]
  <2>1. f \in Counters
    BY <1>1 DEF Counters
  <2>2. file' = adfFileSeekStart(f, byteSize)
    BY <1>2 DEF adfFileOpen
  <2> HIDE DEF f
  <2>3. PosOK(file', byteSize) /\ ExtOK(file', refused)
    BY <1>1, <2>1, <2>2, SeekStartOK
  <2> QED
    BY <1>1, <1>2, <2>3 DEF adfFileOpen, IInv, CountOK, PosOK, ExtOK
<1>3. ASSUME NEW n \in 1..BlockSize, ReadChunk(n)
      PROVE  IInv'
  <2> DEFINE turn == file.posInDataBlk = BlockSize
             f == IF turn THEN [adfFileReadNextBlock(file) EXCEPT !.posInDataBlk = 0]
                          ELSE file
  <2>1. /\ file.pos # byteSize
        /\ n <= BlockSize - f.posInDataBlk /\ file.pos + n <= byteSize
        /\ file' = [f EXCEPT !.pos = @ + n, !.posInDataBlk = @ + n]
        /\ UNCHANGED <<byteSize, highSeq, dataN, extN, refused>>
    BY <1>3 DEF ReadChunk, adfFileAtEOF
  <2>2. size > 0 /\ file.pos < size /\ file.pos \in Nat
    BY <1>1, <2>1 DEF PosOK, Counters
  <2>3. /\ f \in Counters /\ ExtOK(f, refused) /\ f.pos = file.pos
        /\ f.nDataBlock >= 1 /\ f.nDataBlock <= N(size)
        /\ f.pos = BlockSize * (f.nDataBlock - 1) + f.posInDataBlk
    <3>1. CASE turn
      BY <1>1, <2>2, <3>1, NextBlockOK
    <3>2. CASE ~turn
      BY <1>1, <2>2, <3>2 DEF PosOK
    <3> QED
      BY <3>1, <3>2
  <2> HIDE DEF f
  <2>4. byteSize = (IF byteSize < f.pos + n THEN f.pos + n ELSE byteSize)
    BY <1>1, <2>1, <2>2, <2>3
  <2>5. n \in Nat \ {0}
    OBVIOUS
  <2>6. PosOK(file', byteSize) /\ ExtOK(file', refused)
    BY <1>1, <2>1, <2>3, <2>4, <2>5, ForwardOK
  <2> QED
    BY <1>1, <2>1, <2>6 DEF IInv, CountOK, PosOK, ExtOK
<1>4. ASSUME NEW n \in 1..BlockSize, Overwrite(n)
      PROVE  IInv'
  <2> DEFINE f == IF AtBlockEnd
                    THEN [(IF file.posInDataBlk = BlockSize
                             THEN adfFileReadNextBlock(file) ELSE file)
                            EXCEPT !.posInDataBlk = 0]
                    ELSE file
  <2>1. /\ ~(AtBlockEnd /\ file.pos = byteSize)
        /\ n <= BlockSize - f.posInDataBlk
        /\ file' = [f EXCEPT !.pos = @ + n, !.posInDataBlk = @ + n]
        /\ byteSize' = IF byteSize < file.pos + n THEN file.pos + n ELSE byteSize
        /\ UNCHANGED <<highSeq, dataN, extN, refused>>
    BY <1>4 DEF Overwrite, Put, adfFileAtEOF
  <2>2. size > 0 /\ file.pos <= size /\ file.pos \in Nat
    <3>1. CASE size = 0
      <4>1. file.pos = 0 /\ 0 = BlockSize * 0 + 0 /\ 0 \in 0..(BlockSize - 1)
        BY <1>1, <3>1 DEF PosOK
      <4>2. 0 % BlockSize = 0
        BY <4>1, DivUnique
      <4> QED
        BY <2>1, <3>1, <4>1, <4>2 DEF AtBlockEnd
    <3>2. CASE size > 0
      BY <1>1, <3>2 DEF PosOK, Counters
    <3> QED
      BY <1>1, <3>1, <3>2
  <2>3. /\ f \in Counters /\ ExtOK(f, refused) /\ f.pos = file.pos
        /\ f.nDataBlock >= 1 /\ f.nDataBlock <= N(size)
        /\ f.pos = BlockSize * (f.nDataBlock - 1) + f.posInDataBlk
    <3>1. CASE AtBlockEnd /\ file.posInDataBlk = BlockSize
      <4>1. f = [adfFileReadNextBlock(file) EXCEPT !.posInDataBlk = 0]
        BY <3>1
      <4>2. file.pos < size
        BY <1>1, <2>1, <2>2, <3>1
      <4> HIDE DEF f
      <4> QED
        BY <1>1, <2>2, <3>1, <4>1, <4>2, NextBlockOK
    <3>2. CASE AtBlockEnd /\ file.posInDataBlk # BlockSize
      <4>1. file.posInDataBlk = 0
        BY <1>1, <2>2, <3>2, AtEnd DEF AtBlockEnd
      <4>2. f = file
        BY <1>1, <3>2, <4>1 DEF Counters
      <4> HIDE DEF f
      <4> QED
        BY <1>1, <2>2, <4>2 DEF PosOK
    <3>3. CASE ~AtBlockEnd
      BY <1>1, <2>2, <3>3 DEF PosOK
    <3> QED
      BY <3>1, <3>2, <3>3
  <2> HIDE DEF f
  <2>4. byteSize' = (IF byteSize < f.pos + n THEN f.pos + n ELSE byteSize)
        /\ byteSize' \in Nat
    BY <1>1, <2>1, <2>2, <2>3
  <2>5. n \in Nat \ {0}
    OBVIOUS
  <2>6. PosOK(file', byteSize') /\ ExtOK(file', refused) /\ N(byteSize') = N(byteSize)
    <3> DEFINE g == [f EXCEPT !.pos = @ + n, !.posInDataBlk = @ + n]
               newSize == IF byteSize < f.pos + n THEN f.pos + n ELSE byteSize
    <3>1. /\ f \in Counters /\ refused \in BOOLEAN /\ byteSize \in Nat /\ n \in Nat \ {0}
          /\ f.nDataBlock >= 1 /\ f.nDataBlock <= adfFileSize2Datablocks(byteSize)
          /\ f.pos = BlockSize * (f.nDataBlock - 1) + f.posInDataBlk
          /\ n <= BlockSize - f.posInDataBlk
          /\ ExtOK(f, refused)
      BY <1>1, <2>1, <2>3, <2>5
    <3>2. /\ PosOK(g, newSize) /\ ExtOK(g, refused)
          /\ adfFileSize2Datablocks(newSize) = adfFileSize2Datablocks(byteSize)
      BY <3>1, ForwardOK
    <3>3. file' = g /\ byteSize' = newSize
      BY <2>1, <2>4
    <3> HIDE DEF g, newSize
    <3> QED
      BY <3>2, <3>3
  <2>7. CountOK(byteSize', highSeq, dataN, extN, refused)
    BY <1>1, <2>6 DEF CountOK
  <2>8. refused' = refused /\ highSeq' = highSeq /\ dataN' = dataN /\ extN' = extN
    BY <2>1
  <2> HIDE DEF N
  <2>9. ExtOK(file', refused') /\ CountOK(byteSize', highSeq', dataN', extN', refused')
    BY <2>6, <2>7, <2>8
  <2> QED
    BY <1>1, <2>4, <2>6, <2>8, <2>9 DEF IInv
<1>5. ASSUME NEW n \in 1..BlockSize, AppendChunk(n)
      PROVE  IInv'
  <2> DEFINE k == file.nDataBlock
             f == [adfFileCreateNextBlock(file) EXCEPT !.posInDataBlk = 0]
  <2>1. /\ file.pos % BlockSize = 0 /\ file.pos = byteSize
        /\ file' = [f EXCEPT !.pos = @ + n, !.posInDataBlk = @ + n]
        /\ byteSize' = IF byteSize < file.pos + n THEN file.pos + n ELSE byteSize
        /\ highSeq' = highSeq + (IF k < MaxDatablk THEN 1 ELSE 0)
        /\ dataN' = dataN + 1
        /\ extN' = extN + (IF NeedsExt(k) THEN 1 ELSE 0)
        /\ refused' = refused
    BY <1>5 DEF AppendChunk, Put, AtBlockEnd, adfFileAtEOF
  <2>2. k = N(byteSize) /\ byteSize = BlockSize * k /\ k \in Nat
    BY <1>1, <2>1, AtLastBlock DEF Counters
  <2>3. /\ f \in Counters /\ ExtOK(f, refused) /\ f.pos = byteSize /\ f.posInDataBlk = 0
        /\ f.nDataBlock = k + 1
    <3> DEFINE c == adfFileCreateNextBlock(file)
    <3>1. c \in Counters /\ ExtOK(c, refused) /\ c.pos = byteSize /\ c.nDataBlock = k + 1
      BY <1>1, <2>1, CreateNextOK
    <3> HIDE DEF c
    <3>2. f = [c EXCEPT !.posInDataBlk = 0]
      BY DEF c
    <3> HIDE DEF f
    <3>3. /\ f \in Counters /\ f.pos = c.pos /\ f.posInDataBlk = 0
          /\ f.nDataBlock = c.nDataBlock /\ f.extBlock = c.extBlock
          /\ f.posInExtBlk = c.posInExtBlk
      BY <3>1, <3>2 DEF Counters
    <3> QED
      BY <3>1, <3>3 DEF ExtOK
  <2> HIDE DEF f, k
  <2>0. k \in Nat
    BY <2>2
  <2>4. byteSize' = BlockSize * ((k + 1) - 1) + n /\ byteSize' \in Nat
        /\ byteSize' = byteSize + n
    BY <1>1, <2>1, <2>2
  <2>5. N(byteSize') = k + 1
    <3>1. k + 1 \in Nat \ {0}
      BY <2>2
    <3> QED
      BY <2>4, <3>1, SizeUnique
  <2>6. /\ file' \in Counters /\ file'.pos = byteSize' /\ file'.posInDataBlk = n
        /\ file'.nDataBlock = k + 1 /\ file'.extBlock = f.extBlock
        /\ file'.posInExtBlk = f.posInExtBlk
    <3> DEFINE newPos == f.pos + n
               newIn  == f.posInDataBlk + n
    <3>1. file' = [f EXCEPT !.pos = newPos, !.posInDataBlk = newIn]
      BY <2>1
    <3>2. newPos = byteSize' /\ newIn = n /\ newPos \in Nat /\ newIn \in Nat
      BY <2>3, <2>4
    <3> HIDE DEF newPos, newIn
    <3> QED
      BY <2>3, <3>1, <3>2 DEF Counters
  <2>7. PosOK(file', byteSize')
    <3>1. file'.pos = BlockSize * (file'.nDataBlock - 1) + file'.posInDataBlk
      BY <2>4, <2>6, Zenon
    <3>2. file'.nDataBlock >= 1 /\ file'.posInDataBlk <= BlockSize
      BY <2>0, <2>6
    <3>3. byteSize' > 0 /\ file'.pos <= byteSize'
      BY <1>1, <2>4, <2>6
    <3>4. file'.nDataBlock <= adfFileSize2Datablocks(byteSize')
      BY <2>0, <2>5, <2>6
    <3> QED
      BY <2>4, <2>6, <3>1, <3>2, <3>3, <3>4 DEF PosOK
  <2>8. ExtOK(file', refused)
    BY <2>3, <2>6 DEF ExtOK
  <2>9. CountOK(byteSize', highSeq', dataN', extN', refused)
    <3>1. /\ dataN = k
          /\ IF refused THEN extN \in Nat /\ extN >= adfFileDatablocks2Extblocks(k)
                        ELSE extN = adfFileDatablocks2Extblocks(k)
          /\ highSeq = IF k < MaxDatablk THEN k ELSE MaxDatablk
      BY <1>1, <2>2 DEF CountOK
    <3>2. dataN' = k + 1 /\ highSeq' = IF k + 1 < MaxDatablk THEN k + 1 ELSE MaxDatablk
      <4>1. dataN' = k + 1
        BY <2>1, <3>1
      <4>2. CASE k < MaxDatablk
        <5>1. highSeq' = k + 1
          BY <2>0, <2>1, <3>1, <4>2
        <5> QED
          BY <2>0, <4>1, <4>2, <5>1
      <4>3. CASE k >= MaxDatablk
        <5>1. highSeq' = MaxDatablk
          BY <2>0, <2>1, <3>1, <4>3
        <5> QED
          BY <2>0, <4>1, <4>3, <5>1
      <4> QED
        BY <2>0, <4>2, <4>3
    <3>3. IF refused THEN extN' \in Nat /\ extN' >= adfFileDatablocks2Extblocks(k + 1)
                     ELSE extN' = adfFileDatablocks2Extblocks(k + 1)
      <4>1. /\ adfFileDatablocks2Extblocks(k) \in Int
            /\ adfFileDatablocks2Extblocks(k + 1)
                 = adfFileDatablocks2Extblocks(k) + (IF NeedsExt(k) THEN 1 ELSE 0)
        BY <2>0, NextExtblock, ExtblocksNat
      <4> QED
        BY <2>1, <3>1, <4>1
    <3> QED
      BY <2>5, <3>2, <3>3 DEF CountOK
  <2> QED
    BY <1>1, <2>1, <2>4, <2>7, <2>8, <2>9 DEF IInv, CountOK, PosOK, ExtOK
<1>6. CASE AppendHalfFails
  <2> DEFINE e == IF file.nDataBlock = MaxDatablk THEN 0 ELSE file.extBlock + 1
             inExt == 0
  <2>1. /\ file' = [file EXCEPT !.posInExtBlk = inExt, !.extBlock = e]
        /\ extN' = extN + 1 /\ refused' = TRUE
        /\ UNCHANGED <<byteSize, highSeq, dataN>>
    BY <1>6 DEF AppendHalfFails, CreateExt
  <2>2. e \in Nat \cup {-1} /\ inExt \in Nat
    BY <1>1 DEF Counters
  <2> HIDE DEF e, inExt
  <2>3. /\ file' \in Counters /\ file'.pos = file.pos
        /\ file'.posInDataBlk = file.posInDataBlk /\ file'.nDataBlock = file.nDataBlock
    BY <1>1, <2>1, <2>2 DEF Counters
  <2>4. PosOK(file', byteSize)
    <3> DEFINE start(n) == BlockSize * (n - 1)
    <3>1. byteSize > 0 => file.pos = start(file.nDataBlock) + file.posInDataBlk
      BY <1>1 DEF PosOK
    <3>2. PosOK(file', byteSize) <=>
            /\ file' \in Counters
            /\ byteSize = 0 => file'.pos = 0 /\ file'.posInDataBlk = 0 /\ file'.nDataBlock = 0
            /\ byteSize > 0 => /\ file'.nDataBlock >= 1
                               /\ file'.nDataBlock <= adfFileSize2Datablocks(byteSize)
                               /\ file'.pos = start(file'.nDataBlock) + file'.posInDataBlk
                               /\ file'.posInDataBlk <= BlockSize
                               /\ file'.pos <= byteSize
      BY DEF PosOK
    <3> HIDE DEF start
    <3> QED
      BY <1>1, <2>3, <3>1, <3>2 DEF PosOK
  <2>5. ExtOK(file', TRUE)
    BY DEF ExtOK
  <2>6. CountOK(byteSize, highSeq, dataN, extN', TRUE)
    <3>1. dataN \in Nat /\ adfFileDatablocks2Extblocks(dataN) \in Nat
      BY <1>1, SizeBounds, ExtblocksNat DEF CountOK
    <3> QED
      BY <1>1, <2>1, <3>1 DEF CountOK
  <2> QED
    BY <1>1, <2>1, <2>4, <2>5, <2>6 DEF IInv
<1>7. ASSUME NEW pos \in 0..(MaxSize + 1), adfFileSeek(pos)
      PROVE  IInv'
  <2>1. pos \in Nat
    BY CursorAssumption
  <2>2. PosOK(file', byteSize) /\ ExtOK(file', refused)
    BY <1>1, <1>7, <2>1, SeekToOK DEF adfFileSeek
  <2> QED
    BY <1>1, <1>7, <2>2 DEF adfFileSeek, IInv, CountOK, PosOK, ExtOK
<1>8. ASSUME NEW s \in TruncateTo, adfFileTruncate(s)
      PROVE  IInv'
  <2>1. s \in Nat /\ s < byteSize /\ s % BlockSize # 0
    BY <1>8, CursorAssumption DEF adfFileTruncate, Orderly
  <2>2. s > 0
    <3> SUFFICES ASSUME s = 0 PROVE FALSE
      BY <2>1
    <3>1. 0 = BlockSize * 0 + 0 /\ 0 \in 0..(BlockSize - 1)
      OBVIOUS
    <3>2. 0 % BlockSize = 0
      BY <3>1, DivUnique
    <3> QED
      BY <2>1, <3>2
  <2>3. /\ file' = SeekTo(file, s, byteSize) /\ byteSize' = s
        /\ dataN' = dataN - (N(byteSize) - N(s))
        /\ highSeq' = IF s = 0 THEN 0
                       ELSE IF N(s) <= MaxDatablk /\ N(s) % MaxDatablk # 0
                         THEN N(s) % MaxDatablk
                       ELSE highSeq
        /\ extN' = extN - (adfFileDatablocks2Extblocks(N(byteSize))
                             - adfFileDatablocks2Extblocks(N(s)))
        /\ refused' = refused
    BY <1>8 DEF adfFileTruncate, adfFileSize2Extblocks
  <2>4. PosOK(file', byteSize) /\ ExtOK(file', refused) /\ file'.pos = s
    BY <1>1, <2>1, <2>3, SeekToOK
  <2>5. /\ file' \in Counters /\ file'.nDataBlock >= 1
        /\ s = BlockSize * (file'.nDataBlock - 1) + file'.posInDataBlk
        /\ file'.posInDataBlk \in 1..(BlockSize - 1)
    BY <1>1, <2>1, <2>4, AtEnd DEF PosOK
  <2>6. N(s) = file'.nDataBlock
    <3>1. file'.nDataBlock \in Nat \ {0} /\ file'.posInDataBlk \in 1..BlockSize
      BY <2>5 DEF Counters
    <3> QED
      BY <2>1, <2>5, <3>1, SizeUnique
  <2>7. PosOK(file', s)
    BY <2>1, <2>2, <2>4, <2>5, <2>6 DEF PosOK, Counters
  <2>8. CountOK(s, highSeq', dataN', extN', refused)
    <3>1. N(s) \in Nat /\ N(byteSize) \in Nat /\ N(s) <= N(byteSize) /\ N(s) >= 1
      BY <1>1, <2>1, <2>2, SizeBounds, SizeMonotone
    <3>2. /\ dataN = N(byteSize)
          /\ IF refused
               THEN extN \in Nat /\ extN >= adfFileDatablocks2Extblocks(N(byteSize))
               ELSE extN = adfFileDatablocks2Extblocks(N(byteSize))
          /\ highSeq = IF N(byteSize) < MaxDatablk THEN N(byteSize) ELSE MaxDatablk
      BY <1>1 DEF CountOK
    <3> HIDE DEF N
    <3>3. dataN' = N(s)
      BY <2>3, <3>1, <3>2
    <3>4. IF refused THEN extN' \in Nat /\ extN' >= adfFileDatablocks2Extblocks(N(s))
                     ELSE extN' = adfFileDatablocks2Extblocks(N(s))
      <4>1. adfFileDatablocks2Extblocks(N(s)) \in Nat
            /\ adfFileDatablocks2Extblocks(N(byteSize)) \in Nat
        BY <3>1, ExtblocksNat
      <4> QED
        BY <2>3, <3>2, <4>1
    <3>5. highSeq' = IF N(s) < MaxDatablk THEN N(s) ELSE MaxDatablk
      <4>1. CASE N(s) < MaxDatablk
        <5>1. N(s) = MaxDatablk * 0 + N(s) /\ N(s) \in 0..(MaxDatablk - 1)
          BY <3>1, <4>1
        <5>2. N(s) % MaxDatablk = N(s)
          BY <3>1, <5>1, DivUnique
        <5> QED
          BY <2>2, <2>3, <3>1, <4>1, <5>2
      <4>2. CASE N(s) = MaxDatablk
        <5>1. N(s) % MaxDatablk = 0
          BY <3>1, <4>2, NextEntry
        <5> QED
          BY <2>2, <2>3, <3>1, <3>2, <4>2, <5>1
      <4>3. CASE N(s) > MaxDatablk
        BY <2>2, <2>3, <3>1, <3>2, <4>3
      <4> QED
        BY <3>1, <4>1, <4>2, <4>3
    <3> QED
      BY <3>3, <3>4, <3>5 DEF CountOK, N
  <2> QED
    BY <2>1, <2>3, <2>4, <2>7, <2>8 DEF IInv, CountOK, PosOK, ExtOK
<1>9. CASE UNCHANGED vars
  BY <1>1, <1>9 DEF vars, IInv, CountOK, PosOK, ExtOK
<1> QED
  BY <1>2, <1>3, <1>4, <1>5, <1>6, <1>7, <1>8, <1>9 DEF Next

-----------------------------------------------------------------------------
(* The theorems *)

\* The invariant holds in every state.
LEMMA Inductive == Orderly => (Spec => []IInv)
<1> SUFFICES ASSUME Orderly PROVE Spec => []IInv
  OBVIOUS
<1>1. Init => IInv
  BY IInvInit
<1>2. IInv /\ [Next]_vars => IInv'
  BY IInvNext
<1> QED
  BY <1>1, <1>2, PTL DEF Spec

(* TypeOK: no counter of an open file ever becomes negative, neither do the *)
(* numbers of blocks the file has.                                          *)
THEOREM CursorType == Orderly => (Spec => []TypeOK)
<1> SUFFICES ASSUME Orderly PROVE Spec => []TypeOK
  OBVIOUS
<1>1. IInv => TypeOK
  <2> SUFFICES ASSUME IInv PROVE TypeOK
    OBVIOUS
  <2> USE BlockAssumption
  <2>1. /\ byteSize \in Nat /\ file \in Counters
        /\ dataN = adfFileSize2Datablocks(byteSize) /\ refused \in BOOLEAN
        /\ extN \in Nat \/ extN = adfFileDatablocks2Extblocks(dataN)
        /\ highSeq = IF dataN < MaxDatablk THEN dataN ELSE MaxDatablk
    BY DEF IInv, PosOK, CountOK
  <2>2. dataN \in Nat
    BY <2>1, SizeBounds
  <2>3. extN \in Nat
    BY <2>1, <2>2, ExtblocksNat
  <2> QED
    BY <2>1, <2>2, <2>3 DEF TypeOK
<1> QED
  BY <1>1, Inductive, PTL

(* PositionConsistent: reading, writing, seeking and truncating leave the   *)
(* position, the number of the data block and the position in it agreeing.  *)
THEOREM CursorPosition == Orderly => (Spec => []PositionConsistent)
<1> SUFFICES ASSUME Orderly PROVE Spec => []PositionConsistent
  OBVIOUS
<1>1. IInv => PositionConsistent
  <2> SUFFICES ASSUME IInv PROVE PositionConsistent
    OBVIOUS
  <2> USE BlockAssumption
  <2>1. byteSize \in Nat /\ PosOK(file, byteSize) /\ dataN = adfFileSize2Datablocks(byteSize)
    BY DEF IInv, CountOK
  <2>2. CASE byteSize = 0
    BY <2>1, <2>2 DEF PosOK, PositionConsistent
  <2>3. CASE byteSize > 0
    <3>1. /\ file.nDataBlock \in Nat /\ file.nDataBlock >= 1 /\ file.nDataBlock <= dataN
          /\ file.pos = BlockSize * (file.nDataBlock - 1) + file.posInDataBlk
          /\ file.posInDataBlk <= BlockSize /\ file.pos <= byteSize
      BY <2>1, <2>3 DEF PosOK, Counters
    <3>2. BlockSize * (file.nDataBlock - 1) = (file.nDataBlock - 1) * BlockSize
      BY <3>1
    <3> QED
      BY <2>3, <3>1, <3>2 DEF PositionConsistent, Loaded
  <2> QED
    BY <2>1, <2>2, <2>3
<1> QED
  BY <1>1, Inductive, PTL

(* ExtBlockConsistent: on volumes that are not OFS the extension block and  *)
(* the entry in it are those of the current data block.                     *)
THEOREM CursorExtBlock == Orderly /\ ~OFS => (Spec => []ExtBlockConsistent)
<1> SUFFICES ASSUME Orderly, ~OFS PROVE Spec => []ExtBlockConsistent
  OBVIOUS
<1>1. IInv => ExtBlockConsistent
  <2> SUFFICES ASSUME IInv PROVE ExtBlockConsistent
    OBVIOUS
  <2> USE BlockAssumption
  <2> DEFINE d == file.nDataBlock - 1
             p == d * BlockSize
             at == adfFilePos2DataBlock(p)
  <2> SUFFICES ASSUME ~refused, Loaded(file), d >= MaxDatablk
               PROVE  file.extBlock = at.extBlock
                      /\ file.posInExtBlk = at.posInExtBlk + 1
    BY DEF ExtBlockConsistent
  <2>1. file.nDataBlock \in Nat /\ d \in Nat
    BY DEF IInv, PosOK, Counters
  <2>2. /\ file.extBlock = (d \div MaxDatablk) - 1
        /\ file.posInExtBlk = (d % MaxDatablk) + 1
    BY <2>1 DEF IInv, ExtOK
  <2> HIDE DEF d
  <2>3. p \in Nat /\ p = BlockSize * d + 0 /\ 0 \in 0..(BlockSize - 1)
    BY <2>1
  <2>4. p \div BlockSize = d
    <3> HIDE DEF p
    <3> QED
      BY <2>1, <2>3, DivUnique
  <2> HIDE DEF p
  <2>5. at.extBlock = (d \div MaxDatablk) - 1 /\ at.posInExtBlk = d % MaxDatablk
    BY <2>3, <2>4, Pos2DataBlock
  <2> QED
    BY <2>2, <2>5 DEF d, p
<1> QED
  BY <1>1, Inductive, PTL

(* BlocksMatchSize: a file has the data blocks, extension blocks and highSeq *)
(* that adfFileRealSize and adfGetFileBlocks compute from its size.          *)
THEOREM CursorBlocks == Orderly => (Spec => []BlocksMatchSize)
<1> SUFFICES ASSUME Orderly PROVE Spec => []BlocksMatchSize
  OBVIOUS
<1>1. IInv => BlocksMatchSize
  <2> SUFFICES ASSUME IInv PROVE BlocksMatchSize
    OBVIOUS
  <2> USE BlockAssumption
  <2> SUFFICES ASSUME ~refused
               PROVE  /\ adfFileRealSize(byteSize) =
                           [dataN |-> dataN, extN |-> extN, blocks |-> dataN + extN + 1]
                      /\ adfFileSize2Blocks(byteSize) = dataN + extN + 1
                      /\ highSeq = IF dataN < MaxDatablk THEN dataN ELSE MaxDatablk
    BY DEF BlocksMatchSize
  <2>1. /\ byteSize \in Nat /\ dataN = adfFileSize2Datablocks(byteSize)
        /\ extN = adfFileSize2Extblocks(byteSize)
        /\ highSeq = IF dataN < MaxDatablk THEN dataN ELSE MaxDatablk
    BY DEF IInv, CountOK, adfFileSize2Extblocks
  <2>2. adfFileSize2Blocks(byteSize) = dataN + extN + 1
    BY <2>1 DEF adfFileSize2Blocks
  <2>3. adfFileRealSize(byteSize) =
          [dataN |-> dataN, extN |-> extN, blocks |-> dataN + extN + 1]
    BY <2>1, <2>2, RealSizeAgrees
  <2> QED
    BY <2>1, <2>2, <2>3
<1> QED
  BY <1>1, Inductive, PTL

=============================================================================
