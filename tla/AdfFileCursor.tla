--------------------------- MODULE AdfFileCursor ---------------------------
(***************************************************************************)
(* The counters of an open file (struct AdfFile in src/src/adf_file.h):    *)
(* position in the file, number and position of the current data block,    *)
(* position in the current extension block. adfFileRead and adfFileWrite   *)
(* move them forward one data block at a time, adfFileSeek computes them,  *)
(* and each must leave them as the others expect them.                     *)
(*                                                                         *)
(* One step of ReadChunk or WriteChunk is one turn of the loop in          *)
(* adfFileRead or adfFileWrite. What the blocks hold is the subject of     *)
(* AdfFile; the blocks the file has are only counted here.                 *)
(***************************************************************************)
EXTENDS AdfFileUtil

CONSTANTS
  OFS,         \* the volume is OFS: data blocks are linked to each other
  TruncateTo,  \* sizes adfFileTruncate shrinks a file to
  MaxSize      \* bound: the largest file

ASSUME CursorAssumption ==
  /\ OFS \in BOOLEAN
  /\ TruncateTo \subseteq Nat
  /\ MaxSize \in Nat

VARIABLES
  file,      \* the counters of the open file
  byteSize,  \* fileHdr->byteSize
  highSeq,   \* fileHdr->highSeq: data blocks listed in the file header
  dataN,     \* data blocks the file was granted and has not given back
  extN,      \* extension blocks, likewise
  refused    \* an extension block was granted, its first data block was not

vars == <<file, byteSize, highSeq, dataN, extN, refused>>

\* nDataBlock is one more than the number of the current data block, 0 when
\* there is none; extBlock is the number of the extension block in currentExt
\* (-1: none), posInExtBlk that of the entry after the current one in it.
Counters == [pos : Nat, posInDataBlk : Nat, posInExtBlk : Nat,
             nDataBlock : Nat, extBlock : Nat \cup {-1}]

Loaded(f)     == f.nDataBlock > 0
adfFileAtEOF  == file.pos = byteSize

-----------------------------------------------------------------------------
(* Moving to another data block *)

\* Deviation: the next extension block is read one data block late.
adfFileReadNextBlock_LateExt(f) ==
  LET n == f.nDataBlock
      next == [f EXCEPT !.nDataBlock = n + 1]
  IN  IF OFS \/ n < MaxDatablk THEN next
      ELSE IF n = MaxDatablk
        THEN [next EXCEPT !.posInExtBlk = 1, !.extBlock = 0]
      ELSE IF f.posInExtBlk > MaxDatablk
        THEN [next EXCEPT !.posInExtBlk = 1, !.extBlock = f.extBlock + 1]
      ELSE [next EXCEPT !.posInExtBlk = f.posInExtBlk + 1]

\* adfFileReadNextBlock: on OFS the next block is found in the current one, and
\* the extension block is left alone.
adfFileReadNextBlock(f) ==
  LET n == f.nDataBlock
      next == [f EXCEPT !.nDataBlock = n + 1]
  IN  IF OFS \/ n < MaxDatablk THEN next
      ELSE IF n = MaxDatablk
        THEN [next EXCEPT !.posInExtBlk = 1, !.extBlock = 0]
      ELSE IF f.posInExtBlk = MaxDatablk
        THEN [next EXCEPT !.posInExtBlk = 1, !.extBlock = f.extBlock + 1]
      ELSE [next EXCEPT !.posInExtBlk = f.posInExtBlk + 1]

\* The new extension block adfFileCreateNextBlock needs before it can list the
\* data block numbered n.
NeedsExt(n) == n >= MaxDatablk /\ n % MaxDatablk = 0

CreateExt(f) ==
  [f EXCEPT !.posInExtBlk = 0,
            !.extBlock = IF f.nDataBlock = MaxDatablk THEN 0 ELSE f.extBlock + 1]

\* adfFileCreateNextBlock, when both blocks are granted: the counters.
adfFileCreateNextBlock(f) ==
  LET n == f.nDataBlock
      e == IF NeedsExt(n) THEN CreateExt(f) ELSE f
  IN  [e EXCEPT !.nDataBlock = n + 1,
                !.posInExtBlk = IF n < MaxDatablk THEN f.posInExtBlk
                                                  ELSE e.posInExtBlk + 1]

\* adfFileSeekStart_
adfFileSeekStart(f, size) ==
  LET start == [f EXCEPT !.pos = 0, !.posInExtBlk = 0, !.posInDataBlk = 0,
                         !.nDataBlock = 0]
  IN  IF size = 0 THEN start ELSE adfFileReadNextBlock(start)

\* adfFileSeekExt_, to a position before the end of the file.
adfFileSeekExt(f, pos) ==
  LET at == adfFilePos2DataBlock(pos) IN
  [pos          |-> pos,
   posInDataBlk |-> at.posInDataBlk,
   nDataBlock   |-> at.curDataN + 1,
   posInExtBlk  |-> IF at.extBlock = -1 THEN 0 ELSE at.posInExtBlk + 1,
   extBlock     |-> IF at.extBlock = -1 THEN f.extBlock ELSE at.extBlock]

\* adfFileSeek stays in the data block it has when pos is in that block.
StaysInBlock(f, pos) ==
  Loaded(f) /\ (f.pos = pos \/ f.nDataBlock - 1 = pos \div BlockSize)

\* Deviation: the position is not limited by the size of the file.
MoveInBlock_PastEnd(f, pos, size) ==
  IF f.pos = pos THEN f
  ELSE [f EXCEPT !.pos = pos, !.posInDataBlk = pos % BlockSize]

MoveInBlock(f, pos, size) ==
  LET to == IF pos < size THEN pos ELSE size
  IN  IF f.pos = pos THEN f
      ELSE [f EXCEPT !.pos = to, !.posInDataBlk = to % BlockSize]

SeekInside(f, pos, size) ==
  IF StaysInBlock(f, pos) THEN MoveInBlock(f, pos, size)
  ELSE IF pos = 0 THEN adfFileSeekStart(f, size)
  ELSE adfFileSeekExt(f, pos)

\* adfFileSeekEOF_: to the last byte, then one further.
adfFileSeekEOF(f, size) ==
  IF size = 0 THEN adfFileSeekStart(f, size)
  ELSE [SeekInside([f EXCEPT !.pos = size], size - 1, size)
          EXCEPT !.pos = size,
                 !.posInDataBlk = IF size % BlockSize = 0 THEN BlockSize
                                                          ELSE size % BlockSize]

\* adfFileSeek
SeekTo(f, pos, size) ==
  IF pos < size \/ StaysInBlock(f, pos) THEN SeekInside(f, pos, size)
                                        ELSE adfFileSeekEOF(f, size)

-----------------------------------------------------------------------------
(* Operations *)

\* A new file, or one just opened: adfFileOpen seeks to its start.
Init ==
  /\ file = [pos |-> 0, posInDataBlk |-> 0, posInExtBlk |-> 0,
             nDataBlock |-> 0, extBlock |-> -1]
  /\ byteSize = 0 /\ highSeq = 0 /\ dataN = 0 /\ extN = 0
  /\ refused = FALSE

\* The file is closed and opened again.
adfFileOpen ==
  /\ file' = adfFileSeekStart([file EXCEPT !.extBlock = -1], byteSize)
  /\ UNCHANGED <<byteSize, highSeq, dataN, extN, refused>>

\* One turn of the loop of adfFileRead.
ReadChunk(n) ==
  /\ ~adfFileAtEOF
  /\ LET f == IF file.posInDataBlk = BlockSize
                THEN [adfFileReadNextBlock(file) EXCEPT !.posInDataBlk = 0]
                ELSE file
     IN /\ n <= BlockSize - f.posInDataBlk
        /\ file.pos + n <= byteSize
        /\ file' = [f EXCEPT !.pos = @ + n, !.posInDataBlk = @ + n]
  /\ UNCHANGED <<byteSize, highSeq, dataN, extN, refused>>

AtBlockEnd == file.pos % BlockSize = 0

\* The bytes go to block f, at posInDataBlk.
Put(f, n) ==
  /\ n <= BlockSize - f.posInDataBlk
  /\ file' = [f EXCEPT !.pos = @ + n, !.posInDataBlk = @ + n]
  /\ byteSize' = IF byteSize < file.pos + n THEN file.pos + n ELSE byteSize

\* One turn of the loop of adfFileWrite inside the data the file has.
Overwrite(n) ==
  /\ ~(AtBlockEnd /\ adfFileAtEOF)
  /\ file.pos + n <= MaxSize
  /\ Put(IF AtBlockEnd
           THEN [(IF file.posInDataBlk = BlockSize THEN adfFileReadNextBlock(file)
                                                   ELSE file)
                   EXCEPT !.posInDataBlk = 0]
           ELSE file, n)
  /\ UNCHANGED <<highSeq, dataN, extN, refused>>

\* One turn of the loop of adfFileWrite that starts with a new data block.
AppendChunk(n) ==
  /\ AtBlockEnd /\ adfFileAtEOF
  /\ file.pos + n <= MaxSize
  /\ Put([adfFileCreateNextBlock(file) EXCEPT !.posInDataBlk = 0], n)
  /\ highSeq' = highSeq + (IF file.nDataBlock < MaxDatablk THEN 1 ELSE 0)
  /\ dataN' = dataN + 1
  /\ extN' = extN + (IF NeedsExt(file.nDataBlock) THEN 1 ELSE 0)
  /\ UNCHANGED refused

\* adfFileWrite needs an extension block and a data block: the first one is
\* granted, the second is not since the volume is full. adfFileWrite returns
\* what it has written; the extension block stays.
AppendHalfFails ==
  /\ AtBlockEnd /\ adfFileAtEOF
  /\ NeedsExt(file.nDataBlock)
  /\ file' = CreateExt(file)
  /\ extN' = extN + 1
  /\ extN' <= MaxSize
  /\ refused' = TRUE
  /\ UNCHANGED <<byteSize, highSeq, dataN>>

adfFileSeek(pos) ==
  /\ file' = SeekTo(file, pos, byteSize)
  /\ UNCHANGED <<byteSize, highSeq, dataN, extN, refused>>

\* Deviation: highSeq keeps counting the blocks that were removed.
adfFileTruncate_KeepsHighSeq(size) ==
  /\ size < byteSize
  /\ file' = SeekTo(file, size, byteSize)
  /\ byteSize' = size
  /\ dataN' = dataN - (adfFileSize2Datablocks(byteSize) - adfFileSize2Datablocks(size))
  /\ extN' = extN - (adfFileSize2Extblocks(byteSize) - adfFileSize2Extblocks(size))
  /\ UNCHANGED <<highSeq, refused>>

\* adfFileTruncate to a smaller size: the blocks that are not needed are given
\* back. (To a larger size it is adfFileSeek to the end, then adfFileWrite.)
adfFileTruncate(size) ==
  /\ size < byteSize
  /\ file' = SeekTo(file, size, byteSize)
  /\ byteSize' = size
  /\ LET data == adfFileSize2Datablocks(size) IN
       /\ dataN' = dataN - (adfFileSize2Datablocks(byteSize) - data)
       /\ highSeq' = IF size = 0 THEN 0
                     ELSE IF data <= MaxDatablk /\ data % MaxDatablk # 0
                       THEN data % MaxDatablk
                     ELSE highSeq
  /\ extN' = extN - (adfFileSize2Extblocks(byteSize) - adfFileSize2Extblocks(size))
  /\ UNCHANGED refused

Next ==
  \/ adfFileOpen
  \/ \E n \in 1..BlockSize : ReadChunk(n) \/ Overwrite(n) \/ AppendChunk(n)
  \/ AppendHalfFails
  \/ \E pos \in 0..(MaxSize + 1) : adfFileSeek(pos)
  \/ \E size \in TruncateTo : adfFileTruncate(size)

Spec == Init /\ [][Next]_vars

-----------------------------------------------------------------------------
(* Properties *)

TypeOK ==
  /\ file \in Counters
  /\ byteSize \in Nat /\ highSeq \in Nat /\ dataN \in Nat /\ extN \in Nat
  /\ refused \in BOOLEAN

\* The counters agree with each other, whichever of reading, writing, seeking
\* and truncating brought the file to its position. At the end of a data block
\* the file may be at the end of that block or at the start of the next one.
PositionConsistent ==
  LET f == file
      d == f.nDataBlock - 1
  IN  IF byteSize = 0
        THEN f.pos = 0 /\ f.posInDataBlk = 0 /\ f.nDataBlock = 0
        ELSE /\ Loaded(f) /\ f.nDataBlock <= dataN
             /\ f.pos = d * BlockSize + f.posInDataBlk
             /\ f.posInDataBlk <= BlockSize
             /\ f.pos <= byteSize

\* The current extension block is the one that lists the current data block,
\* and posInExtBlk is the entry after it: the next block is read from, or
\* listed in, the right entry of the right extension block. An extension block
\* without its first data block breaks this, and the next property.
ExtBlockConsistent ==
  LET d == file.nDataBlock - 1
      at == adfFilePos2DataBlock(d * BlockSize)
  IN  ~refused /\ Loaded(file) /\ d >= MaxDatablk =>
        /\ file.extBlock = at.extBlock
        /\ file.posInExtBlk = at.posInExtBlk + 1

\* The file has as many blocks as adfFileRealSize, adfFileSize2Blocks and the
\* highSeq check in adfGetFileBlocks expect from its size: it can be deleted,
\* undeleted and truncated without losing a block.
BlocksMatchSize ==
  ~refused =>
    /\ adfFileRealSize(byteSize) =
         [dataN |-> dataN, extN |-> extN, blocks |-> dataN + extN + 1]
    /\ adfFileSize2Blocks(byteSize) = dataN + extN + 1
    /\ highSeq = IF dataN < MaxDatablk THEN dataN ELSE MaxDatablk

=============================================================================
