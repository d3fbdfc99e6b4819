---------------------------- MODULE AdfFileUtil ----------------------------
(***************************************************************************)
(* The geometry of a file (src/src/adf_file_util.[ch]): which data block   *)
(* holds a byte, where that block is listed, and how many blocks a file of *)
(* a given size has. The file header lists the first MaxDatablk data       *)
(* blocks, every extension block up to MaxDatablk more.                    *)
(***************************************************************************)
EXTENDS Integers

CONSTANTS
  BlockSize,   \* vol->datablockSize: bytes of a file in one data block
  MaxDatablk   \* ADF_MAX_DATABLK: data blocks one list holds

ASSUME BlockAssumption ==
  /\ BlockSize \in Nat \ {0}
  /\ MaxDatablk \in Nat \ {0}

adfFileSize2Datablocks(fsize) ==
  fsize \div BlockSize + (IF fsize % BlockSize > 0 THEN 1 ELSE 0)

\* Deviation: an extension block is counted as soon as a list is full.
adfFileDatablocks2Extblocks_CountsFull(ndatablocks) ==
  IF ndatablocks < 1 THEN 0 ELSE ndatablocks \div MaxDatablk

adfFileDatablocks2Extblocks(ndatablocks) ==
  IF ndatablocks < 1 THEN 0 ELSE (ndatablocks - 1) \div MaxDatablk

adfFileSize2Extblocks(fsize) ==
  adfFileDatablocks2Extblocks(adfFileSize2Datablocks(fsize))

adfFileSize2Blocks(fsize) ==
  adfFileSize2Datablocks(fsize) + adfFileSize2Extblocks(fsize) + 1

\* Where the byte at pos is: in data block curDataN at posInDataBlk; that block
\* is listed in the file header (extBlock -1) or at posInExtBlk in extBlock.
adfFilePos2DataBlock(pos) ==
  LET inHeader == pos \div BlockSize < MaxDatablk
      listed   == BlockSize * MaxDatablk
      offset   == pos - listed
  IN  [extBlock     |-> IF inHeader THEN -1 ELSE offset \div listed,
       posInExtBlk  |-> IF inHeader THEN 0
                        ELSE (offset \div BlockSize) % MaxDatablk,
       posInDataBlk |-> pos % BlockSize,
       curDataN     |-> pos \div BlockSize]

\* The number of blocks a file of that size uses, computed in another way than
\* by the functions above (adfGetFileBlocks and adfUndelFile rely on this one).
adfFileRealSize(size) ==
  LET data == size \div BlockSize + (IF size % BlockSize # 0 THEN 1 ELSE 0)
      more == data - MaxDatablk
      ext  == IF more <= 0 THEN 0
              ELSE more \div MaxDatablk
                     + (IF more % MaxDatablk # 0 THEN 1 ELSE 0)
  IN  [dataN |-> data, extN |-> ext, blocks |-> ext + data + 1]

=============================================================================
