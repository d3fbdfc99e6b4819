----------------------------- MODULE MCAdfFile -----------------------------
(* AdfFile with data blocks of two bytes on one of six volumes: FFS with    *)
(* lists of two blocks, FFS with lists of one block, so that there is a     *)
(* chain of extension blocks, and OFS below the first extension block, with *)
(* two blocks, and with three blocks and one value written; FFS where one   *)
(* block is left when two are needed, and OFS that becomes full.            *)
EXTENDS AdfFile

InsideBlocks(max) == {n \in 1..max : n % BlockSize # 0}
On(ofs, maxDatablk, sectors, bytes, maxSize) ==
  [ofs |-> ofs, maxDatablk |-> maxDatablk, sectors |-> sectors,
   bytes |-> bytes, maxSize |-> maxSize, truncateTo |-> InsideBlocks(maxSize)]

Ffs   == On(FALSE, 2, 2..5, {0, 1}, 7)
Chain == On(FALSE, 1, 2..6, {0, 1}, 7)
Ofs   == On(TRUE, 2, 2..3, {0, 1}, 3)
Links == On(TRUE, 3, 2..4, {1}, 5)

Tight == On(FALSE, 1, 2..3, {1}, 3)
Full  == On(TRUE, 3, 2..3, {1}, 5)

AllVolumes == {Ffs, Chain, Ofs, Links, Tight, Full}
ListVolume == {[Ffs EXCEPT !.truncateTo = {}]}

AllHabits == {"flush_to_read", "flush_to_extend", "room_to_extend",
              "flush_to_truncate", "reopen_to_truncate"}
ButFlushToRead == AllHabits \ {"flush_to_read"}

-----------------------------------------------------------------------------

\* The extension block in memory: its number, -1 for none.
ExtInMemory ==
  IF file.currentExt = NoExt THEN -1
  ELSE CHOOSE k \in 0..MaxSize : ExtOf(k) = file.currentExt.headerKey

Cursor == INSTANCE AdfFileCursor WITH
  OFS <- FALSE, MaxDatablk <- Ffs.maxDatablk,
  MaxSize <- Ffs.maxSize, TruncateTo <- Ffs.truncateTo,
  file <- [pos |-> file.pos, posInDataBlk |-> file.posInDataBlk,
           posInExtBlk |-> file.posInExtBlk,
           nDataBlock |-> IF file.open THEN file.nDataBlock
                          ELSE IF header.byteSize = 0 THEN 0 ELSE 1,
           extBlock |-> ExtInMemory],
  byteSize <- Hdr.byteSize,
  highSeq <- Hdr.highSeq,
  dataN <- Cardinality({k \in 0..MaxSize : DataOf(k) # 0}),
  extN <- Cardinality({k \in 0..MaxSize : ExtOf(k) # 0}),
  refused <- FALSE

\* The counters of an open file move as in AdfFileCursor, for which their
\* agreement is proved (adfFileSeek, adfFileReadNextBlock,
\* adfFileCreateNextBlock).
CountsAsCursor ==
  /\ vol = Ffs => Cursor!Init
  /\ [][vol = Ffs => Cursor!Next]_(Cursor!vars)
=============================================================================
