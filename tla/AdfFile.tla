------------------------------ MODULE AdfFile ------------------------------
(***************************************************************************)
(* An open file and its blocks (src/src/adf_file.c, adf_file_block.c): the *)
(* header, one extension block and one data block are held in memory; the  *)
(* others are on the disk, and so are older versions of those three.       *)
(*                                                                         *)
(* ReadChunk and WriteChunk are one turn of the loops of adfFileRead and   *)
(* adfFileWrite; every other action is a whole call. The handle is open    *)
(* for reading and writing. Blocks are granted in the order of their       *)
(* numbers, and reading and writing a block does not fail.                 *)
(***************************************************************************)
EXTENDS Integers, Sequences, FiniteSets

CONSTANTS
  BlockSize,   \* vol->datablockSize: bytes of a file in one data block
  Bytes,       \* the values of a byte
  Volumes,     \* the volumes the file may be on, see vol
  Habits       \* what the program does to avoid known defects, see Careful*

\* ofs: data blocks have a header and are linked; maxDatablk: data blocks one
\* list holds; sectors: blocks the file may be granted; bytes: the values that
\* are written; maxSize (bound): the largest file; truncateTo: sizes
\* adfFileTruncate shrinks a file to.
ASSUME FileAssumption ==
  /\ BlockSize \in Nat \ {0} /\ 0 \in Bytes
  /\ \A v \in Volumes :
       /\ v.ofs \in BOOLEAN /\ v.maxDatablk \in Nat \ {0}
       /\ v.sectors \subseteq Nat \ {0} /\ IsFiniteSet(v.sectors)
       /\ v.bytes \subseteq Bytes
       /\ v.maxSize \in Nat /\ v.truncateTo \subseteq Nat
  /\ Habits \subseteq {"flush_to_read", "flush_to_extend", "room_to_extend",
                       "flush_to_truncate", "reopen_to_truncate"}

VARIABLES
  vol,     \* the volume of the file: one of Volumes
  file,    \* struct AdfFile
  disk,    \* the blocks of the volume
  header,  \* the header of the file, on the disk
  free     \* blocks the bitmap says are free

vars == <<vol, file, disk, header, free>>

OFS        == vol.ofs
MaxDatablk == vol.maxDatablk
Sectors    == vol.sectors
MaxSize    == vol.maxSize

INSTANCE AdfFileUtil

Entries   == 0 .. (MaxDatablk - 1)
NoEntries == [i \in Entries |-> 0]
Offsets   == 0 .. (BlockSize - 1)
Zeros     == [i \in Offsets |-> 0]

\* Blocks. One that was never written holds zeros and reads as either kind;
\* block 0 of a volume is its bootblock.
Zero == [kind |-> "zero"]
Boot == [kind |-> "boot"]
DataBlock(bytes, next, size) ==
  [kind |-> "data", bytes |-> bytes, nextData |-> next, dataSize |-> size]
ExtBlock(key, data, high, next) ==
  [kind |-> "ext", headerKey |-> key, dataBlocks |-> data, highSeq |-> high,
   extension |-> next]

AsData(block) == IF block.kind = "data" THEN block ELSE DataBlock(Zeros, 0, 0)
AsExt(block)  == IF block.kind = "ext" THEN block ELSE ExtBlock(0, NoEntries, 0, 0)
ReadsAsExt(block) == block.kind \in {"ext", "zero"}

NoExt == [kind |-> "none"]
NewHeader == [byteSize |-> 0, dataBlocks |-> NoEntries, firstData |-> 0,
              highSeq |-> 0, extension |-> 0]

Closed == [open |-> FALSE, fileHdr |-> NewHeader, currentExt |-> NoExt,
           curDataPtr |-> 0, currentData |-> DataBlock(Zeros, 0, 0),
           changed |-> FALSE, pos |-> 0, posInDataBlk |-> 0,
           posInExtBlk |-> 0, nDataBlock |-> 0]

\* Operations map a state w of the file and its volume to the next; w.ok is
\* FALSE after one that returned an error.
World == [file |-> file, disk |-> disk, free |-> free, header |-> header,
          ok |-> TRUE]

Becomes(w) == /\ file' = w.file /\ disk' = w.disk
              /\ free' = w.free /\ header' = w.header

Fails(w) == [w EXCEPT !.ok = FALSE]
FailsWithoutData(w) == [w EXCEPT !.ok = FALSE, !.file.curDataPtr = 0]
Size(w) == w.file.fileHdr.byteSize
adfFileAtEOF(w) == w.file.pos = Size(w)

\* Sector of the k-th block of the list that starts at first, following next.
Follow(first, next(_), k) ==
  LET at[i \in 0..k] == IF i = 0 THEN first
                        ELSE IF at[i - 1] = 0 THEN 0 ELSE next(at[i - 1])
  IN  at[k]

OnDiskExt(w, s) == AsExt(w.disk[s])

-----------------------------------------------------------------------------
(* Blocks in memory: loading, writing back *)

LoadExt(w, s) ==
  IF ReadsAsExt(w.disk[s])
    THEN [w EXCEPT !.file.currentExt = OnDiskExt(w, s)]
    ELSE Fails(w)

LoadData(w, s) == [w EXCEPT !.file.currentData = AsData(w.disk[s]),
                            !.file.curDataPtr = s]

WriteExt(w) ==
  LET e == w.file.currentExt IN
  IF e = NoExt THEN w ELSE [w EXCEPT !.disk[e.headerKey] = e]

WriteData(w) ==
  IF w.file.curDataPtr = 0 THEN w
  ELSE [w EXCEPT !.disk[w.file.curDataPtr] = w.file.currentData]

\* Deviation: the extension block is not written.
Flush_KeepsExt(w) ==
  LET d == IF Size(w) = 0 \/ w.file.curDataPtr = 0 THEN w ELSE WriteData(w)
  IN  [d EXCEPT !.header = d.file.fileHdr]

\* adfFileFlush: extension block, data block, header, in this order. The size
\* it gives an OFS data block is the position in it.
Flush(w) ==
  LET e == WriteExt(w)
      sized == IF OFS THEN [e EXCEPT !.file.currentData.dataSize = e.file.posInDataBlk]
                      ELSE e
      d == IF Size(w) = 0 \/ w.file.curDataPtr = 0 THEN e ELSE WriteData(sized)
  IN  [d EXCEPT !.header = d.file.fileHdr]

FlushIfChanged(w) ==
  IF w.file.changed THEN [Flush(w) EXCEPT !.file.changed = FALSE] ELSE w

-----------------------------------------------------------------------------
(* The next data block *)

\* The extension block adfFileReadNextBlock needs to find the next data block.
NextExt(w) ==
  LET f == w.file
      s == IF f.nDataBlock = MaxDatablk THEN f.fileHdr.extension
                                        ELSE f.currentExt.extension
  IN  IF f.nDataBlock = MaxDatablk \/ f.posInExtBlk = MaxDatablk
        THEN [LoadExt(w, s) EXCEPT !.file.posInExtBlk = 0]
        ELSE w

adfFileReadNextBlock(w) ==
  LET f == w.file
      n == f.nDataBlock
      inExt == ~OFS /\ n >= MaxDatablk
      e == IF inExt THEN NextExt(w) ELSE w
      s == IF n = 0 THEN f.fileHdr.firstData
           ELSE IF OFS THEN f.currentData.nextData
           ELSE IF n < MaxDatablk THEN f.fileHdr.dataBlocks[n]
           ELSE e.file.currentExt.dataBlocks[e.file.posInExtBlk]
      counted == IF inExt THEN [e EXCEPT !.file.posInExtBlk = @ + 1] ELSE e
  IN  IF ~e.ok THEN e
      ELSE IF s = 0 THEN Fails(counted)
      ELSE [LoadData(counted, s) EXCEPT !.file.nDataBlock = n + 1]

\* adfGet1FreeBlock
Grantable(w) == w.free # {}
Granted(w) == CHOOSE s \in w.free : \A t \in w.free : s <= t
Grant(w) == [w EXCEPT !.free = @ \ {Granted(w)}]

\* Deviation: the extension block that is full is not linked with the new one.
CreateExt_Unlinked(w) ==
  LET s == Granted(w)
      linked == IF w.file.nDataBlock = MaxDatablk
                  THEN [Grant(w) EXCEPT !.file.fileHdr.extension = s]
                  ELSE WriteExt(Grant(w))
  IN  [linked EXCEPT !.file.currentExt = ExtBlock(s, NoEntries, 0, 0),
                     !.file.posInExtBlk = 0]

\* A new extension block replaces the one in memory, which is linked with it
\* and written.
CreateExt(w) ==
  LET s == Granted(w)
      linked == IF w.file.nDataBlock = MaxDatablk
                  THEN [Grant(w) EXCEPT !.file.fileHdr.extension = s]
                  ELSE WriteExt([Grant(w) EXCEPT !.file.currentExt.extension = s])
  IN  [linked EXCEPT !.file.currentExt = ExtBlock(s, NoEntries, 0, 0),
                     !.file.posInExtBlk = 0]

NeedsExt(n) == n >= MaxDatablk /\ n % MaxDatablk = 0

\* The new data block is listed where the last one was, or in the next list.
List(w, s) ==
  LET n == w.file.nDataBlock
      p == w.file.posInExtBlk
  IN  IF n < MaxDatablk
        THEN [w EXCEPT !.file.fileHdr.dataBlocks[n] = s,
                       !.file.fileHdr.highSeq = @ + 1,
                       !.file.fileHdr.firstData = IF n = 0 THEN s ELSE @]
        ELSE [w EXCEPT !.file.currentExt.dataBlocks[p] = s,
                       !.file.currentExt.highSeq = @ + 1,
                       !.file.posInExtBlk = p + 1]

\* Deviation: on OFS the previous data block is not linked with the new one.
StartBlock_Unlinked(w, s) ==
  LET written == IF w.file.pos >= BlockSize THEN WriteData(w) ELSE w
  IN  [written EXCEPT !.file.currentData = DataBlock(Zeros, 0, 0),
                      !.file.curDataPtr = s,
                      !.file.nDataBlock = @ + 1]

\* The data block in memory is written, linked with the new one on OFS, and
\* makes room for it.
StartBlock(w, s) ==
  LET linked == IF OFS THEN [w EXCEPT !.file.currentData.nextData = s] ELSE w
      written == IF w.file.pos >= BlockSize THEN WriteData(linked) ELSE w
  IN  [written EXCEPT !.file.currentData = DataBlock(Zeros, 0, 0),
                      !.file.curDataPtr = s,
                      !.file.nDataBlock = @ + 1]

adfFileCreateNextBlock(w) ==
  LET needs == NeedsExt(w.file.nDataBlock)
      e == IF needs THEN CreateExt(w) ELSE w
      s == Granted(e)
  IN  IF needs /\ ~Grantable(w) THEN Fails(w)
      ELSE IF ~Grantable(e) THEN Fails(e)
      ELSE StartBlock(List(Grant(e), s), s)

-----------------------------------------------------------------------------
(* Seeking *)

\* Deviation: the blocks are counted from where the file was.
adfFileSeekStart_KeepsCount(w) ==
  LET start == [w EXCEPT !.file.pos = 0, !.file.posInExtBlk = 0,
                         !.file.posInDataBlk = 0, !.file.curDataPtr = 0]
      next == adfFileReadNextBlock(start)
  IN  IF Size(w) = 0 THEN start
      ELSE IF next.ok THEN next ELSE FailsWithoutData(next)

\* adfFileSeekStart_
adfFileSeekStart(w) ==
  LET start == [w EXCEPT !.file.pos = 0, !.file.posInExtBlk = 0,
                         !.file.posInDataBlk = 0, !.file.nDataBlock = 0,
                         !.file.curDataPtr = 0]
      next == adfFileReadNextBlock(start)
  IN  IF Size(w) = 0 THEN start
      ELSE IF next.ok THEN next ELSE FailsWithoutData(next)

\* adfFileReadExtBlockN: extension block n is found by following the chain on
\* the disk.
ExtSector(w, n) ==
  Follow(w.file.fileHdr.extension, LAMBDA s : OnDiskExt(w, s).extension, n)

ReadExtBlockN(w, n) ==
  IF n < adfFileSize2Extblocks(Size(w)) THEN LoadExt(w, ExtSector(w, n))
                                        ELSE Fails(w)

\* adfFileSeekExt_, to a position before the end of the file.
adfFileSeekExt(w, pos) ==
  LET at == adfFilePos2DataBlock(pos)
      moved == [w EXCEPT !.file.pos = pos,
                         !.file.posInExtBlk = at.posInExtBlk,
                         !.file.posInDataBlk = at.posInDataBlk,
                         !.file.nDataBlock = at.curDataN]
      e == IF at.extBlock = -1 THEN moved ELSE ReadExtBlockN(moved, at.extBlock)
      s == IF at.extBlock = -1 THEN e.file.fileHdr.dataBlocks[at.curDataN]
                               ELSE e.file.currentExt.dataBlocks[at.posInExtBlk]
      found == IF at.extBlock = -1 THEN e ELSE [e EXCEPT !.file.posInExtBlk = @ + 1]
  IN  IF ~e.ok THEN FailsWithoutData(e)
      ELSE IF s = 0 THEN FailsWithoutData(found)
      ELSE [LoadData(found, s) EXCEPT !.file.nDataBlock = @ + 1]

CurrentBlock(f) == IF f.nDataBlock > 0 THEN f.nDataBlock - 1 ELSE 0

StaysInBlock(w, pos) ==
  /\ w.file.curDataPtr # 0
  /\ w.file.pos = pos \/ CurrentBlock(w.file) = pos \div BlockSize

MoveInBlock(w, pos) ==
  LET to == IF pos < Size(w) THEN pos ELSE Size(w)
  IN  IF w.file.pos = pos THEN w
      ELSE [w EXCEPT !.file.pos = to, !.file.posInDataBlk = to % BlockSize]

\* A seek inside the file: in the block, or to another one after a flush.
SeekInside(w, pos) ==
  LET f == FlushIfChanged(w) IN
  IF StaysInBlock(w, pos) THEN MoveInBlock(w, pos)
  ELSE IF pos = 0 THEN adfFileSeekStart(f)
  ELSE adfFileSeekExt(f, pos)

\* adfFileSeekEOF_: to the last byte, then one further.
adfFileSeekEOF(w) ==
  LET last == SeekInside([w EXCEPT !.file.pos = Size(w)], Size(w) - 1)
  IN  IF Size(w) = 0 THEN adfFileSeekStart(w)
      ELSE IF ~last.ok THEN last
      ELSE [last EXCEPT !.file.pos = Size(w),
                        !.file.posInDataBlk =
                           IF Size(w) % BlockSize = 0 THEN BlockSize
                                                      ELSE Size(w) % BlockSize]

\* adfFileSeek
Seek(w, pos) ==
  IF pos < Size(w) \/ StaysInBlock(w, pos) \/ pos = 0
    THEN SeekInside(w, pos)
    ELSE adfFileSeekEOF(FlushIfChanged(w))

-----------------------------------------------------------------------------
(* Truncating *)

\* Deviation: one entry too many.
UsedEntries_OffByOne(dataN, n) ==
  LET before == MaxDatablk * n IN
  {i \in Entries : before + i <= dataN}

\* The entries of list number n (0: the header) of a file of dataN blocks.
UsedEntries(dataN, n) ==
  LET before == MaxDatablk * n IN
  {i \in Entries : before + i < dataN}

\* adfFileTruncateGetBlocksToRemove. Extension blocks are read from the disk.
BlocksToRemove(w, size) ==
  LET dataOld == adfFileSize2Datablocks(Size(w))
      dataNew == adfFileSize2Datablocks(size)
      extOld  == adfFileSize2Extblocks(Size(w))
      extNew  == adfFileSize2Extblocks(size)
      Sector(n) == ExtSector(w, n - 1)
      Listed(n) == IF n = 0 THEN w.file.fileHdr.dataBlocks
                            ELSE OnDiskExt(w, Sector(n)).dataBlocks
      lists == {n \in extNew..extOld : n = 0 \/ Sector(n) # 0}
  IN  [data |-> UNION {{Listed(n)[i] : i \in UsedEntries(dataOld, n)
                                              \ UsedEntries(dataNew, n)} : n \in lists},
       ext  |-> {Sector(n) : n \in lists \cap (extNew + 1)..extOld},
       ok   |-> /\ \A n \in lists \ {0} : ReadsAsExt(w.disk[Sector(n)])
                /\ lists = extNew..extOld
                /\ extOld > 0 => Sector(extOld + 1) = 0]

\* Deviation: highSeq counts the removed blocks.
Shortened_KeepsHighSeq(list, dataN) ==
  LET n == dataN % MaxDatablk IN
  IF n = 0 THEN list
  ELSE [list EXCEPT !.dataBlocks = [i \in Entries |-> IF i < n THEN @[i] ELSE 0]]

\* The last list of a file cut to dataN blocks: a header or extension block.
Shortened(list, dataN) ==
  LET n == dataN % MaxDatablk IN
  IF n = 0 THEN list
  ELSE [list EXCEPT !.dataBlocks = [i \in Entries |-> IF i < n THEN @[i] ELSE 0],
                    !.highSeq = n]

CutToNothing(w) == [w EXCEPT !.file.fileHdr = NewHeader]

\* The headers in memory after a cut to a size that is not 0; the file is at
\* its new end.
CutTo(w, size) ==
  LET dataN == adfFileSize2Datablocks(size)
      sized == [w EXCEPT !.file.fileHdr.byteSize = size, !.file.changed = TRUE]
      cut == IF dataN <= MaxDatablk
               THEN [sized EXCEPT !.file.fileHdr =
                       [Shortened(@, dataN) EXCEPT !.extension = 0]]
               ELSE [sized EXCEPT !.file.currentExt =
                       [Shortened(@, dataN) EXCEPT !.extension = 0]]
  IN  IF ~OFS THEN cut
      ELSE [cut EXCEPT !.file.currentData.nextData = 0,
                       !.file.currentData.dataSize =
                          IF size % BlockSize = 0 THEN BlockSize
                                                  ELSE size % BlockSize]

Truncated(w, size) ==
  LET remove == BlocksToRemove(w, size)
      at == Seek(w, size)
      cut == IF size = 0 THEN CutToNothing(at) ELSE CutTo(at, size)
  IN  IF ~remove.ok THEN Fails(w)
      ELSE IF ~at.ok THEN at
      ELSE [cut EXCEPT !.free = @ \cup (remove.data \ {0}) \cup remove.ext]

-----------------------------------------------------------------------------
(* Operations *)

\* A volume with an empty, closed file.
Init ==
  /\ vol \in Volumes
  /\ file = Closed
  /\ disk = [s \in Sectors \cup {0} |-> IF s = 0 THEN Boot ELSE Zero]
  /\ header = NewHeader
  /\ free = Sectors

\* adfFileOpen: the header is read and the file is at its start.
adfFileOpen ==
  /\ ~file.open
  /\ LET w == [World EXCEPT !.file = [Closed EXCEPT !.open = TRUE,
                                                    !.fileHdr = header]]
     IN Becomes(Seek(w, 0))

adfFileFlush == file.open /\ Becomes(Flush(World))

\* adfFileClose: the file is flushed, its memory is released.
adfFileClose ==
  /\ file.open
  /\ Becomes([Flush(World) EXCEPT !.file = Closed])

\* The data block in memory is as it is on the disk.
DataOnDisk ==
  file.curDataPtr # 0 =>
    AsData(disk[file.curDataPtr]) = file.currentData

\* So are the header and the extension block in memory.
HeadersOnDisk ==
  /\ header = file.fileHdr
  /\ file.currentExt # NoExt =>
       file.currentExt = OnDiskExt(World, file.currentExt.headerKey)

\* The program flushes a block it has changed before it reads past its end.
CarefulRead ==
  "flush_to_read" \in Habits /\ file.posInDataBlk = BlockSize => DataOnDisk

\* It flushes the file before it extends it on a volume that may be full, and
\* does not extend it when two blocks are needed and one is left.
CarefulWrite ==
  LET needed  == IF NeedsExt(file.nDataBlock) THEN 2 ELSE 1
      left    == Cardinality(free)
      extends == adfFileAtEOF(World) /\ file.pos % BlockSize = 0
  IN  /\ "flush_to_extend" \in Habits /\ extends /\ left < needed =>
           DataOnDisk /\ HeadersOnDisk
      /\ "room_to_extend" \in Habits /\ extends /\ needed = 2 => left # 1

\* One turn of adfFileRead.
ReadChunk(n) ==
  /\ file.open /\ CarefulRead
  /\ ~adfFileAtEOF(World)
  /\ LET next == adfFileReadNextBlock(World)
         w == IF file.posInDataBlk < BlockSize THEN World
              ELSE IF ~next.ok THEN FailsWithoutData(next)
              ELSE [next EXCEPT !.file.posInDataBlk = 0, !.file.changed = FALSE]
     IN IF ~w.ok THEN n = 1 /\ Becomes(w)
        ELSE /\ n <= BlockSize - w.file.posInDataBlk
             /\ file.pos + n <= Size(World)
             /\ Becomes([w EXCEPT !.file.pos = @ + n, !.file.posInDataBlk = @ + n])

\* The data block one turn of adfFileWrite writes to.
BlockToWrite ==
  LET new == [adfFileCreateNextBlock(World) EXCEPT !.file.changed = FALSE]
      next == adfFileReadNextBlock(FlushIfChanged(World))
      at == IF adfFileAtEOF(World) THEN new
            ELSE IF file.posInDataBlk < BlockSize THEN World
            ELSE IF next.ok THEN next
            ELSE FailsWithoutData(next)
  IN  IF file.pos % BlockSize # 0 THEN World
      ELSE IF ~at.ok THEN at
      ELSE [at EXCEPT !.file.posInDataBlk = 0]

\* n bytes b at the position of the file, which moves behind them.
Stored(w, n, b) ==
  LET f == w.file
      put == f.posInDataBlk .. (f.posInDataBlk + n - 1)
      end == f.pos + n
      size == IF end > f.fileHdr.byteSize THEN end ELSE f.fileHdr.byteSize
      filled == f.posInDataBlk + n
  IN  [w EXCEPT
        !.file.currentData.bytes = [i \in Offsets |-> IF i \in put THEN b ELSE @[i]],
        !.file.currentData.dataSize = IF OFS /\ @ < filled THEN filled ELSE @,
        !.file.fileHdr.byteSize = size,
        !.file.pos = end,
        !.file.posInDataBlk = filled]

\* Deviation: the block is not marked as changed.
Put_Unmarked(w, n, b) == Stored(w, n, b)

Put(w, n, b) == [Stored(w, n, b) EXCEPT !.file.changed = TRUE]

\* One turn of adfFileWrite.
WriteChunk(n, b) ==
  /\ file.open /\ CarefulWrite
  /\ file.pos + n <= MaxSize
  /\ LET w == BlockToWrite IN
       /\ w.ok
       /\ n <= BlockSize - w.file.posInDataBlk
       /\ Becomes(Put(w, n, b))

\* A turn of adfFileWrite that gets no block: adfFileWrite returns.
WriteFails ==
  /\ file.open /\ CarefulWrite
  /\ file.pos < MaxSize
  /\ LET w == BlockToWrite IN ~w.ok /\ Becomes(w)

adfFileSeek(pos) == file.open /\ Becomes(Seek(World, pos))

\* The program flushes the file before it truncates it, and does not truncate a
\* file so that it needs no extension block while one is in memory.
CarefulTruncate(size) ==
  /\ "flush_to_truncate" \in Habits => HeadersOnDisk
  /\ "reopen_to_truncate" \in Habits /\ adfFileSize2Extblocks(size) = 0 =>
       file.currentExt = NoExt

\* adfFileTruncate to a smaller size. To a larger size it is adfFileSeek to the
\* end, then adfFileWrite.
adfFileTruncate(size) ==
  /\ file.open
  /\ size < Size(World)
  /\ CarefulTruncate(size)
  /\ Becomes(Truncated(World, size))

Next ==
  /\ \/ adfFileOpen \/ adfFileFlush \/ adfFileClose
     \/ \E n \in 1..BlockSize :
          ReadChunk(n) \/ (\E b \in vol.bytes : WriteChunk(n, b))
     \/ WriteFails
     \/ \E pos \in 0..MaxSize : adfFileSeek(pos)
     \/ \E size \in vol.truncateTo : adfFileTruncate(size)
  /\ UNCHANGED vol

Spec == Init /\ [][Next]_vars

-----------------------------------------------------------------------------
(* The file as its user sees it *)

Hdr == IF file.open THEN file.fileHdr ELSE header

\* The extension block in memory stands for that on the disk.
ExtNow(s) ==
  IF file.currentExt # NoExt /\ file.currentExt.headerKey = s
    THEN file.currentExt ELSE AsExt(disk[s])

\* The sectors of extension block k and of data block k.
ExtOf(k) == Follow(Hdr.extension, LAMBDA s : ExtNow(s).extension, k)

DataOf(k) ==
  IF k < MaxDatablk THEN Hdr.dataBlocks[k]
  ELSE LET at == adfFilePos2DataBlock(k * BlockSize)
       IN  ExtNow(ExtOf(at.extBlock)).dataBlocks[at.posInExtBlk]

DataNumbers == 0 .. (adfFileSize2Datablocks(Hdr.byteSize) - 1)
ExtNumbers  == 0 .. (adfFileSize2Extblocks(Hdr.byteSize) - 1)

\* The data block in memory stands for that on the disk.
BlockNow(k) ==
  IF file.curDataPtr # 0 /\ k = file.nDataBlock - 1
    THEN file.currentData ELSE AsData(disk[DataOf(k)])

Content == [i \in 1..Hdr.byteSize |->
              BlockNow((i - 1) \div BlockSize).bytes[(i - 1) % BlockSize]]

-----------------------------------------------------------------------------
(* Properties *)

TypeOK ==
  /\ disk \in [Sectors \cup {0} ->
        {Zero, Boot}
        \cup [kind : {"data"}, bytes : [Offsets -> Bytes],
              nextData : Sectors \cup {0}, dataSize : 0..BlockSize]
        \cup [kind : {"ext"}, headerKey : Sectors,
              dataBlocks : [Entries -> Sectors \cup {0}],
              highSeq : 0..MaxDatablk, extension : Sectors \cup {0}]]
  /\ header \in [byteSize : 0..MaxSize, dataBlocks : [Entries -> Sectors \cup {0}],
                 firstData : Sectors \cup {0}, highSeq : 0..MaxDatablk,
                 extension : Sectors \cup {0}]
  /\ free \subseteq Sectors
  /\ file.pos \in 0..MaxSize /\ file.posInDataBlk \in 0..BlockSize
  /\ file.posInExtBlk \in 0..MaxDatablk /\ file.nDataBlock \in Nat

\* The file is a sequence of bytes with a position: what is written is read
\* back, wherever the block boundaries are and whichever blocks are in memory,
\* and the file is the same after it was closed and opened again.
Abstract == INSTANCE FileSpec WITH
  content <- Content, position <- file.pos, isOpen <- file.open,
  MaxChunk <- BlockSize
IsByteSequence == Abstract!Spec

\* Every block the file needs is its own, and every block that is not free is
\* one of them: none is lost, none is shared, none is in the bitmap's free set.
OwnsItsBlocks ==
  LET dataBlocks == {DataOf(k) : k \in DataNumbers}
      extBlocks  == {ExtOf(k) : k \in ExtNumbers}
      own == dataBlocks \cup extBlocks
  IN  /\ own = Sectors \ free
      /\ Cardinality(own) = Cardinality(DataNumbers) + Cardinality(ExtNumbers)

\* What adfFileFlush writes are blocks of the file.
FlushesOwnBlocks ==
  /\ file.currentExt # NoExt =>
       \E k \in ExtNumbers : ExtOf(k) = file.currentExt.headerKey
  /\ file.curDataPtr # 0 =>
       file.nDataBlock - 1 \in DataNumbers
         /\ file.curDataPtr = DataOf(file.nDataBlock - 1)

\* A data block that differs from the disk is marked, so that adfFileSeek and
\* adfFileWrite write it before they replace it.
ChangesAreMarked ==
  file.curDataPtr # 0 /\ ~file.changed =>
    AsData(disk[file.curDataPtr]).bytes = file.currentData.bytes

\* On OFS the data blocks of a closed file are linked in the order of the file.
OfsLinks ==
  OFS /\ ~file.open =>
    \A k \in DataNumbers :
      AsData(disk[DataOf(k)]).nextData =
        IF k + 1 \in DataNumbers THEN DataOf(k + 1) ELSE 0

\* The data blocks adfFileTruncate removes are listed: no entry is 0.
TruncatesListed ==
  \A size \in vol.truncateTo :
    adfFileTruncate(size) => 0 \notin BlocksToRemove(World, size).data
RemovesListedBlocks == [][TruncatesListed]_vars

\* Reading changes no byte of the file.
ReadKeepsContent ==
  [][(\E n \in 1..BlockSize : ReadChunk(n)) => Content' = Content]_vars

=============================================================================
