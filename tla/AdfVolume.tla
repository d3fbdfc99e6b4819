------------------------------ MODULE AdfVolume ------------------------------
(***************************************************************************)
(* A volume as a range of the blocks of a device (src/src/adf_vol.c) and   *)
(* the blocks a new volume is made of (adfVolCreate and, in                *)
(* src/src/adf_bitm.c, adfCreateBitmap, adfWriteNewBitmap and              *)
(* adfUpdateBitmap; adf_raw.c for the boot and root blocks).               *)
(*                                                                         *)
(* The module has operators only. What a function does to the device is a  *)
(* change of a record io = [image, writable, ok]: the blocks of the image, *)
(* whether the driver writes them, and whether every call so far           *)
(* succeeded; after a call that failed the function returns.               *)
(*                                                                         *)
(* A block is a record with a kind. Checksums are the kind: a block that   *)
(* is read as something it is not has a wrong checksum or identifier,      *)
(* except where the code looks at neither (ReadExt) or where all bytes are *)
(* zero (a blank block is a bitmap page with no free block).               *)
(***************************************************************************)
EXTENDS Integers, Sequences, FiniteSets, SequencesExt

CONSTANTS
  PageBits,   \* blocks covered by one bitmap page (ADF_BM_MAP_SIZE * 32)
  RootPages,  \* pages listed in the root block (ADF_BM_PAGES_ROOT_SIZE)
  ExtPages,   \* pages listed in an extension block (ADF_BM_PAGES_EXT_SIZE)
  Modulus     \* sector numbers are computed modulo this (uint32_t)

ASSUME BlockAssumption ==
  /\ PageBits \in Nat \ {0} /\ RootPages \in Nat \ {0} /\ ExtPages \in Nat \ {0}
  /\ Modulus \in Nat \ {0}

\* The smaller of two numbers (adf_util.h, min).
least(a, b) == IF a <= b THEN a ELSE b

-----------------------------------------------------------------------------
(* Blocks *)

Blank    == [kind |-> "blank"]
Data     == [kind |-> "data"]
BootCode == [kind |-> "bootcode"]
Cache    == [kind |-> "cache"]
Boot(root) == [kind |-> "boot", root |-> root]
Page(bits) == [kind |-> "page", bits |-> bits]
Ext(pages, next) == [kind |-> "bmext", pages |-> pages, next |-> next]
Root(pages, ext, cache, flag) ==
  [kind |-> "root", pages |-> pages, ext |-> ext, cache |-> cache, bmFlag |-> flag]

-----------------------------------------------------------------------------
(* The range of a volume *)

\* A volume of a device in memory; root is -1 when it has no AmigaDOS file
\* system.
Volume(first, last, root) == [first |-> first, last |-> last, root |-> root]

SizeInBlocks(v) == v.last - v.first + 1

adfVolCalcRootBlk(first, last) == (last - first + 1) \div 2

adfVolIsSectNumValid(v, nSect) == 0 <= nSect /\ nSect <= v.last - v.first

\* The block of the device a block number of the volume means, in unsigned
\* arithmetic.
Physical(v, nSect) == (nSect + v.first) % Modulus

\* Deviation: only the upper end of the volume is checked.
InVolume_UpperEnd(v, nSect) == Physical(v, nSect) <= v.last

\* The check of adfVolReadBlock and adfVolWriteBlock.
InVolume(v, nSect) ==
  v.first <= Physical(v, nSect) /\ Physical(v, nSect) <= v.last

\* The check of the driver: the block is inside the image.
OnDevice(image, pSect) == pSect \in DOMAIN image

\* adfVolReadBlock: the block, or one of kind "error".
adfVolReadBlock(image, v, nSect) ==
  IF InVolume(v, nSect) /\ OnDevice(image, Physical(v, nSect))
    THEN image[Physical(v, nSect)] ELSE [kind |-> "error"]

\* adfDevWriteBlock with the driver below it.
adfDevWriteBlock(io, pSect, block) ==
  CASE ~io.ok -> io
    [] io.ok /\ io.writable /\ OnDevice(io.image, pSect) ->
         [io EXCEPT !.image[pSect] = block]
    [] OTHER -> [io EXCEPT !.ok = FALSE]

\* adfVolWriteBlock: a volume opened read-only is not written.
adfVolWriteBlock(io, v, readOnly, nSect, block) ==
  IF io.ok /\ (readOnly \/ ~InVolume(v, nSect)) THEN [io EXCEPT !.ok = FALSE]
  ELSE adfDevWriteBlock(io, Physical(v, nSect), block)

-----------------------------------------------------------------------------
(* The bitmap of a volume: bm = [free, chg], the free blocks and the pages  *)
(* marked changed.                                                          *)

PageOf(nSect) == (nSect - 2) \div PageBits

\* Pages of the bitmap (adfBitmapAllocate, nBlock2bitmapSize).
BitmapSize(v) == (SizeInBlocks(v) - 2 + PageBits - 1) \div PageBits

\* adfCreateBitmap: the tables come from malloc, and hold what was left there;
\* blocks are set free one by one from firstBlock + 2.
adfCreateBitmap(v, left) ==
  LET set == (v.first + 2)..(v.last - v.first) IN
    [free |-> set \cup (IF left.bits THEN 2..(v.last - v.first) ELSE {}),
     chg  |-> {PageOf(s) : s \in set}
                \cup (IF left.chg THEN 0..(BitmapSize(v) - 1) ELSE {})]

\* adfGetFreeBlocks looks at the blocks from the root block to the last one,
\* then from block 2 on: when it comes to a block, and what it saw before.
ScanPosition(v, nSect) ==
  IF v.root <= nSect THEN nSect - v.root ELSE nSect - v.root + v.last - v.first - 1

SeenBefore(v, S, nSect) == {s \in S : ScanPosition(v, s) < ScanPosition(v, nSect)}

\* The first blocks adfGetFreeBlocks finds free (fewer than nbSect when the
\* volume is full).
FirstFree(bm, v, nbSect) ==
  LET free == bm.free \cap 2..(v.last - v.first) IN
    [i \in 1..least(nbSect, Cardinality(free)) |->
       CHOOSE s \in free : Cardinality(SeenBefore(v, free, s)) = i - 1]

\* Deviation: the blocks that were granted stay free.
Used_StaysFree(bm, sectList) ==
  [free |-> bm.free, chg |-> bm.chg \cup {PageOf(s) : s \in ToSet(sectList)}]

\* adfSetBlockUsed for each block of a list.
Used(bm, sectList) ==
  [free |-> bm.free \ ToSet(sectList),
   chg  |-> bm.chg \cup {PageOf(s) : s \in ToSet(sectList)}]

\* What one bitmap page says of the blocks it covers.
Bits(free, i) == {b \in 0..(PageBits - 1) : i * PageBits + b + 2 \in free}

\* The blocks that pages, in their order, say are free.
FreeOn(v, pages) ==
  {s \in 2..(v.last - v.first) : (s - 2) % PageBits \in pages[PageOf(s) + 1]}

-----------------------------------------------------------------------------
(* Reading the bitmap from the disk (adfReadBitmap) *)

\* adfReadRootBlock
IsRoot(block) == block.kind = "root"

\* adfReadBitmapBlock: the bits, when the checksum is right.
IsPage(block) == block.kind \in {"page", "blank"}
PageBitsOf(block) == IF block.kind = "page" THEN block.bits ELSE {}

\* adfReadBitmapExtBlock looks at no checksum; the blocks that follow in the
\* chain of extension blocks (only those that are ones).
IsExt(block) == block.kind = "bmext"
ExtChain(image, v, ext) ==
  LET block(s) == adfVolReadBlock(image, v, s)
      chain[n \in Nat] ==
        IF n = 0 THEN IF ext = 0 THEN <<>> ELSE <<ext>>
        ELSE LET c == chain[n - 1] IN
               IF c = <<>> THEN c
               ELSE IF ~IsExt(block(Last(c))) \/ block(Last(c)).next = 0 THEN c
               ELSE Append(c, block(Last(c)).next)
  IN chain[BitmapSize(v)]

\* The sectors of the pages of a volume, as the root block and the extension
\* blocks list them: no more than the bitmap has pages.
PageList(image, v, root) ==
  LET exts == ExtChain(image, v, root.ext)
      listed == root.pages \o FlattenSeq(
                  [k \in 1..Len(exts) |->
                     LET b == adfVolReadBlock(image, v, exts[k]) IN
                       IF IsExt(b) THEN b.pages ELSE <<>>])
  IN SubSeq(listed, 1, least(BitmapSize(v), Len(listed)))

\* adfReadBitmap succeeds: all pages are listed and can be read.
adfReadBitmap(image, v, root) ==
  LET pages == PageList(image, v, root) IN
    /\ Len(pages) = BitmapSize(v)
    /\ \A i \in 1..Len(pages) :
         adfVolIsSectNumValid(v, pages[i]) /\ IsPage(adfVolReadBlock(image, v, pages[i]))

\* The blocks that are free according to the disk.
FreeOnDisk(image, v, root) ==
  LET pages == PageList(image, v, root) IN
    FreeOn(v, [i \in 1..Len(pages) |-> PageBitsOf(adfVolReadBlock(image, v, pages[i]))])

-----------------------------------------------------------------------------
(* Writing the bitmap of a new volume *)

\* The sequence of at most n elements of s from position i on.
Part(s, i, n) == SubSeq(s, i, least(i + n - 1, Len(s)))

\* adfWriteNewBitmap, the lists in the root block and in the extension blocks:
\* the root block lists the first pages. In each extension block the index of
\* the page starts at 0 again and with it that of the list of sectors.
ExtBlocksOf(nPages) == (nPages - RootPages + ExtPages - 1) \div ExtPages
RootList(sectList)  == Part(sectList, 1, RootPages)
ExtList(sectList, k) ==
  Part(sectList, 1, least(ExtPages, Len(sectList) - RootPages - (k - 1) * ExtPages))

\* adfWriteNewBitmap: [io, bm, blocks], blocks being the sectors of the pages.
adfWriteNewBitmap(io, v, readOnly, bm) ==
  LET root     == adfVolReadBlock(io.image, v, v.root)
      sectList == FirstFree(bm, v, BitmapSize(v))
      bm1      == Used(bm, sectList)
      nExt     == IF Len(sectList) > RootPages THEN ExtBlocksOf(Len(sectList)) ELSE 0
      extList  == FirstFree(bm1, v, nExt)
      full     == Len(sectList) < BitmapSize(v) \/ Len(extList) < nExt
      written[k \in 0..nExt] ==
        IF k = 0 THEN io
        ELSE adfVolWriteBlock(written[k - 1], v, readOnly, extList[k],
               Ext(ExtList(sectList, k), IF k < nExt THEN extList[k + 1] ELSE 0))
      newRoot  == [root EXCEPT !.pages = RootList(sectList),
                               !.ext = IF nExt > 0 THEN extList[1] ELSE 0]
  IN IF ~io.ok \/ ~IsRoot(root) \/ full
       THEN [io |-> [io EXCEPT !.ok = FALSE], bm |-> bm, blocks |-> <<>>]
       ELSE [io |-> adfVolWriteBlock(written[nExt], v, readOnly, v.root, newRoot),
             bm |-> Used(bm1, extList),
             blocks |-> RootList(sectList) \o
                        FlattenSeq([k \in 1..nExt |-> ExtList(sectList, k)])]

\* adfUpdateBitmap, one turn of its loop.
WritePage(io, v, readOnly, bm, i, nSect) ==
  IF i \in bm.chg THEN adfVolWriteBlock(io, v, readOnly, nSect, Page(Bits(bm.free, i))) ELSE io

\* adfUpdateBitmap: the root block with the flag invalid, the changed pages, the
\* root block with the flag valid.
adfUpdateBitmap(io, v, readOnly, bm, blocks) ==
  LET root == adfVolReadBlock(io.image, v, v.root)
      writeRoot(w, flag) ==
        adfVolWriteBlock(w, v, readOnly, v.root, [root EXCEPT !.bmFlag = flag])
      written[i \in 0..Len(blocks)] ==
        IF i = 0 THEN writeRoot(io, "invalid")
        ELSE WritePage(written[i - 1], v, readOnly, bm, i - 1, blocks[i])
  IN IF ~io.ok \/ ~IsRoot(root) THEN [io EXCEPT !.ok = FALSE]
     ELSE writeRoot(written[Len(blocks)], "valid")

-----------------------------------------------------------------------------
(* Making and reading a volume *)

\* Deviation: the volume ends one block too late.
NewVolume_OneMore(cylBlocks, start, len) ==
  LET first == cylBlocks * start
      last  == first + cylBlocks * len
  IN Volume(first, last, adfVolCalcRootBlk(first, last))

\* The volume adfVolCreate makes of cylinders start .. start + len - 1.
NewVolume(cylBlocks, start, len) ==
  LET first == cylBlocks * start
      last  == first + cylBlocks * len - 1
  IN Volume(first, last, adfVolCalcRootBlk(first, last))

\* adfWriteBootBlock
WriteBoot(io, v, readOnly, root) ==
  adfVolWriteBlock(adfVolWriteBlock(io, v, readOnly, 0, Boot(root)), v, readOnly, 1, BootCode)

\* adfVolCreate on a volume with room for the root block and the directory
\* cache block; nothing looks at whether the cache block was written.
adfVolCreate(io, v, readOnly, dircache, left) ==
  LET io1  == WriteBoot(io, v, readOnly, v.root)
      bm   == adfCreateBitmap(v, left)
      list == FirstFree(bm, v, IF dircache THEN 2 ELSE 1)
      io2  == IF dircache
                THEN [adfVolWriteBlock(io1, v, readOnly, list[2], Cache) EXCEPT !.ok = io1.ok]
                ELSE io1
      io3  == adfVolWriteBlock(io2, v, readOnly, list[1],
                Root(<<>>, 0, IF dircache THEN list[2] ELSE 0, "invalid"))
      new  == adfWriteNewBitmap(io3, v, readOnly, Used(bm, list))
  IN adfUpdateBitmap(new.io, v, readOnly, new.bm, new.blocks)

\* Enough free blocks to make the volume: the result of adfGetFreeBlocks is not
\* looked at, and blkList is not initialised.
HasRoom(v, left) == Len(FirstFree(adfCreateBitmap(v, left), v, 2)) = 2

\* The volume can be mounted read-only (adfVolMount_).
Mountable(image, v) ==
  LET root == adfVolReadBlock(image, v, v.root) IN
    v.root >= 0 /\ IsRoot(root) /\ adfReadBitmap(image, v, root)

\* adfVolCheckFilesystem, of a volume with an empty directory.
Consistent(image, v) ==
  adfVolReadBlock(image, v, v.root).bmFlag = "valid"
=============================================================================
