------------------------------ MODULE AdfBitmap ------------------------------
(***************************************************************************)
(* The block allocation bitmap of a mounted volume (src/src/adf_bitm.c)    *)
(* and the part of mounting that concerns it (src/src/adf_vol.c).          *)
(*                                                                         *)
(* The bitmap exists twice: the tables in memory (vol->bitmap.table), one  *)
(* bit per block, with a "changed" mark per bitmap page                    *)
(* (vol->bitmap.blocksChg); and the pages on the disk, with the bmFlag of  *)
(* the root block that says whether the pages can be trusted.              *)
(* adfUpdateBitmap carries the memory copy to the disk, one block write at *)
(* a time; a write may fail and the program may stop between two writes.   *)
(*                                                                         *)
(* The callers of the bitmap (file and directory code) are represented by  *)
(* the blocks they were granted (held) and the blocks that metadata on the *)
(* disk refers to (tree): they Link held blocks by writing a block that    *)
(* refers to them, and Unlink them before they free them.                  *)
(***************************************************************************)
EXTENDS Integers, FiniteSets

CONSTANTS
  LastBlock,   \* vol->lastBlock - vol->firstBlock
  RootBlock,   \* vol->rootBlock
  PageBits,    \* blocks covered by one bitmap page (ADF_BM_MAP_SIZE * 32)
  BmBlocks,    \* the blocks that hold the bitmap pages (vol->bitmap.blocks)
  SysBlocks,   \* bitmap extension blocks, directory cache of the root directory
  Faults       \* what may go wrong, see FaultKinds

FaultKinds == {"crash",          \* the program stops between two block writes
               "io",             \* a block cannot be written, or read
               "early_unmount"}  \* the volume is unmounted in the middle of an operation

\* A volume has some block before the root block (adfVolCalcRootBlk: the middle).
ASSUME GeometryAssumption ==
  /\ LastBlock \in Nat /\ RootBlock \in 3..LastBlock
  /\ PageBits \in Nat \ {0}
ASSUME SystemAssumption ==
  /\ BmBlocks \subseteq 2..LastBlock
  /\ SysBlocks \subseteq 2..LastBlock
  /\ Faults \subseteq FaultKinds

VARIABLES
  mounted,    \* vol->mounted
  readOnly,   \* vol->readOnly
  free,       \* bits of vol->bitmap.table: TRUE for a free block
  blocksChg,  \* vol->bitmap.blocksChg
  upd,        \* progress of adfUpdateBitmap: page to look at next, or NoUpdate
  diskFree,   \* bits of the bitmap pages on the disk
  bmFlag,     \* root.bmFlag on the disk
  tree,       \* blocks that metadata on the disk refers to
  held,       \* blocks granted to callers, or unlinked by them and not yet freed
  committed,  \* history: the bitmap that the last complete update carried
  trusted,    \* history: nothing went wrong since the volume was made or repaired
  shared      \* history: a block in use was granted; two have it from then on

mem  == <<free, blocksChg, upd>>
disk == <<diskFree, bmFlag>>
vol  == <<mounted, readOnly>>
aux  == <<committed, trusted, shared>>
vars == <<vol, mem, disk, tree, held, aux>>

-----------------------------------------------------------------------------
(* Geometry *)

Sectors == 2..LastBlock

\* nBlock2bitmapSize: pages needed for nBlock blocks.
nBlock2bitmapSize(nBlock) ==
  (nBlock \div PageBits) + (IF nBlock % PageBits # 0 THEN 1 ELSE 0)

size  == nBlock2bitmapSize(LastBlock - 1)
Pages == 0..(size - 1)

\* The page of the bit of block nSect (adfIsBlockFree, adfSetBlockFree/Used).
PageOf(nSect) == (nSect - 2) \div PageBits

NoUpdate == -1

-----------------------------------------------------------------------------
(* Reading and changing the tables in memory *)

FreeBlocks == {s \in Sectors : free[s]}

\* Deviation: only the page of the root block is marked changed.
adfSetBlocks_MarksOnePage(S, isFree) ==
  /\ free' = [s \in Sectors |-> IF s \in S THEN isFree ELSE free[s]]
  /\ blocksChg' = [blocksChg EXCEPT ![PageOf(RootBlock)] = TRUE]

adfSetBlocks(S, isFree) ==
  /\ free' = [s \in Sectors |-> IF s \in S THEN isFree ELSE free[s]]
  /\ blocksChg' = [p \in Pages |-> blocksChg[p] \/ \E s \in S : PageOf(s) = p]

\* The order in which adfGetFreeBlocks looks at the blocks: from the root
\* block to the last one, then from block 2 up to the root block.
ScanPos(s) == IF s >= RootBlock THEN s - RootBlock
                                ELSE (LastBlock - RootBlock) + (s - 1)

\* The sets of nbSect free blocks that come first in that order: none when
\* fewer are free, otherwise one.
FirstFree(nbSect) ==
  {S \in SUBSET FreeBlocks :
     /\ Cardinality(S) = nbSect
     /\ \A s \in S : \A t \in FreeBlocks \ S : ScanPos(s) < ScanPos(t)}

\* The caller is not in the middle of an operation.
Quiescent == upd = NoUpdate /\ held = {} /\ \A p \in Pages : ~blocksChg[p]

\* The tables are released; nothing of them is kept.
adfFreeBitmap ==
  /\ free' = [s \in Sectors |-> FALSE]
  /\ blocksChg' = [p \in Pages |-> FALSE]
  /\ upd' = NoUpdate

\* The tables are filled from the pages on the disk.
adfReadBitmap ==
  /\ free' = diskFree
  /\ blocksChg' = [p \in Pages |-> FALSE]

-----------------------------------------------------------------------------
(* Mounting *)

\* Result of adfVolCreate: everything is free but the root block, the bitmap
\* and the other system blocks; the bitmap was written and marked valid.
SystemBlocks == {RootBlock} \cup BmBlocks \cup SysBlocks

InUse == SystemBlocks \cup tree \cup held

Init ==
  /\ mounted = FALSE /\ readOnly = TRUE
  /\ free = [s \in Sectors |-> FALSE]
  /\ blocksChg = [p \in Pages |-> FALSE]
  /\ upd = NoUpdate
  /\ diskFree = [s \in Sectors |-> s \notin SystemBlocks]
  /\ bmFlag = "valid"
  /\ tree = {}
  /\ held = {}
  /\ committed = diskFree
  /\ trusted = TRUE
  /\ shared = FALSE

\* adfVolMount: read the bitmap; read-write only when the flag on the disk
\* says valid, otherwise the volume is unmounted again.
adfVolMount(mode) ==
  /\ ~mounted
  /\ mode = "readwrite" => bmFlag = "valid"
  /\ mounted' = TRUE
  /\ readOnly' = (mode # "readwrite")
  /\ adfReadBitmap
  /\ UNCHANGED <<upd, disk, tree, held, aux>>

\* adfVolRemount: does not look at the file system.
adfVolRemount(mode) ==
  /\ mounted /\ upd = NoUpdate
  /\ readOnly' = (mode # "readwrite")
  /\ UNCHANGED <<mounted, mem, disk, tree, held, aux>>

\* adfVolUnMount: writes nothing.
adfVolUnMount ==
  /\ mounted /\ upd = NoUpdate
  /\ "early_unmount" \in Faults \/ Quiescent
  /\ mounted' = FALSE
  /\ adfFreeBitmap
  /\ held' = {}
  /\ trusted' = (trusted /\ Quiescent)
  /\ UNCHANGED <<readOnly, disk, tree, committed, shared>>

\* The program stops; what is on the disk stays.
Crash ==
  /\ "crash" \in Faults
  /\ mounted
  /\ mounted' = FALSE
  /\ adfFreeBitmap
  /\ held' = {}
  /\ trusted' = (trusted /\ Quiescent)
  /\ UNCHANGED <<readOnly, disk, tree, committed, shared>>

-----------------------------------------------------------------------------
(* Callers *)

adfGetFreeBlocks(nbSect) ==
  /\ mounted /\ upd = NoUpdate
  /\ \E S \in FirstFree(nbSect) :
       /\ adfSetBlocks(S, FALSE)
       /\ held' = held \cup S
       /\ shared' = (shared \/ S \cap InUse # {})
  /\ UNCHANGED <<vol, upd, disk, tree, committed, trusted>>

\* Deviation: the block is handed back, its bit stays "used".
adfSetBlockFree_KeepsBit(s) ==
  /\ mounted /\ upd = NoUpdate
  /\ s \in held
  /\ adfSetBlocks({s}, FALSE)
  /\ held' = held \ {s}
  /\ UNCHANGED <<vol, upd, disk, tree, aux>>

\* A caller gives back a block no metadata refers to.
adfSetBlockFree(s) ==
  /\ mounted /\ upd = NoUpdate
  /\ s \in held
  /\ adfSetBlocks({s}, TRUE)
  /\ held' = held \ {s}
  /\ UNCHANGED <<vol, upd, disk, tree, aux>>

\* A caller writes a block that refers to S (an entry in a hash chain, a
\* file header, an extension block).
Link(S) ==
  /\ mounted /\ ~readOnly /\ upd = NoUpdate
  /\ tree' = tree \cup S
  /\ held' = held \ S
  /\ UNCHANGED <<vol, mem, disk, aux>>

\* A caller rewrites metadata so that it no longer refers to S.
Unlink(S) ==
  /\ mounted /\ ~readOnly /\ upd = NoUpdate
  /\ tree' = tree \ S
  /\ held' = held \cup S
  /\ UNCHANGED <<vol, mem, disk, aux>>

-----------------------------------------------------------------------------
(* adfUpdateBitmap *)

\* Deviation: the pages are written under a flag that still says valid.
UpdateBegin_KeepsFlag ==
  /\ mounted /\ ~readOnly /\ upd = NoUpdate
  /\ upd' = 0
  /\ UNCHANGED <<vol, free, blocksChg, disk, tree, held, aux>>

\* The root block is written with bmFlag = ADF_BM_INVALID (when this fails
\* nothing changes).
UpdateBegin ==
  /\ mounted /\ ~readOnly /\ upd = NoUpdate
  /\ bmFlag' = "invalid"
  /\ upd' = 0
  /\ UNCHANGED <<vol, free, blocksChg, diskFree, tree, held, aux>>

\* Deviation: the index moves past the last page.
UpdatePage_TwoAtOnce ==
  /\ upd \in Pages
  /\ diskFree' = [s \in Sectors |-> IF blocksChg[upd] /\ PageOf(s) = upd
                                       THEN free[s] ELSE diskFree[s]]
  /\ blocksChg' = [blocksChg EXCEPT ![upd] = FALSE]
  /\ upd' = upd + 2
  /\ UNCHANGED <<vol, free, bmFlag, tree, held, aux>>

\* Deviation: the index moves only when a page was written.
UpdatePage_WaitsForChange ==
  /\ upd \in Pages
  /\ diskFree' = [s \in Sectors |-> IF blocksChg[upd] /\ PageOf(s) = upd
                                       THEN free[s] ELSE diskFree[s]]
  /\ blocksChg' = [blocksChg EXCEPT ![upd] = FALSE]
  /\ upd' = IF blocksChg[upd] THEN upd + 1 ELSE upd
  /\ UNCHANGED <<vol, free, bmFlag, tree, held, aux>>

\* The next changed page is written and its mark cleared.
UpdatePage ==
  /\ upd \in Pages
  /\ diskFree' = [s \in Sectors |-> IF blocksChg[upd] /\ PageOf(s) = upd
                                       THEN free[s] ELSE diskFree[s]]
  /\ blocksChg' = [blocksChg EXCEPT ![upd] = FALSE]
  /\ upd' = upd + 1
  /\ UNCHANGED <<vol, free, bmFlag, tree, held, aux>>

\* All pages are written: the root block gets bmFlag = ADF_BM_VALID.
UpdateEnd ==
  /\ upd = size
  /\ bmFlag' = "valid"
  /\ upd' = NoUpdate
  /\ committed' = free
  /\ UNCHANGED <<vol, free, blocksChg, diskFree, tree, held, trusted, shared>>

\* A write fails: adfUpdateBitmap returns early.
UpdateFails ==
  /\ "io" \in Faults
  /\ \/ upd \in Pages /\ blocksChg[upd]
     \/ upd = size
  /\ upd' = NoUpdate
  /\ UNCHANGED <<vol, free, blocksChg, disk, tree, held, aux>>

-----------------------------------------------------------------------------
(* adfReconstructBitmap: the tables in memory are built again from what the *)
(* traversal of the volume finds. All pages are marked changed; blocks 2 up *)
(* to the one before the last are set free, whoever has them; then the root *)
(* block, the bitmap pages and what the entries of the directory tree refer *)
(* to are set used. A block of an open file that no header on the disk      *)
(* refers to yet stays free.                                                *)

\* What adfBitmapListSetUsed marks: the blocks the entries of the tree refer
\* to; only a part of them when a block on the way cannot be read.
Markings == IF "io" \in Faults THEN SUBSET tree ELSE {tree}

\* The traversal finds everything that is in use: no caller holds a block, and
\* every block on the way can be read; and what went wrong before left no damage
\* a rebuild does not undo: a block that two have, a lost last block.
Repairs(found) ==
  /\ held = {} /\ found = tree
  /\ ~shared
  /\ free[LastBlock] \/ LastBlock \in SystemBlocks \cup tree

\* Deviation: the blocks of the bitmap itself are not marked.
adfReconstructBitmap_ForgetsBitmap(found) ==
  /\ mounted /\ upd = NoUpdate
  /\ found \in Markings
  /\ LET used == {RootBlock} \cup found IN
       free' = [s \in Sectors |-> s \notin used /\ (s < LastBlock \/ free[s])]
  /\ blocksChg' = [p \in Pages |-> TRUE]
  /\ trusted' = Repairs(found)
  /\ UNCHANGED <<vol, upd, disk, tree, held, committed, shared>>

adfReconstructBitmap(found) ==
  /\ mounted /\ upd = NoUpdate
  /\ found \in Markings
  /\ LET used == {RootBlock} \cup BmBlocks \cup found IN
       free' = [s \in Sectors |-> s \notin used /\ (s < LastBlock \/ free[s])]
  /\ blocksChg' = [p \in Pages |-> TRUE]
  /\ trusted' = Repairs(found)
  /\ UNCHANGED <<vol, upd, disk, tree, held, committed, shared>>

-----------------------------------------------------------------------------

Modes == {"readonly", "readwrite"}

Next ==
  \/ \E mode \in Modes : adfVolMount(mode) \/ adfVolRemount(mode)
  \/ adfVolUnMount
  \/ Crash
  \/ \E nbSect \in 1..Cardinality(Sectors) : adfGetFreeBlocks(nbSect)
  \/ \E s \in held : adfSetBlockFree(s)
  \/ \E S \in SUBSET held : Link(S)
  \/ \E S \in SUBSET tree : Unlink(S)
  \/ UpdateBegin \/ UpdatePage \/ UpdateEnd \/ UpdateFails
  \/ \E found \in SUBSET tree : adfReconstructBitmap(found)

Spec == Init /\ [][Next]_vars

\* A call of adfUpdateBitmap goes on until it returns. Nothing obliges a
\* caller to make a call, or what may go wrong to go wrong.
FairSpec == Spec /\ WF_vars(UpdatePage \/ UpdateEnd)

-----------------------------------------------------------------------------
(* Properties *)

TypeOK ==
  /\ mounted \in BOOLEAN /\ readOnly \in BOOLEAN
  /\ free \in [Sectors -> BOOLEAN]
  /\ blocksChg \in [Pages -> BOOLEAN]
  /\ upd \in {NoUpdate} \cup 0..size
  /\ diskFree \in [Sectors -> BOOLEAN]
  /\ bmFlag \in {"valid", "invalid"}
  /\ tree \subseteq Sectors /\ held \subseteq Sectors
  /\ committed \in [Sectors -> BOOLEAN]
  /\ trusted \in BOOLEAN /\ shared \in BOOLEAN

\* While a volume is mounted, a page that is not marked changed equals its
\* copy on the disk: a failed or interrupted adfUpdateBitmap never loses a
\* page that still has to be written (doc/API/api_volume.html on
\* bitmapBlocksChg: "TRUE if bitmapTable[i} has changed, and need to be written").
UnmarkedPagesOnDisk ==
  mounted =>
    \A s \in Sectors : ~blocksChg[PageOf(s)] => diskFree[s] = free[s]

\* When the root block says the bitmap is valid, the pages on the disk are
\* all of the same, complete update: never a mixture of two of them, whatever
\* writes failed and wherever the program stopped.
ValidFlagMeansComplete ==
  bmFlag = "valid" => diskFree = committed

\* A block that is in use is not free, and has one owner: the system, the
\* metadata on the disk or a caller. So adfGetFreeBlocks never grants a block
\* that is in use, also after the volume was unmounted and mounted again, a
\* page could not be written, or the bitmap was rebuilt after a crash.
InUseNotFree ==
  mounted /\ trusted =>
    /\ FreeBlocks \cap InUse = {}
    /\ tree \cap held = {}
    /\ (tree \cup held) \cap SystemBlocks = {}

\* No block gets lost: one that is not in use is free.
NoBlockLost ==
  mounted /\ trusted => Sectors \subseteq FreeBlocks \cup InUse

\* adfUpdateBitmap returns, whichever pages are marked changed: either all
\* pages are on the disk under a valid flag, or a write failed or the program
\* stopped, and the flag says so to whoever mounts the volume next.
UpdateReturns ==
  upd # NoUpdate ~> /\ upd = NoUpdate
                    /\ bmFlag = "valid" => diskFree = committed
=============================================================================
