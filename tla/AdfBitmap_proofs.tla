-------------------------- MODULE AdfBitmap_proofs --------------------------
(* Proofs of the safety invariants of AdfBitmap, for every volume size,     *)
(* page size and set of faults.                                             *)
EXTENDS AdfBitmap, TLAPS

(* Multiplication by a natural number keeps the order. *)
LEMMA TimesMonotone ==
  ASSUME NEW m \in Nat, NEW a \in Int, NEW b \in Int, a >= b
  PROVE  m * a >= m * b
<1>1. a - b \in Nat
  OBVIOUS
<1>2. m * (a - b) >= 0
  BY <1>1
<1>3. m * (a - b) = m * a - m * b
  OBVIOUS
<1> QED
  BY <1>2, <1>3

(* Every block of the volume has a bit on one of the pages: the number of   *)
(* pages nBlock2bitmapSize computes is large enough.                        *)
LEMMA PageOfType == \A s \in Sectors : PageOf(s) \in Pages
<1> SUFFICES ASSUME NEW s \in Sectors PROVE PageOf(s) \in Pages
  OBVIOUS
<1> DEFINE n == LastBlock - 1
           q == n \div PageBits
           r == n % PageBits
           k == (s - 2) \div PageBits
<1>1. n \in Nat /\ s - 2 \in Nat /\ s - 2 < n
  BY GeometryAssumption DEF Sectors
<1>2. q \in Int /\ r \in 0..(PageBits - 1) /\ n = PageBits * q + r
  BY <1>1, GeometryAssumption
<1>3. k \in Int /\ PageBits * k <= s - 2
  BY <1>1, GeometryAssumption
<1>4. k >= 0
  BY <1>1, GeometryAssumption
<1>5. size \in Int /\ n <= PageBits * size
  <2>1. CASE r = 0
    <3>1. size = q
      BY <2>1, <1>2 DEF size, nBlock2bitmapSize
    <3> HIDE DEF n, q, r
    <3> QED
      BY <3>1, <2>1, <1>1, <1>2, GeometryAssumption
  <2>2. CASE r # 0
    <3>1. size = q + 1
      BY <2>2 DEF size, nBlock2bitmapSize
    <3>2. PageBits * (q + 1) = PageBits * q + PageBits
      BY <1>2, GeometryAssumption
    <3> HIDE DEF n, q, r
    <3> QED
      BY <3>1, <3>2, <1>1, <1>2, GeometryAssumption
  <2> QED
    BY <2>1, <2>2
<1> HIDE DEF n, q, r, k
<1>6. k < size
  <2> SUFFICES ASSUME k >= size PROVE FALSE
    BY <1>3, <1>5
  <2>1. PageBits * k >= PageBits * size
    BY <1>3, <1>5, TimesMonotone, GeometryAssumption
  <2>2. PageBits * k \in Int /\ PageBits * size \in Int
    BY <1>3, <1>5, GeometryAssumption
  <2> QED
    BY <2>1, <2>2, <1>1, <1>3, <1>5
<1>7. PageOf(s) = k
  BY DEF PageOf, k
<1> QED
  BY <1>3, <1>4, <1>5, <1>6, <1>7 DEF Pages

(* There is at least one page. *)
LEMMA SizeType == size \in Nat
<1>1. PageOf(2) \in 0..(size - 1)
  BY PageOfType, GeometryAssumption DEF Sectors, Pages
<1>2. size \in Int
  BY GeometryAssumption DEF size, nBlock2bitmapSize
<1> QED
  BY <1>1, <1>2

(* The blocks adfGetFreeBlocks finds are free blocks of the volume. *)
LEMMA FirstFreeType ==
  ASSUME NEW n, NEW S \in FirstFree(n)
  PROVE  S \subseteq FreeBlocks /\ S \subseteq Sectors
BY DEF FirstFree, FreeBlocks

-----------------------------------------------------------------------------
(* The state is of the declared type. *)

(* TypeOK: every action keeps the tables, the pages and the bookkeeping of  *)
(* the callers within the blocks of the volume, and adfUpdateBitmap within  *)
(* its pages.                                                               *)
THEOREM TypeCorrect == Spec => []TypeOK
<1>1. Init => TypeOK
  BY DEF Init, TypeOK, NoUpdate
<1>2. TypeOK /\ [Next]_vars => TypeOK'
  <2> SUFFICES ASSUME TypeOK, [Next]_vars
               PROVE  TypeOK'
    OBVIOUS
  <2> USE DEF TypeOK, aux
  <2>1. ASSUME NEW mode \in Modes, adfVolMount(mode)
        PROVE  TypeOK'
    BY <2>1 DEF adfVolMount, adfReadBitmap, disk
  <2>2. ASSUME NEW mode \in Modes, adfVolRemount(mode)
        PROVE  TypeOK'
    BY <2>2 DEF adfVolRemount, mem, disk
  <2>3. CASE adfVolUnMount
    BY <2>3 DEF adfVolUnMount, adfFreeBitmap, disk
  <2>4. CASE Crash
    BY <2>4 DEF Crash, adfFreeBitmap, disk
  <2>5. ASSUME NEW n \in 1..Cardinality(Sectors), adfGetFreeBlocks(n)
        PROVE  TypeOK'
    <3>1. PICK S \in FirstFree(n) : adfSetBlocks(S, FALSE) /\ held' = held \cup S
      BY <2>5 DEF adfGetFreeBlocks
    <3>2. S \subseteq Sectors
      BY FirstFreeType
    <3> QED
      BY <2>5, <3>1, <3>2 DEF adfGetFreeBlocks, adfSetBlocks, vol, disk
  <2>6. ASSUME NEW s \in held, adfSetBlockFree(s)
        PROVE  TypeOK'
    BY <2>6 DEF adfSetBlockFree, adfSetBlocks, vol, disk
  <2>7. ASSUME NEW S \in SUBSET held, Link(S)
        PROVE  TypeOK'
    BY <2>7 DEF Link, vol, mem, disk
  <2>8. ASSUME NEW S \in SUBSET tree, Unlink(S)
        PROVE  TypeOK'
    BY <2>8 DEF Unlink, vol, mem, disk
  <2>9. CASE UpdateBegin
    BY <2>9, SizeType DEF UpdateBegin, vol
  <2>10. CASE UpdatePage
    BY <2>10, SizeType DEF UpdatePage, vol, Pages
  <2>11. CASE UpdateEnd
    BY <2>11 DEF UpdateEnd, vol
  <2>12. CASE UpdateFails
    BY <2>12 DEF UpdateFails, vol, disk
  <2>13. ASSUME NEW found \in SUBSET tree, adfReconstructBitmap(found)
         PROVE  TypeOK'
    <3>1. Repairs(found) \in BOOLEAN
      BY DEF Repairs
    <3> QED
      BY <2>13, <3>1 DEF adfReconstructBitmap, vol, disk
  <2>14. CASE UNCHANGED vars
    BY <2>14 DEF vars, vol, mem, disk
  <2> QED
    BY <2>1, <2>2, <2>3, <2>4, <2>5, <2>6, <2>7, <2>8, <2>9, <2>10, <2>11,
       <2>12, <2>13, <2>14 DEF Next
<1> QED
  BY <1>1, <1>2, PTL DEF Spec

-----------------------------------------------------------------------------
(* The invariant that carries the two statements about the disk: while      *)
(* adfUpdateBitmap runs, the flag on the disk is invalid and the pages      *)
(* already passed are no longer marked changed.                             *)

UpdateProgress ==
  upd # NoUpdate =>
    /\ mounted
    /\ bmFlag = "invalid"
    /\ \A p \in Pages : p < upd => ~blocksChg[p]

DiskInv == UnmarkedPagesOnDisk /\ ValidFlagMeansComplete /\ UpdateProgress

\* The invariant of the pages on the disk holds at first.
LEMMA DiskInvInit == Init => DiskInv
BY DEF Init, DiskInv, UnmarkedPagesOnDisk, ValidFlagMeansComplete,
       UpdateProgress, NoUpdate

\* Every step keeps it.
LEMMA DiskInvNext == TypeOK /\ DiskInv /\ [Next]_vars => DiskInv'
<1> SUFFICES ASSUME TypeOK, DiskInv, [Next]_vars
             PROVE  DiskInv'
  OBVIOUS
<1> USE DEF TypeOK, DiskInv, UnmarkedPagesOnDisk, ValidFlagMeansComplete,
            UpdateProgress, aux
<1>1. ASSUME NEW mode \in Modes, adfVolMount(mode)
      PROVE  DiskInv'
  BY <1>1 DEF adfVolMount, adfReadBitmap, disk
<1>2. ASSUME NEW mode \in Modes, adfVolRemount(mode)
      PROVE  DiskInv'
  BY <1>2 DEF adfVolRemount, mem, disk
<1>3. CASE adfVolUnMount
  BY <1>3 DEF adfVolUnMount, adfFreeBitmap, disk
<1>4. CASE Crash
  BY <1>4 DEF Crash, adfFreeBitmap, disk
<1>5. ASSUME NEW n \in 1..Cardinality(Sectors), adfGetFreeBlocks(n)
      PROVE  DiskInv'
  <2>1. PICK S \in FirstFree(n) : adfSetBlocks(S, FALSE)
    BY <1>5 DEF adfGetFreeBlocks
  <2>2. UnmarkedPagesOnDisk'
    BY <1>5, <2>1, PageOfType DEF adfGetFreeBlocks, adfSetBlocks, vol, disk
  <2> QED
    BY <1>5, <2>2 DEF adfGetFreeBlocks, vol, disk
<1>6. ASSUME NEW s \in held, adfSetBlockFree(s)
      PROVE  DiskInv'
  <2>1. UnmarkedPagesOnDisk'
    BY <1>6, PageOfType DEF adfSetBlockFree, adfSetBlocks, vol, disk
  <2> QED
    BY <1>6, <2>1 DEF adfSetBlockFree, vol, disk
<1>7. ASSUME NEW S \in SUBSET held, Link(S)
      PROVE  DiskInv'
  BY <1>7 DEF Link, vol, mem, disk
<1>8. ASSUME NEW S \in SUBSET tree, Unlink(S)
      PROVE  DiskInv'
  BY <1>8 DEF Unlink, vol, mem, disk
<1>9. CASE UpdateBegin
  BY <1>9 DEF UpdateBegin, vol, Pages
<1>10. CASE UpdatePage
  <2>1. UnmarkedPagesOnDisk'
    BY <1>10, PageOfType DEF UpdatePage, vol
  <2>2. upd # NoUpdate
    BY <1>10, SizeType DEF UpdatePage, Pages, NoUpdate
  <2>3. \A p \in Pages : p < upd' => ~blocksChg'[p]
    BY <1>10, <2>2, SizeType DEF UpdatePage, Pages
  <2> QED
    BY <1>10, <2>1, <2>2, <2>3 DEF UpdatePage, vol
<1>11. CASE UpdateEnd
  <2>1. upd # NoUpdate
    BY <1>11, SizeType DEF UpdateEnd, NoUpdate
  <2>2. \A p \in Pages : ~blocksChg[p]
    BY <1>11, <2>1, SizeType DEF UpdateEnd, Pages
  <2>3. \A s \in Sectors : diskFree[s] = free[s]
    BY <2>1, <2>2, PageOfType
  <2> QED
    BY <1>11, <2>3 DEF UpdateEnd, vol
<1>12. CASE UpdateFails
  BY <1>12 DEF UpdateFails, vol, disk
<1>13. ASSUME NEW found \in SUBSET tree, adfReconstructBitmap(found)
       PROVE  DiskInv'
  <2>1. UnmarkedPagesOnDisk'
    BY <1>13, PageOfType DEF adfReconstructBitmap
  <2> QED
    BY <1>13, <2>1 DEF adfReconstructBitmap, vol, disk
<1>14. CASE UNCHANGED vars
  BY <1>14 DEF vars, vol, mem, disk
<1> QED
  BY <1>1, <1>2, <1>3, <1>4, <1>5, <1>6, <1>7, <1>8, <1>9, <1>10, <1>11,
     <1>12, <1>13, <1>14 DEF Next

(* UnmarkedPagesOnDisk: no page that still has to be written is forgotten,  *)
(* however adfUpdateBitmap was interrupted.                                 *)
THEOREM PagesOnDisk == Spec => []UnmarkedPagesOnDisk
<1>1. DiskInv => UnmarkedPagesOnDisk
  BY DEF DiskInv
<1> QED
  BY <1>1, DiskInvInit, DiskInvNext, TypeCorrect, PTL DEF Spec

(* ValidFlagMeansComplete: a root block that says "valid" describes pages   *)
(* of one complete update, whatever writes failed.                          *)
THEOREM ValidFlag == Spec => []ValidFlagMeansComplete
<1>1. DiskInv => ValidFlagMeansComplete
  BY DEF DiskInv
<1> QED
  BY <1>1, DiskInvInit, DiskInvNext, TypeCorrect, PTL DEF Spec

-----------------------------------------------------------------------------
(* When every system block is one adfReconstructBitmap knows of, and as     *)
(* long as nothing went wrong that was not repaired, every block of the     *)
(* volume is free or has exactly one owner. While the volume is not mounted *)
(* the pages on the disk say which blocks are free: it was unmounted when   *)
(* no page was marked changed. And as long as no block in use was granted,  *)
(* which also happens after a rebuild that set blocks of a caller free,     *)
(* blocks have one owner, whatever the bitmap says: so a later rebuild can  *)
(* make it right.                                                           *)

Orderly == SysBlocks = {}

IsFree(s) == IF mounted THEN free[s] ELSE diskFree[s]

OneOwner ==
  /\ tree \cap held = {}
  /\ (tree \cup held) \cap SystemBlocks = {}
  /\ \A s \in Sectors : IsFree(s) <=> s \notin InUse

OwnerInv ==
  /\ ~mounted => held = {}
  /\ ~shared => tree \cap held = {} /\ (tree \cup held) \cap SystemBlocks = {}
  /\ trusted => OneOwner

\* The invariant of the blocks in use holds at first.
LEMMA OwnerInvInit == Orderly /\ Init => OwnerInv
BY DEF Init, OwnerInv, OneOwner, IsFree, InUse, SystemBlocks

(* Between two operations, when nothing is marked changed, the disk has     *)
(* what the memory has.                                                     *)
LEMMA QuiescentOnDisk ==
  TypeOK /\ DiskInv /\ mounted /\ Quiescent =>
    held = {} /\ \A s \in Sectors : diskFree[s] = free[s]
BY PageOfType DEF TypeOK, DiskInv, UnmarkedPagesOnDisk, Quiescent

\* Every step keeps it.
LEMMA OwnerInvNext ==
  Orderly /\ TypeOK /\ DiskInv /\ OwnerInv /\ [Next]_vars => OwnerInv'
<1> SUFFICES ASSUME Orderly, TypeOK, DiskInv, OwnerInv, [Next]_vars
             PROVE  OwnerInv'
  OBVIOUS
<1> USE DEF TypeOK, OwnerInv, OneOwner, IsFree, InUse, aux
<1>1. ASSUME NEW mode \in Modes, adfVolMount(mode)
      PROVE  OwnerInv'
  BY <1>1 DEF adfVolMount, adfReadBitmap, disk
<1>2. ASSUME NEW mode \in Modes, adfVolRemount(mode)
      PROVE  OwnerInv'
  BY <1>2 DEF adfVolRemount, mem, disk
<1>3. CASE adfVolUnMount
  <2>1. mounted /\ ~mounted' /\ held' = {} /\ UNCHANGED <<diskFree, tree, shared>>
    BY <1>3 DEF adfVolUnMount, disk
  <2>2. trusted' => trusted /\ Quiescent
    BY <1>3 DEF adfVolUnMount
  <2> QED
    BY <2>1, <2>2, QuiescentOnDisk
<1>4. CASE Crash
  <2>1. mounted /\ ~mounted' /\ held' = {} /\ UNCHANGED <<diskFree, tree, shared>>
    BY <1>4 DEF Crash, disk
  <2>2. trusted' => trusted /\ Quiescent
    BY <1>4 DEF Crash
  <2> QED
    BY <2>1, <2>2, QuiescentOnDisk
<1>5. ASSUME NEW n \in 1..Cardinality(Sectors), adfGetFreeBlocks(n)
      PROVE  OwnerInv'
  <2>1. PICK S \in FirstFree(n) : /\ adfSetBlocks(S, FALSE) /\ held' = held \cup S
                                 /\ shared' = (shared \/ S \cap InUse # {})
    BY <1>5 DEF adfGetFreeBlocks
  <2>2. \A s \in S : s \in Sectors /\ free[s]
    BY FirstFreeType DEF FreeBlocks
  <2>3. mounted /\ UNCHANGED <<mounted, tree, trusted>>
    BY <1>5 DEF adfGetFreeBlocks, vol
  <2>4. trusted => \A s \in S : s \notin SystemBlocks \cup tree \cup held
    BY <2>2, <2>3
  <2>5. \A s \in Sectors : free'[s] <=> (free[s] /\ s \notin S)
    BY <2>1 DEF adfSetBlocks
  <2> QED
    BY <2>1, <2>2, <2>3, <2>4, <2>5
<1>6. ASSUME NEW s \in held, adfSetBlockFree(s)
      PROVE  OwnerInv'
  <2>1. \A t \in Sectors : free'[t] <=> (free[t] \/ t = s)
    BY <1>6 DEF adfSetBlockFree, adfSetBlocks
  <2>2. mounted /\ UNCHANGED <<mounted, tree, trusted, shared>> /\ held' = held \ {s}
    BY <1>6 DEF adfSetBlockFree, vol
  <2>3. trusted => s \notin SystemBlocks \cup tree
    OBVIOUS
  <2> QED
    BY <2>1, <2>2, <2>3
<1>7. ASSUME NEW S \in SUBSET held, Link(S)
      PROVE  OwnerInv'
  BY <1>7 DEF Link, vol, mem, disk
<1>8. ASSUME NEW S \in SUBSET tree, Unlink(S)
      PROVE  OwnerInv'
  BY <1>8 DEF Unlink, vol, mem, disk
<1>9. CASE UpdateBegin
  BY <1>9 DEF UpdateBegin, vol
<1>10. CASE UpdatePage
  <2>1. upd # NoUpdate
    BY <1>10, SizeType DEF UpdatePage, Pages, NoUpdate
  <2> QED
    BY <1>10, <2>1 DEF UpdatePage, vol, DiskInv, UpdateProgress
<1>11. CASE UpdateEnd
  BY <1>11 DEF UpdateEnd, vol
<1>12. CASE UpdateFails
  BY <1>12 DEF UpdateFails, vol, disk
<1>13. ASSUME NEW found \in SUBSET tree, adfReconstructBitmap(found)
       PROVE  OwnerInv'
  <2>1. SystemBlocks = {RootBlock} \cup BmBlocks
    BY DEF Orderly, SystemBlocks
  <2>2. \A s \in Sectors :
          free'[s] <=> (s \notin SystemBlocks \cup found /\ (s < LastBlock \/ free[s]))
    BY <1>13, <2>1 DEF adfReconstructBitmap
  <2>3. /\ mounted /\ UNCHANGED <<mounted, tree, held, shared>>
        /\ trusted' = Repairs(found)
    BY <1>13 DEF adfReconstructBitmap, vol
  <2>4. \A s \in Sectors : s < LastBlock \/ s = LastBlock
    BY GeometryAssumption DEF Sectors
  <2>5. ASSUME Repairs(found) PROVE OneOwner'
    <3>1. /\ held = {} /\ found = tree /\ ~shared
          /\ free[LastBlock] \/ LastBlock \in SystemBlocks \cup tree
      BY <2>5 DEF Repairs
    <3> QED
      BY <2>2, <2>3, <2>4, <3>1
  <2> QED
    BY <2>3, <2>5
<1>14. CASE UNCHANGED vars
  BY <1>14 DEF vars, vol, mem, disk
<1> QED
  BY <1>1, <1>2, <1>3, <1>4, <1>5, <1>6, <1>7, <1>8, <1>9, <1>10, <1>11,
     <1>12, <1>13, <1>14 DEF Next

(* InUseNotFree: no caller is granted a block that is in use, across any    *)
(* number of mounts, failed updates and rebuilds, as long as no operation   *)
(* was cut off, and no rebuild missed a block in use, since the bitmap was  *)
(* last complete.                                                           *)
THEOREM NoDoubleGrant == Orderly => (Spec => []InUseNotFree)
<1>1. ASSUME Orderly PROVE Spec => []InUseNotFree
  <2>1. OwnerInv => InUseNotFree
    BY DEF OwnerInv, OneOwner, IsFree, InUse, InUseNotFree, FreeBlocks
  <2> QED
    BY <1>1, <2>1, OwnerInvInit, OwnerInvNext, DiskInvInit, DiskInvNext,
       TypeCorrect, PTL DEF Spec
<1> QED
  BY <1>1

(* NoBlockLost: under the same conditions a block that nothing refers to is *)
(* free, across any number of mounts and rebuilds of the bitmap.            *)
THEOREM NoLeak == Orderly => (Spec => []NoBlockLost)
<1>1. ASSUME Orderly PROVE Spec => []NoBlockLost
  <2>1. OwnerInv => NoBlockLost
    BY DEF OwnerInv, OneOwner, IsFree, InUse, NoBlockLost, FreeBlocks
  <2> QED
    BY <1>1, <2>1, OwnerInvInit, OwnerInvNext, DiskInvInit, DiskInvNext,
       TypeCorrect, PTL DEF Spec
<1> QED
  BY <1>1
=============================================================================
