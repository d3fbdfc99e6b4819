--------------------------- MODULE AdfCurrentDir ---------------------------
(***************************************************************************)
(* The current directory of a volume (vol->curDirPtr, src/src/adf_dir.c):  *)
(* a block number. It is set by names, and nothing keeps it up to date     *)
(* when entries are moved or removed.                                      *)
(***************************************************************************)
EXTENDS AdfSalvage

VARIABLE curDir

curVars == <<vars, curDir>>

\* The program enters directories only (the kind of the entry is not looked
\* at), and removes not the one it is in. One above that it cannot remove, as
\* it is not empty.
CarefulEntry(s) == "enter_directories" \in Habits => blocks[s].kind = "dir"
CarefulRemoval ==
  "keep_current" \in Habits =>
    \A d \in Directories, n \in program.names :
      adfNameToEntryBlk(blocks, d, n) = curDir => ~adfRemoveEntry(d, n)

adfToRootDir == curDir' = Root /\ UNCHANGED vars

\* adfChangeDir: an error when there is no entry of that name.
adfChangeDir(n) ==
  LET s == adfNameToEntryBlk(blocks, curDir, n) IN
  /\ s # 0 /\ CarefulEntry(s)
  /\ curDir' = s
  /\ UNCHANGED vars

\* adfParentDir: what the header of the current directory names.
adfParentDir ==
  /\ curDir # Root
  /\ curDir' = blocks[curDir].parent
  /\ UNCHANGED vars

CurInit == Init /\ curDir = Root

CurNext ==
  \/ SalvageNext /\ CarefulRemoval /\ UNCHANGED curDir
  \/ /\ "chdir" \in program.calls
     /\ adfToRootDir \/ adfParentDir \/ \E n \in program.names : adfChangeDir(n)

CurSpec == CurInit /\ [][CurNext]_curVars

-----------------------------------------------------------------------------
(* Properties *)

\* The current directory is a directory that is reached from the root, also
\* after it or one above it was moved, after others were created, removed or
\* undeleted, and after going up from there.
CurrentIsDirectory == curDir \in Directories
=============================================================================
