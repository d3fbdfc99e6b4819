----------------------------- MODULE AdfSalvage -----------------------------
(***************************************************************************)
(* Undeleting entries (src/src/adf_salv.c). A block that is freed keeps    *)
(* its content until it is granted and written again, so a removed entry   *)
(* can be put back into its directory, when its blocks are still free.     *)
(***************************************************************************)
EXTENDS AdfDir

-----------------------------------------------------------------------------

\* adfGetDelEnt: free blocks that hold the header of an entry.
adfGetDelEnt == {s \in free : blocks[s].kind \in {"dir", "file"}}

\* adfCheckParent: a block in use that holds the header of a directory.
adfCheckParent(p) == p \notin free /\ blocks[p].kind = "dir"

\* Deviation: the data blocks may have been granted again.
AllFree_Header(s) == s \in free

\* adfGetFileBlocks, and the checks that all of them are still free.
AllFree(s) == {s} \cup blocks[s].data \subseteq free

SetUsed(w, S) == [w EXCEPT !.free = @ \ S]

\* adfCreateEntry with the block of the entry, which is freed again when the
\* list or the table cannot be written.
Insert(w, p, n, s) ==
  IF SameName(w.blocks, List(w.blocks, p, n), n) # {} THEN Fails(w)
  ELSE LET linked == Append(w, p, n, s) IN
         IF linked.ok THEN linked ELSE [linked EXCEPT !.free = @ \cup {s}]

\* A program that undeletes the entry s into p: only when nothing followed it
\* in its list, since the link is not reset, a directory only when no entry
\* has its name, since its block stays used otherwise; p is found by its path.
CarefulUndelete(p, s) ==
  /\ "last_in_list" \in Habits => blocks[s].nextSameHash = 0
  /\ "free_name" \in Habits /\ blocks[s].kind = "dir" =>
       adfNameToEntryBlk(blocks, p, blocks[s].name) = 0
  /\ "into_a_directory" \in Habits => p \in Directories

\* adfUndelFile: after an error all blocks are free again.
adfUndelFile(p, s) ==
  /\ blocks[s].kind = "file" /\ AllFree(s)
  /\ \E k \in FailAt :
       LET entry == blocks[s]
           w == Insert(SetUsed(World(k), BlocksOf(World(k), s)), p, entry.name, s)
       IN  /\ Careful(w)
           /\ blocks' = w.blocks
           /\ free' = IF w.ok THEN w.free ELSE free

\* adfUndelDir
adfUndelDir(p, s) ==
  /\ blocks[s].kind = "dir"
  /\ \E k \in FailAt :
       LET w == Insert(SetUsed(World(k), {s}), p, blocks[s].name, s) IN
       Careful(w) /\ Becomes(w)

\* adfUndelEntry, for an entry adfGetDelEnt lists with the directory it names.
adfUndelEntry(s) ==
  LET p == blocks[s].parent IN
  /\ s \in adfGetDelEnt
  /\ adfCheckParent(p) /\ CarefulUndelete(p, s)
  /\ adfUndelFile(p, s) \/ adfUndelDir(p, s)
  /\ UNCHANGED <<program, opened>>

SalvageNext ==
  \/ Next
  \/ "undelete" \in program.calls /\ \E s \in Sectors : adfUndelEntry(s)
=============================================================================
