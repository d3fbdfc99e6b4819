------------------------------- MODULE AdfDir -------------------------------
(***************************************************************************)
(* Directories (src/src/adf_dir.c) on their blocks: a directory has a hash *)
(* table, an entry is in the list of blocks its table starts, linked by    *)
(* nextSameHash. Every operation reads and writes these blocks one at a    *)
(* time, and a write may fail.                                             *)
(*                                                                         *)
(* An open file keeps a copy of its header, which adfFileFlush writes      *)
(* (src/src/adf_file.c). What a file holds is the subject of AdfFile: here *)
(* it is the set of its data blocks.                                       *)
(***************************************************************************)
EXTENDS Integers, FiniteSets

CONSTANTS
  Root,     \* the block of the root directory
  Sectors,  \* the blocks that may be granted
  Names,    \* names of entries
  Upper,    \* Upper[n]: name n in capital letters
  Bucket,   \* Bucket[n]: entry of the hash table for name n
  MaxOpen,  \* bound: files open at the same time
  FailAt,   \* which write of an operation fails, 0: none
  Programs, \* the programs that may use the volume, see program
  Habits    \* what the program does to avoid known defects, see Careful*

\* names: the names it gives entries; calls: what else it does.
Calls == {"undelete", "chdir"}

ASSUME DirAssumption ==
  /\ Sectors \subseteq Nat \ {0} /\ IsFiniteSet(Sectors) /\ Sectors # {}
  /\ Root \in Nat \ (Sectors \cup {0})
  /\ Upper \in [Names -> Names] /\ DOMAIN Bucket = Names
  /\ \A n \in Names : Bucket[n] = Bucket[Upper[n]] /\ Upper[Upper[n]] = Upper[n]
  /\ MaxOpen \in Nat /\ FailAt \subseteq Nat
  /\ \A p \in Programs : p.names \subseteq Names /\ p.calls \subseteq Calls
  /\ Habits \subseteq {"new_name", "not_below_itself", "closed_files",
                      "last_in_list", "free_name", "into_a_directory",
                      "enter_directories", "keep_current"}

VARIABLES
  program, \* the program that uses the volume: one of Programs
  blocks,  \* the header blocks on the disk
  free,    \* blocks the bitmap says are free
  opened   \* opened[s]: the header in memory of the open file s

vars == <<program, blocks, free, opened>>

Hashes == {Bucket[n] : n \in Names}
EmptyTable == [h \in Hashes |-> 0]

\* Deviation: the directory is not noted in the entry.
Header_NoParent(kind, name, parent) ==
  [kind |-> kind, name |-> name, parent |-> 0, nextSameHash |-> 0,
   hashTable |-> EmptyTable, data |-> {}]

\* data: the blocks of a file, in its header or listed from there.
Header(kind, name, parent) ==
  [kind |-> kind, name |-> name, parent |-> parent, nextSameHash |-> 0,
   hashTable |-> EmptyTable, data |-> {}]
RootBlock == [kind |-> "dir", nextSameHash |-> 0, hashTable |-> EmptyTable]
NoHeader == [kind |-> "none"]

IsOpen(s) == opened[s] # NoHeader

-----------------------------------------------------------------------------
(* Reading directories, in the blocks b *)

\* The list that starts at the block first.
ListFrom(b, first) ==
  LET read[i \in 1..Cardinality(Sectors)] ==
        IF i = 1 THEN {first} \ {0}
        ELSE UNION {{s, b[s].nextSameHash} \ {0} : s \in read[i - 1]}
  IN  read[Cardinality(Sectors)]

List(b, d, n) == ListFrom(b, b[d].hashTable[Bucket[n]])
LastOf(b, list) == CHOOSE s \in list : b[s].nextSameHash = 0

\* The block before s in a list; 0 when s is the first one.
Before(b, list, s) ==
  IF \E t \in list : b[t].nextSameHash = s
    THEN CHOOSE t \in list : b[t].nextSameHash = s
    ELSE 0

\* Names are equal when they are in capital letters.
SameName(b, list, n) == {s \in list : Upper[b[s].name] = Upper[n]}

\* adfNameToEntryBlk, 0 when there is no entry of that name.
adfNameToEntryBlk(b, d, n) ==
  LET found == SameName(b, List(b, d, n), n) IN
  IF found = {} THEN 0 ELSE CHOOSE s \in found : TRUE

Children(b, d) == UNION {ListFrom(b, b[d].hashTable[h]) : h \in Hashes}

\* The sanity check of links when a directory is listed: an entry must not link
\* to itself nor to an entry the hash table starts a list with.
LinksAstray(b, d, s) ==
  /\ b[s].nextSameHash # 0
  /\ b[s].nextSameHash = s \/ \E h \in Hashes : b[d].hashTable[h] = b[s].nextSameHash

\* adfGetDirEnt (adfGetRDirEntLimited): each list is read up to such a link.
adfGetDirEnt(b, d) ==
  LET read[i \in 1..Cardinality(Sectors)] ==
        IF i = 1 THEN {b[d].hashTable[h] : h \in Hashes} \ {0}
        ELSE UNION {IF LinksAstray(b, d, s) THEN {s} ELSE {s, b[s].nextSameHash} \ {0} :
                      s \in read[i - 1]}
  IN  read[Cardinality(Sectors)]

\* adfDirCheck of one directory: the entries that count as errors.
adfDirCheck(b, d) == {s \in adfGetDirEnt(b, d) : LinksAstray(b, d, s)}

adfIsDirEmpty(dir) == dir.hashTable = EmptyTable

\* The block d and all blocks found below it.
Below(b, d) ==
  LET level[i \in 0..Cardinality(Sectors)] ==
        IF i = 0 THEN {d}
        ELSE UNION {IF b[c].kind = "dir" THEN {c} \cup Children(b, c) ELSE {c} :
                      c \in level[i - 1]}
  IN  level[Cardinality(Sectors)]

Directories == {d \in Below(blocks, Root) : blocks[d].kind = "dir"}

-----------------------------------------------------------------------------
(* Operations map a state of the volume to the next. The write numbered     *)
(* failing fails; w.ok is FALSE after an error, and nothing follows it.     *)

World(failing) == [blocks |-> blocks, free |-> free, ok |-> TRUE,
                   failing |-> failing]

Becomes(w) == blocks' = w.blocks /\ free' = w.free

Fails(w) == [w EXCEPT !.ok = FALSE]

\* adfVolWriteBlock
Write(w, s, block) ==
  IF ~w.ok THEN w
  ELSE IF w.failing = 1 THEN Fails(w)
  ELSE [w EXCEPT !.blocks[s] = block, !.failing = @ - 1]

\* The blocks b after those of S are no longer headers of entries: they were
\* overwritten with data, or are free and nobody will look at them.
Without(b, S) == [s \in DOMAIN b |-> IF s \in S THEN NoHeader ELSE b[s]]

\* adfSetBlockFree, which leaves the blocks as they are; only a program that
\* undeletes entries looks at them again.
SetFree(w, S) ==
  IF ~w.ok THEN w
  ELSE [w EXCEPT !.free = @ \cup S,
                 !.blocks = IF "undelete" \in program.calls THEN @ ELSE Without(@, S)]

\* adfGet1FreeBlock
Granted(w) == CHOOSE s \in w.free : \A t \in w.free : s <= t

\* A block s becomes the last one of the list for the name n in d.
Append(w, d, n, s) ==
  LET list == List(w.blocks, d, n)
      last == LastOf(w.blocks, list)
  IN  IF list = {}
        THEN Write(w, d, [w.blocks[d] EXCEPT !.hashTable[Bucket[n]] = s])
        ELSE Write(w, last, [w.blocks[last] EXCEPT !.nextSameHash = s])

\* adfCreateEntry: a granted block is linked before it is written.
adfCreateEntry(w, d, n) ==
  IF SameName(w.blocks, List(w.blocks, d, n), n) # {} \/ w.free = {} THEN Fails(w)
  ELSE LET s == Granted(w)
           linked == Append([w EXCEPT !.free = @ \ {s}], d, n, s)
       IN  IF linked.ok THEN linked ELSE [linked EXCEPT !.free = @ \cup {s}]

\* adfCreateFile, adfCreateDir
Create(w, kind, d, n) ==
  LET entry == adfCreateEntry(w, d, n)
  IN  IF ~entry.ok THEN entry
      ELSE Write(entry, Granted(w), Header(kind, n, d))

\* The entry called n in d loses its place in a list to the one that follows
\* it; prev is the entry before it, 0 when it is the first one.
Unlink(w, d, n, prev, next) ==
  IF prev = 0
    THEN Write(w, d, [w.blocks[d] EXCEPT !.hashTable[Bucket[n]] = next])
    ELSE Write(w, prev, [w.blocks[prev] EXCEPT !.nextSameHash = next])

\* Deviation: the data blocks of a file stay used.
BlocksOf_Header(w, s) == {s}

\* The blocks of an entry, its header and those adfFreeFileBlocks frees.
BlocksOf(w, s) == {s} \cup w.blocks[s].data

\* adfRemoveEntry: the entry s is unlinked, then its blocks are free.
Remove(w, s, d, n) ==
  LET entry == w.blocks[s]
      prev == Before(w.blocks, List(w.blocks, d, n), s)
  IN  IF entry.kind = "dir" /\ ~adfIsDirEmpty(entry) THEN Fails(w)
      ELSE SetFree(Unlink(w, d, n, prev, entry.nextSameHash), BlocksOf(w, s))

\* Deviations: the entry keeps the link to the one that followed it; it keeps
\* its directory.
Renamed_KeepsNext(entry, d, n) == [entry EXCEPT !.name = n, !.parent = d]
Renamed_KeepsParent(entry, d, n) == [entry EXCEPT !.name = n, !.nextSameHash = 0]

Renamed(entry, d, n) ==
  [entry EXCEPT !.name = n, !.parent = d, !.nextSameHash = 0]

\* A directory is written for its new time.
Touch(w, d) == Write(w, d, w.blocks[d])

\* adfRenameEntry of s, in this order: the entry, its old list, its old
\* directory, its new list, its new directory. The names in the new list are
\* compared with the new one when the first three are written.
Rename(w, s, d, n, d2, n2) ==
  LET entry == w.blocks[s]
      prev == Before(w.blocks, List(w.blocks, d, n), s)
      named == Write(w, s, Renamed(entry, d2, n2))
      unlinked == Unlink(named, d, n, prev, entry.nextSameHash)
      gone == IF prev = 0 THEN unlinked ELSE Touch(unlinked, d)
      newList == List(gone.blocks, d2, n2)
      linked == Append(gone, d2, n2, s)
  IN  IF ~gone.ok THEN gone
      ELSE IF SameName(gone.blocks, newList, n2) # {} THEN Fails(gone)
      ELSE IF newList = {} THEN linked
      ELSE Touch(linked, d2)

-----------------------------------------------------------------------------
(* Actions *)

\* An empty volume.
Init ==
  /\ program \in Programs
  /\ blocks = [s \in Sectors \cup {Root} |-> IF s = Root THEN RootBlock ELSE NoHeader]
  /\ free = Sectors
  /\ opened = [s \in Sectors |-> NoHeader]

\* The program makes no call that changes or removes the header of an open
\* file, other than those on the open file itself.
Careful(w) ==
  "closed_files" \in Habits =>
    \A s \in Sectors : IsOpen(s) => w.blocks[s] = blocks[s] /\ s \notin w.free

adfCreateDir(d, n) ==
  \E k \in FailAt :
    LET w == Create(World(k), "dir", d, n) IN
    Careful(w) /\ Becomes(w) /\ UNCHANGED opened

Openable(s) ==
  /\ ~IsOpen(s)
  /\ Cardinality({t \in Sectors : IsOpen(t)}) < MaxOpen

\* adfFileOpen for writing: a file that does not exist is created.
adfFileOpen(d, n) ==
  LET s == adfNameToEntryBlk(blocks, d, n) IN
  /\ s # 0
  /\ Openable(s) /\ blocks[s].kind = "file"
  /\ opened' = [opened EXCEPT ![s] = blocks[s]]
  /\ UNCHANGED <<blocks, free>>

adfFileOpen_New(d, n) ==
  \E k \in FailAt :
    LET w == Create(World(k), "file", d, n)
        s == Granted(World(k))
    IN  /\ adfNameToEntryBlk(blocks, d, n) = 0
        /\ free # {} => Openable(s)
        /\ Careful(w) /\ Becomes(w)
        /\ opened' = IF w.ok THEN [opened EXCEPT ![s] = w.blocks[s]] ELSE opened

\* An open file is granted a data block (one, so that the model is small), and
\* what is written replaces what the block held.
adfFileWrite(s) ==
  /\ IsOpen(s) /\ opened[s].data = {} /\ free # {}
  /\ LET t == Granted(World(0)) IN
       /\ free' = free \ {t}
       /\ opened' = [opened EXCEPT ![s].data = {t}]
       /\ blocks' = Without(blocks, {t})

\* adfFileClose writes the header in memory.
adfFileClose(s) ==
  /\ IsOpen(s)
  /\ blocks' = [blocks EXCEPT ![s] = opened[s]]
  /\ opened' = [opened EXCEPT ![s] = NoHeader]
  /\ UNCHANGED free

adfRemoveEntry(d, n) ==
  LET s == adfNameToEntryBlk(blocks, d, n) IN
  /\ s # 0
  /\ \E k \in FailAt :
       LET w == Remove(World(k), s, d, n) IN
       Careful(w) /\ Becomes(w) /\ UNCHANGED opened

\* The program gives an entry no name another one has, and moves no directory
\* into itself.
CarefulRename(s, d2, n2) ==
  /\ "new_name" \in Habits => adfNameToEntryBlk(blocks, d2, n2) \in {0, s}
  /\ "not_below_itself" \in Habits => d2 \notin Below(blocks, s)

adfRenameEntry(d, n, d2, n2) ==
  LET s == adfNameToEntryBlk(blocks, d, n) IN
  /\ s # 0
  /\ ~(d = d2 /\ n = n2)
  /\ CarefulRename(s, d2, n2)
  /\ \E k \in FailAt :
       LET w == Rename(World(k), s, d, n, d2, n2) IN
       Careful(w) /\ Becomes(w) /\ UNCHANGED opened

Next ==
  /\ \/ \E d \in Directories, n \in program.names :
          adfCreateDir(d, n) \/ adfFileOpen(d, n) \/ adfFileOpen_New(d, n) \/ adfRemoveEntry(d, n)
     \/ \E d, d2 \in Directories, n, n2 \in program.names : adfRenameEntry(d, n, d2, n2)
     \/ \E s \in Sectors : adfFileWrite(s) \/ adfFileClose(s)
  /\ UNCHANGED program

Spec == Init /\ [][Next]_vars

-----------------------------------------------------------------------------
(* Properties *)

Entries == Below(blocks, Root) \ {Root}

\* The header blocks and the bitmap (struct AdfEntryBlock, struct AdfBitmap).
TypeOK ==
  /\ free \subseteq Sectors
  /\ \A s \in Entries :
       /\ blocks[s].kind \in {"dir", "file"} /\ blocks[s].name \in Names
       /\ blocks[s].parent \in Sectors \cup {Root}
       /\ blocks[s].nextSameHash \in Sectors \cup {0}
       /\ blocks[s].data \subseteq Sectors
  /\ \A s \in Sectors : IsOpen(s) => opened[s].kind = "file"

\* The blocks are a tree of named entries; every call does what it says or,
\* when a block cannot be written or granted, nothing.
Tree == UNION {{[id |-> s, kind |-> blocks[s].kind, dir |-> d, name |-> blocks[s].name] :
                  s \in Children(blocks, d)} : d \in Directories}
Volume == INSTANCE Namespace WITH tree <- Tree
IsNamespace == Volume!Spec

\* Every entry is found under its name, in the directory it says it is in.
EntriesFound ==
  \A d \in Directories : \A s \in Children(blocks, d) :
    /\ adfNameToEntryBlk(blocks, d, blocks[s].name) = s
    /\ blocks[s].parent = d

\* Listing a directory shows every entry that can be found in it: the check
\* that keeps reading from running in circles never stops it early, and
\* adfDirCheck has nothing to report of a volume written by this code.
ListingsComplete ==
  \A d \in Directories :
    adfGetDirEnt(blocks, d) = Children(blocks, d) /\ adfDirCheck(blocks, d) = {}

\* A block is used when it is the header of an entry or a data block of a
\* file, as its header in memory or on the disk says: none is lost or shared.
UsedExactly ==
  LET Data(s) == IF IsOpen(s) THEN opened[s].data ELSE blocks[s].data
  IN  /\ Sectors \ free = Entries \cup UNION {Data(s) : s \in Entries}
      /\ \A s \in Entries : Data(s) \cap Entries = {}
      /\ \A s, t \in Entries : s # t => Data(s) \cap Data(t) = {}

\* Renaming loses no entry, also when it is refused since the name is taken
\* ("Changes the name of the entry old located in the oldDir into the name
\* new, located into the newDir directory", doc/API/api_dir.html).
RenameKeepsEntries ==
  [][\A d, d2 \in Directories, n, n2 \in Names :
       adfRenameEntry(d, n, d2, n2) => Entries' = Entries]_vars

\* Closing a file loses no entry, its own or another one.
CloseKeepsEntries ==
  [][\A s \in Sectors : adfFileClose(s) => Entries' = Entries]_vars

=============================================================================
