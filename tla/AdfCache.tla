------------------------------ MODULE AdfCache ------------------------------
(***************************************************************************)
(* The directory cache (src/src/adf_cache.c): on volumes made with it, the *)
(* entries of a directory are listed a second time, as records of variable *)
(* length packed into a list of cache blocks, which every function that    *)
(* changes an entry (src/src/adf_dir.c, adfFileFlush) must keep in step.   *)
(*                                                                         *)
(* An action is a whole call; of the entry itself only what its record     *)
(* shows is kept: hash tables are the subject of AdfDir. Directories are   *)
(* in the root directory (a bound), and blocks are written without error.  *)
(***************************************************************************)
EXTENDS Integers, FiniteSets, Sequences

CONSTANTS
  Root,       \* the root directory
  RootCache,  \* its first cache block
  Blocks,     \* the blocks of the volume that may hold records
  Area,       \* cells of the area for records in a block
  Entries,    \* header blocks of entries
  Lengths,    \* lengths of a record: with a short or long name or comment
  Values,     \* what else a record shows: size, access, time
  MaxOpen,    \* bound: files open at the same time
  Habits      \* what the program does to avoid known defects, see Careful

ASSUME CacheAssumption ==
  /\ Area \in Nat /\ Lengths \subseteq 1..Area /\ Lengths # {} /\ Values # {}
  /\ IsFiniteSet(Blocks) /\ Blocks \subseteq Nat \ {0} /\ RootCache \in Blocks
  /\ IsFiniteSet(Entries) /\ Root \notin Entries
  /\ MaxOpen \in Nat
  /\ Habits \subseteq {"no_new_block", "no_inner_block", "room_for_a_cache",
                       "closed_files"}

VARIABLES
  entries,  \* the headers of the entries, on the disk
  cache,    \* the cache blocks
  free,     \* blocks the bitmap says are free
  opened    \* the headers in memory of open files

vars == <<entries, cache, free, opened>>

NoEntry == [kind |-> "none"]
File(d, len, value) == [kind |-> "file", dir |-> d, len |-> len, value |-> value]
Dir(len, value, extension) ==
  [kind |-> "dir", dir |-> Root, len |-> len, value |-> value, extension |-> extension]

Exists(e) == entries[e] # NoEntry
Directories == {Root} \cup {e \in Entries : entries[e].kind = "dir"}
EntriesOf(d) == {e \in Entries : Exists(e) /\ entries[e].dir = d}
Extension(d) == IF d = Root THEN RootCache ELSE entries[d].extension
IsOpen(e) == opened[e] # NoEntry

-----------------------------------------------------------------------------
(* A cache block. A record is in as many cells as it is long. *)

Cells == 0..(Area - 1)
Zero  == [header |-> 0]
EmptyBlock == [recordsNb |-> 0, records |-> [i \in Cells |-> Zero], nextDirC |-> 0]

\* adfEntry2CacheEntry
Record(e, entry) == [header |-> e, len |-> entry.len, value |-> entry.value]

\* adfPutCacheEntry. What it writes behind the area is undefined: it is past the
\* block in memory. Here it is lost; what else it may do is not modelled.
adfPutCacheEntry(records, p, r) ==
  [i \in Cells |->
     IF i \in p .. (p + r.len - 1)
       THEN [header |-> r.header, len |-> r.len, value |-> r.value, cell |-> i - p]
       ELSE records[i]]

\* adfGetCacheEntry finds a record at p, and not zeros or another one's middle.
Readable(b, p) ==
  /\ p \in Cells
  /\ b.records[p] # Zero /\ b.records[p].cell = 0
  /\ p + b.records[p].len <= Area

\* Offset of the record n (from 0) of block b, Area if one before it is not
\* readable.
Offset(b, n) ==
  LET at[i \in 0..n] == IF i = 0 THEN 0
                        ELSE IF Readable(b, at[i - 1])
                          THEN at[i - 1] + b.records[at[i - 1]].len ELSE Area
  IN  at[n]

Numbers(b) == 0..(b.recordsNb - 1)
AllReadable(b) == \A n \in Numbers(b) : Readable(b, Offset(b, n))
RecordAt(b, n) ==
  LET c == b.records[Offset(b, n)]
  IN  [header |-> c.header, len |-> c.len, value |-> c.value]

\* The blocks of a cache, in order.
Chain(c, first) ==
  LET at[k \in 1..Cardinality(Blocks)] ==
        IF k = 1 THEN first
        ELSE IF at[k - 1] = 0 THEN 0 ELSE c[at[k - 1]].nextDirC
  IN  SubSeq(at, 1, Cardinality({k \in DOMAIN at : at[k] # 0}))

\* Where the record of header h is read, in the chain of blocks ch of c: the
\* number of a block and of a record in it.
Places(c, ch, h) ==
  {p \in {<<k, n>> : k \in DOMAIN ch, n \in 0..Area} :
     LET b == c[ch[p[1]]] IN
     /\ \A j \in 1..(p[1] - 1) : AllReadable(c[ch[j]])
     /\ p[2] \in Numbers(b) /\ Readable(b, Offset(b, p[2]))
     /\ RecordAt(b, p[2]).header = h}

-----------------------------------------------------------------------------
(* Operations map a state of the cache to the next; ok is FALSE after an    *)
(* error, grown and cut say that a block was to be added for records, or    *)
(* one with a successor was removed.                                        *)

World == [cache |-> cache, free |-> free, ok |-> TRUE, grown |-> FALSE, cut |-> FALSE]

Becomes(w) == cache' = w.cache /\ free' = w.free
Fails(w) == [w EXCEPT !.ok = FALSE]

\* adfGet1FreeBlock
Granted(w) == CHOOSE s \in w.free : \A t \in w.free : s <= t

\* Deviation: the bit of the block is not set.
SetFree_KeepsBit(w, s) == [w EXCEPT !.cache[s] = EmptyBlock]

\* adfSetBlockFree; what a free block holds does not matter.
SetFree(w, s) == [w EXCEPT !.free = @ \cup {s}, !.cache[s] = EmptyBlock]

\* Deviation: the number of records is counted down twice.
Removed_CountsTwice(b, n) ==
  LET p == Offset(b, n)
      len == RecordAt(b, n).len
  IN  [b EXCEPT !.recordsNb = @ - 2,
                !.records = [i \in Cells |->
                   IF i < p THEN @[i] ELSE IF i + len < Area THEN @[i + len] ELSE Zero]]

\* Block b without its record n: those behind it move up.
Removed(b, n) ==
  LET p == Offset(b, n)
      len == RecordAt(b, n).len
      last == n = b.recordsNb - 1
      moved == [i \in Cells |-> IF i < p THEN b.records[i]
                                ELSE IF i + len < Area THEN b.records[i + len]
                                ELSE Zero]
      cleared == [i \in Cells |-> IF i \in p..(p + len - 1) THEN Zero ELSE b.records[i]]
  IN  [b EXCEPT !.recordsNb = @ - 1, !.records = IF last THEN cleared ELSE moved]

\* adfDelFromCache: the last record of a block takes the block with it, but
\* for the first one.
adfDelFromCache(w, first, h) ==
  LET ch == Chain(w.cache, first)
      places == Places(w.cache, ch, h)
      Delete(k, n) ==
        LET b == w.cache[ch[k]] IN
        IF b.recordsNb > 1 \/ k = 1
          THEN [w EXCEPT !.cache[ch[k]] = Removed(b, n)]
          ELSE [SetFree(w, ch[k]) EXCEPT !.cache[ch[k - 1]].nextDirC = 0,
                                         !.cut = @ \/ k < Len(ch)]
  IN  IF ~w.ok THEN w
      ELSE IF places # {} THEN LET p == CHOOSE p \in places : TRUE IN Delete(p[1], p[2])
      ELSE IF \A k \in DOMAIN ch : AllReadable(w.cache[ch[k]]) THEN w
      ELSE Fails(w)

\* adfAddInCache: at the end of the last block if there is room, otherwise a
\* block is added; the record is nevertheless put into the full one.
adfAddInCache(w, first, r) ==
  LET ch == Chain(w.cache, first)
      s == ch[Len(ch)]
      b == w.cache[s]
      end == Offset(b, b.recordsNb)
      put == adfPutCacheEntry(b.records, end, r)
      new == Granted(w)
  IN  IF ~w.ok THEN w
      ELSE IF \E k \in DOMAIN ch : ~AllReadable(w.cache[ch[k]]) THEN Fails(w)
      ELSE IF end + r.len <= Area
        THEN [w EXCEPT !.cache[s] = [b EXCEPT !.records = put, !.recordsNb = @ + 1]]
      ELSE IF w.free = {} THEN [Fails(w) EXCEPT !.grown = TRUE]
      ELSE [w EXCEPT !.free = @ \ {new},
                     !.cache = [@ EXCEPT ![new] = [EmptyBlock EXCEPT !.recordsNb = 1],
                                         ![s] = [b EXCEPT !.records = put,
                                                          !.nextDirC = new]],
                     !.grown = TRUE]

\* Deviation: a record that has become shorter leaves a gap.
Replaced_LeavesGap(b, n, r) ==
  [b EXCEPT !.records = adfPutCacheEntry(@, Offset(b, n), r)]

\* Block b with r in the place of a record that is as long or longer: those
\* behind it move up.
Replaced(b, n, r) ==
  LET p == Offset(b, n)
      by == RecordAt(b, n).len - r.len
      put == adfPutCacheEntry(b.records, p, r)
  IN  [b EXCEPT !.records =
         [i \in Cells |-> IF i < p + r.len THEN put[i]
                          ELSE IF i + by < Area THEN put[i + by]
                          ELSE Zero]]

\* adfUpdateCache. When the caller says the length is the same it is not
\* looked at.
adfUpdateCache(w, first, r, entryLenChg) ==
  LET ch == Chain(w.cache, first)
      places == Places(w.cache, ch, r.header)
      Update(k, n) ==
        LET b == w.cache[ch[k]]
            len == RecordAt(b, n).len
        IN  IF ~entryLenChg
              THEN [w EXCEPT !.cache[ch[k]].records = adfPutCacheEntry(@, Offset(b, n), r)]
            ELSE IF len >= r.len THEN [w EXCEPT !.cache[ch[k]] = Replaced(b, n, r)]
            ELSE adfAddInCache(adfDelFromCache(w, first, r.header), first, r)
  IN  IF ~w.ok THEN w
      ELSE IF places # {} THEN LET p == CHOOSE p \in places : TRUE IN Update(p[1], p[2])
      ELSE IF \A k \in DOMAIN ch : AllReadable(w.cache[ch[k]]) THEN w
      ELSE Fails(w)

\* adfCreateEmptyCache, for a new directory.
adfCreateEmptyCache(w) ==
  IF ~w.ok THEN w
  ELSE IF w.free = {} THEN Fails(w)
  ELSE [w EXCEPT !.free = @ \ {Granted(w)}, !.cache[Granted(w)] = EmptyBlock]

-----------------------------------------------------------------------------
(* Actions *)

\* A volume just made; or one written by another program, where each file of
\* the root directory has its record in a block of its own.
InitEmpty ==
  /\ entries = [e \in Entries |-> NoEntry]
  /\ cache = [s \in Blocks |-> EmptyBlock]
  /\ free = Blocks \ {RootCache}

InitChain ==
  LET len == CHOOSE n \in Lengths : \A m \in Lengths : n >= m
      value == CHOOSE v \in Values : TRUE
  IN  \E of \in [Blocks -> Entries], order \in [1..Cardinality(Blocks) -> Blocks] :
        /\ \A e \in Entries : \E s \in Blocks : of[s] = e
        /\ order[1] = RootCache
        /\ \A i, j \in DOMAIN order : i < j => order[i] < order[j]
        /\ Cardinality(Blocks) = Cardinality(Entries)
        /\ entries = [e \in Entries |-> File(Root, len, value)]
        /\ cache = [s \in Blocks |->
             LET k == CHOOSE i \in DOMAIN order : order[i] = s IN
             [recordsNb |-> 1,
              records |-> adfPutCacheEntry(EmptyBlock.records, 0,
                                           Record(of[s], entries[of[s]])),
              nextDirC |-> IF k = Len(order) THEN 0 ELSE order[k + 1]]]
        /\ free = {}

Init ==
  /\ InitEmpty \/ InitChain
  /\ opened = [e \in Entries |-> NoEntry]

\* The program makes no call that needs a further block for records, takes the
\* last record from a block in the middle, or touches the entry of an open file.
Careful(w) ==
  /\ "no_new_block" \in Habits => ~w.grown
  /\ "no_inner_block" \in Habits => ~w.cut

CarefulEntry(e) == "closed_files" \in Habits => ~IsOpen(e)

\* adfCreateFile: the header is written, then its record.
adfCreateFile(d, e, len, value) ==
  /\ ~Exists(e)
  /\ LET file == File(d, len, value)
         w == adfAddInCache(World, Extension(d), Record(e, file))
     IN /\ Careful(w) /\ Becomes(w)
        /\ entries' = [entries EXCEPT ![e] = file]
  /\ UNCHANGED opened

\* adfCreateDir: the record, the cache of the directory, then its header.
adfCreateDir(e, len, value) ==
  /\ ~Exists(e)
  /\ "room_for_a_cache" \in Habits => free # {}
  /\ LET added == adfAddInCache(World, RootCache,
                                [header |-> e, len |-> len, value |-> value])
         w == adfCreateEmptyCache(added)
     IN /\ Careful(w) /\ Becomes(w)
        /\ entries' = IF w.ok
                        THEN [entries EXCEPT ![e] = Dir(len, value, Granted(added))]
                        ELSE entries
  /\ UNCHANGED opened

\* adfRemoveEntry: of a file, or of a directory that is empty, with the block
\* its header says is its cache.
adfRemoveEntry(e) ==
  /\ Exists(e) /\ CarefulEntry(e)
  /\ EntriesOf(e) = {}
  /\ LET emptied == IF entries[e].kind = "dir" THEN SetFree(World, entries[e].extension)
                                               ELSE World
         w == adfDelFromCache(emptied, Extension(entries[e].dir), e)
     IN Careful(w) /\ Becomes(w)
  /\ entries' = [entries EXCEPT ![e] = NoEntry]
  /\ UNCHANGED opened

\* The header of e is changed, then its record in the cache.
Changes(e, entry, entryLenChg) ==
  LET w == adfUpdateCache(World, Extension(entry.dir), Record(e, entry), entryLenChg)
  IN  /\ Careful(w) /\ Becomes(w)
      /\ entries' = [entries EXCEPT ![e] = entry]

adfSetEntryComment(e, len) ==
  /\ Exists(e) /\ CarefulEntry(e)
  /\ Changes(e, [entries[e] EXCEPT !.len = len], TRUE)
  /\ UNCHANGED opened

adfSetEntryAccess(e, value) ==
  /\ Exists(e) /\ CarefulEntry(e)
  /\ Changes(e, [entries[e] EXCEPT !.value = value], FALSE)
  /\ UNCHANGED opened

\* adfRenameEntry: within its directory, or to another one.
adfRenameEntry(e, d, len) ==
  /\ Exists(e) /\ CarefulEntry(e)
  /\ entries[e].kind = "dir" => d = Root
  /\ LET entry == [entries[e] EXCEPT !.dir = d, !.len = len]
         gone == adfDelFromCache(World, Extension(entries[e].dir), e)
         w == adfAddInCache(gone, Extension(d), Record(e, entry))
     IN IF d = entries[e].dir THEN Changes(e, entry, TRUE)
        ELSE /\ Careful(w) /\ Becomes(w)
             /\ entries' = [entries EXCEPT ![e] = entry]
  /\ UNCHANGED opened

\* adfFileOpen, for writing.
adfFileOpen(e) ==
  /\ entries[e].kind = "file" /\ ~IsOpen(e)
  /\ Cardinality({f \in Entries : IsOpen(f)}) < MaxOpen
  /\ opened' = [opened EXCEPT ![e] = entries[e]]
  /\ UNCHANGED <<entries, cache, free>>

\* adfFileClose: the header in memory is written, with the size and the time of
\* the last flush, then its record.
adfFileClose(e, value) ==
  /\ IsOpen(e)
  /\ Changes(e, [opened[e] EXCEPT !.value = value], FALSE)
  /\ opened' = [opened EXCEPT ![e] = NoEntry]

Next ==
  \E e \in Entries :
    \/ adfRemoveEntry(e) \/ adfFileOpen(e)
    \/ \E value \in Values : adfSetEntryAccess(e, value) \/ adfFileClose(e, value)
    \/ \E len \in Lengths :
         \/ adfSetEntryComment(e, len)
         \/ \E value \in Values : adfCreateDir(e, len, value)
         \/ \E d \in Directories :
              \/ adfRenameEntry(e, d, len)
              \/ \E value \in Values : adfCreateFile(d, e, len, value)

Spec == Init /\ [][Next]_vars

-----------------------------------------------------------------------------
(* Properties *)

TypeOK ==
  /\ \A e \in Entries : Exists(e) =>
       /\ entries[e].kind \in {"file", "dir"} /\ entries[e].dir \in Directories
       /\ entries[e].len \in Lengths /\ entries[e].value \in Values
  /\ \A s \in Blocks :
       /\ cache[s].recordsNb \in 0..Cardinality(Entries)
       /\ cache[s].nextDirC \in Blocks \cup {0}
       /\ DOMAIN cache[s].records = Cells
  /\ free \subseteq Blocks

ChainOf(d) == Chain(cache, Extension(d))

\* The places in the cache ch that are read, and what is there.
PlacesOf(ch) ==
  {p \in {<<k, n>> : k \in DOMAIN ch, n \in 0..Area} : p[2] \in Numbers(cache[ch[p[1]]])}
ReadAt(ch, p) == RecordAt(cache[ch[p[1]]], p[2])

\* Reading a directory from its cache gives what reading it from its headers
\* gives: every entry once, as its header describes it (adf_cache.c: "replace
\* 'adfGetDirEnt'. returns a the dir contents based on the dircache list").
CacheListsEntries ==
  \A d \in Directories :
    LET ch == ChainOf(d) IN
    /\ \A k \in DOMAIN ch : AllReadable(cache[ch[k]])
    /\ {ReadAt(ch, p) : p \in PlacesOf(ch)} = {Record(e, entries[e]) : e \in EntriesOf(d)}
    /\ Cardinality(PlacesOf(ch)) = Cardinality(EntriesOf(d))

\* A block is used when it is in the cache of one directory, and only then:
\* removing the last record of a block, or a directory, loses none.
CacheBlocksUsed ==
  LET BlocksOf(d) == {ChainOf(d)[k] : k \in DOMAIN ChainOf(d)}
  IN  /\ Blocks \ free = UNION {BlocksOf(d) : d \in Directories}
      /\ \A d, c \in Directories : d # c => BlocksOf(d) \cap BlocksOf(c) = {}

=============================================================================
