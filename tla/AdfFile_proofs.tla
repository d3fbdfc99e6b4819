--------------------------- MODULE AdfFile_proofs ---------------------------
(***************************************************************************)
(* Proofs about AdfFile: the blocks of an open file, in memory and on the  *)
(* disk, are those of one sequence of bytes, for every volume, size of     *)
(* data blocks and length of lists.                                        *)
(***************************************************************************)
EXTENDS AdfFile, Numbers_proofs

-----------------------------------------------------------------------------
(* Geometry: data block k is entry EntryOf(v, k) of list ListOf(v, k), where *)
(* list 0 is in the header of the file and list l in extension block l - 1. *)

ListOf(v, k)  == k \div v.maxDatablk
EntryOf(v, k) == k % v.maxDatablk

\* The data blocks of a file of that size; the last list that n data blocks
\* need, and how many it lists.
Count(size) == IF size = 0 THEN 0 ELSE (size - 1) \div BlockSize + 1
LastList(v, n) == IF n = 0 THEN 0 ELSE ListOf(v, n - 1)
InLast(v, n)   == IF n = 0 THEN 0 ELSE EntryOf(v, n - 1) + 1

\* What FileAssumption says of a volume.
LEMMA VolumeParts ==
  ASSUME NEW v \in Volumes
  PROVE  /\ BlockSize \in Nat \ {0} /\ v.maxDatablk \in Nat \ {0} /\ v.ofs \in BOOLEAN
         /\ v.sectors \subseteq Nat \ {0} /\ IsFiniteSet(v.sectors) /\ 0 \notin v.sectors
         /\ v.bytes \subseteq Bytes /\ v.maxSize \in Nat /\ v.truncateTo \subseteq Nat
BY FileAssumption

\* The places of a data block in the lists.
LEMMA PlaceOf ==
  ASSUME NEW v \in Volumes, NEW k \in Nat
  PROVE  /\ ListOf(v, k) \in Nat /\ EntryOf(v, k) \in 0..(v.maxDatablk - 1)
         /\ ListOf(v, k) = 0 <=> k < v.maxDatablk
         /\ k < v.maxDatablk => EntryOf(v, k) = k
<1> DEFINE m == v.maxDatablk
           l == ListOf(v, k)
           i == EntryOf(v, k)
<1>1. m \in Nat \ {0}
  BY VolumeParts
<1>2. l \in Nat /\ i \in 0..(m - 1) /\ k = m * l + i
  BY <1>1, DivMod DEF ListOf, EntryOf
<1> HIDE DEF m, l, i
<1>3. CASE l = 0
  <2>1. m * l = 0
    BY <1>1, <1>3
  <2> QED
    BY <1>1, <1>2, <1>3, <2>1 DEF m, l, i
<1>4. CASE l # 0
  <2>1. m * l >= m * 1
    BY <1>1, <1>2, <1>4, TimesMonotone
  <2>2. m * l \in Int
    BY <1>1, <1>2
  <2>3. k >= m
    BY <1>1, <1>2, <2>1, <2>2
  <2> QED
    BY <1>1, <1>2, <1>4, <2>3 DEF m, l, i
<1> QED
  BY <1>3, <1>4

\* The place of the data block after the one in another place.
LEMMA PlaceNext ==
  ASSUME NEW v \in Volumes, NEW k \in Nat \ {0}
  PROVE  IF EntryOf(v, k) = 0
           THEN ListOf(v, k) = ListOf(v, k - 1) + 1 /\ EntryOf(v, k - 1) = v.maxDatablk - 1
           ELSE ListOf(v, k) = ListOf(v, k - 1) /\ EntryOf(v, k) = EntryOf(v, k - 1) + 1
<1> DEFINE m == v.maxDatablk
           j == k - 1
<1>1. m \in Nat \ {0} /\ j \in Nat /\ j + 1 = k
  BY VolumeParts
<1> HIDE DEF m, j
<1>2. IF j % m = m - 1
        THEN (j + 1) \div m = (j \div m) + 1 /\ (j + 1) % m = 0
        ELSE (j + 1) \div m = j \div m /\ (j + 1) % m = (j % m) + 1
  BY <1>1, DivNext
<1>3. j % m \in 0..(m - 1)
  BY <1>1, DivMod
<1>4. IF k % m = 0
        THEN k \div m = (j \div m) + 1 /\ j % m = m - 1
        ELSE k \div m = j \div m /\ k % m = (j % m) + 1
  BY <1>1, <1>2, <1>3
<1> QED
  BY <1>4 DEF m, j, ListOf, EntryOf

\* No two data blocks have the same place.
LEMMA PlaceSame ==
  ASSUME NEW v \in Volumes, NEW j \in Nat, NEW k \in Nat,
         ListOf(v, j) = ListOf(v, k), EntryOf(v, j) = EntryOf(v, k)
  PROVE  j = k
<1> DEFINE m == v.maxDatablk
<1>1. m \in Nat \ {0}
  BY VolumeParts
<1> HIDE DEF m
<1>2. j = m * (j \div m) + (j % m) /\ k = m * (k \div m) + (k % m)
  BY <1>1, DivMod
<1>3. j \div m = k \div m /\ j % m = k % m
  BY DEF m, ListOf, EntryOf
<1> QED
  BY <1>2, <1>3

\* The lists are filled one after the other.
LEMMA PlaceGrows ==
  ASSUME NEW v \in Volumes, NEW j \in Nat, NEW k \in Nat, j <= k
  PROVE  ListOf(v, j) <= ListOf(v, k)
<1>1. v.maxDatablk \in Nat \ {0}
  BY VolumeParts
<1> QED
  BY <1>1, DivMonotone DEF ListOf

\* Each place is that of a data block.
LEMMA PlaceMade ==
  ASSUME NEW v \in Volumes, NEW l \in Nat, NEW i \in 0..(v.maxDatablk - 1)
  PROVE  /\ v.maxDatablk * l + i \in Nat
         /\ ListOf(v, v.maxDatablk * l + i) = l /\ EntryOf(v, v.maxDatablk * l + i) = i
<1> DEFINE m == v.maxDatablk
           k == m * l + i
<1>1. m \in Nat \ {0}
  BY VolumeParts
<1>2. m * l \in Nat
  <2> HIDE DEF m
  <2> QED
    BY <1>1
<1>3. k \in Nat /\ k = m * l + i /\ i \in 0..(m - 1) /\ l \in Int
  <2>1. m * l + i \in Nat /\ l \in Int
    <3> HIDE DEF m
    <3> QED
      BY <1>1, <1>2
  <2> QED
    BY <2>1, Zenon
<1> HIDE DEF m, k
<1>4. k \div m = l /\ k % m = i
  BY <1>1, <1>3, DivUnique
<1> QED
  BY <1>3, <1>4 DEF m, k, ListOf, EntryOf

\* The number of data blocks of a file, and where its last byte is.
LEMMA CountIs ==
  ASSUME NEW size \in Nat
  PROVE  /\ Count(size) \in Nat
         /\ Count(size) = 0 <=> size = 0
         /\ size > 0 => /\ BlockSize * (Count(size) - 1) < size
                        /\ size <= BlockSize * (Count(size) - 1) + BlockSize
         /\ adfFileSize2Datablocks(size) = Count(size)
<1>1. BlockSize \in Nat \ {0}
  BY FileAssumption
<1>2. /\ size \div BlockSize \in Nat /\ size % BlockSize \in 0..(BlockSize - 1)
      /\ size = BlockSize * (size \div BlockSize) + (size % BlockSize)
  BY <1>1, DivMod
<1>3. CASE size = 0
  <2>1. size = BlockSize * 0 + 0 /\ 0 \in Int /\ 0 \in 0..(BlockSize - 1)
    BY <1>1, <1>3
  <2>2. size \div BlockSize = 0 /\ size % BlockSize = 0
    BY ONLY <1>1, <1>3, <2>1, DivUnique
  <2> QED
    BY <1>3, <2>2 DEF Count, adfFileSize2Datablocks
<1>4. CASE size # 0
  <2> DEFINE q == (size - 1) \div BlockSize
             r == (size - 1) % BlockSize
  <2>1. q \in Nat /\ r \in 0..(BlockSize - 1) /\ size - 1 = BlockSize * q + r
    <3>1. size - 1 \in Nat
      BY <1>4
    <3> QED
      BY <1>1, <3>1, DivMod
  <2>2. Count(size) = q + 1 /\ Count(size) - 1 = q
    BY <1>4, <2>1 DEF Count
  <2>3. IF r = BlockSize - 1
          THEN size \div BlockSize = q + 1 /\ size % BlockSize = 0
          ELSE size \div BlockSize = q /\ size % BlockSize = r + 1
    <3>1. size - 1 \in Nat /\ (size - 1) + 1 = size
      BY <1>4
    <3> QED
      BY <1>1, <3>1, DivNext
  <2> HIDE DEF q, r
  <2>4. adfFileSize2Datablocks(size) = q + 1
    BY <1>1, <1>2, <2>1, <2>3 DEF adfFileSize2Datablocks
  <2>5. BlockSize * q \in Int
    BY <1>1, <2>1
  <2> QED
    BY <1>1, <1>4, <2>1, <2>2, <2>4, <2>5
<1> QED
  BY <1>3, <1>4

\* The position of a byte is in the data block, and at the place in it, at
\* which dividing puts it.
LEMMA BlockOf ==
  ASSUME NEW pos \in Nat, NEW k \in Nat, NEW r \in 0..(BlockSize - 1), pos = BlockSize * k + r
  PROVE  pos \div BlockSize = k /\ pos % BlockSize = r
<1>1. BlockSize \in Nat \ {0}
  BY FileAssumption
<1> QED
  BY <1>1, DivUnique

\* A position inside the file is in one of its data blocks.
LEMMA InsideFile ==
  ASSUME NEW size \in Nat, NEW pos \in Nat, pos < size
  PROVE  /\ pos \div BlockSize \in 0..(Count(size) - 1)
         /\ pos % BlockSize \in 0..(BlockSize - 1)
         /\ pos = BlockSize * (pos \div BlockSize) + (pos % BlockSize)
<1>1. BlockSize \in Nat \ {0}
  BY FileAssumption
<1>2. /\ pos \div BlockSize \in Nat /\ pos % BlockSize \in 0..(BlockSize - 1)
      /\ pos = BlockSize * (pos \div BlockSize) + (pos % BlockSize)
  BY <1>1, DivMod
<1>3. pos \div BlockSize <= (size - 1) \div BlockSize
  <2>1. size - 1 \in Nat /\ pos <= size - 1
    OBVIOUS
  <2> QED
    BY <1>1, <2>1, DivMonotone
<1>4. Count(size) = (size - 1) \div BlockSize + 1
  BY DEF Count
<1>5. (size - 1) \div BlockSize \in Int
  <2>1. size - 1 \in Nat
    OBVIOUS
  <2> QED
    BY <1>1, <2>1, DivMod
<1> QED
  BY <1>2, <1>3, <1>4, <1>5

\* The number of extension blocks is that of the last list.
LEMMA ExtCountIs ==
  ASSUME NEW size \in Nat, vol \in Volumes
  PROVE  adfFileSize2Extblocks(size) = LastList(vol, Count(size))
<1>1. Count(size) \in Nat /\ adfFileSize2Datablocks(size) = Count(size)
  BY CountIs
<1> QED
  BY <1>1 DEF adfFileSize2Extblocks, adfFileDatablocks2Extblocks, LastList, ListOf, MaxDatablk

\* Where adfFilePos2DataBlock finds a byte.
LEMMA PosIs ==
  ASSUME NEW pos \in Nat, vol \in Volumes
  PROVE  LET at == adfFilePos2DataBlock(pos)
             k  == pos \div BlockSize
         IN  /\ at.curDataN = k /\ at.posInDataBlk = pos % BlockSize
             /\ k < MaxDatablk => at.extBlock = -1 /\ at.posInExtBlk = 0
             /\ k >= MaxDatablk => /\ at.extBlock = ListOf(vol, k) - 1
                                   /\ at.posInExtBlk = EntryOf(vol, k)
<1> DEFINE at == adfFilePos2DataBlock(pos)
           k == pos \div BlockSize
           m == MaxDatablk
<1>1. BlockSize \in Nat \ {0} /\ m \in Nat \ {0}
  BY VolumeParts DEF MaxDatablk
<1>2. k \in Nat /\ pos % BlockSize \in 0..(BlockSize - 1) /\ pos = BlockSize * k + (pos % BlockSize)
  BY <1>1, DivMod
<1>3. /\ at.curDataN = k /\ at.posInDataBlk = pos % BlockSize
      /\ k < m => at.extBlock = -1 /\ at.posInExtBlk = 0
  BY DEF adfFilePos2DataBlock
<1>4. ASSUME k >= m
      PROVE  at.extBlock = ListOf(vol, k) - 1 /\ at.posInExtBlk = EntryOf(vol, k)
  <2> DEFINE offset == pos - BlockSize * m
  <2>1. /\ at.extBlock = offset \div (BlockSize * m)
        /\ at.posInExtBlk = (offset \div BlockSize) % m
    <3>1. ~(k < m)
      BY <1>1, <1>2, <1>4
    <3> QED
      BY <3>1 DEF adfFilePos2DataBlock
  <2> HIDE DEF m, k
  <2>2. BlockSize * k >= BlockSize * m /\ BlockSize * k \in Int /\ BlockSize * m \in Int
    BY <1>1, <1>2, <1>4, TimesMonotone
  <2>3. offset \in Nat /\ pos >= BlockSize * m
    BY <1>1, <1>2, <2>2
  <2>4. offset \div BlockSize = k - m
    BY <1>1, <2>3, DivShift DEF k
  <2>5. offset \div (BlockSize * m) = (k - m) \div m
    <3> HIDE DEF offset
    <3>1. offset \div (BlockSize * m) = (offset \div BlockSize) \div m
      BY ONLY <1>1, <2>3, DivTwice
    <3> QED
      BY ONLY <2>4, <3>1
  <2>6. (k - m) \div m = (k \div m) - 1 /\ (k - m) % m = k % m
    <3>1. m * 1 = m /\ k >= m * 1 /\ 1 \in Nat
      BY <1>1, <1>4
    <3>2. (k - m * 1) \div m = (k \div m) - 1 /\ (k - m * 1) % m = k % m
      BY ONLY <1>1, <1>2, <3>1, DivShift
    <3> QED
      BY <3>1, <3>2
  <2>7. ListOf(vol, k) = k \div m /\ EntryOf(vol, k) = k % m
    BY DEF ListOf, EntryOf, MaxDatablk, m
  <2> QED
    BY <2>1, <2>4, <2>5, <2>6, <2>7
<1> QED
  BY <1>3, <1>4

-----------------------------------------------------------------------------
(* The blocks of a file *)

DataSet(v) == [kind : {"data"}, bytes : [Offsets -> Bytes],
               nextData : v.sectors \cup {0}, dataSize : 0..BlockSize]
EntrySet(v) == [0..(v.maxDatablk - 1) -> v.sectors \cup {0}]
ExtSet(v) == [kind : {"ext"}, headerKey : v.sectors, dataBlocks : EntrySet(v),
              highSeq : 0..v.maxDatablk, extension : v.sectors \cup {0}]
HeaderSet(v) == [byteSize : 0..v.maxSize, dataBlocks : EntrySet(v),
                 firstData : v.sectors \cup {0}, highSeq : 0..v.maxDatablk,
                 extension : v.sectors \cup {0}]
DiskSet(v) == [v.sectors \cup {0} -> {Zero, Boot} \cup DataSet(v) \cup ExtSet(v)]
FileSet(v) == [open : {TRUE}, fileHdr : HeaderSet(v), currentExt : ExtSet(v) \cup {NoExt},
               curDataPtr : v.sectors \cup {0}, currentData : DataSet(v),
               changed : BOOLEAN, pos : 0..v.maxSize, posInDataBlk : 0..BlockSize,
               posInExtBlk : 0..v.maxDatablk, nDataBlock : Nat]
WorldSet(v) == [file : FileSet(v), disk : DiskSet(v), free : SUBSET v.sectors,
                header : HeaderSet(v), ok : BOOLEAN]

\* Data block k has sector data[k], list l, if it is not the header, is in the
\* extension block with sector ext[l]. These are all different, and the others
\* are free.
Owns(v, fr, n, data, ext) ==
  /\ data \in [0..(n - 1) -> v.sectors] /\ ext \in [1..LastList(v, n) -> v.sectors]
  /\ \A j, k \in 0..(n - 1) : data[j] = data[k] => j = k
  /\ \A j, k \in 1..LastList(v, n) : ext[j] = ext[k] => j = k
  /\ \A k \in 0..(n - 1) : \A l \in 1..LastList(v, n) : data[k] # ext[l]
  /\ fr = v.sectors \ ({data[k] : k \in 0..(n - 1)} \cup {ext[l] : l \in 1..LastList(v, n)})

\* The header h and the extension blocks x list them.
ListAt(h, x, ext, l) == IF l = 0 THEN h ELSE x[ext[l]]

Listed(v, h, x, n, data, ext) ==
  \A k \in 0..(n - 1) :
    ListAt(h, x, ext, ListOf(v, k)).dataBlocks[EntryOf(v, k)] = data[k]
Linked(v, h, x, n, ext) ==
  \A l \in 0..LastList(v, n) :
    ListAt(h, x, ext, l).extension = IF l < LastList(v, n) THEN ext[l + 1] ELSE 0
Counted(v, h, x, n, ext) ==
  \A l \in 0..LastList(v, n) :
    ListAt(h, x, ext, l).highSeq = IF l < LastList(v, n) THEN v.maxDatablk ELSE InLast(v, n)
Keyed(v, x, n, ext) ==
  \A l \in 1..LastList(v, n) :
    x[ext[l]] \in ExtSet(v) /\ x[ext[l]].headerKey = ext[l]
FirstIs(h, n, data) == h.firstData = IF n = 0 THEN 0 ELSE data[0]

Lists(v, h, x, n, data, ext) ==
  /\ Listed(v, h, x, n, data, ext) /\ Linked(v, h, x, n, ext) /\ Counted(v, h, x, n, ext)
  /\ Keyed(v, x, n, ext) /\ FirstIs(h, n, data)

\* The data blocks y hold the bytes, and are linked on OFS.
LinkOf(n, data, k) == IF k + 1 < n THEN data[k + 1] ELSE 0
Holds(v, y, n, data, bytes) ==
  /\ \A k \in 0..(n - 1) : y[data[k]].bytes = bytes[k]
  /\ v.ofs => \A k \in 0..(n - 1) : y[data[k]].nextData = LinkOf(n, data, k)

FileIs(v, h, x, y, fr, data, ext, bytes) ==
  /\ Owns(v, fr, Count(h.byteSize), data, ext)
  /\ Lists(v, h, x, Count(h.byteSize), data, ext)
  /\ Holds(v, y, Count(h.byteSize), data, bytes)

\* Blocks on the disk, and blocks when those in memory stand for those on the
\* disk.
DiskData(v, d) == [s \in v.sectors |-> AsData(d[s])]
ExtsNow(v, f, d) ==
  [s \in v.sectors |-> IF f.currentExt # NoExt /\ f.currentExt.headerKey = s
                       THEN f.currentExt ELSE d[s]]
DataNow(v, f, d) ==
  [s \in v.sectors |-> IF f.curDataPtr = s THEN f.currentData ELSE AsData(d[s])]

OnDisk(v, h, d, fr, data, ext, bytes) == FileIs(v, h, d, DiskData(v, d), fr, data, ext, bytes)

\* The counters of an open file are those of its position, and the blocks in
\* memory are the ones they say.
ExtPlaced(v, f, n, ext) ==
  /\ f.currentExt # NoExt => \E l \in 1..LastList(v, n) : f.currentExt.headerKey = ext[l]
  /\ f.nDataBlock > v.maxDatablk =>
       /\ f.currentExt # NoExt
       /\ f.currentExt.headerKey = ext[ListOf(v, f.nDataBlock - 1)]
       /\ f.posInExtBlk = EntryOf(v, f.nDataBlock - 1) + 1
DataPlaced(f, n, data) ==
  /\ f.nDataBlock <= n /\ f.pos <= f.fileHdr.byteSize
  /\ n = 0 => f.curDataPtr = 0 /\ f.posInDataBlk = 0
  /\ n > 0 => /\ f.nDataBlock >= 1 /\ f.curDataPtr = data[f.nDataBlock - 1]
              /\ f.pos = BlockSize * (f.nDataBlock - 1) + f.posInDataBlk

\* What differs from the disk is marked as changed, and in all but the bytes of
\* a data block it does so only in the last data block of the file.
HeaderKept(w) ==
  /\ w.header = w.file.fileHdr
  /\ w.file.currentExt # NoExt => w.disk[w.file.currentExt.headerKey] = w.file.currentExt
BytesKept(w) ==
  w.file.curDataPtr # 0 =>
    AsData(w.disk[w.file.curDataPtr]).bytes = w.file.currentData.bytes
LinkKept(w) ==
  w.file.curDataPtr # 0 =>
    AsData(w.disk[w.file.curDataPtr]).nextData = w.file.currentData.nextData
Marked(w, n) ==
  /\ w.file.changed \/ BytesKept(w)
  /\ (w.file.changed /\ w.file.nDataBlock = n) \/ (HeaderKept(w) /\ LinkKept(w))

\* OFS files are too small to need an extension block.
SmallOfs(v) == v.ofs => v.maxSize <= BlockSize * v.maxDatablk

\* An open file.
IsFile(v, w, data, ext, bytes) ==
  LET n == Count(w.file.fileHdr.byteSize) IN
  /\ w \in WorldSet(v) /\ w.ok
  /\ FileIs(v, w.file.fileHdr, ExtsNow(v, w.file, w.disk), DataNow(v, w.file, w.disk),
            w.free, data, ext, bytes)
  /\ DataPlaced(w.file, n, data) /\ ExtPlaced(v, w.file, n, ext)
  /\ Marked(w, n)

\* A file that was read from the disk: nothing in memory is newer.
IsRead(v, w, data, ext, bytes) ==
  /\ w \in WorldSet(v) /\ w.ok
  /\ OnDisk(v, w.header, w.disk, w.free, data, ext, bytes)
  /\ HeaderKept(w) /\ ExtPlaced(v, w.file, Count(w.header.byteSize), ext)

\* A closed file.
IsClosed(v, w, data, ext, bytes) ==
  /\ w.file = Closed /\ w.disk \in DiskSet(v) /\ w.free \in SUBSET v.sectors
  /\ w.header \in HeaderSet(v)
  /\ OnDisk(v, w.header, w.disk, w.free, data, ext, bytes)

-----------------------------------------------------------------------------
(* Blocks in memory and on the disk *)

\* The lists of the data blocks of a file are lists it has.
LEMMA ListInFile ==
  ASSUME NEW v \in Volumes, NEW n \in Nat
  PROVE  /\ LastList(v, n) \in Nat
         /\ \A k \in 0..(n - 1) : /\ k \in Nat /\ ListOf(v, k) \in 0..LastList(v, n)
                                  /\ ListOf(v, k) # 0 => ListOf(v, k) \in 1..LastList(v, n)
<1>1. CASE n = 0
  BY <1>1 DEF LastList
<1>2. CASE n # 0
  <2>1. n - 1 \in Nat /\ LastList(v, n) = ListOf(v, n - 1)
    BY <1>2 DEF LastList
  <2>2. LastList(v, n) \in Nat
    BY <2>1, PlaceOf
  <2> SUFFICES ASSUME NEW k \in 0..(n - 1)
               PROVE  ListOf(v, k) \in Nat /\ ListOf(v, k) <= LastList(v, n)
    BY <2>2
  <2>3. ListOf(v, k) \in Nat
    BY PlaceOf
  <2>4. ListOf(v, k) <= ListOf(v, n - 1)
    BY <2>1, PlaceGrows
  <2> QED
    BY <2>1, <2>3, <2>4
<1> QED
  BY <1>1, <1>2

\* Only the blocks that belong to a file matter to it.
LEMMA SameBlocks ==
  ASSUME NEW v \in Volumes, NEW h, NEW x, NEW y, NEW fr, NEW data, NEW ext, NEW bytes,
         FileIs(v, h, x, y, fr, data, ext, bytes), NEW n \in Nat, n = Count(h.byteSize),
         NEW x2, \A l \in 1..LastList(v, n) : x2[ext[l]] = x[ext[l]],
         NEW y2, \A k \in 0..(n - 1) : y2[data[k]].bytes = y[data[k]].bytes,
         v.ofs => \A k \in 0..(n - 1) : y2[data[k]].nextData = y[data[k]].nextData
  PROVE  FileIs(v, h, x2, y2, fr, data, ext, bytes)
<1>1. /\ Owns(v, fr, n, data, ext) /\ Holds(v, y, n, data, bytes)
      /\ Listed(v, h, x, n, data, ext) /\ Linked(v, h, x, n, ext) /\ Counted(v, h, x, n, ext)
      /\ Keyed(v, x, n, ext) /\ FirstIs(h, n, data)
  BY DEF FileIs, Lists
<1>2. LastList(v, n) \in Nat
  BY ListInFile
<1>3. \A l \in 0..LastList(v, n) : ListAt(h, x2, ext, l) = ListAt(h, x, ext, l)
  BY <1>2 DEF ListAt
<1>4. \A k \in 0..(n - 1) : ListOf(v, k) \in 0..LastList(v, n)
  BY ListInFile
<1>5. Listed(v, h, x2, n, data, ext)
  BY <1>1, <1>3, <1>4 DEF Listed
<1>6. Linked(v, h, x2, n, ext)
  BY <1>1, <1>3 DEF Linked
<1>7. Counted(v, h, x2, n, ext)
  BY <1>1, <1>3 DEF Counted
<1>8. Keyed(v, x2, n, ext)
  BY <1>1 DEF Keyed
<1>9. Holds(v, y2, n, data, bytes)
  BY <1>1 DEF Holds
<1> QED
  BY <1>1, <1>5, <1>6, <1>7, <1>8, <1>9 DEF FileIs, Lists

\* The sectors of the blocks of a file.
LEMMA Sector ==
  ASSUME NEW v \in Volumes, NEW fr, NEW n, NEW data, NEW ext, Owns(v, fr, n, data, ext)
  PROVE  /\ \A k \in 0..(n - 1) : /\ data[k] \in v.sectors /\ data[k] # 0
                                  /\ data[k] \notin fr
         /\ \A l \in 1..LastList(v, n) : /\ ext[l] \in v.sectors /\ ext[l] # 0
                                         /\ ext[l] \notin fr
<1>1. 0 \notin v.sectors
  BY VolumeParts
<1> QED
  BY <1>1 DEF Owns

\* A file whose blocks in memory are as on the disk is the one on the disk.
LEMMA FileKept ==
  ASSUME NEW v \in Volumes, NEW w, NEW data, NEW ext, NEW bytes,
         IsFile(v, w, data, ext, bytes), HeaderKept(w), BytesKept(w), LinkKept(w)
  PROVE  IsRead(v, w, data, ext, bytes)
<1> DEFINE f == w.file
           n == Count(f.fileHdr.byteSize)
           x == ExtsNow(v, f, w.disk)
           y == DataNow(v, f, w.disk)
<1>1. /\ w \in WorldSet(v) /\ w.ok /\ ExtPlaced(v, f, n, ext)
      /\ FileIs(v, f.fileHdr, x, y, w.free, data, ext, bytes)
  BY DEF IsFile
<1>2. w.header = f.fileHdr
  BY DEF HeaderKept
<1>3. n \in Nat
  <2>1. f.fileHdr.byteSize \in Nat
    BY <1>1, VolumeParts DEF WorldSet, FileSet, HeaderSet
  <2> QED
    BY <2>1, CountIs
<1>4. Owns(v, w.free, n, data, ext)
  BY <1>1 DEF FileIs
<1>5. \A l \in 1..LastList(v, n) : w.disk[ext[l]] = x[ext[l]]
  BY <1>4, Sector DEF HeaderKept, ExtsNow
<1>6. \A k \in 0..(n - 1) : /\ DiskData(v, w.disk)[data[k]].bytes = y[data[k]].bytes
                            /\ DiskData(v, w.disk)[data[k]].nextData = y[data[k]].nextData
  BY <1>4, Sector DEF BytesKept, LinkKept, DataNow, DiskData
<1> HIDE DEF x, y
<1>7. FileIs(v, f.fileHdr, w.disk, DiskData(v, w.disk), w.free, data, ext, bytes)
  <2> HIDE DEF f
  <2> QED
    BY <1>1, <1>3, <1>5, <1>6, SameBlocks
<1> QED
  BY <1>1, <1>2, <1>7 DEF IsRead, OnDisk

\* And the other way round, when the counters fit.
LEMMA FileRead ==
  ASSUME NEW v \in Volumes, NEW w, NEW data, NEW ext, NEW bytes,
         IsRead(v, w, data, ext, bytes), BytesKept(w), LinkKept(w),
         DataPlaced(w.file, Count(w.header.byteSize), data)
  PROVE  IsFile(v, w, data, ext, bytes)
<1> DEFINE f == w.file
           n == Count(f.fileHdr.byteSize)
           x == ExtsNow(v, f, w.disk)
           y == DataNow(v, f, w.disk)
<1>1. /\ w \in WorldSet(v) /\ w.ok /\ w.header = f.fileHdr
      /\ DataPlaced(f, n, data) /\ ExtPlaced(v, f, n, ext) /\ HeaderKept(w)
      /\ FileIs(v, f.fileHdr, w.disk, DiskData(v, w.disk), w.free, data, ext, bytes)
  BY DEF IsRead, OnDisk, HeaderKept
<1>2. n \in Nat
  <2>1. f.fileHdr.byteSize \in Nat
    BY <1>1, VolumeParts DEF WorldSet, FileSet, HeaderSet
  <2> QED
    BY <2>1, CountIs
<1>3. Owns(v, w.free, n, data, ext)
  BY <1>1 DEF FileIs
<1>4. \A l \in 1..LastList(v, n) : x[ext[l]] = w.disk[ext[l]]
  BY <1>1, <1>3, Sector DEF HeaderKept, ExtsNow
<1>5. \A k \in 0..(n - 1) : /\ y[data[k]].bytes = DiskData(v, w.disk)[data[k]].bytes
                            /\ y[data[k]].nextData = DiskData(v, w.disk)[data[k]].nextData
  BY <1>3, Sector DEF BytesKept, LinkKept, DataNow, DiskData
<1> HIDE DEF x, y
<1>6. FileIs(v, f.fileHdr, x, y, w.free, data, ext, bytes)
  <2> HIDE DEF f
  <2> QED
    BY <1>1, <1>2, <1>4, <1>5, SameBlocks
<1>7. Marked(w, n)
  BY <1>1 DEF Marked
<1> QED
  BY <1>1, <1>6, <1>7 DEF IsFile, x, y

-----------------------------------------------------------------------------
(* Flushing *)

\* The parts of the state of a file.
LEMMA WorldParts ==
  ASSUME NEW v \in Volumes, NEW w \in WorldSet(v)
  PROVE  /\ w = [file |-> w.file, disk |-> w.disk, free |-> w.free, header |-> w.header,
                 ok |-> w.ok]
         /\ w.file \in FileSet(v) /\ w.disk \in DiskSet(v) /\ w.free \in SUBSET v.sectors
         /\ w.header \in HeaderSet(v) /\ w.ok \in BOOLEAN
         /\ w.file.fileHdr \in HeaderSet(v) /\ w.file.fileHdr.byteSize \in Nat
         /\ w.file.fileHdr.byteSize <= v.maxSize
         /\ w.file.currentExt # NoExt => w.file.currentExt \in ExtSet(v)
         /\ w.file.currentData \in DataSet(v) /\ w.file.curDataPtr \in v.sectors \cup {0}
         /\ Count(w.file.fileHdr.byteSize) \in Nat
         /\ w.file.nDataBlock \in Nat /\ w.file.pos \in Nat /\ w.file.posInDataBlk \in 0..BlockSize
         /\ w.file.posInExtBlk \in 0..v.maxDatablk /\ w.file.changed \in BOOLEAN
<1>1. v.maxSize \in Nat
  BY VolumeParts
<1>2. w.file \in FileSet(v) /\ w.file.fileHdr \in HeaderSet(v)
  BY DEF WorldSet, FileSet
<1>3. w.file.fileHdr.byteSize \in Nat /\ w.file.fileHdr.byteSize <= v.maxSize
  BY <1>1, <1>2 DEF HeaderSet
<1>4. Count(w.file.fileHdr.byteSize) \in Nat
  BY <1>3, CountIs
<1>5. /\ w.file.nDataBlock \in Nat /\ w.file.posInDataBlk \in 0..BlockSize
      /\ w.file.posInExtBlk \in 0..v.maxDatablk /\ w.file.changed \in BOOLEAN
      /\ w.file.currentData \in DataSet(v) /\ w.file.curDataPtr \in v.sectors \cup {0}
  BY <1>2 DEF FileSet
<1>7. w.file.pos \in Nat
  <2>1. w.file.pos \in 0..v.maxSize
    BY <1>2 DEF FileSet
  <2> QED
    BY <1>1, <2>1
<1>8. w.file.currentExt # NoExt => w.file.currentExt \in ExtSet(v)
  BY <1>2 DEF FileSet
<1>6. /\ w = [file |-> w.file, disk |-> w.disk, free |-> w.free, header |-> w.header,
              ok |-> w.ok]
      /\ w.disk \in DiskSet(v) /\ w.free \in SUBSET v.sectors
      /\ w.header \in HeaderSet(v) /\ w.ok \in BOOLEAN
  BY DEF WorldSet
<1> QED
  BY <1>2, <1>3, <1>4, <1>5, <1>6, <1>7, <1>8

\* The disk after an extension block, then a data block was written, if there
\* is one to write.
Written(d, e, s, b) ==
  LET d1 == IF e = NoExt THEN d ELSE [d EXCEPT ![e.headerKey] = e]
  IN  IF s = 0 THEN d1 ELSE [d1 EXCEPT ![s] = b]

AfterWrite(v, d, e, s, b, d2) ==
  /\ d2 \in DiskSet(v)
  /\ e # NoExt => d2[e.headerKey] = e
  /\ s # 0 => d2[s] = b
  /\ \A t \in v.sectors \cup {0} : t # s /\ (e # NoExt => t # e.headerKey) => d2[t] = d[t]

\* Each of the two is on the disk afterwards, and every other block as before.
LEMMA WrittenIs ==
  ASSUME NEW v \in Volumes, NEW d \in DiskSet(v), NEW e, e # NoExt => e \in ExtSet(v),
         NEW s \in v.sectors \cup {0}, NEW b \in DataSet(v),
         e # NoExt => e.headerKey # s
  PROVE  AfterWrite(v, d, e, s, b, Written(d, e, s, b))
<1> DEFINE d1 == IF e = NoExt THEN d ELSE [d EXCEPT ![e.headerKey] = e]
           d2 == IF s = 0 THEN d1 ELSE [d1 EXCEPT ![s] = b]
           S == v.sectors \cup {0}
           T == {Zero, Boot} \cup DataSet(v) \cup ExtSet(v)
<1>1. d \in [S -> T] /\ s \in S /\ b \in T
  BY DEF DiskSet
<1>2. e # NoExt => e.headerKey \in S /\ e \in T
  BY DEF ExtSet
<1> HIDE DEF S, T
<1>3. /\ d1 \in [S -> T]
      /\ e # NoExt => d1[e.headerKey] = e
      /\ \A t \in S : (e # NoExt => t # e.headerKey) => d1[t] = d[t]
  BY <1>1, <1>2
<1> HIDE DEF d1
<1>4. /\ d2 \in [S -> T]
      /\ s # 0 => d2[s] = b
      /\ \A t \in S : t # s => d2[t] = d1[t]
      /\ e # NoExt => d2[e.headerKey] = d1[e.headerKey]
  BY <1>1, <1>2, <1>3
<1>5. Written(d, e, s, b) = d2
  BY DEF Written, d1
<1> HIDE DEF d2
<1>6. /\ d2 \in [S -> T] /\ e # NoExt => d2[e.headerKey] = e
      /\ \A t \in S : t # s /\ (e # NoExt => t # e.headerKey) => d2[t] = d[t]
  BY <1>3, <1>4
<1>7. DiskSet(v) = [S -> T]
  BY DEF DiskSet, S, T
<1> QED
  BY <1>4, <1>5, <1>6, <1>7 DEF S, AfterWrite

\* What adfFileFlush does to an open file.
LEMMA FlushIs ==
  ASSUME vol \in Volumes, NEW w \in WorldSet(vol),
         w.file.fileHdr.byteSize = 0 <=> w.file.curDataPtr = 0
  PROVE  \E b \in DataSet(vol) :
           /\ b.bytes = w.file.currentData.bytes /\ b.nextData = w.file.currentData.nextData
           /\ Flush(w) = [file |-> [w.file EXCEPT !.currentData = b],
                          disk |-> Written(w.disk, w.file.currentExt, w.file.curDataPtr, b),
                          free |-> w.free, header |-> w.file.fileHdr, ok |-> w.ok]
<1> DEFINE f == w.file
           c == f.currentData
           b == IF vol.ofs /\ f.curDataPtr # 0 THEN [c EXCEPT !.dataSize = f.posInDataBlk] ELSE c
           f2 == [f EXCEPT !.currentData = b]
           e == WriteExt(w)
           d1 == IF f.currentExt = NoExt THEN w.disk
                 ELSE [w.disk EXCEPT ![f.currentExt.headerKey] = f.currentExt]
           d2 == IF f.curDataPtr = 0 THEN d1 ELSE [d1 EXCEPT ![f.curDataPtr] = b]
<1>1. /\ w = [file |-> f, disk |-> w.disk, free |-> w.free, header |-> w.header, ok |-> w.ok]
      /\ f \in FileSet(vol) /\ c \in DataSet(vol) /\ f.posInDataBlk \in 0..BlockSize
  BY WorldParts
<1>2. b \in DataSet(vol) /\ b.bytes = c.bytes /\ b.nextData = c.nextData
  BY <1>1 DEF DataSet
<1>3. e = [file |-> f, disk |-> d1, free |-> w.free, header |-> w.header, ok |-> w.ok]
  BY <1>1 DEF WriteExt
<1> HIDE DEF d1, e
<1> DEFINE sized == IF OFS THEN [e EXCEPT !.file.currentData.dataSize = e.file.posInDataBlk]
                    ELSE e
           d == IF Size(w) = 0 \/ w.file.curDataPtr = 0 THEN e ELSE WriteData(sized)
<1>4. d = [file |-> f2, disk |-> d2, free |-> w.free, header |-> w.header, ok |-> w.ok]
  <2>1. CASE f.curDataPtr = 0
    <3>1. d = e /\ d2 = d1
      BY <2>1
    <3>2. f2 = f
      BY <1>1, <2>1 DEF FileSet
    <3> HIDE DEF d, d2, f2, f
    <3> QED
      BY <1>3, <3>1, <3>2
  <2>2. CASE f.curDataPtr # 0
    <3>1. sized = [file |-> f2, disk |-> d1, free |-> w.free, header |-> w.header, ok |-> w.ok]
      <4>1. CASE vol.ofs
        <5>1. sized = [e EXCEPT !.file = [e.file EXCEPT !.currentData =
                          [e.file.currentData EXCEPT !.dataSize = e.file.posInDataBlk]]]
          BY <4>1 DEF OFS
        <5>2. f2 = [f EXCEPT !.currentData = [f.currentData EXCEPT !.dataSize = f.posInDataBlk]]
          BY <2>2, <4>1
        <5> HIDE DEF sized, f2, f
        <5> QED
          BY <1>3, <5>1, <5>2
      <4>2. CASE ~vol.ofs
        <5>1. f2 = f
          BY <1>1, <4>2 DEF FileSet
        <5>2. sized = e
          BY <4>2 DEF OFS
        <5> HIDE DEF f2, f
        <5> QED
          BY <1>3, <5>1, <5>2
      <4> QED
        BY <4>1, <4>2
    <3>2. f2.curDataPtr = f.curDataPtr /\ f2.currentData = b
      BY <1>1 DEF FileSet
    <3>3. d = WriteData(sized)
      BY <2>2 DEF Size
    <3> HIDE DEF sized, d, f2, b
    <3>4. WriteData(sized) = [sized EXCEPT !.disk[sized.file.curDataPtr] = sized.file.currentData]
      BY <2>2, <3>1, <3>2 DEF WriteData
    <3> QED
      BY <2>2, <3>1, <3>2, <3>3, <3>4
  <2> QED
    BY <2>1, <2>2
<1>5. f2.fileHdr = f.fileHdr
  BY <1>1 DEF FileSet
<1>6. Flush(w) = [d EXCEPT !.header = d.file.fileHdr]
  BY Zenon DEF Flush, e
<1>7. Flush(w) = [file |-> f2, disk |-> d2, free |-> w.free, header |-> f.fileHdr, ok |-> w.ok]
  <2> HIDE DEF d, d2, f2, f
  <2> QED
    BY <1>4, <1>5, <1>6
<1>8. d2 = Written(w.disk, f.currentExt, f.curDataPtr, b)
  BY DEF Written, d1
<1> HIDE DEF b, d2
<1> QED
  BY <1>2, <1>7, <1>8

-----------------------------------------------------------------------------
(* Following the extension blocks *)

\* What comes after each extension block of a file; a chain that ends with 0
\* goes on with it.
NextAre(v, x, n, ext, next) == \A l \in 1..LastList(v, n) : next[ext[l]] = x[ext[l]].extension
LinkedUpTo(g, next, k) ==
  \A i \in 1..k : g[i] = IF g[i - 1] = 0 THEN 0 ELSE next[g[i - 1]]

\* The sectors of the chain of a file, by number.
SectorsOf(v, n, ext) == [k \in 0..LastList(v, n) |-> IF k < LastList(v, n) THEN ext[k + 1] ELSE 0]

\* They are linked, beginning with the extension of the header.
LEMMA ChainLinks ==
  ASSUME NEW v \in Volumes, NEW h, NEW x, NEW n \in Nat, NEW ext,
         ext \in [1..LastList(v, n) -> v.sectors], Linked(v, h, x, n, ext),
         NEW next, NextAre(v, x, n, ext, next)
  PROVE  /\ SectorsOf(v, n, ext)[0] = h.extension
         /\ LinkedUpTo(SectorsOf(v, n, ext), next, LastList(v, n))
<1> DEFINE L == LastList(v, n)
           g == SectorsOf(v, n, ext)
<1>1. L \in Nat /\ 0 \notin v.sectors
  BY ListInFile, VolumeParts
<1>2. \A l \in 0..L : ListAt(h, x, ext, l).extension = IF l < L THEN ext[l + 1] ELSE 0
  BY DEF Linked
<1>3. \A k \in 0..L : g[k] = IF k < L THEN ext[k + 1] ELSE 0
  BY DEF SectorsOf
<1> HIDE DEF L, g
<1>4. g[0] = h.extension
  BY <1>1, <1>2, <1>3 DEF ListAt
<1>5. ASSUME NEW i \in 1..L
      PROVE  g[i] = IF g[i - 1] = 0 THEN 0 ELSE next[g[i - 1]]
  <2>1. i - 1 \in 0..L /\ i - 1 < L /\ (i - 1) + 1 = i /\ i # 0 /\ i \in 0..L
    BY <1>1
  <2>2. g[i - 1] = ext[i] /\ ext[i] # 0
    BY <1>1, <1>3, <2>1 DEF L
  <2>3. next[ext[i]] = ListAt(h, x, ext, i).extension
    BY <2>1 DEF ListAt, L, NextAre
  <2> QED
    BY <1>2, <1>3, <2>1, <2>2, <2>3
<1> QED
  BY <1>4, <1>5 DEF LinkedUpTo, L, g

\* adfFileReadExtBlockN finds each extension block of a file, and no block
\* after the last.
LEMMA ExtSectorIs ==
  ASSUME vol \in Volumes, NEW w, NEW n \in Nat, NEW ext,
         ext \in [1..LastList(vol, n) -> vol.sectors],
         Linked(vol, w.file.fileHdr, w.disk, n, ext), Keyed(vol, w.disk, n, ext),
         NEW k \in 0..LastList(vol, n)
  PROVE  ExtSector(w, k) = IF k < LastList(vol, n) THEN ext[k + 1] ELSE 0
<1> DEFINE first == w.file.fileHdr.extension
           next == [s \in vol.sectors |-> OnDiskExt(w, s).extension]
           g == SectorsOf(vol, n, ext)
           Defines(f) == f = [i \in 0..k |-> IF i = 0 THEN first
                              ELSE IF f[i - 1] = 0 THEN 0 ELSE OnDiskExt(w, f[i - 1]).extension]
           at == CHOOSE f : Defines(f)
<1>1. LastList(vol, n) \in Nat /\ 0 \notin vol.sectors
  BY ListInFile, VolumeParts
<1>2. NextAre(vol, w.disk, n, ext, next)
  BY DEF NextAre, Keyed, ExtSet, OnDiskExt, AsExt
<1> HIDE DEF next
<1>3. g[0] = first /\ LinkedUpTo(g, next, LastList(vol, n))
  <2> DEFINE h == w.file.fileHdr
             x == w.disk
  <2>1. h.extension = first
    OBVIOUS
  <2>2. Linked(vol, h, x, n, ext) /\ NextAre(vol, x, n, ext, next)
    BY <1>2
  <2> HIDE DEF h, x, first
  <2>3. g[0] = h.extension /\ LinkedUpTo(g, next, LastList(vol, n))
    BY <2>2, ChainLinks
  <2> QED
    BY <2>1, <2>3
<1>4. \A i \in 0..LastList(vol, n) : g[i] \in vol.sectors \cup {0}
  BY <1>1 DEF SectorsOf
<1>5. g[k] = IF k < LastList(vol, n) THEN ext[k + 1] ELSE 0
  BY DEF SectorsOf
<1> HIDE DEF g
<1>6. \A i \in 1..k : g[i] = IF g[i - 1] = 0 THEN 0 ELSE OnDiskExt(w, g[i - 1]).extension
  <2> SUFFICES ASSUME NEW i \in 1..k
               PROVE  g[i] = IF g[i - 1] = 0 THEN 0 ELSE OnDiskExt(w, g[i - 1]).extension
    OBVIOUS
  <2>1. i \in 1..LastList(vol, n) /\ i - 1 \in 0..LastList(vol, n)
    BY <1>1
  <2>2. g[i] = IF g[i - 1] = 0 THEN 0 ELSE next[g[i - 1]]
    BY <1>3, <2>1 DEF LinkedUpTo
  <2>3. g[i - 1] # 0 => g[i - 1] \in vol.sectors
    BY <1>4, <2>1
  <2>4. \A s \in vol.sectors : next[s] = OnDiskExt(w, s).extension
    BY DEF next
  <2> QED
    BY <2>2, <2>3, <2>4
<1>7. Defines([i \in 0..k |-> g[i]])
  BY <1>1, <1>3, <1>6
<1>8. Defines(at)
  <2>1. \E f : Defines(f)
    BY <1>7
  <2> HIDE DEF Defines
  <2> QED
    BY <2>1
<1>9. ExtSector(w, k) = at[k]
  BY DEF ExtSector, Follow
<1> HIDE DEF at
<1>10. \A i \in 0..k : at[i] = g[i]
  <2>1. 0 <= k => at[0] = g[0]
    BY <1>3, <1>8
  <2>2. \A i \in (0 + 1)..k : at[i - 1] = g[i - 1] => at[i] = g[i]
    BY <1>1, <1>6, <1>8
  <2>3. 0 \in Int /\ k \in Int
    BY <1>1
  <2> QED
    BY ONLY <2>1, <2>2, <2>3, RecursionSame
<1> QED
  BY <1>1, <1>5, <1>9, <1>10

-----------------------------------------------------------------------------
(* Flushing an open file *)

\* What an open file is.
LEMMA FileParts ==
  ASSUME NEW v \in Volumes, NEW w, NEW data, NEW ext, NEW bytes, IsFile(v, w, data, ext, bytes),
         NEW n, n = Count(w.file.fileHdr.byteSize)
  PROVE  /\ w \in WorldSet(v) /\ n \in Nat /\ w.file.nDataBlock \in 0..n
         /\ Owns(v, w.free, n, data, ext)
         /\ w.file.fileHdr.byteSize = 0 <=> n = 0
         /\ w.file.curDataPtr = 0 <=> n = 0
         /\ w.file.nDataBlock = 0 <=> n = 0
         /\ n > 0 => /\ w.file.nDataBlock - 1 \in 0..(n - 1)
                     /\ w.file.curDataPtr = data[w.file.nDataBlock - 1]
<1>1. w \in WorldSet(v) /\ Owns(v, w.free, n, data, ext) /\ DataPlaced(w.file, n, data)
  BY DEF IsFile, FileIs
<1>2. w.file.fileHdr.byteSize \in Nat /\ w.file.nDataBlock \in Nat
  BY <1>1, WorldParts
<1>3. n \in Nat /\ (n = 0 <=> w.file.fileHdr.byteSize = 0)
  BY <1>2, CountIs
<1>4. \A k \in 0..(n - 1) : data[k] # 0
  BY <1>1, Sector
<1> QED
  BY <1>1, <1>2, <1>3, <1>4 DEF DataPlaced

\* The blocks in memory are different blocks of the file.
LEMMA InMemory ==
  ASSUME NEW v \in Volumes, NEW w, NEW data, NEW ext, NEW bytes, IsFile(v, w, data, ext, bytes)
  PROVE  w.file.currentExt # NoExt => w.file.currentExt.headerKey # w.file.curDataPtr
<1> DEFINE n == Count(w.file.fileHdr.byteSize)
<1>1. ExtPlaced(v, w.file, n, ext)
  BY DEF IsFile
<1>2. /\ Owns(v, w.free, n, data, ext) /\ n \in Nat /\ (n = 0 <=> w.file.curDataPtr = 0)
      /\ n > 0 => /\ w.file.nDataBlock - 1 \in 0..(n - 1)
                  /\ w.file.curDataPtr = data[w.file.nDataBlock - 1]
  BY FileParts
<1> HIDE DEF n
<1>3. \A l \in 1..LastList(v, n) : ext[l] # 0
  BY <1>2, Sector
<1>4. \A l \in 1..LastList(v, n) : ext[l] # w.file.curDataPtr
  BY <1>2, <1>3 DEF Owns
<1> QED
  BY <1>1, <1>4 DEF ExtPlaced

\* adfFileFlush brings the disk up to date and moves nothing in memory.
Flushed(w, r) ==
  /\ r.free = w.free /\ r.file.fileHdr = w.file.fileHdr /\ r.file.currentExt = w.file.currentExt
  /\ r.file.curDataPtr = w.file.curDataPtr /\ r.file.pos = w.file.pos
  /\ r.file.posInDataBlk = w.file.posInDataBlk /\ r.file.posInExtBlk = w.file.posInExtBlk
  /\ r.file.nDataBlock = w.file.nDataBlock /\ r.header = w.file.fileHdr
UpToDate(v, r, data, ext, bytes) ==
  /\ IsRead(v, r, data, ext, bytes) /\ BytesKept(r) /\ LinkKept(r)
  /\ DataPlaced(r.file, Count(r.header.byteSize), data)

\* adfFileFlush changes no counter; the disk then has all that was in memory.
LEMMA FlushKeeps ==
  ASSUME vol \in Volumes, NEW w, NEW data, NEW ext, NEW bytes, IsFile(vol, w, data, ext, bytes)
  PROVE  Flushed(w, Flush(w)) /\ UpToDate(vol, Flush(w), data, ext, bytes)
<1> DEFINE f == w.file
           n == Count(f.fileHdr.byteSize)
           e == f.currentExt
           s == f.curDataPtr
           x == ExtsNow(vol, f, w.disk)
           y == DataNow(vol, f, w.disk)
           r == Flush(w)
<1>1. /\ w \in WorldSet(vol) /\ w.ok /\ ExtPlaced(vol, f, n, ext) /\ DataPlaced(f, n, data)
      /\ FileIs(vol, f.fileHdr, x, y, w.free, data, ext, bytes)
  BY DEF IsFile
<1>2. /\ n \in Nat /\ Owns(vol, w.free, n, data, ext)
      /\ f.fileHdr.byteSize = 0 <=> s = 0
      /\ n > 0 => s \in {data[k] : k \in 0..(n - 1)}
      /\ n = 0 <=> s = 0
  BY FileParts
<1>3. e # NoExt => e.headerKey # s
  BY InMemory
<1>4. PICK b \in DataSet(vol) :
        /\ b.bytes = f.currentData.bytes /\ b.nextData = f.currentData.nextData
        /\ r = [file |-> [f EXCEPT !.currentData = b], disk |-> Written(w.disk, e, s, b),
                free |-> w.free, header |-> f.fileHdr, ok |-> w.ok]
  BY <1>1, <1>2, FlushIs
<1>5. /\ f \in FileSet(vol) /\ f.fileHdr \in HeaderSet(vol) /\ w.disk \in DiskSet(vol)
      /\ e # NoExt => e \in ExtSet(vol)
      /\ s \in vol.sectors \cup {0} /\ w.free \in SUBSET vol.sectors /\ w.ok \in BOOLEAN
  BY <1>1, WorldParts
<1> DEFINE d == Written(w.disk, e, s, b)
           g == [f EXCEPT !.currentData = b]
<1>6. /\ d \in DiskSet(vol)
      /\ e # NoExt => d[e.headerKey] = e
      /\ s # 0 => d[s] = b
      /\ \A t \in vol.sectors \cup {0} :
           t # s /\ (e # NoExt => t # e.headerKey) => d[t] = w.disk[t]
  <2> DEFINE d0 == w.disk
  <2>1. d0 \in DiskSet(vol) /\ d = Written(d0, e, s, b)
    BY <1>5
  <2> HIDE DEF d0, d, e, s
  <2>2. AfterWrite(vol, d0, e, s, b, d)
    BY <1>3, <1>5, <2>1, WrittenIs
  <2> QED
    BY <2>2 DEF AfterWrite, d0
<1>7. /\ g \in FileSet(vol) /\ g.currentData = b
      /\ g.fileHdr = f.fileHdr /\ g.currentExt = e /\ g.curDataPtr = s /\ g.pos = f.pos
      /\ g.posInDataBlk = f.posInDataBlk /\ g.posInExtBlk = f.posInExtBlk
      /\ g.nDataBlock = f.nDataBlock
  BY <1>5 DEF FileSet
<1> HIDE DEF d, g
<1>8. /\ r.file = g /\ r.disk = d /\ r.free = w.free /\ r.header = f.fileHdr /\ r.ok = w.ok
  BY <1>4 DEF d, g
<1>9. r \in WorldSet(vol)
  BY <1>4, <1>5, <1>6, <1>7 DEF WorldSet, d, g
<1> HIDE DEF r
<1>10. Flushed(w, r)
  BY <1>7, <1>8 DEF Flushed
<1>11. HeaderKept(r) /\ BytesKept(r) /\ LinkKept(r)
  <2>1. b.kind = "data"
    BY DEF DataSet
  <2> QED
    BY <1>6, <1>7, <1>8, <2>1 DEF HeaderKept, BytesKept, LinkKept, AsData
<1>12. ExtPlaced(vol, g, n, ext) /\ DataPlaced(g, n, data)
  BY <1>1, <1>7 DEF ExtPlaced, DataPlaced
<1>13. \A l \in 1..LastList(vol, n) : d[ext[l]] = x[ext[l]]
  <2> SUFFICES ASSUME NEW l \in 1..LastList(vol, n)
               PROVE  d[ext[l]] = x[ext[l]]
    OBVIOUS
  <2>1. ext[l] \in vol.sectors /\ ext[l] # s
    <3>1. ext[l] \in vol.sectors /\ ext[l] # 0
      BY <1>2, Sector
    <3> HIDE DEF s, n
    <3> QED
      BY <1>2, <3>1 DEF Owns
  <2>2. x[ext[l]] = IF e # NoExt /\ e.headerKey = ext[l] THEN e ELSE w.disk[ext[l]]
    BY <2>1 DEF ExtsNow
  <2> QED
    BY <1>6, <2>1, <2>2
<1>14. \A k \in 0..(n - 1) : /\ DiskData(vol, d)[data[k]].bytes = y[data[k]].bytes
                             /\ DiskData(vol, d)[data[k]].nextData = y[data[k]].nextData
  <2> SUFFICES ASSUME NEW k \in 0..(n - 1)
               PROVE  /\ DiskData(vol, d)[data[k]].bytes = y[data[k]].bytes
                      /\ DiskData(vol, d)[data[k]].nextData = y[data[k]].nextData
    OBVIOUS
  <2>1. data[k] \in vol.sectors /\ data[k] # 0 /\ (e # NoExt => e.headerKey # data[k])
    <3>1. data[k] \in vol.sectors /\ data[k] # 0
      BY <1>2, Sector
    <3>2. e # NoExt => \E l \in 1..LastList(vol, n) : e.headerKey = ext[l]
      BY <1>1 DEF ExtPlaced
    <3> HIDE DEF e, n
    <3> QED
      BY <1>2, <3>1, <3>2 DEF Owns
  <2>2. /\ DiskData(vol, d)[data[k]] = AsData(d[data[k]])
        /\ y[data[k]] = IF s = data[k] THEN f.currentData ELSE AsData(w.disk[data[k]])
    BY <2>1 DEF DiskData, DataNow
  <2>3. CASE s = data[k]
    <3>1. AsData(d[data[k]]) = b
      BY <1>6, <2>1, <2>3 DEF AsData, DataSet
    <3> QED
      BY <1>4, <2>2, <2>3, <3>1
  <2>4. CASE s # data[k]
    <3>1. d[data[k]] = w.disk[data[k]]
      BY <1>6, <2>1, <2>4
    <3> QED
      BY <2>2, <2>4, <3>1
  <2> QED
    BY <2>3, <2>4
<1> HIDE DEF x, y
<1>15. FileIs(vol, f.fileHdr, d, DiskData(vol, d), w.free, data, ext, bytes)
  <2> DEFINE h == f.fileHdr
             z == DiskData(vol, d)
             fr == w.free
  <2>1. /\ FileIs(vol, h, x, y, fr, data, ext, bytes) /\ n \in Nat /\ n = Count(h.byteSize)
        /\ \A l \in 1..LastList(vol, n) : d[ext[l]] = x[ext[l]]
        /\ \A k \in 0..(n - 1) : z[data[k]].bytes = y[data[k]].bytes
        /\ vol.ofs => \A k \in 0..(n - 1) : z[data[k]].nextData = y[data[k]].nextData
    BY <1>1, <1>2, <1>13, <1>14
  <2> HIDE DEF h, z, n, f, fr
  <2>2. FileIs(vol, h, d, z, fr, data, ext, bytes)
    BY <2>1, SameBlocks
  <2> QED
    BY <2>2 DEF h, z, fr
<1>16. Count(r.header.byteSize) = n
  BY <1>8
<1>17. IsRead(vol, r, data, ext, bytes)
  <2>1. r.ok /\ OnDisk(vol, r.header, r.disk, r.free, data, ext, bytes)
    BY <1>1, <1>8, <1>15 DEF OnDisk
  <2>2. ExtPlaced(vol, r.file, Count(r.header.byteSize), ext)
    BY <1>8, <1>12
  <2> QED
    BY <1>9, <1>11, <2>1, <2>2 DEF IsRead
<1>18. DataPlaced(r.file, Count(r.header.byteSize), data)
  BY <1>8, <1>12
<1> HIDE DEF n, f
<1> QED
  BY <1>10, <1>11, <1>17, <1>18 DEF UpToDate, r

\* A step that changes neither the disk nor the header in memory.
SameDisk(w, r) ==
  /\ r.disk = w.disk /\ r.free = w.free /\ r.header = w.header
  /\ r.file.fileHdr = w.file.fileHdr

\* After such a step the file is still as it was read.
LEMMA ReadAfter ==
  ASSUME NEW v \in Volumes, NEW w, NEW data, NEW ext, NEW bytes, IsRead(v, w, data, ext, bytes),
         NEW r, r \in WorldSet(v), r.ok, SameDisk(w, r),
         r.file.currentExt # NoExt => r.disk[r.file.currentExt.headerKey] = r.file.currentExt,
         ExtPlaced(v, r.file, Count(w.header.byteSize), ext)
  PROVE  IsRead(v, r, data, ext, bytes)
<1>1. /\ OnDisk(v, w.header, w.disk, w.free, data, ext, bytes) /\ w.header = w.file.fileHdr
      /\ r.header = w.header /\ r.disk = w.disk /\ r.free = w.free
      /\ r.file.fileHdr = w.file.fileHdr
  BY DEF IsRead, HeaderKept, SameDisk
<1>2. OnDisk(v, r.header, r.disk, r.free, data, ext, bytes)
  BY <1>1
<1>3. HeaderKept(r)
  BY <1>1 DEF HeaderKept
<1>4. ExtPlaced(v, r.file, Count(r.header.byteSize), ext)
  BY <1>1
<1> QED
  BY <1>2, <1>3, <1>4 DEF IsRead

\* A step that changes what is in memory only.
InFile(w, f) == [file |-> f, disk |-> w.disk, free |-> w.free, header |-> w.header, ok |-> w.ok]

\* Two of them are the later one.
LEMMA InFileIs ==
  ASSUME NEW w, NEW f, NEW f2
  PROVE  InFile(w, f).file = f /\ [InFile(w, f) EXCEPT !.file = f2] = InFile(w, f2)
BY DEF InFile

Moves(v, w, f, r) ==
  /\ r \in WorldSet(v) /\ r.ok = w.ok /\ r.file = f /\ SameDisk(w, r)
  /\ r.disk = w.disk /\ r.header = w.header /\ r.free = w.free

\* It changes neither the disk nor the header.
LEMMA InFileKeeps ==
  ASSUME NEW v \in Volumes, NEW w \in WorldSet(v), NEW f \in FileSet(v),
         f.fileHdr = w.file.fileHdr, NEW r, r = InFile(w, f)
  PROVE  Moves(v, w, f, r)
<1>1. /\ w.disk \in DiskSet(v) /\ w.free \in SUBSET v.sectors /\ w.header \in HeaderSet(v)
      /\ w.ok \in BOOLEAN
  BY WorldParts
<1> QED
  BY <1>1 DEF InFile, WorldSet, SameDisk, Moves

\* The file after the mark of changes was set or reset, or the file has moved.
Remarked(w, m) == [w EXCEPT !.file.changed = m]
Placed(w, pos, posInDataBlk) == [w EXCEPT !.file.pos = pos, !.file.posInDataBlk = posInDataBlk]

\* Marking changes nothing else.
LEMMA RemarkedIs ==
  ASSUME NEW v \in Volumes, NEW w \in WorldSet(v), NEW m \in BOOLEAN
  PROVE  Moves(v, w, [w.file EXCEPT !.changed = m], Remarked(w, m))
<1>1. /\ w = [file |-> w.file, disk |-> w.disk, free |-> w.free, header |-> w.header, ok |-> w.ok]
      /\ w.file \in FileSet(v)
  BY WorldParts
<1> DEFINE g == [w.file EXCEPT !.changed = m]
<1>2. Remarked(w, m) = [file |-> g, disk |-> w.disk, free |-> w.free, header |-> w.header,
                        ok |-> w.ok]
  BY <1>1 DEF Remarked
<1>3. g \in FileSet(v) /\ g.fileHdr = w.file.fileHdr
  BY <1>1 DEF FileSet
<1> HIDE DEF g
<1>4. Remarked(w, m) = InFile(w, g)
  BY <1>2 DEF InFile
<1>5. Moves(v, w, g, Remarked(w, m))
  BY <1>3, <1>4, InFileKeeps
<1> QED
  BY <1>5 DEF g

PlacedFile(w, pos, p) == [w.file EXCEPT !.pos = pos, !.posInDataBlk = p]

\* Nor does moving.
LEMMA PlacedIs ==
  ASSUME NEW v \in Volumes, NEW w \in WorldSet(v), NEW pos \in 0..v.maxSize, NEW p \in 0..BlockSize
  PROVE  Moves(v, w, PlacedFile(w, pos, p), Placed(w, pos, p))
<1>1. /\ w = [file |-> w.file, disk |-> w.disk, free |-> w.free, header |-> w.header, ok |-> w.ok]
      /\ w.file \in FileSet(v)
  BY WorldParts
<1> DEFINE g == [w.file EXCEPT !.pos = pos, !.posInDataBlk = p]
<1>2. Placed(w, pos, p) = [file |-> g, disk |-> w.disk, free |-> w.free, header |-> w.header,
                           ok |-> w.ok]
  <2> DEFINE g1 == [w.file EXCEPT !.pos = pos]
             w1 == [w EXCEPT !.file = g1]
  <2>1. w1 = [file |-> g1, disk |-> w.disk, free |-> w.free, header |-> w.header, ok |-> w.ok]
    BY <1>1
  <2>2. g = [g1 EXCEPT !.posInDataBlk = p]
    OBVIOUS
  <2>3. Placed(w, pos, p) = [w1 EXCEPT !.file = [w1.file EXCEPT !.posInDataBlk = p]]
    BY DEF Placed
  <2> HIDE DEF g, g1, w1
  <2> QED
    BY <2>1, <2>2, <2>3
<1>3. g \in FileSet(v) /\ g.fileHdr = w.file.fileHdr
  BY <1>1 DEF FileSet
<1> HIDE DEF g
<1>4. Placed(w, pos, p) = InFile(w, g)
  BY <1>2 DEF InFile
<1>5. Moves(v, w, g, Placed(w, pos, p))
  BY <1>3, <1>4, InFileKeeps
<1> QED
  BY <1>5 DEF g, PlacedFile

\* A move within the data block in memory.
SameInMemory(w, r) ==
  /\ SameDisk(w, r)
  /\ r.file.currentExt = w.file.currentExt /\ r.file.posInExtBlk = w.file.posInExtBlk
  /\ r.file.curDataPtr = w.file.curDataPtr /\ r.file.currentData = w.file.currentData
  /\ r.file.nDataBlock = w.file.nDataBlock

\* After it a file that was up to date still is.
LEMMA UpToDateAfter ==
  ASSUME NEW v \in Volumes, NEW w, NEW data, NEW ext, NEW bytes, IsRead(v, w, data, ext, bytes),
         BytesKept(w), LinkKept(w), NEW r, r \in WorldSet(v), r.ok, SameInMemory(w, r),
         DataPlaced(r.file, Count(w.header.byteSize), data)
  PROVE  UpToDate(v, r, data, ext, bytes)
<1>1. /\ IsRead(v, w, data, ext, bytes) /\ BytesKept(w) /\ LinkKept(w) /\ SameDisk(w, r)
      /\ HeaderKept(w) /\ ExtPlaced(v, w.file, Count(w.header.byteSize), ext)
      /\ r.header = w.header /\ r.disk = w.disk
  BY DEF SameInMemory, IsRead, SameDisk
<1>2. r.file.currentExt # NoExt => r.disk[r.file.currentExt.headerKey] = r.file.currentExt
  BY <1>1 DEF SameInMemory, HeaderKept
<1>3. ExtPlaced(v, r.file, Count(w.header.byteSize), ext)
  BY <1>1 DEF SameInMemory, ExtPlaced
<1>4. IsRead(v, r, data, ext, bytes)
  BY <1>1, <1>2, <1>3, ReadAfter
<1>5. BytesKept(r) /\ LinkKept(r)
  BY <1>1 DEF SameInMemory, BytesKept, LinkKept
<1>6. DataPlaced(r.file, Count(r.header.byteSize), data)
  BY <1>1
<1> QED
  BY <1>4, <1>5, <1>6 DEF UpToDate

\* An open file with nothing to write is one that was read.
LEMMA FileUpToDate ==
  ASSUME NEW v \in Volumes, NEW w, NEW data, NEW ext, NEW bytes
  PROVE  /\ UpToDate(v, w, data, ext, bytes) => IsFile(v, w, data, ext, bytes)
         /\ IsFile(v, w, data, ext, bytes) /\ ~w.file.changed => UpToDate(v, w, data, ext, bytes)
<1>1. ASSUME UpToDate(v, w, data, ext, bytes)
      PROVE  IsFile(v, w, data, ext, bytes)
  BY <1>1, FileRead DEF UpToDate
<1>2. ASSUME IsFile(v, w, data, ext, bytes), ~w.file.changed
      PROVE  UpToDate(v, w, data, ext, bytes)
  <2>1. /\ HeaderKept(w) /\ BytesKept(w) /\ LinkKept(w)
        /\ DataPlaced(w.file, Count(w.file.fileHdr.byteSize), data)
    BY <1>2 DEF IsFile, Marked
  <2>2. IsRead(v, w, data, ext, bytes)
    BY <1>2, <2>1, FileKept
  <2>3. w.header = w.file.fileHdr
    BY <2>1 DEF HeaderKept
  <2> QED
    BY <2>1, <2>2, <2>3 DEF UpToDate
<1> QED
  BY <1>1, <1>2

\* Flushing what has changed.
LEMMA FlushIfChangedKeeps ==
  ASSUME vol \in Volumes, NEW w, NEW data, NEW ext, NEW bytes, IsFile(vol, w, data, ext, bytes)
  PROVE  /\ Flushed(w, FlushIfChanged(w)) /\ UpToDate(vol, FlushIfChanged(w), data, ext, bytes)
         /\ ~FlushIfChanged(w).file.changed
<1>1. w \in WorldSet(vol) /\ w.file.changed \in BOOLEAN
  <2>1. w \in WorldSet(vol)
    BY DEF IsFile
  <2> QED
    BY <2>1, WorldParts
<1>2. CASE ~w.file.changed
  <2>1. FlushIfChanged(w) = w
    BY <1>2 DEF FlushIfChanged
  <2>2. UpToDate(vol, w, data, ext, bytes)
    BY <1>2, FileUpToDate
  <2>3. w.header = w.file.fileHdr
    BY <2>2 DEF UpToDate, IsRead, HeaderKept
  <2>4. Flushed(w, w)
    BY <2>3 DEF Flushed
  <2> QED
    BY <1>2, <2>1, <2>2, <2>4
<1>3. CASE w.file.changed
  <2> DEFINE r == Flush(w)
             q == Remarked(r, FALSE)
  <2>1. FlushIfChanged(w) = q
    BY <1>3 DEF FlushIfChanged, Remarked
  <2>2. Flushed(w, r) /\ UpToDate(vol, r, data, ext, bytes)
    BY FlushKeeps
  <2> HIDE DEF r
  <2>3. r \in WorldSet(vol) /\ r.ok /\ DataPlaced(r.file, Count(r.header.byteSize), data)
    BY <2>2 DEF UpToDate, IsRead
  <2>4. /\ q \in WorldSet(vol) /\ q.ok = r.ok /\ SameDisk(r, q)
        /\ q.file = [r.file EXCEPT !.changed = FALSE]
    BY <2>3, RemarkedIs DEF Moves
  <2>5. r.file \in FileSet(vol)
    BY <2>3, WorldParts
  <2> HIDE DEF q
  <2>6. SameInMemory(r, q) /\ q.file.pos = r.file.pos /\ q.file.posInDataBlk = r.file.posInDataBlk
        /\ ~q.file.changed
    BY <2>4, <2>5 DEF SameInMemory, FileSet
  <2>7. DataPlaced(q.file, Count(r.header.byteSize), data)
    BY <2>3, <2>6 DEF DataPlaced, SameInMemory, SameDisk
  <2>8. UpToDate(vol, q, data, ext, bytes)
    <3>1. IsRead(vol, r, data, ext, bytes) /\ BytesKept(r) /\ LinkKept(r)
      BY <2>2 DEF UpToDate
    <3> QED
      BY <2>3, <2>4, <2>6, <2>7, <3>1, UpToDateAfter DEF Moves
  <2>9. Flushed(w, q)
    BY <2>2, <2>6 DEF Flushed, SameInMemory, SameDisk
  <2> QED
    BY <2>1, <2>6, <2>8, <2>9
<1> QED
  BY <1>1, <1>2, <1>3

-----------------------------------------------------------------------------
(* Finding a data block *)

\* An OFS file has no extension block.
LEMMA SmallOfsIs ==
  ASSUME NEW v \in Volumes, SmallOfs(v), v.ofs, NEW size \in 0..v.maxSize
  PROVE  Count(size) <= v.maxDatablk /\ LastList(v, Count(size)) = 0
<1> DEFINE n == Count(size)
           m == v.maxDatablk
<1>1. BlockSize \in Nat \ {0} /\ m \in Nat \ {0} /\ size \in Nat /\ v.maxSize \in Nat
      /\ size <= v.maxSize /\ v.maxSize <= BlockSize * m
  BY VolumeParts DEF SmallOfs
<1>2. n \in Nat /\ (n = 0 <=> size = 0) /\ (size > 0 => BlockSize * (n - 1) < size)
  BY <1>1, CountIs
<1> HIDE DEF n, m
<1>3. n <= m
  <2> SUFFICES ASSUME n > m
               PROVE  FALSE
    BY <1>1, <1>2
  <2>1. n - 1 \in Int /\ m \in Int /\ n - 1 >= m /\ size > 0
    BY <1>1, <1>2
  <2>2. BlockSize * (n - 1) >= BlockSize * m
    BY <1>1, <2>1, TimesMonotone
  <2>3. BlockSize * (n - 1) \in Int /\ BlockSize * m \in Int
    BY <1>1, <2>1
  <2> QED
    BY <1>1, <1>2, <2>1, <2>2, <2>3
<1>4. LastList(v, n) = 0
  <2>1. CASE n = 0
    BY <2>1 DEF LastList
  <2>2. CASE n # 0
    <3>1. n - 1 \in Nat /\ n - 1 < m
      BY <1>1, <1>2, <1>3, <2>2
    <3> QED
      BY <2>2, <3>1, PlaceOf DEF LastList, m
  <2> QED
    BY <2>1, <2>2
<1> QED
  BY <1>3, <1>4 DEF n, m

\* Where the data blocks of a file that was read are listed.
ListedOnDisk(v, w, n, data, ext) ==
  /\ \A l \in 1..LastList(v, n) :
       /\ ext[l] \in v.sectors /\ w.disk[ext[l]] \in ExtSet(v) /\ w.disk[ext[l]].headerKey = ext[l]
       /\ w.disk[ext[l]].extension = IF l < LastList(v, n) THEN ext[l + 1] ELSE 0
  /\ w.file.fileHdr.extension = IF 0 < LastList(v, n) THEN ext[1] ELSE 0
  /\ \A k \in 0..(n - 1) :
       IF k < v.maxDatablk THEN w.file.fileHdr.dataBlocks[k] = data[k]
       ELSE /\ ListOf(v, k) \in 1..LastList(v, n)
            /\ w.disk[ext[ListOf(v, k)]].dataBlocks[EntryOf(v, k)] = data[k]
  /\ n > 0 => w.file.fileHdr.firstData = data[0]

\* Where a file that was read finds its blocks.
LEMMA LookUp ==
  ASSUME NEW v \in Volumes, NEW w, NEW n \in Nat, NEW data, NEW ext,
         Lists(v, w.file.fileHdr, w.disk, n, data, ext), Owns(v, w.free, n, data, ext)
  PROVE  ListedOnDisk(v, w, n, data, ext)
<1> DEFINE h == w.file.fileHdr
           x == w.disk
           L == LastList(v, n)
<1>1. /\ \A l \in 0..L : ListAt(h, x, ext, l).extension = IF l < L THEN ext[l + 1] ELSE 0
      /\ \A k \in 0..(n - 1) : ListAt(h, x, ext, ListOf(v, k)).dataBlocks[EntryOf(v, k)] = data[k]
      /\ \A l \in 1..L : x[ext[l]] \in ExtSet(v) /\ x[ext[l]].headerKey = ext[l]
      /\ h.firstData = IF n = 0 THEN 0 ELSE data[0]
  BY DEF Lists, Listed, Linked, Keyed, FirstIs
<1>2. L \in Nat
  BY ListInFile
<1>3. \A l \in 1..L : ext[l] \in v.sectors
  BY Sector
<1> HIDE DEF h, x, L
<1>4. \A l \in 1..L : x[ext[l]].extension = IF l < L THEN ext[l + 1] ELSE 0
  BY <1>1, <1>2 DEF ListAt
<1>5. h.extension = IF 0 < L THEN ext[1] ELSE 0
  BY <1>1, <1>2 DEF ListAt
<1>6. ASSUME NEW k \in 0..(n - 1)
      PROVE  IF k < v.maxDatablk THEN h.dataBlocks[k] = data[k]
             ELSE ListOf(v, k) \in 1..L /\ x[ext[ListOf(v, k)]].dataBlocks[EntryOf(v, k)] = data[k]
  <2>1. /\ k \in Nat /\ ListOf(v, k) \in 0..L /\ (ListOf(v, k) # 0 => ListOf(v, k) \in 1..L)
        /\ ListOf(v, k) = 0 <=> k < v.maxDatablk
        /\ k < v.maxDatablk => EntryOf(v, k) = k
    BY ListInFile, PlaceOf DEF L
  <2> QED
    BY <1>1, <2>1 DEF ListAt
<1> QED
  BY <1>1, <1>3, <1>4, <1>5, <1>6 DEF ListedOnDisk, h, x, L

\* What a file that was read is.
LEMMA ReadParts ==
  ASSUME NEW v \in Volumes, NEW w, NEW data, NEW ext, NEW bytes, IsRead(v, w, data, ext, bytes),
         NEW n, n = Count(w.header.byteSize)
  PROVE  /\ w \in WorldSet(v) /\ w.ok /\ w.header = w.file.fileHdr /\ n \in Nat
         /\ w.header.byteSize \in 0..v.maxSize /\ (n = 0 <=> w.header.byteSize = 0)
         /\ Owns(v, w.free, n, data, ext) /\ ListedOnDisk(v, w, n, data, ext)
         /\ ext \in [1..LastList(v, n) -> v.sectors]
         /\ Linked(v, w.file.fileHdr, w.disk, n, ext) /\ Keyed(v, w.disk, n, ext)
<1>1. /\ w \in WorldSet(v) /\ w.ok /\ w.header = w.file.fileHdr
      /\ Owns(v, w.free, n, data, ext) /\ Lists(v, w.file.fileHdr, w.disk, n, data, ext)
  BY DEF IsRead, OnDisk, FileIs, HeaderKept
<1>2. w.header.byteSize \in 0..v.maxSize /\ w.header.byteSize \in Nat
  BY <1>1, WorldParts, VolumeParts DEF WorldSet, HeaderSet
<1>3. n \in Nat /\ (n = 0 <=> w.header.byteSize = 0)
  BY <1>2, CountIs
<1>4. ListedOnDisk(v, w, n, data, ext)
  BY <1>1, <1>3, LookUp
<1> QED
  BY <1>1, <1>2, <1>3, <1>4 DEF Owns, Lists

\* Data block k in memory, with the extension block e, of which p entries were
\* read.
AtBlock(w, e, p, s, k) ==
  [file |-> [w.file EXCEPT !.currentExt = e, !.posInExtBlk = p,
                           !.currentData = AsData(w.disk[s]), !.curDataPtr = s,
                           !.nDataBlock = k + 1],
   disk |-> w.disk, free |-> w.free, header |-> w.header, ok |-> w.ok]

InMemoryIs(v, w, e, p, s, k, r) ==
  /\ r \in WorldSet(v) /\ r.ok = w.ok /\ SameDisk(w, r)
  /\ r.file.currentExt = e /\ r.file.posInExtBlk = p
  /\ r.file.currentData = AsData(w.disk[s]) /\ r.file.curDataPtr = s
  /\ r.file.nDataBlock = k + 1
  /\ r.file.pos = w.file.pos /\ r.file.posInDataBlk = w.file.posInDataBlk
  /\ r.file.changed = w.file.changed

\* What is in memory then.
LEMMA AtBlockIs ==
  ASSUME NEW v \in Volumes, NEW w \in WorldSet(v), NEW e \in ExtSet(v) \cup {NoExt},
         NEW p \in 0..v.maxDatablk, NEW s \in v.sectors, NEW k \in Nat, NEW r,
         r = AtBlock(w, e, p, s, k)
  PROVE  InMemoryIs(v, w, e, p, s, k, r)
<1> DEFINE c == AsData(w.disk[s])
           g == [w.file EXCEPT !.currentExt = e, !.posInExtBlk = p, !.currentData = c,
                               !.curDataPtr = s, !.nDataBlock = k + 1]
<1>1. /\ w.file \in FileSet(v) /\ w.disk \in DiskSet(v) /\ w.free \in SUBSET v.sectors
      /\ w.header \in HeaderSet(v) /\ w.ok \in BOOLEAN
  BY WorldParts
<1>2. c \in DataSet(v)
  <2>1. w.disk[s] \in {Zero, Boot} \cup DataSet(v) \cup ExtSet(v)
    BY <1>1 DEF DiskSet
  <2>2. Zeros \in [Offsets -> Bytes] /\ 0 \in v.sectors \cup {0} /\ 0 \in 0..BlockSize
    BY FileAssumption DEF Zeros
  <2>3. DataBlock(Zeros, 0, 0) \in DataSet(v)
    BY <2>2 DEF DataBlock, DataSet
  <2>4. w.disk[s].kind = "data" => w.disk[s] \in DataSet(v)
    BY <2>1 DEF Zero, Boot, ExtSet, DataSet
  <2> QED
    BY <2>3, <2>4 DEF AsData
<1>3. r = [file |-> g, disk |-> w.disk, free |-> w.free, header |-> w.header, ok |-> w.ok]
  BY DEF AtBlock
<1> HIDE DEF c
<1>4. /\ g \in FileSet(v) /\ g.fileHdr = w.file.fileHdr
      /\ g.currentExt = e /\ g.posInExtBlk = p /\ g.currentData = c /\ g.curDataPtr = s
      /\ g.nDataBlock = k + 1 /\ g.pos = w.file.pos /\ g.posInDataBlk = w.file.posInDataBlk
      /\ g.changed = w.file.changed
  <2>1. k + 1 \in Nat
    OBVIOUS
  <2> QED
    BY <1>1, <1>2, <2>1 DEF FileSet
<1> HIDE DEF g
<1>5. r \in WorldSet(v) /\ r.ok = w.ok /\ SameDisk(w, r) /\ r.file = g
  BY <1>1, <1>3, <1>4 DEF WorldSet, SameDisk
<1> QED
  BY <1>4, <1>5 DEF c, InMemoryIs

\* Data block k of a file was read from the disk.
BlockRead(v, w, r, data, ext, bytes, k) ==
  /\ IsRead(v, r, data, ext, bytes) /\ BytesKept(r) /\ LinkKept(r) /\ SameDisk(w, r)
  /\ r.file.nDataBlock = k + 1 /\ r.file.curDataPtr = data[k]
  /\ r.file.pos = w.file.pos /\ r.file.posInDataBlk = w.file.posInDataBlk
  /\ r.file.changed = w.file.changed
  /\ r.file.currentExt # NoExt =>
       w.file.currentExt # NoExt \/ ListOf(v, k) # 0

\* The extension block e, of which p entries were read, is the one that lists
\* data block k, if one does.
ExtListing(v, w, n, ext, e, p, k) ==
  /\ e \in ExtSet(v) \cup {NoExt} /\ p \in 0..v.maxDatablk
  /\ e # NoExt => /\ w.disk[e.headerKey] = e
                  /\ \E l \in 1..LastList(v, n) : e.headerKey = ext[l]
                  /\ w.file.currentExt # NoExt \/ ListOf(v, k) # 0
  /\ k >= v.maxDatablk =>
       e # NoExt /\ e.headerKey = ext[ListOf(v, k)] /\ p = EntryOf(v, k) + 1

\* So data block k is read when its sector was found.
LEMMA AtBlockRead ==
  ASSUME NEW v \in Volumes, NEW w, NEW data, NEW ext, NEW bytes, IsRead(v, w, data, ext, bytes),
         NEW n, n = Count(w.header.byteSize), NEW k \in 0..(n - 1),
         NEW e, NEW p, ExtListing(v, w, n, ext, e, p, k),
         NEW r, r = AtBlock(w, e, p, data[k], k)
  PROVE  BlockRead(v, w, r, data, ext, bytes, k)
<1>1. w \in WorldSet(v) /\ Owns(v, w.free, n, data, ext) /\ w.ok
  BY ReadParts
<1>2. n \in Nat
  BY ReadParts
<1>3. k \in Nat /\ data[k] \in v.sectors /\ data[k] # 0
  BY <1>1, <1>2, Sector
<1>4. /\ r \in WorldSet(v) /\ r.ok = w.ok /\ SameDisk(w, r)
      /\ r.file.currentExt = e /\ r.file.posInExtBlk = p
      /\ r.file.currentData = AsData(w.disk[data[k]]) /\ r.file.curDataPtr = data[k]
      /\ r.file.nDataBlock = k + 1
      /\ r.file.pos = w.file.pos /\ r.file.posInDataBlk = w.file.posInDataBlk
      /\ r.file.changed = w.file.changed
  <2>1. e \in ExtSet(v) \cup {NoExt} /\ p \in 0..v.maxDatablk
    BY DEF ExtListing
  <2>2. InMemoryIs(v, w, e, p, data[k], k, r)
    BY <1>1, <1>3, <2>1, AtBlockIs
  <2> QED
    BY <2>2 DEF InMemoryIs
<1>5. r.disk = w.disk
  BY <1>4 DEF SameDisk
<1>6. ExtPlaced(v, r.file, n, ext)
  <2>1. r.file.nDataBlock - 1 = k /\ (r.file.nDataBlock > v.maxDatablk => k >= v.maxDatablk)
    BY <1>3, <1>4, VolumeParts
  <2> QED
    BY <1>4, <2>1 DEF ExtPlaced, ExtListing
<1>7. r.file.currentExt # NoExt => r.disk[r.file.currentExt.headerKey] = r.file.currentExt
  BY <1>4, <1>5 DEF ExtListing
<1>8. IsRead(v, r, data, ext, bytes)
  BY <1>1, <1>4, <1>6, <1>7, ReadAfter
<1>9. BytesKept(r) /\ LinkKept(r)
  BY <1>4, <1>5 DEF BytesKept, LinkKept
<1>10. e # NoExt => w.file.currentExt # NoExt \/ ListOf(v, k) # 0
  BY DEF ExtListing
<1> QED
  BY <1>4, <1>8, <1>9, <1>10 DEF BlockRead

\* Loading an extension block, then a data block.
WithExt(w, e, p) ==
  [file |-> [w.file EXCEPT !.currentExt = e, !.posInExtBlk = p],
   disk |-> w.disk, free |-> w.free, header |-> w.header, ok |-> w.ok]

ExtLoaded(v, w, e, p, r) ==
  /\ r \in WorldSet(v) /\ r.ok = w.ok /\ r.disk = w.disk /\ SameDisk(w, r)
  /\ r.file.currentExt = e /\ r.file.posInExtBlk = p
  /\ \A s, k : AtBlock(r, e, p, s, k) = AtBlock(w, e, p, s, k)

\* What is in memory with the extension block alone.
LEMMA WithExtIs ==
  ASSUME NEW v \in Volumes, NEW w \in WorldSet(v), NEW e \in ExtSet(v) \cup {NoExt},
         NEW p \in 0..v.maxDatablk, NEW r, r = WithExt(w, e, p)
  PROVE  ExtLoaded(v, w, e, p, r)
<1> DEFINE g == [w.file EXCEPT !.currentExt = e, !.posInExtBlk = p]
<1>1. /\ w.file \in FileSet(v) /\ w.disk \in DiskSet(v) /\ w.free \in SUBSET v.sectors
      /\ w.header \in HeaderSet(v) /\ w.ok \in BOOLEAN
  BY WorldParts
<1>2. r = [file |-> g, disk |-> w.disk, free |-> w.free, header |-> w.header, ok |-> w.ok]
  BY DEF WithExt
<1>3. g \in FileSet(v) /\ g.fileHdr = w.file.fileHdr /\ g.currentExt = e /\ g.posInExtBlk = p
  BY <1>1 DEF FileSet
<1>4. ASSUME NEW c, NEW s, NEW k
      PROVE  [g EXCEPT !.currentExt = e, !.posInExtBlk = p, !.currentData = c,
                       !.curDataPtr = s, !.nDataBlock = k + 1]
             = [w.file EXCEPT !.currentExt = e, !.posInExtBlk = p, !.currentData = c,
                              !.curDataPtr = s, !.nDataBlock = k + 1]
  BY <1>1 DEF FileSet
<1> HIDE DEF g
<1>5. ASSUME NEW s, NEW k
      PROVE  AtBlock(r, e, p, s, k) = AtBlock(w, e, p, s, k)
  <2> DEFINE c == AsData(w.disk[s])
  <2>1. r.disk = w.disk /\ r.file = g /\ r.free = w.free /\ r.header = w.header /\ r.ok = w.ok
    BY <1>2
  <2> QED
    BY <1>4, <2>1, Zenon DEF AtBlock
<1> QED
  BY <1>1, <1>2, <1>3, <1>5 DEF WorldSet, SameDisk, ExtLoaded

\* Loading an extension block, and setting the place in it.
LEMMA LoadsExt ==
  ASSUME NEW v \in Volumes, NEW w \in WorldSet(v), NEW s \in v.sectors, w.disk[s] \in ExtSet(v)
  PROVE  /\ LoadExt(w, s) = WithExt(w, w.disk[s], w.file.posInExtBlk)
         /\ \A p : [LoadExt(w, s) EXCEPT !.file.posInExtBlk = p] = WithExt(w, w.disk[s], p)
<1> DEFINE e == w.disk[s]
           g == [w.file EXCEPT !.currentExt = e]
<1>1. /\ w = [file |-> w.file, disk |-> w.disk, free |-> w.free, header |-> w.header, ok |-> w.ok]
      /\ w.file \in FileSet(v)
  BY WorldParts
<1>2. AsExt(e) = e /\ ReadsAsExt(e)
  BY DEF AsExt, ReadsAsExt, ExtSet
<1>3. LoadExt(w, s) = [w EXCEPT !.file.currentExt = e]
  BY <1>2, Zenon DEF LoadExt, OnDiskExt
<1>4. LoadExt(w, s) = [file |-> g, disk |-> w.disk, free |-> w.free, header |-> w.header,
                       ok |-> w.ok]
  <2> DEFINE d == w.disk
  <2>1. w = [file |-> w.file, disk |-> d, free |-> w.free, header |-> w.header, ok |-> w.ok]
    BY <1>1
  <2> HIDE DEF e, d
  <2>2. LoadExt(w, s) = [file |-> g, disk |-> d, free |-> w.free, header |-> w.header,
                         ok |-> w.ok]
    BY <1>3, <2>1
  <2> QED
    BY <2>2 DEF d
<1>5. ASSUME NEW p
      PROVE  [LoadExt(w, s) EXCEPT !.file.posInExtBlk = p] = WithExt(w, e, p)
  <2>1. [g EXCEPT !.posInExtBlk = p] = [w.file EXCEPT !.currentExt = e, !.posInExtBlk = p]
    OBVIOUS
  <2>2. [LoadExt(w, s) EXCEPT !.file.posInExtBlk = p]
        = [file |-> [g EXCEPT !.posInExtBlk = p], disk |-> w.disk, free |-> w.free,
           header |-> w.header, ok |-> w.ok]
    <3> HIDE DEF g
    <3> QED
      BY <1>4
  <2> QED
    BY <2>1, <2>2 DEF WithExt
<1>6. g = [w.file EXCEPT !.currentExt = e, !.posInExtBlk = w.file.posInExtBlk]
  BY <1>1 DEF FileSet
<1>7. LoadExt(w, s) = WithExt(w, e, w.file.posInExtBlk)
  BY <1>4, <1>6, Zenon DEF WithExt
<1> QED
  BY <1>5, <1>7 DEF e

\* Moving on by one entry.
LEMMA CountsEntry ==
  ASSUME NEW v \in Volumes, NEW w \in WorldSet(v), NEW e, NEW p
  PROVE  [WithExt(w, e, p) EXCEPT !.file.posInExtBlk = @ + 1] = WithExt(w, e, p + 1)
<1> DEFINE g == [w.file EXCEPT !.currentExt = e, !.posInExtBlk = p]
<1>1. WithExt(w, e, p) = [file |-> g, disk |-> w.disk, free |-> w.free, header |-> w.header,
                          ok |-> w.ok]
  BY DEF WithExt
<1>2. [g EXCEPT !.posInExtBlk = p + 1] = [w.file EXCEPT !.currentExt = e, !.posInExtBlk = p + 1]
  OBVIOUS
<1>3. g.posInExtBlk = p
  <2>1. w.file \in FileSet(v)
    BY WorldParts
  <2> QED
    BY <2>1 DEF FileSet
<1> HIDE DEF g
<1>4. [WithExt(w, e, p) EXCEPT !.file.posInExtBlk = @ + 1]
      = [file |-> [g EXCEPT !.posInExtBlk = p + 1], disk |-> w.disk, free |-> w.free,
         header |-> w.header, ok |-> w.ok]
  BY <1>1, <1>3
<1> QED
  BY <1>2, <1>4 DEF WithExt

\* Then loading a data block.
LEMMA LoadsData ==
  ASSUME NEW v \in Volumes, NEW w \in WorldSet(v), NEW s, NEW k
  PROVE  [LoadData(w, s) EXCEPT !.file.nDataBlock = k + 1]
         = AtBlock(w, w.file.currentExt, w.file.posInExtBlk, s, k)
<1> DEFINE c == AsData(w.disk[s])
           g1 == [w.file EXCEPT !.currentData = c]
           g2 == [g1 EXCEPT !.curDataPtr = s]
           g3 == [g2 EXCEPT !.nDataBlock = k + 1]
           w1 == [w EXCEPT !.file = g1]
           w2 == [w1 EXCEPT !.file = g2]
<1>1. /\ w = [file |-> w.file, disk |-> w.disk, free |-> w.free, header |-> w.header, ok |-> w.ok]
      /\ w.file \in FileSet(v)
  BY WorldParts
<1>2. w1 = [file |-> g1, disk |-> w.disk, free |-> w.free, header |-> w.header, ok |-> w.ok]
  <2> HIDE DEF g1
  <2> QED
    BY <1>1
<1>3. w2 = [file |-> g2, disk |-> w.disk, free |-> w.free, header |-> w.header, ok |-> w.ok]
  <2> HIDE DEF g2, w1
  <2> QED
    BY <1>2
<1>4. LoadData(w, s) = w2
  <2>1. LoadData(w, s) = [w1 EXCEPT !.file.curDataPtr = s]
    BY Zenon DEF LoadData
  <2> HIDE DEF g1, w1
  <2>2. w1.file = g1
    BY <1>2
  <2> QED
    BY <2>1, <2>2
<1>5. [LoadData(w, s) EXCEPT !.file.nDataBlock = k + 1]
      = [file |-> g3, disk |-> w.disk, free |-> w.free, header |-> w.header, ok |-> w.ok]
  <2> HIDE DEF g2, w2
  <2> QED
    BY <1>3, <1>4
<1>6. g3 = [w.file EXCEPT !.currentExt = w.file.currentExt, !.posInExtBlk = w.file.posInExtBlk,
                          !.currentData = c, !.curDataPtr = s, !.nDataBlock = k + 1]
  <2> HIDE DEF c
  <2> QED
    BY <1>1 DEF FileSet
<1> HIDE DEF g3
<1> QED
  BY <1>5, <1>6, Zenon DEF AtBlock

-----------------------------------------------------------------------------
(* The next data block *)

\* The data block in memory leads to data block k of an OFS file.
LeadsTo(v, w, data, k) == v.ofs /\ k > 0 => w.file.currentData.nextData = data[k]

\* The extension block in memory that lists a data block it holds.
LEMMA ExtInMemory ==
  ASSUME NEW v \in Volumes, NEW w, NEW data, NEW ext, NEW bytes, IsRead(v, w, data, ext, bytes),
         NEW n, n = Count(w.header.byteSize), NEW k \in 0..(n - 1), k < v.maxDatablk
  PROVE  ExtListing(v, w, n, ext, w.file.currentExt, w.file.posInExtBlk, k)
<1>1. w \in WorldSet(v) /\ n \in Nat
  BY ReadParts
<1>2. /\ w.file.currentExt # NoExt => w.file.currentExt \in ExtSet(v)
      /\ w.file.posInExtBlk \in 0..v.maxDatablk
  BY <1>1, WorldParts
<1>3. /\ w.file.currentExt # NoExt => w.disk[w.file.currentExt.headerKey] = w.file.currentExt
      /\ ExtPlaced(v, w.file, n, ext)
  BY DEF IsRead, HeaderKept
<1>4. ~(k >= v.maxDatablk)
  BY <1>1, VolumeParts
<1> QED
  BY <1>2, <1>3, <1>4 DEF ExtListing, ExtPlaced

\* adfFileReadNextBlock reads the data block after those that were counted.
LEMMA NextInHeader ==
  ASSUME vol \in Volumes, NEW w, NEW data, NEW ext, NEW bytes, IsRead(vol, w, data, ext, bytes),
         SmallOfs(vol), NEW n, n = Count(w.header.byteSize), NEW k \in 0..(n - 1),
         k = w.file.nDataBlock, vol.ofs \/ k < vol.maxDatablk, LeadsTo(vol, w, data, k)
  PROVE  BlockRead(vol, w, adfFileReadNextBlock(w), data, ext, bytes, k)
<1> DEFINE e == w.file.currentExt
           p == w.file.posInExtBlk
           r == adfFileReadNextBlock(w)
           s == data[k]
<1>1. /\ w \in WorldSet(vol) /\ w.ok /\ n \in Nat /\ Owns(vol, w.free, n, data, ext)
      /\ ListedOnDisk(vol, w, n, data, ext) /\ w.header.byteSize \in 0..vol.maxSize
  BY ReadParts
<1>2. k < vol.maxDatablk /\ ~(k >= vol.maxDatablk) /\ k \in Nat /\ vol.maxDatablk \in Nat
  <2>1. vol.ofs => n <= vol.maxDatablk
    BY <1>1, SmallOfsIs
  <2> QED
    BY <1>1, <2>1, VolumeParts
<1>3. s # 0
  BY <1>1, Sector
<1>4. /\ k = 0 => w.file.fileHdr.firstData = s
      /\ w.file.fileHdr.dataBlocks[k] = s
  BY <1>1, <1>2 DEF ListedOnDisk
<1>5. r = IF s = 0 THEN Fails(w) ELSE [LoadData(w, s) EXCEPT !.file.nDataBlock = k + 1]
  <2>1. ~(~OFS /\ k >= MaxDatablk)
    BY <1>2 DEF MaxDatablk
  <2> DEFINE t == IF k = 0 THEN w.file.fileHdr.firstData
                  ELSE IF OFS THEN w.file.currentData.nextData
                  ELSE IF k < MaxDatablk THEN w.file.fileHdr.dataBlocks[k]
                  ELSE w.file.currentExt.dataBlocks[w.file.posInExtBlk]
  <2>2. r = IF ~w.ok THEN w ELSE IF t = 0 THEN Fails(w)
            ELSE [LoadData(w, t) EXCEPT !.file.nDataBlock = k + 1]
    BY <2>1, Zenon DEF adfFileReadNextBlock
  <2>3. t = s
    <3>1. CASE k = 0
      BY <1>4, <3>1
    <3>2. CASE k # 0 /\ vol.ofs
      BY <1>2, <3>2 DEF OFS, LeadsTo
    <3>3. CASE k # 0 /\ ~vol.ofs
      BY <1>2, <1>4, <3>3 DEF OFS, MaxDatablk
    <3> QED
      BY <3>1, <3>2, <3>3
  <2> HIDE DEF t, s, r
  <2> QED
    BY <1>1, <2>2, <2>3
<1>6. r = AtBlock(w, e, p, s, k)
  <2>1. [LoadData(w, s) EXCEPT !.file.nDataBlock = k + 1] = AtBlock(w, e, p, s, k)
    BY <1>1, LoadsData
  <2> HIDE DEF s, r, e, p
  <2> QED
    BY <1>3, <1>5, <2>1
<1>7. ExtListing(vol, w, n, ext, e, p, k)
  BY <1>2, ExtInMemory
<1> HIDE DEF e, p, r
<1>8. BlockRead(vol, w, r, data, ext, bytes, k)
  BY <1>6, <1>7, AtBlockRead
<1> QED
  BY <1>8 DEF r

\* It finds the block through an extension block in the same way,
LEMMA NextInExt ==
  ASSUME vol \in Volumes, NEW w, NEW data, NEW ext, NEW bytes, IsRead(vol, w, data, ext, bytes),
         NEW n, n = Count(w.header.byteSize), NEW k \in 0..(n - 1),
         k = w.file.nDataBlock, ~vol.ofs, ~(k < vol.maxDatablk)
  PROVE  BlockRead(vol, w, adfFileReadNextBlock(w), data, ext, bytes, k)
<1> DEFINE m == vol.maxDatablk
           l == ListOf(vol, k)
           i == EntryOf(vol, k)
           e == w.disk[ext[l]]
           s == data[k]
           r == adfFileReadNextBlock(w)
           x == NextExt(w)
           counted == [x EXCEPT !.file.posInExtBlk = @ + 1]
<1>1. /\ w \in WorldSet(vol) /\ w.ok /\ n \in Nat /\ Owns(vol, w.free, n, data, ext)
      /\ ListedOnDisk(vol, w, n, data, ext)
  BY ReadParts
<1>2. k >= m /\ k \in Nat /\ m \in Nat \ {0} /\ k # 0 /\ k - 1 \in Nat
  BY <1>1, VolumeParts
<1>3. /\ l \in 1..LastList(vol, n) /\ i \in 0..(m - 1) /\ e.dataBlocks[i] = s
      /\ ext[l] \in vol.sectors /\ e \in ExtSet(vol) /\ e.headerKey = ext[l]
      /\ LastList(vol, n) \in Nat
  BY <1>1, <1>2, PlaceOf, ListInFile DEF ListedOnDisk
<1>4. s # 0
  BY <1>1, Sector
<1> HIDE DEF m, l, i, e
<1>5. x = WithExt(w, e, i)
  <2>1. IF i = 0 THEN l = ListOf(vol, k - 1) + 1 /\ EntryOf(vol, k - 1) = m - 1
        ELSE l = ListOf(vol, k - 1) /\ i = EntryOf(vol, k - 1) + 1
    BY <1>2, PlaceNext DEF l, i, m
  <2>2. /\ w.file.currentExt # NoExt => w.disk[w.file.currentExt.headerKey] = w.file.currentExt
        /\ k > m => /\ w.file.currentExt # NoExt
                    /\ w.file.currentExt.headerKey = ext[ListOf(vol, k - 1)]
                    /\ w.file.posInExtBlk = EntryOf(vol, k - 1) + 1
    BY DEF IsRead, HeaderKept, ExtPlaced, m
  <2>3. k = m => i = 0 /\ l = 1
    <3>1. m * 1 + 0 = m /\ 1 \in Nat /\ 0 \in 0..(m - 1)
      BY <1>2
    <3>2. ListOf(vol, m * 1 + 0) = 1 /\ EntryOf(vol, m * 1 + 0) = 0
      BY <3>1, PlaceMade DEF m
    <3> QED
      BY <3>1, <3>2 DEF l, i
  <2> DEFINE t == IF k = MaxDatablk THEN w.file.fileHdr.extension ELSE w.file.currentExt.extension
  <2>4. x = IF k = MaxDatablk \/ w.file.posInExtBlk = MaxDatablk
              THEN [LoadExt(w, t) EXCEPT !.file.posInExtBlk = 0] ELSE w
    BY Zenon DEF NextExt
  <2>5. CASE i = 0
    <3>1. k = MaxDatablk \/ w.file.posInExtBlk = MaxDatablk
      BY <1>2, <2>1, <2>2, <2>5 DEF MaxDatablk, m
    <3>2. t = ext[l]
      <4>1. CASE k = m
        BY <1>1, <1>3, <2>3, <4>1 DEF ListedOnDisk, MaxDatablk, m
      <4>2. CASE k # m
        <5>1. k > m /\ ListOf(vol, k - 1) = l - 1
          BY <1>2, <1>3, <2>1, <2>5, <4>2, PlaceOf
        <5>2. w.file.currentExt = w.disk[ext[l - 1]]
          BY <2>2, <5>1
        <5>3. l - 1 \in 1..LastList(vol, n) /\ l - 1 < LastList(vol, n) /\ (l - 1) + 1 = l
          <6>1. k - 1 >= m /\ ListOf(vol, k - 1) \in Nat /\ ListOf(vol, k - 1) # 0
            <7>1. k - 1 >= m
              BY <1>2, <5>1
            <7>2. ~(k - 1 < m)
              BY <1>2, <7>1
            <7> QED
              BY <1>2, <7>1, <7>2, PlaceOf DEF m
          <6> QED
            BY <1>3, <5>1, <6>1
        <5>4. w.file.currentExt.extension = ext[l]
          BY <1>1, <5>2, <5>3 DEF ListedOnDisk
        <5> QED
          BY <4>2, <5>4 DEF MaxDatablk, m
      <4> QED
        BY <4>1, <4>2
    <3> HIDE DEF t, x
    <3>3. x = [LoadExt(w, ext[l]) EXCEPT !.file.posInExtBlk = 0]
      BY <2>4, <3>1, <3>2
    <3>4. [LoadExt(w, ext[l]) EXCEPT !.file.posInExtBlk = 0] = WithExt(w, e, 0)
      BY <1>1, <1>3, LoadsExt DEF e
    <3> QED
      BY <2>5, <3>3, <3>4
  <2>6. CASE i # 0
    <3>1. k > m
      BY <1>2, <2>3, <2>6
    <3>2. /\ w.file.currentExt = e /\ w.file.posInExtBlk = i
      BY <2>1, <2>2, <2>6, <3>1 DEF e
    <3>3. ~(k = MaxDatablk \/ w.file.posInExtBlk = MaxDatablk)
      BY <1>2, <1>3, <3>1, <3>2 DEF MaxDatablk, m
    <3>4. x = w
      BY <2>4, <3>3
    <3>5. WithExt(w, w.file.currentExt, w.file.posInExtBlk) = w
      <4>1. w.file = [w.file EXCEPT !.currentExt = w.file.currentExt,
                                    !.posInExtBlk = w.file.posInExtBlk]
        BY <1>1, WorldParts DEF FileSet
      <4>2. w = [file |-> w.file, disk |-> w.disk, free |-> w.free, header |-> w.header,
                 ok |-> w.ok]
        BY <1>1, WorldParts
      <4> QED
        BY <4>1, <4>2, Zenon DEF WithExt
    <3> HIDE DEF x
    <3> QED
      BY <3>2, <3>4, <3>5
  <2> QED
    BY <2>5, <2>6
<1>6. /\ x \in WorldSet(vol) /\ x.ok = w.ok /\ x.disk = w.disk /\ SameDisk(w, x)
      /\ x.file.currentExt = e /\ x.file.posInExtBlk = i
  <2> HIDE DEF x
  <2>1. i \in 0..m /\ e \in ExtSet(vol) \cup {NoExt}
    BY <1>2, <1>3
  <2>2. ExtLoaded(vol, w, e, i, x)
    BY <1>1, <1>5, <2>1, WithExtIs DEF m
  <2> QED
    BY <2>2 DEF ExtLoaded
<1>7. counted = WithExt(w, e, i + 1)
  <2>1. [WithExt(w, e, i) EXCEPT !.file.posInExtBlk = @ + 1] = WithExt(w, e, i + 1)
    BY <1>1, CountsEntry, Zenon
  <2> HIDE DEF x
  <2> QED
    BY <1>5, <2>1, Zenon
<1> HIDE DEF x, counted
<1>8. i + 1 \in 0..m /\ e \in ExtSet(vol) \cup {NoExt}
  BY <1>2, <1>3
<1>9. /\ counted \in WorldSet(vol) /\ counted.ok = w.ok
      /\ counted.file.currentExt = e /\ counted.file.posInExtBlk = i + 1
      /\ AtBlock(counted, e, i + 1, s, k) = AtBlock(w, e, i + 1, s, k)
  <2>1. ExtLoaded(vol, w, e, i + 1, counted)
    BY <1>1, <1>7, <1>8, WithExtIs DEF m
  <2> HIDE DEF s
  <2> QED
    BY <2>1 DEF ExtLoaded
<1>10. r = AtBlock(w, e, i + 1, s, k)
  <2> DEFINE t == IF k = 0 THEN w.file.fileHdr.firstData
                  ELSE IF OFS THEN w.file.currentData.nextData
                  ELSE IF k < MaxDatablk THEN w.file.fileHdr.dataBlocks[k]
                  ELSE x.file.currentExt.dataBlocks[x.file.posInExtBlk]
  <2>1. ~OFS /\ k >= MaxDatablk /\ ~(k < MaxDatablk)
    BY <1>2 DEF OFS, MaxDatablk, m
  <2>2. r = IF ~x.ok THEN x ELSE IF t = 0 THEN Fails(counted)
            ELSE [LoadData(counted, t) EXCEPT !.file.nDataBlock = k + 1]
    BY <2>1, Zenon DEF adfFileReadNextBlock, x, counted
  <2>3. t = s
    BY <1>2, <1>3, <1>6, <2>1
  <2>4. [LoadData(counted, s) EXCEPT !.file.nDataBlock = k + 1]
        = AtBlock(counted, counted.file.currentExt, counted.file.posInExtBlk, s, k)
    BY <1>9, LoadsData
  <2> HIDE DEF t, s, r
  <2> QED
    BY <1>1, <1>4, <1>6, <1>9, <2>2, <2>3, <2>4
<1>11. ExtListing(vol, w, n, ext, e, i + 1, k)
  <2>1. w.disk[e.headerKey] = e
    BY <1>3 DEF e
  <2>2. l # 0 /\ \E j \in 1..LastList(vol, n) : e.headerKey = ext[j]
    BY <1>3
  <2>3. e # NoExt
    BY <1>3 DEF ExtSet, NoExt
  <2> QED
    BY <1>3, <1>8, <2>1, <2>2, <2>3 DEF ExtListing, m, l, i
<1> HIDE DEF r
<1>12. BlockRead(vol, w, r, data, ext, bytes, k)
  BY <1>10, <1>11, AtBlockRead
<1> QED
  BY <1>12 DEF r

\* that is, wherever the block is listed.
LEMMA NextBlockIs ==
  ASSUME vol \in Volumes, NEW w, NEW data, NEW ext, NEW bytes, IsRead(vol, w, data, ext, bytes),
         SmallOfs(vol), NEW n, n = Count(w.header.byteSize), NEW k \in 0..(n - 1),
         k = w.file.nDataBlock, LeadsTo(vol, w, data, k)
  PROVE  BlockRead(vol, w, adfFileReadNextBlock(w), data, ext, bytes, k)
BY NextInHeader, NextInExt

\* Loading the data block that is counted next.
LEMMA LoadsNext ==
  ASSUME NEW v \in Volumes, NEW w \in WorldSet(v), NEW s, NEW k, w.file.nDataBlock = k
  PROVE  [LoadData(w, s) EXCEPT !.file.nDataBlock = @ + 1]
         = AtBlock(w, w.file.currentExt, w.file.posInExtBlk, s, k)
<1> DEFINE c == AsData(w.disk[s])
           g1 == [w.file EXCEPT !.currentData = c]
           g2 == [g1 EXCEPT !.curDataPtr = s]
           w1 == [w EXCEPT !.file = g1]
           w2 == [w1 EXCEPT !.file = g2]
<1>1. /\ w = [file |-> w.file, disk |-> w.disk, free |-> w.free, header |-> w.header, ok |-> w.ok]
      /\ w.file \in FileSet(v)
  BY WorldParts
<1>2. w1.file = g1 /\ w2.file = g2
  BY <1>1
<1>3. LoadData(w, s) = w2
  <2>1. LoadData(w, s) = [w1 EXCEPT !.file.curDataPtr = s]
    BY Zenon DEF LoadData
  <2> HIDE DEF g1, w1
  <2> QED
    BY <1>2, <2>1
<1>4. LoadData(w, s).file.nDataBlock = k
  <2>1. g2.nDataBlock = w.file.nDataBlock
    BY <1>1 DEF FileSet
  <2> HIDE DEF g2, w2
  <2> QED
    BY <1>2, <1>3, <2>1
<1>5. [LoadData(w, s) EXCEPT !.file.nDataBlock = @ + 1]
      = [LoadData(w, s) EXCEPT !.file.nDataBlock = k + 1]
  BY <1>4, Zenon
<1>6. [LoadData(w, s) EXCEPT !.file.nDataBlock = k + 1]
      = AtBlock(w, w.file.currentExt, w.file.posInExtBlk, s, k)
  BY LoadsData
<1> QED
  BY <1>5, <1>6, Zenon

-----------------------------------------------------------------------------
(* Seeking *)

\* A file that has moved to a position, of which the data block was read.
Found(v, w, r, data, ext, bytes, pos) ==
  /\ UpToDate(v, r, data, ext, bytes) /\ SameDisk(w, r)
  /\ r.file.pos = pos /\ r.file.posInDataBlk < BlockSize
  /\ r.file.changed = w.file.changed
  /\ r.file.currentExt # NoExt =>
       w.file.currentExt # NoExt \/ ListOf(v, pos \div BlockSize) # 0

\* adfFileSeekStart_ finds the first data block.
LEMMA SeekStartIs ==
  ASSUME vol \in Volumes, NEW w, NEW data, NEW ext, NEW bytes, IsRead(vol, w, data, ext, bytes),
         SmallOfs(vol)
  PROVE  Found(vol, w, adfFileSeekStart(w), data, ext, bytes, 0)
<1> DEFINE n == Count(w.header.byteSize)
           g == [w.file EXCEPT !.pos = 0, !.posInExtBlk = 0, !.posInDataBlk = 0,
                               !.nDataBlock = 0, !.curDataPtr = 0]
           start == [w EXCEPT !.file.pos = 0, !.file.posInExtBlk = 0, !.file.posInDataBlk = 0,
                              !.file.nDataBlock = 0, !.file.curDataPtr = 0]
           next == adfFileReadNextBlock(start)
           r == adfFileSeekStart(w)
<1>1. /\ w \in WorldSet(vol) /\ w.ok /\ w.header = w.file.fileHdr /\ n \in Nat
      /\ w.header.byteSize \in Nat /\ (n = 0 <=> w.header.byteSize = 0)
      /\ Owns(vol, w.free, n, data, ext)
  BY ReadParts, VolumeParts
<1>2. /\ w = [file |-> w.file, disk |-> w.disk, free |-> w.free, header |-> w.header, ok |-> w.ok]
      /\ w.file \in FileSet(vol) /\ w.disk \in DiskSet(vol) /\ w.free \in SUBSET vol.sectors
      /\ w.header \in HeaderSet(vol) /\ w.ok \in BOOLEAN
  BY <1>1, WorldParts
<1>3. BlockSize \in Nat \ {0} /\ vol.maxSize \in Nat /\ vol.maxDatablk \in Nat \ {0}
  BY VolumeParts
<1>4. /\ g \in FileSet(vol) /\ g.fileHdr = w.file.fileHdr /\ g.currentExt = w.file.currentExt
      /\ g.curDataPtr = 0 /\ g.pos = 0 /\ g.posInDataBlk = 0 /\ g.nDataBlock = 0
      /\ g.changed = w.file.changed
  <2>1. /\ 0 \in 0..vol.maxSize /\ 0 \in 0..vol.maxDatablk /\ 0 \in 0..BlockSize /\ 0 \in Nat
        /\ 0 \in vol.sectors \cup {0}
    BY <1>3
  <2> QED
    BY <1>2, <2>1 DEF FileSet
<1>5. start = InFile(w, g)
  <2> DEFINE g1 == [w.file EXCEPT !.pos = 0]
             g2 == [g1 EXCEPT !.posInExtBlk = 0]
             g3 == [g2 EXCEPT !.posInDataBlk = 0]
             g4 == [g3 EXCEPT !.nDataBlock = 0]
             g5 == [g4 EXCEPT !.curDataPtr = 0]
             w1 == [w EXCEPT !.file = g1]
             w2 == [w1 EXCEPT !.file = [w1.file EXCEPT !.posInExtBlk = 0]]
             w3 == [w2 EXCEPT !.file = [w2.file EXCEPT !.posInDataBlk = 0]]
             w4 == [w3 EXCEPT !.file = [w3.file EXCEPT !.nDataBlock = 0]]
             w5 == [w4 EXCEPT !.file = [w4.file EXCEPT !.curDataPtr = 0]]
  <2>1. g5 = g /\ start = w5
    OBVIOUS
  <2>2. w = InFile(w, w.file)
    BY <1>2 DEF InFile
  <2> HIDE DEF start, g, g1
  <2>3. w1 = InFile(w, g1)
    BY <2>2, InFileIs
  <2> HIDE DEF w1
  <2>4. w2 = InFile(w, g2)
    BY <2>3, InFileIs
  <2> HIDE DEF w2, g2
  <2>5. w3 = InFile(w, g3)
    BY <2>4, InFileIs
  <2> HIDE DEF w3, g3
  <2>6. w4 = InFile(w, g4)
    BY <2>5, InFileIs
  <2> HIDE DEF w4, g4
  <2>7. w5 = InFile(w, g5)
    BY <2>6, InFileIs
  <2> QED
    BY <2>1, <2>7
<1> HIDE DEF g, start, n
<1>6. /\ start \in WorldSet(vol) /\ start.ok = w.ok /\ start.file = g /\ SameDisk(w, start)
      /\ start.disk = w.disk /\ start.header = w.header
  <2>1. Moves(vol, w, g, start)
    BY <1>1, <1>4, <1>5, InFileKeeps
  <2> QED
    BY <2>1 DEF Moves
<1>7. IsRead(vol, start, data, ext, bytes)
  <2>1. /\ start.file.currentExt # NoExt =>
             start.disk[start.file.currentExt.headerKey] = start.file.currentExt
        /\ ExtPlaced(vol, w.file, n, ext)
    BY <1>4, <1>6 DEF IsRead, HeaderKept, n
  <2>2. ExtPlaced(vol, start.file, n, ext)
    BY <1>3, <1>4, <1>6, <2>1 DEF ExtPlaced
  <2> QED
    BY <1>1, <1>6, <2>1, <2>2, ReadAfter DEF n
<1>8. CASE n = 0
  <2>1. r = start
    BY <1>1, <1>8, Zenon DEF adfFileSeekStart, Size, start
  <2>2. DataPlaced(start.file, n, data)
    BY <1>1, <1>4, <1>6, <1>8 DEF DataPlaced
  <2>3. BytesKept(start) /\ LinkKept(start)
    BY <1>4, <1>6 DEF BytesKept, LinkKept
  <2>4. UpToDate(vol, start, data, ext, bytes)
    BY <1>6, <1>7, <2>2, <2>3 DEF UpToDate, n
  <2> HIDE DEF r
  <2>5. Found(vol, w, start, data, ext, bytes, 0)
    BY <1>3, <1>4, <1>6, <2>4 DEF Found
  <2> QED
    BY <2>1, <2>5 DEF r
<1>9. CASE n # 0
  <2>1. 0 \in 0..(n - 1) /\ n = Count(start.header.byteSize) /\ start.file.nDataBlock = 0
    BY <1>1, <1>4, <1>6, <1>9 DEF n
  <2>2. LeadsTo(vol, start, data, 0)
    BY DEF LeadsTo
  <2>3. BlockRead(vol, start, next, data, ext, bytes, 0)
    BY <1>7, <2>1, <2>2, NextBlockIs
  <2>4. next.ok
    BY <2>3 DEF BlockRead, IsRead
  <2>5. r = next
    BY <1>1, <1>9, <2>4, Zenon DEF adfFileSeekStart, Size, start
  <2> HIDE DEF next
  <2>6. /\ IsRead(vol, next, data, ext, bytes) /\ BytesKept(next) /\ LinkKept(next)
        /\ SameDisk(start, next) /\ next.header = w.header
        /\ next.file.nDataBlock = 1 /\ next.file.curDataPtr = data[0]
        /\ next.file.pos = 0 /\ next.file.posInDataBlk = 0 /\ next.file.changed = w.file.changed
        /\ next.file.fileHdr = w.file.fileHdr
    BY <1>4, <1>6, <2>3 DEF BlockRead, SameDisk
  <2>7. DataPlaced(next.file, n, data)
    <3>1. BlockSize * (1 - 1) + 0 = 0
      BY <1>3
    <3> QED
      BY <1>1, <1>9, <2>6, <3>1 DEF DataPlaced
  <2>8. UpToDate(vol, next, data, ext, bytes)
    BY <2>6, <2>7 DEF UpToDate, n
  <2>9. next.file.currentExt # NoExt => w.file.currentExt # NoExt
    <3>1. ListOf(vol, 0) = 0
      BY <1>3, PlaceOf
    <3> QED
      BY <1>4, <1>6, <2>3, <3>1 DEF BlockRead
  <2>10. SameDisk(w, next)
    BY <1>6, <2>6 DEF SameDisk
  <2>11. Found(vol, w, next, data, ext, bytes, 0)
    BY <1>3, <2>6, <2>8, <2>9, <2>10 DEF Found
  <2> QED
    BY <2>5, <2>11
<1> QED
  BY <1>8, <1>9

\* The counters adfFileSeekExt_ sets before it reads.
Counting(w, pos, i, k) ==
  [w EXCEPT !.file.pos = pos, !.file.posInExtBlk = i, !.file.posInDataBlk = pos % BlockSize,
            !.file.nDataBlock = k]

CountsTo(v, w, q, i, k, r) ==
  /\ r \in WorldSet(v) /\ r.ok = w.ok /\ r.disk = w.disk /\ SameDisk(w, r)
  /\ r.file.nDataBlock = k /\ r.file.posInExtBlk = i /\ r.file.currentExt = w.file.currentExt
  /\ \A e, p, s : AtBlock(r, e, p, s, k) = AtBlock(q, e, p, s, k)

\* Counting reads no block.
LEMMA CountingIs ==
  ASSUME NEW v \in Volumes, NEW w \in WorldSet(v), NEW pos \in 0..v.maxSize,
         NEW i \in 0..v.maxDatablk, NEW k \in Nat, NEW q, q = Placed(w, pos, pos % BlockSize),
         NEW r, r = Counting(w, pos, i, k)
  PROVE  CountsTo(v, w, q, i, k, r)
<1> DEFINE j == pos % BlockSize
           g == [w.file EXCEPT !.pos = pos, !.posInExtBlk = i, !.posInDataBlk = j,
                               !.nDataBlock = k]
<1>1. /\ w = InFile(w, w.file) /\ w.file \in FileSet(v)
  BY WorldParts DEF InFile
<1>2. r = InFile(w, g)
  <2> DEFINE g1 == [w.file EXCEPT !.pos = pos]
             g2 == [g1 EXCEPT !.posInExtBlk = i]
             g3 == [g2 EXCEPT !.posInDataBlk = j]
             g4 == [g3 EXCEPT !.nDataBlock = k]
             w1 == [w EXCEPT !.file = g1]
             w2 == [w1 EXCEPT !.file = [w1.file EXCEPT !.posInExtBlk = i]]
             w3 == [w2 EXCEPT !.file = [w2.file EXCEPT !.posInDataBlk = j]]
             w4 == [w3 EXCEPT !.file = [w3.file EXCEPT !.nDataBlock = k]]
  <2>1. g4 = g
    OBVIOUS
  <2>2. r = w4
    BY Zenon DEF Counting
  <2> HIDE DEF g, g1, j
  <2>3. w1 = InFile(w, g1)
    BY <1>1, InFileIs
  <2> HIDE DEF w1
  <2>4. w2 = InFile(w, g2)
    BY <2>3, InFileIs
  <2> HIDE DEF w2, g2
  <2>5. w3 = InFile(w, g3)
    BY <2>4, InFileIs
  <2> HIDE DEF w3, g3
  <2>6. w4 = InFile(w, g4)
    BY <2>5, InFileIs
  <2> QED
    BY <2>1, <2>2, <2>6
<1>3. j \in 0..(BlockSize - 1) /\ j \in 0..BlockSize
  BY VolumeParts, DivMod
<1> HIDE DEF j
<1>4. /\ g \in FileSet(v) /\ g.fileHdr = w.file.fileHdr /\ g.currentExt = w.file.currentExt
      /\ g.nDataBlock = k /\ g.posInExtBlk = i
  BY <1>1, <1>3 DEF FileSet
<1>5. Moves(v, w, g, r)
  <2> HIDE DEF g
  <2> QED
    BY <1>2, <1>4, InFileKeeps
<1>6. /\ q.file = [w.file EXCEPT !.pos = pos, !.posInDataBlk = j] /\ SameDisk(w, q)
      /\ q.ok = w.ok
  <2>1. Moves(v, w, PlacedFile(w, pos, j), Placed(w, pos, j))
    BY <1>3, PlacedIs
  <2>2. q = Placed(w, pos, j)
    BY DEF j
  <2> QED
    BY <2>1, <2>2, Zenon DEF Moves, PlacedFile
<1>7. ASSUME NEW e, NEW p, NEW s
      PROVE  AtBlock(r, e, p, s, k) = AtBlock(q, e, p, s, k)
  <2> DEFINE c == AsData(w.disk[s])
  <2>1. [q.file EXCEPT !.currentExt = e, !.posInExtBlk = p, !.currentData = c,
                       !.curDataPtr = s, !.nDataBlock = k + 1]
        = [g EXCEPT !.currentExt = e, !.posInExtBlk = p, !.currentData = c,
                    !.curDataPtr = s, !.nDataBlock = k + 1]
    <3> HIDE DEF c
    <3> QED
      BY <1>1, <1>6 DEF FileSet
  <2>2. /\ r.disk = w.disk /\ r.file = g /\ r.free = w.free /\ r.header = w.header /\ r.ok = w.ok
        /\ q.disk = w.disk /\ q.free = w.free /\ q.header = w.header /\ q.ok = w.ok
    BY <1>5, <1>6 DEF Moves, SameDisk
  <2> HIDE DEF g
  <2> QED
    BY <2>1, <2>2, Zenon DEF AtBlock
<1> HIDE DEF g
<1> QED
  BY <1>4, <1>5, <1>7 DEF Moves, CountsTo

\* adfFileSeekExt_ reads the block of a position inside the file: it is listed
\* in the header, or in an extension block that is found and read first.
LEMMA SeekReads ==
  ASSUME vol \in Volumes, NEW w, NEW data, NEW ext, NEW bytes, IsRead(vol, w, data, ext, bytes),
         NEW pos \in Nat, pos < w.file.fileHdr.byteSize,
         NEW n, n = Count(w.header.byteSize), NEW k, k = pos \div BlockSize,
         NEW q, q = Placed(w, pos, pos % BlockSize)
  PROVE  \E e, p : /\ ExtListing(vol, w, n, ext, e, p, k)
                   /\ adfFileSeekExt(w, pos) = AtBlock(q, e, p, data[k], k)
<1> DEFINE at == adfFilePos2DataBlock(pos)
           m == vol.maxDatablk
           moved == Counting(w, pos, at.posInExtBlk, k)
           x == IF at.extBlock = -1 THEN moved ELSE ReadExtBlockN(moved, at.extBlock)
           found == IF at.extBlock = -1 THEN x ELSE [x EXCEPT !.file.posInExtBlk = @ + 1]
           s == IF at.extBlock = -1 THEN x.file.fileHdr.dataBlocks[k]
                                    ELSE x.file.currentExt.dataBlocks[at.posInExtBlk]
           r == adfFileSeekExt(w, pos)
<1>1. /\ w \in WorldSet(vol) /\ w.ok /\ w.header = w.file.fileHdr /\ n \in Nat
      /\ Owns(vol, w.free, n, data, ext) /\ ListedOnDisk(vol, w, n, data, ext)
      /\ ext \in [1..LastList(vol, n) -> vol.sectors]
      /\ Linked(vol, w.file.fileHdr, w.disk, n, ext) /\ Keyed(vol, w.disk, n, ext)
      /\ w.header.byteSize \in 0..vol.maxSize
  BY ReadParts
<1>2. /\ k \in 0..(n - 1) /\ k \in Nat /\ pos \in 0..vol.maxSize /\ m \in Nat \ {0}
      /\ pos % BlockSize \in 0..BlockSize
  <2>1. w.header.byteSize \in Nat /\ BlockSize \in Nat \ {0} /\ vol.maxSize \in Nat /\ m \in Nat \ {0}
    BY <1>1, VolumeParts
  <2>2. k \in 0..(n - 1) /\ pos % BlockSize \in 0..(BlockSize - 1)
    BY <1>1, <2>1, InsideFile
  <2> QED
    BY <1>1, <2>1, <2>2
<1>3. /\ at.curDataN = k /\ at.posInDataBlk = pos % BlockSize
      /\ k < m => at.extBlock = -1 /\ at.posInExtBlk = 0
      /\ k >= m => at.extBlock = ListOf(vol, k) - 1 /\ at.posInExtBlk = EntryOf(vol, k)
  BY PosIs DEF MaxDatablk
<1>4. at.posInExtBlk \in 0..m
  BY <1>2, <1>3, PlaceOf
<1> HIDE DEF at
<1>5. /\ moved \in WorldSet(vol) /\ moved.ok = w.ok /\ moved.disk = w.disk /\ SameDisk(w, moved)
      /\ moved.file.nDataBlock = k /\ moved.file.posInExtBlk = at.posInExtBlk
      /\ moved.file.currentExt = w.file.currentExt
      /\ \A e, p, t : AtBlock(moved, e, p, t, k) = AtBlock(q, e, p, t, k)
  <2> DEFINE i == at.posInExtBlk
  <2> HIDE DEF moved
  <2>1. i \in 0..vol.maxDatablk
    BY <1>4
  <2>2. moved = Counting(w, pos, i, k)
    BY DEF moved
  <2> HIDE DEF i
  <2>3. CountsTo(vol, w, q, i, k, moved)
    BY <1>1, <1>2, <2>1, <2>2, CountingIs
  <2> QED
    BY <2>3 DEF CountsTo, i
<1>6. r = IF ~x.ok THEN FailsWithoutData(x) ELSE IF s = 0 THEN FailsWithoutData(found)
          ELSE [LoadData(found, s) EXCEPT !.file.nDataBlock = @ + 1]
  <2> DEFINE start == [w EXCEPT !.file.pos = pos, !.file.posInExtBlk = at.posInExtBlk,
                                !.file.posInDataBlk = at.posInDataBlk,
                                !.file.nDataBlock = at.curDataN]
             X(z) == IF at.extBlock = -1 THEN z ELSE ReadExtBlockN(z, at.extBlock)
             F(z) == IF at.extBlock = -1 THEN X(z) ELSE [X(z) EXCEPT !.file.posInExtBlk = @ + 1]
             S(z, b) == IF at.extBlock = -1 THEN X(z).file.fileHdr.dataBlocks[b]
                                            ELSE X(z).file.currentExt.dataBlocks[at.posInExtBlk]
             R(z, b) == IF ~X(z).ok THEN FailsWithoutData(X(z))
                        ELSE IF S(z, b) = 0 THEN FailsWithoutData(F(z))
                        ELSE [LoadData(F(z), S(z, b)) EXCEPT !.file.nDataBlock = @ + 1]
  <2>1. r = R(start, at.curDataN)
    BY Zenon DEF adfFileSeekExt, at
  <2>2. start = moved
    BY <1>3 DEF Counting
  <2> HIDE DEF R, start, moved, r
  <2>3. r = R(moved, k)
    BY <1>3, <2>1, <2>2
  <2> QED
    BY <2>3, Zenon DEF R
<1>7. data[k] # 0
  BY <1>1, <1>2, Sector
<1>8. CASE k < m
  <2>1. x = moved /\ found = moved /\ s = data[k]
    <3>1. w.file.fileHdr.dataBlocks[k] = data[k]
      BY <1>1, <1>2, <1>8 DEF ListedOnDisk
    <3>2. moved.file.fileHdr = w.file.fileHdr
      BY <1>5 DEF SameDisk
    <3> HIDE DEF moved
    <3> QED
      BY <1>3, <1>8, <3>1, <3>2
  <2> HIDE DEF x, found, s, r
  <2>2. r = [LoadData(moved, data[k]) EXCEPT !.file.nDataBlock = @ + 1]
    BY <1>1, <1>5, <1>6, <1>7, <2>1
  <2> HIDE DEF moved
  <2>3. r = AtBlock(moved, moved.file.currentExt, moved.file.posInExtBlk, data[k], k)
    BY <1>5, <2>2, LoadsNext
  <2>4. r = AtBlock(q, w.file.currentExt, 0, data[k], k)
    BY <1>3, <1>5, <1>8, <2>3
  <2>5. ExtListing(vol, w, n, ext, w.file.currentExt, 0, k)
    <3>1. ExtListing(vol, w, n, ext, w.file.currentExt, w.file.posInExtBlk, k)
      BY <1>2, <1>8, ExtInMemory
    <3>2. ~(k >= m) /\ 0 \in 0..m
      BY <1>2, <1>8
    <3> QED
      BY <3>1, <3>2 DEF ExtListing, m
  <2> QED
    BY <2>4, <2>5 DEF r
<1>9. CASE ~(k < m)
  <2> DEFINE l == ListOf(vol, k)
             i == EntryOf(vol, k)
             e == w.disk[ext[l]]
  <2>1. /\ l \in 1..LastList(vol, n) /\ i \in 0..(m - 1) /\ e.dataBlocks[i] = data[k]
        /\ ext[l] \in vol.sectors /\ e \in ExtSet(vol) /\ e.headerKey = ext[l]
        /\ LastList(vol, n) \in Nat
    BY <1>1, <1>2, <1>9, PlaceOf, ListInFile DEF ListedOnDisk
  <2>2. k >= m /\ at.extBlock = l - 1 /\ at.extBlock # -1 /\ at.posInExtBlk = i
    BY <1>2, <1>3, <1>9, <2>1
  <2> HIDE DEF l, i
  <2>3. x = LoadExt(moved, ext[l])
    <3>1. adfFileSize2Extblocks(Size(moved)) = LastList(vol, n)
      <4>1. Size(moved) = w.header.byteSize /\ w.header.byteSize \in Nat
        BY <1>1, <1>5, VolumeParts DEF Size, SameDisk
      <4> QED
        BY <4>1, ExtCountIs
    <3>2. ExtSector(moved, l - 1) = ext[l]
      <4>1. l - 1 \in 0..LastList(vol, n) /\ l - 1 < LastList(vol, n) /\ (l - 1) + 1 = l
        BY <2>1
      <4>2. moved.file.fileHdr = w.file.fileHdr
        BY <1>5 DEF SameDisk
      <4> HIDE DEF moved
      <4>3. /\ Linked(vol, moved.file.fileHdr, moved.disk, n, ext)
            /\ Keyed(vol, moved.disk, n, ext)
        BY <1>1, <1>5, <4>2
      <4>4. ExtSector(moved, l - 1) = IF l - 1 < LastList(vol, n) THEN ext[(l - 1) + 1] ELSE 0
        BY <1>1, <4>1, <4>3, ExtSectorIs
      <4> QED
        BY <4>1, <4>4
    <3>3. l - 1 < LastList(vol, n)
      BY <2>1
    <3> HIDE DEF moved
    <3>4. x = ReadExtBlockN(moved, l - 1)
      BY <2>2
    <3> QED
      BY <3>1, <3>2, <3>3, <3>4 DEF ReadExtBlockN
  <2> HIDE DEF moved
  <2>4. x = WithExt(moved, e, i)
    BY <1>5, <2>1, <2>2, <2>3, LoadsExt
  <2> HIDE DEF x, e
  <2>5. found = WithExt(moved, e, i + 1)
    <3>1. [WithExt(moved, e, i) EXCEPT !.file.posInExtBlk = @ + 1] = WithExt(moved, e, i + 1)
      BY <1>5, CountsEntry, Zenon
    <3> QED
      BY <2>2, <2>4, <3>1, Zenon
  <2> HIDE DEF found
  <2>6. i \in 0..m /\ i + 1 \in 0..m /\ e \in ExtSet(vol) \cup {NoExt}
    BY <1>2, <2>1
  <2>7. ExtLoaded(vol, moved, e, i, x) /\ ExtLoaded(vol, moved, e, i + 1, found)
    BY <1>5, <2>4, <2>5, <2>6, WithExtIs
  <2>8. s = data[k] /\ x.ok
    BY <1>1, <1>5, <2>1, <2>2, <2>7 DEF ExtLoaded
  <2> HIDE DEF s
  <2>9. r = [LoadData(found, data[k]) EXCEPT !.file.nDataBlock = @ + 1]
    BY <1>6, <1>7, <2>8
  <2>10. found.file.nDataBlock = k
    <3>1. found.file = [moved.file EXCEPT !.currentExt = e, !.posInExtBlk = i + 1]
      BY <2>5 DEF WithExt
    <3>2. moved.file \in FileSet(vol)
      BY <1>5, WorldParts
    <3> QED
      BY <1>5, <3>1, <3>2 DEF FileSet
  <2>11. found \in WorldSet(vol)
    BY <2>7 DEF ExtLoaded
  <2> HIDE DEF r
  <2>12. r = AtBlock(found, found.file.currentExt, found.file.posInExtBlk, data[k], k)
    BY <2>9, <2>10, <2>11, LoadsNext
  <2>13. r = AtBlock(q, e, i + 1, data[k], k)
    BY <1>5, <2>7, <2>12 DEF ExtLoaded
  <2>14. ExtListing(vol, w, n, ext, e, i + 1, k)
    <3>1. l # 0 /\ \E j \in 1..LastList(vol, n) : e.headerKey = ext[j]
      BY <2>1
    <3>2. e # NoExt
      BY <2>1 DEF ExtSet, NoExt
    <3>3. w.disk[e.headerKey] = e
      BY <2>1 DEF e
    <3> QED
      BY <2>1, <2>6, <3>1, <3>2, <3>3 DEF ExtListing, m, l, i
  <2> QED
    BY <2>13, <2>14 DEF r
<1> QED
  BY <1>8, <1>9

\* Both ways to find the block of a position inside the file.
SeekBlock(w, pos) == IF pos = 0 THEN adfFileSeekStart(w) ELSE adfFileSeekExt(w, pos)

\* Either of them reads the block of the position.
LEMMA SeekBlockIs ==
  ASSUME vol \in Volumes, NEW w, NEW data, NEW ext, NEW bytes, IsRead(vol, w, data, ext, bytes),
         SmallOfs(vol), NEW pos \in Nat, pos < w.file.fileHdr.byteSize \/ pos = 0
  PROVE  Found(vol, w, SeekBlock(w, pos), data, ext, bytes, pos)
<1>1. CASE pos = 0
  BY <1>1, SeekStartIs DEF SeekBlock
<1>2. CASE pos # 0
  <2> DEFINE n == Count(w.header.byteSize)
             k == pos \div BlockSize
             j == pos % BlockSize
             q == Placed(w, pos, j)
             r == adfFileSeekExt(w, pos)
  <2>1. /\ w \in WorldSet(vol) /\ w.ok /\ w.header = w.file.fileHdr /\ n \in Nat
        /\ w.header.byteSize \in 0..vol.maxSize
    BY ReadParts
  <2>2. /\ BlockSize \in Nat \ {0} /\ vol.maxSize \in Nat /\ vol.maxDatablk \in Nat \ {0}
        /\ w.header.byteSize \in Nat /\ pos \in 0..vol.maxSize /\ pos < w.header.byteSize
    BY <1>2, <2>1, VolumeParts
  <2>3. /\ k \in 0..(n - 1) /\ k \in Nat /\ j \in 0..(BlockSize - 1) /\ j \in 0..BlockSize
        /\ pos = BlockSize * k + j
    <3>1. k \in 0..(n - 1) /\ j \in 0..(BlockSize - 1) /\ pos = BlockSize * k + j
      BY <2>2, InsideFile
    <3> HIDE DEF n, k, j
    <3> QED
      BY <2>1, <2>2, <3>1
  <2>4. Moves(vol, w, PlacedFile(w, pos, j), q)
    BY <2>1, <2>2, <2>3, PlacedIs
  <2>5. w.file \in FileSet(vol)
    BY <2>1, WorldParts
  <2> HIDE DEF n, k, j, q
  <2>6. /\ q \in WorldSet(vol) /\ q.ok /\ SameDisk(w, q) /\ q.disk = w.disk /\ q.header = w.header
        /\ q.file.currentExt = w.file.currentExt /\ q.file.posInExtBlk = w.file.posInExtBlk
        /\ q.file.nDataBlock = w.file.nDataBlock /\ q.file.pos = pos /\ q.file.posInDataBlk = j
        /\ q.file.changed = w.file.changed
    BY <2>1, <2>4, <2>5 DEF Moves, PlacedFile, FileSet
  <2>7. IsRead(vol, q, data, ext, bytes)
    <3>1. ExtPlaced(vol, w.file, n, ext) /\ HeaderKept(w)
      BY DEF IsRead, n
    <3>2. ExtPlaced(vol, q.file, n, ext)
      BY <2>6, <3>1 DEF ExtPlaced
    <3>3. q.file.currentExt # NoExt => q.disk[q.file.currentExt.headerKey] = q.file.currentExt
      BY <2>6, <3>1 DEF HeaderKept
    <3> QED
      BY <2>6, <3>2, <3>3, ReadAfter DEF n
  <2>8. PICK e, p : ExtListing(vol, w, n, ext, e, p, k) /\ r = AtBlock(q, e, p, data[k], k)
    BY <2>1, <2>2, SeekReads DEF n, k, q, j
  <2>9. ExtListing(vol, q, n, ext, e, p, k)
    BY <2>6, <2>8 DEF ExtListing
  <2>10. BlockRead(vol, q, r, data, ext, bytes, k)
    <3> HIDE DEF r
    <3>1. n = Count(q.header.byteSize)
      BY <2>6 DEF n
    <3> QED
      BY <2>3, <2>7, <2>8, <2>9, <3>1, AtBlockRead
  <2> HIDE DEF r
  <2>11. /\ IsRead(vol, r, data, ext, bytes) /\ BytesKept(r) /\ LinkKept(r)
         /\ SameDisk(w, r) /\ r.header = w.header /\ r.file.fileHdr = w.file.fileHdr
         /\ r.file.nDataBlock = k + 1 /\ r.file.curDataPtr = data[k]
         /\ r.file.pos = pos /\ r.file.posInDataBlk = j /\ r.file.changed = w.file.changed
    BY <2>6, <2>10 DEF BlockRead, SameDisk
  <2>12. DataPlaced(r.file, n, data)
    <3>1. (k + 1) - 1 = k /\ k + 1 <= n /\ n > 0 /\ k + 1 >= 1
      BY <2>1, <2>3
    <3>2. pos <= r.file.fileHdr.byteSize
      BY <2>1, <2>2, <2>11
    <3> QED
      BY <2>1, <2>3, <2>11, <3>1, <3>2 DEF DataPlaced
  <2>13. UpToDate(vol, r, data, ext, bytes)
    BY <2>11, <2>12 DEF UpToDate, n
  <2>14. r.file.currentExt # NoExt => w.file.currentExt # NoExt \/ ListOf(vol, k) # 0
    BY <2>6, <2>10 DEF BlockRead
  <2>15. Found(vol, w, r, data, ext, bytes, pos)
    BY <2>2, <2>3, <2>11, <2>13, <2>14 DEF Found, k
  <2> QED
    BY <1>2, <2>15 DEF r, SeekBlock
<1> QED
  BY <1>1, <1>2

\* A move within the data block in memory changes nothing else.
LEMMA FileAfter ==
  ASSUME NEW v \in Volumes, NEW w, NEW data, NEW ext, NEW bytes, IsFile(v, w, data, ext, bytes),
         NEW r, r \in WorldSet(v), r.ok, SameInMemory(w, r), r.file.changed = w.file.changed,
         DataPlaced(r.file, Count(w.file.fileHdr.byteSize), data)
  PROVE  IsFile(v, r, data, ext, bytes)
<1> DEFINE n == Count(w.file.fileHdr.byteSize)
<1>1. /\ FileIs(v, w.file.fileHdr, ExtsNow(v, w.file, w.disk), DataNow(v, w.file, w.disk),
                w.free, data, ext, bytes)
      /\ ExtPlaced(v, w.file, n, ext) /\ Marked(w, n)
  BY DEF IsFile
<1>2. /\ r.disk = w.disk /\ r.free = w.free /\ r.header = w.header
      /\ r.file.fileHdr = w.file.fileHdr
      /\ r.file.currentExt = w.file.currentExt /\ r.file.posInExtBlk = w.file.posInExtBlk
      /\ r.file.curDataPtr = w.file.curDataPtr /\ r.file.currentData = w.file.currentData
      /\ r.file.nDataBlock = w.file.nDataBlock
  BY DEF SameInMemory, SameDisk
<1> HIDE DEF n
<1>3. ExtsNow(v, r.file, r.disk) = ExtsNow(v, w.file, w.disk)
  BY <1>2 DEF ExtsNow
<1>4. DataNow(v, r.file, r.disk) = DataNow(v, w.file, w.disk)
  BY <1>2 DEF DataNow
<1>5. ExtPlaced(v, r.file, n, ext)
  BY <1>1, <1>2 DEF ExtPlaced
<1>6. Marked(r, n)
  BY <1>1, <1>2 DEF Marked, HeaderKept, BytesKept, LinkKept
<1>7. n = Count(r.file.fileHdr.byteSize)
  BY <1>2 DEF n
<1> HIDE DEF SameInMemory
<1>8. FileIs(v, r.file.fileHdr, ExtsNow(v, r.file, r.disk), DataNow(v, r.file, r.disk), r.free,
             data, ext, bytes)
  BY <1>1, <1>2, <1>3, <1>4
<1> QED
  BY <1>5, <1>6, <1>7, <1>8 DEF IsFile, n

\* A file that has moved, perhaps after it was flushed.
AtMost(pos, size) == IF pos < size THEN pos ELSE size
Sought(v, w, r, data, ext, bytes, pos) ==
  /\ IsFile(v, r, data, ext, bytes)
  /\ r.free = w.free /\ r.file.fileHdr = w.file.fileHdr /\ r.file.pos = pos
  /\ pos < r.file.fileHdr.byteSize /\ r.file.currentExt # NoExt =>
       w.file.currentExt # NoExt \/ ListOf(v, pos \div BlockSize) # 0

\* A move within the data block in memory gets to the position.
LEMMA MoveIs ==
  ASSUME vol \in Volumes, NEW w, NEW data, NEW ext, NEW bytes, IsFile(vol, w, data, ext, bytes),
         NEW pos \in Nat, StaysInBlock(w, pos)
  PROVE  Sought(vol, w, MoveInBlock(w, pos), data, ext, bytes, AtMost(pos, Size(w)))
<1> DEFINE size == w.file.fileHdr.byteSize
           n == Count(size)
           to == AtMost(pos, size)
           k == w.file.nDataBlock - 1
           j == to % BlockSize
           r == MoveInBlock(w, pos)
<1>1. /\ w \in WorldSet(vol) /\ w.ok /\ DataPlaced(w.file, n, data) /\ n \in Nat /\ n # 0
      /\ k \in 0..(n - 1) /\ w.file.curDataPtr = data[k] /\ w.file.nDataBlock \in Nat \ {0}
  <2>1. w \in WorldSet(vol) /\ w.ok /\ DataPlaced(w.file, n, data)
    BY DEF IsFile
  <2>2. w.file.curDataPtr # 0
    BY DEF StaysInBlock
  <2>3. /\ n \in Nat /\ (w.file.curDataPtr = 0 <=> n = 0) /\ w.file.nDataBlock \in 0..n
        /\ n > 0 => k \in 0..(n - 1) /\ w.file.curDataPtr = data[k]
    BY FileParts
  <2> QED
    BY <2>1, <2>2, <2>3
<1>2. /\ BlockSize \in Nat \ {0} /\ size \in Nat /\ size <= vol.maxSize /\ vol.maxSize \in Nat
      /\ to \in Nat /\ to <= size /\ to \in 0..vol.maxSize
      /\ w.file.pos \in Nat /\ w.file.pos <= size /\ w.file.posInDataBlk \in 0..BlockSize
  <2>1. size \in Nat /\ size <= vol.maxSize
    BY <1>1, WorldParts
  <2>2. w.file.pos \in Nat /\ w.file.pos <= size /\ w.file.posInDataBlk \in 0..BlockSize
    BY <1>1, WorldParts DEF DataPlaced
  <2> QED
    BY <2>1, <2>2, VolumeParts DEF AtMost
<1> HIDE DEF size
<1>3. CASE w.file.pos = pos
  <2>1. r = w
    BY <1>3 DEF MoveInBlock
  <2>2. to = pos
    BY <1>2, <1>3 DEF AtMost
  <2> HIDE DEF r, to
  <2>3. Sought(vol, w, w, data, ext, bytes, to)
    BY <1>3, <2>2 DEF Sought
  <2> QED
    BY <2>1, <2>3 DEF r, to, Size, size
<1>4. CASE w.file.pos # pos
  <2>1. pos \div BlockSize = k
    <3>1. CurrentBlock(w.file) = k
      BY <1>1 DEF CurrentBlock
    <3>2. CurrentBlock(w.file) = pos \div BlockSize
      BY <1>4 DEF StaysInBlock
    <3> QED
      BY <3>1, <3>2
  <2>2. pos % BlockSize \in 0..(BlockSize - 1) /\ pos = BlockSize * k + (pos % BlockSize)
    BY <1>2, <2>1, DivMod
  <2>3. j \in 0..(BlockSize - 1) /\ to = BlockSize * k + j
    <3>1. CASE pos < size
      BY <2>2, <3>1 DEF AtMost
    <3>2. CASE ~(pos < size)
      <4>1. to = size
        BY <3>2 DEF AtMost
      <4>2. n > 0 => BlockSize * (n - 1) < size /\ size <= BlockSize * (n - 1) + BlockSize
        BY <1>1, <1>2, CountIs
      <4>3. BlockSize * (n - 1) >= BlockSize * k /\ BlockSize * (n - 1) \in Int
            /\ BlockSize * k \in Int
        <5>1. n - 1 >= k /\ n - 1 \in Int /\ k \in Int
          BY <1>1
        <5> HIDE DEF n, k
        <5> QED
          BY <1>2, <5>1, TimesMonotone
      <4>4. size - BlockSize * k \in 0..(BlockSize - 1) /\ k \in Nat
        <5>1. size <= pos /\ n > 0
          BY <1>1, <1>2, <3>2
        <5>2. pos < BlockSize * k + BlockSize
          BY <1>2, <2>2, <4>3
        <5> QED
          BY <1>1, <1>2, <4>2, <4>3, <5>1, <5>2
      <4>5. size = BlockSize * k + (size - BlockSize * k)
        BY <1>2, <4>3
      <4>6. size % BlockSize = size - BlockSize * k
        <5> DEFINE d == size - BlockSize * k
        <5> HIDE DEF d, k
        <5> QED
          BY <1>2, <4>4, <4>5, BlockOf DEF d
      <4> QED
        BY <4>1, <4>4, <4>5, <4>6
    <3> QED
      BY <3>1, <3>2
  <2>4. r = Placed(w, to, j)
    BY <1>4, Zenon DEF MoveInBlock, Placed, AtMost, Size, size
  <2>5. j \in 0..BlockSize
    BY <1>2, <2>3
  <2>6. w.file \in FileSet(vol)
    BY <1>1, WorldParts
  <2> HIDE DEF r, to, j, k, n
  <2>7. Moves(vol, w, PlacedFile(w, to, j), r)
    BY <1>1, <1>2, <2>4, <2>5, PlacedIs
  <2>8. /\ r \in WorldSet(vol) /\ r.ok /\ SameDisk(w, r) /\ SameInMemory(w, r)
        /\ r.file.changed = w.file.changed /\ r.file.pos = to /\ r.file.posInDataBlk = j
        /\ r.file.fileHdr = w.file.fileHdr /\ r.free = w.free
        /\ r.file.currentExt = w.file.currentExt
    BY <1>1, <2>6, <2>7 DEF Moves, PlacedFile, FileSet, SameInMemory, SameDisk
  <2>9. DataPlaced(r.file, n, data)
    BY <1>1, <1>2, <2>3, <2>8 DEF DataPlaced, SameInMemory, k, size
  <2>10. IsFile(vol, r, data, ext, bytes)
    BY <2>8, <2>9, FileAfter DEF n, size
  <2>11. Sought(vol, w, r, data, ext, bytes, to)
    BY <2>8, <2>10 DEF Sought
  <2> QED
    BY <2>11 DEF r, to, Size, size
<1> QED
  BY <1>3, <1>4

\* So does one to another block, after a flush of what was changed.
LEMMA SeekInsideIs ==
  ASSUME vol \in Volumes, NEW w, NEW data, NEW ext, NEW bytes, IsFile(vol, w, data, ext, bytes),
         SmallOfs(vol), NEW pos \in Nat, pos < Size(w) \/ pos = 0 \/ StaysInBlock(w, pos)
  PROVE  Sought(vol, w, SeekInside(w, pos), data, ext, bytes, AtMost(pos, Size(w)))
<1>1. CASE StaysInBlock(w, pos)
  <2>1. SeekInside(w, pos) = MoveInBlock(w, pos)
    BY <1>1, Zenon DEF SeekInside
  <2> QED
    BY <1>1, <2>1, MoveIs
<1>2. CASE ~StaysInBlock(w, pos)
  <2> DEFINE f == FlushIfChanged(w)
             r == SeekBlock(f, pos)
  <2>1. SeekInside(w, pos) = r
    BY <1>2, Zenon DEF SeekInside, SeekBlock
  <2>2. Flushed(w, f) /\ UpToDate(vol, f, data, ext, bytes)
    BY FlushIfChangedKeeps
  <2> HIDE DEF f
  <2>3. /\ IsRead(vol, f, data, ext, bytes) /\ f.file.fileHdr = w.file.fileHdr /\ f.free = w.free
        /\ f.file.currentExt = w.file.currentExt
    BY <2>2 DEF UpToDate, Flushed
  <2>4. pos < f.file.fileHdr.byteSize \/ pos = 0
    BY <1>2, <2>3 DEF Size
  <2>5. Found(vol, f, r, data, ext, bytes, pos)
    BY <2>3, <2>4, SeekBlockIs
  <2> HIDE DEF r
  <2>6. IsFile(vol, r, data, ext, bytes)
    BY <2>5, FileUpToDate DEF Found
  <2>7. /\ r.free = w.free /\ r.file.fileHdr = w.file.fileHdr /\ r.file.pos = pos
        /\ r.file.currentExt # NoExt =>
             w.file.currentExt # NoExt \/ ListOf(vol, pos \div BlockSize) # 0
    BY <2>3, <2>5 DEF Found, SameDisk
  <2>8. AtMost(pos, Size(w)) = pos
    <3>1. Size(w) \in Nat
      <4>1. w \in WorldSet(vol)
        BY DEF IsFile
      <4> QED
        BY <4>1, WorldParts DEF Size
    <3> QED
      BY <1>2, <3>1 DEF AtMost
  <2>9. Sought(vol, w, r, data, ext, bytes, pos)
    BY <2>6, <2>7 DEF Sought
  <2> QED
    BY <2>1, <2>8, <2>9
<1> QED
  BY <1>1, <1>2

\* adfFileSeekEOF_ of a file that is up to date reads its last block.
LEMMA SeekEOFIs ==
  ASSUME vol \in Volumes, NEW w, NEW data, NEW ext, NEW bytes, UpToDate(vol, w, data, ext, bytes),
         ~w.file.changed, SmallOfs(vol)
  PROVE  Sought(vol, w, adfFileSeekEOF(w), data, ext, bytes, Size(w))
<1> DEFINE size == Size(w)
           n == Count(size)
           q == [w EXCEPT !.file.pos = size]
           last == SeekInside(q, size - 1)
           r == adfFileSeekEOF(w)
<1>1. /\ IsRead(vol, w, data, ext, bytes) /\ BytesKept(w) /\ LinkKept(w)
      /\ DataPlaced(w.file, n, data) /\ w.header = w.file.fileHdr
  BY DEF UpToDate, Size, IsRead, HeaderKept
<1>2. /\ w \in WorldSet(vol) /\ w.ok /\ w.header.byteSize = size /\ n \in Nat
      /\ (n = 0 <=> size = 0) /\ size \in 0..vol.maxSize
  BY <1>1, ReadParts DEF Size
<1>3. /\ w.file \in FileSet(vol) /\ size \in Nat /\ BlockSize \in Nat \ {0} /\ vol.maxSize \in Nat
      /\ w = [file |-> w.file, disk |-> w.disk, free |-> w.free, header |-> w.header,
              ok |-> w.ok]
  <2>1. w.file.fileHdr.byteSize \in Nat /\ w.file \in FileSet(vol)
    BY <1>2, WorldParts
  <2>2. w = [file |-> w.file, disk |-> w.disk, free |-> w.free, header |-> w.header, ok |-> w.ok]
    BY <1>2, WorldParts
  <2> QED
    BY <2>1, <2>2, VolumeParts DEF Size
<1>4. CASE size = 0
  <2>1. r = adfFileSeekStart(w)
    BY <1>4 DEF adfFileSeekEOF
  <2> HIDE DEF r
  <2>2. Found(vol, w, r, data, ext, bytes, 0)
    BY <1>1, <2>1, SeekStartIs
  <2>3. IsFile(vol, r, data, ext, bytes)
    BY <2>2, FileUpToDate DEF Found
  <2>4. r.free = w.free /\ r.file.fileHdr = w.file.fileHdr /\ r.file.pos = 0
    BY <2>2 DEF Found, SameDisk
  <2>5. ~(0 < r.file.fileHdr.byteSize)
    BY <1>4, <2>4 DEF Size
  <2>6. Sought(vol, w, r, data, ext, bytes, 0)
    BY <2>3, <2>4, <2>5 DEF Sought
  <2> QED
    BY <1>4, <2>6 DEF r
<1>5. CASE size # 0
  <2> DEFINE end == IF size % BlockSize = 0 THEN BlockSize ELSE size % BlockSize
             g == [w.file EXCEPT !.pos = size]
  <2>1. /\ size - 1 \in Nat /\ size - 1 < size /\ size - 1 # size /\ ~(size < size)
        /\ size - 1 \in 0..vol.maxSize /\ n > 0 /\ (size - 1) \div BlockSize = n - 1
        /\ (size - 1) % BlockSize \in 0..(BlockSize - 1)
        /\ size - 1 = BlockSize * (n - 1) + ((size - 1) % BlockSize)
    <3>1. /\ size - 1 \in Nat /\ size - 1 < size /\ size - 1 # size /\ ~(size < size)
          /\ size - 1 \in 0..vol.maxSize /\ n > 0
      BY <1>2, <1>3, <1>5
    <3>2. (size - 1) \div BlockSize \in Nat
      BY <1>3, <3>1, DivMod
    <3>3. n = (size - 1) \div BlockSize + 1
      BY <1>5 DEF Count
    <3>4. /\ (size - 1) % BlockSize \in 0..(BlockSize - 1)
          /\ size - 1 = BlockSize * ((size - 1) \div BlockSize) + ((size - 1) % BlockSize)
      <4> HIDE DEF size
      <4> QED
        BY <1>3, <3>1, DivMod
    <3>5. (size - 1) \div BlockSize = n - 1
      <4> HIDE DEF n
      <4> QED
        BY <3>2, <3>3
    <3> QED
      BY <3>1, <3>4, <3>5
  <2>2. q = InFile(w, g) /\ g \in FileSet(vol) /\ g.fileHdr = w.file.fileHdr
    <3>1. g \in FileSet(vol) /\ g.fileHdr = w.file.fileHdr
      BY <1>2, <1>3 DEF FileSet
    <3> HIDE DEF size, g
    <3>2. q = [w EXCEPT !.file = g]
      BY DEF g
    <3> QED
      BY <1>3, <3>1, <3>2 DEF InFile
  <2> HIDE DEF q, size, n
  <2>3. Moves(vol, w, g, q)
    <3> HIDE DEF g
    <3> QED
      BY <1>2, <2>2, InFileKeeps
  <2>4. /\ q \in WorldSet(vol) /\ q.ok /\ SameDisk(w, q) /\ SameInMemory(w, q)
        /\ q.file.pos = size /\ q.file.changed = w.file.changed
        /\ q.file.fileHdr = w.file.fileHdr /\ q.header = w.header /\ q.disk = w.disk
    BY <1>2, <1>3, <2>3 DEF Moves, FileSet, SameInMemory, SameDisk
  <2>5. IsRead(vol, q, data, ext, bytes)
    <3>1. HeaderKept(w) /\ ExtPlaced(vol, w.file, n, ext)
      BY <1>1, <1>2 DEF IsRead, n
    <3>2. q.file.currentExt # NoExt => q.disk[q.file.currentExt.headerKey] = q.file.currentExt
      BY <2>4, <3>1 DEF HeaderKept, SameInMemory
    <3>3. ExtPlaced(vol, q.file, n, ext)
      BY <2>4, <3>1 DEF SameInMemory, ExtPlaced
    <3> QED
      BY <1>1, <1>2, <2>4, <3>2, <3>3, ReadAfter DEF n
  <2>6. /\ IsRead(vol, last, data, ext, bytes) /\ BytesKept(last) /\ LinkKept(last)
        /\ SameDisk(w, last) /\ last.file.nDataBlock = n /\ last.file.curDataPtr = data[n - 1]
    <3>1. CASE StaysInBlock(q, size - 1)
      <4>1. last = MoveInBlock(q, size - 1)
        BY <3>1, Zenon DEF SeekInside
      <4> DEFINE j == (size - 1) % BlockSize
      <4>2. MoveInBlock(q, size - 1) = Placed(q, size - 1, j)
        <5>1. Size(q) = size /\ q.file.pos # size - 1
          BY <2>1, <2>4 DEF Size, size
        <5>2. (IF size - 1 < Size(q) THEN size - 1 ELSE Size(q)) = size - 1
          BY <2>1, <5>1
        <5> DEFINE to == IF size - 1 < Size(q) THEN size - 1 ELSE Size(q)
        <5>3. MoveInBlock(q, size - 1) = Placed(q, to, to % BlockSize)
          BY <5>1, Zenon DEF MoveInBlock, Placed
        <5> HIDE DEF to
        <5>4. to = size - 1
          BY <5>2 DEF to
        <5> QED
          BY <5>3, <5>4
      <4>3. j \in 0..BlockSize
        BY <1>3, <2>1
      <4> HIDE DEF j, last
      <4>4. Moves(vol, q, PlacedFile(q, size - 1, j), last)
        <5> DEFINE p == size - 1
        <5>1. p \in 0..vol.maxSize
          BY <2>1
        <5> HIDE DEF p
        <5>2. Moves(vol, q, PlacedFile(q, p, j), Placed(q, p, j))
          BY <2>4, <4>3, <5>1, PlacedIs
        <5> QED
          BY <4>1, <4>2, <5>2 DEF p
      <4>5. q.file \in FileSet(vol)
        BY <2>4, WorldParts
      <4>6. /\ last \in WorldSet(vol) /\ last.ok /\ SameDisk(q, last) /\ SameInMemory(q, last)
            /\ last.disk = q.disk
        BY <2>4, <4>4, <4>5 DEF Moves, PlacedFile, FileSet, SameInMemory, SameDisk
      <4>7. HeaderKept(q) /\ ExtPlaced(vol, q.file, Count(q.header.byteSize), ext)
        BY <2>5 DEF IsRead
      <4>8. last.file.currentExt # NoExt =>
              last.disk[last.file.currentExt.headerKey] = last.file.currentExt
        BY <4>6, <4>7 DEF HeaderKept, SameInMemory
      <4>9. ExtPlaced(vol, last.file, Count(q.header.byteSize), ext)
        BY <4>6, <4>7 DEF SameInMemory, ExtPlaced
      <4>10. IsRead(vol, last, data, ext, bytes)
        BY <2>5, <4>6, <4>8, <4>9, ReadAfter
      <4>11. BytesKept(last) /\ LinkKept(last)
        BY <1>1, <2>4, <4>6 DEF SameInMemory, SameDisk, BytesKept, LinkKept
      <4>12. last.file.nDataBlock = w.file.nDataBlock /\ last.file.curDataPtr = w.file.curDataPtr
             /\ SameDisk(w, last)
        BY <2>4, <4>6 DEF SameInMemory, SameDisk
      <4>13. w.file.nDataBlock = n /\ w.file.curDataPtr = data[n - 1]
        <5>1. w.file.nDataBlock \in Nat /\ w.file.nDataBlock >= 1 /\ n > 0
              /\ w.file.curDataPtr = data[w.file.nDataBlock - 1]
          BY <1>1, <1>2, <2>1, WorldParts DEF DataPlaced
        <5>2. CurrentBlock(q.file) = (size - 1) \div BlockSize
          BY <2>1, <2>4, <3>1 DEF StaysInBlock
        <5>3. q.file.nDataBlock = w.file.nDataBlock
          BY <2>4 DEF SameInMemory
        <5>4. w.file.nDataBlock - 1 = n - 1
          BY <2>1, <5>1, <5>2, <5>3 DEF CurrentBlock
        <5> QED
          BY <1>2, <5>1, <5>4
      <4> QED
        BY <4>10, <4>11, <4>12, <4>13 DEF last
    <3>2. CASE ~StaysInBlock(q, size - 1)
      <4>1. FlushIfChanged(q) = q
        BY <2>4 DEF FlushIfChanged
      <4>2. last = SeekBlock(q, size - 1)
        BY <3>2, <4>1, Zenon DEF SeekInside, SeekBlock
      <4>3. size - 1 < q.file.fileHdr.byteSize
        BY <2>1, <2>4 DEF Size, size
      <4> HIDE DEF last
      <4>4. Found(vol, q, last, data, ext, bytes, size - 1)
        <5> DEFINE p == size - 1
        <5>1. p \in Nat /\ p < q.file.fileHdr.byteSize
          BY <2>1, <4>3
        <5> HIDE DEF p
        <5>2. Found(vol, q, SeekBlock(q, p), data, ext, bytes, p)
          BY <2>5, <5>1, SeekBlockIs
        <5> QED
          BY <4>2, <5>2 DEF p
      <4>5. /\ IsRead(vol, last, data, ext, bytes) /\ BytesKept(last) /\ LinkKept(last)
            /\ DataPlaced(last.file, Count(last.header.byteSize), data)
            /\ last.file.pos = size - 1 /\ last.file.posInDataBlk < BlockSize
            /\ SameDisk(q, last)
        BY <4>4 DEF Found, UpToDate
      <4>6. SameDisk(w, last) /\ last.header.byteSize = size
        BY <1>2, <2>4, <4>5 DEF SameDisk
      <4>7. /\ last.file.nDataBlock \in Nat /\ last.file.nDataBlock >= 1
            /\ last.file.posInDataBlk \in 0..BlockSize
            /\ last.file.curDataPtr = data[last.file.nDataBlock - 1]
            /\ size - 1 = BlockSize * (last.file.nDataBlock - 1) + last.file.posInDataBlk
        <5>1. last.file.nDataBlock \in Nat /\ last.file.posInDataBlk \in 0..BlockSize
          BY <4>5, WorldParts DEF IsRead
        <5>2. Count(last.header.byteSize) = n
          BY <4>6 DEF n
        <5> QED
          BY <2>1, <4>5, <5>1, <5>2 DEF DataPlaced
      <4>8. last.file.nDataBlock - 1 = n - 1
        <5> DEFINE k == last.file.nDataBlock - 1
                   j == last.file.posInDataBlk
                   p == size - 1
        <5>1. k \in Nat /\ j \in 0..(BlockSize - 1) /\ p = BlockSize * k + j /\ p \in Nat
          <6>1. k \in Nat
            BY <4>7
          <6>2. j \in 0..(BlockSize - 1)
            BY <1>3, <4>5, <4>7
          <6> QED
            BY <2>1, <4>7, <6>1, <6>2
        <5>2. p \div BlockSize = n - 1
          BY <2>1
        <5> HIDE DEF k, j, p
        <5>3. p \div BlockSize = k
          BY <5>1, BlockOf
        <5> QED
          BY <5>2, <5>3 DEF k
      <4>9. last.file.nDataBlock = n /\ last.file.curDataPtr = data[n - 1]
        BY <1>2, <4>7, <4>8
      <4> QED
        BY <4>5, <4>6, <4>9 DEF last
    <3> QED
      BY <3>1, <3>2
  <2> HIDE DEF last
  <2>7. r = Placed(last, size, end)
    <3>1. last.ok
      BY <2>6 DEF IsRead
    <3> QED
      BY <1>5, <3>1, Zenon DEF adfFileSeekEOF, last, q, size, Placed
  <2>8. end \in 0..BlockSize /\ size = BlockSize * (n - 1) + end
    <3>1. size % BlockSize \in 0..(BlockSize - 1) /\ size \div BlockSize \in Nat
          /\ size = BlockSize * (size \div BlockSize) + (size % BlockSize)
      BY <1>3, DivMod
    <3> DEFINE j == (size - 1) % BlockSize
               b == BlockSize * (n - 1)
    <3>2. size = b + (j + 1) /\ j + 1 \in 1..BlockSize /\ b \in Int /\ j \in Int
      <4>1. n - 1 \in Int
        BY <1>2
      <4>2. b \in Int
        BY <1>3, <4>1
      <4>3. size - 1 = b + j /\ j \in 0..(BlockSize - 1)
        BY <2>1
      <4> HIDE DEF b, j
      <4> QED
        BY <1>3, <4>2, <4>3
    <3>3. CASE j + 1 = BlockSize
      <4>1. size = BlockSize * n + 0
        <5>1. BlockSize * n = b + BlockSize
          BY <1>2, <1>3
        <5> HIDE DEF b, j
        <5> QED
          BY <1>3, <3>2, <3>3, <5>1
      <4>2. 0 \in 0..(BlockSize - 1)
        BY <1>3
      <4>3. size % BlockSize = 0
        BY <1>2, <1>3, <4>1, <4>2, BlockOf
      <4> QED
        BY <1>3, <3>2, <3>3, <4>3
    <3>4. CASE j + 1 # BlockSize
      <4> DEFINE i == j + 1
                 k == n - 1
      <4>1. size = BlockSize * k + i /\ i \in 0..(BlockSize - 1) /\ i # 0 /\ k \in Nat
        <5>1. k \in Nat
          BY <1>2, <2>1
        <5> HIDE DEF j
        <5> QED
          BY <1>3, <3>2, <3>4, <5>1
      <4> HIDE DEF i, k
      <4>2. size % BlockSize = i
        BY <1>3, <4>1, BlockOf
      <4> QED
        BY <1>3, <3>2, <3>4, <4>1, <4>2 DEF i
    <3> QED
      BY <3>3, <3>4
  <2> HIDE DEF end, r
  <2>9. last \in WorldSet(vol) /\ last.ok /\ last.header = last.file.fileHdr
        /\ last.header = w.header
    BY <2>6, ReadParts DEF SameDisk
  <2>10. Moves(vol, last, PlacedFile(last, size, end), r)
    BY <1>2, <2>7, <2>8, <2>9, PlacedIs
  <2>11. last.file \in FileSet(vol)
    BY <2>9, WorldParts
  <2>12. /\ r \in WorldSet(vol) /\ r.ok /\ SameInMemory(last, r) /\ r.file.pos = size
         /\ r.file.posInDataBlk = end /\ r.file.fileHdr = w.file.fileHdr /\ r.free = w.free
         /\ r.file.nDataBlock = n /\ r.file.curDataPtr = data[n - 1]
    BY <2>6, <2>9, <2>10, <2>11 DEF Moves, PlacedFile, FileSet, SameInMemory, SameDisk
  <2>13. DataPlaced(r.file, n, data)
    <3>1. size <= r.file.fileHdr.byteSize
      BY <1>3, <2>12 DEF size, Size
    <3> QED
      BY <1>2, <2>1, <2>8, <2>12, <3>1 DEF DataPlaced
  <2>14. UpToDate(vol, r, data, ext, bytes)
    <3>1. Count(last.header.byteSize) = n
      BY <1>2, <2>9 DEF n
    <3> QED
      BY <2>6, <2>12, <2>13, <3>1, UpToDateAfter
  <2>15. IsFile(vol, r, data, ext, bytes)
    BY <2>14, FileUpToDate
  <2>16. ~(size < r.file.fileHdr.byteSize)
    BY <1>3, <2>12 DEF size, Size
  <2>17. Sought(vol, w, r, data, ext, bytes, size)
    BY <2>12, <2>15, <2>16 DEF Sought
  <2> QED
    BY <2>17 DEF r, size
<1> QED
  BY <1>4, <1>5

\* adfFileSeek: the file is at the position, or at its end if that is before it.
LEMMA SeekIs ==
  ASSUME vol \in Volumes, NEW w, NEW data, NEW ext, NEW bytes, IsFile(vol, w, data, ext, bytes),
         SmallOfs(vol), NEW pos \in Nat
  PROVE  Sought(vol, w, Seek(w, pos), data, ext, bytes, AtMost(pos, Size(w)))
<1>1. CASE pos < Size(w) \/ StaysInBlock(w, pos) \/ pos = 0
  <2>1. Seek(w, pos) = SeekInside(w, pos)
    BY <1>1, Zenon DEF Seek
  <2> QED
    BY <1>1, <2>1, SeekInsideIs
<1>2. CASE ~(pos < Size(w) \/ StaysInBlock(w, pos) \/ pos = 0)
  <2> DEFINE f == FlushIfChanged(w)
             r == adfFileSeekEOF(f)
  <2>1. Seek(w, pos) = r
    BY <1>2, Zenon DEF Seek
  <2>2. Flushed(w, f) /\ UpToDate(vol, f, data, ext, bytes) /\ ~f.file.changed
    BY FlushIfChangedKeeps
  <2> HIDE DEF f
  <2>3. Sought(vol, f, r, data, ext, bytes, Size(f))
    BY <2>2, SeekEOFIs
  <2> HIDE DEF r
  <2>4. Size(f) = Size(w) /\ f.file.fileHdr = w.file.fileHdr /\ f.free = w.free
        /\ f.file.currentExt = w.file.currentExt
    BY <2>2 DEF Flushed, Size
  <2>5. Sought(vol, w, r, data, ext, bytes, Size(w))
    BY <2>3, <2>4 DEF Sought
  <2>6. AtMost(pos, Size(w)) = Size(w)
    BY <1>2 DEF AtMost
  <2> QED
    BY <2>1, <2>5, <2>6
<1> QED
  BY <1>1, <1>2

\* A closed file becomes an open one.
Opened(w) == [w EXCEPT !.file = [Closed EXCEPT !.open = TRUE, !.fileHdr = w.header]]

\* It is at its start, with its first block read.
LEMMA OpenIs ==
  ASSUME vol \in Volumes, NEW w, w = InFile(w, w.file), w.ok, NEW data, NEW ext, NEW bytes,
         IsClosed(vol, w, data, ext, bytes), SmallOfs(vol)
  PROVE  /\ IsFile(vol, Seek(Opened(w), 0), data, ext, bytes)
         /\ Seek(Opened(w), 0).file.fileHdr = w.header /\ Seek(Opened(w), 0).file.pos = 0
<1> DEFINE g == [Closed EXCEPT !.open = TRUE, !.fileHdr = w.header]
           o == Opened(w)
           n == Count(w.header.byteSize)
<1>1. /\ w.disk \in DiskSet(vol) /\ w.free \in SUBSET vol.sectors /\ w.header \in HeaderSet(vol)
      /\ OnDisk(vol, w.header, w.disk, w.free, data, ext, bytes)
  BY DEF IsClosed
<1>2. /\ 0 \in 0..vol.maxSize /\ 0 \in 0..vol.maxDatablk /\ 0 \in 0..BlockSize /\ 0 \in Nat
      /\ 0 \in vol.sectors \cup {0} /\ vol.maxDatablk \in Nat
  BY VolumeParts
<1>3. DataBlock(Zeros, 0, 0) \in DataSet(vol)
  <2>1. Zeros \in [Offsets -> Bytes]
    BY FileAssumption DEF Zeros
  <2> QED
    BY <1>2, <2>1 DEF DataBlock, DataSet
<1>4. /\ g \in FileSet(vol) /\ g.fileHdr = w.header /\ g.currentExt = NoExt /\ g.curDataPtr = 0
      /\ g.nDataBlock = 0 /\ g.changed = FALSE
  <2> DEFINE C == [open : BOOLEAN, fileHdr : {NewHeader}, currentExt : {NoExt}, curDataPtr : {0},
                   currentData : DataSet(vol), changed : {FALSE}, pos : {0}, posInDataBlk : {0},
                   posInExtBlk : {0}, nDataBlock : {0}]
  <2>1. Closed \in C
    BY <1>3 DEF Closed
  <2> QED
    BY <1>1, <1>2, <2>1 DEF FileSet
<1>5. o = InFile(w, g)
  <2> HIDE DEF g
  <2>1. o = [w EXCEPT !.file = g]
    BY Zenon DEF Opened, g
  <2> HIDE DEF o
  <2> QED
    BY <2>1, InFileIs
<1> HIDE DEF g, o
<1>6. /\ o \in WorldSet(vol) /\ o.ok /\ o.file = g /\ o.header = w.header /\ o.disk = w.disk
      /\ o.free = w.free
  <2>1. w.ok \in BOOLEAN
    OBVIOUS
  <2> QED
    BY <1>1, <1>4, <1>5, <2>1 DEF InFile, WorldSet
<1>7. IsRead(vol, o, data, ext, bytes)
  <2>1. HeaderKept(o)
    BY <1>4, <1>6 DEF HeaderKept
  <2>2. ExtPlaced(vol, o.file, n, ext)
    BY <1>2, <1>4, <1>6 DEF ExtPlaced
  <2> QED
    BY <1>1, <1>6, <2>1, <2>2 DEF IsRead
<1>8. Seek(o, 0) = SeekBlock(o, 0)
  <2>1. ~StaysInBlock(o, 0)
    BY <1>4, <1>6 DEF StaysInBlock
  <2>2. FlushIfChanged(o) = o
    BY <1>4, <1>6 DEF FlushIfChanged
  <2> QED
    BY <2>1, <2>2, Zenon DEF Seek, SeekInside, SeekBlock
<1> DEFINE r == SeekBlock(o, 0)
<1>9. Found(vol, o, r, data, ext, bytes, 0)
  BY <1>2, <1>7, SeekBlockIs
<1> HIDE DEF r
<1>10. IsFile(vol, r, data, ext, bytes) /\ r.file.fileHdr = w.header /\ r.file.pos = 0
  BY <1>4, <1>6, <1>9, FileUpToDate DEF Found, SameDisk
<1> QED
  BY <1>8, <1>10 DEF r, o

-----------------------------------------------------------------------------
(* Reading *)

\* Behind the last byte of a data block that is not the last one there is
\* another, to which the block in memory leads.
LEMMA AnotherBlock ==
  ASSUME NEW v \in Volumes, NEW w, NEW data, NEW ext, NEW bytes, IsFile(v, w, data, ext, bytes),
         w.file.pos # w.file.fileHdr.byteSize, w.file.posInDataBlk = BlockSize,
         NEW n, n = Count(w.file.fileHdr.byteSize), NEW k, k = w.file.nDataBlock
  PROVE  k \in 1..(n - 1) /\ w.file.pos = BlockSize * k /\ LeadsTo(v, w, data, k)
<1>1. /\ w \in WorldSet(v) /\ n \in Nat /\ k \in 0..n /\ Owns(v, w.free, n, data, ext)
      /\ w.file.fileHdr.byteSize = 0 <=> n = 0
      /\ n > 0 => k - 1 \in 0..(n - 1) /\ w.file.curDataPtr = data[k - 1]
  BY FileParts
<1>2. DataPlaced(w.file, n, data) /\ Holds(v, DataNow(v, w.file, w.disk), n, data, bytes)
  BY DEF IsFile, FileIs
<1>3. /\ w.file.fileHdr.byteSize \in Nat /\ w.file.pos \in Nat /\ BlockSize \in Nat \ {0}
      /\ k \in Nat
  BY <1>1, WorldParts, VolumeParts
<1>4. n > 0 /\ k >= 1 /\ w.file.pos = BlockSize * (k - 1) + BlockSize
      /\ w.file.pos < w.file.fileHdr.byteSize
  <2>1. n # 0 /\ w.file.pos <= w.file.fileHdr.byteSize
    BY <1>2, <1>3 DEF DataPlaced
  <2>2. n > 0
    BY <1>1, <2>1
  <2> DEFINE before == BlockSize * (w.file.nDataBlock - 1)
  <2>3. w.file.nDataBlock >= 1 /\ w.file.pos = before + w.file.posInDataBlk
    BY <1>2, <2>2 DEF DataPlaced
  <2>4. before = BlockSize * (k - 1)
    OBVIOUS
  <2> HIDE DEF before
  <2>5. k >= 1 /\ w.file.pos = before + BlockSize
    BY <2>3
  <2>6. w.file.pos < w.file.fileHdr.byteSize
    BY <1>3, <2>1
  <2> QED
    BY <2>2, <2>4, <2>5, <2>6
<1>5. w.file.fileHdr.byteSize <= BlockSize * (n - 1) + BlockSize
  BY <1>1, <1>3, <1>4, CountIs
<1>6. k < n
  <2>1. CASE k >= n
    <3>1. BlockSize * (k - 1) >= BlockSize * (n - 1)
      BY <1>1, <1>3, <2>1, TimesMonotone
    <3>2. BlockSize * (k - 1) \in Int /\ BlockSize * (n - 1) \in Int
      BY <1>1, <1>3
    <3> QED
      BY <1>3, <1>4, <1>5, <3>1, <3>2
  <2> QED
    BY <1>1, <2>1
<1>7. w.file.pos = BlockSize * k
  BY <1>3, <1>4
<1>8. LeadsTo(v, w, data, k)
  <2> SUFFICES ASSUME v.ofs
               PROVE  w.file.currentData.nextData = data[k]
    BY DEF LeadsTo
  <2>1. DataNow(v, w.file, w.disk)[data[k - 1]].nextData = LinkOf(n, data, k - 1)
    BY <1>1, <1>2, <1>4 DEF Holds
  <2>2. LinkOf(n, data, k - 1) = data[k]
    BY <1>1, <1>6 DEF LinkOf
  <2>3. data[k - 1] \in v.sectors
    BY <1>1, <1>4, Sector
  <2> QED
    BY <1>1, <1>4, <2>1, <2>2, <2>3 DEF DataNow
<1> QED
  BY <1>1, <1>4, <1>6, <1>7, <1>8

\* The file at the start of the block in memory.
Rewound(w, m) == [w EXCEPT !.file.posInDataBlk = 0, !.file.changed = m]
RewoundFile(w, m) == [w.file EXCEPT !.posInDataBlk = 0, !.changed = m]

\* Only the position in the block and the mark of changes are set.
LEMMA RewoundIs ==
  ASSUME NEW v \in Volumes, NEW w \in WorldSet(v), NEW m \in BOOLEAN
  PROVE  Moves(v, w, RewoundFile(w, m), Rewound(w, m))
<1>1. w = [file |-> w.file, disk |-> w.disk, free |-> w.free, header |-> w.header, ok |-> w.ok]
      /\ w.file \in FileSet(v)
  BY WorldParts
<1>0. 0 \in 0..BlockSize
  BY VolumeParts
<1> DEFINE g == [w.file EXCEPT !.posInDataBlk = 0, !.changed = m]
<1>2. Rewound(w, m) = [file |-> g, disk |-> w.disk, free |-> w.free, header |-> w.header,
                       ok |-> w.ok]
  <2> DEFINE g1 == [w.file EXCEPT !.posInDataBlk = 0]
             w1 == [w EXCEPT !.file = g1]
  <2>1. w1 = [file |-> g1, disk |-> w.disk, free |-> w.free, header |-> w.header, ok |-> w.ok]
    BY <1>1
  <2>2. g = [g1 EXCEPT !.changed = m]
    OBVIOUS
  <2>3. Rewound(w, m) = [w1 EXCEPT !.file = [w1.file EXCEPT !.changed = m]]
    BY DEF Rewound
  <2> HIDE DEF g, g1, w1
  <2> QED
    BY <2>1, <2>2, <2>3
<1>3. g \in FileSet(v) /\ g.fileHdr = w.file.fileHdr
  BY <1>0, <1>1 DEF FileSet
<1> HIDE DEF g
<1>4. Rewound(w, m) = InFile(w, g)
  BY <1>2 DEF InFile
<1>5. Moves(v, w, g, Rewound(w, m))
  BY <1>3, <1>4, InFileKeeps
<1> QED
  BY <1>5 DEF g, RewoundFile

\* The next data block is in memory, as it is on the disk; the file is at its
\* start as soon as its position in the block is reset.
NextRead(v, w, q, data, ext, bytes) ==
  /\ q \in WorldSet(v) /\ q.ok /\ q.file.changed = w.file.changed
  /\ \A r \in WorldSet(v) :
       r.ok /\ SameInMemory(q, r) /\ r.file.pos = q.file.pos /\ r.file.posInDataBlk = 0 =>
         UpToDate(v, r, data, ext, bytes) /\ SameDisk(w, r) /\ r.file.pos = w.file.pos

\* Reading the next block of a file that is as it is on the disk.
LEMMA NextReadIs ==
  ASSUME vol \in Volumes, NEW w, NEW data, NEW ext, NEW bytes, IsFile(vol, w, data, ext, bytes),
         SmallOfs(vol), w.file.pos # w.file.fileHdr.byteSize, w.file.posInDataBlk = BlockSize,
         BytesKept(w), LinkKept(w)
  PROVE  NextRead(vol, w, adfFileReadNextBlock(w), data, ext, bytes)
<1> DEFINE n == Count(w.file.fileHdr.byteSize)
           k == w.file.nDataBlock
           q == adfFileReadNextBlock(w)
<1>1. k \in 1..(n - 1) /\ w.file.pos = BlockSize * k /\ LeadsTo(vol, w, data, k)
  BY AnotherBlock
<1>2. HeaderKept(w) /\ DataPlaced(w.file, n, data) /\ w \in WorldSet(vol)
  <2>1. n \in Nat
    BY FileParts
  <2> QED
    BY <1>1, <2>1 DEF IsFile, Marked
<1>3. IsRead(vol, w, data, ext, bytes) /\ n = Count(w.header.byteSize) /\ n \in Nat
  <2>1. n \in Nat
    BY FileParts
  <2>2. IsRead(vol, w, data, ext, bytes)
    BY <1>2, FileKept
  <2> QED
    BY <1>2, <2>1, <2>2 DEF HeaderKept
<1> HIDE DEF q, n, k
<1>4. k \in 0..(n - 1) /\ k \in Nat
  BY <1>1, <1>3
<1>5. BlockRead(vol, w, q, data, ext, bytes, k)
  BY <1>1, <1>3, <1>4, NextBlockIs DEF k, q
<1>6. /\ IsRead(vol, q, data, ext, bytes) /\ BytesKept(q) /\ LinkKept(q) /\ SameDisk(w, q)
      /\ q.file.nDataBlock = k + 1 /\ q.file.curDataPtr = data[k] /\ q.file.pos = w.file.pos
      /\ q.file.changed = w.file.changed
  BY <1>5 DEF BlockRead
<1>7. q \in WorldSet(vol) /\ q.ok
  BY <1>6 DEF IsRead
<1>8. ASSUME NEW r \in WorldSet(vol), r.ok, SameInMemory(q, r), r.file.pos = q.file.pos,
             r.file.posInDataBlk = 0
      PROVE  UpToDate(vol, r, data, ext, bytes) /\ SameDisk(w, r) /\ r.file.pos = w.file.pos
  <2>1. DataPlaced(r.file, n, data)
    <3>1. r.file.pos <= r.file.fileHdr.byteSize /\ r.file.fileHdr.byteSize = w.file.fileHdr.byteSize
      BY <1>2, <1>6, <1>8 DEF DataPlaced, SameInMemory, SameDisk
    <3>2. r.file.nDataBlock = k + 1 /\ r.file.curDataPtr = data[k] /\ r.file.pos = BlockSize * k
      BY <1>1, <1>6, <1>8 DEF SameInMemory, k
    <3>3. BlockSize \in Nat /\ (k + 1) - 1 = k /\ BlockSize * k = BlockSize * k + 0
          /\ k + 1 <= n /\ k + 1 >= 1
      BY <1>1, <1>3, <1>4, VolumeParts
    <3> QED
      BY <1>1, <1>3, <1>8, <3>1, <3>2, <3>3 DEF DataPlaced
  <2>2. n = Count(q.header.byteSize)
    BY <1>3, <1>6 DEF SameDisk
  <2>3. UpToDate(vol, r, data, ext, bytes)
    BY <1>6, <1>8, <2>1, <2>2, UpToDateAfter
  <2> QED
    BY <1>6, <1>8, <2>3 DEF SameInMemory, SameDisk
<1>9. NextRead(vol, w, q, data, ext, bytes)
  BY <1>6, <1>7, <1>8 DEF NextRead
<1> QED
  BY <1>9 DEF q

\* A file that has read or sought m bytes further in the data block in memory.
Ahead(w, m) == Placed(w, w.file.pos + m, w.file.posInDataBlk + m)

\* It has changed in nothing else.
LEMMA AheadIs ==
  ASSUME NEW v \in Volumes, NEW w, NEW data, NEW ext, NEW bytes, IsFile(v, w, data, ext, bytes),
         NEW m \in Nat \ {0}, m <= BlockSize - w.file.posInDataBlk,
         w.file.pos + m <= w.file.fileHdr.byteSize
  PROVE  /\ IsFile(v, Ahead(w, m), data, ext, bytes) /\ SameDisk(w, Ahead(w, m))
         /\ Ahead(w, m).file.pos = w.file.pos + m
<1> DEFINE n == Count(w.file.fileHdr.byteSize)
           r == Ahead(w, m)
           pos == w.file.pos + m
           p == w.file.posInDataBlk + m
<1>1. w \in WorldSet(v) /\ w.ok /\ DataPlaced(w.file, n, data)
  BY DEF IsFile
<1>2. /\ w.file \in FileSet(v) /\ w.file.fileHdr.byteSize \in Nat /\ w.file.pos \in Nat
      /\ w.file.posInDataBlk \in 0..BlockSize /\ w.file.fileHdr.byteSize <= v.maxSize
      /\ BlockSize \in Nat /\ v.maxSize \in Nat /\ w.file.nDataBlock \in Nat
  BY <1>1, WorldParts, VolumeParts
<1>3. pos \in 0..v.maxSize /\ p \in 0..BlockSize /\ pos <= w.file.fileHdr.byteSize
  BY <1>2
<1>4. n \in Nat /\ n > 0
  BY <1>2, CountIs
<1> HIDE DEF n
<1>5. Moves(v, w, PlacedFile(w, pos, p), r)
  BY <1>1, <1>3, PlacedIs DEF Ahead
<1> HIDE DEF r
<1>6. /\ r \in WorldSet(v) /\ r.ok /\ SameInMemory(w, r) /\ r.file.changed = w.file.changed
      /\ r.file.pos = pos /\ r.file.posInDataBlk = p /\ SameDisk(w, r)
  BY <1>1, <1>2, <1>5 DEF Moves, PlacedFile, SameInMemory, FileSet
<1>7. DataPlaced(r.file, n, data)
  <2>1. /\ r.file.nDataBlock = w.file.nDataBlock /\ r.file.curDataPtr = w.file.curDataPtr
        /\ r.file.fileHdr = w.file.fileHdr
    BY <1>6 DEF SameInMemory, SameDisk
  <2>2. /\ w.file.nDataBlock >= 1 /\ w.file.curDataPtr = data[w.file.nDataBlock - 1]
        /\ w.file.pos = BlockSize * (w.file.nDataBlock - 1) + w.file.posInDataBlk
        /\ w.file.nDataBlock <= n
    BY <1>1, <1>4 DEF DataPlaced
  <2>3. BlockSize * (w.file.nDataBlock - 1) \in Int
    BY <1>2
  <2>4. pos = BlockSize * (w.file.nDataBlock - 1) + p
    BY <1>2, <2>2, <2>3
  <2> HIDE DEF pos, p
  <2> QED
    BY <1>3, <1>4, <1>6, <2>1, <2>2, <2>4 DEF DataPlaced
<1>8. IsFile(v, r, data, ext, bytes)
  BY <1>6, <1>7, FileAfter DEF n
<1> QED
  BY <1>6, <1>8 DEF r

\* The data block one turn of adfFileRead reads from.
BlockToRead(w) ==
  IF w.file.posInDataBlk < BlockSize THEN w ELSE Rewound(adfFileReadNextBlock(w), FALSE)

\* The next state is the one an operation gives.
LEMMA BecomesIs ==
  ASSUME NEW v \in Volumes, NEW r \in WorldSet(v), r.ok, Becomes(r)
  PROVE  World' = r
<1>1. r = [file |-> r.file, disk |-> r.disk, free |-> r.free, header |-> r.header, ok |-> r.ok]
      /\ r.ok \in BOOLEAN
  BY WorldParts
<1>2. r.ok = TRUE
  BY <1>1
<1> QED
  BY <1>1, <1>2 DEF Becomes, World

\* One turn of adfFileRead moves ahead in the file, which stays the same.
LEMMA ReadIs ==
  ASSUME vol \in Volumes, NEW data, NEW ext, NEW bytes, IsFile(vol, World, data, ext, bytes),
         SmallOfs(vol), "flush_to_read" \in Habits, NEW m \in 1..BlockSize, ReadChunk(m)
  PROVE  /\ IsFile(vol, World', data, ext, bytes)
         /\ file'.fileHdr = file.fileHdr /\ file'.pos = file.pos + m
         /\ file.pos + m <= file.fileHdr.byteSize
<1> DEFINE w == World
           b == BlockToRead(w)
           q == adfFileReadNextBlock(w)
<1>1. w.file = file /\ w.disk = disk /\ w.ok = TRUE
  BY DEF World
<1>2. /\ w \in WorldSet(vol) /\ file.posInDataBlk \in 0..BlockSize
      /\ w.file.posInDataBlk \in 0..BlockSize /\ BlockSize \in Nat /\ m \in Nat \ {0}
  <2>1. w \in WorldSet(vol)
    BY DEF IsFile
  <2> HIDE DEF w
  <2>2. w.file.posInDataBlk \in 0..BlockSize
    BY <2>1, WorldParts
  <2> QED
    BY <1>1, <2>1, <2>2, VolumeParts
<1>3. w.file.pos # w.file.fileHdr.byteSize
  BY <1>1 DEF ReadChunk, adfFileAtEOF, Size
<1>4. ASSUME ~(w.file.posInDataBlk < BlockSize)
      PROVE  NextRead(vol, w, q, data, ext, bytes)
  <2>1. w.file.posInDataBlk = BlockSize
    BY <1>2, <1>4
  <2>2. BytesKept(w) /\ LinkKept(w)
    <3>1. DataOnDisk
      BY <1>1, <2>1 DEF ReadChunk, CarefulRead
    <3> QED
      BY <1>1, <3>1 DEF DataOnDisk, BytesKept, LinkKept
  <2>3. NextRead(vol, w, q, data, ext, bytes)
    BY <1>3, <2>1, <2>2, NextReadIs
  <2> QED
    BY <2>3
<1>5. /\ IsFile(vol, b, data, ext, bytes) /\ b.ok /\ b.file.posInDataBlk < BlockSize
      /\ b.file.pos = file.pos /\ b.file.fileHdr = file.fileHdr
  <2>1. CASE w.file.posInDataBlk < BlockSize
    BY <1>1, <2>1 DEF BlockToRead
  <2>2. CASE ~(w.file.posInDataBlk < BlockSize)
    <3> DEFINE r == Rewound(q, FALSE)
    <3>1. NextRead(vol, w, q, data, ext, bytes) /\ b = r
      BY <1>4, <2>2 DEF BlockToRead
    <3> HIDE DEF q, b
    <3>4. q \in WorldSet(vol) /\ q.ok
      BY <3>1 DEF NextRead
    <3>5. Moves(vol, q, RewoundFile(q, FALSE), r) /\ q.file \in FileSet(vol)
      BY <3>4, RewoundIs, WorldParts
    <3> HIDE DEF r
    <3>6. r \in WorldSet(vol) /\ r.ok /\ SameInMemory(q, r) /\ r.file.pos = q.file.pos
          /\ r.file.posInDataBlk = 0
      BY <3>4, <3>5 DEF Moves, RewoundFile, SameInMemory, FileSet
    <3>7. UpToDate(vol, r, data, ext, bytes) /\ SameDisk(w, r) /\ r.file.pos = w.file.pos
      BY <3>1, <3>6 DEF NextRead
    <3>2. IsFile(vol, r, data, ext, bytes)
      BY <3>7, FileUpToDate
    <3>3. r.ok /\ r.file.posInDataBlk = 0 /\ r.file.pos = w.file.pos
          /\ r.file.fileHdr = w.file.fileHdr
      BY <3>6, <3>7 DEF SameDisk
    <3> QED
      BY <1>1, <1>2, <3>1, <3>2, <3>3
  <2> QED
    BY <2>1, <2>2
<1>6. m <= BlockSize - b.file.posInDataBlk /\ file.pos + m <= Size(World) /\ Becomes(Ahead(b, m))
  <2> DEFINE W == IF file.posInDataBlk < BlockSize THEN World
                  ELSE IF ~adfFileReadNextBlock(World).ok
                    THEN FailsWithoutData(adfFileReadNextBlock(World))
                  ELSE [adfFileReadNextBlock(World) EXCEPT !.file.posInDataBlk = 0,
                                                           !.file.changed = FALSE]
  <2>1. IF ~W.ok THEN m = 1 /\ Becomes(W)
        ELSE /\ m <= BlockSize - W.file.posInDataBlk
             /\ file.pos + m <= Size(World)
             /\ Becomes([W EXCEPT !.file.pos = @ + m, !.file.posInDataBlk = @ + m])
    BY Zenon DEF ReadChunk
  <2>2. W = b
    <3>1. ~(w.file.posInDataBlk < BlockSize) => q.ok
      BY <1>4 DEF NextRead
    <3> QED
      BY <1>1, <3>1, Zenon DEF BlockToRead, Rewound
  <2> HIDE DEF W, b
  <2>3. /\ m <= BlockSize - b.file.posInDataBlk /\ file.pos + m <= Size(World)
        /\ Becomes([b EXCEPT !.file.pos = @ + m, !.file.posInDataBlk = @ + m])
    BY <1>5, <2>1, <2>2, Zenon
  <2>4. [b EXCEPT !.file.pos = @ + m, !.file.posInDataBlk = @ + m] = Ahead(b, m)
    BY DEF Ahead, Placed
  <2> QED
    BY <2>3, <2>4, Zenon
<1> HIDE DEF b
<1>7. file.pos + m <= file.fileHdr.byteSize
  BY <1>1, <1>6 DEF Size
<1>8. /\ IsFile(vol, Ahead(b, m), data, ext, bytes) /\ SameDisk(b, Ahead(b, m))
      /\ Ahead(b, m).file.pos = file.pos + m
  BY <1>2, <1>5, <1>6, <1>7, AheadIs
<1>9. World' = Ahead(b, m)
  <2>1. Ahead(b, m) \in WorldSet(vol) /\ Ahead(b, m).ok
    BY <1>8 DEF IsFile
  <2> QED
    BY <1>6, <2>1, BecomesIs
<1>10. file' = Ahead(b, m).file
  BY <1>6 DEF Becomes
<1> QED
  BY <1>5, <1>7, <1>8, <1>9, <1>10 DEF SameDisk

-----------------------------------------------------------------------------
(* Writing into the data block in memory *)

\* The bytes of a block after m bytes b were put at p, its size, and the size
\* of the file.
PutBytes(old, p, m, b) == [i \in Offsets |-> IF i \in p..(p + m - 1) THEN b ELSE old[i]]
PutSize(v, d, p) == IF v.ofs /\ d.dataSize < p THEN p ELSE d.dataSize
PutData(v, d, p, m, b) == [[d EXCEPT !.bytes = PutBytes(d.bytes, p, m, b)] EXCEPT
                             !.dataSize = PutSize(v, d, p + m)]
Extended(size, end) == IF end > size THEN end ELSE size

\* What m bytes b that are put into the block in memory change.
StoredIs(v, w, m, b, r) ==
  /\ r \in WorldSet(v) /\ r.ok = w.ok /\ r.disk = w.disk /\ r.header = w.header
  /\ r.free = w.free
  /\ r.file.fileHdr = [w.file.fileHdr EXCEPT !.byteSize = Extended(@, w.file.pos + m)]
  /\ r.file.currentExt = w.file.currentExt /\ r.file.curDataPtr = w.file.curDataPtr
  /\ r.file.currentData.bytes = PutBytes(w.file.currentData.bytes, w.file.posInDataBlk, m, b)
  /\ r.file.currentData.nextData = w.file.currentData.nextData
  /\ r.file.changed = TRUE /\ r.file.pos = w.file.pos + m
  /\ r.file.posInDataBlk = w.file.posInDataBlk + m
  /\ r.file.posInExtBlk = w.file.posInExtBlk /\ r.file.nDataBlock = w.file.nDataBlock

\* The block after bytes were put into it is a block.
LEMMA PutDataIs ==
  ASSUME NEW v \in Volumes, NEW d \in DataSet(v), NEW p \in 0..BlockSize, NEW m \in Nat,
         p + m <= BlockSize, NEW b \in Bytes
  PROVE  /\ PutData(v, d, p, m, b) \in DataSet(v)
         /\ PutData(v, d, p, m, b).bytes = PutBytes(d.bytes, p, m, b)
         /\ PutData(v, d, p, m, b).nextData = d.nextData
<1> DEFINE B == PutBytes(d.bytes, p, m, b)
           z == PutSize(v, d, p + m)
<1>1. d.bytes \in [Offsets -> Bytes] /\ d.dataSize \in 0..BlockSize
  BY DEF DataSet
<1>2. B \in [Offsets -> Bytes]
  BY <1>1 DEF PutBytes
<1>3. z \in 0..BlockSize
  BY <1>1, VolumeParts DEF PutSize
<1> HIDE DEF B, z
<1>4. PutData(v, d, p, m, b) = [[d EXCEPT !.bytes = B] EXCEPT !.dataSize = z]
  BY DEF PutData, B, z
<1> HIDE DEF B
<1> QED
  BY <1>2, <1>3, <1>4 DEF DataSet, B

\* Put, in terms of the file it makes.
LEMMA PutParts ==
  ASSUME vol \in Volumes, NEW w \in WorldSet(vol), NEW m \in 1..BlockSize, NEW b \in Bytes,
         w.file.posInDataBlk + m <= BlockSize, w.file.pos + m <= vol.maxSize
  PROVE  StoredIs(vol, w, m, b, Put(w, m, b))
<1> DEFINE f == w.file
           d == f.currentData
           B == PutBytes(d.bytes, f.posInDataBlk, m, b)
           z == PutSize(vol, d, f.posInDataBlk + m)
           d1 == [d EXCEPT !.bytes = B]
           d2 == [d1 EXCEPT !.dataSize = z]
           h2 == [f.fileHdr EXCEPT !.byteSize = Extended(f.fileHdr.byteSize, f.pos + m)]
           g1 == [f EXCEPT !.currentData = d1]
           g2 == [g1 EXCEPT !.currentData = d2]
           g3 == [g2 EXCEPT !.fileHdr = h2]
           g4 == [g3 EXCEPT !.pos = f.pos + m]
           g5 == [g4 EXCEPT !.posInDataBlk = f.posInDataBlk + m]
           g6 == [g5 EXCEPT !.changed = TRUE]
<1>1. /\ w = InFile(w, f) /\ f \in FileSet(vol) /\ f.fileHdr \in HeaderSet(vol)
      /\ d \in DataSet(vol) /\ f.pos \in Nat /\ f.posInDataBlk \in 0..BlockSize
      /\ f.fileHdr.byteSize \in Nat /\ f.fileHdr.byteSize <= vol.maxSize
  BY WorldParts DEF InFile
<1>2. BlockSize \in Nat /\ vol.maxSize \in Nat /\ m \in Nat
  BY VolumeParts
<1>3. d2 \in DataSet(vol) /\ d2.bytes = B /\ d2.nextData = d.nextData
  <2>1. d2 = PutData(vol, d, f.posInDataBlk, m, b)
    BY DEF PutData
  <2> HIDE DEF d, d2, B
  <2> QED
    BY <1>1, <1>2, <2>1, PutDataIs DEF B
<1>4. h2 \in HeaderSet(vol)
  <2>1. Extended(f.fileHdr.byteSize, f.pos + m) \in 0..vol.maxSize
    BY <1>1, <1>2 DEF Extended
  <2> QED
    BY <1>1, <2>1 DEF HeaderSet
<1>5. Put(w, m, b) = InFile(w, g6)
  <2> DEFINE w1 == [w EXCEPT !.file = [w.file EXCEPT !.currentData =
                      [w.file.currentData EXCEPT !.bytes = B]]]
             w2 == [w1 EXCEPT !.file = [w1.file EXCEPT !.currentData =
                      [w1.file.currentData EXCEPT !.dataSize = z]]]
             w3 == [w2 EXCEPT !.file = [w2.file EXCEPT !.fileHdr =
                      [w2.file.fileHdr EXCEPT !.byteSize = Extended(f.fileHdr.byteSize, f.pos + m)]]]
             w4 == [w3 EXCEPT !.file = [w3.file EXCEPT !.pos = f.pos + m]]
             w5 == [w4 EXCEPT !.file = [w4.file EXCEPT !.posInDataBlk = f.posInDataBlk + m]]
             w6 == [w5 EXCEPT !.file = [w5.file EXCEPT !.changed = TRUE]]
  <2>1. Put(w, m, b) = w6
    BY Zenon DEF Put, Stored, PutBytes, PutSize, Extended, OFS
  <2>2. w1 = InFile(w, g1) /\ g1.currentData = d1
    <3>1. w1 = [InFile(w, f) EXCEPT !.file = g1]
      BY <1>1
    <3> QED
      BY <1>1, <3>1, InFileIs DEF FileSet
  <2>8. g2.fileHdr = f.fileHdr
    BY <1>1 DEF FileSet
  <2> HIDE DEF w1, g1, d1
  <2>3. w2 = InFile(w, g2)
    <3>1. w2 = [InFile(w, g1) EXCEPT !.file = g2]
      BY <2>2, InFileIs
    <3> QED
      BY <3>1, InFileIs
  <2> HIDE DEF w2, g2, d2
  <2>4. w3 = InFile(w, g3)
    <3>1. w3 = [InFile(w, g2) EXCEPT !.file = g3]
      BY <2>3, <2>8, InFileIs
    <3> QED
      BY <3>1, InFileIs
  <2> HIDE DEF w3, g3
  <2>5. w4 = InFile(w, g4)
    <3>1. w4 = [InFile(w, g3) EXCEPT !.file = g4]
      BY <2>4, InFileIs
    <3> QED
      BY <3>1, InFileIs
  <2> HIDE DEF w4, g4
  <2>6. w5 = InFile(w, g5)
    <3>1. w5 = [InFile(w, g4) EXCEPT !.file = g5]
      BY <2>5, InFileIs
    <3> QED
      BY <3>1, InFileIs
  <2> HIDE DEF w5, g5
  <2>7. w6 = [InFile(w, g5) EXCEPT !.file = g6]
    BY <2>6, InFileIs
  <2> QED
    BY <2>1, <2>7, InFileIs
<1>6. g6 \in FileSet(vol)
  <2>1. f.pos + m \in 0..vol.maxSize /\ f.posInDataBlk + m \in 0..BlockSize
    BY <1>1, <1>2
  <2> HIDE DEF h2, d2, d1, f
  <2>2. g1 = [f EXCEPT !.currentData = d1] /\ g2 = [f EXCEPT !.currentData = d2]
    BY <1>1 DEF FileSet
  <2> HIDE DEF g1, g2
  <2>3. g2 \in FileSet(vol)
    BY <1>1, <1>3, <2>2 DEF FileSet
  <2> QED
    BY <1>4, <2>1, <2>3 DEF FileSet
<1>7. /\ g6.fileHdr = h2 /\ g6.currentExt = f.currentExt /\ g6.curDataPtr = f.curDataPtr
      /\ g6.currentData = d2 /\ g6.changed = TRUE /\ g6.pos = f.pos + m
      /\ g6.posInDataBlk = f.posInDataBlk + m /\ g6.posInExtBlk = f.posInExtBlk
      /\ g6.nDataBlock = f.nDataBlock
  <2> HIDE DEF h2, d2, d1, f
  <2> QED
    BY <1>1 DEF FileSet
<1> DEFINE r == Put(w, m, b)
<1> HIDE DEF g6, r
<1>8. /\ r.file = g6 /\ r.disk = w.disk /\ r.free = w.free /\ r.header = w.header /\ r.ok = w.ok
      /\ r \in WorldSet(vol)
  BY <1>5, <1>6 DEF r, InFile, WorldSet
<1> HIDE DEF h2, d2, B
<1>9. /\ r.file.fileHdr = h2 /\ r.file.currentExt = f.currentExt
      /\ r.file.curDataPtr = f.curDataPtr /\ r.file.currentData.bytes = B
      /\ r.file.currentData.nextData = d.nextData /\ r.file.changed = TRUE
      /\ r.file.pos = f.pos + m /\ r.file.posInDataBlk = f.posInDataBlk + m
      /\ r.file.posInExtBlk = f.posInExtBlk /\ r.file.nDataBlock = f.nDataBlock
  BY <1>3, <1>7, <1>8
<1>10. StoredIs(vol, w, m, b, r)
  BY <1>8, <1>9 DEF StoredIs, h2, B
<1> QED
  BY <1>10 DEF r

\* A file of n data blocks that is ready to be written to at its position, in
\* the data block in memory; the last block may be a new one without a byte yet.
Ready(v, w, n, data, ext, bytes) ==
  /\ w \in WorldSet(v) /\ w.ok /\ n \in Nat \ {0}
  /\ Owns(v, w.free, n, data, ext)
  /\ Lists(v, w.file.fileHdr, ExtsNow(v, w.file, w.disk), n, data, ext)
  /\ Holds(v, DataNow(v, w.file, w.disk), n, data, bytes)
  /\ w.file.nDataBlock \in 1..n /\ w.file.curDataPtr = data[w.file.nDataBlock - 1]
  /\ w.file.pos = BlockSize * (w.file.nDataBlock - 1) + w.file.posInDataBlk
  /\ w.file.posInDataBlk < BlockSize /\ w.file.pos <= w.file.fileHdr.byteSize
  /\ ExtPlaced(v, w.file, n, ext)
  /\ w.file.nDataBlock = n \/ (HeaderKept(w) /\ LinkKept(w))
  /\ \/ n = Count(w.file.fileHdr.byteSize)
     \/ w.file.nDataBlock = n /\ w.file.pos = w.file.fileHdr.byteSize

\* The bytes of a file of n data blocks after m bytes b were put at p of block k.
PutInto(bytes, n, k, p, m, b) ==
  [j \in 0..(n - 1) |-> IF j = k THEN PutBytes(bytes[k], p, m, b) ELSE bytes[j]]

\* The lists of a file do not depend on its size.
LEMMA ListsSame ==
  ASSUME NEW v \in Volumes, NEW h, NEW x, NEW n, NEW data, NEW ext, Lists(v, h, x, n, data, ext),
         NEW h2, h2.dataBlocks = h.dataBlocks, h2.extension = h.extension,
         h2.highSeq = h.highSeq, h2.firstData = h.firstData
  PROVE  Lists(v, h2, x, n, data, ext)
<1>1. Listed(v, h2, x, n, data, ext)
  BY DEF Lists, Listed, ListAt
<1>2. Linked(v, h2, x, n, ext)
  BY DEF Lists, Linked, ListAt
<1>3. Counted(v, h2, x, n, ext)
  BY DEF Lists, Counted, ListAt
<1>4. Keyed(v, x, n, ext) /\ FirstIs(h2, n, data)
  BY DEF Lists, FirstIs
<1> QED
  BY <1>1, <1>2, <1>3, <1>4 DEF Lists

\* Writing does not change the number of data blocks of a file that is ready.
LEMMA PutCount ==
  ASSUME NEW v \in Volumes, NEW w, NEW n, NEW data, NEW ext, NEW bytes,
         Ready(v, w, n, data, ext, bytes),
         NEW m \in 1..BlockSize, w.file.posInDataBlk + m <= BlockSize,
         NEW size, size = Extended(w.file.fileHdr.byteSize, w.file.pos + m)
  PROVE  /\ size \in Nat /\ n = Count(size) /\ w.file.pos + m <= size
         /\ w.file.nDataBlock # n => size = w.file.fileHdr.byteSize
<1> DEFINE p == w.file.posInDataBlk
           k == w.file.nDataBlock - 1
           end == w.file.pos + m
           old == w.file.fileHdr.byteSize
<1>1. /\ BlockSize \in Nat \ {0} /\ p \in Nat /\ old \in Nat /\ w.file.pos \in Nat
      /\ w.file.nDataBlock \in Nat /\ n \in Nat \ {0} /\ w.file.pos <= old
      /\ w.file.nDataBlock >= 1 /\ w.file.nDataBlock <= n
  <2>1. w \in WorldSet(v)
    BY DEF Ready
  <2>2. /\ p \in 0..BlockSize /\ old \in Nat /\ w.file.pos \in Nat /\ w.file.nDataBlock \in Nat
    BY <2>1, WorldParts
  <2> QED
    BY <2>2, VolumeParts DEF Ready
<1>2. w.file.pos = BlockSize * k + p /\ k \in Nat /\ BlockSize * k \in Int
  BY <1>1 DEF Ready
<1>3. /\ n = Count(old) \/ (w.file.nDataBlock = n /\ w.file.pos = old)
  BY DEF Ready
<1>4. CASE end > old
  <2>1. size = end /\ end \in Nat /\ end > 0
    BY <1>1, <1>4 DEF Extended
  <2>2. end - 1 = BlockSize * k + (p + m - 1) /\ p + m - 1 \in 0..(BlockSize - 1) /\ end - 1 \in Nat
    BY <1>1, <1>2
  <2>3. (end - 1) \div BlockSize = k
    BY <1>2, <2>2, BlockOf
  <2>4. Count(end) = k + 1
    BY <2>1, <2>3 DEF Count
  <2>5. w.file.nDataBlock = n
    <3>1. CASE n = Count(old)
      <4>1. old > 0 /\ BlockSize * (n - 1) < old
        BY <1>1, <3>1, CountIs
      <4>2. BlockSize * (n - 1) < BlockSize * k + BlockSize /\ BlockSize * (n - 1) \in Int
        BY <1>1, <1>2, <1>4, <4>1
      <4>3. CASE k + 1 < n
        <5>1. BlockSize * (n - 1) >= BlockSize * (k + 1)
          BY <1>1, <1>2, <4>3, TimesMonotone
        <5>2. BlockSize * (k + 1) = BlockSize * k + BlockSize
          BY <1>1, <1>2
        <5> QED
          BY <1>1, <1>2, <4>2, <5>1, <5>2
      <4> QED
        BY <1>1, <1>2, <4>3
    <3> QED
      BY <1>3, <3>1
  <2> QED
    BY <1>1, <2>1, <2>4, <2>5
<1>5. CASE ~(end > old)
  <2>1. size = old
    BY <1>5 DEF Extended
  <2>2. n = Count(old)
    BY <1>1, <1>3, <1>5
  <2> QED
    BY <1>1, <1>5, <2>1, <2>2
<1> QED
  BY <1>4, <1>5

\* Putting bytes into a file that is ready makes it a file that holds them.
LEMMA PutIs ==
  ASSUME vol \in Volumes, NEW w, NEW n, NEW data, NEW ext, NEW bytes,
         Ready(vol, w, n, data, ext, bytes),
         NEW m \in 1..BlockSize, w.file.posInDataBlk + m <= BlockSize,
         w.file.pos + m <= vol.maxSize, NEW b \in Bytes
  PROVE  /\ IsFile(vol, Put(w, m, b), data, ext,
                   PutInto(bytes, n, w.file.nDataBlock - 1, w.file.posInDataBlk, m, b))
         /\ Put(w, m, b).file.fileHdr.byteSize
              = Extended(w.file.fileHdr.byteSize, w.file.pos + m)
         /\ n = Count(Put(w, m, b).file.fileHdr.byteSize)
         /\ Put(w, m, b).file.pos = w.file.pos + m
<1> DEFINE p == w.file.posInDataBlk
           k == w.file.nDataBlock - 1
           size == Extended(w.file.fileHdr.byteSize, w.file.pos + m)
           r == Put(w, m, b)
           bytes2 == PutInto(bytes, n, k, p, m, b)
<1>1. /\ w \in WorldSet(vol) /\ w.ok /\ n \in Nat \ {0} /\ Owns(vol, w.free, n, data, ext)
      /\ Lists(vol, w.file.fileHdr, ExtsNow(vol, w.file, w.disk), n, data, ext)
      /\ Holds(vol, DataNow(vol, w.file, w.disk), n, data, bytes)
      /\ w.file.nDataBlock \in 1..n /\ w.file.curDataPtr = data[k]
      /\ w.file.pos = BlockSize * k + p /\ ExtPlaced(vol, w.file, n, ext)
      /\ w.file.nDataBlock = n \/ (HeaderKept(w) /\ LinkKept(w))
  BY DEF Ready
<1>2. /\ size \in Nat /\ n = Count(size) /\ w.file.pos + m <= size
      /\ w.file.nDataBlock # n => size = w.file.fileHdr.byteSize
  BY PutCount
<1>3. StoredIs(vol, w, m, b, r)
  BY <1>1, PutParts
<1>4. w.file.fileHdr \in HeaderSet(vol) /\ w.file.pos \in Nat /\ p \in Nat /\ BlockSize \in Nat
      /\ m \in Nat
  <2>1. w.file.fileHdr \in HeaderSet(vol) /\ w.file.pos \in Nat /\ p \in 0..BlockSize
    BY <1>1, WorldParts
  <2> QED
    BY <2>1, VolumeParts
<1> HIDE DEF r
<1>5. /\ r.file.fileHdr.byteSize = size /\ r.file.fileHdr.dataBlocks = w.file.fileHdr.dataBlocks
      /\ r.file.fileHdr.extension = w.file.fileHdr.extension
      /\ r.file.fileHdr.highSeq = w.file.fileHdr.highSeq
      /\ r.file.fileHdr.firstData = w.file.fileHdr.firstData
      /\ size = w.file.fileHdr.byteSize => r.file.fileHdr = w.file.fileHdr
  <2> HIDE DEF size
  <2>1. r.file.fileHdr = [w.file.fileHdr EXCEPT !.byteSize = size]
    BY <1>3 DEF StoredIs, size
  <2> QED
    BY <1>4, <2>1 DEF HeaderSet
<1> HIDE DEF size
<1>6. /\ r.file.currentExt = w.file.currentExt /\ r.disk = w.disk /\ r.free = w.free
      /\ r.header = w.header /\ r \in WorldSet(vol) /\ r.ok
      /\ r.file.curDataPtr = w.file.curDataPtr /\ r.file.nDataBlock = w.file.nDataBlock
      /\ r.file.posInExtBlk = w.file.posInExtBlk /\ r.file.changed
      /\ r.file.pos = w.file.pos + m /\ r.file.posInDataBlk = p + m
      /\ r.file.currentData.bytes = PutBytes(w.file.currentData.bytes, p, m, b)
      /\ r.file.currentData.nextData = w.file.currentData.nextData
  BY <1>1, <1>3 DEF StoredIs
<1>7. Lists(vol, r.file.fileHdr, ExtsNow(vol, r.file, r.disk), n, data, ext)
  <2>1. ExtsNow(vol, r.file, r.disk) = ExtsNow(vol, w.file, w.disk)
    BY <1>6 DEF ExtsNow
  <2> QED
    BY <1>1, <1>5, <2>1, ListsSame
<1>8. Holds(vol, DataNow(vol, r.file, r.disk), n, data, bytes2)
  <2> DEFINE y == DataNow(vol, w.file, w.disk)
             y2 == DataNow(vol, r.file, r.disk)
  <2>1. k \in 0..(n - 1) /\ \A j \in 0..(n - 1) : data[j] \in vol.sectors
        /\ (data[j] = data[k] => j = k)
    BY <1>1 DEF Owns
  <2>2. \A j \in 0..(n - 1) : /\ j # k => y2[data[j]] = y[data[j]]
                              /\ y2[data[k]] = r.file.currentData /\ y[data[k]] = w.file.currentData
    BY <1>1, <1>6, <2>1 DEF DataNow
  <2>3. bytes[k] = w.file.currentData.bytes
    BY <1>1, <2>1, <2>2 DEF Holds
  <2>4. \A j \in 0..(n - 1) : /\ y2[data[j]].nextData = y[data[j]].nextData
                              /\ y[data[j]].bytes = bytes[j]
    BY <1>1, <1>6, <2>1, <2>2 DEF Holds
  <2> HIDE DEF y2, y, k
  <2>5. \A j \in 0..(n - 1) : y2[data[j]].bytes = bytes2[j]
    BY <1>6, <2>1, <2>2, <2>3, <2>4 DEF PutInto
  <2> HIDE DEF bytes2
  <2>6. vol.ofs => \A j \in 0..(n - 1) : y2[data[j]].nextData = LinkOf(n, data, j)
    BY <1>1, <2>4 DEF Holds, y
  <2> QED
    BY <2>5, <2>6 DEF Holds, y2
<1> HIDE DEF bytes2
<1>9. FileIs(vol, r.file.fileHdr, ExtsNow(vol, r.file, r.disk), DataNow(vol, r.file, r.disk),
             r.free, data, ext, bytes2)
  BY <1>1, <1>2, <1>5, <1>6, <1>7, <1>8 DEF FileIs
<1>10. DataPlaced(r.file, n, data)
  <2>1. w.file.pos + m = BlockSize * k + (p + m)
    <3>1. BlockSize * k \in Int
      BY <1>1, <1>4
    <3> QED
      BY <1>1, <1>4, <3>1
  <2> HIDE DEF p
  <2>2. n # 0 /\ w.file.nDataBlock <= n /\ w.file.nDataBlock >= 1
    BY <1>1
  <2>3. /\ r.file.pos = BlockSize * (r.file.nDataBlock - 1) + r.file.posInDataBlk
        /\ r.file.curDataPtr = data[r.file.nDataBlock - 1] /\ r.file.nDataBlock >= 1
        /\ r.file.nDataBlock <= n /\ r.file.pos <= r.file.fileHdr.byteSize
    BY <1>1, <1>2, <1>5, <1>6, <2>1, <2>2
  <2> HIDE DEF k
  <2> QED
    BY <2>2, <2>3 DEF DataPlaced
<1>11. ExtPlaced(vol, r.file, n, ext)
  BY <1>1, <1>6 DEF ExtPlaced
<1>12. Marked(r, n)
  <2>1. CASE w.file.nDataBlock = n
    BY <1>6, <2>1 DEF Marked
  <2>2. CASE w.file.nDataBlock # n
    <3>1. HeaderKept(w) /\ LinkKept(w) /\ r.file.fileHdr = w.file.fileHdr
      BY <1>1, <1>2, <1>5, <2>2
    <3>2. HeaderKept(r)
      BY <1>6, <3>1 DEF HeaderKept
    <3>3. LinkKept(r)
      BY <1>6, <3>1 DEF LinkKept
    <3> QED
      BY <1>6, <3>2, <3>3 DEF Marked
  <2> QED
    BY <2>1, <2>2
<1>13. IsFile(vol, r, data, ext, bytes2)
  BY <1>2, <1>5, <1>6, <1>9, <1>10, <1>11, <1>12 DEF IsFile
<1> QED
  BY <1>2, <1>5, <1>6, <1>13 DEF r, bytes2, size

\* A file with its position inside the data block in memory is ready.
LEMMA ReadyInBlock ==
  ASSUME NEW v \in Volumes, NEW w, NEW data, NEW ext, NEW bytes, IsFile(v, w, data, ext, bytes),
         w.file.fileHdr.byteSize # 0, w.file.posInDataBlk < BlockSize
  PROVE  Ready(v, w, Count(w.file.fileHdr.byteSize), data, ext, bytes)
<1> DEFINE n == Count(w.file.fileHdr.byteSize)
<1>1. /\ w \in WorldSet(v) /\ w.ok /\ DataPlaced(w.file, n, data) /\ ExtPlaced(v, w.file, n, ext)
      /\ Marked(w, n)
      /\ FileIs(v, w.file.fileHdr, ExtsNow(v, w.file, w.disk), DataNow(v, w.file, w.disk),
                w.free, data, ext, bytes)
  BY DEF IsFile
<1>2. n \in Nat /\ n # 0 /\ w.file.nDataBlock \in Nat
  BY <1>1, FileParts, WorldParts
<1>3. /\ Owns(v, w.free, n, data, ext)
      /\ Lists(v, w.file.fileHdr, ExtsNow(v, w.file, w.disk), n, data, ext)
      /\ Holds(v, DataNow(v, w.file, w.disk), n, data, bytes)
  BY <1>1 DEF FileIs
<1>4. w.file.nDataBlock = n \/ (HeaderKept(w) /\ LinkKept(w))
  BY <1>1 DEF Marked
<1> HIDE DEF n
<1>5. /\ w.file.nDataBlock \in 1..n /\ w.file.curDataPtr = data[w.file.nDataBlock - 1]
      /\ w.file.pos = BlockSize * (w.file.nDataBlock - 1) + w.file.posInDataBlk
      /\ w.file.pos <= w.file.fileHdr.byteSize
  <2>1. n > 0
    BY <1>2
  <2> QED
    BY <1>1, <1>2, <2>1 DEF DataPlaced
<1>6. n \in Nat \ {0} /\ n = Count(w.file.fileHdr.byteSize)
  BY <1>2 DEF n
<1>7. Ready(v, w, n, data, ext, bytes)
  BY <1>1, <1>3, <1>4, <1>5, <1>6 DEF Ready
<1> QED
  BY <1>7 DEF n

\* The file at the start of the block in memory, without a change of the mark.
Restarted(w) == [w EXCEPT !.file.posInDataBlk = 0]

\* Only the position in the block is set.
LEMMA RestartedIs ==
  ASSUME NEW v \in Volumes, NEW w \in WorldSet(v)
  PROVE  /\ Restarted(w) \in WorldSet(v) /\ Restarted(w).ok = w.ok
         /\ SameInMemory(w, Restarted(w)) /\ Restarted(w).file.pos = w.file.pos
         /\ Restarted(w).file.posInDataBlk = 0 /\ Restarted(w).file.changed = w.file.changed
<1> DEFINE g == [w.file EXCEPT !.posInDataBlk = 0]
           r == Restarted(w)
<1>1. w = InFile(w, w.file) /\ w.file \in FileSet(v)
  BY WorldParts DEF InFile
<1>2. 0 \in 0..BlockSize
  BY VolumeParts
<1>3. g \in FileSet(v) /\ g.fileHdr = w.file.fileHdr
  BY <1>1, <1>2 DEF FileSet
<1>4. r = InFile(w, g)
  <2>1. r = [InFile(w, w.file) EXCEPT !.file = g]
    BY <1>1 DEF Restarted
  <2> HIDE DEF g, r
  <2> QED
    BY <2>1, InFileIs
<1> HIDE DEF r
<1>5. Moves(v, w, g, r)
  <2> HIDE DEF g
  <2> QED
    BY <1>3, <1>4, InFileKeeps
<1>6. /\ r \in WorldSet(v) /\ r.ok = w.ok /\ SameInMemory(w, r) /\ r.file.pos = w.file.pos
      /\ r.file.posInDataBlk = 0 /\ r.file.changed = w.file.changed
  BY <1>1, <1>5 DEF Moves, SameInMemory, FileSet
<1> QED
  BY <1>6 DEF r

\* A position at a multiple of the size of a block is at the start of the block
\* in memory or behind it.
LEMMA AtBoundary ==
  ASSUME NEW v \in Volumes, NEW w, NEW data, NEW ext, NEW bytes, IsFile(v, w, data, ext, bytes)
  PROVE  /\ w.file.pos % BlockSize = 0 => w.file.posInDataBlk \in {0, BlockSize}
         /\ w.file.pos % BlockSize # 0 =>
              w.file.posInDataBlk < BlockSize /\ w.file.fileHdr.byteSize # 0
<1> DEFINE n == Count(w.file.fileHdr.byteSize)
           p == w.file.posInDataBlk
           k == w.file.nDataBlock - 1
<1>1. /\ w \in WorldSet(v) /\ n \in Nat /\ DataPlaced(w.file, n, data)
      /\ n = 0 => w.file.fileHdr.byteSize = 0
  BY FileParts DEF IsFile
<1>2. /\ p \in 0..BlockSize /\ w.file.pos \in Nat /\ w.file.nDataBlock \in Nat
      /\ w.file.fileHdr.byteSize \in Nat
      /\ BlockSize \in Nat \ {0}
  BY <1>1, WorldParts, VolumeParts
<1> HIDE DEF n
<1>3. CASE n = 0
  <2>1. p = 0 /\ w.file.pos = 0
    BY <1>1, <1>2, <1>3 DEF DataPlaced
  <2>2. 0 = BlockSize * 0 + 0
    BY <1>2
  <2>3. 0 % BlockSize = 0
    BY <1>2, <2>2, BlockOf
  <2> QED
    BY <2>1, <2>3
<1>4. CASE n # 0
  <2>1. k \in Nat /\ w.file.pos = BlockSize * k + p
    BY <1>1, <1>2, <1>4 DEF DataPlaced
  <2>2. w.file.fileHdr.byteSize # 0
    BY <1>1, <1>2, <1>4, CountIs DEF n
  <2> HIDE DEF k
  <2>3. CASE p = BlockSize
    <3>1. w.file.pos = BlockSize * (k + 1) + 0 /\ 0 \in 0..(BlockSize - 1) /\ k + 1 \in Nat
      BY <1>2, <2>1, <2>3
    <3>2. w.file.pos % BlockSize = 0
      BY <1>2, <3>1, BlockOf
    <3> QED
      BY <2>3, <3>2
  <2>4. CASE p # BlockSize
    <3>1. p \in 0..(BlockSize - 1)
      BY <1>2, <2>4
    <3>2. w.file.pos % BlockSize = p
      BY <1>2, <2>1, <3>1, BlockOf
    <3> QED
      BY <1>2, <2>2, <3>1, <3>2
  <2> QED
    BY <2>3, <2>4
<1> QED
  BY <1>3, <1>4

\* A turn of adfFileWrite that extends the file.
Extends(w) == w.file.pos % BlockSize = 0 /\ w.file.pos = Size(w)

\* Every other turn writes to a block the file has, in memory or read from the
\* disk after what was changed before it was written.
LEMMA ReadyToOverwrite ==
  ASSUME vol \in Volumes, NEW data, NEW ext, NEW bytes, IsFile(vol, World, data, ext, bytes),
         SmallOfs(vol), ~Extends(World)
  PROVE  /\ Ready(vol, BlockToWrite, Count(file.fileHdr.byteSize), data, ext, bytes)
         /\ BlockToWrite.file.fileHdr = file.fileHdr /\ BlockToWrite.file.pos = file.pos
<1> DEFINE w == World
           n == Count(file.fileHdr.byteSize)
           f == FlushIfChanged(w)
           q == adfFileReadNextBlock(f)
<1>1. w.file = file /\ w.ok = TRUE
  BY DEF World
<1>2. w \in WorldSet(vol) /\ f \in WorldSet(vol)
  <2>1. f \in WorldSet(vol)
    BY FlushIfChangedKeeps DEF UpToDate, IsRead
  <2> QED
    BY <2>1 DEF IsFile
<1>3. /\ file.pos % BlockSize = 0 => file.posInDataBlk \in {0, BlockSize}
      /\ file.pos % BlockSize # 0 => file.posInDataBlk < BlockSize /\ file.fileHdr.byteSize # 0
  BY <1>1, AtBoundary
<1>4. BlockSize \in Nat \ {0}
  BY VolumeParts
<1>5. CASE file.pos % BlockSize # 0
  <2>1. BlockToWrite = w
    BY <1>5 DEF BlockToWrite
  <2>2. Ready(vol, w, n, data, ext, bytes)
    BY <1>1, <1>3, <1>5, ReadyInBlock
  <2> QED
    BY <1>1, <2>1, <2>2
<1>6. CASE file.pos % BlockSize = 0
  <2>1. ~adfFileAtEOF(World) /\ file.pos # file.fileHdr.byteSize
    BY <1>1, <1>6 DEF adfFileAtEOF, Extends, Size
  <2>2. file.fileHdr.byteSize # 0
    <3>2. file.pos \in Nat
      BY <1>1, <1>2, WorldParts
    <3>4. file.pos <= file.fileHdr.byteSize
      BY <1>1 DEF IsFile, DataPlaced
    <3> QED
      BY <2>1, <3>2, <3>4
  <2>3. CASE file.posInDataBlk < BlockSize
    <3> DEFINE r == Restarted(w)
    <3>1. BlockToWrite = r
      BY <1>1, <1>6, <2>1, <2>3, Zenon DEF BlockToWrite, Restarted
    <3>2. /\ r \in WorldSet(vol) /\ r.ok /\ SameInMemory(w, r) /\ r.file.pos = w.file.pos
          /\ r.file.posInDataBlk = 0 /\ r.file.changed = w.file.changed
      BY <1>1, <1>2, RestartedIs
    <3> HIDE DEF r
    <3>3. r.file.fileHdr = file.fileHdr
      BY <1>1, <3>2 DEF SameInMemory, SameDisk
    <3>4. w.file.posInDataBlk = 0
      BY <1>1, <1>3, <1>4, <1>6, <2>3
    <3>5. DataPlaced(r.file, n, data)
      <4>1. DataPlaced(w.file, n, data)
        BY <1>1 DEF IsFile
      <4> QED
        BY <1>1, <3>2, <3>3, <3>4, <4>1 DEF DataPlaced, SameInMemory
    <3>6. IsFile(vol, r, data, ext, bytes)
      BY <1>1, <3>2, <3>5, FileAfter
    <3>7. Ready(vol, r, n, data, ext, bytes)
      BY <1>4, <2>2, <3>2, <3>3, <3>6, ReadyInBlock
    <3> QED
      BY <1>1, <3>1, <3>2, <3>3, <3>7
  <2>4. CASE ~(file.posInDataBlk < BlockSize)
    <3> DEFINE r == Restarted(q)
    <3>1. Flushed(w, f) /\ UpToDate(vol, f, data, ext, bytes) /\ ~f.file.changed
      BY FlushIfChangedKeeps
    <3> HIDE DEF f
    <3>2. /\ f.file.fileHdr = file.fileHdr /\ f.file.pos = file.pos
          /\ f.file.posInDataBlk = file.posInDataBlk /\ file.posInDataBlk = BlockSize
      BY <1>1, <1>3, <1>4, <1>6, <2>4, <3>1 DEF Flushed
    <3>3. IsFile(vol, f, data, ext, bytes) /\ BytesKept(f) /\ LinkKept(f)
      BY <3>1, FileUpToDate DEF UpToDate
    <3>4. NextRead(vol, f, q, data, ext, bytes)
      BY <2>1, <3>2, <3>3, NextReadIs
    <3>5. q \in WorldSet(vol) /\ q.ok
      BY <3>4 DEF NextRead
    <3>6. BlockToWrite = r
      BY <1>1, <1>6, <2>1, <2>4, <3>5, Zenon DEF BlockToWrite, Restarted, f
    <3> HIDE DEF q
    <3>7. /\ r \in WorldSet(vol) /\ r.ok /\ SameInMemory(q, r) /\ r.file.pos = q.file.pos
          /\ r.file.posInDataBlk = 0
      BY <3>5, RestartedIs
    <3> HIDE DEF r
    <3>8. UpToDate(vol, r, data, ext, bytes) /\ SameDisk(f, r) /\ r.file.pos = f.file.pos
      BY <3>4, <3>7 DEF NextRead
    <3>9. IsFile(vol, r, data, ext, bytes) /\ r.file.fileHdr = file.fileHdr
          /\ r.file.pos = file.pos
      BY <3>2, <3>8, FileUpToDate DEF SameDisk
    <3>10. Ready(vol, r, n, data, ext, bytes)
      BY <1>4, <2>2, <3>7, <3>9, ReadyInBlock
    <3> QED
      BY <3>6, <3>9, <3>10
  <2> QED
    BY <2>3, <2>4
<1> QED
  BY <1>5, <1>6

-----------------------------------------------------------------------------
(* A file with one more data block *)

\* Data block n gets sector s and, if it needs another list, extension block x.
Longer(data, n, s) == [k \in 0..n |-> IF k < n THEN data[k] ELSE s]
LongerExt(v, ext, n, x) ==
  [l \in 1..LastList(v, n + 1) |-> IF l <= LastList(v, n) THEN ext[l] ELSE x]
Extra(v, n, x) == IF LastList(v, n + 1) = LastList(v, n) THEN {} ELSE {x}

\* Where data block n is listed.
LEMMA NextList ==
  ASSUME NEW v \in Volumes, NEW n \in Nat
  PROVE  /\ LastList(v, n) \in Nat /\ LastList(v, n + 1) = ListOf(v, n)
         /\ InLast(v, n + 1) = EntryOf(v, n) + 1
         /\ IF n >= v.maxDatablk /\ n % v.maxDatablk = 0
              THEN /\ LastList(v, n + 1) = LastList(v, n) + 1 /\ InLast(v, n) = v.maxDatablk
                   /\ EntryOf(v, n) = 0
              ELSE LastList(v, n + 1) = LastList(v, n) /\ InLast(v, n) = EntryOf(v, n)
<1>1. v.maxDatablk \in Nat \ {0}
  BY VolumeParts
<1>2. LastList(v, n) \in Nat
  BY ListInFile
<1>3. LastList(v, n + 1) = ListOf(v, n) /\ InLast(v, n + 1) = EntryOf(v, n) + 1
  <2>1. n + 1 # 0 /\ (n + 1) - 1 = n
    OBVIOUS
  <2> QED
    BY <2>1 DEF LastList, InLast
<1>4. ListOf(v, n) \in Nat /\ EntryOf(v, n) \in 0..(v.maxDatablk - 1)
      /\ (ListOf(v, n) = 0 <=> n < v.maxDatablk) /\ (n < v.maxDatablk => EntryOf(v, n) = n)
  BY PlaceOf
<1>5. CASE n = 0
  BY <1>1, <1>2, <1>3, <1>4, <1>5 DEF LastList, InLast
<1>6. CASE n # 0
  <2>1. IF EntryOf(v, n) = 0
          THEN ListOf(v, n) = ListOf(v, n - 1) + 1 /\ EntryOf(v, n - 1) = v.maxDatablk - 1
          ELSE ListOf(v, n) = ListOf(v, n - 1) /\ EntryOf(v, n) = EntryOf(v, n - 1) + 1
    BY <1>6, PlaceNext
  <2>2. LastList(v, n) = ListOf(v, n - 1) /\ InLast(v, n) = EntryOf(v, n - 1) + 1
    BY <1>6 DEF LastList, InLast
  <2>3. n >= v.maxDatablk /\ n % v.maxDatablk = 0 <=> EntryOf(v, n) = 0
    BY <1>1, <1>4, <1>6 DEF EntryOf
  <2> QED
    BY <1>1, <1>2, <1>3, <1>4, <2>1, <2>2, <2>3
<1> QED
  BY <1>5, <1>6

\* The blocks are different ones again.
LEMMA OwnsGrown ==
  ASSUME NEW v \in Volumes, NEW fr, NEW n \in Nat, NEW data, NEW ext, Owns(v, fr, n, data, ext),
         NEW x, Extra(v, n, x) \subseteq fr, NEW s \in fr \ Extra(v, n, x)
  PROVE  Owns(v, fr \ (Extra(v, n, x) \cup {s}), n + 1, Longer(data, n, s), LongerExt(v, ext, n, x))
<1> DEFINE L == LastList(v, n)
           M == LastList(v, n + 1)
           X == Extra(v, n, x)
           d == Longer(data, n, s)
           e == LongerExt(v, ext, n, x)
<1>1. L \in Nat /\ M \in Nat /\ ((M = L /\ X = {}) \/ (M = L + 1 /\ X = {x}))
  BY NextList DEF Extra
<1>2. /\ \A k \in 0..(n - 1) : data[k] \in v.sectors /\ data[k] \notin fr
      /\ \A l \in 1..L : ext[l] \in v.sectors /\ ext[l] \notin fr
  BY Sector
<1>3. /\ \A j, k \in 0..(n - 1) : data[j] = data[k] => j = k
      /\ \A j, k \in 1..L : ext[j] = ext[k] => j = k
      /\ \A k \in 0..(n - 1) : \A l \in 1..L : data[k] # ext[l]
      /\ fr = v.sectors \ ({data[k] : k \in 0..(n - 1)} \cup {ext[l] : l \in 1..L})
  BY DEF Owns
<1>4. d = [k \in 0..n |-> IF k < n THEN data[k] ELSE s]
  BY DEF Longer
<1>5. e = [l \in 1..M |-> IF l <= L THEN ext[l] ELSE x]
  BY DEF LongerExt
<1>6. s \in fr /\ s \in v.sectors /\ s \notin X /\ (\A y \in X : y = x) /\ (M # L => x \in X)
      /\ X \subseteq fr /\ X \subseteq v.sectors
  <2>1. fr \subseteq v.sectors
    BY <1>3
  <2> QED
    BY <1>1, <2>1
<1> HIDE DEF L, M, X, d, e
<1>7. \A k \in 0..n : IF k < n THEN d[k] = data[k] /\ k \in 0..(n - 1) ELSE d[k] = s /\ k = n
  BY <1>4
<1>8. \A l \in 1..M : IF l <= L THEN e[l] = ext[l] /\ l \in 1..L ELSE e[l] = x /\ l = M /\ x \in X
  BY <1>1, <1>5, <1>6
<1>9. d \in [0..n -> v.sectors] /\ e \in [1..M -> v.sectors]
  <2>1. \A k \in 0..n : d[k] \in v.sectors
    BY <1>2, <1>6, <1>7
  <2>2. \A l \in 1..M : e[l] \in v.sectors
    BY <1>2, <1>6, <1>8
  <2> QED
    BY <1>4, <1>5, <2>1, <2>2
<1>10. \A j, k \in 0..n : d[j] = d[k] => j = k
  BY <1>2, <1>3, <1>6, <1>7
<1>11. \A j, k \in 1..M : e[j] = e[k] => j = k
  BY <1>2, <1>3, <1>6, <1>8
<1>12. \A k \in 0..n : \A l \in 1..M : d[k] # e[l]
  BY <1>2, <1>3, <1>6, <1>7, <1>8
<1>13. fr \ (X \cup {s}) = v.sectors \ ({d[k] : k \in 0..n} \cup {e[l] : l \in 1..M})
  <2>1. {d[k] : k \in 0..n} = {data[k] : k \in 0..(n - 1)} \cup {s}
    <3>1. \A k \in 0..(n - 1) : k \in 0..n /\ d[k] = data[k]
      BY <1>7
    <3>2. n \in 0..n /\ d[n] = s
      BY <1>7
    <3> QED
      BY <1>7, <3>1, <3>2
  <2>2. {e[l] : l \in 1..M} = {ext[l] : l \in 1..L} \cup X
    <3>1. \A l \in 1..L : l \in 1..M /\ e[l] = ext[l]
      BY <1>1, <1>8
    <3>2. \A y \in X : M \in 1..M /\ e[M] = y
      BY <1>1, <1>6, <1>8
    <3> QED
      BY <1>8, <3>1, <3>2
  <2> QED
    BY <1>3, <2>1, <2>2
<1>14. (n + 1) - 1 = n
  OBVIOUS
<1>15. Owns(v, fr \ (X \cup {s}), n + 1, d, e)
  BY <1>9, <1>10, <1>11, <1>12, <1>13, <1>14 DEF Owns, M
<1> QED
  BY <1>15 DEF X, d, e

\* What becomes of the lists: the last one gets the entry, or is linked with a
\* new one that gets it.
SameList(a, b) ==
  a.dataBlocks = b.dataBlocks /\ a.extension = b.extension /\ a.highSeq = b.highSeq
EntryAdded(v, a, b, i, s) ==
  /\ b.dataBlocks[i] = s /\ \A j \in 0..(v.maxDatablk - 1) : j # i => b.dataBlocks[j] = a.dataBlocks[j]
  /\ b.extension = a.extension /\ b.highSeq = a.highSeq + 1
LinkAdded(a, b, x) ==
  b.dataBlocks = a.dataBlocks /\ b.extension = x /\ b.highSeq = a.highSeq
ListStarted(b, s) == b.dataBlocks[0] = s /\ b.extension = 0 /\ b.highSeq = 1

GrownLists(v, h, y, h2, y2, n, data, ext, s, x) ==
  LET L == LastList(v, n)
      M == LastList(v, n + 1)
      ext2 == LongerExt(v, ext, n, x)
      Old(l) == ListAt(h, y, ext, l)
      New(l) == ListAt(h2, y2, ext2, l)
  IN  /\ \A l \in 0..(L - 1) : SameList(New(l), Old(l))
      /\ IF M = L THEN EntryAdded(v, Old(L), New(L), EntryOf(v, n), s)
                  ELSE LinkAdded(Old(L), New(L), x) /\ ListStarted(New(M), s)
      /\ Keyed(v, y2, n + 1, ext2) /\ FirstIs(h2, n + 1, Longer(data, n, s))

\* They are the lists of the longer file.
LEMMA ListsGrown ==
  ASSUME NEW v \in Volumes, NEW n \in Nat, NEW data, NEW ext, NEW h, NEW y,
         Lists(v, h, y, n, data, ext), NEW h2, NEW y2, NEW s, NEW x,
         GrownLists(v, h, y, h2, y2, n, data, ext, s, x)
  PROVE  Lists(v, h2, y2, n + 1, Longer(data, n, s), LongerExt(v, ext, n, x))
<1> DEFINE L == LastList(v, n)
           M == LastList(v, n + 1)
           d == Longer(data, n, s)
           ext2 == LongerExt(v, ext, n, x)
           Old(l) == ListAt(h, y, ext, l)
           New(l) == ListAt(h2, y2, ext2, l)
           e == EntryOf(v, n)
           max == v.maxDatablk
<1>1. /\ L \in Nat /\ M = ListOf(v, n) /\ InLast(v, n + 1) = e + 1 /\ max \in Nat \ {0}
      /\ IF M = L THEN InLast(v, n) = e ELSE M = L + 1 /\ InLast(v, n) = max /\ e = 0
  BY NextList, VolumeParts
<1>2. /\ \A k \in 0..(n - 1) : Old(ListOf(v, k)).dataBlocks[EntryOf(v, k)] = data[k]
      /\ \A l \in 0..L : Old(l).extension = IF l < L THEN ext[l + 1] ELSE 0
      /\ \A l \in 0..L : Old(l).highSeq = IF l < L THEN max ELSE InLast(v, n)
  BY DEF Lists, Listed, Linked, Counted
<1>3. /\ \A l \in 0..(L - 1) : SameList(New(l), Old(l))
      /\ IF M = L THEN EntryAdded(v, Old(L), New(L), e, s)
                  ELSE LinkAdded(Old(L), New(L), x) /\ ListStarted(New(M), s)
      /\ Keyed(v, y2, n + 1, ext2) /\ FirstIs(h2, n + 1, d)
  BY DEF GrownLists
<1>4. /\ \A k \in 0..n : IF k < n THEN d[k] = data[k] ELSE d[k] = s
      /\ \A l \in 1..M : IF l <= L THEN ext2[l] = ext[l] ELSE ext2[l] = x
  BY DEF Longer, LongerExt
<1>5. e \in 0..(max - 1)
  BY PlaceOf
<1> HIDE DEF L, M, d, ext2, Old, New, e, max
<1>6. ASSUME NEW k \in 0..n
      PROVE  New(ListOf(v, k)).dataBlocks[EntryOf(v, k)] = d[k]
  <2>1. CASE k = n
    <3>1. d[k] = s
      BY <1>4, <2>1
    <3>2. CASE M = L
      BY <1>1, <1>3, <2>1, <3>1, <3>2 DEF EntryAdded, e
    <3>3. CASE M # L
      BY <1>1, <1>3, <2>1, <3>1, <3>3 DEF ListStarted, e
    <3> QED
      BY <3>2, <3>3
  <2>2. CASE k # n
    <3> DEFINE l == ListOf(v, k)
               i == EntryOf(v, k)
    <3>1. k \in 0..(n - 1) /\ d[k] = data[k]
      BY <1>4, <2>2
    <3>2. l \in 0..L /\ i \in 0..(max - 1)
      BY <3>1, ListInFile, PlaceOf DEF L, max
    <3>3. Old(l).dataBlocks[i] = data[k]
      BY <1>2, <3>1
    <3>4. l = M => i # e
      BY <1>1, <2>2, <3>1, PlaceSame DEF e
    <3> HIDE DEF l, i
    <3>5. CASE l # L
      <4>1. l \in 0..(L - 1)
        BY <1>1, <3>2, <3>5
      <4> QED
        BY <1>3, <3>1, <3>3, <4>1 DEF SameList, l, i
    <3>6. CASE l = L
      <4>1. New(L).dataBlocks[i] = Old(L).dataBlocks[i]
        BY <1>3, <3>2, <3>4, <3>6 DEF EntryAdded, LinkAdded, max
      <4> QED
        BY <3>1, <3>3, <3>6, <4>1 DEF l, i
    <3> QED
      BY <3>5, <3>6
  <2> QED
    BY <2>1, <2>2
<1>7. ASSUME NEW l \in 0..M
      PROVE  /\ New(l).extension = IF l < M THEN ext2[l + 1] ELSE 0
             /\ New(l).highSeq = IF l < M THEN max ELSE InLast(v, n + 1)
  <2>1. CASE l < L
    <3>1. l \in 0..(L - 1) /\ l \in 0..L /\ l + 1 \in 1..M /\ l + 1 <= L /\ l < M
      BY <1>1, <2>1
    <3>2. SameList(New(l), Old(l)) /\ ext2[l + 1] = ext[l + 1]
      BY <1>3, <1>4, <3>1
    <3> QED
      BY <1>2, <2>1, <3>1, <3>2 DEF SameList
  <2>2. CASE l = L /\ M = L
    <3>1. Old(l).extension = 0 /\ Old(l).highSeq = e
      BY <1>1, <1>2, <2>2
    <3> QED
      BY <1>1, <1>3, <1>5, <2>2, <3>1 DEF EntryAdded
  <2>3. CASE l = L /\ M # L
    <3>1. Old(l).highSeq = max /\ ext2[l + 1] = x /\ l < M
      BY <1>1, <1>2, <1>4, <2>3
    <3> QED
      BY <1>3, <2>3, <3>1 DEF LinkAdded
  <2>4. CASE l > L
    BY <1>1, <1>3, <2>4 DEF ListStarted
  <2> QED
    BY <1>1, <2>1, <2>2, <2>3, <2>4
<1>8. (n + 1) - 1 = n
  OBVIOUS
<1>9. Listed(v, h2, y2, n + 1, d, ext2)
  BY <1>6, <1>8 DEF Listed, New
<1>10. Linked(v, h2, y2, n + 1, ext2) /\ Counted(v, h2, y2, n + 1, ext2)
  BY <1>7 DEF Linked, Counted, New, M, max
<1> QED
  BY <1>3, <1>9, <1>10 DEF Lists, d, ext2

\* The data blocks of the longer file: the last one was linked with the new one,
\* which holds zeros.
LongerBytes(bytes, n) == [k \in 0..n |-> IF k < n THEN bytes[k] ELSE Zeros]

GrownData(v, y, y2, n, data, s) ==
  /\ \A k \in 0..(n - 1) : y2[data[k]].bytes = y[data[k]].bytes
  /\ v.ofs => \A k \in 0..(n - 1) :
                y2[data[k]].nextData = IF k = n - 1 THEN s ELSE y[data[k]].nextData
  /\ y2[s].bytes = Zeros /\ y2[s].nextData = 0

\* They hold the same bytes and are linked.
LEMMA HoldsGrown ==
  ASSUME NEW v \in Volumes, NEW n \in Nat, NEW data, NEW bytes, NEW y,
         Holds(v, y, n, data, bytes), NEW y2, NEW s, GrownData(v, y, y2, n, data, s)
  PROVE  Holds(v, y2, n + 1, Longer(data, n, s), LongerBytes(bytes, n))
<1> DEFINE d == Longer(data, n, s)
           b == LongerBytes(bytes, n)
<1>1. /\ \A k \in 0..n : IF k < n THEN d[k] = data[k] /\ b[k] = bytes[k] /\ k \in 0..(n - 1)
                         ELSE d[k] = s /\ b[k] = Zeros
      /\ (n + 1) - 1 = n
  BY DEF Longer, LongerBytes
<1> HIDE DEF d, b
<1>2. \A k \in 0..n : y2[d[k]].bytes = b[k]
  BY <1>1 DEF Holds, GrownData
<1>3. ASSUME v.ofs, NEW k \in 0..n
      PROVE  y2[d[k]].nextData = LinkOf(n + 1, d, k)
  <2>1. CASE k = n
    BY <1>1, <2>1 DEF GrownData, LinkOf
  <2>2. CASE k = n - 1
    BY <1>1, <1>3, <2>2 DEF GrownData, LinkOf
  <2>3. CASE k < n - 1
    <3>1. k \in 0..(n - 1) /\ k # n - 1 /\ k + 1 < n /\ k + 1 \in 0..n /\ k + 1 < n + 1
      BY <2>3
    <3>2. y2[d[k]].nextData = LinkOf(n, data, k)
      BY <1>1, <1>3, <3>1 DEF GrownData, Holds
    <3> QED
      BY <1>1, <3>1, <3>2 DEF LinkOf
  <2> QED
    BY <2>1, <2>2, <2>3
<1> QED
  BY <1>1, <1>2, <1>3 DEF Holds, d, b

-----------------------------------------------------------------------------
(* Creating the next data block *)

\* A file and its volume, part by part.
Whole(f, d, fr, h, o) == [file |-> f, disk |-> d, free |-> fr, header |-> h, ok |-> o]

\* Its parts.
LEMMA WholeParts ==
  ASSUME NEW f, NEW d, NEW fr, NEW h, NEW o
  PROVE  /\ Whole(f, d, fr, h, o).file = f /\ Whole(f, d, fr, h, o).disk = d
         /\ Whole(f, d, fr, h, o).free = fr /\ Whole(f, d, fr, h, o).header = h
         /\ Whole(f, d, fr, h, o).ok = o
BY DEF Whole

\* Changing one of them.
LEMMA WholeFile ==
  ASSUME NEW f, NEW d, NEW fr, NEW h, NEW o, NEW f2
  PROVE  [Whole(f, d, fr, h, o) EXCEPT !.file = f2] = Whole(f2, d, fr, h, o)
BY DEF Whole

\* Changing the disk.
LEMMA WholeDisk ==
  ASSUME NEW f, NEW d, NEW fr, NEW h, NEW o, NEW d2
  PROVE  [Whole(f, d, fr, h, o) EXCEPT !.disk = d2] = Whole(f, d2, fr, h, o)
BY DEF Whole

\* Changing what is free.
LEMMA WholeFree ==
  ASSUME NEW f, NEW d, NEW fr, NEW h, NEW o, NEW fr2
  PROVE  [Whole(f, d, fr, h, o) EXCEPT !.free = fr2] = Whole(f, d, fr2, h, o)
BY DEF Whole

\* The state of a file has these parts.
LEMMA WorldWhole ==
  ASSUME NEW v \in Volumes, NEW w \in WorldSet(v)
  PROVE  w = Whole(w.file, w.disk, w.free, w.header, w.ok)
BY WorldParts DEF Whole

\* The block that is granted next.
LeastOf(fr) == CHOOSE s \in fr : \A t \in fr : s <= t

Grants(f, d, fr, h, o) ==
  /\ LeastOf(fr) \in fr /\ Granted(Whole(f, d, fr, h, o)) = LeastOf(fr)
  /\ Grant(Whole(f, d, fr, h, o)) = Whole(f, d, fr \ {LeastOf(fr)}, h, o)

\* adfGet1FreeBlock takes it from the free blocks.
LEMMA GrantIs ==
  ASSUME NEW f, NEW d, NEW fr, NEW h, NEW o, fr \in SUBSET Nat, fr # {}
  PROVE  Grants(f, d, fr, h, o)
<1>1. LeastOf(fr) \in fr
  <2>1. \E s \in fr : \A t \in fr : s <= t
    BY LeastNumber
  <2> QED
    BY <2>1 DEF LeastOf
<1>2. Granted(Whole(f, d, fr, h, o)) = LeastOf(fr)
  BY WholeParts DEF Granted, LeastOf
<1>3. Grant(Whole(f, d, fr, h, o))
        = [Whole(f, d, fr, h, o) EXCEPT !.free = Whole(f, d, fr, h, o).free
                                               \ {Granted(Whole(f, d, fr, h, o))}]
  BY DEF Grant
<1>4. Whole(f, d, fr, h, o).free = fr
  BY WholeParts
<1> DEFINE fr2 == fr \ {LeastOf(fr)}
<1>5. Grant(Whole(f, d, fr, h, o)) = [Whole(f, d, fr, h, o) EXCEPT !.free = fr2]
  BY <1>2, <1>3, <1>4
<1> HIDE DEF fr2
<1>6. Grant(Whole(f, d, fr, h, o)) = Whole(f, d, fr2, h, o)
  BY <1>5, WholeFree
<1> QED
  BY <1>1, <1>2, <1>6 DEF fr2, Grants

\* A new extension block x is in memory; the header or the full extension block
\* was linked with it.
ExtCreated(v, f, d, x, g, d2) ==
  /\ g \in FileSet(v) /\ d2 \in DiskSet(v)
  /\ g.currentExt = ExtBlock(x, NoEntries, 0, 0) /\ g.posInExtBlk = 0
  /\ g.curDataPtr = f.curDataPtr /\ g.currentData = f.currentData /\ g.changed = f.changed
  /\ g.pos = f.pos /\ g.posInDataBlk = f.posInDataBlk /\ g.nDataBlock = f.nDataBlock
  /\ IF f.nDataBlock = v.maxDatablk
       THEN g.fileHdr = [f.fileHdr EXCEPT !.extension = x] /\ d2 = d
       ELSE /\ g.fileHdr = f.fileHdr
            /\ d2 = [d EXCEPT ![f.currentExt.headerKey] = [f.currentExt EXCEPT !.extension = x]]

ExtCreates(v, f, d, fr, h, o) ==
  \E g, d2 : /\ ExtCreated(v, f, d, LeastOf(fr), g, d2)
             /\ CreateExt(Whole(f, d, fr, h, o)) = Whole(g, d2, fr \ {LeastOf(fr)}, h, o)

\* adfFileCreateNextBlock creates an extension block.
LEMMA CreateExtIs ==
  ASSUME vol \in Volumes, NEW f \in FileSet(vol), NEW d \in DiskSet(vol),
         NEW fr \in SUBSET vol.sectors, fr # {}, NEW h, NEW o,
         f.nDataBlock # vol.maxDatablk => f.currentExt # NoExt
  PROVE  ExtCreates(vol, f, d, fr, h, o)
<1> DEFINE x == LeastOf(fr)
           w == Whole(f, d, fr, h, o)
           fr1 == fr \ {x}
           new == ExtBlock(x, NoEntries, 0, 0)
           fh == [f EXCEPT !.fileHdr = [f.fileHdr EXCEPT !.extension = x]]
           c1 == [f.currentExt EXCEPT !.extension = x]
           fe == [f EXCEPT !.currentExt = c1]
           d1 == [d EXCEPT ![f.currentExt.headerKey] = c1]
           After(g) == [[g EXCEPT !.currentExt = new] EXCEPT !.posInExtBlk = 0]
<1>1. /\ vol.sectors \subseteq Nat \ {0} /\ 0 \in 0..vol.maxDatablk
      /\ vol.maxDatablk \in Nat
  BY VolumeParts
<1>2. /\ x \in fr /\ Granted(w) = x /\ Grant(w) = Whole(f, d, fr1, h, o)
  <2>1. fr \in SUBSET Nat
    BY <1>1
  <2>2. Grants(f, d, fr, h, o)
    BY <2>1, GrantIs
  <2> QED
    BY <2>2 DEF Grants
<1>3. x \in vol.sectors
  BY <1>2
<1>4. new \in ExtSet(vol)
  BY <1>1, <1>3 DEF ExtBlock, ExtSet, EntrySet, NoEntries, Entries, MaxDatablk
<1>5. w.file = f
  BY WholeParts
<1> HIDE DEF new, x, w, fr1
<1>6. CASE f.nDataBlock = vol.maxDatablk
  <2>1. CreateExt(w) = [[[Grant(w) EXCEPT !.file = [Grant(w).file EXCEPT !.fileHdr =
                            [Grant(w).file.fileHdr EXCEPT !.extension = x]]]
                          EXCEPT !.file.currentExt = new]
                         EXCEPT !.file.posInExtBlk = 0]
    BY <1>2, <1>5, <1>6, Zenon DEF CreateExt, MaxDatablk, new
  <2> DEFINE w1 == [Grant(w) EXCEPT !.file = [Grant(w).file EXCEPT !.fileHdr =
                            [Grant(w).file.fileHdr EXCEPT !.extension = x]]]
  <2>2. w1 = Whole(fh, d, fr1, h, o)
    <3>1. w1 = [Whole(f, d, fr1, h, o) EXCEPT !.file = fh]
      BY <1>2, WholeParts
    <3> QED
      BY <3>1, WholeFile
  <2> HIDE DEF w1
  <2> DEFINE g1 == [fh EXCEPT !.currentExt = new]
             w2 == [w1 EXCEPT !.file = [w1.file EXCEPT !.currentExt = new]]
  <2>3. CreateExt(w) = [w2 EXCEPT !.file = [w2.file EXCEPT !.posInExtBlk = 0]]
    BY <2>1 DEF w1
  <2>4. w2 = Whole(g1, d, fr1, h, o)
    <3> HIDE DEF fh
    <3>1. w2 = [Whole(fh, d, fr1, h, o) EXCEPT !.file = g1]
      BY <2>2, WholeParts
    <3> QED
      BY <3>1, WholeFile
  <2> HIDE DEF w2
  <2>5. CreateExt(w) = Whole(After(fh), d, fr1, h, o)
    <3> DEFINE g2 == After(fh)
    <3>1. g2 = [g1 EXCEPT !.posInExtBlk = 0]
      OBVIOUS
    <3> HIDE DEF fh, g1, g2
    <3>2. CreateExt(w) = [Whole(g1, d, fr1, h, o) EXCEPT !.file = g2]
      BY <2>3, <2>4, <3>1, WholeParts
    <3>3. CreateExt(w) = Whole(g2, d, fr1, h, o)
      BY <3>2, WholeFile
    <3> QED
      BY <3>3 DEF g2
  <2>6. fh \in FileSet(vol) /\ fh.fileHdr = [f.fileHdr EXCEPT !.extension = x]
    <3>1. [f.fileHdr EXCEPT !.extension = x] \in HeaderSet(vol)
      BY <1>3 DEF FileSet, HeaderSet
    <3> QED
      BY <3>1 DEF FileSet
  <2>7. ExtCreated(vol, f, d, x, After(fh), d)
    BY <1>1, <1>4, <1>6, <2>6 DEF ExtCreated, FileSet, new
  <2> QED
    BY <2>5, <2>7 DEF w, x, fr1, ExtCreates
<1>7. CASE f.nDataBlock # vol.maxDatablk
  <2>1. CreateExt(w) = [[WriteExt([Grant(w) EXCEPT !.file = [Grant(w).file EXCEPT !.currentExt =
                            [Grant(w).file.currentExt EXCEPT !.extension = x]]])
                          EXCEPT !.file.currentExt = new]
                         EXCEPT !.file.posInExtBlk = 0]
    BY <1>2, <1>5, <1>7, Zenon DEF CreateExt, MaxDatablk, new
  <2> DEFINE w1 == [Grant(w) EXCEPT !.file = [Grant(w).file EXCEPT !.currentExt =
                            [Grant(w).file.currentExt EXCEPT !.extension = x]]]
  <2>2. w1 = Whole(fe, d, fr1, h, o)
    <3>1. w1 = [Whole(f, d, fr1, h, o) EXCEPT !.file = fe]
      BY <1>2, WholeParts
    <3> QED
      BY <3>1, WholeFile
  <2> HIDE DEF w1
  <2>3. f.currentExt \in ExtSet(vol) /\ f.currentExt # NoExt
    BY <1>7 DEF FileSet
  <2>4. /\ c1 \in ExtSet(vol) /\ c1.headerKey = f.currentExt.headerKey /\ c1 # NoExt
        /\ f.currentExt.headerKey \in vol.sectors
    BY <1>3, <2>3 DEF ExtSet, NoExt
  <2>5. fe \in FileSet(vol) /\ fe.currentExt = c1 /\ fe.fileHdr = f.fileHdr
    BY <2>4 DEF FileSet
  <2>6. d1 \in DiskSet(vol)
    BY <2>4 DEF DiskSet
  <2> DEFINE w0 == WriteExt(w1)
  <2>7. w0 = Whole(fe, d1, fr1, h, o)
    <3> HIDE DEF fe, c1
    <3>1. w1.file.currentExt = c1 /\ w1.disk = d
      BY <2>2, <2>5, WholeParts
    <3>2. w0 = [w1 EXCEPT !.disk = [w1.disk EXCEPT ![f.currentExt.headerKey] = c1]]
      BY <2>4, <3>1 DEF WriteExt
    <3> QED
      BY <2>2, <3>1, <3>2, WholeDisk
  <2> HIDE DEF w0, d1
  <2> DEFINE g1 == [fe EXCEPT !.currentExt = new]
             w2 == [w0 EXCEPT !.file = [w0.file EXCEPT !.currentExt = new]]
  <2>8. CreateExt(w) = [w2 EXCEPT !.file = [w2.file EXCEPT !.posInExtBlk = 0]]
    BY <2>1 DEF w1, w0
  <2>9. w2 = Whole(g1, d1, fr1, h, o)
    <3> HIDE DEF fe
    <3>1. w2 = [Whole(fe, d1, fr1, h, o) EXCEPT !.file = g1]
      BY <2>7, WholeParts
    <3> QED
      BY <3>1, WholeFile
  <2> HIDE DEF w2
  <2>10. CreateExt(w) = Whole(After(fe), d1, fr1, h, o)
    <3> DEFINE g2 == After(fe)
    <3>1. g2 = [g1 EXCEPT !.posInExtBlk = 0]
      OBVIOUS
    <3> HIDE DEF fe, g1, g2
    <3>2. CreateExt(w) = [Whole(g1, d1, fr1, h, o) EXCEPT !.file = g2]
      BY <2>8, <2>9, <3>1, WholeParts
    <3>3. CreateExt(w) = Whole(g2, d1, fr1, h, o)
      BY <3>2, WholeFile
    <3> QED
      BY <3>3 DEF g2
  <2>11. ExtCreated(vol, f, d, x, After(fe), d1)
    BY <1>1, <1>4, <1>7, <2>5, <2>6 DEF ExtCreated, FileSet, new, d1
  <2> QED
    BY <2>10, <2>11 DEF w, x, fr1, ExtCreates
<1> QED
  BY <1>6, <1>7

\* The new data block s has an entry in the header or in the extension block in
\* memory.
EntryListed(v, f, s, g) ==
  /\ g \in FileSet(v)
  /\ g.curDataPtr = f.curDataPtr /\ g.currentData = f.currentData /\ g.changed = f.changed
  /\ g.pos = f.pos /\ g.posInDataBlk = f.posInDataBlk /\ g.nDataBlock = f.nDataBlock
  /\ IF f.nDataBlock < v.maxDatablk
       THEN /\ g.currentExt = f.currentExt /\ g.posInExtBlk = f.posInExtBlk
            /\ g.fileHdr.byteSize = f.fileHdr.byteSize
            /\ g.fileHdr.firstData = IF f.nDataBlock = 0 THEN s ELSE f.fileHdr.firstData
            /\ EntryAdded(v, f.fileHdr, g.fileHdr, f.nDataBlock, s)
       ELSE /\ g.fileHdr = f.fileHdr /\ g.posInExtBlk = f.posInExtBlk + 1
            /\ g.currentExt \in ExtSet(v) /\ g.currentExt.headerKey = f.currentExt.headerKey
            /\ EntryAdded(v, f.currentExt, g.currentExt, f.posInExtBlk, s)

\* List gives it the entry.
LEMMA ListIs ==
  ASSUME vol \in Volumes, NEW f \in FileSet(vol), NEW d, NEW fr, NEW h, NEW o,
         NEW s \in vol.sectors,
         IF f.nDataBlock < vol.maxDatablk THEN f.fileHdr.highSeq < vol.maxDatablk
         ELSE /\ f.currentExt \in ExtSet(vol) /\ f.currentExt.highSeq < vol.maxDatablk
              /\ f.posInExtBlk < vol.maxDatablk
  PROVE  \E g : /\ EntryListed(vol, f, s, g)
                /\ List(Whole(f, d, fr, h, o), s) = Whole(g, d, fr, h, o)
<1> DEFINE w == Whole(f, d, fr, h, o)
           n == f.nDataBlock
           p == f.posInExtBlk
           max == vol.maxDatablk
<1>1. w.file = f
  BY WholeParts
<1>2. /\ n \in Nat /\ p \in 0..max /\ max \in Nat \ {0} /\ f.fileHdr \in HeaderSet(vol)
  BY VolumeParts DEF FileSet
<1> HIDE DEF w
<1>3. CASE n < max
  <2> DEFINE h1 == [f.fileHdr EXCEPT !.dataBlocks = [f.fileHdr.dataBlocks EXCEPT ![n] = s]]
             h2 == [h1 EXCEPT !.highSeq = f.fileHdr.highSeq + 1]
             h3 == [h2 EXCEPT !.firstData = IF n = 0 THEN s ELSE f.fileHdr.firstData]
             g1 == [f EXCEPT !.fileHdr = h1]
             g2 == [g1 EXCEPT !.fileHdr = h2]
             g3 == [g2 EXCEPT !.fileHdr = h3]
             w1 == [w EXCEPT !.file = [w.file EXCEPT !.fileHdr = [w.file.fileHdr EXCEPT
                      !.dataBlocks = [w.file.fileHdr.dataBlocks EXCEPT ![n] = s]]]]
             w2 == [w1 EXCEPT !.file = [w1.file EXCEPT !.fileHdr = [w1.file.fileHdr EXCEPT
                      !.highSeq = f.fileHdr.highSeq + 1]]]
             w3 == [w2 EXCEPT !.file = [w2.file EXCEPT !.fileHdr = [w2.file.fileHdr EXCEPT
                      !.firstData = IF n = 0 THEN s ELSE f.fileHdr.firstData]]]
  <2>1. List(w, s) = w3
    BY <1>1, <1>3, Zenon DEF List, MaxDatablk
  <2>2. /\ h3 \in HeaderSet(vol) /\ h3.byteSize = f.fileHdr.byteSize
        /\ h3.firstData = IF n = 0 THEN s ELSE f.fileHdr.firstData
        /\ h3.extension = f.fileHdr.extension /\ h3.highSeq = f.fileHdr.highSeq + 1
        /\ h3.dataBlocks = [f.fileHdr.dataBlocks EXCEPT ![n] = s]
    <3>1. f.fileHdr.highSeq + 1 \in 0..max
      BY <1>2, <1>3 DEF HeaderSet
    <3>2. [f.fileHdr.dataBlocks EXCEPT ![n] = s] \in EntrySet(vol)
      BY <1>2 DEF HeaderSet, EntrySet
    <3> DEFINE db == [f.fileHdr.dataBlocks EXCEPT ![n] = s]
    <3> HIDE DEF db, max
    <3> QED
      BY <1>2, <3>1, <3>2 DEF HeaderSet, max, db
  <2>3. EntryAdded(vol, f.fileHdr, h3, n, s)
    <3>1. f.fileHdr.dataBlocks \in [0..(max - 1) -> vol.sectors \cup {0}] /\ n \in 0..(max - 1)
      BY <1>2, <1>3 DEF HeaderSet, EntrySet
    <3> HIDE DEF h3
    <3> QED
      BY <2>2, <3>1 DEF EntryAdded
  <2>4. g1.fileHdr = h1 /\ g2.fileHdr = h2
    <3> HIDE DEF h1, h2
    <3> QED
      BY DEF FileSet
  <2> HIDE DEF h3
  <2>5. /\ g3 \in FileSet(vol) /\ g3.fileHdr = h3 /\ g3.currentExt = f.currentExt
        /\ g3.posInExtBlk = p /\ g3.curDataPtr = f.curDataPtr /\ g3.currentData = f.currentData
        /\ g3.changed = f.changed /\ g3.pos = f.pos /\ g3.posInDataBlk = f.posInDataBlk
        /\ g3.nDataBlock = n
    <3> HIDE DEF h1, h2
    <3> QED
      BY <2>2 DEF FileSet
  <2>6. w1 = Whole(g1, d, fr, h, o)
    <3> HIDE DEF h1
    <3>1. w1 = [Whole(f, d, fr, h, o) EXCEPT !.file = g1]
      BY <1>1 DEF h1, w
    <3> QED
      BY <3>1, WholeFile
  <2> HIDE DEF w1, g1, h1
  <2>7. w2 = Whole(g2, d, fr, h, o)
    <3>1. w2 = [Whole(g1, d, fr, h, o) EXCEPT !.file = g2]
      BY <2>4, <2>6, WholeParts
    <3> QED
      BY <3>1, WholeFile
  <2> HIDE DEF w2, g2, h2
  <2>8. w3 = Whole(g3, d, fr, h, o)
    <3>1. w3 = [Whole(g2, d, fr, h, o) EXCEPT !.file = g3]
      BY <2>4, <2>7, WholeParts DEF h3
    <3> QED
      BY <3>1, WholeFile
  <2> HIDE DEF w3, g3
  <2>9. EntryListed(vol, f, s, g3)
    BY <1>3, <2>2, <2>3, <2>5 DEF EntryListed
  <2> QED
    BY <2>1, <2>8, <2>9 DEF w
<1>4. CASE ~(n < max)
  <2> DEFINE c == f.currentExt
             e1 == [c EXCEPT !.dataBlocks = [c.dataBlocks EXCEPT ![p] = s]]
             e2 == [e1 EXCEPT !.highSeq = c.highSeq + 1]
             g1 == [f EXCEPT !.currentExt = e1]
             g2 == [g1 EXCEPT !.currentExt = e2]
             g3 == [g2 EXCEPT !.posInExtBlk = p + 1]
             w1 == [w EXCEPT !.file = [w.file EXCEPT !.currentExt = [w.file.currentExt EXCEPT
                      !.dataBlocks = [w.file.currentExt.dataBlocks EXCEPT ![p] = s]]]]
             w2 == [w1 EXCEPT !.file = [w1.file EXCEPT !.currentExt = [w1.file.currentExt EXCEPT
                      !.highSeq = c.highSeq + 1]]]
             w3 == [w2 EXCEPT !.file = [w2.file EXCEPT !.posInExtBlk = p + 1]]
  <2>0. c \in ExtSet(vol) /\ c.highSeq < max /\ p < max
    BY <1>4
  <2>1. List(w, s) = w3
    BY <1>1, <1>4, Zenon DEF List, MaxDatablk
  <2>2. /\ e2 \in ExtSet(vol) /\ e2.headerKey = c.headerKey
        /\ e2.extension = c.extension /\ e2.highSeq = c.highSeq + 1
        /\ e2.dataBlocks = [c.dataBlocks EXCEPT ![p] = s]
    <3>1. c.highSeq + 1 \in 0..max
      BY <1>2, <2>0 DEF ExtSet
    <3>2. [c.dataBlocks EXCEPT ![p] = s] \in EntrySet(vol)
      BY <2>0 DEF ExtSet, EntrySet
    <3> DEFINE db == [c.dataBlocks EXCEPT ![p] = s]
    <3> HIDE DEF db, max, c
    <3> QED
      BY <2>0, <3>1, <3>2 DEF ExtSet, max, db
  <2>3. EntryAdded(vol, c, e2, p, s)
    <3>1. c.dataBlocks \in [0..(max - 1) -> vol.sectors \cup {0}] /\ p \in 0..(max - 1)
      BY <1>2, <2>0 DEF ExtSet, EntrySet
    <3> HIDE DEF e2
    <3> QED
      BY <2>2, <3>1 DEF EntryAdded
  <2>4. g1.currentExt = e1 /\ g2.currentExt = e2
    <3> HIDE DEF e1, e2
    <3> QED
      BY DEF FileSet
  <2> HIDE DEF e2
  <2>5. /\ g3 \in FileSet(vol) /\ g3.fileHdr = f.fileHdr /\ g3.currentExt = e2
        /\ g3.posInExtBlk = p + 1 /\ g3.curDataPtr = f.curDataPtr
        /\ g3.currentData = f.currentData
        /\ g3.changed = f.changed /\ g3.pos = f.pos /\ g3.posInDataBlk = f.posInDataBlk
        /\ g3.nDataBlock = n
    <3>1. p + 1 \in 0..max
      BY <1>2, <2>0
    <3> HIDE DEF e1
    <3> QED
      BY <2>2, <3>1 DEF FileSet
  <2>6. w1 = Whole(g1, d, fr, h, o)
    <3> HIDE DEF e1
    <3>1. w1 = [Whole(f, d, fr, h, o) EXCEPT !.file = g1]
      BY <1>1 DEF e1, w
    <3> QED
      BY <3>1, WholeFile
  <2> HIDE DEF w1, g1, e1
  <2>7. w2 = Whole(g2, d, fr, h, o)
    <3>1. w2 = [Whole(g1, d, fr, h, o) EXCEPT !.file = g2]
      BY <2>4, <2>6, WholeParts DEF e2
    <3> QED
      BY <3>1, WholeFile
  <2> HIDE DEF w2, g2
  <2>8. w3 = Whole(g3, d, fr, h, o)
    <3>1. w3 = [Whole(g2, d, fr, h, o) EXCEPT !.file = g3]
      BY <2>7, WholeParts
    <3> QED
      BY <3>1, WholeFile
  <2> HIDE DEF w3, g3
  <2>9. EntryListed(vol, f, s, g3)
    BY <1>4, <2>2, <2>3, <2>5 DEF EntryListed
  <2> QED
    BY <2>1, <2>8, <2>9 DEF w
<1> QED
  BY <1>3, <1>4

\* The data block in memory was written, linked with the new one, s, on OFS.
BlockStarted(v, f, d, s, g, d2) ==
  /\ g \in FileSet(v) /\ d2 \in DiskSet(v)
  /\ g.fileHdr = f.fileHdr /\ g.currentExt = f.currentExt /\ g.posInExtBlk = f.posInExtBlk
  /\ g.changed = f.changed /\ g.pos = f.pos /\ g.posInDataBlk = f.posInDataBlk
  /\ g.currentData = DataBlock(Zeros, 0, 0) /\ g.curDataPtr = s
  /\ g.nDataBlock = f.nDataBlock + 1
  /\ IF f.pos < BlockSize THEN d2 = d
     ELSE \E b \in DataSet(v) :
            /\ b.bytes = f.currentData.bytes
            /\ b.nextData = IF v.ofs THEN s ELSE f.currentData.nextData
            /\ d2 = [d EXCEPT ![f.curDataPtr] = b]

\* A block of zeros is a data block.
LEMMA ZeroBlock ==
  ASSUME NEW v \in Volumes
  PROVE  DataBlock(Zeros, 0, 0) \in DataSet(v)
<1>1. Zeros \in [Offsets -> Bytes]
  BY FileAssumption DEF Zeros
<1>2. 0 \in 0..BlockSize
  BY VolumeParts
<1> QED
  BY <1>1, <1>2 DEF DataBlock, DataSet

\* StartBlock does this.
LEMMA StartBlockIs ==
  ASSUME vol \in Volumes, NEW f \in FileSet(vol), NEW d \in DiskSet(vol), NEW fr, NEW h, NEW o,
         NEW s \in vol.sectors, f.pos >= BlockSize => f.curDataPtr # 0
  PROVE  \E g, d2 : /\ BlockStarted(vol, f, d, s, g, d2)
                    /\ StartBlock(Whole(f, d, fr, h, o), s) = Whole(g, d2, fr, h, o)
<1> DEFINE w == Whole(f, d, fr, h, o)
           z == DataBlock(Zeros, 0, 0)
           linked == IF vol.ofs THEN [w EXCEPT !.file = [w.file EXCEPT !.currentData =
                                        [w.file.currentData EXCEPT !.nextData = s]]]
                                ELSE w
           written == IF w.file.pos >= BlockSize THEN WriteData(linked) ELSE w
           b == IF vol.ofs THEN [f.currentData EXCEPT !.nextData = s] ELSE f.currentData
           fl == [f EXCEPT !.currentData = b]
           fw == IF f.pos >= BlockSize THEN fl ELSE f
           d2 == IF f.pos >= BlockSize THEN [d EXCEPT ![f.curDataPtr] = b] ELSE d
<1>1. w.file = f /\ w.disk = d
  BY WholeParts
<1>2. /\ f.pos \in Nat /\ BlockSize \in Nat /\ f.nDataBlock \in Nat
      /\ f.currentData \in DataSet(vol) /\ f.curDataPtr \in vol.sectors \cup {0}
  BY VolumeParts DEF FileSet
<1>3. z \in DataSet(vol)
  BY ZeroBlock
<1>4. /\ b \in DataSet(vol) /\ b.bytes = f.currentData.bytes
      /\ b.nextData = IF vol.ofs THEN s ELSE f.currentData.nextData
  BY <1>2 DEF DataSet
<1> HIDE DEF w
<1>5. linked = Whole(IF vol.ofs THEN fl ELSE f, d, fr, h, o)
  <2>1. CASE vol.ofs
    <3> HIDE DEF fl
    <3>1. linked = [Whole(f, d, fr, h, o) EXCEPT !.file = fl]
      BY <1>1, <2>1 DEF w, fl
    <3> QED
      BY <2>1, <3>1, WholeFile
  <2>2. CASE ~vol.ofs
    BY <2>2 DEF w
  <2> QED
    BY <2>1, <2>2
<1>6. fl \in FileSet(vol)
  <2> HIDE DEF b
  <2> QED
    BY <1>4 DEF FileSet
<1>7. vol.ofs \/ b = f.currentData
  OBVIOUS
<1>8. \E fv \in FileSet(vol) :
         /\ written = Whole(fv, d2, fr, h, o)
         /\ fv.fileHdr = f.fileHdr /\ fv.currentExt = f.currentExt
         /\ fv.posInExtBlk = f.posInExtBlk /\ fv.changed = f.changed /\ fv.pos = f.pos
         /\ fv.posInDataBlk = f.posInDataBlk /\ fv.nDataBlock = f.nDataBlock
  <2>1. CASE ~(f.pos >= BlockSize)
    BY <1>1, <2>1 DEF w
  <2>2. CASE f.pos >= BlockSize
    <3> DEFINE fv == IF vol.ofs THEN fl ELSE f
    <3>1. fv.currentData = b /\ fv.curDataPtr = f.curDataPtr /\ fv \in FileSet(vol)
      <4>1. fl.currentData = b /\ fl.curDataPtr = f.curDataPtr
        BY DEF FileSet
      <4> HIDE DEF fl, b
      <4> QED
        BY <1>6, <1>7, <4>1
    <3>2. /\ fv.fileHdr = f.fileHdr /\ fv.currentExt = f.currentExt
          /\ fv.posInExtBlk = f.posInExtBlk /\ fv.changed = f.changed /\ fv.pos = f.pos
          /\ fv.posInDataBlk = f.posInDataBlk /\ fv.nDataBlock = f.nDataBlock
      <4> HIDE DEF b
      <4> QED
        BY DEF FileSet
    <3> HIDE DEF fv, b, linked
    <3>3. linked.file = fv /\ linked.disk = d
      BY <1>5, WholeParts DEF fv
    <3>4. written = [linked EXCEPT !.disk = [linked.disk EXCEPT ![linked.file.curDataPtr]
                                               = linked.file.currentData]]
      BY <1>1, <2>2, <3>1, <3>3 DEF WriteData
    <3>7. linked = Whole(fv, d, fr, h, o)
      BY <1>5 DEF fv
    <3>8. d2 = [d EXCEPT ![f.curDataPtr] = b]
      BY <2>2
    <3> HIDE DEF written, d2
    <3>9. linked.file.curDataPtr = f.curDataPtr /\ linked.file.currentData = b
      BY <3>1, <3>3
    <3>5. written = [Whole(fv, d, fr, h, o) EXCEPT !.disk = d2]
      BY <3>3, <3>4, <3>7, <3>8, <3>9
    <3>6. written = Whole(fv, d2, fr, h, o)
      BY <3>5, WholeDisk
    <3> QED
      BY <3>1, <3>2, <3>6
  <2> QED
    BY <2>1, <2>2
<1>9. d2 \in DiskSet(vol)
  <2>1. f.pos >= BlockSize => f.curDataPtr \in vol.sectors
    BY <1>2
  <2> HIDE DEF b
  <2> QED
    BY <1>4, <2>1 DEF DiskSet
<1>10. StartBlock(w, s) = [[[written EXCEPT !.file = [written.file EXCEPT !.currentData = z]]
                              EXCEPT !.file.curDataPtr = s]
                             EXCEPT !.file.nDataBlock = written.file.nDataBlock + 1]
  BY Zenon DEF StartBlock, OFS
<1>11. d2 = d \/ f.pos >= BlockSize
  OBVIOUS
<1>12. IF f.pos < BlockSize THEN d2 = d
       ELSE \E c \in DataSet(vol) :
              /\ c.bytes = f.currentData.bytes
              /\ c.nextData = IF vol.ofs THEN s ELSE f.currentData.nextData
              /\ d2 = [d EXCEPT ![f.curDataPtr] = c]
  <2> HIDE DEF b
  <2> QED
    BY <1>2, <1>4
<1> HIDE DEF written, d2, z
<1>13. PICK fv \in FileSet(vol) :
         /\ written = Whole(fv, d2, fr, h, o)
         /\ fv.fileHdr = f.fileHdr /\ fv.currentExt = f.currentExt
         /\ fv.posInExtBlk = f.posInExtBlk /\ fv.changed = f.changed /\ fv.pos = f.pos
         /\ fv.posInDataBlk = f.posInDataBlk /\ fv.nDataBlock = f.nDataBlock
  BY <1>8
<1> DEFINE g1 == [fv EXCEPT !.currentData = z]
           g2 == [g1 EXCEPT !.curDataPtr = s]
           g3 == [g2 EXCEPT !.nDataBlock = fv.nDataBlock + 1]
           w1 == [written EXCEPT !.file = [written.file EXCEPT !.currentData = z]]
           w2 == [w1 EXCEPT !.file = [w1.file EXCEPT !.curDataPtr = s]]
<1>14. /\ g3 \in FileSet(vol) /\ g3.currentData = z /\ g3.curDataPtr = s
       /\ g3.nDataBlock = fv.nDataBlock + 1 /\ g3.fileHdr = fv.fileHdr
       /\ g3.currentExt = fv.currentExt /\ g3.posInExtBlk = fv.posInExtBlk
       /\ g3.changed = fv.changed /\ g3.pos = fv.pos /\ g3.posInDataBlk = fv.posInDataBlk
  <2>1. fv.nDataBlock + 1 \in Nat
    BY <1>2, <1>13
  <2> QED
    BY <1>3, <2>1 DEF FileSet
<1>15. w1 = Whole(g1, d2, fr, h, o)
  <2> HIDE DEF g1
  <2>1. w1 = [Whole(fv, d2, fr, h, o) EXCEPT !.file = g1]
    BY <1>13, WholeParts DEF g1
  <2> QED
    BY <2>1, WholeFile
<1>16. StartBlock(w, s) = [w2 EXCEPT !.file = [w2.file EXCEPT !.nDataBlock = fv.nDataBlock + 1]]
  <2>1. written.file = fv
    BY <1>13, WholeParts
  <2> QED
    BY <1>10, <2>1
<1> HIDE DEF w1, g1
<1>17. w2 = Whole(g2, d2, fr, h, o)
  <2>1. w2 = [Whole(g1, d2, fr, h, o) EXCEPT !.file = g2]
    BY <1>15, WholeParts
  <2> QED
    BY <2>1, WholeFile
<1> HIDE DEF w2, g2
<1>18. StartBlock(w, s) = Whole(g3, d2, fr, h, o)
  <2>1. StartBlock(w, s) = [Whole(g2, d2, fr, h, o) EXCEPT !.file = g3]
    BY <1>16, <1>17, WholeParts
  <2> QED
    BY <2>1, WholeFile
<1> HIDE DEF g3
<1>19. BlockStarted(vol, f, d, s, g3, d2)
  BY <1>9, <1>12, <1>13, <1>14 DEF BlockStarted, z
<1> QED
  BY <1>18, <1>19 DEF w

\* A file that is extended has its last data block in memory, and is behind it.
LEMMA AtEnd ==
  ASSUME NEW v \in Volumes, NEW w, NEW data, NEW ext, NEW bytes, IsFile(v, w, data, ext, bytes),
         Extends(w), NEW n, n = Count(w.file.fileHdr.byteSize)
  PROVE  /\ w.file.nDataBlock = n /\ w.file.pos = BlockSize * n /\ n \in Nat
         /\ w.file.pos = w.file.fileHdr.byteSize
         /\ n = 0 => w.file.pos < BlockSize
         /\ n > 0 => w.file.pos >= BlockSize /\ w.file.curDataPtr = data[n - 1]
<1> DEFINE p == w.file.posInDataBlk
           k == w.file.nDataBlock
<1>1. /\ w \in WorldSet(v) /\ n \in Nat /\ k \in 0..n /\ DataPlaced(w.file, n, data)
      /\ k = 0 <=> n = 0
      /\ w.file.fileHdr.byteSize = 0 <=> n = 0
  <2>1. DataPlaced(w.file, n, data)
    BY DEF IsFile
  <2> QED
    BY <2>1, FileParts
<1>2. p \in {0, BlockSize} /\ w.file.pos = w.file.fileHdr.byteSize
  BY AtBoundary DEF Extends, Size
<1>3. BlockSize \in Nat \ {0} /\ w.file.fileHdr.byteSize \in Nat /\ w.file.pos \in Nat
  BY <1>1, WorldParts, VolumeParts
<1>4. CASE n = 0
  <2>1. k = 0 /\ w.file.pos = 0 /\ BlockSize * 0 = 0
    BY <1>1, <1>2, <1>3, <1>4
  <2> QED
    BY <1>2, <1>3, <1>4, <2>1
<1>5. CASE n # 0
  <2>1. n > 0 /\ k \in 1..n
    BY <1>1, <1>5
  <2>2. w.file.pos = BlockSize * (k - 1) + p /\ w.file.curDataPtr = data[k - 1]
    BY <1>1, <2>1 DEF DataPlaced
  <2>3. BlockSize * (n - 1) < w.file.pos
    BY <1>2, <1>3, <1>5, <1>1, CountIs
  <2>4. BlockSize * (n - 1) \in Int /\ BlockSize * (k - 1) \in Int
        /\ BlockSize * n = BlockSize * (n - 1) + BlockSize
    BY <1>1, <1>3, <2>1
  <2>5. BlockSize * (n - 1) >= BlockSize * (k - 1) /\ BlockSize * (n - 1) >= BlockSize * 0
    <3>1. n - 1 \in Int /\ k - 1 \in Int /\ n - 1 >= k - 1 /\ n - 1 >= 0 /\ BlockSize \in Nat
      BY <1>1, <1>3, <2>1
    <3> QED
      BY <3>1, TimesMonotone
  <2>6. p = BlockSize
    BY <1>2, <1>3, <2>2, <2>3, <2>4, <2>5
  <2>7. k = n
    <3>1. CASE k < n
      <4>1. BlockSize * (n - 1) >= BlockSize * k
        <5>1. n - 1 \in Int /\ k \in Int /\ n - 1 >= k /\ BlockSize \in Nat
          BY <1>1, <1>3, <2>1, <3>1
        <5> QED
          BY <5>1, TimesMonotone
      <4>2. BlockSize * k = BlockSize * (k - 1) + BlockSize
        BY <1>3, <2>1
      <4> QED
        BY <1>3, <2>2, <2>3, <2>4, <2>6, <4>1, <4>2
    <3> QED
      BY <1>1, <2>1, <3>1
  <2>8. w.file.pos = BlockSize * n /\ w.file.pos >= BlockSize
    BY <1>3, <2>2, <2>4, <2>5, <2>6, <2>7
  <2> QED
    BY <1>1, <1>2, <2>1, <2>2, <2>7, <2>8
<1> QED
  BY <1>4, <1>5

\* Data block n, with sector s, was created; the steps lead from the file f to
\* g3 by way of g and g2.
BlockMade(v, w, n, x, s, g, d1, g2, g3, d2) ==
  /\ IF n >= v.maxDatablk /\ n % v.maxDatablk = 0
       THEN x \in w.free /\ ExtCreated(v, w.file, w.disk, x, g, d1)
       ELSE g = w.file /\ d1 = w.disk
  /\ s \in w.free \ Extra(v, n, x)
  /\ EntryListed(v, g, s, g2) /\ BlockStarted(v, g2, d1, s, g3, d2)
MadeWorld(v, w, n, x, s, g3, d2) ==
  Whole(g3, d2, w.free \ (Extra(v, n, x) \cup {s}), w.header, w.ok)

\* The volume has the blocks that one more data block needs.
HasRoom(v, w, n) ==
  IF n >= v.maxDatablk /\ n % v.maxDatablk = 0
    THEN w.free # {} /\ w.free \ {LeastOf(w.free)} # {}
    ELSE w.free # {}

\* adfFileCreateNextBlock takes these steps.
LEMMA CreateIs ==
  ASSUME vol \in Volumes, NEW w, NEW data, NEW ext, NEW bytes, IsFile(vol, w, data, ext, bytes),
         Extends(w), NEW n, n = Count(w.file.fileHdr.byteSize), HasRoom(vol, w, n)
  PROVE  \E x, s, g, d1, g2, g3, d2 :
           /\ BlockMade(vol, w, n, x, s, g, d1, g2, g3, d2)
           /\ adfFileCreateNextBlock(w) = MadeWorld(vol, w, n, x, s, g3, d2)
<1> DEFINE f == w.file
           x == LeastOf(w.free)
           needs == n >= vol.maxDatablk /\ n % vol.maxDatablk = 0
           e == IF needs THEN CreateExt(w) ELSE w
           fr1 == IF needs THEN w.free \ {x} ELSE w.free
           s == LeastOf(fr1)
<1>1. /\ w \in WorldSet(vol) /\ f.nDataBlock = n /\ n \in Nat
      /\ n = 0 => f.pos < BlockSize
      /\ n > 0 => f.pos >= BlockSize /\ f.curDataPtr = data[n - 1]
  <2>1. w \in WorldSet(vol)
    BY DEF IsFile
  <2> QED
    BY <2>1, AtEnd
<1>2. /\ f \in FileSet(vol) /\ w.disk \in DiskSet(vol) /\ w.free \in SUBSET vol.sectors
      /\ w = Whole(f, w.disk, w.free, w.header, w.ok) /\ f.pos \in Nat
  <2>1. w = Whole(f, w.disk, w.free, w.header, w.ok)
    BY <1>1, WorldWhole
  <2> QED
    BY <1>1, <2>1, WorldParts
<1>3. /\ vol.sectors \subseteq Nat \ {0} /\ 0 \notin vol.sectors /\ vol.maxDatablk \in Nat \ {0}
      /\ BlockSize \in Nat \ {0}
  BY VolumeParts
<1>4. /\ Owns(vol, w.free, n, data, ext) /\ ExtPlaced(vol, f, n, ext)
      /\ Counted(vol, f.fileHdr, ExtsNow(vol, f, w.disk), n, ext)
  BY DEF IsFile, FileIs, Lists
<1>5. f.pos >= BlockSize => f.curDataPtr # 0
  <2>1. n > 0 => data[n - 1] \in vol.sectors
    BY <1>1, <1>4, Sector
  <2> QED
    BY <1>1, <1>2, <1>3, <2>1
<1>6. fr1 # {} /\ fr1 \in SUBSET vol.sectors /\ (needs => w.free # {}) /\ fr1 \in SUBSET Nat
      /\ w.free \in SUBSET Nat
  BY <1>2, <1>3 DEF HasRoom
<1>7. LastList(vol, n + 1) = LastList(vol, n) \/ needs
  BY <1>1, NextList
<1>8. Extra(vol, n, x) = IF needs THEN {x} ELSE {}
  <2>1. LastList(vol, n) \in Nat /\ (needs => LastList(vol, n + 1) = LastList(vol, n) + 1)
        /\ (~needs => LastList(vol, n + 1) = LastList(vol, n))
    BY <1>1, NextList
  <2> QED
    BY <2>1 DEF Extra
<1> HIDE DEF needs, f, x
<1>9. \E g, d1 : /\ IF needs THEN x \in w.free /\ ExtCreated(vol, f, w.disk, x, g, d1)
                    ELSE g = f /\ d1 = w.disk
                 /\ e = Whole(g, d1, fr1, w.header, w.ok)
  <2>1. CASE ~needs
    BY <1>2, <2>1
  <2>2. CASE needs
    <3>1. f.nDataBlock # vol.maxDatablk => f.currentExt # NoExt
      BY <1>1, <1>3, <1>4, <2>2 DEF ExtPlaced, needs
    <3>2. \E g, d1 : /\ ExtCreated(vol, f, w.disk, x, g, d1)
                     /\ CreateExt(w) = Whole(g, d1, w.free \ {x}, w.header, w.ok)
      <4> DEFINE fr == w.free
                 d == w.disk
                 hh == w.header
                 oo == w.ok
      <4>1. fr # {} /\ fr \in SUBSET vol.sectors /\ d \in DiskSet(vol) /\ f \in FileSet(vol)
        BY <1>2, <1>6, <2>2
      <4>2. x = LeastOf(fr) /\ w = Whole(f, d, fr, hh, oo)
        BY <1>2 DEF x
      <4> HIDE DEF fr, d, hh, oo, fr1, e
      <4>3. ExtCreates(vol, f, d, fr, hh, oo)
        BY <3>1, <4>1, CreateExtIs
      <4>4. \E g, d1 : /\ ExtCreated(vol, f, d, x, g, d1)
                       /\ CreateExt(w) = Whole(g, d1, fr \ {x}, hh, oo)
        BY <4>2, <4>3 DEF ExtCreates
      <4> QED
        BY <4>4 DEF fr, d, hh, oo
    <3>3. x \in w.free
      <4>1. \E a \in w.free : \A t \in w.free : a <= t
        BY <1>6, <2>2, LeastNumber
      <4> QED
        BY <4>1 DEF x, LeastOf
    <3> QED
      BY <2>2, <3>2, <3>3
  <2> QED
    BY <2>1, <2>2
<1> HIDE DEF fr1
<1>10. PICK g, d1 : /\ IF needs THEN x \in w.free /\ ExtCreated(vol, f, w.disk, x, g, d1)
                       ELSE g = f /\ d1 = w.disk
                    /\ e = Whole(g, d1, fr1, w.header, w.ok)
  BY <1>9
<1> HIDE DEF e
<1>11. /\ s \in fr1 /\ Granted(e) = s
       /\ Grant(e) = Whole(g, d1, fr1 \ {s}, w.header, w.ok)
  <2> DEFINE hh == w.header
             oo == w.ok
  <2>1. fr1 \in SUBSET Nat /\ fr1 # {} /\ e = Whole(g, d1, fr1, hh, oo) /\ s = LeastOf(fr1)
    BY <1>6, <1>10
  <2> HIDE DEF s, hh, oo
  <2>2. Grants(g, d1, fr1, hh, oo)
    BY <2>1, GrantIs
  <2>3. /\ s \in fr1 /\ Granted(e) = s
        /\ Grant(e) = Whole(g, d1, fr1 \ {s}, hh, oo)
    BY <2>1, <2>2 DEF Grants
  <2> QED
    BY <2>3 DEF hh, oo
<1>12. s \in vol.sectors /\ s \in w.free \ Extra(vol, n, x)
       /\ fr1 \ {s} = w.free \ (Extra(vol, n, x) \cup {s})
  BY <1>6, <1>8, <1>11 DEF fr1
<1> HIDE DEF s
<1>13. /\ g \in FileSet(vol) /\ d1 \in DiskSet(vol) /\ g.nDataBlock = n /\ g.pos = f.pos
       /\ g.curDataPtr = f.curDataPtr
  BY <1>1, <1>2, <1>10 DEF ExtCreated, f
<1>14. IF g.nDataBlock < vol.maxDatablk THEN g.fileHdr.highSeq < vol.maxDatablk
       ELSE /\ g.currentExt \in ExtSet(vol) /\ g.currentExt.highSeq < vol.maxDatablk
            /\ g.posInExtBlk < vol.maxDatablk
  <2> DEFINE L == LastList(vol, n)
  <2>1. /\ L \in Nat
        /\ IF needs THEN EntryOf(vol, n) = 0 ELSE InLast(vol, n) = EntryOf(vol, n)
        /\ ListOf(vol, n) = LastList(vol, n + 1)
    BY <1>1, NextList DEF needs
  <2>2. EntryOf(vol, n) \in 0..(vol.maxDatablk - 1) /\ (ListOf(vol, n) = 0 <=> n < vol.maxDatablk)
    BY <1>1, PlaceOf
  <2>3. CASE needs
    <3>1. g.currentExt = ExtBlock(x, NoEntries, 0, 0) /\ g.posInExtBlk = 0 /\ g.currentExt \in ExtSet(vol) \cup {NoExt}
      BY <1>10, <1>13, <2>3 DEF ExtCreated, FileSet
    <3>2. g.currentExt.highSeq = 0 /\ g.currentExt # NoExt
      BY <3>1 DEF ExtBlock, NoExt
    <3> QED
      BY <1>1, <1>3, <1>13, <2>3, <3>1, <3>2 DEF needs
  <2>4. CASE ~needs /\ n < vol.maxDatablk
    <3>1. L = 0
      BY <1>7, <2>1, <2>2, <2>4
    <3>2. f.fileHdr.highSeq = InLast(vol, n)
      BY <1>4, <3>1 DEF Counted, ListAt
    <3> QED
      BY <1>3, <1>10, <1>13, <2>1, <2>2, <2>4, <3>2
  <2>5. CASE ~needs /\ ~(n < vol.maxDatablk)
    <3>1. L = ListOf(vol, n) /\ L \in 1..L /\ n > vol.maxDatablk /\ EntryOf(vol, n) # 0
      <4>1. n # vol.maxDatablk
        <5>1. n % vol.maxDatablk # 0
          BY <1>1, <1>3, <2>5 DEF needs
        <5>2. n = vol.maxDatablk => n % vol.maxDatablk = 0
          <6>1. vol.maxDatablk = vol.maxDatablk * 1 + 0
            BY <1>3
          <6> QED
            BY <1>3, <6>1, DivUnique
        <5> QED
          BY <5>1, <5>2
      <4> QED
        BY <1>1, <1>3, <1>7, <2>1, <2>2, <2>5, <4>1 DEF needs, EntryOf
    <3>2. n # 0 /\ (IF EntryOf(vol, n) = 0 THEN TRUE
                    ELSE ListOf(vol, n) = ListOf(vol, n - 1)
                         /\ EntryOf(vol, n) = EntryOf(vol, n - 1) + 1)
      BY <1>1, <1>3, <3>1, PlaceNext
    <3>3. /\ f.currentExt # NoExt /\ f.currentExt.headerKey = ext[L]
          /\ f.posInExtBlk = EntryOf(vol, n)
      BY <1>1, <1>4, <3>1, <3>2 DEF ExtPlaced, f
    <3>4. f.currentExt \in ExtSet(vol)
      BY <1>2, <3>3 DEF FileSet
    <3>5. f.currentExt.highSeq = InLast(vol, n)
      <4>1. ext[L] \in vol.sectors
        BY <1>4, <3>1, Sector
      <4>2. L \in 0..L /\ L # 0
        BY <3>1
      <4>3. ExtsNow(vol, f, w.disk)[ext[L]] = f.currentExt
        BY <3>3, <4>1 DEF ExtsNow
      <4>4. ListAt(f.fileHdr, ExtsNow(vol, f, w.disk), ext, L).highSeq = InLast(vol, n)
        BY <1>4, <4>2 DEF Counted
      <4> QED
        BY <4>2, <4>3, <4>4 DEF ListAt
    <3> QED
      BY <1>3, <1>10, <1>13, <2>1, <2>2, <2>5, <3>3, <3>4, <3>5
  <2> QED
    BY <2>3, <2>4, <2>5
<1>15. PICK g2 : /\ EntryListed(vol, g, s, g2)
                 /\ List(Whole(g, d1, fr1 \ {s}, w.header, w.ok), s)
                    = Whole(g2, d1, fr1 \ {s}, w.header, w.ok)
  BY <1>12, <1>13, <1>14, ListIs
<1>16. g2 \in FileSet(vol) /\ g2.pos = f.pos /\ g2.curDataPtr = f.curDataPtr
  BY <1>13, <1>15 DEF EntryListed
<1>17. PICK g3, d2 : /\ BlockStarted(vol, g2, d1, s, g3, d2)
                     /\ StartBlock(Whole(g2, d1, fr1 \ {s}, w.header, w.ok), s)
                        = Whole(g3, d2, fr1 \ {s}, w.header, w.ok)
  BY <1>5, <1>12, <1>13, <1>16, StartBlockIs
<1>18. adfFileCreateNextBlock(w) = StartBlock(List(Grant(e), s), s)
  <2>1. NeedsExt(w.file.nDataBlock) = needs
    BY <1>1 DEF NeedsExt, needs, MaxDatablk, f
  <2>2. ~(needs /\ ~Grantable(w))
    BY <1>6 DEF Grantable
  <2>3. Grantable(e)
    <3>1. e.free = fr1
      BY <1>10, WholeParts
    <3> QED
      BY <1>6, <3>1 DEF Grantable
  <2> QED
    BY <1>11, <2>1, <2>2, <2>3, Zenon DEF adfFileCreateNextBlock, e
<1>19. adfFileCreateNextBlock(w) = MadeWorld(vol, w, n, x, s, g3, d2)
  BY <1>11, <1>12, <1>15, <1>17, <1>18 DEF MadeWorld
<1>20. BlockMade(vol, w, n, x, s, g, d1, g2, g3, d2)
  BY <1>10, <1>12, <1>15, <1>17 DEF BlockMade, needs, f
<1> QED
  BY <1>19, <1>20

\* What these steps have made of the data blocks, and of the lists.
Needs(v, n) == n >= v.maxDatablk /\ n % v.maxDatablk = 0

DataMade(v, w, n, data, s, g3, d2) ==
  /\ g3 \in FileSet(v) /\ d2 \in DiskSet(v)
  /\ g3.nDataBlock = n + 1 /\ g3.pos = w.file.pos /\ g3.curDataPtr = s
  /\ g3.currentData = DataBlock(Zeros, 0, 0)
  /\ n > 0 => /\ AsData(d2[data[n - 1]]).bytes = w.file.currentData.bytes
              /\ v.ofs => AsData(d2[data[n - 1]]).nextData = s
  /\ \A t \in v.sectors :
       ~(n > 0 /\ t = data[n - 1])
         /\ ~(Needs(v, n) /\ n # v.maxDatablk /\ t = w.file.currentExt.headerKey) =>
       d2[t] = w.disk[t]

ListsMade(v, w, n, data, s, x, g3, d2) ==
  LET f == w.file IN
  /\ g3.fileHdr.byteSize = f.fileHdr.byteSize
  /\ g3.fileHdr.firstData = IF n = 0 THEN s ELSE f.fileHdr.firstData
  /\ Needs(v, n) =>
       /\ x \in w.free /\ g3.currentExt \in ExtSet(v) /\ g3.currentExt.headerKey = x
       /\ ListStarted(g3.currentExt, s) /\ g3.posInExtBlk = 1
  /\ Needs(v, n) /\ n = v.maxDatablk => LinkAdded(f.fileHdr, g3.fileHdr, x)
  /\ ~(Needs(v, n) /\ n = v.maxDatablk) /\ n >= v.maxDatablk => g3.fileHdr = f.fileHdr
  /\ Needs(v, n) /\ n # v.maxDatablk =>
       LET c == d2[f.currentExt.headerKey]
       IN  /\ c \in ExtSet(v) /\ c.headerKey = f.currentExt.headerKey
           /\ LinkAdded(f.currentExt, c, x)
  /\ n < v.maxDatablk => /\ g3.currentExt = f.currentExt /\ g3.posInExtBlk = f.posInExtBlk
                         /\ EntryAdded(v, f.fileHdr, g3.fileHdr, n, s)
  /\ ~Needs(v, n) /\ n >= v.maxDatablk =>
       /\ g3.currentExt \in ExtSet(v) /\ g3.currentExt.headerKey = f.currentExt.headerKey
       /\ EntryAdded(v, f.currentExt, g3.currentExt, f.posInExtBlk, s)
       /\ g3.posInExtBlk = f.posInExtBlk + 1

\* When the file was extended, the extension block in memory is its last one.
ExtAtEnd(v, w, n, data, ext) ==
  /\ n > 0 /\ w.file.currentExt # NoExt => w.file.currentExt.headerKey # data[n - 1]
  /\ n > v.maxDatablk => /\ w.file.currentExt # NoExt /\ w.file.currentExt \in ExtSet(v)
                         /\ LastList(v, n) >= 1 /\ LastList(v, n) \in 1..LastList(v, n)
                         /\ w.file.currentExt.headerKey = ext[LastList(v, n)]
                         /\ ~Needs(v, n) => w.file.posInExtBlk = EntryOf(v, n)

\* The counters say so.
LEMMA ExtAtEndIs ==
  ASSUME NEW v \in Volumes, NEW w, NEW data, NEW ext, NEW bytes, IsFile(v, w, data, ext, bytes),
         Extends(w), NEW n, n = Count(w.file.fileHdr.byteSize)
  PROVE  ExtAtEnd(v, w, n, data, ext)
<1>1. n > 0 => w.file.curDataPtr = data[n - 1]
  BY AtEnd
<1>2. w \in WorldSet(v) /\ ExtPlaced(v, w.file, n, ext)
  BY DEF IsFile
<1>3. w.file.currentExt # NoExt => w.file.currentExt \in ExtSet(v)
  BY <1>2, WorldParts
<1>4. w.file.nDataBlock = n /\ n \in Nat
  BY AtEnd
<1>5. n > 0 /\ w.file.currentExt # NoExt => w.file.currentExt.headerKey # data[n - 1]
  <2>1. w.file.currentExt # NoExt => w.file.currentExt.headerKey # w.file.curDataPtr
    BY InMemory
  <2> QED
    BY <1>1, <2>1
<1>6. ASSUME n > v.maxDatablk
      PROVE  /\ w.file.currentExt # NoExt /\ w.file.currentExt.headerKey = ext[LastList(v, n)]
             /\ LastList(v, n) >= 1 /\ LastList(v, n) \in 1..LastList(v, n)
             /\ ~Needs(v, n) => w.file.posInExtBlk = EntryOf(v, n)
  <2>1. v.maxDatablk \in Nat \ {0}
    BY VolumeParts
  <2>2. LastList(v, n) = ListOf(v, n - 1) /\ n - 1 \in Nat /\ n - 1 >= v.maxDatablk /\ n \in Nat \ {0}
    BY <1>4, <1>6, <2>1 DEF LastList
  <2>3. ListOf(v, n - 1) \in Nat /\ ListOf(v, n - 1) # 0
    BY <2>1, <2>2, PlaceOf
  <2>4. /\ w.file.currentExt # NoExt /\ w.file.currentExt.headerKey = ext[ListOf(v, n - 1)]
        /\ w.file.posInExtBlk = EntryOf(v, n - 1) + 1
    BY <1>2, <1>4, <1>6 DEF ExtPlaced
  <2>5. ~Needs(v, n) => EntryOf(v, n) # 0
    BY <1>4, <1>6, <2>1 DEF Needs, EntryOf
  <2>6. EntryOf(v, n) # 0 => EntryOf(v, n) = EntryOf(v, n - 1) + 1
    BY <2>2, PlaceNext
  <2> QED
    BY <2>2, <2>3, <2>4, <2>5, <2>6
<1> QED
  BY <1>3, <1>5, <1>6 DEF ExtAtEnd

\* What the steps have made of the data blocks.
LEMMA DataMadeIs ==
  ASSUME NEW v \in Volumes, NEW w, NEW data, NEW ext, NEW bytes, IsFile(v, w, data, ext, bytes),
         Extends(w), NEW n, n = Count(w.file.fileHdr.byteSize),
         NEW x, NEW s, NEW g, NEW d1, NEW g2, NEW g3, NEW d2,
         BlockMade(v, w, n, x, s, g, d1, g2, g3, d2)
  PROVE  DataMade(v, w, n, data, s, g3, d2)
<1> DEFINE f == w.file
<1>1. /\ f.nDataBlock = n /\ n \in Nat
      /\ n = 0 => f.pos < BlockSize
      /\ n > 0 => f.pos >= BlockSize /\ f.curDataPtr = data[n - 1]
  BY AtEnd
<1>2. ~(f.pos < BlockSize) => n > 0
  BY <1>1
<1>3. w \in WorldSet(v) /\ Owns(v, w.free, n, data, ext)
  BY DEF IsFile, FileIs
<1>4. f \in FileSet(v) /\ w.disk \in DiskSet(v)
  BY <1>3, WorldParts
<1>5. n > 0 => data[n - 1] \in v.sectors
  BY <1>1, <1>3, Sector
<1>6. ExtAtEnd(v, w, n, data, ext)
  BY ExtAtEndIs
<1> HIDE DEF f
<1>7. /\ g.nDataBlock = n /\ g.pos = f.pos /\ g.curDataPtr = f.curDataPtr
      /\ g.currentData = f.currentData
      /\ d1 \in DiskSet(v)
      /\ IF Needs(v, n) /\ n # v.maxDatablk
           THEN d1 = [w.disk EXCEPT ![f.currentExt.headerKey] = [f.currentExt EXCEPT !.extension = x]]
           ELSE d1 = w.disk
  BY <1>1, <1>4 DEF BlockMade, ExtCreated, Needs, f
<1>8. /\ g2.nDataBlock = n /\ g2.pos = f.pos /\ g2.curDataPtr = f.curDataPtr
      /\ g2.currentData = f.currentData
  BY <1>7 DEF BlockMade, EntryListed
<1>9. /\ g3 \in FileSet(v) /\ d2 \in DiskSet(v) /\ g3.currentData = DataBlock(Zeros, 0, 0)
      /\ g3.curDataPtr = s /\ g3.nDataBlock = n + 1 /\ g3.pos = f.pos
      /\ IF f.pos < BlockSize THEN d2 = d1
         ELSE \E b \in DataSet(v) :
                /\ b.bytes = f.currentData.bytes
                /\ b.nextData = IF v.ofs THEN s ELSE f.currentData.nextData
                /\ d2 = [d1 EXCEPT ![f.curDataPtr] = b]
  <2>1. BlockStarted(v, g2, d1, s, g3, d2)
    BY DEF BlockMade
  <2> QED
    BY <1>8, <2>1 DEF BlockStarted
<1>10. ASSUME n > 0
       PROVE  \E b \in DataSet(v) :
                /\ b.bytes = f.currentData.bytes
                /\ b.nextData = IF v.ofs THEN s ELSE f.currentData.nextData
                /\ d2 = [d1 EXCEPT ![data[n - 1]] = b]
  <2>1. f.pos \in Nat /\ BlockSize \in Nat
    BY <1>4, VolumeParts DEF FileSet
  <2> QED
    BY <1>1, <1>9, <1>10, <2>1 DEF f
<1>11. ASSUME n > 0
       PROVE  /\ AsData(d2[data[n - 1]]).bytes = f.currentData.bytes
              /\ v.ofs => AsData(d2[data[n - 1]]).nextData = s
  <2>1. PICK b \in DataSet(v) :
               /\ b.bytes = f.currentData.bytes
               /\ b.nextData = IF v.ofs THEN s ELSE f.currentData.nextData
               /\ d2 = [d1 EXCEPT ![data[n - 1]] = b]
    BY <1>10, <1>11
  <2>2. d2[data[n - 1]] = b
    BY <1>5, <1>7, <1>11, <2>1 DEF DiskSet
  <2>3. AsData(b) = b
    BY DEF AsData, DataSet
  <2> QED
    BY <2>1, <2>2, <2>3
<1>12. ASSUME NEW t \in v.sectors, ~(n > 0 /\ t = data[n - 1]),
              ~(Needs(v, n) /\ n # v.maxDatablk /\ t = f.currentExt.headerKey)
       PROVE  d2[t] = w.disk[t]
  <2>1. d1[t] = w.disk[t]
    BY <1>4, <1>7, <1>12 DEF DiskSet
  <2>2. d2[t] = d1[t]
    <3>1. CASE n > 0
      <4>1. PICK b : d2 = [d1 EXCEPT ![data[n - 1]] = b]
        BY <1>10, <3>1
      <4> QED
        BY <1>7, <1>12, <3>1, <4>1 DEF DiskSet
    <3>2. CASE ~(n > 0)
      <4>1. f.pos < BlockSize
        BY <1>1, <3>2 DEF f
      <4> QED
        BY <1>9, <4>1
    <3> QED
      BY <3>1, <3>2
  <2> QED
    BY <2>1, <2>2
<1> QED
  BY <1>9, <1>11, <1>12 DEF DataMade, f

\* And of the lists.
LEMMA ListsMadeIs ==
  ASSUME NEW v \in Volumes, NEW w, NEW data, NEW ext, NEW bytes, IsFile(v, w, data, ext, bytes),
         Extends(w), NEW n, n = Count(w.file.fileHdr.byteSize),
         NEW x, NEW s, NEW g, NEW d1, NEW g2, NEW g3, NEW d2,
         BlockMade(v, w, n, x, s, g, d1, g2, g3, d2)
  PROVE  ListsMade(v, w, n, data, s, x, g3, d2)
<1> DEFINE f == w.file
<1>1. /\ f.nDataBlock = n /\ n \in Nat
      /\ n = 0 => f.pos < BlockSize
      /\ n > 0 => f.pos >= BlockSize /\ f.curDataPtr = data[n - 1]
  BY AtEnd
<1>2. v.maxDatablk \in Nat \ {0}
  BY VolumeParts
<1>3. w \in WorldSet(v)
  BY DEF IsFile
<1>4. f \in FileSet(v) /\ w.disk \in DiskSet(v) /\ f.fileHdr \in HeaderSet(v)
  BY <1>3, WorldParts
<1>5. DataMade(v, w, n, data, s, g3, d2)
  BY DataMadeIs
<1>6. ExtAtEnd(v, w, n, data, ext)
  BY ExtAtEndIs
<1>7. n < v.maxDatablk => ~Needs(v, n)
  BY <1>1, <1>2 DEF Needs
<1> HIDE DEF f
<1>8. /\ g.nDataBlock = n
      /\ Needs(v, n) =>
           /\ x \in w.free /\ g.currentExt = ExtBlock(x, NoEntries, 0, 0) /\ g.posInExtBlk = 0
      /\ Needs(v, n) /\ n = v.maxDatablk => g.fileHdr = [f.fileHdr EXCEPT !.extension = x]
      /\ ~(Needs(v, n) /\ n = v.maxDatablk) => g.fileHdr = f.fileHdr
      /\ Needs(v, n) /\ n # v.maxDatablk =>
           d1 = [w.disk EXCEPT ![f.currentExt.headerKey] = [f.currentExt EXCEPT !.extension = x]]
      /\ ~Needs(v, n) => g = f
  BY <1>1, <1>4 DEF BlockMade, ExtCreated, Needs, f
<1>9. EntryListed(v, g, s, g2)
  BY DEF BlockMade
<1>10. g3.fileHdr = g2.fileHdr /\ g3.currentExt = g2.currentExt /\ g3.posInExtBlk = g2.posInExtBlk
  BY DEF BlockMade, BlockStarted
<1>11. CASE n < v.maxDatablk
  <2>1. g = f
    BY <1>7, <1>8, <1>11
  <2> QED
    BY <1>1, <1>2, <1>7, <1>9, <1>10, <1>11, <2>1 DEF EntryListed, ListsMade, f
<1>12. ASSUME ~(n < v.maxDatablk)
       PROVE  /\ g3.fileHdr = g.fileHdr /\ g3.posInExtBlk = g.posInExtBlk + 1
              /\ g3.currentExt \in ExtSet(v) /\ g3.currentExt.headerKey = g.currentExt.headerKey
              /\ EntryAdded(v, g.currentExt, g3.currentExt, g.posInExtBlk, s)
              /\ n # 0
  BY <1>1, <1>2, <1>8, <1>9, <1>10, <1>12 DEF EntryListed
<1>13. CASE ~(n < v.maxDatablk) /\ ~Needs(v, n)
  BY <1>1, <1>2, <1>8, <1>12, <1>13 DEF ListsMade, f
<1>14. CASE ~(n < v.maxDatablk) /\ Needs(v, n)
  <2>1. /\ g3.currentExt.headerKey = x /\ g3.currentExt \in ExtSet(v)
        /\ ListStarted(g3.currentExt, s) /\ g3.posInExtBlk = 1
    BY <1>8, <1>12, <1>14 DEF ExtBlock, EntryAdded, ListStarted
  <2>2. CASE n = v.maxDatablk
    <3>1. LinkAdded(f.fileHdr, g3.fileHdr, x) /\ g3.fileHdr.byteSize = f.fileHdr.byteSize
          /\ g3.fileHdr.firstData = f.fileHdr.firstData
      BY <1>4, <1>8, <1>12, <1>14, <2>2 DEF LinkAdded, HeaderSet
    <3> QED
      BY <1>1, <1>2, <1>8, <1>12, <1>14, <2>1, <2>2, <3>1 DEF ListsMade, f
  <2>3. CASE n # v.maxDatablk
    <3> DEFINE c == d2[f.currentExt.headerKey]
               e == f.currentExt
    <3>1. n > v.maxDatablk
      BY <1>1, <1>2, <1>14, <2>3
    <3>2. e \in ExtSet(v) /\ e.headerKey \in v.sectors /\ e.headerKey # data[n - 1] /\ n > 0
      BY <1>1, <1>2, <1>6, <3>1 DEF ExtAtEnd, ExtSet, f
    <3>3. c = [e EXCEPT !.extension = x]
      <4>1. d1[e.headerKey] = [e EXCEPT !.extension = x]
        BY <1>4, <1>8, <1>14, <2>3, <3>2 DEF DiskSet
      <4>2. d1 \in DiskSet(v)
        BY <1>8, <1>14, <2>3, <1>1 DEF BlockMade, ExtCreated, Needs
      <4>3. d2[e.headerKey] = d1[e.headerKey]
        <5>1. g2.curDataPtr = data[n - 1]
          BY <1>1, <1>14, <3>2 DEF BlockMade, ExtCreated, EntryListed, Needs, f
        <5>2. d2 = d1 \/ \E b : d2 = [d1 EXCEPT ![g2.curDataPtr] = b]
          BY DEF BlockMade, BlockStarted
        <5> QED
          BY <3>2, <4>2, <5>1, <5>2 DEF DiskSet
      <4> QED
        BY <4>1, <4>3
    <3>4. x \in v.sectors
      BY <1>3, <1>8, <1>14, WorldParts
    <3>5. c \in ExtSet(v) /\ c.headerKey = e.headerKey /\ LinkAdded(e, c, x)
      <4> HIDE DEF c, e
      <4> QED
        BY <3>2, <3>3, <3>4 DEF LinkAdded, ExtSet
    <3> QED
      BY <1>1, <1>2, <1>8, <1>12, <1>14, <2>1, <2>3, <3>5 DEF ListsMade, f
  <2> QED
    BY <2>2, <2>3
<1> QED
  BY <1>11, <1>13, <1>14

\* The extension blocks of the file, those in memory standing for those on the
\* disk: the last one gets the entry, or is linked with x, which gets it.
ExtsMade(v, n, y, y2, c, c2, ext, x, s) ==
  LET L == LastList(v, n)
  IN  /\ \A l \in 1..(L - 1) : y2[ext[l]] = y[ext[l]]
      /\ Needs(v, n) => y2[x] = c2
      /\ n > v.maxDatablk => y[ext[L]] = c
      /\ n > v.maxDatablk /\ ~Needs(v, n) => y2[ext[L]] = c2
      /\ n > v.maxDatablk /\ Needs(v, n) =>
           /\ y2[ext[L]] \in ExtSet(v) /\ y2[ext[L]].headerKey = ext[L]
           /\ LinkAdded(c, y2[ext[L]], x)

\* They are so.
LEMMA ExtsMadeIs ==
  ASSUME NEW v \in Volumes, NEW w, w \in WorldSet(v), NEW n \in Nat, NEW data, NEW ext,
         Owns(v, w.free, n, data, ext), ExtAtEnd(v, w, n, data, ext),
         ExtPlaced(v, w.file, n, ext),
         NEW x, NEW s, NEW g3, NEW d2,
         DataMade(v, w, n, data, s, g3, d2), ListsMade(v, w, n, data, s, x, g3, d2)
  PROVE  ExtsMade(v, n, ExtsNow(v, w.file, w.disk), ExtsNow(v, g3, d2), w.file.currentExt,
                  g3.currentExt, ext, x, s)
<1> DEFINE f == w.file
           y == ExtsNow(v, f, w.disk)
           y2 == ExtsNow(v, g3, d2)
           L == LastList(v, n)
<1>1. v.maxDatablk \in Nat \ {0} /\ L \in Nat
  BY VolumeParts, ListInFile
<1>2. \A l \in 1..L : ext[l] \in v.sectors /\ ext[l] \notin w.free
  BY <1>1, Sector
<1>3. \A l \in 1..L : n > 0 => ext[l] # data[n - 1]
  <2>1. n > 0 => n - 1 \in 0..(n - 1)
    OBVIOUS
  <2> QED
    BY <2>1 DEF Owns
<1>4. \A j, k \in 1..L : ext[j] = ext[k] => j = k
  BY DEF Owns
<1>5. /\ n > v.maxDatablk => /\ f.currentExt # NoExt /\ f.currentExt \in ExtSet(v)
                             /\ L \in 1..L /\ f.currentExt.headerKey = ext[L]
      /\ ~(n > v.maxDatablk) => L = 0 /\ f.currentExt = NoExt
  <2>1. ~(n > v.maxDatablk) => L = 0
    <3>1. n = 0 \/ n - 1 \in Nat
      OBVIOUS
    <3>2. n > 0 /\ ~(n > v.maxDatablk) => n - 1 < v.maxDatablk
      BY <1>1
    <3> QED
      BY <3>1, <3>2, PlaceOf DEF LastList
  <2>2. L = 0 => f.currentExt = NoExt
    BY DEF ExtPlaced
  <2> QED
    BY <2>1, <2>2 DEF ExtAtEnd
<1>6. Needs(v, n) => x \in w.free /\ x \in v.sectors
  BY WorldParts DEF ListsMade
<1>7. \A e \in ExtSet(v) : e # NoExt
  BY DEF ExtSet, NoExt
<1>8. \A t \in v.sectors : /\ f.currentExt # NoExt /\ f.currentExt.headerKey = t => y[t] = f.currentExt
                           /\ ~(f.currentExt # NoExt /\ f.currentExt.headerKey = t) => y[t] = w.disk[t]
                           /\ g3.currentExt # NoExt /\ g3.currentExt.headerKey = t => y2[t] = g3.currentExt
                           /\ ~(g3.currentExt # NoExt /\ g3.currentExt.headerKey = t) => y2[t] = d2[t]
  BY DEF ExtsNow
<1>9. /\ Needs(v, n) => /\ g3.currentExt \in ExtSet(v) /\ g3.currentExt.headerKey = x
      /\ ~Needs(v, n) /\ n >= v.maxDatablk =>
           g3.currentExt \in ExtSet(v) /\ g3.currentExt.headerKey = f.currentExt.headerKey
      /\ Needs(v, n) /\ n # v.maxDatablk =>
           LET c == d2[f.currentExt.headerKey]
           IN  /\ c \in ExtSet(v) /\ c.headerKey = f.currentExt.headerKey
               /\ LinkAdded(f.currentExt, c, x)
  BY DEF ListsMade, f
<1>10. Needs(v, n) => n >= v.maxDatablk
  BY DEF Needs
<1>11. \A t \in v.sectors :
         ~(n > 0 /\ t = data[n - 1])
           /\ ~(Needs(v, n) /\ n # v.maxDatablk /\ t = f.currentExt.headerKey) =>
         d2[t] = w.disk[t]
  BY DEF DataMade
<1> HIDE DEF f, y, y2, L
<1>12. \A l \in 1..(L - 1) : y2[ext[l]] = y[ext[l]]
  <2> SUFFICES ASSUME NEW l \in 1..(L - 1)
               PROVE  y2[ext[l]] = y[ext[l]]
    OBVIOUS
  <2>1. l \in 1..L /\ L \in 1..L /\ l # L
    BY <1>1
  <2>2. n > v.maxDatablk /\ ext[l] # ext[L]
    BY <1>1, <1>4, <1>5, <2>1
  <2>3. Needs(v, n) => ext[l] # x
    BY <1>2, <1>6, <2>1
  <2>4. ext[l] \in v.sectors /\ ~(n > 0 /\ ext[l] = data[n - 1])
    BY <1>2, <1>3, <2>1
  <2>5. d2[ext[l]] = w.disk[ext[l]]
    BY <1>5, <1>11, <2>2, <2>4
  <2>6. y[ext[l]] = w.disk[ext[l]]
    BY <1>5, <1>8, <2>2, <2>4
  <2>7. y2[ext[l]] = d2[ext[l]]
    BY <1>1, <1>5, <1>8, <1>9, <2>2, <2>3, <2>4
  <2> QED
    BY <2>5, <2>6, <2>7
<1>13. Needs(v, n) => y2[x] = g3.currentExt
  BY <1>6, <1>7, <1>8, <1>9
<1>14. ASSUME n > v.maxDatablk
       PROVE  /\ y[ext[L]] = f.currentExt
              /\ ~Needs(v, n) => y2[ext[L]] = g3.currentExt
              /\ Needs(v, n) => /\ y2[ext[L]] \in ExtSet(v) /\ y2[ext[L]].headerKey = ext[L]
                                /\ LinkAdded(f.currentExt, y2[ext[L]], x)
  <2>1. L \in 1..L /\ ext[L] \in v.sectors /\ ext[L] \notin w.free /\ f.currentExt # NoExt
        /\ f.currentExt.headerKey = ext[L] /\ n # v.maxDatablk /\ n >= v.maxDatablk
    BY <1>1, <1>2, <1>5, <1>14
  <2>2. Needs(v, n) => y2[ext[L]] = d2[ext[L]]
    BY <1>6, <1>8, <1>9, <2>1
  <2> QED
    BY <1>7, <1>8, <1>9, <2>1, <2>2
<1> QED
  BY <1>12, <1>13, <1>14 DEF ExtsMade, f, y, y2, L

\* So the lists have grown.
LEMMA GrownListsIs ==
  ASSUME NEW v \in Volumes, NEW w, w \in WorldSet(v), NEW n \in Nat, NEW data, NEW ext,
         Owns(v, w.free, n, data, ext), ExtAtEnd(v, w, n, data, ext),
         NEW y, Lists(v, w.file.fileHdr, y, n, data, ext), NEW y2,
         NEW x, NEW s, NEW g3, NEW d2, ListsMade(v, w, n, data, s, x, g3, d2),
         ExtsMade(v, n, y, y2, w.file.currentExt, g3.currentExt, ext, x, s)
  PROVE  GrownLists(v, w.file.fileHdr, y, g3.fileHdr, y2, n, data, ext, s, x)
<1> DEFINE f == w.file
           h == f.fileHdr
           h2 == g3.fileHdr
           L == LastList(v, n)
           M == LastList(v, n + 1)
           ext2 == LongerExt(v, ext, n, x)
           Old(l) == ListAt(h, y, ext, l)
           New(l) == ListAt(h2, y2, ext2, l)
<1>1. v.maxDatablk \in Nat \ {0} /\ L \in Nat /\ ext \in [1..L -> v.sectors]
  BY VolumeParts, ListInFile DEF Owns
<1>2. /\ M = ListOf(v, n)
      /\ Needs(v, n) => M = L + 1 /\ EntryOf(v, n) = 0
      /\ ~Needs(v, n) => M = L
  BY NextList DEF Needs
<1>3. /\ n < v.maxDatablk => M = 0 /\ EntryOf(v, n) = n /\ ~Needs(v, n)
      /\ n = v.maxDatablk => L = 0 /\ Needs(v, n)
      /\ n > v.maxDatablk => L \in 1..L /\ f.currentExt.headerKey = ext[L]
                             /\ (~Needs(v, n) => f.posInExtBlk = EntryOf(v, n))
  <2>1. n < v.maxDatablk => M = 0 /\ EntryOf(v, n) = n
    BY <1>2, PlaceOf
  <2>2. n < v.maxDatablk => ~Needs(v, n)
    BY <1>1 DEF Needs
  <2>3. ASSUME n = v.maxDatablk PROVE L = 0 /\ Needs(v, n)
    <3>1. n - 1 \in Nat /\ n - 1 < v.maxDatablk
      BY <1>1, <2>3
    <3>2. ListOf(v, n - 1) = 0
      BY <3>1, PlaceOf
    <3>3. n % v.maxDatablk = 0
      <4>1. n = v.maxDatablk * 1 + 0
        BY <1>1, <2>3
      <4> QED
        BY <1>1, <4>1, DivUnique
    <3> QED
      BY <1>1, <2>3, <3>2, <3>3 DEF LastList, Needs
  <2> QED
    BY <2>1, <2>2, <2>3 DEF ExtAtEnd
<1>4. /\ \A l \in 1..L : ext2[l] = ext[l]
      /\ Needs(v, n) => M \in 1..M /\ M # 0 /\ ext2[M] = x
  BY <1>1, <1>2 DEF LongerExt
<1>5. Old(0) = h /\ New(0) = h2 /\ (\A l \in Nat \ {0} : Old(l) = y[ext[l]] /\ New(l) = y2[ext2[l]])
  BY DEF ListAt
<1>6. /\ L > 0 => n > v.maxDatablk
      /\ n >= v.maxDatablk => n = v.maxDatablk \/ n > v.maxDatablk
      /\ n \in Nat
      /\ n < v.maxDatablk \/ n = v.maxDatablk \/ n > v.maxDatablk
  BY <1>1, <1>2, <1>3
<1>7. /\ h2.firstData = IF n = 0 THEN s ELSE h.firstData
      /\ Needs(v, n) =>
           /\ x \in w.free /\ g3.currentExt \in ExtSet(v) /\ g3.currentExt.headerKey = x
           /\ ListStarted(g3.currentExt, s)
      /\ Needs(v, n) /\ n = v.maxDatablk => LinkAdded(h, h2, x)
      /\ n > v.maxDatablk => h2 = h
      /\ n < v.maxDatablk => EntryAdded(v, h, h2, n, s)
      /\ ~Needs(v, n) /\ n > v.maxDatablk =>
           /\ g3.currentExt \in ExtSet(v) /\ g3.currentExt.headerKey = f.currentExt.headerKey
           /\ EntryAdded(v, f.currentExt, g3.currentExt, f.posInExtBlk, s)
  BY <1>1, <1>6 DEF ListsMade
<1>8. /\ \A l \in 1..(L - 1) : y2[ext[l]] = y[ext[l]]
      /\ Needs(v, n) => y2[x] = g3.currentExt
      /\ n > v.maxDatablk => y[ext[L]] = f.currentExt
      /\ n > v.maxDatablk /\ ~Needs(v, n) => y2[ext[L]] = g3.currentExt
      /\ n > v.maxDatablk /\ Needs(v, n) =>
           /\ y2[ext[L]] \in ExtSet(v) /\ y2[ext[L]].headerKey = ext[L]
           /\ LinkAdded(f.currentExt, y2[ext[L]], x)
  BY DEF ExtsMade
<1>9. Keyed(v, y, n, ext) /\ FirstIs(h, n, data)
  BY DEF Lists
<1> HIDE DEF f, h, h2, L, M, ext2, Old, New
<1>10. \A l \in 0..(L - 1) : SameList(New(l), Old(l))
  <2> SUFFICES ASSUME NEW l \in 0..(L - 1)
               PROVE  SameList(New(l), Old(l))
    OBVIOUS
  <2>1. n > v.maxDatablk /\ l \in 0..L
    BY <1>1, <1>6
  <2>2. New(l) = Old(l)
    <3>1. CASE l = 0
      BY <1>5, <1>7, <2>1, <3>1
    <3>2. CASE l # 0
      <4>1. l \in 1..(L - 1) /\ l \in 1..L /\ l \in Nat \ {0}
        BY <1>1, <3>2
      <4> QED
        BY <1>4, <1>5, <1>8, <4>1
    <3> QED
      BY <3>1, <3>2
  <2> QED
    BY <2>2 DEF SameList
<1>11. ~Needs(v, n) => EntryAdded(v, Old(L), New(L), EntryOf(v, n), s)
  <2> SUFFICES ASSUME ~Needs(v, n)
               PROVE  EntryAdded(v, Old(L), New(L), EntryOf(v, n), s)
    OBVIOUS
  <2>1. CASE n < v.maxDatablk
    BY <1>2, <1>3, <1>5, <1>7, <2>1
  <2>2. CASE n > v.maxDatablk
    <3>1. L \in 1..L /\ L \in Nat \ {0}
      BY <1>1, <1>3, <2>2
    <3>2. Old(L) = f.currentExt /\ New(L) = g3.currentExt
      BY <1>4, <1>5, <1>8, <2>2, <3>1
    <3> QED
      BY <1>3, <1>7, <2>2, <3>2
  <2> QED
    BY <1>3, <1>6, <2>1, <2>2
<1>12. Needs(v, n) => LinkAdded(Old(L), New(L), x) /\ ListStarted(New(M), s)
  <2> SUFFICES ASSUME Needs(v, n)
               PROVE  LinkAdded(Old(L), New(L), x) /\ ListStarted(New(M), s)
    OBVIOUS
  <2>1. M \in Nat \ {0} /\ New(M) = g3.currentExt
    BY <1>1, <1>2, <1>4, <1>5, <1>8
  <2>2. CASE n = v.maxDatablk
    BY <1>3, <1>5, <1>7, <2>1, <2>2
  <2>3. CASE n > v.maxDatablk
    <3>1. L \in 1..L /\ L \in Nat \ {0}
      BY <1>1, <1>3, <2>3
    <3>2. Old(L) = f.currentExt /\ New(L) = y2[ext[L]]
      BY <1>4, <1>5, <1>8, <2>3, <3>1
    <3> QED
      BY <1>7, <1>8, <2>1, <2>3, <3>2
  <2> QED
    BY <1>3, <1>6, <2>2, <2>3
<1>13. Keyed(v, y2, n + 1, ext2)
  <2> SUFFICES ASSUME NEW l \in 1..M
               PROVE  y2[ext2[l]] \in ExtSet(v) /\ y2[ext2[l]].headerKey = ext2[l]
    BY DEF Keyed, M
  <2>1. CASE l \in 1..(L - 1)
    <3>1. l \in 1..L
      BY <1>1, <2>1
    <3> QED
      BY <1>4, <1>8, <1>9, <2>1, <3>1 DEF Keyed, L
  <2>2. CASE l = L
    <3>1. L > 0 /\ n > v.maxDatablk
      BY <1>1, <1>6, <2>2
    <3> QED
      BY <1>3, <1>4, <1>7, <1>8, <2>2, <3>1
  <2>3. CASE l = M /\ Needs(v, n)
    BY <1>4, <1>7, <1>8, <2>3
  <2> QED
    BY <1>1, <1>2, <2>1, <2>2, <2>3
<1>14. FirstIs(h2, n + 1, Longer(data, n, s))
  <2>1. n = 0 => Longer(data, n, s)[0] = s
    BY DEF Longer
  <2>2. n # 0 => Longer(data, n, s)[0] = data[0]
    BY DEF Longer
  <2> QED
    BY <1>7, <1>9, <2>1, <2>2 DEF FirstIs
<1>15. (M = L) <=> ~Needs(v, n)
  BY <1>1, <1>2
<1> QED
  BY <1>10, <1>11, <1>12, <1>13, <1>14, <1>15 DEF GrownLists, f, h, h2, L, M, ext2, Old, New

\* So have the data blocks.
LEMMA GrownDataIs ==
  ASSUME NEW v \in Volumes, NEW w, w \in WorldSet(v), NEW n \in Nat, NEW data, NEW ext,
         Owns(v, w.free, n, data, ext), ExtAtEnd(v, w, n, data, ext),
         n > 0 => w.file.curDataPtr = data[n - 1],
         NEW s \in w.free, NEW g3, NEW d2, DataMade(v, w, n, data, s, g3, d2)
  PROVE  GrownData(v, DataNow(v, w.file, w.disk), DataNow(v, g3, d2), n, data, s)
<1> DEFINE f == w.file
           y == DataNow(v, f, w.disk)
           y2 == DataNow(v, g3, d2)
<1>1. v.maxDatablk \in Nat \ {0} /\ s \in v.sectors
  BY VolumeParts, WorldParts
<1>2. \A k \in 0..(n - 1) : data[k] \in v.sectors /\ data[k] \notin w.free
  BY Sector
<1>3. \A j, k \in 0..(n - 1) : data[j] = data[k] => j = k
  BY DEF Owns
<1>4. /\ g3.curDataPtr = s /\ g3.currentData = DataBlock(Zeros, 0, 0)
      /\ n > 0 => /\ AsData(d2[data[n - 1]]).bytes = f.currentData.bytes
                  /\ v.ofs => AsData(d2[data[n - 1]]).nextData = s
      /\ \A t \in v.sectors :
           ~(n > 0 /\ t = data[n - 1])
             /\ ~(Needs(v, n) /\ n # v.maxDatablk /\ t = f.currentExt.headerKey) =>
           d2[t] = w.disk[t]
  BY DEF DataMade
<1>5. \A k \in 0..(n - 1) : ~(Needs(v, n) /\ n # v.maxDatablk /\ data[k] = f.currentExt.headerKey)
  <2> SUFFICES ASSUME NEW k \in 0..(n - 1), Needs(v, n), n # v.maxDatablk
               PROVE  data[k] # f.currentExt.headerKey
    OBVIOUS
  <2>1. n > v.maxDatablk
    BY <1>1 DEF Needs
  <2>2. f.currentExt.headerKey = ext[LastList(v, n)] /\ LastList(v, n) \in 1..LastList(v, n)
    BY <2>1 DEF ExtAtEnd
  <2> QED
    BY <2>2 DEF Owns
<1>6. \A t \in v.sectors : /\ y[t] = IF f.curDataPtr = t THEN f.currentData ELSE AsData(w.disk[t])
                           /\ y2[t] = IF g3.curDataPtr = t THEN g3.currentData ELSE AsData(d2[t])
  BY DEF DataNow
<1> HIDE DEF f, y, y2
<1>7. ASSUME NEW k \in 0..(n - 1)
      PROVE  /\ y2[data[k]].bytes = y[data[k]].bytes
             /\ v.ofs => y2[data[k]].nextData = IF k = n - 1 THEN s ELSE y[data[k]].nextData
  <2>1. n > 0 /\ f.curDataPtr = data[n - 1] /\ n - 1 \in 0..(n - 1) /\ data[k] \in v.sectors
        /\ data[k] # s
    BY <1>2 DEF f
  <2>2. y2[data[k]] = AsData(d2[data[k]])
    BY <1>4, <1>6, <2>1
  <2>3. CASE k = n - 1
    BY <1>4, <1>6, <2>1, <2>2, <2>3
  <2>4. CASE k # n - 1
    <3>1. data[k] # data[n - 1]
      BY <1>3, <2>1, <2>4
    <3>2. d2[data[k]] = w.disk[data[k]]
      BY <1>4, <1>5, <2>1, <3>1
    <3> QED
      BY <1>6, <2>1, <2>2, <2>4, <3>1, <3>2
  <2> QED
    BY <2>3, <2>4
<1>8. y2[s].bytes = Zeros /\ y2[s].nextData = 0
  <2>1. y2[s] = DataBlock(Zeros, 0, 0)
    BY <1>1, <1>4, <1>6
  <2> QED
    BY <2>1 DEF DataBlock
<1> QED
  BY <1>7, <1>8 DEF GrownData, f, y, y2

\* And the extension block in memory lists the new data block, if one does.
LEMMA GrownPlaced ==
  ASSUME NEW v \in Volumes, NEW w, NEW n \in Nat, NEW data, NEW ext,
         ExtAtEnd(v, w, n, data, ext), ExtPlaced(v, w.file, n, ext),
         ext \in [1..LastList(v, n) -> v.sectors],
         NEW x, NEW s, NEW g3, NEW d2,
         DataMade(v, w, n, data, s, g3, d2), ListsMade(v, w, n, data, s, x, g3, d2)
  PROVE  ExtPlaced(v, g3, n + 1, LongerExt(v, ext, n, x))
<1> DEFINE f == w.file
           L == LastList(v, n)
           M == LastList(v, n + 1)
           ext2 == LongerExt(v, ext, n, x)
<1>1. v.maxDatablk \in Nat \ {0} /\ L \in Nat
  BY VolumeParts, ListInFile
<1>2. /\ M = ListOf(v, n)
      /\ Needs(v, n) => M = L + 1 /\ EntryOf(v, n) = 0
      /\ ~Needs(v, n) => M = L
  BY NextList DEF Needs
<1>3. /\ \A l \in 1..L : l \in 1..M /\ ext2[l] = ext[l]
      /\ Needs(v, n) => M \in 1..M /\ ext2[M] = x
  BY <1>1, <1>2 DEF LongerExt
<1>4. Needs(v, n) => n >= v.maxDatablk
  BY DEF Needs
<1>5. n = v.maxDatablk => Needs(v, n)
  <2>1. n = v.maxDatablk => n % v.maxDatablk = 0
    <3>1. v.maxDatablk = v.maxDatablk * 1 + 0
      BY <1>1
    <3> QED
      BY <1>1, <3>1, DivUnique
  <2> QED
    BY <1>1, <2>1 DEF Needs
<1>6. g3.nDataBlock = n + 1 /\ \A e \in ExtSet(v) : e # NoExt
  BY DEF DataMade, ExtSet, NoExt
<1>7. CASE n < v.maxDatablk
  <2>1. M = 0 /\ L = 0
    <3>1. M = 0
      BY <1>2, <1>7, PlaceOf
    <3> QED
      BY <1>1, <1>2, <1>4, <1>7, <3>1
  <2>2. f.currentExt = NoExt
    BY <2>1 DEF ExtPlaced
  <2>3. g3.currentExt = NoExt
    BY <1>7, <2>2 DEF ListsMade
  <2> QED
    BY <1>1, <1>6, <1>7, <2>3 DEF ExtPlaced
<1>8. CASE Needs(v, n)
  <2>1. /\ g3.currentExt \in ExtSet(v) /\ g3.currentExt.headerKey = x
        /\ g3.posInExtBlk = 1
    BY <1>8 DEF ListsMade
  <2>2. n + 1 - 1 = n
    OBVIOUS
  <2>3. g3.currentExt # NoExt /\ g3.currentExt.headerKey = ext2[M] /\ M \in 1..M
        /\ g3.posInExtBlk = EntryOf(v, n) + 1
    BY <1>2, <1>3, <1>6, <1>8, <2>1
  <2> QED
    BY <1>2, <1>6, <2>2, <2>3 DEF ExtPlaced
<1>9. CASE ~Needs(v, n) /\ n > v.maxDatablk
  <2>1. /\ g3.currentExt \in ExtSet(v) /\ g3.currentExt.headerKey = f.currentExt.headerKey
        /\ g3.posInExtBlk = f.posInExtBlk + 1
    BY <1>1, <1>9 DEF ListsMade
  <2>2. L \in 1..L /\ f.currentExt.headerKey = ext[L] /\ f.posInExtBlk = EntryOf(v, n)
    BY <1>9 DEF ExtAtEnd
  <2>3. n + 1 - 1 = n
    OBVIOUS
  <2>4. g3.currentExt # NoExt /\ g3.currentExt.headerKey = ext2[M] /\ M \in 1..M
        /\ g3.posInExtBlk = EntryOf(v, n) + 1
    BY <1>2, <1>3, <1>6, <1>9, <2>1, <2>2
  <2> QED
    BY <1>2, <1>6, <2>3, <2>4 DEF ExtPlaced
<1> QED
  BY <1>1, <1>5, <1>7, <1>8, <1>9

\* The file at the start of a block that was just created.
Begun(c) == Restarted(Remarked(c, FALSE))

\* What this leaves of the file.
LEMMA MadeMemory ==
  ASSUME NEW v \in Volumes, NEW c \in WorldSet(v), c.ok
  PROVE  LET r == Begun(c)
         IN  /\ r \in WorldSet(v) /\ r.ok /\ r.disk = c.disk /\ r.free = c.free /\ r.header = c.header
             /\ r.file.fileHdr = c.file.fileHdr /\ r.file.currentExt = c.file.currentExt
             /\ r.file.posInExtBlk = c.file.posInExtBlk /\ r.file.curDataPtr = c.file.curDataPtr
             /\ r.file.currentData = c.file.currentData /\ r.file.nDataBlock = c.file.nDataBlock
             /\ r.file.pos = c.file.pos /\ r.file.posInDataBlk = 0
<1> DEFINE m == Remarked(c, FALSE)
           r == Restarted(m)
           cf == [c.file EXCEPT !.changed = FALSE]
<1>1. Moves(v, c, cf, m)
  BY RemarkedIs
<1>2. c.file \in FileSet(v)
  BY WorldParts
<1>3. m \in WorldSet(v) /\ m.ok = c.ok /\ m.file = cf /\ SameDisk(c, m)
  BY <1>1 DEF Moves
<1> HIDE DEF m
<1>4. /\ r \in WorldSet(v) /\ r.ok = m.ok
      /\ SameInMemory(m, r) /\ r.file.pos = m.file.pos
      /\ r.file.posInDataBlk = 0
  BY <1>3, RestartedIs
<1>5. /\ cf.fileHdr = c.file.fileHdr /\ cf.currentExt = c.file.currentExt
      /\ cf.posInExtBlk = c.file.posInExtBlk /\ cf.curDataPtr = c.file.curDataPtr
      /\ cf.currentData = c.file.currentData /\ cf.nDataBlock = c.file.nDataBlock
      /\ cf.pos = c.file.pos
  BY <1>2 DEF FileSet
<1> HIDE DEF r, cf
<1> QED
  BY <1>3, <1>4, <1>5 DEF SameInMemory, SameDisk, r, m, Begun

\* The file is ready to be written to in the new block.
LEMMA MadeReady ==
  ASSUME NEW v \in Volumes, NEW w, NEW data, NEW ext, NEW bytes, IsFile(v, w, data, ext, bytes),
         Extends(w), NEW n, n = Count(w.file.fileHdr.byteSize),
         NEW x, NEW s, NEW g, NEW d1, NEW g2, NEW g3, NEW d2,
         BlockMade(v, w, n, x, s, g, d1, g2, g3, d2),
         NEW r, r = Begun(MadeWorld(v, w, n, x, s, g3, d2))
  PROVE  /\ Ready(v, r, n + 1, Longer(data, n, s), LongerExt(v, ext, n, x), LongerBytes(bytes, n))
         /\ r.file.fileHdr.byteSize = w.file.fileHdr.byteSize /\ r.file.pos = w.file.pos
         /\ r.file.posInDataBlk = 0 /\ r.file.nDataBlock = n + 1
<1> DEFINE f == w.file
           c == MadeWorld(v, w, n, x, s, g3, d2)
           data2 == Longer(data, n, s)
           ext2 == LongerExt(v, ext, n, x)
<1>1. /\ f.nDataBlock = n /\ f.pos = BlockSize * n /\ n \in Nat
      /\ f.pos = f.fileHdr.byteSize
      /\ n > 0 => f.pos >= BlockSize /\ f.curDataPtr = data[n - 1]
  BY AtEnd
<1>2. /\ w \in WorldSet(v) /\ w.ok /\ Owns(v, w.free, n, data, ext)
      /\ Lists(v, f.fileHdr, ExtsNow(v, f, w.disk), n, data, ext)
      /\ Holds(v, DataNow(v, f, w.disk), n, data, bytes)
      /\ ExtPlaced(v, f, n, ext)
  BY DEF IsFile, FileIs
<1>3. DataMade(v, w, n, data, s, g3, d2)
  BY DataMadeIs
<1>4. ListsMade(v, w, n, data, s, x, g3, d2)
  BY ListsMadeIs
<1>5. ExtAtEnd(v, w, n, data, ext)
  BY ExtAtEndIs
<1>6. s \in w.free \ Extra(v, n, x) /\ Extra(v, n, x) \subseteq w.free
  <2>1. s \in w.free \ Extra(v, n, x) /\ (Needs(v, n) => x \in w.free)
    BY <1>4 DEF BlockMade, ListsMade
  <2>2. ~Needs(v, n) => Extra(v, n, x) = {}
    BY <1>1, NextList DEF Needs, Extra
  <2> QED
    BY <2>1, <2>2 DEF Extra
<1>7. Owns(v, w.free \ (Extra(v, n, x) \cup {s}), n + 1, data2, ext2)
  BY <1>1, <1>2, <1>6, OwnsGrown
<1>8. ExtsMade(v, n, ExtsNow(v, f, w.disk), ExtsNow(v, g3, d2), f.currentExt,
               g3.currentExt, ext, x, s)
  BY <1>1, <1>2, <1>3, <1>4, <1>5, ExtsMadeIs
<1>9. GrownLists(v, f.fileHdr, ExtsNow(v, f, w.disk), g3.fileHdr, ExtsNow(v, g3, d2), n, data, ext,
                 s, x)
  BY <1>1, <1>2, <1>4, <1>5, <1>8, GrownListsIs
<1>10. Lists(v, g3.fileHdr, ExtsNow(v, g3, d2), n + 1, data2, ext2)
  BY <1>1, <1>2, <1>9, ListsGrown
<1>11. GrownData(v, DataNow(v, f, w.disk), DataNow(v, g3, d2), n, data, s)
  BY <1>1, <1>2, <1>3, <1>5, <1>6, GrownDataIs
<1>12. Holds(v, DataNow(v, g3, d2), n + 1, data2, LongerBytes(bytes, n))
  BY <1>1, <1>2, <1>11, HoldsGrown
<1>13. ExtPlaced(v, g3, n + 1, ext2)
  <2>1. ext \in [1..LastList(v, n) -> v.sectors]
    BY <1>2 DEF Owns
  <2> QED
    BY <1>1, <1>2, <1>3, <1>4, <1>5, <2>1, GrownPlaced
<1>14. /\ g3 \in FileSet(v) /\ d2 \in DiskSet(v) /\ g3.nDataBlock = n + 1 /\ g3.pos = f.pos
       /\ g3.curDataPtr = s /\ g3.fileHdr.byteSize = f.fileHdr.byteSize
  BY <1>3, <1>4 DEF DataMade, ListsMade
<1>15. /\ c.file = g3 /\ c.disk = d2 /\ c.free = w.free \ (Extra(v, n, x) \cup {s})
       /\ c.header = w.header /\ c.ok = w.ok
  BY WholeParts DEF MadeWorld
<1>16. c \in WorldSet(v) /\ c.ok
  <2>1. w.header \in HeaderSet(v) /\ w.free \in SUBSET v.sectors /\ w.ok \in BOOLEAN
    BY <1>2, WorldParts
  <2>2. w.free \ (Extra(v, n, x) \cup {s}) \in SUBSET v.sectors
    BY <2>1
  <2> QED
    BY <1>2, <1>14, <1>15, <2>1, <2>2 DEF MadeWorld, Whole, WorldSet
<1> HIDE DEF c, f
<1>17. /\ r \in WorldSet(v) /\ r.ok /\ r.disk = c.disk /\ r.free = c.free
       /\ r.file.fileHdr = c.file.fileHdr /\ r.file.currentExt = c.file.currentExt
       /\ r.file.posInExtBlk = c.file.posInExtBlk /\ r.file.curDataPtr = c.file.curDataPtr
       /\ r.file.currentData = c.file.currentData /\ r.file.nDataBlock = c.file.nDataBlock
       /\ r.file.pos = c.file.pos /\ r.file.posInDataBlk = 0
  BY <1>16, MadeMemory DEF c
<1>18. /\ ExtsNow(v, r.file, r.disk) = ExtsNow(v, g3, d2)
       /\ DataNow(v, r.file, r.disk) = DataNow(v, g3, d2)
       /\ (ExtPlaced(v, g3, n + 1, ext2) => ExtPlaced(v, r.file, n + 1, ext2))
  <2>1. ExtsNow(v, r.file, r.disk) = ExtsNow(v, g3, d2)
    BY <1>15, <1>17 DEF ExtsNow
  <2>2. DataNow(v, r.file, r.disk) = DataNow(v, g3, d2)
    BY <1>15, <1>17 DEF DataNow
  <2>3. ExtPlaced(v, g3, n + 1, ext2) => ExtPlaced(v, r.file, n + 1, ext2)
    BY <1>15, <1>17 DEF ExtPlaced
  <2> QED
    BY <2>1, <2>2, <2>3
<1>19. data2[n] = s /\ n \in Nat /\ n + 1 - 1 = n /\ n + 1 \in Nat \ {0} /\ n + 1 \in 1..(n + 1)
  BY <1>1 DEF Longer
<1>20. BlockSize \in Nat \ {0} /\ f.pos \in Nat /\ f.pos = BlockSize * n + 0 /\ 0 < BlockSize
  <2>1. f.pos \in Nat
    BY <1>2, WorldParts DEF f
  <2>2. BlockSize \in Nat \ {0}
    BY VolumeParts
  <2> DEFINE p == BlockSize * n
  <2>3. f.pos = p
    BY <1>1 DEF f
  <2> HIDE DEF p
  <2>4. f.pos = p + 0
    BY <2>1, <2>3
  <2> QED
    BY <2>1, <2>2, <2>4 DEF p
<1> HIDE DEF data2, ext2
<1>21. /\ r.file.nDataBlock = n + 1 /\ r.file.curDataPtr = data2[r.file.nDataBlock - 1]
       /\ r.file.pos = f.pos /\ r.file.posInDataBlk = 0 /\ r.file.fileHdr = g3.fileHdr
       /\ r.file.fileHdr.byteSize = f.fileHdr.byteSize /\ r.file.pos <= r.file.fileHdr.byteSize
       /\ r.file.pos = r.file.fileHdr.byteSize
       /\ r.file.pos = BlockSize * (r.file.nDataBlock - 1) + r.file.posInDataBlk
  <2>1. /\ r.file.nDataBlock = n + 1 /\ r.file.curDataPtr = s /\ r.file.pos = f.pos
        /\ r.file.posInDataBlk = 0 /\ r.file.fileHdr = g3.fileHdr
        /\ r.file.fileHdr.byteSize = f.fileHdr.byteSize
    BY <1>14, <1>15, <1>17
  <2>2. r.file.pos = r.file.fileHdr.byteSize /\ f.pos <= f.pos
    BY <1>1, <1>20, <2>1 DEF f
  <2>3. r.file.nDataBlock - 1 = n
    BY <1>19, <2>1
  <2> QED
    BY <1>19, <1>20, <2>1, <2>2, <2>3
<1>22. r.free = w.free \ (Extra(v, n, x) \cup {s})
  BY <1>15, <1>17
<1>23. Ready(v, r, n + 1, data2, ext2, LongerBytes(bytes, n))
  <2>1. /\ Owns(v, r.free, n + 1, data2, ext2)
        /\ Lists(v, r.file.fileHdr, ExtsNow(v, r.file, r.disk), n + 1, data2, ext2)
        /\ Holds(v, DataNow(v, r.file, r.disk), n + 1, data2, LongerBytes(bytes, n))
        /\ ExtPlaced(v, r.file, n + 1, ext2)
    BY <1>7, <1>10, <1>12, <1>13, <1>18, <1>21, <1>22
  <2> QED
    BY <1>17, <1>19, <1>20, <1>21, <2>1 DEF Ready
<1> QED
  BY <1>21, <1>23 DEF data2, ext2, f

\* The block a turn of adfFileWrite that extends the file writes to.
LEMMA CreatedToWrite ==
  ASSUME Extends(World)
  PROVE  LET c == Remarked(adfFileCreateNextBlock(World), FALSE)
         IN  BlockToWrite = IF ~c.ok THEN c ELSE Restarted(c)
<1>1. file.pos % BlockSize = 0 /\ adfFileAtEOF(World)
  BY DEF Extends, World, adfFileAtEOF
<1> QED
  BY <1>1, Zenon DEF BlockToWrite, Remarked, Restarted

\* When the volume has room for another data block, it is ready for it.
LEMMA ReadyToExtend ==
  ASSUME vol \in Volumes, NEW data, NEW ext, NEW bytes, IsFile(vol, World, data, ext, bytes),
         Extends(World), NEW n, n = Count(file.fileHdr.byteSize), HasRoom(vol, World, n)
  PROVE  \E x, s :
           /\ Ready(vol, BlockToWrite, n + 1, Longer(data, n, s), LongerExt(vol, ext, n, x),
                    LongerBytes(bytes, n))
           /\ BlockToWrite.file.fileHdr.byteSize = file.fileHdr.byteSize
           /\ BlockToWrite.file.pos = file.pos
<1> DEFINE w == World
           c == adfFileCreateNextBlock(w)
<1>1. w.file = file /\ w.ok
  BY DEF World
<1>2. n = Count(w.file.fileHdr.byteSize)
  BY <1>1
<1> HIDE DEF w
<1>3. IsFile(vol, w, data, ext, bytes) /\ Extends(w) /\ HasRoom(vol, w, n)
  BY DEF w
<1>4. PICK x, s, g, d1, g2, g3, d2 :
        /\ BlockMade(vol, w, n, x, s, g, d1, g2, g3, d2)
        /\ c = MadeWorld(vol, w, n, x, s, g3, d2)
  BY <1>2, <1>3, CreateIs
<1> DEFINE r == Begun(MadeWorld(vol, w, n, x, s, g3, d2))
<1> HIDE DEF r
<1>5. r = Begun(MadeWorld(vol, w, n, x, s, g3, d2))
  BY DEF r
<1>6. /\ Ready(vol, r, n + 1, Longer(data, n, s), LongerExt(vol, ext, n, x), LongerBytes(bytes, n))
      /\ r.file.fileHdr.byteSize = w.file.fileHdr.byteSize /\ r.file.pos = w.file.pos
  BY <1>2, <1>3, <1>4, <1>5, MadeReady
<1>7. r = Begun(c)
  BY <1>4, <1>5
<1>8. c.ok
  <2>1. MadeWorld(vol, w, n, x, s, g3, d2).ok = w.ok
    BY DEF MadeWorld, Whole
  <2> HIDE DEF c
  <2> QED
    BY <1>1, <1>4, <2>1, Zenon
<1>9. BlockToWrite = r
  <2> DEFINE m == Remarked(c, FALSE)
  <2>1. m.ok = c.ok
    BY DEF Remarked
  <2>2. BlockToWrite = IF ~m.ok THEN m ELSE Restarted(m)
    BY <1>3, CreatedToWrite DEF w
  <2>3. r = Restarted(m)
    BY <1>7 DEF Begun
  <2> HIDE DEF m, c
  <2> QED
    BY <1>8, <2>1, <2>2, <2>3
<1> QED
  BY <1>1, <1>6, <1>9

\* A volume without room for a data block, and the extension block it may need,
\* is full unless it has one block left of two that are needed.
LEMMA NoRoom ==
  ASSUME NEW v \in Volumes, NEW w, w.free \in SUBSET v.sectors, NEW n \in Nat, ~HasRoom(v, w, n)
  PROVE  IF Needs(v, n) THEN Cardinality(w.free) \in {0, 1} ELSE Cardinality(w.free) = 0
<1>1. w.free = {} => Cardinality(w.free) = 0
  BY FS_EmptySet
<1>2. ASSUME Needs(v, n), w.free # {}
      PROVE  Cardinality(w.free) = 1
  <2>1. w.free = {LeastOf(w.free)}
    BY <1>2 DEF HasRoom, Needs
  <2> QED
    BY <2>1, FS_Singleton
<1> QED
  BY <1>1, <1>2 DEF HasRoom, Needs

\* A set without elements.
LEMMA NoneLeft ==
  ASSUME NEW S, IsFiniteSet(S), Cardinality(S) = 0
  PROVE  S = {}
  BY FS_EmptySet

\* Then adfFileWrite gets no block, and the file was flushed before.
LEMMA ExtendFails ==
  ASSUME vol \in Volumes, NEW data, NEW ext, NEW bytes, IsFile(vol, World, data, ext, bytes),
         Extends(World), NEW n, n = Count(file.fileHdr.byteSize), ~HasRoom(vol, World, n),
         CarefulWrite, "flush_to_extend" \in Habits, "room_to_extend" \in Habits
  PROVE  /\ BlockToWrite = Remarked(Fails(World), FALSE)
         /\ DataOnDisk /\ HeadersOnDisk
<1>1. /\ World.file = file /\ World.free = free /\ World \in WorldSet(vol)
      /\ file.nDataBlock = n /\ n \in Nat
  <2>1. World.file = file /\ World.free = free
    BY DEF World
  <2>2. World.file.nDataBlock = n /\ n \in Nat
    BY <2>1, AtEnd
  <2> QED
    BY <2>1, <2>2 DEF IsFile
<1>2. free \in SUBSET vol.sectors /\ IsFiniteSet(free)
  <2>1. free \in SUBSET vol.sectors
    BY <1>1, WorldParts
  <2> QED
    BY <2>1, VolumeParts, FS_Subset
<1>3. NeedsExt(file.nDataBlock) <=> Needs(vol, n)
  BY <1>1 DEF NeedsExt, Needs, MaxDatablk
<1>4. adfFileAtEOF(World) /\ file.pos % BlockSize = 0
  BY <1>1 DEF Extends, adfFileAtEOF
<1>5. Needs(vol, n) => Cardinality(free) # 1
  BY <1>3, <1>4 DEF CarefulWrite
<1>6. Cardinality(free) = 0
  BY <1>1, <1>2, <1>5, NoRoom
<1>7. DataOnDisk /\ HeadersOnDisk
  <2>1. Cardinality(free) < (IF NeedsExt(file.nDataBlock) THEN 2 ELSE 1)
    BY <1>6
  <2> QED
    BY <1>4, <2>1 DEF CarefulWrite
<1>8. free = {}
  BY <1>2, <1>6, NoneLeft
<1>9. adfFileCreateNextBlock(World) = Fails(World)
  <2>1. ~Grantable(World)
    BY <1>1, <1>8 DEF Grantable
  <2> QED
    BY <2>1, Zenon DEF adfFileCreateNextBlock
<1>10. BlockToWrite = Remarked(Fails(World), FALSE)
  <2> DEFINE c == Remarked(adfFileCreateNextBlock(World), FALSE)
  <2>1. BlockToWrite = IF ~c.ok THEN c ELSE Restarted(c)
    BY CreatedToWrite
  <2>2. c = Remarked(Fails(World), FALSE)
    BY <1>9
  <2>3. ~Remarked(Fails(World), FALSE).ok
    BY DEF Remarked, Fails, World
  <2> HIDE DEF c
  <2> QED
    BY <2>1, <2>2, <2>3
<1> QED
  BY <1>7, <1>10

-----------------------------------------------------------------------------
(* The bytes of a file, in the order of the file *)

Text(size, bytes) == [i \in 1..size |-> bytes[(i - 1) \div BlockSize][(i - 1) % BlockSize]]
SameBytes(n, bytes2, bytes) == \A j \in 0..(n - 1) : bytes2[j] = bytes[j]
PutText(text, size, pos, m, b) ==
  [i \in 1..size |-> IF i \in (pos + 1)..(pos + m) THEN b ELSE text[i]]

\* Bytes that are put into one block of a file are put into the file at its
\* position.
LEMMA PutTextIs ==
  ASSUME NEW size \in Nat, NEW n, n = Count(size), NEW bytes,
         NEW k \in Nat, NEW p \in 0..BlockSize, NEW pos \in Nat, pos = BlockSize * k + p, pos <= size,
         NEW m \in 1..BlockSize, p + m <= BlockSize, NEW b,
         NEW size2, size2 = Extended(size, pos + m), NEW n2, n2 = Count(size2),
         NEW bytes2, SameBytes(n, bytes2, bytes)
  PROVE  Text(size2, PutInto(bytes2, n2, k, p, m, b)) = PutText(Text(size, bytes), size2, pos, m, b)
<1>1. BlockSize \in Nat \ {0}
  BY FileAssumption
<1>2. size2 \in Nat /\ pos + m <= size2 /\ size <= size2
  BY <1>1 DEF Extended
<1> DEFINE put == PutInto(bytes2, n2, k, p, m, b)
<1>3. SUFFICES ASSUME NEW i \in 1..size2
               PROVE  put[(i - 1) \div BlockSize][(i - 1) % BlockSize]
                      = IF i \in (pos + 1)..(pos + m) THEN b ELSE Text(size, bytes)[i]
  BY Zenon DEF Text, PutText
<1> DEFINE j == (i - 1) \div BlockSize
           q == (i - 1) % BlockSize
<1>4. i - 1 \in Nat /\ i - 1 < size2
  BY <1>2
<1>5. j \in 0..(n2 - 1) /\ q \in 0..(BlockSize - 1) /\ i - 1 = BlockSize * j + q
  BY <1>2, <1>4, InsideFile
<1>6. put[j] = IF j = k THEN PutBytes(bytes2[k], p, m, b) ELSE bytes2[j]
  BY <1>5 DEF PutInto
<1>7. PutBytes(bytes2[k], p, m, b)[q] = IF q \in p..(p + m - 1) THEN b ELSE bytes2[k][q]
  BY <1>5 DEF PutBytes, Offsets
<1> HIDE DEF put
<1> DEFINE start == BlockSize * k
<1>8. start \in Nat /\ pos = start + p
  BY <1>1
<1>9. CASE i \in (pos + 1)..(pos + m)
  <2> DEFINE r == p + (i - 1 - pos)
  <2>1. r \in 0..(BlockSize - 1) /\ r \in p..(p + m - 1) /\ i - 1 = start + r
    <3> HIDE DEF start
    <3> QED
      BY <1>1, <1>4, <1>8, <1>9
  <2> HIDE DEF r
  <2>2. j = k /\ q = r
    BY <1>4, <2>1, BlockOf
  <2> QED
    BY <1>6, <1>7, <1>9, <2>1, <2>2
<1>10. CASE ~(i \in (pos + 1)..(pos + m))
  <2>1. i \in 1..size /\ i - 1 < size
    BY <1>2, <1>10 DEF Extended
  <2>2. Text(size, bytes)[i] = bytes[j][q]
    BY <2>1 DEF Text
  <2>3. j \in 0..(n - 1)
    BY <1>4, <2>1, InsideFile
  <2>4. bytes2[j] = bytes[j]
    BY <2>3 DEF SameBytes
  <2>5. ~(j = k /\ q \in p..(p + m - 1))
    <3>1. SUFFICES ASSUME j = k, q \in p..(p + m - 1)
                   PROVE  FALSE
      OBVIOUS
    <3>2. i - 1 = start + q
      BY <1>5, <3>1
    <3> HIDE DEF start, j, q
    <3>3. i - 1 = pos + (q - p)
      BY <1>1, <1>4, <1>8, <3>1, <3>2
    <3> QED
      BY <1>1, <1>4, <1>10, <3>1, <3>3
  <2> HIDE DEF j, q
  <2> QED
    BY <1>6, <1>7, <1>10, <2>2, <2>4, <2>5 DEF j, q
<1> QED
  BY <1>9, <1>10

\* A file after a turn of adfFileWrite.
WrittenTo(v, w, bytes, r, m, b, data2, ext2, bytes2) ==
  LET size == r.file.fileHdr.byteSize IN
  /\ IsFile(v, r, data2, ext2, bytes2)
  /\ r.file.pos = w.file.pos + m /\ size = Extended(w.file.fileHdr.byteSize, w.file.pos + m)
  /\ Text(size, bytes2) = PutText(Text(w.file.fileHdr.byteSize, bytes), size, w.file.pos, m, b)

\* It holds the bytes that were put into the block that was ready for them.
LEMMA WriteInto ==
  ASSUME vol \in Volumes, NEW w, w.file.fileHdr.byteSize \in Nat, NEW bytes,
         NEW r, NEW n, NEW data2, NEW ext2, NEW bytes2, Ready(vol, r, n, data2, ext2, bytes2),
         r.file.fileHdr.byteSize = w.file.fileHdr.byteSize, r.file.pos = w.file.pos,
         SameBytes(Count(w.file.fileHdr.byteSize), bytes2, bytes),
         NEW m \in 1..BlockSize, m <= BlockSize - r.file.posInDataBlk,
         w.file.pos + m <= vol.maxSize, NEW b \in Bytes
  PROVE  WrittenTo(vol, w, bytes, Put(r, m, b), m, b, data2, ext2,
                   PutInto(bytes2, n, r.file.nDataBlock - 1, r.file.posInDataBlk, m, b))
<1> DEFINE k == r.file.nDataBlock - 1
           p == r.file.posInDataBlk
           q == Put(r, m, b)
           put == PutInto(bytes2, n, k, p, m, b)
           size == w.file.fileHdr.byteSize
           size2 == Extended(size, w.file.pos + m)
<1>1. BlockSize \in Nat \ {0}
  BY FileAssumption
<1>2. /\ r \in WorldSet(vol) /\ k \in Nat /\ r.file.pos = BlockSize * k + p
      /\ r.file.pos <= r.file.fileHdr.byteSize
  BY DEF Ready
<1>3. p \in 0..BlockSize /\ r.file.pos \in Nat
  BY <1>2, WorldParts
<1>4. p + m <= BlockSize
  BY <1>1, <1>3
<1> HIDE DEF p
<1>5. r.file.posInDataBlk + m <= BlockSize /\ r.file.pos + m <= vol.maxSize
  BY <1>4 DEF p
<1>6. /\ IsFile(vol, q, data2, ext2, PutInto(bytes2, n, r.file.nDataBlock - 1, r.file.posInDataBlk, m, b))
      /\ q.file.fileHdr.byteSize = Extended(r.file.fileHdr.byteSize, r.file.pos + m)
      /\ n = Count(q.file.fileHdr.byteSize) /\ q.file.pos = r.file.pos + m
  BY <1>5, PutIs
<1> HIDE DEF k, q
<1>7. q.file.fileHdr.byteSize = size2 /\ n = Count(size2) /\ q.file.pos = w.file.pos + m
  BY <1>6
<1>8. IsFile(vol, q, data2, ext2, put)
  BY <1>6 DEF k, p
<1>9. w.file.pos \in Nat /\ w.file.pos = BlockSize * k + p /\ w.file.pos <= size
  BY <1>2, <1>3
<1>10. Text(size2, put) = PutText(Text(size, bytes), size2, w.file.pos, m, b)
  <2> DEFINE pos == w.file.pos
             n1 == Count(size)
  <2>1. /\ pos \in Nat /\ pos = BlockSize * k + p /\ pos <= size /\ size \in Nat /\ k \in Nat
        /\ p \in 0..BlockSize /\ p + m <= BlockSize
        /\ size2 = Extended(size, pos + m) /\ n = Count(size2) /\ n1 = Count(size)
        /\ SameBytes(n1, bytes2, bytes)
    BY <1>2, <1>3, <1>4, <1>7, <1>9
  <2> HIDE DEF pos, n1, size, size2
  <2>2. Text(size2, put) = PutText(Text(size, bytes), size2, pos, m, b)
    BY <2>1, PutTextIs
  <2> QED
    BY <2>2 DEF pos
<1> HIDE DEF put, size2
<1>11. WrittenTo(vol, w, bytes, q, m, b, data2, ext2, put)
  BY <1>7, <1>8, <1>10 DEF WrittenTo, size2
<1> QED
  BY <1>11 DEF k, p, q, put

\* One turn of adfFileWrite: the file holds the bytes at its position, and is
\* longer if it reached its end.
LEMMA WriteIs ==
  ASSUME vol \in Volumes, NEW data, NEW ext, NEW bytes, IsFile(vol, World, data, ext, bytes),
         SmallOfs(vol), "flush_to_extend" \in Habits, "room_to_extend" \in Habits,
         NEW m \in 1..BlockSize, NEW b \in vol.bytes, WriteChunk(m, b)
  PROVE  \E data2, ext2, bytes2 :
           WrittenTo(vol, World, bytes, World', m, b, data2, ext2, bytes2)
<1> DEFINE w == World
           r == BlockToWrite
           q == Put(r, m, b)
           n == Count(file.fileHdr.byteSize)
<1>1. /\ w.file = file /\ w \in WorldSet(vol) /\ file.fileHdr.byteSize \in Nat /\ n \in Nat
  <2>1. w.file = file
    BY DEF World
  <2>2. w \in WorldSet(vol)
    BY DEF IsFile
  <2> HIDE DEF w
  <2>3. w.file.fileHdr.byteSize \in Nat
    BY <2>2, WorldParts
  <2> QED
    BY <2>1, <2>2, <2>3, CountIs
<1>2. b \in Bytes
  BY VolumeParts
<1>3. /\ CarefulWrite /\ file.pos + m <= vol.maxSize
      /\ r.ok /\ m <= BlockSize - r.file.posInDataBlk /\ Becomes(q)
  BY DEF WriteChunk, MaxSize
<1> HIDE DEF w, r, n, q
<1>4. \E n2, data2, ext2, bytes2 :
        /\ Ready(vol, r, n2, data2, ext2, bytes2)
        /\ r.file.fileHdr.byteSize = file.fileHdr.byteSize /\ r.file.pos = file.pos
        /\ SameBytes(n, bytes2, bytes)
  <2>1. CASE ~Extends(World)
    <3>1. /\ Ready(vol, r, n, data, ext, bytes)
          /\ r.file.fileHdr = file.fileHdr /\ r.file.pos = file.pos
      BY <2>1, ReadyToOverwrite DEF r, n
    <3>2. SameBytes(n, bytes, bytes)
      BY DEF SameBytes
    <3> QED
      BY <3>1, <3>2
  <2>2. CASE Extends(World)
    <3>1. HasRoom(vol, World, n)
      <4>1. SUFFICES ASSUME ~HasRoom(vol, World, n)
                     PROVE  FALSE
        OBVIOUS
      <4>2. r = Remarked(Fails(World), FALSE)
        BY <1>3, <2>2, <4>1, ExtendFails DEF r, n
      <4>3. ~Remarked(Fails(World), FALSE).ok
        BY DEF Remarked, Fails, World
      <4> QED
        BY <1>3, <4>2, <4>3, Zenon
    <3>2. PICK x, s :
            /\ Ready(vol, r, n + 1, Longer(data, n, s), LongerExt(vol, ext, n, x),
                     LongerBytes(bytes, n))
            /\ r.file.fileHdr.byteSize = file.fileHdr.byteSize /\ r.file.pos = file.pos
      BY <2>2, <3>1, ReadyToExtend DEF r, n
    <3>3. SameBytes(n, LongerBytes(bytes, n), bytes)
      BY <1>1 DEF LongerBytes, SameBytes
    <3> QED
      BY <3>2, <3>3
  <2> QED
    BY <2>1, <2>2
<1>5. PICK n2, data2, ext2, bytes2 :
        /\ Ready(vol, r, n2, data2, ext2, bytes2)
        /\ r.file.fileHdr.byteSize = file.fileHdr.byteSize /\ r.file.pos = file.pos
        /\ SameBytes(n, bytes2, bytes)
  BY <1>4
<1>6. /\ w.file.fileHdr.byteSize \in Nat
      /\ r.file.fileHdr.byteSize = w.file.fileHdr.byteSize /\ r.file.pos = w.file.pos
      /\ SameBytes(Count(w.file.fileHdr.byteSize), bytes2, bytes)
      /\ w.file.pos + m <= vol.maxSize
  BY <1>1, <1>3, <1>5 DEF n
<1> DEFINE put == PutInto(bytes2, n2, r.file.nDataBlock - 1, r.file.posInDataBlk, m, b)
<1>7. WrittenTo(vol, w, bytes, q, m, b, data2, ext2, put)
  BY <1>2, <1>3, <1>5, <1>6, WriteInto DEF q
<1> HIDE DEF put
<1>8. q \in WorldSet(vol) /\ q.ok
  BY <1>7 DEF WrittenTo, IsFile
<1>9. World' = q
  BY <1>3, <1>8, BecomesIs
<1> QED
  BY <1>7, <1>9 DEF w

\* What the habits say, of a state of the file.
UnchangedBlock(w) ==
  w.file.curDataPtr # 0 => AsData(w.disk[w.file.curDataPtr]) = w.file.currentData
UnchangedHeaders(w) ==
  /\ w.header = w.file.fileHdr
  /\ w.file.currentExt # NoExt =>
       w.file.currentExt = OnDiskExt(w, w.file.currentExt.headerKey)

\* The state is that of the file now.
LEMMA HabitsNow ==
  /\ DataOnDisk <=> UnchangedBlock(World)
  /\ HeadersOnDisk <=> UnchangedHeaders(World)
<1>1. DataOnDisk <=> UnchangedBlock(World)
  BY DEF DataOnDisk, UnchangedBlock, World
<1>2. HeadersOnDisk <=> UnchangedHeaders(World)
  BY DEF HeadersOnDisk, UnchangedHeaders, World
<1> QED
  BY <1>1, <1>2

\* An extension block that reads as the one in memory is that one.
LEMMA HeadersKept ==
  ASSUME NEW v \in Volumes, NEW w \in WorldSet(v), UnchangedHeaders(w)
  PROVE  HeaderKept(w)
<1>1. ASSUME w.file.currentExt # NoExt
      PROVE  w.disk[w.file.currentExt.headerKey] = w.file.currentExt
  <2> DEFINE e == w.file.currentExt
             d == w.disk[e.headerKey]
  <2>1. e \in ExtSet(v)
    BY <1>1, WorldParts
  <2>2. e.headerKey # 0
    BY <2>1, VolumeParts DEF ExtSet
  <2>3. e = AsExt(d)
    BY <1>1 DEF UnchangedHeaders, OnDiskExt
  <2> HIDE DEF d, e
  <2>4. d.kind = "ext"
    <3>1. ExtBlock(0, NoEntries, 0, 0).headerKey = 0
      BY DEF ExtBlock
    <3> QED
      BY <2>2, <2>3, <3>1 DEF AsExt
  <2> QED
    BY <2>3, <2>4 DEF AsExt, d, e
<1> QED
  BY <1>1 DEF HeaderKept, UnchangedHeaders

\* A flushed file is the same when its mark of changes is reset.
LEMMA UnmarkedIs ==
  ASSUME NEW v \in Volumes, NEW w, NEW data, NEW ext, NEW bytes, IsFile(v, w, data, ext, bytes),
         UnchangedBlock(w), UnchangedHeaders(w), NEW m \in BOOLEAN
  PROVE  IsFile(v, Remarked(w, m), data, ext, bytes)
<1> DEFINE r == Remarked(w, m)
           cf == [w.file EXCEPT !.changed = m]
<1>1. w \in WorldSet(v) /\ w.ok
  BY DEF IsFile
<1>2. HeaderKept(w) /\ BytesKept(w) /\ LinkKept(w)
  <2>1. HeaderKept(w)
    BY <1>1, HeadersKept
  <2>2. BytesKept(w) /\ LinkKept(w)
    BY DEF UnchangedBlock, BytesKept, LinkKept
  <2> QED
    BY <2>1, <2>2
<1>3. IsRead(v, w, data, ext, bytes)
  BY <1>2, FileKept
<1>4. Moves(v, w, cf, r)
  BY <1>1, RemarkedIs
<1>5. w.file \in FileSet(v)
  BY <1>1, WorldParts
<1>6. /\ cf.fileHdr = w.file.fileHdr /\ cf.currentExt = w.file.currentExt
      /\ cf.posInExtBlk = w.file.posInExtBlk /\ cf.curDataPtr = w.file.curDataPtr
      /\ cf.currentData = w.file.currentData /\ cf.nDataBlock = w.file.nDataBlock
      /\ cf.pos = w.file.pos /\ cf.posInDataBlk = w.file.posInDataBlk
  BY <1>5 DEF FileSet
<1> HIDE DEF r, cf
<1>7. /\ r \in WorldSet(v) /\ r.ok = w.ok /\ r.file = cf /\ SameDisk(w, r)
  BY <1>4 DEF Moves
<1>8. SameInMemory(w, r)
  BY <1>6, <1>7 DEF SameInMemory
<1>9. DataPlaced(r.file, Count(w.header.byteSize), data)
  <2>1. DataPlaced(w.file, Count(w.file.fileHdr.byteSize), data) /\ w.header = w.file.fileHdr
    BY <1>2 DEF IsFile, HeaderKept
  <2> QED
    BY <1>6, <1>7, <2>1 DEF DataPlaced
<1>10. r.ok
  BY <1>1, <1>7
<1>11. UpToDate(v, r, data, ext, bytes)
  BY <1>2, <1>3, <1>7, <1>8, <1>9, <1>10, UpToDateAfter
<1>12. IsFile(v, r, data, ext, bytes)
  BY <1>11, FileUpToDate
<1> QED
  BY <1>12 DEF r

\* An adfFileWrite that gets no block leaves the file as it is.
LEMMA WriteFailsIs ==
  ASSUME vol \in Volumes, NEW data, NEW ext, NEW bytes, IsFile(vol, World, data, ext, bytes),
         SmallOfs(vol), "flush_to_extend" \in Habits, "room_to_extend" \in Habits, WriteFails
  PROVE  /\ IsFile(vol, World', data, ext, bytes)
         /\ file'.fileHdr = file.fileHdr /\ file'.pos = file.pos
<1> DEFINE w == World
           n == Count(file.fileHdr.byteSize)
           r == Remarked(w, FALSE)
<1>1. CarefulWrite /\ ~BlockToWrite.ok /\ Becomes(BlockToWrite)
  BY DEF WriteFails
<1>2. Extends(World)
  <2>1. SUFFICES ASSUME ~Extends(World)
                 PROVE  FALSE
    OBVIOUS
  <2>2. Ready(vol, BlockToWrite, n, data, ext, bytes)
    BY <2>1, ReadyToOverwrite
  <2> QED
    BY <1>1, <2>2 DEF Ready
<1>3. ~HasRoom(vol, World, n)
  <2>1. SUFFICES ASSUME HasRoom(vol, World, n)
                 PROVE  FALSE
    OBVIOUS
  <2>2. \E x, s : Ready(vol, BlockToWrite, n + 1, Longer(data, n, s), LongerExt(vol, ext, n, x),
                        LongerBytes(bytes, n))
    BY <1>2, <2>1, ReadyToExtend
  <2> QED
    BY <1>1, <2>2 DEF Ready
<1>4. BlockToWrite = Remarked(Fails(World), FALSE) /\ DataOnDisk /\ HeadersOnDisk
  BY <1>1, <1>2, <1>3, ExtendFails
<1>5. World' = r
  <2> DEFINE c == Remarked(Fails(w), FALSE)
  <2>1. /\ c.file = [file EXCEPT !.changed = FALSE] /\ c.disk = disk /\ c.free = free
        /\ c.header = header
    BY DEF Remarked, Fails, World
  <2>2. /\ r \in WorldSet(vol) /\ r.ok = w.ok /\ r.file = [file EXCEPT !.changed = FALSE]
        /\ r.disk = disk /\ r.free = free /\ r.header = header /\ w.ok = TRUE
    <3>1. /\ w.file = file /\ w.disk = disk /\ w.free = free /\ w.header = header
          /\ w.ok = TRUE /\ w \in WorldSet(vol)
      BY DEF World, IsFile
    <3> HIDE DEF w
    <3>2. Moves(vol, w, [w.file EXCEPT !.changed = FALSE], r)
      BY <3>1, RemarkedIs
    <3> QED
      BY <3>1, <3>2 DEF Moves
  <2>3. /\ file' = [file EXCEPT !.changed = FALSE] /\ disk' = disk /\ free' = free
        /\ header' = header
    <3> HIDE DEF c, w
    <3>1. Becomes(c)
      BY <1>1, <1>4 DEF c, w
    <3> QED
      BY <2>1, <3>1 DEF Becomes
  <2> HIDE DEF r, w
  <2>4. r.ok /\ Becomes(r)
    BY <2>2, <2>3 DEF Becomes
  <2> QED
    BY <2>2, <2>4, BecomesIs
<1>6. UnchangedBlock(w) /\ UnchangedHeaders(w)
  BY <1>4, HabitsNow
<1>7. IsFile(vol, r, data, ext, bytes)
  BY <1>6, UnmarkedIs
<1>8. file \in FileSet(vol)
  <2>1. w \in WorldSet(vol) /\ w.file = file
    BY DEF IsFile, World
  <2> HIDE DEF w
  <2> QED
    BY <2>1, WorldParts
<1>9. file' = [file EXCEPT !.changed = FALSE]
  <2>1. Remarked(Fails(w), FALSE).file = [file EXCEPT !.changed = FALSE]
    BY DEF Remarked, Fails, World
  <2> QED
    BY <1>1, <1>4, <2>1 DEF Becomes
<1> QED
  BY <1>5, <1>7, <1>8, <1>9 DEF FileSet

-----------------------------------------------------------------------------
(* A file with fewer data blocks *)

\* The first n data blocks of a file, and the extension blocks they need.
Shorter(data, n) == [k \in 0..(n - 1) |-> data[k]]
ShorterExt(v, ext, n) == [l \in 1..LastList(v, n) |-> ext[l]]

\* The others.
Dropped(data, n, n2) == {data[k] : k \in n2..(n - 1)}
DroppedExt(v, ext, n, n2) == {ext[l] : l \in (LastList(v, n2) + 1)..LastList(v, n)}

\* A file with fewer data blocks needs no more lists.
LEMMA FewerLists ==
  ASSUME NEW v \in Volumes, NEW n \in Nat, NEW n2 \in 1..n
  PROVE  /\ LastList(v, n) \in Nat /\ LastList(v, n2) \in 0..LastList(v, n)
         /\ LastList(v, n2) = ListOf(v, n2 - 1)
         /\ n2 % v.maxDatablk = 0 /\ LastList(v, n2) = LastList(v, n) => n2 = n
         /\ InLast(v, n2) = IF n2 % v.maxDatablk = 0 THEN v.maxDatablk ELSE n2 % v.maxDatablk
         /\ InLast(v, n2) \in 1..v.maxDatablk
<1>1. n - 1 \in Nat /\ n2 - 1 \in Nat /\ n2 - 1 <= n - 1 /\ n2 # 0 /\ n # 0 /\ n2 \in Nat \ {0}
  OBVIOUS
<1>2. /\ LastList(v, n) = ListOf(v, n - 1) /\ LastList(v, n2) = ListOf(v, n2 - 1)
      /\ InLast(v, n2) = EntryOf(v, n2 - 1) + 1
  BY <1>1 DEF LastList, InLast
<1>3. ListOf(v, n - 1) \in Nat /\ ListOf(v, n2 - 1) \in Nat /\ ListOf(v, n2 - 1) <= ListOf(v, n - 1)
  BY <1>1, PlaceOf, PlaceGrows
<1>4. IF EntryOf(v, n2) = 0
        THEN ListOf(v, n2) = ListOf(v, n2 - 1) + 1 /\ EntryOf(v, n2 - 1) = v.maxDatablk - 1
        ELSE ListOf(v, n2) = ListOf(v, n2 - 1) /\ EntryOf(v, n2) = EntryOf(v, n2 - 1) + 1
  BY <1>1, PlaceNext
<1>5. EntryOf(v, n2) = n2 % v.maxDatablk
  BY DEF EntryOf
<1>6. EntryOf(v, n2) \in 0..(v.maxDatablk - 1) /\ v.maxDatablk \in Nat \ {0}
  BY <1>1, PlaceOf, VolumeParts
<1>7. EntryOf(v, n2) = 0 /\ ListOf(v, n2 - 1) = ListOf(v, n - 1) => n2 = n
  <2>1. SUFFICES ASSUME EntryOf(v, n2) = 0, ListOf(v, n2 - 1) = ListOf(v, n - 1), n2 # n
                 PROVE  FALSE
    OBVIOUS
  <2>2. n2 <= n - 1
    BY <1>1, <2>1
  <2>3. ListOf(v, n2) <= ListOf(v, n - 1)
    BY <1>1, <2>2, PlaceGrows
  <2> QED
    BY <1>3, <1>4, <2>1, <2>3
<1> QED
  BY <1>2, <1>3, <1>4, <1>5, <1>6, <1>7

\* The blocks that stay are its own, when the others are freed.
LEMMA OwnsShorter ==
  ASSUME NEW v \in Volumes, NEW fr, NEW n \in Nat, NEW data, NEW ext, Owns(v, fr, n, data, ext),
         NEW n2 \in 1..n
  PROVE  Owns(v, fr \cup Dropped(data, n, n2) \cup DroppedExt(v, ext, n, n2), n2, Shorter(data, n2),
              ShorterExt(v, ext, n2))
<1> DEFINE L == LastList(v, n)
           L2 == LastList(v, n2)
           data2 == Shorter(data, n2)
           ext2 == ShorterExt(v, ext, n2)
           fr2 == fr \cup Dropped(data, n, n2) \cup DroppedExt(v, ext, n, n2)
<1>1. L \in Nat /\ L2 \in 0..L
  BY FewerLists
<1>2. /\ data \in [0..(n - 1) -> v.sectors] /\ ext \in [1..L -> v.sectors]
      /\ \A j, k \in 0..(n - 1) : data[j] = data[k] => j = k
      /\ \A j, k \in 1..L : ext[j] = ext[k] => j = k
      /\ \A k \in 0..(n - 1) : \A l \in 1..L : data[k] # ext[l]
      /\ fr = v.sectors \ ({data[k] : k \in 0..(n - 1)} \cup {ext[l] : l \in 1..L})
  BY DEF Owns
<1>3. /\ \A k \in 0..(n2 - 1) : k \in 0..(n - 1) /\ data2[k] = data[k]
      /\ \A l \in 1..L2 : l \in 1..L /\ ext2[l] = ext[l]
  BY <1>1 DEF Shorter, ShorterExt
<1>4. data2 \in [0..(n2 - 1) -> v.sectors]
  BY <1>2, <1>3 DEF Shorter
<1>5. ext2 \in [1..L2 -> v.sectors]
  BY <1>2, <1>3 DEF ShorterExt
<1>6. /\ Dropped(data, n, n2) = {data[k] : k \in n2..(n - 1)}
      /\ DroppedExt(v, ext, n, n2) = {ext[l] : l \in (L2 + 1)..L}
  BY DEF Dropped, DroppedExt
<1> HIDE DEF L, L2, data2, ext2
<1>7. fr2 = v.sectors \ ({data2[k] : k \in 0..(n2 - 1)} \cup {ext2[l] : l \in 1..L2})
  <2>1. ASSUME NEW t \in fr2
        PROVE  t \in v.sectors /\ (\A k \in 0..(n2 - 1) : t # data2[k]) /\ (\A l \in 1..L2 : t # ext2[l])
    <3>1. CASE t \in fr
      BY <1>2, <1>3, <3>1
    <3>2. CASE t \in Dropped(data, n, n2)
      <4>1. PICK j \in n2..(n - 1) : t = data[j]
        BY <1>6, <3>2
      <4>2. j \in 0..(n - 1) /\ \A k \in 0..(n2 - 1) : k # j
        OBVIOUS
      <4> QED
        BY <1>2, <1>3, <4>1, <4>2
    <3>3. CASE t \in DroppedExt(v, ext, n, n2)
      <4>1. PICK j \in (L2 + 1)..L : t = ext[j]
        BY <1>6, <3>3
      <4>2. j \in 1..L /\ \A l \in 1..L2 : l # j
        BY <1>1
      <4> QED
        BY <1>2, <1>3, <4>1, <4>2
    <3> QED
      BY <3>1, <3>2, <3>3
  <2>2. ASSUME NEW t \in v.sectors, \A k \in 0..(n2 - 1) : t # data2[k], \A l \in 1..L2 : t # ext2[l]
        PROVE  t \in fr2
    <3>1. CASE \E k \in 0..(n - 1) : t = data[k]
      <4>1. PICK k \in 0..(n - 1) : t = data[k]
        BY <3>1
      <4>2. k \in n2..(n - 1)
        <5>1. ~(k \in 0..(n2 - 1))
          BY <1>3, <2>2, <4>1
        <5> QED
          BY <5>1
      <4> QED
        BY <1>6, <4>1, <4>2
    <3>2. CASE \E l \in 1..L : t = ext[l]
      <4>1. PICK l \in 1..L : t = ext[l]
        BY <3>2
      <4>2. l \in (L2 + 1)..L
        <5>1. ~(l \in 1..L2)
          BY <1>3, <2>2, <4>1
        <5> QED
          BY <1>1, <5>1
      <4> QED
        BY <1>6, <4>1, <4>2
    <3>3. CASE ~(\E k \in 0..(n - 1) : t = data[k]) /\ ~(\E l \in 1..L : t = ext[l])
      BY <1>2, <2>2, <3>3
    <3> QED
      BY <3>1, <3>2, <3>3
  <2> QED
    BY <2>1, <2>2
<1> HIDE DEF fr2
<1>8. Owns(v, fr2, n2, data2, ext2)
  <2>1. \A j, k \in 0..(n2 - 1) : data2[j] = data2[k] => j = k
    BY <1>2, <1>3
  <2>2. \A j, k \in 1..L2 : ext2[j] = ext2[k] => j = k
    BY <1>2, <1>3
  <2>3. \A k \in 0..(n2 - 1) : \A l \in 1..L2 : data2[k] # ext2[l]
    BY <1>2, <1>3
  <2> QED
    BY <1>4, <1>5, <1>7, <2>1, <2>2, <2>3, Zenon DEF Owns, L2
<1> QED
  BY <1>8 DEF fr2, data2, ext2

\* The last list of a file with n2 data blocks, made of one that lists more.
ShortList(v, a, b, n2) ==
  /\ b.extension = 0 /\ b.highSeq = InLast(v, n2)
  /\ \A i \in 0..(InLast(v, n2) - 1) : b.dataBlocks[i] = a.dataBlocks[i]

ShortLists(v, h, y, h2, y2, ext, n2) ==
  LET L2 == LastList(v, n2)
  IN  /\ \A l \in 0..(L2 - 1) : SameList(ListAt(h2, y2, ext, l), ListAt(h, y, ext, l))
      /\ ShortList(v, ListAt(h, y, ext, L2), ListAt(h2, y2, ext, L2), n2)
      /\ \A l \in 1..L2 : y2[ext[l]] \in ExtSet(v) /\ y2[ext[l]].headerKey = ext[l]
      /\ h2.firstData = h.firstData

\* They are the lists of the shorter file.
LEMMA ListsShorter ==
  ASSUME NEW v \in Volumes, NEW n \in Nat, NEW data, NEW ext, NEW h, NEW y,
         Lists(v, h, y, n, data, ext), NEW n2 \in 1..n, NEW h2, NEW y2,
         ShortLists(v, h, y, h2, y2, ext, n2)
  PROVE  Lists(v, h2, y2, n2, Shorter(data, n2), ShorterExt(v, ext, n2))
<1> DEFINE L == LastList(v, n)
           L2 == LastList(v, n2)
           data2 == Shorter(data, n2)
           ext2 == ShorterExt(v, ext, n2)
           Old(l) == ListAt(h, y, ext, l)
           New(l) == ListAt(h2, y2, ext2, l)
<1>1. L \in Nat /\ L2 \in 0..L /\ L2 = ListOf(v, n2 - 1) /\ n2 # 0 /\ n # 0 /\ n2 - 1 \in Nat
      /\ n2 \in Nat
  BY FewerLists
<1>2. /\ \A k \in 0..(n2 - 1) : k \in 0..(n - 1) /\ data2[k] = data[k] /\ k \in Nat
      /\ \A l \in 1..L2 : ext2[l] = ext[l]
  BY <1>1 DEF Shorter, ShorterExt
<1>3. \A l \in 0..L2 : New(l) = ListAt(h2, y2, ext, l)
  BY <1>1, <1>2 DEF ListAt
<1>4. /\ \A k \in 0..(n - 1) : Old(ListOf(v, k)).dataBlocks[EntryOf(v, k)] = data[k]
      /\ \A l \in 0..L : Old(l).extension = IF l < L THEN ext[l + 1] ELSE 0
      /\ \A l \in 0..L : Old(l).highSeq = IF l < L THEN v.maxDatablk ELSE InLast(v, n)
      /\ h.firstData = data[0]
  BY <1>1 DEF Lists, Listed, Linked, Counted, FirstIs
<1>5. /\ \A l \in 0..(L2 - 1) : SameList(New(l), Old(l)) /\ l \in 0..L /\ l < L
      /\ ShortList(v, Old(L2), New(L2), n2)
      /\ \A l \in 1..L2 : y2[ext2[l]] \in ExtSet(v) /\ y2[ext2[l]].headerKey = ext2[l]
      /\ h2.firstData = h.firstData
  <2>1. \A l \in 0..(L2 - 1) : l \in 0..L2 /\ l \in 0..L /\ l < L
    BY <1>1
  <2> HIDE DEF New, Old, ext2
  <2> QED
    BY <1>1, <1>2, <1>3, <2>1 DEF ShortLists, Old
<1> HIDE DEF L, L2, data2, ext2, Old, New
<1>6. \A k \in 0..(n2 - 1) : New(ListOf(v, k)).dataBlocks[EntryOf(v, k)] = data2[k]
  <2> SUFFICES ASSUME NEW k \in 0..(n2 - 1)
               PROVE  New(ListOf(v, k)).dataBlocks[EntryOf(v, k)] = data2[k]
    OBVIOUS
  <2>1. ListOf(v, k) \in Nat /\ ListOf(v, k) <= L2 /\ EntryOf(v, k) \in Nat
    <3>1. k <= n2 - 1 /\ k \in Nat
      BY <1>1
    <3>2. EntryOf(v, k) \in 0..(v.maxDatablk - 1) /\ v.maxDatablk \in Nat
      BY <3>1, PlaceOf, VolumeParts
    <3> QED
      BY <1>1, <3>1, <3>2, PlaceOf, PlaceGrows
  <2>2. CASE ListOf(v, k) = L2
    <3>1. EntryOf(v, k) <= EntryOf(v, n2 - 1)
      <4>1. k <= n2 - 1 /\ n2 - 1 \in Nat /\ k \in Nat /\ v.maxDatablk \in Nat \ {0}
        BY <1>1, VolumeParts
      <4> DEFINE a == v.maxDatablk * (k \div v.maxDatablk)
      <4>2. /\ k = v.maxDatablk * (k \div v.maxDatablk) + (k % v.maxDatablk)
            /\ n2 - 1 = v.maxDatablk * ((n2 - 1) \div v.maxDatablk) + ((n2 - 1) % v.maxDatablk)
            /\ (k \div v.maxDatablk) \in Nat
            /\ k % v.maxDatablk \in Nat /\ (n2 - 1) % v.maxDatablk \in Nat
        <5> DEFINE m == n2 - 1
        <5>1. m \in Nat
          BY <4>1
        <5> HIDE DEF m
        <5>2. /\ m \div v.maxDatablk \in Nat /\ m % v.maxDatablk \in 0..(v.maxDatablk - 1)
              /\ m = v.maxDatablk * (m \div v.maxDatablk) + (m % v.maxDatablk)
          BY <4>1, <5>1, DivMod
        <5>3. /\ k \div v.maxDatablk \in Nat /\ k % v.maxDatablk \in 0..(v.maxDatablk - 1)
              /\ k = v.maxDatablk * (k \div v.maxDatablk) + (k % v.maxDatablk)
          BY <4>1, DivMod
        <5>4. m % v.maxDatablk \in Nat /\ k % v.maxDatablk \in Nat
          BY <4>1, <5>2, <5>3
        <5> QED
          BY <5>2, <5>3, <5>4 DEF m
      <4>3. k \div v.maxDatablk = (n2 - 1) \div v.maxDatablk
        BY <1>1, <2>2 DEF ListOf
      <4>4. a \in Int /\ k = a + EntryOf(v, k) /\ n2 - 1 = a + EntryOf(v, n2 - 1)
            /\ EntryOf(v, k) \in Nat /\ EntryOf(v, n2 - 1) \in Nat
        BY <4>1, <4>2, <4>3 DEF EntryOf
      <4> HIDE DEF a
      <4> QED
        BY <4>1, <4>4
    <3>2. InLast(v, n2) = EntryOf(v, n2 - 1) + 1 /\ EntryOf(v, n2 - 1) \in Nat
      <4>1. EntryOf(v, n2 - 1) \in 0..(v.maxDatablk - 1) /\ v.maxDatablk \in Nat
        BY <1>1, PlaceOf, VolumeParts
      <4> QED
        BY <1>1, <4>1 DEF InLast
    <3>3. EntryOf(v, k) \in 0..(InLast(v, n2) - 1)
      BY <2>1, <3>1, <3>2
    <3>4. New(L2).dataBlocks[EntryOf(v, k)] = Old(L2).dataBlocks[EntryOf(v, k)]
      BY <1>5, <3>3 DEF ShortList
    <3> QED
      BY <1>2, <1>4, <2>2, <3>4
  <2>3. CASE ListOf(v, k) # L2
    <3>1. ListOf(v, k) \in 0..(L2 - 1)
      BY <1>1, <2>1, <2>3
    <3> QED
      BY <1>2, <1>4, <1>5, <3>1 DEF SameList
  <2> QED
    BY <2>2, <2>3
<1>7. \A l \in 0..L2 : New(l).extension = IF l < L2 THEN ext2[l + 1] ELSE 0
  <2> SUFFICES ASSUME NEW l \in 0..L2
               PROVE  New(l).extension = IF l < L2 THEN ext2[l + 1] ELSE 0
    OBVIOUS
  <2>1. CASE l < L2
    <3>1. l \in 0..(L2 - 1) /\ l + 1 \in 1..L2
      BY <1>1, <2>1
    <3> QED
      BY <1>2, <1>4, <1>5, <2>1, <3>1 DEF SameList
  <2>2. CASE ~(l < L2)
    <3>1. l = L2
      BY <1>1, <2>2
    <3> QED
      BY <1>5, <2>2, <3>1 DEF ShortList
  <2> QED
    BY <2>1, <2>2
<1>8. \A l \in 0..L2 : New(l).highSeq = IF l < L2 THEN v.maxDatablk ELSE InLast(v, n2)
  <2> SUFFICES ASSUME NEW l \in 0..L2
               PROVE  New(l).highSeq = IF l < L2 THEN v.maxDatablk ELSE InLast(v, n2)
    OBVIOUS
  <2>1. CASE l < L2
    <3>1. l \in 0..(L2 - 1)
      BY <1>1, <2>1
    <3> QED
      BY <1>4, <1>5, <2>1, <3>1 DEF SameList
  <2>2. CASE ~(l < L2)
    <3>1. l = L2
      BY <1>1, <2>2
    <3> QED
      BY <1>5, <2>2, <3>1 DEF ShortList
  <2> QED
    BY <2>1, <2>2
<1>9. h2.firstData = data2[0]
  <2>1. 0 \in 0..(n2 - 1)
    BY <1>1
  <2> QED
    BY <1>2, <1>4, <1>5, <2>1
<1>10. /\ Listed(v, h2, y2, n2, data2, ext2) /\ Linked(v, h2, y2, n2, ext2)
       /\ Counted(v, h2, y2, n2, ext2) /\ Keyed(v, y2, n2, ext2) /\ FirstIs(h2, n2, data2)
  BY <1>1, <1>5, <1>6, <1>7, <1>8, <1>9 DEF Listed, Linked, Counted, Keyed, FirstIs, New, L2
<1> QED
  BY <1>10 DEF Lists, data2, ext2

\* The data blocks of the shorter file: the last one has no next one.
ShortData(v, y, y2, n2, data) ==
  /\ \A k \in 0..(n2 - 1) : y2[data[k]].bytes = y[data[k]].bytes
  /\ v.ofs => \A k \in 0..(n2 - 1) :
                y2[data[k]].nextData = IF k = n2 - 1 THEN 0 ELSE y[data[k]].nextData

\* They hold the same bytes and are linked.
LEMMA HoldsShorter ==
  ASSUME NEW v \in Volumes, NEW n \in Nat, NEW data, NEW bytes, NEW y,
         Holds(v, y, n, data, bytes), NEW n2 \in 1..n, NEW y2, ShortData(v, y, y2, n2, data)
  PROVE  Holds(v, y2, n2, Shorter(data, n2), bytes)
<1> DEFINE data2 == Shorter(data, n2)
<1>1. \A k \in 0..(n2 - 1) : k \in 0..(n - 1) /\ data2[k] = data[k]
  BY DEF Shorter
<1>2. \A k \in 0..(n2 - 1) : k + 1 < n2 => k + 1 \in 0..(n2 - 1) /\ k + 1 < n /\ k # n2 - 1
  OBVIOUS
<1>3. \A k \in 0..(n2 - 1) : ~(k + 1 < n2) => k = n2 - 1
  OBVIOUS
<1> HIDE DEF data2
<1>4. \A k \in 0..(n2 - 1) : y2[data2[k]].bytes = bytes[k]
  BY <1>1 DEF Holds, ShortData
<1>5. ASSUME v.ofs, NEW k \in 0..(n2 - 1)
      PROVE  y2[data2[k]].nextData = LinkOf(n2, data2, k)
  <2>1. CASE k + 1 < n2
    <3>1. y2[data[k]].nextData = y[data[k]].nextData
      BY <1>2, <1>5, <2>1 DEF ShortData
    <3>2. y[data[k]].nextData = data[k + 1]
      BY <1>1, <1>2, <1>5, <2>1 DEF Holds, LinkOf
    <3>3. data2[k + 1] = data[k + 1]
      BY <1>1, <1>2, <2>1
    <3> QED
      BY <1>1, <2>1, <3>1, <3>2, <3>3 DEF LinkOf
  <2>2. CASE ~(k + 1 < n2)
    BY <1>1, <1>3, <1>5, <2>2 DEF ShortData, LinkOf
  <2> QED
    BY <2>1, <2>2
<1>6. Holds(v, y2, n2, data2, bytes)
  BY <1>4, <1>5 DEF Holds
<1> QED
  BY <1>6 DEF data2

\* Shortening the last list of a file, and ending it, in an extension block
\* and in the header.
LEMMA ShortExt ==
  ASSUME vol \in Volumes, NEW n \in Nat, NEW n2 \in 1..n, NEW e \in ExtSet(vol),
         n2 % vol.maxDatablk = 0 => e.highSeq = vol.maxDatablk,
         NEW b, b = [Shortened(e, n2) EXCEPT !.extension = 0]
  PROVE  b \in ExtSet(vol) /\ b.headerKey = e.headerKey /\ ShortList(vol, e, b, n2)
<1> DEFINE m == n2 % vol.maxDatablk
           cut == [i \in 0..(vol.maxDatablk - 1) |-> IF i < m THEN e.dataBlocks[i] ELSE 0]
<1>1. /\ InLast(vol, n2) = IF m = 0 THEN vol.maxDatablk ELSE m
      /\ InLast(vol, n2) \in 1..vol.maxDatablk /\ vol.maxDatablk \in Nat \ {0}
  BY FewerLists, VolumeParts
<1>2. e.dataBlocks \in EntrySet(vol)
  BY DEF ExtSet
<1>3. cut \in EntrySet(vol) /\ \A i \in 0..(m - 1) : m # 0 => cut[i] = e.dataBlocks[i]
  BY <1>1, <1>2 DEF EntrySet
<1>4. Shortened(e, n2) = IF m = 0 THEN e ELSE [[e EXCEPT !.dataBlocks = cut] EXCEPT !.highSeq = m]
  BY Zenon DEF Shortened, Entries, MaxDatablk
<1> HIDE DEF m, cut
<1>5. CASE m = 0
  BY <1>1, <1>4, <1>5 DEF ExtSet, ShortList, m
<1>6. CASE m # 0
  <2>1. m \in 0..vol.maxDatablk
    BY <1>1, <1>6
  <2> DEFINE e1 == [e EXCEPT !.dataBlocks = cut]
             e2 == [e1 EXCEPT !.highSeq = m]
  <2>2. e1 \in ExtSet(vol) /\ e1.headerKey = e.headerKey /\ e1.dataBlocks = cut
    BY <1>3 DEF ExtSet
  <2> HIDE DEF e1
  <2>3. e2 \in ExtSet(vol) /\ e2.headerKey = e.headerKey /\ e2.dataBlocks = cut /\ e2.highSeq = m
    BY <2>1, <2>2 DEF ExtSet
  <2>4. b = [e2 EXCEPT !.extension = 0]
    BY <1>4, <1>6 DEF e1
  <2> HIDE DEF e2
  <2>5. /\ b \in ExtSet(vol) /\ b.headerKey = e.headerKey /\ b.dataBlocks = cut /\ b.highSeq = m
        /\ b.extension = 0
    BY <2>3, <2>4 DEF ExtSet
  <2> QED
    BY <1>1, <1>3, <1>6, <2>5 DEF ShortList
<1> QED
  BY <1>5, <1>6

\* The header is that of a file of that size.
LEMMA ShortHeader ==
  ASSUME vol \in Volumes, NEW n \in Nat, NEW n2 \in 1..n, NEW h \in HeaderSet(vol),
         n2 % vol.maxDatablk = 0 => h.highSeq = vol.maxDatablk, NEW size \in 0..vol.maxSize,
         NEW b, b = [Shortened([h EXCEPT !.byteSize = size], n2) EXCEPT !.extension = 0]
  PROVE  /\ b \in HeaderSet(vol) /\ b.byteSize = size /\ b.firstData = h.firstData
         /\ ShortList(vol, h, b, n2)
<1> DEFINE m == n2 % vol.maxDatablk
           e == [h EXCEPT !.byteSize = size]
           cut == [i \in 0..(vol.maxDatablk - 1) |-> IF i < m THEN e.dataBlocks[i] ELSE 0]
<1>1. /\ InLast(vol, n2) = IF m = 0 THEN vol.maxDatablk ELSE m
      /\ InLast(vol, n2) \in 1..vol.maxDatablk /\ vol.maxDatablk \in Nat \ {0}
  BY FewerLists, VolumeParts
<1>2. /\ e \in HeaderSet(vol) /\ e.dataBlocks = h.dataBlocks /\ e.byteSize = size
      /\ e.firstData = h.firstData /\ e.highSeq = h.highSeq
  BY DEF HeaderSet
<1> HIDE DEF e
<1>3. e.dataBlocks \in EntrySet(vol)
  BY <1>2 DEF HeaderSet
<1>4. cut \in EntrySet(vol) /\ \A i \in 0..(m - 1) : m # 0 => cut[i] = e.dataBlocks[i]
  BY <1>1, <1>3 DEF EntrySet
<1>5. Shortened(e, n2) = IF m = 0 THEN e ELSE [[e EXCEPT !.dataBlocks = cut] EXCEPT !.highSeq = m]
  BY Zenon DEF Shortened, Entries, MaxDatablk
<1>6. b = [Shortened(e, n2) EXCEPT !.extension = 0]
  BY DEF e
<1> HIDE DEF m, cut
<1>7. CASE m = 0
  <2>1. b = [e EXCEPT !.extension = 0]
    BY <1>5, <1>6, <1>7
  <2>2. /\ b \in HeaderSet(vol) /\ b.dataBlocks = e.dataBlocks /\ b.highSeq = e.highSeq
        /\ b.extension = 0 /\ b.byteSize = e.byteSize /\ b.firstData = e.firstData
    BY <1>2, <2>1 DEF HeaderSet
  <2>3. e.highSeq = vol.maxDatablk
    BY <1>2, <1>7 DEF m
  <2> QED
    BY <1>1, <1>2, <1>7, <2>2, <2>3 DEF ShortList
<1>8. CASE m # 0
  <2>1. m \in 0..vol.maxDatablk
    BY <1>1, <1>8
  <2> DEFINE e1 == [e EXCEPT !.dataBlocks = cut]
             e2 == [e1 EXCEPT !.highSeq = m]
  <2>2. /\ e1 \in HeaderSet(vol) /\ e1.dataBlocks = cut /\ e1.byteSize = size
        /\ e1.firstData = h.firstData
    BY <1>2, <1>4 DEF HeaderSet
  <2> HIDE DEF e1
  <2>3. /\ e2 \in HeaderSet(vol) /\ e2.dataBlocks = cut /\ e2.highSeq = m /\ e2.byteSize = size
        /\ e2.firstData = h.firstData
    BY <2>1, <2>2 DEF HeaderSet
  <2>4. b = [e2 EXCEPT !.extension = 0]
    BY <1>5, <1>6, <1>8 DEF e1
  <2> HIDE DEF e2
  <2>5. /\ b \in HeaderSet(vol) /\ b.dataBlocks = cut /\ b.highSeq = m
        /\ b.extension = 0 /\ b.byteSize = size /\ b.firstData = h.firstData
    BY <2>3, <2>4 DEF HeaderSet
  <2> QED
    BY <1>1, <1>2, <1>4, <1>8, <2>5 DEF ShortList
<1> QED
  BY <1>7, <1>8

-----------------------------------------------------------------------------
(* The blocks adfFileTruncate removes *)

\* Extension blocks on the disk are those of the file when the one in memory is
\* written.
LEMMA ListsOnDisk ==
  ASSUME NEW v \in Volumes, NEW w, NEW data, NEW ext, NEW bytes, IsFile(v, w, data, ext, bytes),
         HeaderKept(w), NEW n, n = Count(w.file.fileHdr.byteSize)
  PROVE  Lists(v, w.file.fileHdr, w.disk, n, data, ext)
<1> DEFINE y == ExtsNow(v, w.file, w.disk)
           z == DataNow(v, w.file, w.disk)
<1>1. n \in Nat /\ Owns(v, w.free, n, data, ext)
  BY FileParts
<1>2. FileIs(v, w.file.fileHdr, y, z, w.free, data, ext, bytes)
  BY DEF IsFile
<1>3. \A l \in 1..LastList(v, n) : w.disk[ext[l]] = y[ext[l]]
  <2> SUFFICES ASSUME NEW l \in 1..LastList(v, n)
               PROVE  w.disk[ext[l]] = y[ext[l]]
    OBVIOUS
  <2>1. ext[l] \in v.sectors
    BY <1>1, Sector
  <2> QED
    BY <2>1 DEF ExtsNow, HeaderKept
<1>4. /\ \A k \in 0..(n - 1) : z[data[k]].bytes = z[data[k]].bytes
      /\ v.ofs => \A k \in 0..(n - 1) : z[data[k]].nextData = z[data[k]].nextData
  OBVIOUS
<1> HIDE DEF y, z
<1>5. FileIs(v, w.file.fileHdr, w.disk, z, w.free, data, ext, bytes)
  BY <1>1, <1>2, <1>3, <1>4, SameBlocks
<1> QED
  BY <1>5 DEF FileIs

\* adfFileTruncateGetBlocksToRemove in terms of numbers of blocks and lists.
SectorAt(w, l) == ExtSector(w, l - 1)
EntriesAt(w, l) == IF l = 0 THEN w.file.fileHdr.dataBlocks
                            ELSE OnDiskExt(w, SectorAt(w, l)).dataBlocks
ListsAt(w, m, m2) == {l \in m2..m : l = 0 \/ SectorAt(w, l) # 0}
UsedFrom(n, n2, l) == UsedEntries(n, l) \ UsedEntries(n2, l)
ToRemove(w, n, m, n2, m2) ==
  [data |-> UNION {{EntriesAt(w, l)[i] : i \in UsedFrom(n, n2, l)} : l \in ListsAt(w, m, m2)},
   ext  |-> {SectorAt(w, l) : l \in ListsAt(w, m, m2) \cap (m2 + 1)..m},
   ok   |-> /\ \A l \in ListsAt(w, m, m2) \ {0} : ReadsAsExt(w.disk[SectorAt(w, l)])
            /\ ListsAt(w, m, m2) = m2..m
            /\ m > 0 => SectorAt(w, m + 1) = 0]

\* It is that.
LEMMA ToRemoveIs ==
  ASSUME NEW w, NEW size, NEW n, n = adfFileSize2Datablocks(Size(w)),
         NEW m, m = adfFileSize2Extblocks(Size(w)),
         NEW n2, n2 = adfFileSize2Datablocks(size), NEW m2, m2 = adfFileSize2Extblocks(size)
  PROVE  BlocksToRemove(w, size) = ToRemove(w, n, m, n2, m2)
<1>1. BlocksToRemove(w, size)
      = ToRemove(w, adfFileSize2Datablocks(Size(w)), adfFileSize2Extblocks(Size(w)),
                 adfFileSize2Datablocks(size), adfFileSize2Extblocks(size))
  BY Zenon DEF BlocksToRemove, ToRemove, SectorAt, EntriesAt, ListsAt, UsedFrom
<1> QED
  BY <1>1

\* The entries behind the end of a file of n2 data blocks.
Behind(v, n, n2, l) ==
  {i \in 0..(v.maxDatablk - 1) : v.maxDatablk * l + i >= n2 /\ v.maxDatablk * l + i < n}

\* They are the ones that are removed.
LEMMA UsedFromIs ==
  ASSUME vol \in Volumes, NEW n \in Nat, NEW n2 \in Nat, NEW l \in Nat
  PROVE  UsedFrom(n, n2, l) = Behind(vol, n, n2, l)
<1> DEFINE a == vol.maxDatablk * l
<1>1. a \in Nat
  BY VolumeParts
<1>2. UsedFrom(n, n2, l) = {i \in 0..(vol.maxDatablk - 1) : a + i < n}
                           \ {i \in 0..(vol.maxDatablk - 1) : a + i < n2}
  BY Zenon DEF UsedFrom, UsedEntries, Entries, MaxDatablk
<1> HIDE DEF a
<1>3. UsedFrom(n, n2, l) = {i \in 0..(vol.maxDatablk - 1) : a + i >= n2 /\ a + i < n}
  BY <1>1, <1>2
<1> QED
  BY <1>3 DEF a, Behind

\* When the headers are on the disk it finds the data blocks and extension
\* blocks that the shorter file does not need.
LEMMA RemoveIs ==
  ASSUME vol \in Volumes, NEW w, NEW data, NEW ext, NEW bytes, IsFile(vol, w, data, ext, bytes),
         HeaderKept(w), NEW n, n = Count(w.file.fileHdr.byteSize),
         NEW size \in Nat, size < w.file.fileHdr.byteSize, NEW n2, n2 = Count(size), n2 \in 1..n
  PROVE  /\ BlocksToRemove(w, size).ok
         /\ BlocksToRemove(w, size).data = Dropped(data, n, n2)
         /\ BlocksToRemove(w, size).ext = DroppedExt(vol, ext, n, n2)
<1> DEFINE m == LastList(vol, n)
           m2 == LastList(vol, n2)
           r == ToRemove(w, n, m, n2, m2)
<1>1. n \in Nat /\ Owns(vol, w.free, n, data, ext) /\ w.file.fileHdr.byteSize \in Nat
      /\ vol.maxDatablk \in Nat \ {0}
  <2>1. w \in WorldSet(vol)
    BY DEF IsFile
  <2> QED
    BY <2>1, FileParts, WorldParts, VolumeParts
<1>2. /\ n = adfFileSize2Datablocks(Size(w)) /\ m = adfFileSize2Extblocks(Size(w))
      /\ n2 = adfFileSize2Datablocks(size) /\ m2 = adfFileSize2Extblocks(size)
  BY <1>1, CountIs, ExtCountIs DEF Size
<1>3. BlocksToRemove(w, size) = r
  BY <1>2, ToRemoveIs
<1>4. m \in Nat /\ m2 \in 0..m /\ m2 = ListOf(vol, n2 - 1)
  BY <1>1, FewerLists
<1>5. Lists(vol, w.file.fileHdr, w.disk, n, data, ext)
  BY ListsOnDisk
<1>6. ListedOnDisk(vol, w, n, data, ext)
  BY <1>1, <1>5, LookUp
<1>7. ext \in [1..m -> vol.sectors] /\ vol.sectors \subseteq Nat \ {0} /\ 0 \notin vol.sectors
  BY <1>1, VolumeParts DEF Owns
<1>8. \A l \in 1..(m + 1) : SectorAt(w, l) = IF l <= m THEN ext[l] ELSE 0
  <2> SUFFICES ASSUME NEW l \in 1..(m + 1)
               PROVE  SectorAt(w, l) = IF l <= m THEN ext[l] ELSE 0
    OBVIOUS
  <2> DEFINE k == l - 1
  <2>1. k \in 0..m /\ k + 1 = l /\ (k < m <=> l <= m)
    BY <1>4
  <2>2. Linked(vol, w.file.fileHdr, w.disk, n, ext) /\ Keyed(vol, w.disk, n, ext)
    BY <1>5 DEF Lists
  <2> HIDE DEF k
  <2>3. ExtSector(w, k) = IF k < m THEN ext[k + 1] ELSE 0
    BY <1>1, <1>7, <2>1, <2>2, ExtSectorIs
  <2> QED
    BY <2>1, <2>3 DEF SectorAt, k
<1>9. \A l \in 1..m : /\ l \in 1..(m + 1)
                      /\ SectorAt(w, l) = ext[l] /\ ext[l] # 0 /\ w.disk[ext[l]] \in ExtSet(vol)
  BY <1>4, <1>6, <1>7, <1>8 DEF ListedOnDisk
<1>10. ListsAt(w, m, m2) = m2..m
  BY <1>4, <1>9 DEF ListsAt
<1>11. \A l \in 1..m : ReadsAsExt(w.disk[SectorAt(w, l)])
  BY <1>9 DEF ReadsAsExt, ExtSet
<1>12. m > 0 => SectorAt(w, m + 1) = 0
  BY <1>4, <1>8
<1>13. r.ok
  BY <1>4, <1>10, <1>11, <1>12 DEF ToRemove
<1>14. r.ext = DroppedExt(vol, ext, n, n2)
  <2>1. r.ext = {SectorAt(w, l) : l \in ListsAt(w, m, m2) \cap (m2 + 1)..m}
    BY DEF ToRemove
  <2>2. ListsAt(w, m, m2) \cap (m2 + 1)..m = (m2 + 1)..m
    BY <1>4, <1>10
  <2>3. \A l \in (m2 + 1)..m : SectorAt(w, l) = ext[l]
    BY <1>4, <1>9
  <2> HIDE DEF r, m, m2
  <2> QED
    BY <2>1, <2>2, <2>3 DEF DroppedExt, m, m2
<1>15. \A l \in 0..m : \A i \in 0..(vol.maxDatablk - 1) :
         LET k == vol.maxDatablk * l + i
         IN  k \in 0..(n - 1) => EntriesAt(w, l)[i] = data[k]
  <2> SUFFICES ASSUME NEW l \in 0..m, NEW i \in 0..(vol.maxDatablk - 1),
                      vol.maxDatablk * l + i \in 0..(n - 1)
               PROVE  EntriesAt(w, l)[i] = data[vol.maxDatablk * l + i]
    BY Zenon
  <2> DEFINE k == vol.maxDatablk * l + i
  <2>1. l \in Nat
    BY <1>4
  <2>2. ListOf(vol, k) = l /\ EntryOf(vol, k) = i
    BY <2>1, PlaceMade
  <2>3. ListAt(w.file.fileHdr, w.disk, ext, l).dataBlocks[i] = data[k]
    BY <1>5, <2>2 DEF Lists, Listed
  <2>4. l # 0 => OnDiskExt(w, SectorAt(w, l)) = w.disk[ext[l]]
    <3>1. SUFFICES ASSUME l # 0
                   PROVE  OnDiskExt(w, SectorAt(w, l)) = w.disk[ext[l]]
      OBVIOUS
    <3>2. l \in 1..m
      BY <1>4, <3>1
    <3> QED
      BY <1>9, <3>2 DEF OnDiskExt, AsExt, ExtSet
  <2> QED
    BY <2>3, <2>4 DEF EntriesAt, ListAt
<1>16. r.data = Dropped(data, n, n2)
  <2>1. r.data = UNION {{EntriesAt(w, l)[i] : i \in UsedFrom(n, n2, l)} : l \in m2..m}
    BY <1>10 DEF ToRemove
  <2> HIDE DEF r, m, m2
  <2>2. ASSUME NEW t \in r.data
        PROVE  t \in Dropped(data, n, n2)
    <3>1. PICK l \in m2..m : t \in {EntriesAt(w, l)[i] : i \in UsedFrom(n, n2, l)}
      BY <2>1, <2>2
    <3>2. PICK i \in UsedFrom(n, n2, l) : t = EntriesAt(w, l)[i]
      BY <3>1
    <3>3. l \in Nat /\ l \in 0..m /\ n2 \in Nat
      BY <1>4
    <3>4. /\ i \in 0..(vol.maxDatablk - 1)
          /\ vol.maxDatablk * l + i >= n2 /\ vol.maxDatablk * l + i < n
      <4>1. UsedFrom(n, n2, l) = Behind(vol, n, n2, l)
        BY <1>1, <3>3, UsedFromIs
      <4> QED
        BY <3>2, <4>1 DEF Behind
    <3> DEFINE k == vol.maxDatablk * l + i
    <3>5. k \in Nat
      BY <3>3, <3>4, PlaceMade
    <3>6. k \in n2..(n - 1) /\ k \in 0..(n - 1)
      <4>1. k >= n2 /\ k < n
        BY <3>4
      <4> HIDE DEF k
      <4> QED
        BY <1>1, <3>3, <3>5, <4>1
    <3>7. EntriesAt(w, l)[i] = data[k]
      BY <1>15, <3>3, <3>4, <3>6
    <3> HIDE DEF k
    <3> QED
      BY <3>2, <3>6, <3>7 DEF Dropped
  <2>3. ASSUME NEW t \in Dropped(data, n, n2)
        PROVE  t \in r.data
    <3>1. PICK k \in n2..(n - 1) : t = data[k]
      BY <2>3 DEF Dropped
    <3> DEFINE l == ListOf(vol, k)
               i == EntryOf(vol, k)
    <3>2. k \in Nat /\ k \in 0..(n - 1) /\ n2 \in Nat /\ n2 - 1 <= k /\ n2 - 1 \in Nat
      BY <1>1
    <3>3. l \in Nat /\ i \in 0..(vol.maxDatablk - 1) /\ k = vol.maxDatablk * l + i
      <4>1. k \div vol.maxDatablk \in Nat /\ k = vol.maxDatablk * (k \div vol.maxDatablk) + (k % vol.maxDatablk)
        BY <1>1, <3>2, DivMod
      <4> QED
        BY <3>2, <4>1, PlaceOf DEF ListOf, EntryOf
    <3>4. l <= m /\ m2 <= l
      <4>1. l \in 0..LastList(vol, n)
        BY <1>1, <3>2, ListInFile
      <4>2. ListOf(vol, n2 - 1) <= l
        BY <3>2, PlaceGrows
      <4> QED
        BY <1>4, <4>1, <4>2 DEF m
    <3> HIDE DEF l, i
    <3>5. l \in m2..m /\ l \in 0..m
      BY <1>4, <3>3, <3>4
    <3>6. EntriesAt(w, l)[i] = data[k]
      BY <1>15, <3>2, <3>3, <3>5
    <3>7. i \in UsedFrom(n, n2, l)
      <4>1. UsedFrom(n, n2, l) = Behind(vol, n, n2, l)
        BY <1>1, <3>2, <3>3, UsedFromIs
      <4>2. vol.maxDatablk * l + i >= n2 /\ vol.maxDatablk * l + i < n
        BY <1>1, <3>2, <3>3
      <4> QED
        BY <3>3, <4>1, <4>2 DEF Behind
    <3> QED
      BY <2>1, <3>1, <3>5, <3>6, <3>7
  <2> QED
    BY <2>2, <2>3
<1> QED
  BY <1>3, <1>13, <1>14, <1>16

-----------------------------------------------------------------------------
(* The file after it was cut *)

\* CutTo, step by step: the size is set, the last list is shortened, and on OFS
\* the last data block has no next one.
Sized(w, size) == [w EXCEPT !.file.fileHdr.byteSize = size, !.file.changed = TRUE]
Cut(w, n) ==
  IF n <= MaxDatablk
    THEN [w EXCEPT !.file.fileHdr = [Shortened(@, n) EXCEPT !.extension = 0]]
    ELSE [w EXCEPT !.file.currentExt = [Shortened(@, n) EXCEPT !.extension = 0]]
LastSize(size) == IF size % BlockSize = 0 THEN BlockSize ELSE size % BlockSize
Ended(w, size) ==
  IF ~OFS THEN w
  ELSE [w EXCEPT !.file.currentData.nextData = 0, !.file.currentData.dataSize = LastSize(size)]

\* It is these steps.
LEMMA CutSteps ==
  ASSUME NEW w, NEW size, NEW n, n = adfFileSize2Datablocks(size)
  PROVE  CutTo(w, size) = Ended(Cut(Sized(w, size), n), size)
<1>1. CutTo(w, size) = Ended(Cut(Sized(w, size), adfFileSize2Datablocks(size)), size)
  BY Zenon DEF CutTo, Ended, Cut, Sized, LastSize
<1> QED
  BY <1>1

\* What stays the same in all of them.
SameCounters(f, g) ==
  /\ g.curDataPtr = f.curDataPtr /\ g.pos = f.pos /\ g.posInDataBlk = f.posInDataBlk
  /\ g.posInExtBlk = f.posInExtBlk /\ g.nDataBlock = f.nDataBlock

SizedFile(v, f, size, g) ==
  /\ g \in FileSet(v) /\ SameCounters(f, g) /\ g.changed
  /\ g.fileHdr = [f.fileHdr EXCEPT !.byteSize = size]
  /\ g.currentExt = f.currentExt /\ g.currentData = f.currentData

\* Setting the size.
LEMMA SizedIs ==
  ASSUME NEW v \in Volumes, NEW f \in FileSet(v), NEW d, NEW fr, NEW h, NEW o,
         NEW size \in 0..v.maxSize
  PROVE  \E g : SizedFile(v, f, size, g) /\ Sized(Whole(f, d, fr, h, o), size) = Whole(g, d, fr, h, o)
<1> DEFINE w == Whole(f, d, fr, h, o)
           h1 == [f.fileHdr EXCEPT !.byteSize = size]
           g1 == [f EXCEPT !.fileHdr = h1]
           yes == TRUE
           g2 == [g1 EXCEPT !.changed = yes]
           w1 == [w EXCEPT !.file = [w.file EXCEPT !.fileHdr = [w.file.fileHdr EXCEPT
                    !.byteSize = size]]]
           w2 == [w1 EXCEPT !.file = [w1.file EXCEPT !.changed = yes]]
<1>1. w.file = f /\ f.fileHdr \in HeaderSet(v)
  BY WholeParts DEF FileSet
<1> HIDE DEF w
<1>2. Sized(w, size) = w2
  BY Zenon DEF Sized
<1>8. yes \in BOOLEAN /\ yes
  OBVIOUS
<1> HIDE DEF yes
<1>3. h1 \in HeaderSet(v)
  BY <1>1 DEF HeaderSet
<1>4. w1 = Whole(g1, d, fr, h, o)
  <2> HIDE DEF h1
  <2>1. w1 = [Whole(f, d, fr, h, o) EXCEPT !.file = g1]
    BY <1>1 DEF h1, w
  <2> QED
    BY <2>1, WholeFile
<1> HIDE DEF h1, w1
<1>5. /\ g1 \in FileSet(v) /\ SameCounters(f, g1) /\ g1.fileHdr = h1
      /\ g1.currentExt = f.currentExt /\ g1.currentData = f.currentData
  BY <1>3 DEF FileSet, SameCounters
<1> HIDE DEF g1
<1>6. w2 = Whole(g2, d, fr, h, o)
  <2>1. w2 = [Whole(g1, d, fr, h, o) EXCEPT !.file = g2]
    BY <1>4, WholeParts
  <2> QED
    BY <2>1, WholeFile
<1>7. SizedFile(v, f, size, g2)
  <2>1. /\ g2 \in FileSet(v) /\ SameCounters(g1, g2) /\ g2.fileHdr = g1.fileHdr
        /\ g2.currentExt = g1.currentExt /\ g2.currentData = g1.currentData
    BY <1>5, <1>8 DEF FileSet, SameCounters
  <2>2. g2.changed
    <3>1. g2.changed = yes
      BY <1>5 DEF FileSet
    <3> QED
      BY <1>8, <3>1
  <2> HIDE DEF g2
  <2> QED
    BY <1>5, <2>1, <2>2 DEF SizedFile, SameCounters, h1
<1> QED
  BY <1>2, <1>6, <1>7 DEF w

\* The last list was shortened to list the last of n blocks.
CutFile(v, f, n, g) ==
  /\ g \in FileSet(v) /\ SameCounters(f, g) /\ g.changed = f.changed
  /\ g.currentData = f.currentData
  /\ IF n <= v.maxDatablk
       THEN /\ g.currentExt = f.currentExt /\ g.fileHdr.byteSize = f.fileHdr.byteSize
            /\ g.fileHdr.firstData = f.fileHdr.firstData
            /\ ShortList(v, f.fileHdr, g.fileHdr, n)
       ELSE /\ g.fileHdr = f.fileHdr /\ g.currentExt \in ExtSet(v)
            /\ g.currentExt.headerKey = f.currentExt.headerKey
            /\ ShortList(v, f.currentExt, g.currentExt, n)

\* A header that keeps its size.
LEMMA ShortSized ==
  ASSUME vol \in Volumes, NEW n \in Nat \ {0}, NEW h \in HeaderSet(vol),
         n % vol.maxDatablk = 0 => h.highSeq = vol.maxDatablk,
         NEW b, b = [Shortened(h, n) EXCEPT !.extension = 0]
  PROVE  /\ b \in HeaderSet(vol) /\ b.byteSize = h.byteSize /\ b.firstData = h.firstData
         /\ ShortList(vol, h, b, n)
<1>1. h.byteSize \in 0..vol.maxSize
  BY DEF HeaderSet
<1>2. h = [h EXCEPT !.byteSize = h.byteSize]
  BY DEF HeaderSet
<1>3. b = [Shortened([h EXCEPT !.byteSize = h.byteSize], n) EXCEPT !.extension = 0]
  BY <1>2
<1>4. n \in 1..n
  OBVIOUS
<1> DEFINE size == h.byteSize
<1> HIDE DEF size
<1> QED
  BY <1>1, <1>3, <1>4, ShortHeader DEF size

\* Cut does this.
LEMMA CutIs ==
  ASSUME vol \in Volumes, NEW f \in FileSet(vol), NEW d, NEW fr, NEW h, NEW o,
         NEW n \in Nat \ {0},
         IF n <= vol.maxDatablk
           THEN n % vol.maxDatablk = 0 => f.fileHdr.highSeq = vol.maxDatablk
           ELSE /\ f.currentExt \in ExtSet(vol)
                /\ n % vol.maxDatablk = 0 => f.currentExt.highSeq = vol.maxDatablk
  PROVE  \E g : CutFile(vol, f, n, g) /\ Cut(Whole(f, d, fr, h, o), n) = Whole(g, d, fr, h, o)
<1> DEFINE w == Whole(f, d, fr, h, o)
<1>1. w.file = f /\ f.fileHdr \in HeaderSet(vol)
  BY WholeParts DEF FileSet
<1> HIDE DEF w
<1>2. CASE n <= vol.maxDatablk
  <2> DEFINE b == [Shortened(f.fileHdr, n) EXCEPT !.extension = 0]
             g == [f EXCEPT !.fileHdr = b]
  <2>1. Cut(w, n) = [w EXCEPT !.file = [w.file EXCEPT !.fileHdr = b]]
    BY <1>1, <1>2, Zenon DEF Cut, MaxDatablk
  <2>2. n % vol.maxDatablk = 0 => f.fileHdr.highSeq = vol.maxDatablk
    BY <1>2
  <2>3. /\ b \in HeaderSet(vol) /\ b.byteSize = f.fileHdr.byteSize
        /\ b.firstData = f.fileHdr.firstData /\ ShortList(vol, f.fileHdr, b, n)
    <3> DEFINE a == f.fileHdr
    <3> HIDE DEF a
    <3>1. a \in HeaderSet(vol) /\ (n % vol.maxDatablk = 0 => a.highSeq = vol.maxDatablk)
      BY <1>1, <2>2 DEF a
    <3>2. b = [Shortened(a, n) EXCEPT !.extension = 0]
      BY DEF a
    <3> HIDE DEF b
    <3>3. /\ b \in HeaderSet(vol) /\ b.byteSize = a.byteSize /\ b.firstData = a.firstData
          /\ ShortList(vol, a, b, n)
      BY <3>1, <3>2, ShortSized
    <3> QED
      BY <3>3 DEF a
  <2> HIDE DEF b
  <2>4. Cut(w, n) = Whole(g, d, fr, h, o)
    <3>1. Cut(w, n) = [Whole(f, d, fr, h, o) EXCEPT !.file = g]
      BY <1>1, <2>1 DEF w
    <3> QED
      BY <3>1, WholeFile
  <2>5. /\ g \in FileSet(vol) /\ SameCounters(f, g) /\ g.changed = f.changed
        /\ g.currentData = f.currentData /\ g.currentExt = f.currentExt /\ g.fileHdr = b
    BY <2>3 DEF FileSet, SameCounters
  <2> HIDE DEF g
  <2>6. CutFile(vol, f, n, g)
    BY <1>2, <2>3, <2>5 DEF CutFile
  <2> QED
    BY <2>4, <2>6 DEF w
<1>3. CASE ~(n <= vol.maxDatablk)
  <2> DEFINE e == f.currentExt
             b == [Shortened(e, n) EXCEPT !.extension = 0]
             g == [f EXCEPT !.currentExt = b]
  <2>1. Cut(w, n) = [w EXCEPT !.file = [w.file EXCEPT !.currentExt = b]]
    BY <1>1, <1>3, Zenon DEF Cut, MaxDatablk
  <2>2. e \in ExtSet(vol) /\ (n % vol.maxDatablk = 0 => e.highSeq = vol.maxDatablk)
    BY <1>3
  <2>3. b \in ExtSet(vol) /\ b.headerKey = e.headerKey /\ ShortList(vol, e, b, n)
    <3> HIDE DEF e
    <3>1. n \in 1..n /\ n \in Nat
      OBVIOUS
    <3>2. b = [Shortened(e, n) EXCEPT !.extension = 0]
      OBVIOUS
    <3> HIDE DEF b
    <3> QED
      BY <2>2, <3>1, <3>2, ShortExt
  <2> HIDE DEF b
  <2>4. Cut(w, n) = Whole(g, d, fr, h, o)
    <3>1. Cut(w, n) = [Whole(f, d, fr, h, o) EXCEPT !.file = g]
      BY <1>1, <2>1 DEF w
    <3> QED
      BY <3>1, WholeFile
  <2>5. /\ g \in FileSet(vol) /\ SameCounters(f, g) /\ g.changed = f.changed
        /\ g.currentData = f.currentData /\ g.currentExt = b /\ g.fileHdr = f.fileHdr
    BY <2>3 DEF FileSet, SameCounters
  <2> HIDE DEF g
  <2>6. CutFile(vol, f, n, g)
    BY <1>3, <2>3, <2>5 DEF CutFile
  <2> QED
    BY <2>4, <2>6 DEF w
<1> QED
  BY <1>2, <1>3

\* The last data block of the file has no next one.
EndedFile(v, f, g) ==
  /\ g \in FileSet(v) /\ SameCounters(f, g) /\ g.changed = f.changed
  /\ g.fileHdr = f.fileHdr /\ g.currentExt = f.currentExt
  /\ g.currentData.bytes = f.currentData.bytes
  /\ v.ofs => g.currentData.nextData = 0

\* Ended does this.
LEMMA EndedIs ==
  ASSUME vol \in Volumes, NEW f \in FileSet(vol), NEW d, NEW fr, NEW h, NEW o, NEW size \in Nat
  PROVE  \E g : EndedFile(vol, f, g) /\ Ended(Whole(f, d, fr, h, o), size) = Whole(g, d, fr, h, o)
<1> DEFINE w == Whole(f, d, fr, h, o)
<1>1. w.file = f /\ f.currentData \in DataSet(vol)
  BY WholeParts DEF FileSet
<1> HIDE DEF w
<1>2. CASE ~vol.ofs
  <2>1. Ended(w, size) = w
    BY <1>2 DEF Ended, OFS
  <2>2. EndedFile(vol, f, f)
    BY <1>2 DEF EndedFile, SameCounters
  <2> QED
    BY <2>1, <2>2 DEF w
<1>3. CASE vol.ofs
  <2> DEFINE z == LastSize(size)
             d1 == [f.currentData EXCEPT !.nextData = 0]
             d2 == [d1 EXCEPT !.dataSize = z]
             g1 == [f EXCEPT !.currentData = d1]
             g2 == [g1 EXCEPT !.currentData = d2]
             w1 == [w EXCEPT !.file = [w.file EXCEPT !.currentData = [w.file.currentData EXCEPT
                      !.nextData = 0]]]
             w2 == [w1 EXCEPT !.file = [w1.file EXCEPT !.currentData = [w1.file.currentData EXCEPT
                      !.dataSize = z]]]
  <2>1. Ended(w, size) = w2
    BY <1>3, Zenon DEF Ended, OFS
  <2>2. z \in 0..BlockSize
    <3>1. size % BlockSize \in 0..(BlockSize - 1) /\ BlockSize \in Nat \ {0}
      BY VolumeParts
    <3> QED
      BY <3>1 DEF LastSize
  <2> HIDE DEF z
  <2>3. d1 \in DataSet(vol) /\ d1.bytes = f.currentData.bytes /\ d1.nextData = 0
    BY <1>1 DEF DataSet
  <2> HIDE DEF d1
  <2>4. d2 \in DataSet(vol) /\ d2.bytes = d1.bytes /\ d2.nextData = d1.nextData
    BY <2>2, <2>3 DEF DataSet
  <2>5. w1 = Whole(g1, d, fr, h, o)
    <3>1. w1 = [Whole(f, d, fr, h, o) EXCEPT !.file = g1]
      BY <1>1 DEF d1, w
    <3> QED
      BY <3>1, WholeFile
  <2>6. /\ g1 \in FileSet(vol) /\ SameCounters(f, g1) /\ g1.changed = f.changed
        /\ g1.fileHdr = f.fileHdr /\ g1.currentExt = f.currentExt /\ g1.currentData = d1
    BY <2>3 DEF FileSet, SameCounters
  <2> HIDE DEF g1, w1
  <2>7. w2 = Whole(g2, d, fr, h, o)
    <3>1. w2 = [Whole(g1, d, fr, h, o) EXCEPT !.file = g2]
      BY <2>5, <2>6, WholeParts
    <3> QED
      BY <3>1, WholeFile
  <2> HIDE DEF d2
  <2>8. /\ g2 \in FileSet(vol) /\ SameCounters(g1, g2) /\ g2.changed = g1.changed
        /\ g2.fileHdr = g1.fileHdr /\ g2.currentExt = g1.currentExt /\ g2.currentData = d2
    BY <2>4, <2>6 DEF FileSet, SameCounters
  <2> HIDE DEF g2, w2
  <2>9. EndedFile(vol, f, g2)
    BY <2>3, <2>4, <2>6, <2>8 DEF EndedFile, SameCounters
  <2> QED
    BY <2>1, <2>7, <2>9 DEF w
<1> QED
  BY <1>2, <1>3

\* An open file f that was cut to n data blocks, in all.
CutToFile(v, f, size, n, g) ==
  /\ g \in FileSet(v) /\ SameCounters(f, g) /\ g.changed
  /\ g.currentData.bytes = f.currentData.bytes /\ (v.ofs => g.currentData.nextData = 0)
  /\ g.fileHdr.byteSize = size /\ g.fileHdr.firstData = f.fileHdr.firstData
  /\ IF n <= v.maxDatablk
       THEN g.currentExt = f.currentExt /\ ShortList(v, f.fileHdr, g.fileHdr, n)
       ELSE /\ SameList(f.fileHdr, g.fileHdr) /\ g.currentExt \in ExtSet(v)
            /\ g.currentExt.headerKey = f.currentExt.headerKey
            /\ ShortList(v, f.currentExt, g.currentExt, n)

\* The last list of a file that was shortened is full when its last data block
\* is the last one of a list.
FullWhenEven(v, f, n) ==
  IF n <= v.maxDatablk
    THEN n % v.maxDatablk = 0 => f.fileHdr.highSeq = v.maxDatablk
    ELSE f.currentExt \in ExtSet(v) /\ (n % v.maxDatablk = 0 => f.currentExt.highSeq = v.maxDatablk)

\* CutTo does this.
LEMMA CutToIs ==
  ASSUME vol \in Volumes, NEW f \in FileSet(vol), NEW d, NEW fr, NEW h, NEW o,
         NEW size \in 0..vol.maxSize, NEW n, n = Count(size), n # 0, FullWhenEven(vol, f, n)
  PROVE  \E g : CutToFile(vol, f, size, n, g) /\ CutTo(Whole(f, d, fr, h, o), size) = Whole(g, d, fr, h, o)
<1> DEFINE w == Whole(f, d, fr, h, o)
<1>1. size \in Nat /\ n \in Nat \ {0} /\ n = adfFileSize2Datablocks(size)
  <2>1. size \in Nat
    BY VolumeParts
  <2> QED
    BY <2>1, CountIs
<1>2. CutTo(w, size) = Ended(Cut(Sized(w, size), n), size)
  BY <1>1, CutSteps
<1>3. PICK g1 : SizedFile(vol, f, size, g1) /\ Sized(w, size) = Whole(g1, d, fr, h, o)
  BY SizedIs
<1>4. g1 \in FileSet(vol) /\ f.fileHdr \in HeaderSet(vol)
  BY <1>3 DEF SizedFile, FileSet
<1>5. IF n <= vol.maxDatablk
        THEN n % vol.maxDatablk = 0 => g1.fileHdr.highSeq = vol.maxDatablk
        ELSE /\ g1.currentExt \in ExtSet(vol)
             /\ n % vol.maxDatablk = 0 => g1.currentExt.highSeq = vol.maxDatablk
  <2>1. g1.fileHdr.highSeq = f.fileHdr.highSeq /\ g1.currentExt = f.currentExt
    BY <1>3, <1>4 DEF SizedFile, HeaderSet
  <2> QED
    BY <2>1 DEF FullWhenEven
<1>6. PICK g2 : CutFile(vol, g1, n, g2) /\ Cut(Whole(g1, d, fr, h, o), n) = Whole(g2, d, fr, h, o)
  BY <1>1, <1>4, <1>5, CutIs
<1>7. g2 \in FileSet(vol)
  BY <1>6 DEF CutFile
<1>8. PICK g3 : EndedFile(vol, g2, g3) /\ Ended(Whole(g2, d, fr, h, o), size) = Whole(g3, d, fr, h, o)
  BY <1>1, <1>7, EndedIs
<1>9. CutTo(w, size) = Whole(g3, d, fr, h, o)
  BY <1>2, <1>3, <1>6, <1>8
<1>10. CutToFile(vol, f, size, n, g3)
  <2>1. /\ g1.fileHdr.byteSize = size /\ g1.fileHdr.firstData = f.fileHdr.firstData
        /\ SameList(f.fileHdr, g1.fileHdr)
    BY <1>3, <1>4 DEF SizedFile, HeaderSet, SameList
  <2>2. g3 \in FileSet(vol) /\ SameCounters(f, g3) /\ g3.changed
    BY <1>3, <1>6, <1>8 DEF SizedFile, CutFile, EndedFile, SameCounters
  <2>3. g3.currentData.bytes = f.currentData.bytes /\ (vol.ofs => g3.currentData.nextData = 0)
    BY <1>3, <1>6, <1>8 DEF SizedFile, CutFile, EndedFile
  <2>4. g3.fileHdr = g2.fileHdr /\ g3.currentExt = g2.currentExt /\ g1.currentExt = f.currentExt
    BY <1>3, <1>8 DEF SizedFile, EndedFile
  <2>5. CASE n <= vol.maxDatablk
    <3>1. /\ g2.currentExt = g1.currentExt /\ g2.fileHdr.byteSize = g1.fileHdr.byteSize
          /\ g2.fileHdr.firstData = g1.fileHdr.firstData
          /\ ShortList(vol, g1.fileHdr, g2.fileHdr, n)
      BY <1>6, <2>5 DEF CutFile
    <3>2. ShortList(vol, f.fileHdr, g2.fileHdr, n)
      BY <2>1, <3>1 DEF ShortList, SameList
    <3> QED
      BY <2>1, <2>2, <2>3, <2>4, <2>5, <3>1, <3>2 DEF CutToFile
  <2>6. CASE ~(n <= vol.maxDatablk)
    <3>1. /\ g2.fileHdr = g1.fileHdr /\ g2.currentExt \in ExtSet(vol)
          /\ g2.currentExt.headerKey = g1.currentExt.headerKey
          /\ ShortList(vol, g1.currentExt, g2.currentExt, n)
      BY <1>6, <2>6 DEF CutFile
    <3> QED
      BY <2>1, <2>2, <2>3, <2>4, <2>6, <3>1 DEF CutToFile
  <2> QED
    BY <2>5, <2>6
<1> QED
  BY <1>9, <1>10

\* A file at a position inside a block is in the last data block of a file of
\* that size.
LEMMA LastAtPos ==
  ASSUME NEW v \in Volumes, NEW w, NEW data, NEW ext, NEW bytes, IsFile(v, w, data, ext, bytes),
         NEW size \in Nat, w.file.pos = size, size % BlockSize # 0
  PROVE  /\ w.file.nDataBlock = Count(size) /\ Count(size) \in 1..Count(w.file.fileHdr.byteSize)
         /\ size # 0
<1> DEFINE n == Count(w.file.fileHdr.byteSize)
           k == w.file.nDataBlock - 1
           p == w.file.posInDataBlk
<1>1. /\ w \in WorldSet(v) /\ n \in Nat /\ w.file.nDataBlock \in 0..n
      /\ (w.file.nDataBlock = 0 <=> n = 0) /\ (w.file.fileHdr.byteSize = 0 <=> n = 0)
      /\ w.file.fileHdr.byteSize \in Nat
  <2>1. w \in WorldSet(v)
    BY DEF IsFile
  <2> QED
    BY <2>1, FileParts, WorldParts
<1>2. BlockSize \in Nat \ {0} /\ p \in 0..BlockSize
  BY <1>1, WorldParts, VolumeParts
<1>3. DataPlaced(w.file, n, data)
  BY DEF IsFile
<1>4. size # 0
  BY <1>2
<1>5. n > 0
  BY <1>1, <1>3, <1>4 DEF DataPlaced
<1>6. k \in Nat /\ k + 1 \in 1..n /\ size = BlockSize * k + p
  BY <1>1, <1>3, <1>5 DEF DataPlaced
<1>7. p # 0 /\ p # BlockSize
  <2>1. w.file.pos % BlockSize # 0
    OBVIOUS
  <2>2. p < BlockSize
    BY <2>1, AtBoundary
  <2>3. ASSUME p = 0 PROVE FALSE
    <3> DEFINE a == BlockSize * k
    <3>1. a \in Int
      BY <1>2, <1>6
    <3> HIDE DEF a
    <3>2. size = a + 0
      BY <1>6, <2>3, <3>1 DEF a
    <3>3. size \div BlockSize = k /\ size % BlockSize = 0
      <4>1. 0 \in 0..(BlockSize - 1)
        BY <1>2
      <4>2. size = BlockSize * k + 0
        BY <3>2 DEF a
      <4> QED
        BY <1>6, <4>1, <4>2, BlockOf
    <3> QED
      BY <3>3
  <2> QED
    BY <1>2, <2>2, <2>3
<1>8. (size - 1) \div BlockSize = k
  <2> DEFINE a == BlockSize * k
             q == p - 1
  <2>1. a \in Int
    BY <1>2, <1>6
  <2>2. q \in 0..(BlockSize - 1) /\ size - 1 \in Nat
    BY <1>2, <1>4, <1>7
  <2> HIDE DEF a, k
  <2>3. size - 1 = a + q
    BY <1>2, <1>6, <2>1 DEF a
  <2> HIDE DEF q
  <2>4. size - 1 = BlockSize * k + q /\ k \in Nat
    BY <1>6, <2>3 DEF a
  <2> DEFINE t == size - 1
  <2> HIDE DEF t
  <2>5. t \in Nat /\ t = BlockSize * k + q
    BY <2>2, <2>4 DEF t
  <2>6. t \div BlockSize = k
    BY <2>2, <2>4, <2>5, BlockOf
  <2> QED
    BY <2>6 DEF t
<1>9. Count(size) = k + 1
  BY <1>4, <1>8 DEF Count
<1> QED
  BY <1>1, <1>4, <1>6, <1>9

\* Where the last data block of a file is when it is in memory: its list is the
\* header, or the extension block in memory.
LEMMA LastInMemory ==
  ASSUME NEW v \in Volumes, NEW w, NEW data, NEW ext, NEW bytes, IsFile(v, w, data, ext, bytes),
         NEW n, n = Count(w.file.fileHdr.byteSize), NEW n2 \in 1..n, w.file.nDataBlock = n2,
         NEW y, y = ExtsNow(v, w.file, w.disk)
  PROVE  /\ n2 <= v.maxDatablk <=> LastList(v, n2) = 0
         /\ n2 > v.maxDatablk => /\ w.file.currentExt \in ExtSet(v)
                                 /\ w.file.currentExt.headerKey = ext[LastList(v, n2)]
                                 /\ y[ext[LastList(v, n2)]] = w.file.currentExt
<1>1. /\ w \in WorldSet(v) /\ n \in Nat /\ Owns(v, w.free, n, data, ext)
      /\ v.maxDatablk \in Nat \ {0} /\ LastList(v, n2) \in 0..LastList(v, n)
      /\ LastList(v, n2) = ListOf(v, n2 - 1)
  BY FileParts, FewerLists, VolumeParts
<1>2. n2 - 1 \in Nat /\ n2 \in Nat /\ LastList(v, n) \in Nat
  BY <1>1, ListInFile
<1>3. n2 <= v.maxDatablk <=> LastList(v, n2) = 0
  <2>1. ListOf(v, n2 - 1) = 0 <=> n2 - 1 < v.maxDatablk
    BY <1>2, PlaceOf
  <2> QED
    BY <1>1, <1>2, <2>1
<1>4. ASSUME n2 > v.maxDatablk
      PROVE  /\ w.file.currentExt \in ExtSet(v)
             /\ w.file.currentExt.headerKey = ext[LastList(v, n2)]
             /\ y[ext[LastList(v, n2)]] = w.file.currentExt
  <2>1. ExtPlaced(v, w.file, n, ext)
    BY DEF IsFile
  <2>2. w.file.currentExt # NoExt /\ w.file.currentExt.headerKey = ext[ListOf(v, n2 - 1)]
    BY <1>4, <2>1 DEF ExtPlaced
  <2>3. w.file.currentExt \in ExtSet(v)
    BY <1>1, <2>2, WorldParts
  <2>4. LastList(v, n2) \in 1..LastList(v, n)
    BY <1>1, <1>2, <1>3, <1>4
  <2>5. ext[LastList(v, n2)] \in v.sectors
    BY <1>1, <2>4, Sector
  <2>6. y[ext[LastList(v, n2)]] = w.file.currentExt
    BY <1>1, <2>2, <2>5 DEF ExtsNow
  <2> QED
    BY <1>1, <2>2, <2>3, <2>6
<1> QED
  BY <1>3, <1>4

\* The lists of a file that was cut are shorter.
LEMMA CutLists ==
  ASSUME NEW v \in Volumes, NEW w, NEW data, NEW ext, NEW bytes, IsFile(v, w, data, ext, bytes),
         NEW n, n = Count(w.file.fileHdr.byteSize), NEW n2 \in 1..n, w.file.nDataBlock = n2,
         NEW size, NEW g, CutToFile(v, w.file, size, n2, g),
         NEW y, y = ExtsNow(v, w.file, w.disk), NEW y2, y2 = ExtsNow(v, g, w.disk)
  PROVE  ShortLists(v, w.file.fileHdr, y, g.fileHdr, y2, ext, n2)
<1> DEFINE L2 == LastList(v, n2)
           h == w.file.fileHdr
<1>1. /\ w \in WorldSet(v) /\ n \in Nat /\ Owns(v, w.free, n, data, ext)
      /\ v.maxDatablk \in Nat \ {0} /\ L2 \in 0..LastList(v, n) /\ LastList(v, n) \in Nat
  BY FileParts, FewerLists, VolumeParts
<1>2. n2 <= v.maxDatablk <=> L2 = 0
  BY LastInMemory
<1>3. Keyed(v, y, n, ext)
  BY DEF IsFile, FileIs, Lists
<1>4. g.fileHdr.firstData = h.firstData
  BY DEF CutToFile
<1>5. \A l \in 1..LastList(v, n) : ext[l] \in v.sectors
  BY <1>1, Sector
<1>6. CASE n2 <= v.maxDatablk
  <2>1. ShortList(v, h, g.fileHdr, n2)
    BY <1>6 DEF CutToFile
  <2>2. ListAt(h, y, ext, L2) = h /\ ListAt(g.fileHdr, y2, ext, L2) = g.fileHdr
    BY <1>2, <1>6 DEF ListAt
  <2>3. 0..(L2 - 1) = {} /\ 1..L2 = {}
    BY <1>2, <1>6
  <2> HIDE DEF h, L2
  <2>4. ShortList(v, ListAt(h, y, ext, L2), ListAt(g.fileHdr, y2, ext, L2), n2)
    BY <2>1, <2>2
  <2> QED
    BY <1>4, <2>3, <2>4 DEF ShortLists, L2, h
<1>7. CASE ~(n2 <= v.maxDatablk)
  <2>0. n2 > v.maxDatablk /\ L2 # 0
    BY <1>1, <1>2, <1>7
  <2>1. /\ w.file.currentExt \in ExtSet(v) /\ w.file.currentExt.headerKey = ext[L2]
        /\ y[ext[L2]] = w.file.currentExt
    BY <2>0, LastInMemory
  <2>2. /\ SameList(h, g.fileHdr) /\ g.currentExt \in ExtSet(v)
        /\ g.currentExt.headerKey = w.file.currentExt.headerKey
        /\ ShortList(v, w.file.currentExt, g.currentExt, n2)
    BY <1>7 DEF CutToFile
  <2>3. \A l \in 1..L2 : l \in 1..LastList(v, n)
    BY <1>1
  <2>4. L2 \in 1..L2
    BY <1>1, <2>0
  <2>5. g.currentExt # NoExt /\ w.file.currentExt # NoExt
    BY <2>1, <2>2 DEF ExtSet, NoExt
  <2>6. y2[ext[L2]] = g.currentExt
    BY <1>5, <2>1, <2>2, <2>3, <2>4, <2>5 DEF ExtsNow
  <2>7. \A l \in 1..L2 : l # L2 => y2[ext[l]] = y[ext[l]]
    <3> SUFFICES ASSUME NEW l \in 1..L2, l # L2
                 PROVE  y2[ext[l]] = y[ext[l]]
      OBVIOUS
    <3>1. ext[l] # ext[L2]
      BY <1>1, <2>3, <2>4 DEF Owns
    <3>2. ext[l] \in v.sectors
      BY <1>5, <2>3
    <3> QED
      BY <2>1, <2>2, <3>1, <3>2 DEF ExtsNow
  <2>8. \A l \in 1..L2 : y2[ext[l]] \in ExtSet(v) /\ y2[ext[l]].headerKey = ext[l]
    <3> SUFFICES ASSUME NEW l \in 1..L2
                 PROVE  y2[ext[l]] \in ExtSet(v) /\ y2[ext[l]].headerKey = ext[l]
      OBVIOUS
    <3>1. CASE l = L2
      BY <2>1, <2>2, <2>6, <3>1
    <3>2. CASE l # L2
      BY <1>3, <2>3, <2>7, <3>2 DEF Keyed
    <3> QED
      BY <3>1, <3>2
  <2>9. \A l \in 0..(L2 - 1) : SameList(ListAt(g.fileHdr, y2, ext, l), ListAt(h, y, ext, l))
    <3> SUFFICES ASSUME NEW l \in 0..(L2 - 1)
                 PROVE  SameList(ListAt(g.fileHdr, y2, ext, l), ListAt(h, y, ext, l))
      OBVIOUS
    <3>1. CASE l = 0
      BY <2>2, <3>1 DEF ListAt, SameList
    <3>2. CASE l # 0
      <4>1. l \in 1..L2 /\ l # L2
        BY <1>1, <3>2
      <4> QED
        BY <2>7, <3>2, <4>1 DEF ListAt, SameList
    <3> QED
      BY <3>1, <3>2
  <2>10. ListAt(h, y, ext, L2) = w.file.currentExt /\ ListAt(g.fileHdr, y2, ext, L2) = g.currentExt
    BY <2>0, <2>1, <2>6 DEF ListAt
  <2> HIDE DEF L2, h
  <2>11. ShortList(v, ListAt(h, y, ext, L2), ListAt(g.fileHdr, y2, ext, L2), n2)
    BY <2>2, <2>10
  <2> QED
    BY <1>4, <2>8, <2>9, <2>11 DEF ShortLists, L2, h
<1> QED
  BY <1>6, <1>7

\* So are the data blocks.
LEMMA CutData ==
  ASSUME NEW v \in Volumes, NEW w, NEW data, NEW ext, NEW bytes, IsFile(v, w, data, ext, bytes),
         NEW n, n = Count(w.file.fileHdr.byteSize), NEW n2 \in 1..n, w.file.nDataBlock = n2,
         NEW size, NEW g, CutToFile(v, w.file, size, n2, g)
  PROVE  ShortData(v, DataNow(v, w.file, w.disk), DataNow(v, g, w.disk), n2, data)
<1> DEFINE y == DataNow(v, w.file, w.disk)
           y2 == DataNow(v, g, w.disk)
<1>1. n \in Nat /\ Owns(v, w.free, n, data, ext) /\ w.file.curDataPtr = data[n2 - 1]
  BY FileParts
<1>2. \A k \in 0..(n2 - 1) : k \in 0..(n - 1) /\ n2 - 1 \in 0..(n - 1)
  BY <1>1
<1>3. \A k \in 0..(n2 - 1) : data[k] \in v.sectors
  BY <1>1, <1>2, Sector
<1>4. g.curDataPtr = data[n2 - 1]
  BY <1>1 DEF CutToFile, SameCounters
<1>5. n2 - 1 \in 0..(n2 - 1)
  BY <1>1
<1>6. y[data[n2 - 1]] = w.file.currentData /\ y2[data[n2 - 1]] = g.currentData
  BY <1>1, <1>3, <1>4, <1>5 DEF DataNow
<1>7. \A k \in 0..(n2 - 1) : k # n2 - 1 => y2[data[k]] = y[data[k]]
  <2> SUFFICES ASSUME NEW k \in 0..(n2 - 1), k # n2 - 1
               PROVE  y2[data[k]] = y[data[k]]
    OBVIOUS
  <2>1. data[k] # data[n2 - 1]
    BY <1>1, <1>2 DEF Owns
  <2>2. data[k] \in v.sectors
    BY <1>3
  <2> QED
    BY <1>1, <1>4, <2>1, <2>2 DEF DataNow
<1>8. g.currentData.bytes = w.file.currentData.bytes /\ (v.ofs => g.currentData.nextData = 0)
  BY DEF CutToFile
<1> HIDE DEF y, y2
<1>9. /\ \A k \in 0..(n2 - 1) : y2[data[k]].bytes = y[data[k]].bytes
      /\ v.ofs => \A k \in 0..(n2 - 1) :
                    y2[data[k]].nextData = IF k = n2 - 1 THEN 0 ELSE y[data[k]].nextData
  BY <1>6, <1>7, <1>8
<1> QED
  BY <1>9 DEF ShortData, y, y2

\* A file that was cut is a file of the first of its blocks; the others are free.
LEMMA CutIsFile ==
  ASSUME NEW v \in Volumes, NEW w, NEW data, NEW ext, NEW bytes, IsFile(v, w, data, ext, bytes),
         NEW n, n = Count(w.file.fileHdr.byteSize), NEW size \in 0..v.maxSize, w.file.pos = size,
         NEW n2 \in 1..n, n2 = Count(size), w.file.nDataBlock = n2,
         n2 <= v.maxDatablk => w.file.currentExt = NoExt,
         NEW g, CutToFile(v, w.file, size, n2, g),
         NEW fr, fr = w.free \cup Dropped(data, n, n2) \cup DroppedExt(v, ext, n, n2),
         NEW r, r = Whole(g, w.disk, fr, w.header, w.ok)
  PROVE  IsFile(v, r, Shorter(data, n2), ShorterExt(v, ext, n2), bytes)
<1> DEFINE data2 == Shorter(data, n2)
           ext2 == ShorterExt(v, ext, n2)
           L2 == LastList(v, n2)
           x == ExtsNow(v, w.file, w.disk)
           x2 == ExtsNow(v, g, w.disk)
           y == DataNow(v, w.file, w.disk)
           y2 == DataNow(v, g, w.disk)
<1>1. /\ w \in WorldSet(v) /\ n \in Nat /\ Owns(v, w.free, n, data, ext)
      /\ w.file.curDataPtr = data[n2 - 1] /\ v.maxDatablk \in Nat \ {0} /\ v.maxSize \in Nat
      /\ L2 \in 0..LastList(v, n) /\ LastList(v, n) \in Nat /\ L2 = ListOf(v, n2 - 1)
  <2>1. w \in WorldSet(v) /\ n \in Nat /\ Owns(v, w.free, n, data, ext)
    BY FileParts
  <2>2. w.file.curDataPtr = data[n2 - 1]
    BY <2>1, FileParts
  <2> QED
    BY <2>1, <2>2, FewerLists, VolumeParts
<1>2. /\ r.file = g /\ r.disk = w.disk /\ r.free = fr /\ r.header = w.header /\ r.ok = w.ok
  BY WholeParts
<1>3. /\ g \in FileSet(v) /\ SameCounters(w.file, g) /\ g.changed /\ g.fileHdr.byteSize = size
  BY DEF CutToFile
<1>4. Owns(v, fr, n2, data2, ext2)
  BY <1>1, OwnsShorter
<1>5. Lists(v, g.fileHdr, x2, n2, data2, ext2)
  <2>1. Lists(v, w.file.fileHdr, x, n, data, ext)
    BY DEF IsFile, FileIs
  <2>2. ShortLists(v, w.file.fileHdr, x, g.fileHdr, x2, ext, n2)
    <3> HIDE DEF x, x2
    <3>1. x = ExtsNow(v, w.file, w.disk) /\ x2 = ExtsNow(v, g, w.disk)
      BY DEF x, x2
    <3> QED
      BY <3>1, CutLists
  <2> DEFINE h == w.file.fileHdr
             h2 == g.fileHdr
  <2> HIDE DEF x, x2, h, h2
  <2>3. Lists(v, h, x, n, data, ext) /\ ShortLists(v, h, x, h2, x2, ext, n2)
    BY <2>1, <2>2 DEF h, h2
  <2>4. Lists(v, h2, x2, n2, Shorter(data, n2), ShorterExt(v, ext, n2))
    BY <1>1, <2>3, ListsShorter
  <2> QED
    BY <2>4 DEF h2
<1>6. Holds(v, y2, n2, data2, bytes)
  <2>1. Holds(v, y, n, data, bytes)
    BY DEF IsFile, FileIs
  <2>2. ShortData(v, y, y2, n2, data)
    BY CutData
  <2> HIDE DEF y, y2
  <2> QED
    BY <1>1, <2>1, <2>2, HoldsShorter
<1>7. r \in WorldSet(v) /\ r.ok
  <2>1. w.disk \in DiskSet(v) /\ w.header \in HeaderSet(v) /\ w.free \in SUBSET v.sectors /\ w.ok \in BOOLEAN
    BY <1>1, WorldParts
  <2>2. fr \in SUBSET v.sectors
    BY <1>4 DEF Owns
  <2>3. w.ok
    BY DEF IsFile
  <2> QED
    BY <1>2, <1>3, <2>1, <2>2, <2>3 DEF WorldSet, Whole
<1>8. DataPlaced(w.file, n, data) /\ ExtPlaced(v, w.file, n, ext)
  BY DEF IsFile
<1>9. DataPlaced(g, n2, data2)
  <2>1. w.file.pos = BlockSize * (n2 - 1) + w.file.posInDataBlk
    BY <1>1, <1>8 DEF DataPlaced
  <2>2. data2[n2 - 1] = data[n2 - 1] /\ n2 >= 1 /\ n2 > 0 /\ n2 # 0 /\ n2 <= n2 /\ size <= size
    BY <1>1 DEF Shorter
  <2> HIDE DEF data2
  <2> QED
    BY <1>1, <1>3, <2>1, <2>2 DEF DataPlaced, SameCounters
<1>10. ExtPlaced(v, g, n2, ext2)
  <2>1. CASE n2 <= v.maxDatablk
    <3>1. g.currentExt = NoExt
      BY <2>1 DEF CutToFile
    <3>2. ~(g.nDataBlock > v.maxDatablk)
      BY <1>1, <1>3, <2>1 DEF SameCounters
    <3> QED
      BY <3>1, <3>2 DEF ExtPlaced
  <2>2. CASE ~(n2 <= v.maxDatablk)
    <3>1. n2 > v.maxDatablk /\ L2 \in 1..L2
      <4>1. n2 > v.maxDatablk
        BY <1>1, <2>2
      <4>2. L2 # 0
        BY <2>2, LastInMemory
      <4> QED
        BY <1>1, <4>1, <4>2
    <3>2. g.currentExt.headerKey = ext[L2] /\ g.currentExt \in ExtSet(v)
      BY <2>2, <3>1, LastInMemory DEF CutToFile
    <3>3. ext2[L2] = ext[L2]
      BY <3>1 DEF ShorterExt
    <3>4. g.currentExt # NoExt
      BY <3>2 DEF ExtSet, NoExt
    <3>5. g.nDataBlock = n2 /\ g.posInExtBlk = w.file.posInExtBlk
      BY <1>3 DEF SameCounters
    <3>6. w.file.posInExtBlk = EntryOf(v, n2 - 1) + 1
      BY <1>8, <3>1 DEF ExtPlaced
    <3> HIDE DEF ext2, L2
    <3>7. g.currentExt.headerKey = ext2[L2] /\ ListOf(v, g.nDataBlock - 1) = L2
      BY <1>1, <3>2, <3>3, <3>5
    <3>8. \E l \in 1..L2 : g.currentExt.headerKey = ext2[l]
      BY <3>1, <3>7
    <3>9. g.posInExtBlk = EntryOf(v, g.nDataBlock - 1) + 1
      BY <3>5, <3>6
    <3> QED
      BY <3>4, <3>7, <3>8, <3>9 DEF ExtPlaced, L2
  <2> QED
    BY <2>1, <2>2
<1>11. Marked(r, n2)
  BY <1>2, <1>3 DEF Marked, SameCounters
<1> HIDE DEF data2, ext2, x2, y2
<1>12. FileIs(v, g.fileHdr, x2, y2, fr, data2, ext2, bytes)
  BY <1>3, <1>4, <1>5, <1>6 DEF FileIs
<1>13. IsFile(v, r, data2, ext2, bytes)
  BY <1>2, <1>3, <1>7, <1>9, <1>10, <1>11, <1>12 DEF IsFile, x2, y2
<1> QED
  BY <1>13 DEF data2, ext2

\* The lists of a file count their entries, so that the last one it keeps is
\* full when it needs to be.
LEMMA FullIs ==
  ASSUME NEW v \in Volumes, NEW w, NEW data, NEW ext, NEW bytes, IsFile(v, w, data, ext, bytes),
         NEW n, n = Count(w.file.fileHdr.byteSize), NEW n2 \in 1..n, w.file.nDataBlock = n2
  PROVE  FullWhenEven(v, w.file, n2)
<1> DEFINE L2 == LastList(v, n2)
           L == LastList(v, n)
           h == w.file.fileHdr
           y == ExtsNow(v, w.file, w.disk)
<1>1. n \in Nat
  BY FileParts
<1>2. L \in Nat /\ L2 \in 0..L
  BY <1>1, FewerLists
<1>3. Counted(v, h, y, n, ext)
  BY DEF IsFile, FileIs, Lists
<1>4. ListAt(h, y, ext, L2).highSeq = IF L2 < L THEN v.maxDatablk ELSE InLast(v, n)
  BY <1>2, <1>3 DEF Counted
<1>5. n2 % v.maxDatablk = 0 /\ L2 = L => n2 = n
  BY <1>1, FewerLists
<1>6. n2 % v.maxDatablk = 0 => InLast(v, n2) = v.maxDatablk
  BY <1>1, FewerLists
<1>7. n2 % v.maxDatablk = 0 => ListAt(h, y, ext, L2).highSeq = v.maxDatablk
  <2> HIDE DEF L2, L, h, y
  <2>1. L2 < L \/ L2 = L
    BY <1>2
  <2> QED
    BY <1>4, <1>5, <1>6, <2>1
<1>8. n2 <= v.maxDatablk <=> L2 = 0
  BY LastInMemory
<1>9. CASE n2 <= v.maxDatablk
  <2>1. ListAt(h, y, ext, L2) = h
    BY <1>8, <1>9 DEF ListAt
  <2> HIDE DEF L2, y
  <2> QED
    BY <1>7, <1>9, <2>1 DEF FullWhenEven
<1>10. CASE ~(n2 <= v.maxDatablk)
  <2>1. n2 > v.maxDatablk
    BY <1>1, <1>10, VolumeParts
  <2>2. w.file.currentExt \in ExtSet(v) /\ y[ext[L2]] = w.file.currentExt
    BY <2>1, LastInMemory
  <2>3. ListAt(h, y, ext, L2) = w.file.currentExt
    BY <1>8, <1>10, <2>2 DEF ListAt
  <2> HIDE DEF L2, y, h
  <2> QED
    BY <1>7, <1>10, <2>2, <2>3 DEF FullWhenEven
<1> QED
  BY <1>9, <1>10

\* A volume with another file, and other free blocks.
Replaced(a, g, fr) == Whole(g, a.disk, fr, a.header, a.ok)

\* The file adfFileTruncate makes of one that has moved to its new end.
LEMMA TruncatedIs ==
  ASSUME NEW w, NEW size, size # 0, NEW remove, remove = BlocksToRemove(w, size), remove.ok,
         NEW a, a = Seek(w, size), a.ok, 0 \notin remove.data,
         NEW g, CutTo(a, size) = Replaced(a, g, a.free),
         NEW fr2, fr2 = a.free \cup remove.data \cup remove.ext
  PROVE  Truncated(w, size) = Replaced(a, g, fr2)
<1> DEFINE c == CutTo(a, size)
           fr == c.free \cup (remove.data \ {0}) \cup remove.ext
           d == a.disk
           fr1 == a.free
           h == a.header
           o == a.ok
<1>1. Truncated(w, size) = [c EXCEPT !.free = fr]
  BY Zenon DEF Truncated
<1>2. c = Whole(g, d, fr1, h, o)
  BY Zenon DEF Replaced
<1> HIDE DEF c, d, fr1, h, o
<1>3. c.free = fr1
  BY <1>2, WholeParts
<1>4. fr = fr1 \cup remove.data \cup remove.ext
  BY <1>3
<1> HIDE DEF fr
<1>5. [c EXCEPT !.free = fr] = Whole(g, d, fr, h, o)
  BY <1>2, WholeFree
<1>6. Truncated(w, size) = Whole(g, d, fr1 \cup remove.data \cup remove.ext, h, o)
  BY <1>1, <1>4, <1>5
<1> QED
  BY <1>6, Zenon DEF d, fr1, h, o, Replaced

\* The file adfFileTruncate makes of one that was flushed.
LEMMA TruncateFile ==
  ASSUME vol \in Volumes, NEW w, NEW data, NEW ext, NEW bytes, IsFile(vol, w, data, ext, bytes),
         SmallOfs(vol), HeaderKept(w), NEW size \in Nat, size % BlockSize # 0, size < Size(w),
         adfFileSize2Extblocks(size) = 0 => w.file.currentExt = NoExt,
         NEW n2, n2 = Count(size)
  PROVE  /\ IsFile(vol, Truncated(w, size), Shorter(data, n2), ShorterExt(vol, ext, n2), bytes)
         /\ Truncated(w, size).file.pos = size /\ Truncated(w, size).file.fileHdr.byteSize = size
         /\ 0 \notin BlocksToRemove(w, size).data
<1> DEFINE a == Seek(w, size)
           n == Count(a.file.fileHdr.byteSize)
           remove == BlocksToRemove(w, size)
           fr == a.free \cup remove.data \cup remove.ext
<1>1. Size(w) = w.file.fileHdr.byteSize /\ Size(w) \in Nat /\ Size(w) <= vol.maxSize
      /\ vol.maxSize \in Nat /\ BlockSize \in Nat \ {0} /\ vol.maxDatablk \in Nat \ {0}
  <2>1. w \in WorldSet(vol)
    BY DEF IsFile
  <2> QED
    BY <2>1, WorldParts, VolumeParts DEF Size
<1>2. AtMost(size, Size(w)) = size /\ size \in 0..vol.maxSize
  BY <1>1 DEF AtMost
<1>3. Sought(vol, w, a, data, ext, bytes, size)
  <2>1. Sought(vol, w, a, data, ext, bytes, AtMost(size, Size(w)))
    BY SeekIs
  <2> QED
    BY <1>2, <2>1
<1> HIDE DEF a
<1>4. /\ IsFile(vol, a, data, ext, bytes) /\ a.free = w.free
      /\ a.file.fileHdr = w.file.fileHdr /\ a.file.pos = size
  BY <1>3 DEF Sought
<1>5. /\ a \in WorldSet(vol) /\ a.ok
      /\ a.file \in FileSet(vol)
  <2>1. a \in WorldSet(vol) /\ a.ok
    BY <1>4 DEF IsFile
  <2> QED
    BY <2>1, WorldParts
<1>6. a.file.nDataBlock = n2 /\ n2 \in 1..n /\ size # 0 /\ n \in Nat
  BY <1>4, LastAtPos, FileParts
<1>7. n = Count(w.file.fileHdr.byteSize)
  BY <1>4
<1>8. remove.ok /\ remove.data = Dropped(data, n, n2) /\ remove.ext = DroppedExt(vol, ext, n, n2)
  <2> HIDE DEF n
  <2> QED
    BY <1>1, <1>6, <1>7, RemoveIs
<1>9. 0 \notin remove.data
  <2>1. Owns(vol, w.free, n, data, ext)
    BY <1>7, FileParts
  <2>2. \A k \in 0..(n - 1) : data[k] # 0
    BY <2>1, Sector
  <2>3. \A k \in n2..(n - 1) : k \in 0..(n - 1)
    BY <1>6
  <2> QED
    BY <1>8, <2>2, <2>3 DEF Dropped
<1>10. n2 <= vol.maxDatablk => a.file.currentExt = NoExt
  <2>1. SUFFICES ASSUME n2 <= vol.maxDatablk
                 PROVE  a.file.currentExt = NoExt
    OBVIOUS
  <2>2. LastList(vol, n2) = 0
    BY <1>4, <1>6, <2>1, LastInMemory
  <2>3. w.file.currentExt = NoExt
    BY <2>2, ExtCountIs
  <2>4. size \div BlockSize = n2 - 1
    <3> DEFINE k == n2 - 1
               p == a.file.posInDataBlk
    <3>1. k \in Nat /\ n > 0 /\ k = a.file.nDataBlock - 1
      BY <1>6
    <3>2. DataPlaced(a.file, n, data)
      BY <1>4 DEF IsFile
    <3>3. size = BlockSize * k + p
      BY <1>4, <3>1, <3>2 DEF DataPlaced
    <3>4. p \in 0..BlockSize
      BY <1>5, WorldParts
    <3>5. p < BlockSize
      BY <1>4, AtBoundary
    <3>6. p \in 0..(BlockSize - 1)
      BY <1>1, <3>4, <3>5
    <3> HIDE DEF k, p
    <3>7. size \div BlockSize = k
      BY <3>1, <3>3, <3>6, BlockOf
    <3> QED
      BY <3>7 DEF k
  <2>5. ListOf(vol, size \div BlockSize) = 0
    BY <1>6, <2>1, <2>2, <2>4, FewerLists
  <2>6. size < a.file.fileHdr.byteSize
    BY <1>1, <1>4
  <2> QED
    BY <1>3, <2>3, <2>5, <2>6 DEF Sought
<1>11. FullWhenEven(vol, a.file, n2)
  BY <1>4, <1>6, FullIs
<1>12. PICK g : /\ CutToFile(vol, a.file, size, n2, g)
                /\ CutTo(a, size) = Whole(g, a.disk, a.free, a.header, a.ok)
  <2> DEFINE f == a.file
             d == a.disk
             fr1 == a.free
             h == a.header
             o == a.ok
  <2>1. a = Whole(f, d, fr1, h, o)
    BY <1>5, WorldWhole
  <2>2. f \in FileSet(vol) /\ FullWhenEven(vol, f, n2) /\ n2 # 0
    BY <1>5, <1>6, <1>11
  <2> HIDE DEF f, d, fr1, h, o
  <2>3. PICK g : /\ CutToFile(vol, f, size, n2, g)
                 /\ CutTo(Whole(f, d, fr1, h, o), size) = Whole(g, d, fr1, h, o)
    BY <1>2, <2>2, CutToIs
  <2>4. CutTo(a, size) = Whole(g, d, fr1, h, o)
    BY <2>1, <2>3
  <2> QED
    BY <2>3, <2>4, Zenon DEF f, d, fr1, h, o
<1>13. Truncated(w, size) = Whole(g, a.disk, fr, a.header, a.ok)
  <2> HIDE DEF remove
  <2>1. remove = BlocksToRemove(w, size)
    BY DEF remove
  <2>2. a = Seek(w, size)
    BY DEF a
  <2>3. remove.ok /\ a.ok /\ 0 \notin remove.data /\ size # 0
    BY <1>5, <1>6, <1>8, <1>9
  <2>4. CutTo(a, size) = Replaced(a, g, a.free)
    BY <1>12, Zenon DEF Replaced
  <2>5. fr = a.free \cup remove.data \cup remove.ext
    OBVIOUS
  <2> HIDE DEF fr
  <2>6. Truncated(w, size) = Replaced(a, g, fr)
    BY <2>1, <2>2, <2>3, <2>4, <2>5, TruncatedIs
  <2> QED
    BY <2>6, Zenon DEF Replaced
<1>14. fr = a.free \cup Dropped(data, n, n2) \cup DroppedExt(vol, ext, n, n2)
  BY <1>8
<1> DEFINE r == Truncated(w, size)
<1> HIDE DEF fr, n, r, remove
<1>15. r = Whole(g, a.disk, fr, a.header, a.ok)
  BY <1>13 DEF r
<1>16. n = Count(a.file.fileHdr.byteSize)
  BY DEF n
<1>17. IsFile(vol, r, Shorter(data, n2), ShorterExt(vol, ext, n2), bytes)
  BY <1>2, <1>4, <1>6, <1>10, <1>12, <1>14, <1>15, <1>16, CutIsFile
<1>18. r.file = g
  <2> DEFINE d == a.disk
             h == a.header
             o == a.ok
  <2>1. r = Whole(g, d, fr, h, o)
    BY <1>15, Zenon
  <2> HIDE DEF d, h, o
  <2> QED
    BY <2>1, WholeParts
<1>19. g.pos = size /\ g.fileHdr.byteSize = size
  BY <1>4, <1>12 DEF CutToFile, SameCounters
<1> QED
  BY <1>9, <1>17, <1>18, <1>19 DEF r, remove

\* adfFileTruncate: the file holds the bytes before its new end, where it is.
LEMMA TruncateIs ==
  ASSUME vol \in Volumes, NEW data, NEW ext, NEW bytes, IsFile(vol, World, data, ext, bytes),
         SmallOfs(vol), "flush_to_truncate" \in Habits, "reopen_to_truncate" \in Habits,
         NEW size \in Nat, size % BlockSize # 0, adfFileTruncate(size), NEW n2, n2 = Count(size)
  PROVE  /\ IsFile(vol, World', Shorter(data, n2), ShorterExt(vol, ext, n2), bytes)
         /\ file'.pos = size /\ file'.fileHdr.byteSize = size /\ size < file.fileHdr.byteSize
         /\ 0 \notin BlocksToRemove(World, size).data
<1> DEFINE w == World
           r == Truncated(w, size)
<1>1. /\ size < Size(w) /\ HeadersOnDisk /\ Becomes(r)
      /\ adfFileSize2Extblocks(size) = 0 => file.currentExt = NoExt
  BY Zenon DEF adfFileTruncate, CarefulTruncate
<1>2. w \in WorldSet(vol) /\ w.file = file
  BY DEF IsFile, World
<1> HIDE DEF w
<1>3. HeaderKept(w)
  <2>1. UnchangedHeaders(w)
    BY <1>1, HabitsNow DEF w
  <2> QED
    BY <1>2, <2>1, HeadersKept
<1>4. adfFileSize2Extblocks(size) = 0 => w.file.currentExt = NoExt
  BY <1>1, <1>2
<1>5. IsFile(vol, w, data, ext, bytes)
  BY DEF w
<1>6. /\ IsFile(vol, r, Shorter(data, n2), ShorterExt(vol, ext, n2), bytes)
      /\ r.file.pos = size /\ r.file.fileHdr.byteSize = size /\ 0 \notin BlocksToRemove(w, size).data
  BY <1>1, <1>3, <1>4, <1>5, TruncateFile
<1> HIDE DEF r
<1>7. r \in WorldSet(vol) /\ r.ok
  BY <1>6 DEF IsFile
<1>8. World' = r
  BY <1>1, <1>7, BecomesIs
<1>9. file' = r.file
  BY <1>1 DEF Becomes
<1> QED
  BY <1>1, <1>2, <1>6, <1>8, <1>9 DEF w, Size

-----------------------------------------------------------------------------
(* The file through all of its operations *)

\* The program has all the habits, OFS files are too small for an extension
\* block, and no file is truncated to a multiple of the size of a data block.
CarefulFiles ==
  /\ {"flush_to_read", "flush_to_extend", "room_to_extend", "flush_to_truncate",
      "reopen_to_truncate"} \subseteq Habits
  /\ \A v \in Volumes : SmallOfs(v) /\ \A size \in v.truncateTo : size % BlockSize # 0

\* A file, open or closed.
HasFile(v, w, data, ext, bytes) ==
  IF w.file.open THEN IsFile(v, w, data, ext, bytes) ELSE IsClosed(v, w, data, ext, bytes)

\* The blocks of the volume, in memory and on the disk, are those of a file.
FileInv ==
  /\ vol \in Volumes
  /\ \E data, ext, bytes : HasFile(vol, World, data, ext, bytes)

\* An open file is open, a closed one closed.
LEMMA OpenOrClosed ==
  ASSUME NEW v, NEW w, NEW data, NEW ext, NEW bytes
  PROVE  /\ IsFile(v, w, data, ext, bytes) => w.file.open /\ HasFile(v, w, data, ext, bytes)
         /\ IsClosed(v, w, data, ext, bytes) => ~w.file.open /\ HasFile(v, w, data, ext, bytes)
<1>1. ASSUME IsFile(v, w, data, ext, bytes)
      PROVE  w.file.open /\ HasFile(v, w, data, ext, bytes)
  <2>1. w \in WorldSet(v)
    BY <1>1 DEF IsFile
  <2>2. w.file.open
    BY <2>1 DEF WorldSet, FileSet
  <2> QED
    BY <1>1, <2>2 DEF HasFile
<1>2. ASSUME IsClosed(v, w, data, ext, bytes)
      PROVE  ~w.file.open /\ HasFile(v, w, data, ext, bytes)
  <2>1. ~w.file.open
    BY <1>2 DEF IsClosed, Closed
  <2> QED
    BY <1>2, <2>1 DEF HasFile
<1> QED
  BY <1>1, <1>2

\* An empty volume has an empty file.
LEMMA InitIs ==
  ASSUME Init, NEW data, data = [k \in 0..(0 - 1) |-> 0],
         NEW ext, ext = [l \in 1..0 |-> 0], NEW bytes
  PROVE  IsClosed(vol, World, data, ext, bytes) /\ vol \in Volumes
<1>1. /\ vol \in Volumes /\ World.file = Closed /\ World.header = NewHeader
      /\ World.free = vol.sectors /\ World.disk = disk
      /\ disk = [s \in vol.sectors \cup {0} |-> IF s = 0 THEN Boot ELSE Zero]
  BY DEF Init, World, Sectors
<1>2. vol.maxDatablk \in Nat \ {0} /\ vol.maxSize \in Nat
  BY <1>1, VolumeParts
<1>3. disk \in DiskSet(vol)
  BY <1>1 DEF DiskSet
<1>4. NoEntries \in EntrySet(vol)
  BY DEF NoEntries, EntrySet, Entries, MaxDatablk
<1>5. NewHeader \in HeaderSet(vol)
  BY <1>2, <1>4 DEF NewHeader, HeaderSet
<1>6. /\ NewHeader.byteSize = 0 /\ NewHeader.firstData = 0 /\ NewHeader.highSeq = 0
      /\ NewHeader.extension = 0
  BY DEF NewHeader
<1>7. Count(0) = 0 /\ LastList(vol, 0) = 0 /\ InLast(vol, 0) = 0
  BY DEF Count, LastList, InLast
<1>8. 0..(0 - 1) = {} /\ 1..0 = {} /\ 0..0 = {0}
  OBVIOUS
<1>9. Owns(vol, vol.sectors, 0, data, ext)
  BY <1>7, <1>8 DEF Owns
<1>10. Lists(vol, NewHeader, disk, 0, data, ext)
  <2>1. ListAt(NewHeader, disk, ext, 0) = NewHeader
    BY DEF ListAt
  <2>2. Listed(vol, NewHeader, disk, 0, data, ext)
    BY <1>8 DEF Listed
  <2>3. Linked(vol, NewHeader, disk, 0, ext) /\ Counted(vol, NewHeader, disk, 0, ext)
    BY <1>6, <1>7, <1>8, <2>1 DEF Linked, Counted
  <2>4. Keyed(vol, disk, 0, ext) /\ FirstIs(NewHeader, 0, data)
    BY <1>6, <1>7, <1>8 DEF Keyed, FirstIs
  <2> QED
    BY <2>2, <2>3, <2>4 DEF Lists
<1>11. Holds(vol, DiskData(vol, disk), 0, data, bytes)
  BY <1>8 DEF Holds
<1>12. OnDisk(vol, NewHeader, disk, vol.sectors, data, ext, bytes)
  BY <1>6, <1>7, <1>9, <1>10, <1>11 DEF OnDisk, FileIs
<1> QED
  BY <1>1, <1>3, <1>5, <1>12 DEF IsClosed

\* Opening it.
LEMMA OpenFile ==
  ASSUME vol \in Volumes, NEW data, NEW ext, NEW bytes, IsClosed(vol, World, data, ext, bytes),
         SmallOfs(vol), adfFileOpen
  PROVE  /\ IsFile(vol, World', data, ext, bytes)
         /\ file'.fileHdr = header /\ file'.pos = 0
<1> DEFINE w == World
           r == Seek(Opened(w), 0)
<1>1. w.header = header /\ w.ok /\ w = InFile(w, w.file)
  BY DEF World, InFile
<1>2. Becomes(r)
  <2>1. Opened(World) = [World EXCEPT !.file = [Closed EXCEPT !.open = TRUE, !.fileHdr = header]]
    BY <1>1, Zenon DEF Opened
  <2> QED
    BY <2>1, Zenon DEF adfFileOpen
<1> HIDE DEF w
<1>3. IsClosed(vol, w, data, ext, bytes)
  BY DEF w
<1>4. IsFile(vol, r, data, ext, bytes) /\ r.file.fileHdr = w.header /\ r.file.pos = 0
  BY <1>1, <1>3, OpenIs
<1> HIDE DEF r
<1>5. r \in WorldSet(vol) /\ r.ok
  BY <1>4 DEF IsFile
<1>6. World' = r /\ file' = r.file
  BY <1>2, <1>5, BecomesIs DEF Becomes
<1> QED
  BY <1>1, <1>4, <1>6

\* Flushing it.
LEMMA FlushFile ==
  ASSUME vol \in Volumes, NEW data, NEW ext, NEW bytes, IsFile(vol, World, data, ext, bytes),
         adfFileFlush
  PROVE  /\ IsFile(vol, World', data, ext, bytes)
         /\ file'.fileHdr = file.fileHdr /\ file'.pos = file.pos
<1> DEFINE w == World
           r == Flush(w)
<1>1. w.file = file /\ Becomes(r)
  BY DEF World, adfFileFlush
<1> HIDE DEF w
<1>2. IsFile(vol, w, data, ext, bytes)
  BY DEF w
<1>3. Flushed(w, r) /\ UpToDate(vol, r, data, ext, bytes)
  BY <1>2, FlushKeeps
<1> HIDE DEF r
<1>4. IsFile(vol, r, data, ext, bytes)
  BY <1>3, FileUpToDate
<1>5. r \in WorldSet(vol) /\ r.ok
  BY <1>4 DEF IsFile
<1>6. World' = r /\ file' = r.file
  BY <1>1, <1>5, BecomesIs DEF Becomes
<1> QED
  BY <1>1, <1>3, <1>4, <1>6 DEF Flushed

\* Closing it.
LEMMA CloseFile ==
  ASSUME vol \in Volumes, NEW data, NEW ext, NEW bytes, IsFile(vol, World, data, ext, bytes),
         adfFileClose
  PROVE  IsClosed(vol, World', data, ext, bytes) /\ header' = file.fileHdr /\ file' = Closed
<1> DEFINE w == World
           r == Flush(w)
<1>1. w.file = file /\ Becomes([r EXCEPT !.file = Closed])
  BY DEF World, adfFileClose
<1> HIDE DEF w
<1>2. IsFile(vol, w, data, ext, bytes)
  BY DEF w
<1>3. Flushed(w, r) /\ UpToDate(vol, r, data, ext, bytes)
  BY <1>2, FlushKeeps
<1> HIDE DEF r
<1>4. r \in WorldSet(vol) /\ OnDisk(vol, r.header, r.disk, r.free, data, ext, bytes)
  BY <1>3 DEF UpToDate, IsRead
<1>5. file' = Closed /\ disk' = r.disk /\ free' = r.free /\ header' = r.header
  <2>1. r = Whole(r.file, r.disk, r.free, r.header, r.ok)
    BY <1>4, WorldWhole
  <2> DEFINE f == r.file
             d == r.disk
             fr == r.free
             h == r.header
             o == r.ok
             c == Closed
             z == [r EXCEPT !.file = c]
  <2> HIDE DEF f, d, fr, h, o, c
  <2>2. r = Whole(f, d, fr, h, o)
    BY <2>1, Zenon DEF f, d, fr, h, o
  <2>3. z = Whole(c, d, fr, h, o)
    BY <2>2, WholeFile
  <2> HIDE DEF z
  <2>4. z.file = c /\ z.disk = d /\ z.free = fr /\ z.header = h
    BY <2>3, WholeParts
  <2>5. Becomes(z)
    BY <1>1 DEF z, c
  <2> QED
    BY <2>4, <2>5 DEF Becomes, c, d, fr, h
<1>6. r.disk \in DiskSet(vol) /\ r.free \in SUBSET vol.sectors /\ r.header \in HeaderSet(vol)
  BY <1>4, WorldParts
<1>7. /\ World'.file = Closed /\ World'.disk = r.disk /\ World'.free = r.free
      /\ World'.header = r.header
  BY <1>5 DEF World
<1>8. IsClosed(vol, World', data, ext, bytes)
  BY <1>4, <1>6, <1>7 DEF IsClosed
<1> QED
  BY <1>1, <1>3, <1>5, <1>8 DEF Flushed

\* Moving in it.
LEMMA SeekFile ==
  ASSUME vol \in Volumes, NEW data, NEW ext, NEW bytes, IsFile(vol, World, data, ext, bytes),
         SmallOfs(vol), NEW pos \in Nat, adfFileSeek(pos)
  PROVE  /\ IsFile(vol, World', data, ext, bytes)
         /\ file'.fileHdr = file.fileHdr /\ file'.pos = AtMost(pos, file.fileHdr.byteSize)
<1> DEFINE w == World
           r == Seek(w, pos)
<1>1. w.file = file /\ Becomes(r)
  BY DEF World, adfFileSeek
<1> HIDE DEF w
<1>2. IsFile(vol, w, data, ext, bytes)
  BY DEF w
<1>3. Sought(vol, w, r, data, ext, bytes, AtMost(pos, Size(w)))
  BY <1>2, SeekIs
<1> HIDE DEF r
<1>4. /\ IsFile(vol, r, data, ext, bytes) /\ r.file.fileHdr = w.file.fileHdr
      /\ r.file.pos = AtMost(pos, Size(w))
  BY <1>3 DEF Sought
<1>5. r \in WorldSet(vol) /\ r.ok
  BY <1>4 DEF IsFile
<1>6. World' = r /\ file' = r.file
  BY <1>1, <1>5, BecomesIs DEF Becomes
<1> QED
  BY <1>1, <1>4, <1>6 DEF Size

\* The bytes of the file, and what an operation may do to them and to the
\* position in the file.
SizeOf(w) == IF w.file.open THEN w.file.fileHdr.byteSize ELSE w.header.byteSize
TextOf(w, bytes) == Text(SizeOf(w), bytes)

OpensFile(w, r, a, a2) == ~w.file.open /\ r.file.open /\ r.file.pos = 0 /\ a2 = a
ClosesFile(w, r, a, a2) == w.file.open /\ ~r.file.open /\ r.file.pos = 0 /\ a2 = a
MovesIn(w, r, a, a2) == w.file.open /\ r.file.open /\ r.file.pos \in 0..SizeOf(w) /\ a2 = a
Writes(w, r, a, a2) ==
  /\ w.file.open /\ r.file.open
  /\ \E m \in 1..BlockSize : \E b \in Bytes :
       /\ r.file.pos = w.file.pos + m
       /\ a2 = PutText(a, Extended(SizeOf(w), w.file.pos + m), w.file.pos, m, b)
Truncates(w, r, a, bytes) ==
  /\ w.file.open /\ r.file.open /\ r.file.pos \in 0..(SizeOf(w) - 1)
  /\ a = Text(r.file.pos, bytes)

Operates(w, r, bytes, bytes2) ==
  LET a  == TextOf(w, bytes)
      a2 == TextOf(r, bytes2)
  IN  \/ OpensFile(w, r, a, a2) \/ ClosesFile(w, r, a, a2) \/ MovesIn(w, r, a, a2)
      \/ Writes(w, r, a, a2) \/ Truncates(w, r, a2, bytes)

\* A position in a file is one of its bytes or its end.
LEMMA PosInFile ==
  ASSUME NEW v \in Volumes, NEW w, NEW data, NEW ext, NEW bytes, IsFile(v, w, data, ext, bytes)
  PROVE  /\ SizeOf(w) = w.file.fileHdr.byteSize /\ w.file.open /\ SizeOf(w) \in Nat
         /\ w.file.pos \in 0..SizeOf(w)
<1>1. w \in WorldSet(v) /\ w.file.open
  BY OpenOrClosed DEF IsFile
<1>2. SizeOf(w) = w.file.fileHdr.byteSize
  BY <1>1 DEF SizeOf
<1>3. w.file.pos \in Nat /\ w.file.fileHdr.byteSize \in Nat
  BY <1>1, WorldParts
<1>4. w.file.pos <= w.file.fileHdr.byteSize
  BY DEF IsFile, DataPlaced
<1> QED
  BY <1>1, <1>2, <1>3, <1>4

\* An operation that changes no byte moves in the file.
LEMMA KeepsText ==
  ASSUME NEW v \in Volumes, NEW w, NEW data, NEW ext, NEW bytes, IsFile(v, w, data, ext, bytes),
         NEW r, IsFile(v, r, data, ext, bytes), r.file.fileHdr = w.file.fileHdr
  PROVE  HasFile(v, r, data, ext, bytes) /\ Operates(w, r, bytes, bytes)
<1>1. SizeOf(w) = w.file.fileHdr.byteSize /\ SizeOf(r) = r.file.fileHdr.byteSize
  BY PosInFile
<1>2. w.file.open /\ r.file.open /\ r.file.pos \in 0..SizeOf(r)
  BY PosInFile
<1>3. MovesIn(w, r, TextOf(w, bytes), TextOf(r, bytes))
  BY <1>1, <1>2 DEF MovesIn, TextOf
<1> QED
  BY <1>3, OpenOrClosed DEF Operates

\* What a step leads to.
Leads(v, w, r, bytes) ==
  \E data2, ext2, bytes2 : HasFile(v, r, data2, ext2, bytes2) /\ Operates(w, r, bytes, bytes2)

\* Writing changes the bytes that are written to, truncating removes the last
\* ones.
LEMMA WriteLeads ==
  ASSUME NEW v \in Volumes, NEW w, NEW data, NEW ext, NEW bytes, IsFile(v, w, data, ext, bytes),
         NEW r, NEW data2, NEW ext2, NEW bytes2, NEW m \in 1..BlockSize, NEW b \in Bytes,
         WrittenTo(v, w, bytes, r, m, b, data2, ext2, bytes2)
  PROVE  Leads(v, w, r, bytes)
<1>1. /\ IsFile(v, r, data2, ext2, bytes2) /\ r.file.pos = w.file.pos + m
      /\ r.file.fileHdr.byteSize = Extended(w.file.fileHdr.byteSize, w.file.pos + m)
      /\ Text(r.file.fileHdr.byteSize, bytes2)
         = PutText(Text(w.file.fileHdr.byteSize, bytes), r.file.fileHdr.byteSize, w.file.pos, m, b)
  BY DEF WrittenTo
<1>2. SizeOf(w) = w.file.fileHdr.byteSize /\ w.file.open
  BY PosInFile
<1>3. SizeOf(r) = r.file.fileHdr.byteSize /\ r.file.open
  BY <1>1, PosInFile
<1>4. Writes(w, r, TextOf(w, bytes), TextOf(r, bytes2))
  BY <1>1, <1>2, <1>3 DEF Writes, TextOf
<1>5. HasFile(v, r, data2, ext2, bytes2)
  BY <1>1, OpenOrClosed
<1> QED
  BY <1>4, <1>5 DEF Leads, Operates

\* A shorter file with the same bytes.
LEMMA TruncateLeads ==
  ASSUME NEW v \in Volumes, NEW w, NEW data, NEW ext, NEW bytes, IsFile(v, w, data, ext, bytes),
         NEW r, NEW data2, NEW ext2, IsFile(v, r, data2, ext2, bytes),
         r.file.pos = r.file.fileHdr.byteSize, r.file.fileHdr.byteSize < w.file.fileHdr.byteSize
  PROVE  Leads(v, w, r, bytes)
<1>1. SizeOf(w) = w.file.fileHdr.byteSize /\ w.file.open /\ SizeOf(w) \in Nat
  BY PosInFile
<1>2. SizeOf(r) = r.file.fileHdr.byteSize /\ r.file.open /\ SizeOf(r) \in Nat
  BY PosInFile
<1>3. Truncates(w, r, TextOf(r, bytes), bytes)
  BY <1>1, <1>2 DEF Truncates, TextOf
<1>4. HasFile(v, r, data2, ext2, bytes)
  BY OpenOrClosed
<1> QED
  BY <1>3, <1>4 DEF Leads, Operates

\* Every operation leads from a file to a file.
LEMMA OperationIs ==
  ASSUME CarefulFiles, vol \in Volumes, NEW data, NEW ext, NEW bytes,
         HasFile(vol, World, data, ext, bytes), Next
  PROVE  Leads(vol, World, World', bytes)
<1> DEFINE w == World
           r == World'
<1>1. /\ SmallOfs(vol) /\ "flush_to_read" \in Habits /\ "flush_to_extend" \in Habits
      /\ "room_to_extend" \in Habits /\ "flush_to_truncate" \in Habits
      /\ "reopen_to_truncate" \in Habits
      /\ \A size \in vol.truncateTo : size % BlockSize # 0
  BY DEF CarefulFiles
<1>2. w.file = file /\ w.header = header /\ r.file = file' /\ r.header = header'
  BY DEF World
<1>3. BlockSize \in Nat \ {0} /\ vol.bytes \subseteq Bytes /\ vol.maxSize \in Nat
      /\ vol.truncateTo \subseteq Nat
  BY VolumeParts
<1>4. ASSUME IsFile(vol, r, data, ext, bytes), r.file.fileHdr = w.file.fileHdr, file.open
      PROVE  Leads(vol, w, r, bytes)
  <2> HIDE DEF w, r
  <2>1. w.file.open
    BY <1>2, <1>4
  <2>2. IsFile(vol, w, data, ext, bytes)
    BY <2>1 DEF w, HasFile
  <2> QED
    BY <1>4, <2>2, KeepsText DEF Leads
<1>5. CASE ~file.open
  <2>1. IsClosed(vol, World, data, ext, bytes)
    BY <1>2, <1>5 DEF HasFile
  <2>2. adfFileOpen
    <3>1. ~adfFileFlush /\ ~adfFileClose
      BY <1>5, Zenon DEF adfFileFlush, adfFileClose
    <3>2. \A m : ~ReadChunk(m)
      BY <1>5, Zenon DEF ReadChunk
    <3>3. \A m, b : ~WriteChunk(m, b)
      BY <1>5, Zenon DEF WriteChunk
    <3>4. ~WriteFails
      BY <1>5, Zenon DEF WriteFails
    <3>5. \A pos : ~adfFileSeek(pos)
      BY <1>5, Zenon DEF adfFileSeek
    <3>6. \A size : ~adfFileTruncate(size)
      BY <1>5, Zenon DEF adfFileTruncate
    <3> QED
      BY <3>1, <3>2, <3>3, <3>4, <3>5, <3>6, Zenon DEF Next
  <2>3. /\ IsFile(vol, World', data, ext, bytes)
        /\ file'.fileHdr = header /\ file'.pos = 0
    BY <1>1, <2>1, <2>2, OpenFile
  <2> HIDE DEF w, r
  <2>4. IsFile(vol, r, data, ext, bytes)
    BY <2>3 DEF r
  <2>5. r.file.open /\ SizeOf(r) = header.byteSize /\ SizeOf(w) = header.byteSize
    BY <1>2, <1>5, <2>3, <2>4, PosInFile DEF SizeOf
  <2>6. OpensFile(w, r, TextOf(w, bytes), TextOf(r, bytes))
    BY <1>2, <1>5, <2>3, <2>5 DEF OpensFile, TextOf
  <2>7. HasFile(vol, r, data, ext, bytes)
    BY <2>4, OpenOrClosed
  <2>8. Leads(vol, w, r, bytes)
    BY <2>6, <2>7 DEF Leads, Operates
  <2> QED
    BY <2>8 DEF w, r
<1>6. CASE file.open
  <2>1. IsFile(vol, World, data, ext, bytes)
    BY <1>2, <1>6 DEF HasFile
  <2>2. CASE adfFileFlush
    BY <1>2, <1>4, <1>6, <2>1, <2>2, FlushFile
  <2>3. CASE adfFileClose
    <3>1. IsClosed(vol, World', data, ext, bytes) /\ header' = file.fileHdr /\ file' = Closed
      BY <2>1, <2>3, CloseFile
    <3> HIDE DEF w, r
    <3>2. IsClosed(vol, r, data, ext, bytes) /\ IsFile(vol, w, data, ext, bytes)
      BY <2>1, <3>1 DEF w, r
    <3>3. ~r.file.open /\ HasFile(vol, r, data, ext, bytes)
      BY <3>2, OpenOrClosed
    <3>4. r.file.pos = 0
      BY <1>2, <3>1 DEF Closed
    <3>5. SizeOf(w) = SizeOf(r) /\ w.file.open
      BY <1>2, <1>6, <3>1, <3>3 DEF SizeOf
    <3>6. ClosesFile(w, r, TextOf(w, bytes), TextOf(r, bytes))
      BY <3>3, <3>4, <3>5 DEF ClosesFile, TextOf
    <3>7. Leads(vol, w, r, bytes)
      BY <3>3, <3>6 DEF Leads, Operates
    <3> QED
      BY <3>7 DEF w, r
  <2>4. ASSUME NEW m \in 1..BlockSize, ReadChunk(m)
        PROVE  Leads(vol, World, World', bytes)
    BY <1>1, <1>2, <1>4, <1>6, <2>1, <2>4, ReadIs
  <2>5. ASSUME NEW m \in 1..BlockSize, NEW b \in vol.bytes, WriteChunk(m, b)
        PROVE  Leads(vol, World, World', bytes)
    <3>1. \E data2, ext2, bytes2 :
            WrittenTo(vol, World, bytes, World', m, b, data2, ext2, bytes2)
      BY <1>1, <2>1, <2>5, WriteIs
    <3>2. PICK data2, ext2, bytes2 :
            WrittenTo(vol, World, bytes, World', m, b, data2, ext2, bytes2)
      BY <3>1
    <3>3. b \in Bytes
      BY <1>3
    <3> HIDE DEF w, r
    <3>4. /\ WrittenTo(vol, w, bytes, r, m, b, data2, ext2, bytes2)
          /\ IsFile(vol, w, data, ext, bytes)
      BY <2>1, <3>2 DEF w, r
    <3>5. Leads(vol, w, r, bytes)
      BY <3>3, <3>4, WriteLeads
    <3> QED
      BY <3>5 DEF w, r
  <2>6. CASE WriteFails
    BY <1>1, <1>2, <1>4, <1>6, <2>1, <2>6, WriteFailsIs
  <2>7. ASSUME NEW pos \in 0..MaxSize, adfFileSeek(pos)
        PROVE  Leads(vol, World, World', bytes)
    <3>1. pos \in Nat
      BY <1>3 DEF MaxSize
    <3> QED
      BY <1>1, <1>2, <1>4, <1>6, <2>1, <2>7, <3>1, SeekFile
  <2>8. ASSUME NEW size \in vol.truncateTo, adfFileTruncate(size)
        PROVE  Leads(vol, World, World', bytes)
    <3> DEFINE n2 == Count(size)
               data2 == Shorter(data, n2)
               ext2 == ShorterExt(vol, ext, n2)
    <3>1. size \in Nat /\ size % BlockSize # 0
      BY <1>1, <1>3
    <3>2. /\ IsFile(vol, World', data2, ext2, bytes)
          /\ file'.pos = size /\ file'.fileHdr.byteSize = size /\ size < file.fileHdr.byteSize
      BY <1>1, <2>1, <2>8, <3>1, TruncateIs
    <3> HIDE DEF w, r, data2, ext2
    <3>3. /\ IsFile(vol, w, data, ext, bytes) /\ IsFile(vol, r, data2, ext2, bytes)
          /\ r.file.pos = r.file.fileHdr.byteSize
          /\ r.file.fileHdr.byteSize < w.file.fileHdr.byteSize
      BY <1>2, <2>1, <3>2 DEF w, r
    <3>4. Leads(vol, w, r, bytes)
      BY <3>3, TruncateLeads
    <3> QED
      BY <3>4 DEF w, r
  <2>9. ~adfFileOpen
    BY <1>6 DEF adfFileOpen
  <2> QED
    BY <2>2, <2>3, <2>4, <2>5, <2>6, <2>7, <2>8, <2>9 DEF Next
<1> QED
  BY <1>5, <1>6

\* FileInv is inductive: an open file and its blocks stay those of one sequence
\* of bytes, in memory and on the disk (adf_file.c).
THEOREM FileIsKept ==
  ASSUME CarefulFiles
  PROVE  Spec => []FileInv
<1>1. Init => FileInv
  <2>1. SUFFICES ASSUME Init
                 PROVE  FileInv
    OBVIOUS
  <2> DEFINE data == [k \in 0..(0 - 1) |-> 0]
             ext == [l \in 1..0 |-> 0]
  <2>2. data = [k \in 0..(0 - 1) |-> 0] /\ ext = [l \in 1..0 |-> 0]
    OBVIOUS
  <2> HIDE DEF data, ext
  <2>3. IsClosed(vol, World, data, ext, data) /\ vol \in Volumes
    BY <2>1, <2>2, InitIs
  <2>4. HasFile(vol, World, data, ext, data)
    BY <2>3, OpenOrClosed
  <2> QED
    BY <2>3, <2>4 DEF FileInv
<1>2. FileInv /\ [Next]_vars => FileInv'
  <2>1. SUFFICES ASSUME FileInv, [Next]_vars
                 PROVE  FileInv'
    OBVIOUS
  <2>2. vol' = vol /\ vol \in Volumes
    BY <2>1 DEF Next, vars, FileInv
  <2>3. PICK data, ext, bytes : HasFile(vol, World, data, ext, bytes)
    BY <2>1 DEF FileInv
  <2>4. \E data2, ext2, bytes2 : HasFile(vol, World', data2, ext2, bytes2)
    <3>1. CASE Next
      BY <2>2, <2>3, <3>1, OperationIs DEF Leads
    <3>2. CASE UNCHANGED vars
      <4>1. World' = World
        BY <3>2 DEF vars, World
      <4> QED
        BY <2>3, <4>1
    <3> QED
      BY <2>1, <3>1, <3>2
  <2>5. PICK data2, ext2, bytes2 : HasFile(vol, World', data2, ext2, bytes2)
    BY <2>4
  <2>6. Closed' = Closed
    BY <2>2 DEF Closed, NewHeader, NoEntries, Entries, MaxDatablk
  <2>7. HasFile(vol, World, data2, ext2, bytes2)'
    BY <2>2, <2>5, <2>6 DEF HasFile, IsClosed
  <2> QED
    BY <2>2, <2>7 DEF FileInv
<1> QED
  BY <1>1, <1>2, PTL DEF Spec

-----------------------------------------------------------------------------
(* The file as its user sees it *)

\* The file now: its header, and its blocks in memory and on the disk.
ExtsOfFile == ExtsNow(vol, file, disk)
DataOfFile == DataNow(vol, file, disk)

\* Open or closed, they are those of a file, and in their ranges.
LEMMA NowIs ==
  ASSUME vol \in Volumes, NEW data, NEW ext, NEW bytes, HasFile(vol, World, data, ext, bytes)
  PROVE  /\ FileIs(vol, Hdr, ExtsOfFile, DataOfFile, free, data, ext, bytes)
         /\ Hdr \in HeaderSet(vol) /\ disk \in DiskSet(vol) /\ header \in HeaderSet(vol)
         /\ free \subseteq vol.sectors /\ Hdr.byteSize = SizeOf(World)
         /\ file.currentExt # NoExt => file.currentExt \in ExtSet(vol)
<1> DEFINE w == World
<1>1. /\ w.file = file /\ w.header = header /\ w.disk = disk /\ w.free = free
      /\ Hdr.byteSize = SizeOf(w)
  BY DEF World, Hdr, SizeOf
<1> HIDE DEF w
<1>2. CASE file.open
  <2>1. IsFile(vol, w, data, ext, bytes)
    BY <1>1, <1>2 DEF HasFile, w
  <2>2. w \in WorldSet(vol)
    BY <2>1 DEF IsFile
  <2>3. /\ w.disk \in DiskSet(vol) /\ w.header \in HeaderSet(vol) /\ w.free \in SUBSET vol.sectors
        /\ w.file.fileHdr \in HeaderSet(vol)
        /\ w.file.currentExt # NoExt => w.file.currentExt \in ExtSet(vol)
    BY <2>2, WorldParts
  <2>4. FileIs(vol, w.file.fileHdr, ExtsNow(vol, w.file, w.disk), DataNow(vol, w.file, w.disk),
               w.free, data, ext, bytes)
    BY <2>1 DEF IsFile
  <2>5. Hdr = w.file.fileHdr
    BY <1>1, <1>2 DEF Hdr
  <2> QED
    BY <1>1, <2>3, <2>4, <2>5 DEF ExtsOfFile, DataOfFile, w
<1>3. CASE ~file.open
  <2>1. IsClosed(vol, w, data, ext, bytes)
    BY <1>1, <1>3 DEF HasFile, w
  <2>2. /\ file = Closed /\ disk \in DiskSet(vol) /\ free \in SUBSET vol.sectors
        /\ header \in HeaderSet(vol) /\ Hdr = header
        /\ FileIs(vol, header, disk, DiskData(vol, disk), free, data, ext, bytes)
    BY <1>1, <1>3, <2>1 DEF IsClosed, OnDisk, Hdr
  <2>3. file.currentExt = NoExt /\ file.curDataPtr = 0 /\ 0 \notin vol.sectors
    BY <2>2, VolumeParts DEF Closed
  <2>4. ExtsOfFile = [s \in vol.sectors |-> disk[s]] /\ DataOfFile = DiskData(vol, disk)
    BY <2>3 DEF ExtsOfFile, DataOfFile, ExtsNow, DataNow, DiskData
  <2> DEFINE h == header
             d == disk
             y == DiskData(vol, disk)
             x2 == ExtsOfFile
             fr == free
             n == Count(h.byteSize)
  <2>5. n \in Nat
    <3>1. h.byteSize \in Nat
      BY <2>2, VolumeParts DEF HeaderSet
    <3> QED
      BY <3>1, CountIs
  <2>6. Owns(vol, fr, n, data, ext)
    BY <2>2 DEF FileIs
  <2> HIDE DEF n
  <2>7. \A l \in 1..LastList(vol, n) : x2[ext[l]] = d[ext[l]]
    BY <2>4, <2>6, Sector
  <2>8. /\ \A k \in 0..(n - 1) : y[data[k]].bytes = y[data[k]].bytes
        /\ vol.ofs => \A k \in 0..(n - 1) : y[data[k]].nextData = y[data[k]].nextData
    OBVIOUS
  <2>9. FileIs(vol, h, d, y, fr, data, ext, bytes) /\ n = Count(h.byteSize)
    BY <2>2 DEF n
  <2> HIDE DEF h, d, y, x2, fr
  <2>10. FileIs(vol, h, x2, y, fr, data, ext, bytes)
    BY <2>5, <2>7, <2>8, <2>9, SameBlocks
  <2> QED
    BY <1>1, <2>2, <2>3, <2>4, <2>10 DEF h, y, x2, fr, w
<1> QED
  BY <1>2, <1>3

\* What ExtNow reads of an extension block of the file.
LEMMA ExtNowIs ==
  ASSUME vol \in Volumes, NEW s \in vol.sectors, ExtsOfFile[s] \in ExtSet(vol)
  PROVE  ExtNow(s) = ExtsOfFile[s]
<1>1. ExtsOfFile[s] = IF file.currentExt # NoExt /\ file.currentExt.headerKey = s
                        THEN file.currentExt ELSE disk[s]
  BY DEF ExtsOfFile, ExtsNow
<1>2. CASE file.currentExt # NoExt /\ file.currentExt.headerKey = s
  BY <1>1, <1>2 DEF ExtNow
<1>3. CASE ~(file.currentExt # NoExt /\ file.currentExt.headerKey = s)
  <2>1. ExtsOfFile[s] = disk[s] /\ ExtNow(s) = AsExt(disk[s])
    BY <1>1, <1>3 DEF ExtNow
  <2>2. disk[s].kind = "ext"
    BY <2>1 DEF ExtSet
  <2> QED
    BY <2>1, <2>2 DEF AsExt
<1> QED
  BY <1>2, <1>3

\* ExtOf finds each extension block, and no block after the last.
LEMMA ExtOfIs ==
  ASSUME vol \in Volumes, NEW n \in Nat, NEW ext, ext \in [1..LastList(vol, n) -> vol.sectors],
         Linked(vol, Hdr, ExtsOfFile, n, ext), Keyed(vol, ExtsOfFile, n, ext),
         NEW k \in 0..LastList(vol, n)
  PROVE  ExtOf(k) = IF k < LastList(vol, n) THEN ext[k + 1] ELSE 0
<1> DEFINE first == Hdr.extension
           next == [s \in vol.sectors |-> ExtNow(s).extension]
           g == SectorsOf(vol, n, ext)
           Defines(f) == f = [i \in 0..k |-> IF i = 0 THEN first
                              ELSE IF f[i - 1] = 0 THEN 0 ELSE ExtNow(f[i - 1]).extension]
           at == CHOOSE f : Defines(f)
<1>1. LastList(vol, n) \in Nat /\ 0 \notin vol.sectors
  BY ListInFile, VolumeParts
<1>2. NextAre(vol, ExtsOfFile, n, ext, next)
  <2> SUFFICES ASSUME NEW l \in 1..LastList(vol, n)
               PROVE  next[ext[l]] = ExtsOfFile[ext[l]].extension
    BY DEF NextAre
  <2>1. ext[l] \in vol.sectors /\ ExtsOfFile[ext[l]] \in ExtSet(vol)
    BY DEF Keyed
  <2>2. ExtNow(ext[l]) = ExtsOfFile[ext[l]]
    BY <2>1, ExtNowIs
  <2> QED
    BY <2>1, <2>2
<1> HIDE DEF next
<1>3. g[0] = first /\ LinkedUpTo(g, next, LastList(vol, n))
  <2> DEFINE h == Hdr
             x == ExtsOfFile
  <2>1. h.extension = first
    OBVIOUS
  <2>2. Linked(vol, h, x, n, ext) /\ NextAre(vol, x, n, ext, next)
    BY <1>2
  <2> HIDE DEF h, x, first
  <2>3. g[0] = h.extension /\ LinkedUpTo(g, next, LastList(vol, n))
    BY <2>2, ChainLinks
  <2> QED
    BY <2>1, <2>3
<1>4. \A i \in 0..LastList(vol, n) : g[i] \in vol.sectors \cup {0}
  BY <1>1 DEF SectorsOf
<1>5. g[k] = IF k < LastList(vol, n) THEN ext[k + 1] ELSE 0
  BY DEF SectorsOf
<1> HIDE DEF g
<1>6. \A i \in 1..k : g[i] = IF g[i - 1] = 0 THEN 0 ELSE ExtNow(g[i - 1]).extension
  <2> SUFFICES ASSUME NEW i \in 1..k
               PROVE  g[i] = IF g[i - 1] = 0 THEN 0 ELSE ExtNow(g[i - 1]).extension
    OBVIOUS
  <2>1. i \in 1..LastList(vol, n) /\ i - 1 \in 0..LastList(vol, n)
    BY <1>1
  <2>2. g[i] = IF g[i - 1] = 0 THEN 0 ELSE next[g[i - 1]]
    BY <1>3, <2>1 DEF LinkedUpTo
  <2>3. g[i - 1] # 0 => g[i - 1] \in vol.sectors
    BY <1>4, <2>1
  <2>4. \A s \in vol.sectors : next[s] = ExtNow(s).extension
    BY DEF next
  <2> QED
    BY <2>2, <2>3, <2>4
<1>7. Defines([i \in 0..k |-> g[i]])
  BY <1>1, <1>3, <1>6
<1>8. Defines(at)
  <2>1. \E f : Defines(f)
    BY <1>7
  <2> HIDE DEF Defines
  <2> QED
    BY <2>1
<1>9. ExtOf(k) = at[k]
  BY DEF ExtOf, Follow
<1> HIDE DEF at
<1>10. \A i \in 0..k : at[i] = g[i]
  <2>1. 0 <= k => at[0] = g[0]
    BY <1>3, <1>8
  <2>2. \A i \in (0 + 1)..k : at[i - 1] = g[i - 1] => at[i] = g[i]
    BY <1>1, <1>6, <1>8
  <2>3. 0 \in Int /\ k \in Int
    BY <1>1
  <2> QED
    BY ONLY <2>1, <2>2, <2>3, RecursionSame
<1> QED
  BY <1>1, <1>5, <1>9, <1>10

\* DataOf finds each data block, in the header or in an extension block.
LEMMA DataOfIs ==
  ASSUME vol \in Volumes, NEW n \in Nat, NEW data, NEW ext, NEW fr, Owns(vol, fr, n, data, ext),
         Lists(vol, Hdr, ExtsOfFile, n, data, ext), NEW k \in 0..(n - 1)
  PROVE  DataOf(k) = data[k]
<1> DEFINE l == ListOf(vol, k)
           i == EntryOf(vol, k)
           L == LastList(vol, n)
<1>1. /\ k \in Nat /\ l \in 0..L /\ L \in Nat /\ vol.maxDatablk \in Nat \ {0}
      /\ BlockSize \in Nat \ {0}
  BY ListInFile, VolumeParts
<1>2. ListAt(Hdr, ExtsOfFile, ext, l).dataBlocks[i] = data[k]
  BY DEF Lists, Listed
<1>3. CASE k < vol.maxDatablk
  <2>1. l = 0 /\ i = k
    BY <1>1, <1>3, PlaceOf
  <2>2. Hdr.dataBlocks[k] = data[k]
    BY <1>2, <2>1 DEF ListAt
  <2> QED
    BY <1>3, <2>2 DEF DataOf, MaxDatablk
<1>4. CASE ~(k < vol.maxDatablk)
  <2> DEFINE pos == k * BlockSize
  <2>1. pos \in Nat /\ pos = BlockSize * k + 0
    BY <1>1
  <2> HIDE DEF pos
  <2>2. pos \div BlockSize = k
    <3>1. 0 \in 0..(BlockSize - 1)
      BY <1>1
    <3> QED
      BY <1>1, <2>1, <3>1, BlockOf
  <2> DEFINE at == adfFilePos2DataBlock(pos)
  <2>3. at.extBlock = l - 1 /\ at.posInExtBlk = i
    <3>1. k >= MaxDatablk
      BY <1>1, <1>4 DEF MaxDatablk
    <3> QED
      BY <2>1, <2>2, <3>1, PosIs
  <2> HIDE DEF at
  <2>4. l # 0
    BY <1>1, <1>4, PlaceOf
  <2>5. l \in 1..L /\ l - 1 \in 0..L /\ l - 1 < L
    BY <1>1, <2>4
  <2>6. /\ ext \in [1..L -> vol.sectors] /\ Linked(vol, Hdr, ExtsOfFile, n, ext)
        /\ Keyed(vol, ExtsOfFile, n, ext)
    BY DEF Owns, Lists
  <2>7. ExtOf(l - 1) = ext[l]
    <3> DEFINE j == l - 1
    <3>1. j \in 0..L /\ j < L /\ j + 1 = l
      BY <1>1, <2>5
    <3> HIDE DEF j
    <3>2. ExtOf(j) = ext[j + 1]
      BY <2>6, <3>1, ExtOfIs
    <3> QED
      BY <3>1, <3>2 DEF j
  <2>8. ExtNow(ext[l]) = ExtsOfFile[ext[l]]
    BY <2>5, <2>6, ExtNowIs DEF Keyed
  <2>9. DataOf(k) = ExtNow(ExtOf(at.extBlock)).dataBlocks[at.posInExtBlk]
    BY <1>4, Zenon DEF DataOf, MaxDatablk, at, pos
  <2>10. ExtsOfFile[ext[l]].dataBlocks[i] = data[k]
    BY <1>2, <2>4 DEF ListAt
  <2> QED
    BY <2>3, <2>7, <2>8, <2>9, <2>10
<1> QED
  BY <1>3, <1>4

\* The numbers of the data blocks and extension blocks of the file, and their
\* sectors.
LEMMA NumbersNow ==
  ASSUME vol \in Volumes, NEW data, NEW ext, NEW bytes, HasFile(vol, World, data, ext, bytes),
         NEW n, n = Count(Hdr.byteSize)
  PROVE  /\ n \in Nat /\ Hdr.byteSize \in Nat /\ LastList(vol, n) \in Nat
         /\ DataNumbers = 0..(n - 1) /\ ExtNumbers = 0..(LastList(vol, n) - 1)
         /\ Owns(vol, free, n, data, ext)
         /\ \A k \in 0..(n - 1) : DataOf(k) = data[k]
         /\ \A k \in 0..(LastList(vol, n) - 1) : ExtOf(k) = ext[k + 1]
<1>1. /\ FileIs(vol, Hdr, ExtsOfFile, DataOfFile, free, data, ext, bytes)
      /\ Hdr \in HeaderSet(vol)
  BY NowIs
<1>2. Hdr.byteSize \in Nat
  BY <1>1, VolumeParts DEF HeaderSet
<1>3. n \in Nat
  BY <1>2, CountIs
<1>4. LastList(vol, n) \in Nat
  BY <1>3, ListInFile
<1>5. DataNumbers = 0..(n - 1)
  BY <1>2, CountIs DEF DataNumbers
<1>6. ExtNumbers = 0..(LastList(vol, n) - 1)
  BY <1>2, ExtCountIs DEF ExtNumbers
<1>7. Owns(vol, free, n, data, ext) /\ Lists(vol, Hdr, ExtsOfFile, n, data, ext)
  BY <1>1 DEF FileIs
<1>8. \A k \in 0..(n - 1) : DataOf(k) = data[k]
  BY <1>3, <1>7, DataOfIs
<1>9. /\ ext \in [1..LastList(vol, n) -> vol.sectors] /\ Linked(vol, Hdr, ExtsOfFile, n, ext)
      /\ Keyed(vol, ExtsOfFile, n, ext)
  BY <1>7 DEF Owns, Lists
<1>10. \A k \in 0..(LastList(vol, n) - 1) : ExtOf(k) = ext[k + 1]
  <2> SUFFICES ASSUME NEW k \in 0..(LastList(vol, n) - 1)
               PROVE  ExtOf(k) = ext[k + 1]
    OBVIOUS
  <2>1. k \in 0..LastList(vol, n) /\ k < LastList(vol, n)
    BY <1>4
  <2> QED
    BY <1>3, <1>9, <2>1, ExtOfIs
<1> QED
  BY <1>2, <1>3, <1>4, <1>5, <1>6, <1>7, <1>8, <1>10

\* The data blocks hold the bytes of the file, the one in memory standing for
\* the one on the disk.
LEMMA BlockNowIs ==
  ASSUME vol \in Volumes, NEW data, NEW ext, NEW bytes, HasFile(vol, World, data, ext, bytes),
         NEW n, n = Count(Hdr.byteSize), NEW k \in 0..(n - 1)
  PROVE  BlockNow(k).bytes = bytes[k]
<1>1. n \in Nat /\ Owns(vol, free, n, data, ext) /\ DataOf(k) = data[k]
  BY NumbersNow
<1>2. DataOfFile[data[k]].bytes = bytes[k]
  BY NowIs DEF FileIs, Holds
<1>3. data[k] \in vol.sectors /\ data[k] # 0 /\ k \in 0..(n - 1)
  BY <1>1, Sector
<1>4. DataOfFile[data[k]] = IF file.curDataPtr = data[k] THEN file.currentData ELSE AsData(disk[data[k]])
  BY <1>3 DEF DataOfFile, DataNow
<1>5. file.curDataPtr = data[k] <=> file.curDataPtr # 0 /\ k = file.nDataBlock - 1
  <2>1. CASE file.open
    <3> DEFINE w == World
    <3>1. w.file = file
      BY DEF World
    <3> HIDE DEF w
    <3>2. IsFile(vol, w, data, ext, bytes)
      BY <2>1, <3>1 DEF HasFile, w
    <3>3. Hdr = w.file.fileHdr
      BY <2>1, <3>1 DEF Hdr
    <3>4. n > 0
      BY <1>1, <1>3
    <3>5. w.file.nDataBlock - 1 \in 0..(n - 1) /\ w.file.curDataPtr = data[w.file.nDataBlock - 1]
          /\ w.file.curDataPtr # 0
      BY <3>2, <3>3, <3>4, FileParts
    <3>6. data[k] = data[w.file.nDataBlock - 1] => k = w.file.nDataBlock - 1
      BY <1>1, <1>3, <3>5 DEF Owns
    <3> QED
      BY <3>1, <3>5, <3>6
  <2>2. CASE ~file.open
    <3>1. file = Closed
      BY <2>2 DEF HasFile, IsClosed, World
    <3>2. file.curDataPtr = 0
      BY <3>1 DEF Closed
    <3> QED
      BY <1>3, <3>2
  <2> QED
    BY <2>1, <2>2
<1>6. BlockNow(k) = DataOfFile[data[k]]
  BY <1>1, <1>4, <1>5 DEF BlockNow
<1> QED
  BY <1>2, <1>6

\* So the content of the file is its bytes.
LEMMA ContentIs ==
  ASSUME vol \in Volumes, NEW data, NEW ext, NEW bytes, HasFile(vol, World, data, ext, bytes)
  PROVE  Content = TextOf(World, bytes)
<1> DEFINE size == Hdr.byteSize
           n == Count(size)
<1>1. size \in Nat /\ size = SizeOf(World)
  BY NumbersNow, NowIs
<1>2. \A k \in 0..(n - 1) : BlockNow(k).bytes = bytes[k]
  BY BlockNowIs
<1>3. Content = [i \in 1..size |-> BlockNow((i - 1) \div BlockSize).bytes[(i - 1) % BlockSize]]
  BY Zenon DEF Content
<1>4. TextOf(World, bytes) = [i \in 1..size |-> bytes[(i - 1) \div BlockSize][(i - 1) % BlockSize]]
  BY <1>1, Zenon DEF TextOf, Text
<1> HIDE DEF size, n
<1>5. \A i \in 1..size : (i - 1) \div BlockSize \in 0..(n - 1)
  <2> SUFFICES ASSUME NEW i \in 1..size
               PROVE  (i - 1) \div BlockSize \in 0..(n - 1)
    OBVIOUS
  <2> DEFINE j == i - 1
  <2>1. j \in Nat /\ j < size
    BY <1>1
  <2> HIDE DEF j
  <2>2. j \div BlockSize \in 0..(n - 1)
    BY <1>1, <2>1, InsideFile DEF n
  <2> QED
    BY <2>2 DEF j
<1>6. \A i \in 1..size : BlockNow((i - 1) \div BlockSize).bytes = bytes[(i - 1) \div BlockSize]
  BY <1>2, <1>5
<1> QED
  BY <1>3, <1>4, <1>6

\* As many sectors as there are numbers of blocks with different ones.
SectorsFrom(f, a, b) == {f[k] : k \in a..b}

\* Blocks of different numbers are different, so there is one for each number.
LEMMA SectorsCounted ==
  ASSUME NEW a \in Int, NEW b \in Int, a <= b + 1, NEW f,
         \A j, k \in a..b : f[j] = f[k] => j = k
  PROVE  IsFiniteSet(SectorsFrom(f, a, b)) /\ Cardinality(SectorsFrom(f, a, b)) = b - a + 1
<1> DEFINE S == a..b
           T == SectorsFrom(f, a, b)
           g == [k \in S |-> f[k]]
<1>1. IsFiniteSet(S) /\ Cardinality(S) = b - a + 1
  <2>1. Cardinality(a..b) = IF a > b THEN 0 ELSE b - a + 1
    BY FS_Interval
  <2> QED
    BY <2>1, FS_Interval
<1>2. \A j, k \in S : f[j] = f[k] => j = k
  OBVIOUS
<1>3. T = {f[k] : k \in S}
  BY DEF SectorsFrom
<1> HIDE DEF S, T
<1>4. g \in [S -> T] /\ (\A j, k \in S : g[j] = g[k] => j = k)
      /\ \A t \in T : \E k \in S : g[k] = t
  BY <1>2, <1>3
<1> HIDE DEF g
<1>5. g \in Bijection(S, T)
  BY <1>4 DEF Bijection, Injection, Surjection, IsInjective
<1>6. ExistsBijection(S, T)
  BY <1>5 DEF ExistsBijection
<1>7. IsFiniteSet(T) /\ Cardinality(T) = Cardinality(S)
  BY <1>1, <1>6, FS_Bijection
<1> QED
  BY <1>1, <1>7 DEF T

\* The blocks of the file are its own, and no others are in use.
LEMMA BlocksOwned ==
  ASSUME FileInv
  PROVE  OwnsItsBlocks
<1>1. vol \in Volumes
  BY DEF FileInv
<1>2. PICK data, ext, bytes : HasFile(vol, World, data, ext, bytes)
  BY DEF FileInv
<1> DEFINE n == Count(Hdr.byteSize)
           L == LastList(vol, n)
           D == SectorsFrom(data, 0, n - 1)
           E == SectorsFrom(ext, 1, L)
<1>3. /\ n \in Nat /\ L \in Nat
      /\ DataNumbers = 0..(n - 1) /\ ExtNumbers = 0..(L - 1)
      /\ Owns(vol, free, n, data, ext)
      /\ \A k \in 0..(n - 1) : DataOf(k) = data[k]
      /\ \A k \in 0..(L - 1) : ExtOf(k) = ext[k + 1]
  BY <1>1, <1>2, NumbersNow
<1>4. free \subseteq vol.sectors
  BY <1>1, <1>2, NowIs
<1> HIDE DEF n, L
<1>5. /\ data \in [0..(n - 1) -> vol.sectors] /\ ext \in [1..L -> vol.sectors]
      /\ \A j, k \in 0..(n - 1) : data[j] = data[k] => j = k
      /\ \A j, k \in 1..L : ext[j] = ext[k] => j = k
      /\ \A k \in 0..(n - 1) : \A l \in 1..L : data[k] # ext[l]
      /\ free = vol.sectors \ ({data[k] : k \in 0..(n - 1)} \cup {ext[l] : l \in 1..L})
  BY <1>3 DEF Owns, L
<1>6. {DataOf(k) : k \in DataNumbers} = D
  BY <1>3 DEF SectorsFrom
<1>7. {ExtOf(k) : k \in ExtNumbers} = E
  <2>1. \A k \in 0..(L - 1) : k + 1 \in 1..L /\ ExtOf(k) = ext[k + 1]
    BY <1>3
  <2>2. \A l \in 1..L : l - 1 \in 0..(L - 1) /\ ExtOf(l - 1) = ext[l]
    BY <1>3
  <2>3. ASSUME NEW t, t \in E
        PROVE  \E k \in 0..(L - 1) : ExtOf(k) = t
    <3>1. PICK l \in 1..L : t = ext[l]
      BY <2>3 DEF SectorsFrom
    <3> QED
      BY <2>2, <3>1
  <2>4. ASSUME NEW k \in 0..(L - 1)
        PROVE  ExtOf(k) \in E
    BY <2>1 DEF SectorsFrom
  <2> HIDE DEF E
  <2> QED
    BY <1>3, <2>3, <2>4
<1>8. D \cap E = {} /\ D \cup E = Sectors \ free
  BY <1>5 DEF SectorsFrom, Sectors
<1>9. IsFiniteSet(D) /\ Cardinality(D) = n
  <2> DEFINE last == n - 1
  <2>1. 0 \in Int /\ last \in Int /\ 0 <= last + 1 /\ last - 0 + 1 = n
    BY <1>3
  <2>2. \A j, k \in 0..last : data[j] = data[k] => j = k
    BY <1>5
  <2> HIDE DEF last
  <2>3. /\ IsFiniteSet(SectorsFrom(data, 0, last))
        /\ Cardinality(SectorsFrom(data, 0, last)) = last - 0 + 1
    BY <2>1, <2>2, SectorsCounted
  <2> QED
    BY <2>1, <2>3 DEF last
<1>10. IsFiniteSet(E) /\ Cardinality(E) = L
  <2>1. 1 \in Int /\ L \in Int /\ 1 <= L + 1 /\ L - 1 + 1 = L
    BY <1>3
  <2>2. \A j, k \in 1..L : ext[j] = ext[k] => j = k
    BY <1>5
  <2>3. IsFiniteSet(SectorsFrom(ext, 1, L)) /\ Cardinality(SectorsFrom(ext, 1, L)) = L - 1 + 1
    BY <2>1, <2>2, SectorsCounted
  <2> QED
    BY <2>1, <2>3
<1>11. Cardinality(DataNumbers) = n /\ Cardinality(ExtNumbers) = L
  <2>1. 0 \in Int /\ n - 1 \in Int /\ L - 1 \in Int
    BY <1>3
  <2>2. Cardinality(0..(n - 1)) = IF 0 > n - 1 THEN 0 ELSE n - 1 - 0 + 1
    BY <2>1, FS_Interval
  <2>3. Cardinality(0..(L - 1)) = IF 0 > L - 1 THEN 0 ELSE L - 1 - 0 + 1
    BY <2>1, FS_Interval
  <2>4. n \in Nat /\ L \in Nat
    BY <1>3
  <2>5. Cardinality(DataNumbers) = Cardinality(0..(n - 1))
        /\ Cardinality(ExtNumbers) = Cardinality(0..(L - 1))
    BY <1>3
  <2>6. Cardinality(0..(n - 1)) = n /\ Cardinality(0..(L - 1)) = L
    BY <2>2, <2>3, <2>4
  <2> QED
    BY <2>5, <2>6
<1> HIDE DEF D, E
<1>12. Cardinality(D \cup E) = n + L
  <2>1. Cardinality(D \cup E) = Cardinality(D) + Cardinality(E) - Cardinality(D \cap E)
    BY <1>9, <1>10, FS_Union
  <2>2. Cardinality(D \cap E) = 0
    BY <1>8, FS_EmptySet
  <2> QED
    BY <1>3, <1>9, <1>10, <2>1, <2>2
<1> QED
  BY <1>6, <1>7, <1>8, <1>11, <1>12 DEF OwnsItsBlocks

\* What is in memory is of the file.
LEMMA OwnBlocksFlushed ==
  ASSUME FileInv
  PROVE  FlushesOwnBlocks
<1>1. vol \in Volumes
  BY DEF FileInv
<1>2. PICK data, ext, bytes : HasFile(vol, World, data, ext, bytes)
  BY DEF FileInv
<1> DEFINE w == World
           n == Count(Hdr.byteSize)
           L == LastList(vol, n)
<1>3. w.file = file
  BY DEF World
<1>4. /\ n \in Nat /\ L \in Nat
      /\ DataNumbers = 0..(n - 1) /\ ExtNumbers = 0..(L - 1)
      /\ Owns(vol, free, n, data, ext)
      /\ \A k \in 0..(n - 1) : DataOf(k) = data[k]
      /\ \A k \in 0..(L - 1) : ExtOf(k) = ext[k + 1]
  BY <1>1, <1>2, NumbersNow
<1> HIDE DEF w
<1>5. CASE ~file.open
  <2>1. file = Closed
    BY <1>2, <1>3, <1>5 DEF HasFile, IsClosed, w
  <2>2. file.currentExt = NoExt /\ file.curDataPtr = 0
    BY <2>1 DEF Closed
  <2> QED
    BY <2>2 DEF FlushesOwnBlocks
<1>6. CASE file.open
  <2>1. IsFile(vol, w, data, ext, bytes)
    BY <1>2, <1>3, <1>6 DEF HasFile, w
  <2>2. Hdr = w.file.fileHdr
    BY <1>3, <1>6 DEF Hdr
  <2>3. n = Count(w.file.fileHdr.byteSize)
    BY <2>2
  <2> HIDE DEF n, L
  <2>4. DataPlaced(w.file, n, data) /\ ExtPlaced(vol, w.file, n, ext) /\ w \in WorldSet(vol)
    BY <2>1, <2>3 DEF IsFile
  <2>5. ASSUME file.currentExt # NoExt
        PROVE  \E k \in ExtNumbers : ExtOf(k) = file.currentExt.headerKey
    <3>1. \E l \in 1..L : file.currentExt.headerKey = ext[l]
      BY <1>3, <2>4, <2>5 DEF ExtPlaced, L
    <3>2. PICK l \in 1..L : file.currentExt.headerKey = ext[l]
      BY <3>1
    <3>3. l - 1 \in 0..(L - 1) /\ (l - 1) + 1 = l
      BY <1>4
    <3>4. ExtOf(l - 1) = ext[l]
      BY <1>4, <3>3
    <3> QED
      BY <1>4, <3>2, <3>3, <3>4
  <2>6. ASSUME file.curDataPtr # 0
        PROVE  /\ file.nDataBlock - 1 \in DataNumbers
               /\ file.curDataPtr = DataOf(file.nDataBlock - 1)
    <3>1. n # 0
      BY <1>3, <2>4, <2>6 DEF DataPlaced
    <3>2. w.file.nDataBlock \in Nat
      BY <1>1, <2>4, WorldParts
    <3>3. file.nDataBlock - 1 \in 0..(n - 1) /\ file.curDataPtr = data[file.nDataBlock - 1]
      BY <1>3, <1>4, <2>4, <3>1, <3>2 DEF DataPlaced
    <3> QED
      BY <1>4, <3>3
  <2> QED
    BY <2>5, <2>6 DEF FlushesOwnBlocks
<1> QED
  BY <1>5, <1>6

\* What was changed in a data block is marked.
LEMMA ChangesMarked ==
  ASSUME FileInv
  PROVE  ChangesAreMarked
<1>1. vol \in Volumes
  BY DEF FileInv
<1>2. PICK data, ext, bytes : HasFile(vol, World, data, ext, bytes)
  BY DEF FileInv
<1> DEFINE w == World
<1>3. w.file = file /\ w.disk = disk
  BY DEF World
<1> HIDE DEF w
<1>4. CASE ~file.open
  <2>1. file = Closed
    BY <1>2, <1>3, <1>4 DEF HasFile, IsClosed, w
  <2>2. file.curDataPtr = 0
    BY <2>1 DEF Closed
  <2> QED
    BY <2>2 DEF ChangesAreMarked
<1>5. CASE file.open
  <2>1. IsFile(vol, w, data, ext, bytes)
    BY <1>2, <1>3, <1>5 DEF HasFile, w
  <2>2. w.file.changed \/ BytesKept(w)
    BY <2>1 DEF IsFile, Marked
  <2> QED
    BY <1>3, <2>2 DEF BytesKept, ChangesAreMarked
<1> QED
  BY <1>4, <1>5

\* The data blocks of a closed OFS file are linked.
LEMMA BlocksLinked ==
  ASSUME FileInv
  PROVE  OfsLinks
<1>1. vol \in Volumes
  BY DEF FileInv
<1>2. PICK data, ext, bytes : HasFile(vol, World, data, ext, bytes)
  BY DEF FileInv
<1> SUFFICES ASSUME OFS, ~file.open, NEW k \in DataNumbers
             PROVE  AsData(disk[DataOf(k)]).nextData
                    = IF k + 1 \in DataNumbers THEN DataOf(k + 1) ELSE 0
  BY DEF OfsLinks
<1> DEFINE n == Count(Hdr.byteSize)
           y == DataOfFile
<1>3. /\ n \in Nat /\ DataNumbers = 0..(n - 1) /\ Owns(vol, free, n, data, ext)
      /\ \A j \in 0..(n - 1) : DataOf(j) = data[j]
  BY <1>1, <1>2, NumbersNow
<1>4. FileIs(vol, Hdr, ExtsOfFile, y, free, data, ext, bytes)
  BY <1>1, <1>2, NowIs
<1>5. Holds(vol, y, n, data, bytes)
  BY <1>4 DEF FileIs
<1> HIDE DEF n, y
<1>6. data[k] \in vol.sectors /\ data[k] # 0
  BY <1>1, <1>3, Sector
<1>7. y[data[k]].nextData = LinkOf(n, data, k)
  BY <1>3, <1>5 DEF Holds, OFS
<1>8. file = Closed
  BY <1>2 DEF HasFile, IsClosed, World
<1>9. file.curDataPtr = 0
  BY <1>8 DEF Closed
<1>10. y[data[k]] = AsData(disk[data[k]])
  BY <1>6, <1>9 DEF y, DataOfFile, DataNow
<1>11. LinkOf(n, data, k) = IF k + 1 \in DataNumbers THEN DataOf(k + 1) ELSE 0
  BY <1>3 DEF LinkOf
<1>12. DataOf(k) = data[k]
  BY <1>3
<1> QED
  BY <1>7, <1>10, <1>11, <1>12

\* Blocks, the header and the counters of an open file stay in their ranges.
LEMMA FileTypes ==
  ASSUME FileInv
  PROVE  TypeOK
<1>1. vol \in Volumes
  BY DEF FileInv
<1>2. PICK data, ext, bytes : HasFile(vol, World, data, ext, bytes)
  BY DEF FileInv
<1>3. disk \in DiskSet(vol) /\ header \in HeaderSet(vol) /\ free \subseteq vol.sectors
  BY <1>1, <1>2, NowIs
<1>4. BlockSize \in Nat \ {0} /\ vol.maxDatablk \in Nat \ {0} /\ vol.maxSize \in Nat
  BY <1>1, VolumeParts
<1>5. /\ file.pos \in 0..MaxSize /\ file.posInDataBlk \in 0..BlockSize
      /\ file.posInExtBlk \in 0..MaxDatablk /\ file.nDataBlock \in Nat
  <2> DEFINE w == World
  <2>1. w.file = file
    BY DEF World
  <2> HIDE DEF w
  <2>2. CASE ~file.open
    <3>1. file = Closed
      BY <1>2, <2>1, <2>2 DEF HasFile, IsClosed, w
    <3>2. /\ file.pos = 0 /\ file.posInDataBlk = 0 /\ file.posInExtBlk = 0
          /\ file.nDataBlock = 0
      BY <3>1 DEF Closed
    <3> QED
      BY <1>4, <3>2 DEF MaxSize, MaxDatablk
  <2>3. CASE file.open
    <3>1. IsFile(vol, w, data, ext, bytes)
      BY <1>2, <2>1, <2>3 DEF HasFile, w
    <3>2. w \in WorldSet(vol)
      BY <3>1 DEF IsFile
    <3>3. w.file \in FileSet(vol)
      BY <1>1, <3>2, WorldParts
    <3> QED
      BY <2>1, <3>3 DEF FileSet, MaxSize, MaxDatablk
  <2> QED
    BY <2>2, <2>3
<1>6. /\ disk \in [Sectors \cup {0} ->
           {Zero, Boot}
           \cup [kind : {"data"}, bytes : [Offsets -> Bytes],
                 nextData : Sectors \cup {0}, dataSize : 0..BlockSize]
           \cup [kind : {"ext"}, headerKey : Sectors,
                 dataBlocks : [Entries -> Sectors \cup {0}],
                 highSeq : 0..MaxDatablk, extension : Sectors \cup {0}]]
      /\ header \in [byteSize : 0..MaxSize, dataBlocks : [Entries -> Sectors \cup {0}],
                     firstData : Sectors \cup {0}, highSeq : 0..MaxDatablk,
                     extension : Sectors \cup {0}]
  BY <1>3, Zenon DEF DiskSet, DataSet, ExtSet, EntrySet, HeaderSet, Sectors, Entries, MaxDatablk,
                     MaxSize
<1> QED
  BY <1>3, <1>5, <1>6 DEF TypeOK, Sectors

-----------------------------------------------------------------------------
(* Theorems. They are about programs that avoid the defects of this code    *)
(* with open files.                                                         *)

\* Blocks, the header and the counters of an open file stay in their ranges.
THEOREM FileTypeOK ==
  ASSUME CarefulFiles
  PROVE  Spec => []TypeOK
<1>1. FileInv => TypeOK
  BY FileTypes
<1> QED
  BY <1>1, FileIsKept, PTL

\* Every block a file needs is its own, and the bitmap has exactly these marked
\* as used: extending, truncating and failing half-way lose and share none.
THEOREM FileOwnsItsBlocks ==
  ASSUME CarefulFiles
  PROVE  Spec => []OwnsItsBlocks
<1>1. FileInv => OwnsItsBlocks
  BY BlocksOwned
<1> QED
  BY <1>1, FileIsKept, PTL

\* adfFileFlush writes no block but those of the file.
THEOREM FileFlushesOwnBlocks ==
  ASSUME CarefulFiles
  PROVE  Spec => []FlushesOwnBlocks
<1>1. FileInv => FlushesOwnBlocks
  BY OwnBlocksFlushed
<1> QED
  BY <1>1, FileIsKept, PTL

\* A data block that differs from the disk is marked until it is written.
THEOREM FileChangesAreMarked ==
  ASSUME CarefulFiles
  PROVE  Spec => []ChangesAreMarked
<1>1. FileInv => ChangesAreMarked
  BY ChangesMarked
<1> QED
  BY <1>1, FileIsKept, PTL

\* The data blocks of a closed OFS file are linked in the order of the file.
THEOREM FileOfsLinks ==
  ASSUME CarefulFiles
  PROVE  Spec => []OfsLinks
<1>1. FileInv => OfsLinks
  BY BlocksLinked
<1> QED
  BY <1>1, FileIsKept, PTL

\* adfFileTruncate removes the blocks that are listed behind the new end: it
\* finds no entry that is 0 among them.
THEOREM FileRemovesListedBlocks ==
  ASSUME CarefulFiles
  PROVE  Spec => RemovesListedBlocks
<1>1. FileInv => TruncatesListed
  <2> SUFFICES ASSUME FileInv, NEW size \in vol.truncateTo, adfFileTruncate(size)
               PROVE  0 \notin BlocksToRemove(World, size).data
    BY DEF TruncatesListed
  <2>1. vol \in Volumes
    BY DEF FileInv
  <2>2. PICK data, ext, bytes : HasFile(vol, World, data, ext, bytes)
    BY DEF FileInv
  <2>3. /\ SmallOfs(vol) /\ size % BlockSize # 0
        /\ "flush_to_truncate" \in Habits /\ "reopen_to_truncate" \in Habits
    BY <2>1 DEF CarefulFiles
  <2>4. size \in Nat
    BY <2>1, VolumeParts
  <2>5. World.file.open
    BY DEF adfFileTruncate, World
  <2>6. IsFile(vol, World, data, ext, bytes)
    BY <2>2, <2>5 DEF HasFile
  <2> QED
    BY <2>1, <2>3, <2>4, <2>6, TruncateIs
<1>2. FileInv => [TruncatesListed]_vars
  BY <1>1
<1> QED
  BY <1>2, FileIsKept, PTL DEF RemovesListedBlocks

\* The text of a file has its length, and the texts of shorter files are its
\* beginnings.
LEMMA TextIs ==
  ASSUME NEW size \in Nat, NEW bytes, NEW text, text = Text(size, bytes)
  PROVE  Len(text) = size /\ \A m \in 0..size : SubSeq(text, 1, m) = Text(m, bytes)
<1> DEFINE at == [i \in Nat |-> bytes[(i - 1) \div BlockSize][(i - 1) % BlockSize]]
<1>1. text = [i \in 1..size |-> at[i]]
  BY DEF Text
<1>2. \A m \in 0..size : Text(m, bytes) = [i \in 1..m |-> at[i]]
  BY DEF Text
<1> HIDE DEF at
<1> DEFINE S == {at[i] : i \in 1..size}
<1>3. text \in Seq(S)
  BY <1>1
<1>4. Len(text) = size
  BY <1>1, <1>3
<1>5. ASSUME NEW m \in 0..size
      PROVE  SubSeq(text, 1, m) = [i \in 1..m |-> at[i]]
  BY <1>1, <1>3, <1>4
<1> QED
  BY <1>2, <1>4, <1>5

\* Every state has one content, that of each way to see it as a file.
HasContent ==
  \A data, ext, bytes : HasFile(vol, World, data, ext, bytes) => Content = TextOf(World, bytes)

\* A file has one content.
LEMMA ContentOfFile ==
  ASSUME FileInv
  PROVE  HasContent
<1> SUFFICES ASSUME NEW data, NEW ext, NEW bytes, HasFile(vol, World, data, ext, bytes)
             PROVE  Content = TextOf(World, bytes)
  BY DEF HasContent
<1>1. vol \in Volumes
  BY DEF FileInv
<1> QED
  BY <1>1, ContentIs

\* A step from a file to another is one of a sequence of bytes.
LEMMA StepIs ==
  ASSUME NEW bytes, NEW bytes2, SizeOf(World) \in Nat, Operates(World, World', bytes, bytes2),
         Content = TextOf(World, bytes), Content' = TextOf(World', bytes2)
  PROVE  Abstract!Next
<1> DEFINE w == World
           r == World'
           a == Content
           a2 == Content'
           size == SizeOf(World)
<1>1. w.file = file /\ r.file = file'
  BY DEF World
<1>2. /\ a = Text(size, bytes) /\ size \in Nat
      /\ \/ OpensFile(w, r, a, a2) \/ ClosesFile(w, r, a, a2) \/ MovesIn(w, r, a, a2)
         \/ Writes(w, r, a, a2) \/ Truncates(w, r, a2, bytes)
  BY DEF Operates, TextOf
<1>3. SizeOf(w) = size
  OBVIOUS
<1> HIDE DEF w, r, size, a, a2
<1>4. Len(a) = size /\ \A m \in 0..size : SubSeq(a, 1, m) = Text(m, bytes)
  BY <1>2, TextIs
<1>5. CASE OpensFile(w, r, a, a2)
  <2>1. Abstract!Open
    BY <1>1, <1>5 DEF OpensFile, Abstract!Open, a, a2
  <2> QED
    BY <2>1 DEF Abstract!Next
<1>6. CASE ClosesFile(w, r, a, a2)
  <2>1. Abstract!Close
    BY <1>1, <1>6 DEF ClosesFile, Abstract!Close, a, a2
  <2> QED
    BY <2>1 DEF Abstract!Next
<1>7. CASE MovesIn(w, r, a, a2)
  <2>1. file.open /\ file'.open /\ file'.pos \in 0..Len(a) /\ a2 = a
    BY <1>1, <1>3, <1>4, <1>7 DEF MovesIn
  <2>2. Abstract!Seek
    BY <2>1 DEF Abstract!Seek, a, a2
  <2> QED
    BY <2>2 DEF Abstract!Next
<1>8. CASE Writes(w, r, a, a2)
  <2>1. file.open /\ file'.open
    BY <1>1, <1>8 DEF Writes
  <2>2. \E m \in 1..BlockSize : \E b \in Bytes :
          /\ file'.pos = file.pos + m
          /\ a2 = PutText(a, Extended(Len(a), file.pos + m), file.pos, m, b)
    BY <1>1, <1>3, <1>4, <1>8 DEF Writes
  <2>3. PICK m \in 1..BlockSize, b \in Bytes :
          /\ file'.pos = file.pos + m
          /\ a2 = PutText(a, Extended(Len(a), file.pos + m), file.pos, m, b)
    BY <2>2
  <2>4. a2 = [i \in 1..(IF file.pos + m > Len(a) THEN file.pos + m ELSE Len(a)) |->
                IF i \in (file.pos + 1)..(file.pos + m) THEN b ELSE a[i]]
    BY <2>3, Zenon DEF PutText, Extended
  <2>5. Abstract!Write(m, b)
    BY <2>1, <2>3, <2>4 DEF Abstract!Write, a, a2
  <2> QED
    BY <2>5 DEF Abstract!Next
<1>9. CASE Truncates(w, r, a2, bytes)
  <2>1. /\ file.open /\ file'.open /\ file'.pos \in 0..(Len(a) - 1)
        /\ a2 = Text(file'.pos, bytes)
    BY <1>1, <1>3, <1>4, <1>9 DEF Truncates
  <2>2. file'.pos \in 0..size
    BY <1>2, <1>4, <2>1
  <2>3. a2 = SubSeq(a, 1, file'.pos)
    BY <1>4, <2>1, <2>2
  <2>4. Abstract!Truncate
    BY <2>1, <2>3 DEF Abstract!Truncate, a, a2
  <2> QED
    BY <2>4 DEF Abstract!Next
<1> QED
  BY <1>2, <1>5, <1>6, <1>7, <1>8, <1>9

\* Every step of the file is one of a sequence of bytes, or changes nothing its
\* user sees.
LEMMA AbstractStep ==
  ASSUME CarefulFiles, FileInv, HasContent, HasContent', [Next]_vars
  PROVE  [Abstract!Next]_Abstract!vars
<1>1. vol' = vol /\ vol \in Volumes
  BY DEF Next, vars, FileInv
<1>2. PICK data, ext, bytes : HasFile(vol, World, data, ext, bytes)
  BY DEF FileInv
<1>3. Content = TextOf(World, bytes)
  BY <1>2 DEF HasContent
<1>4. Closed' = Closed
  BY <1>1 DEF Closed, NewHeader, NoEntries, Entries, MaxDatablk
<1>5. ASSUME NEW data2, NEW ext2, NEW bytes2, HasFile(vol, World', data2, ext2, bytes2)
      PROVE  Content' = TextOf(World', bytes2)
  <2>1. HasFile(vol, World, data2, ext2, bytes2)'
    BY <1>1, <1>4, <1>5 DEF HasFile, IsClosed
  <2>2. Content' = TextOf(World, bytes2)'
    BY <2>1 DEF HasContent
  <2> QED
    BY <2>2 DEF TextOf, SizeOf
<1>6. CASE Next
  <2>1. Leads(vol, World, World', bytes)
    BY <1>1, <1>2, <1>6, OperationIs
  <2>2. PICK data2, ext2, bytes2 :
          HasFile(vol, World', data2, ext2, bytes2) /\ Operates(World, World', bytes, bytes2)
    BY <2>1 DEF Leads
  <2>3. Content' = TextOf(World', bytes2)
    BY <1>5, <2>2
  <2>4. SizeOf(World) \in Nat
    <3>1. Hdr.byteSize = SizeOf(World)
      BY <1>1, <1>2, NowIs
    <3>2. Hdr.byteSize \in Nat
      BY <1>1, <1>2, NumbersNow
    <3> QED
      BY <3>1, <3>2
  <2> QED
    BY <1>3, <2>2, <2>3, <2>4, StepIs
<1>7. CASE UNCHANGED vars
  <2>1. World' = World /\ file' = file
    BY <1>7 DEF vars, World
  <2>2. Content' = TextOf(World', bytes)
    BY <1>2, <1>5, <2>1
  <2>3. Content' = Content
    BY <1>3, <2>1, <2>2
  <2> QED
    BY <2>1, <2>3 DEF Abstract!vars
<1> QED
  BY <1>6, <1>7

\* What is written is read back, wherever the block boundaries are and whichever
\* blocks are in memory, also after the file was closed and opened again: an open
\* file implements a sequence of bytes with a position.
THEOREM FileIsByteSequence ==
  ASSUME CarefulFiles
  PROVE  Spec => IsByteSequence
<1>1. Init => Abstract!Init
  <2> SUFFICES ASSUME Init
               PROVE  Abstract!Init
    OBVIOUS
  <2>1. file = Closed /\ header = NewHeader
    BY DEF Init
  <2>2. file.pos = 0 /\ file.open = FALSE
    BY <2>1 DEF Closed
  <2>3. Hdr.byteSize = 0
    BY <2>1, <2>2 DEF Hdr, NewHeader
  <2> DEFINE Byte(i) == BlockNow((i - 1) \div BlockSize).bytes[(i - 1) % BlockSize]
  <2>4. Content = [i \in 1..Hdr.byteSize |-> Byte(i)]
    BY Zenon DEF Content
  <2> HIDE DEF Byte
  <2>5. Content = <<>>
    BY <2>3, <2>4
  <2> QED
    BY <2>2, <2>5 DEF Abstract!Init
<1>2. FileInv => HasContent
  BY ContentOfFile
<1>3. FileInv /\ HasContent /\ HasContent' /\ [Next]_vars => [Abstract!Next]_Abstract!vars
  BY AbstractStep
<1> QED
  BY <1>1, <1>2, <1>3, FileIsKept, PTL DEF Spec, IsByteSequence, Abstract!Spec

\* Reading changes no byte of the file, when a changed block is flushed before
\* adfFileRead reads past its end; the code itself does not see to that
\* (adf_file.c:293).
THEOREM FileReadKeepsContent ==
  ASSUME CarefulFiles
  PROVE  Spec => ReadKeepsContent
<1>1. FileInv => HasContent
  BY ContentOfFile
<1>2. FileInv /\ HasContent /\ HasContent' /\ [Next]_vars =>
        [(\E n \in 1..BlockSize : ReadChunk(n)) => Content' = Content]_vars
  <2> SUFFICES ASSUME FileInv, HasContent, HasContent', Next,
                      NEW n \in 1..BlockSize, ReadChunk(n)
               PROVE  Content' = Content
    OBVIOUS
  <2>1. vol' = vol /\ vol \in Volumes
    BY DEF Next, FileInv
  <2>2. SmallOfs(vol) /\ "flush_to_read" \in Habits
    BY <2>1 DEF CarefulFiles
  <2>3. PICK data, ext, bytes : HasFile(vol, World, data, ext, bytes)
    BY DEF FileInv
  <2>4. World.file.open /\ World.file = file /\ World'.file = file'
    BY DEF ReadChunk, World
  <2>5. IsFile(vol, World, data, ext, bytes)
    BY <2>3, <2>4 DEF HasFile
  <2>6. IsFile(vol, World', data, ext, bytes) /\ file'.fileHdr = file.fileHdr
    BY <2>1, <2>2, <2>5, ReadIs
  <2>7. Closed' = Closed
    BY <2>1 DEF Closed, NewHeader, NoEntries, Entries, MaxDatablk
  <2> DEFINE w == World
             r == World'
  <2>8. w.file = file /\ r.file = file'
    BY <2>4
  <2> HIDE DEF w, r
  <2>9. IsFile(vol, w, data, ext, bytes) /\ IsFile(vol, r, data, ext, bytes)
    BY <2>5, <2>6 DEF w, r
  <2>10. HasFile(vol, r, data, ext, bytes) /\ SizeOf(r) = SizeOf(w)
    BY <2>1, <2>6, <2>8, <2>9, PosInFile, OpenOrClosed
  <2>11. HasFile(vol, World, data, ext, bytes)'
    BY <2>1, <2>7, <2>10 DEF HasFile, IsClosed, r
  <2>12. Content' = TextOf(World, bytes)'
    BY <2>11 DEF HasContent
  <2>13. Content = TextOf(World, bytes)
    BY <2>3 DEF HasContent
  <2>14. SizeOf(World)' = SizeOf(World)
    BY <2>10 DEF SizeOf, w, r
  <2> QED
    BY <2>12, <2>13, <2>14 DEF TextOf
<1> QED
  BY <1>1, <1>2, FileIsKept, PTL DEF Spec, ReadKeepsContent

=============================================================================
