-------------------------- MODULE AdfCache_proofs --------------------------
(***************************************************************************)
(* The directory cache lists what the headers of the entries say, and uses *)
(* the blocks the bitmap says are used, whatever the size of the blocks,   *)
(* the number of entries and the lengths of their records: proofs about    *)
(* AdfCache for programs with the habits of Careful.                       *)
(***************************************************************************)
EXTENDS AdfCache, Numbers_proofs, FunctionTheorems

-----------------------------------------------------------------------------
(* Records in a block *)

RecordSet == [header : Entries, len : Lengths, value : Values]
FirstCell(r) ==
  [header |-> r.header, len |-> r.len, value |-> r.value, cell |-> 0]

\* rec gives the records of the entries X.
Records(X, rec) ==
  \A e \in X : e \in Entries /\ rec[e] \in RecordSet /\ rec[e].header = e

\* Records of the entries X one after another: number n is that of h[n], at
\* off[n].
Packed(m, X, rec, h, off) ==
  /\ m \in Nat
  /\ off[0] = 0
  /\ \A n \in 0..m : off[n] \in 0..Area
  /\ \A n \in 0..(m - 1) : h[n] \in X /\ off[n + 1] = off[n] + rec[h[n]].len
  /\ \A n, j \in 0..(m - 1) : h[n] = h[j] => n = j
  /\ \A e \in X : \E n \in 0..(m - 1) : h[n] = e

FirstCells(records, m, rec, h, off) ==
  \A n \in 0..(m - 1) : records[off[n]] = FirstCell(rec[h[n]])

\* Block b holds the records of the entries X.
BlockLists(b, X, rec) ==
  \E h, off : /\ Packed(b.recordsNb, X, rec, h, off)
              /\ FirstCells(b.records, b.recordsNb, rec, h, off)

IsBlock(b) ==
  /\ DOMAIN b = {"recordsNb", "records", "nextDirC"}
  /\ DOMAIN b.records = Cells
  /\ b.nextDirC \in Blocks \cup {0}

\* b2 is the block b with the records of the entries X.
Rewritten(b, b2, X, rec) ==
  IsBlock(b2) /\ b2.nextDirC = b.nextDirC /\ BlockLists(b2, X, rec)

\* Lengths and the parts of records.
LEMMA RecordParts ==
  ASSUME NEW r \in RecordSet
  PROVE  /\ r.len \in Lengths /\ r.len \in Nat /\ 1 <= r.len /\ r.len <= Area
         /\ r = [header |-> r.header, len |-> r.len, value |-> r.value]
         /\ FirstCell(r).header = r.header /\ FirstCell(r).len = r.len
         /\ FirstCell(r).value = r.value /\ FirstCell(r).cell = 0
         /\ FirstCell(r) # Zero
<1>1. r.len \in Lengths
  BY DEF RecordSet
<1>2. r.len \in 1..Area /\ Area \in Nat
  BY <1>1, CacheAssumption
<1>3. r = [header |-> r.header, len |-> r.len, value |-> r.value]
  BY DEF RecordSet
<1>4. /\ FirstCell(r).header = r.header /\ FirstCell(r).len = r.len
      /\ FirstCell(r).value = r.value /\ FirstCell(r).cell = 0
  BY DEF FirstCell
<1>5. FirstCell(r) # Zero
  <2>1. DOMAIN Zero = {"header"} /\ "cell" \in DOMAIN FirstCell(r)
    BY DEF Zero, FirstCell
  <2> QED
    BY <2>1
<1> QED
  BY <1>1, <1>2, <1>3, <1>4, <1>5

\* The record number n is before the record number j when n < j, and there are
\* not more records than cells.
LEMMA OffsetsGrow ==
  ASSUME NEW m, NEW X, NEW rec, Records(X, rec), NEW h, NEW off,
         Packed(m, X, rec, h, off)
  PROVE  /\ \A n \in 0..(m - 1) : \A j \in (n + 1)..m : off[n] + rec[h[n]].len <= off[j]
         /\ m <= Area
<1> /\ m \in Nat /\ Area \in Nat
    /\ \A n \in 0..m : off[n] \in Nat /\ off[n] <= Area
    /\ \A n \in 0..(m - 1) : /\ off[n + 1] = off[n] + rec[h[n]].len
                             /\ rec[h[n]].len \in Nat /\ 1 <= rec[h[n]].len
  <2>1. \A n \in 0..(m - 1) : h[n] \in X /\ off[n + 1] = off[n] + rec[h[n]].len
    BY DEF Packed
  <2>2. \A n \in 0..(m - 1) : rec[h[n]].len \in Nat /\ 1 <= rec[h[n]].len
    BY <2>1, RecordParts DEF Records
  <2>3. m \in Nat /\ \A n \in 0..m : off[n] \in 0..Area
    BY DEF Packed
  <2> QED
    BY <2>1, <2>2, <2>3, CacheAssumption
<1>1. ASSUME NEW n \in 0..(m - 1), NEW j \in (n + 1)..m
      PROVE  off[n] + rec[h[n]].len <= off[j]
  <2> DEFINE I == {x \in Nat : off[n + 1] <= x}
  <2>1. off[n + 1] \in I
    OBVIOUS
  <2>2. \A i \in (n + 1 + 1)..m : off[i - 1] \in I => off[i] \in I
    <3> SUFFICES ASSUME NEW i \in (n + 1 + 1)..m, off[i - 1] \in I PROVE off[i] \in I
      OBVIOUS
    <3>1. i - 1 \in 0..(m - 1) /\ (i - 1) + 1 = i /\ i \in 0..m
      OBVIOUS
    <3>2. off[i] = off[i - 1] + rec[h[i - 1]].len
      BY <3>1
    <3> QED
      BY <3>1, <3>2
  <2> HIDE DEF I
  <2>3. \A i \in (n + 1)..m : off[i] \in I
    <3>1. n + 1 \in Int /\ m \in Int
      OBVIOUS
    <3> QED
      BY <2>1, <2>2, <3>1, RecursionKeeps
  <2> QED
    BY <2>3 DEF I
<1>2. m <= Area
  <2> DEFINE g == [i \in 0..m |-> off[i] - i]
  <2>1. g[0] \in Nat
    BY DEF Packed
  <2>2. \A i \in (0 + 1)..m : g[i - 1] \in Nat => g[i] \in Nat
    <3> SUFFICES ASSUME NEW i \in (0 + 1)..m, g[i - 1] \in Nat PROVE g[i] \in Nat
      OBVIOUS
    <3>1. i - 1 \in 0..(m - 1) /\ (i - 1) + 1 = i /\ i \in 0..m /\ i - 1 \in 0..m
      OBVIOUS
    <3>2. off[i] = off[i - 1] + rec[h[i - 1]].len
      BY <3>1
    <3> QED
      BY <3>1, <3>2
  <2>3. g[m] = off[m] - m /\ off[m] \in Nat /\ off[m] <= Area
    OBVIOUS
  <2> HIDE DEF g
  <2>4. \A i \in 0..m : g[i] \in Nat
    <3>1. 0 \in Int /\ m \in Int
      OBVIOUS
    <3> QED
      BY <2>1, <2>2, <3>1, RecursionKeeps, Zenon
  <2>5. g[m] \in Nat
    BY <2>4
  <2> QED
    BY <2>3, <2>5
<1> QED
  BY <1>1, <1>2

\* The program finds the record number n of a block at its offset.
LEMMA OffsetIs ==
  ASSUME NEW b, NEW X, NEW rec, Records(X, rec), NEW h, NEW off,
         Packed(b.recordsNb, X, rec, h, off),
         FirstCells(b.records, b.recordsNb, rec, h, off)
  PROVE  /\ \A n \in 0..b.recordsNb : Offset(b, n) = off[n]
         /\ \A n \in Numbers(b) : Readable(b, off[n])
<1> DEFINE m == b.recordsNb
<1>1. m \in Nat
  BY DEF Packed
<1>2. ASSUME NEW n \in 0..(m - 1)
      PROVE  /\ Readable(b, off[n])
             /\ off[n] + b.records[off[n]].len = off[n + 1]
  <2>1. /\ h[n] \in X /\ off[n + 1] = off[n] + rec[h[n]].len
        /\ off[n] \in 0..Area /\ off[n + 1] \in 0..Area
    BY <1>1 DEF Packed
  <2>2. b.records[off[n]] = FirstCell(rec[h[n]])
    BY DEF FirstCells
  <2>3. rec[h[n]] \in RecordSet
    BY <2>1 DEF Records
  <2>4. off[n] \in Cells
    BY <2>1, <2>3, RecordParts, CacheAssumption DEF Cells
  <2> QED
    BY <2>1, <2>2, <2>3, <2>4, RecordParts DEF Readable
<1>3. ASSUME NEW n \in 0..m
      PROVE  Offset(b, n) = off[n]
  <2> DEFINE Next1(x) == IF Readable(b, x) THEN x + b.records[x].len ELSE Area
             Defines(f) == f = [i \in 0..n |-> IF i = 0 THEN 0 ELSE Next1(f[i - 1])]
             at == CHOOSE f : Defines(f)
             g == [i \in 0..n |-> off[i]]
  <2>1. Offset(b, n) = at[n]
    BY DEF Offset
  <2>2. \A i \in 0..n : off[i] = IF i = 0 THEN 0 ELSE Next1(off[i - 1])
    <3> SUFFICES ASSUME NEW i \in 0..n, i # 0 PROVE off[i] = Next1(off[i - 1])
      BY DEF Packed
    <3>1. i - 1 \in 0..(m - 1) /\ (i - 1) + 1 = i
      BY <1>1
    <3> QED
      BY <1>2, <3>1
  <2> HIDE DEF Next1
  <2>3. Defines(g)
    <3>1. \A i \in 0..n : g[i] = IF i = 0 THEN 0 ELSE Next1(g[i - 1])
      <4> SUFFICES ASSUME NEW i \in 0..n PROVE g[i] = IF i = 0 THEN 0 ELSE Next1(g[i - 1])
        OBVIOUS
      <4>1. i # 0 => i - 1 \in 0..n
        BY <1>1
      <4> QED
        BY <2>2, <4>1
    <3>2. g = [i \in 0..n |-> g[i]]
      OBVIOUS
    <3> HIDE DEF g
    <3> QED
      BY <3>1, <3>2
  <2>4. Defines(at)
    <3> HIDE DEF Defines, g
    <3> QED
      BY <2>3
  <2> HIDE DEF at
  <2>5. \A i \in 0..n : at[i] = IF i = 0 THEN 0 ELSE Next1(at[i - 1])
    BY <2>4
  <2>6. \A i \in 0..n : at[i] = off[i]
    <3>1. at[0] = off[0]
      BY <1>1, <2>2, <2>5
    <3>2. \A i \in (0 + 1)..n : at[i - 1] = off[i - 1] => at[i] = off[i]
      <4> SUFFICES ASSUME NEW i \in (0 + 1)..n, at[i - 1] = off[i - 1] PROVE at[i] = off[i]
        OBVIOUS
      <4>1. i \in 0..n /\ i # 0
        BY <1>1
      <4> QED
        BY <2>2, <2>5, <4>1
    <3>3. n \in Int
      BY <1>1
    <3> HIDE DEF Defines
    <3> QED
      BY <3>1, <3>2, <3>3, RecursionSame
  <2>7. n \in 0..n
    BY <1>1
  <2> QED
    BY <2>1, <2>6, <2>7
<1>4. Numbers(b) = 0..(m - 1)
  BY DEF Numbers
<1> QED
  BY <1>2, <1>3, <1>4

\* Reading block b gives the records of the entries X, number n that of h[n].
Reads(b, X, rec, h) ==
  /\ \A n \in Numbers(b) : /\ h[n] \in X /\ Readable(b, Offset(b, n))
                           /\ RecordAt(b, n) = rec[h[n]]
  /\ \A n, j \in Numbers(b) : h[n] = h[j] => n = j
  /\ \A e \in X : \E n \in Numbers(b) : h[n] = e

\* A block that holds records is read as these.
LEMMA BlockRead ==
  ASSUME NEW b, NEW X, NEW rec, Records(X, rec), BlockLists(b, X, rec)
  PROVE  /\ b.recordsNb \in Nat /\ b.recordsNb <= Area
         /\ AllReadable(b)
         /\ \E h : Reads(b, X, rec, h)
<1>1. PICK h, off : /\ Packed(b.recordsNb, X, rec, h, off)
                    /\ FirstCells(b.records, b.recordsNb, rec, h, off)
  BY DEF BlockLists
<1>2. /\ \A n \in 0..b.recordsNb : Offset(b, n) = off[n]
      /\ \A n \in Numbers(b) : Readable(b, off[n])
  BY <1>1, OffsetIs
<1>3. b.recordsNb \in Nat /\ b.recordsNb <= Area
  BY <1>1, OffsetsGrow DEF Packed
<1>4. Numbers(b) = 0..(b.recordsNb - 1) /\ \A n \in Numbers(b) : n \in 0..b.recordsNb
  BY <1>3 DEF Numbers
<1>5. \A n \in Numbers(b) : Readable(b, Offset(b, n))
  BY <1>2, <1>4
<1>6. ASSUME NEW n \in Numbers(b)
      PROVE  h[n] \in X /\ RecordAt(b, n) = rec[h[n]]
  <2>1. h[n] \in X
    BY <1>1, <1>4 DEF Packed
  <2>2. b.records[Offset(b, n)] = FirstCell(rec[h[n]])
    BY <1>1, <1>2, <1>4 DEF FirstCells
  <2>3. rec[h[n]] \in RecordSet
    BY <2>1 DEF Records
  <2> QED
    BY <2>1, <2>2, <2>3, RecordParts DEF RecordAt
<1>7. /\ \A n, j \in Numbers(b) : h[n] = h[j] => n = j
      /\ \A e \in X : \E n \in Numbers(b) : h[n] = e
  BY <1>1, <1>4 DEF Packed
<1>8. Reads(b, X, rec, h)
  BY <1>5, <1>6, <1>7 DEF Reads
<1> QED
  BY <1>3, <1>5, <1>8 DEF AllReadable

\* A block has as many records as there are entries it holds.
LEMMA BlockSize ==
  ASSUME NEW b, NEW X, NEW rec, Records(X, rec), BlockLists(b, X, rec)
  PROVE  IsFiniteSet(X) /\ Cardinality(X) = b.recordsNb
<1>1. PICK h, off : Packed(b.recordsNb, X, rec, h, off)
  BY DEF BlockLists
<1> DEFINE m == b.recordsNb
           f == [n \in 0..(m - 1) |-> h[n]]
<1>2. m \in Nat
  BY <1>1 DEF Packed
<1>3. f \in Bijection(0..(m - 1), X)
  <2>1. /\ \A n \in 0..(m - 1) : h[n] \in X
        /\ \A n, j \in 0..(m - 1) : h[n] = h[j] => n = j
        /\ \A e \in X : \E n \in 0..(m - 1) : h[n] = e
    BY <1>1 DEF Packed
  <2> HIDE DEF m
  <2>2. f \in [0..(m - 1) -> X] /\ \A n, j \in 0..(m - 1) : f[n] = f[j] => n = j
    BY <2>1
  <2>3. \A e \in X : \E n \in 0..(m - 1) : f[n] = e
    BY <2>1
  <2>4. f \in Injection(0..(m - 1), X) /\ f \in Surjection(0..(m - 1), X)
    BY <2>2, <2>3, Fun_IsInj, Fun_IsSurj
  <2> QED
    BY <2>4 DEF Bijection
<1>4. ExistsBijection(0..(m - 1), X)
  BY <1>3 DEF ExistsBijection
<1>5. IsFiniteSet(0..(m - 1)) /\ Cardinality(0..(m - 1)) = m
  <2>1. 0 \in Int /\ m - 1 \in Int
    BY <1>2
  <2> HIDE DEF m
  <2> QED
    BY <1>2, <2>1, FS_Interval
<1> HIDE DEF m, f
<1>6. IsFiniteSet(X) /\ Cardinality(X) = m
  BY <1>4, <1>5, FS_Bijection
<1> QED
  BY <1>6 DEF m

\* What block b holds depends on its records and on those of X.
LEMMA BlockSame ==
  ASSUME NEW b, NEW X, NEW rec, BlockLists(b, X, rec),
         NEW b2, b2.recordsNb = b.recordsNb, b2.records = b.records,
         NEW rec2, \A e \in X : rec2[e] = rec[e]
  PROVE  BlockLists(b2, X, rec2)
<1>1. PICK h, off : /\ Packed(b.recordsNb, X, rec, h, off)
                    /\ FirstCells(b.records, b.recordsNb, rec, h, off)
  BY DEF BlockLists
<1>2. Packed(b2.recordsNb, X, rec2, h, off)
  BY <1>1 DEF Packed
<1>3. FirstCells(b2.records, b2.recordsNb, rec2, h, off)
  BY <1>1 DEF FirstCells, Packed
<1> QED
  BY <1>2, <1>3 DEF BlockLists

\* An empty block holds nothing.
LEMMA BlockEmpty ==
  ASSUME NEW rec
  PROVE  /\ IsBlock(EmptyBlock) /\ EmptyBlock.nextDirC = 0
         /\ BlockLists(EmptyBlock, {}, rec)
<1>1. IsBlock(EmptyBlock) /\ EmptyBlock.nextDirC = 0 /\ EmptyBlock.recordsNb = 0
  BY DEF IsBlock, EmptyBlock
<1> DEFINE off == [n \in {0} |-> 0]
<1>2. Packed(0, {}, rec, <<>>, off)
  BY CacheAssumption DEF Packed
<1>3. FirstCells(EmptyBlock.records, 0, rec, <<>>, off)
  BY DEF FirstCells
<1> QED
  BY <1>1, <1>2, <1>3 DEF BlockLists

EndOf(b) == Offset(b, b.recordsNb)
RoomFor(b, r) == EndOf(b) + r.len <= Area

\* Block b with the record r behind the last one.
Appended(b, r) ==
  [b EXCEPT !.records = adfPutCacheEntry(b.records, EndOf(b), r), !.recordsNb = @ + 1]

\* A record that is put behind the last one.
LEMMA BlockPut ==
  ASSUME NEW b, NEW X, NEW rec, NEW x, NEW r, r = rec[x],
         IsBlock(b), BlockLists(b, X, rec), x \notin X, Records(X \cup {x}, rec),
         RoomFor(b, r), NEW b2, b2 = Appended(b, r)
  PROVE  Rewritten(b, b2, X \cup {x}, rec)
<1> DEFINE end == EndOf(b)
<1>1. PICK h, off : /\ Packed(b.recordsNb, X, rec, h, off)
                    /\ FirstCells(b.records, b.recordsNb, rec, h, off)
  BY DEF BlockLists
<1>2. Records(X, rec) /\ rec[x] \in RecordSet
  BY DEF Records
<1>3. \A n \in 0..b.recordsNb : Offset(b, n) = off[n]
  BY ONLY <1>1, <1>2, OffsetIs
<1> DEFINE m == b.recordsNb
<1>4. m \in Nat /\ end = off[m] /\ end \in Nat
  <2>1. m \in Nat /\ m \in 0..m
    BY <1>1 DEF Packed
  <2>2. end = off[m]
    BY <1>3, <2>1 DEF EndOf
  <2>3. off[m] \in 0..Area
    BY <1>1, <2>1 DEF Packed
  <2> QED
    BY <2>1, <2>2, <2>3, CacheAssumption, SMTT(30)
<1>5. r.len \in Nat /\ 1 <= r.len /\ Area \in Nat /\ end + r.len <= Area
  BY <1>2, RecordParts, CacheAssumption DEF RoomFor
<1>6. /\ b2.recordsNb = m + 1 /\ b2.nextDirC = b.nextDirC
      /\ b2.records = adfPutCacheEntry(b.records, end, r) /\ IsBlock(b2)
  <2>1. DOMAIN adfPutCacheEntry(b.records, end, r) = Cells
    BY DEF adfPutCacheEntry
  <2>2. "records" \in DOMAIN b /\ "recordsNb" \in DOMAIN b /\ "nextDirC" \in DOMAIN b
    BY DEF IsBlock
  <2>3. /\ b2.recordsNb = m + 1 /\ b2.nextDirC = b.nextDirC /\ DOMAIN b2 = DOMAIN b
        /\ b2.records = adfPutCacheEntry(b.records, end, r)
    BY <2>2 DEF Appended
  <2> QED
    BY <2>1, <2>3 DEF IsBlock
<1>7. \A i \in Cells : /\ i < end => b2.records[i] = b.records[i]
                       /\ i = end => b2.records[i] = FirstCell(r)
  <2> SUFFICES ASSUME NEW i \in Cells
               PROVE  /\ i < end => b2.records[i] = b.records[i]
                      /\ i = end => b2.records[i] = FirstCell(r)
    OBVIOUS
  <2>1. i \in Int /\ end + r.len - 1 \in Int
    BY <1>4, <1>5 DEF Cells
  <2>2. b2.records[i] = IF i \in end..(end + r.len - 1)
          THEN [header |-> r.header, len |-> r.len, value |-> r.value, cell |-> i - end]
          ELSE b.records[i]
    BY <1>6 DEF adfPutCacheEntry
  <2>3. i < end => i \notin end..(end + r.len - 1)
    BY <1>4, <1>5, <2>1
  <2>4. i = end => i \in end..(end + r.len - 1) /\ i - end = 0
    BY <1>4, <1>5, <2>1
  <2> QED
    BY <2>2, <2>3, <2>4 DEF FirstCell
<1> DEFINE h2 == [n \in 0..m |-> IF n = m THEN x ELSE h[n]]
           off2 == [n \in 0..(m + 1) |-> IF n = m + 1 THEN end + r.len ELSE off[n]]
<1>8. /\ \A n \in 0..m : h2[n] = IF n = m THEN x ELSE h[n]
      /\ \A n \in 0..(m + 1) : off2[n] = IF n = m + 1 THEN end + r.len ELSE off[n]
  OBVIOUS
<1>9. /\ off[0] = 0 /\ \A n \in 0..m : off[n] \in 0..Area
      /\ \A n \in 0..(m - 1) : h[n] \in X /\ off[n + 1] = off[n] + rec[h[n]].len
      /\ \A n, j \in 0..(m - 1) : h[n] = h[j] => n = j
      /\ \A e \in X : \E n \in 0..(m - 1) : h[n] = e
      /\ \A n \in 0..(m - 1) : b.records[off[n]] = FirstCell(rec[h[n]])
  BY <1>1 DEF Packed, FirstCells
<1> HIDE DEF h2, off2, m, end
<1>10. Packed(m + 1, X \cup {x}, rec, h2, off2)
  <2>1. off2[0] = 0
    BY <1>4, <1>8, <1>9
  <2>2. \A n \in 0..(m + 1) : off2[n] \in 0..Area
    BY <1>4, <1>5, <1>8, <1>9
  <2>3. ASSUME NEW n \in 0..m
        PROVE  h2[n] \in X \cup {x} /\ off2[n + 1] = off2[n] + rec[h2[n]].len
    <3>1. CASE n = m
      BY <1>4, <1>8, <3>1
    <3>2. CASE n # m
      <4>1. n \in 0..(m - 1) /\ n + 1 \in 0..m /\ n \in 0..(m + 1) /\ n + 1 # m + 1
        BY <1>4, <3>2
      <4>2. off2[n + 1] = off[n + 1] /\ off2[n] = off[n]
        BY <1>4, <1>8, <4>1
      <4> QED
        BY <1>8, <1>9, <3>2, <4>1, <4>2
    <3> QED
      BY <3>1, <3>2
  <2>4. \A n, j \in 0..m : h2[n] = h2[j] => n = j
    <3>1. \A n \in 0..m : n # m => n \in 0..(m - 1) /\ h[n] \in X
      BY <1>4, <1>9
    <3> QED
      BY <1>8, <1>9, <3>1
  <2>5. \A e \in X \cup {x} : \E n \in 0..m : h2[n] = e
    <3>1. m \in 0..m /\ \A n \in 0..(m - 1) : n \in 0..m /\ n # m
      BY <1>4
    <3> QED
      BY <1>8, <1>9, <3>1
  <2>6. m + 1 \in Nat /\ (m + 1) - 1 = m
    BY <1>4
  <2> QED
    BY <2>1, <2>2, <2>3, <2>4, <2>5, <2>6 DEF Packed
<1>11. FirstCells(b2.records, m + 1, rec, h2, off2)
  <2> SUFFICES ASSUME NEW n \in 0..m
               PROVE  b2.records[off2[n]] = FirstCell(rec[h2[n]])
    BY <1>4 DEF FirstCells
  <2>1. CASE n = m
    <3>1. off2[n] = end /\ h2[n] = x
      BY <1>4, <1>8, <2>1
    <3>2. end \in Cells
      BY <1>4, <1>5 DEF Cells
    <3> QED
      BY <1>7, <3>1, <3>2
  <2>2. CASE n # m
    <3>1. n \in 0..(m - 1) /\ off2[n] = off[n] /\ h2[n] = h[n]
      BY <1>4, <1>8, <2>2
    <3>2. off[n] + rec[h[n]].len <= off[m] /\ h[n] \in X
      <4>1. m \in (n + 1)..m
        BY <1>4, <3>1
      <4> QED
        BY <1>1, <1>2, <1>9, <3>1, <4>1, OffsetsGrow DEF m
    <3>3. rec[h[n]].len \in Nat /\ 1 <= rec[h[n]].len
      BY <1>2, <3>2, RecordParts DEF Records
    <3>4. off[n] \in 0..Area /\ off[m] \in 0..Area
      BY <1>4, <1>9, <3>1
    <3>5. off[n] < end /\ off[n] \in Cells
      BY <1>4, <1>5, <3>2, <3>3, <3>4 DEF Cells
    <3> QED
      BY <1>7, <1>9, <3>1, <3>5
  <2> QED
    BY <2>1, <2>2
<1> QED
  BY <1>6, <1>10, <1>11 DEF Rewritten, BlockLists, m

\* Where the m records of block b are.
LaidOut(b, m, X, rec, h, off) ==
  /\ m \in Nat /\ b.recordsNb = m
  /\ off[0] = 0 /\ \A n \in 0..m : off[n] \in Nat /\ off[n] <= Area
  /\ \A n \in 0..(m - 1) :
       /\ h[n] \in X /\ rec[h[n]] \in RecordSet
       /\ rec[h[n]].len \in Nat /\ 1 <= rec[h[n]].len
       /\ off[n + 1] = off[n] + rec[h[n]].len
       /\ b.records[off[n]] = FirstCell(rec[h[n]])
  /\ \A n \in 0..(m - 1) : \A j \in (n + 1)..m : off[n] + rec[h[n]].len <= off[j]
  /\ \A n, j \in 0..(m - 1) : h[n] = h[j] => n = j
  /\ \A e \in X : \E n \in 0..(m - 1) : h[n] = e

\* Every record of a block has its place, where it is read.
LEMMA BlockLaidOut ==
  ASSUME NEW b, NEW X, NEW rec, Records(X, rec), BlockLists(b, X, rec)
  PROVE  \E h, off :
           /\ LaidOut(b, b.recordsNb, X, rec, h, off)
           /\ \A n \in Numbers(b) : /\ n \in 0..(b.recordsNb - 1)
                                    /\ Offset(b, n) = off[n]
                                    /\ RecordAt(b, n) = rec[h[n]]
<1>1. PICK h, off : /\ Packed(b.recordsNb, X, rec, h, off)
                    /\ FirstCells(b.records, b.recordsNb, rec, h, off)
  BY DEF BlockLists
<1>2. /\ \A n \in 0..b.recordsNb : Offset(b, n) = off[n]
      /\ \A n \in Numbers(b) : Readable(b, off[n])
  BY <1>1, OffsetIs
<1>3. \A n \in 0..(b.recordsNb - 1) :
        \A j \in (n + 1)..b.recordsNb : off[n] + rec[h[n]].len <= off[j]
  BY <1>1, OffsetsGrow
<1> DEFINE m == b.recordsNb
<1>4. /\ m \in Nat /\ off[0] = 0 /\ \A n \in 0..m : off[n] \in 0..Area
      /\ \A n \in 0..(m - 1) : h[n] \in X /\ off[n + 1] = off[n] + rec[h[n]].len
      /\ \A n, j \in 0..(m - 1) : h[n] = h[j] => n = j
      /\ \A e \in X : \E n \in 0..(m - 1) : h[n] = e
      /\ \A n \in 0..(m - 1) : b.records[off[n]] = FirstCell(rec[h[n]])
  BY <1>1 DEF Packed, FirstCells
<1>5. \A n \in 0..m : off[n] \in Nat /\ off[n] <= Area
  BY <1>4, CacheAssumption
<1>6. \A n \in 0..(m - 1) : /\ rec[h[n]] \in RecordSet
                            /\ rec[h[n]].len \in Nat /\ 1 <= rec[h[n]].len
  BY <1>4, RecordParts DEF Records
<1>7. LaidOut(b, m, X, rec, h, off)
  BY <1>3, <1>4, <1>5, <1>6 DEF LaidOut
<1>8. ASSUME NEW n \in Numbers(b)
      PROVE  n \in 0..(m - 1) /\ Offset(b, n) = off[n] /\ RecordAt(b, n) = rec[h[n]]
  <2>1. n \in 0..(m - 1) /\ n \in 0..m
    BY <1>4 DEF Numbers
  <2>2. Offset(b, n) = off[n]
    BY <1>2, <2>1
  <2>3. b.records[Offset(b, n)] = FirstCell(rec[h[n]]) /\ rec[h[n]] \in RecordSet
    BY <1>4, <1>6, <2>1, <2>2
  <2> QED
    BY <2>1, <2>2, <2>3, RecordParts DEF RecordAt
<1> QED
  BY <1>7, <1>8

\* A record that is removed from a block.
LEMMA BlockRemoved ==
  ASSUME NEW b, NEW X, NEW rec, IsBlock(b), Records(X, rec), BlockLists(b, X, rec),
         NEW n \in Numbers(b), NEW x, RecordAt(b, n).header = x,
         NEW b2, b2 = Removed(b, n)
  PROVE  x \in X /\ Rewritten(b, b2, X \ {x}, rec)
<1>1. PICK h, off : /\ LaidOut(b, b.recordsNb, X, rec, h, off)
                    /\ n \in 0..(b.recordsNb - 1)
                    /\ Offset(b, n) = off[n] /\ RecordAt(b, n) = rec[h[n]]
  BY BlockLaidOut
<1> DEFINE m == b.recordsNb
           p == off[n]
           len == rec[x].len
<1>2. x = h[n] /\ x \in X /\ RecordAt(b, n).len = len
  BY <1>1 DEF LaidOut, Records
<1>3. /\ b2.recordsNb = m - 1 /\ b2.nextDirC = b.nextDirC /\ IsBlock(b2)
      /\ \A i \in Cells :
           /\ i < p => b2.records[i] = b.records[i]
           /\ i >= p /\ i + len < Area /\ n # m - 1 => b2.records[i] = b.records[i + len]
  <2> DEFINE moved == [i \in Cells |-> IF i < p THEN b.records[i]
                                       ELSE IF i + len < Area THEN b.records[i + len]
                                       ELSE Zero]
             cleared == [i \in Cells |-> IF i \in p..(p + len - 1) THEN Zero
                                         ELSE b.records[i]]
             records == IF n = m - 1 THEN cleared ELSE moved
  <2>1. b2 = [b EXCEPT !.recordsNb = @ - 1, !.records = records]
    BY <1>1, <1>2, Zenon DEF Removed
  <2>2. \A i \in Cells :
          /\ i < p => records[i] = b.records[i]
          /\ i >= p /\ i + len < Area /\ n # m - 1 => records[i] = b.records[i + len]
    <3> SUFFICES ASSUME NEW i \in Cells
                 PROVE  /\ i < p => records[i] = b.records[i]
                        /\ i >= p /\ i + len < Area /\ n # m - 1 =>
                             records[i] = b.records[i + len]
      OBVIOUS
    <3>1. i \in Int /\ p \in Int /\ len \in Int
      BY <1>1, <1>2 DEF Cells, LaidOut
    <3> HIDE DEF p, len
    <3>2. /\ moved[i] = IF i < p THEN b.records[i]
                        ELSE IF i + len < Area THEN b.records[i + len] ELSE Zero
          /\ cleared[i] = IF i \in p..(p + len - 1) THEN Zero ELSE b.records[i]
      OBVIOUS
    <3>3. i < p => i \notin p..(p + len - 1)
      BY <3>1
    <3>4. i >= p => ~(i < p)
      BY <3>1
    <3> QED
      BY <3>2, <3>3, <3>4
  <2>3. DOMAIN records = Cells
    OBVIOUS
  <2> HIDE DEF records
  <2>4. "records" \in DOMAIN b /\ "recordsNb" \in DOMAIN b /\ "nextDirC" \in DOMAIN b
    BY DEF IsBlock
  <2>5. /\ b2.recordsNb = m - 1 /\ b2.nextDirC = b.nextDirC /\ DOMAIN b2 = DOMAIN b
        /\ b2.records = records
    BY <2>1, <2>4
  <2> QED
    BY <2>2, <2>3, <2>5 DEF IsBlock
<1> DEFINE h2 == [j \in 0..(m - 2) |-> IF j < n THEN h[j] ELSE h[j + 1]]
           off2 == [j \in 0..(m - 1) |-> IF j <= n THEN off[j] ELSE off[j + 1] - len]
<1>4. /\ \A j \in 0..(m - 2) : h2[j] = IF j < n THEN h[j] ELSE h[j + 1]
      /\ \A j \in 0..(m - 1) : off2[j] = IF j <= n THEN off[j] ELSE off[j + 1] - len
  OBVIOUS
<1>5. /\ m \in Nat /\ off[0] = 0 /\ \A j \in 0..m : off[j] \in Nat /\ off[j] <= Area
      /\ \A j \in 0..(m - 1) :
           /\ h[j] \in X /\ rec[h[j]].len \in Nat /\ 1 <= rec[h[j]].len
           /\ off[j + 1] = off[j] + rec[h[j]].len
           /\ b.records[off[j]] = FirstCell(rec[h[j]])
      /\ \A i \in 0..(m - 1) : \A j \in (i + 1)..m : off[i] + rec[h[i]].len <= off[j]
      /\ \A i, j \in 0..(m - 1) : h[i] = h[j] => i = j
      /\ \A e \in X : \E j \in 0..(m - 1) : h[j] = e
  BY <1>1 DEF LaidOut
<1>6. n \in 0..(m - 1) /\ n \in Nat /\ n < m /\ p \in Nat /\ len \in Nat /\ 1 <= len
  BY <1>1, <1>2, <1>5
<1>7. \A j \in (n + 1)..m : p + len <= off[j]
  BY <1>2, <1>5, <1>6
<1>8. p = off[n] /\ Area \in Nat
  BY CacheAssumption
<1> HIDE DEF h2, off2, m, p, len
<1>9. Packed(m - 1, X \ {x}, rec, h2, off2)
  <2>1. off2[0] = 0
    BY <1>4, <1>5, <1>6
  <2>2. ASSUME NEW j \in 0..(m - 1)
        PROVE  off2[j] \in 0..Area
    <3>1. CASE j <= n
      BY <1>4, <1>5, <1>8, <3>1
    <3>2. CASE ~(j <= n)
      <4>1. j + 1 \in (n + 1)..m /\ j + 1 \in 0..m
        BY <1>5, <1>6, <3>2
      <4>2. p + len <= off[j + 1] /\ off[j + 1] \in Nat /\ off[j + 1] <= Area
        BY <1>5, <1>7, <4>1
      <4>3. off2[j] = off[j + 1] - len
        BY <1>4, <3>2
      <4> QED
        BY <1>6, <1>8, <4>2, <4>3
    <3> QED
      BY <3>1, <3>2
  <2>3. ASSUME NEW j \in 0..(m - 2)
        PROVE  h2[j] \in X \ {x} /\ off2[j + 1] = off2[j] + rec[h2[j]].len
    <3>1. j \in 0..(m - 1) /\ j + 1 \in 0..(m - 1) /\ j + 2 \in 0..m /\ (j + 1) + 1 = j + 2
      BY <1>5
    <3>2. CASE j < n
      <4>1. h2[j] = h[j] /\ off2[j] = off[j] /\ off2[j + 1] = off[j + 1]
        BY <1>4, <1>6, <3>1, <3>2
      <4>2. h[j] # x
        BY <1>2, <1>5, <1>6, <3>1, <3>2
      <4> QED
        BY <1>5, <3>1, <4>1, <4>2
    <3>3. CASE ~(j < n)
      <4>1. h2[j] = h[j + 1] /\ off2[j + 1] = off[j + 2] - len
        BY <1>4, <1>6, <3>1, <3>3
      <4>2. off2[j] = off[j + 1] - len
        <5>1. CASE j = n
          <6>1. off2[j] = off[n] /\ off[n + 1] = off[n] + len
            BY <1>2, <1>4, <1>5, <1>6, <3>1, <5>1 DEF len
          <6>2. off[n] \in Nat
            BY <1>5, <1>6
          <6> QED
            BY <1>6, <5>1, <6>1, <6>2
        <5>2. CASE j # n
          BY <1>4, <1>6, <3>1, <3>3, <5>2
        <5> QED
          BY <5>1, <5>2
      <4>3. h[j + 1] # x
        BY <1>2, <1>5, <1>6, <3>1, <3>3
      <4>4. /\ h[j + 1] \in X /\ off[j + 2] = off[j + 1] + rec[h[j + 1]].len
            /\ off[j + 1] \in Nat /\ rec[h[j + 1]].len \in Nat
        BY <1>5, <3>1
      <4> QED
        BY <1>6, <4>1, <4>2, <4>3, <4>4
    <3> QED
      BY <3>2, <3>3
  <2>4. ASSUME NEW i \in 0..(m - 2), NEW j \in 0..(m - 2), h2[i] = h2[j]
        PROVE  i = j
    <3>1. \A k \in 0..(m - 2) : k \in 0..(m - 1) /\ k + 1 \in 0..(m - 1) /\ k \in Int
      BY <1>5
    <3>2. (IF i < n THEN i ELSE i + 1) = (IF j < n THEN j ELSE j + 1)
      BY <1>4, <1>5, <2>4, <3>1
    <3> QED
      BY <1>6, <3>1, <3>2
  <2>5. ASSUME NEW e \in X \ {x}
        PROVE  \E j \in 0..(m - 2) : h2[j] = e
    <3>1. PICK j \in 0..(m - 1) : h[j] = e
      BY <1>5
    <3>2. j # n
      BY <1>2, <3>1
    <3>3. CASE j < n
      <4>1. j \in 0..(m - 2)
        BY <1>5, <1>6, <3>3
      <4> QED
        BY <1>4, <3>1, <3>3, <4>1
    <3>4. CASE j > n
      <4>1. j - 1 \in 0..(m - 2) /\ ~(j - 1 < n) /\ (j - 1) + 1 = j
        BY <1>5, <1>6, <3>4
      <4>2. h2[j - 1] = h[j]
        BY <1>4, <4>1
      <4> QED
        BY <3>1, <4>1, <4>2
    <3> QED
      BY <1>6, <3>2, <3>3, <3>4
  <2>6. m - 1 \in Nat /\ (m - 1) - 1 = m - 2
    BY <1>5, <1>6
  <2> QED
    BY <2>1, <2>2, <2>3, <2>4, <2>5, <2>6 DEF Packed
<1>10. FirstCells(b2.records, m - 1, rec, h2, off2)
  <2> SUFFICES ASSUME NEW j \in 0..(m - 2)
               PROVE  b2.records[off2[j]] = FirstCell(rec[h2[j]])
    <3>1. (m - 1) - 1 = m - 2
      BY <1>5
    <3> QED
      BY <3>1 DEF FirstCells
  <2>0. j \in 0..(m - 1) /\ j + 1 \in 0..(m - 1)
    BY <1>5
  <2>1. CASE j < n
    <3>0. j <= n /\ n \in (j + 1)..m
      BY <1>5, <1>6, <2>0, <2>1
    <3>1. h2[j] = h[j] /\ off2[j] = off[j] /\ n \in (j + 1)..m
      BY <1>4, <2>0, <2>1, <3>0
    <3>2. off[j] + rec[h[j]].len <= p /\ off[j] \in Nat
      BY <1>5, <1>8, <2>0, <3>1
    <3>3. off[j] < p /\ p <= Area /\ rec[h[j]].len \in Nat /\ 1 <= rec[h[j]].len
      BY <1>5, <1>6, <1>8, <2>0, <3>2
    <3>4. off[j] \in Cells
      BY <1>6, <1>8, <3>2, <3>3 DEF Cells
    <3> QED
      BY <1>3, <1>5, <2>0, <3>1, <3>3, <3>4 DEF p
  <2>2. CASE ~(j < n)
    <3>1. h2[j] = h[j + 1] /\ n # m - 1
      BY <1>4, <1>6, <2>0, <2>2
    <3>2. /\ j + 1 \in (n + 1)..m /\ (j + 1) + 1 \in 0..m /\ j + 1 \in 0..m
      BY <1>5, <1>6, <2>0, <2>2
    <3>3. /\ p + len <= off[j + 1] /\ off[j + 1] \in Nat
          /\ off[(j + 1) + 1] = off[j + 1] + rec[h[j + 1]].len
          /\ off[(j + 1) + 1] <= Area
          /\ rec[h[j + 1]].len \in Nat /\ 1 <= rec[h[j + 1]].len
      BY <1>5, <1>7, <2>0, <3>2
    <3>4. off2[j] = off[j + 1] - len
      <4>1. CASE j = n
        <5>1. off2[j] = off[n] /\ off[n + 1] = off[n] + len
          BY <1>2, <1>4, <1>5, <1>6, <2>0, <4>1 DEF len
        <5> QED
          BY <1>6, <1>8, <4>1, <5>1
      <4>2. CASE j # n
        BY <1>4, <1>6, <2>0, <2>2, <4>2
      <4> QED
        BY <4>1, <4>2
    <3>5. off2[j] \in Cells /\ off2[j] >= p /\ off2[j] + len < Area /\ off2[j] + len = off[j + 1]
      BY <1>6, <1>8, <3>3, <3>4 DEF Cells
    <3>6. b2.records[off2[j]] = b.records[off[j + 1]]
      BY <1>3, <3>1, <3>5 DEF p, len, m
    <3> QED
      BY <1>5, <2>0, <3>1, <3>6
  <2> QED
    BY <2>1, <2>2
<1> QED
  BY <1>2, <1>3, <1>9, <1>10 DEF Rewritten, BlockLists, m

\* A record that is replaced by one that is not longer.
LEMMA BlockReplaced ==
  ASSUME NEW b, NEW X, NEW rec, IsBlock(b), Records(X, rec), BlockLists(b, X, rec),
         NEW n \in Numbers(b), NEW x, RecordAt(b, n).header = x,
         NEW rec2, Records(X, rec2), \A e \in X : e # x => rec2[e] = rec[e],
         rec2[x].len <= rec[x].len,
         NEW b2, b2 = Replaced(b, n, rec2[x])
  PROVE  Rewritten(b, b2, X, rec2)
<1>1. PICK h, off : /\ LaidOut(b, b.recordsNb, X, rec, h, off)
                    /\ n \in 0..(b.recordsNb - 1)
                    /\ Offset(b, n) = off[n] /\ RecordAt(b, n) = rec[h[n]]
  BY BlockLaidOut
<1> DEFINE m == b.recordsNb
           p == off[n]
           r == rec2[x]
           by == rec[x].len - r.len
<1>2. x = h[n] /\ x \in X /\ RecordAt(b, n).len = rec[x].len
  BY <1>1 DEF LaidOut, Records
<1>3. /\ r \in RecordSet /\ r.len \in Nat /\ 1 <= r.len
      /\ rec[x].len \in Nat /\ 1 <= rec[x].len
      /\ by \in Nat /\ by + r.len = rec[x].len
  <2>1. r \in RecordSet /\ rec[x] \in RecordSet
    BY <1>2 DEF Records
  <2>2. r.len \in Nat /\ 1 <= r.len /\ rec[x].len \in Nat /\ 1 <= rec[x].len
    BY <2>1, RecordParts
  <2> QED
    BY <2>1, <2>2
<1>4. /\ m \in Nat /\ off[0] = 0 /\ \A j \in 0..m : off[j] \in Nat /\ off[j] <= Area
      /\ \A j \in 0..(m - 1) :
           /\ h[j] \in X /\ rec[h[j]].len \in Nat /\ 1 <= rec[h[j]].len
           /\ off[j + 1] = off[j] + rec[h[j]].len
           /\ b.records[off[j]] = FirstCell(rec[h[j]])
      /\ \A i \in 0..(m - 1) : \A j \in (i + 1)..m : off[i] + rec[h[i]].len <= off[j]
      /\ \A i, j \in 0..(m - 1) : h[i] = h[j] => i = j
      /\ \A e \in X : \E j \in 0..(m - 1) : h[j] = e
  BY <1>1 DEF LaidOut
<1>5. n \in 0..(m - 1) /\ n \in Nat /\ n < m /\ p \in Nat
  BY <1>1, <1>4
<1>6. /\ b2.recordsNb = m /\ b2.nextDirC = b.nextDirC /\ IsBlock(b2)
      /\ \A i \in Cells :
           /\ i < p => b2.records[i] = b.records[i]
           /\ i = p => b2.records[i] = FirstCell(r)
           /\ i >= p + r.len /\ i + by < Area => b2.records[i] = b.records[i + by]
  <2> DEFINE put == adfPutCacheEntry(b.records, p, r)
             records == [i \in Cells |-> IF i < p + r.len THEN put[i]
                                         ELSE IF i + by < Area THEN put[i + by]
                                         ELSE Zero]
  <2>1. b2 = [b EXCEPT !.records = records]
    BY <1>1, <1>2, Zenon DEF Replaced
  <2>2. \A i \in Cells : put[i] =
          IF i \in p..(p + r.len - 1)
            THEN [header |-> r.header, len |-> r.len, value |-> r.value, cell |-> i - p]
            ELSE b.records[i]
    BY DEF adfPutCacheEntry
  <2>3. /\ \A i \in Cells : records[i] = IF i < p + r.len THEN put[i]
                                         ELSE IF i + by < Area THEN put[i + by]
                                         ELSE Zero
        /\ DOMAIN records = Cells
    OBVIOUS
  <2> HIDE DEF put, records
  <2>4. ASSUME NEW i \in Cells
        PROVE  /\ i < p => records[i] = b.records[i]
               /\ i = p => records[i] = FirstCell(r)
               /\ i >= p + r.len /\ i + by < Area => records[i] = b.records[i + by]
    <3>1. i \in Int /\ 0 <= i
      BY CacheAssumption DEF Cells
    <3> HIDE DEF by, p, r
    <3>2. i < p => i < p + r.len /\ i \notin p..(p + r.len - 1)
      BY <1>3, <1>5, <3>1
    <3>3. i = p => i < p + r.len /\ i \in p..(p + r.len - 1) /\ i - p = 0
      BY <1>3, <1>5, <3>1
    <3>4. i >= p + r.len /\ i + by < Area =>
            ~(i < p + r.len) /\ i + by \in Cells /\ i + by \notin p..(p + r.len - 1)
      BY <1>3, <1>5, <3>1, CacheAssumption DEF Cells
    <3> QED
      BY <2>2, <2>3, <3>2, <3>3, <3>4 DEF FirstCell
  <2>5. "records" \in DOMAIN b /\ "recordsNb" \in DOMAIN b /\ "nextDirC" \in DOMAIN b
    BY DEF IsBlock
  <2>6. /\ b2.recordsNb = m /\ b2.nextDirC = b.nextDirC /\ DOMAIN b2 = DOMAIN b
        /\ b2.records = records
    BY <2>1, <2>5
  <2> QED
    BY <2>3, <2>4, <2>6 DEF IsBlock
<1> DEFINE off2 == [j \in 0..m |-> IF j <= n THEN off[j] ELSE off[j] - by]
<1>7. \A j \in 0..m : off2[j] = IF j <= n THEN off[j] ELSE off[j] - by
  OBVIOUS
<1>8. \A j \in 0..(m - 1) : /\ j # n => rec2[h[j]] = rec[h[j]]
                            /\ j = n => rec2[h[j]] = r
  BY <1>2, <1>4, <1>5
<1>9. \A j \in (n + 1)..m : p + r.len + by <= off[j]
  <2> SUFFICES ASSUME NEW j \in (n + 1)..m PROVE p + r.len + by <= off[j]
    OBVIOUS
  <2>1. p + rec[x].len <= off[j]
    BY <1>2, <1>4, <1>5
  <2> QED
    BY <1>3, <1>5, <2>1
<1>10. p = off[n] /\ Area \in Nat /\ off[n + 1] = p + r.len + by /\ p + r.len + by <= Area
  <2>1. off[n + 1] = p + rec[x].len /\ n + 1 \in 0..m
    BY <1>2, <1>4, <1>5
  <2>2. off[n + 1] <= Area
    BY <1>4, <2>1
  <2> QED
    BY <1>3, <1>5, <2>1, <2>2, CacheAssumption
<1> HIDE DEF off2, m, p, r, by
<1>11. Packed(m, X, rec2, h, off2)
  <2>1. off2[0] = 0
    BY <1>4, <1>5, <1>7
  <2>2. ASSUME NEW j \in 0..m
        PROVE  off2[j] \in 0..Area
    <3>1. CASE j <= n
      BY <1>4, <1>7, <1>10, <3>1
    <3>2. CASE ~(j <= n)
      <4>1. j \in (n + 1)..m
        BY <1>4, <1>5, <3>2
      <4>2. p + r.len + by <= off[j] /\ off[j] \in Nat /\ off[j] <= Area
        BY <1>4, <1>9, <4>1
      <4>3. off2[j] = off[j] - by
        BY <1>7, <3>2
      <4> QED
        BY <1>3, <1>5, <1>10, <4>2, <4>3
    <3> QED
      BY <3>1, <3>2
  <2>3. ASSUME NEW j \in 0..(m - 1)
        PROVE  h[j] \in X /\ off2[j + 1] = off2[j] + rec2[h[j]].len
    <3>1. j \in 0..m /\ j + 1 \in 0..m /\ j \in Nat
      BY <1>4
    <3>2. CASE j < n
      <4>1. j <= n /\ j + 1 <= n /\ j # n
        BY <1>5, <3>1, <3>2
      <4>2. off2[j] = off[j] /\ off2[j + 1] = off[j + 1]
        BY <1>7, <3>1, <4>1
      <4> QED
        BY <1>4, <1>8, <4>1, <4>2
    <3>3. CASE j = n
      <4>1. j <= n /\ ~(j + 1 <= n)
        BY <1>5, <3>3
      <4>2. off2[j] = p /\ off2[j + 1] = off[n + 1] - by
        BY <1>7, <1>10, <3>1, <3>3, <4>1
      <4>3. off2[j + 1] = p + r.len
        BY <1>3, <1>5, <1>10, <4>2
      <4> QED
        BY <1>4, <1>8, <3>3, <4>2, <4>3
    <3>4. CASE j > n
      <4>1. ~(j <= n) /\ ~(j + 1 <= n) /\ j # n
        BY <1>5, <3>1, <3>4
      <4>2. off2[j] = off[j] - by /\ off2[j + 1] = off[j + 1] - by
        BY <1>7, <3>1, <4>1
      <4>3. /\ off[j + 1] = off[j] + rec[h[j]].len
            /\ off[j] \in Nat /\ rec[h[j]].len \in Nat
            /\ rec2[h[j]] = rec[h[j]] /\ h[j] \in X
        BY <1>4, <1>8, <3>1, <4>1
      <4> QED
        BY <1>3, <4>2, <4>3
    <3> QED
      BY <1>5, <3>1, <3>2, <3>3, <3>4
  <2> QED
    BY <1>4, <2>1, <2>2, <2>3 DEF Packed
<1>12. FirstCells(b2.records, m, rec2, h, off2)
  <2> SUFFICES ASSUME NEW j \in 0..(m - 1)
               PROVE  b2.records[off2[j]] = FirstCell(rec2[h[j]])
    BY DEF FirstCells
  <2>0. j \in 0..m /\ j + 1 \in 0..m /\ j \in Nat
    BY <1>4
  <2>1. CASE j < n
    <3>1. j <= n /\ n \in (j + 1)..m /\ j # n
      BY <1>4, <1>5, <2>0, <2>1
    <3>2. off2[j] = off[j] /\ rec2[h[j]] = rec[h[j]]
      BY <1>7, <1>8, <2>0, <3>1
    <3>3. off[j] + rec[h[j]].len <= p /\ off[j] \in Nat
      BY <1>4, <1>10, <2>0, <3>1
    <3>4. off[j] < p /\ p <= Area /\ rec[h[j]].len \in Nat /\ 1 <= rec[h[j]].len
      BY <1>3, <1>4, <1>5, <1>10, <2>0, <3>3
    <3>5. off[j] \in Cells
      BY <1>5, <1>10, <3>3, <3>4 DEF Cells
    <3> QED
      BY <1>4, <1>6, <3>2, <3>4, <3>5 DEF p
  <2>2. CASE j = n
    <3>1. j <= n
      BY <2>0, <2>2
    <3>2. off2[j] = p /\ rec2[h[j]] = r
      BY <1>7, <1>8, <1>10, <2>0, <2>2, <3>1
    <3>3. p \in Cells
      BY <1>3, <1>5, <1>10 DEF Cells
    <3> QED
      BY <1>6, <3>2, <3>3 DEF p, r
  <2>3. CASE j > n
    <3>1. ~(j <= n) /\ j \in (n + 1)..m /\ j # n
      BY <1>4, <1>5, <2>0, <2>3
    <3>2. off2[j] = off[j] - by /\ rec2[h[j]] = rec[h[j]]
      BY <1>7, <1>8, <2>0, <3>1
    <3>3. /\ p + r.len + by <= off[j] /\ off[j] \in Nat
          /\ off[j + 1] = off[j] + rec[h[j]].len /\ off[j + 1] <= Area
          /\ rec[h[j]].len \in Nat /\ 1 <= rec[h[j]].len
      BY <1>4, <1>9, <2>0, <3>1
    <3>4. /\ off2[j] \in Cells /\ off2[j] >= p + r.len /\ off2[j] + by < Area
          /\ off2[j] + by = off[j]
      BY <1>3, <1>5, <1>10, <3>2, <3>3 DEF Cells
    <3>5. b2.records[off2[j]] = b.records[off[j]]
      BY <1>6, <3>4 DEF p, r, by
    <3> QED
      BY <1>4, <3>2, <3>5
  <2> QED
    BY <1>5, <2>0, <2>1, <2>2, <2>3
<1> QED
  BY <1>6, <1>11, <1>12 DEF Rewritten, BlockLists, m

\* A record of the same length is written over the old one: nothing moves.
LEMMA PutInPlace ==
  ASSUME NEW b, NEW n, NEW r, IsBlock(b),
         RecordAt(b, n).len = r.len, r.len \in Nat, Offset(b, n) \in Nat
  PROVE  [b EXCEPT !.records = adfPutCacheEntry(@, Offset(b, n), r)] = Replaced(b, n, r)
<1> DEFINE p == Offset(b, n)
           put == adfPutCacheEntry(b.records, p, r)
           by == RecordAt(b, n).len - r.len
           records == [i \in Cells |-> IF i < p + r.len THEN put[i]
                                       ELSE IF i + by < Area THEN put[i + by]
                                       ELSE Zero]
<1>1. by = 0
  OBVIOUS
<1>2. put = [i \in Cells |-> put[i]]
  BY DEF adfPutCacheEntry
<1>3. Replaced(b, n, r) = [b EXCEPT !.records = records]
  BY DEF Replaced
<1> HIDE DEF put, by, p
<1>4. \A i \in Cells : records[i] = put[i]
  <2> SUFFICES ASSUME NEW i \in Cells PROVE records[i] = put[i]
    OBVIOUS
  <2>1. i \in Int /\ i + by = i /\ i < Area
    BY <1>1, CacheAssumption DEF Cells
  <2> QED
    BY <2>1
<1>5. records = put
  BY <1>2, <1>4
<1> HIDE DEF records
<1> QED
  BY <1>3, <1>5 DEF put, p

-----------------------------------------------------------------------------
(* The blocks of a cache *)

\* ch are the blocks that are linked from block first.
IsChain(c, ch, first) ==
  /\ ch \in Seq(Blocks) /\ Len(ch) >= 1 /\ ch[1] = first
  /\ \A k \in 1..(Len(ch) - 1) : c[ch[k]].nextDirC = ch[k + 1]
  /\ c[ch[Len(ch)]].nextDirC = 0
  /\ \A j, k \in 1..Len(ch) : ch[j] = ch[k] => j = k

BlocksIn(ch) == {ch[k] : k \in 1..Len(ch)}

\* The elements of a sequence.
LEMMA ChainParts ==
  ASSUME NEW ch \in Seq(Blocks)
  PROVE  /\ Len(ch) \in Nat /\ DOMAIN ch = 1..Len(ch)
         /\ \A k \in 1..Len(ch) : ch[k] \in Blocks
         /\ ch = [k \in 1..Len(ch) |-> ch[k]]
OBVIOUS

\* A cache has not more blocks than the volume.
LEMMA ChainFits ==
  ASSUME NEW c, NEW ch, NEW first, IsChain(c, ch, first)
  PROVE  Len(ch) <= Cardinality(Blocks) /\ Cardinality(Blocks) \in Nat
<1>1. ch \in Seq(Blocks) /\ \A j, k \in 1..Len(ch) : ch[j] = ch[k] => j = k
  BY DEF IsChain
<1>2. Len(ch) \in Nat /\ ch \in [1..Len(ch) -> Blocks]
  BY <1>1
<1>3. ch \in Injection(1..Len(ch), Blocks)
  BY <1>1, <1>2, Fun_IsInj
<1>4. IsFiniteSet(Blocks)
  BY CacheAssumption
<1>5. Cardinality(1..Len(ch)) = Len(ch)
  <2>1. 1 \in Int /\ Len(ch) \in Int
    BY <1>2
  <2>2. Cardinality(1..Len(ch)) = IF 1 > Len(ch) THEN 0 ELSE Len(ch) - 1 + 1
    BY <2>1, FS_Interval
  <2> QED
    BY <1>2, <2>2
<1>6. Cardinality(1..Len(ch)) <= Cardinality(Blocks)
  BY <1>3, <1>4, FS_Injection
<1> QED
  BY <1>4, <1>5, <1>6, FS_CardinalityType

\* Following the links gives these blocks.
LEMMA ChainIs ==
  ASSUME NEW c, NEW ch, NEW first, IsChain(c, ch, first)
  PROVE  Chain(c, first) = ch
<1> DEFINE N == Cardinality(Blocks)
           n == Len(ch)
           Next1(s) == IF s = 0 THEN 0 ELSE c[s].nextDirC
           Defines(f) == f = [k \in 1..N |-> IF k = 1 THEN first ELSE Next1(f[k - 1])]
           at == CHOOSE f : Defines(f)
           g == [k \in 1..N |-> IF k <= n THEN ch[k] ELSE 0]
<1>1. /\ n \in Nat /\ 1 <= n /\ n <= N /\ N \in Nat
      /\ \A k \in 1..n : ch[k] \in Blocks /\ ch[k] # 0
      /\ ch = [k \in 1..n |-> ch[k]]
  BY ChainFits, ChainParts, CacheAssumption DEF IsChain
<1>2. /\ ch[1] = first /\ c[ch[n]].nextDirC = 0
      /\ \A k \in 1..(n - 1) : c[ch[k]].nextDirC = ch[k + 1]
  BY DEF IsChain
<1>3. Chain(c, first) = SubSeq(at, 1, Cardinality({k \in DOMAIN at : at[k] # 0}))
  BY DEF Chain
<1>4. \A k \in 1..N : g[k] = IF k <= n THEN ch[k] ELSE 0
  OBVIOUS
<1> HIDE DEF N, n, g
<1>5. ASSUME NEW k \in 1..N, k # 1
      PROVE  k - 1 \in 1..N /\ g[k] = Next1(g[k - 1])
  <2>1. k - 1 \in 1..N /\ (k - 1) + 1 = k /\ k \in Nat
    BY <1>1, <1>5
  <2>2. CASE k <= n
    <3>1. k - 1 \in 1..(n - 1) /\ k - 1 \in 1..n /\ k - 1 <= n
      BY <1>1, <1>5, <2>1, <2>2
    <3>2. g[k] = ch[k] /\ g[k - 1] = ch[k - 1] /\ ch[k - 1] # 0
      BY <1>1, <1>4, <2>1, <2>2, <3>1
    <3> QED
      BY <1>2, <2>1, <3>1, <3>2
  <2>3. CASE k = n + 1
    <3>1. k - 1 = n /\ n <= n /\ ~(k <= n) /\ n \in 1..n
      BY <1>1, <2>3
    <3>2. g[k] = 0 /\ g[k - 1] = ch[n] /\ ch[n] # 0
      BY <1>1, <1>4, <2>1, <3>1
    <3> QED
      BY <1>2, <2>1, <3>2
  <2>4. CASE k > n + 1
    <3>1. ~(k <= n) /\ ~(k - 1 <= n)
      BY <1>1, <2>1, <2>4
    <3> QED
      BY <1>4, <2>1, <3>1
  <2> QED
    BY <1>1, <2>1, <2>2, <2>3, <2>4
<1>6. g[1] = first /\ 1 \in 1..N
  BY <1>1, <1>2, <1>4
<1> HIDE DEF Next1
<1>7. Defines(g)
  <2>1. g = [k \in 1..N |-> g[k]]
    BY DEF g
  <2> QED
    BY <1>5, <1>6, <2>1
<1>8. Defines(at)
  <2> HIDE DEF Defines
  <2> QED
    BY <1>7
<1> HIDE DEF at
<1>9. DOMAIN at = 1..N /\ at = [k \in 1..N |-> at[k]]
  BY <1>8
<1>10. \A k \in 1..N : at[k] = IF k = 1 THEN first ELSE Next1(at[k - 1])
  BY <1>8
<1> HIDE DEF Defines
<1>11. \A k \in 1..N : at[k] = g[k]
  <2>1. 1 <= N => at[1] = g[1]
    BY <1>6, <1>10
  <2>2. \A k \in (1 + 1)..N : at[k - 1] = g[k - 1] => at[k] = g[k]
    <3> SUFFICES ASSUME NEW k \in (1 + 1)..N, at[k - 1] = g[k - 1] PROVE at[k] = g[k]
      OBVIOUS
    <3>1. k \in 1..N /\ k # 1
      BY <1>1
    <3> QED
      BY <1>5, <1>10, <3>1
  <2>3. 1 \in Int /\ N \in Int
    BY <1>1
  <2> QED
    BY <2>1, <2>2, <2>3, RecursionSame
<1>12. {k \in DOMAIN at : at[k] # 0} = 1..n
  <2>1. \A k \in 1..N : at[k] # 0 <=> k <= n
    <3> SUFFICES ASSUME NEW k \in 1..N PROVE at[k] # 0 <=> k <= n
      OBVIOUS
    <3>1. k <= n => k \in 1..n
      BY <1>1
    <3> QED
      BY <1>1, <1>4, <1>11, <3>1
  <2>2. \A k \in 1..n : k \in 1..N /\ k <= n
    BY <1>1
  <2>3. \A k \in 1..N : k <= n => k \in 1..n
    BY <1>1
  <2> QED
    BY <1>9, <2>1, <2>2, <2>3
<1>13. Cardinality(1..n) = n
  <2>1. 1 \in Int /\ n \in Int
    BY <1>1
  <2>2. Cardinality(1..n) = IF 1 > n THEN 0 ELSE n - 1 + 1
    BY <2>1, FS_Interval
  <2> QED
    BY <1>1, <2>2
<1>14. SubSeq(at, 1, n) = ch
  <2>1. at \in Seq(Blocks \cup {0})
    <3>1. \A k \in 1..N : g[k] \in Blocks \cup {0}
      <4> SUFFICES ASSUME NEW k \in 1..N PROVE g[k] \in Blocks \cup {0}
        OBVIOUS
      <4>1. k <= n => k \in 1..n
        BY <1>1
      <4> QED
        BY <1>1, <1>4, <4>1
    <3>2. at \in [1..N -> Blocks \cup {0}]
      BY <1>9, <1>11, <3>1
    <3> QED
      BY <1>1, <3>2
  <2>2. Len(at) = N
    BY <1>1, <1>9, <2>1
  <2>3. SubSeq(at, 1, n) = [k \in 1..n |-> at[k]]
    BY <1>1, <2>1, <2>2
  <2>4. \A k \in 1..n : at[k] = ch[k]
    <3> SUFFICES ASSUME NEW k \in 1..n PROVE at[k] = ch[k]
      OBVIOUS
    <3>1. k \in 1..N /\ k <= n
      BY <1>1
    <3> QED
      BY <1>4, <1>11, <3>1
  <2> QED
    BY <1>1, <2>3, <2>4
<1> QED
  BY <1>3, <1>12, <1>13, <1>14

\* The links of the other blocks do not matter.
LEMMA ChainSame ==
  ASSUME NEW c, NEW ch, NEW first, IsChain(c, ch, first),
         NEW c2, \A s \in BlocksIn(ch) : c2[s].nextDirC = c[s].nextDirC
  PROVE  IsChain(c2, ch, first)
<1>1. Len(ch) \in Nat /\ 1 <= Len(ch)
  BY DEF IsChain
<1>2. \A k \in 1..Len(ch) : c2[ch[k]].nextDirC = c[ch[k]].nextDirC
  BY DEF BlocksIn
<1>3. \A k \in 1..(Len(ch) - 1) : k \in 1..Len(ch)
  BY <1>1
<1>4. Len(ch) \in 1..Len(ch)
  BY <1>1
<1> QED
  BY <1>2, <1>3, <1>4 DEF IsChain

-----------------------------------------------------------------------------
(* The cache of a volume: D are its directories, L the entries it lists,   *)
(* en their headers. The block at[e] holds the record of the entry e.      *)

RecordsOf(en) == [e \in Entries |-> Record(e, en[e])]
FirstOf(en, d) == IF d = Root THEN RootCache ELSE en[d].extension

WellFormed(L, en) == \A e \in L : e \in Entries /\ Record(e, en[e]) \in RecordSet

BlocksHold(c, L, en, at) ==
  \A s \in Blocks : IsBlock(c[s]) /\ BlockLists(c[s], {e \in L : at[e] = s}, RecordsOf(en))
ChainsLinked(c, D, en, chain) == \A d \in D : IsChain(c, chain[d], FirstOf(en, d))
ChainsApart(D, chain) ==
  \A d, e \in D : \A s \in BlocksIn(chain[d]) : s \in BlocksIn(chain[e]) => d = e
OthersFree(fr, D, chain) ==
  /\ fr \subseteq Blocks
  /\ \A s \in Blocks : s \notin fr <=> \E d \in D : s \in BlocksIn(chain[d])
InItsCache(D, L, en, chain, at) ==
  \A e \in L : en[e].dir \in D /\ at[e] \in BlocksIn(chain[en[e].dir])

\* Only the first block of a cache may be empty.
NoneEmpty(D, L, chain, at) ==
  \A d \in D : \A k \in 2..Len(chain[d]) : \E e \in L : at[e] = chain[d][k]

CacheIs(c, fr, D, L, en, chain, at) ==
  /\ BlocksHold(c, L, en, at)
  /\ ChainsLinked(c, D, en, chain)
  /\ ChainsApart(D, chain)
  /\ OthersFree(fr, D, chain)
  /\ InItsCache(D, L, en, chain, at)
  /\ NoneEmpty(D, L, chain, at)

IsWorld(w) ==
  DOMAIN w = {"cache", "free", "ok", "grown", "cut"} /\ DOMAIN w.cache = Blocks

Good(w, D, L, en) ==
  /\ IsWorld(w) /\ w.ok /\ WellFormed(L, en)
  /\ \E chain, at : CacheIs(w.cache, w.free, D, L, en, chain, at)

\* A world is good when its cache, wherever it was computed, is one of these entries.
LEMMA GoodIs ==
  ASSUME NEW w, NEW D, NEW L, NEW en, NEW c, NEW fr, NEW chain, NEW at,
         IsWorld(w), w.ok, WellFormed(L, en), w.cache = c, w.free = fr,
         CacheIs(c, fr, D, L, en, chain, at)
  PROVE  Good(w, D, L, en)
<1>1. CacheIs(w.cache, w.free, D, L, en, chain, at)
  OBVIOUS
<1>2. \E ch, a : CacheIs(w.cache, w.free, D, L, en, ch, a)
  BY ONLY <1>1, Zenon
<1> QED
  BY <1>2 DEF Good

\* The records of the entries some of which are in a block.
LEMMA RecordsWellFormed ==
  ASSUME NEW L, NEW en, WellFormed(L, en), NEW X, X \subseteq L
  PROVE  /\ Records(X, RecordsOf(en))
         /\ \A e \in L : /\ RecordsOf(en)[e] = Record(e, en[e])
                         /\ RecordsOf(en)[e].len = en[e].len
<1>1. \A e \in L : /\ e \in Entries /\ RecordsOf(en)[e] = Record(e, en[e])
                   /\ Record(e, en[e]) \in RecordSet
  BY DEF WellFormed, RecordsOf
<1>2. \A e \in L : Record(e, en[e]).header = e /\ Record(e, en[e]).len = en[e].len
  BY DEF Record
<1> QED
  BY <1>1, <1>2 DEF Records

\* The blocks of a cache that is read.
LEMMA CacheRead ==
  ASSUME NEW c, NEW fr, NEW D, NEW L, NEW en, NEW chain, NEW at,
         CacheIs(c, fr, D, L, en, chain, at), WellFormed(L, en), NEW d \in D
  PROVE  /\ Chain(c, FirstOf(en, d)) = chain[d]
         /\ chain[d] \in Seq(Blocks) /\ Len(chain[d]) \in Nat /\ Len(chain[d]) >= 1
         /\ DOMAIN chain[d] = 1..Len(chain[d])
         /\ \A k \in 1..Len(chain[d]) : /\ chain[d][k] \in Blocks
                                        /\ AllReadable(c[chain[d][k]])
<1>1. IsChain(c, chain[d], FirstOf(en, d))
  BY DEF CacheIs, ChainsLinked
<1>2. Chain(c, FirstOf(en, d)) = chain[d]
  BY <1>1, ChainIs
<1>3. chain[d] \in Seq(Blocks) /\ Len(chain[d]) >= 1
  BY <1>1 DEF IsChain
<1>4. /\ Len(chain[d]) \in Nat /\ DOMAIN chain[d] = 1..Len(chain[d])
      /\ \A k \in 1..Len(chain[d]) : chain[d][k] \in Blocks
  BY <1>3, ChainParts
<1>5. ASSUME NEW s \in Blocks
      PROVE  AllReadable(c[s])
  <2> DEFINE X == {e \in L : at[e] = s}
             rec == RecordsOf(en)
  <2>1. Records(X, rec)
    BY RecordsWellFormed
  <2>2. BlockLists(c[s], X, rec)
    BY DEF CacheIs, BlocksHold
  <2> HIDE DEF X, rec
  <2> QED
    BY <2>1, <2>2, BlockRead
<1> QED
  BY <1>2, <1>3, <1>4, <1>5

\* The program finds the record of an entry in the block that holds it.
LEMMA PlacesIs ==
  ASSUME NEW c, NEW fr, NEW D, NEW L, NEW en, NEW chain, NEW at,
         CacheIs(c, fr, D, L, en, chain, at), WellFormed(L, en),
         NEW x \in L, NEW ch, ch = chain[en[x].dir]
  PROVE  /\ Places(c, ch, x) # {}
         /\ \A p \in Places(c, ch, x) :
              /\ p[1] \in 1..Len(ch) /\ ch[p[1]] = at[x]
              /\ p[2] \in Numbers(c[at[x]]) /\ RecordAt(c[at[x]], p[2]).header = x
              /\ RecordAt(c[at[x]], p[2]).len = en[x].len
<1>1. en[x].dir \in D /\ at[x] \in BlocksIn(ch)
  BY DEF CacheIs, InItsCache
<1>2. /\ Len(ch) \in Nat /\ DOMAIN ch = 1..Len(ch)
      /\ \A k \in 1..Len(ch) : ch[k] \in Blocks /\ AllReadable(c[ch[k]])
  BY <1>1, CacheRead
<1>3. ASSUME NEW s \in Blocks
      PROVE  /\ c[s].recordsNb \in Nat /\ c[s].recordsNb <= Area
             /\ \A n \in Numbers(c[s]) :
                  RecordAt(c[s], n).header = x => at[x] = s /\ RecordAt(c[s], n).len = en[x].len
             /\ at[x] = s => \E n \in Numbers(c[s]) : /\ RecordAt(c[s], n).header = x
                                                      /\ Readable(c[s], Offset(c[s], n))
  <2> DEFINE X == {e \in L : at[e] = s}
             rec == RecordsOf(en)
  <2>1. Records(X, rec) /\ \A e \in L : rec[e].len = en[e].len
    BY RecordsWellFormed
  <2>2. BlockLists(c[s], X, rec)
    BY DEF CacheIs, BlocksHold
  <2>3. \A e \in X : at[e] = s /\ e \in L
    OBVIOUS
  <2>4. at[x] = s => x \in X
    OBVIOUS
  <2> HIDE DEF X, rec
  <2>5. /\ c[s].recordsNb \in Nat /\ c[s].recordsNb <= Area
        /\ \E h : Reads(c[s], X, rec, h)
    BY <2>1, <2>2, BlockRead
  <2>6. PICK h : Reads(c[s], X, rec, h)
    BY <2>5
  <2>7. \A e \in X : rec[e].header = e
    BY <2>1 DEF Records
  <2> QED
    BY <2>1, <2>3, <2>4, <2>5, <2>6, <2>7 DEF Reads
<1>4. Places(c, ch, x) # {}
  <2>1. PICK k \in 1..Len(ch) : at[x] = ch[k]
    BY <1>1 DEF BlocksIn
  <2>2. PICK n \in Numbers(c[ch[k]]) : /\ RecordAt(c[ch[k]], n).header = x
                                       /\ Readable(c[ch[k]], Offset(c[ch[k]], n))
    BY <1>2, <1>3, <2>1
  <2>3. n \in 0..Area
    <3>1. n \in 0..(c[ch[k]].recordsNb - 1)
      BY <2>2 DEF Numbers
    <3>2. c[ch[k]].recordsNb \in Nat /\ c[ch[k]].recordsNb <= Area
      BY <1>2, <1>3, <2>1
    <3> QED
      BY <3>1, <3>2, CacheAssumption
  <2>4. \A j \in 1..(k - 1) : AllReadable(c[ch[j]])
    BY <1>2
  <2>5. <<k, n>> \in Places(c, ch, x)
    <3> DEFINE q == <<k, n>>
    <3>1. q[1] = k /\ q[2] = n
      OBVIOUS
    <3>2. q \in {<<j, m>> : j \in DOMAIN ch, m \in 0..Area}
      <4>1. k \in DOMAIN ch
        BY <1>2, <2>1
      <4> QED
        BY ONLY <2>3, <4>1
    <3>3. /\ \A j \in 1..(q[1] - 1) : AllReadable(c[ch[j]])
          /\ q[2] \in Numbers(c[ch[q[1]]]) /\ Readable(c[ch[q[1]]], Offset(c[ch[q[1]]], q[2]))
          /\ RecordAt(c[ch[q[1]]], q[2]).header = x
      <4>1. n \in Numbers(c[ch[k]])
        BY <2>2
      <4> HIDE DEF q
      <4> QED
        BY ONLY <2>2, <2>4, <3>1, <4>1
    <3> HIDE DEF q
    <3>4. q \in Places(c, ch, x)
      BY ONLY <3>2, <3>3 DEF Places
    <3> QED
      BY ONLY <3>4 DEF q
  <2> QED
    BY <2>5
<1>5. ASSUME NEW p \in Places(c, ch, x)
      PROVE  /\ p[1] \in 1..Len(ch) /\ p[2] \in Numbers(c[ch[p[1]]])
             /\ RecordAt(c[ch[p[1]]], p[2]).header = x
  <2>1. p \in Places(c, ch, x)
    OBVIOUS
  <2>2. /\ p \in {<<k, n>> : k \in DOMAIN ch, n \in 0..Area}
        /\ p[2] \in Numbers(c[ch[p[1]]]) /\ RecordAt(c[ch[p[1]]], p[2]).header = x
    BY ONLY <2>1 DEF Places
  <2>3. p[1] \in DOMAIN ch
    BY ONLY <2>2
  <2> QED
    BY ONLY <1>2, <2>2, <2>3
<1>6. ASSUME NEW p \in Places(c, ch, x)
      PROVE  /\ p[1] \in 1..Len(ch) /\ ch[p[1]] = at[x]
             /\ p[2] \in Numbers(c[at[x]]) /\ RecordAt(c[at[x]], p[2]).header = x
             /\ RecordAt(c[at[x]], p[2]).len = en[x].len
  <2>1. /\ p[1] \in 1..Len(ch) /\ p[2] \in Numbers(c[ch[p[1]]])
        /\ RecordAt(c[ch[p[1]]], p[2]).header = x
    BY <1>5
  <2>2. ch[p[1]] \in Blocks
    BY <1>2, <2>1
  <2>3. at[x] = ch[p[1]] /\ RecordAt(c[ch[p[1]]], p[2]).len = en[x].len
    BY <1>3, <2>1, <2>2
  <2> QED
    BY <2>1, <2>3
<1> QED
  BY <1>4, <1>6

\* The headers matter for what is listed of them and for the first blocks.
LEMMA CacheSame ==
  ASSUME NEW w, NEW D, NEW L, NEW en, Good(w, D, L, en), NEW en2,
         \A e \in L : Record(e, en2[e]) = Record(e, en[e]) /\ en2[e].dir = en[e].dir,
         \A d \in D : FirstOf(en2, d) = FirstOf(en, d)
  PROVE  Good(w, D, L, en2)
<1>1. PICK chain, at : CacheIs(w.cache, w.free, D, L, en, chain, at)
  BY DEF Good
<1>2. WellFormed(L, en) /\ WellFormed(L, en2)
  BY DEF Good, WellFormed
<1>3. ASSUME NEW s \in Blocks
      PROVE  BlockLists(w.cache[s], {e \in L : at[e] = s}, RecordsOf(en2))
  <2> DEFINE X == {e \in L : at[e] = s}
             rec == RecordsOf(en)
             rec2 == RecordsOf(en2)
             b == w.cache[s]
  <2>1. BlockLists(b, X, rec)
    BY <1>1 DEF CacheIs, BlocksHold
  <2>2. \A e \in X : rec2[e] = rec[e]
    BY <1>2, RecordsWellFormed
  <2> HIDE DEF X, rec, rec2, b
  <2>3. BlockLists(b, X, rec2)
    BY <2>1, <2>2, BlockSame
  <2> QED
    BY <2>3 DEF X, rec2, b
<1>4. BlocksHold(w.cache, L, en2, at)
  BY <1>1, <1>3 DEF CacheIs, BlocksHold
<1>5. ChainsLinked(w.cache, D, en2, chain)
  BY <1>1 DEF CacheIs, ChainsLinked
<1>6. InItsCache(D, L, en2, chain, at)
  BY <1>1 DEF CacheIs, InItsCache
<1>7. CacheIs(w.cache, w.free, D, L, en2, chain, at)
  BY <1>1, <1>4, <1>5, <1>6 DEF CacheIs
<1> QED
  BY <1>2, <1>7 DEF Good

\* at2 and en2 place and describe the entries like at and en but for block s.
SameBut(s, L, en, at, L2, en2, at2) ==
  /\ \A e \in L2 : at2[e] # s => e \in L /\ at[e] = at2[e] /\ Record(e, en2[e]) = Record(e, en[e])
  /\ \A e \in L : at[e] # s => e \in L2 /\ at2[e] = at[e]

\* One block changes, but not its link.
LEMMA BlockChanges ==
  ASSUME NEW c, NEW fr, NEW D, NEW L, NEW en, NEW chain, NEW at,
         CacheIs(c, fr, D, L, en, chain, at), WellFormed(L, en), DOMAIN c = Blocks,
         NEW s \in Blocks, NEW b2, IsBlock(b2), b2.nextDirC = c[s].nextDirC,
         NEW L2, NEW en2, NEW at2, WellFormed(L2, en2),
         BlockLists(b2, {e \in L2 : at2[e] = s}, RecordsOf(en2)),
         SameBut(s, L, en, at, L2, en2, at2),
         InItsCache(D, L2, en2, chain, at2), NoneEmpty(D, L2, chain, at2),
         \A d \in D : FirstOf(en2, d) = FirstOf(en, d),
         NEW c2, c2 = [c EXCEPT ![s] = b2]
  PROVE  CacheIs(c2, fr, D, L2, en2, chain, at2)
<1>1. \A t \in Blocks : c2[t] = IF t = s THEN b2 ELSE c[t]
  OBVIOUS
<1>2. ASSUME NEW t \in Blocks, t # s
      PROVE  BlockLists(c[t], {e \in L2 : at2[e] = t}, RecordsOf(en2))
  <2> DEFINE X == {e \in L : at[e] = t}
             rec == RecordsOf(en)
             rec2 == RecordsOf(en2)
             b == c[t]
  <2>1. BlockLists(b, X, rec)
    BY DEF CacheIs, BlocksHold
  <2>2. \A e \in X : rec2[e] = rec[e]
    <3>1. \A e \in X : e \in L2 /\ e \in L /\ Record(e, en2[e]) = Record(e, en[e])
      BY <1>2 DEF SameBut
    <3>2. \A e \in L : rec[e] = Record(e, en[e])
      BY RecordsWellFormed
    <3>3. \A e \in L2 : rec2[e] = Record(e, en2[e])
      BY RecordsWellFormed
    <3> QED
      BY <3>1, <3>2, <3>3
  <2>3. {e \in L2 : at2[e] = t} = X
    BY <1>2 DEF SameBut
  <2> HIDE DEF X, rec, rec2, b
  <2>4. BlockLists(b, X, rec2)
    BY <2>1, <2>2, BlockSame
  <2> QED
    BY <2>3, <2>4 DEF rec2, b
<1>3. BlocksHold(c2, L2, en2, at2)
  <2>1. \A t \in Blocks : IsBlock(c[t])
    BY DEF CacheIs, BlocksHold
  <2> QED
    BY <1>1, <1>2, <2>1 DEF BlocksHold
<1>4. ASSUME NEW d \in D
      PROVE  IsChain(c2, chain[d], FirstOf(en2, d))
  <2>1. IsChain(c, chain[d], FirstOf(en, d))
    BY DEF CacheIs, ChainsLinked
  <2>2. chain[d] \in Seq(Blocks)
    BY <2>1 DEF IsChain
  <2>3. \A t \in BlocksIn(chain[d]) : t \in Blocks
    BY <2>2, ChainParts DEF BlocksIn
  <2>4. \A t \in BlocksIn(chain[d]) : c2[t].nextDirC = c[t].nextDirC
    BY <1>1, <2>3
  <2>5. IsChain(c2, chain[d], FirstOf(en, d))
    BY <2>1, <2>4, ChainSame
  <2> QED
    BY <2>5
<1> QED
  BY <1>3, <1>4 DEF CacheIs, ChainsLinked

-----------------------------------------------------------------------------
(* The operations *)

\* A record that is added to the cache of its directory, when there is room in
\* the last block.
LEMMA Added ==
  ASSUME NEW w, NEW D, NEW L, NEW en, Good(w, D, L, en),
         NEW x, x \notin L, WellFormed(L \cup {x}, en), en[x].dir \in D,
         NEW first, first = FirstOf(en, en[x].dir), NEW r, r = Record(x, en[x]),
         NEW after, after = adfAddInCache(w, first, r), ~after.grown
  PROVE  Good(after, D, L \cup {x}, en) /\ after.free = w.free /\ after.cut = w.cut
<1>1. PICK chain, at : CacheIs(w.cache, w.free, D, L, en, chain, at)
  BY DEF Good
<1>2. IsWorld(w) /\ w.ok /\ WellFormed(L, en)
  BY DEF Good
<1> DEFINE d == en[x].dir
           ch == chain[d]
           s == ch[Len(ch)]
           b == w.cache[s]
           end == EndOf(b)
           put == adfPutCacheEntry(b.records, end, r)
           b2 == Appended(b, r)
           c2 == [w.cache EXCEPT ![s] = b2]
<1>3. /\ Chain(w.cache, first) = ch /\ DOMAIN ch = 1..Len(ch)
      /\ Len(ch) \in Nat /\ Len(ch) >= 1 /\ s \in Blocks /\ s \in BlocksIn(ch)
      /\ \A k \in 1..Len(ch) : AllReadable(w.cache[ch[k]])
  <2>1. /\ Chain(w.cache, first) = ch /\ DOMAIN ch = 1..Len(ch)
        /\ Len(ch) \in Nat /\ Len(ch) >= 1
        /\ \A k \in 1..Len(ch) : ch[k] \in Blocks /\ AllReadable(w.cache[ch[k]])
    BY <1>1, <1>2, CacheRead
  <2>2. Len(ch) \in 1..Len(ch)
    BY <2>1
  <2> QED
    BY <2>1, <2>2 DEF BlocksIn
<1>4. after = IF end + r.len <= Area THEN [w EXCEPT !.cache[s] = b2]
              ELSE IF w.free = {} THEN [Fails(w) EXCEPT !.grown = TRUE]
              ELSE [w EXCEPT !.free = @ \ {Granted(w)},
                      !.cache = [@ EXCEPT ![Granted(w)] = [EmptyBlock EXCEPT !.recordsNb = 1],
                                          ![s] = [b EXCEPT !.records = put,
                                                           !.nextDirC = Granted(w)]],
                      !.grown = TRUE]
  <2>1. b2 = [b EXCEPT !.records = put, !.recordsNb = @ + 1]
    BY DEF Appended
  <2> HIDE DEF end, s, b, put, ch, d, b2
  <2> QED
    BY <1>2, <1>3, <2>1 DEF adfAddInCache, EndOf, end, s, b, put
<1>5. end + r.len <= Area
  <2>1. "grown" \in DOMAIN w /\ "grown" \in DOMAIN Fails(w)
    BY <1>2 DEF IsWorld, Fails
  <2> HIDE DEF end, s, b, put, ch, d, b2
  <2> QED
    BY <1>4, <2>1
<1>6. /\ after.cache = c2 /\ after.free = w.free /\ after.cut = w.cut
      /\ after.ok /\ IsWorld(after)
  <2> HIDE DEF b2, s, end
  <2>1. after = [w EXCEPT !.cache[s] = b2]
    BY <1>4, <1>5
  <2> QED
    BY <1>2, <2>1 DEF IsWorld
<1> DEFINE X == {e \in L : at[e] = s}
           rec == RecordsOf(en)
           at2 == [e \in L \cup {x} |-> IF e = x THEN s ELSE at[e]]
<1>8. IsBlock(b) /\ BlockLists(b, X, rec)
  BY <1>1, <1>3 DEF CacheIs, BlocksHold
<1>9. Records(X \cup {x}, rec) /\ rec[x] = r /\ x \notin X
  BY RecordsWellFormed
<1>10. IsBlock(b2) /\ b2.nextDirC = b.nextDirC /\ BlockLists(b2, X \cup {x}, rec)
  <2>1. RoomFor(b, r) /\ b2 = Appended(b, r) /\ r = rec[x]
    BY <1>5, <1>9 DEF RoomFor
  <2> HIDE DEF b2, b, X, rec
  <2>2. Rewritten(b, b2, X \cup {x}, rec)
    BY ONLY <1>8, <1>9, <2>1, BlockPut
  <2> QED
    BY <2>2 DEF Rewritten
<1>11. {e \in L \cup {x} : at2[e] = s} = X \cup {x}
  OBVIOUS
<1>12. \A e \in L : e # x /\ at2[e] = at[e]
  OBVIOUS
<1>13. at2[x] = s
  OBVIOUS
<1> HIDE DEF at2, b2, b, X, rec, end, put, s, ch
<1>14. SameBut(s, L, en, at, L \cup {x}, en, at2)
  BY <1>12, <1>13 DEF SameBut
<1>15. InItsCache(D, L \cup {x}, en, chain, at2)
  BY <1>1, <1>3, <1>12, <1>13 DEF CacheIs, InItsCache, ch
<1>16. NoneEmpty(D, L \cup {x}, chain, at2)
  <2>1. \A f \in D : \A k \in 2..Len(chain[f]) : \E e \in L : at2[e] = chain[f][k]
    BY <1>1, <1>12 DEF CacheIs, NoneEmpty
  <2> QED
    BY <2>1 DEF NoneEmpty
<1>17. /\ DOMAIN w.cache = Blocks
       /\ BlockLists(b2, {e \in L \cup {x} : at2[e] = s}, RecordsOf(en))
       /\ b2.nextDirC = w.cache[s].nextDirC
  <2>1. RecordsOf(en) = rec /\ w.cache[s] = b
    BY DEF rec, b
  <2> QED
    BY <1>2, <1>10, <1>11, <2>1 DEF IsWorld
<1>18. CacheIs(c2, w.free, D, L \cup {x}, en, chain, at2)
  <2> HIDE DEF c2
  <2>1. c2 = [w.cache EXCEPT ![s] = b2]
    BY DEF c2
  <2> QED
    BY <1>1, <1>2, <1>3, <1>10, <1>14, <1>15, <1>16, <1>17, <2>1, BlockChanges
<1> QED
  BY <1>6, <1>18 DEF Good

\* The blocks c without s, the one behind t.
Shortened(c, s, t) == [c EXCEPT ![s] = EmptyBlock, ![t].nextDirC = 0]

\* s, the last block of the cache ch of the directory of x, holds its record only.
LastRecord(L, en, chain, at, x, ch, s, t) ==
  /\ ch = chain[en[x].dir] /\ Len(ch) > 1
  /\ s = ch[Len(ch)] /\ t = ch[Len(ch) - 1]
  /\ s = at[x] /\ \A e \in L : at[e] = s => e = x

\* A record that is deleted where it is the only one of a block behind the first
\* takes its block, the last one of the cache, with it.
LEMMA BlockGoes ==
  ASSUME NEW c, NEW fr, NEW D, NEW L, NEW en, NEW chain, NEW at,
         CacheIs(c, fr, D, L, en, chain, at), WellFormed(L, en), DOMAIN c = Blocks,
         NEW x \in L, NEW ch, NEW s, NEW t, LastRecord(L, en, chain, at, x, ch, s, t),
         NEW c2, c2 = Shortened(c, s, t)
  PROVE  \E chain2 : CacheIs(c2, fr \cup {s}, D, L \ {x}, en, chain2, at)
<1> DEFINE rec == RecordsOf(en)
<1>1. \E d, k : /\ d = en[x].dir /\ k = Len(ch) /\ k > 1 /\ ch = chain[d]
                /\ s = ch[k] /\ t = ch[k - 1]
                /\ s = at[x] /\ \A e \in L : at[e] = s => e = x
  BY DEF LastRecord
<1>2. PICK d, k : /\ d = en[x].dir /\ k = Len(ch) /\ k > 1 /\ ch = chain[d]
                  /\ s = ch[k] /\ t = ch[k - 1]
                  /\ s = at[x] /\ \A e \in L : at[e] = s => e = x
  BY <1>1, Zenon
<1>3. k > 1
  BY <1>2
<1>4. s = ch[k] /\ t = ch[k - 1]
  BY <1>2
<1>5. /\ BlocksHold(c, L, en, at) /\ ChainsLinked(c, D, en, chain) /\ ChainsApart(D, chain)
      /\ OthersFree(fr, D, chain) /\ InItsCache(D, L, en, chain, at)
      /\ NoneEmpty(D, L, chain, at)
  BY DEF CacheIs
<1>6. d \in D /\ IsChain(c, ch, FirstOf(en, d))
  <2>1. en[x].dir \in D
    BY <1>5 DEF InItsCache
  <2>2. d \in D /\ ch = chain[d]
    BY ONLY <1>2, <2>1
  <2> QED
    BY ONLY <1>5, <2>2 DEF ChainsLinked
<1>7. /\ ch \in Seq(Blocks) /\ ch[1] = FirstOf(en, d)
      /\ \A j \in 1..(k - 1) : c[ch[j]].nextDirC = ch[j + 1]
      /\ \A i, j \in 1..k : ch[i] = ch[j] => i = j
  BY ONLY <1>2, <1>6 DEF IsChain
<1>8. /\ k \in Nat /\ k - 1 \in Nat /\ 1 <= k - 1 /\ k \in 1..k /\ k - 1 \in 1..k
      /\ \A j \in 1..k : ch[j] \in Blocks
  <2>1. k \in Nat /\ \A j \in 1..k : ch[j] \in Blocks
    BY <1>2, <1>7, ChainParts
  <2> QED
    BY <1>3, <2>1
<1>9. s \in Blocks /\ t \in Blocks /\ t # s
  <2>1. s \in Blocks /\ t \in Blocks
    BY <1>2, <1>8
  <2>2. t = s => k - 1 = k
    BY ONLY <1>7, <1>8, <1>2
  <2> QED
    BY <1>8, <2>1, <2>2
<1> DEFINE tb == [c[t] EXCEPT !.nextDirC = 0]
<1>10. \A u \in Blocks : c2[u] = IF u = s THEN EmptyBlock ELSE IF u = t THEN tb ELSE c[u]
  BY <1>9 DEF Shortened
<1>11. tb.nextDirC = 0 /\ tb.recordsNb = c[t].recordsNb /\ tb.records = c[t].records /\ IsBlock(tb)
  <2>1. IsBlock(c[t])
    BY <1>5, <1>9 DEF BlocksHold
  <2> QED
    BY <2>1 DEF IsBlock
<1> DEFINE front == [j \in 1..(k - 1) |-> ch[j]]
           chain2 == [e \in D |-> IF e = d THEN front ELSE chain[e]]
<1>12. /\ front \in Seq(Blocks) /\ Len(front) = k - 1
      /\ \A j \in 1..(k - 1) : front[j] = ch[j] /\ j \in 1..k
  <2>1. front \in [1..(k - 1) -> Blocks]
    BY <1>8
  <2> QED
    BY <1>8, <2>1
<1>13. BlocksIn(front) = BlocksIn(ch) \ {s} /\ s \in BlocksIn(ch)
  <2>1. BlocksIn(front) = {ch[j] : j \in 1..(k - 1)}
    BY <1>12 DEF BlocksIn
  <2>2. BlocksIn(ch) = {ch[j] : j \in 1..k}
    BY <1>2 DEF BlocksIn
  <2>3. \A j \in 1..k : j = k \/ j \in 1..(k - 1)
    BY <1>8
  <2>4. ASSUME NEW j \in 1..(k - 1)
        PROVE  j \in 1..k /\ ch[j] # s
    <3>1. j \in 1..k /\ j # k
      BY <1>8
    <3> QED
      BY ONLY <1>7, <1>8, <3>1, <1>2
  <2> HIDE DEF front
  <2> QED
    BY ONLY <1>8, <2>1, <2>2, <2>3, <2>4, <1>4
<1>14. chain2[d] = front /\ \A e \in D : e # d => chain2[e] = chain[e]
  BY <1>6
<1>15. \A e \in D : BlocksIn(chain2[e]) = BlocksIn(chain[e]) \ {s}
  <2> SUFFICES ASSUME NEW e \in D PROVE BlocksIn(chain2[e]) = BlocksIn(chain[e]) \ {s}
    OBVIOUS
  <2>1. CASE e = d
    BY <1>2, <1>13, <1>14, <2>1
  <2>2. CASE e # d
    <3>1. s \notin BlocksIn(chain[e])
      BY <1>2, <1>5, <1>6, <1>13, <2>2 DEF ChainsApart
    <3> QED
      BY <1>14, <2>2, <3>1
  <2> QED
    BY <2>1, <2>2
<1> HIDE DEF front, chain2, tb
<1>16. ASSUME NEW u \in Blocks
       PROVE  IsBlock(c2[u]) /\ BlockLists(c2[u], {e \in L \ {x} : at[e] = u}, rec)
  <2> DEFINE X == {e \in L : at[e] = u}
  <2>1. CASE u = s
    <3>1. {e \in L \ {x} : at[e] = u} = {}
      BY <1>2, <2>1
    <3>2. c2[u] = EmptyBlock
      BY <1>10, <2>1
    <3>3. IsBlock(EmptyBlock) /\ BlockLists(EmptyBlock, {}, rec)
      BY BlockEmpty
    <3> QED
      BY <3>1, <3>2, <3>3
  <2>2. CASE u # s
    <3>1. {e \in L \ {x} : at[e] = u} = X
      BY <1>2, <2>2
    <3>2. IsBlock(c[u]) /\ BlockLists(c[u], X, rec)
      BY <1>5 DEF BlocksHold
    <3>3. /\ c2[u].recordsNb = c[u].recordsNb /\ c2[u].records = c[u].records
          /\ IsBlock(c2[u])
      BY <1>10, <1>11, <2>2, <3>2
    <3>4. BlockLists(c2[u], X, rec)
      <4> HIDE DEF X, rec
      <4> QED
        BY <3>2, <3>3, BlockSame
    <3>5. BlockLists(c2[u], {e \in L \ {x} : at[e] = u}, rec)
      BY ONLY <3>1, <3>4, Zenon
    <3> QED
      BY ONLY <3>3, <3>5, Zenon
  <2> QED
    BY <2>1, <2>2
<1>17. ASSUME NEW e \in D
       PROVE  IsChain(c2, chain2[e], FirstOf(en, e))
  <2>1. CASE e = d
    <3>1. front[1] = FirstOf(en, d) /\ Len(front) >= 1
      BY <1>7, <1>8, <1>12
    <3>2. ASSUME NEW j \in 1..(Len(front) - 1)
          PROVE  c2[front[j]].nextDirC = front[j + 1]
      <4>1. j \in 1..(k - 1) /\ j + 1 \in 1..(k - 1) /\ j # k - 1 /\ j # k
        BY <1>8, <1>12
      <4>2. front[j] = ch[j] /\ front[j + 1] = ch[j + 1] /\ j \in 1..k
        BY <1>12, <4>1
      <4>4. ch[j] # s /\ ch[j] # t
        BY ONLY <1>7, <1>8, <4>1, <4>2, <1>4
      <4>3. c2[ch[j]] = c[ch[j]]
        BY <1>8, <1>10, <1>12, <4>1, <4>2, <4>4
      <4> QED
        BY <1>7, <4>1, <4>2, <4>3
    <3>3. c2[front[Len(front)]].nextDirC = 0
      <4>1. front[k - 1] = t
        BY <1>4, <1>8, <1>12
      <4> QED
        BY <1>9, <1>10, <1>11, <1>12, <4>1
    <3>4. \A i, j \in 1..Len(front) : front[i] = front[j] => i = j
      BY <1>7, <1>12
    <3>5. IsChain(c2, front, FirstOf(en, d))
      BY <1>12, <3>1, <3>2, <3>3, <3>4 DEF IsChain
    <3> QED
      BY <1>14, <2>1, <3>5
  <2>2. CASE e # d
    <3>1. IsChain(c, chain[e], FirstOf(en, e))
      BY <1>5 DEF ChainsLinked
    <3>2. \A u \in BlocksIn(chain[e]) : u \in Blocks /\ u # s /\ u # t
      <4>1. t \in BlocksIn(ch)
        BY <1>2, <1>8 DEF BlocksIn
      <4>2. \A u \in BlocksIn(chain[e]) : u # s /\ u # t
        BY <1>2, <1>5, <1>6, <1>13, <2>2, <4>1 DEF ChainsApart
      <4>3. chain[e] \in Seq(Blocks)
        BY <3>1 DEF IsChain
      <4>4. \A u \in BlocksIn(chain[e]) : u \in Blocks
        BY <4>3, ChainParts DEF BlocksIn
      <4> QED
        BY <4>2, <4>4
    <3>3. \A u \in BlocksIn(chain[e]) : c2[u].nextDirC = c[u].nextDirC
      BY <1>10, <3>2
    <3> QED
      BY <1>14, <2>2, <3>1, <3>3, ChainSame
  <2> QED
    BY <2>1, <2>2
<1>18. ChainsApart(D, chain2)
  BY <1>5, <1>15 DEF ChainsApart
<1>19. OthersFree(fr \cup {s}, D, chain2)
  <2>1. fr \cup {s} \subseteq Blocks
    BY <1>5, <1>9 DEF OthersFree
  <2>2. \A u \in Blocks : u \notin fr \cup {s} <=> \E e \in D : u \in BlocksIn(chain2[e])
    BY <1>5, <1>15 DEF OthersFree
  <2> QED
    BY <2>1, <2>2 DEF OthersFree
<1>20. InItsCache(D, L \ {x}, en, chain2, at)
  <2>1. \A e \in L \ {x} : en[e].dir \in D /\ at[e] \in BlocksIn(chain[en[e].dir]) /\ at[e] # s
    BY <1>2, <1>5 DEF InItsCache
  <2> QED
    BY <1>15, <2>1 DEF InItsCache
<1>21. NoneEmpty(D, L \ {x}, chain2, at)
  <2> SUFFICES ASSUME NEW f \in D, NEW j \in 2..Len(chain2[f])
               PROVE  \E e \in L \ {x} : at[e] = chain2[f][j]
    BY DEF NoneEmpty
  <2>1. /\ j \in 2..Len(chain[f]) /\ chain2[f][j] = chain[f][j]
        /\ chain2[f][j] \in BlocksIn(chain2[f])
    <3>1. CASE f = d
      <4>1. j \in 2..(k - 1) /\ j \in 1..(k - 1)
        BY <1>8, <1>12, <1>14, <3>1
      <4> QED
        BY <1>2, <1>8, <1>12, <1>14, <3>1, <4>1 DEF BlocksIn
    <3>2. CASE f # d
      <4>1. chain2[f] = chain[f] /\ j \in 1..Len(chain2[f])
        <5>1. Len(chain[f]) \in Nat
          BY <1>5, <1>6, CacheRead
        <5> QED
          BY <1>14, <3>2, <5>1
      <4> QED
        BY <4>1 DEF BlocksIn
    <3> QED
      BY <3>1, <3>2
  <2>2. PICK e \in L : at[e] = chain[f][j]
    BY <1>5, <2>1 DEF NoneEmpty
  <2>3. at[e] # s
    BY <1>15, <2>1, <2>2
  <2> QED
    BY <1>2, <2>1, <2>2, <2>3
<1>22. CacheIs(c2, fr \cup {s}, D, L \ {x}, en, chain2, at)
  BY <1>16, <1>17, <1>18, <1>19, <1>20, <1>21 DEF CacheIs, BlocksHold, ChainsLinked
<1> QED
  BY <1>22

\* A set with an element has no other one, or more than one element.
LEMMA OtherElement ==
  ASSUME NEW X, IsFiniteSet(X), NEW x \in X
  PROVE  /\ Cardinality(X) \in Nat /\ Cardinality(X) >= 1
         /\ Cardinality(X) > 1 <=> \E e \in X : e # x
<1>1. Cardinality(X) \in Nat
  BY FS_CardinalityType
<1>2. {x} \in SUBSET X /\ Cardinality({x}) = 1
  BY FS_Singleton
<1>3. Cardinality({x}) <= Cardinality(X) /\ (Cardinality(X) = Cardinality({x}) => X = {x})
  BY <1>2, FS_Subset
<1>4. Cardinality(X) > 1 => \E e \in X : e # x
  <2> SUFFICES ASSUME ~(\E e \in X : e # x) PROVE ~(Cardinality(X) > 1)
    OBVIOUS
  <2>1. X = {x}
    OBVIOUS
  <2> QED
    BY <1>2, <2>1
<1> QED
  BY <1>1, <1>2, <1>3, <1>4

\* A record that is deleted from the cache of its directory, when blocks behind
\* it are not cut off.
LEMMA Deleted ==
  ASSUME NEW w, NEW D, NEW L, NEW en, Good(w, D, L, en), NEW x \in L,
         NEW first, first = FirstOf(en, en[x].dir),
         NEW after, after = adfDelFromCache(w, first, x), ~after.cut
  PROVE  Good(after, D, L \ {x}, en)
<1>1. PICK chain, at : CacheIs(w.cache, w.free, D, L, en, chain, at)
  BY DEF Good
<1>2. IsWorld(w) /\ w.ok /\ WellFormed(L, en) /\ WellFormed(L \ {x}, en)
  BY DEF Good, WellFormed
<1> DEFINE d == en[x].dir
           ch == chain[d]
           places == Places(w.cache, ch, x)
           p == CHOOSE q \in places : TRUE
           k == p[1]
           n == p[2]
           s == ch[k]
           b == w.cache[s]
           t == ch[k - 1]
<1>3. /\ d \in D /\ Chain(w.cache, first) = ch /\ Len(ch) \in Nat
      /\ \A j \in 1..Len(ch) : ch[j] \in Blocks
  <2>1. d \in D
    BY <1>1 DEF CacheIs, InItsCache
  <2> QED
    BY <1>1, <1>2, <2>1, CacheRead
<1>4. places # {} /\ p \in places
  BY <1>1, <1>2, PlacesIs
<1>5. /\ k \in 1..Len(ch) /\ s = at[x] /\ s \in Blocks
      /\ n \in Numbers(b) /\ RecordAt(b, n).header = x
  <2>1. \A q \in places : /\ q[1] \in 1..Len(ch) /\ ch[q[1]] = at[x]
                          /\ q[2] \in Numbers(w.cache[at[x]])
                          /\ RecordAt(w.cache[at[x]], q[2]).header = x
    BY <1>1, <1>2, PlacesIs
  <2> HIDE DEF p, places
  <2> QED
    BY <1>3, <1>4, <2>1
<1>6. after = IF b.recordsNb > 1 \/ k = 1
                THEN [w EXCEPT !.cache[s] = Removed(b, n)]
                ELSE [SetFree(w, s) EXCEPT !.cache[t].nextDirC = 0, !.cut = @ \/ k < Len(ch)]
  <2>1. places = Places(w.cache, Chain(w.cache, first), x) /\ Chain(w.cache, first) = ch
    BY <1>3
  <2> HIDE DEF places, ch
  <2> QED
    BY <1>2, <1>4, <2>1 DEF adfDelFromCache
<1> DEFINE X == {e \in L : at[e] = s}
           rec == RecordsOf(en)
<1>7. IsBlock(b) /\ BlockLists(b, X, rec) /\ Records(X, rec)
  <2>1. Records(X, rec)
    BY <1>2, RecordsWellFormed
  <2> QED
    BY <1>1, <1>5, <2>1 DEF CacheIs, BlocksHold
<1> HIDE DEF p
<1>8. x \in X /\ (b.recordsNb > 1 <=> \E e \in X : e # x)
  <2>1. x \in X
    BY <1>5
  <2> HIDE DEF X, rec, b, s
  <2>2. IsFiniteSet(X) /\ Cardinality(X) = b.recordsNb
    BY <1>7, BlockSize
  <2> QED
    BY <2>1, <2>2, OtherElement
<1>9. CASE b.recordsNb > 1 \/ k = 1
  <2> DEFINE b2 == Removed(b, n)
             c2 == [w.cache EXCEPT ![s] = b2]
  <2>1. Rewritten(b, b2, X \ {x}, rec)
    <3> HIDE DEF b, X, rec, n
    <3>1. b2 = Removed(b, n)
      OBVIOUS
    <3> HIDE DEF b2
    <3> QED
      BY <1>5, <1>7, <3>1, BlockRemoved
  <2>2. after.cache = c2 /\ after.free = w.free /\ after.ok /\ IsWorld(after)
    <3>1. after = [w EXCEPT !.cache[s] = b2]
      <4> HIDE DEF b, k, n, s, t, ch
      <4> QED
        BY <1>6, <1>9
    <3> HIDE DEF b2, s
    <3> QED
      BY <1>2, <3>1 DEF IsWorld
  <2>3. {e \in L \ {x} : at[e] = s} = X \ {x}
    OBVIOUS
  <2>4. /\ BlockLists(b2, {e \in L \ {x} : at[e] = s}, RecordsOf(en)) /\ IsBlock(b2)
        /\ b2.nextDirC = w.cache[s].nextDirC
    <3>1. BlockLists(b2, X \ {x}, rec) /\ IsBlock(b2) /\ b2.nextDirC = b.nextDirC
      <4> HIDE DEF b, b2, X, rec
      <4> QED
        BY ONLY <2>1 DEF Rewritten
    <3>2. BlockLists(b2, {e \in L \ {x} : at[e] = s}, rec)
      BY ONLY <2>3, <3>1, Zenon
    <3> QED
      BY ONLY <3>1, <3>2, Zenon
  <2>5. SameBut(s, L, en, at, L \ {x}, en, at)
    BY <1>5 DEF SameBut
  <2>6. InItsCache(D, L \ {x}, en, chain, at)
    BY <1>1 DEF CacheIs, InItsCache
  <2>7. NoneEmpty(D, L \ {x}, chain, at)
    <3> SUFFICES ASSUME NEW f \in D, NEW j \in 2..Len(chain[f])
                 PROVE  \E e \in L \ {x} : at[e] = chain[f][j]
      BY DEF NoneEmpty
    <3>1. PICK e \in L : at[e] = chain[f][j]
      BY <1>1 DEF CacheIs, NoneEmpty
    <3>2. CASE e = x
      <4>1. chain[f][j] = s /\ j \in 1..Len(chain[f])
        <5>1. Len(chain[f]) \in Nat
          BY <1>1, <1>2, CacheRead
        <5> QED
          BY <1>5, <3>1, <3>2, <5>1
      <4>2. s \in BlocksIn(chain[f]) /\ s \in BlocksIn(ch)
        BY <1>5, <4>1 DEF BlocksIn
      <4>3. f = d
        BY <1>1, <1>3, <4>2 DEF CacheIs, ChainsApart
      <4>4. j = k
        <5>1. IsChain(w.cache, ch, FirstOf(en, d))
          BY <1>1, <1>3 DEF CacheIs, ChainsLinked
        <5>2. \A i, m \in 1..Len(ch) : ch[i] = ch[m] => i = m
          BY <5>1 DEF IsChain
        <5>3. ch[j] = ch[k] /\ j \in 1..Len(ch)
          BY <4>1, <4>3
        <5> HIDE DEF ch, k
        <5> QED
          BY <1>5, <5>2, <5>3
      <4>5. b.recordsNb > 1
        <5>1. k # 1
          BY <4>4
        <5> QED
          BY <1>9, <5>1
      <4>6. PICK y \in X : y # x
        BY <1>8, <4>5
      <4>7. y \in L \ {x} /\ at[y] = chain[f][j]
        BY <4>1, <4>6
      <4> QED
        BY <4>7
    <3>3. CASE e # x
      BY <3>1, <3>3
    <3> QED
      BY <3>2, <3>3
  <2>8. CacheIs(c2, w.free, D, L \ {x}, en, chain, at)
    <3>1. c2 = [w.cache EXCEPT ![s] = b2] /\ DOMAIN w.cache = Blocks
      BY <1>2 DEF IsWorld
    <3> HIDE DEF c2, b2, s
    <3> QED
      BY <1>1, <1>2, <1>5, <2>4, <2>5, <2>6, <2>7, <3>1, BlockChanges
  <2>9. WellFormed(L \ {x}, en) /\ after.ok /\ IsWorld(after)
    BY ONLY <1>2, <2>2
  <2> HIDE DEF c2
  <2> QED
    BY ONLY <2>2, <2>8, <2>9, GoodIs
<1>10. CASE ~(b.recordsNb > 1 \/ k = 1)
  <2> DEFINE c2 == Shortened(w.cache, s, t)
  <2>1. after = [SetFree(w, s) EXCEPT !.cache[t].nextDirC = 0, !.cut = @ \/ k < Len(ch)]
    <3> HIDE DEF b, k, n, s, t, ch
    <3> QED
      BY <1>6, <1>10
  <2>2. /\ after.cache = c2 /\ after.free = w.free \cup {s} /\ after.ok
        /\ after.cut = (w.cut \/ k < Len(ch)) /\ IsWorld(after)
    <3> HIDE DEF s, t, k, ch
    <3>1. /\ SetFree(w, s).cache = [w.cache EXCEPT ![s] = EmptyBlock]
          /\ SetFree(w, s).free = w.free \cup {s} /\ SetFree(w, s).ok = w.ok
          /\ SetFree(w, s).cut = w.cut /\ DOMAIN SetFree(w, s) = DOMAIN w
      BY <1>2 DEF SetFree, IsWorld
    <3> DEFINE v == SetFree(w, s)
    <3>2. v.cache = [w.cache EXCEPT ![s] = EmptyBlock] /\ v.free = w.free \cup {s}
          /\ v.ok = w.ok /\ v.cut = w.cut /\ DOMAIN v = DOMAIN w
      BY <3>1
    <3>3. after = [v EXCEPT !.cache[t].nextDirC = 0, !.cut = @ \/ k < Len(ch)]
      BY <2>1
    <3> HIDE DEF v
    <3>4. /\ after.cache = [v.cache EXCEPT ![t].nextDirC = 0] /\ after.free = v.free
          /\ after.ok = v.ok /\ after.cut = (v.cut \/ k < Len(ch)) /\ DOMAIN after = DOMAIN v
      BY <1>2, <3>2, <3>3 DEF IsWorld
    <3>5. after.cache = c2
      BY <3>2, <3>4 DEF Shortened
    <3>6. DOMAIN after.cache = Blocks
      BY <1>2, <3>2, <3>4 DEF IsWorld
    <3> QED
      BY <1>2, <3>2, <3>4, <3>5, <3>6 DEF IsWorld
  <2>3. k = Len(ch) /\ k > 1
    <3>1. ~(k < Len(ch)) /\ k # 1
      BY <1>10, <2>2
    <3> HIDE DEF k, ch
    <3> QED
      BY <1>3, <1>5, <3>1
  <2>4. \A e \in L : at[e] = s => e = x
    BY <1>8, <1>10
  <2>5. \E chain2 : CacheIs(c2, w.free \cup {s}, D, L \ {x}, en, chain2, at)
    <3>2. x \in L
      OBVIOUS
    <3>1. DOMAIN w.cache = Blocks /\ c2 = Shortened(w.cache, s, t)
      BY <1>2 DEF IsWorld
    <3>3. LastRecord(L, en, chain, at, x, ch, s, t)
      BY <1>5, <2>3, <2>4 DEF LastRecord
    <3> HIDE DEF c2, s, k, ch, d, t
    <3> QED
      BY ONLY <1>1, <1>2, <3>1, <3>2, <3>3, BlockGoes
  <2> HIDE DEF c2, s
  <2>6. PICK chain2 : CacheIs(after.cache, after.free, D, L \ {x}, en, chain2, at)
    BY <2>2, <2>5
  <2> QED
    BY <1>2, <2>2, <2>6 DEF Good
<1> QED
  BY <1>9, <1>10

\* Deleting keeps the fields of the state, adding that blocks were cut off.
LEMMA FieldsKept ==
  ASSUME NEW w, IsWorld(w), NEW first, NEW h, NEW r, NEW gone, gone = adfDelFromCache(w, first, h),
         NEW first2, NEW after, after = adfAddInCache(gone, first2, r)
  PROVE  after.cut = gone.cut
<1>1. DOMAIN gone = {"cache", "free", "ok", "grown", "cut"}
  <2> DEFINE ch == Chain(w.cache, first)
             p == CHOOSE q \in Places(w.cache, ch, h) : TRUE
             s == ch[p[1]]
             t == ch[p[1] - 1]
             b2 == Removed(w.cache[s], p[2])
             cut2 == p[1] < Len(ch)
  <2>1. \/ gone = w
        \/ gone = Fails(w)
        \/ gone = [w EXCEPT !.cache[s] = b2]
        \/ gone = [SetFree(w, s) EXCEPT !.cache[t].nextDirC = 0, !.cut = @ \/ cut2]
    <3> HIDE DEF s, t, b2, cut2
    <3> QED
      BY Zenon DEF adfDelFromCache, s, t, b2, cut2
  <2> HIDE DEF s, t, b2, cut2
  <2>2. DOMAIN SetFree(w, s) = DOMAIN w
    BY DEF SetFree
  <2>3. DOMAIN Fails(w) = DOMAIN w
    BY DEF Fails
  <2>4. DOMAIN gone = DOMAIN w
    BY <2>1, <2>2, <2>3
  <2> QED
    BY <2>4 DEF IsWorld
<1>2. after.cut = gone.cut
  <2> DEFINE ch == Chain(gone.cache, first2)
             s == ch[Len(ch)]
             b == gone.cache[s]
             put == adfPutCacheEntry(b.records, Offset(b, b.recordsNb), r)
             new == Granted(gone)
             b2 == [b EXCEPT !.records = put, !.recordsNb = @ + 1]
             fr == gone.free \ {new}
             c2 == [gone.cache EXCEPT ![new] = [EmptyBlock EXCEPT !.recordsNb = 1],
                                      ![s] = [b EXCEPT !.records = put, !.nextDirC = new]]
  <2>1. \/ after = gone
        \/ after = Fails(gone)
        \/ after = [gone EXCEPT !.cache[s] = b2]
        \/ after = [Fails(gone) EXCEPT !.grown = TRUE]
        \/ after = [gone EXCEPT !.free = fr, !.cache = c2, !.grown = TRUE]
    BY Zenon DEF adfAddInCache
  <2> HIDE DEF s, b2, fr, c2
  <2>2. Fails(gone).cut = gone.cut /\ DOMAIN Fails(gone) = DOMAIN gone
    BY <1>1 DEF Fails
  <2> QED
    BY <1>1, <2>1, <2>2
<1> QED
  BY <1>2

\* en2 changes the header of x only, and what its record shows of it.
Rewrites(en, en2, x, D, L) ==
  /\ en2[x].dir = en[x].dir
  /\ \A e \in L : e # x => Record(e, en2[e]) = Record(e, en[e]) /\ en2[e].dir = en[e].dir
  /\ \A d \in D : FirstOf(en2, d) = FirstOf(en, d)

\* A record that is updated, with the same length if it is not looked at.
LEMMA Updated ==
  ASSUME NEW w, NEW D, NEW L, NEW en, Good(w, D, L, en), NEW x \in L,
         NEW en2, WellFormed(L, en2), Rewrites(en, en2, x, D, L),
         NEW first, first = FirstOf(en, en[x].dir), NEW r, r = Record(x, en2[x]),
         NEW entryLenChg \in BOOLEAN, entryLenChg \/ en2[x].len = en[x].len,
         NEW after, after = adfUpdateCache(w, first, r, entryLenChg),
         ~after.grown, ~after.cut
  PROVE  Good(after, D, L, en2)
<1>1. PICK chain, at : CacheIs(w.cache, w.free, D, L, en, chain, at)
  BY DEF Good
<1>2. IsWorld(w) /\ w.ok /\ WellFormed(L, en)
  BY DEF Good
<1> DEFINE d == en[x].dir
           ch == chain[d]
           places == Places(w.cache, ch, x)
           p == CHOOSE q \in places : TRUE
           k == p[1]
           n == p[2]
           s == ch[k]
           b == w.cache[s]
           len == RecordAt(b, n).len
           X == {e \in L : at[e] = s}
           rec == RecordsOf(en)
           rec2 == RecordsOf(en2)
<1>3. /\ d \in D /\ Chain(w.cache, first) = ch /\ Len(ch) \in Nat
      /\ \A j \in 1..Len(ch) : ch[j] \in Blocks
  <2>1. d \in D
    BY <1>1 DEF CacheIs, InItsCache
  <2> QED
    BY <1>1, <1>2, <2>1, CacheRead
<1>4. places # {} /\ p \in places
  BY <1>1, <1>2, PlacesIs
<1>5. /\ k \in 1..Len(ch) /\ s = at[x] /\ s \in Blocks
      /\ n \in Numbers(b) /\ RecordAt(b, n).header = x /\ len = en[x].len
  <2>1. \A q \in places : /\ q[1] \in 1..Len(ch) /\ ch[q[1]] = at[x]
                          /\ q[2] \in Numbers(w.cache[at[x]])
                          /\ RecordAt(w.cache[at[x]], q[2]).header = x
                          /\ RecordAt(w.cache[at[x]], q[2]).len = en[x].len
    BY <1>1, <1>2, PlacesIs
  <2> HIDE DEF p, places
  <2>2. /\ k \in 1..Len(ch) /\ ch[k] = at[x] /\ n \in Numbers(w.cache[at[x]])
        /\ RecordAt(w.cache[at[x]], n).header = x
        /\ RecordAt(w.cache[at[x]], n).len = en[x].len
    BY ONLY <1>4, <2>1
  <2>3. s = at[x]
    BY <2>2
  <2>4. b = w.cache[at[x]]
    BY <2>3
  <2>5. s \in Blocks
    BY ONLY <1>3, <2>2
  <2> HIDE DEF s, b, k, n, ch
  <2> QED
    BY ONLY <2>2, <2>3, <2>4, <2>5 DEF len
<1>6. r.header = x /\ r.len = en2[x].len
  BY DEF Record
<1>7. after = IF ~entryLenChg
                THEN [w EXCEPT !.cache[s].records = adfPutCacheEntry(@, Offset(b, n), r)]
              ELSE IF len >= r.len THEN [w EXCEPT !.cache[s] = Replaced(b, n, r)]
              ELSE adfAddInCache(adfDelFromCache(w, first, x), first, r)
  <2>1. places = Places(w.cache, Chain(w.cache, first), r.header) /\ Chain(w.cache, first) = ch
    BY <1>3, <1>6
  <2> HIDE DEF places, ch
  <2> QED
    BY <1>2, <1>4, <1>6, <2>1 DEF adfUpdateCache
<1> HIDE DEF p
<1>8. /\ IsBlock(b) /\ BlockLists(b, X, rec) /\ Records(X, rec) /\ Records(X, rec2)
      /\ rec2[x] = r /\ rec[x].len = en[x].len /\ x \in X
      /\ \A e \in X : e # x => rec2[e] = rec[e]
  <2>1. /\ Records(X, rec) /\ Records(X, rec2)
        /\ \A e \in L : /\ rec[e] = Record(e, en[e]) /\ rec2[e] = Record(e, en2[e])
                        /\ rec[e].len = en[e].len
    BY <1>2, RecordsWellFormed
  <2>2. IsBlock(b) /\ BlockLists(b, X, rec)
    BY <1>1, <1>5 DEF CacheIs, BlocksHold
  <2>3. \A e \in X : e \in L
    OBVIOUS
  <2>4. x \in X
    BY <1>5
  <2> HIDE DEF X, rec, rec2, b
  <2> QED
    BY <2>1, <2>2, <2>3, <2>4 DEF Rewrites
<1>9. r.len \in Nat /\ Offset(b, n) \in Nat
  <2>1. r.len \in Nat
    <3>1. r \in RecordSet
      BY DEF WellFormed
    <3> QED
      BY ONLY <3>1, RecordParts
  <2>2. AllReadable(b)
    <3> HIDE DEF b, X, rec
    <3> QED
      BY <1>8, BlockRead
  <2>3. Offset(b, n) \in Cells
    BY <1>5, <2>2 DEF AllReadable, Readable
  <2> QED
    BY <2>1, <2>3 DEF Cells
<1>10. ASSUME len >= r.len, after = [w EXCEPT !.cache[s] = Replaced(b, n, r)]
       PROVE  Good(after, D, L, en2)
  <2> DEFINE b2 == Replaced(b, n, r)
             c2 == [w.cache EXCEPT ![s] = b2]
  <2>1. Rewritten(b, b2, X, rec2)
    <3>1. b2 = Replaced(b, n, rec2[x]) /\ rec2[x].len <= rec[x].len
      <4>1. r.len <= len /\ len = rec[x].len
        BY <1>5, <1>8, <1>9, <1>10
      <4> HIDE DEF b, n, rec, rec2, len
      <4> QED
        BY <1>8, <4>1
    <3> HIDE DEF b, X, rec, rec2, n, b2
    <3> QED
      BY <1>5, <1>8, <3>1, BlockReplaced
  <2>2. after.cache = c2 /\ after.free = w.free /\ after.ok /\ IsWorld(after)
    <3>1. after = [w EXCEPT !.cache[s] = b2]
      BY ONLY <1>10, Zenon
    <3> HIDE DEF b2, s
    <3> QED
      BY <1>2, <3>1 DEF IsWorld
  <2>3. /\ BlockLists(b2, {e \in L : at[e] = s}, RecordsOf(en2)) /\ IsBlock(b2)
        /\ b2.nextDirC = w.cache[s].nextDirC
    <3>1. BlockLists(b2, X, rec2) /\ IsBlock(b2) /\ b2.nextDirC = b.nextDirC
      <4> HIDE DEF b, b2, X, rec2
      <4> QED
        BY ONLY <2>1 DEF Rewritten
    <3> QED
      BY ONLY <3>1, Zenon
  <2>4. SameBut(s, L, en, at, L, en2, at)
    BY <1>5 DEF SameBut, Rewrites
  <2>5. InItsCache(D, L, en2, chain, at)
    BY <1>1 DEF CacheIs, InItsCache, Rewrites
  <2>6. NoneEmpty(D, L, chain, at)
    BY <1>1 DEF CacheIs
  <2>7. CacheIs(c2, w.free, D, L, en2, chain, at)
    <3>1. c2 = [w.cache EXCEPT ![s] = b2] /\ DOMAIN w.cache = Blocks
      BY <1>2 DEF IsWorld
    <3>2. \A e \in D : FirstOf(en2, e) = FirstOf(en, e)
      BY DEF Rewrites
    <3> HIDE DEF c2, b2, s
    <3> QED
      BY <1>1, <1>2, <1>5, <2>3, <2>4, <2>5, <2>6, <3>1, <3>2, BlockChanges
  <2>8. WellFormed(L, en2)
    OBVIOUS
  <2> HIDE DEF c2
  <2> QED
    BY ONLY <2>2, <2>7, <2>8, GoodIs
<1>11. CASE ~entryLenChg
  <2>1. len = r.len
    BY <1>5, <1>6, <1>11
  <2>2. [b EXCEPT !.records = adfPutCacheEntry(@, Offset(b, n), r)] = Replaced(b, n, r)
    <3>1. IsBlock(b) /\ RecordAt(b, n).len = r.len
      <4> HIDE DEF b, n, X, rec, rec2
      <4> QED
        BY <1>8, <2>1
    <3> HIDE DEF b, n
    <3> QED
      BY <1>9, <3>1, PutInPlace
  <2>3. after = [w EXCEPT !.cache[s] = Replaced(b, n, r)]
    <3>1. after = [w EXCEPT !.cache[s].records = adfPutCacheEntry(@, Offset(b, n), r)]
      <4> HIDE DEF b, n, s, len
      <4> QED
        BY <1>7, <1>11
    <3>2. after = [w EXCEPT !.cache[s] = [b EXCEPT !.records = adfPutCacheEntry(@, Offset(b, n), r)]]
      <4> HIDE DEF s, n
      <4> QED
        BY ONLY <3>1, Zenon DEF b
    <3> HIDE DEF b, n, s
    <3> QED
      BY ONLY <2>2, <3>2, Zenon
  <2>4. len >= r.len
    BY <1>9, <2>1
  <2> HIDE DEF b, n, s, len
  <2> QED
    BY ONLY <1>10, <2>3, <2>4
<1>12. CASE entryLenChg /\ len >= r.len
  <2>1. after = [w EXCEPT !.cache[s] = Replaced(b, n, r)]
    <3> HIDE DEF b, n, s, len
    <3> QED
      BY <1>7, <1>12
  <2> HIDE DEF b, n, s, len
  <2> QED
    BY ONLY <1>10, <1>12, <2>1
<1>13. CASE entryLenChg /\ ~(len >= r.len)
  <2> DEFINE gone == adfDelFromCache(w, first, x)
  <2>1. after = adfAddInCache(gone, first, r)
    <3> HIDE DEF b, n, s, len
    <3> QED
      BY <1>7, <1>13
  <2>2. ~gone.cut
    <3> HIDE DEF gone
    <3>1. gone = adfDelFromCache(w, first, x)
      BY DEF gone
    <3> QED
      BY <1>2, <2>1, <3>1, FieldsKept
  <2>3. Good(gone, D, L \ {x}, en)
    <3> HIDE DEF gone
    <3>1. gone = adfDelFromCache(w, first, x)
      BY DEF gone
    <3> QED
      BY <2>2, <3>1, Deleted
  <2> HIDE DEF gone
  <2>4. Good(gone, D, L \ {x}, en2)
    <3>1. /\ \A e \in L \ {x} : Record(e, en2[e]) = Record(e, en[e]) /\ en2[e].dir = en[e].dir
          /\ \A f \in D : FirstOf(en2, f) = FirstOf(en, f)
      BY DEF Rewrites
    <3> QED
      BY <2>3, <3>1, CacheSame
  <2>5. (L \ {x}) \cup {x} = L
    OBVIOUS
  <2>6. en2[x].dir \in D /\ first = FirstOf(en2, en2[x].dir)
    BY <1>3 DEF Rewrites
  <2> DEFINE M == L \ {x}
  <2>7. Good(gone, D, M, en2) /\ x \notin M /\ WellFormed(M \cup {x}, en2)
    BY <2>4, <2>5
  <2> HIDE DEF M
  <2>8. Good(after, D, M \cup {x}, en2)
    BY <2>1, <2>6, <2>7, Added
  <2> QED
    BY <2>5, <2>8 DEF M
<1> QED
  BY <1>11, <1>12, <1>13


\* A block without records is cleared: the other blocks, and the caches it is not
\* in, stay.
LEMMA BlockCleared ==
  ASSUME NEW c, DOMAIN c = Blocks, NEW L, NEW en, NEW at, BlocksHold(c, L, en, at),
         NEW s \in Blocks, \A e \in L : at[e] # s,
         NEW c2, c2 = [c EXCEPT ![s] = EmptyBlock]
  PROVE  /\ BlocksHold(c2, L, en, at) /\ DOMAIN c2 = Blocks
         /\ \A ch, first : IsChain(c, ch, first) /\ s \notin BlocksIn(ch) => IsChain(c2, ch, first)
<1>1. DOMAIN c2 = Blocks /\ \A t \in Blocks : c2[t] = IF t = s THEN EmptyBlock ELSE c[t]
  OBVIOUS
<1>2. BlockLists(EmptyBlock, {e \in L : at[e] = s}, RecordsOf(en)) /\ IsBlock(EmptyBlock)
  <2>1. {e \in L : at[e] = s} = {}
    OBVIOUS
  <2> QED
    BY <2>1, BlockEmpty
<1>3. BlocksHold(c2, L, en, at)
  BY <1>1, <1>2 DEF BlocksHold
<1>4. ASSUME NEW ch, NEW first, IsChain(c, ch, first), s \notin BlocksIn(ch)
      PROVE  IsChain(c2, ch, first)
  <2>1. \A t \in BlocksIn(ch) : t \in Blocks
    BY <1>4, ChainParts DEF IsChain, BlocksIn
  <2>2. \A t \in BlocksIn(ch) : c2[t].nextDirC = c[t].nextDirC
    BY <1>1, <1>4, <2>1
  <2> QED
    BY <1>4, <2>2, ChainSame
<1> QED
  BY <1>1, <1>3, <1>4

\* The first block of the cache of a directory without entries is set free: it
\* has no other one.
LEMMA Emptied ==
  ASSUME NEW w, NEW D, NEW L, NEW en, Good(w, D, L, en), NEW d \in D,
         \A e \in L : en[e].dir # d,
         NEW after, after = SetFree(w, FirstOf(en, d))
  PROVE  Good(after, D \ {d}, L, en)
<1>1. PICK chain, at : CacheIs(w.cache, w.free, D, L, en, chain, at)
  BY DEF Good
<1>2. IsWorld(w) /\ w.ok /\ WellFormed(L, en) /\ DOMAIN w.cache = Blocks
  BY DEF Good, IsWorld
<1> DEFINE s == FirstOf(en, d)
           ch == chain[d]
           c2 == [w.cache EXCEPT ![s] = EmptyBlock]
<1>3. IsChain(w.cache, ch, s)
  BY <1>1 DEF CacheIs, ChainsLinked
<1>4. /\ Len(ch) \in Nat /\ Len(ch) >= 1 /\ ch[1] = s
      /\ \A k \in 1..Len(ch) : ch[k] \in Blocks
  BY <1>3, ChainParts DEF IsChain
<1>5. \A e \in L : at[e] \notin BlocksIn(ch)
  BY <1>1 DEF CacheIs, InItsCache, ChainsApart
<1>6. BlocksIn(ch) = {s} /\ s \in Blocks
  <2> HIDE DEF ch, s
  <2>1. 1 \in 1..Len(ch)
    BY <1>4
  <2>2. ~(2 <= Len(ch))
    <3> SUFFICES ASSUME 2 <= Len(ch) PROVE FALSE
      OBVIOUS
    <3>1. 2 \in 2..Len(ch) /\ 2 \in 1..Len(ch)
      BY <1>4
    <3>2. PICK e \in L : at[e] = ch[2]
      BY <1>1, <3>1 DEF CacheIs, NoneEmpty, ch
    <3> QED
      BY <1>5, <3>1, <3>2 DEF BlocksIn
  <2>3. \A k \in 1..Len(ch) : k = 1
    BY <1>4, <2>2
  <2> QED
    BY <1>4, <2>1, <2>3 DEF BlocksIn
<1>7. after.cache = c2 /\ after.free = w.free \cup {s} /\ after.ok /\ IsWorld(after)
  <2> HIDE DEF s
  <2>1. after = [w EXCEPT !.free = @ \cup {s}, !.cache[s] = EmptyBlock]
    BY DEF SetFree, s
  <2> QED
    BY <1>2, <2>1 DEF IsWorld
<1>8. \A f \in D \ {d} : s \notin BlocksIn(chain[f])
  <2> HIDE DEF s
  <2> QED
    BY <1>1, <1>6 DEF CacheIs, ChainsApart
<1>9. \A e \in L : at[e] # s
  BY <1>5, <1>6
<1> HIDE DEF s, c2
<1>10. /\ BlocksHold(c2, L, en, at) /\ DOMAIN c2 = Blocks
       /\ \A g, first : IsChain(w.cache, g, first) /\ s \notin BlocksIn(g) => IsChain(c2, g, first)
  <2>1. c2 = [w.cache EXCEPT ![s] = EmptyBlock] /\ BlocksHold(w.cache, L, en, at)
    BY <1>1 DEF c2, CacheIs
  <2> QED
    BY ONLY <1>2, <1>6, <1>9, <2>1, BlockCleared
<1>11. ChainsLinked(c2, D \ {d}, en, chain)
  BY <1>1, <1>8, <1>10 DEF CacheIs, ChainsLinked
<1>12. ChainsApart(D \ {d}, chain)
  BY <1>1 DEF CacheIs, ChainsApart
<1>13. OthersFree(after.free, D \ {d}, chain)
  BY <1>1, <1>6, <1>7, <1>8 DEF CacheIs, OthersFree
<1>14. InItsCache(D \ {d}, L, en, chain, at)
  BY <1>1 DEF CacheIs, InItsCache
<1>15. NoneEmpty(D \ {d}, L, chain, at)
  BY <1>1 DEF CacheIs, NoneEmpty
<1>16. CacheIs(after.cache, after.free, D \ {d}, L, en, chain, at)
  BY <1>7, <1>10, <1>11, <1>12, <1>13, <1>14, <1>15 DEF CacheIs, c2
<1> QED
  BY <1>2, <1>7, <1>16 DEF Good

\* A new directory gets a free block as its cache.
LEMMA Created ==
  ASSUME NEW w, NEW D, NEW L, NEW en, Good(w, D, L, en), NEW x, x \notin D,
         FirstOf(en, x) = Granted(w), w.free # {},
         NEW after, after = adfCreateEmptyCache(w)
  PROVE  Good(after, D \cup {x}, L, en)
<1>1. PICK chain, at : CacheIs(w.cache, w.free, D, L, en, chain, at)
  BY DEF Good
<1>2. IsWorld(w) /\ w.ok /\ WellFormed(L, en) /\ DOMAIN w.cache = Blocks
  BY DEF Good, IsWorld
<1> DEFINE s == Granted(w)
           c2 == [w.cache EXCEPT ![s] = EmptyBlock]
           chain2 == [f \in D \cup {x} |-> IF f = x THEN <<s>> ELSE chain[f]]
<1>3. s \in w.free /\ s \in Blocks
  <2>1. w.free \subseteq Blocks
    BY <1>1 DEF CacheIs, OthersFree
  <2>2. w.free \in SUBSET Nat
    BY <2>1, CacheAssumption
  <2>3. \E n \in w.free : \A m \in w.free : n <= m
    BY <2>2, LeastNumber
  <2> QED
    BY <2>1, <2>3 DEF Granted
<1>4. after.cache = c2 /\ after.free = w.free \ {s} /\ after.ok /\ IsWorld(after)
  <2>1. after = [w EXCEPT !.free = @ \ {s}, !.cache[s] = EmptyBlock]
    BY <1>2 DEF adfCreateEmptyCache
  <2> HIDE DEF s
  <2> QED
    BY <1>2, <2>1 DEF IsWorld
<1> HIDE DEF s, c2
<1>5. \A f \in D : s \notin BlocksIn(chain[f])
  BY <1>1, <1>3 DEF CacheIs, OthersFree
<1>6. \A e \in L : at[e] # s
  BY <1>1, <1>5 DEF CacheIs, InItsCache
<1>7. /\ BlocksHold(c2, L, en, at) /\ DOMAIN c2 = Blocks
      /\ \A g, first : IsChain(w.cache, g, first) /\ s \notin BlocksIn(g) => IsChain(c2, g, first)
  <2>1. c2 = [w.cache EXCEPT ![s] = EmptyBlock] /\ BlocksHold(w.cache, L, en, at)
    BY <1>1 DEF c2, CacheIs
  <2> QED
    BY ONLY <1>2, <1>3, <1>6, <2>1, BlockCleared
<1>8. chain2[x] = <<s>> /\ \A f \in D : chain2[f] = chain[f]
  OBVIOUS
<1> HIDE DEF chain2
<1>9. BlocksIn(<<s>>) = {s}
  <2>1. Len(<<s>>) = 1 /\ <<s>>[1] = s
    OBVIOUS
  <2> QED
    BY <2>1 DEF BlocksIn
<1>10. IsChain(c2, <<s>>, FirstOf(en, x))
  <2>1. Len(<<s>>) = 1 /\ <<s>>[1] = s /\ <<s>> \in Seq(Blocks)
    BY <1>3
  <2>2. c2[s].nextDirC = 0
    BY <1>2, <1>3, BlockEmpty DEF c2
  <2>3. FirstOf(en, x) = s
    BY DEF s
  <2>4. 1..(1 - 1) = {} /\ \A j, k \in 1..1 : j = k
    OBVIOUS
  <2> DEFINE one == <<s>>
  <2>5. Len(one) = 1 /\ one[1] = s /\ one \in Seq(Blocks)
    BY <2>1
  <2> HIDE DEF one
  <2>6. IsChain(c2, one, s)
    BY <2>2, <2>4, <2>5 DEF IsChain
  <2> QED
    BY <2>3, <2>6 DEF one
<1>11. ChainsLinked(c2, D \cup {x}, en, chain2)
  BY <1>1, <1>5, <1>7, <1>8, <1>10 DEF CacheIs, ChainsLinked
<1>12. ChainsApart(D \cup {x}, chain2)
  BY <1>1, <1>5, <1>8, <1>9 DEF CacheIs, ChainsApart
<1>13. OthersFree(after.free, D \cup {x}, chain2)
  BY <1>1, <1>4, <1>5, <1>8, <1>9 DEF CacheIs, OthersFree
<1>14. InItsCache(D \cup {x}, L, en, chain2, at)
  BY <1>1, <1>8 DEF CacheIs, InItsCache
<1>15. NoneEmpty(D \cup {x}, L, chain2, at)
  <2>1. Len(<<s>>) = 1 /\ 2..1 = {}
    OBVIOUS
  <2>2. NoneEmpty(D, L, chain, at)
    BY ONLY <1>1 DEF CacheIs
  <2>3. ASSUME NEW f \in D, NEW j \in 2..Len(chain2[f])
        PROVE  \E e \in L : at[e] = chain2[f][j]
    <3>1. chain2[f] = chain[f]
      BY ONLY <1>8
    <3>2. \A k \in 2..Len(chain[f]) : \E e \in L : at[e] = chain[f][k]
      BY ONLY <2>2 DEF NoneEmpty
    <3> QED
      BY ONLY <3>1, <3>2
  <2>4. 2..Len(chain2[x]) = {}
    BY ONLY <1>8, <2>1
  <2> QED
    BY ONLY <2>3, <2>4 DEF NoneEmpty
<1>16. CacheIs(after.cache, after.free, D \cup {x}, L, en, chain2, at)
  BY <1>4, <1>7, <1>11, <1>12, <1>13, <1>14, <1>15 DEF CacheIs
<1> QED
  BY <1>2, <1>4, <1>16 DEF Good


-----------------------------------------------------------------------------
(* The invariant: the cache lists what the headers describe, and the header *)
(* in memory of an open file is the one on the disk.                       *)

FileSet ==
  [kind : {"file"}, dir : {Root} \cup Entries, len : Lengths, value : Values]
DirSet ==
  [kind : {"dir"}, dir : {Root}, len : Lengths, value : Values, extension : Blocks]

Headers(en) ==
  DOMAIN en = Entries /\ \A e \in Entries : en[e] \in {NoEntry} \cup FileSet \cup DirSet

DirsIn(en) == {Root} \cup {e \in Entries : en[e].kind = "dir"}
ListedIn(en) == {e \in Entries : en[e] # NoEntry}

OpenFiles(op, en) ==
  /\ DOMAIN op = Entries
  /\ \A e \in Entries : op[e] = NoEntry \/ (op[e] = en[e] /\ en[e].kind = "file")

CacheInv ==
  /\ Headers(entries)
  /\ OpenFiles(opened, entries)
  /\ Good(World, DirsIn(entries), ListedIn(entries), entries)

\* The program has all the habits of Careful.
CarefulCaches ==
  {"no_new_block", "no_inner_block", "room_for_a_cache", "closed_files"} \subseteq Habits

\* The headers of entries.
LEMMA HeaderParts ==
  ASSUME NEW en, Headers(en), NEW e \in Entries
  PROVE  /\ e # Root /\ NoEntry.kind = "none"
         /\ en[e] # NoEntry <=> en[e].kind # "none"
         /\ en[e].kind = "file" <=> en[e] \in FileSet
         /\ en[e].kind = "dir" <=> en[e] \in DirSet
         /\ en[e].kind \in {"none", "file", "dir"}
         /\ en[e].kind # "none" => /\ Record(e, en[e]) \in RecordSet
                                   /\ en[e].dir \in {Root} \cup Entries
                                   /\ en[e].len \in Lengths /\ en[e].value \in Values
         /\ en[e].kind = "dir" => en[e].dir = Root /\ en[e].extension \in Blocks
<1>1. en[e] \in {NoEntry} \cup FileSet \cup DirSet
  BY DEF Headers
<1>2. NoEntry.kind = "none" /\ e # Root
  BY CacheAssumption DEF NoEntry
<1>3. \A h \in FileSet : h.kind = "file"
  BY DEF FileSet
<1>4. \A h \in DirSet : h.kind = "dir" /\ h.dir = Root /\ h.extension \in Blocks
  BY DEF DirSet
<1>5. "none" # "file" /\ "none" # "dir" /\ "file" # "dir"
  OBVIOUS
<1>6. \A h \in FileSet \cup DirSet :
        /\ h.dir \in {Root} \cup Entries /\ h.len \in Lengths /\ h.value \in Values
        /\ Record(e, h) \in RecordSet
  BY DEF FileSet, DirSet, Record, RecordSet
<1> QED
  BY <1>1, <1>2, <1>3, <1>4, <1>5, <1>6

\* So what is listed can be recorded.
LEMMA HeadersWellFormed ==
  ASSUME NEW en, Headers(en)
  PROVE  WellFormed(ListedIn(en), en)
<1> SUFFICES ASSUME NEW e \in ListedIn(en)
             PROVE  e \in Entries /\ Record(e, en[e]) \in RecordSet
  BY DEF WellFormed
<1>1. e \in Entries /\ en[e] # NoEntry
  BY DEF ListedIn
<1> QED
  BY <1>1, HeaderParts

\* en2 is en but for the header of e, which is h.
HeaderPut(en, e, h, en2) ==
  /\ Headers(en) /\ e \in Entries
  /\ h \in {NoEntry} \cup FileSet \cup DirSet
  /\ en2 = [en EXCEPT ![e] = h]

\* One header changes.
LEMMA HeaderChanges ==
  ASSUME NEW en, NEW e, NEW h, NEW en2, HeaderPut(en, e, h, en2)
  PROVE  /\ Headers(en2) /\ en2[e] = h
         /\ \A f \in Entries : f # e => en2[f] = en[f]
         /\ h # NoEntry => ListedIn(en2) = ListedIn(en) \cup {e}
         /\ h = NoEntry => ListedIn(en2) = ListedIn(en) \ {e}
         /\ h.kind = "dir" => DirsIn(en2) = DirsIn(en) \cup {e}
         /\ h.kind # "dir" => DirsIn(en2) = DirsIn(en) \ {e}
<1>1. /\ DOMAIN en2 = Entries /\ en2[e] = h /\ e \in Entries /\ e # Root
      /\ \A f \in Entries : f # e => en2[f] = en[f]
  BY CacheAssumption DEF HeaderPut, Headers
<1>2. Headers(en2)
  BY <1>1 DEF HeaderPut, Headers
<1>3. /\ h # NoEntry => ListedIn(en2) = ListedIn(en) \cup {e}
      /\ h = NoEntry => ListedIn(en2) = ListedIn(en) \ {e}
  BY <1>1 DEF ListedIn
<1>4. /\ h.kind = "dir" => DirsIn(en2) = DirsIn(en) \cup {e}
      /\ h.kind # "dir" => DirsIn(en2) = DirsIn(en) \ {e}
  BY <1>1 DEF DirsIn
<1> QED
  BY <1>1, <1>2, <1>3, <1>4

\* The cache does not change with the header of an entry it does not list, if it
\* is not that of a directory in use.
LEMMA HeaderUnlisted ==
  ASSUME NEW en, NEW e, NEW h, NEW en2, HeaderPut(en, e, h, en2),
         NEW w, NEW D, NEW L, Good(w, D, L, en),
         D \subseteq ({Root} \cup Entries), L \subseteq Entries,
         e \notin L, e \notin D \/ FirstOf(en2, e) = FirstOf(en, e)
  PROVE  Good(w, D, L, en2)
<1>1. \A f \in Entries : f # e => en2[f] = en[f]
  BY HeaderChanges
<1>2. \A f \in L : Record(f, en2[f]) = Record(f, en[f]) /\ en2[f].dir = en[f].dir
  BY <1>1
<1>3. \A f \in D : FirstOf(en2, f) = FirstOf(en, f)
  BY <1>1 DEF FirstOf
<1> QED
  BY <1>2, <1>3, CacheSame

\* What Directories, Exists and Extension say of the headers.
LEMMA InvParts ==
  ASSUME CacheInv
  PROVE  /\ Headers(entries) /\ OpenFiles(opened, entries)
         /\ Good(World, DirsIn(entries), ListedIn(entries), entries)
         /\ Directories = DirsIn(entries)
         /\ DirsIn(entries) \subseteq ({Root} \cup Entries) /\ ListedIn(entries) \subseteq Entries
         /\ \A e \in Entries : Exists(e) <=> e \in ListedIn(entries)
         /\ \A d : Extension(d) = FirstOf(entries, d)
         /\ \A e \in ListedIn(entries) : entries[e].dir \in DirsIn(entries)
<1>1. \A e \in ListedIn(entries) : entries[e].dir \in DirsIn(entries)
  BY DEF CacheInv, Good, CacheIs, InItsCache
<1> QED
  BY <1>1 DEF CacheInv, Directories, DirsIn, ListedIn, Exists, Extension, FirstOf

\* The invariant after a step that leaves w.
LEMMA InvAfter ==
  ASSUME NEW w, Becomes(w), Headers(entries'), OpenFiles(opened', entries'),
         Good(w, DirsIn(entries'), ListedIn(entries'), entries')
  PROVE  CacheInv'
<1>1. World'.cache = w.cache /\ World'.free = w.free /\ World'.ok
  BY DEF World, Becomes
<1>2. IsWorld(w) /\ IsWorld(World')
  <2>1. IsWorld(w)
    BY DEF Good
  <2>2. DOMAIN World' = {"cache", "free", "ok", "grown", "cut"}
    BY DEF World
  <2> QED
    BY <1>1, <2>1, <2>2 DEF IsWorld
<1> DEFINE v == World'
<1>3. v.cache = w.cache /\ v.free = w.free /\ v.ok /\ IsWorld(v)
  BY <1>1, <1>2
<1> HIDE DEF v
<1>4. Good(v, DirsIn(entries'), ListedIn(entries'), entries')
  BY <1>3 DEF Good
<1>5. Good(World', DirsIn(entries'), ListedIn(entries'), entries')
  BY <1>4 DEF v
<1> QED
  BY <1>5 DEF CacheInv, DirsIn, ListedIn, Headers, OpenFiles, Good, CacheIs,
              BlocksHold, WellFormed, IsWorld, ChainsLinked, InItsCache


\* Adding a record keeps the fields of the state, and takes no block that is free
\* unless the cache grows.
LEMMA AddedFields ==
  ASSUME NEW w, NEW first, NEW r, DOMAIN w = {"cache", "free", "ok", "grown", "cut"},
         NEW after, after = adfAddInCache(w, first, r)
  PROVE  /\ DOMAIN after = {"cache", "free", "ok", "grown", "cut"}
         /\ ~after.grown => after.free = w.free
<1> DEFINE ch == Chain(w.cache, first)
           s == ch[Len(ch)]
           b == w.cache[s]
           put == adfPutCacheEntry(b.records, Offset(b, b.recordsNb), r)
           new == Granted(w)
           b2 == [b EXCEPT !.records = put, !.recordsNb = @ + 1]
           fr == w.free \ {new}
           c2 == [w.cache EXCEPT ![new] = [EmptyBlock EXCEPT !.recordsNb = 1],
                                 ![s] = [b EXCEPT !.records = put, !.nextDirC = new]]
<1>1. \/ after = w
      \/ after = Fails(w)
      \/ after = [w EXCEPT !.cache[s] = b2]
      \/ after = [Fails(w) EXCEPT !.grown = TRUE]
      \/ after = [w EXCEPT !.free = fr, !.cache = c2, !.grown = TRUE]
  BY Zenon DEF adfAddInCache
<1> HIDE DEF s, b2, fr, c2
<1>2. DOMAIN Fails(w) = DOMAIN w /\ Fails(w).free = w.free
  BY DEF Fails
<1>3. DOMAIN after = {"cache", "free", "ok", "grown", "cut"}
  BY <1>1, <1>2
<1>4. ~after.grown => after.free = w.free
  BY <1>1, <1>2
<1> QED
  BY <1>3, <1>4

-----------------------------------------------------------------------------
(* The steps *)

\* Careful programs.
LEMMA CarefulParts ==
  ASSUME CarefulCaches
  PROVE  /\ \A w : Careful(w) => ~w.grown /\ ~w.cut
         /\ \A e : CarefulEntry(e) => ~IsOpen(e)
         /\ "room_for_a_cache" \in Habits
BY DEF CarefulCaches, Careful, CarefulEntry

\* The headers in memory when the header of e changes, which is not open after.
LEMMA OpenKept ==
  ASSUME NEW op, NEW en, OpenFiles(op, en), NEW e, NEW h, NEW en2,
         HeaderPut(en, e, h, en2), op[e] = NoEntry
  PROVE  OpenFiles(op, en2)
<1>1. \A f \in Entries : f # e => en2[f] = en[f]
  BY HeaderChanges
<1> QED
  BY <1>1 DEF OpenFiles

\* A file is created with a record.
LEMMA CreateFileKeeps ==
  ASSUME CarefulCaches, CacheInv, NEW d \in Directories, NEW e \in Entries,
         NEW len \in Lengths, NEW value \in Values, adfCreateFile(d, e, len, value)
  PROVE  CacheInv'
<1> DEFINE en == entries
           en2 == entries'
           D == DirsIn(entries)
           L == ListedIn(entries)
           file == File(d, len, value)
           r == Record(e, file)
           first == Extension(d)
           w == adfAddInCache(World, first, r)
<1>1. /\ Careful(w) /\ Becomes(w) /\ en2 = [en EXCEPT ![e] = file] /\ opened' = opened
      /\ ~Exists(e)
  BY DEF adfCreateFile
<1>2. /\ Headers(en) /\ OpenFiles(opened, en) /\ Good(World, D, L, en) /\ e \notin L
      /\ d \in D /\ D \subseteq ({Root} \cup Entries) /\ L \subseteq Entries
      /\ first = FirstOf(en, d)
  BY <1>1, InvParts
<1>3. file \in FileSet /\ file.kind = "file" /\ file.dir = d /\ file # NoEntry
  <2>1. d \in {Root} \cup Entries
    BY <1>2
  <2>2. file \in FileSet /\ file.kind = "file" /\ file.dir = d
    BY <2>1 DEF File, FileSet
  <2> QED
    BY <2>2 DEF NoEntry
<1>4. HeaderPut(en, e, file, en2)
  BY <1>1, <1>2, <1>3 DEF HeaderPut
<1>5. en[e].kind = "none" /\ e # Root /\ en[e] = NoEntry
  BY <1>1, <1>2, HeaderParts DEF ListedIn
<1>6. e \notin D
  BY <1>5 DEF DirsIn
<1> HIDE DEF en, en2, D, L, file, r, first, w
<1>7. /\ Headers(en2) /\ en2[e] = file /\ ListedIn(en2) = L \cup {e} /\ DirsIn(en2) = D
      /\ \A f \in Entries : f # e => en2[f] = en[f]
  <2>1. /\ Headers(en2) /\ en2[e] = file /\ ListedIn(en2) = ListedIn(en) \cup {e}
        /\ DirsIn(en2) = DirsIn(en) \ {e}
        /\ \A f \in Entries : f # e => en2[f] = en[f]
    BY <1>3, <1>4, HeaderChanges
  <2> QED
    BY <1>6, <2>1 DEF D, L, en
<1>8. Good(World, D, L, en2)
  BY <1>2, <1>4, <1>6, HeaderUnlisted
<1>9. first = FirstOf(en2, d)
  BY <1>2, <1>6, <1>7 DEF FirstOf
<1>10. Good(w, D, L \cup {e}, en2)
  <2>1. WellFormed(L \cup {e}, en2)
    BY <1>7, HeadersWellFormed
  <2>2. en2[e].dir \in D /\ first = FirstOf(en2, en2[e].dir) /\ r = Record(e, en2[e])
    BY <1>2, <1>3, <1>7, <1>9 DEF r
  <2>3. w = adfAddInCache(World, first, r) /\ ~w.grown
    BY <1>1, CarefulParts DEF w
  <2> QED
    BY <1>2, <1>8, <2>1, <2>2, <2>3, Added
<1>11. OpenFiles(opened', en2)
  <2>1. opened[e] = NoEntry
    BY <1>2, <1>5 DEF OpenFiles
  <2>2. OpenFiles(opened, en2)
    BY <1>2, <1>4, <2>1, OpenKept
  <2> QED
    BY <1>1, <2>2
<1>12. Good(w, DirsIn(en2), ListedIn(en2), en2)
  BY <1>7, <1>10
<1>13. Becomes(w)
  BY <1>1
<1> QED
  BY <1>7, <1>11, <1>12, <1>13, InvAfter DEF en2

\* A directory is created with a record and a cache: there is room for both.
LEMMA CreateDirKeeps ==
  ASSUME CarefulCaches, CacheInv, NEW e \in Entries,
         NEW len \in Lengths, NEW value \in Values, adfCreateDir(e, len, value)
  PROVE  CacheInv'
<1> DEFINE en == entries
           en2 == entries'
           D == DirsIn(entries)
           L == ListedIn(entries)
           r == [header |-> e, len |-> len, value |-> value]
           added == adfAddInCache(World, RootCache, r)
           w == adfCreateEmptyCache(added)
           dir == Dir(len, value, Granted(added))
           en3 == [en EXCEPT ![e] = dir]
<1>1. /\ Careful(w) /\ Becomes(w) /\ opened' = opened /\ ~Exists(e) /\ free # {}
      /\ en2 = IF w.ok THEN en3 ELSE en
  BY CarefulParts DEF adfCreateDir
<1>2. /\ Headers(en) /\ OpenFiles(opened, en) /\ Good(World, D, L, en) /\ e \notin L
      /\ Root \in D /\ D \subseteq ({Root} \cup Entries) /\ L \subseteq Entries
  BY <1>1, InvParts DEF DirsIn
<1>3. en[e].kind = "none" /\ e # Root /\ en[e] = NoEntry
  BY <1>1, <1>2, HeaderParts DEF ListedIn
<1>4. e \notin D
  BY <1>3 DEF DirsIn
<1>5. ~added.grown
  <2>1. DOMAIN World = {"cache", "free", "ok", "grown", "cut"}
    BY DEF World
  <2>2. DOMAIN added = {"cache", "free", "ok", "grown", "cut"}
    BY <2>1, AddedFields
  <2> HIDE DEF added
  <2> DEFINE s == Granted(added)
  <2>3. \/ w = added
        \/ w = [added EXCEPT !.ok = FALSE]
        \/ w = [added EXCEPT !.free = @ \ {s}, !.cache[s] = EmptyBlock]
    BY DEF adfCreateEmptyCache, Fails
  <2> HIDE DEF w, s
  <2>4. w.grown = added.grown
    BY <2>2, <2>3
  <2> QED
    BY <1>1, <2>4, CarefulParts
<1> HIDE DEF en, en2, D, L, added, w
<1>6. Granted(added) \in Blocks
  <2>1. free \subseteq Blocks /\ World.free = free
    BY <1>2 DEF Good, CacheIs, OthersFree, World
  <2>2. added.free = free
    <3>1. DOMAIN World = {"cache", "free", "ok", "grown", "cut"}
      BY DEF World
    <3>2. ~added.grown => added.free = World.free
      BY <3>1, AddedFields DEF added
    <3> QED
      BY <1>5, <2>1, <3>2
  <2>3. free \in SUBSET Nat
    BY <2>1, CacheAssumption
  <2>4. \E n \in free : \A m \in free : n <= m
    BY <1>1, <2>3, LeastNumber
  <2> QED
    BY <2>1, <2>2, <2>4 DEF Granted
<1>7. /\ dir \in DirSet /\ dir.kind = "dir" /\ dir.dir = Root /\ dir # NoEntry
      /\ dir.extension = Granted(added) /\ Record(e, dir) = r
  <2>1. /\ dir \in DirSet /\ dir.kind = "dir" /\ dir.dir = Root
        /\ dir.extension = Granted(added) /\ Record(e, dir) = r
    BY <1>6 DEF Dir, DirSet, Record
  <2> QED
    BY <2>1 DEF NoEntry
<1> HIDE DEF dir, r
<1>8. HeaderPut(en, e, dir, en3)
  BY <1>2, <1>7 DEF HeaderPut
<1> HIDE DEF en3
<1>9. /\ Headers(en3) /\ en3[e] = dir /\ ListedIn(en3) = L \cup {e} /\ DirsIn(en3) = D \cup {e}
      /\ \A f \in Entries : f # e => en3[f] = en[f]
  <2>1. /\ Headers(en3) /\ en3[e] = dir /\ ListedIn(en3) = ListedIn(en) \cup {e}
        /\ DirsIn(en3) = DirsIn(en) \cup {e}
        /\ \A f \in Entries : f # e => en3[f] = en[f]
    BY <1>7, <1>8, HeaderChanges
  <2> QED
    BY <2>1 DEF D, L, en
<1>10. Good(World, D, L, en3)
  BY <1>2, <1>4, <1>8, HeaderUnlisted
<1>11. Good(added, D, L \cup {e}, en3) /\ added.free = free
  <2>1. WellFormed(L \cup {e}, en3)
    BY <1>9, HeadersWellFormed
  <2>2. en3[e].dir \in D /\ RootCache = FirstOf(en3, en3[e].dir) /\ r = Record(e, en3[e])
    BY <1>2, <1>7, <1>9 DEF FirstOf
  <2>3. added = adfAddInCache(World, RootCache, r)
    BY DEF added
  <2>4. Good(added, D, L \cup {e}, en3) /\ added.free = World.free /\ added.cut = World.cut
    BY <1>2, <1>5, <1>10, <2>1, <2>2, <2>3, Added
  <2> QED
    BY <2>4 DEF World
<1>12. Good(w, D \cup {e}, L \cup {e}, en3)
  <2>1. FirstOf(en3, e) = Granted(added) /\ added.free # {}
    BY <1>1, <1>3, <1>7, <1>9, <1>11 DEF FirstOf
  <2>2. w = adfCreateEmptyCache(added)
    BY DEF w
  <2> QED
    BY <1>4, <1>11, <2>1, <2>2, Created
<1>13. en2 = en3
  BY <1>1, <1>12 DEF Good
<1>14. OpenFiles(opened', en2)
  <2>1. opened[e] = NoEntry
    BY <1>2, <1>3 DEF OpenFiles
  <2>2. OpenFiles(opened, en3)
    BY <1>2, <1>8, <2>1, OpenKept
  <2> QED
    BY <1>1, <1>13, <2>2
<1>15. Good(w, DirsIn(en2), ListedIn(en2), en2) /\ Headers(en2)
  BY <1>9, <1>12, <1>13
<1> QED
  BY <1>1, <1>14, <1>15, InvAfter DEF en2


\* An entry is removed with its record, a directory with its cache.
LEMMA RemoveKeeps ==
  ASSUME CarefulCaches, CacheInv, NEW e \in Entries, adfRemoveEntry(e)
  PROVE  CacheInv'
<1> DEFINE en == entries
           en2 == entries'
           D == DirsIn(entries)
           L == ListedIn(entries)
           first == Extension(entries[e].dir)
           emptied == IF entries[e].kind = "dir" THEN SetFree(World, entries[e].extension)
                                                 ELSE World
           w == adfDelFromCache(emptied, first, e)
<1>1. /\ Careful(w) /\ Becomes(w) /\ en2 = [en EXCEPT ![e] = NoEntry] /\ opened' = opened
      /\ Exists(e) /\ ~IsOpen(e) /\ EntriesOf(e) = {}
  BY CarefulParts DEF adfRemoveEntry
<1>2. /\ Headers(en) /\ OpenFiles(opened, en) /\ Good(World, D, L, en) /\ e \in L
      /\ D \subseteq ({Root} \cup Entries) /\ L \subseteq Entries
      /\ first = FirstOf(en, en[e].dir) /\ en[e].dir \in D
  BY <1>1, InvParts
<1>3. \A f \in L : en[f].dir # e
  BY <1>1, InvParts DEF EntriesOf
<1>4. NoEntry.kind = "none" /\ e # Root /\ en[e] # NoEntry
  BY <1>1, <1>2, HeaderParts DEF Exists
<1>5. HeaderPut(en, e, NoEntry, en2)
  BY <1>1, <1>2 DEF HeaderPut
<1>6. e \in D <=> en[e].kind = "dir"
  BY <1>4 DEF DirsIn
<1>7. Good(emptied, D \ {e}, L, en)
  <2>1. CASE en[e].kind = "dir"
    <3>1. emptied = SetFree(World, FirstOf(en, e)) /\ e \in D
      BY <1>4, <1>6, <2>1 DEF FirstOf
    <3> HIDE DEF emptied, en, D, L
    <3> QED
      BY <1>2, <1>3, <3>1, Emptied
  <2>2. CASE en[e].kind # "dir"
    <3>1. emptied = World /\ D \ {e} = D
      BY <1>6, <2>2
    <3> HIDE DEF emptied, en, D, L
    <3> QED
      BY <1>2, <3>1
  <2> QED
    BY <2>1, <2>2
<1> HIDE DEF en, en2, D, L, first, emptied
<1>8. Good(w, D \ {e}, L \ {e}, en)
  <2>1. w = adfDelFromCache(emptied, first, e) /\ ~w.cut
    BY <1>1, CarefulParts
  <2> HIDE DEF w
  <2> QED
    BY <1>2, <1>7, <2>1, Deleted
<1> HIDE DEF w
<1>9. Headers(en2) /\ ListedIn(en2) = L \ {e} /\ DirsIn(en2) = D \ {e}
  <2>1. Headers(en2) /\ ListedIn(en2) = ListedIn(en) \ {e} /\ DirsIn(en2) = DirsIn(en) \ {e}
    BY <1>4, <1>5, HeaderChanges
  <2> QED
    BY <2>1 DEF D, L, en
<1>10. Good(w, DirsIn(en2), ListedIn(en2), en2)
  <2> DEFINE D2 == D \ {e}
             L2 == L \ {e}
  <2>1. /\ Good(w, D2, L2, en) /\ e \notin D2 /\ e \notin L2
        /\ D2 \subseteq ({Root} \cup Entries) /\ L2 \subseteq Entries
    BY <1>2, <1>8
  <2>2. DirsIn(en2) = D2 /\ ListedIn(en2) = L2
    BY <1>9
  <2> HIDE DEF D2, L2
  <2> QED
    BY <1>5, <2>1, <2>2, HeaderUnlisted
<1>11. OpenFiles(opened', en2)
  <2>1. opened[e] = NoEntry
    BY <1>1 DEF IsOpen
  <2>2. OpenFiles(opened, en2)
    BY <1>2, <1>5, <2>1, OpenKept
  <2> QED
    BY <1>1, <2>2
<1> QED
  BY <1>1, <1>9, <1>10, <1>11, InvAfter DEF en2

\* h is what en says of e but for what its record shows, and chg says whether
\* the length of that may be another one.
Revises(en, e, h, chg) ==
  /\ h \in FileSet \cup DirSet /\ h.kind = en[e].kind /\ h.dir = en[e].dir
  /\ h.kind = "dir" => h.extension = en[e].extension
  /\ chg \in BOOLEAN /\ (chg \/ h.len = en[e].len)

\* The header of an entry is changed, then its record.
LEMMA ChangesKeep ==
  ASSUME CarefulCaches, CacheInv, NEW e \in Entries, Exists(e),
         NEW h, NEW chg, Revises(entries, e, h, chg), Changes(e, h, chg),
         OpenFiles(opened', entries')
  PROVE  CacheInv'
<1> DEFINE en == entries
           en2 == entries'
           D == DirsIn(entries)
           L == ListedIn(entries)
           first == Extension(h.dir)
           r == Record(e, h)
           w == adfUpdateCache(World, first, r, chg)
<1>1. Careful(w) /\ Becomes(w) /\ en2 = [en EXCEPT ![e] = h]
  BY DEF Changes
<1>2. /\ Headers(en) /\ Good(World, D, L, en) /\ e \in L
      /\ D \subseteq ({Root} \cup Entries) /\ L \subseteq Entries
      /\ first = FirstOf(en, en[e].dir)
  BY InvParts DEF Revises
<1>3. HeaderPut(en, e, h, en2)
  BY <1>1, <1>2 DEF HeaderPut, Revises
<1>4. /\ h # NoEntry /\ e # Root /\ (en[e].kind = "dir" <=> e \in D)
  <2>1. \A f \in FileSet \cup DirSet : f.kind \in {"file", "dir"}
    BY DEF FileSet, DirSet
  <2>2. h.kind \in {"file", "dir"} /\ NoEntry.kind = "none" /\ e # Root
    BY <1>2, <2>1, HeaderParts DEF Revises
  <2> QED
    BY <2>2 DEF DirsIn
<1>5. h.kind = en[e].kind /\ h.dir = en[e].dir /\ (h.kind = "dir" => h.extension = en[e].extension)
  BY DEF Revises
<1> HIDE DEF en, en2, D, L, first, r, w
<1>6. /\ Headers(en2) /\ en2[e] = h /\ ListedIn(en2) = L /\ DirsIn(en2) = D
      /\ \A f \in Entries : f # e => en2[f] = en[f]
  <2>1. /\ Headers(en2) /\ en2[e] = h /\ ListedIn(en2) = ListedIn(en) \cup {e}
        /\ h.kind = "dir" => DirsIn(en2) = DirsIn(en) \cup {e}
        /\ h.kind # "dir" => DirsIn(en2) = DirsIn(en) \ {e}
        /\ \A f \in Entries : f # e => en2[f] = en[f]
    BY <1>3, <1>4, HeaderChanges
  <2>2. D = DirsIn(en) /\ L = ListedIn(en)
    BY DEF D, L, en
  <2> QED
    BY <1>2, <1>4, <1>5, <2>1, <2>2
<1>7. Rewrites(en, en2, e, D, L)
  <2>1. \A d \in D : FirstOf(en2, d) = FirstOf(en, d)
    BY <1>2, <1>4, <1>5, <1>6 DEF FirstOf
  <2> QED
    BY <1>2, <1>5, <1>6, <2>1 DEF Rewrites
<1>8. WellFormed(L, en2)
  BY <1>6, HeadersWellFormed
<1>9. Good(w, D, L, en2)
  <2>1. r = Record(e, en2[e]) /\ chg \in BOOLEAN /\ (chg \/ en2[e].len = en[e].len)
    BY <1>6 DEF r, Revises, en
  <2>2. w = adfUpdateCache(World, first, r, chg) /\ ~w.grown /\ ~w.cut
    BY <1>1, CarefulParts DEF w
  <2> QED
    BY <1>2, <1>7, <1>8, <2>1, <2>2, Updated
<1> QED
  BY <1>1, <1>6, <1>9, InvAfter DEF en2


\* g is the header of a file or a directory like h.
Alike(h, g) ==
  /\ g \in FileSet \cup DirSet /\ g.kind = h.kind
  /\ h.kind = "dir" => g.extension = h.extension

\* A header with another length of its record.
LEMMA HeaderLength ==
  ASSUME NEW h \in FileSet \cup DirSet, NEW len \in Lengths,
         NEW g, g = [h EXCEPT !.len = len]
  PROVE  Alike(h, g) /\ g.dir = h.dir
BY DEF Alike, FileSet, DirSet

\* A header with other values.
LEMMA HeaderValue ==
  ASSUME NEW h \in FileSet \cup DirSet, NEW value \in Values,
         NEW g, g = [h EXCEPT !.value = value]
  PROVE  Alike(h, g) /\ g.dir = h.dir /\ g.len = h.len
BY DEF Alike, FileSet, DirSet

Moved(h, d, len) == [h EXCEPT !.dir = d, !.len = len]

\* A header in another directory, which is the root for a directory.
LEMMA HeaderMoved ==
  ASSUME NEW h \in FileSet \cup DirSet, NEW len \in Lengths,
         NEW d \in {Root} \cup Entries, h.kind = "dir" => d = Root,
         NEW g, g = Moved(h, d, len)
  PROVE  Alike(h, g) /\ g.dir = d
<1>1. CASE h \in FileSet
  BY <1>1 DEF FileSet, Alike, Moved
<1>2. CASE h \in DirSet
  <2>1. h.kind = "dir" /\ d = Root
    BY <1>2 DEF DirSet
  <2> QED
    BY <1>2, <2>1 DEF DirSet, Alike, Moved
<1> QED
  BY <1>1, <1>2

\* Which header an entry has.
LEMMA ExistsHeader ==
  ASSUME CacheInv, NEW e \in Entries, Exists(e)
  PROVE  /\ entries[e] \in FileSet \cup DirSet
         /\ entries[e].dir \in {Root} \cup Entries
         /\ entries[e].kind = "dir" => entries[e].dir = Root
<1>1. Headers(entries) /\ entries[e] # NoEntry
  BY DEF CacheInv, Exists
<1> QED
  BY <1>1, HeaderParts

\* The header of an entry that is not open is changed, and its record.
LEMMA ClosedChanges ==
  ASSUME CarefulCaches, CacheInv, NEW e \in Entries, Exists(e), ~IsOpen(e),
         NEW h, NEW chg, Revises(entries, e, h, chg), Changes(e, h, chg), UNCHANGED opened
  PROVE  CacheInv'
<1>1. HeaderPut(entries, e, h, entries')
  BY InvParts DEF HeaderPut, Revises, Changes
<1>2. OpenFiles(opened, entries) /\ opened[e] = NoEntry
  BY InvParts DEF IsOpen
<1>3. OpenFiles(opened, entries')
  BY <1>1, <1>2, OpenKept
<1>4. OpenFiles(opened', entries')
  BY <1>3
<1> QED
  BY <1>4, ChangesKeep

\* A comment, which changes the length, and access rights, which do not.
LEMMA SetEntryKeeps ==
  ASSUME CarefulCaches, CacheInv, NEW e \in Entries, NEW len \in Lengths, NEW value \in Values,
         adfSetEntryComment(e, len) \/ adfSetEntryAccess(e, value)
  PROVE  CacheInv'
<1> DEFINE h == entries[e]
           hl == [h EXCEPT !.len = len]
           hv == [h EXCEPT !.value = value]
<1>1. /\ Exists(e) /\ ~IsOpen(e) /\ UNCHANGED opened
      /\ Changes(e, hl, TRUE) \/ Changes(e, hv, FALSE)
  BY CarefulParts DEF adfSetEntryComment, adfSetEntryAccess
<1>2. h \in FileSet \cup DirSet /\ h.dir \in {Root} \cup Entries /\ (h.kind = "dir" => h.dir = Root)
  BY <1>1, ExistsHeader
<1>3. Revises(entries, e, hl, TRUE) /\ Revises(entries, e, hv, FALSE)
  <2>1. h = entries[e]
    OBVIOUS
  <2> HIDE DEF h
  <2>2. Alike(h, hl) /\ hl.dir = h.dir
    BY <1>2, HeaderLength
  <2>3. Alike(h, hv) /\ hv.dir = h.dir /\ hv.len = h.len
    BY <1>2, HeaderValue
  <2> HIDE DEF hl, hv
  <2> QED
    BY <2>1, <2>2, <2>3 DEF Revises, Alike
<1> HIDE DEF hl, hv
<1> QED
  BY <1>1, <1>3, ClosedChanges

\* A file is closed: its header in memory is that on the disk.
LEMMA CloseKeeps ==
  ASSUME CarefulCaches, CacheInv, NEW e \in Entries, NEW value \in Values, adfFileClose(e, value)
  PROVE  CacheInv'
<1> DEFINE h == entries[e]
           hv == [h EXCEPT !.value = value]
<1>1. /\ opened[e] # NoEntry /\ Changes(e, [opened[e] EXCEPT !.value = value], FALSE)
      /\ opened' = [opened EXCEPT ![e] = NoEntry]
  BY DEF adfFileClose, IsOpen
<1>2. /\ Headers(entries) /\ OpenFiles(opened, entries)
      /\ opened[e] = h /\ h.kind = "file" /\ Exists(e)
  <2>1. Headers(entries) /\ OpenFiles(opened, entries)
    BY InvParts
  <2>2. opened[e] = h /\ h.kind = "file"
    BY <1>1, <2>1 DEF OpenFiles
  <2>3. Exists(e)
    BY <1>1, <2>2 DEF Exists
  <2> QED
    BY <2>1, <2>2, <2>3
<1>3. h \in FileSet \cup DirSet /\ h.dir \in {Root} \cup Entries /\ (h.kind = "dir" => h.dir = Root)
  BY <1>2, ExistsHeader
<1>4. Changes(e, hv, FALSE)
  <2> HIDE DEF h
  <2> QED
    BY <1>1, <1>2
<1>5. Revises(entries, e, hv, FALSE)
  <2>1. h = entries[e]
    OBVIOUS
  <2> HIDE DEF h
  <2>2. Alike(h, hv) /\ hv.dir = h.dir /\ hv.len = h.len
    BY <1>3, HeaderValue
  <2> HIDE DEF hv
  <2> QED
    BY <2>1, <2>2 DEF Revises, Alike
<1> HIDE DEF hv, h
<1>6. OpenFiles(opened', entries')
  <2>1. HeaderPut(entries, e, hv, entries')
    BY <1>2, <1>4, <1>5 DEF HeaderPut, Revises, Changes
  <2>2. \A f \in Entries : f # e => entries'[f] = entries[f]
    BY <2>1, HeaderChanges
  <2> QED
    BY <1>1, <1>2, <2>2 DEF OpenFiles
<1> QED
  BY <1>2, <1>4, <1>5, <1>6, ChangesKeep

\* A file is moved to another directory, and its record with it.
LEMMA MoveKeeps ==
  ASSUME CarefulCaches, CacheInv, NEW e \in Entries, NEW d \in Directories, NEW len \in Lengths,
         adfRenameEntry(e, d, len), d # entries[e].dir
  PROVE  CacheInv'
<1> DEFINE en == entries
           en2 == entries'
           D == DirsIn(entries)
           L == ListedIn(entries)
           h == [entries[e] EXCEPT !.dir = d, !.len = len]
           first == Extension(entries[e].dir)
           first2 == Extension(d)
           r == Record(e, h)
           gone == adfDelFromCache(World, first, e)
           w == adfAddInCache(gone, first2, r)
<1>1. /\ Careful(w) /\ Becomes(w) /\ en2 = [en EXCEPT ![e] = h] /\ opened' = opened
      /\ Exists(e) /\ ~IsOpen(e) /\ (en[e].kind = "dir" => d = Root)
  BY CarefulParts DEF adfRenameEntry
<1>2. /\ Headers(en) /\ OpenFiles(opened, en) /\ Good(World, D, L, en) /\ e \in L
      /\ D \subseteq ({Root} \cup Entries) /\ L \subseteq Entries /\ d \in D
      /\ first = FirstOf(en, en[e].dir) /\ first2 = FirstOf(en, d)
  BY <1>1, InvParts
<1>3. /\ en[e] \in FileSet \cup DirSet /\ en[e].kind # "dir" /\ en[e].kind = "file"
  <2>1. en[e] \in FileSet \cup DirSet /\ (en[e].kind = "dir" => en[e].dir = Root)
    BY <1>1, ExistsHeader
  <2>2. en[e].kind # "dir"
    BY <1>1, <2>1
  <2>3. \A f \in FileSet \cup DirSet : f.kind \in {"file", "dir"}
    BY DEF FileSet, DirSet
  <2> QED
    BY <2>1, <2>2, <2>3
<1>4. h \in FileSet \cup DirSet /\ h.kind = "file" /\ h.dir = d
  <2> DEFINE g == en[e]
  <2>1. g \in FileSet \cup DirSet /\ (g.kind = "dir" => d = Root) /\ d \in {Root} \cup Entries
        /\ g.kind = "file" /\ h = Moved(g, d, len)
    BY <1>1, <1>2, <1>3 DEF Moved
  <2> HIDE DEF g, h
  <2>2. Alike(g, h) /\ h.dir = d
    BY <2>1, HeaderMoved
  <2> QED
    BY <2>1, <2>2 DEF Alike
<1>5. HeaderPut(en, e, h, en2)
  BY <1>1, <1>2, <1>4 DEF HeaderPut
<1>6. e \notin D /\ h # NoEntry
  <2>1. e # Root /\ NoEntry.kind = "none"
    BY <1>2, HeaderParts
  <2> QED
    BY <1>3, <1>4, <2>1 DEF DirsIn
<1> HIDE DEF en, en2, D, L, h, first, first2, gone, w
<1>7. ~gone.cut /\ ~w.grown
  <2>1. IsWorld(World)
    BY <1>2 DEF Good
  <2>2. gone = adfDelFromCache(World, first, e) /\ w = adfAddInCache(gone, first2, r)
    BY DEF gone, w
  <2>3. w.cut = gone.cut
    BY <2>1, <2>2, FieldsKept
  <2> QED
    BY <1>1, <2>3, CarefulParts
<1>8. /\ Headers(en2) /\ en2[e] = h /\ ListedIn(en2) = L /\ DirsIn(en2) = D
      /\ \A f \in Entries : f # e => en2[f] = en[f]
  <2>1. /\ Headers(en2) /\ en2[e] = h /\ ListedIn(en2) = ListedIn(en) \cup {e}
        /\ DirsIn(en2) = DirsIn(en) \ {e}
        /\ \A f \in Entries : f # e => en2[f] = en[f]
    BY <1>4, <1>5, <1>6, HeaderChanges
  <2>2. D = DirsIn(en) /\ L = ListedIn(en)
    BY DEF D, L, en
  <2> QED
    BY <1>2, <1>6, <2>1, <2>2
<1> DEFINE M == L \ {e}
<1>9. Good(gone, D, M, en)
  <2>1. gone = adfDelFromCache(World, first, e)
    BY DEF gone
  <2> QED
    BY <1>2, <1>7, <2>1, Deleted
<1>10. e \notin M /\ M \cup {e} = L /\ M \subseteq Entries
  BY <1>2
<1> HIDE DEF M
<1>11. Good(gone, D, M, en2)
  BY <1>2, <1>5, <1>6, <1>9, <1>10, HeaderUnlisted
<1>12. Good(w, D, M \cup {e}, en2)
  <2>1. WellFormed(M \cup {e}, en2)
    BY <1>8, <1>10, HeadersWellFormed
  <2>2. en2[e].dir \in D /\ first2 = FirstOf(en2, en2[e].dir) /\ r = Record(e, en2[e])
    BY <1>2, <1>4, <1>6, <1>8 DEF FirstOf
  <2>3. w = adfAddInCache(gone, first2, r)
    BY DEF w
  <2> HIDE DEF r
  <2> QED
    BY <1>7, <1>10, <1>11, <2>1, <2>2, <2>3, Added
<1>13. OpenFiles(opened', en2)
  <2>1. opened[e] = NoEntry
    BY <1>1 DEF IsOpen
  <2>2. OpenFiles(opened, en2)
    BY <1>2, <1>5, <2>1, OpenKept
  <2> QED
    BY <1>1, <2>2
<1>14. Good(w, DirsIn(en2), ListedIn(en2), en2)
  BY <1>8, <1>10, <1>12
<1> QED
  BY <1>1, <1>8, <1>13, <1>14, InvAfter DEF en2

\* An entry is renamed.
LEMMA RenameKeeps ==
  ASSUME CarefulCaches, CacheInv, NEW e \in Entries, NEW d \in Directories, NEW len \in Lengths,
         adfRenameEntry(e, d, len)
  PROVE  CacheInv'
<1>1. CASE d # entries[e].dir
  BY <1>1, MoveKeeps
<1>2. CASE d = entries[e].dir
  <2> DEFINE h == entries[e]
             g == [h EXCEPT !.dir = d, !.len = len]
  <2>1. /\ Exists(e) /\ ~IsOpen(e) /\ UNCHANGED opened /\ Changes(e, g, TRUE)
    BY <1>2, CarefulParts DEF adfRenameEntry
  <2>2. /\ h \in FileSet \cup DirSet /\ h.dir \in {Root} \cup Entries
        /\ (h.kind = "dir" => h.dir = Root)
    BY <2>1, ExistsHeader
  <2>3. Revises(entries, e, g, TRUE)
    <3>1. h = entries[e] /\ d = h.dir /\ g = Moved(h, d, len)
      BY <1>2 DEF Moved
    <3> HIDE DEF h, g
    <3>2. Alike(h, g) /\ g.dir = d
      BY <2>2, <3>1, HeaderMoved
    <3> QED
      BY <3>1, <3>2 DEF Revises, Alike
  <2> HIDE DEF g
  <2> QED
    BY <2>1, <2>3, ClosedChanges
<1> QED
  BY <1>1, <1>2

\* A file is opened.
LEMMA OpenKeeps ==
  ASSUME CacheInv, NEW e \in Entries, adfFileOpen(e)
  PROVE  CacheInv'
<1>1. /\ entries[e].kind = "file" /\ opened' = [opened EXCEPT ![e] = entries[e]]
      /\ entries' = entries /\ cache' = cache /\ free' = free
  BY DEF adfFileOpen
<1>2. OpenFiles(opened', entries)
  BY <1>1 DEF CacheInv, OpenFiles
<1>3. World' = World
  BY <1>1 DEF World
<1> QED
  BY <1>1, <1>2, <1>3 DEF CacheInv

\* Every step keeps the invariant.
LEMMA NextInv ==
  ASSUME CarefulCaches, CacheInv, [Next]_vars
  PROVE  CacheInv'
<1>1. CASE UNCHANGED vars
  <2>1. entries' = entries /\ opened' = opened /\ World' = World
    BY <1>1 DEF vars, World
  <2> QED
    BY <2>1 DEF CacheInv
<1>2. CASE Next
  <2> SUFFICES ASSUME NEW e \in Entries,
                 \/ adfRemoveEntry(e) \/ adfFileOpen(e)
                 \/ \E value \in Values : adfSetEntryAccess(e, value) \/ adfFileClose(e, value)
                 \/ \E len \in Lengths :
                      \/ adfSetEntryComment(e, len)
                      \/ \E value \in Values : adfCreateDir(e, len, value)
                      \/ \E d \in Directories :
                           \/ adfRenameEntry(e, d, len)
                           \/ \E value \in Values : adfCreateFile(d, e, len, value)
               PROVE  CacheInv'
    BY <1>2 DEF Next
  <2>1. PICK anyLen : anyLen \in Lengths
    BY CacheAssumption
  <2>2. PICK anyValue : anyValue \in Values
    BY CacheAssumption
  <2>3. CASE adfRemoveEntry(e) \/ adfFileOpen(e)
    BY <2>3, RemoveKeeps, OpenKeeps
  <2>4. ASSUME NEW value \in Values, adfSetEntryAccess(e, value) \/ adfFileClose(e, value)
        PROVE  CacheInv'
    BY <2>1, <2>4, SetEntryKeeps, CloseKeeps
  <2>5. ASSUME NEW len \in Lengths, adfSetEntryComment(e, len)
        PROVE  CacheInv'
    BY <2>2, <2>5, SetEntryKeeps
  <2>6. ASSUME NEW len \in Lengths, NEW value \in Values, adfCreateDir(e, len, value)
        PROVE  CacheInv'
    BY <2>6, CreateDirKeeps
  <2>7. ASSUME NEW len \in Lengths, NEW d \in Directories, adfRenameEntry(e, d, len)
        PROVE  CacheInv'
    BY <2>7, RenameKeeps
  <2>8. ASSUME NEW len \in Lengths, NEW d \in Directories, NEW value \in Values,
               adfCreateFile(d, e, len, value)
        PROVE  CacheInv'
    BY <2>8, CreateFileKeeps
  <2> QED
    BY <2>3, <2>4, <2>5, <2>6, <2>7, <2>8
<1> QED
  BY <1>1, <1>2


-----------------------------------------------------------------------------
(* The initial states *)

\* A block with one record.
LEMMA OneRecord ==
  ASSUME NEW rec, NEW x, Records({x}, rec), NEW next \in Blocks \cup {0},
         NEW b, b = [recordsNb |-> 1,
                     records |-> adfPutCacheEntry(EmptyBlock.records, 0, rec[x]),
                     nextDirC |-> next]
  PROVE  IsBlock(b) /\ BlockLists(b, {x}, rec)
<1> DEFINE r == rec[x]
           b2 == Appended(EmptyBlock, r)
<1>1. EmptyBlock.recordsNb = 0 /\ DOMAIN EmptyBlock = {"recordsNb", "records", "nextDirC"}
  BY DEF EmptyBlock
<1>2. EndOf(EmptyBlock) = 0
  <2> DEFINE off == [n \in {0} |-> 0]
             e == EmptyBlock
             h == <<>>
             X == {}
  <2>1. Packed(0, X, rec, h, off) /\ off[0] = 0
    BY CacheAssumption DEF Packed
  <2>2. FirstCells(e.records, 0, rec, h, off) /\ Records(X, rec)
    BY DEF FirstCells, Records
  <2>3. e.recordsNb = 0
    BY <1>1
  <2> HIDE DEF off, e, h, X
  <2>4. \A n \in 0..e.recordsNb : Offset(e, n) = off[n]
    <3>1. Packed(e.recordsNb, X, rec, h, off) /\ FirstCells(e.records, e.recordsNb, rec, h, off)
      BY <2>1, <2>2, <2>3
    <3> QED
      BY ONLY <2>2, <3>1, OffsetIs
  <2>5. Offset(e, 0) = 0
    BY <2>1, <2>3, <2>4
  <2> QED
    BY <2>3, <2>5 DEF EndOf, e
<1>3. IsBlock(EmptyBlock) /\ BlockLists(EmptyBlock, {}, rec)
  BY BlockEmpty
<1>4. RoomFor(EmptyBlock, r)
  <2>1. r \in RecordSet
    BY DEF Records
  <2>2. r.len \in Nat /\ r.len <= Area
    BY <2>1, RecordParts
  <2> QED
    BY <1>2, <2>2 DEF RoomFor
<1>5. b2.recordsNb = 1 /\ b2.records = adfPutCacheEntry(EmptyBlock.records, 0, r)
  BY <1>1, <1>2 DEF Appended
<1>6. Rewritten(EmptyBlock, b2, {} \cup {x}, rec)
  <2> DEFINE e == EmptyBlock
  <2>1. /\ IsBlock(e) /\ BlockLists(e, {}, rec) /\ RoomFor(e, r) /\ b2 = Appended(e, r)
        /\ x \notin {} /\ Records({} \cup {x}, rec) /\ r = rec[x]
    <3>1. {} \cup {x} = {x}
      OBVIOUS
    <3> QED
      BY <1>3, <1>4, <3>1
  <2> HIDE DEF e, b2, r
  <2>2. Rewritten(e, b2, {} \cup {x}, rec)
    BY ONLY <2>1, BlockPut
  <2> QED
    BY <2>2 DEF e
<1>7. IsBlock(b2) /\ BlockLists(b2, {x}, rec)
  <2>1. {} \cup {x} = {x}
    OBVIOUS
  <2> HIDE DEF b2
  <2> QED
    BY <1>6, <2>1 DEF Rewritten
<1>8. b.recordsNb = b2.recordsNb /\ b.records = b2.records /\ b.nextDirC = next
  BY <1>5
<1>9. IsBlock(b)
  BY <1>7, <1>8 DEF IsBlock
<1>10. BlockLists(b, {x}, rec)
  <2> HIDE DEF b2
  <2> QED
    BY <1>7, <1>8, BlockSame
<1> QED
  BY <1>9, <1>10

\* There is a longest record.
LEMMA LongestRecord ==
  \E n \in Lengths : \A m \in Lengths : n >= m
<1>1. Lengths \subseteq 1..Area /\ Lengths # {} /\ Area \in Nat
  BY CacheAssumption
<1>2. Lengths \in SUBSET Nat /\ \A n \in Lengths : n <= Area
  BY <1>1
<1>3. IsFiniteSet(Lengths)
  BY <1>1, <1>2, FS_BoundedSetOfNaturals
<1> DEFINE rank == [n \in Lengths |-> n]
<1>4. \A n \in Lengths : rank[n] = n /\ rank[n] \in Nat
  BY <1>2
<1> HIDE DEF rank
<1>5. PICK n \in Lengths : \A m \in Lengths : rank[m] <= rank[n]
  BY <1>1, <1>3, <1>4, HighestRank
<1> QED
  BY <1>2, <1>4, <1>5

\* A volume just made has one empty cache.
LEMMA InitEmptyGood ==
  ASSUME InitEmpty
  PROVE  Headers(entries) /\ Good(World, DirsIn(entries), ListedIn(entries), entries)
<1>1. /\ DOMAIN entries = Entries /\ \A e \in Entries : entries[e] = NoEntry
      /\ DOMAIN cache = Blocks /\ \A s \in Blocks : cache[s] = EmptyBlock
      /\ free = Blocks \ {RootCache}
  BY DEF InitEmpty
<1>2. Headers(entries)
  BY <1>1 DEF Headers
<1>3. DirsIn(entries) = {Root} /\ ListedIn(entries) = {}
  BY <1>1 DEF DirsIn, ListedIn, NoEntry
<1> DEFINE one == <<RootCache>>
           chain == [d \in {Root} |-> one]
           at == [e \in {} |-> 0]
<1>4. /\ Len(one) = 1 /\ one[1] = RootCache /\ one \in Seq(Blocks) /\ chain[Root] = one
      /\ RootCache \in Blocks
  BY CacheAssumption
<1> HIDE DEF one, chain, at
<1>5. BlocksIn(one) = {RootCache}
  BY <1>4 DEF BlocksIn
<1>6. BlocksHold(cache, {}, entries, at)
  <2>1. \A s \in Blocks : {e \in {} : at[e] = s} = {}
    OBVIOUS
  <2> QED
    BY <1>1, <2>1, BlockEmpty DEF BlocksHold
<1>7. ChainsLinked(cache, {Root}, entries, chain)
  <2>1. cache[RootCache].nextDirC = 0 /\ FirstOf(entries, Root) = RootCache
    BY <1>1, <1>4, BlockEmpty DEF FirstOf
  <2>2. IsChain(cache, one, RootCache)
    BY <1>4, <2>1 DEF IsChain
  <2> QED
    BY <1>4, <2>1, <2>2 DEF ChainsLinked
<1>8. ChainsApart({Root}, chain) /\ OthersFree(free, {Root}, chain)
  BY <1>1, <1>4, <1>5 DEF ChainsApart, OthersFree
<1>9. InItsCache({Root}, {}, entries, chain, at) /\ NoneEmpty({Root}, {}, chain, at)
  <2>1. 2..1 = {}
    OBVIOUS
  <2> QED
    BY <1>4, <2>1 DEF InItsCache, NoneEmpty
<1>10. CacheIs(cache, free, {Root}, {}, entries, chain, at)
  BY <1>6, <1>7, <1>8, <1>9 DEF CacheIs
<1>11. World.cache = cache /\ World.free = free /\ World.ok /\ IsWorld(World)
  BY <1>1 DEF World, IsWorld
<1>12. WellFormed({}, entries)
  BY DEF WellFormed
<1>13. Good(World, {Root}, {}, entries)
  BY <1>10, <1>11, <1>12 DEF Good
<1> QED
  BY <1>2, <1>3, <1>13

\* A volume of another program: each file of the root directory has its record in
\* a block of its own.
LEMMA InitChainGood ==
  ASSUME InitChain
  PROVE  Headers(entries) /\ Good(World, DirsIn(entries), ListedIn(entries), entries)
<1> DEFINE len == CHOOSE n \in Lengths : \A m \in Lengths : n >= m
           value == CHOOSE v \in Values : TRUE
           N == Cardinality(Blocks)
<1>1. PICK of \in [Blocks -> Entries], order \in [1..N -> Blocks] :
        /\ \A e \in Entries : \E s \in Blocks : of[s] = e
        /\ order[1] = RootCache
        /\ \A i, j \in DOMAIN order : i < j => order[i] < order[j]
        /\ N = Cardinality(Entries)
        /\ entries = [e \in Entries |-> File(Root, len, value)]
        /\ cache = [s \in Blocks |->
             LET k == CHOOSE i \in DOMAIN order : order[i] = s IN
             [recordsNb |-> 1,
              records |-> adfPutCacheEntry(EmptyBlock.records, 0,
                                           Record(of[s], entries[of[s]])),
              nextDirC |-> IF k = Len(order) THEN 0 ELSE order[k + 1]]]
        /\ free = {}
  BY DEF InitChain
<1>2. len \in Lengths /\ value \in Values
  BY LongestRecord, CacheAssumption
<1> HIDE DEF len, value
<1>3. N \in Nat /\ N >= 1 /\ IsFiniteSet(Blocks) /\ IsFiniteSet(Entries)
  <2>1. IsFiniteSet(Blocks) /\ RootCache \in Blocks /\ IsFiniteSet(Entries)
    BY CacheAssumption
  <2> QED
    BY <2>1, OtherElement
<1>4. \A s, t \in Blocks : of[s] = of[t] => s = t
  <2>1. of \in Surjection(Blocks, Entries)
    BY <1>1, Fun_IsSurj
  <2>2. of \in Injection(Blocks, Entries)
    BY <1>1, <1>3, <2>1, FS_Surjection
  <2> QED
    BY <2>2 DEF Injection, IsInjective
<1>5. /\ \A i, j \in 1..N : order[i] = order[j] => i = j
      /\ \A s \in Blocks : \E i \in 1..N : order[i] = s
  <2>1. \A i, j \in 1..N : order[i] = order[j] => i = j
    <3>1. \A i \in 1..N : order[i] \in Nat
      BY <1>1, CacheAssumption
    <3>2. \A i, j \in 1..N : i < j => order[i] < order[j]
      BY <1>1
    <3> HIDE DEF N
    <3> QED
      BY <1>3, <3>1, <3>2
  <2>2. order \in Injection(1..N, Blocks)
    BY <1>1, <2>1, Fun_IsInj
  <2>3. Cardinality(1..N) = N
    <3>1. 1 \in Int /\ N \in Int
      BY <1>3
    <3>2. Cardinality(1..N) = IF 1 > N THEN 0 ELSE N - 1 + 1
      BY <3>1, FS_Interval
    <3> QED
      BY <1>3, <3>2
  <2>4. order \in Surjection(1..N, Blocks)
    BY <1>3, <2>2, <2>3, FS_Injection
  <2> QED
    BY <2>1, <2>4 DEF Surjection
<1>6. /\ DOMAIN entries = Entries
      /\ \A e \in Entries : /\ entries[e] \in FileSet /\ entries[e].dir = Root
                            /\ entries[e].kind = "file" /\ entries[e] # NoEntry
  <2>1. File(Root, len, value) \in FileSet
    BY <1>2 DEF File, FileSet
  <2>2. \A h \in FileSet : h.kind = "file" /\ h # NoEntry
    BY DEF FileSet, NoEntry
  <2>3. File(Root, len, value).dir = Root
    BY DEF File
  <2> QED
    BY <1>1, <2>1, <2>2, <2>3
<1>7. Headers(entries)
  BY <1>6 DEF Headers
<1>8. DirsIn(entries) = {Root} /\ ListedIn(entries) = Entries
  BY <1>6 DEF DirsIn, ListedIn
<1> DEFINE at == [e \in Entries |-> CHOOSE s \in Blocks : of[s] = e]
           chain == [d \in {Root} |-> order]
           rec == RecordsOf(entries)
<1>9. /\ \A e \in Entries : at[e] \in Blocks /\ of[at[e]] = e
      /\ \A s \in Blocks : of[s] \in Entries /\ at[of[s]] = s
  <2>1. \A e \in Entries : at[e] \in Blocks /\ of[at[e]] = e
    BY <1>1
  <2> HIDE DEF at
  <2> QED
    BY <1>1, <1>4, <2>1
<1>10. chain[Root] = order /\ order \in Seq(Blocks) /\ Len(order) = N /\ DOMAIN order = 1..N
  <2>1. order \in Seq(Blocks)
    BY <1>1, <1>3
  <2>2. DOMAIN order = 1..N /\ N \in Nat
    BY <1>1, <1>3
  <2>3. Len(order) = N
    <3>1. Len(order) \in Nat /\ DOMAIN order = 1..Len(order)
      BY <2>1
    <3> HIDE DEF N
    <3> QED
      BY <2>2, <3>1
  <2> QED
    BY <2>1, <2>2, <2>3
<1>11. WellFormed(Entries, entries) /\ Records(Entries, rec)
  <2>1. WellFormed(Entries, entries)
    BY <1>7, <1>8, HeadersWellFormed
  <2> QED
    BY <2>1, RecordsWellFormed
<1> HIDE DEF at, chain, N
<1>12. BlocksIn(order) = Blocks
  BY <1>1, <1>5, <1>10 DEF BlocksIn
<1>13. ASSUME NEW k \in 1..N
       PROVE  cache[order[k]] =
                [recordsNb |-> 1,
                 records |-> adfPutCacheEntry(EmptyBlock.records, 0, rec[of[order[k]]]),
                 nextDirC |-> IF k = N THEN 0 ELSE order[k + 1]]
  <2> DEFINE s == order[k]
             j == CHOOSE i \in DOMAIN order : order[i] = s
  <2>1. s \in Blocks /\ of[s] \in Entries /\ rec[of[s]] = Record(of[s], entries[of[s]])
    BY <1>1, <1>9 DEF RecordsOf
  <2>2. j = k
    <3>1. \E i \in DOMAIN order : order[i] = s
      BY <1>10
    <3>2. j \in 1..N /\ order[j] = order[k]
      BY <1>10, <3>1
    <3> QED
      BY <1>5, <3>2
  <2>3. cache[s] = [recordsNb |-> 1,
                    records |-> adfPutCacheEntry(EmptyBlock.records, 0,
                                                 Record(of[s], entries[of[s]])),
                    nextDirC |-> IF j = Len(order) THEN 0 ELSE order[j + 1]]
    BY <1>1, <2>1, Zenon
  <2> HIDE DEF j, rec
  <2> QED
    BY <1>10, <2>1, <2>2, <2>3
<1>14. ASSUME NEW s \in Blocks
       PROVE  IsBlock(cache[s]) /\ BlockLists(cache[s], {e \in Entries : at[e] = s}, rec)
  <2> DEFINE x == of[s]
  <2>1. {e \in Entries : at[e] = s} = {x}
    BY <1>9
  <2>2. x \in Entries
    BY <1>9
  <2>3. Records({x}, rec)
    BY <1>11, <2>2 DEF Records
  <2>4. PICK k \in 1..N : order[k] = s
    BY <1>5
  <2> DEFINE next == IF k = N THEN 0 ELSE order[k + 1]
  <2>5. next \in Blocks \cup {0}
    <3>1. k # N => k + 1 \in 1..N
      BY <1>3
    <3> QED
      BY <1>1, <3>1
  <2> DEFINE b == cache[s]
  <2>6. b = [recordsNb |-> 1,
             records |-> adfPutCacheEntry(EmptyBlock.records, 0, rec[x]),
             nextDirC |-> next]
    BY <1>13, <2>4
  <2> HIDE DEF next, b, x, rec
  <2>7. IsBlock(b) /\ BlockLists(b, {x}, rec)
    BY <2>3, <2>5, <2>6, OneRecord
  <2> QED
    BY <2>1, <2>7 DEF b
<1>15. BlocksHold(cache, Entries, entries, at)
  BY <1>14 DEF BlocksHold
<1>16. IsChain(cache, order, RootCache)
  <2>1. \A k \in 1..N : cache[order[k]].nextDirC = IF k = N THEN 0 ELSE order[k + 1]
    <3> SUFFICES ASSUME NEW k \in 1..N
                 PROVE  cache[order[k]].nextDirC = IF k = N THEN 0 ELSE order[k + 1]
      OBVIOUS
    <3> DEFINE records == adfPutCacheEntry(EmptyBlock.records, 0, rec[of[order[k]]])
               next == IF k = N THEN 0 ELSE order[k + 1]
    <3>1. cache[order[k]] = [recordsNb |-> 1, records |-> records, nextDirC |-> next]
      BY <1>13
    <3> HIDE DEF records, next
    <3>2. cache[order[k]].nextDirC = next
      BY <3>1
    <3> QED
      BY <3>2 DEF next
  <2>2. \A k \in 1..(N - 1) : k \in 1..N /\ k # N
    BY <1>3
  <2>3. N \in 1..N
    BY <1>3
  <2> QED
    BY <1>1, <1>3, <1>5, <1>10, <2>1, <2>2, <2>3 DEF IsChain
<1>17. ChainsLinked(cache, {Root}, entries, chain)
  BY <1>10, <1>16 DEF ChainsLinked, FirstOf
<1>18. ChainsApart({Root}, chain) /\ OthersFree(free, {Root}, chain)
  BY <1>1, <1>10, <1>12 DEF ChainsApart, OthersFree
<1>19. InItsCache({Root}, Entries, entries, chain, at)
  BY <1>6, <1>9, <1>10, <1>12 DEF InItsCache
<1>20. NoneEmpty({Root}, Entries, chain, at)
  <2> SUFFICES ASSUME NEW k \in 2..N
               PROVE  \E e \in Entries : at[e] = order[k]
    BY <1>10 DEF NoneEmpty
  <2>1. order[k] \in Blocks
    BY <1>1, <1>3
  <2> QED
    BY <1>9, <2>1
<1>21. CacheIs(cache, free, {Root}, Entries, entries, chain, at)
  BY <1>15, <1>17, <1>18, <1>19, <1>20 DEF CacheIs
<1>22. World.cache = cache /\ World.free = free /\ World.ok /\ IsWorld(World)
  BY <1>1 DEF World, IsWorld
<1>23. Good(World, {Root}, Entries, entries)
  BY <1>11, <1>21, <1>22 DEF Good
<1> QED
  BY <1>7, <1>8, <1>23

\* The invariant holds at first.
LEMMA InitInv ==
  ASSUME Init
  PROVE  CacheInv
<1>1. Headers(entries) /\ Good(World, DirsIn(entries), ListedIn(entries), entries)
  BY InitEmptyGood, InitChainGood DEF Init
<1>2. OpenFiles(opened, entries)
  BY DEF Init, OpenFiles
<1> QED
  BY <1>1, <1>2 DEF CacheInv


-----------------------------------------------------------------------------
(* What the invariant says *)

\* The caches in the terms of the properties.
CachesAre(chain, at) ==
  /\ CacheIs(cache, free, Directories, ListedIn(entries), entries, chain, at)
  /\ WellFormed(ListedIn(entries), entries)
  /\ \A d \in Directories : ChainOf(d) = chain[d]

\* There are such caches.
LEMMA CachesExist ==
  ASSUME CacheInv
  PROVE  \E chain, at : CachesAre(chain, at)
<1> DEFINE D == DirsIn(entries)
           L == ListedIn(entries)
<1>1. /\ Good(World, D, L, entries) /\ Directories = D
      /\ \A d : Extension(d) = FirstOf(entries, d)
  BY InvParts
<1>2. World.cache = cache /\ World.free = free
  BY DEF World
<1> HIDE DEF D, L
<1>3. PICK chain, at : CacheIs(cache, free, D, L, entries, chain, at)
  BY <1>1, <1>2 DEF Good
<1>4. WellFormed(L, entries)
  BY <1>1 DEF Good
<1>5. \A d \in D : Chain(cache, FirstOf(entries, d)) = chain[d]
  BY <1>3, <1>4, CacheRead
<1>6. \A d \in D : ChainOf(d) = chain[d]
  BY <1>1, <1>5 DEF ChainOf
<1> QED
  BY <1>1, <1>3, <1>4, <1>6 DEF CachesAre, D, L

\* The values of the headers, and of the blocks.
LEMMA CacheTypes ==
  ASSUME CacheInv
  PROVE  TypeOK
<1>1. PICK chain, at : CachesAre(chain, at)
  BY CachesExist
<1>2. ASSUME NEW e \in Entries, Exists(e)
      PROVE  /\ entries[e].kind \in {"file", "dir"} /\ entries[e].dir \in Directories
             /\ entries[e].len \in Lengths /\ entries[e].value \in Values
  <2>1. Headers(entries) /\ entries[e] # NoEntry /\ entries[e].dir \in Directories
    BY <1>2, InvParts DEF Exists
  <2> QED
    BY <2>1, HeaderParts
<1>3. ASSUME NEW s \in Blocks
      PROVE  /\ cache[s].recordsNb \in 0..Cardinality(Entries)
             /\ cache[s].nextDirC \in Blocks \cup {0}
             /\ DOMAIN cache[s].records = Cells
  <2> DEFINE X == {e \in ListedIn(entries) : at[e] = s}
             rec == RecordsOf(entries)
             b == cache[s]
  <2>1. IsBlock(b) /\ BlockLists(b, X, rec)
    BY <1>1 DEF CachesAre, CacheIs, BlocksHold
  <2>2. Records(X, rec)
    BY <1>1, RecordsWellFormed DEF CachesAre
  <2>3. X \in SUBSET Entries
    BY DEF ListedIn
  <2> HIDE DEF X, rec, b
  <2>4. IsFiniteSet(X) /\ Cardinality(X) = b.recordsNb
    BY <2>1, <2>2, BlockSize
  <2>5. IsFiniteSet(Entries)
    BY CacheAssumption
  <2>6. Cardinality(X) <= Cardinality(Entries)
    BY <2>3, <2>5, FS_Subset
  <2>7. Cardinality(X) \in Nat /\ Cardinality(Entries) \in Nat
    BY <2>4, <2>5, FS_CardinalityType
  <2>8. b.recordsNb \in 0..Cardinality(Entries)
    BY <2>4, <2>6, <2>7
  <2> QED
    BY <2>1, <2>8 DEF IsBlock, b
<1>4. free \subseteq Blocks
  BY <1>1 DEF CachesAre, CacheIs, OthersFree
<1> QED
  BY <1>2, <1>3, <1>4 DEF TypeOK

\* What is read at a place is the record of an entry of d, another one than what
\* is read at another place; and each entry is read at a place.
LEMMA PlacesRead ==
  ASSUME CacheInv, NEW d \in Directories, NEW ch, ch = ChainOf(d)
  PROVE  /\ \A k \in DOMAIN ch : AllReadable(cache[ch[k]])
         /\ \A p \in PlacesOf(ch) :
              /\ ReadAt(ch, p).header \in EntriesOf(d)
              /\ ReadAt(ch, p) = Record(ReadAt(ch, p).header, entries[ReadAt(ch, p).header])
         /\ \A p, q \in PlacesOf(ch) : ReadAt(ch, p).header = ReadAt(ch, q).header => p = q
         /\ \A e \in EntriesOf(d) : \E p \in PlacesOf(ch) : ReadAt(ch, p).header = e
<1>1. PICK chain, at : CachesAre(chain, at)
  BY CachesExist
<1> DEFINE L == ListedIn(entries)
           en == entries
           rec == RecordsOf(entries)
<1>2. /\ CacheIs(cache, free, Directories, L, en, chain, at) /\ WellFormed(L, en)
      /\ ch = chain[d]
  BY <1>1 DEF CachesAre
<1>3. /\ Len(ch) \in Nat /\ DOMAIN ch = 1..Len(ch)
      /\ \A k \in 1..Len(ch) : ch[k] \in Blocks /\ AllReadable(cache[ch[k]])
  BY <1>2, CacheRead
<1>4. \A e : e \in EntriesOf(d) <=> e \in L /\ en[e].dir = d
  BY DEF EntriesOf, ListedIn, Exists
<1>5. \A j, k \in 1..Len(ch) : ch[j] = ch[k] => j = k
  BY <1>2 DEF CacheIs, ChainsLinked, IsChain
<1>6. \A e \in L : rec[e] = Record(e, en[e]) /\ rec[e].header = e
  BY <1>2, RecordsWellFormed DEF Record
<1>7. ASSUME NEW s \in Blocks
      PROVE  /\ cache[s].recordsNb \in Nat /\ cache[s].recordsNb <= Area
             /\ \E h : Reads(cache[s], {e \in L : at[e] = s}, rec, h)
  <2> DEFINE X == {e \in L : at[e] = s}
             b == cache[s]
  <2>1. BlockLists(b, X, rec)
    BY <1>2 DEF CacheIs, BlocksHold
  <2>2. Records(X, rec)
    BY <1>2, RecordsWellFormed
  <2> HIDE DEF X, b, rec
  <2>3. b.recordsNb \in Nat /\ b.recordsNb <= Area /\ \E h : Reads(b, X, rec, h)
    BY <2>1, <2>2, BlockRead
  <2> QED
    BY <2>3 DEF X, b
<1> HIDE DEF L, en, rec
<1>8. ASSUME NEW s \in Blocks, NEW n \in Numbers(cache[s])
      PROVE  /\ RecordAt(cache[s], n).header \in L /\ at[RecordAt(cache[s], n).header] = s
             /\ RecordAt(cache[s], n) = rec[RecordAt(cache[s], n).header]
             /\ \A j \in Numbers(cache[s]) :
                  RecordAt(cache[s], j).header = RecordAt(cache[s], n).header => j = n
  <2> DEFINE X == {e \in L : at[e] = s}
             b == cache[s]
  <2>1. \A e \in X : e \in L /\ at[e] = s
    OBVIOUS
  <2>2. PICK h : Reads(b, X, rec, h)
    BY <1>7
  <2> HIDE DEF X, b
  <2>3. \A j \in Numbers(b) : h[j] \in X /\ RecordAt(b, j) = rec[h[j]] /\ RecordAt(b, j).header = h[j]
    BY <1>6, <2>1, <2>2 DEF Reads
  <2>4. n \in Numbers(b)
    BY DEF b
  <2>5. \A j \in Numbers(b) : RecordAt(b, j).header = RecordAt(b, n).header => j = n
    BY <2>2, <2>3, <2>4 DEF Reads
  <2>6. /\ RecordAt(b, n).header \in L /\ at[RecordAt(b, n).header] = s
        /\ RecordAt(b, n) = rec[RecordAt(b, n).header]
    BY <2>1, <2>3, <2>4
  <2> QED
    BY <2>5, <2>6 DEF b
<1>9. ASSUME NEW e \in L
      PROVE  \E n \in Numbers(cache[at[e]]) : RecordAt(cache[at[e]], n).header = e
  <2> DEFINE s == at[e]
             X == {f \in L : at[f] = s}
             b == cache[s]
  <2>1. s \in Blocks /\ e \in X
    <3>1. PICK f \in Directories : s \in BlocksIn(chain[f])
      BY <1>2 DEF CacheIs, InItsCache
    <3>2. \A k \in 1..Len(chain[f]) : chain[f][k] \in Blocks
      BY <1>2, <3>1, CacheRead
    <3> QED
      BY <3>1, <3>2 DEF BlocksIn
  <2>2. PICK h : Reads(b, X, rec, h)
    BY <1>7, <2>1
  <2>3. \A f \in X : f \in L
    OBVIOUS
  <2> HIDE DEF X, b, s
  <2>4. PICK n \in Numbers(b) : h[n] = e
    BY <2>1, <2>2 DEF Reads
  <2>5. RecordAt(b, n).header = e
    BY <1>6, <2>2, <2>3, <2>4 DEF Reads
  <2> QED
    BY <2>4, <2>5 DEF b, s
<1>10. ASSUME NEW p \in PlacesOf(ch)
       PROVE  /\ p[1] \in 1..Len(ch) /\ p[2] \in Numbers(cache[ch[p[1]]])
              /\ ch[p[1]] \in Blocks /\ p = <<p[1], p[2]>>
  BY <1>3 DEF PlacesOf
<1>11. ASSUME NEW p \in PlacesOf(ch)
       PROVE  /\ ReadAt(ch, p).header \in EntriesOf(d)
              /\ at[ReadAt(ch, p).header] = ch[p[1]]
              /\ ReadAt(ch, p) = Record(ReadAt(ch, p).header, entries[ReadAt(ch, p).header])
  <2> DEFINE s == ch[p[1]]
             r == RecordAt(cache[s], p[2])
  <2>1. s \in Blocks /\ p[2] \in Numbers(cache[s]) /\ s \in BlocksIn(ch)
    BY <1>10 DEF BlocksIn
  <2>2. r.header \in L /\ at[r.header] = s /\ r = rec[r.header]
    BY <1>8, <2>1
  <2> HIDE DEF r, s
  <2>3. en[r.header].dir = d
    BY <1>2, <2>1, <2>2 DEF CacheIs, InItsCache, ChainsApart
  <2>4. r.header \in EntriesOf(d) /\ r = Record(r.header, en[r.header])
    BY <1>4, <1>6, <2>2, <2>3
  <2>5. ReadAt(ch, p) = r
    BY DEF ReadAt, r, s
  <2> QED
    BY <2>2, <2>4, <2>5 DEF en, s
<1>12. ASSUME NEW p \in PlacesOf(ch), NEW q \in PlacesOf(ch),
              ReadAt(ch, p).header = ReadAt(ch, q).header
       PROVE  p = q
  <2>1. ch[p[1]] = ch[q[1]]
    BY <1>11, <1>12
  <2>2. p[1] = q[1]
    BY <1>5, <1>10, <2>1
  <2>3. p[2] = q[2]
    BY <1>8, <1>10, <1>12, <2>2 DEF ReadAt
  <2> QED
    BY <1>10, <2>2, <2>3
<1>13. ASSUME NEW e \in EntriesOf(d)
       PROVE  \E p \in PlacesOf(ch) : ReadAt(ch, p).header = e
  <2>1. e \in L /\ at[e] \in BlocksIn(ch)
    BY <1>2, <1>4 DEF CacheIs, InItsCache
  <2>2. PICK k \in 1..Len(ch) : at[e] = ch[k]
    BY <2>1 DEF BlocksIn
  <2>3. PICK n \in Numbers(cache[ch[k]]) : RecordAt(cache[ch[k]], n).header = e
    BY <1>9, <2>1, <2>2
  <2>4. n \in 0..Area
    <3>1. n \in 0..(cache[ch[k]].recordsNb - 1)
      BY <2>3 DEF Numbers
    <3>2. cache[ch[k]].recordsNb \in Nat /\ cache[ch[k]].recordsNb <= Area
      BY <1>3, <1>7, <2>2
    <3> QED
      BY <3>1, <3>2, CacheAssumption
  <2>5. <<k, n>> \in PlacesOf(ch)
    BY <1>3, <2>2, <2>3, <2>4 DEF PlacesOf
  <2>6. ReadAt(ch, <<k, n>>).header = e
    BY <2>3 DEF ReadAt
  <2> QED
    BY <2>5, <2>6
<1> QED
  BY <1>3, <1>11, <1>12, <1>13

\* So a directory is read from its cache as from its headers.
LEMMA CacheLists ==
  ASSUME CacheInv
  PROVE  CacheListsEntries
<1> SUFFICES ASSUME NEW d \in Directories, NEW ch, ch = ChainOf(d)
             PROVE  /\ \A k \in DOMAIN ch : AllReadable(cache[ch[k]])
                    /\ {ReadAt(ch, p) : p \in PlacesOf(ch)}
                         = {Record(e, entries[e]) : e \in EntriesOf(d)}
                    /\ Cardinality(PlacesOf(ch)) = Cardinality(EntriesOf(d))
  BY Zenon DEF CacheListsEntries
<1> DEFINE P == PlacesOf(ch)
           E == EntriesOf(d)
<1>1. /\ \A k \in DOMAIN ch : AllReadable(cache[ch[k]])
      /\ \A p \in P : /\ ReadAt(ch, p).header \in E
                      /\ ReadAt(ch, p) = Record(ReadAt(ch, p).header, entries[ReadAt(ch, p).header])
      /\ \A p, q \in P : ReadAt(ch, p).header = ReadAt(ch, q).header => p = q
      /\ \A e \in E : \E p \in P : ReadAt(ch, p).header = e
  BY PlacesRead
<1> HIDE DEF P, E
<1>2. {ReadAt(ch, p) : p \in P} = {Record(e, entries[e]) : e \in E}
  <2>1. \A p \in P : \E e \in E : ReadAt(ch, p) = Record(e, entries[e])
    BY <1>1
  <2>2. \A e \in E : \E p \in P : ReadAt(ch, p) = Record(e, entries[e])
    BY <1>1
  <2> QED
    BY <2>1, <2>2
<1>3. Cardinality(P) = Cardinality(E)
  <2> DEFINE f == [p \in P |-> ReadAt(ch, p).header]
  <2>1. f \in [P -> E] /\ \A p \in P : f[p] = ReadAt(ch, p).header
    BY <1>1
  <2> HIDE DEF f
  <2>2. f \in Injection(P, E)
    <3>1. \A p, q \in P : f[p] = f[q] => p = q
      BY <1>1, <2>1
    <3> QED
      BY <2>1, <3>1, Fun_IsInj
  <2>3. f \in Surjection(P, E)
    <3>1. \A e \in E : \E p \in P : f[p] = e
      BY <1>1, <2>1
    <3> QED
      BY <2>1, <3>1, Fun_IsSurj
  <2>4. IsFiniteSet(E)
    <3>1. E \in SUBSET Entries /\ IsFiniteSet(Entries)
      BY CacheAssumption DEF EntriesOf, E
    <3> QED
      BY <3>1, FS_Subset
  <2> QED
    BY <2>2, <2>3, <2>4, FS_Injection
<1> QED
  BY <1>1, <1>2, <1>3 DEF P, E

\* And each block in use is in the cache of one directory.
LEMMA BlocksUsed ==
  ASSUME CacheInv
  PROVE  CacheBlocksUsed
<1>1. PICK chain, at : CachesAre(chain, at)
  BY CachesExist
<1> DEFINE BlocksOf(d) == {ChainOf(d)[k] : k \in DOMAIN ChainOf(d)}
<1>2. /\ CacheIs(cache, free, Directories, ListedIn(entries), entries, chain, at)
      /\ WellFormed(ListedIn(entries), entries)
      /\ \A d \in Directories : ChainOf(d) = chain[d]
  BY <1>1 DEF CachesAre
<1>3. \A d \in Directories : DOMAIN chain[d] = 1..Len(chain[d])
  BY <1>2, CacheRead
<1>4. \A d \in Directories : BlocksOf(d) = BlocksIn(chain[d])
  BY <1>2, <1>3 DEF BlocksIn
<1>5. \A d \in Directories : BlocksIn(chain[d]) \subseteq Blocks
  BY <1>2, CacheRead DEF BlocksIn
<1> HIDE DEF BlocksOf
<1>6. Blocks \ free = UNION {BlocksOf(d) : d \in Directories}
  <2>1. \A s \in Blocks : s \notin free <=> \E d \in Directories : s \in BlocksOf(d)
    BY <1>2, <1>4 DEF CacheIs, OthersFree
  <2>2. \A d \in Directories : BlocksOf(d) \subseteq Blocks
    BY <1>4, <1>5
  <2> QED
    BY <2>1, <2>2
<1>7. \A d, c \in Directories : d # c => BlocksOf(d) \cap BlocksOf(c) = {}
  BY <1>2, <1>4 DEF CacheIs, ChainsApart
<1> QED
  BY <1>6, <1>7 DEF CacheBlocksUsed, BlocksOf

-----------------------------------------------------------------------------
(* Theorems. They are about programs that avoid the defects of this code    *)
(* with a directory cache.                                                 *)

\* The cache, the headers and the bitmap fit together, whatever such programs do
\* after formatting a volume or mounting that of another program.
THEOREM CachesFit ==
  ASSUME CarefulCaches
  PROVE  Spec => []CacheInv
<1>1. Init => CacheInv
  BY InitInv
<1>2. CacheInv /\ [Next]_vars => CacheInv'
  BY NextInv
<1> QED
  BY <1>1, <1>2, PTL DEF Spec

\* Headers name directories, and blocks of the cache hold records.
THEOREM CacheTypeOK ==
  ASSUME CarefulCaches
  PROVE  Spec => []TypeOK
<1>1. CacheInv => TypeOK
  BY CacheTypes
<1> QED
  BY <1>1, CachesFit, PTL

\* Reading a directory from its cache gives its entries as their headers describe
\* them, each once: adfAddInCache, adfDelFromCache and adfUpdateCache neither
\* lose nor damage the records they move.
THEOREM CacheListsTheEntries ==
  ASSUME CarefulCaches
  PROVE  Spec => []CacheListsEntries
<1>1. CacheInv => CacheListsEntries
  BY CacheLists
<1> QED
  BY <1>1, CachesFit, PTL

\* The bitmap has the blocks of the caches marked as used, and no other one; no
\* block is in two caches.
THEOREM CacheBlocksAreUsed ==
  ASSUME CarefulCaches
  PROVE  Spec => []CacheBlocksUsed
<1>1. CacheInv => CacheBlocksUsed
  BY BlocksUsed
<1> QED
  BY <1>1, CachesFit, PTL
=============================================================================
