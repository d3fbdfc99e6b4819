-------------------------- MODULE AdfDevice_proofs --------------------------
(***************************************************************************)
(* Theorems about AdfVolume and AdfDevice, for every size of device,       *)
(* volume and bitmap page: the check of block numbers, the ranges of       *)
(* volumes and partitions, the bits of a bitmap page; what adfVolCreate    *)
(* makes of a range of blocks, what adfCreateHdHeader writes and what      *)
(* adfDevMount finds of it; and the invariant of images, devices and       *)
(* volumes that these keep, with the safety properties of the module.      *)
(***************************************************************************)
EXTENDS AdfDevice, Numbers_proofs, SequenceTheorems

\* A range of blocks whose numbers fit into 32 bits.
IsRange(v) ==
  /\ v.first \in Nat /\ v.last \in Nat
  /\ v.first <= v.last /\ v.last < Modulus

-----------------------------------------------------------------------------
(* Arithmetic *)

\* Remainders and products.
LEMMA ModSmall ==
  ASSUME NEW a \in Nat, NEW m \in Nat \ {0}, a < m
  PROVE  a % m = a
OBVIOUS

\* A number that is too large once.
LEMMA ModOnce ==
  ASSUME NEW a \in Nat, NEW m \in Nat \ {0}, m <= a, a < m + m
  PROVE  a % m = a - m
OBVIOUS

\* Products grow.
LEMMA ProductGrows ==
  ASSUME NEW c \in Nat, NEW a \in Nat, NEW b \in Nat, a <= b
  PROVE  c * a <= c * b
OBVIOUS

\* Products of sums.
LEMMA TimesSum ==
  ASSUME NEW c \in Nat, NEW a \in Nat, NEW b \in Nat
  PROVE  /\ c * (a + b) = c * a + c * b
         /\ c * a \in Nat
OBVIOUS

\* Division with remainder.
LEMMA DivideWithRest ==
  ASSUME NEW a \in Nat, NEW m \in Nat \ {0}
  PROVE  /\ a \div m \in Nat
         /\ a % m \in 0..(m - 1)
         /\ a = (a \div m) * m + (a % m)
OBVIOUS

\* Products of numbers are numbers.
LEMMA Product ==
  ASSUME NEW a \in Nat, NEW b \in Nat
  PROVE  a * b \in Nat
OBVIOUS

-----------------------------------------------------------------------------
(* Block numbers *)

\* The block of the device that a block number in the range of 32 bits means:
\* the sum, unless it does not fit.
LEMMA PhysicalIs ==
  ASSUME NEW v, IsRange(v), NEW nSect \in 0..(Modulus - 1)
  PROVE  Physical(v, nSect) = IF nSect + v.first < Modulus THEN nSect + v.first
                              ELSE nSect + v.first - Modulus
<1> DEFINE a == nSect + v.first
<1>1. a \in Nat /\ a < Modulus + Modulus /\ Modulus \in Nat \ {0}
  BY BlockAssumption DEF IsRange
<1>2. Physical(v, nSect) = a % Modulus
  BY DEF Physical
<1> HIDE DEF a
<1>3. CASE a < Modulus
  <2>1. a % Modulus = a
    BY <1>1, <1>3, ModSmall
  <2> QED
    BY <2>1, <1>1, <1>2, <1>3 DEF a, IsRange
<1>4. CASE ~(a < Modulus)
  <2>1. a % Modulus = a - Modulus
    BY <1>1, <1>4, ModOnce
  <2> QED
    BY <2>1, <1>1, <1>2, <1>4 DEF a, IsRange
<1> QED
  BY <1>3, <1>4

\* adfVolReadBlock and adfVolWriteBlock check the block of the device against
\* both ends of the volume, after an addition that may have wrapped around. For
\* every volume and every number of 32 bits this is the check of the block
\* number itself (adfVolIsSectNumValid).
THEOREM WrapCheckIsRangeCheck ==
  ASSUME NEW v, IsRange(v), NEW nSect \in 0..(Modulus - 1)
  PROVE  /\ InVolume(v, nSect) <=> adfVolIsSectNumValid(v, nSect)
         /\ InVolume(v, nSect) => Physical(v, nSect) = v.first + nSect
<1>1. /\ v.first \in Nat /\ v.last \in Nat /\ v.first <= v.last
      /\ v.last < Modulus /\ nSect \in Nat /\ nSect < Modulus /\ Modulus \in Nat
  BY BlockAssumption DEF IsRange
<1>2. CASE nSect + v.first < Modulus
  <2>1. Physical(v, nSect) = nSect + v.first
    BY <1>2, PhysicalIs
  <2> QED
    BY <1>1, <1>2, <2>1 DEF InVolume, adfVolIsSectNumValid
<1>3. CASE ~(nSect + v.first < Modulus)
  <2>1. Physical(v, nSect) = nSect + v.first - Modulus
    BY <1>3, PhysicalIs
  <2> QED
    BY <1>1, <1>3, <2>1 DEF InVolume, adfVolIsSectNumValid
<1> QED
  BY <1>2, <1>3

\* Whatever block number it is called with, and whatever the mode, a write
\* through a volume (adfVolWriteBlock) changes no block outside of its range;
\* through a volume mounted read-only, or with a driver that opened the image
\* read-only, it changes none. The image keeps its size.
THEOREM WriteStaysInside ==
  ASSUME NEW Numbers, NEW Blocks,
         NEW io \in [image : [Numbers -> Blocks], writable : BOOLEAN, ok : BOOLEAN],
         NEW v, NEW readOnly \in BOOLEAN, NEW nSect, NEW block \in Blocks,
         NEW after, after = adfVolWriteBlock(io, v, readOnly, nSect, block)
  PROVE  /\ after.image \in [Numbers -> Blocks]
         /\ \A p \in Numbers :
              ~(v.first <= p /\ p <= v.last) => after.image[p] = io.image[p]
         /\ readOnly \/ ~io.writable => after.image = io.image
<1> DEFINE p == Physical(v, nSect)
<1>1. CASE io.ok /\ (readOnly \/ ~InVolume(v, nSect))
  <2>1. after = [io EXCEPT !.ok = FALSE]
    BY <1>1 DEF adfVolWriteBlock
  <2>2. after.image = io.image
    BY <2>1
  <2> QED
    BY <2>2
<1>2. CASE ~(io.ok /\ (readOnly \/ ~InVolume(v, nSect)))
  <2>1. after = adfDevWriteBlock(io, p, block)
    BY <1>2 DEF adfVolWriteBlock
  <2>2. CASE ~io.ok
    <3>1. after = io
      BY <2>1, <2>2 DEF adfDevWriteBlock
    <3> QED
      BY <3>1
  <2>3. CASE io.ok /\ io.writable /\ OnDevice(io.image, p)
    <3>1. after = [io EXCEPT !.image[p] = block]
      BY <2>1, <2>3 DEF adfDevWriteBlock
    <3>2. after.image = [io.image EXCEPT ![p] = block]
      BY <3>1
    <3>3. ~readOnly /\ v.first <= p /\ p <= v.last
      BY <1>2, <2>3 DEF InVolume
    <3> HIDE DEF p
    <3> QED
      BY <2>3, <3>2, <3>3
  <2>4. CASE io.ok /\ ~(io.writable /\ OnDevice(io.image, p))
    <3>1. after = [io EXCEPT !.ok = FALSE]
      BY <2>1, <2>4 DEF adfDevWriteBlock
    <3>2. after.image = io.image
      BY <3>1
    <3> QED
      BY <3>2
  <2> QED
    BY <2>2, <2>3, <2>4
<1> QED
  BY <1>1, <1>2

-----------------------------------------------------------------------------
(* Volumes and partitions *)

\* The volume made of some cylinders consists of exactly their blocks, and its
\* root block is one of them (adfVolCreate).
THEOREM NewVolumeRange ==
  ASSUME NEW cylBlocks \in Nat \ {0}, NEW start \in Nat, NEW len \in Nat \ {0}
  PROVE  LET v == NewVolume(cylBlocks, start, len) IN
           /\ v.first = cylBlocks * start
           /\ v.last = cylBlocks * (start + len) - 1
           /\ v.first \in Nat /\ v.last \in Nat /\ v.first <= v.last
           /\ adfVolIsSectNumValid(v, v.root)
<1> DEFINE f == cylBlocks * start
           n == cylBlocks * len
           v == NewVolume(cylBlocks, start, len)
<1>1. f \in Nat /\ n \in Nat /\ cylBlocks * (start + len) = f + n
  BY TimesSum
<1>2. n >= 1
  <2>1. cylBlocks * 1 <= n
    BY ProductGrows
  <2> QED
    BY <2>1
<1>3. v.first = f /\ v.last = f + n - 1 /\ v.root = (f + n - 1 - f + 1) \div 2
  BY DEF NewVolume, Volume, adfVolCalcRootBlk
<1> HIDE DEF f, n, v
<1>4. v.root = n \div 2
  BY <1>1, <1>3
<1>5. 0 <= v.root /\ v.root <= n - 1
  BY <1>1, <1>2, <1>4
<1>6. adfVolIsSectNumValid(v, v.root)
  BY <1>1, <1>3, <1>5 DEF adfVolIsSectNumValid
<1> QED
  BY <1>1, <1>2, <1>3, <1>6 DEF f, n, v

\* Volumes made of different cylinders have no block in common, whatever the
\* size of a cylinder (adfCreateHd).
THEOREM PartitionsDisjoint ==
  ASSUME NEW cylBlocks \in Nat \ {0},
         NEW start1 \in Nat, NEW len1 \in Nat \ {0},
         NEW start2 \in Nat, NEW len2 \in Nat \ {0},
         start1 + len1 <= start2
  PROVE  NewVolume(cylBlocks, start1, len1).last < NewVolume(cylBlocks, start2, len2).first
<1>1. NewVolume(cylBlocks, start1, len1).last = cylBlocks * (start1 + len1) - 1
  BY NewVolumeRange
<1>2. NewVolume(cylBlocks, start2, len2).first = cylBlocks * start2
  BY NewVolumeRange
<1>3. cylBlocks * (start1 + len1) <= cylBlocks * start2
  BY ProductGrows
<1>4. cylBlocks * (start1 + len1) \in Nat /\ cylBlocks * start2 \in Nat
  BY TimesSum
<1> QED
  BY <1>1, <1>2, <1>3, <1>4

\* What the partition block written for some cylinders (adfCreateHdHeader)
\* means when it is read again (adfMountHd) is the volume that was made of them.
THEOREM PartitionFoundAgain ==
  ASSUME NEW cylBlocks \in Nat \ {0}, NEW next, NEW img,
         NEW part, part.start \in Nat, part.len \in Nat \ {0},
         IsDos(img[cylBlocks * part.start])
  PROVE  PartVolume(img, cylBlocks, Partition(part, next))
           = NewVolume(cylBlocks, part.start, part.len)
<1> DEFINE first == cylBlocks * part.start
           last  == cylBlocks * (part.start + part.len) - 1
           high  == part.start + part.len - 1
<1>1. Partition(part, next).lowCyl = part.start /\ Partition(part, next).highCyl = high
  BY DEF Partition
<1>2. high + 1 = part.start + part.len /\ part.start + part.len \in Nat
  OBVIOUS
<1>3. (high + 1) * cylBlocks - 1 = last
  <2> HIDE DEF high
  <2> QED
    BY <1>2
<1> HIDE DEF high
<1>4. PartVolume(img, cylBlocks, Partition(part, next))
        = Volume(first, last, adfVolCalcRootBlk(first, last))
  BY <1>1, <1>3 DEF PartVolume
<1>5. cylBlocks * part.start + cylBlocks * part.len - 1 = last
  <2>1. /\ cylBlocks * (part.start + part.len) = cylBlocks * part.start + cylBlocks * part.len
    BY TimesSum
  <2> QED
    BY <2>1
<1>6. NewVolume(cylBlocks, part.start, part.len)
        = Volume(first, last, adfVolCalcRootBlk(first, last))
  BY <1>5 DEF NewVolume
<1> QED
  BY <1>4, <1>6

\* adfMountHdFile, which knows no size, takes the volume to end as far behind
\* the root block as it begins before it. That is the volume that was made when
\* the number of its blocks is even, and one block less when it is odd.
THEOREM HardfileEnd ==
  ASSUME NEW cylBlocks \in Nat \ {0}, NEW cylinders \in Nat \ {0}
  PROVE  LET v == NewVolume(cylBlocks, 0, cylinders) IN
           2 * v.root - 1 = IF SizeInBlocks(v) % 2 = 0 THEN v.last ELSE v.last - 1
<1> DEFINE n == cylBlocks * cylinders
           v == NewVolume(cylBlocks, 0, cylinders)
<1>1. n \in Nat
  BY Product
<1>2. cylBlocks * 0 = 0
  OBVIOUS
<1>3. v.first = 0 /\ v.last = 0 + n - 1 /\ v.root = (0 + n - 1 - 0 + 1) \div 2
  BY <1>2 DEF NewVolume, Volume, adfVolCalcRootBlk
<1> HIDE DEF n, v
<1>4. v.root = n \div 2 /\ SizeInBlocks(v) = n /\ v.last = n - 1
  BY <1>1, <1>3 DEF SizeInBlocks
<1>5. n = (n \div 2) * 2 + (n % 2) /\ n % 2 \in 0..1 /\ n \div 2 \in Nat
  BY <1>1
<1>6. 2 * v.root - 1 = IF SizeInBlocks(v) % 2 = 0 THEN v.last ELSE v.last - 1
  BY <1>1, <1>4, <1>5
<1> QED
  BY <1>6 DEF v
-----------------------------------------------------------------------------
(* Bitmap pages *)

\* The bitmap of a volume has a page for each of its blocks (adfBitmapAllocate
\* against adfSetBlockFree and adfSetBlockUsed).
LEMMA BlockHasPage ==
  ASSUME NEW v, IsRange(v), NEW s \in 2..(v.last - v.first)
  PROVE  /\ PageOf(s) \in Nat /\ PageOf(s) + 1 \in 1..BitmapSize(v)
         /\ (s - 2) % PageBits \in 0..(PageBits - 1)
         /\ PageOf(s) * PageBits + ((s - 2) % PageBits) + 2 = s
<1> DEFINE m == PageBits
           n == v.last - v.first - 1
           k == (s - 2) \div m
           r == (s - 2) % m
           q == (n + m - 1) \div m
           t == (n + m - 1) % m
<1>1. m \in Nat \ {0} /\ n \in Nat /\ s - 2 \in Nat /\ s - 2 < n /\ n + m - 1 \in Nat
  BY BlockAssumption DEF IsRange
<1>2. k \in Nat /\ r \in 0..(m - 1) /\ s - 2 = k * m + r
  <2> HIDE DEF m
  <2> QED
    BY <1>1, DivideWithRest
<1>3. q \in Nat /\ t \in 0..(m - 1) /\ n + m - 1 = q * m + t
  <2> HIDE DEF m, n
  <2> QED
    BY <1>1, DivideWithRest
<1>4. PageOf(s) = k /\ BitmapSize(v) = q
  <2>1. SizeInBlocks(v) - 2 + PageBits - 1 = n + m - 1
    BY BlockAssumption DEF IsRange, SizeInBlocks
  <2> QED
    BY <2>1 DEF PageOf, BitmapSize
<1> HIDE DEF m, n, k, r, q, t
<1>5. k < q
  <2> SUFFICES ASSUME q <= k PROVE FALSE
    BY <1>2, <1>3
  <2>1. m * q <= m * k
    BY <1>1, <1>2, <1>3, ProductGrows
  <2>2. q * m = m * q /\ k * m = m * k /\ m * q \in Nat /\ m * k \in Nat
    BY <1>1, <1>2, <1>3, Product
  <2> QED
    BY <1>1, <1>2, <1>3, <2>1, <2>2
<1>6. k * m + r + 2 = s
  BY <1>1, <1>2, Product
<1>7. k * PageBits + r + 2 = s
  BY <1>6 DEF m
<1> QED
  BY <1>2, <1>3, <1>4, <1>5, <1>7 DEF m, r

\* What the pages say that are written of a set of free blocks (adfUpdateBitmap)
\* is, when they are read again (adfReadBitmap), that set, as far as it is of
\* the volume: for every size of volume and page, no block is at the edge of a
\* page or of the last, partly used one, for which it is not so.
THEOREM BitmapReadAsWritten ==
  ASSUME NEW v, IsRange(v), NEW free
  PROVE  FreeOn(v, [i \in 1..BitmapSize(v) |-> Bits(free, i - 1)])
           = free \cap (2..(v.last - v.first))
<1> DEFINE pages == [i \in 1..BitmapSize(v) |-> Bits(free, i - 1)]
           S == 2..(v.last - v.first)
<1>1. ASSUME NEW s \in S
      PROVE  (s - 2) % PageBits \in pages[PageOf(s) + 1] <=> s \in free
  <2> DEFINE k == PageOf(s)
             b == (s - 2) % PageBits
  <2>1. k \in Nat /\ k + 1 \in 1..BitmapSize(v) /\ b \in 0..(PageBits - 1)
        /\ k * PageBits + b + 2 = s
    BY BlockHasPage
  <2> HIDE DEF k, b
  <2>2. pages[k + 1] = Bits(free, k)
    <3>1. (k + 1) - 1 = k
      BY <2>1
    <3>2. pages[k + 1] = Bits(free, (k + 1) - 1)
      BY <2>1
    <3> QED
      BY <3>1, <3>2
  <2>3. b \in Bits(free, k) <=> s \in free
    BY <2>1 DEF Bits
  <2> QED
    BY <2>2, <2>3 DEF k, b
<1>2. FreeOn(v, pages) = {s \in S : (s - 2) % PageBits \in pages[PageOf(s) + 1]}
  BY DEF FreeOn
<1> HIDE DEF pages, S
<1>3. FreeOn(v, pages) = free \cap S
  BY <1>1, <1>2
<1> QED
  BY <1>3 DEF pages, S

-----------------------------------------------------------------------------
(* Images and writes. An image of n blocks is a function of their numbers.   *)

IsImage(img, n) == img = [p \in 0..(n - 1) |-> img[p]]

IsIO(io, n) ==
  /\ io = [image |-> io.image, writable |-> io.writable, ok |-> io.ok]
  /\ io.writable \in BOOLEAN /\ io.ok \in BOOLEAN
  /\ IsImage(io.image, n)

\* An image of n blocks has n blocks.
LEMMA ImageSize ==
  ASSUME NEW n \in Nat \ {0}, NEW img, IsImage(img, n)
  PROVE  DOMAIN img = 0..(n - 1) /\ Size(img) = n /\ img # NoImage
<1>1. DOMAIN img = 0..(n - 1)
  BY DEF IsImage
<1>2. Cardinality(0..(n - 1)) = n
  BY FS_Interval
<1>3. 0 \in DOMAIN img
  BY <1>1
<1>4. DOMAIN NoImage = {}
  BY DEF NoImage
<1> QED
  BY <1>1, <1>2, <1>3, <1>4 DEF Size

\* A block is written, or nothing is and the call fails.
Wrote(io, after, n, p, block) ==
  /\ IsIO(after, n) /\ after.writable = io.writable
  /\ \/ /\ after.ok /\ io.ok /\ io.writable /\ p \in 0..(n - 1)
        /\ after.image = [io.image EXCEPT ![p] = block]
     \/ ~after.ok /\ after.image = io.image

\* adfDevWriteBlock
LEMMA DevWrites ==
  ASSUME NEW n, NEW io, IsIO(io, n), NEW p, NEW block,
         NEW after, after = adfDevWriteBlock(io, p, block)
  PROVE  /\ Wrote(io, after, n, p, block)
         /\ io.ok /\ io.writable /\ p \in 0..(n - 1) => after.ok
<1>1. DOMAIN io.image = 0..(n - 1)
  BY DEF IsIO, IsImage
<1>2. CASE ~io.ok
  <2>1. after = io
    BY <1>2 DEF adfDevWriteBlock
  <2> QED
    BY <1>2, <2>1 DEF Wrote
<1>3. CASE io.ok /\ io.writable /\ p \in 0..(n - 1)
  <2>1. after = [io EXCEPT !.image[p] = block]
    BY <1>1, <1>3 DEF adfDevWriteBlock, OnDevice
  <2>2. /\ after = [image |-> after.image, writable |-> after.writable, ok |-> after.ok]
        /\ after.image = [io.image EXCEPT ![p] = block]
        /\ after.writable = io.writable /\ after.ok = io.ok
    BY <2>1 DEF IsIO
  <2>3. IsImage(after.image, n)
    BY <2>2 DEF IsIO, IsImage
  <2> QED
    BY <1>3, <2>2, <2>3 DEF IsIO, Wrote
<1>4. CASE io.ok /\ ~(io.writable /\ p \in 0..(n - 1))
  <2>1. after = [io EXCEPT !.ok = FALSE]
    BY <1>1, <1>4 DEF adfDevWriteBlock, OnDevice
  <2>2. /\ after = [image |-> after.image, writable |-> after.writable, ok |-> after.ok]
        /\ after.image = io.image /\ after.writable = io.writable /\ after.ok = FALSE
    BY <2>1 DEF IsIO
  <2> QED
    BY <1>4, <2>2 DEF IsIO, Wrote
<1> QED
  BY <1>2, <1>3, <1>4

\* adfVolWriteBlock
LEMMA VolWrites ==
  ASSUME NEW n, NEW io, IsIO(io, n), NEW v, NEW readOnly \in BOOLEAN, NEW s, NEW block,
         NEW after, after = adfVolWriteBlock(io, v, readOnly, s, block)
  PROVE  /\ Wrote(io, after, n, Physical(v, s), block)
         /\ after.ok => ~readOnly /\ InVolume(v, s)
         /\ (io.ok /\ io.writable /\ ~readOnly /\ InVolume(v, s)
               /\ Physical(v, s) \in 0..(n - 1)) => after.ok
<1>1. CASE io.ok /\ (readOnly \/ ~InVolume(v, s))
  <2>1. after = [io EXCEPT !.ok = FALSE]
    BY <1>1 DEF adfVolWriteBlock
  <2>2. /\ after = [image |-> after.image, writable |-> after.writable, ok |-> after.ok]
        /\ after.image = io.image /\ after.writable = io.writable /\ after.ok = FALSE
    BY <2>1 DEF IsIO
  <2> QED
    BY <1>1, <2>2 DEF IsIO, Wrote
<1>2. CASE ~(io.ok /\ (readOnly \/ ~InVolume(v, s)))
  <2>1. after = adfDevWriteBlock(io, Physical(v, s), block)
    BY <1>2 DEF adfVolWriteBlock
  <2>2. /\ Wrote(io, after, n, Physical(v, s), block)
        /\ io.ok /\ io.writable /\ Physical(v, s) \in 0..(n - 1) => after.ok
    BY <2>1, DevWrites
  <2>3. after.ok => io.ok
    BY <2>2 DEF Wrote
  <2> QED
    BY <1>2, <2>2, <2>3
<1> QED
  BY <1>1, <1>2

-----------------------------------------------------------------------------
(* What calls on a volume may change *)

\* Blocks that are written through volumes.
OfVolume(block) ==
  /\ block.kind \notin {"RDSK", "PART"}
  /\ block.kind = "boot" => block.root \in 0..(Modulus - 1)

\* The image changes inside of the volume only, and if it may be written.
Changes(io, after, n, v) ==
  /\ IsIO(after, n) /\ after.writable = io.writable
  /\ after.ok => io.ok
  /\ ~io.writable => after.image = io.image
  /\ \A p \in 0..(n - 1) :
       \/ after.image[p] = io.image[p]
       \/ v.first <= p /\ p <= v.last /\ OfVolume(after.image[p])

\* One call after the other.
LEMMA ChangesTwice ==
  ASSUME NEW n, NEW v, NEW io, NEW io1, NEW io2, Changes(io, io1, n, v), Changes(io1, io2, n, v)
  PROVE  Changes(io, io2, n, v)
BY DEF Changes

\* No call, or one that fails at once.
LEMMA ChangesNothing ==
  ASSUME NEW n, NEW v, NEW io, IsIO(io, n)
  PROVE  Changes(io, io, n, v)
BY DEF Changes

\* A call that is refused changes nothing.
LEMMA Refused ==
  ASSUME NEW n, NEW v, NEW io, IsIO(io, n), NEW after, after = [io EXCEPT !.ok = FALSE]
  PROVE  Changes(io, after, n, v) /\ after.ok = FALSE /\ after.image = io.image
<1>1. /\ after = [image |-> after.image, writable |-> after.writable, ok |-> after.ok]
      /\ after.image = io.image /\ after.writable = io.writable /\ after.ok = FALSE
  BY DEF IsIO
<1> QED
  BY <1>1 DEF Changes, IsIO

\* A block that is written through the volume.
LEMMA WriteChanges ==
  ASSUME NEW n, NEW io, IsIO(io, n), NEW v, NEW readOnly \in BOOLEAN, NEW s, NEW block,
         OfVolume(block), NEW after, after = adfVolWriteBlock(io, v, readOnly, s, block)
  PROVE  Changes(io, after, n, v)
<1> DEFINE q == Physical(v, s)
<1>1. Wrote(io, after, n, q, block) /\ (after.ok => InVolume(v, s))
  BY VolWrites
<1>2. after.ok => v.first <= q /\ q <= v.last
  BY <1>1 DEF InVolume
<1> HIDE DEF q
<1>3. CASE after.ok
  <2>1. io.ok /\ io.writable /\ q \in 0..(n - 1) /\ after.image = [io.image EXCEPT ![q] = block]
    BY <1>1, <1>3 DEF Wrote
  <2>2. \A p \in 0..(n - 1) : after.image[p] = IF p = q THEN block ELSE io.image[p]
    BY <2>1 DEF IsIO, IsImage
  <2> QED
    BY <1>1, <1>2, <1>3, <2>1, <2>2 DEF Changes, Wrote
<1>4. CASE ~after.ok
  BY <1>1, <1>4 DEF Changes, Wrote
<1> QED
  BY <1>3, <1>4

-----------------------------------------------------------------------------
(* Blocks of a volume that is made *)

\* A volume of an image of n blocks, with its root block in the middle. Block
\* numbers of the image fit into 32 bits.
InImage(v, n) ==
  /\ n \in Nat \ {0} /\ n < Modulus
  /\ v.first \in Nat /\ v.last \in Nat /\ v.first <= v.last /\ v.last < n
  /\ v.root = adfVolCalcRootBlk(v.first, v.last)

\* The block numbers of a volume.
BlocksOf(v) == 0..(v.last - v.first)

\* Where the root block is.
LEMMA RootInside ==
  ASSUME NEW n, NEW v, InImage(v, n)
  PROVE  /\ v.root \in Nat
         /\ 2 * v.root <= v.last - v.first + 1 /\ v.last - v.first <= 2 * v.root
         /\ v.last - v.first >= 1 => v.root \in 1..(v.last - v.first)
         /\ v.last - v.first >= 3 => v.root \in 2..(v.last - v.first)
BY DEF InImage, adfVolCalcRootBlk

\* A block number of the volume means one of its blocks.
LEMMA PhysicalInside ==
  ASSUME NEW n, NEW v, InImage(v, n), NEW s \in BlocksOf(v)
  PROVE  Physical(v, s) = v.first + s /\ InVolume(v, s) /\ Physical(v, s) \in 0..(n - 1)
<1>1. IsRange(v) /\ s \in 0..(Modulus - 1) /\ s + v.first < Modulus
  BY BlockAssumption DEF InImage, IsRange, BlocksOf
<1>2. Physical(v, s) = s + v.first
  BY <1>1, PhysicalIs
<1> QED
  BY <1>1, <1>2 DEF InImage, InVolume, BlocksOf

\* Another one means none.
LEMMA PhysicalOutside ==
  ASSUME NEW n, NEW v, InImage(v, n), NEW s \in 0..(Modulus - 1), s \notin BlocksOf(v)
  PROVE  ~InVolume(v, s)
<1>1. IsRange(v)
  BY BlockAssumption DEF InImage, IsRange
<1>2. ~adfVolIsSectNumValid(v, s)
  BY DEF InImage, BlocksOf, adfVolIsSectNumValid
<1> QED
  BY <1>1, <1>2, WrapCheckIsRangeCheck

\* The order in which adfGetFreeBlocks looks at the blocks begins with the root
\* block.
LEMMA Positions ==
  ASSUME NEW n, NEW v, InImage(v, n), v.last - v.first >= 3,
         NEW s \in 2..(v.last - v.first)
  PROVE  /\ ScanPosition(v, s) \in Nat
         /\ ScanPosition(v, s) = 0 <=> s = v.root
         /\ \A t \in 2..(v.last - v.first) : ScanPosition(v, s) = ScanPosition(v, t) => s = t
BY RootInside DEF InImage, ScanPosition

\* Blocks that are granted: no block twice, free ones, the root block first.
Granted(list, S, v, k) ==
  /\ list \in Seq(S) /\ Len(list) = k
  /\ \A i, j \in 1..k : list[i] = list[j] => i = j
  /\ k > 0 /\ v.root \in S => list[1] = v.root

\* adfGetFreeBlocks finds as many blocks as asked for, or all that are free, and
\* the root block first.
LEMMA GrantedInOrder ==
  ASSUME NEW n, NEW v, InImage(v, n), v.last - v.first >= 3, NEW bm, NEW nb \in Nat,
         NEW S, S = bm.free \cap 2..(v.last - v.first)
  PROVE  /\ Granted(FirstFree(bm, v, nb), S, v, least(nb, Cardinality(S)))
         /\ Cardinality(S) \in Nat /\ IsFiniteSet(S)
         /\ least(nb, Cardinality(S)) \in Nat
<1> DEFINE k == least(nb, Cardinality(S))
           list == FirstFree(bm, v, nb)
           rank == [s \in S |-> ScanPosition(v, s)]
           nth(i) == CHOOSE s \in S : Cardinality(SeenBefore(v, S, s)) = i - 1
<1>1. IsFiniteSet(S) /\ Cardinality(S) \in Nat /\ S \subseteq 2..(v.last - v.first)
  <2>1. IsFiniteSet(2..(v.last - v.first))
    <3>1. 2 \in Int /\ v.last - v.first \in Int
      BY DEF InImage
    <3> QED
      BY <3>1, FS_Interval
  <2> QED
    BY <2>1, FS_Subset, FS_CardinalityType
<1>2. k \in Nat /\ k <= Cardinality(S)
  BY <1>1 DEF least
<1>3. list = [i \in 1..k |-> nth(i)]
  BY DEF FirstFree
<1>4. /\ \A s \in S : rank[s] = ScanPosition(v, s) /\ rank[s] \in Nat
      /\ \A s, t \in S : rank[s] = rank[t] => s = t
  BY <1>1, Positions
<1>5. \A s \in S : LowerThan(S, rank, s) = SeenBefore(v, S, s)
  BY <1>4 DEF LowerThan, SeenBefore
<1> HIDE DEF k, list, rank
<1>6. ASSUME NEW i \in 1..k
      PROVE  nth(i) \in S /\ Cardinality(SeenBefore(v, S, nth(i))) = i - 1
  <2>1. i - 1 \in Nat /\ i - 1 < Cardinality(S)
    BY <1>1, <1>2
  <2>2. \E s \in S : Cardinality(LowerThan(S, rank, s)) = i - 1
    BY <1>1, <1>4, <2>1, Ranked
  <2> QED
    BY <1>5, <2>2
<1> HIDE DEF nth
<1>7. list \in Seq(S) /\ Len(list) = k /\ \A i \in 1..k : list[i] = nth(i)
  BY <1>2, <1>3, <1>6
<1>8. \A i, j \in 1..k : list[i] = list[j] => i = j
  BY <1>6, <1>7
<1>9. k > 0 /\ v.root \in S => list[1] = v.root
  <2> SUFFICES ASSUME k > 0, v.root \in S, nth(1) # v.root PROVE FALSE
    BY <1>2, <1>7
  <2>1. 1 \in 1..k /\ nth(1) \in S /\ Cardinality(SeenBefore(v, S, nth(1))) = 0
    BY <1>2, <1>6
  <2>2. ScanPosition(v, v.root) = 0 /\ ScanPosition(v, nth(1)) \in Nat
        /\ ScanPosition(v, nth(1)) # 0
    BY <1>1, <2>1, Positions
  <2>3. v.root \in SeenBefore(v, S, nth(1))
    BY <2>2 DEF SeenBefore
  <2>4. IsFiniteSet(SeenBefore(v, S, nth(1)))
    <3>1. SeenBefore(v, S, nth(1)) \in SUBSET S
      BY DEF SeenBefore
    <3> QED
      BY <1>1, <3>1, FS_Subset
  <2> QED
    BY <2>1, <2>3, <2>4, FS_EmptySet
<1>10. Granted(list, S, v, k)
  BY <1>7, <1>8, <1>9 DEF Granted
<1> QED
  BY <1>1, <1>2, <1>10 DEF k, list

-----------------------------------------------------------------------------
(* The bitmap of a volume that is made *)

\* The volumes programs with the habits ask for (Suitable).
MayMake(v, left, n) ==
  /\ InImage(v, n) /\ HasRoom(v, left)
  /\ BitmapSize(v) <= RootPages
  /\ v.first + 2 <= v.root /\ v.first <= PageBits - 1

\* Quotients.
LEMMA Quotient ==
  ASSUME NEW m \in Nat \ {0}, NEW k \in Nat, NEW r \in 0..(m - 1)
  PROVE  (k * m + r) \div m = k
<1> DEFINE a == k * m + r
           q == a \div m
           t == a % m
<1>1. k * m \in Nat /\ a \in Nat
  BY Product
<1>2. q \in Nat /\ t \in 0..(m - 1) /\ a = q * m + t
  <2> HIDE DEF a
  <2> QED
    BY <1>1, DivideWithRest
<1>3. q * m \in Nat
  BY <1>2, Product
<1>4. a = k * m + r
  OBVIOUS
<1> HIDE DEF a, q, t
<1>5. ~(k < q)
  <2> SUFFICES ASSUME k + 1 <= q PROVE FALSE
    BY <1>2
  <2>1. m * (k + 1) <= m * q
    BY <1>2, ProductGrows
  <2>2. m * (k + 1) = m * k + m /\ m * k = k * m /\ m * q = q * m
    BY <1>2, TimesSum
  <2> QED
    BY <1>1, <1>2, <1>3, <1>4, <2>1, <2>2
<1>6. ~(q < k)
  <2> SUFFICES ASSUME q + 1 <= k PROVE FALSE
    BY <1>2
  <2>1. m * (q + 1) <= m * k
    BY <1>2, ProductGrows
  <2>2. m * (q + 1) = m * q + m /\ m * k = k * m /\ m * q = q * m
    BY <1>2, TimesSum
  <2> QED
    BY <1>1, <1>2, <1>3, <1>4, <2>1, <2>2
<1>7. q = k
  BY <1>2, <1>5, <1>6
<1> QED
  BY <1>7 DEF q, a

\* The page of the first block of a page, and that it is a block of the volume.
LEMMA PageBegins ==
  ASSUME NEW n, NEW v, InImage(v, n), v.last - v.first >= 3,
         NEW k \in 0..(BitmapSize(v) - 1)
  PROVE  /\ k * PageBits \in Nat /\ PageOf(k * PageBits + 2) = k
         /\ k * PageBits + 2 <= v.last - v.first
<1> DEFINE m == PageBits
           b == v.last - v.first - 1 + m - 1
           q == b \div m
           t == b % m
<1>1. m \in Nat \ {0} /\ b \in Nat /\ v.last - v.first \in Nat
  BY BlockAssumption DEF InImage
<1>2. BitmapSize(v) = q
  <2>1. SizeInBlocks(v) - 2 + PageBits - 1 = b
    BY BlockAssumption DEF InImage, SizeInBlocks
  <2> QED
    BY <2>1 DEF BitmapSize
<1>3. q \in Nat /\ t \in 0..(m - 1) /\ b = q * m + t
  <2> HIDE DEF b, m
  <2> QED
    BY <1>1, DivideWithRest
<1>4. b = v.last - v.first - 1 + m - 1
  OBVIOUS
<1> HIDE DEF m, b, q, t
<1>5. k \in Nat /\ k + 1 <= q
  BY <1>2, <1>3
<1>6. m * (k + 1) <= m * q
  BY <1>1, <1>3, <1>5, ProductGrows
<1>7. m * (k + 1) = m * k + m /\ m * k = k * m /\ m * q = q * m /\ k * m \in Nat /\ q * m \in Nat
  BY <1>1, <1>3, <1>5, TimesSum, Product
<1>8. k * m + 2 <= v.last - v.first
  BY <1>1, <1>3, <1>4, <1>6, <1>7
<1>9. PageOf(k * m + 2) = k
  <2>1. (k * m + 0) \div m = k
    BY <1>1, <1>5, Quotient
  <2>2. (k * m + 2) - 2 = k * m + 0
    BY <1>7
  <2>3. PageOf(k * m + 2) = ((k * m + 2) - 2) \div m
    BY DEF PageOf, m
  <2> QED
    BY <2>1, <2>2, <2>3
<1> QED
  BY <1>7, <1>8, <1>9 DEF m

\* The tables of a new bitmap (adfCreateBitmap): its root block and one more are
\* free, all its pages are marked changed. On a volume at the beginning of the
\* device all blocks are free.
NewTables(v, bm) ==
  /\ bm.free \subseteq 2..(v.last - v.first) /\ v.root \in bm.free
  /\ Cardinality(bm.free) >= 2
  /\ 0..(BitmapSize(v) - 1) \subseteq bm.chg
  /\ v.first = 0 => bm.free = 2..(v.last - v.first)

\* adfCreateBitmap, whatever malloc left in the tables.
LEMMA NewBitmap ==
  ASSUME NEW n, NEW v, NEW left, MayMake(v, left, n)
  PROVE  /\ NewTables(v, adfCreateBitmap(v, left))
         /\ v.last - v.first >= 3 /\ BitmapSize(v) \in Nat
<1> DEFINE bm == adfCreateBitmap(v, left)
           set == (v.first + 2)..(v.last - v.first)
<1> InImage(v, n)
  BY DEF MayMake
<1>1. v.first + 2 <= v.root /\ v.first <= PageBits - 1 /\ v.first \in Nat /\ v.last \in Nat
  BY DEF MayMake, InImage
<1>2. v.last - v.first >= 3 /\ v.root \in 2..(v.last - v.first)
  BY <1>1, RootInside
<1>3. BitmapSize(v) \in Nat
  <2>1. IsRange(v) /\ 2 \in 2..(v.last - v.first)
    BY <1>2, BlockAssumption DEF InImage, IsRange
  <2>2. PageOf(2) \in Nat /\ PageOf(2) + 1 \in 1..BitmapSize(v)
    BY <2>1, BlockHasPage
  <2>3. v.last - v.first - 1 + PageBits - 1 \in Nat
    BY <1>2, BlockAssumption DEF InImage
  <2>4. SizeInBlocks(v) - 2 + PageBits - 1 = v.last - v.first - 1 + PageBits - 1
    BY BlockAssumption DEF InImage, SizeInBlocks
  <2>5. SizeInBlocks(v) - 2 + PageBits - 1 \in Nat
    BY <2>3, <2>4
  <2> QED
    BY <2>5, DivideWithRest, BlockAssumption DEF BitmapSize
<1>4. /\ set \subseteq bm.free
      /\ bm.free \subseteq 2..(v.last - v.first)
      /\ {PageOf(s) : s \in set} \subseteq bm.chg
  BY <1>1 DEF adfCreateBitmap
<1>5. v.root \in set
  BY <1>1, <1>2
<1>6. v.first = 0 => bm.free = 2..(v.last - v.first)
  <2>1. v.first = 0 => set = 2..(v.last - v.first)
    OBVIOUS
  <2> QED
    BY <1>4, <2>1
<1>7. Cardinality(bm.free) >= 2
  <2>1. bm.free \cap 2..(v.last - v.first) = bm.free
    BY <1>4
  <2> HIDE DEF bm
  <2>2. /\ Granted(FirstFree(bm, v, 2), bm.free, v, least(2, Cardinality(bm.free)))
        /\ Cardinality(bm.free) \in Nat
    BY <1>2, <2>1, GrantedInOrder
  <2>3. Len(FirstFree(bm, v, 2)) = 2
    BY DEF MayMake, HasRoom, bm
  <2>4. least(2, Cardinality(bm.free)) = 2
    BY <2>2, <2>3 DEF Granted
  <2> QED
    BY <2>2, <2>4 DEF least
<1>8. 0..(BitmapSize(v) - 1) \subseteq bm.chg
  <2> SUFFICES ASSUME NEW k \in 0..(BitmapSize(v) - 1)
               PROVE  \E s \in set : PageOf(s) = k
    BY <1>4
  <2>1. k * PageBits \in Nat /\ PageOf(k * PageBits + 2) = k
        /\ k * PageBits + 2 <= v.last - v.first
    BY <1>2, PageBegins
  <2>2. CASE k = 0
    <3>1. (0 * PageBits + v.first) \div PageBits = 0
      BY <1>1, Quotient, BlockAssumption
    <3>2. (v.first + 2) - 2 = v.first /\ 0 * PageBits + v.first = v.first
      BY <1>1, BlockAssumption
    <3>3. PageOf(v.first + 2) = 0
      <4>1. PageOf(v.first + 2) = ((v.first + 2) - 2) \div PageBits
        BY DEF PageOf
      <4> QED
        BY <3>1, <3>2, <4>1
    <3>4. v.first + 2 \in set
      BY <1>1, <1>2
    <3> QED
      BY <2>2, <3>3, <3>4
  <2>3. CASE k # 0
    <3>1. PageBits * 1 <= PageBits * k
      BY <1>3, <2>3, ProductGrows, BlockAssumption
    <3>2. PageBits * k = k * PageBits /\ PageBits * 1 = PageBits
      BY <1>3, BlockAssumption
    <3>3. k * PageBits + 2 \in set
      BY <1>1, <2>1, <3>1, <3>2, BlockAssumption
    <3> QED
      BY <2>1, <3>3
  <2> QED
    BY <2>2, <2>3
<1> HIDE DEF bm, set
<1>9. NewTables(v, bm)
  BY <1>4, <1>5, <1>6, <1>7, <1>8 DEF NewTables
<1> QED
  BY <1>2, <1>3, <1>9 DEF bm

-----------------------------------------------------------------------------
(* Writing the bitmap of a volume whose root block lists all pages            *)

\* adfWriteNewBitmap with the result r: the pages get the sectors of list, which
\* the root block lists.
ListsPages(io, v, readOnly, bm, r, list) ==
  /\ io.ok
  /\ r.io = adfVolWriteBlock(io, v, readOnly, v.root,
              [adfVolReadBlock(io.image, v, v.root) EXCEPT !.pages = list, !.ext = 0])
  /\ IsRoot(adfVolReadBlock(io.image, v, v.root))
  /\ Granted(list, bm.free, v, BitmapSize(v))
  /\ r.blocks = list
  /\ r.bm.free = bm.free \ ToSet(list) /\ bm.chg \subseteq r.bm.chg

\* adfWriteNewBitmap fails before it writes, or lists its pages in the root block.
LEMMA NewBitmapLists ==
  ASSUME NEW n, NEW v, InImage(v, n), v.last - v.first >= 3,
         BitmapSize(v) \in Nat, BitmapSize(v) <= RootPages,
         NEW bm, bm.free \subseteq 2..(v.last - v.first),
         NEW io, NEW readOnly, NEW r, r = adfWriteNewBitmap(io, v, readOnly, bm)
  PROVE  \/ r.io = [io EXCEPT !.ok = FALSE] /\ r.blocks = <<>>
         \/ \E list : ListsPages(io, v, readOnly, bm, r, list)
<1> DEFINE root     == adfVolReadBlock(io.image, v, v.root)
           sectList == FirstFree(bm, v, BitmapSize(v))
           bm1      == Used(bm, sectList)
           nExt     == IF Len(sectList) > RootPages THEN ExtBlocksOf(Len(sectList)) ELSE 0
           extList  == FirstFree(bm1, v, nExt)
           full     == Len(sectList) < BitmapSize(v) \/ Len(extList) < nExt
           Next1(w, k) == adfVolWriteBlock(w, v, readOnly, extList[k],
                            Ext(ExtList(sectList, k), IF k < nExt THEN extList[k + 1] ELSE 0))
           Defines(f) == f = [k \in 0..nExt |-> IF k = 0 THEN io ELSE Next1(f[k - 1], k)]
           written  == CHOOSE f : Defines(f)
           newRoot  == [root EXCEPT !.pages = RootList(sectList),
                                    !.ext = IF nExt > 0 THEN extList[1] ELSE 0]
           lists    == [k \in 1..nExt |-> ExtList(sectList, k)]
<1>1. r = IF ~io.ok \/ ~IsRoot(root) \/ full
            THEN [io |-> [io EXCEPT !.ok = FALSE], bm |-> bm, blocks |-> <<>>]
            ELSE [io |-> adfVolWriteBlock(written[nExt], v, readOnly, v.root, newRoot),
                  bm |-> Used(bm1, extList),
                  blocks |-> RootList(sectList) \o FlattenSeq(lists)]
  BY DEF adfWriteNewBitmap
<1>2. bm.free \cap 2..(v.last - v.first) = bm.free
  OBVIOUS
<1>3. /\ Granted(sectList, bm.free, v, least(BitmapSize(v), Cardinality(bm.free)))
      /\ Len(sectList) <= BitmapSize(v) /\ Len(sectList) \in Nat
  <2>1. /\ Granted(sectList, bm.free, v, least(BitmapSize(v), Cardinality(bm.free)))
        /\ Cardinality(bm.free) \in Nat
    BY <1>2, GrantedInOrder
  <2>2. least(BitmapSize(v), Cardinality(bm.free)) <= BitmapSize(v)
        /\ least(BitmapSize(v), Cardinality(bm.free)) \in Nat
    BY <2>1 DEF least
  <2>3. Len(sectList) = least(BitmapSize(v), Cardinality(bm.free))
    BY <2>1 DEF Granted
  <2> QED
    BY <2>1, <2>2, <2>3
<1>4. nExt = 0
  BY <1>3, BlockAssumption
<1> HIDE DEF Next1, newRoot, full
<1>5. written[nExt] = io
  <2>1. Defines([k \in 0..nExt |-> io])
    BY <1>4
  <2>2. Defines(written)
    <3> HIDE DEF Defines
    <3> QED
      BY <2>1
  <2> HIDE DEF written
  <2>3. 0 \in 0..nExt
    BY <1>4
  <2>4. written[0] = io
    BY <2>2, <2>3
  <2> QED
    BY <1>4, <2>4
<1>6. extList = <<>>
  <2>1. bm1.free \cap 2..(v.last - v.first) \subseteq 2..(v.last - v.first)
    OBVIOUS
  <2> DEFINE S == bm1.free \cap 2..(v.last - v.first)
  <2>2. Granted(FirstFree(bm1, v, 0), S, v, least(0, Cardinality(S))) /\ Cardinality(S) \in Nat
    <3> HIDE DEF bm1
    <3> QED
      BY GrantedInOrder
  <2>3. least(0, Cardinality(S)) = 0
    BY <2>2 DEF least
  <2> HIDE DEF S, bm1
  <2>4. FirstFree(bm1, v, 0) \in Seq(S) /\ Len(FirstFree(bm1, v, 0)) = 0
    BY <2>2, <2>3 DEF Granted
  <2> QED
    BY <1>4, <2>4, EmptySeq
<1>7. lists = <<>>
  BY <1>4
<1>8. RootList(sectList) = sectList
  <2>1. RootList(sectList) = SubSeq(sectList, 1, least(1 + RootPages - 1, Len(sectList)))
    BY DEF RootList, Part
  <2>2. least(1 + RootPages - 1, Len(sectList)) = Len(sectList)
    BY <1>3, BlockAssumption DEF least
  <2>3. sectList \in Seq(bm.free)
    BY <1>3 DEF Granted
  <2> QED
    BY <2>1, <2>2, <2>3, SubSeqFull
<1>9. RootList(sectList) \o FlattenSeq(lists) = sectList
  <2>1. FlattenSeq(lists) = <<>>
    BY <1>7, EmptySeq DEF FlattenSeq
  <2>2. sectList \in Seq(bm.free)
    BY <1>3 DEF Granted
  <2> QED
    BY <1>8, <2>1, <2>2, ConcatEmptySeq
<1>10. /\ Used(bm1, extList).free = bm.free \ ToSet(sectList)
       /\ bm.chg \subseteq Used(bm1, extList).chg
  <2>1. ToSet(extList) = {}
    <3>1. ToSet(<<>>) = {}
      BY DEF ToSet
    <3> QED
      BY <1>6, <3>1
  <2>2. Used(bm1, extList).free = bm1.free \ ToSet(extList)
        /\ bm1.chg \subseteq Used(bm1, extList).chg
    BY DEF Used
  <2>3. bm1.free = bm.free \ ToSet(sectList) /\ bm.chg \subseteq bm1.chg
    BY DEF Used
  <2> QED
    BY <2>1, <2>2, <2>3
<1> HIDE DEF sectList, bm1, nExt, extList, written, root, lists
<1>11. newRoot = [root EXCEPT !.pages = sectList, !.ext = 0]
  BY <1>4, <1>8 DEF newRoot
<1>12. CASE ~io.ok \/ ~IsRoot(root) \/ full
  BY <1>1, <1>12
<1>13. CASE ~(~io.ok \/ ~IsRoot(root) \/ full)
  <2>1. r = [io |-> adfVolWriteBlock(io, v, readOnly, v.root, newRoot),
             bm |-> Used(bm1, extList), blocks |-> sectList]
    BY <1>1, <1>5, <1>9, <1>13
  <2>2. least(BitmapSize(v), Cardinality(bm.free)) = BitmapSize(v)
    <3>1. ~(Len(sectList) < BitmapSize(v))
      BY <1>13 DEF full
    <3>2. Len(sectList) = BitmapSize(v)
      BY <1>3, <3>1
    <3> QED
      BY <1>3, <3>2 DEF Granted
  <2>3. ListsPages(io, v, readOnly, bm, r, sectList)
    BY <1>3, <1>10, <1>11, <1>13, <2>1, <2>2 DEF ListsPages, root
  <2> QED
    BY <2>3
<1> QED
  BY <1>12, <1>13

-----------------------------------------------------------------------------
(* Updating the bitmap *)

\* What the loop over the pages computes, turn by turn.
Turns(io, v, readOnly, bm, blocks, m) ==
  CHOOSE g : g = [i \in 0..m |->
    IF i = 0 THEN io ELSE WritePage(g[i - 1], v, readOnly, bm, i - 1, blocks[i])]

InTurn(f, io, v, readOnly, bm, blocks, m) ==
  /\ f[0] = io
  /\ \A i \in 1..m : f[i] = WritePage(f[i - 1], v, readOnly, bm, i - 1, blocks[i])

\* The loop over the pages is defined.
LEMMA PagesInTurn ==
  ASSUME NEW v, NEW readOnly, NEW bm, NEW blocks, NEW io, NEW m \in Nat,
         NEW f, f = Turns(io, v, readOnly, bm, blocks, m)
  PROVE  InTurn(f, io, v, readOnly, bm, blocks, m)
<1> DEFINE Step(w, i) == WritePage(w, v, readOnly, bm, i - 1, blocks[i])
           Upto(k, g) == g = [i \in 0..k |-> IF i = 0 THEN io ELSE Step(g[i - 1], i)]
           A == {k \in Nat : \E g : Upto(k, g)}
<1>1. f = CHOOSE g : Upto(m, g)
  BY DEF Turns
<1> HIDE DEF Step
<1>2. 0 \in A
  <2>1. Upto(0, [i \in 0..0 |-> io])
    OBVIOUS
  <2> QED
    BY <2>1
<1>3. ASSUME NEW k \in Nat, k \in A
      PROVE  k + 1 \in A
  <2>1. PICK g : Upto(k, g)
    BY <1>3
  <2> DEFINE h == [i \in 0..(k + 1) |-> IF i = k + 1 THEN Step(g[k], k + 1) ELSE g[i]]
  <2>2. ASSUME NEW i \in 0..(k + 1)
        PROVE  h[i] = IF i = 0 THEN io ELSE Step(h[i - 1], i)
    <3>1. CASE i = k + 1
      BY <3>1
    <3>2. CASE i # k + 1
      <4>1. i \in 0..k /\ h[i] = g[i] /\ (i # 0 => h[i - 1] = g[i - 1])
        BY <3>2
      <4>2. g[i] = IF i = 0 THEN io ELSE Step(g[i - 1], i)
        BY <2>1, <4>1
      <4> QED
        BY <4>1, <4>2
    <3> QED
      BY <3>1, <3>2
  <2>3. Upto(k + 1, h)
    <3>1. h = [i \in 0..(k + 1) |-> h[i]]
      OBVIOUS
    <3> HIDE DEF h
    <3> QED
      BY <2>2, <3>1
  <2> HIDE DEF h, Upto
  <2> QED
    BY <2>3
<1>4. m \in A
  <2> HIDE DEF A
  <2>1. \A k \in Nat : k \in A => k + 1 \in A
    BY <1>3
  <2>2. Nat \subseteq A
    BY <1>2, <2>1, Induction
  <2> QED
    BY <2>2
<1>5. Upto(m, f)
  <2> HIDE DEF Upto
  <2> QED
    BY <1>1, <1>4
<1>6. \A i \in 0..m : f[i] = IF i = 0 THEN io ELSE Step(f[i - 1], i)
  BY <1>5
<1>7. \A i \in 1..m : i \in 0..m /\ i # 0
  OBVIOUS
<1>8. f[0] = io
  BY <1>6
<1> QED
  BY <1>6, <1>7, <1>8 DEF Step, InTurn

\* The blocks of the pages list, once the first k are written.
PagesAre(v, n, free, list, k, old, img) ==
  /\ \A j \in 1..k : img[v.first + list[j]] = Page(Bits(free, j - 1))
  /\ \A p \in 0..(n - 1) : (\A j \in 1..k : p # v.first + list[j]) => img[p] = old[p]

\* Sectors that pages may have: those of the volume but for the boot blocks.
PageSectors(v, list, m) ==
  /\ m \in Nat /\ \A j \in 1..m : list[j] \in 2..(v.last - v.first)
  /\ \A i, j \in 1..m : list[i] = list[j] => i = j

\* The loop writes the pages, all of which are marked changed.
LEMMA PagesWritten ==
  ASSUME NEW n, NEW v, InImage(v, n), NEW readOnly \in BOOLEAN, NEW bm, NEW list,
         NEW io, IsIO(io, n), NEW m, PageSectors(v, list, m), 0..(m - 1) \subseteq bm.chg,
         NEW f, InTurn(f, io, v, readOnly, bm, list, m)
  PROVE  /\ Changes(io, f[m], n, v)
         /\ f[m].ok => PagesAre(v, n, bm.free, list, m, io.image, f[m].image)
<1> DEFINE P(k) == /\ Changes(io, f[k], n, v)
                   /\ f[k].ok => PagesAre(v, n, bm.free, list, k, io.image, f[k].image)
           A == {k \in Nat : k <= m => P(k)}
<1>1. 0 \in A
  <2>1. Changes(io, io, n, v)
    BY ChangesNothing
  <2>2. PagesAre(v, n, bm.free, list, 0, io.image, io.image)
    BY DEF PagesAre
  <2> QED
    BY <2>1, <2>2 DEF InTurn
<1>2. ASSUME NEW k \in Nat, k \in A, k + 1 <= m
      PROVE  P(k + 1)
  <2> DEFINE i == k + 1
             q == Physical(v, list[i])
             block == Page(Bits(bm.free, k))
  <2>1. i \in 1..m /\ i - 1 = k /\ k \in bm.chg /\ m \in Nat /\ k <= m
    BY <1>2 DEF PageSectors
  <2>2. f[i] = adfVolWriteBlock(f[k], v, readOnly, list[i], block)
    <3>1. f[i] = WritePage(f[k], v, readOnly, bm, k, list[i])
      BY <2>1 DEF InTurn
    <3> QED
      BY <2>1, <3>1 DEF WritePage
  <2>3. Changes(io, f[k], n, v) /\ (f[k].ok => PagesAre(v, n, bm.free, list, k, io.image, f[k].image))
    BY <1>2, <2>1
  <2>4. IsIO(f[k], n)
    BY <2>3 DEF Changes
  <2>5. OfVolume(block)
    BY DEF OfVolume, Page
  <2>6. list[i] \in 2..(v.last - v.first) /\ list[i] \in BlocksOf(v)
    BY <2>1 DEF PageSectors, BlocksOf, InImage
  <2>7. q = v.first + list[i] /\ q \in 0..(n - 1)
    BY <2>6, PhysicalInside
  <2> HIDE DEF i, q, block
  <2>8. Wrote(f[k], f[i], n, q, block)
    <3> USE DEF q
    <3> QED
      BY <2>2, <2>4, VolWrites
  <2>9. Changes(f[k], f[i], n, v)
    BY <2>2, <2>4, <2>5, WriteChanges
  <2>10. Changes(io, f[i], n, v)
    BY <2>3, <2>9, ChangesTwice
  <2>11. ASSUME f[i].ok
         PROVE  PagesAre(v, n, bm.free, list, i, io.image, f[i].image)
    <3>1. f[k].ok /\ f[i].image = [f[k].image EXCEPT ![q] = block]
      BY <2>8, <2>11 DEF Wrote
    <3>2. \A p \in 0..(n - 1) : f[i].image[p] = IF p = q THEN block ELSE f[k].image[p]
      BY <2>4, <3>1 DEF IsIO, IsImage
    <3>3. PagesAre(v, n, bm.free, list, k, io.image, f[k].image)
      BY <2>3, <3>1
    <3>4. ASSUME NEW j \in 1..i
          PROVE  f[i].image[v.first + list[j]] = Page(Bits(bm.free, j - 1))
      <4>1. CASE j = i
        BY <2>1, <2>7, <3>2, <4>1 DEF block
      <4>2. CASE j # i
        <5>1. j \in 1..k /\ j \in 1..m
          BY <2>1, <4>2 DEF i
        <5>2. list[j] # list[i] /\ list[j] \in BlocksOf(v)
          BY <2>1, <4>2, <5>1 DEF PageSectors, BlocksOf, InImage
        <5>3. v.first + list[j] \in 0..(n - 1) /\ v.first + list[j] # q
          BY <2>6, <2>7, <5>2 DEF InImage, BlocksOf
        <5>4. f[k].image[v.first + list[j]] = Page(Bits(bm.free, j - 1))
          BY <3>3, <5>1 DEF PagesAre
        <5> QED
          BY <3>2, <5>3, <5>4
      <4> QED
        BY <4>1, <4>2
    <3>5. ASSUME NEW p \in 0..(n - 1), \A j \in 1..i : p # v.first + list[j]
          PROVE  f[i].image[p] = io.image[p]
      <4>1. p # q
        BY <2>1, <2>7, <3>5
      <4>2. \A j \in 1..k : p # v.first + list[j]
        BY <3>5 DEF i
      <4> QED
        BY <3>2, <3>3, <4>1, <4>2 DEF PagesAre
    <3> QED
      BY <3>4, <3>5 DEF PagesAre
  <2> QED
    BY <2>10, <2>11 DEF i
<1> HIDE DEF P
<1>3. \A k \in Nat : k \in A => k + 1 \in A
  BY <1>2
<1>4. m \in A
  <2> HIDE DEF A
  <2>1. Nat \subseteq A
    BY <1>1, <1>3, Induction
  <2> QED
    BY <2>1 DEF PageSectors
<1>5. P(m)
  BY <1>4 DEF PageSectors
<1> QED
  BY <1>5 DEF P

\* A block of the volume is read.
LEMMA ReadInside ==
  ASSUME NEW n, NEW v, InImage(v, n), NEW img, IsImage(img, n), NEW s \in BlocksOf(v)
  PROVE  adfVolReadBlock(img, v, s) = img[v.first + s]
<1>1. Physical(v, s) = v.first + s /\ InVolume(v, s) /\ Physical(v, s) \in 0..(n - 1)
  BY PhysicalInside
<1>2. DOMAIN img = 0..(n - 1)
  BY DEF IsImage
<1> QED
  BY <1>1, <1>2 DEF adfVolReadBlock, OnDevice

\* A block of the volume is written, or the call fails.
Written(io, after, n, v, s, block) ==
  /\ Changes(io, after, n, v) /\ IsIO(after, n)
  /\ after.ok =>
       /\ io.ok /\ io.writable
       /\ \A p \in 0..(n - 1) :
            after.image[p] = IF p = v.first + s THEN block ELSE io.image[p]

\* adfVolWriteBlock
LEMMA WriteInside ==
  ASSUME NEW n, NEW v, InImage(v, n), NEW io, IsIO(io, n), NEW readOnly \in BOOLEAN,
         NEW s \in BlocksOf(v), NEW block, OfVolume(block),
         NEW after, after = adfVolWriteBlock(io, v, readOnly, s, block)
  PROVE  Written(io, after, n, v, s, block)
<1>1. Physical(v, s) = v.first + s
  BY PhysicalInside
<1>2. Changes(io, after, n, v)
  BY WriteChanges
<1>3. Wrote(io, after, n, v.first + s, block) 
  BY <1>1, VolWrites
<1>4. ASSUME after.ok
      PROVE  /\ io.ok /\ io.writable
             /\ \A p \in 0..(n - 1) :
                  after.image[p] = IF p = v.first + s THEN block ELSE io.image[p]
  <2>1. /\ io.ok /\ io.writable
        /\ after.image = [io.image EXCEPT ![v.first + s] = block]
    BY <1>3, <1>4 DEF Wrote
  <2>2. \A p \in 0..(n - 1) : after.image[p] = IF p = v.first + s THEN block ELSE io.image[p]
    BY <2>1 DEF IsIO, IsImage
  <2> QED
    BY <2>1, <2>2
<1> QED
  BY <1>2, <1>3, <1>4 DEF Wrote, Written

\* adfUpdateBitmap with the root block and the pages in their blocks.
LEMMA UpdateWrites ==
  ASSUME NEW n, NEW v, InImage(v, n), v.root \in BlocksOf(v), NEW readOnly \in BOOLEAN,
         NEW bm, NEW list, NEW io, IsIO(io, n), io.ok,
         PageSectors(v, list, Len(list)), 0..(Len(list) - 1) \subseteq bm.chg,
         \A j \in 1..Len(list) : list[j] # v.root,
         NEW cache, NEW flag, io.image[v.first + v.root] = Root(list, 0, cache, flag),
         NEW after, after = adfUpdateBitmap(io, v, readOnly, bm, list)
  PROVE  /\ Changes(io, after, n, v)
         /\ after.ok =>
              /\ after.image[v.first + v.root] = Root(list, 0, cache, "valid")
              /\ \A j \in 1..Len(list) :
                   after.image[v.first + list[j]] = Page(Bits(bm.free, j - 1))
              /\ \A p \in 0..(n - 1) :
                   /\ p # v.first + v.root
                   /\ \A j \in 1..Len(list) : p # v.first + list[j]
                   => after.image[p] = io.image[p]
<1> DEFINE m == Len(list)
           q == v.first + v.root
           old == io.image[q]
           first == adfVolWriteBlock(io, v, readOnly, v.root, [old EXCEPT !.bmFlag = "invalid"])
           f == Turns(first, v, readOnly, bm, list, m)
<1>1. adfVolReadBlock(io.image, v, v.root) = old
  BY ReadInside DEF IsIO
<1>2. m \in Nat /\ old.kind = "root" /\ q \in 0..(n - 1)
  BY DEF PageSectors, Root, InImage, BlocksOf
<1>3. after = adfVolWriteBlock(f[m], v, readOnly, v.root, [old EXCEPT !.bmFlag = "valid"])
  BY <1>1, <1>2 DEF adfUpdateBitmap, IsRoot, Turns
<1>4. /\ [old EXCEPT !.bmFlag = "invalid"] = Root(list, 0, cache, "invalid")
      /\ [old EXCEPT !.bmFlag = "valid"] = Root(list, 0, cache, "valid")
      /\ OfVolume(Root(list, 0, cache, "invalid")) /\ OfVolume(Root(list, 0, cache, "valid"))
  BY DEF Root, OfVolume
<1>5. InTurn(f, first, v, readOnly, bm, list, m)
  <2> HIDE DEF first, m
  <2> QED
    BY <1>2, PagesInTurn
<1>6. /\ Changes(io, first, n, v) /\ IsIO(first, n)
      /\ first.ok => \A p \in 0..(n - 1) : first.image[p] =
           IF p = q THEN Root(list, 0, cache, "invalid") ELSE io.image[p]
  BY <1>4, WriteInside DEF Written
<1> HIDE DEF f, first
<1>7. /\ Changes(first, f[m], n, v)
      /\ f[m].ok => PagesAre(v, n, bm.free, list, m, first.image, f[m].image)
  <2>1. PageSectors(v, list, m) /\ 0..(m - 1) \subseteq bm.chg
    OBVIOUS
  <2> HIDE DEF m
  <2> QED
    BY <1>5, <1>6, <2>1, PagesWritten
<1>8. IsIO(f[m], n)
  BY <1>7 DEF Changes
<1>9. /\ Changes(f[m], after, n, v)
      /\ after.ok => f[m].ok /\ \A p \in 0..(n - 1) : after.image[p] =
           IF p = q THEN Root(list, 0, cache, "valid") ELSE f[m].image[p]
  BY <1>3, <1>4, <1>8, WriteInside DEF Written
<1>10. Changes(io, after, n, v)
  BY <1>6, <1>7, <1>9, ChangesTwice
<1>11. ASSUME after.ok
       PROVE  /\ after.image[q] = Root(list, 0, cache, "valid")
              /\ \A j \in 1..m : after.image[v.first + list[j]] = Page(Bits(bm.free, j - 1))
              /\ \A p \in 0..(n - 1) :
                   p # q /\ (\A j \in 1..m : p # v.first + list[j]) => after.image[p] = io.image[p]
  <2>1. f[m].ok /\ first.ok
    BY <1>7, <1>9, <1>11 DEF Changes
  <2>2. \A j \in 1..m : v.first + list[j] \in 0..(n - 1) /\ v.first + list[j] # q
    BY DEF PageSectors, InImage, BlocksOf
  <2>3. PagesAre(v, n, bm.free, list, m, first.image, f[m].image)
    BY <1>7, <2>1
  <2> HIDE DEF q, m
  <2> QED
    BY <1>2, <1>6, <1>9, <1>11, <2>1, <2>2, <2>3 DEF PagesAre
<1> QED
  BY <1>10, <1>11

-----------------------------------------------------------------------------
(* Making a volume                                                          *)

\* A volume as adfVolCreate leaves it: its root block lists as many pages as the
\* bitmap has, these say that the blocks free are free, and no block is of two
\* kinds. On a volume at the beginning of the device no block is of none.
VolumeIs(img, v, pages, cache, free) ==
  /\ v.last - v.first >= 3
  /\ img[v.first].kind = "boot"
  /\ img[v.first + v.root] = Root(pages, 0, cache, "valid")
  /\ pages \in Seq(2..(v.last - v.first)) /\ Len(pages) = BitmapSize(v)
  /\ \A i, j \in 1..Len(pages) : pages[i] = pages[j] => i = j
  /\ \A i \in 1..Len(pages) : pages[i] # v.root /\ pages[i] # cache /\ pages[i] \notin free
  /\ \A i \in 1..Len(pages) : img[v.first + pages[i]] = Page(Bits(free, i - 1))
  /\ cache = 0 \/ cache \in 2..(v.last - v.first)
  /\ cache # v.root /\ cache \notin free /\ v.root \notin free
  /\ free \subseteq 2..(v.last - v.first)
  /\ v.first = 0 => 2..v.last \subseteq free \cup ToSet(pages) \cup {v.root, cache}

VolumeStands(img, v) == \E pages, cache, free : VolumeIs(img, v, pages, cache, free)

\* adfWriteBootBlock
LEMMA BootWritten ==
  ASSUME NEW n, NEW v, InImage(v, n), v.last - v.first >= 3, NEW io, IsIO(io, n),
         NEW readOnly \in BOOLEAN, NEW root \in 0..(Modulus - 1),
         NEW after, after = WriteBoot(io, v, readOnly, root)
  PROVE  /\ Changes(io, after, n, v) /\ IsIO(after, n)
         /\ after.ok =>
              /\ io.ok /\ io.writable
              /\ \A p \in 0..(n - 1) :
                   after.image[p] = IF p = v.first THEN Boot(root)
                                    ELSE IF p = v.first + 1 THEN BootCode ELSE io.image[p]
<1> DEFINE first == adfVolWriteBlock(io, v, readOnly, 0, Boot(root))
<1>1. 0 \in BlocksOf(v) /\ 1 \in BlocksOf(v) /\ v.first + 0 = v.first /\ v.first + 1 # v.first
  BY DEF InImage, BlocksOf
<1>2. OfVolume(Boot(root)) /\ OfVolume(BootCode)
  BY DEF OfVolume, Boot, BootCode
<1>3. after = adfVolWriteBlock(first, v, readOnly, 1, BootCode)
  BY DEF WriteBoot
<1>4. /\ Changes(io, first, n, v) /\ IsIO(first, n)
      /\ first.ok =>
           /\ io.ok /\ io.writable
           /\ \A p \in 0..(n - 1) :
                first.image[p] = IF p = v.first + 0 THEN Boot(root) ELSE io.image[p]
  BY <1>1, <1>2, WriteInside DEF Written
<1> HIDE DEF first
<1>5. /\ Changes(first, after, n, v) /\ IsIO(after, n)
      /\ after.ok =>
           /\ first.ok
           /\ \A p \in 0..(n - 1) :
                after.image[p] = IF p = v.first + 1 THEN BootCode ELSE first.image[p]
  BY <1>1, <1>2, <1>3, <1>4, WriteInside DEF Written
<1>6. Changes(io, after, n, v)
  BY <1>4, <1>5, ChangesTwice
<1> QED
  BY <1>1, <1>4, <1>5, <1>6

\* The blocks that are granted for the root block and the directory cache, which
\* is block 0 when there is none, and the tables bm behind that.
FirstBlocks(v, bm, cache) ==
  /\ bm.free \subseteq 2..(v.last - v.first)
  /\ cache = 0 \/ cache \in 2..(v.last - v.first)
  /\ cache # v.root /\ cache \notin bm.free /\ v.root \notin bm.free
  /\ 0..(BitmapSize(v) - 1) \subseteq bm.chg
  /\ v.first = 0 => 2..v.last \subseteq bm.free \cup {v.root, cache}

\* adfVolCreate, the first call of adfGetFreeBlocks.
LEMMA FirstBlocksGranted ==
  ASSUME NEW n, NEW v, NEW left, MayMake(v, left, n), NEW dircache \in BOOLEAN,
         NEW bm, bm = adfCreateBitmap(v, left),
         NEW list, list = FirstFree(bm, v, IF dircache THEN 2 ELSE 1)
  PROVE  /\ list[1] = v.root
         /\ dircache => list[2] \in 2..(v.last - v.first)
         /\ FirstBlocks(v, Used(bm, list), IF dircache THEN list[2] ELSE 0)
<1> DEFINE k == IF dircache THEN 2 ELSE 1
           cache == IF dircache THEN list[2] ELSE 0
<1>1. NewTables(v, bm) /\ v.last - v.first >= 3 /\ InImage(v, n)
  BY NewBitmap DEF MayMake
<1>2. bm.free \cap 2..(v.last - v.first) = bm.free
  BY <1>1 DEF NewTables
<1>3. Granted(list, bm.free, v, k)
  <2>1. /\ Granted(list, bm.free, v, least(k, Cardinality(bm.free)))
        /\ Cardinality(bm.free) \in Nat
    BY <1>1, <1>2, GrantedInOrder
  <2>2. least(k, Cardinality(bm.free)) = k
    BY <1>1, <2>1 DEF least, NewTables
  <2> QED
    BY <2>1, <2>2
<1>4. list \in Seq(bm.free) /\ Len(list) = k /\ list[1] = v.root
      /\ \A i, j \in 1..k : list[i] = list[j] => i = j
  BY <1>1, <1>3 DEF Granted, NewTables
<1>5. /\ Used(bm, list).free = bm.free \ ToSet(list) /\ bm.chg \subseteq Used(bm, list).chg
  BY DEF Used
<1>6. ToSet(list) = {list[i] : i \in 1..k}
  BY <1>4 DEF ToSet
<1>7. v.root \in 2..(v.last - v.first) /\ bm.free \subseteq 2..(v.last - v.first)
  BY <1>1 DEF NewTables
<1>8. dircache => list[2] \in bm.free /\ list[2] # v.root
  BY <1>4
<1>9. ToSet(list) \subseteq {v.root, cache}
  BY <1>4, <1>6
<1>10. v.root \in ToSet(list) /\ (dircache => cache \in ToSet(list))
  BY <1>4, <1>6
<1> HIDE DEF cache, k
<1>11. /\ cache = 0 \/ cache \in 2..(v.last - v.first)
       /\ cache # v.root /\ cache \notin bm.free \ ToSet(list)
  BY <1>7, <1>8, <1>10 DEF cache
<1>12. v.first = 0 => 2..v.last \subseteq (bm.free \ ToSet(list)) \cup {v.root, cache}
  <2>1. v.first = 0 => v.last - v.first = v.last
    BY <1>1 DEF InImage
  <2> QED
    BY <1>1, <1>9, <2>1 DEF NewTables
<1>13. FirstBlocks(v, Used(bm, list), cache)
  BY <1>1, <1>5, <1>7, <1>10, <1>11, <1>12 DEF FirstBlocks, NewTables
<1> QED
  BY <1>4, <1>7, <1>8, <1>13 DEF cache

\* The image when the boot blocks and the first root block are written.
Begun(io, after, n, v, cache) ==
  /\ Changes(io, after, n, v) /\ IsIO(after, n)
  /\ after.ok =>
       /\ io.ok /\ io.writable
       /\ after.image[v.first] = Boot(v.root)
       /\ after.image[v.first + v.root] = Root(<<>>, 0, cache, "invalid")

\* adfVolCreate up to there.
LEMMA CreateBegins ==
  ASSUME NEW n, NEW v, InImage(v, n), v.last - v.first >= 3, NEW io, IsIO(io, n),
         NEW readOnly \in BOOLEAN, NEW dircache \in BOOLEAN, NEW list, list[1] = v.root,
         dircache => list[2] \in 2..(v.last - v.first),
         NEW cache, cache = IF dircache THEN list[2] ELSE 0,
         NEW io1, io1 = WriteBoot(io, v, readOnly, v.root),
         NEW io2, io2 = IF dircache
           THEN [adfVolWriteBlock(io1, v, readOnly, list[2], Cache) EXCEPT !.ok = io1.ok]
           ELSE io1,
         NEW after, after = adfVolWriteBlock(io2, v, readOnly, list[1],
                              Root(<<>>, 0, cache, "invalid"))
  PROVE  Begun(io, after, n, v, cache)
<1>1. v.root \in 2..(v.last - v.first) /\ v.root \in BlocksOf(v) /\ v.root \in 0..(Modulus - 1)
      /\ v.first \in Nat /\ v.first \in 0..(n - 1)
  <2>1. v.root \in 2..(v.last - v.first)
    BY RootInside
  <2>2. /\ v.first \in Nat /\ v.last \in Nat /\ v.first <= v.last /\ v.last < Modulus
        /\ n \in Nat /\ v.last < n /\ Modulus \in Nat
    BY BlockAssumption DEF InImage
  <2> QED
    BY <2>1, <2>2 DEF BlocksOf
<1>2. /\ Changes(io, io1, n, v) /\ IsIO(io1, n)
      /\ io1.ok =>
           /\ io.ok /\ io.writable
           /\ \A p \in 0..(n - 1) :
                io1.image[p] = IF p = v.first THEN Boot(v.root)
                               ELSE IF p = v.first + 1 THEN BootCode ELSE io.image[p]
  BY <1>1, BootWritten
<1>3. /\ Changes(io1, io2, n, v) /\ IsIO(io2, n)
      /\ io2.ok = io1.ok
      /\ io1.ok => io2.image[v.first] = io1.image[v.first]
  <2>1. CASE ~dircache
    BY <1>2, <2>1, ChangesNothing
  <2>2. CASE dircache
    <3> DEFINE w == adfVolWriteBlock(io1, v, readOnly, list[2], Cache)
    <3>1. OfVolume(Cache) /\ list[2] \in BlocksOf(v) /\ v.first + list[2] # v.first
      BY <1>1, <2>2 DEF OfVolume, Cache, BlocksOf
    <3>2. /\ Changes(io1, w, n, v) /\ IsIO(w, n)
          /\ Wrote(io1, w, n, Physical(v, list[2]), Cache)
      BY <1>2, <3>1, WriteInside, VolWrites DEF Written
    <3>3. Physical(v, list[2]) = v.first + list[2]
      BY <3>1, PhysicalInside
    <3>4. io2 = [w EXCEPT !.ok = io1.ok]
      BY <2>2
    <3> HIDE DEF w
    <3>5. /\ io2.image = w.image /\ io2.writable = w.writable /\ io2.ok = io1.ok
          /\ io2 = [image |-> io2.image, writable |-> io2.writable, ok |-> io2.ok]
      BY <3>2, <3>4 DEF IsIO
    <3>6. IsIO(io2, n)
      BY <1>2, <3>2, <3>5 DEF IsIO
    <3>7. Changes(io1, io2, n, v)
      BY <3>2, <3>5, <3>6 DEF Changes
    <3>8. w.image[v.first] = io1.image[v.first]
      <4>1. io1.image = [p \in 0..(n - 1) |-> io1.image[p]]
        BY <1>2 DEF IsIO, IsImage
      <4>2. w.image = io1.image \/ w.image = [io1.image EXCEPT ![v.first + list[2]] = Cache]
        BY <3>2, <3>3 DEF Wrote
      <4> QED
        BY <1>1, <3>1, <4>1, <4>2
    <3> QED
      BY <3>5, <3>6, <3>7, <3>8
  <2> QED
    BY <2>1, <2>2
<1>4. OfVolume(Root(<<>>, 0, cache, "invalid"))
  BY DEF OfVolume, Root
<1>5. /\ Changes(io2, after, n, v) /\ IsIO(after, n)
      /\ after.ok =>
           /\ io2.ok
           /\ \A p \in 0..(n - 1) :
                after.image[p] = IF p = v.first + v.root THEN Root(<<>>, 0, cache, "invalid")
                                 ELSE io2.image[p]
  <2>1. after = adfVolWriteBlock(io2, v, readOnly, v.root, Root(<<>>, 0, cache, "invalid"))
    OBVIOUS
  <2>2. Written(io2, after, n, v, v.root, Root(<<>>, 0, cache, "invalid"))
    BY <1>1, <1>3, <1>4, <2>1, WriteInside
  <2> QED
    BY <2>2 DEF Written
<1>6. Changes(io, after, n, v)
  <2>1. Changes(io, io2, n, v)
    BY <1>2, <1>3, ChangesTwice
  <2> QED
    BY <1>5, <2>1, ChangesTwice
<1>7. v.first + v.root # v.first /\ v.first + v.root \in 0..(n - 1)
  BY <1>1 DEF InImage
<1>8. ASSUME after.ok
      PROVE  /\ io.ok /\ io.writable /\ after.image[v.first] = Boot(v.root)
             /\ after.image[v.first + v.root] = Root(<<>>, 0, cache, "invalid")
  BY <1>1, <1>2, <1>3, <1>5, <1>7, <1>8
<1> QED
  BY <1>5, <1>6, <1>8 DEF Begun

\* What adfVolCreate does.
Creates(io, after, n, v) ==
  /\ Changes(io, after, n, v) /\ IsIO(after, n)
  /\ after.ok =>
       /\ io.ok /\ io.writable
       /\ VolumeStands(after.image, v) /\ after.image[v.first] = Boot(v.root)

\* adfUpdateBitmap after a call that failed.
LEMMA UpdateRefused ==
  ASSUME NEW n, NEW v, NEW readOnly, NEW bm, NEW list, NEW io, IsIO(io, n), ~io.ok,
         NEW after, after = adfUpdateBitmap(io, v, readOnly, bm, list)
  PROVE  Changes(io, after, n, v) /\ IsIO(after, n) /\ ~after.ok
<1>1. after = [io EXCEPT !.ok = FALSE]
  BY DEF adfUpdateBitmap
<1>2. Changes(io, after, n, v) /\ after.ok = FALSE
  BY <1>1, Refused
<1> QED
  BY <1>2 DEF Changes

\* adfVolCreate from adfWriteNewBitmap on.
LEMMA CreateEnds ==
  ASSUME NEW n, NEW v, InImage(v, n), v.last - v.first >= 3,
         BitmapSize(v) \in Nat, BitmapSize(v) <= RootPages,
         NEW readOnly \in BOOLEAN, NEW io, NEW io3, NEW cache, Begun(io, io3, n, v, cache),
         NEW bm, FirstBlocks(v, bm, cache),
         NEW new, new = adfWriteNewBitmap(io3, v, readOnly, bm),
         NEW after, after = adfUpdateBitmap(new.io, v, readOnly, new.bm, new.blocks)
  PROVE  Creates(io, after, n, v)
<1>1. Changes(io, io3, n, v) /\ IsIO(io3, n)
  BY DEF Begun
<1>2. bm.free \subseteq 2..(v.last - v.first)
  BY DEF FirstBlocks
<1>3. CASE new.io = [io3 EXCEPT !.ok = FALSE]
  <2>1. Changes(io3, new.io, n, v) /\ ~new.io.ok /\ IsIO(new.io, n)
    <3>1. Changes(io3, new.io, n, v) /\ new.io.ok = FALSE
      <4> DEFINE w == new.io
      <4>1. w = [io3 EXCEPT !.ok = FALSE]
        BY <1>3
      <4> HIDE DEF w
      <4>2. Changes(io3, w, n, v) /\ w.ok = FALSE
        BY <1>1, <4>1, Refused
      <4> QED
        BY <4>2 DEF w
    <3> QED
      BY <3>1 DEF Changes
  <2>2. Changes(new.io, after, n, v) /\ IsIO(after, n) /\ ~after.ok
    BY <2>1, UpdateRefused
  <2>3. Changes(io, after, n, v)
    BY <1>1, <2>1, <2>2, ChangesTwice
  <2> QED
    BY <2>2, <2>3 DEF Creates
<1>4. ASSUME NEW pages, ListsPages(io3, v, readOnly, bm, new, pages)
      PROVE  Creates(io, after, n, v)
  <2> DEFINE old == Root(<<>>, 0, cache, "invalid")
             root == Root(pages, 0, cache, "invalid")
             m == Len(pages)
  <2>1. /\ io3.ok /\ io.ok /\ io.writable
        /\ io3.image[v.first] = Boot(v.root) /\ io3.image[v.first + v.root] = old
    BY <1>4 DEF ListsPages, Begun
  <2>2. v.root \in 2..(v.last - v.first) /\ v.root \in BlocksOf(v)
    BY RootInside DEF BlocksOf
  <2>3. adfVolReadBlock(io3.image, v, v.root) = old
    BY <1>1, <2>1, <2>2, ReadInside DEF IsIO
  <2>4. [old EXCEPT !.pages = pages, !.ext = 0] = root
    <3>1. [old EXCEPT !.pages = pages] = root
      BY DEF Root
    <3>2. [root EXCEPT !.ext = 0] = root
      BY DEF Root
    <3> HIDE DEF old, root
    <3> QED
      BY <3>1, <3>2
  <2>5. OfVolume(root)
    BY DEF Root, OfVolume
  <2> HIDE DEF old, root
  <2>6. new.io = adfVolWriteBlock(io3, v, readOnly, v.root, root)
    BY <1>4, <2>3, <2>4 DEF ListsPages
  <2>7. Written(io3, new.io, n, v, v.root, root)
    BY <1>1, <2>2, <2>5, <2>6, WriteInside
  <2>8. Changes(io, new.io, n, v) /\ IsIO(new.io, n)
    BY <1>1, <2>7, ChangesTwice DEF Written
  <2>9. CASE ~new.io.ok
    <3>1. Changes(new.io, after, n, v) /\ IsIO(after, n) /\ ~after.ok
      BY <2>8, <2>9, UpdateRefused
    <3>2. Changes(io, after, n, v)
      BY <2>8, <3>1, ChangesTwice
    <3> QED
      BY <3>1, <3>2 DEF Creates
  <2>10. CASE new.io.ok
    <3>1. /\ pages \in Seq(bm.free) /\ m = BitmapSize(v)
          /\ \A i, j \in 1..m : pages[i] = pages[j] => i = j
          /\ new.blocks = pages
          /\ new.bm.free = bm.free \ ToSet(pages) /\ bm.chg \subseteq new.bm.chg
      BY <1>4 DEF ListsPages, Granted
    <3>2. \A i \in 1..m : pages[i] \in bm.free /\ pages[i] \in ToSet(pages)
      BY <3>1 DEF ToSet
    <3>3. PageSectors(v, pages, m)
      BY <1>2, <3>1, <3>2 DEF PageSectors
    <3>4. 0..(m - 1) \subseteq new.bm.chg
      BY <3>1 DEF FirstBlocks
    <3>5. \A i \in 1..m : pages[i] # v.root /\ pages[i] # cache
      BY <3>2 DEF FirstBlocks
    <3>6. \A p \in 0..(n - 1) :
            new.io.image[p] = IF p = v.first + v.root THEN root ELSE io3.image[p]
      BY <2>7, <2>10 DEF Written
    <3>7. v.first + v.root \in 0..(n - 1) /\ v.first \in 0..(n - 1) /\ v.first # v.first + v.root
      BY <2>2 DEF InImage
    <3>8. /\ new.io.image[v.first + v.root] = root
          /\ new.io.image[v.first] = Boot(v.root)
      BY <2>1, <3>6, <3>7
    <3>9. after = adfUpdateBitmap(new.io, v, readOnly, new.bm, pages)
      BY <3>1
    <3> DEFINE Ends ==
          /\ after.image[v.first + v.root] = Root(pages, 0, cache, "valid")
          /\ \A j \in 1..Len(pages) :
               after.image[v.first + pages[j]] = Page(Bits(new.bm.free, j - 1))
          /\ \A p \in 0..(n - 1) :
               /\ p # v.first + v.root
               /\ \A j \in 1..Len(pages) : p # v.first + pages[j]
               => after.image[p] = new.io.image[p]
    <3>10. Changes(new.io, after, n, v) /\ (after.ok => Ends)
      <4>1. new.io.image[v.first + v.root] = Root(pages, 0, cache, "invalid")
        BY <3>8 DEF root
      <4> QED
        BY <2>2, <2>8, <2>10, <3>3, <3>4, <3>5, <3>9, <4>1, UpdateWrites
    <3>11. Changes(io, after, n, v) /\ IsIO(after, n)
      <4>1. Changes(io, after, n, v)
        BY <2>8, <3>10, ChangesTwice
      <4> QED
        BY <4>1 DEF Changes
    <3>12. ASSUME after.ok
           PROVE  VolumeStands(after.image, v) /\ after.image[v.first] = Boot(v.root)
      <4>1. Ends
        BY <3>10, <3>12
      <4>2. \A j \in 1..m : v.first # v.first + pages[j]
        BY <3>3 DEF PageSectors, InImage
      <4>3. after.image[v.first] = Boot(v.root)
        BY <3>7, <3>8, <4>1, <4>2
      <4>4. after.image[v.first].kind = "boot"
        BY <4>3 DEF Boot
      <4>5. pages \in Seq(2..(v.last - v.first))
        <5>1. pages \in Seq(bm.free)
          BY <3>1
        <5> QED
          BY <1>2, <5>1, SeqMonotonic, Zenon
      <4>6. \A i \in 1..m : pages[i] \notin new.bm.free
        BY <3>1, <3>2
      <4>7. v.first = 0 => 2..v.last \subseteq new.bm.free \cup ToSet(pages) \cup {v.root, cache}
        BY <3>1 DEF FirstBlocks
      <4>8. /\ cache = 0 \/ cache \in 2..(v.last - v.first)
            /\ cache # v.root /\ cache \notin new.bm.free /\ v.root \notin new.bm.free
            /\ new.bm.free \subseteq 2..(v.last - v.first)
        BY <3>1 DEF FirstBlocks
      <4>9. VolumeIs(after.image, v, pages, cache, new.bm.free)
        BY <3>1, <3>5, <4>1, <4>4, <4>5, <4>6, <4>7, <4>8 DEF VolumeIs
      <4> QED
        BY <4>3, <4>9 DEF VolumeStands
    <3> QED
      BY <2>1, <3>11, <3>12 DEF Creates
  <2> QED
    BY <2>9, <2>10
<1>5. \/ new.io = [io3 EXCEPT !.ok = FALSE]
      \/ \E pages : ListsPages(io3, v, readOnly, bm, new, pages)
  BY <1>2, NewBitmapLists
<1> QED
  BY <1>3, <1>4, <1>5

\* adfVolCreate makes a volume that stands, or fails; it writes no block outside
\* of it.
THEOREM VolumeMade ==
  ASSUME NEW n, NEW v, NEW left, MayMake(v, left, n), NEW io, IsIO(io, n),
         NEW readOnly \in BOOLEAN, NEW dircache \in BOOLEAN,
         NEW after, after = adfVolCreate(io, v, readOnly, dircache, left)
  PROVE  Creates(io, after, n, v)
<1> DEFINE bm    == adfCreateBitmap(v, left)
           list  == FirstFree(bm, v, IF dircache THEN 2 ELSE 1)
           cache == IF dircache THEN list[2] ELSE 0
           io1   == WriteBoot(io, v, readOnly, v.root)
           io2   == IF dircache
                      THEN [adfVolWriteBlock(io1, v, readOnly, list[2], Cache) EXCEPT !.ok = io1.ok]
                      ELSE io1
           io3   == adfVolWriteBlock(io2, v, readOnly, list[1], Root(<<>>, 0, cache, "invalid"))
           new   == adfWriteNewBitmap(io3, v, readOnly, Used(bm, list))
<1>1. after = adfUpdateBitmap(new.io, v, readOnly, new.bm, new.blocks)
  BY DEF adfVolCreate
<1>2. /\ InImage(v, n) /\ v.last - v.first >= 3
      /\ BitmapSize(v) \in Nat /\ BitmapSize(v) <= RootPages
  BY NewBitmap DEF MayMake
<1>3. /\ list[1] = v.root
      /\ dircache => list[2] \in 2..(v.last - v.first)
      /\ FirstBlocks(v, Used(bm, list), cache)
  <2> HIDE DEF bm
  <2>1. bm = adfCreateBitmap(v, left)
    BY DEF bm
  <2> QED
    BY <2>1, FirstBlocksGranted
<1> HIDE DEF bm, list, new
<1>4. Begun(io, io3, n, v, cache)
  <2>1. cache = IF dircache THEN list[2] ELSE 0
    OBVIOUS
  <2> HIDE DEF cache
  <2>2. io1 = WriteBoot(io, v, readOnly, v.root)
    OBVIOUS
  <2> HIDE DEF io1
  <2>3. io2 = IF dircache
           THEN [adfVolWriteBlock(io1, v, readOnly, list[2], Cache) EXCEPT !.ok = io1.ok]
           ELSE io1
    OBVIOUS
  <2> HIDE DEF io2
  <2> QED
    BY <1>2, <1>3, <2>1, <2>2, <2>3, CreateBegins
<1> HIDE DEF cache, io3
<1>5. new = adfWriteNewBitmap(io3, v, readOnly, Used(bm, list))
  BY DEF new, io3
<1> QED
  BY <1>1, <1>2, <1>3, <1>4, <1>5, CreateEnds

\* A volume stands as long as its blocks do not change.
LEMMA VolumeKept ==
  ASSUME NEW n, NEW v, InImage(v, n), NEW img, VolumeStands(img, v), NEW img2,
         \A p \in 0..(n - 1) : v.first <= p /\ p <= v.last => img2[p] = img[p]
  PROVE  VolumeStands(img2, v)
<1>1. PICK pages, cache, free : VolumeIs(img, v, pages, cache, free)
  BY DEF VolumeStands
<1>2. \A s \in 0..(v.last - v.first) : img2[v.first + s] = img[v.first + s]
  BY DEF InImage
<1>3. v.first + 0 = v.first /\ 0 \in 0..(v.last - v.first) /\ v.root \in 0..(v.last - v.first)
  <2>1. v.last - v.first >= 3
    BY <1>1 DEF VolumeIs
  <2>2. v.root \in 2..(v.last - v.first)
    BY <2>1, RootInside
  <2> QED
    BY <2>1, <2>2 DEF InImage
<1>4. \A i \in 1..Len(pages) : pages[i] \in 0..(v.last - v.first)
  <2>1. pages \in Seq(2..(v.last - v.first))
    BY <1>1 DEF VolumeIs
  <2>2. \A i \in 1..Len(pages) : pages[i] \in 2..(v.last - v.first)
    BY <2>1, ElementOfSeq, Zenon
  <2> QED
    BY <2>2 DEF InImage
<1>5. /\ img2[v.first] = img[v.first] /\ img2[v.first + v.root] = img[v.first + v.root]
      /\ \A i \in 1..Len(pages) : img2[v.first + pages[i]] = img[v.first + pages[i]]
  BY <1>2, <1>3, <1>4
<1>6. VolumeIs(img2, v, pages, cache, free)
  BY <1>1, <1>5 DEF VolumeIs
<1> QED
  BY <1>6 DEF VolumeStands

\* Only blocks of volumes are written, if the image may be written.
Spoils(io, after, n) ==
  /\ IsIO(after, n) /\ after.writable = io.writable
  /\ after.ok => io.ok
  /\ ~io.writable => after.image = io.image
  /\ \A p \in 0..(n - 1) : after.image[p] = io.image[p] \/ OfVolume(after.image[p])

\* One volume or none.
LEMMA ChangesSpoils ==
  ASSUME NEW n, NEW v, NEW io, NEW after, Changes(io, after, n, v)
  PROVE  Spoils(io, after, n)
BY DEF Changes, Spoils

\* One call after the other.
LEMMA SpoilsTwice ==
  ASSUME NEW n, NEW io, NEW io1, NEW io2, Spoils(io, io1, n), Spoils(io1, io2, n)
  PROVE  Spoils(io, io2, n)
BY DEF Spoils

\* What the loop over the partitions computes, turn by turn (adfCreateHd).
Creations(io, parts, left) ==
  CHOOSE g : g = [i \in 0..Len(parts) |->
    IF i = 0 THEN io
    ELSE adfVolCreate(g[i - 1], PartitionVolume(parts[i]), dev.readOnly, parts[i].dircache, left)]

CreatedInTurn(f, io, parts, left) ==
  /\ f[0] = io
  /\ \A i \in 1..Len(parts) :
       f[i] = adfVolCreate(f[i - 1], PartitionVolume(parts[i]), dev.readOnly,
                           parts[i].dircache, left)

\* That loop is defined.
LEMMA CreationsInTurn ==
  ASSUME NEW io, NEW parts, Len(parts) \in Nat, NEW left,
         NEW f, f = Creations(io, parts, left)
  PROVE  CreatedInTurn(f, io, parts, left)
<1> DEFINE Step(w, i) == adfVolCreate(w, PartitionVolume(parts[i]), dev.readOnly,
                                      parts[i].dircache, left)
           Upto(k, g) == g = [i \in 0..k |-> IF i = 0 THEN io ELSE Step(g[i - 1], i)]
           A == {k \in Nat : \E g : Upto(k, g)}
           m == Len(parts)
<1>1. f = CHOOSE g : Upto(m, g)
  BY DEF Creations
<1> HIDE DEF Step
<1>2. 0 \in A
  <2>1. Upto(0, [i \in 0..0 |-> io])
    OBVIOUS
  <2> QED
    BY <2>1
<1>3. ASSUME NEW k \in Nat, k \in A
      PROVE  k + 1 \in A
  <2>1. PICK g : Upto(k, g)
    BY <1>3
  <2> DEFINE h == [i \in 0..(k + 1) |-> IF i = k + 1 THEN Step(g[k], k + 1) ELSE g[i]]
  <2>2. ASSUME NEW i \in 0..(k + 1)
        PROVE  h[i] = IF i = 0 THEN io ELSE Step(h[i - 1], i)
    <3>1. CASE i = k + 1
      BY <3>1
    <3>2. CASE i # k + 1
      <4>1. i \in 0..k /\ h[i] = g[i] /\ (i # 0 => h[i - 1] = g[i - 1])
        BY <3>2
      <4>2. g[i] = IF i = 0 THEN io ELSE Step(g[i - 1], i)
        BY <2>1, <4>1
      <4> QED
        BY <4>1, <4>2
    <3> QED
      BY <3>1, <3>2
  <2>3. Upto(k + 1, h)
    <3>1. h = [i \in 0..(k + 1) |-> h[i]]
      OBVIOUS
    <3> HIDE DEF h
    <3> QED
      BY <2>2, <3>1
  <2> HIDE DEF h, Upto
  <2> QED
    BY <2>3
<1>4. m \in A
  <2> HIDE DEF A
  <2>1. \A k \in Nat : k \in A => k + 1 \in A
    BY <1>3
  <2>2. Nat \subseteq A
    BY <1>2, <2>1, Induction
  <2> QED
    BY <2>2
<1>5. Upto(m, f)
  <2> HIDE DEF Upto
  <2> QED
    BY <1>1, <1>4
<1>6. \A i \in 0..m : f[i] = IF i = 0 THEN io ELSE Step(f[i - 1], i)
  BY <1>5
<1>7. \A i \in 1..m : i \in 0..m /\ i # 0
  OBVIOUS
<1>8. f[0] = io
  BY <1>6
<1> QED
  BY <1>6, <1>7, <1>8 DEF Step, CreatedInTurn

-----------------------------------------------------------------------------
(* Partitions                                                               *)

\* Volumes with no block in common.
NoneOverlap(vs, m) ==
  \A i, j \in 1..m : i # j => vs[i].last < vs[j].first \/ vs[j].last < vs[i].first

\* Volumes that can be made together on an image of n blocks.
MayMakeAll(vs, m, left, n) ==
  /\ m \in Nat \ {0} /\ \A i \in 1..m : MayMake(vs[i], left, n)
  /\ NoneOverlap(vs, m)

\* adfCreateHd makes volumes that all stand, or fails.
LEMMA VolumesMade ==
  ASSUME NEW n, NEW parts, NEW left, dev.readOnly \in BOOLEAN,
         \A i \in 1..Len(parts) : parts[i].dircache \in BOOLEAN,
         NEW vs, \A i \in 1..Len(parts) : vs[i] = PartitionVolume(parts[i]),
         MayMakeAll(vs, Len(parts), left, n),
         NEW io, IsIO(io, n), NEW after, after = CreateVolumes(io, parts, left)
  PROVE  /\ Spoils(io, after, n)
         /\ after.ok =>
              io.writable /\ \A i \in 1..Len(parts) : VolumeStands(after.image, vs[i])
<1> DEFINE m == Len(parts)
           f == Creations(io, parts, left)
           P(k) == /\ Spoils(io, f[k], n)
                   /\ f[k].ok =>
                        /\ k # 0 => io.writable
                        /\ \A i \in 1..k : VolumeStands(f[k].image, vs[i])
           A == {k \in Nat : k <= m => P(k)}
<1>1. m \in Nat \ {0} /\ \A i \in 1..m : MayMake(vs[i], left, n) /\ InImage(vs[i], n)
  BY DEF MayMakeAll, MayMake
<1>2. CreatedInTurn(f, io, parts, left)
  <2>1. m \in Nat
    BY <1>1
  <2> HIDE DEF f
  <2> QED
    BY <2>1, CreationsInTurn DEF f
<1>3. after = f[m]
  BY DEF CreateVolumes, Creations
<1> HIDE DEF f
<1>4. 0 \in A
  <2>1. f[0] = io
    BY <1>2 DEF CreatedInTurn
  <2>2. Spoils(io, f[0], n)
    BY <2>1 DEF Spoils
  <2> QED
    BY <2>2
<1>5. ASSUME NEW k \in Nat, k \in A, k + 1 <= m
      PROVE  P(k + 1)
  <2> DEFINE i == k + 1
             w == f[k]
             u == f[i]
  <2>1. i \in 1..m /\ i - 1 = k /\ P(k)
    BY <1>1, <1>5
  <2>2. u = adfVolCreate(w, vs[i], dev.readOnly, parts[i].dircache, left)
    <3>1. vs[i] = PartitionVolume(parts[i])
      BY <2>1
    <3> QED
      BY <1>2, <2>1, <3>1 DEF CreatedInTurn
  <2>3. /\ Spoils(io, w, n) /\ IsIO(w, n) /\ w.writable = io.writable
        /\ w.ok => \A j \in 1..k : VolumeStands(w.image, vs[j])
    BY <2>1 DEF Spoils
  <2>4. parts[i].dircache \in BOOLEAN /\ MayMake(vs[i], left, n)
    BY <1>1, <2>1
  <2> HIDE DEF i, w, u
  <2>5. Creates(w, u, n, vs[i])
    BY <2>2, <2>3, <2>4, VolumeMade
  <2>6. Spoils(io, u, n)
    <3>1. Spoils(w, u, n)
      BY <2>5, ChangesSpoils DEF Creates
    <3> QED
      BY <2>3, <3>1, SpoilsTwice
  <2>7. ASSUME u.ok
        PROVE  io.writable /\ \A j \in 1..i : VolumeStands(u.image, vs[j])
    <3>1. io.writable /\ w.ok /\ VolumeStands(u.image, vs[i]) /\ Changes(w, u, n, vs[i])
      BY <2>3, <2>5, <2>7 DEF Creates
    <3>2. ASSUME NEW j \in 1..i, j # i
          PROVE  VolumeStands(u.image, vs[j])
      <4>1. j \in 1..k /\ j \in 1..m
        BY <2>1, <3>2 DEF i
      <4>2. InImage(vs[j], n) /\ InImage(vs[i], n) /\ VolumeStands(w.image, vs[j])
        BY <1>1, <2>1, <2>3, <3>1, <4>1
      <4>3. vs[i].last < vs[j].first \/ vs[j].last < vs[i].first
        BY <2>1, <3>2, <4>1 DEF MayMakeAll, NoneOverlap
      <4>4. \A p \in 0..(n - 1) : vs[j].first <= p /\ p <= vs[j].last => u.image[p] = w.image[p]
        BY <3>1, <4>2, <4>3 DEF Changes, InImage
      <4> QED
        BY <4>2, <4>4, VolumeKept
    <3> QED
      BY <3>1, <3>2
  <2> QED
    BY <2>6, <2>7 DEF i, u
<1> HIDE DEF P
<1>6. \A k \in Nat : k \in A => k + 1 \in A
  BY <1>5
<1>7. m \in A
  <2> HIDE DEF A
  <2>1. Nat \subseteq A
    BY <1>4, <1>6, Induction
  <2> QED
    BY <1>1, <2>1
<1>8. P(m)
  BY <1>1, <1>7
<1> QED
  BY <1>1, <1>3, <1>8 DEF P

\* Partitions as a program asks for them (DeviceAssumption).
IsLayout(parts) ==
  parts \in Seq([start : Nat, len : Nat \ {0}, dircache : BOOLEAN]) \ {<<>>}

\* The geometry of an image of n blocks.
IsGeometry(g, n) ==
  /\ g.cylinders \in Nat \ {0} /\ g.cylBlocks \in Nat \ {0}
  /\ g.cylinders * g.cylBlocks = n

\* Partitions on the device, behind the header, disjoint (Apart).
ApartOn(parts, g) ==
  /\ \A i \in 1..Len(parts) :
       /\ parts[i].start * g.cylBlocks > Len(parts) + 2
       /\ parts[i].start + parts[i].len <= g.cylinders
  /\ \A i, j \in 1..Len(parts) :
       i < j => \/ parts[i].start + parts[i].len <= parts[j].start
                \/ parts[j].start + parts[j].len <= parts[i].start

\* The elements of a layout.
LEMMA LayoutParts ==
  ASSUME NEW parts, IsLayout(parts)
  PROVE  /\ Len(parts) \in Nat \ {0}
         /\ \A i \in 1..Len(parts) :
              /\ parts[i].start \in Nat /\ parts[i].len \in Nat \ {0}
              /\ parts[i].dircache \in BOOLEAN
<1> DEFINE S == [start : Nat, len : Nat \ {0}, dircache : BOOLEAN]
<1>1. parts \in Seq(S) /\ parts # <<>>
  BY DEF IsLayout
<1>2. \A p \in S : p.start \in Nat /\ p.len \in Nat \ {0} /\ p.dircache \in BOOLEAN
  OBVIOUS
<1> HIDE DEF S
<1>3. Len(parts) \in Nat \ {0}
  BY <1>1, EmptySeq
<1>4. \A i \in 1..Len(parts) : parts[i] \in S
  BY <1>1, ElementOfSeq
<1> QED
  BY <1>2, <1>3, <1>4

\* The volumes of partitions.
IsVolumesOf(vs, parts, g) ==
  \A i \in 1..Len(parts) : vs[i] = NewVolume(g.cylBlocks, parts[i].start, parts[i].len)

\* They are ranges of the device behind the header that do not overlap.
LEMMA PartitionRanges ==
  ASSUME NEW n \in Nat, n < Modulus, NEW parts, IsLayout(parts), NEW g, IsGeometry(g, n),
         ApartOn(parts, g), NEW vs, IsVolumesOf(vs, parts, g)
  PROVE  /\ \A i \in 1..Len(parts) : InImage(vs[i], n) /\ vs[i].first > Len(parts) + 2
         /\ NoneOverlap(vs, Len(parts))
         /\ Len(parts) + 2 < n
<1> DEFINE m == Len(parts)
           c == g.cylBlocks
<1>1. /\ m \in Nat \ {0} /\ c \in Nat \ {0} /\ g.cylinders \in Nat /\ g.cylinders * c = n
      /\ \A i \in 1..m : parts[i].start \in Nat /\ parts[i].len \in Nat \ {0}
  BY LayoutParts DEF IsGeometry
<1>2. \A i \in 1..m :
        /\ vs[i] = NewVolume(c, parts[i].start, parts[i].len)
        /\ parts[i].start * c > m + 2 /\ parts[i].start + parts[i].len <= g.cylinders
  BY DEF IsVolumesOf, ApartOn
<1>3. \A i, j \in 1..m :
        i < j => \/ parts[i].start + parts[i].len <= parts[j].start
                 \/ parts[j].start + parts[j].len <= parts[i].start
  BY DEF ApartOn
<1> HIDE DEF m, c
<1>4. ASSUME NEW i \in 1..m
      PROVE  InImage(vs[i], n) /\ vs[i].first > m + 2
  <2> DEFINE s == parts[i].start
             l == parts[i].len
  <2>1. s \in Nat /\ l \in Nat \ {0} /\ s * c > m + 2 /\ s + l <= g.cylinders
        /\ vs[i] = NewVolume(c, s, l)
    BY <1>1, <1>2
  <2> HIDE DEF s, l
  <2>2. LET v == NewVolume(c, s, l) IN
          /\ v.first = c * s /\ v.last = c * (s + l) - 1
          /\ v.first \in Nat /\ v.last \in Nat /\ v.first <= v.last
    BY <1>1, <2>1, NewVolumeRange
  <2>3. c * (s + l) <= c * g.cylinders /\ c * g.cylinders = n /\ c * s = s * c
    <3>1. c * g.cylinders = g.cylinders * c /\ c * s = s * c
      BY <1>1, <2>1
    <3> QED
      BY <1>1, <2>1, <3>1, ProductGrows
  <2>4. vs[i].root = adfVolCalcRootBlk(vs[i].first, vs[i].last)
    BY <2>1 DEF NewVolume, Volume
  <2>5. /\ vs[i].first \in Nat /\ vs[i].last \in Nat /\ vs[i].first <= vs[i].last
        /\ vs[i].last < n /\ vs[i].first > m + 2
    <3>1. c * (s + l) \in Nat
      BY <1>1, <2>1, TimesSum
    <3> QED
      BY <1>1, <2>1, <2>2, <2>3, <3>1
  <2> QED
    BY <2>4, <2>5 DEF InImage
<1>5. ASSUME NEW i \in 1..m, NEW j \in 1..m, i < j
      PROVE  vs[i].last < vs[j].first \/ vs[j].last < vs[i].first
  <2> DEFINE s1 == parts[i].start
             l1 == parts[i].len
             s2 == parts[j].start
             l2 == parts[j].len
  <2>1. /\ s1 \in Nat /\ l1 \in Nat \ {0} /\ s2 \in Nat /\ l2 \in Nat \ {0}
        /\ vs[i] = NewVolume(c, s1, l1) /\ vs[j] = NewVolume(c, s2, l2)
        /\ s1 + l1 <= s2 \/ s2 + l2 <= s1
    BY <1>1, <1>2, <1>3, <1>5
  <2> HIDE DEF s1, l1, s2, l2
  <2>2. CASE s1 + l1 <= s2
    BY <1>1, <2>1, <2>2, PartitionsDisjoint
  <2>3. CASE s2 + l2 <= s1
    BY <1>1, <2>1, <2>3, PartitionsDisjoint
  <2> QED
    BY <2>1, <2>2, <2>3
<1>6. NoneOverlap(vs, m)
  <2> SUFFICES ASSUME NEW i \in 1..m, NEW j \in 1..m, i # j
               PROVE  vs[i].last < vs[j].first \/ vs[j].last < vs[i].first
    BY DEF NoneOverlap
  <2>1. i < j \/ j < i
    BY <1>1
  <2> QED
    BY <1>5, <2>1
<1>7. m + 2 < n
  <2>1. 1 \in 1..m
    BY <1>1
  <2> QED
    BY <1>1, <1>4, <2>1 DEF InImage
<1> QED
  BY <1>4, <1>6, <1>7 DEF m

\* The block of the next partition in the list, -1 behind the last.
NextPart(i, m) == IF i < m THEN i + 1 ELSE -1

\* The blocks of the header.
LEMMA HeaderBlocks ==
  ASSUME NEW parts, IsLayout(parts), NEW g, NEW h, h = Header(g, parts)
  PROVE  /\ Len(h) = Len(parts) + 3
         /\ h[1] = Rdsk(g, Len(parts))
         /\ \A i \in 1..Len(parts) : h[i + 1] = Partition(parts[i], NextPart(i, Len(parts)))
         /\ h[Len(parts) + 2] = Fshd(Len(parts)) /\ h[Len(parts) + 3] = Lseg
<1> DEFINE m == Len(parts)
           mid == [i \in 1..m |-> Partition(parts[i], IF i < m THEN i + 1 ELSE -1)]
           a == <<Rdsk(g, m)>>
           c == <<Fshd(m), Lseg>>
           S == {Rdsk(g, m), Fshd(m), Lseg} \cup {mid[i] : i \in 1..m}
<1>1. m \in Nat \ {0}
  BY LayoutParts
<1>2. h = (a \o mid) \o c
  BY DEF Header
<1>3. a \in Seq(S) /\ Len(a) = 1 /\ a[1] = Rdsk(g, m)
  OBVIOUS
<1>4. mid \in Seq(S) /\ Len(mid) = m
  BY <1>1
<1>5. c \in Seq(S) /\ Len(c) = 2 /\ c[1] = Fshd(m) /\ c[2] = Lseg
  OBVIOUS
<1>6. \A i \in 1..m : mid[i] = Partition(parts[i], NextPart(i, m))
  BY DEF NextPart
<1> HIDE DEF m, mid, a, c, S
<1> DEFINE ab == a \o mid
<1>a. /\ a \o mid \in Seq(S) /\ Len(a \o mid) = Len(a) + Len(mid)
      /\ \A i \in 1..(Len(a) + Len(mid)) :
           (a \o mid)[i] = IF i <= Len(a) THEN a[i] ELSE mid[i - Len(a)]
  BY <1>3, <1>4, ConcatProperties
<1>7. /\ ab \in Seq(S) /\ Len(ab) = 1 + m
      /\ \A i \in 1..(1 + m) : ab[i] = IF i <= 1 THEN a[i] ELSE mid[i - 1]
  BY <1>3, <1>4, <1>a
<1> HIDE DEF ab
<1>b. /\ Len(ab \o c) = Len(ab) + Len(c)
      /\ \A i \in 1..(Len(ab) + Len(c)) :
           (ab \o c)[i] = IF i <= Len(ab) THEN ab[i] ELSE c[i - Len(ab)]
  BY <1>5, <1>7, ConcatProperties
<1>8. /\ Len(ab \o c) = (1 + m) + 2
      /\ \A i \in 1..((1 + m) + 2) :
           (ab \o c)[i] = IF i <= 1 + m THEN ab[i] ELSE c[i - (1 + m)]
  BY <1>5, <1>7, <1>b
<1>9. h = ab \o c
  BY <1>2 DEF ab
<1>10. h[1] = Rdsk(g, m)
  BY <1>1, <1>3, <1>7, <1>8, <1>9
<1>11. ASSUME NEW i \in 1..m
       PROVE  h[i + 1] = Partition(parts[i], NextPart(i, m))
  <2>1. /\ i + 1 \in 1..((1 + m) + 2) /\ i + 1 \in 1..(1 + m) /\ ~(i + 1 <= 1) /\ i + 1 <= 1 + m
        /\ (i + 1) - 1 = i
    BY <1>1
  <2>2. h[i + 1] = ab[i + 1]
    BY <1>8, <1>9, <2>1
  <2>3. ab[i + 1] = mid[i]
    BY <1>7, <2>1
  <2> QED
    BY <1>6, <2>2, <2>3
<1>12. Len(h) = m + 3
  BY <1>1, <1>8, <1>9
<1>13. h[m + 2] = Fshd(m) /\ h[m + 3] = Lseg
  <2>1. /\ m + 2 \in 1..((1 + m) + 2) /\ ~(m + 2 <= 1 + m) /\ (m + 2) - (1 + m) = 1
        /\ m + 3 \in 1..((1 + m) + 2) /\ ~(m + 3 <= 1 + m) /\ (m + 3) - (1 + m) = 2
    BY <1>1
  <2>2. (ab \o c)[m + 2] = c[1] /\ (ab \o c)[m + 3] = c[2]
    BY <1>8, <2>1
  <2> QED
    BY <1>5, <1>9, <2>2
<1> QED
  BY <1>10, <1>11, <1>12, <1>13 DEF m

\* The image with the first k blocks of the header.
WithHeader(io, h, k, n) ==
  [image |-> [p \in 0..(n - 1) |-> IF p < k THEN h[p + 1] ELSE io.image[p]],
   writable |-> TRUE, ok |-> TRUE]

\* A block of the header is written.
LEMMA HeaderStep ==
  ASSUME NEW n \in Nat, NEW io, NEW h, NEW k \in Nat, k < n, NEW after,
         after = WriteHeaderBlock(WithHeader(io, h, k, n), FALSE, k, h[k + 1])
  PROVE  after = WithHeader(io, h, k + 1, n)
<1> DEFINE w == WithHeader(io, h, k, n)
           u == WithHeader(io, h, k + 1, n)
<1>1. w.ok /\ w.writable /\ k \in DOMAIN w.image
  BY DEF WithHeader
<1>2. after = [w EXCEPT !.image[k] = h[k + 1]]
  BY <1>1 DEF WriteHeaderBlock, adfDevWriteBlock, OnDevice
<1>3. after = [image |-> [w.image EXCEPT ![k] = h[k + 1]], writable |-> TRUE, ok |-> TRUE]
  BY <1>2 DEF WithHeader
<1>4. [w.image EXCEPT ![k] = h[k + 1]] = u.image
  <2>1. w.image = [p \in 0..(n - 1) |-> IF p < k THEN h[p + 1] ELSE io.image[p]]
    BY DEF WithHeader
  <2>2. u.image = [p \in 0..(n - 1) |-> IF p < k + 1 THEN h[p + 1] ELSE io.image[p]]
    BY DEF WithHeader
  <2>3. \A p \in 0..(n - 1) : p < k + 1 <=> p < k \/ p = k
    OBVIOUS
  <2> HIDE DEF w, u
  <2> QED
    BY <2>1, <2>2, <2>3
<1>5. u = [image |-> u.image, writable |-> TRUE, ok |-> TRUE]
  BY DEF WithHeader
<1> HIDE DEF w, u
<1>6. after = u
  BY <1>3, <1>4, <1>5
<1> QED
  BY <1>6 DEF u

\* adfCreateHdHeader on a device that is written writes all of it.
LEMMA HeaderWritten ==
  ASSUME NEW n \in Nat \ {0}, NEW io, IsIO(io, n), io.ok, io.writable, NEW readOnly, ~readOnly,
         readOnly \in BOOLEAN,
         NEW parts, IsLayout(parts), Len(parts) + 2 < n, NEW g,
         NEW after, after = adfCreateHdHeader(io, readOnly, g, parts)
  PROVE  after = WithHeader(io, Header(g, parts), Len(parts) + 3, n)
<1> DEFINE h == Header(g, parts)
           m == Len(h)
           Defines(f) == f = [i \in 0..m |->
             IF i = 0 THEN io ELSE WriteHeaderBlock(f[i - 1], readOnly, i - 1, h[i])]
           written == CHOOSE f : Defines(f)
           v == [i \in 0..m |-> WithHeader(io, h, i, n)]
<1>1. after = written[m]
  BY DEF adfCreateHdHeader
<1>2. m = Len(parts) + 3 /\ m \in Nat /\ m <= n
  BY LayoutParts, HeaderBlocks
<1>3. readOnly = FALSE
  OBVIOUS
<1> HIDE DEF h, m
<1>4. WithHeader(io, h, 0, n) = io
  <2>1. io.image = [p \in 0..(n - 1) |-> io.image[p]]
    BY DEF IsIO, IsImage
  <2>2. io = [image |-> io.image, writable |-> TRUE, ok |-> TRUE]
    BY DEF IsIO
  <2>3. io.image = [p \in 0..(n - 1) |-> IF p < 0 THEN h[p + 1] ELSE io.image[p]]
    BY <2>1
  <2> QED
    BY <2>2, <2>3 DEF WithHeader
<1>5. \A i \in 1..m : v[i] = WriteHeaderBlock(v[i - 1], readOnly, i - 1, h[i])
  <2> SUFFICES ASSUME NEW i \in 1..m
               PROVE  v[i] = WriteHeaderBlock(v[i - 1], readOnly, i - 1, h[i])
    OBVIOUS
  <2>1. i - 1 \in Nat /\ i - 1 < n /\ (i - 1) + 1 = i /\ i \in 0..m /\ i - 1 \in 0..m
    BY <1>2
  <2>2. v[i] = WithHeader(io, h, i, n) /\ v[i - 1] = WithHeader(io, h, i - 1, n)
    BY <2>1
  <2> HIDE DEF v
  <2> DEFINE k == i - 1
  <2>3. k \in Nat /\ k < n /\ k + 1 = i
    BY <2>1
  <2> HIDE DEF k
  <2>4. WriteHeaderBlock(WithHeader(io, h, k, n), FALSE, k, h[k + 1]) = WithHeader(io, h, k + 1, n)
    BY <2>3, HeaderStep
  <2> QED
    BY <1>3, <2>2, <2>3, <2>4 DEF k
<1>6. Defines(v)
  <2>1. v[0] = io
    BY <1>2, <1>4
  <2>2. v = [i \in 0..m |-> v[i]]
    OBVIOUS
  <2>3. \A i \in 0..m : i # 0 => i \in 1..m
    BY <1>2
  <2> HIDE DEF v
  <2> QED
    BY <1>5, <2>1, <2>2, <2>3
<1>7. Defines(written)
  <2> HIDE DEF Defines, v
  <2> QED
    BY <1>6
<1> HIDE DEF written
<1>8. /\ written[0] = io
      /\ \A i \in 1..m : written[i] = WriteHeaderBlock(written[i - 1], readOnly, i - 1, h[i])
  <2>1. \A i \in 0..m : written[i] =
          IF i = 0 THEN io ELSE WriteHeaderBlock(written[i - 1], readOnly, i - 1, h[i])
    BY <1>7
  <2>2. 0 \in 0..m /\ \A i \in 1..m : i \in 0..m /\ i # 0
    BY <1>2
  <2> QED
    BY <2>1, <2>2
<1>9. v[0] = io
  BY <1>2, <1>4
<1>10. \A i \in 0..m : written[i] = v[i]
  <2> HIDE DEF v
  <2> DEFINE A == {k \in Nat : k <= m => written[k] = v[k]}
  <2>1. 0 \in A
    BY <1>8, <1>9
  <2>2. ASSUME NEW k \in Nat, k \in A
        PROVE  k + 1 \in A
    <3>1. k + 1 <= m => k + 1 \in 1..m /\ (k + 1) - 1 = k /\ k <= m
      BY <1>2
    <3> QED
      BY <1>5, <1>8, <2>2, <3>1
  <2> HIDE DEF A
  <2>3. Nat \subseteq A
    BY <2>1, <2>2, Induction
  <2> QED
    BY <1>2, <2>3 DEF A
<1>11. written[m] = WithHeader(io, h, m, n)
  BY <1>2, <1>10
<1> QED
  BY <1>1, <1>2, <1>11 DEF h

-----------------------------------------------------------------------------
(* The partition table                                                      *)

\* The table lists the partitions parts, as far as its blocks were not
\* overwritten.
TableOf(img, n, parts) ==
  /\ IsLayout(parts) /\ IsGeometry(img[0].geometry, n) /\ ApartOn(parts, img[0].geometry)
  /\ img[0].partitionList = 1
  /\ \A i \in 1..Len(parts) :
       img[i].kind = "PART" => img[i] = Partition(parts[i], NextPart(i, Len(parts)))

\* None of them was.
Intact(img, parts) == \A i \in 1..Len(parts) : img[i].kind = "PART"

\* The blocks of the list that are read, j of m partitions.
Chain(j, m) == [i \in 1..(j + 1) |-> IF i <= m THEN i ELSE -1]

\* The list of blocks adfMountHd reads.
PartList(img) ==
  CHOOSE list : list = [k \in Nat |->
    IF k = 0 THEN <<img[0].partitionList>>
    ELSE LET read == list[k - 1] IN
           IF IsPart(img, img[0].geometry.cylBlocks, Last(read))
             THEN Append(read, img[Last(read)].next) ELSE read]

\* The end of such a list, and the list that is longer by one.
LEMMA ChainGrows ==
  ASSUME NEW m \in Nat, NEW j \in 0..m
  PROVE  /\ Chain(j, m) \in Seq(Int) /\ Len(Chain(j, m)) = j + 1
         /\ Last(Chain(j, m)) = IF j < m THEN j + 1 ELSE -1
         /\ j < m => Append(Chain(j, m), NextPart(j + 1, m)) = Chain(j + 1, m)
<1> DEFINE c == Chain(j, m)
           d == Chain(j + 1, m)
<1>1. c = [i \in 1..(j + 1) |-> IF i <= m THEN i ELSE -1]
  BY DEF Chain
<1>2. c \in Seq(Int) /\ Len(c) = j + 1
  BY <1>1
<1>3. c[j + 1] = IF j < m THEN j + 1 ELSE -1
  BY <1>1
<1>4. Last(c) = c[j + 1]
  BY <1>2 DEF Last
<1>5. ASSUME j < m
      PROVE  Append(c, NextPart(j + 1, m)) = d
  <2> DEFINE e == Append(c, NextPart(j + 1, m))
  <2>1. d = [i \in 1..((j + 1) + 1) |-> IF i <= m THEN i ELSE -1]
    BY DEF Chain
  <2>2. NextPart(j + 1, m) = (IF (j + 1) + 1 <= m THEN (j + 1) + 1 ELSE -1)
    BY <1>5 DEF NextPart
  <2>3. NextPart(j + 1, m) \in Int
    BY <2>2
  <2> HIDE DEF c, d
  <2>4. d \in Seq(Int) /\ Len(d) = (j + 1) + 1
    BY <2>1
  <2>5. /\ e \in Seq(Int) /\ Len(e) = (j + 1) + 1
        /\ \A i \in 1..((j + 1) + 1) :
             e[i] = IF i = (j + 1) + 1 THEN NextPart(j + 1, m) ELSE c[i]
    BY <1>2, <2>3
  <2> HIDE DEF e
  <2>6. ASSUME NEW i \in 1..Len(e)
        PROVE  e[i] = d[i]
    <3>1. i \in 1..((j + 1) + 1) /\ d[i] = IF i <= m THEN i ELSE -1
      BY <2>1, <2>5
    <3>2. CASE i = (j + 1) + 1
      BY <2>2, <2>5, <3>1, <3>2
    <3>3. CASE i # (j + 1) + 1
      <4>1. i \in 1..(j + 1)
        BY <3>1, <3>3
      <4> QED
        BY <1>1, <2>5, <3>1, <3>3, <4>1
    <3> QED
      BY <3>2, <3>3
  <2>7. e = d
    BY <2>4, <2>5, <2>6, SeqEqual
  <2> QED
    BY <2>7 DEF e
<1> QED
  BY <1>2, <1>3, <1>4, <1>5

\* How far the list of partitions is read: to the first block that is none.
ReadTo(img, parts, j) ==
  /\ j \in 0..Len(parts)
  /\ \A i \in 1..j : IsPart(img, img[0].geometry.cylBlocks, i)
  /\ j < Len(parts) => ~IsPart(img, img[0].geometry.cylBlocks, j + 1)

\* There is such a block, or the list is read to its end.
LEMMA ReadToSome ==
  ASSUME NEW img, NEW parts, Len(parts) \in Nat
  PROVE  \E j : ReadTo(img, parts, j)
<1> DEFINE m == Len(parts)
           Ok(i) == IsPart(img, img[0].geometry.cylBlocks, i)
           S == {k \in Nat : k >= m \/ ~Ok(k + 1)}
<1> HIDE DEF Ok
<1>1. m \in S
  OBVIOUS
<1>2. PICK j \in S : \A k \in S : j <= k
  BY <1>1, LeastNumber
<1>3. j \in Nat /\ j <= m /\ (j < m => ~Ok(j + 1))
  BY <1>1, <1>2
<1>4. ASSUME NEW i \in 1..j
      PROVE  Ok(i)
  <2>1. i - 1 \in Nat /\ i - 1 < j /\ (i - 1) + 1 = i /\ i - 1 < m
    BY <1>3
  <2>2. i - 1 \notin S
    BY <1>2, <1>3, <2>1
  <2> QED
    BY <2>1, <2>2
<1> QED
  BY <1>3, <1>4 DEF ReadTo, Ok

\* The list that adfMountHd reads of a table.
LEMMA ListIsRead ==
  ASSUME NEW n \in Nat \ {0}, NEW img, IsImage(img, n), NEW parts, TableOf(img, n, parts),
         NEW j, ReadTo(img, parts, j), NEW k \in Nat
  PROVE  PartList(img)[k] = Chain(least(k, j), Len(parts))
<1> DEFINE m == Len(parts)
           cb == img[0].geometry.cylBlocks
           Step(read) == IF IsPart(img, cb, Last(read))
                           THEN Append(read, img[Last(read)].next) ELSE read
           Defines(f) == f = [i \in Nat |->
             IF i = 0 THEN <<img[0].partitionList>> ELSE Step(f[i - 1])]
           g == [i \in Nat |-> Chain(least(i, j), m)]
           list == PartList(img)
<1>1. m \in Nat \ {0} /\ j \in 0..m
  BY LayoutParts DEF TableOf, ReadTo
<1>2. list = CHOOSE f : Defines(f)
  BY DEF PartList
<1>3. Chain(least(0, j), m) = <<img[0].partitionList>>
  <2>1. least(0, j) = 0 /\ img[0].partitionList = 1
    BY <1>1 DEF least, TableOf
  <2>2. Chain(0, m) = <<1>>
    <3>1. Chain(0, m) = [i \in 1..1 |-> IF i <= m THEN i ELSE -1]
      BY DEF Chain
    <3>2. Chain(0, m) \in Seq(Int) /\ Len(Chain(0, m)) = 1
      <4>1. 0 \in 0..m /\ m \in Nat
        BY <1>1
      <4>2. Chain(0, m) \in Seq(Int) /\ Len(Chain(0, m)) = 0 + 1
        BY <4>1, ChainGrows
      <4> QED
        BY <4>2
    <3>3. Chain(0, m)[1] = 1
      BY <1>1, <3>1
    <3>4. <<1>> \in Seq(Int) /\ Len(<<1>>) = 1 /\ <<1>>[1] = 1
      OBVIOUS
    <3> HIDE DEF m
    <3>5. \A i \in 1..Len(Chain(0, m)) : Chain(0, m)[i] = <<1>>[i]
      BY <3>2, <3>3, <3>4
    <3> QED
      BY <3>2, <3>4, <3>5, SeqEqual
  <2> QED
    BY <2>1, <2>2
<1>4. ASSUME NEW i \in Nat \ {0}
      PROVE  Chain(least(i, j), m) = Step(Chain(least(i - 1, j), m))
  <2> DEFINE h == least(i - 1, j)
             c == Chain(h, m)
  <2>1. h \in 0..m /\ h <= j
    BY <1>1 DEF least
  <2>2. Last(c) = IF h < m THEN h + 1 ELSE -1
    BY <1>1, <2>1, ChainGrows
  <2>3. CASE i <= j
    <3>1. h = i - 1 /\ least(i, j) = i /\ h < m /\ h + 1 = i
      BY <1>1, <2>3 DEF least
    <3>2. IsPart(img, cb, i)
      BY <2>3 DEF ReadTo
    <3>3. img[i].next = NextPart(i, m)
      <4>1. img[i].kind = "PART" /\ i \in 1..m
        BY <1>1, <2>3, <3>2 DEF IsPart
      <4>2. img[i] = Partition(parts[i], NextPart(i, m))
        BY <4>1 DEF TableOf
      <4> QED
        BY <4>2 DEF Partition
    <3>4. Last(c) = i
      BY <2>2, <3>1
    <3> HIDE DEF h
    <3>5. Append(c, NextPart(h + 1, m)) = Chain(h + 1, m)
      BY <1>1, <2>1, <3>1, ChainGrows
    <3> HIDE DEF c
    <3>6. Step(c) = Append(c, NextPart(i, m))
      BY <3>2, <3>3, <3>4
    <3> HIDE DEF Step
    <3> QED
      BY <3>1, <3>5, <3>6 DEF c, h
  <2>4. CASE ~(i <= j)
    <3>1. h = j /\ least(i, j) = j
      BY <1>1, <2>4 DEF least
    <3>2. ~IsPart(img, cb, Last(c))
      <4>1. CASE j < m
        BY <2>2, <3>1, <4>1 DEF ReadTo
      <4>2. CASE ~(j < m)
        <5>1. Last(c) = -1
          BY <1>1, <2>2, <3>1, <4>2
        <5>2. -1 \notin DOMAIN img
          BY DEF IsImage
        <5> QED
          BY <5>1, <5>2 DEF IsPart
      <4> QED
        BY <4>1, <4>2
    <3> HIDE DEF c
    <3>3. Step(c) = c
      BY <3>2
    <3> HIDE DEF Step
    <3> QED
      BY <3>1, <3>3 DEF c
  <2> QED
    BY <2>3, <2>4
<1> HIDE DEF Step
<1>5. Defines(g)
  <2>1. g[0] = <<img[0].partitionList>>
    BY <1>3
  <2>2. ASSUME NEW i \in Nat \ {0}
        PROVE  g[i] = Step(g[i - 1])
    BY <1>4
  <2>3. g = [i \in Nat |-> g[i]]
    OBVIOUS
  <2> HIDE DEF g
  <2> QED
    BY <2>1, <2>2, <2>3
<1>6. Defines(list)
  <2> HIDE DEF Defines, g, list
  <2> QED
    BY <1>2, <1>5
<1> HIDE DEF list
<1>7. /\ list[0] = <<img[0].partitionList>>
      /\ \A i \in Nat : list[i + 1] = Step(list[i])
  <2>1. \A i \in Nat : list[i] = IF i = 0 THEN <<img[0].partitionList>> ELSE Step(list[i - 1])
    BY <1>6
  <2>2. \A i \in Nat : i + 1 \in Nat /\ i + 1 # 0 /\ (i + 1) - 1 = i
    OBVIOUS
  <2> QED
    BY <2>1, <2>2
<1> DEFINE A == {i \in Nat : list[i] = Chain(least(i, j), m)}
<1>8. 0 \in A
  BY <1>3, <1>7
<1>9. ASSUME NEW i \in Nat, i \in A
      PROVE  i + 1 \in A
  <2>1. i + 1 \in Nat \ {0} /\ (i + 1) - 1 = i
    OBVIOUS
  <2>2. Chain(least(i + 1, j), m) = Step(Chain(least(i, j), m))
    BY <1>4, <2>1
  <2> QED
    BY <1>7, <1>9, <2>1, <2>2
<1>10. k \in A
  <2> HIDE DEF A
  <2>1. \A i \in Nat : i \in A => i + 1 \in A
    BY <1>9
  <2>2. Nat \subseteq A
    BY <1>8, <2>1, Induction
  <2> QED
    BY <2>2
<1> QED
  BY <1>10 DEF list

\* A partition is read as the range of blocks it was made of, with its root
\* block if there is a boot block.
LEMMA PartitionRead ==
  ASSUME NEW c \in Nat \ {0}, NEW next, NEW img,
         NEW part, part.start \in Nat, part.len \in Nat \ {0},
         NEW v, v = NewVolume(c, part.start, part.len),
         NEW u, u = PartVolume(img, c, Partition(part, next))
  PROVE  /\ u = Volume(v.first, v.last, u.root) /\ u.root \in {v.root, -1}
         /\ IsDos(img[v.first]) => u = v
<1> DEFINE first == c * part.start
           last  == c * (part.start + part.len) - 1
           high  == part.start + part.len - 1
<1>1. Partition(part, next).lowCyl = part.start /\ Partition(part, next).highCyl = high
  BY DEF Partition
<1>2. high + 1 = part.start + part.len /\ part.start + part.len \in Nat
  OBVIOUS
<1>3. (high + 1) * c - 1 = last
  <2> HIDE DEF high
  <2> QED
    BY <1>2
<1>4. c * part.start + c * part.len - 1 = last
  <2>1. c * (part.start + part.len) = c * part.start + c * part.len
    BY TimesSum
  <2> QED
    BY <2>1
<1>5. v = Volume(first, last, adfVolCalcRootBlk(first, last))
  BY <1>4 DEF NewVolume
<1> HIDE DEF high, last
<1>6. u = Volume(first, last, IF IsDos(img[first]) THEN adfVolCalcRootBlk(first, last) ELSE -1)
  BY <1>1, <1>3 DEF PartVolume
<1>7. v.first = first /\ v.last = last /\ v.root = adfVolCalcRootBlk(first, last)
  BY <1>5 DEF Volume
<1>8. u.root = IF IsDos(img[first]) THEN adfVolCalcRootBlk(first, last) ELSE -1
  BY <1>6 DEF Volume
<1> QED
  BY <1>5, <1>6, <1>7, <1>8

\* What the blocks of the partitions mean.
PartsFound(img, parts) ==
  [i \in 1..Len(parts) |-> PartVolume(img, img[0].geometry.cylBlocks,
                                      Partition(parts[i], NextPart(i, Len(parts))))]

\* adfMountHd finds all partitions, or fails.
LEMMA HardDiskRead ==
  ASSUME NEW n \in Nat \ {0}, n < Modulus, NEW img, IsImage(img, n), IsRdsk(img[0]),
         NEW parts, TableOf(img, n, parts)
  PROVE  /\ adfMountHd(img) # Failed => adfMountHd(img) = PartsFound(img, parts)
         /\ Intact(img, parts) => adfMountHd(img) = PartsFound(img, parts)
<1> DEFINE m == Len(parts)
           g == img[0].geometry
           list == PartList(img)[Size(img)]
           vs == [i \in 1..m |-> NewVolume(g.cylBlocks, parts[i].start, parts[i].len)]
<1>1. /\ IsLayout(parts) /\ IsGeometry(g, n) /\ ApartOn(parts, g)
      /\ m \in Nat \ {0} /\ \A i \in 1..m : parts[i].start \in Nat /\ parts[i].len \in Nat \ {0}
      /\ g.cylBlocks \in Nat \ {0}
  BY LayoutParts DEF TableOf, IsGeometry
<1>2. m + 2 < n /\ \A i \in 1..m : InImage(vs[i], n)
  <2>1. IsVolumesOf(vs, parts, g)
    BY DEF IsVolumesOf
  <2> HIDE DEF vs, g
  <2> QED
    BY <1>1, <2>1, PartitionRanges
<1>3. Size(img) = n /\ DOMAIN img = 0..(n - 1)
  BY ImageSize
<1>4. PICK j : ReadTo(img, parts, j)
  BY <1>1, ReadToSome
<1>5. j \in 0..m /\ least(n, j) = j
  BY <1>1, <1>2, <1>4 DEF ReadTo, least
<1>6. list = Chain(j, m)
  <2>1. PartList(img)[n] = Chain(least(n, j), m)
    BY <1>4, ListIsRead
  <2> QED
    BY <1>3, <1>5, <2>1
<1>7. /\ list \in Seq(Int) /\ Len(list) = j + 1
      /\ Last(list) = IF j < m THEN j + 1 ELSE -1
  <2>1. m \in Nat
    BY <1>1
  <2> HIDE DEF list, m, g
  <2>2. /\ Chain(j, m) \in Seq(Int) /\ Len(Chain(j, m)) = j + 1
        /\ Last(Chain(j, m)) = IF j < m THEN j + 1 ELSE -1
    BY <1>5, <2>1, ChainGrows
  <2> QED
    BY <1>6, <2>2
<1>8. adfMountHd(img) =
        IF IsRdsk(img[0]) /\ Last(list) = -1
          THEN [i \in 1..(Len(list) - 1) |-> PartVolume(img, g.cylBlocks, img[list[i]])]
          ELSE Failed
  BY DEF adfMountHd, PartList
<1>9. ASSUME Intact(img, parts)
      PROVE  ~(j < m)
  <2> SUFFICES ASSUME j < m PROVE FALSE
    OBVIOUS
  <2>1. j + 1 \in 1..m /\ ~IsPart(img, g.cylBlocks, j + 1)
    BY <1>4, <1>5 DEF ReadTo
  <2> DEFINE i == j + 1
  <2>2. i \in DOMAIN img /\ img[i].kind = "PART"
    BY <1>1, <1>2, <1>3, <1>9, <2>1 DEF Intact
  <2>3. img[i].lowCyl = parts[i].start
    <3>1. img[i] = Partition(parts[i], NextPart(i, m))
      BY <2>1, <2>2 DEF TableOf
    <3> QED
      BY <3>1 DEF Partition
  <2>4. g.cylBlocks * parts[i].start = vs[i].first
    BY <2>1 DEF NewVolume, Volume
  <2>5. vs[i].first \in DOMAIN img
    <3>1. InImage(vs[i], n)
      BY <1>2, <2>1
    <3> HIDE DEF vs
    <3> QED
      BY <1>3, <3>1 DEF InImage
  <2> QED
    BY <2>1, <2>2, <2>3, <2>4, <2>5 DEF IsPart
<1> HIDE DEF list, g
<1>10. CASE j < m
  <2>1. Last(list) # -1
    BY <1>1, <1>5, <1>7, <1>10
  <2> QED
    BY <1>8, <1>9, <1>10, <2>1
<1>11. CASE ~(j < m)
  <2>1. j = m /\ Last(list) = -1 /\ Len(list) - 1 = m
    BY <1>1, <1>5, <1>7, <1>11
  <2>2. ASSUME NEW i \in 1..m
        PROVE  img[list[i]] = Partition(parts[i], NextPart(i, m))
    <3>1. list[i] = i
      BY <1>1, <1>6, <2>1 DEF Chain
    <3>2. img[i].kind = "PART"
      BY <1>4, <2>1 DEF ReadTo, IsPart
    <3> QED
      BY <3>1, <3>2 DEF TableOf
  <2>3. adfMountHd(img) = [i \in 1..m |-> PartVolume(img, g.cylBlocks, img[list[i]])]
    BY <1>8, <2>1
  <2>4. adfMountHd(img) = PartsFound(img, parts)
    BY <2>2, <2>3 DEF PartsFound, g
  <2> QED
    BY <2>4
<1> QED
  BY <1>10, <1>11

-----------------------------------------------------------------------------
(* Reading a volume that stands                                             *)

\* A volume without extension blocks.
LEMMA NoExtensions ==
  ASSUME NEW img, NEW v, BitmapSize(v) \in Nat
  PROVE  ExtChain(img, v, 0) = <<>>
<1> DEFINE block(s) == adfVolReadBlock(img, v, s)
           Next1(c) == IF c = <<>> THEN c
                       ELSE IF ~IsExt(block(Last(c))) \/ block(Last(c)).next = 0 THEN c
                       ELSE Append(c, block(Last(c)).next)
           Defines(f) == f = [k \in Nat |->
             IF k = 0 THEN IF 0 = 0 THEN <<>> ELSE <<0>> ELSE Next1(f[k - 1])]
           chain == CHOOSE f : Defines(f)
           A == {k \in Nat : chain[k] = <<>>}
<1>1. ExtChain(img, v, 0) = chain[BitmapSize(v)]
  BY DEF ExtChain
<1>2. Next1(<<>>) = <<>>
  OBVIOUS
<1> HIDE DEF Next1
<1>3. Defines([k \in Nat |-> <<>>])
  BY <1>2
<1>4. Defines(chain)
  <2> HIDE DEF Defines
  <2> QED
    BY <1>3
<1> HIDE DEF chain
<1>5. 0 \in A
  BY <1>4
<1>6. ASSUME NEW k \in Nat, k \in A
      PROVE  k + 1 \in A
  <2>1. k + 1 \in Nat /\ k + 1 # 0 /\ (k + 1) - 1 = k
    OBVIOUS
  <2>2. chain[k + 1] = Next1(chain[(k + 1) - 1])
    BY <1>4, <2>1
  <2> QED
    BY <1>2, <1>6, <2>1, <2>2
<1>7. BitmapSize(v) \in A
  <2> HIDE DEF A
  <2>1. \A k \in Nat : k \in A => k + 1 \in A
    BY <1>6
  <2>2. Nat \subseteq A
    BY <1>5, <2>1, Induction
  <2> QED
    BY <2>2
<1> QED
  BY <1>1, <1>7

\* A sequence of numbers without repetition, and its elements.
Distinct(s, X) == s \in Seq(Nat) /\ IsInjective(s) /\ ToSet(s) = X

\* Two of them with no element in common, one behind the other.
LEMMA DistinctConcat ==
  ASSUME NEW s, NEW X, Distinct(s, X), NEW t, NEW Y, Distinct(t, Y), X \cap Y = {}
  PROVE  Distinct(s \o t, X \cup Y)
<1> DEFINE u == s \o t
           a == Len(s)
           b == Len(t)
<1>1. s \in Seq(Nat) /\ t \in Seq(Nat)
  BY DEF Distinct
<1>2. a \in Nat /\ b \in Nat /\ DOMAIN s = 1..a /\ DOMAIN t = 1..b
  BY <1>1, LenProperties
<1>3. /\ u \in Seq(Nat) /\ Len(u) = a + b
      /\ \A i \in 1..(a + b) : u[i] = IF i <= a THEN s[i] ELSE t[i - a]
  BY <1>1, ConcatProperties
<1>4. DOMAIN u = 1..(a + b)
  BY <1>3, LenProperties
<1>5. (\A i \in 1..a : s[i] \in X) /\ (\A i \in 1..b : t[i] \in Y)
  BY <1>2 DEF Distinct, ToSet
<1>6. /\ \A i, j \in 1..a : s[i] = s[j] => i = j
      /\ \A i, j \in 1..b : t[i] = t[j] => i = j
  BY <1>2 DEF Distinct, IsInjective
<1> HIDE DEF u, a, b
<1>7. \A i \in 1..(a + b) : \/ i \in 1..a /\ u[i] = s[i] /\ u[i] \in X
                            \/ i - a \in 1..b /\ u[i] = t[i - a] /\ u[i] \in Y
  BY <1>2, <1>3, <1>5
<1>8. \A i, j \in 1..(a + b) : u[i] = u[j] => i = j
  <2> SUFFICES ASSUME NEW i \in 1..(a + b), NEW j \in 1..(a + b), u[i] = u[j]
               PROVE  i = j
    OBVIOUS
  <2>1. CASE i \in 1..a /\ u[i] = s[i] /\ u[i] \in X
    <3>1. j \in 1..a /\ u[j] = s[j]
      BY <1>7, <2>1
    <3> QED
      BY <1>6, <2>1, <3>1
  <2>2. CASE i - a \in 1..b /\ u[i] = t[i - a] /\ u[i] \in Y
    <3>1. j - a \in 1..b /\ u[j] = t[j - a]
      BY <1>7, <2>2
    <3>2. i - a = j - a
      BY <1>6, <2>2, <3>1
    <3> QED
      BY <1>2, <3>2
  <2> QED
    BY <1>7, <2>1, <2>2
<1>9. ToSet(u) = X \cup Y
  <2>1. ToSet(u) \subseteq X \cup Y
    BY <1>4, <1>7 DEF ToSet
  <2>2. \A i \in 1..a : i \in 1..(a + b) /\ u[i] = s[i]
    BY <1>2, <1>3
  <2>3. X \subseteq ToSet(u)
    BY <1>2, <1>4, <2>2 DEF Distinct, ToSet
  <2>4. \A i \in 1..b : i + a \in 1..(a + b) /\ u[i + a] = t[i]
    <3> SUFFICES ASSUME NEW i \in 1..b
                 PROVE  i + a \in 1..(a + b) /\ u[i + a] = t[i]
      OBVIOUS
    <3>1. i + a \in 1..(a + b) /\ ~(i + a <= a) /\ (i + a) - a = i
      BY <1>2
    <3> QED
      BY <1>3, <3>1
  <2>5. Y \subseteq ToSet(u)
    BY <1>2, <1>4, <2>4 DEF Distinct, ToSet
  <2> QED
    BY <2>1, <2>3, <2>5
<1>10. IsInjective(u)
  BY <1>4, <1>8 DEF IsInjective
<1>11. Distinct(u, X \cup Y)
  BY <1>3, <1>9, <1>10 DEF Distinct
<1> QED
  BY <1>11 DEF u

\* The pages of a volume that stands, as they are read again.
LEMMA PagesRead ==
  ASSUME NEW n, NEW v, InImage(v, n), NEW img, IsImage(img, n),
         NEW pages, NEW cache, NEW free, VolumeIs(img, v, pages, cache, free),
         NEW root, root = adfVolReadBlock(img, v, v.root)
  PROVE  /\ root = Root(pages, 0, cache, "valid")
         /\ ExtChain(img, v, root.ext) = <<>>
         /\ PageList(img, v, root) = pages
         /\ \A i \in 1..Len(pages) :
              /\ pages[i] \in 2..(v.last - v.first)
              /\ adfVolReadBlock(img, v, pages[i]) = Page(Bits(free, i - 1))
<1> DEFINE L == v.last - v.first
<1>1. /\ L >= 3 /\ pages \in Seq(2..L) /\ Len(pages) = BitmapSize(v)
      /\ img[v.first + v.root] = Root(pages, 0, cache, "valid")
      /\ \A i \in 1..Len(pages) : img[v.first + pages[i]] = Page(Bits(free, i - 1))
  BY DEF VolumeIs
<1>2. v.root \in BlocksOf(v)
  <2>1. v.root \in 2..(v.last - v.first)
    BY <1>1, RootInside
  <2> QED
    BY <2>1 DEF BlocksOf
<1>3. root = Root(pages, 0, cache, "valid")
  BY <1>1, <1>2, ReadInside
<1>4. root.ext = 0 /\ root.pages = pages
  BY <1>3 DEF Root
<1>5. BitmapSize(v) \in Nat
  BY <1>1, LenProperties
<1>6. ExtChain(img, v, root.ext) = <<>>
  BY <1>4, <1>5, NoExtensions
<1> HIDE DEF L
<1>7. PageList(img, v, root) = pages
  <2> DEFINE Listed1(k) == LET b == adfVolReadBlock(img, v, <<>>[k]) IN
                             IF IsExt(b) THEN b.pages ELSE <<>>
             tail == FlattenSeq([k \in 1..Len(<<>>) |-> Listed1(k)])
  <2>1. PageList(img, v, root) =
          SubSeq(pages \o tail, 1, least(BitmapSize(v), Len(pages \o tail)))
    BY <1>4, <1>6 DEF PageList
  <2>2. tail = <<>>
    <3>1. Len(<<>>) = 0
      BY EmptySeq
    <3>2. [k \in 1..Len(<<>>) |-> Listed1(k)] = <<>>
      BY <3>1
    <3> QED
      BY <3>1, <3>2 DEF FlattenSeq
  <2> HIDE DEF tail
  <2>3. pages \o tail = pages
    BY <1>1, <2>2, ConcatEmptySeq
  <2>4. least(BitmapSize(v), Len(pages)) = Len(pages)
    BY <1>1, <1>5 DEF least
  <2>5. SubSeq(pages, 1, Len(pages)) = pages
    BY <1>1, SubSeqFull
  <2> QED
    BY <2>1, <2>3, <2>4, <2>5
<1>8. ASSUME NEW i \in 1..Len(pages)
      PROVE  /\ pages[i] \in 2..L
             /\ adfVolReadBlock(img, v, pages[i]) = Page(Bits(free, i - 1))
  <2>1. pages[i] \in 2..L
    BY <1>1, ElementOfSeq
  <2>2. pages[i] \in BlocksOf(v)
    BY <2>1 DEF BlocksOf, L
  <2>3. adfVolReadBlock(img, v, pages[i]) = img[v.first + pages[i]]
    BY <2>2, ReadInside
  <2> QED
    BY <1>1, <2>1, <2>3
<1> QED
  BY <1>3, <1>6, <1>7, <1>8 DEF L

\* What VolumesSound says of a volume.
Sound(v) ==
  /\ Mountable(image, v) /\ Consistent(image, v)
  /\ IsInjective(SystemList(v))
  /\ LET free == FreeOnDisk(image, v, adfVolReadBlock(image, v, v.root)) IN
       /\ ToSet(SystemList(v)) \cap free = {}
       /\ v.first = 0 => 0..v.last \subseteq free \cup ToSet(SystemList(v))

\* A page is read as a page.
LEMMA PageIsRead ==
  ASSUME NEW bits
  PROVE  PageBitsOf(Page(bits)) = bits /\ IsPage(Page(bits))
BY DEF PageBitsOf, Page, IsPage

\* The blocks that a volume that stands says are free, and those of its system
\* list.
LEMMA BlocksRead ==
  ASSUME NEW n, NEW v, InImage(v, n), IsImage(image, n),
         NEW pages, NEW cache, NEW free, VolumeIs(image, v, pages, cache, free),
         NEW root, root = adfVolReadBlock(image, v, v.root)
  PROVE  /\ FreeOnDisk(image, v, root) = free
         /\ Distinct(SystemList(v), {0, 1, v.root} \cup ToSet(pages)
                                      \cup (IF cache = 0 THEN {} ELSE {cache}))
<1>1. /\ root = Root(pages, 0, cache, "valid")
      /\ ExtChain(image, v, root.ext) = <<>>
      /\ PageList(image, v, root) = pages
      /\ \A i \in 1..Len(pages) :
           /\ pages[i] \in 2..(v.last - v.first)
           /\ adfVolReadBlock(image, v, pages[i]) = Page(Bits(free, i - 1))
  BY PagesRead
<1>2. /\ v.last - v.first >= 3 /\ pages \in Seq(2..(v.last - v.first))
      /\ Len(pages) = BitmapSize(v)
      /\ \A i, j \in 1..Len(pages) : pages[i] = pages[j] => i = j
      /\ \A i \in 1..Len(pages) : pages[i] # v.root /\ pages[i] # cache /\ pages[i] \notin free
      /\ cache = 0 \/ cache \in 2..(v.last - v.first)
      /\ cache # v.root /\ free \subseteq 2..(v.last - v.first)
  BY DEF VolumeIs
<1>3. v.root \in 2..(v.last - v.first)
  BY <1>2, RootInside
<1>4. FreeOnDisk(image, v, root) = free
  <2>1. FreeOnDisk(image, v, root) =
          FreeOn(v, [i \in 1..Len(pages) |-> PageBitsOf(adfVolReadBlock(image, v, pages[i]))])
    BY <1>1 DEF FreeOnDisk
  <2>2. \A i \in 1..Len(pages) :
          PageBitsOf(adfVolReadBlock(image, v, pages[i])) = Bits(free, i - 1)
    BY <1>1, PageIsRead
  <2>3. [i \in 1..Len(pages) |-> PageBitsOf(adfVolReadBlock(image, v, pages[i]))]
          = [i \in 1..BitmapSize(v) |-> Bits(free, i - 1)]
    BY <1>2, <2>2
  <2>4. IsRange(v)
    BY BlockAssumption DEF InImage, IsRange
  <2>5. free \cap (2..(v.last - v.first)) = free
    BY <1>2
  <2> QED
    BY <2>1, <2>3, <2>4, <2>5, BitmapReadAsWritten
<1>5. Distinct(<<0, 1, v.root>>, {0, 1, v.root})
  <2> DEFINE s == <<0, 1, v.root>>
  <2>1. s \in Seq(Nat) /\ DOMAIN s = 1..3 /\ s[1] = 0 /\ s[2] = 1 /\ s[3] = v.root
    BY <1>3
  <2>2. 1..3 = {1, 2, 3} /\ v.root # 0 /\ v.root # 1
    BY <1>3
  <2> HIDE DEF s
  <2>3. IsInjective(s)
    BY <2>1, <2>2 DEF IsInjective
  <2>4. ToSet(s) = {0, 1, v.root}
    BY <2>1, <2>2 DEF ToSet
  <2>5. Distinct(s, {0, 1, v.root})
    BY <2>1, <2>3, <2>4 DEF Distinct
  <2> QED
    BY <2>5 DEF s
<1>6. Distinct(pages, ToSet(pages))
  <2>1. DOMAIN pages = 1..Len(pages)
    BY <1>2, LenProperties
  <2>2. pages \in Seq(Nat)
    <3>1. 2..(v.last - v.first) \subseteq Nat
      OBVIOUS
    <3> QED
      BY <1>2, <3>1, SeqMonotonic, Zenon
  <2>3. IsInjective(pages)
    BY <1>2, <2>1 DEF IsInjective
  <2> QED
    BY <2>2, <2>3 DEF Distinct
<1>7. ToSet(pages) \subseteq {pages[i] : i \in 1..Len(pages)}
  <2>1. DOMAIN pages = 1..Len(pages)
    BY <1>2, LenProperties
  <2> QED
    BY <2>1 DEF ToSet
<1>8. Distinct(<<0, 1, v.root>> \o pages, {0, 1, v.root} \cup ToSet(pages))
  <2>1. {0, 1, v.root} \cap ToSet(pages) = {}
    BY <1>1, <1>2, <1>7
  <2> QED
    BY <1>5, <1>6, <2>1, DistinctConcat
<1> DEFINE last == IF cache = 0 THEN <<>> ELSE <<cache>>
           X == IF cache = 0 THEN {} ELSE {cache}
<1>9. Distinct(last, X)
  <2>1. CASE cache = 0
    <3>1. <<>> \in Seq(Nat) /\ DOMAIN <<>> = {}
      OBVIOUS
    <3> QED
      BY <2>1, <3>1 DEF Distinct, IsInjective, ToSet
  <2>2. CASE cache # 0
    <3> DEFINE s == <<cache>>
    <3>1. s \in Seq(Nat) /\ DOMAIN s = 1..1 /\ s[1] = cache
      BY <1>2, <2>2
    <3>2. 1..1 = {1}
      OBVIOUS
    <3> HIDE DEF s
    <3>3. IsInjective(s) /\ ToSet(s) = {cache}
      BY <3>1, <3>2 DEF IsInjective, ToSet
    <3>4. last = s /\ X = {cache}
      BY <2>2 DEF s
    <3> QED
      BY <3>1, <3>3, <3>4 DEF Distinct
  <2> QED
    BY <2>1, <2>2
<1>10. SystemList(v) = (<<0, 1, v.root>> \o pages) \o last
  <2>1. root.cache = cache
    BY <1>1 DEF Root
  <2>2. SystemList(v) = ((<<0, 1, v.root>> \o pages) \o <<>>) \o last
    BY <1>1, <2>1 DEF SystemList
  <2>3. <<0, 1, v.root>> \o pages \in Seq(Nat)
    BY <1>8 DEF Distinct
  <2>4. (<<0, 1, v.root>> \o pages) \o <<>> = <<0, 1, v.root>> \o pages
    BY <2>3, ConcatEmptySeq
  <2> QED
    BY <2>2, <2>4
<1>11. ({0, 1, v.root} \cup ToSet(pages)) \cap X = {}
  <2>1. cache # 0 => cache # 1 /\ cache # v.root /\ cache \notin ToSet(pages)
    BY <1>2, <1>7
  <2> QED
    BY <2>1
<1>12. Distinct((<<0, 1, v.root>> \o pages) \o last, ({0, 1, v.root} \cup ToSet(pages)) \cup X)
  <2> HIDE DEF last, X
  <2> QED
    BY <1>8, <1>9, <1>11, DistinctConcat
<1> QED
  BY <1>4, <1>10, <1>12

\* A volume that stands is sound.
LEMMA StandsIsSound ==
  ASSUME NEW n, NEW v, InImage(v, n), IsImage(image, n), VolumeStands(image, v)
  PROVE  Sound(v)
<1> DEFINE root == adfVolReadBlock(image, v, v.root)
<1>1. PICK pages, cache, free : VolumeIs(image, v, pages, cache, free)
  BY DEF VolumeStands
<1>2. /\ root = Root(pages, 0, cache, "valid")
      /\ PageList(image, v, root) = pages
      /\ \A i \in 1..Len(pages) :
           /\ pages[i] \in 2..(v.last - v.first)
           /\ adfVolReadBlock(image, v, pages[i]) = Page(Bits(free, i - 1))
  BY <1>1, PagesRead
<1> DEFINE X == {0, 1, v.root} \cup ToSet(pages) \cup (IF cache = 0 THEN {} ELSE {cache})
<1>3. FreeOnDisk(image, v, root) = free /\ Distinct(SystemList(v), X)
  BY <1>1, BlocksRead
<1>4. /\ v.last - v.first >= 3 /\ Len(pages) = BitmapSize(v)
      /\ pages \in Seq(2..(v.last - v.first))
      /\ \A i \in 1..Len(pages) : pages[i] \notin free
      /\ cache \notin free /\ v.root \notin free
      /\ free \subseteq 2..(v.last - v.first)
      /\ v.first = 0 => 2..v.last \subseteq free \cup ToSet(pages) \cup {v.root, cache}
  BY <1>1 DEF VolumeIs
<1> HIDE DEF root
<1>5. Mountable(image, v)
  <2>1. v.root >= 0
    BY <1>4, RootInside
  <2>2. IsRoot(root)
    BY <1>2 DEF IsRoot, Root
  <2>3. adfReadBitmap(image, v, root)
    <3>1. \A i \in 1..Len(pages) : adfVolIsSectNumValid(v, pages[i])
      BY <1>2 DEF adfVolIsSectNumValid, InImage
    <3>2. \A i \in 1..Len(pages) : IsPage(adfVolReadBlock(image, v, pages[i]))
      BY <1>2, PageIsRead
    <3> QED
      BY <1>2, <1>4, <3>1, <3>2 DEF adfReadBitmap
  <2> QED
    BY <2>1, <2>2, <2>3 DEF Mountable, root
<1>6. Consistent(image, v)
  <2>1. root.bmFlag = "valid"
    BY <1>2 DEF Root
  <2> QED
    BY <2>1 DEF Consistent, root
<1>7. ToSet(SystemList(v)) = X /\ IsInjective(SystemList(v))
  BY <1>3 DEF Distinct
<1>8. X \cap free = {}
  <2>1. ToSet(pages) \cap free = {}
    <3>1. DOMAIN pages = 1..Len(pages)
      BY <1>4, LenProperties
    <3> QED
      BY <1>4, <3>1 DEF ToSet
  <2>2. 0 \notin free /\ 1 \notin free
    BY <1>4
  <2> QED
    BY <1>4, <2>1, <2>2
<1>9. v.first = 0 => 0..v.last \subseteq free \cup X
  <2> SUFFICES ASSUME v.first = 0, NEW s \in 0..v.last
               PROVE  s \in free \cup X
    OBVIOUS
  <2>1. s = 0 \/ s = 1 \/ s \in 2..v.last
    BY DEF InImage
  <2>2. s \in 2..v.last => s \in free \cup X \cup {cache}
    BY <1>4
  <2>3. cache \in X \/ cache = 0
    OBVIOUS
  <2> QED
    BY <2>1, <2>2, <2>3
<1> HIDE DEF X
<1> QED
  BY <1>3, <1>5, <1>6, <1>7, <1>8, <1>9 DEF Sound, root

-----------------------------------------------------------------------------
(* The invariant: what images, devices and the volumes that were made are    *)

\* Programs with all habits, on devices whose block numbers fit into 32 bits.
CarefulDevices ==
  /\ HabitKinds \subseteq Habits
  /\ InstallRoot < Modulus
  /\ \A g \in Geometries : g.cylinders * g.cylBlocks < Modulus

Classes == {"floppy", "hardfile", "harddisk"}

\* A rigid disk block is followed by the blocks of a table, as far as they were
\* not overwritten.
TableFits(img, n) == IsRdsk(img[0]) => \E parts : TableOf(img, n, parts)

\* Boot blocks name a root block by a number of 32 bits.
BootsFit(img, n) ==
  \A p \in 0..(n - 1) : img[p].kind = "boot" => img[p].root \in 0..(Modulus - 1)

ImageFits(img) ==
  /\ Size(img) \in Nat \ {0} /\ Size(img) < Modulus
  /\ IsImage(img, Size(img))
  /\ TableFits(img, Size(img)) /\ BootsFit(img, Size(img))

\* Ranges of an image of n blocks that a device of the class may have.
RangesFit(vs, class, n) ==
  /\ vs \in Seq(Volumes(n)) /\ NoneOverlap(vs, Len(vs))
  /\ \A i \in 1..Len(vs) : vs[i].first <= vs[i].last
  /\ class = "harddisk" => \A i \in 1..Len(vs) : vs[i].first > Len(vs) + 2

RangesOf(list) == [i \in 1..Len(list) |-> list[i].range]

Entries(n) == [range : Volumes(n), mounted : BOOLEAN, readOnly : BOOLEAN]

\* A device that is open with an image of n blocks.
DeviceFits(d, n) ==
  /\ d = [open |-> TRUE, driver |-> d.driver, geometry |-> d.geometry, class |-> d.class,
          readOnly |-> d.readOnly, writable |-> d.writable,
          mounted |-> d.mounted, volList |-> d.volList]
  /\ d.driver \in {"dump", "ramdisk"} /\ d.class \in Classes
  /\ d.readOnly \in BOOLEAN /\ d.mounted \in BOOLEAN /\ d.writable = ~d.readOnly
  /\ d.driver = "ramdisk" => ~d.readOnly
  /\ d.class = "floppy" => ClassBySize(n) = "floppy"
  /\ IsGeometry(d.geometry, n)
  /\ ~d.mounted => d.volList = <<>>
  /\ d.volList \in Seq(Entries(n)) /\ RangesFit(RangesOf(d.volList), d.class, n)

\* The volume that takes all blocks.
Whole(n) == Volume(0, n - 1, n \div 2)

\* The boot block of such a volume does not lead to another root block.
BootLeads(img, n) ==
  LET root == img[0].root IN
    \/ root = n \div 2
    \/ ~(root > 1 /\ IsRoot(adfVolReadBlock(img, Volume(0, n - 1, root), root)))

SingleFits(img, mk) ==
  /\ mk = <<Whole(Size(img))>>
  /\ VolumeStands(img, Whole(Size(img))) /\ BootLeads(img, Size(img))

PartsFit(img, mk, parts) ==
  /\ IsRdsk(img[0]) /\ TableOf(img, Size(img), parts) /\ Intact(img, parts)
  /\ mk = [i \in 1..Len(parts) |-> NewVolume(img[0].geometry.cylBlocks, parts[i].start, parts[i].len)]
  /\ \A i \in 1..Len(parts) : VolumeStands(img, mk[i])

\* The volumes mk that were made, when the image is opened with the class.
MadeOn(img, mk, class) ==
  \/ /\ class \in {"floppy", "hardfile"}
     /\ class = "hardfile" => Size(img) % 2 = 0
     /\ SingleFits(img, mk)
  \/ /\ class = "harddisk"
     /\ \E parts : PartsFit(img, mk, parts)

MadeFits(img, d, mk) ==
  mk # <<>> =>
    /\ MadeOn(img, mk, ClassOf(img))
    /\ d # Closed => MadeOn(img, mk, d.class)
    /\ d # Closed /\ d.mounted => RangesOf(d.volList) = mk

Fits(img, d, mk) ==
  /\ ImageFits(img) /\ MadeFits(img, d, mk)
  /\ d = Closed \/ DeviceFits(d, Size(img))

DeviceInv ==
  \/ image = NoImage /\ dev = Closed /\ made = <<>>
  \/ Fits(image, dev, made)

-----------------------------------------------------------------------------
(* Images that fit                                                          *)

\* What is written through volumes leaves an image that fits.
LEMMA SpoiledFits ==
  ASSUME NEW io, ImageFits(io.image), NEW n, n = Size(io.image),
         NEW after, Spoils(io, after, n)
  PROVE  ImageFits(after.image) /\ Size(after.image) = n
<1> DEFINE old == io.image
           img == after.image
<1>1. n \in Nat \ {0} /\ n < Modulus /\ IsImage(old, n) /\ TableFits(old, n) /\ BootsFit(old, n)
  BY DEF ImageFits
<1>2. IsImage(img, n) /\ \A p \in 0..(n - 1) : img[p] = old[p] \/ OfVolume(img[p])
  BY DEF Spoils, IsIO
<1> HIDE DEF old, img
<1>3. Size(img) = n
  BY <1>1, <1>2, ImageSize
<1>4. BootsFit(img, n)
  BY <1>1, <1>2 DEF BootsFit, OfVolume
<1>5. TableFits(img, n)
  <2> SUFFICES ASSUME IsRdsk(img[0]) PROVE \E parts : TableOf(img, n, parts)
    BY DEF TableFits
  <2>1. img[0] = old[0]
    BY <1>1, <1>2 DEF IsRdsk, OfVolume
  <2>2. PICK parts : TableOf(old, n, parts)
    BY <1>1, <2>1 DEF TableFits
  <2> DEFINE vs == [i \in 1..Len(parts) |->
                      NewVolume(old[0].geometry.cylBlocks, parts[i].start, parts[i].len)]
  <2>3. Len(parts) + 2 < n /\ Len(parts) \in Nat
    <3>1. /\ IsLayout(parts) /\ IsGeometry(old[0].geometry, n) /\ ApartOn(parts, old[0].geometry)
      BY <2>2 DEF TableOf
    <3>2. IsVolumesOf(vs, parts, old[0].geometry)
      BY DEF IsVolumesOf
    <3> HIDE DEF vs
    <3> QED
      BY <1>1, <3>1, <3>2, PartitionRanges, LayoutParts
  <2>4. \A i \in 1..Len(parts) : img[i].kind = "PART" => img[i] = old[i]
    BY <1>1, <1>2, <2>3 DEF OfVolume
  <2>5. TableOf(img, n, parts)
    BY <2>1, <2>2, <2>4 DEF TableOf
  <2> QED
    BY <2>5
<1>6. ImageFits(img)
  BY <1>1, <1>2, <1>3, <1>4, <1>5 DEF ImageFits
<1> QED
  BY <1>3, <1>6 DEF img

\* Images without table and boot block fit (adfDevCreate).
LEMMA EmptyFits ==
  ASSUME NEW n \in Nat \ {0}, n < Modulus, NEW content, content \in {Blank, Data}
  PROVE  /\ ImageFits([s \in 0..(n - 1) |-> content])
         /\ Size([s \in 0..(n - 1) |-> content]) = n
<1> DEFINE img == [s \in 0..(n - 1) |-> content]
<1>1. IsImage(img, n)
  BY DEF IsImage
<1>2. 0 \in 0..(n - 1) /\ \A p \in 0..(n - 1) : img[p] = content
  OBVIOUS
<1>3. content.kind \in {"blank", "data"}
  BY DEF Blank, Data
<1> HIDE DEF img
<1>4. Size(img) = n
  BY <1>1, ImageSize
<1>5. TableFits(img, n) /\ BootsFit(img, n)
  BY <1>2, <1>3 DEF TableFits, BootsFit, IsRdsk
<1>6. ImageFits(img)
  BY <1>1, <1>4, <1>5 DEF ImageFits
<1> QED
  BY <1>4, <1>6 DEF img

\* No volumes.
LEMMA EmptyRangesFit ==
  ASSUME NEW n, NEW class
  PROVE  <<>> \in Seq(Entries(n)) /\ RangesFit(RangesOf(<<>>), class, n)
<1>1. <<>> \in Seq(Entries(n)) /\ <<>> \in Seq(Volumes(n)) /\ Len(<<>>) = 0
  BY EmptySeq
<1>2. RangesOf(<<>>) = <<>>
  BY <1>1 DEF RangesOf
<1>3. 1..Len(<<>>) = {}
  BY <1>1
<1>4. RangesFit(<<>>, class, n)
  BY <1>1, <1>3 DEF RangesFit, NoneOverlap
<1> QED
  BY <1>1, <1>2, <1>4

\* A device of an image that was just opened or created.
LEMMA NewDeviceFits ==
  ASSUME NEW n \in Nat, NEW g, IsGeometry(g, n), NEW class \in Classes,
         class = "floppy" => ClassBySize(n) = "floppy", NEW mode \in Modes,
         NEW driver, driver = "dump" \/ (driver = "ramdisk" /\ mode = "readwrite"),
         NEW d, d = Device(driver, g, class, mode)
  PROVE  DeviceFits(d, n) /\ d # Closed /\ d.class = class /\ ~d.mounted
<1>1. /\ d = [open |-> TRUE, driver |-> driver, geometry |-> g, class |-> class,
              readOnly |-> mode # "readwrite", writable |-> mode # "readonly",
              mounted |-> FALSE, volList |-> <<>>]
  BY DEF Device
<1>2. /\ d.open = TRUE /\ d.driver = driver /\ d.geometry = g /\ d.class = class
      /\ d.readOnly = (mode # "readwrite") /\ d.writable = (mode # "readonly")
      /\ d.mounted = FALSE /\ d.volList = <<>>
  BY <1>1
<1>3. d.readOnly \in BOOLEAN /\ d.writable = ~d.readOnly
  BY <1>2 DEF Modes
<1>4. <<>> \in Seq(Entries(n)) /\ RangesFit(RangesOf(<<>>), class, n)
  BY EmptyRangesFit
<1>5. Closed.open = FALSE
  BY DEF Closed
<1>6. d # Closed
  BY <1>2, <1>5
<1>7. DeviceFits(d, n)
  BY <1>1, <1>2, <1>3, <1>4 DEF DeviceFits
<1> QED
  BY <1>2, <1>6, <1>7

\* The class by the number of blocks is a class.
LEMMA ClassOfSize ==
  ASSUME NEW n
  PROVE  ClassBySize(n) \in Classes
<1>1. CASE MediaOf(n) = {}
  BY <1>1 DEF ClassBySize, Classes
<1>2. CASE MediaOf(n) # {}
  <2> DEFINE g == CHOOSE g \in MediaOf(n) : TRUE
  <2>1. g \in MediaOf(n)
    BY <1>2
  <2>2. g \in Media /\ ClassBySize(n) = g.class
    BY <1>2, <2>1 DEF MediaOf, ClassBySize
  <2> HIDE DEF g
  <2> QED
    BY <2>2, DeviceAssumption DEF Classes
<1> QED
  BY <1>1, <1>2

\* The geometry by the number of blocks has that number of blocks.
LEMMA GeometryOfSize ==
  ASSUME NEW n \in Nat \ {0}
  PROVE  IsGeometry(CalculatedGeometry(n), n)
<1>1. CASE MediaOf(n) = {}
  <2>1. CalculatedGeometry(n) = [cylinders |-> n, cylBlocks |-> 1]
    BY <1>1 DEF CalculatedGeometry
  <2> QED
    BY <2>1 DEF IsGeometry
<1>2. CASE MediaOf(n) # {}
  <2> DEFINE g == CHOOSE g \in MediaOf(n) : TRUE
  <2>1. g \in MediaOf(n)
    BY <1>2
  <2>2. /\ g \in Media /\ g.cylinders * g.cylBlocks = n
        /\ CalculatedGeometry(n) = [cylinders |-> g.cylinders, cylBlocks |-> g.cylBlocks]
    BY <1>2, <2>1 DEF MediaOf, CalculatedGeometry
  <2> HIDE DEF g
  <2>3. g.cylinders \in Nat /\ g.cylBlocks \in Nat
    BY <2>2, DeviceAssumption
  <2>4. g.cylinders # 0 /\ g.cylBlocks # 0
    <3>1. \A a \in Nat : 0 * a = 0 /\ a * 0 = 0
      OBVIOUS
    <3> QED
      BY <2>2, <2>3, <3>1
  <2> QED
    BY <2>2, <2>3, <2>4 DEF IsGeometry
<1> QED
  BY <1>1, <1>2

\* adfDevOpen
LEMMA OpenedFits ==
  ASSUME NEW img, ImageFits(img), NEW mode \in Modes, NEW d, d = Opened(img, mode)
  PROVE  DeviceFits(d, Size(img)) /\ d # Closed /\ d.class = ClassOf(img) /\ ~d.mounted
<1> DEFINE n == Size(img)
<1>1. n \in Nat \ {0} /\ TableFits(img, n)
  BY DEF ImageFits
<1>2. ClassOf(img) \in Classes /\ (ClassOf(img) = "floppy" => ClassBySize(n) = "floppy")
  BY ClassOfSize DEF ClassOf, Classes
<1>3. IsGeometry(GeometryOf(img), n)
  <2>1. CASE HasRdb(img)
    <3>1. PICK parts : TableOf(img, n, parts)
      BY <1>1, <2>1 DEF TableFits, HasRdb
    <3> QED
      BY <2>1, <3>1 DEF TableOf, GeometryOf
  <2>2. CASE ~HasRdb(img)
    BY <1>1, <2>2, GeometryOfSize DEF GeometryOf
  <2> QED
    BY <2>1, <2>2
<1>4. d = Device("dump", GeometryOf(img), ClassOf(img), mode)
  BY DEF Opened
<1> QED
  BY <1>1, <1>2, <1>3, <1>4, NewDeviceFits

-----------------------------------------------------------------------------
(* The volumes that are found on an image that fits                         *)

\* One range of the image.
LEMMA OneRangeFits ==
  ASSUME NEW n \in Nat \ {0}, NEW last \in 0..(n - 1), NEW root \in -1..(n - 1),
         NEW class \in Classes, class # "harddisk"
  PROVE  RangesFit(<<Volume(0, last, root)>>, class, n)
<1> DEFINE v == Volume(0, last, root)
           vs == <<v>>
<1>1. v \in Volumes(n) /\ v.first <= v.last
  BY DEF Volume, Volumes
<1> HIDE DEF v
<1>2. vs \in Seq(Volumes(n)) /\ Len(vs) = 1 /\ vs[1] = v
  BY <1>1
<1> HIDE DEF vs
<1>3. 1..1 = {1}
  OBVIOUS
<1>4. RangesFit(vs, class, n)
  BY <1>1, <1>2, <1>3 DEF RangesFit, NoneOverlap
<1> QED
  BY <1>4 DEF vs, v

\* adfMountFlop
LEMMA FlopFits ==
  ASSUME NEW img, ImageFits(img), NEW n, n = Size(img), NEW g, IsGeometry(g, n)
  PROVE  adfMountFlop(img, g) # Failed => RangesFit(adfMountFlop(img, g), "floppy", n)
<1> DEFINE last == g.cylinders * g.cylBlocks - 1
           calculated == adfVolCalcRootBlk(0, last)
           IsRootAt(s) == IsRoot(adfVolReadBlock(img, Volume(0, last, s), s))
           root == img[0].root
<1>1. n \in Nat \ {0} /\ n < Modulus /\ last = n - 1 /\ BootsFit(img, n)
  BY DEF ImageFits, IsGeometry
<1>2. "floppy" \in Classes
  BY DEF Classes
<1>3. last \in 0..(n - 1)
  BY <1>1
<1>4. calculated \in 0..(n - 1)
  BY <1>1 DEF adfVolCalcRootBlk
<1>5. IsDos(img[0]) /\ root > 1 /\ IsRootAt(root) => root \in 0..(n - 1)
  <2> SUFFICES ASSUME IsDos(img[0]), IsRootAt(root) PROVE root \in 0..(n - 1)
    OBVIOUS
  <2> DEFINE v == Volume(0, last, root)
  <2>1. root \in 0..(Modulus - 1)
    BY <1>1 DEF IsDos, BootsFit
  <2>2. v.first = 0 /\ v.last = n - 1
    BY <1>1 DEF Volume
  <2>3. InVolume(v, root)
    <3>1. [kind |-> "error"].kind # "root"
      OBVIOUS
    <3> QED
      BY <3>1 DEF adfVolReadBlock, IsRoot
  <2> HIDE DEF v, root
  <2>4. IsRange(v)
    BY <1>1, <2>2, BlockAssumption DEF IsRange
  <2>5. adfVolIsSectNumValid(v, root)
    BY <2>1, <2>3, <2>4, WrapCheckIsRangeCheck
  <2> QED
    BY <1>1, <2>1, <2>2, <2>5 DEF adfVolIsSectNumValid
<1>6. \/ adfMountFlop(img, g) = <<Volume(0, last, -1)>>
      \/ adfMountFlop(img, g) = <<Volume(0, last, root)>>
           /\ IsDos(img[0]) /\ root > 1 /\ IsRootAt(root)
      \/ adfMountFlop(img, g) = <<Volume(0, last, calculated)>>
      \/ adfMountFlop(img, g) = Failed
  BY DEF adfMountFlop
<1> HIDE DEF last, calculated, IsRootAt, root
<1>7. CASE adfMountFlop(img, g) = <<Volume(0, last, -1)>>
  <2>1. -1 \in -1..(n - 1)
    BY <1>1
  <2> QED
    BY <1>1, <1>2, <1>3, <1>7, <2>1, OneRangeFits
<1>8. CASE adfMountFlop(img, g) = <<Volume(0, last, root)>>
             /\ IsDos(img[0]) /\ root > 1 /\ IsRootAt(root)
  <2>1. root \in -1..(n - 1)
    BY <1>1, <1>5, <1>8
  <2> QED
    BY <1>1, <1>2, <1>3, <1>8, <2>1, OneRangeFits
<1>9. CASE adfMountFlop(img, g) = <<Volume(0, last, calculated)>>
  <2>1. calculated \in -1..(n - 1)
    BY <1>1, <1>4
  <2> QED
    BY <1>1, <1>2, <1>3, <1>9, <2>1, OneRangeFits
<1> QED
  BY <1>6, <1>7, <1>8, <1>9

\* The root blocks adfMountHdFile may find, and the one it finds.
RootsOf(img) == {s \in 2..(Size(img) \div 2) : IsRoot(img[s])}

HighestRoot(img) == CHOOSE s \in RootsOf(img) : \A t \in RootsOf(img) : t <= s

\* It finds one if there is one.
LEMMA HighestRootIs ==
  ASSUME NEW img, Size(img) \in Nat, RootsOf(img) # {}
  PROVE  /\ HighestRoot(img) \in RootsOf(img)
         /\ \A t \in RootsOf(img) : t <= HighestRoot(img)
<1> DEFINE top == Size(img) \div 2
           S == {top - s : s \in RootsOf(img)}
<1>1. top \in Int /\ \A s \in RootsOf(img) : s \in Int /\ s <= top
  BY DEF RootsOf
<1> HIDE DEF top
<1>2. S \in SUBSET Nat /\ S # {}
  BY <1>1
<1>3. PICK d \in S : \A e \in S : d <= e
  BY <1>2, LeastNumber
<1>4. PICK s \in RootsOf(img) : d = top - s
  BY <1>3
<1>5. \A t \in RootsOf(img) : top - t \in S
  OBVIOUS
<1>6. \A t \in RootsOf(img) : t <= s
  <2> SUFFICES ASSUME NEW t \in RootsOf(img) PROVE t <= s
    OBVIOUS
  <2>1. top - s <= top - t
    BY <1>3, <1>4, <1>5
  <2>2. t \in Int /\ s \in Int
    BY <1>1
  <2> HIDE DEF S
  <2> QED
    BY <1>1, <2>1, <2>2
<1>7. \E r \in RootsOf(img) : \A t \in RootsOf(img) : t <= r
  BY <1>6
<1> QED
  BY <1>7 DEF HighestRoot

\* adfMountHdFile
LEMMA HardfileFits ==
  ASSUME NEW img, ImageFits(img), NEW n, n = Size(img), NEW g, IsGeometry(g, n)
  PROVE  adfMountHdFile(img, g) # Failed => RangesFit(adfMountHdFile(img, g), "hardfile", n)
<1> DEFINE root == HighestRoot(img)
<1>1. n \in Nat \ {0} /\ g.cylinders * g.cylBlocks - 1 = n - 1 /\ "hardfile" \in Classes
  BY DEF ImageFits, IsGeometry, Classes
<1>2. \/ adfMountHdFile(img, g) = <<Volume(0, n - 1, -1)>>
      \/ RootsOf(img) # {} /\ adfMountHdFile(img, g) = <<Volume(0, 2 * root - 1, root)>>
      \/ adfMountHdFile(img, g) = Failed
  BY <1>1 DEF adfMountHdFile, RootsOf, HighestRoot
<1>3. CASE adfMountHdFile(img, g) = <<Volume(0, n - 1, -1)>>
  <2>1. -1 \in -1..(n - 1) /\ n - 1 \in 0..(n - 1)
    BY <1>1
  <2> QED
    BY <1>1, <1>3, <2>1, OneRangeFits
<1>4. CASE RootsOf(img) # {} /\ adfMountHdFile(img, g) = <<Volume(0, 2 * root - 1, root)>>
  <2>1. root \in RootsOf(img)
    BY <1>1, <1>4, HighestRootIs
  <2>2. root \in 2..(n \div 2)
    BY <2>1 DEF RootsOf
  <2> HIDE DEF root
  <2>3. root \in -1..(n - 1) /\ 2 * root - 1 \in 0..(n - 1)
    BY <1>1, <2>2
  <2> QED
    BY <1>1, <1>4, <2>3, OneRangeFits
<1> QED
  BY <1>2, <1>3, <1>4

\* A sequence of ranges of partitions, which may have lost their root blocks.
LEMMA PartRangesFit ==
  ASSUME NEW n \in Nat \ {0}, n < Modulus, NEW parts, IsLayout(parts), NEW g, IsGeometry(g, n),
         ApartOn(parts, g), NEW vs, IsVolumesOf(vs, parts, g),
         NEW us, us = [i \in 1..Len(parts) |-> us[i]],
         \A i \in 1..Len(parts) :
           us[i] = Volume(vs[i].first, vs[i].last, us[i].root) /\ us[i].root \in {vs[i].root, -1}
  PROVE  \A class \in Classes : RangesFit(us, class, n)
<1> DEFINE m == Len(parts)
<1>1. /\ \A i \in 1..m : InImage(vs[i], n) /\ vs[i].first > m + 2
      /\ NoneOverlap(vs, m) /\ m \in Nat
  BY PartitionRanges, LayoutParts
<1> HIDE DEF m
<1>2. ASSUME NEW i \in 1..m
      PROVE  /\ us[i] \in Volumes(n) /\ us[i].first <= us[i].last
             /\ us[i].first = vs[i].first /\ us[i].last = vs[i].last
  <2>1. us[i] = Volume(vs[i].first, vs[i].last, us[i].root) /\ us[i].root \in {vs[i].root, -1}
    BY DEF m
  <2>2. us[i].first = vs[i].first /\ us[i].last = vs[i].last
    BY <2>1 DEF Volume
  <2>3. /\ vs[i].first \in Nat /\ vs[i].last \in Nat /\ vs[i].first <= vs[i].last
        /\ vs[i].last < n
    BY <1>1 DEF InImage
  <2>4. vs[i].root \in -1..(n - 1)
    <3>1. InImage(vs[i], n)
      BY <1>1
    <3>2. vs[i].root = (vs[i].last - vs[i].first + 1) \div 2
      BY <3>1 DEF InImage, adfVolCalcRootBlk
    <3>3. \A a, b \in Nat : a <= b /\ b < n => (b - a + 1) \div 2 \in -1..(n - 1)
      OBVIOUS
    <3> QED
      BY <2>3, <3>2, <3>3
  <2>5. us[i].root \in -1..(n - 1)
    BY <2>1, <2>4
  <2>6. us[i] \in Volumes(n)
    BY <2>1, <2>3, <2>5 DEF Volume, Volumes
  <2> QED
    BY <2>2, <2>3, <2>6
<1>3. us \in Seq(Volumes(n)) /\ Len(us) = m
  BY <1>1, <1>2 DEF m
<1>4. NoneOverlap(us, m)
  BY <1>1, <1>2 DEF NoneOverlap
<1> QED
  BY <1>1, <1>2, <1>3, <1>4 DEF RangesFit

\* What adfMountHd returns, by the list it read.
LEMMA MountHdIs ==
  ASSUME NEW img
  PROVE  adfMountHd(img) =
           IF IsRdsk(img[0]) /\ Last(PartList(img)[Size(img)]) = -1
             THEN [i \in 1..(Len(PartList(img)[Size(img)]) - 1) |->
                     PartVolume(img, img[0].geometry.cylBlocks, img[PartList(img)[Size(img)][i]])]
             ELSE Failed
BY DEF adfMountHd, PartList

\* adfMountHd
LEMMA HardDiskFits ==
  ASSUME NEW img, ImageFits(img), NEW n, n = Size(img)
  PROVE  adfMountHd(img) # Failed => RangesFit(adfMountHd(img), "harddisk", n)
<1> SUFFICES ASSUME adfMountHd(img) # Failed
             PROVE  RangesFit(adfMountHd(img), "harddisk", n)
  OBVIOUS
<1>1. n \in Nat \ {0} /\ n < Modulus /\ IsImage(img, n) /\ TableFits(img, n)
  BY DEF ImageFits
<1>2. IsRdsk(img[0])
  <2> DEFINE found == PartList(img)[Size(img)]
  <2>1. adfMountHd(img) =
          IF IsRdsk(img[0]) /\ Last(found) = -1
            THEN [i \in 1..(Len(found) - 1) |->
                    PartVolume(img, img[0].geometry.cylBlocks, img[found[i]])]
            ELSE Failed
    BY MountHdIs
  <2> HIDE DEF found
  <2> QED
    BY <2>1
<1>3. PICK parts : TableOf(img, n, parts)
  BY <1>1, <1>2 DEF TableFits
<1> DEFINE g == img[0].geometry
           vs == [i \in 1..Len(parts) |-> NewVolume(g.cylBlocks, parts[i].start, parts[i].len)]
           us == PartsFound(img, parts)
<1>4. adfMountHd(img) = us
  BY <1>1, <1>2, <1>3, HardDiskRead
<1>5. IsLayout(parts) /\ IsGeometry(g, n) /\ ApartOn(parts, g)
  BY <1>3 DEF TableOf
<1>6. IsVolumesOf(vs, parts, g)
  BY DEF IsVolumesOf
<1>7. us = [i \in 1..Len(parts) |-> us[i]]
  BY DEF PartsFound
<1>8. ASSUME NEW i \in 1..Len(parts)
      PROVE  us[i] = Volume(vs[i].first, vs[i].last, us[i].root) /\ us[i].root \in {vs[i].root, -1}
  <2>1. us[i] = PartVolume(img, g.cylBlocks, Partition(parts[i], NextPart(i, Len(parts))))
    BY DEF PartsFound
  <2>2. parts[i].start \in Nat /\ parts[i].len \in Nat \ {0} /\ g.cylBlocks \in Nat \ {0}
    BY <1>5, LayoutParts DEF IsGeometry
  <2>3. vs[i] = NewVolume(g.cylBlocks, parts[i].start, parts[i].len)
    OBVIOUS
  <2> HIDE DEF g, us, vs
  <2> QED
    BY <2>1, <2>2, <2>3, PartitionRead
<1> HIDE DEF g, us, vs
<1>9. \A class \in Classes : RangesFit(us, class, n)
  BY <1>1, <1>5, <1>6, <1>7, <1>8, PartRangesFit
<1> QED
  BY <1>4, <1>9 DEF Classes

\* adfDevMount
LEMMA FoundFits ==
  ASSUME NEW img, ImageFits(img), NEW d, DeviceFits(d, Size(img)), Found(img, d) # Failed
  PROVE  RangesFit(Found(img, d), d.class, Size(img))
<1>1. d.class \in {"floppy", "hardfile", "harddisk"} /\ IsGeometry(d.geometry, Size(img))
  BY DEF DeviceFits, Classes
<1>2. CASE d.class = "floppy"
  <2>1. Found(img, d) = adfMountFlop(img, d.geometry)
    BY <1>2 DEF Found
  <2> QED
    BY <1>1, <1>2, <2>1, FlopFits
<1>3. CASE d.class = "hardfile"
  <2>1. Found(img, d) = adfMountHdFile(img, d.geometry)
    BY <1>3 DEF Found
  <2> QED
    BY <1>1, <1>3, <2>1, HardfileFits
<1>4. CASE d.class = "harddisk"
  <2>1. Found(img, d) = adfMountHd(img)
    BY <1>4 DEF Found
  <2> QED
    BY <1>1, <1>4, <2>1, HardDiskFits
<1> QED
  BY <1>1, <1>2, <1>3, <1>4


-----------------------------------------------------------------------------
(* The volumes that were made are found                                     *)

\* The volume that takes all blocks, when it stands.
LEMMA WholeStands ==
  ASSUME NEW n \in Nat \ {0}, n < Modulus, NEW img, IsImage(img, n),
         NEW v, v = Whole(n), VolumeStands(img, v)
  PROVE  /\ InImage(v, n) /\ v.first = 0 /\ v.last = n - 1 /\ v.root = n \div 2
         /\ img[0].kind = "boot" /\ n \div 2 \in 2..(n - 1) /\ IsRoot(img[n \div 2])
<1>1. v.first = 0 /\ v.last = n - 1 /\ v.root = n \div 2
  BY DEF Whole, Volume
<1>2. InImage(v, n)
  <2>1. adfVolCalcRootBlk(0, n - 1) = n \div 2
    BY DEF adfVolCalcRootBlk
  <2> QED
    BY <1>1, <2>1 DEF InImage
<1>3. PICK pages, cache, free : VolumeIs(img, v, pages, cache, free)
  BY DEF VolumeStands
<1>4. /\ v.last - v.first >= 3 /\ img[v.first].kind = "boot"
      /\ img[v.first + v.root] = Root(pages, 0, cache, "valid")
  BY <1>3 DEF VolumeIs
<1>5. IsRoot(img[n \div 2])
  <2>1. 0 + n \div 2 = n \div 2
    OBVIOUS
  <2>2. img[n \div 2] = Root(pages, 0, cache, "valid")
    BY <1>1, <1>4, <2>1
  <2> QED
    BY <2>2 DEF IsRoot, Root
<1>6. n \div 2 \in 2..(n - 1)
  <2>1. n - 1 >= 3
    BY <1>1, <1>4
  <2> QED
    BY <2>1
<1> QED
  BY <1>1, <1>2, <1>4, <1>5, <1>6

\* adfMountFlop finds it.
LEMMA FlopIsFound ==
  ASSUME NEW n \in Nat \ {0}, n < Modulus, NEW img, IsImage(img, n), Size(img) = n,
         NEW mk, SingleFits(img, mk), NEW g, IsGeometry(g, n)
  PROVE  adfMountFlop(img, g) = mk
<1> DEFINE last == g.cylinders * g.cylBlocks - 1
           calculated == adfVolCalcRootBlk(0, last)
           IsRootAt(s) == IsRoot(adfVolReadBlock(img, Volume(0, last, s), s))
           root == img[0].root
           v == Whole(n)
<1>1. VolumeStands(img, v) /\ mk = <<v>> /\ BootLeads(img, n)
  BY DEF SingleFits
<1>2. /\ InImage(v, n) /\ v.first = 0 /\ v.last = n - 1 /\ v.root = n \div 2
      /\ img[0].kind = "boot" /\ n \div 2 \in 2..(n - 1) /\ IsRoot(img[n \div 2])
  BY <1>1, WholeStands
<1>3. last = n - 1 /\ calculated = n \div 2 /\ v = Volume(0, last, n \div 2)
  <2>1. last = n - 1
    BY DEF IsGeometry
  <2> QED
    BY <2>1 DEF adfVolCalcRootBlk, Whole
<1>4. IsRootAt(n \div 2)
  <2>1. n \div 2 \in BlocksOf(v)
    BY <1>2 DEF BlocksOf
  <2>2. adfVolReadBlock(img, v, n \div 2) = img[v.first + n \div 2]
    BY <1>2, <2>1, ReadInside
  <2>3. v.first + n \div 2 = n \div 2
    BY <1>2
  <2> HIDE DEF v
  <2> QED
    BY <1>2, <1>3, <2>2, <2>3
<1>5. root = n \div 2 \/ ~(root > 1 /\ IsRootAt(root))
  BY <1>1, <1>3 DEF BootLeads
<1>6. adfMountFlop(img, g) =
        CASE ~IsDos(img[0]) -> <<Volume(0, last, -1)>>
          [] IsDos(img[0]) /\ root > 1 /\ IsRootAt(root) -> <<Volume(0, last, root)>>
          [] IsDos(img[0]) /\ ~(root > 1 /\ IsRootAt(root))
               /\ IsRootAt(calculated) -> <<Volume(0, last, calculated)>>
          [] OTHER -> Failed
  BY DEF adfMountFlop
<1>7. IsDos(img[0])
  BY <1>2 DEF IsDos
<1> HIDE DEF last, calculated, IsRootAt, root, v
<1>8. CASE root > 1 /\ IsRootAt(root)
  <2>1. adfMountFlop(img, g) = <<Volume(0, last, root)>>
    BY <1>6, <1>7, <1>8
  <2> QED
    BY <1>1, <1>3, <1>5, <1>8, <2>1
<1>9. CASE ~(root > 1 /\ IsRootAt(root))
  <2>1. adfMountFlop(img, g) = <<Volume(0, last, calculated)>>
    BY <1>3, <1>4, <1>6, <1>7, <1>9
  <2> QED
    BY <1>1, <1>3, <2>1
<1> QED
  BY <1>8, <1>9

\* adfMountHdFile finds it if the number of blocks is even.
LEMMA HdFileIsFound ==
  ASSUME NEW n \in Nat \ {0}, n < Modulus, NEW img, IsImage(img, n), Size(img) = n,
         n % 2 = 0, NEW mk, SingleFits(img, mk), NEW g
  PROVE  adfMountHdFile(img, g) = mk
<1> DEFINE v == Whole(n)
           root == HighestRoot(img)
<1>1. VolumeStands(img, v) /\ mk = <<v>>
  BY DEF SingleFits
<1>2. img[0].kind = "boot" /\ n \div 2 \in 2..(n - 1) /\ IsRoot(img[n \div 2])
  BY <1>1, WholeStands
<1>3. n \div 2 \in RootsOf(img)
  BY <1>2 DEF RootsOf
<1>4. root \in RootsOf(img) /\ n \div 2 <= root
  BY <1>3, HighestRootIs
<1>5. root \in 2..(n \div 2)
  BY <1>4 DEF RootsOf
<1> HIDE DEF root
<1>6. root = n \div 2
  BY <1>4, <1>5
<1>7. adfMountHdFile(img, g) = <<Volume(0, 2 * root - 1, root)>>
  <2>1. IsDos(img[0])
    BY <1>2 DEF IsDos
  <2> QED
    BY <1>3, <2>1 DEF adfMountHdFile, RootsOf, HighestRoot, root
<1>8. 2 * root - 1 = n - 1
  BY <1>6
<1> QED
  BY <1>1, <1>6, <1>7, <1>8 DEF Whole

\* adfMountHd finds the partitions.
LEMMA HardDiskIsFound ==
  ASSUME NEW n \in Nat \ {0}, n < Modulus, NEW img, IsImage(img, n), Size(img) = n,
         NEW mk, NEW parts, PartsFit(img, mk, parts)
  PROVE  adfMountHd(img) = mk
<1> DEFINE g == img[0].geometry
           us == PartsFound(img, parts)
<1>1. /\ IsRdsk(img[0]) /\ TableOf(img, n, parts) /\ Intact(img, parts)
      /\ mk = [i \in 1..Len(parts) |-> NewVolume(g.cylBlocks, parts[i].start, parts[i].len)]
      /\ \A i \in 1..Len(parts) : VolumeStands(img, mk[i])
  BY DEF PartsFit
<1>2. adfMountHd(img) = us
  BY <1>1, HardDiskRead
<1>3. \A i \in 1..Len(parts) :
        parts[i].start \in Nat /\ parts[i].len \in Nat \ {0} /\ g.cylBlocks \in Nat \ {0}
  BY <1>1, LayoutParts DEF TableOf, IsGeometry
<1>4. ASSUME NEW i \in 1..Len(parts)
      PROVE  us[i] = mk[i]
  <2>1. us[i] = PartVolume(img, g.cylBlocks, Partition(parts[i], NextPart(i, Len(parts))))
    BY DEF PartsFound
  <2>2. mk[i] = NewVolume(g.cylBlocks, parts[i].start, parts[i].len)
    BY <1>1
  <2>3. IsDos(img[mk[i].first])
    BY <1>1 DEF VolumeStands, VolumeIs, IsDos
  <2> HIDE DEF g, us
  <2> QED
    BY <1>3, <2>1, <2>2, <2>3, PartitionRead
<1>5. us = [i \in 1..Len(parts) |-> us[i]]
  BY DEF PartsFound
<1> HIDE DEF g, us
<1> QED
  BY <1>1, <1>2, <1>4, <1>5

\* adfDevMount
LEMMA FoundIsMade ==
  ASSUME NEW img, ImageFits(img), NEW d, IsGeometry(d.geometry, Size(img)),
         NEW mk, MadeOn(img, mk, d.class)
  PROVE  Found(img, d) = mk
<1> DEFINE n == Size(img)
<1>1. n \in Nat \ {0} /\ n < Modulus /\ IsImage(img, n)
  BY DEF ImageFits
<1>2. CASE d.class = "harddisk"
  <2>1. PICK parts : PartsFit(img, mk, parts)
    BY <1>2 DEF MadeOn
  <2>2. Found(img, d) = adfMountHd(img)
    BY <1>2 DEF Found
  <2> QED
    BY <1>1, <2>1, <2>2, HardDiskIsFound
<1>3. CASE d.class = "floppy"
  <2>1. SingleFits(img, mk) /\ Found(img, d) = adfMountFlop(img, d.geometry)
    BY <1>3 DEF MadeOn, Found
  <2> QED
    BY <1>1, <2>1, FlopIsFound
<1>4. CASE d.class = "hardfile"
  <2>1. /\ SingleFits(img, mk) /\ n % 2 = 0
        /\ Found(img, d) = adfMountHdFile(img, d.geometry)
    BY <1>4 DEF MadeOn, Found
  <2> QED
    BY <1>1, <2>1, HdFileIsFound
<1>5. d.class \in Classes
  BY DEF MadeOn, Classes
<1> QED
  BY <1>2, <1>3, <1>4, <1>5 DEF Classes


-----------------------------------------------------------------------------
(* The volumes that were made are kept                                      *)

\* Volumes that stand in ranges of the image that do not overlap.
Stand(img, mk, n) ==
  /\ mk \in Seq(Volumes(n)) /\ NoneOverlap(mk, Len(mk))
  /\ \A i \in 1..Len(mk) : InImage(mk[i], n) /\ VolumeStands(img, mk[i])

\* A volume in the image is one of its ranges.
LEMMA InVolumes ==
  ASSUME NEW n, NEW v, InImage(v, n), v = Volume(v.first, v.last, v.root)
  PROVE  v \in Volumes(n)
<1>1. v.root \in -1..(n - 1)
  <2>1. v.root = (v.last - v.first + 1) \div 2
    BY DEF InImage, adfVolCalcRootBlk
  <2>2. \A a, b, c \in Nat : a <= b /\ b < c => (b - a + 1) \div 2 \in -1..(c - 1)
    OBVIOUS
  <2> QED
    BY <2>1, <2>2 DEF InImage
<1>2. v.first \in 0..(n - 1) /\ v.last \in 0..(n - 1)
  BY DEF InImage
<1> QED
  BY <1>1, <1>2 DEF Volume, Volumes

\* The volumes that were made stand.
LEMMA MadeStands ==
  ASSUME NEW img, ImageFits(img), NEW mk, NEW class, MadeOn(img, mk, class)
  PROVE  Stand(img, mk, Size(img))
<1> DEFINE n == Size(img)
<1>1. n \in Nat \ {0} /\ n < Modulus /\ IsImage(img, n)
  BY DEF ImageFits
<1> HIDE DEF n
<1>2. CASE SingleFits(img, mk)
  <2> DEFINE v == Whole(n)
  <2>1. mk = <<v>> /\ VolumeStands(img, v)
    BY <1>2 DEF SingleFits, n
  <2>2. InImage(v, n)
    BY <1>1, <2>1, WholeStands
  <2>3. v \in Volumes(n)
    <3>1. v = Volume(v.first, v.last, v.root)
      BY DEF Whole, Volume
    <3> HIDE DEF v
    <3> QED
      BY <2>2, <3>1, InVolumes
  <2> HIDE DEF v
  <2>4. mk \in Seq(Volumes(n)) /\ Len(mk) = 1 /\ mk[1] = v
    BY <2>1, <2>3
  <2>5. 1..1 = {1}
    OBVIOUS
  <2> QED
    BY <2>1, <2>2, <2>4, <2>5 DEF Stand, NoneOverlap, n
<1>3. ASSUME NEW parts, PartsFit(img, mk, parts)
      PROVE  Stand(img, mk, n)
  <2> DEFINE g == img[0].geometry
             vol(i) == NewVolume(g.cylBlocks, parts[i].start, parts[i].len)
             m == Len(parts)
  <2>1. /\ TableOf(img, n, parts) /\ mk = [i \in 1..m |-> vol(i)]
        /\ \A i \in 1..m : VolumeStands(img, mk[i])
    BY <1>3 DEF PartsFit, n
  <2>2. IsLayout(parts) /\ IsGeometry(g, n) /\ ApartOn(parts, g)
    BY <2>1 DEF TableOf
  <2>3. IsVolumesOf(mk, parts, g)
    BY <2>1 DEF IsVolumesOf
  <2>4. m \in Nat
    BY <2>2, LayoutParts
  <2>5. (\A i \in 1..m : InImage(mk[i], n)) /\ NoneOverlap(mk, m)
    <3> HIDE DEF g, m
    <3>1. (\A i \in 1..Len(parts) : InImage(mk[i], n)) /\ NoneOverlap(mk, Len(parts))
      BY <1>1, <2>2, <2>3, PartitionRanges
    <3> QED
      BY <3>1 DEF m
  <2>6. \A i \in 1..m : mk[i] = Volume(mk[i].first, mk[i].last, mk[i].root)
    BY <2>1 DEF NewVolume, Volume
  <2>7. \A i \in 1..m : mk[i] \in Volumes(n)
    BY <2>5, <2>6, InVolumes
  <2>8. mk \in Seq(Volumes(n)) /\ Len(mk) = m
    <3>1. mk = [i \in 1..m |-> mk[i]]
      BY <2>1
    <3> HIDE DEF m
    <3> QED
      BY <2>4, <2>7, <3>1
  <2> QED
    BY <2>1, <2>5, <2>8 DEF Stand
<1> QED
  BY <1>2, <1>3 DEF MadeOn, n

\* A volume stands when a free block of it is written.
LEMMA DataStands ==
  ASSUME NEW n, NEW v, InImage(v, n), NEW img, IsImage(img, n), NEW pages, NEW cache, NEW free,
         VolumeIs(img, v, pages, cache, free), NEW s \in free,
         NEW img2, img2 = [img EXCEPT ![v.first + s] = Data]
  PROVE  VolumeStands(img2, v) /\ s \in 2..(v.last - v.first)
<1>1. /\ v.last - v.first >= 3 /\ img[v.first].kind = "boot"
      /\ img[v.first + v.root] = Root(pages, 0, cache, "valid")
      /\ pages \in Seq(2..(v.last - v.first))
      /\ \A i \in 1..Len(pages) : pages[i] \notin free
      /\ \A i \in 1..Len(pages) : img[v.first + pages[i]] = Page(Bits(free, i - 1))
      /\ v.root \notin free /\ free \subseteq 2..(v.last - v.first)
  BY DEF VolumeIs
<1>2. s \in 2..(v.last - v.first) /\ v.root \in 2..(v.last - v.first) /\ v.first \in Nat
  BY <1>1, RootInside DEF InImage
<1>3. \A i \in 1..Len(pages) : pages[i] \in 2..(v.last - v.first)
  BY <1>1, ElementOfSeq, Zenon
<1>4. \A t \in 0..(v.last - v.first) : t # s => img2[v.first + t] = img[v.first + t]
  <2>1. DOMAIN img = 0..(n - 1)
    BY DEF IsImage
  <2>2. \A t \in 0..(v.last - v.first) : t # s => v.first + t # v.first + s
    BY <1>2
  <2>3. \A t \in 0..(v.last - v.first) : v.first + t \in 0..(n - 1)
    BY DEF InImage
  <2> QED
    BY <2>1, <2>2, <2>3
<1>5. v.root # s /\ \A i \in 1..Len(pages) : pages[i] # s
  BY <1>1
<1>6. img2[v.first + v.root] = img[v.first + v.root]
      /\ \A i \in 1..Len(pages) : img2[v.first + pages[i]] = img[v.first + pages[i]]
  BY <1>2, <1>3, <1>4, <1>5
<1>7. img2[v.first] = img[v.first]
  <2>1. v.first \in Nat /\ v.last \in Nat
    BY DEF InImage
  <2>2. 0 \in 0..(v.last - v.first) /\ 0 # s /\ v.first + 0 = v.first
    BY <1>1, <1>2, <2>1
  <2> QED
    BY <1>4, <2>2
<1>8. VolumeIs(img2, v, pages, cache, free)
  BY <1>6, <1>7 DEF VolumeIs
<1> QED
  BY <1>2, <1>8 DEF VolumeStands

\* Data is written to a free block of the i-th volume.
DataWritten(img, mk, i, v, s, free, img2) ==
  i \in 1..Len(mk) /\ mk[i] = v /\ s \in free /\ img2 = [img EXCEPT ![v.first + s] = Data]

\* So do the other volumes, and they are found again.
LEMMA DataKeeps ==
  ASSUME NEW img, ImageFits(img), NEW n, Size(img) = n,
         NEW mk, NEW class, MadeOn(img, mk, class), NEW i, NEW v, NEW s, NEW img2,
         NEW pages, NEW cache, NEW free, VolumeIs(img, v, pages, cache, free),
         DataWritten(img, mk, i, v, s, free, img2)
  PROVE  MadeOn(img2, mk, class) /\ img2[0] = img[0] /\ Size(img2) = n
<1>a. i \in 1..Len(mk) /\ mk[i] = v /\ s \in free /\ img2 = [img EXCEPT ![v.first + s] = Data]
  BY DEF DataWritten
<1> DEFINE q == v.first + s
<1>1. n \in Nat \ {0} /\ n < Modulus /\ IsImage(img, n)
  BY DEF ImageFits
<1>2. Stand(img, mk, n)
  BY MadeStands
<1>3. InImage(v, n) /\ Len(mk) \in Nat
  BY <1>a, <1>2 DEF Stand
<1>4. VolumeStands(img2, v) /\ s \in 2..(v.last - v.first)
  BY <1>a, <1>1, <1>3, DataStands
<1>5. /\ q \in 2..(n - 1) /\ v.first < q /\ q <= v.last
      /\ v.first \in Nat /\ v.last \in Nat /\ v.last < n
  <2>1. v.first \in Nat /\ v.last \in Nat /\ v.last < n
    BY <1>3 DEF InImage
  <2>2. \A a, b, c, d \in Int : /\ a >= 0 /\ b < c /\ 2 <= d /\ d <= b - a
                               => a + d \in 2..(c - 1) /\ a < a + d /\ a + d <= b
    OBVIOUS
  <2>3. s \in Int /\ 2 <= s /\ s <= v.last - v.first /\ v.first >= 0 /\ v.first \in Int
        /\ v.last \in Int /\ n \in Int
    BY <1>1, <1>4, <2>1
  <2> QED
    BY <2>1, <2>2, <2>3
<1> HIDE DEF q
<1>6. /\ DOMAIN img2 = 0..(n - 1) /\ IsImage(img2, n)
      /\ \A p \in 0..(n - 1) : img2[p] = IF p = q THEN Data ELSE img[p]
  <2>1. img2 = [img EXCEPT ![q] = Data] /\ DOMAIN img = 0..(n - 1)
    BY <1>a DEF q, IsImage, ImageFits
  <2> QED
    BY <2>1 DEF IsImage
<1>7. Size(img2) = n
  BY <1>1, <1>6, ImageSize
<1>8. img2[0] = img[0]
  BY <1>1, <1>5, <1>6
<1>9. \A j \in 1..Len(mk) : VolumeStands(img2, mk[j])
  <2> SUFFICES ASSUME NEW j \in 1..Len(mk), j # i PROVE VolumeStands(img2, mk[j])
    BY <1>a, <1>4
  <2>1. InImage(mk[j], n) /\ VolumeStands(img, mk[j])
        /\ (v.last < mk[j].first \/ mk[j].last < v.first)
    BY <1>a, <1>2 DEF Stand, NoneOverlap
  <2>2. \A p \in 0..(n - 1) : mk[j].first <= p /\ p <= mk[j].last => p # q
    <3>1. mk[j].first \in Nat /\ mk[j].last \in Nat
      BY <2>1 DEF InImage
    <3> QED
      BY <1>5, <2>1, <3>1
  <2>3. \A p \in 0..(n - 1) : mk[j].first <= p /\ p <= mk[j].last => img2[p] = img[p]
    BY <1>6, <2>2
  <2> DEFINE w == mk[j]
  <2>4. /\ InImage(w, n) /\ VolumeStands(img, w)
        /\ \A p \in 0..(n - 1) : w.first <= p /\ p <= w.last => img2[p] = img[p]
    BY <2>1, <2>3
  <2> HIDE DEF w
  <2>5. VolumeStands(img2, w)
    BY ONLY <2>4, VolumeKept
  <2> QED
    BY <2>5 DEF w
<1>10. ASSUME SingleFits(img, mk)
       PROVE  SingleFits(img2, mk)
  <2> DEFINE root == img[0].root
             u == Volume(0, n - 1, root)
  <2>1. mk = <<Whole(n)>> /\ BootLeads(img, n)
    BY <1>10 DEF SingleFits
  <2>2. VolumeStands(img2, Whole(n))
    <3>1. Len(mk) = 1 /\ mk[1] = Whole(n)
      BY <2>1
    <3> QED
      BY <1>9, <3>1
  <2>3. IsRoot(adfVolReadBlock(img2, u, root)) => IsRoot(adfVolReadBlock(img, u, root))
    <3> DEFINE x == Physical(u, root)
    <3>1. DOMAIN img = 0..(n - 1)
      BY <1>1 DEF IsImage
    <3>2. /\ adfVolReadBlock(img2, u, root) = IF InVolume(u, root) /\ x \in 0..(n - 1)
                                                THEN img2[x] ELSE [kind |-> "error"]
          /\ adfVolReadBlock(img, u, root) = IF InVolume(u, root) /\ x \in 0..(n - 1)
                                               THEN img[x] ELSE [kind |-> "error"]
      BY <1>6, <3>1 DEF adfVolReadBlock, OnDevice
    <3>3. ~IsRoot(Data)
      BY DEF IsRoot, Data
    <3> HIDE DEF u, x, root
    <3>4. CASE InVolume(u, root) /\ x \in 0..(n - 1)
      BY <1>6, <3>2, <3>3, <3>4
    <3>5. CASE ~(InVolume(u, root) /\ x \in 0..(n - 1))
      BY <3>2, <3>5
    <3> QED
      BY <3>4, <3>5
  <2>4. BootLeads(img2, n)
    BY <1>8, <2>1, <2>3 DEF BootLeads
  <2> QED
    BY <1>7, <2>1, <2>2, <2>4 DEF SingleFits
<1>11. ASSUME NEW parts, PartsFit(img, mk, parts)
       PROVE  PartsFit(img2, mk, parts)
  <2> DEFINE g == img[0].geometry
             m == Len(parts)
  <2>1. /\ IsRdsk(img[0]) /\ TableOf(img, n, parts) /\ Intact(img, parts)
        /\ mk = [k \in 1..m |-> NewVolume(g.cylBlocks, parts[k].start, parts[k].len)]
    BY <1>11 DEF PartsFit
  <2>2. IsLayout(parts) /\ IsGeometry(g, n) /\ ApartOn(parts, g)
    BY <2>1 DEF TableOf
  <2>3. IsVolumesOf(mk, parts, g)
    BY <2>1 DEF IsVolumesOf
  <2>4. m \in Nat /\ m + 2 < n /\ \A k \in 1..m : mk[k].first > m + 2
    <3> HIDE DEF g
    <3> QED
      BY <1>1, <2>2, <2>3, LayoutParts, PartitionRanges
  <2>5. Len(mk) = m
    BY <2>1, <2>4
  <2>6. \A k \in 1..m : img2[k] = img[k]
    <3>1. v.first > m + 2
      BY <1>a, <2>4, <2>5
    <3>2. \A k \in 1..m : k \in 0..(n - 1) /\ k # q
      BY <1>3, <1>5, <2>4, <3>1 DEF InImage
    <3> QED
      BY <1>6, <3>2
  <2>7. TableOf(img2, n, parts) /\ Intact(img2, parts)
    BY <1>8, <2>1, <2>6 DEF TableOf, Intact
  <2> QED
    BY <1>7, <1>8, <1>9, <2>1, <2>5, <2>7 DEF PartsFit
<1>12. MadeOn(img2, mk, class)
  BY <1>7, <1>10, <1>11 DEF MadeOn
<1> QED
  BY <1>7, <1>8, <1>12


-----------------------------------------------------------------------------
(* The calls on a device                                                    *)

\* A driver that may not write keeps the image.
Guarded == ~dev.writable => image' = image

\* An open device and its image.
LEMMA OpenFits ==
  ASSUME DeviceInv, dev.open
  PROVE  /\ Fits(image, dev, made) /\ dev # Closed /\ DeviceFits(dev, Size(image))
         /\ ImageFits(image) /\ MadeFits(image, dev, made)
<1>1. dev # Closed
  BY DEF Closed
<1> QED
  BY <1>1 DEF DeviceInv, Fits

\* The record that calls on an open device change.
LEMMA IOIs ==
  ASSUME ImageFits(image), DeviceFits(dev, Size(image))
  PROVE  /\ IsIO(IO, Size(image)) /\ IO.image = image
         /\ IO.writable = dev.writable /\ IO.ok = TRUE
<1>1. IO = [image |-> image, writable |-> dev.writable, ok |-> TRUE]
  BY DEF IO
<1>2. dev.writable \in BOOLEAN
  BY DEF DeviceFits
<1> QED
  BY <1>1, <1>2 DEF IsIO, ImageFits

\* An image on which no volume is known.
LEMMA NoneMade ==
  ASSUME NEW img, ImageFits(img), NEW d, d = Closed \/ DeviceFits(d, Size(img))
  PROVE  Fits(img, d, <<>>)
BY DEF Fits, MadeFits

\* The list of volumes that are not mounted.
LEMMA ListedFits ==
  ASSUME NEW n, NEW vs \in Seq(Volumes(n))
  PROVE  Listed(vs) \in Seq(Entries(n)) /\ RangesOf(Listed(vs)) = vs
<1> DEFINE entry(i) == [range |-> vs[i], mounted |-> FALSE, readOnly |-> TRUE]
<1>1. Len(vs) \in Nat /\ vs = [i \in 1..Len(vs) |-> vs[i]]
  OBVIOUS
<1>2. \A i \in 1..Len(vs) : vs[i] \in Volumes(n)
  BY ElementOfSeq
<1>3. \A i \in 1..Len(vs) : entry(i) \in Entries(n) /\ entry(i).range = vs[i]
  BY <1>2 DEF Entries
<1>4. Listed(vs) = [i \in 1..Len(vs) |-> entry(i)]
  BY DEF Listed
<1> HIDE DEF entry
<1>5. Listed(vs) \in Seq(Entries(n)) /\ Len(Listed(vs)) = Len(vs)
  BY <1>1, <1>3, <1>4
<1>6. RangesOf(Listed(vs)) = [i \in 1..Len(vs) |-> vs[i]]
  <2>1. RangesOf(Listed(vs)) = [i \in 1..Len(vs) |-> Listed(vs)[i].range]
    BY <1>5 DEF RangesOf
  <2>2. \A i \in 1..Len(vs) : Listed(vs)[i].range = vs[i]
    BY <1>3, <1>4
  <2> QED
    BY <2>1, <2>2
<1> QED
  BY <1>1, <1>5, <1>6

\* A device that gets a list of volumes.
LEMMA MountedFits ==
  ASSUME NEW n, DeviceFits(dev, n), NEW class \in Classes,
         class = "floppy" => ClassBySize(n) = "floppy",
         NEW vs, RangesFit(vs, class, n), NEW d, d = MountedWith(vs, class)
  PROVE  /\ DeviceFits(d, n) /\ d # Closed /\ d.class = class /\ d.mounted
         /\ RangesOf(d.volList) = vs
<1>1. Listed(vs) \in Seq(Entries(n)) /\ RangesOf(Listed(vs)) = vs
  BY ListedFits DEF RangesFit
<1>2. d = [open |-> TRUE, driver |-> dev.driver, geometry |-> dev.geometry, class |-> class,
           readOnly |-> dev.readOnly, writable |-> dev.writable,
           mounted |-> TRUE, volList |-> Listed(vs)]
  <2>1. dev = [open |-> TRUE, driver |-> dev.driver, geometry |-> dev.geometry,
               class |-> dev.class, readOnly |-> dev.readOnly, writable |-> dev.writable,
               mounted |-> dev.mounted, volList |-> dev.volList]
    BY DEF DeviceFits
  <2> DEFINE list == Listed(vs)
  <2>2. d = [dev EXCEPT !.mounted = TRUE, !.class = class, !.volList = list]
    BY DEF MountedWith
  <2> HIDE DEF list
  <2> DEFINE driver == dev.driver
             geometry == dev.geometry
             class0 == dev.class
             readOnly == dev.readOnly
             writable == dev.writable
             mounted == dev.mounted
             list0 == dev.volList
  <2>3. dev = [open |-> TRUE, driver |-> driver, geometry |-> geometry,
               class |-> class0, readOnly |-> readOnly, writable |-> writable,
               mounted |-> mounted, volList |-> list0]
    BY <2>1
  <2> HIDE DEF driver, geometry, class0, readOnly, writable, mounted, list0
  <2>4. d = [open |-> TRUE, driver |-> driver, geometry |-> geometry, class |-> class,
             readOnly |-> readOnly, writable |-> writable,
             mounted |-> TRUE, volList |-> list]
    BY ONLY <2>2, <2>3
  <2> QED
    BY <2>4 DEF list, driver, geometry, readOnly, writable
<1>3. /\ d.open = TRUE /\ d.driver = dev.driver /\ d.geometry = dev.geometry /\ d.class = class
      /\ d.readOnly = dev.readOnly /\ d.writable = dev.writable
      /\ d.mounted = TRUE /\ d.volList = Listed(vs)
  BY <1>2
<1>4. d # Closed
  <2>1. Closed.open = FALSE
    BY DEF Closed
  <2> QED
    BY <1>3, <2>1
<1>5. DeviceFits(d, n)
  BY <1>1, <1>2, <1>3 DEF DeviceFits
<1> QED
  BY <1>1, <1>3, <1>4, <1>5

\* The fields of a device that change when it is mounted.
LEMMA MountedIs ==
  ASSUME NEW n, DeviceFits(dev, n), NEW vs, NEW list, list = Listed(vs),
         NEW d, d = [dev EXCEPT !.mounted = TRUE, !.volList = list]
  PROVE  d = MountedWith(vs, dev.class)
BY DEF DeviceFits, MountedWith

\* adfDevCreate
LEMMA CreateStep ==
  ASSUME CarefulDevices, DeviceInv, NEW g \in Geometries, adfDevCreate(g)
  PROVE  Fits(image', dev', made')
<1> DEFINE n == g.cylinders * g.cylBlocks
<1>1. n \in Nat \ {0} /\ n < Modulus /\ IsGeometry(g, n)
  <2>1. g.cylinders \in Nat \ {0} /\ g.cylBlocks \in Nat \ {0}
    BY DeviceAssumption
  <2>2. n \in Nat \ {0}
    BY <2>1, Product
  <2>3. n < Modulus
    BY DEF CarefulDevices
  <2> QED
    BY <2>1, <2>2, <2>3 DEF IsGeometry
<1> HIDE DEF n
<1>2. /\ made' = <<>>
      /\ \E content \in {Blank, Data} : image' = [s \in 0..(n - 1) |-> content]
      /\ \E driver \in {"dump", "ramdisk"} :
           dev' = Device(driver, g, ClassBySize(n), "readwrite")
  BY DEF adfDevCreate, adfCreateDumpDevice, ramdiskCreate, n
<1>3. ImageFits(image') /\ Size(image') = n
  BY <1>1, <1>2, EmptyFits
<1>4. ClassBySize(n) \in Classes /\ "readwrite" \in Modes
  BY ClassOfSize DEF Modes
<1>5. DeviceFits(dev', n)
  BY <1>1, <1>2, <1>4, NewDeviceFits
<1> QED
  BY <1>2, <1>3, <1>5, NoneMade

\* adfDevOpen
LEMMA OpenStep ==
  ASSUME DeviceInv, NEW mode \in Modes, adfDevOpen(mode)
  PROVE  Fits(image', dev', made')
<1>1. /\ image # NoImage /\ dev' = Opened(image, mode) /\ image' = image /\ made' = made
  BY DEF adfDevOpen
<1>2. ImageFits(image) /\ MadeFits(image, dev, made)
  BY <1>1 DEF DeviceInv, Fits
<1>3. DeviceFits(dev', Size(image)) /\ dev'.class = ClassOf(image) /\ ~dev'.mounted
  BY <1>1, <1>2, OpenedFits
<1>4. MadeFits(image, dev', made)
  BY <1>2, <1>3 DEF MadeFits
<1> QED
  BY <1>1, <1>2, <1>3, <1>4 DEF Fits

\* adfDevClose
LEMMA CloseStep ==
  ASSUME DeviceInv, adfDevClose
  PROVE  dev' = Closed /\ ((image' = NoImage /\ made' = <<>>) \/ Fits(image', dev', made'))
<1>1. dev.open /\ dev' = Closed
  BY DEF adfDevClose, ramdiskRelease, adfReleaseDumpDevice
<1>2. \/ image' = NoImage /\ made' = <<>>
      \/ image' = image /\ made' = made
  BY DEF adfDevClose, ramdiskRelease, adfReleaseDumpDevice
<1>3. ImageFits(image) /\ MadeFits(image, dev, made)
  BY <1>1, OpenFits
<1>4. MadeFits(image, Closed, made)
  BY <1>3 DEF MadeFits
<1> QED
  BY <1>1, <1>2, <1>3, <1>4 DEF Fits

\* adfDevMount
LEMMA MountStep ==
  ASSUME DeviceInv, adfDevMount
  PROVE  Fits(image', dev', made')
<1> DEFINE vs == Found(image, dev)
           n == Size(image)
<1>1. /\ dev.open /\ vs # Failed /\ image' = image /\ made' = made
      /\ dev' = [dev EXCEPT !.mounted = TRUE, !.volList = Listed(vs)]
  BY DEF adfDevMount, Idle
<1>2. ImageFits(image) /\ MadeFits(image, dev, made) /\ DeviceFits(dev, n) /\ dev # Closed
  BY <1>1, OpenFits
<1>3. RangesFit(vs, dev.class, n)
  BY <1>1, <1>2, FoundFits
<1>4. made # <<>> => MadeOn(image, made, ClassOf(image)) /\ vs = made
  <2>1. made # <<>> => MadeOn(image, made, ClassOf(image)) /\ MadeOn(image, made, dev.class)
    BY <1>2 DEF MadeFits
  <2>2. IsGeometry(dev.geometry, n)
    BY <1>2 DEF DeviceFits
  <2> QED
    BY <1>2, <2>1, <2>2, FoundIsMade
<1>5. dev.class \in Classes /\ (dev.class = "floppy" => ClassBySize(n) = "floppy")
  BY <1>2 DEF DeviceFits
<1> HIDE DEF vs, n
<1>6. dev' = MountedWith(vs, dev.class)
  <2> DEFINE list == Listed(vs)
  <2>1. dev' = [dev EXCEPT !.mounted = TRUE, !.volList = list]
    BY <1>1
  <2>2. list = Listed(vs)
    OBVIOUS
  <2> HIDE DEF list
  <2> QED
    BY <1>2, <2>1, <2>2, MountedIs
<1>7. DeviceFits(dev', n) /\ dev'.class = dev.class /\ RangesOf(dev'.volList) = vs
  BY <1>2, <1>3, <1>5, <1>6, MountedFits
<1>8. MadeFits(image, dev', made)
  BY <1>2, <1>4, <1>7 DEF MadeFits
<1> QED
  BY <1>1, <1>2, <1>7, <1>8 DEF Fits, n

\* adfDevUnMount
LEMMA UnMountStep ==
  ASSUME DeviceInv, adfDevUnMount
  PROVE  Fits(image', dev', made')
<1> DEFINE n == Size(image)
<1>1. /\ dev.open /\ image' = image /\ made' = made
      /\ dev' = [dev EXCEPT !.mounted = FALSE, !.volList = <<>>]
  BY DEF adfDevUnMount
<1>2. ImageFits(image) /\ MadeFits(image, dev, made) /\ DeviceFits(dev, n) /\ dev # Closed
  BY <1>1, OpenFits
<1>3. dev' = [open |-> TRUE, driver |-> dev.driver, geometry |-> dev.geometry,
              class |-> dev.class, readOnly |-> dev.readOnly, writable |-> dev.writable,
              mounted |-> FALSE, volList |-> <<>>]
  BY <1>1, <1>2 DEF DeviceFits
<1>4. /\ dev'.open = TRUE /\ dev'.driver = dev.driver /\ dev'.geometry = dev.geometry
      /\ dev'.class = dev.class /\ dev'.readOnly = dev.readOnly
      /\ dev'.writable = dev.writable /\ dev'.mounted = FALSE /\ dev'.volList = <<>>
  BY <1>3
<1>5. <<>> \in Seq(Entries(n)) /\ RangesFit(RangesOf(<<>>), dev.class, n)
  BY EmptyRangesFit
<1> HIDE DEF n
<1>6. DeviceFits(dev', n)
  BY <1>2, <1>3, <1>4, <1>5 DEF DeviceFits
<1>7. MadeFits(image, dev', made)
  BY <1>2, <1>4 DEF MadeFits
<1> QED
  BY <1>1, <1>2, <1>6, <1>7 DEF Fits, n


-----------------------------------------------------------------------------
(* Making volumes                                                           *)

\* All cylinders of the device.
LEMMA AllCylinders ==
  ASSUME NEW n \in Nat \ {0}, n < Modulus, NEW g, IsGeometry(g, n)
  PROVE  NewVolume(g.cylBlocks, 0, g.cylinders) = Whole(n) /\ InImage(Whole(n), n)
<1>1. /\ g.cylBlocks * 0 = 0 /\ 0 + g.cylBlocks * g.cylinders - 1 = n - 1
      /\ adfVolCalcRootBlk(0, n - 1) = n \div 2
  <2>1. g.cylinders \in Nat /\ g.cylBlocks \in Nat /\ g.cylinders * g.cylBlocks = n
    BY DEF IsGeometry
  <2>2. g.cylBlocks * g.cylinders = n /\ g.cylBlocks * 0 = 0
    BY <2>1
  <2> QED
    BY <2>2 DEF adfVolCalcRootBlk
<1>2. NewVolume(g.cylBlocks, 0, g.cylinders) = Whole(n)
  BY <1>1 DEF NewVolume, Whole
<1>3. InImage(Whole(n), n)
  <2>1. /\ Whole(n).first = 0 /\ Whole(n).last = n - 1 /\ Whole(n).root = n \div 2
    BY DEF Whole, Volume
  <2> QED
    BY <1>1, <2>1 DEF InImage
<1> QED
  BY <1>2, <1>3

\* Programs with the habits make volumes of which all bitmap pages can be
\* listed and read.
LEMMA SuitableMayMake ==
  ASSUME CarefulDevices, NEW n, NEW v, InImage(v, n), NEW left, Suitable(v, left)
  PROVE  MayMake(v, left, n)
<1>1. "one_list_of_pages" \in Habits /\ "low_partition" \in Habits
  BY DEF CarefulDevices, HabitKinds
<1> QED
  BY <1>1 DEF Suitable, MayMake

\* The class an image is opened with that begins with a boot block.
LEMMA BootClass ==
  ASSUME NEW img, img[0].kind = "boot"
  PROVE  /\ ClassOf(img) \in {"floppy", "hardfile"}
         /\ ClassBySize(Size(img)) = "floppy" => ClassOf(img) = "floppy"
<1>1. ~HasRdb(img)
  BY DEF HasRdb, IsRdsk
<1>2. ClassBySize(Size(img)) \in Classes
  BY ClassOfSize
<1> QED
  BY <1>1, <1>2 DEF ClassOf, Classes

\* After a call that failed and wrote blocks of volumes, or nothing at all.
LEMMA FailedFits ==
  ASSUME ImageFits(image), MadeFits(image, dev, made), DeviceFits(dev, Size(image)),
         dev # Closed, NEW after, Spoils(IO, after, Size(image)), ~after.ok, NEW vs,
         Writes(after, vs), dev' = dev \/ dev' = Closed
  PROVE  Fits(image', dev', made')
<1> DEFINE n == Size(image)
<1>1. /\ image' = after.image /\ after.writable = IO.writable
      /\ made' = IF after.writable THEN <<>> ELSE made
      /\ ~IO.writable => after.image = IO.image
  BY DEF Writes, Spoils
<1>2. IO.image = image
  BY IOIs
<1>3. ImageFits(image') /\ Size(image') = n
  <2>1. ImageFits(IO.image) /\ n = Size(IO.image)
    BY <1>2
  <2> HIDE DEF n
  <2>2. Spoils(IO, after, n)
    BY DEF n
  <2>3. ImageFits(after.image) /\ Size(after.image) = n
    BY <2>1, <2>2, SpoiledFits
  <2> QED
    BY <1>1, <2>3
<1>4. dev' = Closed \/ DeviceFits(dev', Size(image'))
  BY <1>3
<1>5. MadeFits(image', dev', made')
  <2>1. CASE after.writable
    BY <1>1, <2>1 DEF MadeFits
  <2>2. CASE ~after.writable
    <3>1. image' = image /\ made' = made
      BY <1>1, <1>2, <2>2
    <3> QED
      BY <3>1 DEF MadeFits
  <2> QED
    BY <2>1, <2>2
<1> QED
  BY <1>3, <1>4, <1>5 DEF Fits

\* A volume is made of all blocks of the device (adfCreateFlop, adfCreateHdFile).
LEMMA SingleCreated ==
  ASSUME DeviceInv, dev.open, NEW n, n = Size(image), NEW v, v = Whole(n), NEW left,
         MayMake(v, left, n), NEW dircache \in BOOLEAN,
         NEW class \in {"floppy", "hardfile"}, class = "hardfile" => n % 2 = 0,
         class = "floppy" => ClassBySize(n) = "floppy",
         NEW after, after = adfVolCreate(IO, v, dev.readOnly, dircache, left),
         Finish(after, <<v>>, class)
  PROVE  Fits(image', dev', made') /\ Guarded
<1>1. ImageFits(image) /\ MadeFits(image, dev, made) /\ DeviceFits(dev, n) /\ dev # Closed
  BY OpenFits
<1>2. n \in Nat \ {0} /\ n < Modulus
  BY <1>1 DEF ImageFits
<1>3. IsIO(IO, n) /\ dev.readOnly \in BOOLEAN /\ IO.image = image
  BY <1>1, IOIs DEF DeviceFits
<1>4. Creates(IO, after, n, v)
  BY <1>3, VolumeMade
<1>5. Spoils(IO, after, n)
  BY <1>4, ChangesSpoils DEF Creates
<1>6. ASSUME ~after.ok PROVE Fits(image', dev', made')
  BY <1>1, <1>5, <1>6, FailedFits DEF Finish
<1>7. ASSUME after.ok PROVE Fits(image', dev', made')
  <2>1. image' = after.image /\ made' = <<v>> /\ dev' = MountedWith(<<v>>, class)
    BY <1>7 DEF Finish, Writes
  <2>2. VolumeStands(image', v) /\ image'[v.first] = Boot(v.root)
    BY <1>4, <1>7, <2>1 DEF Creates
  <2>3. ImageFits(image') /\ Size(image') = n
    <3>1. ImageFits(IO.image) /\ n = Size(IO.image)
      BY <1>1, <1>3
    <3>2. ImageFits(after.image) /\ Size(after.image) = n
      BY <1>5, <3>1, SpoiledFits
    <3> QED
      BY <2>1, <3>2
  <2>4. v.first = 0 /\ v.root = n \div 2 /\ v = Volume(0, n - 1, n \div 2)
    BY DEF Whole, Volume
  <2>5. image'[0].kind = "boot" /\ image'[0].root = n \div 2
    BY <2>2, <2>4 DEF Boot
  <2>6. SingleFits(image', <<v>>)
    BY <2>2, <2>3, <2>5 DEF SingleFits, BootLeads
  <2>7. MadeOn(image', <<v>>, class)
    BY <2>3, <2>6 DEF MadeOn
  <2>8. MadeOn(image', <<v>>, ClassOf(image'))
    <3>1. /\ ClassOf(image') \in {"floppy", "hardfile"}
          /\ class = "floppy" => ClassOf(image') = "floppy"
      BY <2>3, <2>5, BootClass
    <3> QED
      BY <2>3, <2>6, <3>1 DEF MadeOn
  <2>9. RangesFit(<<v>>, class, n)
    <3>1. n - 1 \in 0..(n - 1) /\ n \div 2 \in -1..(n - 1)
      BY <1>2
    <3>2. class \in Classes /\ class # "harddisk"
      BY DEF Classes
    <3> QED
      BY <1>2, <2>4, <3>1, <3>2, OneRangeFits
  <2> DEFINE vs == <<v>>
  <2> HIDE DEF vs
  <2>10. DeviceFits(dev', n) /\ dev'.class = class /\ RangesOf(dev'.volList) = vs
    <3>1. dev' = MountedWith(vs, class) /\ RangesFit(vs, class, n) /\ class \in Classes
      BY <2>1, <2>9 DEF vs, Classes
    <3> QED
      BY <1>1, <3>1, MountedFits
  <2>11. MadeFits(image', dev', made')
    BY <2>1, <2>7, <2>8, <2>10 DEF MadeFits, vs
  <2> QED
    BY <2>3, <2>10, <2>11 DEF Fits
<1>8. Guarded
  BY <1>3, <1>4, IOIs, <1>1 DEF Creates, Changes, Finish, Writes, Guarded
<1> QED
  BY <1>6, <1>7, <1>8

\* adfCreateFlop
LEMMA FlopStep ==
  ASSUME CarefulDevices, DeviceInv, NEW dircache \in BOOLEAN, NEW left,
         adfCreateFlop(dircache, left)
  PROVE  Fits(image', dev', made') /\ Guarded
<1> DEFINE v == NewVolume(dev.geometry.cylBlocks, 0, FlopCylinders)
           n == Size(image)
           after == adfVolCreate(IO, v, dev.readOnly, dircache, left)
<1>1. dev.open /\ Suitable(v, left) /\ Finish(after, <<v>>, dev.class)
  BY DEF adfCreateFlop, Idle
<1>2. dev.class = "floppy" /\ dev.geometry.cylinders = FlopCylinders
  BY DEF adfCreateFlop, CarefulDevices, HabitKinds
<1>3. ImageFits(image) /\ DeviceFits(dev, n)
  BY <1>1, OpenFits
<1>4. n \in Nat \ {0} /\ n < Modulus /\ IsGeometry(dev.geometry, n)
      /\ ClassBySize(n) = "floppy"
  BY <1>2, <1>3 DEF ImageFits, DeviceFits
<1>5. v = Whole(n) /\ InImage(v, n)
  BY <1>2, <1>4, AllCylinders
<1>6. n = Size(image) /\ after = adfVolCreate(IO, v, dev.readOnly, dircache, left)
  OBVIOUS
<1> HIDE DEF v, n, after
<1>7. MayMake(v, left, n)
  BY <1>1, <1>5, SuitableMayMake
<1> QED
  BY <1>1, <1>2, <1>4, <1>5, <1>6, <1>7, SingleCreated

\* adfCreateHdFile
LEMMA HdFileStep ==
  ASSUME CarefulDevices, DeviceInv, NEW dircache \in BOOLEAN, NEW left,
         adfCreateHdFile(dircache, left)
  PROVE  Fits(image', dev', made') /\ Guarded
<1> DEFINE v == NewVolume(dev.geometry.cylBlocks, 0, dev.geometry.cylinders)
           n == Size(image)
           after == adfVolCreate(IO, v, dev.readOnly, dircache, left)
<1>1. /\ dev.open /\ Suitable(v, left) /\ Finish(after, <<v>>, "hardfile")
      /\ SizeInBlocks(v) % 2 = 0
  BY DEF adfCreateHdFile, Idle, CarefulDevices, HabitKinds
<1>2. ImageFits(image) /\ DeviceFits(dev, n)
  BY <1>1, OpenFits
<1>3. n \in Nat \ {0} /\ n < Modulus /\ IsGeometry(dev.geometry, n)
  BY <1>2 DEF ImageFits, DeviceFits
<1>4. v = Whole(n) /\ InImage(v, n)
  BY <1>3, AllCylinders
<1>5. n % 2 = 0
  <2>1. v.last - v.first + 1 = n
    BY <1>3, <1>4 DEF Whole, Volume
  <2> QED
    BY <1>1, <2>1 DEF SizeInBlocks
<1>6. n = Size(image) /\ after = adfVolCreate(IO, v, dev.readOnly, dircache, left)
  OBVIOUS
<1> HIDE DEF v, n, after
<1>7. MayMake(v, left, n)
  BY <1>1, <1>4, SuitableMayMake
<1> QED
  BY <1>1, <1>4, <1>5, <1>6, <1>7, SingleCreated


\* The image with partitions and a header in front of them.
LEMMA HeaderFits ==
  ASSUME NEW n, NEW io, ImageFits(io.image), Size(io.image) = n,
         NEW parts, IsLayout(parts), NEW g, IsGeometry(g, n), ApartOn(parts, g),
         NEW vs \in Seq(Volumes(n)), Len(vs) = Len(parts), IsVolumesOf(vs, parts, g),
         \A i \in 1..Len(parts) : VolumeStands(io.image, vs[i]),
         NEW img, img = WithHeader(io, Header(g, parts), Len(parts) + 3, n).image
  PROVE  ImageFits(img) /\ Size(img) = n /\ PartsFit(img, vs, parts)
<1> DEFINE m == Len(parts)
           h == Header(g, parts)
           old == io.image
<1>1. n \in Nat \ {0} /\ n < Modulus /\ IsImage(old, n) /\ BootsFit(old, n)
  BY DEF ImageFits
<1>2. m \in Nat \ {0} /\ \A i \in 1..m : parts[i].start \in Nat /\ parts[i].len \in Nat \ {0}
  BY LayoutParts
<1>3. /\ m + 2 < n
      /\ \A i \in 1..m : InImage(vs[i], n) /\ vs[i].first > m + 2
  BY <1>1, PartitionRanges
<1>4. /\ h[1] = Rdsk(g, m) /\ h[m + 2] = Fshd(m) /\ h[m + 3] = Lseg
      /\ \A i \in 1..m : h[i + 1] = Partition(parts[i], NextPart(i, m))
  BY HeaderBlocks
<1>5. img = [p \in 0..(n - 1) |-> IF p < m + 3 THEN h[p + 1] ELSE old[p]]
  BY DEF WithHeader
<1> HIDE DEF m, h, old
<1>6. IsImage(img, n) /\ Size(img) = n
  <2>1. IsImage(img, n)
    BY <1>5 DEF IsImage
  <2> QED
    BY <1>1, <2>1, ImageSize
<1>7. /\ \A i \in 1..m : img[i] = Partition(parts[i], NextPart(i, m))
      /\ img[0] = Rdsk(g, m) /\ img[m + 1] = Fshd(m) /\ img[m + 2] = Lseg
      /\ \A p \in 0..(n - 1) : p >= m + 3 => img[p] = old[p]
  <2>1. \A i \in 1..m : i \in 0..(n - 1) /\ i < m + 3
    BY <1>1, <1>2, <1>3
  <2>2. \A i \in 1..m : img[i] = h[i + 1]
    BY <1>5, <2>1
  <2>3. /\ 0 \in 0..(n - 1) /\ m + 1 \in 0..(n - 1) /\ m + 2 \in 0..(n - 1)
        /\ 0 < m + 3 /\ m + 1 < m + 3 /\ m + 2 < m + 3
        /\ 0 + 1 = 1 /\ (m + 1) + 1 = m + 2 /\ (m + 2) + 1 = m + 3
    BY <1>1, <1>2, <1>3
  <2>4. img[0] = h[0 + 1] /\ img[m + 1] = h[(m + 1) + 1] /\ img[m + 2] = h[(m + 2) + 1]
    BY <1>5, <2>3
  <2>5. \A p \in 0..(n - 1) : p >= m + 3 => img[p] = old[p]
    <3> SUFFICES ASSUME NEW p \in 0..(n - 1), p >= m + 3 PROVE img[p] = old[p]
      OBVIOUS
    <3>1. ~(p < m + 3)
      BY <1>1, <1>2
    <3> QED
      BY <1>5, <3>1
  <2> QED
    BY <1>4, <2>2, <2>3, <2>4, <2>5
<1>8. \A i \in 1..m : img[i].kind = "PART"
  <2>1. \A part, next : Partition(part, next).kind = "PART"
    BY DEF Partition
  <2> QED
    BY <1>7, <2>1
<1>9. BootsFit(img, n)
  <2> SUFFICES ASSUME NEW p \in 0..(n - 1), img[p].kind = "boot"
               PROVE  img[p].root \in 0..(Modulus - 1)
    BY DEF BootsFit
  <2>1. p = 0 \/ p \in 1..m \/ p = m + 1 \/ p = m + 2 \/ p >= m + 3
    <3>1. p \in Nat /\ m \in Nat
      BY <1>1, <1>2
    <3> QED
      BY <3>1
  <2>2. CASE p >= m + 3
    BY <1>1, <1>7, <2>2 DEF BootsFit
  <2>3. CASE p \in 1..m
    BY <1>7, <1>8, <2>3
  <2>4. CASE p = 0
    BY <1>7, <2>4 DEF Rdsk
  <2>5. CASE p = m + 1
    BY <1>7, <2>5 DEF Fshd
  <2>6. CASE p = m + 2
    BY <1>7, <2>6 DEF Lseg
  <2> QED
    BY <2>1, <2>2, <2>3, <2>4, <2>5, <2>6
<1>10. img[0].kind = "RDSK" /\ img[0].geometry = g /\ img[0].partitionList = 1
  BY <1>7 DEF Rdsk
<1>11. TableOf(img, n, parts) /\ Intact(img, parts) /\ IsRdsk(img[0])
  <2>1. \A i \in 1..m : img[i].kind = "PART"
    BY <1>8
  <2> QED
    BY <1>7, <1>10, <2>1 DEF TableOf, Intact, IsRdsk, m
<1>12. ImageFits(img)
  <2>1. TableFits(img, n)
    BY <1>11 DEF TableFits
  <2> QED
    BY <1>1, <1>6, <1>9, <2>1 DEF ImageFits
<1>13. \A i \in 1..m : VolumeStands(img, vs[i])
  <2> SUFFICES ASSUME NEW i \in 1..m PROVE VolumeStands(img, vs[i])
    OBVIOUS
  <2> DEFINE w == vs[i]
  <2>1. InImage(w, n) /\ w.first > m + 2 /\ VolumeStands(old, w)
    BY <1>3 DEF m, old
  <2> HIDE DEF w
  <2>2. w.first \in Nat
    BY <2>1 DEF InImage
  <2>3. \A p \in 0..(n - 1) : w.first <= p /\ p <= w.last => img[p] = old[p]
    <3>1. ASSUME NEW p \in 0..(n - 1), w.first <= p
          PROVE  p >= m + 3
      <4>1. p \in Int /\ m \in Int /\ w.first \in Int /\ w.first > m + 2
        BY <1>1, <1>2, <2>1, <2>2
      <4> QED
        BY <3>1, <4>1
    <3> QED
      BY <1>7, <3>1
  <2>4. VolumeStands(img, w)
    BY ONLY <2>1, <2>3, VolumeKept
  <2> QED
    BY <2>4 DEF w
<1>14. vs = [i \in 1..m |-> NewVolume(g.cylBlocks, parts[i].start, parts[i].len)]
  <2>1. vs = [i \in 1..m |-> vs[i]]
    BY DEF m
  <2>2. \A i \in 1..m : vs[i] = NewVolume(g.cylBlocks, parts[i].start, parts[i].len)
    BY DEF IsVolumesOf, m
  <2> QED
    BY <2>1, <2>2
<1>15. PartsFit(img, vs, parts)
  BY <1>6, <1>10, <1>11, <1>13, <1>14 DEF PartsFit, m
<1> QED
  BY <1>6, <1>12, <1>15


\* The volumes of the partitions a program with the habits asks for.
LEMMA PartitionsFit ==
  ASSUME CarefulDevices, NEW n \in Nat \ {0}, n < Modulus, IsGeometry(dev.geometry, n),
         NEW parts \in Layouts, Apart(parts), NEW left,
         \A i \in 1..Len(parts) : Suitable(PartitionVolume(parts[i]), left),
         NEW vs, vs = [i \in 1..Len(parts) |-> PartitionVolume(parts[i])]
  PROVE  /\ IsLayout(parts) /\ ApartOn(parts, dev.geometry)
         /\ IsVolumesOf(vs, parts, dev.geometry)
         /\ vs \in Seq(Volumes(n)) /\ Len(vs) = Len(parts)
         /\ MayMakeAll(vs, Len(parts), left, n) /\ RangesFit(vs, "harddisk", n)
<1> DEFINE g == dev.geometry
           m == Len(parts)
<1>1. IsLayout(parts) /\ ApartOn(parts, g)
  BY DeviceAssumption DEF IsLayout, Apart, ApartOn
<1>2. m \in Nat \ {0}
  BY <1>1, LayoutParts
<1>3. \A i \in 1..m : vs[i] = PartitionVolume(parts[i])
  OBVIOUS
<1>4. IsVolumesOf(vs, parts, g)
  BY <1>3 DEF IsVolumesOf, PartitionVolume
<1>5. /\ \A i \in 1..m : InImage(vs[i], n) /\ vs[i].first > m + 2
      /\ NoneOverlap(vs, m)
  <2> HIDE DEF g
  <2>1. IsGeometry(g, n)
    BY DEF g
  <2> QED
    BY <1>1, <1>4, <2>1, PartitionRanges
<1>6. \A i \in 1..m : MayMake(vs[i], left, n)
  BY <1>3, <1>5, SuitableMayMake
<1>7. ASSUME NEW i \in 1..m
      PROVE  vs[i] \in Volumes(n) /\ vs[i].first <= vs[i].last
  <2>1. vs[i] = Volume(vs[i].first, vs[i].last, vs[i].root)
    BY <1>3 DEF PartitionVolume, NewVolume, Volume
  <2> QED
    BY <1>5, <2>1, InVolumes DEF InImage
<1>8. vs \in Seq(Volumes(n)) /\ Len(vs) = m
  <2> DEFINE vol(i) == PartitionVolume(parts[i])
  <2>1. vs = [i \in 1..m |-> vol(i)] /\ \A i \in 1..m : vol(i) \in Volumes(n)
    BY <1>7
  <2> HIDE DEF vol, m
  <2> QED
    BY <1>2, <2>1
<1> HIDE DEF m, g
<1>9. RangesFit(vs, "harddisk", n)
  BY <1>5, <1>7, <1>8 DEF RangesFit
<1>10. MayMakeAll(vs, m, left, n)
  BY <1>2, <1>5, <1>6 DEF MayMakeAll
<1> QED
  BY <1>1, <1>4, <1>8, <1>9, <1>10 DEF m, g

\* adfCreateHd
LEMMA HdStep ==
  ASSUME CarefulDevices, DeviceInv, NEW parts \in Layouts, NEW left, adfCreateHd(parts, left)
  PROVE  /\ \/ image' = NoImage /\ dev' = Closed /\ made' = <<>>
            \/ Fits(image', dev', made')
         /\ Guarded
<1> DEFINE volumes == CreateVolumes(IO, parts, left)
           vs == [i \in 1..Len(parts) |-> PartitionVolume(parts[i])]
           n == Size(image)
           g == dev.geometry
           header == adfCreateHdHeader(volumes, dev.readOnly, g, parts)
<1>1. /\ dev.open /\ Apart(parts)
      /\ \A i \in 1..Len(parts) : Suitable(PartitionVolume(parts[i]), left)
      /\ IF volumes.ok
           THEN Writes(header, vs) /\ dev' = MountedWith(vs, "harddisk")
           ELSE IF dev.driver = "ramdisk" THEN ramdiskRelease
           ELSE Writes(volumes, vs) /\ dev' = Closed
  BY DEF adfCreateHd, Idle, CarefulDevices, HabitKinds
<1>2. ImageFits(image) /\ MadeFits(image, dev, made) /\ DeviceFits(dev, n) /\ dev # Closed
  BY <1>1, OpenFits
<1>3. n \in Nat \ {0} /\ n < Modulus /\ IsGeometry(g, n)
  BY <1>2 DEF ImageFits, DeviceFits
<1>4. /\ IsIO(IO, n) /\ IO.image = image /\ IO.writable = dev.writable
      /\ dev.readOnly \in BOOLEAN /\ dev.writable = ~dev.readOnly
  BY <1>2, IOIs DEF DeviceFits
<1>5. vs = [i \in 1..Len(parts) |-> PartitionVolume(parts[i])]
  OBVIOUS
<1>6. volumes = CreateVolumes(IO, parts, left)
  OBVIOUS
<1>7. \A i \in 1..Len(parts) : vs[i] = PartitionVolume(parts[i])
  OBVIOUS
<1>8. header = adfCreateHdHeader(volumes, dev.readOnly, g, parts)
  OBVIOUS
<1>9. IsGeometry(dev.geometry, n) /\ g = dev.geometry
  BY <1>3
<1> HIDE DEF volumes, vs, n, g, header
<1>10. /\ IsLayout(parts) /\ ApartOn(parts, g) /\ IsVolumesOf(vs, parts, g)
       /\ vs \in Seq(Volumes(n)) /\ Len(vs) = Len(parts)
       /\ MayMakeAll(vs, Len(parts), left, n) /\ RangesFit(vs, "harddisk", n)
  <2>1. /\ IsLayout(parts) /\ ApartOn(parts, dev.geometry) /\ IsVolumesOf(vs, parts, dev.geometry)
        /\ vs \in Seq(Volumes(n)) /\ Len(vs) = Len(parts)
        /\ MayMakeAll(vs, Len(parts), left, n) /\ RangesFit(vs, "harddisk", n)
    BY <1>1, <1>3, <1>5, <1>9, PartitionsFit
  <2> QED
    BY <1>9, <2>1
<1>11. /\ Spoils(IO, volumes, n)
       /\ volumes.ok =>
            IO.writable /\ \A i \in 1..Len(parts) : VolumeStands(volumes.image, vs[i])
  <2>1. \A i \in 1..Len(parts) : parts[i].dircache \in BOOLEAN
    BY <1>10, LayoutParts
  <2> QED
    BY <1>4, <1>6, <1>7, <1>10, <2>1, VolumesMade
<1>12. ASSUME ~volumes.ok
       PROVE  \/ image' = NoImage /\ dev' = Closed /\ made' = <<>>
              \/ Fits(image', dev', made')
  <2>1. CASE dev.driver = "ramdisk"
    BY <1>1, <1>12, <2>1 DEF ramdiskRelease
  <2>2. CASE dev.driver # "ramdisk"
    <3>1. Writes(volumes, vs) /\ dev' = Closed
      BY <1>1, <1>12, <2>2
    <3>2. Spoils(IO, volumes, Size(image)) /\ DeviceFits(dev, Size(image))
      BY <1>2, <1>11 DEF n
    <3> QED
      BY <1>2, <1>12, <3>1, <3>2, FailedFits
  <2> QED
    BY <2>1, <2>2
<1>13. ASSUME volumes.ok PROVE Fits(image', dev', made')
  <2>1. ImageFits(volumes.image) /\ Size(volumes.image) = n
    <3>1. ImageFits(IO.image) /\ n = Size(IO.image)
      BY <1>2, <1>4 DEF n
    <3> QED
      BY <1>11, <3>1, SpoiledFits
  <2>2. IsIO(volumes, n) /\ volumes.writable /\ ~dev.readOnly
    BY <1>4, <1>11, <1>13 DEF Spoils
  <2>3. Len(parts) + 2 < n
    BY <1>3, <1>10, PartitionRanges
  <2> DEFINE w == WithHeader(volumes, Header(g, parts), Len(parts) + 3, n)
  <2>4. header = w
    BY <1>3, <1>4, <1>8, <1>10, <1>13, <2>2, <2>3, HeaderWritten
  <2>5. w.ok = TRUE
    BY DEF WithHeader
  <2>6. image' = w.image /\ made' = vs /\ dev' = MountedWith(vs, "harddisk")
    BY <1>1, <1>13, <2>4, <2>5 DEF Writes
  <2>7. ImageFits(image') /\ Size(image') = n /\ PartsFit(image', vs, parts)
    <3> DEFINE img == w.image
    <3>1. img = WithHeader(volumes, Header(g, parts), Len(parts) + 3, n).image
      OBVIOUS
    <3> HIDE DEF img
    <3>2. ImageFits(img) /\ Size(img) = n /\ PartsFit(img, vs, parts)
      BY <1>3, <1>10, <1>11, <1>13, <2>1, <3>1, HeaderFits
    <3> QED
      BY <2>6, <3>2 DEF img
  <2> HIDE DEF w
  <2>8. MadeOn(image', vs, "harddisk") /\ ClassOf(image') = "harddisk"
    <3>1. IsRdsk(image'[0])
      BY <2>7 DEF PartsFit
    <3> QED
      BY <2>7, <3>1 DEF MadeOn, ClassOf, HasRdb
  <2>9. DeviceFits(dev', n) /\ dev'.class = "harddisk" /\ RangesOf(dev'.volList) = vs
    <3>1. "harddisk" \in Classes
      BY DEF Classes
    <3> QED
      BY <1>2, <1>10, <2>6, <3>1, MountedFits
  <2>10. MadeFits(image', dev', made')
    BY <2>6, <2>8, <2>9 DEF MadeFits
  <2> QED
    BY <2>7, <2>9, <2>10 DEF Fits
<1>14. Guarded
  <2> SUFFICES ASSUME ~dev.writable PROVE image' = image
    BY DEF Guarded
  <2>1. ~volumes.ok /\ volumes.image = image
    BY <1>4, <1>11 DEF Spoils
  <2>2. dev.driver # "ramdisk"
    BY <1>2 DEF DeviceFits
  <2> QED
    BY <1>1, <2>1, <2>2 DEF Writes
<1> QED
  BY <1>12, <1>13, <1>14

\* A program writes block 0 of the device.
LEMMA OverwriteStep ==
  ASSUME DeviceInv, dev.open, Overwrite
  PROVE  Fits(image', dev', made') /\ Guarded
<1> DEFINE n == Size(image)
           io == adfDevWriteBlock(IO, 0, Data)
<1>1. image' = io.image /\ made' = (IF io.ok THEN <<>> ELSE made) /\ dev' = dev
  BY DEF Overwrite
<1>2. ImageFits(image) /\ MadeFits(image, dev, made) /\ DeviceFits(dev, n) /\ dev # Closed
  BY OpenFits
<1>3. IsIO(IO, n) /\ IO.image = image
  BY <1>2, IOIs
<1>4. io = adfDevWriteBlock(IO, 0, Data)
  OBVIOUS
<1> HIDE DEF io
<1>5. Wrote(IO, io, n, 0, Data)
  BY <1>3, <1>4, DevWrites
<1>6. ASSUME ~io.ok PROVE Fits(image', dev', made')
  <2>1. image' = image /\ made' = made
    BY <1>1, <1>3, <1>5, <1>6 DEF Wrote
  <2> QED
    BY <1>1, <1>2, <2>1 DEF Fits
<1>7. ASSUME io.ok PROVE Fits(image', dev', made')
  <2>1. IsIO(io, n) /\ io.writable = IO.writable /\ IO.ok /\ IO.writable
        /\ io.image = [IO.image EXCEPT ![0] = Data]
    BY <1>5, <1>7 DEF Wrote
  <2>2. OfVolume(Data)
    BY DEF OfVolume, Data
  <2>3. \A p \in 0..(n - 1) : io.image[p] = IO.image[p] \/ OfVolume(io.image[p])
    <3>1. DOMAIN IO.image = 0..(n - 1)
      BY <1>3 DEF IsIO, IsImage
    <3> QED
      BY <2>1, <2>2, <3>1
  <2>4. Spoils(IO, io, n)
    BY <2>1, <2>3 DEF Spoils
  <2>5. ImageFits(io.image) /\ Size(io.image) = n
    <3>1. ImageFits(IO.image) /\ n = Size(IO.image)
      BY <1>2, <1>3
    <3> HIDE DEF n
    <3> QED
      BY <2>4, <3>1, SpoiledFits
  <2>6. made' = <<>> /\ ImageFits(image') /\ DeviceFits(dev', Size(image'))
    BY <1>1, <1>2, <1>7, <2>5
  <2> QED
    BY <2>6, NoneMade
<1>8. Guarded
  BY <1>1, <1>2, <1>3, <1>5, IOIs DEF Wrote, Guarded, n
<1> QED
  BY <1>6, <1>7, <1>8


-----------------------------------------------------------------------------
(* The calls on a volume                                                    *)

\* The volumes in the list of an open device.
LEMMA ListIs ==
  ASSUME NEW n, DeviceFits(dev, n), NEW i \in 1..Len(dev.volList)
  PROVE  /\ dev.volList[i] \in Entries(n) /\ dev.mounted
         /\ RangesOf(dev.volList)[i] = dev.volList[i].range
         /\ Len(dev.volList) \in Nat /\ Len(RangesOf(dev.volList)) = Len(dev.volList)
<1> DEFINE list == dev.volList
<1>1. list \in Seq(Entries(n)) /\ (~dev.mounted => list = <<>>)
  BY DEF DeviceFits
<1>2. Len(list) \in Nat /\ list[i] \in Entries(n)
  BY <1>1, ElementOfSeq, LenProperties
<1>3. dev.mounted
  <2>1. Len(<<>>) = 0
    BY EmptySeq
  <2>2. Len(list) # 0
    BY <1>2
  <2> QED
    BY <1>1, <2>1, <2>2
<1> HIDE DEF list
<1>4. RangesOf(list) = [k \in 1..Len(list) |-> list[k].range]
  BY DEF RangesOf
<1>5. RangesOf(list)[i] = list[i].range /\ Len(RangesOf(list)) = Len(list)
  <2>1. i \in 1..Len(list)
    BY DEF list
  <2> QED
    BY <1>2, <1>4, <2>1
<1> QED
  BY <1>2, <1>3, <1>5 DEF list

\* A volume of the list is mounted, unmounted, or gets another mode.
LEMMA EntryChanged ==
  ASSUME DeviceInv, dev.open, NEW i \in 1..Len(dev.volList),
         NEW e, e \in Entries(Size(image)), e.range = dev.volList[i].range,
         dev' = [dev EXCEPT !.volList[i] = e], image' = image, made' = made
  PROVE  Fits(image', dev', made')
<1> DEFINE n == Size(image)
           list == dev.volList
           list2 == [list EXCEPT ![i] = e]
<1>1. ImageFits(image) /\ MadeFits(image, dev, made) /\ DeviceFits(dev, n) /\ dev # Closed
  BY OpenFits
<1>2. list \in Seq(Entries(n)) /\ Len(list) \in Nat /\ dev.mounted
  <2>1. list \in Seq(Entries(n))
    BY <1>1 DEF DeviceFits
  <2> QED
    BY <1>1, <2>1, ListIs, LenProperties
<1>3. dev = [open |-> TRUE, driver |-> dev.driver, geometry |-> dev.geometry,
             class |-> dev.class, readOnly |-> dev.readOnly, writable |-> dev.writable,
             mounted |-> dev.mounted, volList |-> list]
  BY <1>1 DEF DeviceFits
<1>4. dev' = [dev EXCEPT !.volList = list2]
  OBVIOUS
<1>5. e \in Entries(n) /\ i \in 1..Len(list) /\ e.range = list[i].range
  OBVIOUS
<1> HIDE DEF n, list
<1>6. list2 \in Seq(Entries(n)) /\ Len(list2) = Len(list)
  BY <1>2, <1>5
<1>7. RangesOf(list2) = RangesOf(list)
  <2>1. \A k \in 1..Len(list) : list2[k].range = list[k].range
    <3> SUFFICES ASSUME NEW k \in 1..Len(list) PROVE list2[k].range = list[k].range
      OBVIOUS
    <3>1. DOMAIN list = 1..Len(list)
      BY <1>2, LenProperties
    <3>2. list2[k] = IF k = i THEN e ELSE list[k]
      BY <3>1
    <3> QED
      BY <1>5, <3>2
  <2> HIDE DEF list2
  <2> QED
    BY <1>6, <2>1 DEF RangesOf
<1> HIDE DEF list2
<1>8. /\ dev' = [open |-> TRUE, driver |-> dev.driver, geometry |-> dev.geometry,
                 class |-> dev.class, readOnly |-> dev.readOnly, writable |-> dev.writable,
                 mounted |-> dev.mounted, volList |-> list2]
  <2> DEFINE driver == dev.driver
             geometry == dev.geometry
             class == dev.class
             readOnly == dev.readOnly
             writable == dev.writable
             mounted == dev.mounted
  <2>1. dev = [open |-> TRUE, driver |-> driver, geometry |-> geometry,
               class |-> class, readOnly |-> readOnly, writable |-> writable,
               mounted |-> mounted, volList |-> list]
    BY <1>3
  <2> HIDE DEF driver, geometry, class, readOnly, writable, mounted
  <2>2. dev' = [open |-> TRUE, driver |-> driver, geometry |-> geometry,
                class |-> class, readOnly |-> readOnly, writable |-> writable,
                mounted |-> mounted, volList |-> list2]
    BY ONLY <1>4, <2>1
  <2> QED
    BY <2>2 DEF driver, geometry, class, readOnly, writable, mounted
<1>9. /\ dev'.open = TRUE /\ dev'.driver = dev.driver /\ dev'.geometry = dev.geometry
      /\ dev'.class = dev.class /\ dev'.readOnly = dev.readOnly
      /\ dev'.writable = dev.writable /\ dev'.mounted = dev.mounted /\ dev'.volList = list2
  BY <1>8
<1>10. DeviceFits(dev', n)
  <2>1. RangesOf(dev.volList) = RangesOf(list)
    BY DEF list
  <2> QED
    BY <1>1, <1>2, <1>6, <1>7, <1>8, <1>9, <2>1 DEF DeviceFits
<1>11. MadeFits(image, dev', made)
  <2>1. RangesOf(dev'.volList) = RangesOf(dev.volList)
    BY <1>7, <1>9 DEF list
  <2> QED
    BY <1>1, <1>9, <2>1 DEF MadeFits
<1> QED
  BY <1>1, <1>10, <1>11 DEF Fits, n

\* adfVolMount, adfVolRemount, adfVolUnMount
LEMMA VolMountSteps ==
  ASSUME DeviceInv, NEW i, NEW mode,
         adfVolMount(i, mode) \/ adfVolRemount(i, mode) \/ adfVolUnMount(i)
  PROVE  Fits(image', dev', made')
<1> DEFINE old == dev.volList[i]
           readOnly == mode # "readwrite"
<1>1. dev.open /\ i \in 1..Len(dev.volList) /\ image' = image /\ made' = made
  BY DEF adfVolMount, adfVolRemount, adfVolUnMount
<1>2. DeviceFits(dev, Size(image))
  BY <1>1, OpenFits
<1>3. /\ old \in Entries(Size(image)) /\ readOnly \in BOOLEAN
      /\ dev.volList \in Seq(Entries(Size(image)))
  BY <1>1, <1>2, ListIs DEF DeviceFits
<1>4. DOMAIN dev.volList = 1..Len(dev.volList)
  BY <1>3, LenProperties
<1>5. CASE adfVolMount(i, mode)
  <2> DEFINE e == [old EXCEPT !.mounted = TRUE, !.readOnly = readOnly]
  <2>1. dev' = [dev EXCEPT !.volList[i].mounted = TRUE, !.volList[i].readOnly = readOnly]
    BY <1>5 DEF adfVolMount
  <2>2. dev' = [dev EXCEPT !.volList[i] = e]
    BY <1>1, <1>2, <1>4, <2>1 DEF DeviceFits
  <2>3. e \in Entries(Size(image)) /\ e.range = old.range
    <3>1. e = [old EXCEPT !.mounted = TRUE, !.readOnly = readOnly] /\ FALSE \in BOOLEAN /\ TRUE \in BOOLEAN
      OBVIOUS
    <3> HIDE DEF e, old, readOnly
    <3> QED
      BY <1>3, <3>1 DEF Entries
  <2> HIDE DEF e
  <2> QED
    BY <1>1, <2>2, <2>3, EntryChanged
<1>6. CASE adfVolRemount(i, mode)
  <2> DEFINE e == [old EXCEPT !.readOnly = readOnly]
  <2>1. dev' = [dev EXCEPT !.volList[i] = e]
    BY <1>6 DEF adfVolRemount
  <2>2. e \in Entries(Size(image)) /\ e.range = old.range
    <3>1. e = [old EXCEPT !.readOnly = readOnly] /\ FALSE \in BOOLEAN /\ TRUE \in BOOLEAN
      OBVIOUS
    <3> HIDE DEF e, old, readOnly
    <3> QED
      BY <1>3, <3>1 DEF Entries
  <2> HIDE DEF e
  <2> QED
    BY <1>1, <2>1, <2>2, EntryChanged
<1>7. CASE adfVolUnMount(i)
  <2> DEFINE e == [old EXCEPT !.mounted = FALSE]
  <2>1. dev' = [dev EXCEPT !.volList[i] = e]
    BY <1>7 DEF adfVolUnMount
  <2>2. e \in Entries(Size(image)) /\ e.range = old.range
    <3>1. e = [old EXCEPT !.mounted = FALSE] /\ FALSE \in BOOLEAN /\ TRUE \in BOOLEAN
      OBVIOUS
    <3> HIDE DEF e, old, readOnly
    <3> QED
      BY <1>3, <3>1 DEF Entries
  <2> HIDE DEF e
  <2> QED
    BY <1>1, <2>1, <2>2, EntryChanged
<1> QED
  BY <1>5, <1>6, <1>7


\* The blocks a program asks to be written: free ones of a volume that stands,
\* or none of its blocks.
LEMMA TargetsAre ==
  ASSUME NEW n, NEW v, InImage(v, n), IsImage(image, n),
         NEW pages, NEW cache, NEW free, VolumeIs(image, v, pages, cache, free),
         NEW s \in Targets(v) \ {0}
  PROVE  s \in free \/ ~InVolume(v, s)
<1>1. FreeOnDisk(image, v, adfVolReadBlock(image, v, v.root)) = free
  BY BlocksRead
<1>2. /\ n \in Nat \ {0} /\ n < Modulus /\ Modulus \in Nat
      /\ v.first \in Nat /\ v.last \in Nat /\ v.first <= v.last /\ v.last < n
  BY BlockAssumption DEF InImage
<1>3. s \in free \/ s = SizeInBlocks(v) \/ s = Modulus - 1 \/ s = (Modulus - v.first) % Modulus
  BY <1>1 DEF Targets
<1>4. CASE s = SizeInBlocks(v) \/ s = Modulus - 1
  <2>1. s \in 0..(Modulus - 1) /\ s \notin BlocksOf(v)
    BY <1>2, <1>4 DEF SizeInBlocks, BlocksOf
  <2> QED
    BY <2>1, PhysicalOutside
<1>5. CASE s = (Modulus - v.first) % Modulus
  <2>1. v.first # 0
    <3>1. Modulus % Modulus = 0
      BY <1>2
    <3> QED
      BY <1>2, <1>5, <3>1
  <2>2. (Modulus - v.first) % Modulus = Modulus - v.first
    <3> DEFINE a == Modulus - v.first
    <3>1. a \in 0..(Modulus - 1)
      BY <1>2, <2>1
    <3> HIDE DEF a
    <3>2. a % Modulus = a
      BY <1>2, <3>1, ModSmall
    <3> QED
      BY <3>2 DEF a
  <2>3. s \in 0..(Modulus - 1) /\ s \notin BlocksOf(v)
    BY <1>2, <1>5, <2>1, <2>2 DEF BlocksOf
  <2> QED
    BY <2>3, PhysicalOutside
<1> QED
  BY <1>3, <1>4, <1>5

\* The volume of the list, and the image after blocks of it were written.
LEMMA EntryFits ==
  ASSUME DeviceInv, dev.open, NEW i \in 1..Len(dev.volList), NEW n, Size(image) = n,
         NEW v, dev.volList[i].range = v
  PROVE  /\ v \in Volumes(n) /\ dev.volList[i].readOnly \in BOOLEAN
         /\ made # <<>> => /\ Stand(image, made, n) /\ v = made[i] /\ i \in 1..Len(made)
                           /\ MadeOn(image, made, ClassOf(image))
                           /\ MadeOn(image, made, dev.class)
<1>1. ImageFits(image) /\ MadeFits(image, dev, made) /\ DeviceFits(dev, n) /\ dev # Closed
  BY OpenFits
<1>2. /\ dev.volList[i] \in Entries(n) /\ dev.mounted
      /\ RangesOf(dev.volList)[i] = v /\ Len(RangesOf(dev.volList)) = Len(dev.volList)
  BY <1>1, ListIs
<1>3. v \in Volumes(n) /\ dev.volList[i].readOnly \in BOOLEAN
  BY <1>2 DEF Entries
<1>4. ASSUME made # <<>>
      PROVE  /\ Stand(image, made, n) /\ v = made[i] /\ i \in 1..Len(made)
             /\ MadeOn(image, made, ClassOf(image)) /\ MadeOn(image, made, dev.class)
  <2>1. /\ RangesOf(dev.volList) = made
        /\ MadeOn(image, made, ClassOf(image)) /\ MadeOn(image, made, dev.class)
    BY <1>1, <1>2, <1>4 DEF MadeFits
  <2>2. Stand(image, made, n)
    BY <1>1, <2>1, MadeStands
  <2> QED
    BY <1>2, <2>1, <2>2
<1> QED
  BY <1>3, <1>4

\* Blocks of a volume are written: what is left to show is that the volumes
\* that were made are kept.
LEMMA WrittenFits ==
  ASSUME DeviceInv, dev.open, NEW after, Spoils(IO, after, Size(image)),
         image' = after.image, dev' = dev, made' = made,
         made # <<>> => MadeOn(image', made, ClassOf(image')) /\ MadeOn(image', made, dev.class)
  PROVE  Fits(image', dev', made') /\ Guarded
<1> DEFINE n == Size(image)
<1>1. ImageFits(image) /\ MadeFits(image, dev, made) /\ DeviceFits(dev, n) /\ dev # Closed
  BY OpenFits
<1>2. ImageFits(IO.image) /\ n = Size(IO.image) /\ Spoils(IO, after, n)
  BY <1>1, IOIs
<1> HIDE DEF n
<1>3. ImageFits(image') /\ Size(image') = n
  BY <1>2, SpoiledFits
<1>4. MadeFits(image', dev', made')
  BY <1>1 DEF MadeFits
<1>5. Guarded
  BY <1>1, <1>2, IOIs DEF Spoils, Guarded, n
<1> QED
  BY <1>1, <1>3, <1>4, <1>5 DEF Fits

\* adfVolWriteBlock
LEMMA WriteVolumeStep ==
  ASSUME DeviceInv, NEW i, NEW s, WriteVolumeBlock(i, s)
  PROVE  Fits(image', dev', made') /\ Guarded
<1> DEFINE v == dev.volList[i].range
           readOnly == dev.volList[i].readOnly
           after == adfVolWriteBlock(IO, v, readOnly, s, Data)
           n == Size(image)
<1>1. /\ dev.open /\ i \in 1..Len(dev.volList) /\ s \in Targets(v) \ {0}
      /\ image' = after.image /\ dev' = dev /\ made' = made
  BY DEF WriteVolumeBlock
<1>2. ImageFits(image) /\ DeviceFits(dev, n)
  BY <1>1, OpenFits
<1>3. n \in Nat \ {0} /\ n < Modulus /\ IsImage(image, n)
  BY <1>2 DEF ImageFits
<1>4. IsIO(IO, n) /\ IO.image = image
  BY <1>2, IOIs
<1>5. /\ v \in Volumes(n) /\ readOnly \in BOOLEAN
      /\ made # <<>> => /\ Stand(image, made, n) /\ v = made[i] /\ i \in 1..Len(made)
                        /\ MadeOn(image, made, ClassOf(image))
                        /\ MadeOn(image, made, dev.class)
  BY <1>1, EntryFits
<1>6. after = adfVolWriteBlock(IO, v, readOnly, s, Data) /\ n = Size(image)
  OBVIOUS
<1> HIDE DEF v, readOnly, after, n
<1>7. OfVolume(Data)
  BY DEF OfVolume, Data
<1>8. Spoils(IO, after, n)
  <2>1. Changes(IO, after, n, v)
    BY <1>4, <1>5, <1>6, <1>7, WriteChanges
  <2> QED
    BY <2>1, ChangesSpoils
<1>9. /\ Wrote(IO, after, n, Physical(v, s), Data)
      /\ after.ok => InVolume(v, s)
  BY <1>4, <1>5, <1>6, VolWrites
<1>10. image' = image \/ (image' = [image EXCEPT ![Physical(v, s)] = Data] /\ InVolume(v, s))
  BY <1>1, <1>4, <1>9 DEF Wrote
<1>11. ASSUME made # <<>>
       PROVE  MadeOn(image', made, ClassOf(image')) /\ MadeOn(image', made, dev.class)
  <2>1. CASE image' = image
    BY <1>5, <1>11, <2>1
  <2>2. CASE image' = [image EXCEPT ![Physical(v, s)] = Data] /\ InVolume(v, s)
    <3>1. InImage(v, n) /\ VolumeStands(image, v)
      BY <1>5, <1>11 DEF Stand
    <3>2. PICK pages, cache, free : VolumeIs(image, v, pages, cache, free)
      BY <3>1 DEF VolumeStands
    <3>3. s \in free
      BY <1>1, <1>3, <2>2, <3>1, <3>2, TargetsAre
    <3>4. Physical(v, s) = v.first + s
      <4>1. v.last - v.first >= 3 /\ free \subseteq 2..(v.last - v.first)
        BY <3>2 DEF VolumeIs
      <4>2. s \in 2..(v.last - v.first) /\ v.first \in Nat /\ v.last \in Nat
        BY <3>1, <3>3, <4>1 DEF InImage
      <4>3. s \in BlocksOf(v)
        BY <4>2 DEF BlocksOf
      <4> QED
        BY <3>1, <4>3, PhysicalInside
    <3> DEFINE img2 == image'
    <3>5. img2 = [image EXCEPT ![v.first + s] = Data]
      BY <2>2, <3>4
    <3> HIDE DEF img2
    <3>6. \A class : MadeOn(image, made, class) =>
            MadeOn(img2, made, class) /\ img2[0] = image[0] /\ Size(img2) = n
      <4> SUFFICES ASSUME NEW class, MadeOn(image, made, class)
                   PROVE  MadeOn(img2, made, class) /\ img2[0] = image[0] /\ Size(img2) = n
        OBVIOUS
      <4>1. /\ ImageFits(image) /\ Size(image) = n
            /\ DataWritten(image, made, i, v, s, free, img2)
        BY <1>2, <1>5, <1>6, <1>11, <3>2, <3>3, <3>5 DEF DataWritten
      <4> QED
        BY <3>2, <4>1, DataKeeps
    <3>7. img2[0] = image[0] /\ Size(img2) = Size(image)
      BY <1>5, <1>6, <1>11, <3>6
    <3>8. ClassOf(img2) = ClassOf(image)
      BY <3>7 DEF ClassOf, HasRdb
    <3> QED
      BY <1>5, <1>11, <3>6, <3>8 DEF img2
  <2> QED
    BY <1>10, <2>1, <2>2
<1> QED
  BY <1>1, <1>6, <1>8, <1>11, WrittenFits


\* Images that agree behind block 1, read through the volume of all blocks.
LEMMA ReadSame ==
  ASSUME NEW n \in Nat \ {0}, n < Modulus, NEW img, IsImage(img, n), NEW img2, IsImage(img2, n),
         \A p \in 2..(n - 1) : img2[p] = img[p], NEW r \in 0..(Modulus - 1), r > 1,
         NEW u, u.first = 0, u.last = n - 1, NEW w, w.first = 0, w.last = n - 1
  PROVE  adfVolReadBlock(img2, u, r) = adfVolReadBlock(img, w, r)
<1>1. r + 0 = r /\ r % Modulus = r
  BY BlockAssumption, ModSmall
<1>2. Physical(u, r) = r /\ Physical(w, r) = r
  BY <1>1 DEF Physical
<1>3. DOMAIN img = 0..(n - 1) /\ DOMAIN img2 = 0..(n - 1)
  BY DEF IsImage
<1>4. CASE r <= n - 1
  <2>1. r \in 2..(n - 1) /\ r \in 0..(n - 1)
    BY <1>4
  <2>2. img2[r] = img[r]
    BY <2>1
  <2>3. adfVolReadBlock(img2, u, r) = img2[r] /\ adfVolReadBlock(img, w, r) = img[r]
    BY <1>2, <1>3, <1>4, <2>1 DEF adfVolReadBlock, InVolume, OnDevice
  <2> QED
    BY <2>2, <2>3
<1>5. CASE ~(r <= n - 1)
  <2>1. ~InVolume(u, r) /\ ~InVolume(w, r)
    BY <1>2, <1>5 DEF InVolume
  <2> QED
    BY <2>1 DEF adfVolReadBlock
<1> QED
  BY <1>4, <1>5

\* A boot block that names block r may have been written, and the boot code.
BootOver(img, img2, n, r) ==
  /\ IsImage(img2, n)
  /\ \A p \in 2..(n - 1) : img2[p] = img[p]
  /\ img2[0] = img[0] \/ img2[0] = Boot(r)

\* The volume that takes all blocks stands after that, and its root block is
\* found, unless block r is another root block.
LEMMA BootKept ==
  ASSUME NEW img, ImageFits(img), NEW n, Size(img) = n, NEW mk, SingleFits(img, mk),
         NEW r \in 0..(Modulus - 1), r = n \div 2 \/ ~IsRoot(adfVolReadBlock(img, Whole(n), r)),
         NEW img2, BootOver(img, img2, n, r)
  PROVE  SingleFits(img2, mk) /\ Size(img2) = n /\ img2[0].kind = "boot"
<1> DEFINE v == Whole(n)
<1>1. n \in Nat \ {0} /\ n < Modulus /\ IsImage(img, n) /\ BootsFit(img, n)
  BY DEF ImageFits
<1>2. mk = <<v>> /\ VolumeStands(img, v) /\ BootLeads(img, n)
  BY DEF SingleFits
<1>3. /\ v.first = 0 /\ v.last = n - 1 /\ v.root = n \div 2 /\ InImage(v, n)
      /\ img[0].kind = "boot" /\ n \div 2 \in 2..(n - 1)
  BY <1>1, <1>2, WholeStands
<1>4. /\ IsImage(img2, n) /\ \A p \in 2..(n - 1) : img2[p] = img[p]
      /\ img2[0] = img[0] \/ img2[0] = Boot(r)
  BY DEF BootOver
<1>5. Size(img2) = n
  BY <1>1, <1>4, ImageSize
<1>6. img2[0].kind = "boot"
  BY <1>3, <1>4 DEF Boot
<1>7. VolumeStands(img2, v)
  <2>1. PICK pages, cache, free : VolumeIs(img, v, pages, cache, free)
    BY <1>2 DEF VolumeStands
  <2>2. /\ pages \in Seq(2..(v.last - v.first))
        /\ img[v.first + v.root] = Root(pages, 0, cache, "valid")
        /\ \A i \in 1..Len(pages) : img[v.first + pages[i]] = Page(Bits(free, i - 1))
    BY <2>1 DEF VolumeIs
  <2>3. \A i \in 1..Len(pages) : pages[i] \in 2..(v.last - v.first)
    BY <2>2, ElementOfSeq, Zenon
  <2>4. \A s \in 2..(n - 1) : v.first + s = s
    BY <1>3
  <2>5. v.last - v.first = n - 1
    BY <1>1, <1>3
  <2>6. /\ img2[v.first + v.root] = img[v.first + v.root]
        /\ \A i \in 1..Len(pages) : img2[v.first + pages[i]] = img[v.first + pages[i]]
    BY <1>3, <1>4, <2>3, <2>4, <2>5
  <2>7. img2[v.first].kind = "boot"
    BY <1>3, <1>6
  <2>8. VolumeIs(img2, v, pages, cache, free)
    BY <2>1, <2>6, <2>7 DEF VolumeIs
  <2> QED
    BY <2>8 DEF VolumeStands
<1>8. BootLeads(img2, n)
  <2> DEFINE whole(s) == Volume(0, n - 1, s)
             root2 == img2[0].root
  <2>1. root2 \in 0..(Modulus - 1)
    <3>1. img[0].root \in 0..(Modulus - 1)
      <4>1. 0 \in 0..(n - 1)
        BY <1>1
      <4> QED
        BY <1>1, <1>3, <4>1 DEF BootsFit
    <3> QED
      BY <1>4, <3>1 DEF Boot
  <2>2. \/ root2 = n \div 2
        \/ root2 > 1 => ~IsRoot(adfVolReadBlock(img, whole(root2), root2))
        \/ root2 = r /\ ~IsRoot(adfVolReadBlock(img, v, r))
    BY <1>2, <1>4 DEF BootLeads, Boot
  <2>3. whole(root2).first = 0 /\ whole(root2).last = n - 1
    BY DEF Volume
  <2> DEFINE u == whole(root2)
  <2> HIDE DEF v, u, root2
  <2>4. root2 > 1 => /\ adfVolReadBlock(img2, u, root2) = adfVolReadBlock(img, u, root2)
                     /\ adfVolReadBlock(img2, u, root2) = adfVolReadBlock(img, v, root2)
    <3>1. u.first = 0 /\ u.last = n - 1
      BY <2>3 DEF u
    <3> QED
      BY <1>1, <1>3, <1>4, <2>1, <3>1, ReadSame
  <2>5. root2 = n \div 2 \/ ~(root2 > 1 /\ IsRoot(adfVolReadBlock(img2, u, root2)))
    BY <2>2, <2>4 DEF u
  <2> QED
    BY <2>5 DEF BootLeads, u, root2
<1> QED
  BY <1>2, <1>5, <1>6, <1>7, <1>8 DEF SingleFits


\* adfWriteBootBlock, on any range of blocks: two blocks at most are written.
LEMMA BootSpoils ==
  ASSUME NEW n, NEW io, IsIO(io, n), NEW v, NEW readOnly \in BOOLEAN,
         NEW r \in 0..(Modulus - 1), NEW after, after = WriteBoot(io, v, readOnly, r)
  PROVE  /\ Changes(io, after, n, v)
         /\ \A p \in 0..(n - 1) :
              \/ after.image[p] = io.image[p]
              \/ p = Physical(v, 0) /\ after.image[p] = Boot(r)
              \/ p = Physical(v, 1)
<1> DEFINE first == adfVolWriteBlock(io, v, readOnly, 0, Boot(r))
           q0 == Physical(v, 0)
           q1 == Physical(v, 1)
<1>1. OfVolume(Boot(r)) /\ OfVolume(BootCode)
  BY DEF OfVolume, Boot, BootCode
<1>2. after = adfVolWriteBlock(first, v, readOnly, 1, BootCode)
  BY DEF WriteBoot
<1>3. Wrote(io, first, n, q0, Boot(r)) /\ Changes(io, first, n, v)
  BY <1>1, VolWrites, WriteChanges
<1> HIDE DEF first
<1>4. IsIO(first, n)
  BY <1>3 DEF Changes
<1>5. Wrote(first, after, n, q1, BootCode) /\ Changes(first, after, n, v)
  BY <1>1, <1>2, <1>4, VolWrites, WriteChanges
<1> HIDE DEF q0, q1
<1>6. DOMAIN io.image = 0..(n - 1) /\ DOMAIN first.image = 0..(n - 1)
  BY <1>4 DEF IsIO, IsImage
<1>7. \A p \in 0..(n - 1) :
        first.image[p] = io.image[p] \/ (p = q0 /\ first.image[p] = Boot(r))
  BY <1>3, <1>6 DEF Wrote
<1>8. \A p \in 0..(n - 1) : after.image[p] = first.image[p] \/ p = q1
  BY <1>5, <1>6 DEF Wrote
<1>9. Changes(io, after, n, v)
  BY <1>3, <1>5, ChangesTwice
<1>10. \A p \in 0..(n - 1) :
         \/ after.image[p] = io.image[p]
         \/ p = q0 /\ after.image[p] = Boot(r)
         \/ p = q1
  BY <1>7, <1>8
<1> QED
  BY <1>9, <1>10 DEF q0, q1

\* adfVolInstallBootBlock
LEMMA InstallStep ==
  ASSUME CarefulDevices, DeviceInv, NEW i, adfVolInstallBootBlock(i)
  PROVE  Fits(image', dev', made') /\ Guarded
<1> DEFINE v == dev.volList[i].range
           readOnly == dev.volList[i].readOnly
           after == WriteBoot(IO, v, readOnly, InstallRoot)
           n == Size(image)
<1>1. /\ dev.open /\ i \in 1..Len(dev.volList) /\ dev.class = "floppy"
      /\ v.root = InstallRoot \/ ~IsRoot(adfVolReadBlock(image, v, InstallRoot))
      /\ image' = after.image /\ dev' = dev /\ made' = made
  BY DEF adfVolInstallBootBlock, CarefulDevices, HabitKinds
<1>2. ImageFits(image) /\ DeviceFits(dev, n)
  BY <1>1, OpenFits
<1>3. n \in Nat \ {0} /\ n < Modulus /\ IsImage(image, n)
  BY <1>2 DEF ImageFits
<1>4. IsIO(IO, n) /\ IO.image = image
  BY <1>2, IOIs
<1>5. /\ v \in Volumes(n) /\ readOnly \in BOOLEAN
      /\ made # <<>> => /\ v = made[i] /\ i \in 1..Len(made)
                        /\ MadeOn(image, made, "floppy")
  BY <1>1, EntryFits
<1>6. after = WriteBoot(IO, v, readOnly, InstallRoot) /\ Size(image) = n
  OBVIOUS
<1> HIDE DEF v, readOnly, after, n
<1>7. InstallRoot \in 0..(Modulus - 1)
  BY BlockAssumption, DeviceAssumption DEF CarefulDevices
<1>8. /\ Changes(IO, after, n, v)
      /\ \A p \in 0..(n - 1) :
           \/ after.image[p] = IO.image[p]
           \/ p = Physical(v, 0) /\ after.image[p] = Boot(InstallRoot)
           \/ p = Physical(v, 1)
  BY <1>4, <1>5, <1>6, <1>7, BootSpoils
<1>9. Spoils(IO, after, n)
  BY <1>8, ChangesSpoils
<1>10. ASSUME made # <<>>
       PROVE  MadeOn(image', made, ClassOf(image')) /\ MadeOn(image', made, dev.class)
  <2>1. SingleFits(image, made)
    BY <1>5, <1>10 DEF MadeOn
  <2>2. made = <<Whole(n)>> /\ VolumeStands(image, Whole(n))
    BY <1>6, <2>1 DEF SingleFits
  <2>3. v = Whole(n)
    <3>1. i = 1
      BY <1>5, <1>10, <2>2
    <3> QED
      BY <1>5, <1>10, <2>2, <3>1
  <2>4. /\ v.first = 0 /\ v.last = n - 1 /\ v.root = n \div 2 /\ InImage(v, n)
        /\ n \div 2 \in 2..(n - 1)
    BY <1>3, <2>2, <2>3, WholeStands
  <2>5. Physical(v, 0) = 0 /\ Physical(v, 1) = 1
    <3>1. 0 \in BlocksOf(v) /\ 1 \in BlocksOf(v)
      BY <1>3, <2>4 DEF BlocksOf
    <3> QED
      BY <2>4, <3>1, PhysicalInside
  <2>6. BootOver(image, image', n, InstallRoot)
    <3>1. IsImage(image', n)
      BY <1>1, <1>9 DEF Spoils, IsIO
    <3>2. \A p \in 2..(n - 1) : p \in 0..(n - 1) /\ p # 0 /\ p # 1
      OBVIOUS
    <3>3. \A p \in 2..(n - 1) : image'[p] = image[p]
      BY <1>1, <1>4, <1>8, <2>5, <3>2
    <3>4. 0 \in 0..(n - 1) /\ 0 # 1
      BY <1>3
    <3>5. image'[0] = image[0] \/ image'[0] = Boot(InstallRoot)
      BY <1>1, <1>4, <1>8, <2>5, <3>4
    <3> QED
      BY <3>1, <3>3, <3>5 DEF BootOver
  <2>7. InstallRoot = n \div 2 \/ ~IsRoot(adfVolReadBlock(image, Whole(n), InstallRoot))
    BY <1>1, <2>3, <2>4
  <2> DEFINE img2 == image'
  <2>8. BootOver(image, img2, n, InstallRoot)
    BY <2>6
  <2> HIDE DEF img2
  <2>9. SingleFits(img2, made) /\ Size(img2) = n /\ img2[0].kind = "boot"
    BY <1>2, <1>6, <1>7, <2>1, <2>7, <2>8, BootKept
  <2>10. ClassBySize(Size(img2)) = "floppy"
    BY <1>1, <1>2, <2>9 DEF DeviceFits
  <2>11. ClassOf(img2) = "floppy"
    BY <2>9, <2>10, BootClass
  <2>12. MadeOn(img2, made, "floppy")
    BY <2>9 DEF MadeOn
  <2> QED
    BY <1>1, <2>11, <2>12 DEF img2
<1> QED
  BY <1>1, <1>6, <1>9, <1>10, WrittenFits


-----------------------------------------------------------------------------
(* The invariant, and what follows from it                                  *)

\* The invariant holds at the beginning.
LEMMA InitInv ==
  ASSUME Init
  PROVE  DeviceInv
BY DEF Init, DeviceInv

\* Every call keeps it.
LEMMA NextInv ==
  ASSUME CarefulDevices, DeviceInv, Next
  PROVE  DeviceInv'
<1>1. ASSUME Fits(image', dev', made') PROVE DeviceInv'
  BY <1>1 DEF DeviceInv
<1>2. ASSUME image' = NoImage, dev' = Closed, made' = <<>> PROVE DeviceInv'
  BY <1>2 DEF DeviceInv
<1>3. ASSUME NEW g \in Geometries, adfDevCreate(g) PROVE DeviceInv'
  BY <1>1, <1>3, CreateStep
<1>4. ASSUME NEW mode \in Modes, adfDevOpen(mode) PROVE DeviceInv'
  BY <1>1, <1>4, OpenStep
<1>5. CASE adfDevClose
  BY <1>1, <1>2, <1>5, CloseStep
<1>6. CASE adfDevMount
  BY <1>1, <1>6, MountStep
<1>7. CASE adfDevUnMount
  BY <1>1, <1>7, UnMountStep
<1>8. ASSUME NEW left \in Leftovers, NEW dircache \in BOOLEAN, adfCreateFlop(dircache, left)
      PROVE  DeviceInv'
  BY <1>1, <1>8, FlopStep
<1>9. ASSUME NEW left \in Leftovers, NEW dircache \in BOOLEAN, adfCreateHdFile(dircache, left)
      PROVE  DeviceInv'
  BY <1>1, <1>9, HdFileStep
<1>10. ASSUME NEW left \in Leftovers, NEW parts \in Layouts, adfCreateHd(parts, left)
       PROVE  DeviceInv'
  BY <1>1, <1>2, <1>10, HdStep
<1>11. CASE dev.open /\ Overwrite
  BY <1>1, <1>11, OverwriteStep
<1>12. ASSUME NEW i \in 1..Len(dev.volList), NEW mode \in Modes,
              adfVolMount(i, mode) \/ adfVolRemount(i, mode) \/ adfVolUnMount(i)
       PROVE  DeviceInv'
  BY <1>1, <1>12, VolMountSteps
<1>13. ASSUME NEW i \in 1..Len(dev.volList), adfVolUnMount(i)
       PROVE  DeviceInv'
  BY <1>1, <1>13, VolMountSteps
<1>14. ASSUME NEW i \in 1..Len(dev.volList), adfVolInstallBootBlock(i)
       PROVE  DeviceInv'
  BY <1>1, <1>14, InstallStep
<1>15. ASSUME NEW i, NEW nSect, WriteVolumeBlock(i, nSect)
       PROVE  DeviceInv'
  BY <1>1, <1>15, WriteVolumeStep
<1> QED
  BY <1>3, <1>4, <1>5, <1>6, <1>7, <1>8, <1>9, <1>10, <1>11, <1>12, <1>13, <1>14, <1>15 DEF Next

\* The inductive invariant: what is on an image, what a device that is open
\* knows of it, and the volumes that were made on it, belong together.
THEOREM DevicesFit ==
  ASSUME CarefulDevices
  PROVE  Spec => []DeviceInv
<1>1. Init => DeviceInv
  BY InitInv
<1>2. DeviceInv /\ [Next]_vars => DeviceInv'
  <2>1. CASE UNCHANGED vars
    <3>1. image' = image /\ dev' = dev /\ made' = made
      BY <2>1 DEF vars
    <3> QED
      BY <3>1 DEF DeviceInv
  <2> QED
    BY <2>1, NextInv
<1> QED
  BY <1>1, <1>2, PTL DEF Spec

\* What the invariant says of the types.
LEMMA InvTypes ==
  ASSUME DeviceInv
  PROVE  TypeOK
<1>1. CASE image = NoImage /\ dev = Closed /\ made = <<>>
  <2>1. ToSet(made) = {}
    BY <1>1 DEF ToSet
  <2> QED
    BY <1>1, <2>1 DEF TypeOK
<1>2. CASE Fits(image, dev, made)
  <2> DEFINE n == Size(image)
  <2>1. ImageFits(image) /\ MadeFits(image, dev, made) /\ (dev = Closed \/ DeviceFits(dev, n))
    BY <1>2 DEF Fits
  <2>2. DOMAIN image = 0..(n - 1)
    BY <2>1, ImageSize DEF ImageFits
  <2>3. ToSet(made) \subseteq Volumes(n)
    <3>1. CASE made = <<>>
      BY <3>1 DEF ToSet
    <3>2. CASE made # <<>>
      <4>1. Stand(image, made, n)
        BY <2>1, <3>2, MadeStands DEF MadeFits
      <4>2. made \in Seq(Volumes(n))
        BY <4>1 DEF Stand
      <4>3. \A i \in 1..Len(made) : made[i] \in Volumes(n)
        BY <4>2, ElementOfSeq, Zenon
      <4>4. DOMAIN made = 1..Len(made)
        BY <4>2, LenProperties
      <4> QED
        BY <4>3, <4>4 DEF ToSet
    <3> QED
      BY <3>1, <3>2
  <2>4. ASSUME DeviceFits(dev, n)
        PROVE  /\ dev.class \in {"floppy", "hardfile", "harddisk"}
               /\ {dev.readOnly, dev.writable, dev.mounted} \subseteq BOOLEAN
               /\ \A i \in 1..Len(dev.volList) :
                    /\ dev.volList[i].range \in Volumes(n)
                    /\ {dev.volList[i].mounted, dev.volList[i].readOnly} \subseteq BOOLEAN
    <3>1. dev.volList \in Seq(Entries(n))
      BY <2>4 DEF DeviceFits
    <3>2. \A i \in 1..Len(dev.volList) : dev.volList[i] \in Entries(n)
      BY <3>1, ElementOfSeq, Zenon
    <3>3. \A i \in 1..Len(dev.volList) :
            /\ dev.volList[i].range \in Volumes(n)
            /\ {dev.volList[i].mounted, dev.volList[i].readOnly} \subseteq BOOLEAN
      BY <3>2 DEF Entries
    <3>4. dev.class \in Classes /\ {dev.readOnly, dev.writable, dev.mounted} \subseteq BOOLEAN
      BY <2>4 DEF DeviceFits
    <3> QED
      BY <3>3, <3>4 DEF Classes
  <2> QED
    BY <2>1, <2>2, <2>3, <2>4 DEF TypeOK
<1> QED
  BY <1>1, <1>2 DEF DeviceInv

\* The image is numbered from block 0, and the volumes of a device and those
\* that were made are ranges of its blocks.
THEOREM DeviceTypes ==
  ASSUME CarefulDevices
  PROVE  Spec => []TypeOK
BY DevicesFit, InvTypes, PTL

\* What it says of the ranges of the volumes.
LEMMA InvApart ==
  ASSUME DeviceInv
  PROVE  VolumesApart
<1> SUFFICES ASSUME dev.open PROVE VolumesApart
  BY DEF VolumesApart
<1> DEFINE list == dev.volList
           n == Size(image)
<1>1. DeviceFits(dev, n) /\ n \in Nat
  BY OpenFits DEF ImageFits
<1>2. list \in Seq(Entries(n)) /\ RangesFit(RangesOf(list), dev.class, n)
  BY <1>1 DEF DeviceFits
<1> DEFINE vs == RangesOf(list)
<1>3. Len(vs) = Len(list) /\ \A i \in 1..Len(list) : vs[i] = list[i].range
  BY <1>2 DEF RangesOf
<1> HIDE DEF vs
<1>4. /\ vs \in Seq(Volumes(n)) /\ NoneOverlap(vs, Len(vs))
      /\ \A i \in 1..Len(vs) : vs[i].first <= vs[i].last
      /\ dev.class = "harddisk" => \A i \in 1..Len(vs) : vs[i].first > Len(vs) + 2
  BY <1>2 DEF RangesFit, vs
<1>5. \A i \in 1..Len(vs) : vs[i] \in Volumes(n)
  BY <1>4, ElementOfSeq, Zenon
<1>6. \A i \in 1..Len(vs) : vs[i].last < n
  BY <1>1, <1>5 DEF Volumes
<1>7. \A i, j \in 1..Len(vs) :
        i < j => vs[i].last < vs[j].first \/ vs[j].last < vs[i].first
  BY <1>4 DEF NoneOverlap
<1> QED
  BY <1>3, <1>4, <1>6, <1>7 DEF VolumesApart

\* The volumes of a device are disjoint ranges of its blocks and, on a hard disk,
\* lie behind the partition table, whether they were just made or found by
\* adfDevMount.
THEOREM VolumesAreApart ==
  ASSUME CarefulDevices
  PROVE  Spec => []VolumesApart
BY DevicesFit, InvApart, PTL

\* What it says of an image that is opened anew.
LEMMA InvReopen ==
  ASSUME DeviceInv
  PROVE  ReopenFindsVolumes
<1> SUFFICES ASSUME made # <<>>
             PROVE  Found(image, Opened(image, "readonly")) = made
  BY DEF ReopenFindsVolumes
<1> DEFINE d == Opened(image, "readonly")
<1>1. ImageFits(image) /\ MadeOn(image, made, ClassOf(image))
  BY DEF DeviceInv, Fits, MadeFits
<1>2. "readonly" \in Modes
  BY DEF Modes
<1>3. DeviceFits(d, Size(image)) /\ d.class = ClassOf(image)
  BY <1>1, <1>2, OpenedFits
<1> HIDE DEF d
<1>4. IsGeometry(d.geometry, Size(image)) /\ MadeOn(image, made, d.class)
  BY <1>1, <1>3 DEF DeviceFits
<1>5. Found(image, d) = made
  BY <1>1, <1>4, FoundIsMade
<1> QED
  BY <1>5 DEF d

\* Volumes that were made on an image are found again whenever it is opened and
\* mounted anew, whatever was written through its volumes meanwhile.
THEOREM VolumesAreFoundAgain ==
  ASSUME CarefulDevices
  PROVE  Spec => []ReopenFindsVolumes
BY DevicesFit, InvReopen, PTL

\* What it says of the volumes that were made.
LEMMA InvSound ==
  ASSUME DeviceInv
  PROVE  VolumesSound
<1>1. CASE made = <<>>
  <2>1. ToSet(made) = {}
    BY <1>1 DEF ToSet
  <2> QED
    BY <2>1 DEF VolumesSound
<1>2. CASE made # <<>>
  <2> DEFINE n == Size(image)
  <2>1. ImageFits(image) /\ MadeOn(image, made, ClassOf(image))
    BY <1>2 DEF DeviceInv, Fits, MadeFits
  <2>2. Stand(image, made, n) /\ IsImage(image, n)
    BY <2>1, MadeStands DEF ImageFits
  <2>3. made \in Seq(Volumes(n)) /\ \A i \in 1..Len(made) : InImage(made[i], n) /\ VolumeStands(image, made[i])
    BY <2>2 DEF Stand
  <2>4. \A v \in ToSet(made) : InImage(v, n) /\ VolumeStands(image, v)
    <3>1. DOMAIN made = 1..Len(made)
      BY <2>3, LenProperties
    <3> QED
      BY <2>3, <3>1 DEF ToSet
  <2> HIDE DEF n
  <2>5. \A v \in ToSet(made) : Sound(v)
    BY <2>2, <2>4, StandsIsSound
  <2> QED
    BY <2>5 DEF VolumesSound, Sound
<1> QED
  BY <1>1, <1>2

\* A volume that was made can be mounted for writing, each of its system blocks
\* has a block of its own, and its bitmap says which blocks are used.
THEOREM VolumesAreSound ==
  ASSUME CarefulDevices
  PROVE  Spec => []VolumesSound
BY DevicesFit, InvSound, PTL

\* A call on a device that is open read-only keeps its image.
LEMMA ReadOnlyStep ==
  ASSUME CarefulDevices, DeviceInv, Next, dev.open, dev.readOnly
  PROVE  image' = image
<1>1. DeviceFits(dev, Size(image))
  BY OpenFits
<1>2. ~dev.writable /\ dev.driver # "ramdisk"
  BY <1>1 DEF DeviceFits
<1>3. ASSUME Guarded PROVE image' = image
  BY <1>2, <1>3 DEF Guarded
<1>4. ASSUME NEW g \in Geometries, adfDevCreate(g) PROVE image' = image
  BY <1>4 DEF adfDevCreate
<1>5. ASSUME NEW mode \in Modes, adfDevOpen(mode) PROVE image' = image
  BY <1>5 DEF adfDevOpen
<1>6. CASE adfDevClose
  BY <1>2, <1>6 DEF adfDevClose, adfReleaseDumpDevice
<1>7. CASE adfDevMount
  BY <1>7 DEF adfDevMount
<1>8. CASE adfDevUnMount
  BY <1>8 DEF adfDevUnMount
<1>9. ASSUME NEW left \in Leftovers, NEW dircache \in BOOLEAN,
             adfCreateFlop(dircache, left) \/ adfCreateHdFile(dircache, left)
      PROVE  image' = image
  BY <1>3, <1>9, FlopStep, HdFileStep
<1>10. ASSUME NEW left \in Leftovers, NEW parts \in Layouts, adfCreateHd(parts, left)
       PROVE  image' = image
  BY <1>3, <1>10, HdStep
<1>11. CASE dev.open /\ Overwrite
  BY <1>3, <1>11, OverwriteStep
<1>12. ASSUME NEW i \in 1..Len(dev.volList), NEW mode \in Modes,
              adfVolMount(i, mode) \/ adfVolRemount(i, mode)
       PROVE  image' = image
  BY <1>12 DEF adfVolMount, adfVolRemount
<1>13. ASSUME NEW i \in 1..Len(dev.volList), adfVolUnMount(i)
       PROVE  image' = image
  BY <1>13 DEF adfVolUnMount
<1>14. ASSUME NEW i \in 1..Len(dev.volList), adfVolInstallBootBlock(i)
       PROVE  image' = image
  BY <1>3, <1>14, InstallStep
<1>15. ASSUME NEW i, NEW nSect, WriteVolumeBlock(i, nSect)
       PROVE  image' = image
  BY <1>3, <1>15, WriteVolumeStep
<1> QED
  BY <1>4, <1>5, <1>6, <1>7, <1>8, <1>9, <1>10, <1>11, <1>12, <1>13, <1>14, <1>15 DEF Next

\* Nothing is written to an image that is opened read-only, whatever a program
\* calls.
THEOREM ReadOnlyIsKept ==
  ASSUME CarefulDevices
  PROVE  Spec => ReadOnlyKeepsImage
<1>1. DeviceInv /\ [Next]_vars => [dev.open /\ dev.readOnly => image' = image]_vars
  BY ReadOnlyStep DEF vars
<1> QED
  BY <1>1, DevicesFit, PTL DEF Spec, ReadOnlyKeepsImage
=============================================================================
