------------------------------ MODULE AdfDevice ------------------------------
(***************************************************************************)
(* Devices and the volumes on them (src/src/adf_dev.c, adf_dev_flop.c,     *)
(* adf_dev_hdfile.c, adf_dev_hd.c, adf_dev_type.c, and the drivers of dump *)
(* files and ramdisks): an image is created, opened read-write or          *)
(* read-only, given a file system (a floppy, a hardfile, or a hard disk    *)
(* with partitions),                                                       *)
(* closed, opened again and mounted; volumes of it are mounted and their   *)
(* blocks written. A ramdisk is an image that lives until it is closed.    *)
(*                                                                         *)
(* Nothing on the disk says what an image is: adfDevOpen guesses the class *)
(* from the number of blocks and from block 0, and each class finds its    *)
(* volumes in its own way: in the partition list, from the geometry, or by *)
(* searching for a root block. Heads and sectors appear only as their      *)
(* product, the blocks of a cylinder.                                      *)
(***************************************************************************)
EXTENDS AdfVolume

CONSTANTS
  Media,         \* the known media (adfDevMedia): [cylinders, cylBlocks, class]
  Geometries,    \* geometries of images a program creates
  FlopCylinders, \* cylinders of the volume adfCreateFlop makes (80)
  InstallRoot,   \* root block adfVolInstallBootBlock writes (880)
  Layouts,       \* lists of partitions, [start, len, dircache] in cylinders
  Leftovers,     \* what malloc may leave in the tables of a bitmap
  Habits         \* the habits of programs, see HabitKinds

HabitKinds ==
  {"even_size",         \* a hardfile has an even number of blocks
   "eighty_cylinders",  \* adfCreateFlop on floppies of FlopCylinders cylinders
   "one_list_of_pages", \* all bitmap pages are listed in the root block
   "low_partition",     \* the root block of a partition is behind block
                        \* firstBlock + 2, which the first bitmap page covers
   "partitions_apart",  \* partitions: on the device, behind the header, disjoint
   "one_root"}          \* a boot block is installed when InstallRoot is the root
                        \* block, or no root block at all

ASSUME DeviceAssumption ==
  /\ \A g \in Media : /\ g.cylinders \in Nat /\ g.cylBlocks \in Nat
                       /\ g.class \in {"floppy", "hardfile", "harddisk"}
  /\ \A g \in Geometries : g.cylinders \in Nat \ {0} /\ g.cylBlocks \in Nat \ {0}
  /\ \A parts \in Layouts :
       parts \in Seq([start : Nat, len : Nat \ {0}, dircache : BOOLEAN]) \ {<<>>}
  /\ InstallRoot \in Nat
  /\ Leftovers \subseteq [bits : BOOLEAN, chg : BOOLEAN]
  /\ Habits \subseteq HabitKinds

VARIABLES
  image,  \* the blocks of the image file
  dev,    \* struct AdfDevice, or Closed
  made    \* history: the volumes made on the image, until it is overwritten

vars == <<image, dev, made>>

Closed == [open |-> FALSE]
NoImage == <<>>

Size(img) == Cardinality(DOMAIN img)

-----------------------------------------------------------------------------
(* Opening *)

\* adfDevGetClassBySizeBlocks, adfDevGetTypeBySizeBlocks: a medium of that size.
MediaOf(size) == {g \in Media : g.cylinders * g.cylBlocks = size}

ClassBySize(size) ==
  IF MediaOf(size) = {} THEN "harddisk" ELSE (CHOOSE g \in MediaOf(size) : TRUE).class

\* adfDevSetCalculatedGeometry_: without a known medium every block is a cylinder.
CalculatedGeometry(size) ==
  IF MediaOf(size) = {} THEN [cylinders |-> size, cylBlocks |-> 1]
  ELSE LET g == CHOOSE g \in MediaOf(size) : TRUE IN
         [cylinders |-> g.cylinders, cylBlocks |-> g.cylBlocks]

\* struct AdfDevice of an image that is not mounted.
Device(driver, geometry, class, mode) ==
  [open |-> TRUE, driver |-> driver, geometry |-> geometry, class |-> class,
   readOnly |-> mode # "readwrite", writable |-> mode # "readonly",
   mounted |-> FALSE, volList |-> <<>>]

\* adfReadRDSKblock: the identifier and the checksum are right.
IsRdsk(block) == block.kind = "RDSK"

\* adfDevReadRdb: block 0 is a rigid disk block.
HasRdb(img) == IsRdsk(img[0])

\* The class an image is opened with: that of its size, corrected by the
\* presence of a rigid disk block.
ClassOf(img) ==
  CASE HasRdb(img) -> "harddisk"
    [] ~HasRdb(img) /\ ClassBySize(Size(img)) = "harddisk" -> "hardfile"
    [] OTHER -> ClassBySize(Size(img))

GeometryOf(img) == IF HasRdb(img) THEN img[0].geometry ELSE CalculatedGeometry(Size(img))

\* Deviation: the image file is opened for writing whatever the mode.
Opened_ForWriting(img, mode) ==
  [Device("dump", GeometryOf(img), ClassOf(img), mode) EXCEPT !.writable = TRUE]

\* adfDevOpen
Opened(img, mode) == Device("dump", GeometryOf(img), ClassOf(img), mode)

-----------------------------------------------------------------------------
(* Finding the volumes: the sequence of volumes, which is empty when mounting *)
(* fails.                                                                     *)

Failed == <<>>

\* A volume is recognised by the identifier in its first block.
IsDos(block) == block.kind = "boot"

\* adfMountFlop: the root block is where the boot block says, when there is
\* one, and otherwise in the middle.
adfMountFlop(img, geometry) ==
  LET last == geometry.cylinders * geometry.cylBlocks - 1
      calculated == adfVolCalcRootBlk(0, last)
      IsRootAt(s) == IsRoot(adfVolReadBlock(img, Volume(0, last, s), s))
  IN CASE ~IsDos(img[0]) -> <<Volume(0, last, -1)>>
       [] IsDos(img[0]) /\ img[0].root > 1 /\ IsRootAt(img[0].root) ->
            <<Volume(0, last, img[0].root)>>
       [] IsDos(img[0]) /\ ~(img[0].root > 1 /\ IsRootAt(img[0].root))
            /\ IsRootAt(calculated) -> <<Volume(0, last, calculated)>>
       [] OTHER -> Failed

\* adfMountHdFile: the root block is searched for from the middle of the image
\* down; the volume ends as far behind it as it begins before it.
adfMountHdFile(img, geometry) ==
  LET roots == {s \in 2..(Size(img) \div 2) : IsRoot(img[s])}
      root  == CHOOSE s \in roots : \A t \in roots : t <= s
  IN CASE ~IsDos(img[0]) -> <<Volume(0, geometry.cylinders * geometry.cylBlocks - 1, -1)>>
       [] IsDos(img[0]) /\ roots # {} -> <<Volume(0, 2 * root - 1, root)>>
       [] OTHER -> Failed

\* adfReadPARTblock, and the first block of the partition can be read.
IsPart(img, cylBlocks, s) ==
  /\ s \in DOMAIN img /\ img[s].kind = "PART"
  /\ cylBlocks * img[s].lowCyl \in DOMAIN img

\* The volume a PART block describes.
PartVolume(img, cylBlocks, part) ==
  LET first == cylBlocks * part.lowCyl
      last  == (part.highCyl + 1) * cylBlocks - 1
  IN Volume(first, last, IF IsDos(img[first]) THEN adfVolCalcRootBlk(first, last) ELSE -1)

\* adfMountHd: follows the list of PART blocks; the file system blocks behind
\* them are read, but nothing depends on them.
adfMountHd(img) ==
  LET cylBlocks == img[0].geometry.cylBlocks
      list[n \in Nat] ==
        IF n = 0 THEN <<img[0].partitionList>>
        ELSE LET read == list[n - 1] IN
               IF IsPart(img, cylBlocks, Last(read)) THEN Append(read, img[Last(read)].next) ELSE read
  IN LET parts == list[Size(img)] IN
       IF IsRdsk(img[0]) /\ Last(parts) = -1
         THEN [i \in 1..(Len(parts) - 1) |-> PartVolume(img, cylBlocks, img[parts[i]])]
         ELSE Failed

\* adfDevMount
Found(img, d) ==
  CASE d.class = "floppy"   -> adfMountFlop(img, d.geometry)
    [] d.class = "harddisk" -> adfMountHd(img)
    [] d.class = "hardfile" -> adfMountHdFile(img, d.geometry)

\* A volume of the list of a device, not mounted.
Listed(vs) == [i \in 1..Len(vs) |-> [range |-> vs[i], mounted |-> FALSE, readOnly |-> TRUE]]

-----------------------------------------------------------------------------
(* Writing a partition table (adfCreateHdHeader) *)

Rdsk(geometry, n) ==
  [kind |-> "RDSK", geometry |-> geometry, partitionList |-> 1, fileSysHdrList |-> n + 1]
Fshd(n) == [kind |-> "FSHD", next |-> -1, segListBlock |-> n + 2]
Lseg    == [kind |-> "LSEG", next |-> -1]

\* Deviation: the last cylinder of a partition is the first of the next one.
Partition_TooLong(part, next) ==
  [kind |-> "PART", next |-> next, lowCyl |-> part.start, highCyl |-> part.start + part.len]

Partition(part, next) ==
  [kind |-> "PART", next |-> next, lowCyl |-> part.start,
   highCyl |-> part.start + part.len - 1]

\* The rigid disk block, a block for each partition, the two for the file system.
Header(geometry, parts) ==
  <<Rdsk(geometry, Len(parts))>>
    \o [i \in 1..Len(parts) |-> Partition(parts[i], IF i < Len(parts) THEN i + 1 ELSE -1)]
    \o <<Fshd(Len(parts)), Lseg>>

\* adfWriteRDSKblock, adfWritePARTblock, adfWriteFSHDblock, adfWriteLSEGblock.
WriteHeaderBlock(io, readOnly, nSect, block) ==
  IF readOnly THEN [io EXCEPT !.ok = FALSE] ELSE adfDevWriteBlock(io, nSect, block)

adfCreateHdHeader(io, readOnly, geometry, parts) ==
  LET header == Header(geometry, parts)
      written[i \in 0..Len(header)] ==
        IF i = 0 THEN io ELSE WriteHeaderBlock(written[i - 1], readOnly, i - 1, header[i])
  IN written[Len(header)]

-----------------------------------------------------------------------------
(* Calls on a device *)

IO == [image |-> image, writable |-> dev.writable, ok |-> TRUE]

Idle == dev.open /\ ~dev.mounted

\* adfCreateDumpDevice: the image file is made anew, with blocks of zeros.
adfCreateDumpDevice(geometry, size) ==
  /\ image' = [s \in 0..(size - 1) |-> Blank]
  /\ dev' = Device("dump", geometry, ClassBySize(size), "readwrite")

\* ramdiskCreate: the memory holds what malloc left there. It is sizeBlocks *
\* sizeBlocks bytes: room for all blocks when there are at least 512, as the
\* small numbers of the model stand for.
ramdiskCreate(geometry, size) ==
  /\ \E content \in {Blank, Data} : image' = [s \in 0..(size - 1) |-> content]
  /\ dev' = Device("ramdisk", geometry, ClassBySize(size), "readwrite")

adfDevCreate(geometry) ==
  LET size == geometry.cylinders * geometry.cylBlocks IN
    /\ ~dev.open
    /\ adfCreateDumpDevice(geometry, size) \/ ramdiskCreate(geometry, size)
    /\ made' = <<>>

adfDevOpen(mode) ==
  /\ ~dev.open /\ image # NoImage
  /\ dev' = Opened(image, mode)
  /\ UNCHANGED <<image, made>>

\* adfReleaseDumpDevice: the file is closed.
adfReleaseDumpDevice == dev' = Closed /\ UNCHANGED <<image, made>>

\* ramdiskRelease: the memory is given back.
ramdiskRelease == dev' = Closed /\ image' = NoImage /\ made' = <<>>

adfDevClose ==
  /\ dev.open
  /\ IF dev.driver = "ramdisk" THEN ramdiskRelease ELSE adfReleaseDumpDevice

adfDevMount ==
  /\ Idle
  /\ Found(image, dev) # Failed
  /\ dev' = [dev EXCEPT !.mounted = TRUE, !.volList = Listed(Found(image, dev))]
  /\ UNCHANGED <<image, made>>

adfDevUnMount ==
  /\ dev.open /\ dev.mounted
  /\ dev' = [dev EXCEPT !.mounted = FALSE, !.volList = <<>>]
  /\ UNCHANGED <<image, made>>

\* The volumes a program with the habits asks for.
Suitable(v, left) ==
  /\ HasRoom(v, left)
  /\ "one_list_of_pages" \in Habits => BitmapSize(v) <= RootPages
  /\ "low_partition" \in Habits =>
       v.first + 2 <= v.root /\ v.first <= PageBits - 1

\* The device with the new volumes vs, which counts as mounted.
MountedWith(vs, class) ==
  [dev EXCEPT !.mounted = TRUE, !.class = class, !.volList = Listed(vs)]

\* After making the volumes vs with result io.
Writes(io, vs) ==
  /\ image' = io.image
  /\ made' = IF io.ok THEN vs ELSE IF io.writable THEN <<>> ELSE made

Finish(io, vs, class) ==
  Writes(io, vs) /\ dev' = IF io.ok THEN MountedWith(vs, class) ELSE dev

adfCreateFlop(dircache, left) ==
  /\ Idle
  /\ "eighty_cylinders" \in Habits =>
       dev.class = "floppy" /\ dev.geometry.cylinders = FlopCylinders
  /\ LET v == NewVolume(dev.geometry.cylBlocks, 0, FlopCylinders) IN
       /\ Suitable(v, left)
       /\ Finish(adfVolCreate(IO, v, dev.readOnly, dircache, left), <<v>>, dev.class)

adfCreateHdFile(dircache, left) ==
  /\ Idle
  /\ LET v == NewVolume(dev.geometry.cylBlocks, 0, dev.geometry.cylinders) IN
       /\ "even_size" \in Habits => SizeInBlocks(v) % 2 = 0
       /\ Suitable(v, left)
       /\ Finish(adfVolCreate(IO, v, dev.readOnly, dircache, left), <<v>>, "hardfile")

\* Partitions that a program asks for are on the device, behind the header, and
\* have no cylinder in common.
Apart(parts) ==
  /\ \A i \in 1..Len(parts) :
       /\ parts[i].start * dev.geometry.cylBlocks > Len(parts) + 2
       /\ parts[i].start + parts[i].len <= dev.geometry.cylinders
  /\ \A i, j \in 1..Len(parts) :
       i < j => \/ parts[i].start + parts[i].len <= parts[j].start
                \/ parts[j].start + parts[j].len <= parts[i].start

PartitionVolume(part) == NewVolume(dev.geometry.cylBlocks, part.start, part.len)

\* adfCreateHd, the loop over the partitions.
CreateVolumes(io, parts, left) ==
  LET created[i \in 0..Len(parts)] ==
        IF i = 0 THEN io
        ELSE adfVolCreate(created[i - 1], PartitionVolume(parts[i]), dev.readOnly,
                          parts[i].dircache, left)
  IN created[Len(parts)]

\* adfCreateHd: the volumes, then the header, after which the device counts as
\* mounted also when the header was not written. When a volume cannot be made
\* the list of volumes is released and still in use: the program cannot go on
\* with the device.
adfCreateHd(parts, left) ==
  /\ Idle
  /\ "partitions_apart" \in Habits => Apart(parts)
  /\ \A i \in 1..Len(parts) : Suitable(PartitionVolume(parts[i]), left)
  /\ LET volumes == CreateVolumes(IO, parts, left)
         vs      == [i \in 1..Len(parts) |-> PartitionVolume(parts[i])]
     IN IF volumes.ok
          THEN /\ Writes(adfCreateHdHeader(volumes, dev.readOnly, dev.geometry, parts), vs)
               /\ dev' = MountedWith(vs, "harddisk")
          ELSE IF dev.driver = "ramdisk" THEN ramdiskRelease
          ELSE Writes(volumes, vs) /\ dev' = Closed

\* A program writes a block of the device itself, e.g. to erase it.
Overwrite ==
  LET io == adfDevWriteBlock(IO, 0, Data) IN
    /\ Idle
    /\ image' = io.image
    /\ made' = IF io.ok THEN <<>> ELSE made
    /\ UNCHANGED dev

-----------------------------------------------------------------------------
(* Calls on a volume *)

\* adfVolMount: read-only first, then read-write when the file system is found
\* consistent and the device can be written. When the first one fails the file
\* system is looked for in no volume (a NULL pointer): no step.
adfVolMount(i, mode) ==
  /\ dev.open /\ i \in 1..Len(dev.volList) /\ ~dev.volList[i].mounted
  /\ Mountable(image, dev.volList[i].range)
  /\ mode = "readwrite" => Consistent(image, dev.volList[i].range) /\ ~dev.readOnly
  /\ dev' = [dev EXCEPT !.volList[i].mounted = TRUE,
                        !.volList[i].readOnly = (mode # "readwrite")]
  /\ UNCHANGED <<image, made>>

adfVolRemount(i, mode) ==
  /\ dev.open /\ i \in 1..Len(dev.volList) /\ dev.volList[i].mounted
  /\ mode = "readwrite" => ~dev.readOnly
  /\ dev' = [dev EXCEPT !.volList[i].readOnly = (mode # "readwrite")]
  /\ UNCHANGED <<image, made>>

adfVolUnMount(i) ==
  /\ dev.open /\ i \in 1..Len(dev.volList) /\ dev.volList[i].mounted
  /\ dev' = [dev EXCEPT !.volList[i].mounted = FALSE]
  /\ UNCHANGED <<image, made>>

\* Blocks a program may ask to be written: free ones (the last of them), and
\* numbers that are not of the volume: behind its end, before its beginning.
Targets(v) ==
  LET free == FreeOnDisk(image, v, adfVolReadBlock(image, v, v.root)) IN
    {s \in free : \A t \in free : t <= s}
      \cup {SizeInBlocks(v), Modulus - 1, (Modulus - v.first) % Modulus}

\* adfVolWriteBlock, called with a block number from outside.
WriteVolumeBlock(i, nSect) ==
  /\ dev.open /\ i \in 1..Len(dev.volList) /\ dev.volList[i].mounted
  /\ LET v == dev.volList[i] IN
       /\ nSect \in Targets(v.range) \ {0}
       /\ image' = adfVolWriteBlock(IO, v.range, v.readOnly, nSect, Data).image
  /\ UNCHANGED <<dev, made>>

\* adfVolInstallBootBlock: the boot block is read and written with the boot code
\* and the root block of a floppy of 80 cylinders.
adfVolInstallBootBlock(i) ==
  /\ dev.open /\ i \in 1..Len(dev.volList) /\ dev.volList[i].mounted
  /\ dev.class = "floppy"
  /\ LET v == dev.volList[i] IN
       /\ IsDos(adfVolReadBlock(image, v.range, 0))
       /\ "one_root" \in Habits =>
            \/ v.range.root = InstallRoot
            \/ ~IsRoot(adfVolReadBlock(image, v.range, InstallRoot))
       /\ image' = WriteBoot(IO, v.range, v.readOnly, InstallRoot).image
  /\ UNCHANGED <<dev, made>>

-----------------------------------------------------------------------------

Modes == {"readonly", "readwrite"}

Init == image = NoImage /\ dev = Closed /\ made = <<>>

Next ==
  \/ \E g \in Geometries : adfDevCreate(g)
  \/ \E mode \in Modes : adfDevOpen(mode)
  \/ adfDevClose \/ adfDevMount \/ adfDevUnMount
  \/ \E left \in Leftovers :
       \/ \E dircache \in BOOLEAN : adfCreateFlop(dircache, left) \/ adfCreateHdFile(dircache, left)
       \/ \E parts \in Layouts : adfCreateHd(parts, left)
  \/ dev.open /\ Overwrite
  \/ dev.open /\ \E i \in 1..Len(dev.volList) :
       \/ \E mode \in Modes : adfVolMount(i, mode) \/ adfVolRemount(i, mode)
       \/ adfVolUnMount(i)
       \/ adfVolInstallBootBlock(i)
       \/ dev.volList[i].mounted /\
            \E nSect \in Targets(dev.volList[i].range) : WriteVolumeBlock(i, nSect)

Spec == Init /\ [][Next]_vars

-----------------------------------------------------------------------------
(* Properties *)

Volumes(size) == [first : 0..(size - 1), last : 0..(size - 1), root : -1..(size - 1)]

TypeOK ==
  /\ image = NoImage \/ DOMAIN image = 0..(Size(image) - 1)
  /\ dev = Closed \/
       /\ dev.class \in {"floppy", "hardfile", "harddisk"}
       /\ {dev.readOnly, dev.writable, dev.mounted} \subseteq BOOLEAN
       /\ \A i \in 1..Len(dev.volList) :
            /\ dev.volList[i].range \in Volumes(Size(image))
            /\ {dev.volList[i].mounted, dev.volList[i].readOnly} \subseteq BOOLEAN
  /\ ToSet(made) \subseteq Volumes(Size(image))

\* The volumes of a device (volList) are ranges of its blocks that do not
\* overlap each other nor, on a hard disk, the blocks of the partition table:
\* whether they were just made or found by adfDevMount.
VolumesApart ==
  dev.open =>
    LET n == Len(dev.volList)
        range(i) == dev.volList[i].range
    IN /\ \A i \in 1..n : range(i).first <= range(i).last /\ range(i).last < Size(image)
       /\ \A i, j \in 1..n :
            i < j => range(i).last < range(j).first \/ range(j).last < range(i).first
       /\ dev.class = "harddisk" => \A i \in 1..n : range(i).first > n + 2

\* Volumes that were made on an image are found again, the same blocks with
\* the same root block, whenever the image is opened and mounted anew, though
\* nothing on the disk says what kind of image it is (adfDevOpen,
\* adfDevMount); no write through a volume reaches another one, the partition
\* table or its own boot block (adfVolWriteBlock).
ReopenFindsVolumes ==
  made # <<>> => Found(image, Opened(image, "readonly")) = made

\* The blocks a volume needs: the two boot blocks, the root block, the pages of
\* the bitmap with the blocks that list them, the directory cache block.
SystemList(v) ==
  LET root == adfVolReadBlock(image, v, v.root) IN
    <<0, 1, v.root>> \o PageList(image, v, root) \o ExtChain(image, v, root.ext)
      \o (IF root.cache = 0 THEN <<>> ELSE <<root.cache>>)

\* A volume that was made can be mounted for writing; each of its system
\* blocks has a block of its own, which its bitmap says is used, and on a
\* volume at the beginning of the device all other blocks are free
\* (adfVolCreate, adfWriteNewBitmap, adfUpdateBitmap against adfVolMount).
VolumesSound ==
  \A v \in ToSet(made) :
    /\ Mountable(image, v) /\ Consistent(image, v)
    /\ IsInjective(SystemList(v))
    /\ LET free == FreeOnDisk(image, v, adfVolReadBlock(image, v, v.root)) IN
         /\ ToSet(SystemList(v)) \cap free = {}
         /\ v.first = 0 => 0..v.last \subseteq free \cup ToSet(SystemList(v))

\* Nothing is written to an image that is opened read-only, whatever a program
\* calls (adfDevOpen with ADF_ACCESS_MODE_READONLY).
ReadOnlyKeepsImage == [][dev.open /\ dev.readOnly => image' = image]_vars
=============================================================================
