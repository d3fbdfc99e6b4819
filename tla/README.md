# A verification project for ADFlib

ADFlib is a C library that reads and writes Amiga file systems (OFS, FFS, with
or without directory cache) in disk images and on devices. It is a sequential
library: there are no threads. What makes it hard is that one structure is kept
in several places (the bitmap in memory and on the disk, the header of a file in
an open handle and on the disk, an entry in its hash chain and in the directory
cache), that one call is several block writes any of which may fail, and that
several handles of one program share a volume.

## Inventory

| Part | Source (src/src) | State | Operations | What is hard | What makes it correct |
|---|---|---|---|---|---|
| Allocation bitmap | adf_bitm.c | bitmap pages in memory with a changed mark each; pages and valid flag on the disk | get free blocks, set free/used, update, rebuild, create | update is several writes; rebuild must find every block in use | a block in use is never granted; no block is lost; a flag that says valid tells the truth |
| Volume | adf_vol.c | mounted, readOnly, geometry, current directory | create, mount, remount, unmount, read/write block | the access mode decides what is checked; unmount writes nothing | blocks outside the volume are never touched |
| Files | adf_file.c, adf_file_block.c, adf_file_util.[ch] | per open handle: header, current extension and data block, position inside each, changed mark | open, read, write, seek, truncate, flush, close | four counters that move together; block and extension boundaries; a full volume in the middle of a write; truncation of data not yet flushed; two handles | a file is a sequence of bytes with a cursor |
| Directories | adf_dir.c | hash table of a directory, chains of headers, parent links | create, remove, rename, lookup, set comment/access | relinking chains in several writes; errors in the middle; stale headers in open handles | a directory is a map from names to entries; no entry is lost or found twice |
| Directory cache | adf_cache.c | chain of cache blocks with packed records | add, delete, update record | records have variable length, blocks fill up and empty | the cache lists exactly the entries of the directory |
| Salvage | adf_salv.c | - | list deleted, check, undelete | blocks of a deleted file may be in use again | undelete never shares a block |
| Devices | adf_dev.c, adf_dev_type.c, adf_dev_flop.c | device, its volumes, mounted | open, create, mount, unmount, close | lifecycle of volumes inside devices | nothing is used after it was released |
| Hard disks | adf_dev_hd.c, adf_dev_hdfile.c | RDB, partition list | read, create partitions | ranges of cylinders | volumes are disjoint ranges of the device |
| Block formats | adf_raw.c, adf_blk*.h | - | byte order, checksum | - | what is written is read back |
| Drivers | adf_dev_driver*.c, linux/, win32/, generic/ | file or memory | read/write sectors | bounds of the device | sectors outside the device are refused |
| Environment, utilities | adf_env.c, adf_util.c, adf_str.c, adf_vector.c | callbacks, properties | dates, strings, vectors | - | - |
| Tools | examples/ | - | - | - | - |

The library is called by one thread; an operation runs to its end before the
next one starts. Interleaving is at the level of calls: several open files, the
directory functions and the bitmap of one volume share blocks, and each keeps
copies of some of them. Nothing is persisted but the blocks of the volume: a
crash leaves the disk as the block writes before it left it.

## Modules

| Module | Models | State | Actions |
|---|---|---|---|
| AdfBitmap | adf_bitm.c on a mounted volume, mount/unmount in adf_vol.c | the tables in memory, the pages on the disk, progress of an update, blocks in use | mount, remount, unmount, crash, grant, free, each page of adfUpdateBitmap, rebuild |
| AdfFileUtil | adf_file_util.[ch] | none | pure functions: position to block, size to number of blocks |
| AdfFileCursor | the counters of adf_file.c | position, position in the data and the extension block, block number; number of blocks | one turn of the loops of read and write; seek, truncate, reopen |
| FileSpec | what adf_file.c promises | a sequence of bytes, a position | open, close, read, write, seek, truncate |
| AdfFile | adf_file.c, adf_file_block.c | header, extension block and data block in memory; the blocks on the disk; free blocks | one turn of read and write; open, flush, close, seek, truncate |
| Namespace | what adf_dir.c promises | a set of entries with name, kind and directory | add, remove, rename |
| AdfDir | adf_dir.c, the header of open files | header blocks, free blocks, headers in memory | adfCreateDir, adfRemoveEntry, adfRenameEntry, opening, writing and closing a file |
| AdfSalvage | adf_salv.c, over AdfDir | that of AdfDir; a free block keeps its header | adfUndelEntry (files and directories) |
| AdfCurrentDir | vol->curDirPtr, over AdfDir | the block of the current directory | adfToRootDir, adfChangeDir, adfParentDir |
| AdfCache | adf_cache.c, its calls in adf_dir.c and adf_file.c | cache blocks, what their records show of the headers, free blocks, headers in memory | the functions that change an entry: create, remove, rename, comment, access, close |
| AdfVolume | block access of adf_vol.c, adfVolCreate; adfCreateBitmap, adfWriteNewBitmap, adfReadBitmap in adf_bitm.c; boot and root block of adf_raw.c | none | operators on an image: what a function writes, what it reads |
| AdfDevice | adf_dev.c, adf_dev_type.c, adf_dev_flop.c, adf_dev_hd.c, adf_dev_hdfile.c, dump and ramdisk drivers | the blocks of an image, the device, its volumes | create, open, close, mount, unmount a device; make a floppy, a hardfile, a hard disk; mount, remount, unmount a volume, write a block, install the boot block |
| MCAdfBitmap, MCAdfFileCursor, MCAdfFile, MCAdfDir, MCAdfCache, MCAdfDevice | instances for TLC | | |
| AdfBitmap_proofs, AdfFileCursor_proofs, AdfFile_proofs, AdfDevice_proofs, Namespace_proofs, AdfDir_proofs, AdfCache_proofs | theorems | | |
| Numbers_proofs | lemmas on least numbers, ranks, recursive functions, quotients and remainders, for the other proofs | | |

How they fit together: AdfFile implements FileSpec (IsByteSequence; proved for every
volume and every size of data blocks and lists) and
moves its counters as AdfFileCursor says (CountsAsCursor in MCAdfFile), for which the
agreement of the counters is proved for every block size. AdfDir, also with the calls of
AdfSalvage and AdfCurrentDir, implements Namespace (IsNamespace; proved for every volume
and every set of names), which in turn is proved to keep a tree of named entries. AdfBitmap stands under both: what AdfFile and AdfDir
call free is the bitmap of AdfBitmap, and the callers of AdfBitmap (Link, Unlink,
held) stand for what they do. AdfCache stands beside AdfDir: it is about volumes with a
directory cache, keeps of an entry what its record shows, and leaves the hash tables to
AdfDir. AdfDevice, with the operators of AdfVolume, is below all of them: it makes the
volume with the bitmap AdfBitmap starts from (AdfBitmap!Init is what VolumesSound says of
a new volume), finds it again, and lets a block number of it reach the image.

One run may be about several volumes or programs, as variables that never change: in
AdfFile the volume (`vol`, one of the constant Volumes); in AdfDir the program (`program`,
one of the constant Programs: the names it uses, and whether it undeletes entries or
changes the current directory).

### Correspondence to the code

Names of definitions are the names of the functions they translate. An operation
that reads and writes several blocks is an operator from a record (called w or
World: the file or directory with its volume) to the next one, so that the early
returns of the code are an IF on w.ok and an action is a whole call. The
exceptions are adfUpdateBitmap, which is one action per page since the program
may stop between two pages, and adfFileRead and adfFileWrite, where an action is
one turn of the loop: the state between two turns is that after a shorter call.

* AdfBitmap. `free[s]` is bit s - 2 of `bitmap.table`, `blocksChg` is
  `bitmap.blocksChg`, `diskFree` and `bmFlag` are what the disk has, `upd` is the
  page adfUpdateBitmap looks at next. `tree` are the blocks the metadata on the
  disk refers to, `held` those a caller was granted and has not yet linked.
  `committed`, `trusted` and `shared` are history variables, which enable no step. `committed`
  is the bitmap of the last complete update. `trusted` is false from an operation that was
  cut off (by a crash or an unmount while a caller held a block or a page was marked
  changed), and from a rebuild that missed a block in use (one behind an unreadable block,
  one that an open file was granted), to a rebuild that finds them all. `shared` is true from
  the first grant of a block that is in use: two have it then, which no rebuild undoes.
* AdfFileCursor. `nDataBlock` and the positions are those of struct AdfFile.
  `extBlock` is the number of the block in `currentExt`. `dataN`, `extN` count the
  blocks of the file. `refused` notes that a volume became full between an extension
  block and the data block it was needed for; the extension block is then lost.
* AdfFile. `file` is struct AdfFile; `changed` is currentDataBlockChanged. A block
  never written holds zeros, and a block of zeros has a valid checksum: it is read
  as any kind of block. Block 0, which a 0 in a list leads to, does not.
* AdfDir. A block of the disk is the header of an entry; `hashTable`, `parent` and
  `nextSameHash` are its fields. What a free block holds matters only when entries are
  undeleted: when the program undeletes, it keeps its header until it is written again, and
  otherwise it counts as no header (no other operation reads one; EntriesFound and
  UsedExactly would show it). A file has at most one data block; `data` stands for all the blocks
  adfFreeFileBlocks finds. Upper and Bucket stand for adfStrToUpper and
  adfGetHashValue; that equal capital names share a bucket is an assumption, and
  holds since the hash is that of the capital letters.
* AdfCache. A record is in as many cells as it is long, and each cell says which part of
  which record it is, so that a shift by a wrong length or a record over another one
  cannot be read. `value` stands for size, protection bits and dates. A record that runs
  past the end of a block is undefined behaviour in C (in one build it overwrote the
  number of the new block and the write failed); the model drops what is outside, and only
  the run about that defect gets there. Directories are in the root directory, which loses
  nothing: adf_cache.c sees one directory at a time.

* AdfSalvage. adfGetDelEnt lists free blocks that are headers; adfUndelEntry marks the
  blocks of the entry used and links it like a new one. That the link to the entry that
  followed it is not reset is in the model, and why the habit "last_in_list" is needed.
* AdfCurrentDir. `curDir` is vol->curDirPtr, which no call on an entry looks at or changes.
  The habit "keep_current" (CarefulRemoval) is about calls of adfRemoveEntry only. The directory functions take a block as an
  argument, adfFileOpen the current directory: in AdfDir both are any directory, which
  includes the current one.
* AdfVolume. An image is a function from block numbers to records with a `kind`. What
  protects a block on the disk, identifier and checksum, is the kind: a block read as
  something else is refused, but for bitmap extension blocks, which nothing checks, and
  blocks of zeros, which are bitmap pages with no free block. A function maps io
  = [image, writable, ok] to the next one; after `ok` is FALSE it writes no more. Block
  numbers are added modulo Modulus, as uint32_t. What malloc leaves in the tables of a
  new bitmap is a parameter (Leftovers): all bits set or none, all pages marked or none.
* AdfDevice. `dev` is struct AdfDevice, `dev.volList` its volumes; `made` is a history
  variable: the volumes that were made on the image and not overwritten since. Heads and
  sectors appear as the blocks of a cylinder. An image has at most one device.

## Habits: known defects the passing runs leave out

Several defects of the code make the properties fail for programs that meet them. So that
the rest can be checked, the passing runs are about programs that keep some
habits, each named in the module and given as a constant. Without the habit the property
fails; where a run shows it, its name is given.

| Left out by | What happens without it | Line (src/src) | Run |
|---|---|---|---|
| "flush_to_read" | reading on past a changed data block drops the change | adf_file.c:293 | file_read_loses |
| "flush_to_extend" | a write that finds the volume full clears the changed mark of the block in memory, a later seek drops it | adf_file.c:336 | |
| "room_to_extend" | an extension block and a data block are needed and one block is left: the extension block is granted and linked, and stays without data behind the end of the file | adf_file.c:1106 | |
| "flush_to_truncate" | truncating reads the extension blocks from the disk, also when the one in memory is newer | adf_file.c:891 | |
| "reopen_to_truncate" | an extension block that was removed stays in memory and the next flush writes it | adf_file.c:610 | |
| TruncateTo, truncateTo | after truncation to a multiple of the data block size, also to nothing, the current data block is one that was removed | adf_file.c:505 | |
| OFS files below the first extension block | sequential reading does not load extension blocks on OFS, appending then uses a missing or wrong one | adf_file.c:976 | |
| "new_name" | a rename to a name that is taken is refused after the entry was unlinked | adf_dir.c:808 | dir_rename |
| "not_below_itself" | a directory can be moved into itself | adf_dir.c:746 | |
| "closed_files" | a handle writes an old header over newer links | adf_file.c:657 | dir_handles |
| "closed_files" (AdfCache) | a handle writes a record of the old length over one of another length | adf_file.c:679 | |
| "no_new_block" | a record for which a cache block is added goes past the end of the full one, the new one gets zeros | adf_cache.c:465 | cache_new_block |
| "no_inner_block" | the last record of a block inside a cache is deleted: the blocks behind it are cut off | adf_cache.c:364 | |
| "room_for_a_cache" | a directory is created when there is no block for its cache: its record is there, its header is not | adf_dir.c:467 | |
| FailAt without 2 and more | a later write of a directory operation fails: a link to a block that was not written, or an entry without a link | adf_dir.c:774, 419 | |
| "last_in_list" | an undeleted entry keeps the link to the entry that followed it: its list becomes a circle or joins another | adf_salv.c:359 | |
| "free_name" | a directory that cannot be undeleted since its name is taken leaves its block used | adf_salv.c:241 | |
| "into_a_directory" | the parent of a deleted entry is a block that still looks like a directory and is data of a file | adf_salv.c:169 | |
| "enter_directories" | a file becomes the current directory | adf_dir.c:87 | |
| "keep_current" | the current directory is removed and stays current (one above it is not empty and cannot be removed) | adf_dir.c:87 | |
| "one_list_of_pages" | the pages in bitmap extension blocks get the sectors of those in the root block | adf_bitm.c:413 | volume_pages |
| "low_partition", v.first = 0 in VolumesSound | the bitmap of a new partition keeps what the memory held for its first blocks | adf_bitm.c:99 | |
| "even_size" | a hardfile of an odd number of blocks is found one block short | adf_dev_hdfile.c:152 | |
| "eighty_cylinders" | adfCreateFlop makes a volume of 80 cylinders on every device | adf_dev_flop.c:158 | |
| "one_root" | a boot block is installed with 880 as the root block, where a floppy of high density may have an old root block | adf_vol.c:413 | |
| "partitions_apart" | adfCreateHd looks neither for overlap nor for the end of the device | adf_dev_hd.c:47 | |
| adfCreateHd ends the use of the device | when a volume cannot be made, the list of volumes is freed and used | adf_dev_hd.c:72 | |
| SysBlocks = {} | rebuilding the bitmap forgets bitmap extension blocks and the cache of the root directory | adf_bitm.c:569 | bitmap_rebuild_sys |
| trusted | a crash or unmount between metadata and the bitmap; an unreadable block during a rebuild; a rebuild forgets the last block | adf_file.c:690, adf_bitm.c:600, 563 | |
| trusted, shared | a rebuild while a file is open for writing sets the blocks free that it was granted and no header on the disk refers to yet; they are granted twice | adf_bitm.c:562 | |

Most of these habits are guards (operators called Careful...) on a call of the program: on
what it calls, in which state, never on what the call leads to. "closed_files" is one on the
blocks a call writes. The last rows are no guards: the steps are in the model, and a property
says nothing from there on, or until the bitmap is right again.

An OFS data block also gets a wrong dataSize in its header when a file is opened for
writing and closed (adf_file.c:633). AdfFile writes what the code writes; the
content of a file does not depend on it, and no property looks at it.

## Runs

One property is a liveness property (UpdateReturns, in the run bitmap). It needs weak
fairness of the steps of adfUpdateBitmap (FairSpec), which the code justifies: a call that
runs goes on to its next statement, as the library is called by one thread and waits for
nothing. No caller is obliged to call, and no fault to happen. Everywhere else nothing has
to happen by itself. Deadlock is checked in all runs.

| Run | What it shows |
|---|---|
| bitmap | five blocks in three pages, the last one partly used; writes fail, programs stop or unmount at any point: a page not marked changed is as on the disk, and a flag that says valid is followed by the pages of one complete update. Rebuilds happen at any time, also when callers hold blocks and when a block cannot be read. As long as no operation was cut off and no rebuild missed a block in use, and again after a rebuild that finds them all, no block is granted twice (InUseNotFree) and none is lost (NoBlockLost). An update that began returns, complete or with the flag telling that it is not (UpdateReturns) |
| bitmap_rebuild_sys | finding: a rebuild frees system blocks |
| cursor_ffs | data blocks of 3 bytes, lists of 2: up to 19 bytes, into the fourth extension block (three are full), so that the step from one extension block to the next, past a full last one, and the seek over several are there |
| file | the blocks of a file in data blocks of two bytes, on one of six volumes. FFS: up to 7 bytes, lists of 2, on a volume of 4 blocks, so that it becomes full; lists of 1 entry, up to 3 extension blocks in a chain, and a volume of two blocks on which one is left when two are needed. OFS: two blocks; three blocks with one value written, so that there is an inner one; the same on a volume of two blocks, so that it becomes full. The file is a sequence of bytes, its blocks are its own, the counters are those of AdfFileCursor |
| file_read_loses | finding: reading drops a change |
| dir | three blocks to grant, four names: two equal in capitals, two in one bucket; one file open at a time; the first write of an operation may fail: lists of up to three entries, directories in directories, a full volume. A second program, with two names in one list, undeletes removed entries and walks through directories that are moved, removed and undeleted: its current directory stays one of the tree. What is listed, what is looked up and what is used agree |
| dir_rename | finding: rename loses an entry |
| dir_handles | finding: closing a file loses an entry |
| cache | three blocks with room for four cells, three entries with records of one to three, started empty or with a cache of three blocks as another program writes it: the cache and the headers list the same entries, and the blocks of caches are those in use |
| cache_new_block | finding: the record that needs a new block is lost and the cache unreadable |
| devices | floppies of 20, 22 and 40 blocks, images of 13, 14 and 65 blocks that are of no known medium, four layouts of partitions, one with a volume of two bitmap pages; images are closed and opened again with both modes. Volumes are apart, found again, sound, and a read-only image is never written |
| volume_pages | finding: on a volume with more pages than the root block lists, pages share their sectors |

Why the bounds are enough: what the code tells apart is whether a position is inside,
at the end or at the start of a block, whether a block is in the header's list, the
first, an inner or the last of an extension block, and whether an extension block is
the first or a later one; and in a list of entries the first, an inner and the last
one; in a cache block the first, an inner and the last record, one that is replaced by a
shorter, an equal and a longer one, and the first and the last block; of a device whether it is a known medium, has a partition table, an even number of blocks, one or more partitions (in order and not), and of a block number whether it is in the volume, behind it, or before it after the sum wrapped around. Each case occurs in the runs. The sizes 72, 127 * 32 and 488/512 of the code
are parameters, and the theorems hold for all values of them.

## Theorems

AdfBitmap_proofs, for every geometry of the volume:

* TypeCorrect, PagesOnDisk, ValidFlag: for all combinations of faults. The invariant
  DiskInv adds to the two properties what an update in progress has reached: the flag is
  invalid during an update, and pages below `upd` are not marked changed. Without it
  ValidFlagMeansComplete is not inductive, since UpdateEnd
  says valid of pages nothing is known of.
* NoDoubleGrant, NoLeak: for all combinations of faults, under Orderly (every system
  block holds a bitmap page: rebuilding is right only then). The invariant OwnerInv says
  of the pages on the disk what the properties say of memory, for the time when the
  volume is not mounted; that unmounting carries the one over to the other rests on
  UnmarkedPagesOnDisk. And it says what holds while the bitmap is not trusted, also after a
  rebuild set blocks of a caller free: until one of them is granted again, a block has one
  owner. Only from this follows that a later rebuild, with no block held, is right.

AdfFileCursor_proofs, for every block size and list length:

* RealSizeAgrees: adfFileRealSize and the inline functions of adf_file_util.h agree.
  Its lemmas derive what is needed of quotient and remainder from the definitions.
* CursorType, CursorPosition, CursorExtBlock, CursorBlocks: the four invariants of
  cursor_ffs, under Orderly (truncation never to a multiple of the data block size, see
  Habits), the third on volumes that are not OFS. The inductive invariant IInv joins
  the four: the position alone is not inductive, as
  the next extension block is found from the current one, and whether a block is there to
  move to follows from the number of blocks.

AdfFile_proofs, for every set of volumes (OFS or FFS, size of lists, blocks that may be
granted, largest file, sizes to truncate to) and every size of data blocks:

* FileTypeOK, FileOwnsItsBlocks, FileFlushesOwnBlocks, FileChangesAreMarked, FileOfsLinks
  and FileRemovesListedBlocks: the invariants and the action property of the run file.
  FileIsByteSequence: the refinement of FileSpec it checks, which is all FileSpec has.
  FileReadKeepsContent: what the run file_read_loses finds violated holds for programs
  that flush before they read on.
* Their hypothesis CarefulFiles says what MCAdfFile says: programs have the five habits, OFS
  files are too small for an extension block (adf_file.c:976), and no file is truncated to a
  multiple of the size of a data block (adf_file.c:505).
* The inductive invariant, FileInv (theorem FileIsKept), says that there are sectors of data
  blocks, sectors of extension blocks and bytes such that, when the blocks in memory stand
  for those on the disk, the file is made of these: Owns (the sectors are all different, and
  the others are free), Lists (the header and the extension blocks list them, are linked
  and counted) and Holds (the data blocks have the bytes, and links on OFS). It adds what the
  properties do not mention. DataPlaced and ExtPlaced say where the file is: the blocks in
  memory are those the counters say. Marked says what may differ from the disk: bytes of
  the data block when it is marked as changed, and more than bytes (its link, the header,
  the extension block) only when it is the last of the file. The properties alone are not inductive: the next block is found in the
  extension block in memory, on FFS, or through the link of the data block in memory, on
  OFS, and a seek that reads a block again needs to know what of it was on the disk.
* Owns, Lists and Holds are about sequences instead of what the recursive definition Follow
  finds; ExtSectorIs and ExtOfIs say that following the links gives these. What adfFileFlush,
  adfFileReadNextBlock, adfFileCreateNextBlock, adfFileSeek and adfFileTruncate do is a lemma
  each: FlushKeeps, NextBlockIs, CreateIs, SeekIs and TruncateIs. From IsRead (nothing in
  memory is newer than the disk), which a flush reaches, every block can be read again. Text is the file as bytes; PutTextIs
  says that bytes put into a block are put into it at the position of the file.

AdfDevice_proofs, for every size of device, cylinder and bitmap page. First facts about
single calls:

* WrapCheckIsRangeCheck, WriteStaysInside: the check of block numbers after an addition
  modulo 2^32 is the check of the range, for volumes whose last block is below 2^32; a
  write through a volume changes nothing outside of it, and nothing when it is read-only.
* NewVolumeRange, PartitionsDisjoint, PartitionFoundAgain, HardfileEnd: what a volume made
  of cylinders consists of, and what is found of it; the last one says when the end
  computed for a hardfile is right.
* BitmapReadAsWritten: the pages written of a set of free blocks are read as that set.
  Its lemma BlockHasPage is that the number of pages computed for a volume is enough.

Then about all behaviours:

* DeviceTypes, VolumesAreApart, VolumesAreFoundAgain, VolumesAreSound, ReadOnlyIsKept: the
  five properties of the run devices, for every set of media, geometries and layouts.
* Their hypothesis CarefulDevices says what the run's .cfg says: programs have the six
  habits, and the numbers of the blocks of a device, and 880, are below 2^32.
* The inductive invariant, DeviceInv (theorem DevicesFit), joins three things. ImageFits: a
  rigid disk block is followed by a list of partition blocks that is one of the layouts, as
  far as these were not overwritten, so that also an image on which a new file system was
  made over an old one gives ranges that are apart. DeviceFits: what an open device knows
  agrees with the size of the image, and a driver writes only if the device is not
  read-only. MadeFits: each volume that was made stands, which is VolumeStands: there are
  pages, a cache block and a set of free blocks such that root block and pages are those of
  one complete adfUpdateBitmap. ReopenFindsVolumes is not inductive, as it does not
  say that a write to a free block of one volume reaches no page, root or boot block of
  another; VolumesSound is not, as a page may say anything of blocks behind the volume's
  end. BootLeads is the part about the boot block: the block it names is the root block
  or none, which installing a boot block keeps only under the habit "one_root".
* VolumeMade says of adfVolCreate what a proof of a caller needs: if it succeeds
  the volume stands, and in any case nothing outside of it has changed. Its
  loops (adfGetFreeBlocks, adfWriteNewBitmap, adfUpdateBitmap, the loop of adfCreateHd, the
  list of partitions adfMountHd follows) are recursive functions; the operators Granted,
  ListsPages, PagesAre, CreatedInTurn, WithHeader and ReadTo say what they reach after k
  turns.

AdfDir_proofs, for every volume, set of names, hash function and set of programs, and for
all the calls of AdfDir, AdfSalvage and AdfCurrentDir together:

* DirTypeOK, EntriesAreFound, ListingsAreComplete, BlocksAreUsedExactly,
  CurrentStaysDirectory: the five invariants of the run dir. DirectoriesAreNamespace: the
  refinement it checks, in its safety part, which is all Namespace has.
* CurrentStaysDirectory needs more of a step than that it leads to a sound volume: which
  entries are still there. EveryStep says that only a removal loses one, and only the one
  removed (RemovesOnly). So the current directory is kept by whatever is created, moved,
  undeleted or closed, and by the removal of another entry; only its own removal is left out
  by a habit. That no directory above it is removed is not assumed: the current directory is
  in it.
* Their hypothesis CarefulPrograms says what the run's .cfg says: of a call no write or the
  first one fails, and programs have the eight habits. Each of these is needed: without it a
  property fails, as the table of habits says.
* The inductive invariant, DirectoriesSound, is about a set of entries instead of what the
  recursive functions find: there is a set E of blocks, a rank and a depth such that every
  entry of E is in the list its header says, exactly once (a rank that grows along the
  links), in a directory of less depth, under a name no other entry of that list has.
  The five properties are not inductive: what is found says nothing of a block that two
  links lead to, or of the rank on which the next relinking depends. And the invariant
  says two things they do not mention: an open file's copy of its header is as on the
  disk but for its data (OpenFit), or closing it would write an old link; and the header
  of a directory that was removed lists nothing (NothingStale), or undeleting it
  would bring back entries whose blocks are free. Accounted is UsedExactly for E.
* Each operation is a lemma from such a structure to the next: Created, Removed, Moves
  and Relinks (a rename unlinks an entry, and links it elsewhere or not at all), Undeleted.
  A move keeps the directories a tree only because its target is not below what is
  moved: the depth of all that is moved with it changes.

AdfCache_proofs, for every size of a cache block, number of entries and set of lengths:

* CacheTypeOK, CacheListsTheEntries, CacheBlocksAreUsed: the three invariants of the run
  cache. Their hypothesis CarefulCaches says what the run's .cfg says: programs have the four
  habits. What CacheAssumption asks of the constants is what the format gives: a record is
  not empty and not longer than a block, and a block number is not 0.
* The inductive invariant, CacheInv (theorem CachesFit), says where each entry's record is:
  Packed gives the number and the offset of each record of a block, so that the offsets
  adfGetDirEntCache finds by adding lengths are these; CacheIs gives each directory its
  blocks and each entry the block that holds its record. The three are not inductive, even
  together: that only the first block of a cache may be empty (NoneEmpty) is needed when a
  directory is removed, as only its first block is set free; and closing a file writes the
  header in memory, which must be the one on the disk (OpenFiles).
* Of a block: BlockPut, BlockRemoved and BlockReplaced say that putting a record behind the
  last one, and the two loops that move records up after one is deleted or becomes
  shorter, leave the others as they were, and in order. Of a cache: ChainIs says that
  following the links from the first block gives its blocks. On these rest the lemmas about
  the calls, Added, Deleted, Updated, Created and Emptied, in which a record that becomes
  longer is one that is deleted and added, as in the code.

Numbers_proofs: what these proofs need of recursive functions, and of quotients and remainders. The induction theorems
of the library take an operator and cannot be used here, so an induction is a minimal
counterexample: the set of numbers for which a claim fails has no least element. From it
follow that a recursive definition defines a function, that it keeps an invariant,
and that the limit of a growing set is closed.

Namespace_proofs: NamesMeanEntries, for every set of names. WellFormed is inductive as it
stands; that a directory is removed only when it is empty is what NoOrphans needs.

Model-checked only, on the instances above: CountsAsCursor, the refinement of AdfFileCursor by
AdfFile, which is stated in MCAdfFile for one of its volumes and counts the blocks of the
file up to a bound; and the liveness property UpdateReturns, which is out of the prover's
reach (fairness, ENABLED). The violated properties of the findings are false of what the
code does, and have runs only; of one, ReadKeepsContent, a theorem says when it holds.

## Not modelled

* Byte order and checksums (adf_raw.c): a conversion applied when a block is written and
  undone when it is read; blocks are records with a kind instead.
* Names longer than 30 characters and capital letters outside of ASCII; dates, comments and
  protection bits (but for the records that show them in AdfCache); links, which this
  library reads and does not make.
* In adf_salv.c the check of an entry (adfCheckEntry, read only) and volumes with a
  directory cache; in adf_vol.c volume information and mounting a damaged root block; in
  adf_dev_hd.c the blocks for the file system, which nothing depends on, and a damaged
  list of partitions.
* What happens to pointers to a volume or file after its device is closed: undefined. So is
  what adfVolMount does when the volume cannot even be mounted read-only and read-write was
  asked for: it looks for the file system of NULL (adf_vol.c:196, 388); AdfDevice has no step
  there.
* Mounting a volume that is mounted already (nothing checks it: the tables of the bitmap are
  allocated and read again), and creating a device over one that is open.
* Ramdisks of less than 512 blocks: ramdiskCreate takes sizeBlocks * sizeBlocks bytes
  (adf_dev_driver_ramdisk.c:51), which is less than the blocks need. The small devices of the
  run devices stand for larger ones.
* Failing reads, and writes that fail in AdfFile and AdfCache. Memory allocation does not
  fail. Native drivers, the list of drivers, logging, notification and progress callbacks,
  the command line tools.

## Plan

1. Failing writes in AdfFile and AdfCache; two handles of one file.
2. Comments and protection bits in AdfDir, and the checks of access that read them;
   undeleting on volumes with a directory cache.
3. CountsAsCursor as a theorem: AdfFileCursor's counters as functions of FileInv's sectors.
