---------------------------- MODULE MCAdfDevice ----------------------------
(* AdfDevice with media scaled down: floppies of ten (for 80) cylinders     *)
(* with two or four blocks, one of eleven cylinders, images of an even and  *)
(* of an odd number of blocks, and a hard disk of 65 blocks, with a         *)
(* partition of 15 and one of 45 blocks, which has two bitmap pages. On the *)
(* floppy of 40 blocks a partition may have its root block in the tenth     *)
(* block (for block 880).                                                   *)
EXTENDS AdfDevice

Medium(cylinders, cylBlocks) ==
  [cylinders |-> cylinders, cylBlocks |-> cylBlocks, class |-> "floppy"]
Geometry(cylinders, cylBlocks) == [cylinders |-> cylinders, cylBlocks |-> cylBlocks]

MCMedia == {Medium(10, 2), Medium(11, 2), Medium(10, 4)}

MCGeometries ==
  {Geometry(10, 2), Geometry(11, 2), Geometry(10, 4), Geometry(7, 2), Geometry(13, 1),
   Geometry(13, 5)}

MCLayouts ==
  {<<[start |-> 1, len |-> 3, dircache |-> TRUE], [start |-> 4, len |-> 9, dircache |-> FALSE]>>,
   <<[start |-> 2, len |-> 4, dircache |-> FALSE]>>,
   <<[start |-> 1, len |-> 3, dircache |-> FALSE]>>,
   <<[start |-> 3, len |-> 9, dircache |-> FALSE], [start |-> 1, len |-> 3, dircache |-> FALSE]>>}

MCLeftovers == [bits : BOOLEAN, chg : BOOLEAN]
=============================================================================
