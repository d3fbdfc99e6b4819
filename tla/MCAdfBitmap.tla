---------------------------- MODULE MCAdfBitmap ----------------------------
(* AdfBitmap on a small volume: five or six blocks with the root block in   *)
(* the middle, and bitmap pages of two bits, so that there are three pages  *)
(* and, with five blocks, the last one is only partly used.                 *)
EXTENDS AdfBitmap
=============================================================================
