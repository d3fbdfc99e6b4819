-------------------------- MODULE MCAdfFileCursor --------------------------
(* AdfFileCursor with data blocks of three bytes and lists of two blocks: a *)
(* file of MaxSize bytes reaches into its fourth extension block.           *)
EXTENDS AdfFileCursor

InsideBlocks == {n \in 1..MaxSize : n % BlockSize # 0}
=============================================================================
