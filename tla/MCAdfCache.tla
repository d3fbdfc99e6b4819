----------------------------- MODULE MCAdfCache -----------------------------
(* AdfCache with blocks of four cells and records of one to three. *)
EXTENDS AdfCache

AllHabits == {"no_new_block", "no_inner_block", "room_for_a_cache", "closed_files"}
ButNoNewBlock == AllHabits \ {"no_new_block"}
=============================================================================
