------------------------------ MODULE MCAdfDir ------------------------------
(* AdfCurrentDir with names of which two are equal in capital letters, two  *)
(* are in one entry of the hash table and one is in another. Only few names *)
(* are given by a program that also undeletes entries and changes its       *)
(* current directory.                                                       *)
EXTENDS AdfCurrentDir

MCNames == {"a", "A", "b", "c"}
MCUpper == [n \in MCNames |-> IF n = "a" THEN "A" ELSE n]
MCBucket == [n \in MCNames |-> IF n = "c" THEN 1 ELSE 0]

OnlyEntries == [names |-> MCNames, calls |-> {}]
ManyCalls ==
  {OnlyEntries, [names |-> {"a", "b"}, calls |-> Calls]}
FewCalls == {OnlyEntries}

AllHabits ==
  {"new_name", "not_below_itself", "closed_files", "last_in_list", "free_name",
   "into_a_directory", "enter_directories", "keep_current"}
ButNewName == AllHabits \ {"new_name"}
ButClosedFiles == AllHabits \ {"closed_files"}
=============================================================================
