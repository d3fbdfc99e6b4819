-------------------------- MODULE Namespace_proofs --------------------------
(* The promises of Namespace together keep its tree well formed, for every   *)
(* set of names and entries. WellFormed is inductive as it stands.           *)
EXTENDS Namespace, TLAPS

\* A new entry keeps the tree well formed.
LEMMA CreatesKeeps ==
  ASSUME WellFormed, Creates(tree, tree')
  PROVE  WellFormed'
<1>1. PICK e \in tree' \ tree :
        /\ tree' = tree \cup {e}
        /\ IsDirectory(tree, e.dir) /\ ~Taken(tree, e.dir, e.name)
        /\ \A f \in tree : f.id # e.id
  BY DEF Creates
<1>2. OneEntryPerName'
  BY <1>1 DEF WellFormed, OneEntryPerName, Taken
<1>3. OnePlacePerEntry'
  BY <1>1 DEF WellFormed, OnePlacePerEntry
<1>4. NoOrphans'
  BY <1>1 DEF WellFormed, NoOrphans, IsDirectory
<1> QED
  BY <1>2, <1>3, <1>4 DEF WellFormed

\* So does the removal of an entry.
LEMMA RemovesKeeps ==
  ASSUME WellFormed, Removes(tree, tree')
  PROVE  WellFormed'
<1>1. PICK e \in tree \ tree' : IsEmpty(tree, e) /\ tree' = tree \ {e}
  BY DEF Removes
<1>2. OneEntryPerName' /\ OnePlacePerEntry'
  BY <1>1 DEF WellFormed, OneEntryPerName, OnePlacePerEntry
<1>3. NoOrphans'
  <2> SUFFICES ASSUME NEW f \in tree' PROVE IsDirectory(tree', f.dir)
    BY DEF NoOrphans
  <2>1. f \in tree /\ f.dir # e.id
    BY <1>1 DEF IsEmpty
  <2>2. IsDirectory(tree, f.dir)
    BY <2>1 DEF WellFormed, NoOrphans
  <2> QED
    BY <1>1, <2>1, <2>2 DEF IsDirectory
<1> QED
  BY <1>2, <1>3 DEF WellFormed

\* So does a new name or place.
LEMMA RenamesKeeps ==
  ASSUME WellFormed, Renames(tree, tree')
  PROVE  WellFormed'
<1>1. PICK e \in tree \ tree', f \in tree' \ tree :
        /\ tree' = (tree \ {e}) \cup {f}
        /\ f.id = e.id /\ f.kind = e.kind
        /\ IsDirectory(tree', f.dir) /\ ~Taken(tree \ {e}, f.dir, f.name)
  BY DEF Renames
<1>2. OneEntryPerName'
  BY <1>1 DEF WellFormed, OneEntryPerName, Taken
<1>3. OnePlacePerEntry'
  BY <1>1 DEF WellFormed, OnePlacePerEntry
<1>4. ASSUME NEW d, IsDirectory(tree, d)
      PROVE  IsDirectory(tree', d)
  \* The renamed entry is a directory as before, all others are still there.
  BY <1>1, <1>4 DEF IsDirectory
<1>5. NoOrphans'
  BY <1>1, <1>4 DEF WellFormed, NoOrphans
<1> QED
  BY <1>2, <1>3, <1>5 DEF WellFormed

\* However entries are created, removed, moved and renamed, a name means one
\* entry of a directory, an entry is in one directory, and none is left behind
\* by the removal of its directory: what adfCreateEntry, adfRemoveEntry and
\* adfRenameEntry promise is enough for a tree of named entries.
THEOREM NamesMeanEntries == Spec => []WellFormed
<1>1. Init => WellFormed
  BY DEF Init, WellFormed, OneEntryPerName, OnePlacePerEntry, NoOrphans
<1>2. WellFormed /\ [Next]_tree => WellFormed'
  <2>1. ASSUME WellFormed, Next PROVE WellFormed'
    <3>1. Creates(tree, tree') \/ Removes(tree, tree') \/ Renames(tree, tree')
      BY <2>1 DEF Next
    <3> QED
      BY <2>1, <3>1, CreatesKeeps, RemovesKeeps, RenamesKeeps
  <2>2. ASSUME WellFormed, UNCHANGED tree PROVE WellFormed'
    BY <2>2 DEF WellFormed, OneEntryPerName, OnePlacePerEntry, NoOrphans
  <2> QED
    BY <2>1, <2>2
<1> QED
  BY <1>1, <1>2, PTL DEF Spec
=============================================================================
