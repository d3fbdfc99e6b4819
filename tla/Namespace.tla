----------------------------- MODULE Namespace -----------------------------
(***************************************************************************)
(* What the directories of a volume promise (doc/API/api_dir.html): a tree *)
(* of entries. An entry is known by the sector of its header and has a     *)
(* name in a directory; no two names of a directory are equal when written *)
(* in capital letters.                                                     *)
(***************************************************************************)
CONSTANTS
  Root,  \* the root directory
  Upper  \* Upper[n]: name n in capital letters

VARIABLE tree  \* records [id, kind, dir, name]

Init == tree = {}

IsDirectory(t, d) == d = Root \/ \E e \in t : e.id = d /\ e.kind = "dir"
Taken(t, d, n)    == \E e \in t : e.dir = d /\ Upper[e.name] = Upper[n]
IsEmpty(t, e)     == \A f \in t : f.dir # e.id

\* The tree t may become u: an entry is added, is removed when nothing is in
\* it, or has a new name or directory and keeps what is in it.
Creates(t, u) ==
  \E e \in u \ t : /\ u = t \cup {e}
                  /\ IsDirectory(t, e.dir) /\ ~Taken(t, e.dir, e.name)
                  /\ \A f \in t : f.id # e.id

Removes(t, u) == \E e \in t \ u : IsEmpty(t, e) /\ u = t \ {e}

Renames(t, u) ==
  \E e \in t \ u, f \in u \ t :
    /\ u = (t \ {e}) \cup {f}
    /\ f.id = e.id /\ f.kind = e.kind
    /\ IsDirectory(u, f.dir) /\ ~Taken(t \ {e}, f.dir, f.name)

Next ==
  \E t \in {tree}, u \in {tree'} : Creates(t, u) \/ Removes(t, u) \/ Renames(t, u)

Spec == Init /\ [][Next]_tree

\* What the calls promise together: a name, in capital letters, means one entry
\* of a directory; an entry is in one directory only; and the directory of an
\* entry is there as long as the entry.
OneEntryPerName ==
  \A e, f \in tree : e.dir = f.dir /\ Upper[e.name] = Upper[f.name] => e = f
OnePlacePerEntry == \A e, f \in tree : e.id = f.id => e = f
NoOrphans == \A e \in tree : IsDirectory(tree, e.dir)
WellFormed == OneEntryPerName /\ OnePlacePerEntry /\ NoOrphans
=============================================================================
