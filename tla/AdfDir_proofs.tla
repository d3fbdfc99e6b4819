--------------------------- MODULE AdfDir_proofs ---------------------------
(***************************************************************************)
(* The directories of a volume are sound whatever its size, its names and  *)
(* its hash function: proofs about AdfDir with the entries programs        *)
(* undelete (AdfSalvage) and their current directory (AdfCurrentDir).      *)
(***************************************************************************)
EXTENDS AdfCurrentDir, Numbers_proofs

-----------------------------------------------------------------------------
(* Blocks *)

HeaderSet ==
  [kind : {"dir", "file"}, name : Names, parent : Sectors \cup {Root},
   nextSameHash : Sectors \cup {0}, hashTable : [Hashes -> Sectors \cup {0}],
   data : SUBSET Sectors]

\* A header that may be in the block s.
Fits(s, entry) ==
  /\ entry \in HeaderSet /\ s \notin entry.data
  /\ entry.kind = "dir" => entry.data = {}

BlocksFit(b) ==
  /\ b = [s \in Sectors \cup {Root} |-> b[s]]
  /\ b[Root] \in [kind : {"dir"}, nextSameHash : {0},
                  hashTable : [Hashes -> Sectors \cup {0}]]
  /\ \A s \in Sectors : b[s] = NoHeader \/ Fits(s, b[s])

-----------------------------------------------------------------------------
(* Lists. E is the set of the entries, D that of the directories. The rank *)
(* of an entry grows along its list.                                       *)

HeadOf(b, d, h) == b[d].hashTable[h]
NextOf(b, s) == b[s].nextSameHash
DirOf(b, s)  == b[s].parent
NameOf(b, s) == b[s].name
HashOf(b, s) == Bucket[b[s].name]
CapsOf(b, s) == Upper[b[s].name]
KindOf(b, s) == b[s].kind
DataIn(b, s) == b[s].data

\* The hash table of d is empty.
ListsNothing(b, d) == \A h \in Hashes : HeadOf(b, d, h) = 0

DirectoriesOf(b, E) == {Root} \cup {s \in E : KindOf(b, s) = "dir"}

\* The entries of the directory d that are in its list number h.
Listed(b, E, d, h) == {s \in E : DirOf(b, s) = d /\ HashOf(b, s) = h}

\* Every entry is in a directory; tables and links lead to entries that belong
\* into the list; every entry is led to, and from one place only; no two
\* entries of a directory have the same name.
InDirectory(b, E, D) == \A s \in E : DirOf(b, s) \in D
HeadsFit(b, E, D) ==
  \A d \in D, h \in Hashes : HeadOf(b, d, h) # 0 => HeadOf(b, d, h) \in Listed(b, E, d, h)
LinksFit(b, E, rank) ==
  \A s \in E : NextOf(b, s) # 0 =>
    NextOf(b, s) \in Listed(b, E, DirOf(b, s), HashOf(b, s)) /\ rank[s] < rank[NextOf(b, s)]
AllReached(b, E) ==
  \A s \in E : HeadOf(b, DirOf(b, s), HashOf(b, s)) = s \/ \E t \in E : NextOf(b, t) = s
OneWay(b, E, D) ==
  \A s \in E : NextOf(b, s) # 0 =>
    /\ \A t \in E : NextOf(b, t) = NextOf(b, s) => t = s
    /\ \A d \in D, h \in Hashes : HeadOf(b, d, h) # NextOf(b, s)
NamesApart(b, E) ==
  \A s, t \in E : DirOf(b, s) = DirOf(b, t) /\ CapsOf(b, s) = CapsOf(b, t) => s = t

Linked(b, E, D, rank) ==
  /\ E \subseteq Sectors /\ D \subseteq Sectors \cup {Root} /\ rank \in [Sectors -> Nat]
  /\ \A s \in E : b[s] # NoHeader
  /\ \A d \in D : KindOf(b, d) = "dir"
  /\ InDirectory(b, E, D) /\ HeadsFit(b, E, D) /\ LinksFit(b, E, rank)
  /\ AllReached(b, E) /\ OneWay(b, E, D) /\ NamesApart(b, E)

\* A directory is closer to the root directory than its entries.
Deep(b, E, depth) ==
  /\ depth \in [Sectors \cup {Root} -> Nat]
  /\ \A s \in E : depth[DirOf(b, s)] < depth[s]

-----------------------------------------------------------------------------
(* Blocks in use. F is the set of the free ones, o the open files. *)

\* The header in memory of an open file is that on the disk, but for its data.
OnSectors(o) == o = [s \in Sectors |-> o[s]]

OpenFit(b, E, o) ==
  /\ OnSectors(o)
  /\ \A s \in Sectors : o[s] # NoHeader =>
       /\ s \in E /\ Fits(s, o[s]) /\ KindOf(o, s) = "file"
       /\ o[s] = [b[s] EXCEPT !.data = DataIn(o, s)]

DataOf(b, o, s) == IF o[s] # NoHeader THEN DataIn(o, s) ELSE DataIn(b, s)

Accounted(b, E, F, o) ==
  /\ F \subseteq Sectors
  /\ Sectors \ F = E \cup UNION {DataOf(b, o, s) : s \in E}
  /\ \A s \in E : DataOf(b, o, s) \cap E = {}
  /\ \A s, t \in E : s # t => DataOf(b, o, s) \cap DataOf(b, o, t) = {}

\* The header of a directory that is no longer an entry lists nothing.
NothingStale(b, E) ==
  \A s \in Sectors \ E : KindOf(b, s) = "dir" => ListsNothing(b, s)

Sound(b, F, o, E, rank, depth) ==
  /\ BlocksFit(b)
  /\ Linked(b, E, DirectoriesOf(b, E), rank)
  /\ Deep(b, E, depth)
  /\ OpenFit(b, E, o)
  /\ Accounted(b, E, F, o)
  /\ NothingStale(b, E)

SoundFor(b, F, o, E) ==
  \E rank \in [Sectors -> Nat], depth \in [Sectors \cup {Root} -> Nat] :
    Sound(b, F, o, E, rank, depth)

\* The inductive invariant.
DirectoriesSound ==
  /\ program \in Programs
  /\ \E E \in SUBSET Sectors :
       SoundFor(blocks, free, opened, E) /\ curDir \in DirectoriesOf(blocks, E)

-----------------------------------------------------------------------------
(* Following links *)

\* Blocks have numbers; the root directory's is another one.
LEMMA SectorNumbers ==
  /\ \A s \in Sectors : s \in Nat /\ s # 0 /\ s # Root
  /\ Root \in Nat /\ Root # 0
<1>1. Sectors \subseteq Nat \ {0} /\ Root \in Nat \ (Sectors \cup {0})
  BY DirAssumption
<1> QED
  BY <1>1

\* There is a number of blocks.
LEMMA SectorsSize ==
  /\ Cardinality(Sectors) \in Nat \ {0}
  /\ \A L \in SUBSET Sectors : /\ IsFiniteSet(L) /\ Cardinality(L) \in Nat
                               /\ Cardinality(L) <= Cardinality(Sectors)
<1>1. IsFiniteSet(Sectors) /\ Sectors # {}
  BY DirAssumption
<1>2. Cardinality(Sectors) \in Nat /\ Cardinality(Sectors) # 0
  BY <1>1, FS_CardinalityType, FS_EmptySet
<1>3. ASSUME NEW L \in SUBSET Sectors
      PROVE  /\ IsFiniteSet(L) /\ Cardinality(L) \in Nat
             /\ Cardinality(L) <= Cardinality(Sectors)
  BY <1>1, FS_Subset, FS_CardinalityType
<1> QED
  BY <1>2, <1>3

Next1(b, s) == {s, b[s].nextSameHash} \ {0}
FollowLinks(b, L) == [Y \in SUBSET L |-> UNION {Next1(b, s) : s \in Y}]

\* X leads to all blocks of L, along the links of the blocks.
Leads(b, L, X) ==
  /\ X \subseteq L
  /\ \A s \in L : b[s].nextSameHash \in L \cup {0}
  /\ \E rank : \A s \in L :
       /\ rank[s] \in Nat
       /\ s \in X \/ \E t \in L : b[t].nextSameHash = s /\ rank[t] < rank[s]

\* So all blocks of L are reached in as many steps as there are blocks.
LEMMA LinksLead ==
  ASSUME NEW b, NEW L \in SUBSET Sectors, NEW X, Leads(b, L, X)
  PROVE  \E f : /\ ValuesIn(f, 1, Cardinality(Sectors), SUBSET L)
                /\ Follows(f, X, FollowLinks(b, L), 1, Cardinality(Sectors))
                /\ f[Cardinality(Sectors)] = L
<1> DEFINE n == Cardinality(Sectors)
           F == FollowLinks(b, L)
           S == SUBSET L
<1>1. n \in Nat /\ n \in Int /\ 1 \in Int /\ 1 <= n
  BY SectorsSize
<1>2. /\ X \in S
      /\ \A Y \in SUBSET L : F[Y] = UNION {Next1(b, s) : s \in Y}
      /\ Steps(F, SUBSET L) /\ Steps(F, S) /\ Grows(F, L)
  <2>1. \A s \in L : Next1(b, s) \subseteq L /\ s \in Next1(b, s)
    BY SectorNumbers DEF Leads, Next1
  <2>2. F = [Y \in SUBSET L |-> UNION {Next1(b, s) : s \in Y}]
    BY DEF FollowLinks
  <2> HIDE DEF F
  <2>3. \A Y \in SUBSET L : F[Y] = UNION {Next1(b, s) : s \in Y} /\ F[Y] \subseteq L /\ Y \subseteq F[Y]
    BY <2>1, <2>2
  <2>4. X \in SUBSET L
    BY DEF Leads
  <2> QED
    BY <2>2, <2>3, <2>4 DEF Steps, Grows
<1> HIDE DEF F, n
<1>3. PICK f : ValuesIn(f, 1, n, S) /\ Follows(f, X, F, 1, n)
  <2> HIDE DEF S
  <2> QED
    BY <1>1, <1>2, RecursionExists
<1>4. Suffice(F, L, X, 1, n)
  <2>1. CASE X = {}
    BY <1>2, <2>1 DEF Suffice
  <2>2. CASE X # {}
    <3>1. /\ IsFiniteSet(L) /\ Cardinality(L) <= n /\ Cardinality(L) \in Nat
          /\ IsFiniteSet(X) /\ Cardinality(X) \in Nat
      BY <1>2, SectorsSize DEF n
    <3>2. Cardinality(X) # 0
      BY <2>2, <3>1, FS_EmptySet
    <3> QED
      BY <1>1, <3>1, <3>2 DEF Suffice
  <2> QED
    BY <2>1, <2>2
<1>5. f[n] \in SUBSET L /\ X \subseteq f[n] /\ F[f[n]] = f[n]
  <2>1. IsFiniteSet(L) /\ X \in SUBSET L
    BY <1>2, SectorsSize
  <2>2. Closes(F, L, X, f[n])
    BY <1>1, <1>2, <1>3, <1>4, <2>1, Closure
  <2> QED
    BY <2>2 DEF Closes
<1>6. L \subseteq f[n]
  <2> DEFINE R == L \ f[n]
  <2> SUFFICES ASSUME R # {} PROVE FALSE
    OBVIOUS
  <2>1. PICK rank : \A s \in L :
          /\ rank[s] \in Nat
          /\ s \in X \/ \E t \in L : b[t].nextSameHash = s /\ rank[t] < rank[s]
    BY DEF Leads
  <2>2. PICK s \in R : \A t \in R : rank[s] <= rank[t]
    <3>1. \A s \in R : rank[s] \in Nat
      BY <2>1
    <3> HIDE DEF R
    <3> QED
      BY <3>1, LowestRank
  <2>3. PICK t \in L : b[t].nextSameHash = s /\ rank[t] < rank[s]
    BY <1>5, <2>1
  <2>4. t \in f[n]
    <3>1. ~(rank[s] <= rank[t])
      BY <2>1, <2>3
    <3> QED
      BY <2>2, <3>1
  <2>5. s \in Next1(b, t)
    BY <2>3, SectorNumbers DEF Next1
  <2> QED
    BY <1>2, <1>5, <2>4, <2>5
<1>7. f[n] = L
  BY <1>5, <1>6
<1> QED
  BY <1>3, <1>7, Zenon DEF n, F

\* Following the links from the first block of a list gives the list.
LEMMA ListFromIs ==
  ASSUME NEW b, NEW L \in SUBSET Sectors, NEW first, Leads(b, L, {first} \ {0})
  PROVE  ListFrom(b, first) = L
<1> DEFINE n == Cardinality(Sectors)
           X == {first} \ {0}
           F == FollowLinks(b, L)
           step(Y) == UNION {{s, b[s].nextSameHash} \ {0} : s \in Y}
           Defines(f) == f = [i \in 1..n |-> IF i = 1 THEN X ELSE step(f[i - 1])]
           read == CHOOSE f : Defines(f)
<1>1. n \in Nat /\ n \in Int /\ 1 \in Int /\ 1 <= n
  BY SectorsSize
<1>2. \A Y \in SUBSET L : F[Y] = step(Y)
  BY DEF FollowLinks, Next1
<1>3. PICK f : ValuesIn(f, 1, n, SUBSET L) /\ Follows(f, X, F, 1, n) /\ f[n] = L
  BY LinksLead
<1>4. ListFrom(b, first) = read[n]
  BY DEF ListFrom
<1> HIDE DEF n, X, F, step
<1>5. \A i \in 1..n : f[i] = IF i = 1 THEN X ELSE step(f[i - 1])
  <2> SUFFICES ASSUME NEW i \in 1..n, i # 1 PROVE f[i] = step(f[i - 1])
    BY <1>3 DEF Follows
  <2>1. i \in (1 + 1)..n /\ i - 1 \in 1..n
    BY <1>1
  <2> QED
    BY <1>2, <1>3, <2>1 DEF Follows, ValuesIn
<1>6. Defines(f)
  <2>1. f = [i \in 1..n |-> f[i]]
    BY <1>3 DEF ValuesIn
  <2> QED
    BY <1>5, <2>1
<1>7. Defines(read)
  <2> HIDE DEF Defines
  <2> QED
    BY <1>6
<1> HIDE DEF read
<1>8. \A i \in 1..n : read[i] = IF i = 1 THEN X ELSE step(read[i - 1])
  BY <1>7
<1>9. \A i \in 1..n : read[i] = f[i]
  <2>1. 1 <= n => read[1] = f[1]
    BY <1>1, <1>5, <1>8
  <2>2. \A i \in (1 + 1)..n : read[i - 1] = f[i - 1] => read[i] = f[i]
    <3> SUFFICES ASSUME NEW i \in (1 + 1)..n, read[i - 1] = f[i - 1] PROVE read[i] = f[i]
      OBVIOUS
    <3>1. i \in 1..n /\ i # 1
      BY <1>1
    <3> QED
      BY <1>5, <1>8, <3>1
  <2> HIDE DEF Defines
  <2> QED
    BY <1>1, <2>1, <2>2, RecursionSame
<1> QED
  BY <1>1, <1>3, <1>4, <1>9


-----------------------------------------------------------------------------
(* Reading sound directories *)

\* What is known of the blocks of entries and directories one by one.
LEMMA EntryFits ==
  ASSUME NEW b, BlocksFit(b), NEW E, NEW D, NEW rank, Linked(b, E, D, rank)
  PROVE  /\ E \subseteq Sectors
         /\ \A s \in E :
              /\ KindOf(b, s) \in {"dir", "file"}
              /\ NameOf(b, s) \in Names /\ HashOf(b, s) \in Hashes
              /\ DirOf(b, s) \in D /\ NextOf(b, s) \in Sectors \cup {0}
              /\ DataIn(b, s) \subseteq Sectors
         /\ \A d \in D : d \in Sectors \cup {Root} /\ KindOf(b, d) = "dir"
         /\ \A d \in D, h \in Hashes : HeadOf(b, d, h) \in Sectors \cup {0}
<1> USE DEF HeadOf, NextOf, DirOf, NameOf, HashOf, CapsOf, KindOf, DataIn
<1>1. E \subseteq Sectors /\ D \subseteq Sectors \cup {Root} /\ \A s \in E : b[s] # NoHeader
  BY DEF Linked
<1>2. \A s \in E : b[s] \in HeaderSet /\ DirOf(b, s) \in D
  BY <1>1 DEF BlocksFit, Fits, Linked, InDirectory
<1>3. \A d \in D : KindOf(b, d) = "dir"
  BY DEF Linked
<1>4. ASSUME NEW d \in D, NEW h \in Hashes
      PROVE  HeadOf(b, d, h) \in Sectors \cup {0}
  BY <1>1 DEF Linked, HeadsFit, Listed
<1> QED
  BY <1>1, <1>2, <1>3, <1>4 DEF HeaderSet, Hashes

\* The list that starts at an entry of a hash table holds the entries that belong into it (ListFrom).
LEMMA ListIs ==
  ASSUME NEW b, NEW E, NEW D, NEW rank, Linked(b, E, D, rank), NEW d \in D, NEW h \in Hashes
  PROVE  ListFrom(b, HeadOf(b, d, h)) = Listed(b, E, d, h)
<1> USE DEF HeadOf, NextOf, DirOf, NameOf, HashOf, CapsOf, KindOf, DataIn
<1> DEFINE L == Listed(b, E, d, h)
           X == {HeadOf(b, d, h)} \ {0}
<1>1. L \in SUBSET Sectors /\ X \subseteq L
  BY DEF Linked, HeadsFit, Listed
<1>2. \A s \in L : NextOf(b, s) \in L \cup {0}
  BY DEF Linked, LinksFit, Listed
<1>3. ASSUME NEW s \in L
      PROVE  /\ rank[s] \in Nat
             /\ s \in X \/ \E t \in L : NextOf(b, t) = s /\ rank[t] < rank[s]
  <2>1. s \in E /\ DirOf(b, s) = d /\ HashOf(b, s) = h /\ s # 0
    BY <1>1, SectorNumbers DEF Listed
  <2>2. rank[s] \in Nat
    BY <1>1 DEF Linked
  <2>3. CASE HeadOf(b, d, h) = s
    BY <2>1, <2>2, <2>3
  <2>4. ASSUME NEW t \in E, NextOf(b, t) = s
        PROVE  t \in L /\ rank[t] < rank[s]
    BY <2>1, <2>4 DEF Linked, LinksFit, Listed
  <2>5. HeadOf(b, d, h) = s \/ \E t \in E : NextOf(b, t) = s
    BY <2>1 DEF Linked, AllReached
  <2> QED
    BY <2>2, <2>3, <2>4, <2>5
<1>4. Leads(b, L, X)
  <2> HIDE DEF L, X
  <2> QED
    BY <1>1, <1>2, <1>3 DEF Leads
<1> QED
  BY <1>1, <1>4, ListFromIs

\* The children of a directory are the entries that name it.
ChildrenOf(b, E, d) == {s \in E : DirOf(b, s) = d}

\* The lists of a directory hold its entries.
LEMMA ChildrenIs ==
  ASSUME NEW b, BlocksFit(b), NEW E, NEW D, NEW rank, Linked(b, E, D, rank), NEW d \in D
  PROVE  Children(b, d) = ChildrenOf(b, E, d)
<1> USE DEF HeadOf, NextOf, DirOf, NameOf, HashOf, CapsOf, KindOf, DataIn
<1>1. Children(b, d) = UNION {Listed(b, E, d, h) : h \in Hashes}
  BY ListIs DEF Children
<1>2. \A s \in E : HashOf(b, s) \in Hashes
  BY EntryFits
<1> QED
  BY <1>1, <1>2 DEF Listed, ChildrenOf

\* The entries of a directory that have the name n, in capital letters.
Called(b, E, d, n) == {s \in E : DirOf(b, s) = d /\ CapsOf(b, s) = Upper[n]}

\* The entries of a list that have a name are those of the directory that have it.
LEMMA SameNameIs ==
  ASSUME NEW b, BlocksFit(b), NEW E, NEW D, NEW rank, Linked(b, E, D, rank),
         NEW d \in D, NEW n \in Names
  PROVE  /\ List(b, d, n) = Listed(b, E, d, Bucket[n])
         /\ SameName(b, List(b, d, n), n) = Called(b, E, d, n)
<1> USE DEF HeadOf, NextOf, DirOf, NameOf, HashOf, CapsOf, KindOf, DataIn
<1>1. Bucket[n] \in Hashes
  BY DEF Hashes
<1>2. List(b, d, n) = Listed(b, E, d, Bucket[n])
  BY <1>1, ListIs DEF List
<1>3. ASSUME NEW s \in E, CapsOf(b, s) = Upper[n]
      PROVE  HashOf(b, s) = Bucket[n]
  <2>1. NameOf(b, s) \in Names
    BY EntryFits
  <2>2. \A m \in Names : Bucket[m] = Bucket[Upper[m]]
    BY DirAssumption
  <2> QED
    BY <1>3, <2>1, <2>2
<1> QED
  BY <1>2, <1>3 DEF SameName, Listed, Called

\* adfNameToEntryBlk finds the entry of that name, or there is none.
LEMMA LookupIs ==
  ASSUME NEW b, BlocksFit(b), NEW E, NEW D, NEW rank, Linked(b, E, D, rank),
         NEW d \in D, NEW n \in Names, NEW s, s = adfNameToEntryBlk(b, d, n)
  PROVE  /\ s = 0 => Called(b, E, d, n) = {}
         /\ s # 0 => s \in E /\ Called(b, E, d, n) = {s}
<1> USE DEF HeadOf, NextOf, DirOf, NameOf, HashOf, CapsOf, KindOf, DataIn
<1>1. s = IF Called(b, E, d, n) = {} THEN 0 ELSE CHOOSE t \in Called(b, E, d, n) : TRUE
  <2>1. SameName(b, List(b, d, n), n) = Called(b, E, d, n)
    BY SameNameIs
  <2> QED
    BY <2>1 DEF adfNameToEntryBlk
<1>2. Called(b, E, d, n) # {} => s \in Called(b, E, d, n)
  BY <1>1
<1>3. \A t \in Called(b, E, d, n) : t \in E /\ t # 0
  BY SectorNumbers DEF Linked, Called
<1>4. \A t, u \in Called(b, E, d, n) : t = u
  BY DEF Called, Linked, NamesApart
<1> HIDE DEF Called
<1> QED
  BY <1>1, <1>2, <1>3, <1>4

\* What leads to the entry s of a list: 0 for the hash table, or the one entry
\* that links to it.
LEMMA BeforeIs ==
  ASSUME NEW b, NEW E, NEW D, NEW rank, Linked(b, E, D, rank),
         NEW d \in D, NEW h \in Hashes, NEW s \in Listed(b, E, d, h),
         NEW prev, prev = Before(b, Listed(b, E, d, h), s)
  PROVE  /\ prev = 0 => HeadOf(b, d, h) = s /\ \A t \in E : NextOf(b, t) # s
         /\ prev # 0 => /\ prev \in Listed(b, E, d, h) /\ NextOf(b, prev) = s
                        /\ prev # s
                        /\ \A t \in E : NextOf(b, t) = s => t = prev
                        /\ \A c \in D, g \in Hashes : HeadOf(b, c, g) # s
<1> USE DEF HeadOf, NextOf, DirOf, NameOf, HashOf, CapsOf, KindOf, DataIn
<1> DEFINE L == Listed(b, E, d, h)
<1>1. s \in E /\ DirOf(b, s) = d /\ HashOf(b, s) = h /\ s # 0
  BY SectorNumbers DEF Linked, Listed
<1>2. \A t \in E : NextOf(b, t) = s => t \in L /\ t # 0
  BY <1>1, SectorNumbers DEF Linked, LinksFit, Listed
<1>3. CASE \A t \in L : NextOf(b, t) # s
  <2>1. prev = 0
    BY <1>3 DEF Before
  <2>2. \A t \in E : NextOf(b, t) # s
    BY <1>2, <1>3
  <2>3. HeadOf(b, d, h) = s
    BY <1>1, <2>2 DEF Linked, AllReached
  <2> QED
    BY <2>1, <2>2, <2>3
<1>4. CASE \E t \in L : NextOf(b, t) = s
  <2>1. prev \in L /\ NextOf(b, prev) = s
    BY <1>4 DEF Before
  <2>2. prev \in E /\ prev # 0
    BY <1>2, <2>1 DEF Listed
  <2>3. /\ \A t \in E : NextOf(b, t) = s => t = prev
        /\ \A c \in D, g \in Hashes : HeadOf(b, c, g) # s
    BY <1>1, <2>1, <2>2 DEF Linked, OneWay
  <2>4. prev # s
    <3>1. rank[prev] < rank[s] /\ rank[s] \in Nat
      BY <1>1, <2>1, <2>2 DEF Linked, LinksFit
    <3> QED
      BY <3>1
  <2> QED
    BY <2>1, <2>2, <2>3, <2>4
<1> QED
  BY <1>3, <1>4

\* The last entry of a list links to nothing.
LEMMA LastIs ==
  ASSUME NEW b, NEW E, NEW D, NEW rank, Linked(b, E, D, rank),
         NEW d, NEW h, Listed(b, E, d, h) # {},
         NEW last, last = LastOf(b, Listed(b, E, d, h))
  PROVE  last \in Listed(b, E, d, h) /\ NextOf(b, last) = 0
<1> USE DEF HeadOf, NextOf, DirOf, NameOf, HashOf, CapsOf, KindOf, DataIn
<1> DEFINE L == Listed(b, E, d, h)
<1>1. L # {} /\ IsFiniteSet(L) /\ \A s \in L : rank[s] \in Nat
  BY SectorsSize DEF Linked, Listed
<1>2. PICK s \in L : \A t \in L : rank[t] <= rank[s]
  <2> HIDE DEF L
  <2> QED
    BY <1>1, HighestRank
<1>3. ASSUME NextOf(b, s) # 0
      PROVE  FALSE
  <2>1. NextOf(b, s) \in L /\ rank[s] < rank[NextOf(b, s)]
    BY <1>3 DEF Linked, LinksFit, Listed
  <2> HIDE DEF L
  <2> QED
    BY <1>1, <1>2, <2>1
<1> QED
  BY <1>2, <1>3 DEF LastOf

\* A directory is listed to the end of each of its lists.
LEMMA ListingIs ==
  ASSUME NEW b, BlocksFit(b), NEW E, NEW D, NEW rank, Linked(b, E, D, rank), NEW d \in D
  PROVE  /\ adfGetDirEnt(b, d) = ChildrenOf(b, E, d)
         /\ adfDirCheck(b, d) = {}
<1> USE DEF HeadOf, NextOf, DirOf, NameOf, HashOf, CapsOf, KindOf, DataIn
<1> DEFINE n == Cardinality(Sectors)
           K == ChildrenOf(b, E, d)
           X == {HeadOf(b, d, h) : h \in Hashes} \ {0}
           F == FollowLinks(b, K)
           step(Y) == UNION {IF LinksAstray(b, d, s) THEN {s} ELSE {s, NextOf(b, s)} \ {0} :
                               s \in Y}
           Defines(f) == f = [i \in 1..n |-> IF i = 1 THEN X ELSE step(f[i - 1])]
           read == CHOOSE f : Defines(f)
<1>1. n \in Nat /\ n \in Int /\ 1 \in Int /\ 1 <= n
  BY SectorsSize
<1>2. \A s \in K : ~LinksAstray(b, d, s)
  <2> SUFFICES ASSUME NEW s \in K, NextOf(b, s) # 0
               PROVE  /\ NextOf(b, s) # s
                      /\ \A h \in Hashes : HeadOf(b, d, h) # NextOf(b, s)
    BY DEF LinksAstray
  <2>1. s \in E
    BY DEF ChildrenOf
  <2>2. rank[s] < rank[NextOf(b, s)] /\ rank[s] \in Nat
    BY <2>1 DEF Linked, LinksFit
  <2>3. \A h \in Hashes : HeadOf(b, d, h) # NextOf(b, s)
    BY <2>1 DEF Linked, OneWay
  <2> QED
    BY <2>2, <2>3
<1>3. K \in SUBSET Sectors /\ Leads(b, K, X)
  <2>1. X \subseteq K
    BY DEF Linked, HeadsFit, Listed, ChildrenOf
  <2>2. ASSUME NEW s \in K
        PROVE  /\ s \in Sectors /\ rank[s] \in Nat
               /\ NextOf(b, s) \in K \cup {0}
               /\ s \in X \/ \E t \in K : NextOf(b, t) = s /\ rank[t] < rank[s]
    <3>1. s \in E /\ DirOf(b, s) = d /\ HashOf(b, s) \in Hashes /\ s \in Sectors
      BY EntryFits DEF ChildrenOf
    <3>2. rank[s] \in Nat
      BY <3>1 DEF Linked
    <3>3. NextOf(b, s) \in K \cup {0}
      BY <3>1 DEF Linked, LinksFit, Listed, ChildrenOf
    <3>4. CASE HeadOf(b, d, HashOf(b, s)) = s
      BY <3>1, <3>2, <3>3, <3>4, SectorNumbers
    <3>5. ASSUME NEW t \in E, NextOf(b, t) = s
          PROVE  t \in K /\ rank[t] < rank[s]
      BY <3>1, <3>5, SectorNumbers DEF Linked, LinksFit, Listed, ChildrenOf
    <3>6. HeadOf(b, d, HashOf(b, s)) = s \/ \E t \in E : NextOf(b, t) = s
      BY <3>1 DEF Linked, AllReached
    <3> QED
      BY <3>1, <3>2, <3>3, <3>4, <3>5, <3>6
  <2> HIDE DEF K, X
  <2>3. K \in SUBSET Sectors
    BY <2>2
  <2> QED
    BY <2>1, <2>2, <2>3 DEF Leads
<1>4. \A Y \in SUBSET K : F[Y] = step(Y)
  <2> SUFFICES ASSUME NEW Y \in SUBSET K PROVE F[Y] = step(Y)
    OBVIOUS
  <2>1. \A s \in Y : (IF LinksAstray(b, d, s) THEN {s} ELSE {s, NextOf(b, s)} \ {0}) = Next1(b, s)
    BY <1>2 DEF Next1
  <2>2. F[Y] = UNION {Next1(b, s) : s \in Y}
    BY DEF FollowLinks
  <2> QED
    BY <2>1, <2>2
<1>5. PICK f : ValuesIn(f, 1, n, SUBSET K) /\ Follows(f, X, F, 1, n) /\ f[n] = K
  BY <1>3, LinksLead
<1>6. adfGetDirEnt(b, d) = read[n]
  BY DEF adfGetDirEnt
<1> HIDE DEF n, K, X, F, step
<1>7. \A i \in 1..n : f[i] = IF i = 1 THEN X ELSE step(f[i - 1])
  <2> SUFFICES ASSUME NEW i \in 1..n, i # 1 PROVE f[i] = step(f[i - 1])
    BY <1>5 DEF Follows
  <2>1. i \in (1 + 1)..n /\ i - 1 \in 1..n
    BY <1>1
  <2> QED
    BY <1>4, <1>5, <2>1 DEF Follows, ValuesIn
<1>8. Defines(f)
  <2>1. f = [i \in 1..n |-> f[i]]
    BY <1>5 DEF ValuesIn
  <2> QED
    BY <1>7, <2>1
<1>9. Defines(read)
  <2> HIDE DEF Defines
  <2> QED
    BY <1>8
<1> HIDE DEF read
<1>10. \A i \in 1..n : read[i] = IF i = 1 THEN X ELSE step(read[i - 1])
  BY <1>9
<1>11. \A i \in 1..n : read[i] = f[i]
  <2>1. 1 <= n => read[1] = f[1]
    BY <1>1, <1>7, <1>10
  <2>2. \A i \in (1 + 1)..n : read[i - 1] = f[i - 1] => read[i] = f[i]
    <3> SUFFICES ASSUME NEW i \in (1 + 1)..n, read[i - 1] = f[i - 1] PROVE read[i] = f[i]
      OBVIOUS
    <3>1. i \in 1..n /\ i # 1
      BY <1>1
    <3> QED
      BY <1>7, <1>10, <3>1
  <2> HIDE DEF Defines
  <2> QED
    BY <1>1, <2>1, <2>2, RecursionSame
<1>12. adfGetDirEnt(b, d) = K
  BY <1>1, <1>5, <1>6, <1>11
<1> QED
  BY <1>2, <1>12 DEF adfDirCheck, K

\* What is found below d when the entries of the directories in T are in T.
LEMMA BelowCloses ==
  ASSUME NEW b, NEW T, IsFiniteSet(T), Cardinality(T) <= Cardinality(Sectors) + 1,
         NEW d \in T, \A c \in T : KindOf(b, c) = "dir" => Children(b, c) \subseteq T
  PROVE  /\ Below(b, d) \subseteq T /\ d \in Below(b, d)
         /\ \A c \in Below(b, d) : KindOf(b, c) = "dir" => Children(b, c) \subseteq Below(b, d)
         /\ \A C : /\ d \in C
                   /\ \A c \in C \cap T : KindOf(b, c) = "dir" => Children(b, c) \subseteq C
                   => Below(b, d) \subseteq C
<1> DEFINE n == Cardinality(Sectors)
           X == {d}
           S == SUBSET T
           one(c) == IF KindOf(b, c) = "dir" THEN {c} \cup Children(b, c) ELSE {c}
           step(Y) == UNION {one(c) : c \in Y}
           F == [Y \in SUBSET T |-> step(Y)]
           Defines(f) == f = [i \in 0..n |-> IF i = 0 THEN X ELSE step(f[i - 1])]
           level == CHOOSE f : Defines(f)
<1>1. n \in Nat /\ n \in Int /\ 0 \in Int /\ 0 <= n
  BY SectorsSize
<1>2. /\ X \in S
      /\ \A Y \in SUBSET T : F[Y] = step(Y)
      /\ Steps(F, SUBSET T) /\ Steps(F, S) /\ Grows(F, T)
  <2>1. \A c \in T : one(c) \subseteq T /\ c \in one(c)
    OBVIOUS
  <2> HIDE DEF one
  <2> QED
    BY <2>1 DEF Steps, Grows
<1>3. Suffice(F, T, X, 0, n)
  <2>1. Cardinality(X) = 1
    BY FS_Singleton
  <2>2. Cardinality(T) \in Nat
    BY FS_CardinalityType
  <2> HIDE DEF n, X, F
  <2> QED
    BY <1>1, <2>1, <2>2 DEF Suffice, n
<1>4. Below(b, d) = level[n]
  BY DEF Below, KindOf
<1> HIDE DEF n, X, F
<1>5. PICK f : ValuesIn(f, 0, n, S) /\ Follows(f, X, F, 0, n)
  <2> HIDE DEF S
  <2> QED
    BY <1>1, <1>2, RecursionExists
<1>6. \A i \in 0..n : f[i] = IF i = 0 THEN X ELSE step(f[i - 1])
  <2> SUFFICES ASSUME NEW i \in 0..n, i # 0 PROVE f[i] = step(f[i - 1])
    BY <1>5 DEF Follows
  <2>1. i \in (0 + 1)..n /\ i - 1 \in 0..n
    BY <1>1
  <2>2. f[i] = F[f[i - 1]] /\ f[i - 1] \in SUBSET T
    BY <1>5, <2>1 DEF Follows, ValuesIn
  <2> HIDE DEF step
  <2> QED
    BY <1>2, <2>2
<1> HIDE DEF step
<1>7. Defines(f)
  <2>1. f = [i \in 0..n |-> f[i]]
    BY <1>5 DEF ValuesIn
  <2> QED
    BY <1>6, <2>1
<1>8. Defines(level)
  <2> HIDE DEF Defines
  <2> QED
    BY <1>7
<1> HIDE DEF level
<1>9. \A i \in 0..n : level[i] = IF i = 0 THEN X ELSE step(level[i - 1])
  BY <1>8
<1>10. \A i \in 0..n : level[i] = f[i]
  <2>1. 0 <= n => level[0] = f[0]
    BY <1>1, <1>6, <1>9
  <2>2. \A i \in (0 + 1)..n : level[i - 1] = f[i - 1] => level[i] = f[i]
    <3> SUFFICES ASSUME NEW i \in (0 + 1)..n, level[i - 1] = f[i - 1] PROVE level[i] = f[i]
      OBVIOUS
    <3>1. i \in 0..n /\ i # 0
      BY <1>1
    <3> QED
      BY <1>6, <1>9, <3>1
  <2> HIDE DEF Defines
  <2> QED
    BY <1>1, <2>1, <2>2, RecursionSame
<1>11. Closes(F, T, X, f[n])
  <2>1. X \in SUBSET T
    BY <1>2
  <2> QED
    BY <1>1, <1>2, <1>3, <1>5, <2>1, Closure
<1> DEFINE Z == Below(b, d)
<1>12. Closes(F, T, X, Z)
  <2>1. Z = f[n]
    BY <1>1, <1>4, <1>10
  <2> QED
    BY <1>11, <2>1
<1> HIDE DEF Z
<1>13. Z \in SUBSET T /\ d \in Z /\ step(Z) = Z
  <2>1. Z \in SUBSET T /\ X \subseteq Z /\ F[Z] = Z
    BY <1>12 DEF Closes
  <2> QED
    BY <1>2, <2>1 DEF X
<1>14. \A c \in Z : KindOf(b, c) = "dir" => Children(b, c) \subseteq Z
  BY <1>13 DEF step
<1>15. ASSUME NEW C, d \in C,
              \A c \in C \cap T : KindOf(b, c) = "dir" => Children(b, c) \subseteq C
       PROVE  Z \subseteq C
  <2>1. ASSUME NEW Y \in SUBSET T, Y \subseteq C
        PROVE  F[Y] \subseteq C
    <3>1. \A c \in Y : one(c) \subseteq C
      BY <1>15, <2>1
    <3>2. step(Y) \subseteq C
      <4> HIDE DEF one
      <4> QED
        BY <3>1 DEF step
    <3> QED
      BY <1>2, <3>2
  <2>2. X \subseteq C
    BY <1>15 DEF X
  <2> QED
    BY <1>12, <2>1, <2>2 DEF Closes
<1> QED
  BY <1>13, <1>14, <1>15 DEF Z

\* Below an entry are that entry and the entries of directories below it, and
\* nothing else; below the root directory are all entries.
LEMMA BelowIs ==
  ASSUME NEW b, BlocksFit(b), NEW E, NEW rank, Linked(b, E, DirectoriesOf(b, E), rank),
         NEW d \in E \cup {Root}
  PROVE  /\ Below(b, d) \subseteq E \cup {Root} /\ d \in Below(b, d)
         /\ \A s \in E : DirOf(b, s) \in Below(b, d) => s \in Below(b, d)
         /\ \A s \in Below(b, d) : s = d \/ (s \in E /\ DirOf(b, s) \in Below(b, d))
<1> USE DEF HeadOf, NextOf, DirOf, NameOf, HashOf, CapsOf, KindOf, DataIn
<1> DEFINE D == DirectoriesOf(b, E)
           T == E \cup {Root}
<1>1. D \subseteq T /\ \A c \in T : KindOf(b, c) = "dir" <=> c \in D
  <2>1. KindOf(b, Root) = "dir"
    BY DEF Linked, DirectoriesOf
  <2> QED
    BY <2>1 DEF DirectoriesOf
<1>2. \A c \in D : Children(b, c) = ChildrenOf(b, E, c)
  BY ChildrenIs
<1> HIDE DEF D
<1>3. \A c \in T : KindOf(b, c) = "dir" => Children(b, c) \subseteq T
  BY <1>1, <1>2 DEF ChildrenOf
<1>4. IsFiniteSet(T) /\ Cardinality(T) <= Cardinality(Sectors) + 1
  <2>1. /\ IsFiniteSet(E) /\ Cardinality(E) \in Nat /\ Cardinality(E) <= Cardinality(Sectors)
        /\ Cardinality(Sectors) \in Nat
    BY SectorsSize DEF Linked
  <2>2. IsFiniteSet(T) /\ Cardinality(T) = IF Root \in E THEN Cardinality(E) ELSE Cardinality(E) + 1
    BY <2>1, FS_AddElement
  <2> QED
    BY <2>1, <2>2
<1> HIDE DEF T
<1> DEFINE Z == Below(b, d)
<1>5. /\ Z \subseteq T /\ d \in Z
      /\ \A c \in Z : KindOf(b, c) = "dir" => Children(b, c) \subseteq Z
      /\ \A C : /\ d \in C
                /\ \A c \in C \cap T : KindOf(b, c) = "dir" => Children(b, c) \subseteq C
                => Z \subseteq C
  <2>1. d \in T
    BY DEF T
  <2> QED
    BY <1>3, <1>4, <2>1, BelowCloses
<1> HIDE DEF Z
<1>6. ASSUME NEW s \in E, DirOf(b, s) \in Z
      PROVE  s \in Z
  <2>1. DirOf(b, s) \in D /\ KindOf(b, DirOf(b, s)) = "dir"
    BY DEF Linked, InDirectory, D
  <2>2. s \in Children(b, DirOf(b, s))
    BY <1>2, <2>1 DEF ChildrenOf
  <2> QED
    BY <1>5, <1>6, <2>1, <2>2
<1>7. \A s \in Z : s = d \/ (s \in E /\ DirOf(b, s) \in Z)
  <2> DEFINE C == {s \in Z : s = d \/ (s \in E /\ DirOf(b, s) \in Z)}
  <2>1. d \in C
    BY <1>5
  <2>2. ASSUME NEW c \in C \cap T, KindOf(b, c) = "dir", NEW s \in Children(b, c)
        PROVE  s \in C
    <3>1. c \in D /\ c \in Z /\ s \in Z
      BY <1>1, <1>5, <2>2
    <3>2. s \in E /\ DirOf(b, s) = c
      BY <1>2, <2>2, <3>1 DEF ChildrenOf
    <3> QED
      BY <3>1, <3>2
  <2> HIDE DEF C
  <2>3. Z \subseteq C
    BY <1>5, <2>1, <2>2
  <2> QED
    BY <2>3 DEF C
<1> QED
  BY <1>5, <1>6, <1>7 DEF T, Z

\* All entries are below the root directory.
LEMMA AllBelowRoot ==
  ASSUME NEW b, BlocksFit(b), NEW E, NEW rank, Linked(b, E, DirectoriesOf(b, E), rank),
         NEW depth, Deep(b, E, depth)
  PROVE  Below(b, Root) = E \cup {Root}
<1> USE DEF HeadOf, NextOf, DirOf, NameOf, HashOf, CapsOf, KindOf, DataIn
<1> DEFINE Z == Below(b, Root)
           R == E \ Z
<1>1. /\ Z \subseteq E \cup {Root} /\ Root \in Z
      /\ \A s \in E : DirOf(b, s) \in Z => s \in Z
  BY BelowIs
<1>2. ASSUME R # {}
      PROVE  FALSE
  <2>1. \A s \in R : depth[s] \in Nat
    BY DEF Deep, Linked
  <2>2. PICK s \in R : \A t \in R : depth[s] <= depth[t]
    <3> HIDE DEF R
    <3> QED
      BY <1>2, <2>1, LowestRank
  <2>3. depth[DirOf(b, s)] < depth[s] /\ DirOf(b, s) \in E \cup {Root}
    BY DEF Deep, Linked, InDirectory, DirectoriesOf
  <2>4. DirOf(b, s) \notin R
    BY <2>1, <2>2, <2>3
  <2> QED
    BY <1>1, <2>3, <2>4
<1> QED
  BY <1>1, <1>2


-----------------------------------------------------------------------------
(* Changing lists *)

\* What the entry prev, or when it is 0 the table of d, leads to becomes s.
Point(b, d, h, prev, s) ==
  IF prev = 0
    THEN [b EXCEPT ![d] = [b[d] EXCEPT !.hashTable[h] = s]]
    ELSE [b EXCEPT ![prev] = [b[prev] EXCEPT !.nextSameHash = s]]

\* So b2 is b but for the place that leads to s now.
Pointed(b, d, h, prev, s, b2) ==
  /\ \A t \in Sectors \cup {Root} :
       /\ KindOf(b2, t) = KindOf(b, t)
       /\ t # (IF prev = 0 THEN d ELSE prev) => b2[t] = b[t]
       /\ KindOf(b, t) = "dir" =>
            \A g \in Hashes : HeadOf(b2, t, g) =
              IF prev = 0 /\ t = d /\ g = h THEN s ELSE HeadOf(b, t, g)
  /\ \A t \in Sectors : b[t] # NoHeader =>
       /\ b2[t] # NoHeader
       /\ NameOf(b2, t) = NameOf(b, t) /\ DirOf(b2, t) = DirOf(b, t)
       /\ DataIn(b2, t) = DataIn(b, t)
       /\ NextOf(b2, t) = IF t = prev THEN s ELSE NextOf(b, t)

\* What changes when a link is set.
LEMMA PointIs ==
  ASSUME NEW b, BlocksFit(b), NEW d \in Sectors \cup {Root}, KindOf(b, d) = "dir",
         NEW h \in Hashes, NEW prev \in Sectors \cup {0}, prev # 0 => b[prev] # NoHeader,
         NEW s \in Sectors \cup {0}, NEW b2, b2 = Point(b, d, h, prev, s)
  PROVE  BlocksFit(b2) /\ Pointed(b, d, h, prev, s, b2)
<1> USE DEF HeadOf, NextOf, DirOf, NameOf, KindOf, DataIn, Pointed
<1>1. CASE prev = 0
  <2> DEFINE x == [b[d] EXCEPT !.hashTable[h] = s]
  <2>1. /\ b = [t \in Sectors \cup {Root} |-> b[t]]
        /\ b[Root] \in [kind : {"dir"}, nextSameHash : {0}, hashTable : [Hashes -> Sectors \cup {0}]]
        /\ \A t \in Sectors : b[t] = NoHeader \/ Fits(t, b[t])
    BY DEF BlocksFit
  <2>2. CASE d = Root
    <3>1. /\ x \in [kind : {"dir"}, nextSameHash : {0}, hashTable : [Hashes -> Sectors \cup {0}]]
          /\ x.hashTable = [b[Root].hashTable EXCEPT ![h] = s]
          /\ b[Root].hashTable \in [Hashes -> Sectors \cup {0}]
          /\ x.kind = "dir"
      BY <2>1, <2>2
    <3> HIDE DEF x
    <3>2. b2 = [b EXCEPT ![Root] = x]
      BY <1>1, <2>2 DEF Point, x
    <3>3. b2[Root] = x /\ \A t \in Sectors : b2[t] = b[t]
      BY <2>1, <3>2, SectorNumbers
    <3>4. BlocksFit(b2)
      BY <2>1, <3>1, <3>2, <3>3 DEF BlocksFit
    <3> QED
      BY <1>1, <2>1, <2>2, <3>1, <3>3, <3>4, SectorNumbers
  <2>3. CASE d \in Sectors
    <3>1. Fits(d, b[d])
      BY <2>1, <2>3 DEF NoHeader
    <3>2. /\ x \in HeaderSet /\ x.data = b[d].data /\ x.name = b[d].name
          /\ x.parent = b[d].parent /\ x.nextSameHash = b[d].nextSameHash
          /\ x.hashTable = [b[d].hashTable EXCEPT ![h] = s]
          /\ b[d].hashTable \in [Hashes -> Sectors \cup {0}]
          /\ x.kind = "dir"
      BY <3>1 DEF Fits, HeaderSet
    <3> HIDE DEF x
    <3>3. Fits(d, x) /\ x # NoHeader
      BY <3>1, <3>2 DEF Fits, NoHeader
    <3>4. b2 = [b EXCEPT ![d] = x]
      BY <1>1 DEF Point, x
    <3>5. b2[d] = x /\ \A t \in Sectors \cup {Root} : t # d => b2[t] = b[t]
      BY <2>1, <3>4
    <3>6. BlocksFit(b2)
      <4>1. d # Root
        BY <2>3, SectorNumbers
      <4> QED
        BY <2>1, <3>3, <3>4, <3>5, <4>1 DEF BlocksFit
    <3> QED
      BY <1>1, <2>1, <2>3, <3>2, <3>3, <3>5, <3>6, SectorNumbers
  <2> QED
    BY <2>2, <2>3
<1>2. CASE prev # 0
  <2> DEFINE x == [b[prev] EXCEPT !.nextSameHash = s]
  <2>1. /\ b = [t \in Sectors \cup {Root} |-> b[t]]
        /\ \A t \in Sectors : b[t] = NoHeader \/ Fits(t, b[t])
        /\ prev \in Sectors /\ prev # Root
    BY <1>2, SectorNumbers DEF BlocksFit
  <2>2. Fits(prev, b[prev])
    BY <1>2, <2>1
  <2>3. /\ x \in HeaderSet /\ x.data = b[prev].data /\ x.name = b[prev].name
        /\ x.parent = b[prev].parent /\ x.hashTable = b[prev].hashTable
        /\ x.nextSameHash = s /\ x.kind = b[prev].kind
    BY <2>2 DEF Fits, HeaderSet
  <2> HIDE DEF x
  <2>4. Fits(prev, x) /\ x # NoHeader
    BY <2>2, <2>3 DEF Fits, NoHeader, HeaderSet
  <2>5. b2 = [b EXCEPT ![prev] = x]
    BY <1>2 DEF Point, x
  <2>6. b2[prev] = x /\ \A t \in Sectors \cup {Root} : t # prev => b2[t] = b[t]
    BY <2>1, <2>5
  <2>7. BlocksFit(b2)
    BY <2>1, <2>4, <2>5, <2>6 DEF BlocksFit
  <2> QED
    BY <1>2, <2>1, <2>3, <2>4, <2>6, <2>7
<1> QED
  BY <1>1, <1>2

\* The lists depend on the names, directories and links of the entries and on
\* the tables of the directories.
LEMMA LinkedSame ==
  ASSUME NEW b, NEW b2, NEW E, NEW D, NEW rank, Linked(b, E, D, rank),
         \A t \in E : /\ b2[t] # NoHeader
                      /\ NameOf(b2, t) = NameOf(b, t) /\ DirOf(b2, t) = DirOf(b, t)
                      /\ NextOf(b2, t) = NextOf(b, t),
         \A d \in D : KindOf(b2, d) = KindOf(b, d) /\ b2[d].hashTable = b[d].hashTable
  PROVE  Linked(b2, E, D, rank)
<1>0. /\ \A t \in E : HashOf(b2, t) = HashOf(b, t) /\ CapsOf(b2, t) = CapsOf(b, t)
      /\ \A d \in D : \A h : HeadOf(b2, d, h) = HeadOf(b, d, h)
  BY DEF HashOf, CapsOf, NameOf, HeadOf
<1>1. \A d, h : Listed(b2, E, d, h) = Listed(b, E, d, h)
  BY <1>0 DEF Listed
<1>2. /\ E \subseteq Sectors /\ D \subseteq Sectors \cup {Root} /\ rank \in [Sectors -> Nat]
      /\ \A d \in D : KindOf(b2, d) = "dir"
  BY DEF Linked
<1>3. InDirectory(b2, E, D) /\ NamesApart(b2, E)
  BY <1>0 DEF Linked, InDirectory, NamesApart
<1>4. HeadsFit(b2, E, D)
  BY <1>0, <1>1 DEF Linked, HeadsFit
<1>5. LinksFit(b2, E, rank)
  BY <1>0, <1>1 DEF Linked, LinksFit
<1>6. AllReached(b2, E)
  BY <1>0 DEF Linked, AllReached, InDirectory
<1>7. OneWay(b2, E, D)
  BY <1>0 DEF Linked, OneWay
<1> QED
  BY <1>2, <1>3, <1>4, <1>5, <1>6, <1>7 DEF Linked

\* An entry is taken out of its list.
LEMMA Detach ==
  ASSUME NEW b, BlocksFit(b), NEW E, NEW D, NEW rank, Linked(b, E, D, rank),
         NEW s \in E, NEW d, d = DirOf(b, s), NEW h, h = HashOf(b, s),
         NEW prev, prev = Before(b, Listed(b, E, d, h), s),
         NEW b2, b2 = Point(b, d, h, prev, NextOf(b, s))
  PROVE  BlocksFit(b2) /\ Linked(b2, E \ {s}, D, rank)
<1> DEFINE next == NextOf(b, s)
<1>1. /\ E \subseteq Sectors /\ d \in D /\ h \in Hashes /\ s \in Sectors /\ s # 0
      /\ next \in Sectors \cup {0}
      /\ \A c \in D : c \in Sectors \cup {Root} /\ KindOf(b, c) = "dir"
      /\ \A t \in E : /\ t \in Sectors /\ t # 0 /\ DirOf(b, t) \in D /\ HashOf(b, t) \in Hashes
                      /\ b[t] # NoHeader /\ rank[t] \in Nat
  BY EntryFits, SectorNumbers DEF Linked
<1>2. s \in Listed(b, E, d, h)
  BY DEF Listed
<1>3. /\ prev = 0 => HeadOf(b, d, h) = s /\ \A t \in E : NextOf(b, t) # s
      /\ prev # 0 => /\ prev \in Listed(b, E, d, h) /\ NextOf(b, prev) = s /\ prev # s
                     /\ \A t \in E : NextOf(b, t) = s => t = prev
                     /\ \A c \in D, g \in Hashes : HeadOf(b, c, g) # s
  BY <1>1, <1>2, BeforeIs
<1>4. prev # 0 => prev \in E /\ DirOf(b, prev) = d /\ HashOf(b, prev) = h
  BY <1>3 DEF Listed
<1>5. next # 0 => /\ next \in E /\ DirOf(b, next) = d /\ HashOf(b, next) = h /\ next # s
                  /\ rank[s] < rank[next]
                  /\ \A t \in E : NextOf(b, t) = next => t = s
                  /\ \A c \in D, g \in Hashes : HeadOf(b, c, g) # next
  <2> SUFFICES ASSUME next # 0
               PROVE  /\ next \in E /\ DirOf(b, next) = d /\ HashOf(b, next) = h /\ next # s
                      /\ rank[s] < rank[next]
                      /\ \A t \in E : NextOf(b, t) = next => t = s
                      /\ \A c \in D, g \in Hashes : HeadOf(b, c, g) # next
    OBVIOUS
  <2>1. next \in Listed(b, E, d, h) /\ rank[s] < rank[next]
    BY DEF Linked, LinksFit
  <2>2. next # s
    BY <1>1, <2>1
  <2> QED
    BY <2>1, <2>2 DEF Listed, Linked, OneWay
<1>6. /\ BlocksFit(b2)
      /\ \A c \in D : /\ KindOf(b2, c) = "dir"
                      /\ \A g \in Hashes : HeadOf(b2, c, g) =
                           IF prev = 0 /\ c = d /\ g = h THEN next ELSE HeadOf(b, c, g)
      /\ \A t \in E : /\ b2[t] # NoHeader /\ DirOf(b2, t) = DirOf(b, t)
                      /\ HashOf(b2, t) = HashOf(b, t) /\ CapsOf(b2, t) = CapsOf(b, t)
                      /\ NextOf(b2, t) = IF t = prev THEN next ELSE NextOf(b, t)
  <2>1. /\ d \in Sectors \cup {Root} /\ KindOf(b, d) = "dir" /\ prev \in Sectors \cup {0}
        /\ h \in Hashes /\ next \in Sectors \cup {0}
    BY <1>1, <1>4
  <2>2. prev # 0 => b[prev] # NoHeader
    BY <1>1, <1>4
  <2> HIDE DEF next
  <2>3. b2 = Point(b, d, h, prev, next)
    BY DEF next
  <2>4. /\ BlocksFit(b2)
        /\ Pointed(b, d, h, prev, next, b2)
    BY <2>1, <2>2, <2>3, PointIs
  <2>5. \A t \in E : HashOf(b2, t) = HashOf(b, t) /\ CapsOf(b2, t) = CapsOf(b, t)
    BY <1>1, <2>4 DEF HashOf, CapsOf, NameOf, Pointed
  <2> QED
    BY <1>1, <2>4, <2>5 DEF Pointed
<1> HIDE DEF next
<1> DEFINE E2 == E \ {s}
<1>7. \A c, g, t : t \in Listed(b2, E2, c, g) <=> t \in Listed(b, E, c, g) /\ t # s
  BY <1>6 DEF Listed
<1> \A t : t \in E2 <=> t \in E /\ t # s
  OBVIOUS
<1> HIDE DEF E2
<1>8. InDirectory(b2, E2, D) /\ NamesApart(b2, E2)
  BY <1>6 DEF Linked, InDirectory, NamesApart
<1>9. HeadsFit(b2, E2, D)
  <2> SUFFICES ASSUME NEW c \in D, NEW g \in Hashes, HeadOf(b2, c, g) # 0
               PROVE  HeadOf(b2, c, g) \in Listed(b, E, c, g) /\ HeadOf(b2, c, g) # s
    BY <1>7 DEF HeadsFit
  <2>1. CASE prev = 0 /\ c = d /\ g = h
    BY <1>5, <1>6, <2>1 DEF Listed
  <2>2. CASE ~(prev = 0 /\ c = d /\ g = h)
    <3>1. HeadOf(b2, c, g) = HeadOf(b, c, g) /\ HeadOf(b, c, g) \in Listed(b, E, c, g)
      BY <1>6, <2>2 DEF Linked, HeadsFit
    <3>2. HeadOf(b, c, g) # s
      BY <1>3, <2>2, <3>1 DEF Listed
    <3> QED
      BY <3>1, <3>2
  <2> QED
    BY <2>1, <2>2
<1>10. LinksFit(b2, E2, rank)
  <2> SUFFICES ASSUME NEW t \in E2, NextOf(b2, t) # 0
               PROVE  /\ NextOf(b2, t) \in Listed(b, E, DirOf(b, t), HashOf(b, t)) /\ NextOf(b2, t) # s
                      /\ rank[t] < rank[NextOf(b2, t)]
    BY <1>6, <1>7 DEF LinksFit
  <2>1. CASE t = prev
    <3>1. NextOf(b2, t) = next /\ next # 0 /\ prev # 0
      BY <1>1, <1>6, <2>1
    <3>2. rank[t] < rank[s]
      BY <1>1, <1>3, <2>1, <3>1 DEF Linked, LinksFit
    <3>3. rank[t] < rank[next]
      BY <1>1, <1>5, <3>1, <3>2
    <3> QED
      BY <1>4, <1>5, <2>1, <3>1, <3>3 DEF Listed
  <2>2. CASE t # prev
    <3>1. NextOf(b2, t) = NextOf(b, t)
      BY <1>6, <2>2
    <3>2. NextOf(b, t) # s
      BY <1>3, <2>2
    <3> QED
      BY <3>1, <3>2 DEF Linked, LinksFit
  <2> QED
    BY <2>1, <2>2
<1>11. AllReached(b2, E2)
  <2> SUFFICES ASSUME NEW t \in E2
               PROVE  \/ HeadOf(b2, DirOf(b, t), HashOf(b, t)) = t
                      \/ \E u \in E2 : NextOf(b2, u) = t
    BY <1>6 DEF AllReached
  <2>1. CASE HeadOf(b, DirOf(b, t), HashOf(b, t)) = t
    BY <1>1, <1>3, <1>6, <2>1
  <2>2. ASSUME NEW u \in E, NextOf(b, u) = t, u # s
        PROVE  u \in E2 /\ NextOf(b2, u) = t
    BY <1>1, <1>3, <1>6, <2>2
  <2>3. CASE NextOf(b, s) = t
    <3>1. next = t /\ next # 0
      BY <1>1, <2>3 DEF next
    <3>2. CASE prev = 0
      BY <1>1, <1>5, <1>6, <3>1, <3>2
    <3>3. CASE prev # 0
      BY <1>3, <1>4, <1>6, <3>1, <3>3
    <3> QED
      BY <3>2, <3>3
  <2>4. \/ HeadOf(b, DirOf(b, t), HashOf(b, t)) = t
        \/ \E u \in E : NextOf(b, u) = t
    BY DEF Linked, AllReached
  <2> QED
    BY <2>1, <2>2, <2>3, <2>4
<1>12. OneWay(b2, E2, D)
  <2> SUFFICES ASSUME NEW t \in E2, NextOf(b2, t) # 0
               PROVE  /\ \A u \in E2 : NextOf(b2, u) = NextOf(b2, t) => u = t
                      /\ \A c \in D, g \in Hashes : HeadOf(b2, c, g) # NextOf(b2, t)
    BY DEF OneWay
  <2>1. CASE t = prev
    <3>1. NextOf(b2, t) = next /\ next # 0 /\ prev # 0
      BY <1>1, <1>6, <2>1
    <3> QED
      BY <1>5, <1>6, <2>1, <3>1
  <2>2. CASE t # prev
    <3>1. NextOf(b2, t) = NextOf(b, t) /\ NextOf(b, t) # 0
      BY <1>6, <2>2
    <3>2. NextOf(b, t) # next
      BY <1>5, <3>1
    <3> QED
      BY <1>6, <3>1, <3>2 DEF Linked, OneWay
  <2> QED
    BY <2>1, <2>2
<1> QED
  BY <1>1, <1>6, <1>8, <1>9, <1>10, <1>11, <1>12 DEF Linked, E2

\* last is the end of a list, 0 when there is nothing in it.
Ends(b, E, d, h, last) ==
  /\ last = 0 => Listed(b, E, d, h) = {}
  /\ last # 0 => last \in Listed(b, E, d, h) /\ NextOf(b, last) = 0

\* An entry becomes the last one of the list it belongs into.
LEMMA Attach ==
  ASSUME NEW b, BlocksFit(b), NEW E, NEW D, NEW rank, Linked(b, E, D, rank),
         NEW s \in Sectors \ E, b[s] # NoHeader, NextOf(b, s) = 0,
         NEW d \in D, d = DirOf(b, s), NEW h, h = HashOf(b, s),
         Called(b, E, d, NameOf(b, s)) = {},
         NEW last, Ends(b, E, d, h, last),
         NEW b2, b2 = Point(b, d, h, last, s)
  PROVE  BlocksFit(b2) /\ \E rank2 \in [Sectors -> Nat] : Linked(b2, E \cup {s}, D, rank2)
<1> DEFINE n == NameOf(b, s)
           E2 == E \cup {s}
           rank2 == [rank EXCEPT ![s] = IF last = 0 THEN 0 ELSE rank[last] + 1]
<1>1. /\ E \subseteq Sectors /\ s # 0 /\ s \notin E
      /\ \A c \in D : c \in Sectors \cup {Root} /\ KindOf(b, c) = "dir"
      /\ \A t \in E : /\ t \in Sectors /\ t # 0 /\ DirOf(b, t) \in D /\ HashOf(b, t) \in Hashes
                      /\ b[t] # NoHeader /\ rank[t] \in Nat
      /\ rank \in [Sectors -> Nat]
  BY EntryFits, SectorNumbers DEF Linked
<1>2. h \in Hashes
  BY DEF BlocksFit, Fits, HeaderSet, Hashes, HashOf
<1>3. /\ last = 0 => Listed(b, E, d, h) = {}
      /\ last # 0 => /\ last \in E /\ DirOf(b, last) = d /\ HashOf(b, last) = h
                     /\ NextOf(b, last) = 0
  BY <1>1 DEF Ends, Listed
<1>4. /\ BlocksFit(b2)
      /\ \A c \in D : /\ KindOf(b2, c) = "dir"
                      /\ \A g \in Hashes : HeadOf(b2, c, g) =
                           IF last = 0 /\ c = d /\ g = h THEN s ELSE HeadOf(b, c, g)
      /\ \A t \in E2 : /\ b2[t] # NoHeader /\ DirOf(b2, t) = DirOf(b, t)
                       /\ HashOf(b2, t) = HashOf(b, t) /\ CapsOf(b2, t) = CapsOf(b, t)
                       /\ NextOf(b2, t) = IF t = last THEN s ELSE NextOf(b, t)
  <2>1. d \in Sectors \cup {Root} /\ KindOf(b, d) = "dir" /\ last \in Sectors \cup {0}
    BY <1>1, <1>3
  <2>2. last # 0 => b[last] # NoHeader
    BY <1>1, <1>3
  <2>3. /\ BlocksFit(b2)
        /\ Pointed(b, d, h, last, s, b2)
    BY <1>2, <2>1, <2>2, PointIs
  <2>4. \A t \in E2 : HashOf(b2, t) = HashOf(b, t) /\ CapsOf(b2, t) = CapsOf(b, t)
    <3>1. \A t \in E2 : t \in Sectors /\ b[t] # NoHeader /\ NameOf(b2, t) = NameOf(b, t)
      BY <1>1, <2>3 DEF Pointed
    <3> QED
      BY <3>1 DEF HashOf, CapsOf, NameOf
  <2> QED
    BY <1>1, <2>3, <2>4 DEF Pointed
<1>5. s # last
  BY <1>1, <1>3
<1>6. /\ rank2 \in [Sectors -> Nat]
      /\ \A t \in E : rank2[t] = rank[t]
      /\ last # 0 => rank2[s] = rank[last] + 1
  <2>1. last # 0 => rank[last] + 1 \in Nat
    BY <1>1, <1>3
  <2> QED
    BY <1>1, <2>1
<1> HIDE DEF rank2
<1> \A t : t \in E2 <=> t \in E \/ t = s
  OBVIOUS
<1>7. \A t \in E : NextOf(b, t) # 0 => NextOf(b, t) \in E
  BY DEF Linked, LinksFit, Listed
<1>8. \A c \in D, g \in Hashes : HeadOf(b, c, g) # 0 => HeadOf(b, c, g) \in E
  BY DEF Linked, HeadsFit, Listed
<1>9. \A c, g, t : t \in Listed(b2, E2, c, g) <=>
                     t \in Listed(b, E, c, g) \/ (t = s /\ c = d /\ g = h)
  BY <1>4 DEF Listed
<1> HIDE DEF E2
<1>10. InDirectory(b2, E2, D)
  BY <1>4 DEF Linked, InDirectory
<1>11. NamesApart(b2, E2)
  <2>1. CapsOf(b, s) = Upper[n] /\ \A t \in E : ~(DirOf(b, t) = d /\ CapsOf(b, t) = Upper[n])
    BY DEF Called, CapsOf, NameOf
  <2> QED
    BY <1>4, <2>1 DEF Linked, NamesApart
<1>12. HeadsFit(b2, E2, D)
  BY <1>4, <1>9 DEF Linked, HeadsFit
<1>13. LinksFit(b2, E2, rank2)
  <2> SUFFICES ASSUME NEW t \in E2, NextOf(b2, t) # 0
               PROVE  /\ NextOf(b2, t) \in Listed(b2, E2, DirOf(b, t), HashOf(b, t))
                      /\ rank2[t] < rank2[NextOf(b2, t)]
    BY <1>4 DEF LinksFit
  <2>1. t \in E
    BY <1>4, <1>5
  <2>2. CASE t = last
    <3>1. NextOf(b2, t) = s /\ last # 0
      BY <1>1, <1>4, <2>1, <2>2
    <3>2. rank2[t] < rank2[s]
      BY <1>1, <1>6, <2>1, <2>2, <3>1
    <3> QED
      BY <1>3, <1>9, <2>2, <3>1, <3>2
  <2>3. CASE t # last
    <3>1. NextOf(b2, t) = NextOf(b, t)
      BY <1>4, <2>3
    <3> QED
      BY <1>6, <1>7, <1>9, <2>1, <3>1 DEF Linked, LinksFit
  <2> QED
    BY <2>2, <2>3
<1>14. AllReached(b2, E2)
  <2> SUFFICES ASSUME NEW t \in E2
               PROVE  \/ HeadOf(b2, DirOf(b, t), HashOf(b, t)) = t
                      \/ \E u \in E2 : NextOf(b2, u) = t
    BY <1>4 DEF AllReached
  <2>1. CASE t = s
    BY <1>2, <1>3, <1>4, <2>1
  <2>2. CASE t \in E
    <3>1. CASE HeadOf(b, DirOf(b, t), HashOf(b, t)) = t
      <4>1. ~(last = 0 /\ DirOf(b, t) = d /\ HashOf(b, t) = h)
        BY <1>3, <2>2 DEF Listed
      <4> QED
        BY <1>1, <1>4, <2>2, <3>1, <4>1
    <3>2. ASSUME NEW u \in E, NextOf(b, u) = t
          PROVE  NextOf(b2, u) = t
      BY <1>1, <1>3, <1>4, <2>2, <3>2
    <3>3. \/ HeadOf(b, DirOf(b, t), HashOf(b, t)) = t
          \/ \E u \in E : NextOf(b, u) = t
      BY <2>2 DEF Linked, AllReached
    <3> QED
      BY <3>1, <3>2, <3>3
  <2> QED
    BY <2>1, <2>2
<1>15. OneWay(b2, E2, D)
  <2> SUFFICES ASSUME NEW t \in E2, NextOf(b2, t) # 0
               PROVE  /\ \A u \in E2 : NextOf(b2, u) = NextOf(b2, t) => u = t
                      /\ \A c \in D, g \in Hashes : HeadOf(b2, c, g) # NextOf(b2, t)
    BY DEF OneWay
  <2>1. t \in E
    BY <1>4, <1>5
  <2>2. CASE t = last
    <3>1. NextOf(b2, t) = s /\ last # 0
      BY <1>1, <1>4, <2>1, <2>2
    <3>2. \A u \in E2 : u # last => NextOf(b2, u) # s
      BY <1>1, <1>4, <1>7
    <3>3. \A c \in D, g \in Hashes : HeadOf(b2, c, g) # s
      BY <1>1, <1>4, <1>8, <3>1
    <3> QED
      BY <2>2, <3>1, <3>2, <3>3
  <2>3. CASE t # last
    <3>1. NextOf(b2, t) = NextOf(b, t) /\ NextOf(b, t) \in E
      BY <1>4, <1>7, <2>1, <2>3
    <3> QED
      BY <1>1, <1>4, <2>1, <3>1 DEF Linked, OneWay
  <2> QED
    BY <2>2, <2>3
<1>16. Linked(b2, E2, D, rank2)
  <2>1. E2 \subseteq Sectors
    BY <1>1
  <2> QED
    BY <2>1, <1>1, <1>4, <1>6, <1>10, <1>11, <1>12, <1>13, <1>14, <1>15 DEF Linked
<1> QED
  BY <1>4, <1>6, <1>16 DEF E2

\* A directory whose table is empty may be counted as one or not: no entry is
\* in it.
LEMMA AddDirectory ==
  ASSUME NEW b, NEW E, NEW D, NEW rank, Linked(b, E, D, rank),
         NEW s \in Sectors, KindOf(b, s) = "dir", ListsNothing(b, s)
  PROVE  Linked(b, E, D \cup {s}, rank)
<1> DEFINE D2 == D \cup {s}
<1>1. \A h \in Hashes : HeadOf(b, s, h) = 0
  BY DEF ListsNothing
<1>2. \A c \in D2 : c \in D \/ c = s
  OBVIOUS
<1> HIDE DEF D2
<1>3. HeadsFit(b, E, D2)
  BY <1>1, <1>2 DEF Linked, HeadsFit
<1>4. OneWay(b, E, D2)
  <2> SUFFICES ASSUME NEW t \in E, NextOf(b, t) # 0
               PROVE  /\ \A u \in E : NextOf(b, u) = NextOf(b, t) => u = t
                      /\ \A d \in D2, h \in Hashes : HeadOf(b, d, h) # NextOf(b, t)
    BY DEF OneWay
  <2> QED
    BY <1>1, <1>2 DEF Linked, OneWay
<1>5. /\ D2 \subseteq Sectors \cup {Root}
      /\ \A d \in D2 : KindOf(b, d) = "dir"
      /\ InDirectory(b, E, D2)
  BY DEF Linked, InDirectory, D2
<1> QED
  BY <1>3, <1>4, <1>5 DEF Linked, D2

\* A directory nothing is in leaves the set of directories.
LEMMA RemoveDirectory ==
  ASSUME NEW b, BlocksFit(b), NEW E, NEW D, NEW rank, Linked(b, E, D, rank),
         NEW s \in D, ListsNothing(b, s)
  PROVE  /\ \A t \in E : DirOf(b, t) # s
         /\ Linked(b, E, D \ {s}, rank)
<1>1. ASSUME NEW h \in Hashes
      PROVE  Listed(b, E, s, h) = {}
  <2>1. HeadOf(b, s, h) = 0
    BY DEF ListsNothing
  <2>2. Listed(b, E, s, h) = ListFrom(b, 0)
    BY <2>1, ListIs
  <2>3. Leads(b, {}, {0} \ {0})
    BY DEF Leads
  <2>4. ListFrom(b, 0) = {}
    <3> DEFINE L == {}
    <3>1. L \in SUBSET Sectors /\ Leads(b, L, {0} \ {0})
      BY <2>3
    <3> HIDE DEF L
    <3>2. ListFrom(b, 0) = L
      BY <3>1, ListFromIs
    <3> QED
      BY <3>2 DEF L
  <2> QED
    BY <2>2, <2>4
<1>2. \A t \in E : DirOf(b, t) # s
  <2> SUFFICES ASSUME NEW t \in E, DirOf(b, t) = s PROVE FALSE
    OBVIOUS
  <2>1. t \in Listed(b, E, s, HashOf(b, t)) /\ HashOf(b, t) \in Hashes
    BY EntryFits DEF Listed
  <2> QED
    BY <1>1, <2>1
<1> DEFINE D2 == D \ {s}
<1>3. \A c \in D2 : c \in D
  OBVIOUS
<1>4. InDirectory(b, E, D2)
  BY <1>2 DEF Linked, InDirectory
<1> HIDE DEF D2
<1>5. HeadsFit(b, E, D2) /\ OneWay(b, E, D2)
  BY <1>3 DEF Linked, HeadsFit, OneWay
<1>6. Linked(b, E, D2, rank)
  BY <1>3, <1>4, <1>5 DEF Linked
<1> QED
  BY <1>2, <1>6 DEF D2

-----------------------------------------------------------------------------
(* The tree of the entries *)

RecordOf(b, s) == [id |-> s, kind |-> KindOf(b, s), dir |-> DirOf(b, s), name |-> NameOf(b, s)]
TreeOf(b, E)   == {RecordOf(b, s) : s \in E}

\* The entries of T are of the same kind and name in b and b2, and in the same
\* directory.
Alike(b, b2, T) ==
  \A t \in T : /\ KindOf(b2, t) = KindOf(b, t)
               /\ DirOf(b2, t) = DirOf(b, t) /\ NameOf(b2, t) = NameOf(b, t)

\* The tree changes as Namespace says, or not at all; an entry that stays is of
\* the same kind.
Evolves(b, E, b2, E2) ==
  /\ \A t \in E \cap E2 : KindOf(b2, t) = KindOf(b, t)
  /\ \/ TreeOf(b2, E2) = TreeOf(b, E)
     \/ Volume!Creates(TreeOf(b, E), TreeOf(b2, E2))
     \/ Volume!Removes(TreeOf(b, E), TreeOf(b2, E2))
     \/ Volume!Renames(TreeOf(b, E), TreeOf(b2, E2))

\* What a record says.
LEMMA RecordIs ==
  ASSUME NEW b, NEW s
  PROVE  /\ RecordOf(b, s).id = s /\ RecordOf(b, s).kind = KindOf(b, s)
         /\ RecordOf(b, s).dir = DirOf(b, s) /\ RecordOf(b, s).name = NameOf(b, s)
BY DEF RecordOf

\* Entries that are alike have the same records.
LEMMA RecordSame ==
  ASSUME NEW b, NEW b2, NEW T, Alike(b, b2, T)
  PROVE  \A t \in T : RecordOf(b2, t) = RecordOf(b, t)
BY DEF Alike, RecordOf

\* Directories and taken names, as the tree tells them.
LEMMA TreeTells ==
  ASSUME NEW b, NEW E
  PROVE  /\ \A d \in DirectoriesOf(b, E) : Volume!IsDirectory(TreeOf(b, E), d)
         /\ \A d, n : Called(b, E, d, n) = {} => ~Volume!Taken(TreeOf(b, E), d, n)
<1>1. ASSUME NEW d \in DirectoriesOf(b, E)
      PROVE  Volume!IsDirectory(TreeOf(b, E), d)
  <2>1. CASE d = Root
    BY <2>1 DEF Volume!IsDirectory
  <2>2. CASE d # Root
    <3>1. d \in E /\ KindOf(b, d) = "dir"
      BY <2>2 DEF DirectoriesOf
    <3>2. RecordOf(b, d) \in TreeOf(b, E) /\ RecordOf(b, d).id = d /\ RecordOf(b, d).kind = "dir"
      BY <3>1, RecordIs DEF TreeOf
    <3> QED
      BY <3>2 DEF Volume!IsDirectory
  <2> QED
    BY <2>1, <2>2
<1>2. ASSUME NEW d, NEW n, Volume!Taken(TreeOf(b, E), d, n)
      PROVE  Called(b, E, d, n) # {}
  <2>1. PICK e \in TreeOf(b, E) : e.dir = d /\ Upper[e.name] = Upper[n]
    BY <1>2 DEF Volume!Taken
  <2>2. PICK s \in E : e = RecordOf(b, s)
    BY <2>1 DEF TreeOf
  <2>3. DirOf(b, s) = d /\ Upper[NameOf(b, s)] = Upper[n]
    BY <2>1, <2>2, RecordIs
  <2>4. s \in Called(b, E, d, n)
    BY <2>3 DEF Called, CapsOf, NameOf
  <2> QED
    BY <2>4
<1> QED
  BY <1>1, <1>2

\* A call that changes no name, directory or kind does not change the tree.
LEMMA EvolvesSame ==
  ASSUME NEW b, NEW b2, NEW E, Alike(b, b2, E)
  PROVE  Evolves(b, E, b2, E)
<1>1. TreeOf(b2, E) = TreeOf(b, E)
  BY RecordSame DEF TreeOf
<1> QED
  BY <1>1 DEF Evolves, Alike

\* A new entry is created in the tree.
LEMMA EvolvesCreate ==
  ASSUME NEW b, NEW b2, NEW E, NEW s, s \notin E, Alike(b, b2, E),
         DirOf(b2, s) \in DirectoriesOf(b, E),
         Called(b, E, DirOf(b2, s), NameOf(b2, s)) = {}
  PROVE  Evolves(b, E, b2, E \cup {s})
<1> DEFINE t == TreeOf(b, E)
           u == TreeOf(b2, E \cup {s})
           e == RecordOf(b2, s)
<1>1. u = t \cup {e}
  <2>1. \A x \in E : RecordOf(b2, x) = RecordOf(b, x)
    BY RecordSame
  <2> QED
    BY <2>1 DEF TreeOf
<1>2. e.id = s /\ e.dir = DirOf(b2, s) /\ e.name = NameOf(b2, s)
  BY RecordIs
<1>3. \A f \in t : f.id # e.id
  BY <1>2, RecordIs DEF TreeOf
<1>4. Volume!IsDirectory(t, e.dir) /\ ~Volume!Taken(t, e.dir, e.name)
  BY <1>2, TreeTells
<1> HIDE DEF t, u, e
<1>5. e \in u \ t
  BY <1>1, <1>3
<1>6. Volume!Creates(t, u)
  BY <1>1, <1>3, <1>4, <1>5 DEF Volume!Creates
<1> QED
  BY <1>6 DEF Evolves, Alike, t, u

\* An entry nothing is in is removed from the tree.
LEMMA EvolvesRemove ==
  ASSUME NEW b, NEW b2, NEW E, NEW s \in E, Alike(b, b2, E \ {s}),
         \A t \in E : DirOf(b, t) # s
  PROVE  Evolves(b, E, b2, E \ {s})
<1> DEFINE t == TreeOf(b, E)
           u == TreeOf(b2, E \ {s})
           e == RecordOf(b, s)
<1>1. \A x \in E \ {s} : RecordOf(b2, x) = RecordOf(b, x)
  BY RecordSame
<1>2. \A x \in E \ {s} : RecordOf(b, x) # e
  BY RecordIs
<1>3. e \in t \ u /\ u = t \ {e}
  BY <1>1, <1>2 DEF TreeOf
<1>4. Volume!IsEmpty(t, e)
  BY RecordIs DEF TreeOf, Volume!IsEmpty
<1> HIDE DEF t, u, e
<1>5. Volume!Removes(t, u)
  BY <1>3, <1>4 DEF Volume!Removes
<1> QED
  BY <1>5 DEF Evolves, Alike, t, u

\* An entry gets another name, or another directory that is not itself.
LEMMA EvolvesRename ==
  ASSUME NEW b, NEW b2, NEW E, NEW s \in E, Alike(b, b2, E \ {s}),
         KindOf(b2, s) = KindOf(b, s),
         DirOf(b2, s) \in DirectoriesOf(b, E), DirOf(b2, s) # s,
         Called(b, E \ {s}, DirOf(b2, s), NameOf(b2, s)) = {}
  PROVE  Evolves(b, E, b2, E)
<1> DEFINE t == TreeOf(b, E)
           u == TreeOf(b2, E)
           e == RecordOf(b, s)
           f == RecordOf(b2, s)
<1>1. \A x \in E \ {s} : RecordOf(b2, x) = RecordOf(b, x)
  BY RecordSame
<1>2. \A x \in E \ {s} : RecordOf(b, x) # e /\ RecordOf(b, x) # f
  BY RecordIs
<1>3. t \ {e} = TreeOf(b, E \ {s})
  BY <1>2 DEF TreeOf
<1>4. u = (t \ {e}) \cup {f}
  BY <1>1, <1>3 DEF TreeOf
<1>5. f \notin t \ {e} /\ e \in t
  BY <1>2, <1>3 DEF TreeOf
<1>6. /\ f.id = e.id /\ f.kind = e.kind /\ f.dir = DirOf(b2, s) /\ f.name = NameOf(b2, s)
  BY RecordIs
<1>7. ~Volume!Taken(t \ {e}, f.dir, f.name)
  BY <1>3, <1>6, TreeTells
<1>8. Volume!IsDirectory(u, f.dir)
  <2>1. DirOf(b2, s) \in DirectoriesOf(b2, E)
    BY DEF Alike, DirectoriesOf
  <2> QED
    BY <1>6, <2>1, TreeTells
<1>9. \A x \in E : KindOf(b2, x) = KindOf(b, x)
  BY DEF Alike
<1> HIDE DEF t, u, e, f
<1>10. CASE e = f
  <2>1. u = t
    BY <1>4, <1>5, <1>10
  <2> QED
    BY <1>9, <2>1 DEF Evolves, t, u
<1>11. CASE e # f
  <2>1. e \in t \ u /\ f \in u \ t
    BY <1>4, <1>5, <1>11
  <2>2. Volume!Renames(t, u)
    BY <1>4, <1>6, <1>7, <1>8, <2>1 DEF Volume!Renames
  <2> QED
    BY <1>9, <2>2 DEF Evolves, t, u
<1> QED
  BY <1>10, <1>11

-----------------------------------------------------------------------------
(* One call on a sound volume *)

\* The block s is written.
Put(b, s, x) == [b EXCEPT ![s] = x]

\* Every write of a block b2[s] that is neither the table nor the entry that
\* leads to s could as well be made before those are changed.
LEMMA PointCommutes ==
  ASSUME NEW b, BlocksFit(b), NEW d \in Sectors \cup {Root}, NEW h,
         NEW prev \in Sectors \cup {0}, NEW next,
         NEW s \in Sectors, s # d, s # prev, NEW x,
         NEW b0, b0 = Put(b, s, x)
  PROVE  Point(b0, d, h, prev, next) = Put(Point(b, d, h, prev, next), s, x)
<1> USE DEF Put
<1>1. /\ b = [t \in Sectors \cup {Root} |-> b[t]] /\ d \in Sectors \cup {Root}
      /\ s \in Sectors \cup {Root} /\ (prev = 0 \/ prev \in Sectors \cup {Root})
  BY DEF BlocksFit
<1>2. b0[d] = b[d] /\ b0[prev] = b[prev]
  BY <1>1
<1>3. ASSUME NEW u \in Sectors \cup {Root}, u # s, NEW y
      PROVE  [b0 EXCEPT ![u] = y] = [[b EXCEPT ![u] = y] EXCEPT ![s] = x]
  BY <1>1, <1>3
<1>4. CASE prev = 0
  <2> DEFINE y == [b[d] EXCEPT !.hashTable[h] = next]
  <2>1. Point(b0, d, h, prev, next) = [b0 EXCEPT ![d] = y]
    BY <1>2, <1>4 DEF Point
  <2>2. Point(b, d, h, prev, next) = [b EXCEPT ![d] = y]
    BY <1>4 DEF Point
  <2> HIDE DEF y
  <2> QED
    BY <1>1, <1>3, <2>1, <2>2
<1>5. CASE prev # 0
  <2> DEFINE y == [b[prev] EXCEPT !.nextSameHash = next]
  <2>1. Point(b0, d, h, prev, next) = [b0 EXCEPT ![prev] = y]
    BY <1>2, <1>5 DEF Point
  <2>2. Point(b, d, h, prev, next) = [b EXCEPT ![prev] = y]
    BY <1>5 DEF Point
  <2> HIDE DEF y
  <2> QED
    BY <1>1, <1>3, <1>5, <2>1, <2>2
<1> QED
  BY <1>1, <1>4, <1>5

\* Blocks of an entry s outside of the lists may be changed in any way that
\* leaves a header there.
LEMMA FitsSame ==
  ASSUME NEW b, BlocksFit(b), NEW s \in Sectors, NEW x, x = NoHeader \/ Fits(s, x),
         NEW b2, b2 = Put(b, s, x)
  PROVE  BlocksFit(b2) /\ b2[s] = x /\ \A t \in Sectors \cup {Root} : t # s => b2[t] = b[t]
<1>1. b = [t \in Sectors \cup {Root} |-> b[t]] /\ s # Root /\ s \in Sectors \cup {Root}
  BY SectorNumbers DEF BlocksFit
<1>2. b2[s] = x /\ \A t \in Sectors \cup {Root} : t # s => b2[t] = b[t]
  BY <1>1 DEF Put
<1>3. b2 = [t \in Sectors \cup {Root} |-> b2[t]]
  BY <1>1 DEF Put
<1> QED
  BY <1>1, <1>2, <1>3 DEF BlocksFit

\* The blocks in use depend on the data of the entries.
LEMMA AccountedSame ==
  ASSUME NEW b, NEW b2, NEW E, NEW F, NEW o, NEW o2, Accounted(b, E, F, o),
         \A t \in E : DataOf(b2, o2, t) = DataOf(b, o, t)
  PROVE  Accounted(b2, E, F, o2)
BY DEF Accounted

\* Open files are not disturbed when their blocks are not.
LEMMA OpenSame ==
  ASSUME NEW b, NEW b2, NEW E, NEW E2, NEW o, OpenFit(b, E, o),
         \A t \in Sectors : o[t] # NoHeader => t \in E2 /\ b2[t] = b[t]
  PROVE  OpenFit(b2, E2, o)
BY DEF OpenFit

\* No block of an open file changes.
LeavesOpen(o, b, b2) == \A t \in Sectors : o[t] # NoHeader => b2[t] = b[t]

\* No entry is in a directory that is new.
Fresh(e) == e.kind = "dir" => \A h \in Hashes : e.hashTable[h] = 0

\* In b2 the block s with the header e is at the end of the list for n in d.
Placed(b, E, d, n, s, e, b2) ==
  \E last : /\ Ends(b, E, d, Bucket[n], last)
            /\ b2 = Put(Point(b, d, Bucket[n], last, s), s, e)

\* What is written when an entry with the header e becomes the last one of its
\* list in p, in a block that was free, and what comes of it.
Inserting(b, F, o, E, p, n, s, e, b2, F2) ==
  /\ s \in F /\ Fits(s, e) /\ e.data \subseteq F /\ e.nextSameHash = 0 /\ Fresh(e)
  /\ p \in DirectoriesOf(b, E) /\ p = e.parent /\ n = e.name /\ Called(b, E, p, n) = {}
  /\ Placed(b, E, p, n, s, e, b2) /\ F2 = F \ ({s} \cup e.data) /\ LeavesOpen(o, b, b2)
Inserted(b, o, E, s, e, b2, F2) ==
  /\ s \in Sectors /\ s \notin E /\ b2[s] = e
  /\ SoundFor(b2, F2, o, E \cup {s}) /\ Evolves(b, E, b2, E \cup {s})

\* An entry becomes the last one of its list.
LEMMA Insertion ==
  ASSUME NEW b, NEW F, NEW o, NEW E, SoundFor(b, F, o, E),
         NEW p, NEW n, NEW s, NEW e, NEW b2, NEW F2, Inserting(b, F, o, E, p, n, s, e, b2, F2)
  PROVE  Inserted(b, o, E, s, e, b2, F2)
<1>0. /\ s \in F /\ Fits(s, e) /\ e.data \subseteq F /\ e.nextSameHash = 0 /\ Fresh(e)
      /\ p \in DirectoriesOf(b, E) /\ p = e.parent /\ n = e.name /\ Called(b, E, p, n) = {}
      /\ Placed(b, E, p, n, s, e, b2) /\ F2 = F \ ({s} \cup e.data) /\ LeavesOpen(o, b, b2)
  BY DEF Inserting
<1>a. SUFFICES /\ s \in Sectors /\ s \notin E /\ b2[s] = e
               /\ SoundFor(b2, F2, o, E \cup {s}) /\ Evolves(b, E, b2, E \cup {s})
  BY DEF Inserted
<1> USE <1>0
<1> DEFINE h == Bucket[n]
<1>last. PICK last : Ends(b, E, p, h, last) /\ b2 = Put(Point(b, p, h, last, s), s, e)
  BY DEF Placed
<1>ranks. PICK rank \in [Sectors -> Nat], depth \in [Sectors \cup {Root} -> Nat] :
        Sound(b, F, o, E, rank, depth)
  BY DEF SoundFor
<1>name. h = Bucket[e.name] /\ Called(b, E, p, e.name) = {} /\ n \in Names
  BY DEF Fits, HeaderSet
<1> HIDE DEF h
<1> DEFINE D == DirectoriesOf(b, E)
           E2 == E \cup {s}
           D2 == DirectoriesOf(b2, E2)
           b0 == Put(b, s, e)
<1>1. /\ BlocksFit(b) /\ Linked(b, E, D, rank) /\ Deep(b, E, depth)
      /\ OpenFit(b, E, o) /\ Accounted(b, E, F, o) /\ NothingStale(b, E)
  BY <1>ranks DEF Sound
<1>2. /\ s \in Sectors /\ s \notin E /\ s # Root /\ s # 0 /\ s # p /\ s # last
      /\ E \subseteq Sectors /\ last \in Sectors \cup {0} /\ p \in Sectors \cup {Root}
      /\ last # 0 => last \in E /\ b[last] # NoHeader
      /\ KindOf(b, p) = "dir" /\ h \in Hashes
  <2>1. s \in Sectors /\ s \notin E /\ E \subseteq Sectors
    BY <1>1 DEF Accounted, Linked
  <2>2. s # Root /\ s # 0
    BY <2>1, SectorNumbers
  <2>3. s # p /\ KindOf(b, p) = "dir" /\ p \in Sectors \cup {Root}
    BY <1>1, <2>1, <2>2 DEF Linked, DirectoriesOf
  <2>4. last # 0 => last \in E /\ b[last] # NoHeader
    BY <1>1, <1>last DEF Ends, Listed, Linked
  <2>5. h \in Hashes
    BY <1>name DEF Hashes, h
  <2> QED
    BY <2>1, <2>2, <2>3, <2>4, <2>5
<1>3. /\ b2 = Point(b0, p, h, last, s)
      /\ BlocksFit(b0) /\ b0[s] = e
      /\ \A t \in Sectors \cup {Root} : t # s => b0[t] = b[t]
  <2>1. b0 = Put(b, s, e)
    OBVIOUS
  <2> HIDE DEF b0
  <2>2. Point(b0, p, h, last, s) = Put(Point(b, p, h, last, s), s, e)
    BY <1>1, <1>2, <2>1, PointCommutes
  <2>3. BlocksFit(b0) /\ b0[s] = e /\ \A t \in Sectors \cup {Root} : t # s => b0[t] = b[t]
    BY <1>1, <1>2, <2>1, FitsSame
  <2> QED
    BY <1>last, <2>2, <2>3
<1> HIDE DEF b0
<1>4. /\ KindOf(b0, s) = e.kind /\ NameOf(b0, s) = e.name /\ DirOf(b0, s) = p
      /\ NextOf(b0, s) = 0 /\ HashOf(b0, s) = h /\ DataIn(b0, s) = e.data
      /\ e.kind = "dir" => ListsNothing(b0, s)
      /\ b0[s] # NoHeader
  BY <1>3, <1>name DEF KindOf, NameOf, DirOf, NextOf, HashOf, DataIn, ListsNothing, HeadOf,
                       NoHeader, Fits, HeaderSet, Fresh
<1>5. /\ \A t \in Sectors \cup {Root} : t # s =>
           /\ KindOf(b0, t) = KindOf(b, t) /\ NameOf(b0, t) = NameOf(b, t)
           /\ DirOf(b0, t) = DirOf(b, t) /\ NextOf(b0, t) = NextOf(b, t)
           /\ HashOf(b0, t) = HashOf(b, t) /\ DataIn(b0, t) = DataIn(b, t)
           /\ CapsOf(b0, t) = CapsOf(b, t) /\ \A g : HeadOf(b0, t, g) = HeadOf(b, t, g)
  BY <1>3 DEF KindOf, NameOf, DirOf, NextOf, HashOf, DataIn, CapsOf, HeadOf
<1>6. Linked(b0, E, D, rank)
  <2>1. \A t \in E : /\ b0[t] # NoHeader
                     /\ NameOf(b0, t) = NameOf(b, t) /\ DirOf(b0, t) = DirOf(b, t)
                     /\ NextOf(b0, t) = NextOf(b, t)
    BY <1>1, <1>2, <1>3, <1>5 DEF Linked
  <2>2. \A d \in D : KindOf(b0, d) = KindOf(b, d) /\ b0[d].hashTable = b[d].hashTable
    BY <1>2, <1>3, <1>5 DEF DirectoriesOf
  <2> HIDE DEF D
  <2> QED
    BY <1>1, <2>1, <2>2, LinkedSame
<1>7. PICK D1 : /\ D1 = (IF e.kind = "dir" THEN D \cup {s} ELSE D)
                /\ Linked(b0, E, D1, rank)
  <2>1. CASE e.kind = "dir"
    <3> HIDE DEF D
    <3>1. Linked(b0, E, D \cup {s}, rank)
      BY <1>2, <1>4, <1>6, <2>1, AddDirectory
    <3> QED
      BY <2>1, <3>1
  <2>2. CASE e.kind # "dir"
    BY <1>6, <2>2
  <2> QED
    BY <2>1, <2>2
<1>8. /\ Called(b0, E, p, NameOf(b0, s)) = {}
      /\ Ends(b0, E, p, h, last)
  <2>1. Called(b0, E, p, NameOf(b0, s)) = {}
    BY <1>2, <1>4, <1>5, <1>name DEF Called
  <2>2. Listed(b0, E, p, h) = Listed(b, E, p, h)
    BY <1>2, <1>5 DEF Listed
  <2>3. last # 0 => NextOf(b0, last) = NextOf(b, last)
    BY <1>2, <1>5
  <2> QED
    BY <1>last, <2>1, <2>2, <2>3 DEF Ends
<1>9. BlocksFit(b2) /\ \E rank2 \in [Sectors -> Nat] : Linked(b2, E2, D1, rank2)
  <2>1. /\ BlocksFit(b0) /\ Linked(b0, E, D1, rank) /\ s \in Sectors \ E /\ b0[s] # NoHeader
        /\ NextOf(b0, s) = 0 /\ p \in D1 /\ p = DirOf(b0, s) /\ h = HashOf(b0, s)
        /\ b2 = Point(b0, p, h, last, s)
    BY <1>2, <1>3, <1>4, <1>7
  <2> HIDE DEF D, E2
  <2>2. BlocksFit(b2) /\ \E rank2 \in [Sectors -> Nat] : Linked(b2, E \cup {s}, D1, rank2)
    BY <1>8, <2>1, Attach
  <2> QED
    BY <2>2 DEF E2
<1>10. PICK rank2 \in [Sectors -> Nat] : Linked(b2, E2, D1, rank2)
  BY <1>9
<1>11. Pointed(b0, p, h, last, s, b2)
  <2>1. KindOf(b0, p) = "dir" /\ (last # 0 => b0[last] # NoHeader)
    BY <1>2, <1>3, <1>5
  <2> QED
    BY <1>2, <1>3, <2>1, PointIs
<1>12. /\ b2[s] = e
       /\ \A t \in Sectors \cup {Root} : t # s => KindOf(b2, t) = KindOf(b, t)
       /\ KindOf(b2, s) = e.kind /\ DirOf(b2, s) = p /\ DataIn(b2, s) = e.data
       /\ NameOf(b2, s) = e.name
       /\ \A t \in E : DirOf(b2, t) = DirOf(b, t) /\ DataIn(b2, t) = DataIn(b, t)
                       /\ NameOf(b2, t) = NameOf(b, t)
  <2>1. b2[s] = e
    BY <1>2, <1>3, <1>11 DEF Pointed
  <2>2. \A t \in Sectors \cup {Root} : KindOf(b2, t) = KindOf(b0, t)
    BY <1>11 DEF Pointed
  <2>3. \A t \in E : t \in Sectors /\ t # s /\ b0[t] # NoHeader
    BY <1>2, <1>6 DEF Linked
  <2>4. \A t \in E : /\ DirOf(b2, t) = DirOf(b0, t) /\ DataIn(b2, t) = DataIn(b0, t)
                     /\ NameOf(b2, t) = NameOf(b0, t)
    BY <1>11, <2>3 DEF Pointed
  <2> QED
    BY <1>2, <1>3, <1>4, <1>5, <1>11, <2>1, <2>2, <2>3, <2>4 DEF Pointed
<1>13. D2 = D1
  <2>1. \A t \in E : KindOf(b2, t) = KindOf(b, t)
    BY <1>2, <1>12
  <2>2. KindOf(b2, s) = e.kind
    BY <1>12
  <2>3. \A t : t \in D2 <=> \/ t = Root
                            \/ t \in E /\ KindOf(b, t) = "dir"
                            \/ t = s /\ e.kind = "dir"
    BY <2>1, <2>2 DEF DirectoriesOf
  <2> QED
    BY <1>7, <2>3 DEF DirectoriesOf
<1> HIDE DEF D
<1>14. \E depth2 \in [Sectors \cup {Root} -> Nat] : Deep(b2, E2, depth2)
  <2> DEFINE depth2 == [depth EXCEPT ![s] = depth[p] + 1]
  <2>1. depth \in [Sectors \cup {Root} -> Nat] /\ depth[p] \in Nat
    BY <1>1, <1>2 DEF Deep
  <2>2. /\ depth2 \in [Sectors \cup {Root} -> Nat]
        /\ depth2[s] = depth[p] + 1
        /\ \A t \in Sectors \cup {Root} : t # s => depth2[t] = depth[t]
    BY <1>2, <2>1
  <2> HIDE DEF depth2
  <2>3. ASSUME NEW t \in E2
        PROVE  depth2[DirOf(b2, t)] < depth2[t]
    <3>1. CASE t = s
      BY <1>2, <1>12, <2>1, <2>2, <3>1
    <3>2. CASE t \in E
      <4>1. DirOf(b, t) \in D /\ D \subseteq Sectors \cup {Root} /\ s \notin D
        BY <1>1, <1>2, <3>2 DEF Linked, InDirectory, D, DirectoriesOf
      <4> QED
        BY <1>1, <1>2, <1>12, <2>2, <3>2, <4>1 DEF Deep
    <3> QED
      BY <3>1, <3>2
  <2> QED
    BY <2>2, <2>3 DEF Deep
<1>15. o[s] = NoHeader
  BY <1>1, <1>2 DEF OpenFit
<1>16. OpenFit(b2, E2, o)
  <2>1. \A t \in Sectors : o[t] # NoHeader => t \in E2 /\ b2[t] = b[t]
    BY <1>1 DEF OpenFit, LeavesOpen
  <2>2. OpenFit(b, E, o)
    BY <1>1
  <2> HIDE DEF E2
  <2> QED
    BY <2>1, <2>2, OpenSame
<1>17. Accounted(b2, E2, F2, o)
  <2>1. /\ DataOf(b2, o, s) = e.data
        /\ \A t \in E : DataOf(b2, o, t) = DataOf(b, o, t)
    BY <1>12, <1>15 DEF DataOf
  <2>2. s \notin e.data
    BY DEF Fits
  <2> DEFINE data == [t \in E |-> DataOf(b, o, t)]
  <2>3. /\ F \subseteq Sectors /\ Sectors \ F = E \cup UNION {DataOf(b, o, t) : t \in E}
        /\ \A t \in E : DataOf(b, o, t) \cap E = {}
        /\ \A t, u \in E : t # u => DataOf(b, o, t) \cap DataOf(b, o, u) = {}
    BY <1>1 DEF Accounted
  <2>4. \A t \in E : DataOf(b, o, t) \cap F = {}
    BY <2>3
  <2>5. F2 \subseteq Sectors
    BY <2>3
  <2>6. Sectors \ F2 = E2 \cup UNION {DataOf(b2, o, t) : t \in E2}
    <3>1. UNION {DataOf(b2, o, t) : t \in E2} = (UNION {DataOf(b, o, t) : t \in E}) \cup e.data
      BY <2>1
    <3>2. Sectors \ F2 = (Sectors \ F) \cup {s} \cup e.data
      BY <1>2, <2>3
    <3> QED
      BY <2>3, <3>1, <3>2
  <2>7. \A t \in E2 : DataOf(b2, o, t) \cap E2 = {}
    BY <2>1, <2>2, <2>3, <2>4
  <2>8. \A t, u \in E2 : t # u => DataOf(b2, o, t) \cap DataOf(b2, o, u) = {}
    BY <1>2, <2>1, <2>3, <2>4
  <2> QED
    BY <2>5, <2>6, <2>7, <2>8 DEF Accounted
<1>18. NothingStale(b2, E2)
  <2> SUFFICES ASSUME NEW t \in Sectors \ E2, KindOf(b2, t) = "dir", NEW g \in Hashes
               PROVE  HeadOf(b2, t, g) = 0
    BY DEF NothingStale, ListsNothing
  <2>1. t # s /\ t \in Sectors \ E /\ KindOf(b, t) = "dir"
    BY <1>12
  <2>2. HeadOf(b, t, g) = 0
    BY <1>1, <2>1 DEF NothingStale, ListsNothing
  <2>3. t # p
    BY <2>1, SectorNumbers DEF DirectoriesOf
  <2>4. HeadOf(b2, t, g) = HeadOf(b0, t, g)
    BY <1>5, <1>11, <2>1, <2>3 DEF Pointed
  <2> QED
    BY <1>5, <2>1, <2>2, <2>4
<1>19. SoundFor(b2, F2, o, E2)
  BY <1>9, <1>10, <1>13, <1>14, <1>16, <1>17, <1>18 DEF SoundFor, Sound
<1>20. Evolves(b, E, b2, E2)
  <2>1. Alike(b, b2, E)
    BY <1>2, <1>12 DEF Alike
  <2>2. DirOf(b2, s) \in DirectoriesOf(b, E) /\ Called(b, E, DirOf(b2, s), NameOf(b2, s)) = {}
    BY <1>12, <1>name
  <2> QED
    BY <1>2, <2>1, <2>2, EvolvesCreate
<1> QED
  BY <1>2, <1>12, <1>19, <1>20

\* Blocks of S hold no header any more.
LEMMA WithoutIs ==
  ASSUME NEW b, BlocksFit(b), NEW S \in SUBSET Sectors, NEW b2, b2 = Without(b, S)
  PROVE  /\ BlocksFit(b2)
         /\ \A t \in Sectors \cup {Root} : b2[t] = IF t \in S THEN NoHeader ELSE b[t]
<1>1. b = [s \in Sectors \cup {Root} |-> b[s]] /\ Root \notin S
  BY SectorNumbers DEF BlocksFit
<1>2. b2 = [t \in Sectors \cup {Root} |-> IF t \in S THEN NoHeader ELSE b[t]]
  BY <1>1 DEF Without
<1>3. /\ b2 = [t \in Sectors \cup {Root} |-> b2[t]]
      /\ \A t \in Sectors \cup {Root} : b2[t] = IF t \in S THEN NoHeader ELSE b[t]
  BY <1>2
<1> HIDE DEF NoHeader
<1> QED
  BY <1>1, <1>3 DEF BlocksFit

\* No block of an open file changes or is freed.
LeavesFiles(o, b, b2, F2) ==
  \A t \in Sectors : o[t] # NoHeader => b2[t] = b[t] /\ t \notin F2

\* From b with the entries E to the sound volume b2 with the entries E2.
Moves(b, E, E2, b2, F2, o2) ==
  E2 \subseteq Sectors /\ SoundFor(b2, F2, o2, E2) /\ Evolves(b, E, b2, E2)

\* An entry nothing is in loses its place in its list, and its blocks are free.
LEMMA Removal ==
  ASSUME NEW b, NEW F, NEW o, NEW E, NEW rank, NEW depth, Sound(b, F, o, E, rank, depth),
         NEW s \in E, KindOf(b, s) = "dir" => ListsNothing(b, s),
         NEW d, d = DirOf(b, s), NEW h, h = HashOf(b, s),
         NEW prev, prev = Before(b, Listed(b, E, d, h), s),
         NEW b1, b1 = Point(b, d, h, prev, NextOf(b, s)),
         NEW S, S = {s} \cup DataIn(b, s),
         NEW b2, b2 = b1 \/ b2 = Without(b1, S),
         NEW F2, F2 = F \cup S,
         LeavesFiles(o, b, b2, F2)
  PROVE  Moves(b, E, E \ {s}, b2, F2, o)
<1>c. E \ {s} \subseteq Sectors
  BY DEF Sound, Linked
<1>a. SUFFICES SoundFor(b2, F2, o, E \ {s}) /\ Evolves(b, E, b2, E \ {s})
  BY <1>c DEF Moves
<1>b. \A t \in Sectors : o[t] # NoHeader => b2[t] = b[t] /\ t \notin F2
  BY DEF LeavesFiles
<1> USE <1>b
<1> DEFINE D == DirectoriesOf(b, E)
           E2 == E \ {s}
           D2 == DirectoriesOf(b2, E2)
<1>1. /\ BlocksFit(b) /\ Linked(b, E, D, rank) /\ Deep(b, E, depth)
      /\ OpenFit(b, E, o) /\ Accounted(b, E, F, o) /\ NothingStale(b, E)
  BY DEF Sound
<1>2. /\ s \in Sectors /\ s # Root /\ s # 0 /\ E \subseteq Sectors /\ d \in D
      /\ D \subseteq Sectors \cup {Root} /\ d # s /\ h \in Hashes
      /\ NextOf(b, s) \in Sectors \cup {0}
      /\ \A c \in D : KindOf(b, c) = "dir"
  <2>1. /\ E \subseteq Sectors /\ d \in D /\ h \in Hashes /\ NextOf(b, s) \in Sectors \cup {0}
        /\ D \subseteq Sectors \cup {Root} /\ \A c \in D : KindOf(b, c) = "dir"
    BY <1>1, EntryFits DEF Linked
  <2>2. s # Root /\ s # 0 /\ s \in Sectors
    BY <2>1, SectorNumbers
  <2>3. d # s
    <3>1. depth[d] < depth[s] /\ depth[s] \in Nat
      BY <1>1, <2>2 DEF Deep
    <3> QED
      BY <3>1
  <2> QED
    BY <2>1, <2>2, <2>3
<1> HIDE DEF D
<1>3. BlocksFit(b1) /\ Linked(b1, E2, D, rank)
  BY <1>1, Detach
<1>4. prev \in Sectors \cup {0} /\ (prev # 0 => b[prev] # NoHeader)
  <2>1. s \in Listed(b, E, d, h)
    BY DEF Listed
  <2>2. prev # 0 => prev \in Listed(b, E, d, h)
    BY <1>1, <1>2, <2>1, BeforeIs
  <2> QED
    BY <1>1, <1>2, <2>2 DEF Listed, Linked
<1>5. Pointed(b, d, h, prev, NextOf(b, s), b1)
  BY <1>1, <1>2, <1>4, PointIs
<1>6. /\ \A t \in Sectors \cup {Root} : KindOf(b1, t) = KindOf(b, t)
      /\ \A t \in Sectors \cup {Root} : KindOf(b, t) = "dir" /\ t # d =>
           \A g \in Hashes : HeadOf(b1, t, g) = HeadOf(b, t, g)
      /\ \A t \in E : DirOf(b1, t) = DirOf(b, t) /\ NameOf(b1, t) = NameOf(b, t)
                      /\ DataIn(b1, t) = DataIn(b, t)
  <2>1. \A t \in E : t \in Sectors /\ b[t] # NoHeader
    BY <1>1 DEF Linked
  <2> QED
    BY <1>5, <2>1 DEF Pointed
<1>7. /\ Linked(b1, E2, D \ {s}, rank)
      /\ \A t \in E : DirOf(b, t) # s
  <2>1. CASE s \in D
    <3>1. ListsNothing(b, s)
      BY <1>2, <2>1
    <3>2. ListsNothing(b1, s)
      BY <1>2, <1>6, <2>1, <3>1 DEF ListsNothing
    <3>3. /\ \A t \in E2 : DirOf(b1, t) # s
          /\ Linked(b1, E2, D \ {s}, rank)
      BY <1>3, <2>1, <3>2, RemoveDirectory
    <3> QED
      BY <1>2, <1>6, <3>3
  <2>2. CASE s \notin D
    <3>1. D \ {s} = D
      BY <2>2
    <3>2. \A t \in E : DirOf(b, t) # s
      BY <1>1, <2>2 DEF Linked, InDirectory
    <3> QED
      BY <1>3, <3>1, <3>2
  <2> QED
    BY <2>1, <2>2
<1>8. o[s] = NoHeader
  BY <1>2
<1>9. /\ DataOf(b, o, s) = DataIn(b, s)
      /\ F \subseteq Sectors /\ Sectors \ F = E \cup UNION {DataOf(b, o, t) : t \in E}
      /\ \A t \in E : DataOf(b, o, t) \cap E = {}
      /\ \A t, u \in E : t # u => DataOf(b, o, t) \cap DataOf(b, o, u) = {}
  BY <1>1, <1>8 DEF Accounted, DataOf
<1>10. S \subseteq Sectors /\ S \cap E2 = {} /\ Root \notin S
  <2>1. DataIn(b, s) \subseteq Sectors /\ DataIn(b, s) \cap E = {}
    BY <1>9
  <2> QED
    BY <1>2, <2>1, SectorNumbers
<1>11. /\ BlocksFit(b2)
       /\ \A t \in Sectors \cup {Root} : b2[t] = b1[t] \/ (t \in S /\ b2[t] = NoHeader)
  <2>1. CASE b2 = b1
    BY <1>3, <2>1
  <2>2. CASE b2 = Without(b1, S)
    BY <1>3, <1>10, <2>2, WithoutIs
  <2> QED
    BY <2>1, <2>2
<1>12. /\ \A t \in E2 : b2[t] = b1[t]
       /\ \A t \in D : t # s => b2[t] = b1[t]
  <2>1. \A t \in D : t # s => t = Root \/ t \in E2
    BY DEF D, DirectoriesOf
  <2> QED
    BY <1>2, <1>10, <1>11, <2>1
<1>13. /\ \A t \in E2 : /\ KindOf(b2, t) = KindOf(b, t) /\ DirOf(b2, t) = DirOf(b, t)
                        /\ NameOf(b2, t) = NameOf(b, t) /\ DataIn(b2, t) = DataIn(b, t)
  <2>1. \A t \in E2 : /\ KindOf(b2, t) = KindOf(b1, t) /\ DirOf(b2, t) = DirOf(b1, t)
                      /\ NameOf(b2, t) = NameOf(b1, t) /\ DataIn(b2, t) = DataIn(b1, t)
    BY <1>12 DEF KindOf, DirOf, NameOf, DataIn
  <2> QED
    BY <1>2, <1>6, <2>1
<1>14. D2 = D \ {s}
  <2>1. \A t : t \in D2 <=> (t \in D /\ t # s)
    BY <1>2, <1>13 DEF DirectoriesOf, D
  <2> QED
    BY <2>1
<1>15. Linked(b2, E2, D2, rank)
  <2>1. \A t \in E2 : /\ b2[t] # NoHeader
                      /\ NameOf(b2, t) = NameOf(b1, t) /\ DirOf(b2, t) = DirOf(b1, t)
                      /\ NextOf(b2, t) = NextOf(b1, t)
    BY <1>3, <1>12 DEF Linked, NameOf, DirOf, NextOf
  <2>2. \A c \in D \ {s} : KindOf(b2, c) = KindOf(b1, c) /\ b2[c].hashTable = b1[c].hashTable
    BY <1>12 DEF KindOf
  <2> HIDE DEF E2, D2
  <2>3. Linked(b2, E2, D \ {s}, rank)
    BY <1>7, <2>1, <2>2, LinkedSame
  <2> QED
    BY <1>14, <2>3
<1>16. Deep(b2, E2, depth)
  BY <1>1, <1>13 DEF Deep
<1>17. OpenFit(b2, E2, o)
  <2>1. \A t \in Sectors : o[t] # NoHeader => t \in E2 /\ b2[t] = b[t]
    BY <1>1, <1>8 DEF OpenFit
  <2>2. OpenFit(b, E, o)
    BY <1>1
  <2> HIDE DEF E2
  <2> QED
    BY <2>1, <2>2, OpenSame
<1>18. Accounted(b2, E2, F2, o)
  <2>1. \A t \in E2 : DataOf(b2, o, t) = DataOf(b, o, t)
    BY <1>13 DEF DataOf
  <2>2. F2 \subseteq Sectors
    BY <1>9, <1>10
  <2>3. \A t \in E2 : DataOf(b, o, t) \cap S = {}
    BY <1>9
  <2>4. Sectors \ F2 = E2 \cup UNION {DataOf(b2, o, t) : t \in E2}
    <3>1. UNION {DataOf(b2, o, t) : t \in E2} = UNION {DataOf(b, o, t) : t \in E2}
      BY <2>1
    <3>2. Sectors \ F2 = (Sectors \ F) \ S
      OBVIOUS
    <3>3. UNION {DataOf(b, o, t) : t \in E} = (UNION {DataOf(b, o, t) : t \in E2}) \cup DataIn(b, s)
      BY <1>9
    <3>4. (UNION {DataOf(b, o, t) : t \in E2}) \cap S = {}
      BY <2>3
    <3> QED
      BY <1>9, <1>10, <3>1, <3>2, <3>3, <3>4
  <2>5. \A t \in E2 : DataOf(b2, o, t) \cap E2 = {}
    BY <1>9, <2>1
  <2>6. \A t, u \in E2 : t # u => DataOf(b2, o, t) \cap DataOf(b2, o, u) = {}
    BY <1>9, <2>1
  <2> QED
    BY <2>2, <2>4, <2>5, <2>6 DEF Accounted
<1>19. NothingStale(b2, E2)
  <2> SUFFICES ASSUME NEW t \in Sectors \ E2, KindOf(b2, t) = "dir", NEW g \in Hashes
               PROVE  HeadOf(b2, t, g) = 0
    BY DEF NothingStale, ListsNothing
  <2>1. b2[t] = b1[t]
    BY <1>11 DEF KindOf, NoHeader
  <2>2. KindOf(b, t) = "dir" /\ HeadOf(b2, t, g) = HeadOf(b1, t, g)
    <3>1. KindOf(b2, t) = KindOf(b1, t) /\ HeadOf(b2, t, g) = HeadOf(b1, t, g)
      BY <2>1 DEF KindOf, HeadOf
    <3> QED
      BY <1>6, <3>1
  <2>3. t # d
    <3>1. t = s \/ t \notin E
      OBVIOUS
    <3> QED
      BY <1>2, <3>1, SectorNumbers DEF D, DirectoriesOf
  <2>4. HeadOf(b, t, g) = 0
    BY <1>1, <2>2 DEF NothingStale, ListsNothing
  <2> QED
    BY <1>6, <2>2, <2>3, <2>4
<1>20. SoundFor(b2, F2, o, E2)
  <2>1. rank \in [Sectors -> Nat] /\ depth \in [Sectors \cup {Root} -> Nat]
    BY <1>1 DEF Linked, Deep
  <2> QED
    BY <1>11, <1>15, <1>16, <1>17, <1>18, <1>19, <2>1 DEF SoundFor, Sound
<1>21. Evolves(b, E, b2, E2)
  <2>1. Alike(b, b2, E2)
    BY <1>13 DEF Alike
  <2> QED
    BY <1>7, <2>1, EvolvesRemove
<1> QED
  BY <1>20, <1>21

\* In b2 the entry s has a new name n2 and directory d2 and is in no list; all
\* other entries are as they were.
Left(b, E, s, d2, n2, b2) ==
  /\ b2[s] # NoHeader /\ NextOf(b2, s) = 0 /\ DirOf(b2, s) = d2 /\ NameOf(b2, s) = n2
  /\ DataIn(b2, s) = DataIn(b, s)
  /\ \A t \in Sectors \cup {Root} : KindOf(b2, t) = KindOf(b, t)
  /\ \A t \in Sectors : KindOf(b, t) = "dir" /\ t \notin DirectoriesOf(b, E) =>
       \A g \in Hashes : HeadOf(b2, t, g) = HeadOf(b, t, g)
  /\ \A t \in E \ {s} : DirOf(b2, t) = DirOf(b, t) /\ NameOf(b2, t) = NameOf(b, t)
                        /\ DataIn(b2, t) = DataIn(b, t)

\* An entry has left its list and has its new name: the lists are those of the
\* other entries.
LEMMA Leaving ==
  ASSUME NEW b, NEW F, NEW o, NEW E, NEW rank, NEW depth, Sound(b, F, o, E, rank, depth),
         NEW s \in E, NEW d, d = DirOf(b, s), NEW h, h = HashOf(b, s),
         NEW prev, prev = Before(b, Listed(b, E, d, h), s),
         NEW b1, b1 = Point(b, d, h, prev, NextOf(b, s)),
         NEW d2 \in DirectoriesOf(b, E), NEW n2 \in Names,
         NEW e, e = Renamed(b[s], d2, n2),
         NEW b2, b2 = Put(b1, s, e)
  PROVE  /\ s \in Sectors /\ d \in Sectors \cup {Root} /\ s # d /\ d \in DirectoriesOf(b, E)
         /\ prev \in E \cup {0} /\ s # prev /\ NextOf(b, s) \in Sectors \cup {0}
         /\ h \in Hashes
         /\ BlocksFit(b2) /\ Linked(b2, E \ {s}, DirectoriesOf(b, E), rank)
         /\ Left(b, E, s, d2, n2, b2)
<1> DEFINE D == DirectoriesOf(b, E)
           E1 == E \ {s}
<1>1. /\ BlocksFit(b) /\ Linked(b, E, D, rank) /\ Deep(b, E, depth)
  BY DEF Sound
<1>2. /\ s \in Sectors /\ s # Root /\ s # 0 /\ E \subseteq Sectors /\ d \in D
      /\ D \subseteq Sectors \cup {Root} /\ d # s /\ h \in Hashes
      /\ NextOf(b, s) \in Sectors \cup {0}
      /\ \A c \in D : KindOf(b, c) = "dir"
      /\ b[s] # NoHeader
  <2>1. /\ E \subseteq Sectors /\ d \in D /\ h \in Hashes /\ NextOf(b, s) \in Sectors \cup {0}
        /\ D \subseteq Sectors \cup {Root} /\ \A c \in D : KindOf(b, c) = "dir"
        /\ b[s] # NoHeader
    BY <1>1, EntryFits DEF Linked
  <2>2. s # Root /\ s # 0 /\ s \in Sectors
    BY <2>1, SectorNumbers
  <2>3. d # s
    <3>1. depth[d] < depth[s] /\ depth[s] \in Nat
      BY <1>1, <2>2 DEF Deep
    <3> QED
      BY <3>1
  <2> QED
    BY <2>1, <2>2, <2>3
<1>3. d2 \in Sectors \cup {Root}
  BY <1>2
<1> HIDE DEF D
<1>4. BlocksFit(b1) /\ Linked(b1, E1, D, rank)
  BY <1>1, Detach
<1>5. prev \in E \cup {0} /\ prev # s
  <2>1. s \in Listed(b, E, d, h)
    BY DEF Listed
  <2>2. prev # 0 => prev \in Listed(b, E, d, h) /\ prev # s
    BY <1>1, <1>2, <2>1, BeforeIs
  <2> QED
    BY <1>2, <2>2 DEF Listed
<1>6. Pointed(b, d, h, prev, NextOf(b, s), b1)
  <2>1. prev \in Sectors \cup {0} /\ (prev # 0 => b[prev] # NoHeader)
    BY <1>1, <1>2, <1>5 DEF Linked
  <2> QED
    BY <1>1, <1>2, <2>1, PointIs
<1>7. b1[s] = b[s]
  <2>1. s # (IF prev = 0 THEN d ELSE prev)
    BY <1>2, <1>5
  <2> QED
    BY <1>2, <1>6, <2>1 DEF Pointed
<1>8. /\ Fits(s, e) /\ e.kind = b[s].kind /\ e.hashTable = b[s].hashTable
      /\ e.name = n2 /\ e.parent = d2 /\ e.nextSameHash = 0 /\ e.data = b[s].data
  <2>1. Fits(s, b[s])
    BY <1>1, <1>2 DEF BlocksFit
  <2> QED
    BY <1>3, <2>1 DEF Fits, HeaderSet, Renamed
<1>9. BlocksFit(b2) /\ b2[s] = e /\ \A t \in Sectors \cup {Root} : t # s => b2[t] = b1[t]
  BY <1>2, <1>4, <1>8, FitsSame
<1>10. /\ b2[s] # NoHeader /\ NextOf(b2, s) = 0 /\ DirOf(b2, s) = d2 /\ NameOf(b2, s) = n2
       /\ DataIn(b2, s) = DataIn(b, s) /\ KindOf(b2, s) = KindOf(b, s)
       /\ b2[s].hashTable = b1[s].hashTable
  BY <1>7, <1>8, <1>9 DEF NextOf, DirOf, NameOf, DataIn, KindOf, Fits, HeaderSet, NoHeader
<1>11. /\ \A t \in Sectors \cup {Root} : t # s => KindOf(b2, t) = KindOf(b1, t)
       /\ \A t \in E1 : /\ b2[t] # NoHeader
                        /\ DirOf(b2, t) = DirOf(b1, t) /\ NameOf(b2, t) = NameOf(b1, t)
                        /\ DataIn(b2, t) = DataIn(b1, t) /\ NextOf(b2, t) = NextOf(b1, t)
  <2>1. \A t \in E1 : b2[t] = b1[t] /\ b1[t] # NoHeader
    BY <1>2, <1>4, <1>9 DEF Linked
  <2>2. \A t \in Sectors \cup {Root} : t # s => KindOf(b2, t) = KindOf(b1, t)
    BY <1>9 DEF KindOf
  <2>3. \A t \in E1 : /\ DirOf(b2, t) = DirOf(b1, t) /\ NameOf(b2, t) = NameOf(b1, t)
                      /\ DataIn(b2, t) = DataIn(b1, t) /\ NextOf(b2, t) = NextOf(b1, t)
    BY <2>1 DEF DirOf, NameOf, DataIn, NextOf
  <2> QED
    BY <2>1, <2>2, <2>3
<1>12. \A t \in Sectors \cup {Root} : KindOf(b2, t) = KindOf(b, t)
  BY <1>6, <1>10, <1>11 DEF Pointed
<1>13. \A t \in E1 : DirOf(b2, t) = DirOf(b, t) /\ NameOf(b2, t) = NameOf(b, t)
                     /\ DataIn(b2, t) = DataIn(b, t)
  <2>1. \A t \in E1 : t \in Sectors /\ b[t] # NoHeader
    BY <1>1 DEF Linked
  <2> QED
    BY <1>6, <1>11, <2>1 DEF Pointed
<1>14. Linked(b2, E1, D, rank)
  <2>1. \A c \in D : KindOf(b2, c) = KindOf(b1, c) /\ b2[c].hashTable = b1[c].hashTable
    <3>1. \A c \in D : c # s => b2[c] = b1[c]
      BY <1>2, <1>9
    <3>2. \A c \in D : KindOf(b2, c) = KindOf(b1, c)
      BY <1>2, <1>6, <1>12 DEF Pointed
    <3> QED
      BY <1>10, <3>1, <3>2
  <2> HIDE DEF E1
  <2> QED
    BY <1>4, <1>11, <2>1, LinkedSame
<1>15. ASSUME NEW t \in Sectors, KindOf(b, t) = "dir", t \notin D, NEW g \in Hashes
       PROVE  HeadOf(b2, t, g) = HeadOf(b, t, g)
  <2>1. t # s
    BY <1>15 DEF D, DirectoriesOf
  <2>2. HeadOf(b2, t, g) = HeadOf(b1, t, g)
    BY <1>9, <2>1 DEF HeadOf
  <2> QED
    BY <1>2, <1>6, <1>15, <2>2 DEF Pointed
<1> QED
  BY <1>2, <1>5, <1>9, <1>10, <1>12, <1>13, <1>14, <1>15 DEF D, Left

\* An entry with a new name becomes the last one of the list it belongs into
\* now, in a directory that is not below it.
LEMMA Renaming ==
  ASSUME NEW b, NEW F, NEW o, NEW E, NEW rank, NEW depth, Sound(b, F, o, E, rank, depth),
         NEW s \in E, NEW d2 \in DirectoriesOf(b, E), d2 \notin Below(b, s), NEW n2 \in Names,
         Called(b, E \ {s}, d2, n2) = {}, NEW h2, h2 = Bucket[n2],
         NEW b2, BlocksFit(b2), Linked(b2, E \ {s}, DirectoriesOf(b, E), rank),
         Left(b, E, s, d2, n2, b2),
         NEW last, Ends(b2, E \ {s}, d2, h2, last),
         NEW b3, b3 = Point(b2, d2, h2, last, s),
         LeavesOpen(o, b, b3)
  PROVE  Moves(b, E, E, b3, F, o)
<1>a. SUFFICES SoundFor(b3, F, o, E) /\ Evolves(b, E, b3, E)
  BY DEF Moves, Sound, Linked
<1> USE DEF LeavesOpen
<1> DEFINE D == DirectoriesOf(b, E)
           E1 == E \ {s}
<1>1. /\ BlocksFit(b) /\ Linked(b, E, D, rank) /\ Deep(b, E, depth)
      /\ OpenFit(b, E, o) /\ Accounted(b, E, F, o) /\ NothingStale(b, E)
  BY DEF Sound
<1>2. /\ s \in Sectors /\ BlocksFit(b2) /\ Linked(b2, E1, D, rank)
      /\ b2[s] # NoHeader /\ NextOf(b2, s) = 0 /\ DirOf(b2, s) = d2 /\ NameOf(b2, s) = n2
      /\ DataIn(b2, s) = DataIn(b, s)
      /\ \A t \in Sectors \cup {Root} : KindOf(b2, t) = KindOf(b, t)
      /\ \A t \in Sectors : KindOf(b, t) = "dir" /\ t \notin D =>
           \A g \in Hashes : HeadOf(b2, t, g) = HeadOf(b, t, g)
      /\ \A t \in E1 : DirOf(b2, t) = DirOf(b, t) /\ NameOf(b2, t) = NameOf(b, t)
                       /\ DataIn(b2, t) = DataIn(b, t)
  <2>1. s \in Sectors
    BY <1>1 DEF Linked
  <2> QED
    BY <2>1 DEF Left
<1>3. /\ E \subseteq Sectors /\ D \subseteq Sectors \cup {Root}
      /\ \A c \in D : KindOf(b, c) = "dir" /\ KindOf(b2, c) = "dir"
  BY <1>1, <1>2 DEF Linked
<1>4. /\ s \in Below(b, s) /\ Below(b, s) \subseteq E \cup {Root}
      /\ \A t \in E : DirOf(b, t) \in Below(b, s) => t \in Below(b, s)
      /\ \A t \in Below(b, s) : t = s \/ (t \in E /\ DirOf(b, t) \in Below(b, s))
  <2>1. s \in E \cup {Root}
    OBVIOUS
  <2> QED
    BY <1>1, <2>1, BelowIs
<1>5. d2 # s
  BY <1>4
<1> HIDE DEF D
<1>6. /\ Called(b2, E1, d2, NameOf(b2, s)) = {}
      /\ h2 = HashOf(b2, s)
  <2>1. \A t \in E1 : CapsOf(b2, t) = CapsOf(b, t)
    BY <1>2 DEF CapsOf, NameOf
  <2>2. Called(b2, E1, d2, n2) = Called(b, E1, d2, n2)
    BY <1>2, <2>1 DEF Called
  <2> QED
    BY <1>2, <2>2 DEF HashOf, NameOf
<1>7. BlocksFit(b3) /\ \E rank2 \in [Sectors -> Nat] : Linked(b3, E, D, rank2)
  <2>1. s \in Sectors \ E1 /\ d2 \in D /\ d2 = DirOf(b2, s)
    BY <1>2 DEF D
  <2>2. E1 \cup {s} = E
    OBVIOUS
  <2> HIDE DEF E1
  <2>3. Ends(b2, E1, d2, h2, last)
    BY DEF E1
  <2>4. BlocksFit(b3) /\ \E rank2 \in [Sectors -> Nat] : Linked(b3, E1 \cup {s}, D, rank2)
    BY <1>2, <1>6, <2>1, <2>3, Attach
  <2> QED
    BY <2>2, <2>4
<1>8. Pointed(b2, d2, h2, last, s, b3)
  <2>1. last \in Sectors \cup {0} /\ (last # 0 => b2[last] # NoHeader)
    BY <1>2 DEF Ends, Listed, Linked
  <2>2. d2 \in Sectors \cup {Root} /\ KindOf(b2, d2) = "dir" /\ h2 \in Hashes
    BY <1>3 DEF D, Hashes
  <2> QED
    BY <1>2, <2>1, <2>2, PointIs
<1>9. /\ \A t \in Sectors \cup {Root} : KindOf(b3, t) = KindOf(b, t)
      /\ \A t \in E : DataIn(b3, t) = DataIn(b, t)
      /\ \A t \in E1 : DirOf(b3, t) = DirOf(b, t) /\ NameOf(b3, t) = NameOf(b, t)
      /\ DirOf(b3, s) = d2 /\ NameOf(b3, s) = n2
  <2>1. \A t \in E : t \in Sectors /\ b2[t] # NoHeader /\ (t # s => t \in E1)
    BY <1>2, <1>3 DEF Linked
  <2>2. \A t \in Sectors \cup {Root} : KindOf(b3, t) = KindOf(b, t)
    BY <1>2, <1>8 DEF Pointed
  <2>3. \A t \in E : DirOf(b3, t) = DirOf(b2, t) /\ NameOf(b3, t) = NameOf(b2, t)
                     /\ DataIn(b3, t) = DataIn(b2, t)
    BY <1>8, <2>1 DEF Pointed
  <2> QED
    BY <1>2, <2>1, <2>2, <2>3
<1>10. DirectoriesOf(b3, E) = D
  <2>1. \A t \in E : KindOf(b3, t) = KindOf(b, t)
    BY <1>3, <1>9
  <2> QED
    BY <2>1 DEF D, DirectoriesOf
<1>11. \E depth2 \in [Sectors \cup {Root} -> Nat] : Deep(b3, E, depth2)
  <2> DEFINE depth2 == [t \in Sectors \cup {Root} |->
                          IF t \in Below(b, s) THEN depth[t] + depth[d2] + 1 ELSE depth[t]]
  <2>1. depth \in [Sectors \cup {Root} -> Nat] /\ depth[d2] \in Nat
    BY <1>1, <1>3 DEF Deep, D
  <2>2. /\ depth2 \in [Sectors \cup {Root} -> Nat]
        /\ \A t \in Sectors \cup {Root} :
             /\ depth[t] \in Nat
             /\ t \in Below(b, s) => depth2[t] = depth[t] + depth[d2] + 1
             /\ t \notin Below(b, s) => depth2[t] = depth[t]
    BY <2>1
  <2> HIDE DEF depth2
  <2>3. ASSUME NEW t \in E
        PROVE  depth2[DirOf(b3, t)] < depth2[t]
    <3>1. CASE t = s
      <4>1. depth2[d2] = depth[d2] /\ depth2[s] = depth[s] + depth[d2] + 1 /\ depth[s] \in Nat
        BY <1>2, <1>3, <1>4, <2>2 DEF D
      <4> QED
        BY <1>9, <2>1, <3>1, <4>1
    <3>2. CASE t # s
      <4>1. /\ DirOf(b3, t) = DirOf(b, t) /\ depth[DirOf(b, t)] < depth[t]
            /\ t \in Sectors \cup {Root} /\ DirOf(b, t) \in Sectors \cup {Root}
        BY <1>1, <1>3, <1>9, <3>2 DEF Deep, Linked, InDirectory
      <4>2. t \in Below(b, s) <=> DirOf(b, t) \in Below(b, s)
        BY <1>4, <3>2
      <4> QED
        BY <2>1, <2>2, <4>1, <4>2
    <3> QED
      BY <3>1, <3>2
  <2> QED
    BY <2>2, <2>3 DEF Deep
<1>12. OpenFit(b3, E, o)
  <2>1. \A t \in Sectors : o[t] # NoHeader => t \in E /\ b3[t] = b[t]
    BY <1>1 DEF OpenFit
  <2> QED
    BY <1>1, <2>1, OpenSame
<1>13. Accounted(b3, E, F, o)
  <2>1. \A t \in E : DataOf(b3, o, t) = DataOf(b, o, t)
    BY <1>9 DEF DataOf
  <2> QED
    BY <1>1, <2>1, AccountedSame
<1>14. NothingStale(b3, E)
  <2> SUFFICES ASSUME NEW t \in Sectors \ E, KindOf(b3, t) = "dir", NEW g \in Hashes
               PROVE  HeadOf(b3, t, g) = 0
    BY DEF NothingStale, ListsNothing
  <2>1. KindOf(b, t) = "dir" /\ KindOf(b2, t) = "dir"
    BY <1>2, <1>9
  <2>2. t \notin D /\ t # d2
    BY SectorNumbers DEF D, DirectoriesOf
  <2>3. HeadOf(b, t, g) = 0
    BY <1>1, <2>1 DEF NothingStale, ListsNothing
  <2>4. HeadOf(b2, t, g) = HeadOf(b, t, g)
    BY <1>2, <2>1, <2>2
  <2>5. HeadOf(b3, t, g) = HeadOf(b2, t, g)
    BY <1>8, <2>1, <2>2 DEF Pointed
  <2> QED
    BY <2>3, <2>4, <2>5
<1>15. SoundFor(b3, F, o, E)
  BY <1>7, <1>10, <1>11, <1>12, <1>13, <1>14 DEF SoundFor, Sound
<1>16. Evolves(b, E, b3, E)
  <2>1. Alike(b, b3, E1)
    BY <1>3, <1>9 DEF Alike
  <2>2. KindOf(b3, s) = KindOf(b, s) /\ DirOf(b3, s) = d2 /\ NameOf(b3, s) = n2
    BY <1>2, <1>9
  <2> QED
    BY <1>5, <2>1, <2>2, EvolvesRename
<1> QED
  BY <1>15, <1>16

\* The headers in memory are changed for one file.
LEMMA OpenPut ==
  ASSUME NEW b, NEW E, NEW o, OpenFit(b, E, o), NEW s \in Sectors, NEW x,
         NEW o2, o2 = Put(o, s, x)
  PROVE  /\ OnSectors(o2)
         /\ o2[s] = x /\ \A t \in Sectors : t # s => o2[t] = o[t]
BY DEF OpenFit, OnSectors, Put

\* A file is opened: the header in memory is the one on the disk.
LEMMA Opening ==
  ASSUME NEW b, NEW F, NEW o, NEW E, SoundFor(b, F, o, E),
         NEW s \in E, KindOf(b, s) = "file", o[s] = NoHeader,
         NEW o2, o2 = Put(o, s, b[s])
  PROVE  SoundFor(b, F, o2, E)
<1>1. PICK rank \in [Sectors -> Nat], depth \in [Sectors \cup {Root} -> Nat] :
        Sound(b, F, o, E, rank, depth)
  BY DEF SoundFor
<1>2. /\ BlocksFit(b) /\ OpenFit(b, E, o) /\ Accounted(b, E, F, o)
      /\ E \subseteq Sectors /\ b[s] # NoHeader
  BY <1>1 DEF Sound, Linked
<1>3. /\ OnSectors(o2)
      /\ o2[s] = b[s] /\ \A t \in Sectors : t # s => o2[t] = o[t]
  BY <1>2, OpenPut
<1>4. Fits(s, b[s])
  BY <1>2 DEF BlocksFit
<1>5. KindOf(o2, s) = "file" /\ o2[s] = [b[s] EXCEPT !.data = DataIn(o2, s)]
  BY <1>3, <1>4 DEF KindOf, DataIn, Fits, HeaderSet
<1>6. OpenFit(b, E, o2)
  <2>1. \A t \in Sectors : t # s =>
          (o2[t] # NoHeader => /\ t \in E /\ Fits(t, o2[t]) /\ KindOf(o2, t) = "file"
                               /\ o2[t] = [b[t] EXCEPT !.data = DataIn(o2, t)])
    BY <1>2, <1>3 DEF OpenFit, KindOf, DataIn
  <2> QED
    BY <1>3, <1>4, <1>5, <2>1 DEF OpenFit
<1>7. Accounted(b, E, F, o2)
  <2>1. \A t \in E : DataOf(b, o2, t) = DataOf(b, o, t)
    BY <1>2, <1>3 DEF DataOf, DataIn
  <2> QED
    BY <1>2, <2>1, AccountedSame
<1> QED
  BY <1>1, <1>6, <1>7 DEF SoundFor, Sound

\* An open file that has no data gets the block t.
LEMMA Granting ==
  ASSUME NEW b, NEW F, NEW o, NEW E, SoundFor(b, F, o, E),
         NEW s \in Sectors, o[s] # NoHeader, DataIn(o, s) = {}, NEW t \in F,
         NEW x, x = [o[s] EXCEPT !.data = {t}], NEW o2, o2 = Put(o, s, x),
         NEW b2, b2 = Without(b, {t}), NEW F2, F2 = F \ {t}
  PROVE  SoundFor(b2, F2, o2, E) /\ Evolves(b, E, b2, E)
<1> DEFINE D == DirectoriesOf(b, E)
<1>1. PICK rank \in [Sectors -> Nat], depth \in [Sectors \cup {Root} -> Nat] :
        Sound(b, F, o, E, rank, depth)
  BY DEF SoundFor
<1>2. /\ BlocksFit(b) /\ OpenFit(b, E, o) /\ Accounted(b, E, F, o)
      /\ Linked(b, E, D, rank) /\ Deep(b, E, depth) /\ NothingStale(b, E)
      /\ E \subseteq Sectors /\ s \in E /\ t \in Sectors /\ t \notin E /\ t # s /\ t # Root
      /\ D \subseteq E \cup {Root} /\ D \subseteq Sectors \cup {Root}
  BY <1>1, SectorNumbers DEF Sound, Linked, OpenFit, Accounted, DirectoriesOf
<1> HIDE DEF D
<1>3. /\ OnSectors(o2)
      /\ o2[s] = x /\ \A u \in Sectors : u # s => o2[u] = o[u]
  <2>1. OpenFit(b, E, o)
    BY <1>2
  <2> QED
    BY <2>1, OpenPut
<1>4. /\ BlocksFit(b2) /\ b2[t] = NoHeader
      /\ \A u \in Sectors \cup {Root} : u # t => b2[u] = b[u]
  <2>1. {t} \in SUBSET Sectors
    BY <1>2
  <2> QED
    BY <1>2, <2>1, WithoutIs
<1>5. /\ \A u \in E : b2[u] = b[u] /\ KindOf(b2, u) = KindOf(b, u) /\ DirOf(b2, u) = DirOf(b, u)
                      /\ NameOf(b2, u) = NameOf(b, u) /\ NextOf(b2, u) = NextOf(b, u)
                      /\ DataIn(b2, u) = DataIn(b, u)
      /\ \A d \in D : KindOf(b2, d) = KindOf(b, d) /\ b2[d].hashTable = b[d].hashTable
  <2>1. \A u \in E \cup D : b2[u] = b[u]
    BY <1>2, <1>4
  <2> QED
    BY <2>1 DEF KindOf, DirOf, NameOf, NextOf, DataIn
<1>6. Linked(b2, E, D, rank)
  <2>1. \A u \in E : b2[u] # NoHeader
    BY <1>2, <1>5 DEF Linked
  <2> QED
    BY <1>2, <1>5, <2>1, LinkedSame
<1>7. DirectoriesOf(b2, E) = D
  BY <1>5 DEF DirectoriesOf, D
<1>8. Deep(b2, E, depth)
  BY <1>2, <1>5 DEF Deep
<1>9. Fits(s, o[s]) /\ KindOf(o, s) = "file" /\ o[s] = [b[s] EXCEPT !.data = DataIn(o, s)]
  BY <1>2 DEF OpenFit
<1>10. Fits(s, b[s])
  BY <1>2 DEF BlocksFit, Linked
<1>11. Fits(s, x) /\ x.kind = "file" /\ x.data = {t} /\ x = [b[s] EXCEPT !.data = {t}]
  <2>1. x \in HeaderSet /\ x.kind = "file" /\ x.data = {t}
    BY <1>2, <1>9 DEF Fits, HeaderSet, KindOf
  <2>2. x = [b[s] EXCEPT !.data = {t}]
    BY <1>9, <1>10 DEF Fits, HeaderSet
  <2> QED
    BY <1>2, <2>1, <2>2 DEF Fits
<1>12. OpenFit(b2, E, o2)
  <2>1. \A u \in Sectors : u # s =>
          (o2[u] # NoHeader => /\ u \in E /\ Fits(u, o2[u]) /\ KindOf(o2, u) = "file"
                               /\ o2[u] = [b2[u] EXCEPT !.data = DataIn(o2, u)])
    <3> SUFFICES ASSUME NEW u \in Sectors, u # s, o2[u] # NoHeader
                 PROVE  /\ u \in E /\ Fits(u, o2[u]) /\ KindOf(o2, u) = "file"
                        /\ o2[u] = [b2[u] EXCEPT !.data = DataIn(o2, u)]
      OBVIOUS
    <3>1. o2[u] = o[u] /\ KindOf(o2, u) = KindOf(o, u) /\ DataIn(o2, u) = DataIn(o, u)
      BY <1>3 DEF KindOf, DataIn
    <3>2. u \in E /\ Fits(u, o[u]) /\ KindOf(o, u) = "file"
          /\ o[u] = [b[u] EXCEPT !.data = DataIn(o, u)]
      BY <1>2, <3>1 DEF OpenFit
    <3>3. b2[u] = b[u]
      BY <1>5, <3>2
    <3> QED
      BY <3>1, <3>2, <3>3
  <2>2. KindOf(o2, s) = "file" /\ DataIn(o2, s) = {t}
    BY <1>3, <1>11 DEF KindOf, DataIn
  <2>3. b2[s] = b[s]
    BY <1>2, <1>5
  <2> QED
    BY <1>2, <1>3, <1>11, <2>1, <2>2, <2>3 DEF OpenFit
<1>13. Accounted(b2, E, F2, o2)
  <2>1. DataOf(b, o, s) = {} /\ DataOf(b2, o2, s) = {t}
    BY <1>3, <1>11 DEF DataOf, DataIn, Fits, HeaderSet, NoHeader
  <2>2. \A u \in E : u # s => DataOf(b2, o2, u) = DataOf(b, o, u)
    BY <1>2, <1>3, <1>5 DEF DataOf, DataIn
  <2>3. /\ F \subseteq Sectors /\ Sectors \ F = E \cup UNION {DataOf(b, o, u) : u \in E}
        /\ \A u \in E : DataOf(b, o, u) \cap E = {}
        /\ \A u, v \in E : u # v => DataOf(b, o, u) \cap DataOf(b, o, v) = {}
    BY <1>2 DEF Accounted
  <2>4. \A u \in E : t \notin DataOf(b, o, u)
    BY <2>3
  <2>5. s \in E /\ t \in Sectors /\ t \notin E
    BY <1>2
  <2>6. \A u \in E : DataOf(b2, o2, u) = IF u = s THEN {t} ELSE DataOf(b, o, u)
    BY <2>1, <2>2
  <2>7. Sectors \ F2 = E \cup UNION {DataOf(b2, o2, u) : u \in E}
    <3>1. Sectors \ F2 = (Sectors \ F) \cup {t}
      BY <2>5
    <3>2. UNION {DataOf(b2, o2, u) : u \in E} = (UNION {DataOf(b, o, u) : u \in E}) \cup {t}
      <4>1. \A y : (\E u \in E : y \in DataOf(b2, o2, u)) <=>
                   ((\E u \in E : y \in DataOf(b, o, u)) \/ y = t)
        <5>1. ASSUME NEW y, NEW u \in E, y \in DataOf(b2, o2, u)
              PROVE  y \in DataOf(b, o, u) \/ y = t
          BY <2>6, <5>1
        <5>2. ASSUME NEW y, NEW u \in E, y \in DataOf(b, o, u)
              PROVE  y \in DataOf(b2, o2, u)
          BY <2>1, <2>6, <5>2
        <5>3. t \in DataOf(b2, o2, s)
          BY <2>1
        <5> QED
          BY <2>5, <5>1, <5>2, <5>3
      <4> DEFINE A == UNION {DataOf(b2, o2, u) : u \in E}
                 B == UNION {DataOf(b, o, u) : u \in E}
      <4>2. /\ \A y : y \in A <=> \E u \in E : y \in DataOf(b2, o2, u)
            /\ \A y : y \in B <=> \E u \in E : y \in DataOf(b, o, u)
        OBVIOUS
      <4> HIDE DEF A, B
      <4>3. A = B \cup {t}
        BY <4>1, <4>2
      <4> QED
        BY <4>3 DEF A, B
    <3> QED
      BY <2>3, <3>1, <3>2
  <2>8. \A u \in E : DataOf(b2, o2, u) \cap E = {}
    BY <2>3, <2>5, <2>6
  <2>9. ASSUME NEW u \in E, NEW v \in E, u # v
        PROVE  DataOf(b2, o2, u) \cap DataOf(b2, o2, v) = {}
    <3>1. CASE u # s /\ v # s
      BY <2>2, <2>3, <2>9, <3>1
    <3>2. CASE u = s \/ v = s
      BY <2>1, <2>2, <2>4, <2>9, <3>2
    <3> QED
      BY <3>1, <3>2
  <2> QED
    BY <2>3, <2>7, <2>8, <2>9 DEF Accounted
<1>14. NothingStale(b2, E)
  <2>1. KindOf(b2, t) # "dir"
    BY <1>4 DEF KindOf, NoHeader
  <2>2. \A u \in Sectors : u # t => b2[u] = b[u]
    BY <1>4
  <2> QED
    BY <1>2, <2>1, <2>2 DEF NothingStale, ListsNothing, HeadOf, KindOf
<1>15. Evolves(b, E, b2, E)
  BY <1>5, EvolvesSame DEF Alike
<1> QED
  BY <1>1, <1>4, <1>6, <1>7, <1>8, <1>12, <1>13, <1>14, <1>15 DEF SoundFor, Sound

\* A file is closed: its header in memory is written.
LEMMA Closing ==
  ASSUME NEW b, NEW F, NEW o, NEW E, SoundFor(b, F, o, E),
         NEW s \in Sectors, o[s] # NoHeader,
         NEW b2, b2 = Put(b, s, o[s]), NEW o2, o2 = Put(o, s, NoHeader)
  PROVE  SoundFor(b2, F, o2, E) /\ Evolves(b, E, b2, E)
<1> DEFINE D == DirectoriesOf(b, E)
<1>1. PICK rank \in [Sectors -> Nat], depth \in [Sectors \cup {Root} -> Nat] :
        Sound(b, F, o, E, rank, depth)
  BY DEF SoundFor
<1>2. /\ BlocksFit(b) /\ OpenFit(b, E, o) /\ Accounted(b, E, F, o)
      /\ Linked(b, E, D, rank) /\ Deep(b, E, depth) /\ NothingStale(b, E)
      /\ E \subseteq Sectors /\ s \in E /\ s # Root
      /\ D \subseteq E \cup {Root} /\ D \subseteq Sectors \cup {Root}
  BY <1>1, SectorNumbers DEF Sound, Linked, OpenFit, Accounted, DirectoriesOf
<1> HIDE DEF D
<1>3. /\ OnSectors(o2)
      /\ o2[s] = NoHeader /\ \A u \in Sectors : u # s => o2[u] = o[u]
  BY <1>2, OpenPut
<1>4. Fits(s, o[s]) /\ o[s] = [b[s] EXCEPT !.data = DataIn(o, s)]
  BY <1>2 DEF OpenFit
<1>5. /\ BlocksFit(b2) /\ b2[s] = o[s]
      /\ \A u \in Sectors \cup {Root} : u # s => b2[u] = b[u]
  BY <1>2, <1>4, FitsSame
<1>6. Fits(s, b[s]) /\ b[s] # NoHeader
  BY <1>2 DEF BlocksFit, Linked
<1>7. /\ KindOf(b2, s) = KindOf(b, s) /\ DirOf(b2, s) = DirOf(b, s)
      /\ NameOf(b2, s) = NameOf(b, s) /\ NextOf(b2, s) = NextOf(b, s)
      /\ b2[s].hashTable = b[s].hashTable /\ DataIn(b2, s) = DataIn(o, s)
      /\ b2[s] # NoHeader
  BY <1>4, <1>5, <1>6 DEF Fits, HeaderSet, KindOf, DirOf, NameOf, NextOf, DataIn
<1>8. /\ \A u \in E : u # s => b2[u] = b[u]
      /\ \A u \in D : u # s => b2[u] = b[u]
  BY <1>2, <1>5
<1>9. /\ \A u \in E : /\ b2[u] # NoHeader
                      /\ KindOf(b2, u) = KindOf(b, u) /\ DirOf(b2, u) = DirOf(b, u)
                      /\ NameOf(b2, u) = NameOf(b, u) /\ NextOf(b2, u) = NextOf(b, u)
      /\ \A d \in D : KindOf(b2, d) = KindOf(b, d) /\ b2[d].hashTable = b[d].hashTable
  <2>1. \A u \in E : b[u] # NoHeader
    BY <1>2 DEF Linked
  <2> QED
    BY <1>7, <1>8, <2>1 DEF KindOf, DirOf, NameOf, NextOf
<1>10. Linked(b2, E, D, rank)
  BY <1>2, <1>9, LinkedSame
<1>11. DirectoriesOf(b2, E) = D
  BY <1>9 DEF DirectoriesOf, D
<1>12. Deep(b2, E, depth)
  BY <1>2, <1>9 DEF Deep
<1>13. OpenFit(b2, E, o2)
  BY <1>2, <1>3, <1>8 DEF OpenFit, KindOf, DataIn
<1>14. Accounted(b2, E, F, o2)
  <2>1. DataOf(b2, o2, s) = DataOf(b, o, s)
    BY <1>3, <1>7 DEF DataOf
  <2>2. \A u \in E : u # s => DataOf(b2, o2, u) = DataOf(b, o, u)
    BY <1>2, <1>3, <1>8 DEF DataOf, DataIn
  <2>3. \A u \in E : DataOf(b2, o2, u) = DataOf(b, o, u)
    BY <2>1, <2>2
  <2> QED
    BY <1>2, <2>3, AccountedSame
<1>15. NothingStale(b2, E)
  <2>1. \A u \in Sectors \ E : b2[u] = b[u]
    BY <1>2, <1>5
  <2> QED
    BY <1>2, <2>1 DEF NothingStale, ListsNothing, HeadOf, KindOf
<1>16. Evolves(b, E, b2, E)
  BY <1>9, EvolvesSame DEF Alike
<1> QED
  BY <1>1, <1>5, <1>10, <1>11, <1>12, <1>13, <1>14, <1>15, <1>16 DEF SoundFor, Sound

-----------------------------------------------------------------------------
(* What a call writes: blocks b and free blocks F, when no write fails *)

Runs(w, b, F) ==
  /\ w = [blocks |-> b, free |-> F, ok |-> TRUE, failing |-> w.failing]
  /\ w.failing \in Int /\ w.failing <= 0
WillFail(w, b, F) == w = [blocks |-> b, free |-> F, ok |-> TRUE, failing |-> 1]
Failed(w, b, F)   == w = [blocks |-> b, free |-> F, ok |-> FALSE, failing |-> w.failing]

\* A call starts on the blocks as they are.
LEMMA Starts ==
  /\ Runs(World(0), blocks, free)
  /\ WillFail(World(1), blocks, free)
BY DEF Runs, WillFail, World

\* What is left of such a state.
LEMMA WorldIs ==
  ASSUME NEW w, NEW b, NEW F
  PROVE  /\ Runs(w, b, F) => w.blocks = b /\ w.free = F /\ w.ok = TRUE
         /\ WillFail(w, b, F) => w.blocks = b /\ w.free = F /\ w.ok = TRUE
         /\ Failed(w, b, F) => w.blocks = b /\ w.free = F /\ w.ok = FALSE
BY DEF Runs, WillFail, Failed

\* An error changes nothing.
LEMMA FailsIs ==
  ASSUME NEW w, NEW b, NEW F, Runs(w, b, F) \/ WillFail(w, b, F), NEW w2, w2 = Fails(w)
  PROVE  Failed(w2, b, F)
<1> DEFINE k == w.failing
<1>1. w = [blocks |-> b, free |-> F, ok |-> TRUE, failing |-> k]
  BY DEF Runs, WillFail
<1> HIDE DEF k
<1>2. w2 = [blocks |-> b, free |-> F, ok |-> FALSE, failing |-> k]
  BY <1>1 DEF Fails
<1> QED
  BY <1>2 DEF Failed

\* One write: it is made, it fails, or it is not tried.
LEMMA WriteIs ==
  ASSUME NEW w, NEW b, NEW F, NEW s, NEW x, NEW w2, w2 = Write(w, s, x)
  PROVE  /\ Runs(w, b, F) => Runs(w2, Put(b, s, x), F)
         /\ WillFail(w, b, F) => Failed(w2, b, F)
         /\ Failed(w, b, F) => Failed(w2, b, F)
<1>1. ASSUME Runs(w, b, F)
      PROVE  Runs(w2, Put(b, s, x), F)
  <2> DEFINE k == w.failing
             c == Put(b, s, x)
  <2>1. w.ok = TRUE /\ w.failing # 1 /\ k \in Int /\ k <= 0
    BY <1>1 DEF Runs
  <2>2. w = [blocks |-> b, free |-> F, ok |-> TRUE, failing |-> k]
    BY <1>1 DEF Runs
  <2> HIDE DEF k
  <2>3. w2 = [w EXCEPT !.blocks = Put(b, s, x), !.failing = k - 1]
    <3>1. w2 = [w EXCEPT !.blocks[s] = x, !.failing = @ - 1]
      BY <2>1 DEF Write
    <3> QED
      BY <2>2, <3>1 DEF Put
  <2> HIDE DEF c
  <2>4. w2 = [blocks |-> c, free |-> F, ok |-> TRUE, failing |-> k - 1]
    BY <2>2, <2>3 DEF c
  <2>5. w2.failing = k - 1 /\ k - 1 \in Int /\ k - 1 <= 0
    BY <2>1, <2>4
  <2>6. w2 = [blocks |-> c, free |-> F, ok |-> TRUE, failing |-> w2.failing]
    BY <2>4, <2>5
  <2>7. Runs(w2, c, F)
    BY <2>5, <2>6 DEF Runs
  <2> QED
    BY <2>7 DEF c
<1>2. ASSUME WillFail(w, b, F)
      PROVE  Failed(w2, b, F)
  <2>1. w2 = Fails(w)
    BY <1>2 DEF WillFail, Write
  <2> QED
    BY <1>2, <2>1, FailsIs
<1>3. ASSUME Failed(w, b, F)
      PROVE  Failed(w2, b, F)
  <2>1. w2 = w
    BY <1>3 DEF Failed, Write
  <2> QED
    BY <1>3, <2>1
<1> QED
  BY <1>1, <1>2, <1>3

\* Such a state, written down.
LEMMA StateIs ==
  ASSUME NEW b, NEW F, NEW k, NEW w, NEW ok,
         w = [blocks |-> b, free |-> F, ok |-> ok, failing |-> k]
  PROVE  /\ ok = TRUE /\ k \in Int /\ k <= 0 => Runs(w, b, F)
         /\ ok = TRUE /\ k = 1 => WillFail(w, b, F)
         /\ ok = FALSE => Failed(w, b, F)
BY DEF Runs, WillFail, Failed

\* Other blocks are free.
LEMMA FreeIs ==
  ASSUME NEW w, NEW b, NEW F, NEW F2, NEW w2, w2 = [w EXCEPT !.free = F2]
  PROVE  /\ Runs(w, b, F) => Runs(w2, b, F2)
         /\ WillFail(w, b, F) => WillFail(w2, b, F2)
         /\ Failed(w, b, F) => Failed(w2, b, F2)
<1> DEFINE k == w.failing
<1>1. ASSUME NEW ok, w = [blocks |-> b, free |-> F, ok |-> ok, failing |-> k]
      PROVE  w2 = [blocks |-> b, free |-> F2, ok |-> ok, failing |-> k]
  <2> HIDE DEF k
  <2> QED
    BY <1>1
<1>2. ASSUME Runs(w, b, F)
      PROVE  Runs(w2, b, F2)
  <2>1. w2 = [blocks |-> b, free |-> F2, ok |-> TRUE, failing |-> k]
    BY <1>1, <1>2 DEF Runs
  <2>2. k \in Int /\ k <= 0
    BY <1>2 DEF Runs
  <2> HIDE DEF k
  <2> QED
    BY <2>1, <2>2, StateIs
<1>3. ASSUME WillFail(w, b, F)
      PROVE  WillFail(w2, b, F2)
  <2>1. k = 1
    BY <1>3 DEF WillFail
  <2>2. w2 = [blocks |-> b, free |-> F2, ok |-> TRUE, failing |-> k]
    BY <1>1, <1>3, <2>1 DEF WillFail
  <2> HIDE DEF k
  <2> QED
    BY <2>1, <2>2, StateIs
<1>4. ASSUME Failed(w, b, F)
      PROVE  Failed(w2, b, F2)
  <2>1. w2 = [blocks |-> b, free |-> F2, ok |-> FALSE, failing |-> k]
    BY <1>1, <1>4 DEF Failed
  <2> HIDE DEF k
  <2> QED
    BY <2>1, StateIs
<1> QED
  BY <1>2, <1>3, <1>4

\* The first of the free blocks is granted.
LEMMA GrantedIs ==
  ASSUME NEW w, w.free \in SUBSET Sectors, w.free # {}
  PROVE  Granted(w) \in w.free
<1>1. w.free \in SUBSET Nat
  BY SectorNumbers
<1>2. \E s \in w.free : \A t \in w.free : s <= t
  BY <1>1, LeastNumber
<1> QED
  BY <1>2 DEF Granted

\* A block is written to the end of a list.
LEMMA AppendIs ==
  ASSUME NEW w, NEW b, NEW F, NEW E, NEW D, NEW rank, Linked(b, E, D, rank),
         NEW d \in D, NEW n \in Names, NEW s, NEW w2, w2 = Append(w, d, n, s)
  PROVE  /\ Runs(w, b, F) =>
              \E last : /\ Ends(b, E, d, Bucket[n], last)
                        /\ Runs(w2, Point(b, d, Bucket[n], last, s), F)
         /\ WillFail(w, b, F) => Failed(w2, b, F)
<1> DEFINE list == List(w.blocks, d, n)
           last == LastOf(w.blocks, list)
           x == [w.blocks[d] EXCEPT !.hashTable[Bucket[n]] = s]
           y == [w.blocks[last] EXCEPT !.nextSameHash = s]
<1>1. /\ list = {} => w2 = Write(w, d, x)
      /\ list # {} => w2 = Write(w, last, y)
  BY DEF Append
<1>2. ASSUME Runs(w, b, F)
      PROVE  \E l : Ends(b, E, d, Bucket[n], l) /\ Runs(w2, Point(b, d, Bucket[n], l, s), F)
  <2>1. w.blocks = b
    BY <1>2, WorldIs
  <2>2. list = Listed(b, E, d, Bucket[n])
    <3>1. Bucket[n] \in Hashes
      BY DEF Hashes
    <3> QED
      BY <2>1, <3>1, ListIs DEF List, HeadOf
  <2>3. CASE list = {}
    <3>1. Put(b, d, x) = Point(b, d, Bucket[n], 0, s)
      BY <2>1 DEF Put, Point
    <3> HIDE DEF x, y, list, last
    <3>2. Runs(w2, Put(b, d, x), F)
      BY <1>1, <1>2, <2>3, WriteIs
    <3>3. Ends(b, E, d, Bucket[n], 0)
      BY <2>2, <2>3 DEF Ends
    <3> QED
      BY <3>1, <3>2, <3>3
  <2>4. CASE list # {}
    <3> HIDE DEF list
    <3>1. last \in Listed(b, E, d, Bucket[n]) /\ NextOf(b, last) = 0
      BY <2>1, <2>2, <2>4, LastIs
    <3>2. last # 0
      BY <3>1, SectorNumbers DEF Listed, Linked
    <3> HIDE DEF last
    <3>3. Put(b, last, y) = Point(b, d, Bucket[n], last, s)
      BY <2>1, <3>2 DEF Put, Point
    <3> HIDE DEF x, y
    <3>4. Runs(w2, Put(b, last, y), F)
      BY <1>1, <1>2, <2>4, WriteIs
    <3>5. Ends(b, E, d, Bucket[n], last)
      BY <3>1, <3>2 DEF Ends
    <3> QED
      BY <3>3, <3>4, <3>5
  <2> QED
    BY <2>3, <2>4
<1>3. ASSUME WillFail(w, b, F)
      PROVE  Failed(w2, b, F)
  <2> HIDE DEF list, last, x, y
  <2>1. CASE list = {}
    BY <1>1, <1>3, <2>1, WriteIs
  <2>2. CASE list # {}
    BY <1>1, <1>3, <2>2, WriteIs
  <2> QED
    BY <2>1, <2>2
<1> QED
  BY <1>2, <1>3

\* adfCreateEntry links the granted block, or changes nothing.
LEMMA CreateEntryIs ==
  ASSUME NEW w, NEW b, BlocksFit(b), NEW F \in SUBSET Sectors, NEW E, NEW D, NEW rank,
         Linked(b, E, D, rank), NEW d \in D, NEW n \in Names,
         Runs(w, b, F) \/ WillFail(w, b, F),
         NEW s, s = Granted(w), NEW w2, w2 = adfCreateEntry(w, d, n)
  PROVE  \/ Failed(w2, b, F)
         \/ /\ Runs(w, b, F) /\ s \in F /\ Called(b, E, d, n) = {}
            /\ \E last : /\ Ends(b, E, d, Bucket[n], last)
                         /\ Runs(w2, Point(b, d, Bucket[n], last, s), F \ {s})
<1> DEFINE w1 == [w EXCEPT !.free = F \ {s}]
           linked == Append(w1, d, n, s)
           refused == SameName(w.blocks, List(w.blocks, d, n), n) # {} \/ w.free = {}
<1>1. w.blocks = b /\ w.free = F
  BY WorldIs
<1>2. /\ refused => w2 = Fails(w)
      /\ ~refused => w2 = IF linked.ok THEN linked ELSE [linked EXCEPT !.free = @ \cup {s}]
  BY <1>1 DEF adfCreateEntry
<1>3. ~refused => Called(b, E, d, n) = {} /\ F # {}
  BY <1>1, SameNameIs
<1> HIDE DEF refused
<1>4. CASE refused
  BY <1>2, <1>4, FailsIs
<1>5. CASE ~refused
  <2>1. s \in F
    BY <1>1, <1>3, <1>5, GrantedIs
  <2>2. /\ Runs(w, b, F) => Runs(w1, b, F \ {s})
        /\ WillFail(w, b, F) => WillFail(w1, b, F \ {s})
    <3> HIDE DEF linked
    <3> QED
      BY FreeIs
  <2> HIDE DEF w1
  <2>3. CASE Runs(w, b, F)
    <3>1. PICK last : /\ Ends(b, E, d, Bucket[n], last)
                      /\ Runs(linked, Point(b, d, Bucket[n], last, s), F \ {s})
      <4> DEFINE F1 == F \ {s}
      <4>1. Runs(w1, b, F1)
        BY <2>2, <2>3
      <4> HIDE DEF F1
      <4>2. \E l : Ends(b, E, d, Bucket[n], l) /\ Runs(linked, Point(b, d, Bucket[n], l, s), F1)
        BY <4>1, AppendIs
      <4> QED
        BY <4>2 DEF F1
    <3> HIDE DEF linked
    <3>2. w2 = linked
      BY <1>2, <1>5, <3>1, WorldIs
    <3> QED
      BY <1>3, <1>5, <2>1, <2>3, <3>1, <3>2
  <2>4. CASE WillFail(w, b, F)
    <3>1. Failed(linked, b, F \ {s})
      BY <2>2, <2>4, AppendIs
    <3> HIDE DEF linked
    <3>2. linked.ok = FALSE /\ linked.free = F \ {s}
      BY <3>1, WorldIs
    <3>3. w2 = [linked EXCEPT !.free = F]
      <4>1. (F \ {s}) \cup {s} = F
        BY <2>1
      <4> QED
        BY <1>2, <1>5, <3>2, <4>1
    <3> QED
      BY <3>1, <3>3, FreeIs
  <2> QED
    BY <2>3, <2>4
<1> QED
  BY <1>4, <1>5

\* The new entry is written, at the end of its list.
Created(b, F, E, kind, d, n, s, w2) ==
  /\ w2.ok = TRUE /\ s \in F /\ Called(b, E, d, n) = {} /\ w2.free = F \ {s}
  /\ Placed(b, E, d, n, s, Header(kind, n, d), w2.blocks)

\* adfCreateFile and adfCreateDir write the header of a new entry into the
\* block that is linked, or change nothing.
LEMMA CreateIs ==
  ASSUME NEW w, NEW b, BlocksFit(b), NEW F \in SUBSET Sectors, NEW E, NEW D, NEW rank,
         Linked(b, E, D, rank), NEW d \in D, NEW n \in Names, NEW kind,
         Runs(w, b, F) \/ WillFail(w, b, F),
         NEW s, s = Granted(w), NEW w2, w2 = Create(w, kind, d, n)
  PROVE  Failed(w2, b, F) \/ Created(b, F, E, kind, d, n, s, w2)
<1> DEFINE entry == adfCreateEntry(w, d, n)
<1>1. w2 = IF ~entry.ok THEN entry ELSE Write(entry, s, Header(kind, n, d))
  BY DEF Create
<1>2. \/ Failed(entry, b, F)
      \/ /\ Runs(w, b, F) /\ s \in F /\ Called(b, E, d, n) = {}
         /\ \E last : /\ Ends(b, E, d, Bucket[n], last)
                      /\ Runs(entry, Point(b, d, Bucket[n], last, s), F \ {s})
  BY CreateEntryIs
<1> HIDE DEF entry
<1>3. CASE Failed(entry, b, F)
  BY <1>1, <1>3, WorldIs
<1>4. ASSUME s \in F, Called(b, E, d, n) = {}, NEW last,
             Ends(b, E, d, Bucket[n], last),
             Runs(entry, Point(b, d, Bucket[n], last, s), F \ {s})
      PROVE  /\ w2.ok = TRUE /\ w2.free = F \ {s}
             /\ Placed(b, E, d, n, s, Header(kind, n, d), w2.blocks)
  <2>1. w2 = Write(entry, s, Header(kind, n, d))
    BY <1>1, <1>4, WorldIs
  <2>2. Runs(w2, Put(Point(b, d, Bucket[n], last, s), s, Header(kind, n, d)), F \ {s})
    BY <1>4, <2>1, WriteIs
  <2> QED
    BY <1>4, <2>2, WorldIs DEF Placed
<1> QED
  BY <1>2, <1>3, <1>4 DEF Created

\* In b2 the block s is at the end of the list for n in d.
Linking(b, E, d, n, s, b2) ==
  \E last : Ends(b, E, d, Bucket[n], last) /\ b2 = Point(b, d, Bucket[n], last, s)

\* What undeleting does: the name is taken, a write fails, or s is linked.
Reinserted(b, F, E, d, n, s, w2) ==
  \/ Failed(w2, b, F) /\ Called(b, E, d, n) # {}
  \/ Failed(w2, b, F \cup {s})
  \/ /\ w2.ok = TRUE /\ Called(b, E, d, n) = {} /\ w2.free = F
     /\ Linking(b, E, d, n, s, w2.blocks)

\* Undeleting links the block of the entry, or changes no block.
LEMMA InsertIs ==
  ASSUME NEW w, NEW b, BlocksFit(b), NEW F \in SUBSET Sectors, NEW E, NEW D, NEW rank,
         Linked(b, E, D, rank), NEW d \in D, NEW n \in Names,
         Runs(w, b, F) \/ WillFail(w, b, F),
         NEW s \in Sectors, NEW w2, w2 = Insert(w, d, n, s)
  PROVE  Reinserted(b, F, E, d, n, s, w2)
<1> DEFINE linked == Append(w, d, n, s)
           refused == SameName(w.blocks, List(w.blocks, d, n), n) # {}
<1>1. w.blocks = b /\ w.free = F
  BY WorldIs
<1>2. /\ refused => w2 = Fails(w)
      /\ ~refused => w2 = IF linked.ok THEN linked ELSE [linked EXCEPT !.free = @ \cup {s}]
  BY <1>1 DEF Insert
<1>3. ~refused <=> Called(b, E, d, n) = {}
  BY <1>1, SameNameIs
<1> HIDE DEF refused
<1>4. CASE refused
  BY <1>2, <1>3, <1>4, FailsIs DEF Reinserted
<1>5. CASE ~refused
  <2>1. CASE Runs(w, b, F)
    <3>1. PICK last : /\ Ends(b, E, d, Bucket[n], last)
                      /\ Runs(linked, Point(b, d, Bucket[n], last, s), F)
      BY <2>1, AppendIs
    <3> HIDE DEF linked
    <3>2. w2 = linked /\ w2.ok = TRUE /\ w2.free = F /\ w2.blocks = Point(b, d, Bucket[n], last, s)
      BY <1>2, <1>5, <3>1, WorldIs
    <3> QED
      BY <1>3, <1>5, <3>1, <3>2 DEF Linking, Reinserted
  <2>2. CASE WillFail(w, b, F)
    <3>1. Failed(linked, b, F)
      BY <2>2, AppendIs
    <3> HIDE DEF linked
    <3>2. w2 = [linked EXCEPT !.free = F \cup {s}]
      BY <1>2, <1>5, <3>1, WorldIs
    <3>3. Failed(w2, b, F \cup {s})
      BY <3>1, <3>2, FreeIs
    <3> QED
      BY <3>3 DEF Reinserted
  <2> QED
    BY <2>1, <2>2
<1> QED
  BY <1>4, <1>5 DEF Reinserted

\* An entry is taken out of a list.
LEMMA UnlinkIs ==
  ASSUME NEW w, NEW b, NEW F, NEW d, NEW n, NEW prev, NEW next,
         NEW w2, w2 = Unlink(w, d, n, prev, next)
  PROVE  /\ Runs(w, b, F) => Runs(w2, Point(b, d, Bucket[n], prev, next), F)
         /\ WillFail(w, b, F) => Failed(w2, b, F)
         /\ Failed(w, b, F) => Failed(w2, b, F)
<1> DEFINE x == [w.blocks[d] EXCEPT !.hashTable[Bucket[n]] = next]
           y == [w.blocks[prev] EXCEPT !.nextSameHash = next]
<1>1. /\ prev = 0 => w2 = Write(w, d, x)
      /\ prev # 0 => w2 = Write(w, prev, y)
  BY DEF Unlink
<1>2. ASSUME w.blocks = b
      PROVE  /\ prev = 0 => Put(b, d, x) = Point(b, d, Bucket[n], prev, next)
             /\ prev # 0 => Put(b, prev, y) = Point(b, d, Bucket[n], prev, next)
  BY <1>2 DEF Put, Point
<1> HIDE DEF x, y
<1>3. ASSUME Runs(w, b, F)
      PROVE  Runs(w2, Point(b, d, Bucket[n], prev, next), F)
  <2>1. w.blocks = b
    BY <1>3, WorldIs
  <2>2. /\ prev = 0 => Runs(w2, Put(b, d, x), F)
        /\ prev # 0 => Runs(w2, Put(b, prev, y), F)
    BY <1>1, <1>3, WriteIs
  <2> QED
    BY <1>2, <2>1, <2>2
<1>4. WillFail(w, b, F) => Failed(w2, b, F)
  BY <1>1, WriteIs
<1>5. Failed(w, b, F) => Failed(w2, b, F)
  BY <1>1, WriteIs
<1> QED
  BY <1>3, <1>4, <1>5

\* The entry s is out of its list, as in b1, and its blocks S are free.
Removed(b, F, s, b1, S, w2) ==
  /\ KindOf(b, s) = "dir" => ListsNothing(b, s)
  /\ w2.free = F \cup S
  /\ w2.blocks = b1 \/ w2.blocks = Without(b1, S)

\* adfRemoveEntry unlinks the entry and frees its blocks, or changes nothing.
LEMMA RemoveIs ==
  ASSUME NEW w, NEW b, BlocksFit(b), NEW F, NEW E, NEW D, NEW rank,
         Linked(b, E, D, rank), NEW d \in D, NEW n \in Names,
         Runs(w, b, F) \/ WillFail(w, b, F),
         NEW s \in E, DirOf(b, s) = d, HashOf(b, s) = Bucket[n],
         NEW prev, prev = Before(b, Listed(b, E, d, Bucket[n]), s),
         NEW b1, b1 = Point(b, d, Bucket[n], prev, NextOf(b, s)),
         NEW S, S = {s} \cup DataIn(b, s),
         NEW w2, w2 = Remove(w, s, d, n)
  PROVE  Failed(w2, b, F) \/ Removed(b, F, s, b1, S, w2)
<1> DEFINE refused == w.blocks[s].kind = "dir" /\ ~adfIsDirEmpty(w.blocks[s])
           unlinked == Unlink(w, d, n, prev, NextOf(b, s))
<1>1. w.blocks = b /\ w.free = F
  BY WorldIs
<1>2. List(b, d, n) = Listed(b, E, d, Bucket[n])
  BY SameNameIs
<1>3. BlocksOf(w, s) = S
  BY <1>1 DEF BlocksOf, DataIn
<1>4. w2 = IF refused THEN Fails(w) ELSE SetFree(unlinked, S)
  <2>1. Before(w.blocks, List(w.blocks, d, n), s) = prev
    BY <1>1, <1>2
  <2>2. w.blocks[s].nextSameHash = NextOf(b, s)
    BY <1>1 DEF NextOf
  <2>3. w2 = IF refused THEN Fails(w)
             ELSE SetFree(Unlink(w, d, n, Before(w.blocks, List(w.blocks, d, n), s),
                                 w.blocks[s].nextSameHash), BlocksOf(w, s))
    BY DEF Remove
  <2> QED
    BY <1>3, <2>1, <2>2, <2>3
<1>5. ~refused => (KindOf(b, s) = "dir" => ListsNothing(b, s))
  BY <1>1 DEF KindOf, adfIsDirEmpty, ListsNothing, HeadOf, EmptyTable
<1>6. /\ Runs(w, b, F) => Runs(unlinked, b1, F)
      /\ WillFail(w, b, F) => Failed(unlinked, b, F)
  BY UnlinkIs
<1> HIDE DEF refused, unlinked
<1>7. CASE refused
  BY <1>4, <1>7, FailsIs
<1>8. CASE ~refused
  <2>1. CASE WillFail(w, b, F)
    <3>1. unlinked.ok = FALSE
      BY <1>6, <2>1, WorldIs
    <3>2. w2 = unlinked
      BY <1>4, <1>8, <3>1 DEF SetFree
    <3> QED
      BY <1>6, <2>1, <3>2
  <2>2. CASE Runs(w, b, F)
    <3>1. unlinked.ok = TRUE /\ unlinked.free = F /\ unlinked.blocks = b1
      BY <1>6, <2>2, WorldIs
    <3>2. DOMAIN unlinked = {"blocks", "free", "ok", "failing"}
      BY <1>6, <2>2 DEF Runs
    <3>3. w2 = [unlinked EXCEPT !.free = F \cup S,
                                !.blocks = IF "undelete" \in program.calls THEN b1
                                           ELSE Without(b1, S)]
      BY <1>4, <1>8, <3>1 DEF SetFree
    <3>4. /\ w2.free = F \cup S
          /\ w2.blocks = IF "undelete" \in program.calls THEN b1 ELSE Without(b1, S)
      BY <3>2, <3>3
    <3> QED
      BY <1>5, <1>8, <3>4 DEF Removed
  <2> QED
    BY <2>1, <2>2
<1> QED
  BY <1>7, <1>8

\* Writing what is there changes nothing.
LEMMA TouchIs ==
  ASSUME NEW w, NEW b, BlocksFit(b), NEW F, NEW d, NEW w2, w2 = Touch(w, d)
  PROVE  /\ Runs(w, b, F) => Runs(w2, b, F)
         /\ WillFail(w, b, F) => Failed(w2, b, F)
         /\ Failed(w, b, F) => Failed(w2, b, F)
<1>1. Put(b, d, b[d]) = b
  BY DEF BlocksFit, Put
<1>2. w2 = Write(w, d, w.blocks[d])
  BY DEF Touch
<1>3. ASSUME Runs(w, b, F)
      PROVE  Runs(w2, b, F)
  <2>1. w2 = Write(w, d, b[d])
    BY <1>2, <1>3, WorldIs
  <2>2. Runs(w2, Put(b, d, b[d]), F)
    BY <1>3, <2>1, WriteIs
  <2> QED
    BY <1>1, <2>2
<1>4. WillFail(w, b, F) => Failed(w2, b, F)
  BY <1>2, WriteIs
<1>5. Failed(w, b, F) => Failed(w2, b, F)
  BY <1>2, WriteIs
<1> QED
  BY <1>3, <1>4, <1>5

\* The entry left its list with its new name and is the last one of another one.
Relinked(b, E, rank, s, d2, n2, b3) ==
  \E b2 : /\ BlocksFit(b2) /\ Linked(b2, E \ {s}, DirectoriesOf(b, E), rank)
          /\ Left(b, E, s, d2, n2, b2)
          /\ \E last : /\ Ends(b2, E \ {s}, d2, Bucket[n2], last)
                       /\ b3 = Point(b2, d2, Bucket[n2], last, s)

Relinks(b, F, E, rank, s, d2, n2, w2) ==
  w2.free = F /\ Relinked(b, E, rank, s, d2, n2, w2.blocks)

\* What is renamed: the new name is one no other entry has.
MayRename(b, E, s, d, n, d2, n2) ==
  /\ s \in E /\ d = DirOf(b, s) /\ n \in Names /\ HashOf(b, s) = Bucket[n]
  /\ d2 \in DirectoriesOf(b, E) /\ d2 # s /\ n2 \in Names
  /\ Called(b, E \ {s}, d2, n2) = {}

\* adfRenameEntry puts the entry into its new list, or changes nothing.
LEMMA RenameIs ==
  ASSUME NEW w, NEW b, NEW F, NEW o, NEW E, NEW rank, NEW depth, Sound(b, F, o, E, rank, depth),
         Runs(w, b, F) \/ WillFail(w, b, F),
         NEW s, NEW d, NEW n, NEW d2, NEW n2, MayRename(b, E, s, d, n, d2, n2),
         NEW w2, w2 = Rename(w, s, d, n, d2, n2)
  PROVE  Failed(w2, b, F) \/ Relinks(b, F, E, rank, s, d2, n2, w2)
<1>0. /\ s \in E /\ d = DirOf(b, s) /\ n \in Names /\ HashOf(b, s) = Bucket[n]
      /\ d2 \in DirectoriesOf(b, E) /\ d2 # s /\ n2 \in Names
      /\ Called(b, E \ {s}, d2, n2) = {}
  BY DEF MayRename
<1> USE <1>0
<1> DEFINE h == Bucket[n]
           h2 == Bucket[n2]
           prev == Before(b, Listed(b, E, d, h), s)
           next == NextOf(b, s)
           e == Renamed(b[s], d2, n2)
           b2 == Put(Point(b, d, h, prev, next), s, e)
           D == DirectoriesOf(b, E)
           E1 == E \ {s}
           named == Write(w, s, e)
           unlinked == Unlink(named, d, n, prev, next)
           gone == IF prev = 0 THEN unlinked ELSE Touch(unlinked, d)
           newList == List(gone.blocks, d2, n2)
           linked == Append(gone, d2, n2, s)
<1>1. /\ w.blocks = b /\ w.free = F
      /\ BlocksFit(b) /\ Linked(b, E, D, rank)
  BY WorldIs DEF Sound
<1>2. /\ s \in Sectors /\ d \in Sectors \cup {Root} /\ s # d /\ d \in D
      /\ prev \in E \cup {0} /\ s # prev
      /\ BlocksFit(b2) /\ Linked(b2, E1, D, rank) /\ Left(b, E, s, d2, n2, b2)
  <2> DEFINE b1 == Point(b, d, h, prev, next)
  <2>1. /\ prev = Before(b, Listed(b, E, d, h), s) /\ b1 = Point(b, d, h, prev, NextOf(b, s))
        /\ e = Renamed(b[s], d2, n2) /\ b2 = Put(b1, s, e)
    OBVIOUS
  <2>2. h = HashOf(b, s) /\ s \in E /\ d = DirOf(b, s)
    OBVIOUS
  <2>3. d2 \in DirectoriesOf(b, E) /\ n2 \in Names
    OBVIOUS
  <2> HIDE DEF h, h2, prev, e, b1, b2, next, named, unlinked, gone, newList, linked
  <2> HIDE <1>0
  <2>4. /\ s \in Sectors /\ d \in Sectors \cup {Root} /\ s # d /\ d \in DirectoriesOf(b, E)
        /\ prev \in E \cup {0} /\ s # prev /\ NextOf(b, s) \in Sectors \cup {0}
        /\ h \in Hashes
        /\ BlocksFit(b2) /\ Linked(b2, E \ {s}, DirectoriesOf(b, E), rank)
        /\ Left(b, E, s, d2, n2, b2)
    BY <2>1, <2>2, <2>3, Leaving
  <2> QED
    BY <2>4
<1>3. w2 = IF ~gone.ok THEN gone
           ELSE IF SameName(gone.blocks, newList, n2) # {} THEN Fails(gone)
           ELSE IF newList = {} THEN linked
           ELSE Touch(linked, d2)
  <2>1. Before(w.blocks, List(w.blocks, d, n), s) = prev
    BY <1>1, <1>2, SameNameIs
  <2>2. w.blocks[s].nextSameHash = next /\ w.blocks[s] = b[s]
    BY <1>1 DEF NextOf
  <2> HIDE DEF prev, next
  <2> QED
    BY <2>1, <2>2 DEF Rename
<1>4. CASE WillFail(w, b, F)
  <2>1. Failed(named, b, F)
    <3> HIDE DEF e
    <3> QED
      BY <1>4, WriteIs
  <2> HIDE DEF named
  <2>2. Failed(unlinked, b, F)
    <3> HIDE DEF prev, next
    <3> QED
      BY <2>1, UnlinkIs
  <2> HIDE DEF unlinked
  <2>3. Failed(gone, b, F)
    BY <1>1, <2>2, TouchIs
  <2> HIDE DEF gone, newList, linked
  <2>4. w2 = gone
    BY <1>3, <2>3, WorldIs
  <2> QED
    BY <2>3, <2>4
<1>5. CASE Runs(w, b, F)
  <2> HIDE DEF e, prev, next
  <2>1. Runs(named, Put(b, s, e), F)
    BY <1>5, WriteIs
  <2>2. Point(Put(b, s, e), d, h, prev, next) = b2
    <3>1. prev \in Sectors \cup {0}
      BY <1>1, <1>2 DEF Linked
    <3>2. d \in Sectors \cup {Root} /\ s \in Sectors /\ s # d /\ s # prev /\ BlocksFit(b)
      BY <1>1, <1>2
    <3> HIDE DEF h, D, E1
    <3> QED
      BY <3>1, <3>2, PointCommutes
  <2> HIDE DEF named, b2
  <2>3. Runs(unlinked, b2, F)
    <3> DEFINE b0 == Put(b, s, e)
    <3>1. Runs(named, b0, F)
      BY <2>1
    <3> HIDE DEF b0
    <3>2. Runs(unlinked, Point(b0, d, Bucket[n], prev, next), F)
      BY <3>1, UnlinkIs
    <3> QED
      BY <2>2, <3>2 DEF b0, h
  <2> HIDE DEF unlinked
  <2>4. Runs(gone, b2, F)
    BY <1>2, <2>3, TouchIs
  <2> HIDE DEF gone
  <2>5. gone.ok = TRUE /\ gone.blocks = b2
    BY <2>4, WorldIs
  <2>6. SameName(gone.blocks, newList, n2) = {}
    <3>1. SameName(b2, List(b2, d2, n2), n2) = Called(b2, E1, d2, n2)
      <4> HIDE DEF D, E1
      <4>1. d2 \in D
        BY DEF D
      <4> QED
        BY <1>2, <4>1, SameNameIs
    <3>2. \A t \in E1 : DirOf(b2, t) = DirOf(b, t) /\ CapsOf(b2, t) = CapsOf(b, t)
      BY <1>2 DEF Left, CapsOf, NameOf
    <3>3. Called(b2, E1, d2, n2) = Called(b, E1, d2, n2)
      BY <3>2 DEF Called
    <3> QED
      BY <2>5, <3>1, <3>3
  <2>7. w2 = IF newList = {} THEN linked ELSE Touch(linked, d2)
    BY <1>3, <2>5, <2>6
  <2>8. PICK last : /\ Ends(b2, E1, d2, h2, last)
                    /\ Runs(linked, Point(b2, d2, h2, last, s), F)
    <3> HIDE DEF D, E1
    <3>1. d2 \in D
      BY DEF D
    <3>2. \E l : /\ Ends(b2, E1, d2, Bucket[n2], l)
                 /\ Runs(linked, Point(b2, d2, Bucket[n2], l, s), F)
      BY <1>2, <2>4, <3>1, AppendIs
    <3> QED
      BY <3>2
  <2> HIDE DEF linked, newList
  <2>9. BlocksFit(Point(b2, d2, h2, last, s))
    <3>1. last \in Sectors \cup {0} /\ (last # 0 => b2[last] # NoHeader)
      BY <1>2, <2>8 DEF Ends, Listed, Linked
    <3>2. d2 \in Sectors \cup {Root} /\ KindOf(b2, d2) = "dir" /\ h2 \in Hashes
      BY <1>2 DEF D, Hashes, Linked
    <3> QED
      BY <1>2, <3>1, <3>2, PointIs
  <2>10. Runs(w2, Point(b2, d2, h2, last, s), F)
    <3> DEFINE b3 == Point(b2, d2, h2, last, s)
    <3>1. BlocksFit(b3) /\ Runs(linked, b3, F)
      BY <2>8, <2>9
    <3> HIDE DEF b3
    <3>2. Runs(Touch(linked, d2), b3, F)
      BY <3>1, TouchIs
    <3>3. Runs(w2, b3, F)
      BY <2>7, <3>1, <3>2
    <3> QED
      BY <3>3 DEF b3
  <2>11. w2.free = F /\ w2.blocks = Point(b2, d2, Bucket[n2], last, s)
    BY <2>10, WorldIs
  <2>12. Ends(b2, E1, d2, Bucket[n2], last)
    BY <2>8
  <2>13. Relinked(b, E, rank, s, d2, n2, w2.blocks)
    BY <1>2, <2>11, <2>12 DEF Relinked
  <2> QED
    BY <2>11, <2>13 DEF Relinks
<1> QED
  BY <1>4, <1>5

-----------------------------------------------------------------------------
(* The actions. What is proved of them is for programs that have all of the *)
(* habits, and for calls of which no write but the first one fails.         *)

CarefulPrograms ==
  /\ FailAt \subseteq {0, 1}
  /\ {"new_name", "not_below_itself", "closed_files", "last_in_list",
      "free_name", "into_a_directory", "enter_directories",
      "keep_current"} \subseteq Habits

\* The directories of the sound volume b are what is found below the root
\* directory.
LEMMA Readings ==
  ASSUME NEW b, NEW F, NEW o, NEW E, SoundFor(b, F, o, E)
  PROVE  /\ E \subseteq Sectors /\ F \subseteq Sectors /\ BlocksFit(b) /\ OpenFit(b, E, o)
         /\ Below(b, Root) = E \cup {Root}
         /\ {d \in Below(b, Root) : b[d].kind = "dir"} = DirectoriesOf(b, E)
<1>1. PICK rank \in [Sectors -> Nat], depth \in [Sectors \cup {Root} -> Nat] :
        Sound(b, F, o, E, rank, depth)
  BY DEF SoundFor
<1>2. /\ BlocksFit(b) /\ Linked(b, E, DirectoriesOf(b, E), rank) /\ Deep(b, E, depth)
      /\ F \subseteq Sectors /\ OpenFit(b, E, o)
  BY <1>1 DEF Sound, Accounted
<1>3. Below(b, Root) = E \cup {Root}
  BY <1>2, AllBelowRoot
<1>4. KindOf(b, Root) = "dir"
  BY <1>2 DEF Linked, DirectoriesOf
<1>5. {d \in Below(b, Root) : b[d].kind = "dir"} = DirectoriesOf(b, E)
  BY <1>3, <1>4 DEF DirectoriesOf, KindOf
<1> QED
  BY <1>2, <1>3, <1>5 DEF Linked

\* So for the volume as it is.
LEMMA DirectoriesIs ==
  ASSUME NEW E, SoundFor(blocks, free, opened, E)
  PROVE  Directories = DirectoriesOf(blocks, E) /\ Entries = E
<1>1. Root \notin E
  BY Readings, SectorNumbers
<1> QED
  BY <1>1, Readings DEF Directories, Entries

\* The entry found under a name.
LEMMA FoundIs ==
  ASSUME NEW b, BlocksFit(b), NEW E, NEW D, NEW rank, Linked(b, E, D, rank),
         NEW d \in D, NEW n \in Names, NEW s, s = adfNameToEntryBlk(b, d, n), s # 0
  PROVE  /\ s \in E /\ DirOf(b, s) = d /\ HashOf(b, s) = Bucket[n]
         /\ Called(b, E, d, n) = {s}
<1>1. s \in E /\ Called(b, E, d, n) = {s}
  BY LookupIs
<1>2. DirOf(b, s) = d /\ CapsOf(b, s) = Upper[n]
  BY <1>1 DEF Called
<1>3. NameOf(b, s) \in Names
  BY <1>1, EntryFits
<1>4. \A m \in Names : Bucket[m] = Bucket[Upper[m]]
  BY DirAssumption
<1>5. HashOf(b, s) = Bucket[n]
  BY <1>2, <1>3, <1>4 DEF HashOf, CapsOf, NameOf
<1> QED
  BY <1>1, <1>2, <1>5

\* What a careful program leaves alone.
LEMMA CarefulIs ==
  ASSUME CarefulPrograms, NEW w, Careful(w)
  PROVE  \A t \in Sectors : opened[t] # NoHeader => w.blocks[t] = blocks[t] /\ t \notin w.free
<1>1. "closed_files" \in Habits
  BY DEF CarefulPrograms
<1> QED
  BY <1>1 DEF Careful, IsOpen

\* A call starts; its first write fails, or none.
LEMMA Begins ==
  ASSUME CarefulPrograms, NEW k \in FailAt
  PROVE  Runs(World(k), blocks, free) \/ WillFail(World(k), blocks, free)
<1>1. k = 0 \/ k = 1
  BY DEF CarefulPrograms
<1> QED
  BY <1>1, Starts

\* The entry s was created, or nothing changed.
Made(b, F, o, E, kind, s, w2) ==
  \/ w2.ok = FALSE /\ w2.blocks = b /\ w2.free = F
  \/ /\ w2.ok = TRUE /\ s \in Sectors /\ s \notin E /\ KindOf(w2.blocks, s) = kind
     /\ SoundFor(w2.blocks, w2.free, o, E \cup {s})
     /\ Evolves(b, E, w2.blocks, E \cup {s})

\* adfCreateFile, adfCreateDir: a new entry is created, or nothing changes.
LEMMA Creating ==
  ASSUME NEW b, NEW F, NEW o, NEW E, SoundFor(b, F, o, E),
         NEW w, Runs(w, b, F) \/ WillFail(w, b, F),
         NEW d \in DirectoriesOf(b, E), NEW n \in Names, NEW kind \in {"dir", "file"},
         NEW w2, w2 = Create(w, kind, d, n), LeavesOpen(o, b, w2.blocks),
         NEW s, s = Granted(w)
  PROVE  Made(b, F, o, E, kind, s, w2)
<1> DEFINE D == DirectoriesOf(b, E)
           e == Header(kind, n, d)
<1>1. PICK rank \in [Sectors -> Nat], depth \in [Sectors \cup {Root} -> Nat] :
        Sound(b, F, o, E, rank, depth)
  BY DEF SoundFor
<1>2. /\ BlocksFit(b) /\ Linked(b, E, D, rank) /\ d \in D /\ F \in SUBSET Sectors
      /\ D \subseteq Sectors \cup {Root}
  BY <1>1 DEF Sound, Accounted, Linked
<1> HIDE DEF D, e
<1>3. Failed(w2, b, F) \/ Created(b, F, E, kind, d, n, s, w2)
  BY <1>2, CreateIs
<1>4. CASE Failed(w2, b, F)
  BY <1>4, WorldIs DEF Made
<1>created. ASSUME Created(b, F, E, kind, d, n, s, w2)
      PROVE  /\ w2.ok = TRUE /\ s \in F /\ Called(b, E, d, n) = {} /\ w2.free = F \ {s}
             /\ Placed(b, E, d, n, s, e, w2.blocks)
  BY <1>created DEF Created, e
<1>5. ASSUME w2.ok = TRUE, s \in F, Called(b, E, d, n) = {}, w2.free = F \ {s},
             Placed(b, E, d, n, s, e, w2.blocks)
      PROVE  /\ s \in Sectors /\ s \notin E /\ KindOf(w2.blocks, s) = kind
             /\ SoundFor(w2.blocks, w2.free, o, E \cup {s})
             /\ Evolves(b, E, w2.blocks, E \cup {s})
  <2>1. EmptyTable \in [Hashes -> Sectors \cup {0}]
    BY DEF EmptyTable
  <2>2. /\ e \in HeaderSet /\ e.data = {} /\ e.name = n /\ e.parent = d
        /\ e.nextSameHash = 0 /\ e.kind = kind /\ e.hashTable = EmptyTable
    BY <1>2, <2>1 DEF e, Header, HeaderSet
  <2>3. Fits(s, e) /\ e.data \subseteq F /\ Fresh(e)
    BY <2>2 DEF Fits, Fresh, EmptyTable
  <2> DEFINE b2 == w2.blocks
             F2 == w2.free
  <2>4. /\ d = e.parent /\ n = e.name /\ Placed(b, E, d, n, s, e, b2)
        /\ F2 = F \ ({s} \cup e.data) /\ LeavesOpen(o, b, b2) /\ s \in F /\ e.nextSameHash = 0
        /\ Called(b, E, d, n) = {}
    BY <1>5, <2>2
  <2> HIDE DEF b2, F2
  <2>i. Inserting(b, F, o, E, d, n, s, e, b2, F2)
    BY <2>3, <2>4 DEF Inserting
  <2>j. Inserted(b, o, E, s, e, b2, F2)
    BY <2>i, Insertion
  <2>5. /\ s \in Sectors /\ s \notin E /\ b2[s] = e
        /\ SoundFor(b2, F2, o, E \cup {s}) /\ Evolves(b, E, b2, E \cup {s})
    BY <2>j DEF Inserted
  <2>6. KindOf(b2, s) = kind
    BY <2>2, <2>5 DEF KindOf
  <2> QED
    BY <2>5, <2>6 DEF b2, F2
<1> QED
  BY <1>3, <1>4, <1>5, <1>created DEF Made

\* Nothing changes.
LEMMA Idling ==
  ASSUME NEW b, NEW F, NEW o, NEW E, SoundFor(b, F, o, E)
  PROVE  Moves(b, E, E, b, F, o)
<1>1. Evolves(b, E, b, E)
  BY EvolvesSame DEF Alike
<1>2. E \subseteq Sectors
  BY Readings
<1> QED
  BY <1>1, <1>2 DEF Moves


\* adfRemoveEntry: the entry is gone, or nothing changes.
LEMMA Removing ==
  ASSUME NEW b, NEW F, NEW o, NEW E, SoundFor(b, F, o, E),
         NEW w, Runs(w, b, F) \/ WillFail(w, b, F),
         NEW d \in DirectoriesOf(b, E), NEW n \in Names,
         NEW s, s = adfNameToEntryBlk(b, d, n), s # 0,
         NEW w2, w2 = Remove(w, s, d, n), LeavesFiles(o, b, w2.blocks, w2.free)
  PROVE  \E E2 : E \ {s} \subseteq E2 /\ Moves(b, E, E2, w2.blocks, w2.free, o)
<1> DEFINE D == DirectoriesOf(b, E)
           h == Bucket[n]
           prev == Before(b, Listed(b, E, d, h), s)
           b1 == Point(b, d, h, prev, NextOf(b, s))
           S == {s} \cup DataIn(b, s)
<1>1. PICK rank \in [Sectors -> Nat], depth \in [Sectors \cup {Root} -> Nat] :
        Sound(b, F, o, E, rank, depth)
  BY DEF SoundFor
<1>2. BlocksFit(b) /\ Linked(b, E, D, rank) /\ d \in D
  BY <1>1 DEF Sound
<1> HIDE DEF D
<1>3. s \in E /\ DirOf(b, s) = d /\ HashOf(b, s) = h
  BY <1>2, FoundIs
<1>4. /\ prev = Before(b, Listed(b, E, d, Bucket[n]), s)
      /\ prev = Before(b, Listed(b, E, d, h), s)
      /\ b1 = Point(b, d, Bucket[n], prev, NextOf(b, s))
      /\ b1 = Point(b, d, h, prev, NextOf(b, s))
      /\ S = {s} \cup DataIn(b, s) /\ h = Bucket[n]
  OBVIOUS
<1> HIDE DEF prev, b1, S, h
<1>5. Failed(w2, b, F) \/ Removed(b, F, s, b1, S, w2)
  BY <1>2, <1>3, <1>4, RemoveIs
<1>6. CASE Failed(w2, b, F)
  <2>1. w2.blocks = b /\ w2.free = F
    BY <1>6, WorldIs
  <2>2. Moves(b, E, E, b, F, o)
    BY Idling
  <2> QED
    BY <2>1, <2>2
<1>7. CASE Removed(b, F, s, b1, S, w2)
  <2> DEFINE b2 == w2.blocks
             F2 == w2.free
  <2>1. /\ KindOf(b, s) = "dir" => ListsNothing(b, s)
        /\ F2 = F \cup S
        /\ b2 = b1 \/ b2 = Without(b1, S)
    BY <1>7 DEF Removed
  <2>2. LeavesFiles(o, b, b2, F2)
    OBVIOUS
  <2> HIDE DEF b2, F2
  <2>3. d = DirOf(b, s) /\ h = HashOf(b, s)
    BY <1>3
  <2>4. Moves(b, E, E \ {s}, b2, F2, o)
    BY <1>1, <1>3, <1>4, <2>1, <2>2, <2>3, Removal
  <2> QED
    BY <2>4 DEF b2, F2
<1> QED
  BY <1>5, <1>6, <1>7

\* adfRenameEntry of a name that is not taken: the entry has its new name, or
\* nothing changes.
LEMMA Moving ==
  ASSUME NEW b, NEW F, NEW o, NEW E, SoundFor(b, F, o, E),
         NEW w, Runs(w, b, F) \/ WillFail(w, b, F),
         NEW d \in DirectoriesOf(b, E), NEW n \in Names,
         NEW s, s = adfNameToEntryBlk(b, d, n), s # 0,
         NEW d2 \in DirectoriesOf(b, E), NEW n2 \in Names,
         adfNameToEntryBlk(b, d2, n2) \in {0, s}, d2 \notin Below(b, s),
         NEW w2, w2 = Rename(w, s, d, n, d2, n2), LeavesOpen(o, b, w2.blocks)
  PROVE  Moves(b, E, E, w2.blocks, w2.free, o)
<1> DEFINE D == DirectoriesOf(b, E)
           h2 == Bucket[n2]
<1>1. PICK rank \in [Sectors -> Nat], depth \in [Sectors \cup {Root} -> Nat] :
        Sound(b, F, o, E, rank, depth)
  BY DEF SoundFor
<1>2. BlocksFit(b) /\ Linked(b, E, D, rank) /\ d \in D /\ d2 \in D
  BY <1>1 DEF Sound
<1>3. s \in Below(b, s)
  <2>1. s \in E \cup {Root}
    <3> HIDE DEF D
    <3> QED
      BY <1>2, FoundIs
  <2> QED
    BY <1>2, <2>1, BelowIs
<1> HIDE DEF D
<1>4. s \in E /\ d = DirOf(b, s) /\ HashOf(b, s) = Bucket[n]
  BY <1>2, FoundIs
<1>5. Called(b, E \ {s}, d2, n2) = {}
  <2> DEFINE t == adfNameToEntryBlk(b, d2, n2)
  <2>1. t = adfNameToEntryBlk(b, d2, n2) /\ t \in {0, s}
    OBVIOUS
  <2> HIDE DEF t
  <2>2. /\ t = 0 => Called(b, E, d2, n2) = {}
        /\ t # 0 => Called(b, E, d2, n2) = {t}
    BY <1>2, <2>1, LookupIs
  <2>3. Called(b, E, d2, n2) \subseteq {s}
    BY <2>1, <2>2
  <2> QED
    BY <2>3 DEF Called
<1>6. d2 # s /\ h2 = Bucket[n2]
  BY <1>3
<1> HIDE DEF h2
<1>7. Failed(w2, b, F) \/ Relinks(b, F, E, rank, s, d2, n2, w2)
  <2>1. MayRename(b, E, s, d, n, d2, n2)
    BY <1>2, <1>4, <1>5, <1>6 DEF MayRename, D
  <2> QED
    BY <1>1, <2>1, RenameIs
<1>8. CASE Failed(w2, b, F)
  <2>1. w2.blocks = b /\ w2.free = F
    BY <1>8, WorldIs
  <2>2. Moves(b, E, E, b, F, o)
    BY Idling
  <2> QED
    BY <2>1, <2>2
<1>9. CASE w2.free = F /\ Relinked(b, E, rank, s, d2, n2, w2.blocks)
  <2> DEFINE b3 == w2.blocks
  <2>1. PICK b2 : /\ BlocksFit(b2) /\ Linked(b2, E \ {s}, DirectoriesOf(b, E), rank)
                  /\ Left(b, E, s, d2, n2, b2)
                  /\ \E last : /\ Ends(b2, E \ {s}, d2, Bucket[n2], last)
                               /\ b3 = Point(b2, d2, Bucket[n2], last, s)
    BY <1>9 DEF Relinked
  <2>2. PICK last : Ends(b2, E \ {s}, d2, h2, last) /\ b3 = Point(b2, d2, h2, last, s)
    BY <1>6, <2>1
  <2>3. LeavesOpen(o, b, b3)
    OBVIOUS
  <2> HIDE DEF b3
  <2>4. BlocksFit(b2) /\ Linked(b2, E \ {s}, DirectoriesOf(b, E), rank) /\ Left(b, E, s, d2, n2, b2)
    BY <2>1
  <2>5. Moves(b, E, E, b3, F, o)
    BY <1>1, <1>4, <1>5, <1>6, <2>2, <2>3, <2>4, Renaming
  <2> QED
    BY <1>9, <2>5 DEF b3
<1> QED
  BY <1>7, <1>8, <1>9 DEF Relinks


\* The entry s can be undeleted when all blocks but those of F1 are free.
MayUndelete(b, F, E, s, n, p, F1) ==
  /\ s \in F /\ KindOf(b, s) \in {"dir", "file"} /\ DataIn(b, s) \subseteq F
  /\ NextOf(b, s) = 0 /\ n = NameOf(b, s)
  /\ p \in DirectoriesOf(b, E) /\ p = DirOf(b, s)
  /\ KindOf(b, s) = "dir" => adfNameToEntryBlk(b, p, n) = 0
  /\ F1 = F \ ({s} \cup DataIn(b, s))
Undeleted(b, F, o, E, s, w2) ==
  \/ w2.ok = FALSE /\ w2.blocks = b /\ (KindOf(b, s) = "dir" => w2.free = F)
  \/ w2.ok = TRUE /\ Moves(b, E, E \cup {s}, w2.blocks, w2.free, o)

\* Undeleting: the entry is back at the end of its list, or no block changes.
LEMMA Undeleting ==
  ASSUME NEW b, NEW F, NEW o, NEW E, SoundFor(b, F, o, E),
         NEW s, NEW n, NEW p, NEW F1, MayUndelete(b, F, E, s, n, p, F1),
         NEW w, Runs(w, b, F1) \/ WillFail(w, b, F1),
         NEW w2, w2 = Insert(w, p, n, s), LeavesOpen(o, b, w2.blocks)
  PROVE  Undeleted(b, F, o, E, s, w2)
<1>0. /\ s \in F /\ KindOf(b, s) \in {"dir", "file"} /\ DataIn(b, s) \subseteq F
      /\ NextOf(b, s) = 0 /\ n = NameOf(b, s)
      /\ p \in DirectoriesOf(b, E) /\ p = DirOf(b, s)
      /\ KindOf(b, s) = "dir" => adfNameToEntryBlk(b, p, n) = 0
      /\ F1 = F \ ({s} \cup DataIn(b, s))
  BY DEF MayUndelete
<1> USE <1>0
<1> DEFINE D == DirectoriesOf(b, E)
           e == b[s]
<1>1. PICK rank \in [Sectors -> Nat], depth \in [Sectors \cup {Root} -> Nat] :
        Sound(b, F, o, E, rank, depth)
  BY DEF SoundFor
<1>2. /\ BlocksFit(b) /\ Linked(b, E, D, rank) /\ p \in D /\ F \in SUBSET Sectors
      /\ s \in Sectors /\ F1 \in SUBSET Sectors /\ D \subseteq Sectors \cup {Root}
      /\ s \notin E /\ E \subseteq Sectors
  BY <1>1 DEF Sound, Accounted, Linked
<1>3. Fits(s, e)
  BY <1>2 DEF BlocksFit, NoHeader, KindOf
<1>4. n \in Names
  BY <1>3 DEF Fits, HeaderSet, NameOf
<1>5. KindOf(b, s) = "dir" => Called(b, E, p, n) = {} /\ F1 \cup {s} = F
  <2> HIDE DEF D, e
  <2>1. KindOf(b, s) = "dir" => Called(b, E, p, n) = {}
    <3> DEFINE r == adfNameToEntryBlk(b, p, n)
    <3>1. r = adfNameToEntryBlk(b, p, n)
      OBVIOUS
    <3> HIDE DEF r
    <3>2. r = 0 => Called(b, E, p, n) = {}
      BY <1>2, <1>4, <3>1, LookupIs
    <3> QED
      BY <3>1, <3>2
  <2>2. KindOf(b, s) = "dir" => DataIn(b, s) = {}
    BY <1>3 DEF Fits, KindOf, DataIn, e
  <2> QED
    BY <2>1, <2>2
<1> HIDE DEF D
<1>6. Reinserted(b, F1, E, p, n, s, w2)
  <2> HIDE DEF e
  <2> QED
    BY <1>2, <1>4, InsertIs
<1>7. CASE Failed(w2, b, F1) /\ Called(b, E, p, n) # {}
  BY <1>5, <1>7, WorldIs DEF Undeleted
<1>8. CASE Failed(w2, b, F1 \cup {s})
  BY <1>5, <1>8, WorldIs DEF Undeleted
<1>9. CASE /\ w2.ok = TRUE /\ Called(b, E, p, n) = {} /\ w2.free = F1
           /\ Linking(b, E, p, n, s, w2.blocks)
  <2> DEFINE b2 == w2.blocks
             F2 == w2.free
  <2>1. PICK last : Ends(b, E, p, Bucket[n], last) /\ b2 = Point(b, p, Bucket[n], last, s)
    BY <1>9 DEF Linking
  <2>2. LeavesOpen(o, b, b2) /\ F2 = F1
    BY <1>9
  <2> HIDE DEF b2, F2
  <2>3. last # s /\ p # s
    <3>1. s # 0 /\ s # Root
      BY <1>2, SectorNumbers
    <3> QED
      BY <1>2, <2>1, <3>1 DEF Ends, Listed, D, DirectoriesOf
  <2>4. b2[s] = e /\ b2 = Put(b2, s, e)
    BY <1>2, <2>1, <2>3 DEF Point, Put, BlocksFit
  <2>5. Placed(b, E, p, n, s, e, b2)
    BY <2>1, <2>4 DEF Placed
  <2>6. Fresh(e)
    <3>1. KindOf(b, s) = "dir" => ListsNothing(b, s)
      BY <1>1, <1>2 DEF Sound, NothingStale
    <3> QED
      BY <3>1 DEF Fresh, ListsNothing, HeadOf, KindOf
  <2>7. Inserting(b, F, o, E, p, n, s, e, b2, F2)
    BY <1>3, <1>9, <2>2, <2>5, <2>6 DEF Inserting, DirOf, NameOf, NextOf, DataIn
  <2>8. Inserted(b, o, E, s, e, b2, F2)
    <3> HIDE DEF e
    <3> QED
      BY <2>7, Insertion
  <2>9. Moves(b, E, E \cup {s}, b2, F2, o)
    BY <1>2, <2>8 DEF Inserted, Moves
  <2> QED
    BY <1>9, <2>9 DEF b2, F2, Undeleted
<1> QED
  BY <1>6, <1>7, <1>8, <1>9 DEF Reinserted, Undeleted


-----------------------------------------------------------------------------
(* The steps; E are the entries before, those of K are entries afterwards.  *)

StepsTo(E, K) == \E E2 : K \subseteq E2 /\ Moves(blocks, E, E2, blocks', free', opened')

\* A careful call leaves open files alone.
LEMMA CarefulLeaves ==
  ASSUME CarefulPrograms, NEW w, Careful(w)
  PROVE  LeavesOpen(opened, blocks, w.blocks) /\ LeavesFiles(opened, blocks, w.blocks, w.free)
BY CarefulIs DEF LeavesOpen, LeavesFiles

\* A new directory.
LEMMA CreateDirSteps ==
  ASSUME CarefulPrograms, NEW E, SoundFor(blocks, free, opened, E),
         NEW d \in Directories, NEW n \in Names, adfCreateDir(d, n)
  PROVE  StepsTo(E, E)
<1>1. PICK k \in FailAt :
        LET w == Create(World(k), "dir", d, n)
        IN  Careful(w) /\ Becomes(w) /\ UNCHANGED opened
  BY DEF adfCreateDir
<1> DEFINE w2 == Create(World(k), "dir", d, n)
           w == World(k)
           s == Granted(w)
<1>2. /\ Careful(w2) /\ blocks' = w2.blocks /\ free' = w2.free /\ opened' = opened
      /\ w2 = Create(w, "dir", d, n) /\ s = Granted(w)
  BY <1>1 DEF Becomes
<1>3. Runs(w, blocks, free) \/ WillFail(w, blocks, free)
  BY Begins
<1> HIDE DEF w2, w, s
<1>4. LeavesOpen(opened, blocks, w2.blocks)
  BY <1>2, CarefulLeaves
<1>5. d \in DirectoriesOf(blocks, E)
  BY DirectoriesIs
<1>6. Made(blocks, free, opened, E, "dir", s, w2)
  BY <1>2, <1>3, <1>4, <1>5, Creating
<1>7. Moves(blocks, E, E, blocks, free, opened)
  BY Idling
<1>8. E \subseteq Sectors
  BY Readings
<1>9. \/ Moves(blocks, E, E, w2.blocks, w2.free, opened)
      \/ Moves(blocks, E, E \cup {s}, w2.blocks, w2.free, opened)
  BY <1>6, <1>7, <1>8 DEF Made, Moves
<1> QED
  BY <1>2, <1>9 DEF StepsTo

\* A file that is opened.
LEMMA FileOpenSteps ==
  ASSUME NEW E, SoundFor(blocks, free, opened, E),
         NEW d \in Directories, NEW n \in Names, adfFileOpen(d, n)
  PROVE  StepsTo(E, E)
<1> DEFINE s == adfNameToEntryBlk(blocks, d, n)
           o2 == Put(opened, s, blocks[s])
<1>1. /\ s # 0 /\ ~IsOpen(s) /\ blocks[s].kind = "file"
      /\ opened' = o2 /\ blocks' = blocks /\ free' = free
      /\ s = adfNameToEntryBlk(blocks, d, n) /\ o2 = Put(opened, s, blocks[s])
  BY DEF adfFileOpen, Openable, Put
<1>2. d \in DirectoriesOf(blocks, E)
  BY DirectoriesIs
<1>3. PICK rank \in [Sectors -> Nat], depth \in [Sectors \cup {Root} -> Nat] :
        Sound(blocks, free, opened, E, rank, depth)
  BY DEF SoundFor
<1> HIDE DEF s, o2
<1>4. s \in E
  <2> DEFINE D == DirectoriesOf(blocks, E)
  <2>1. BlocksFit(blocks) /\ Linked(blocks, E, D, rank) /\ d \in D
    BY <1>2, <1>3 DEF Sound
  <2> HIDE DEF D
  <2> QED
    BY <1>1, <2>1, FoundIs
<1>5. KindOf(blocks, s) = "file" /\ opened[s] = NoHeader
  BY <1>1 DEF KindOf, IsOpen
<1>6. SoundFor(blocks, free, o2, E)
  BY <1>1, <1>4, <1>5, Opening
<1>7. Moves(blocks, E, E, blocks, free, opened)
  BY Idling
<1>8. Moves(blocks, E, E, blocks, free, o2)
  BY <1>6, <1>7 DEF Moves
<1> QED
  BY <1>1, <1>8 DEF StepsTo

\* A file that is created and opened.
LEMMA FileOpenNewSteps ==
  ASSUME CarefulPrograms, NEW E, SoundFor(blocks, free, opened, E),
         NEW d \in Directories, NEW n \in Names, adfFileOpen_New(d, n)
  PROVE  StepsTo(E, E)
<1>1. PICK k \in FailAt :
        LET w == Create(World(k), "file", d, n)
            s == Granted(World(k))
        IN  /\ free # {} => Openable(s)
            /\ Careful(w) /\ Becomes(w)
            /\ opened' = IF w.ok THEN [opened EXCEPT ![s] = w.blocks[s]] ELSE opened
  BY DEF adfFileOpen_New
<1> DEFINE w2 == Create(World(k), "file", d, n)
           w == World(k)
           s == Granted(w)
           b2 == w2.blocks
           F2 == w2.free
           o2 == Put(opened, s, b2[s])
           E2 == E \cup {s}
<1>2. /\ Careful(w2) /\ blocks' = b2 /\ free' = F2
      /\ opened' = IF w2.ok THEN o2 ELSE opened
      /\ w2 = Create(w, "file", d, n) /\ s = Granted(w) /\ o2 = Put(opened, s, b2[s])
      /\ s \in E2 /\ E \subseteq E2
  BY <1>1 DEF Becomes, Put
<1>3. Runs(w, blocks, free) \/ WillFail(w, blocks, free)
  BY Begins
<1> HIDE DEF w2, w, s, o2
<1>4. LeavesOpen(opened, blocks, w2.blocks)
  BY <1>2, CarefulLeaves
<1>5. d \in DirectoriesOf(blocks, E)
  BY DirectoriesIs
<1>6. \/ w2.ok = FALSE /\ b2 = blocks /\ F2 = free
      \/ /\ w2.ok = TRUE /\ s \in Sectors /\ s \notin E /\ KindOf(b2, s) = "file"
         /\ SoundFor(b2, F2, opened, E2)
         /\ Evolves(blocks, E, b2, E2)
  <2>1. Made(blocks, free, opened, E, "file", s, w2)
    BY <1>2, <1>3, <1>4, <1>5, Creating
  <2> QED
    BY <2>1 DEF Made
<1> HIDE DEF b2, F2, E2
<1>7. CASE w2.ok = FALSE /\ b2 = blocks /\ F2 = free
  <2>1. Moves(blocks, E, E, blocks, free, opened)
    BY Idling
  <2> QED
    BY <1>2, <1>7, <2>1 DEF StepsTo
<1>8. CASE /\ w2.ok = TRUE /\ s \in Sectors /\ s \notin E /\ KindOf(b2, s) = "file"
           /\ SoundFor(b2, F2, opened, E2)
           /\ Evolves(blocks, E, b2, E2)
  <2>1. opened[s] = NoHeader
    <3>1. PICK rank \in [Sectors -> Nat], depth \in [Sectors \cup {Root} -> Nat] :
            Sound(blocks, free, opened, E, rank, depth)
      BY DEF SoundFor
    <3> QED
      BY <1>8, <3>1 DEF Sound, OpenFit
  <2>2. SoundFor(b2, F2, o2, E2)
    BY <1>2, <1>8, <2>1, Opening
  <2>3. E2 \subseteq Sectors
    BY <1>8, Readings
  <2>4. Moves(blocks, E, E2, b2, F2, o2)
    BY <1>8, <2>2, <2>3 DEF Moves
  <2> QED
    BY <1>2, <1>8, <2>4 DEF StepsTo
<1> QED
  BY <1>6, <1>7, <1>8


\* An open file is granted a block.
LEMMA FileWriteSteps ==
  ASSUME NEW E, SoundFor(blocks, free, opened, E), NEW s \in Sectors, adfFileWrite(s)
  PROVE  StepsTo(E, E)
<1> DEFINE t == Granted(World(0))
           x == [opened[s] EXCEPT !.data = {t}]
           o2 == Put(opened, s, x)
           b2 == Without(blocks, {t})
           F2 == free \ {t}
<1>1. /\ opened[s] # NoHeader /\ DataIn(opened, s) = {} /\ free # {}
      /\ blocks' = b2 /\ free' = F2
      /\ opened' = [opened EXCEPT ![s].data = {t}]
  BY DEF adfFileWrite, IsOpen, DataIn
<1>2. opened' = o2
  BY <1>1 DEF Put
<1>3. t \in free
  <2>1. free \in SUBSET Sectors
    BY Readings
  <2>2. World(0).free = free
    BY DEF World
  <2> QED
    BY <1>1, <2>1, <2>2, GrantedIs
<1>4. /\ x = [opened[s] EXCEPT !.data = {t}] /\ o2 = Put(opened, s, x)
      /\ b2 = Without(blocks, {t}) /\ F2 = free \ {t}
  OBVIOUS
<1> HIDE DEF t, x, o2, b2, F2
<1>5. SoundFor(b2, F2, o2, E) /\ Evolves(blocks, E, b2, E)
  BY <1>1, <1>3, <1>4, Granting
<1>6. E \subseteq Sectors
  BY Readings
<1>7. Moves(blocks, E, E, b2, F2, o2)
  BY <1>5, <1>6 DEF Moves
<1> QED
  BY <1>1, <1>2, <1>7 DEF StepsTo

\* A file is closed.
LEMMA FileCloseSteps ==
  ASSUME NEW E, SoundFor(blocks, free, opened, E), NEW s \in Sectors, adfFileClose(s)
  PROVE  StepsTo(E, E)
<1> DEFINE o2 == Put(opened, s, NoHeader)
           b2 == Put(blocks, s, opened[s])
<1>1. /\ opened[s] # NoHeader
      /\ blocks' = b2 /\ free' = free /\ opened' = o2
      /\ o2 = Put(opened, s, NoHeader) /\ b2 = Put(blocks, s, opened[s])
  BY DEF adfFileClose, IsOpen, Put
<1> HIDE DEF o2, b2
<1>2. SoundFor(b2, free, o2, E) /\ Evolves(blocks, E, b2, E)
  BY <1>1, Closing
<1>3. E \subseteq Sectors
  BY Readings
<1>4. Moves(blocks, E, E, b2, free, o2)
  BY <1>2, <1>3 DEF Moves
<1> QED
  BY <1>1, <1>4 DEF StepsTo

\* An entry is removed.
LEMMA RemoveEntrySteps ==
  ASSUME CarefulPrograms, NEW E, SoundFor(blocks, free, opened, E),
         NEW d \in Directories, NEW n \in Names, adfRemoveEntry(d, n)
  PROVE  StepsTo(E, E \ {adfNameToEntryBlk(blocks, d, n)})
<1> DEFINE s == adfNameToEntryBlk(blocks, d, n)
<1>1. PICK k \in FailAt :
        LET w == Remove(World(k), s, d, n)
        IN  Careful(w) /\ Becomes(w) /\ UNCHANGED opened
  BY DEF adfRemoveEntry
<1> DEFINE w == World(k)
           w2 == Remove(w, s, d, n)
<1>2. /\ Careful(w2) /\ blocks' = w2.blocks /\ free' = w2.free /\ opened' = opened
      /\ w2 = Remove(w, s, d, n) /\ s = adfNameToEntryBlk(blocks, d, n) /\ s # 0
  BY <1>1 DEF Becomes, adfRemoveEntry
<1>3. Runs(w, blocks, free) \/ WillFail(w, blocks, free)
  BY Begins
<1> HIDE DEF w2, w, s
<1>4. LeavesFiles(opened, blocks, w2.blocks, w2.free)
  BY <1>2, CarefulLeaves
<1>5. d \in DirectoriesOf(blocks, E)
  BY DirectoriesIs
<1>6. \E E2 : E \ {s} \subseteq E2 /\ Moves(blocks, E, E2, w2.blocks, w2.free, opened)
  BY <1>2, <1>3, <1>4, <1>5, Removing
<1> QED
  BY <1>2, <1>6 DEF StepsTo

\* An entry is renamed.
LEMMA RenameEntrySteps ==
  ASSUME CarefulPrograms, NEW E, SoundFor(blocks, free, opened, E),
         NEW d \in Directories, NEW n \in Names, NEW d2 \in Directories, NEW n2 \in Names,
         adfRenameEntry(d, n, d2, n2)
  PROVE  StepsTo(E, E)
<1> DEFINE s == adfNameToEntryBlk(blocks, d, n)
<1>1. PICK k \in FailAt :
        LET w == Rename(World(k), s, d, n, d2, n2)
        IN  Careful(w) /\ Becomes(w) /\ UNCHANGED opened
  BY DEF adfRenameEntry
<1> DEFINE w == World(k)
           w2 == Rename(w, s, d, n, d2, n2)
<1>2. /\ Careful(w2) /\ blocks' = w2.blocks /\ free' = w2.free /\ opened' = opened
      /\ w2 = Rename(w, s, d, n, d2, n2) /\ s = adfNameToEntryBlk(blocks, d, n) /\ s # 0
      /\ CarefulRename(s, d2, n2)
  BY <1>1 DEF Becomes, adfRenameEntry
<1>3. Runs(w, blocks, free) \/ WillFail(w, blocks, free)
  BY Begins
<1> HIDE DEF w2, w, s
<1>4. LeavesOpen(opened, blocks, w2.blocks)
  BY <1>2, CarefulLeaves
<1>5. d \in DirectoriesOf(blocks, E) /\ d2 \in DirectoriesOf(blocks, E)
  BY DirectoriesIs
<1>6. adfNameToEntryBlk(blocks, d2, n2) \in {0, s} /\ d2 \notin Below(blocks, s)
  BY <1>2 DEF CarefulRename, CarefulPrograms
<1>7. Moves(blocks, E, E, w2.blocks, w2.free, opened)
  BY <1>2, <1>3, <1>4, <1>5, <1>6, Moving
<1> QED
  BY <1>2, <1>7 DEF StepsTo

\* An entry is undeleted.
LEMMA UndelEntrySteps ==
  ASSUME CarefulPrograms, NEW E, SoundFor(blocks, free, opened, E),
         NEW s \in Sectors, adfUndelEntry(s)
  PROVE  StepsTo(E, E)
<1> DEFINE p == blocks[s].parent
           n == blocks[s].name
           S == {s} \cup DataIn(blocks, s)
           F1 == free \ S
<1>1. /\ s \in free /\ KindOf(blocks, s) \in {"dir", "file"}
      /\ CarefulUndelete(p, s) /\ opened' = opened
      /\ adfUndelFile(p, s) \/ adfUndelDir(p, s)
  BY DEF adfUndelEntry, adfGetDelEnt, KindOf
<1>2. PICK rank \in [Sectors -> Nat], depth \in [Sectors \cup {Root} -> Nat] :
        Sound(blocks, free, opened, E, rank, depth)
  BY DEF SoundFor
<1>3. Fits(s, blocks[s])
  BY <1>1, <1>2 DEF Sound, BlocksFit, NoHeader, KindOf
<1>4. /\ NextOf(blocks, s) = 0 /\ p \in DirectoriesOf(blocks, E)
      /\ n = NameOf(blocks, s) /\ p = DirOf(blocks, s)
      /\ KindOf(blocks, s) = "dir" => adfNameToEntryBlk(blocks, p, n) = 0
  BY <1>1, DirectoriesIs DEF CarefulUndelete, CarefulPrograms, NextOf, NameOf, DirOf, KindOf
<1>5. \E k \in FailAt :
        LET w == [World(k) EXCEPT !.free = F1]
            w2 == Insert(w, p, n, s)
        IN  /\ Careful(w2) /\ DataIn(blocks, s) \subseteq free
            /\ blocks' = w2.blocks
            /\ \/ KindOf(blocks, s) = "file" /\ free' = IF w2.ok THEN w2.free ELSE free
               \/ KindOf(blocks, s) = "dir" /\ free' = w2.free
  <2>1. CASE adfUndelFile(p, s)
    <3>1. PICK k \in FailAt :
            LET w2 == Insert(SetUsed(World(k), BlocksOf(World(k), s)), p, blocks[s].name, s)
            IN  Careful(w2) /\ blocks' = w2.blocks /\ free' = IF w2.ok THEN w2.free ELSE free
      BY <2>1 DEF adfUndelFile
    <3>2. SetUsed(World(k), BlocksOf(World(k), s)) = [World(k) EXCEPT !.free = F1]
      BY DEF SetUsed, BlocksOf, World, DataIn
    <3>3. KindOf(blocks, s) = "file" /\ DataIn(blocks, s) \subseteq free
      BY <2>1 DEF adfUndelFile, AllFree, KindOf, DataIn
    <3> QED
      BY <3>1, <3>2, <3>3
  <2>2. CASE adfUndelDir(p, s)
    <3>1. PICK k \in FailAt :
            LET w2 == Insert(SetUsed(World(k), {s}), p, blocks[s].name, s)
            IN  Careful(w2) /\ Becomes(w2)
      BY <2>2 DEF adfUndelDir
    <3>2. KindOf(blocks, s) = "dir" /\ DataIn(blocks, s) = {}
      BY <1>3, <2>2 DEF adfUndelDir, Fits, KindOf, DataIn
    <3>3. SetUsed(World(k), {s}) = [World(k) EXCEPT !.free = F1]
      BY <3>2 DEF SetUsed, World
    <3> QED
      BY <3>1, <3>2, <3>3 DEF Becomes
  <2> QED
    BY <1>1, <2>1, <2>2
<1>6. PICK k \in FailAt :
        LET w == [World(k) EXCEPT !.free = F1]
            w2 == Insert(w, p, n, s)
        IN  /\ Careful(w2) /\ DataIn(blocks, s) \subseteq free
            /\ blocks' = w2.blocks
            /\ \/ KindOf(blocks, s) = "file" /\ free' = IF w2.ok THEN w2.free ELSE free
               \/ KindOf(blocks, s) = "dir" /\ free' = w2.free
  BY <1>5
<1> DEFINE w == [World(k) EXCEPT !.free = F1]
           w2 == Insert(w, p, n, s)
<1>7. /\ Careful(w2) /\ DataIn(blocks, s) \subseteq free
      /\ blocks' = w2.blocks
      /\ \/ KindOf(blocks, s) = "file" /\ free' = IF w2.ok THEN w2.free ELSE free
         \/ KindOf(blocks, s) = "dir" /\ free' = w2.free
      /\ w2 = Insert(w, p, n, s) /\ F1 = free \ ({s} \cup DataIn(blocks, s))
      /\ w = [World(k) EXCEPT !.free = F1]
  BY <1>6
<1> HIDE DEF p, n, S, F1, w, w2
<1>8. Runs(w, blocks, F1) \/ WillFail(w, blocks, F1)
  BY <1>7, Begins, FreeIs
<1>9. LeavesOpen(opened, blocks, w2.blocks)
  BY <1>7, CarefulLeaves
<1>10. Undeleted(blocks, free, opened, E, s, w2)
  <2>1. MayUndelete(blocks, free, E, s, n, p, F1)
    BY <1>1, <1>4, <1>7 DEF MayUndelete
  <2> QED
    BY <1>7, <1>8, <1>9, <2>1, Undeleting
<1>11. CASE w2.ok = FALSE /\ w2.blocks = blocks /\ (KindOf(blocks, s) = "dir" => w2.free = free)
  <2>1. blocks' = blocks /\ free' = free
    BY <1>7, <1>11
  <2>2. Moves(blocks, E, E, blocks, free, opened)
    BY Idling
  <2> QED
    BY <1>1, <2>1, <2>2 DEF StepsTo
<1>12. CASE w2.ok = TRUE /\ Moves(blocks, E, E \cup {s}, w2.blocks, w2.free, opened)
  <2>1. free' = w2.free /\ blocks' = w2.blocks /\ opened' = opened
    BY <1>1, <1>7, <1>12
  <2> QED
    BY <1>12, <2>1 DEF StepsTo
<1> QED
  BY <1>10, <1>11, <1>12 DEF Undeleted


\* An entry is removed: only the one of that name is gone.
RemovesOnly(E) ==
  \E d \in Directories, n \in program.names :
    adfRemoveEntry(d, n) /\ StepsTo(E, E \ {adfNameToEntryBlk(blocks, d, n)})

\* Every step but those of the current directory leads to a sound volume, and
\* no step but a removal loses an entry.
LEMMA EveryStep ==
  ASSUME CarefulPrograms, program \in Programs, NEW E, SoundFor(blocks, free, opened, E),
         SalvageNext
  PROVE  (StepsTo(E, E) \/ RemovesOnly(E)) /\ program' = program
<1>1. program.names \subseteq Names
  <2>1. \A p \in Programs : p.names \subseteq Names
    BY DirAssumption
  <2> QED
    BY <2>1
<1>2. CASE Next
  <2>1. ASSUME NEW d \in Directories, NEW n \in program.names,
               adfCreateDir(d, n) \/ adfFileOpen(d, n) \/ adfFileOpen_New(d, n)
        PROVE  StepsTo(E, E)
    BY <1>1, <2>1, CreateDirSteps, FileOpenSteps, FileOpenNewSteps
  <2>2. ASSUME NEW d \in Directories, NEW n \in program.names, adfRemoveEntry(d, n)
        PROVE  RemovesOnly(E)
    <3>1. StepsTo(E, E \ {adfNameToEntryBlk(blocks, d, n)})
      BY <1>1, <2>2, RemoveEntrySteps
    <3> QED
      BY <2>2, <3>1 DEF RemovesOnly
  <2>3. ASSUME NEW d \in Directories, NEW d2 \in Directories,
               NEW n \in program.names, NEW n2 \in program.names, adfRenameEntry(d, n, d2, n2)
        PROVE  StepsTo(E, E)
    BY <1>1, <2>3, RenameEntrySteps
  <2>4. ASSUME NEW s \in Sectors, adfFileWrite(s) \/ adfFileClose(s)
        PROVE  StepsTo(E, E)
    BY <2>4, FileWriteSteps, FileCloseSteps
  <2> QED
    BY <1>2, <2>1, <2>2, <2>3, <2>4 DEF Next
<1>3. CASE \E s \in Sectors : adfUndelEntry(s)
  <2>1. PICK s \in Sectors : adfUndelEntry(s)
    BY <1>3
  <2>2. program' = program
    BY <2>1 DEF adfUndelEntry
  <2> QED
    BY <2>1, <2>2, UndelEntrySteps
<1> QED
  BY <1>2, <1>3 DEF SalvageNext

\* So a careful program keeps its current directory.
LEMMA CurrentIsKept ==
  ASSUME CarefulPrograms, NEW E, NEW D, D = DirectoriesOf(blocks, E), curDir \in D,
         StepsTo(E, E) \/ RemovesOnly(E), CarefulRemoval
  PROVE  \E K : K \subseteq E /\ StepsTo(E, K) /\ curDir \in K \cup {Root}
<1>1. curDir \in E \cup {Root}
  BY DEF DirectoriesOf
<1>2. CASE StepsTo(E, E)
  BY <1>1, <1>2
<1>3. CASE RemovesOnly(E)
  <2>1. PICK d \in Directories, n \in program.names :
          adfRemoveEntry(d, n) /\ StepsTo(E, E \ {adfNameToEntryBlk(blocks, d, n)})
    BY <1>3 DEF RemovesOnly
  <2>2. adfNameToEntryBlk(blocks, d, n) # curDir
    BY <2>1 DEF CarefulRemoval, CarefulPrograms
  <2> DEFINE K == E \ {adfNameToEntryBlk(blocks, d, n)}
  <2>3. K \subseteq E /\ StepsTo(E, K) /\ curDir \in K \cup {Root}
    BY <1>1, <2>1, <2>2
  <2> QED
    BY <2>3
<1> QED
  BY <1>2, <1>3

\* An empty volume is sound.
LEMMA EmptySound ==
  ASSUME NEW b, b = [s \in Sectors \cup {Root} |-> IF s = Root THEN RootBlock ELSE NoHeader],
         NEW o, o = [s \in Sectors |-> NoHeader]
  PROVE  SoundFor(b, Sectors, o, {})
<1> DEFINE rank == [s \in Sectors |-> 0]
           depth == [s \in Sectors \cup {Root} |-> 0]
<1>1. EmptyTable \in [Hashes -> Sectors \cup {0}]
  BY DEF EmptyTable
<1>2. /\ b = [s \in Sectors \cup {Root} |-> b[s]] /\ b[Root] = RootBlock
      /\ \A s \in Sectors : b[s] = NoHeader
  BY SectorNumbers
<1>3. BlocksFit(b)
  BY <1>1, <1>2 DEF BlocksFit, RootBlock
<1>4. rank \in [Sectors -> Nat] /\ depth \in [Sectors \cup {Root} -> Nat]
  OBVIOUS
<1>5. DirectoriesOf(b, {}) = {Root}
  BY DEF DirectoriesOf
<1>6. Linked(b, {}, {Root}, rank)
  <2>1. KindOf(b, Root) = "dir" /\ \A h \in Hashes : HeadOf(b, Root, h) = 0
    BY <1>2 DEF KindOf, HeadOf, RootBlock, EmptyTable
  <2> HIDE DEF rank
  <2> QED
    BY <1>4, <2>1 DEF Linked, InDirectory, HeadsFit, LinksFit, AllReached, OneWay, NamesApart
<1>7. Deep(b, {}, depth)
  BY <1>4 DEF Deep
<1>8. OpenFit(b, {}, o)
  BY DEF OpenFit, OnSectors
<1>9. Accounted(b, {}, Sectors, o)
  BY DEF Accounted
<1>10. NothingStale(b, {})
  BY <1>2 DEF NothingStale, KindOf, NoHeader
<1> HIDE DEF rank, depth
<1> QED
  BY <1>3, <1>4, <1>5, <1>6, <1>7, <1>8, <1>9, <1>10 DEF SoundFor, Sound

\* The volume is sound at first.
LEMMA SoundInit ==
  ASSUME CurInit
  PROVE  DirectoriesSound
<1>1. SoundFor(blocks, free, opened, {})
  BY EmptySound DEF CurInit, Init
<1>2. program \in Programs /\ curDir \in DirectoriesOf(blocks, {})
  BY DEF CurInit, Init, DirectoriesOf
<1> QED
  BY <1>1, <1>2 DEF DirectoriesSound

\* Where a program may go from its current directory.
LEMMA CurrentSteps ==
  ASSUME CarefulPrograms, program \in Programs, NEW E, SoundFor(blocks, free, opened, E),
         curDir \in DirectoriesOf(blocks, E),
         adfToRootDir \/ adfParentDir \/ \E n \in program.names : adfChangeDir(n)
  PROVE  curDir' \in DirectoriesOf(blocks, E)
<1>1. PICK rank \in [Sectors -> Nat], depth \in [Sectors \cup {Root} -> Nat] :
        Sound(blocks, free, opened, E, rank, depth)
  BY DEF SoundFor
<1> DEFINE D == DirectoriesOf(blocks, E)
<1>2. BlocksFit(blocks) /\ Linked(blocks, E, D, rank) /\ curDir \in D
  BY <1>1 DEF Sound
<1>3. CASE adfToRootDir
  BY <1>3 DEF adfToRootDir, DirectoriesOf
<1>4. CASE adfParentDir
  <2>1. curDir \in E /\ curDir' = DirOf(blocks, curDir)
    BY <1>2, <1>4 DEF adfParentDir, DirectoriesOf, DirOf
  <2> QED
    BY <1>2, <2>1 DEF Linked, InDirectory
<1>5. ASSUME NEW n \in program.names, adfChangeDir(n)
      PROVE  curDir' \in D
  <2> DEFINE s == adfNameToEntryBlk(blocks, curDir, n)
  <2>1. s # 0 /\ KindOf(blocks, s) = "dir" /\ curDir' = s
    BY <1>5 DEF adfChangeDir, CarefulEntry, CarefulPrograms, KindOf
  <2>2. s = adfNameToEntryBlk(blocks, curDir, n) /\ n \in Names
    BY DirAssumption
  <2> HIDE DEF s, D
  <2>3. s \in E
    BY <1>2, <2>1, <2>2, FoundIs
  <2> QED
    BY <2>1, <2>3 DEF D, DirectoriesOf
<1> QED
  BY <1>3, <1>4, <1>5

\* A directory that is still an entry after a step is still a directory.
LEMMA StaysDirectory ==
  ASSUME NEW b, NEW E, NEW E2, NEW b2, NEW F2, NEW o2, Moves(b, E, E2, b2, F2, o2),
         NEW d \in DirectoriesOf(b, E), d \in E2 \cup {Root}
  PROVE  d \in DirectoriesOf(b2, E2)
BY DEF Moves, DirectoriesOf, Evolves

\* Every step leads to a sound volume.
LEMMA SoundNext ==
  ASSUME CarefulPrograms, DirectoriesSound, [CurNext]_curVars
  PROVE  DirectoriesSound'
<1>1. PICK E \in SUBSET Sectors :
        SoundFor(blocks, free, opened, E) /\ curDir \in DirectoriesOf(blocks, E)
  BY DEF DirectoriesSound
<1>2. program \in Programs
  BY DEF DirectoriesSound
<1>3. CASE SalvageNext /\ CarefulRemoval /\ UNCHANGED curDir
  <2>1. (StepsTo(E, E) \/ RemovesOnly(E)) /\ program' = program
    <3>1. SoundFor(blocks, free, opened, E) /\ SalvageNext
      BY <1>1, <1>3
    <3> QED
      BY <1>2, <3>1, EveryStep
  <2>2. PICK K : K \subseteq E /\ StepsTo(E, K) /\ curDir \in K \cup {Root}
    BY <1>1, <1>3, <2>1, CurrentIsKept
  <2>3. PICK E2 : K \subseteq E2 /\ Moves(blocks, E, E2, blocks', free', opened')
    BY <2>2 DEF StepsTo
  <2>4. E2 \in SUBSET Sectors /\ SoundFor(blocks', free', opened', E2)
    BY <2>3 DEF Moves
  <2>5. curDir' \in DirectoriesOf(blocks', E2)
    <3>1. curDir \in E2 \cup {Root}
      BY <2>2, <2>3
    <3> QED
      BY <1>1, <1>3, <2>3, <3>1, StaysDirectory
  <2> QED
    BY <1>2, <2>1, <2>4, <2>5 DEF DirectoriesSound
<1>4. CASE adfToRootDir \/ adfParentDir \/ \E n \in program.names : adfChangeDir(n)
  <2>1. curDir' \in DirectoriesOf(blocks, E)
    BY <1>1, <1>2, <1>4, CurrentSteps
  <2>2. UNCHANGED vars
    BY <1>4 DEF adfToRootDir, adfParentDir, adfChangeDir
  <2> QED
    BY <1>1, <1>2, <2>1, <2>2 DEF DirectoriesSound, vars
<1>5. CASE UNCHANGED curVars
  BY <1>1, <1>2, <1>5 DEF DirectoriesSound, curVars, vars
<1> QED
  BY <1>3, <1>4, <1>5 DEF CurNext


-----------------------------------------------------------------------------
(* What the invariant says of the volume *)

\* The tree of a sound volume holds its entries.
TreeIn(b) ==
  UNION {{[id |-> s, kind |-> b[s].kind, dir |-> d, name |-> b[s].name] :
            s \in Children(b, d)} : d \in {c \in Below(b, Root) : b[c].kind = "dir"}}

\* It is that of the entries.
LEMMA TreeIs ==
  ASSUME NEW b, NEW F, NEW o, NEW E, SoundFor(b, F, o, E)
  PROVE  TreeIn(b) = TreeOf(b, E)
<1> DEFINE D == DirectoriesOf(b, E)
<1>1. PICK rank \in [Sectors -> Nat], depth \in [Sectors \cup {Root} -> Nat] :
        Sound(b, F, o, E, rank, depth)
  BY DEF SoundFor
<1>2. BlocksFit(b) /\ Linked(b, E, D, rank)
  BY <1>1 DEF Sound
<1>3. {c \in Below(b, Root) : b[c].kind = "dir"} = D
  BY Readings
<1> HIDE DEF D
<1>4. \A d \in D : Children(b, d) = {s \in E : DirOf(b, s) = d}
  BY <1>2, ChildrenIs DEF ChildrenOf
<1>5. \A s \in E : DirOf(b, s) \in D
  BY <1>2 DEF Linked, InDirectory
<1> DEFINE R(s, d) == [id |-> s, kind |-> b[s].kind, dir |-> d, name |-> b[s].name]
<1>6. \A s \in E : R(s, DirOf(b, s)) = RecordOf(b, s)
  BY DEF RecordOf, KindOf, NameOf
<1>7. TreeIn(b) = UNION {{R(s, d) : s \in Children(b, d)} : d \in D}
  BY <1>3 DEF TreeIn
<1> HIDE DEF R
<1>8. ASSUME NEW r \in TreeIn(b)
      PROVE  r \in TreeOf(b, E)
  <2>1. PICK d \in D : \E s \in Children(b, d) : r = R(s, d)
    BY <1>7, <1>8
  <2> QED
    BY <1>4, <1>6, <2>1 DEF TreeOf
<1>9. ASSUME NEW r \in TreeOf(b, E)
      PROVE  r \in TreeIn(b)
  <2>1. PICK s \in E : r = RecordOf(b, s)
    BY <1>9 DEF TreeOf
  <2>2. DirOf(b, s) \in D /\ s \in Children(b, DirOf(b, s)) /\ r = R(s, DirOf(b, s))
    BY <1>4, <1>5, <1>6, <2>1
  <2> QED
    BY <1>7, <2>2
<1> QED
  BY <1>8, <1>9

\* The tree of the blocks is that of the entries.
LEMMA EmptyTree ==
  ASSUME CurInit
  PROVE  Volume!Init
<1>1. SoundFor(blocks, free, opened, {})
  BY EmptySound DEF CurInit, Init
<1>2. TreeIn(blocks) = TreeOf(blocks, {})
  BY <1>1, TreeIs
<1>3. Tree = {}
  BY <1>2 DEF Tree, TreeIn, TreeOf, Directories
<1> QED
  BY <1>3 DEF Volume!Init

\* Every step is one of the tree of names, or leaves the tree alone.
LEMMA TreeSteps ==
  ASSUME CarefulPrograms, DirectoriesSound, [CurNext]_curVars
  PROVE  [Volume!Next]_Tree
<1>1. PICK E \in SUBSET Sectors : SoundFor(blocks, free, opened, E)
  BY DEF DirectoriesSound
<1>2. program \in Programs
  BY DEF DirectoriesSound
<1>3. CASE SalvageNext
  <2>1. StepsTo(E, E) \/ RemovesOnly(E)
    BY <1>1, <1>2, <1>3, EveryStep
  <2>2. PICK E2 : Moves(blocks, E, E2, blocks', free', opened')
    BY <2>1 DEF StepsTo, RemovesOnly
  <2>3. SoundFor(blocks', free', opened', E2) /\ Evolves(blocks, E, blocks', E2)
    BY <2>2 DEF Moves
  <2>4. Tree = TreeIn(blocks) /\ Tree' = TreeIn(blocks')
    BY DEF Tree, TreeIn, Directories
  <2>5. TreeIn(blocks) = TreeOf(blocks, E) /\ TreeIn(blocks') = TreeOf(blocks', E2)
    BY <1>1, <2>3, TreeIs
  <2>6. \/ Tree' = Tree
        \/ Volume!Creates(Tree, Tree') \/ Volume!Removes(Tree, Tree')
        \/ Volume!Renames(Tree, Tree')
    BY <2>3, <2>4, <2>5 DEF Evolves
  <2> QED
    BY <2>6 DEF Volume!Next
<1>4. CASE UNCHANGED vars
  BY <1>4 DEF vars, Tree, Directories
<1>5. SalvageNext \/ UNCHANGED vars
  BY DEF CurNext, adfToRootDir, adfParentDir, adfChangeDir, curVars
<1> QED
  BY <1>3, <1>4, <1>5

\* The blocks are well formed.
LEMMA SoundTypes ==
  ASSUME DirectoriesSound
  PROVE  TypeOK
<1>1. PICK E \in SUBSET Sectors : SoundFor(blocks, free, opened, E)
  BY DEF DirectoriesSound
<1>2. PICK rank \in [Sectors -> Nat], depth \in [Sectors \cup {Root} -> Nat] :
        Sound(blocks, free, opened, E, rank, depth)
  BY <1>1 DEF SoundFor
<1>3. Entries = E
  BY <1>1, DirectoriesIs
<1>4. /\ free \subseteq Sectors
      /\ \A s \in E : blocks[s] # NoHeader /\ (blocks[s] = NoHeader \/ Fits(s, blocks[s]))
      /\ \A s \in Sectors : opened[s] # NoHeader => KindOf(opened, s) = "file"
  BY <1>2 DEF Sound, Accounted, Linked, BlocksFit, OpenFit
<1>5. \A s \in E : blocks[s] \in HeaderSet
  BY <1>4 DEF Fits
<1> QED
  BY <1>3, <1>4, <1>5 DEF TypeOK, HeaderSet, IsOpen, KindOf

\* Every entry is found.
LEMMA SoundEntries ==
  ASSUME DirectoriesSound
  PROVE  EntriesFound /\ ListingsComplete
<1>1. PICK E \in SUBSET Sectors : SoundFor(blocks, free, opened, E)
  BY DEF DirectoriesSound
<1>2. PICK rank \in [Sectors -> Nat], depth \in [Sectors \cup {Root} -> Nat] :
        Sound(blocks, free, opened, E, rank, depth)
  BY <1>1 DEF SoundFor
<1> DEFINE D == DirectoriesOf(blocks, E)
<1>3. BlocksFit(blocks) /\ Linked(blocks, E, D, rank) /\ Directories = D
  BY <1>1, <1>2, DirectoriesIs DEF Sound
<1> HIDE DEF D
<1>4. ASSUME NEW d \in D, NEW s \in Children(blocks, d)
      PROVE  adfNameToEntryBlk(blocks, d, blocks[s].name) = s /\ blocks[s].parent = d
  <2> DEFINE n == NameOf(blocks, s)
             r == adfNameToEntryBlk(blocks, d, n)
  <2>1. s \in E /\ DirOf(blocks, s) = d
    BY <1>3, <1>4, ChildrenIs DEF ChildrenOf
  <2>2. n \in Names /\ r = adfNameToEntryBlk(blocks, d, n)
    BY <1>3, <2>1, EntryFits
  <2>3. s \in Called(blocks, E, d, n)
    BY <2>1 DEF Called, CapsOf, NameOf
  <2>4. n = blocks[s].name /\ blocks[s].parent = d
    BY <2>1 DEF NameOf, DirOf
  <2> HIDE DEF n, r
  <2>5. /\ r = 0 => Called(blocks, E, d, n) = {}
        /\ r # 0 => Called(blocks, E, d, n) = {r}
    BY <1>3, <2>2, LookupIs
  <2>6. r = s
    BY <2>3, <2>5
  <2> QED
    BY <2>2, <2>4, <2>6
<1>5. ASSUME NEW d \in D
      PROVE  adfGetDirEnt(blocks, d) = Children(blocks, d) /\ adfDirCheck(blocks, d) = {}
  BY <1>3, ListingIs, ChildrenIs
<1> QED
  BY <1>3, <1>4, <1>5 DEF EntriesFound, ListingsComplete

\* No block is lost or shared.
LEMMA SoundBlocks ==
  ASSUME DirectoriesSound
  PROVE  UsedExactly
<1>1. PICK E \in SUBSET Sectors : SoundFor(blocks, free, opened, E)
  BY DEF DirectoriesSound
<1>2. Accounted(blocks, E, free, opened)
  BY <1>1 DEF SoundFor, Sound
<1>3. Entries = E
  BY <1>1, DirectoriesIs
<1> QED
  BY <1>2, <1>3 DEF UsedExactly, Accounted, DataOf, DataIn, IsOpen


-----------------------------------------------------------------------------
(* Theorems *)

\* In every state the entries are a tree of lists in which every entry has its
\* place (the directories as adf_dir.c and adf_salv.c leave them).
THEOREM DirectoriesAreSound ==
  ASSUME CarefulPrograms
  PROVE  CurSpec => []DirectoriesSound
<1>1. CurInit => DirectoriesSound
  BY SoundInit
<1>2. DirectoriesSound /\ [CurNext]_curVars => DirectoriesSound'
  BY SoundNext
<1> QED
  BY <1>1, <1>2, PTL DEF CurSpec

\* The blocks of the entries are headers of entries, and the bitmap is one.
THEOREM DirTypeOK ==
  ASSUME CarefulPrograms
  PROVE  CurSpec => []TypeOK
<1>1. DirectoriesSound => TypeOK
  BY SoundTypes
<1> QED
  BY <1>1, DirectoriesAreSound, PTL

\* Every entry is found under its name by adfNameToEntryBlk, in the directory
\* its header names.
THEOREM EntriesAreFound ==
  ASSUME CarefulPrograms
  PROVE  CurSpec => []EntriesFound
<1>1. DirectoriesSound => EntriesFound
  BY SoundEntries
<1> QED
  BY <1>1, DirectoriesAreSound, PTL

\* adfGetDirEnt lists every entry of a directory: its check for links that run
\* in circles never cuts a list short, and adfDirCheck finds no error.
THEOREM ListingsAreComplete ==
  ASSUME CarefulPrograms
  PROVE  CurSpec => []ListingsComplete
<1>1. DirectoriesSound => ListingsComplete
  BY SoundEntries
<1> QED
  BY <1>1, DirectoriesAreSound, PTL

\* The blocks that are not free are those of the entries and of their data, and
\* no two entries share one.
THEOREM BlocksAreUsedExactly ==
  ASSUME CarefulPrograms
  PROVE  CurSpec => []UsedExactly
<1>1. DirectoriesSound => UsedExactly
  BY SoundBlocks
<1> QED
  BY <1>1, DirectoriesAreSound, PTL

\* The current directory (vol->curDirPtr) is a directory below the root,
\* whatever is created, moved, undeleted or removed, also above it, as long as
\* it is not itself removed: it is on its own a reason for the directories
\* above it not to be empty, and no call but a removal takes an entry away.
THEOREM CurrentStaysDirectory ==
  ASSUME CarefulPrograms
  PROVE  CurSpec => []CurrentIsDirectory
<1>1. DirectoriesSound => CurrentIsDirectory
  BY DirectoriesIs DEF DirectoriesSound, CurrentIsDirectory
<1> QED
  BY <1>1, DirectoriesAreSound, PTL

\* The calls of adf_dir.c on blocks are those on a tree of names: each adds,
\* removes or renames one entry, as it says, or does nothing.
THEOREM DirectoriesAreNamespace ==
  ASSUME CarefulPrograms
  PROVE  CurSpec => IsNamespace
<1>1. CurInit => Volume!Init
  BY EmptyTree
<1>2. DirectoriesSound /\ [CurNext]_curVars => [Volume!Next]_Tree
  BY TreeSteps
<1> QED
  BY <1>1, <1>2, DirectoriesAreSound, PTL DEF CurSpec, IsNamespace, Volume!Spec
=============================================================================
